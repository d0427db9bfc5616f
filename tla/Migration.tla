------------------------------- MODULE Migration -------------------------------
(***************************************************************************)
(* How a metadata process prepares the database that it shares with the    *)
(* others before it serves: the schema migrator                            *)
(* (internal/platform/postgres/migrate) and the root inode (ensureRootInode *)
(* of cmd/mds/app.go).  Several processes may do this at once, and any of  *)
(* them may go away in the middle.                                         *)
(*                                                                         *)
(* PostgreSQL is external: an INSERT ... ON CONFLICT DO NOTHING waits for a *)
(* transaction that has inserted the same version and is not over yet, and *)
(* what a transaction has done is gone when it does not commit.            *)
(***************************************************************************)
EXTENDS Integers, Sequences

CONSTANTS
    Processes,  \* the metadata processes
    Migrations  \* how many migration files the program has

ASSUME MigrationAssumption == Migrations \in Nat

VARIABLES
    versions,  \* mds_schema_migrations: the committed versions
    applied,   \* the migrations whose SQL was committed, in that order
    root,      \* whether the row of the root inode is there
    boot       \* where newApplication is: a step, and the file it is at

database == <<versions, applied, root>>
migrationVars == <<versions, applied, root, boot>>

-----------------------------------------------------------------------------
\* A file is named after its number, so that List sorts the files by it.
List == 1..Migrations

BootSteps == {"claim", "claimed", "checkRoot", "createRoot", "build", "over"}

MigrationTypeOK ==
    /\ versions \subseteq List
    /\ applied \in Seq(List)
    /\ root \in BOOLEAN
    /\ boot \in [Processes -> [pc : BootSteps, file : 1..(Migrations + 1)]]

Over == [pc |-> "over", file |-> 1]

\* up, once the table of versions is there: the step before the file, or after
\* the last one.
AtFile(file) ==
    [pc |-> IF file \in List THEN "claim" ELSE "checkRoot", file |-> file]

\* A new database, and every process starting.
MigrationInit ==
    /\ versions = {}
    /\ applied = <<>>
    /\ root = FALSE
    /\ boot = [p \in Processes |-> AtFile(1)]

BootTo(p, next) == boot' = [boot EXCEPT ![p] = next]

-----------------------------------------------------------------------------
\* Mutant: the version is looked up instead of being inserted.
claimWithoutLock(p) ==
    LET file == boot[p].file IN
    /\ boot[p].pc = "claim"
    /\ BootTo(p, IF file \in versions THEN AtFile(file + 1)
                 ELSE [pc |-> "claimed", file |-> file])
    /\ UNCHANGED database

\* The transaction inserts the version; it waits as long as another one has.  A
\* version that is there already is rolled back and the next file is taken.
claimMigration(p) ==
    LET file == boot[p].file IN
    /\ boot[p].pc = "claim"
    /\ \A q \in Processes : boot[q] # [pc |-> "claimed", file |-> file]
    /\ BootTo(p, IF file \in versions THEN AtFile(file + 1)
                 ELSE [pc |-> "claimed", file |-> file])
    /\ UNCHANGED database

\* The SQL of the migration and the commit.
applyMigration(p) ==
    /\ boot[p].pc = "claimed"
    /\ versions' = versions \cup {boot[p].file}
    /\ applied' = Append(applied, boot[p].file)
    /\ BootTo(p, AtFile(boot[p].file + 1))
    /\ UNCHANGED root

\* ensureRootInode looks for the root, and creates it where it is missing.  That
\* another process was faster is not an error.
checkRootInode(p) ==
    /\ boot[p].pc = "checkRoot"
    /\ BootTo(p, [boot[p] EXCEPT !.pc = IF root THEN "build" ELSE "createRoot"])
    /\ UNCHANGED database

createRootInode(p) ==
    /\ boot[p].pc = "createRoot"
    /\ root' = TRUE
    /\ BootTo(p, [boot[p] EXCEPT !.pc = "build"])
    /\ UNCHANGED <<versions, applied>>

\* Mutant: the transaction of a process that is gone stays open.
KeepClaim(p) ==
    /\ boot' = IF boot[p].pc = "claimed" THEN boot ELSE [boot EXCEPT ![p] = Over]
    /\ UNCHANGED database

\* The process is gone, or a step has failed: an open transaction is rolled back.
Rollback(p) ==
    /\ BootTo(p, Over)
    /\ UNCHANGED database

BootStep(p) ==
    \/ claimMigration(p)
    \/ applyMigration(p)
    \/ checkRootInode(p)
    \/ createRootInode(p)

\* The database is as a serving process takes it to be.
Prepared == root /\ versions = List /\ applied = [i \in List |-> i]
=============================================================================
