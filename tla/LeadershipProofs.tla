--------------------------- MODULE LeadershipProofs ---------------------------
(***************************************************************************)
(* Theorems about Leadership for every number of processes, terms, faults  *)
(* and migrations.                                                         *)
(***************************************************************************)
EXTENDS Leadership, FiniteSetTheorems, WellFoundedInduction, TLAPS

-----------------------------------------------------------------------------
(* What the steps of starting processes do to the database. *)

\* The versions in the database are a prefix of the files, applied in order.  A
\* process is at most one file beyond it, and beyond it only one process at a
\* time; past the files, all of them are applied.
Migrated ==
    /\ versions = 1..Len(applied)
    /\ Len(applied) <= Migrations
    /\ \A i \in 1..Len(applied) : applied[i] = i
    /\ \A p \in Processes :
          /\ boot[p].pc \in {"claim", "claimed"} =>
                boot[p].file <= Migrations /\ boot[p].file <= Len(applied) + 1
          /\ boot[p].pc = "claimed" => boot[p].file = Len(applied) + 1
          /\ boot[p].pc \in {"checkRoot", "createRoot", "build"} => Len(applied) = Migrations
          /\ boot[p].pc = "build" => root
    /\ \A p, q \in Processes : boot[p].pc = "claimed" /\ boot[q].pc = "claimed" => p = q

-----------------------------------------------------------------------------
\* A new database has the types, and no migration yet.
LEMMA NewDatabase == MigrationInit => MigrationTypeOK /\ Migrated
  <1> SUFFICES ASSUME MigrationInit PROVE MigrationTypeOK /\ Migrated
    OBVIOUS
  <1>1. AtFile(1) \in [pc : BootSteps, file : 1..(Migrations + 1)]
    BY MigrationAssumption DEF AtFile, BootSteps
  <1>2. boot \in [Processes -> [pc : BootSteps, file : 1..(Migrations + 1)]]
    BY <1>1 DEF MigrationInit
  <1>3. applied = << >> /\ versions = {} /\ root = FALSE /\ \A p \in Processes : boot[p] = AtFile(1)
    BY DEF MigrationInit
  <1>4. applied \in Seq(List) /\ Len(applied) = 0 /\ versions = 1..Len(applied)
    BY <1>3
  <1>5. /\ AtFile(1).file = 1 /\ AtFile(1).pc \in {"claim", "checkRoot"}
        /\ AtFile(1).pc = "claim" => 1 <= Migrations
        /\ AtFile(1).pc = "checkRoot" => Migrations = 0
    BY MigrationAssumption DEF AtFile, List
  <1>6. MigrationTypeOK
    BY <1>2, <1>3, <1>4, Zenon DEF MigrationTypeOK
  <1>7. Migrated
    BY <1>3, <1>4, <1>5, MigrationAssumption DEF Migrated
  <1>8. QED
    BY <1>6, <1>7

\* The steps of the migrator, and a process that goes or comes back, keep the
\* types of the database.
LEMMA MigrationTyped ==
    ASSUME MigrationTypeOK, Migrated, NEW p \in Processes
    PROVE  /\ UNCHANGED migrationVars => MigrationTypeOK'
           /\ BootTo(p, Over) /\ UNCHANGED database => MigrationTypeOK'
           /\ BootTo(p, AtFile(1)) /\ UNCHANGED database => MigrationTypeOK'
           /\ BootStep(p) => MigrationTypeOK'
  <1> USE DEF MigrationTypeOK, database
  <1>1. UNCHANGED migrationVars => MigrationTypeOK'
    BY DEF migrationVars
  <1>2. BootTo(p, Over) /\ UNCHANGED database => MigrationTypeOK'
    BY MigrationAssumption DEF BootTo, Over, BootSteps
  <1>3. \A f \in 1..(Migrations + 1) : AtFile(f) \in [pc : BootSteps, file : 1..(Migrations + 1)]
    BY MigrationAssumption DEF AtFile, BootSteps
  <1>4. BootTo(p, AtFile(1)) /\ UNCHANGED database => MigrationTypeOK'
    BY <1>3, MigrationAssumption DEF BootTo
  <1>5. BootStep(p) => MigrationTypeOK'
    <2> SUFFICES ASSUME BootStep(p) PROVE MigrationTypeOK'
      OBVIOUS
    <2>1. boot[p].pc \in BootSteps /\ boot[p].file \in 1..(Migrations + 1)
      OBVIOUS
    <2>2. CASE claimMigration(p)
      BY <1>3, <2>1, <2>2, MigrationAssumption, SMTT(30) DEF claimMigration, BootTo, List, BootSteps
    <2>3. CASE applyMigration(p)
      <3>1. boot[p].file \in List
        BY <2>1, <2>3, MigrationAssumption DEF applyMigration, Migrated, List
      <3>2. boot[p].file + 1 \in 1..(Migrations + 1)
        BY <3>1, MigrationAssumption DEF List
      <3>3. boot' \in [Processes -> [pc : BootSteps, file : 1..(Migrations + 1)]]
        BY <1>3, <2>3, <3>2 DEF applyMigration, BootTo
      <3>4. QED
        BY <2>3, <3>1, <3>3 DEF applyMigration
    <2>4. CASE checkRootInode(p)
      BY <2>1, <2>4 DEF checkRootInode, BootTo, BootSteps
    <2>5. CASE createRootInode(p)
      BY <2>1, <2>5 DEF createRootInode, BootTo, BootSteps
    <2>6. QED
      BY <2>2, <2>3, <2>4, <2>5 DEF BootStep
  <1>6. QED
    BY <1>1, <1>2, <1>4, <1>5

\* All the migrations and the root are there.
LEMMA AllApplied ==
    ASSUME MigrationTypeOK, Migrated
    PROVE  Prepared <=> root /\ Len(applied) = Migrations
  <1>1. applied \in [1..Len(applied) -> List] /\ Len(applied) \in Nat
    BY DEF MigrationTypeOK
  <1>2. ASSUME Len(applied) = Migrations
        PROVE  versions = List /\ applied = [i \in List |-> i]
    BY <1>1, <1>2 DEF Migrated, List
  <1>3. ASSUME versions = List PROVE Len(applied) = Migrations
    <2>1. 1..Len(applied) = 1..Migrations
      BY <1>3 DEF Migrated, List
    <2>2. Len(applied) <= Migrations
      BY DEF Migrated
    <2>3. CASE Len(applied) < Migrations
      <3>1. Migrations \in 1..Migrations /\ ~(Migrations \in 1..Len(applied))
        BY <1>1, <2>3, MigrationAssumption
      <3>2. QED
        BY <2>1, <3>1
    <2>4. Len(applied) \in Nat /\ ~(Len(applied) < Migrations)
      BY <1>1, <2>3
    <2>5. QED
      BY <2>2, <2>4, MigrationAssumption
  <1>4. QED
    BY <1>2, <1>3 DEF Prepared

\* What a process does to the database keeps the versions in order.
LEMMA BootStepKeeps ==
    ASSUME MigrationTypeOK, Migrated, NEW p \in Processes, BootStep(p)
    PROVE  Migrated' /\ (Prepared => Prepared')
  <1>1. Len(applied) \in Nat /\ boot[p].file \in Nat /\ boot[p].file >= 1
    BY MigrationAssumption DEF MigrationTypeOK
  <1>2. MigrationTypeOK'
    BY MigrationTyped
  <1>3. \A f \in Nat : AtFile(f).file = f /\ AtFile(f).pc \in {"claim", "checkRoot"}
                     /\ (AtFile(f).pc = "claim" <=> f \in List)
    BY DEF AtFile
  <1>4. CASE claimMigration(p)
    <2>1. UNCHANGED database
      BY <1>4 DEF claimMigration
    <2>2. boot' = [boot EXCEPT ![p] = IF boot[p].file \in versions THEN AtFile(boot[p].file + 1)
                                      ELSE [pc |-> "claimed", file |-> boot[p].file]]
      BY <1>4 DEF claimMigration, BootTo
    <2>3. boot[p].file <= Migrations /\ boot[p].file <= Len(applied) + 1
      BY <1>4 DEF claimMigration, Migrated
    <2>4. CASE boot[p].file \in versions
      <3>1. boot' = [boot EXCEPT ![p] = AtFile(boot[p].file + 1)]
        BY <2>2, <2>4
      <3>2. boot[p].file <= Len(applied)
        BY <1>1, <2>4 DEF Migrated
      <3>3. AtFile(boot[p].file + 1).pc = "checkRoot" => Len(applied) = Migrations
        BY <1>1, <1>3, <2>3, <3>2, MigrationAssumption, SMTT(30) DEF Migrated, List
      <3>4. \A q \in Processes : boot'[q] = IF q = p THEN AtFile(boot[p].file + 1) ELSE boot[q]
        BY <3>1 DEF MigrationTypeOK
      <3>5. AtFile(boot[p].file + 1).pc = "claim" => boot[p].file + 1 <= Migrations
        BY <1>1, <1>3 DEF List
      <3>6. /\ boot'[p].pc \in {"claim", "checkRoot"}
            /\ boot'[p].pc = "claim" => boot'[p].file <= Migrations /\ boot'[p].file <= Len(applied) + 1
            /\ boot'[p].pc = "checkRoot" => Len(applied) = Migrations
        BY <1>1, <1>3, <3>2, <3>3, <3>4, <3>5, SMTT(30)
      <3>7. QED
        BY <2>1, <3>4, <3>6 DEF Migrated, database, Prepared
    <2>5. CASE boot[p].file \notin versions
      <3>1. \A q \in Processes : boot'[q] = IF q = p THEN [pc |-> "claimed", file |-> boot[p].file]
                                            ELSE boot[q]
        BY <2>2, <2>5 DEF MigrationTypeOK
      <3>2. boot[p].file = Len(applied) + 1
        BY <1>1, <2>3, <2>5 DEF Migrated
      <3>3. \A q \in Processes : boot[q].pc # "claimed"
        <4>1. SUFFICES ASSUME NEW q \in Processes, boot[q].pc = "claimed" PROVE FALSE
          OBVIOUS
        <4>2. boot[q].file = Len(applied) + 1
          BY <4>1 DEF Migrated
        <4>3. boot[q] = [pc |-> "claimed", file |-> boot[p].file]
          BY <3>2, <4>1, <4>2 DEF MigrationTypeOK
        <4>4. QED
          BY <1>4, <4>3 DEF claimMigration
      <3>4. QED
        BY <1>1, <2>1, <2>3, <3>1, <3>2, <3>3 DEF Migrated, database, Prepared
    <2>6. QED
      BY <2>4, <2>5
  <1>5. CASE applyMigration(p)
    <2>1. boot[p].file = Len(applied) + 1 /\ boot[p].file <= Migrations
      BY <1>5 DEF applyMigration, Migrated
    <2>2. /\ Len(applied') = Len(applied) + 1
          /\ \A i \in 1..Len(applied) : applied'[i] = applied[i]
          /\ applied'[Len(applied) + 1] = Len(applied) + 1
      BY <1>5, <2>1 DEF applyMigration, MigrationTypeOK
    <2>3. versions' = 1..Len(applied')
      BY <1>1, <1>5, <2>1, <2>2 DEF applyMigration, Migrated
    <2>4. \A i \in 1..Len(applied') : applied'[i] = i
      BY <1>1, <2>2 DEF Migrated
    <2>5. \A q \in Processes : boot'[q] = IF q = p THEN AtFile(boot[p].file + 1) ELSE boot[q]
      BY <1>5 DEF applyMigration, BootTo, MigrationTypeOK
    <2>6. \A q \in Processes : q # p => boot[q].pc \notin {"claimed", "checkRoot", "createRoot", "build"}
      <3>1. \A q \in Processes : q # p => boot[q].pc # "claimed"
        BY <1>5 DEF applyMigration, Migrated
      <3>2. \A q \in Processes : boot[q].pc \notin {"checkRoot", "createRoot", "build"}
        BY <1>1, <2>1, MigrationAssumption DEF Migrated
      <3>3. QED
        BY <3>1, <3>2
    <2>7. \A q \in Processes : boot[q].file \in Nat
      BY DEF MigrationTypeOK
    <2>8. /\ AtFile(boot[p].file + 1).pc = "claim" => boot[p].file + 1 <= Migrations
          /\ AtFile(boot[p].file + 1).pc = "checkRoot" => Len(applied') = Migrations
          /\ AtFile(boot[p].file + 1).pc \in {"claim", "checkRoot"}
          /\ AtFile(boot[p].file + 1).file = Len(applied') + 1
      BY <1>1, <1>3, <2>1, <2>2, MigrationAssumption DEF List
    <2>9. \A q \in Processes :
            /\ boot'[q].pc \in {"claim", "claimed"} =>
                  boot'[q].file <= Migrations /\ boot'[q].file <= Len(applied') + 1
            /\ boot'[q].pc # "claimed"
            /\ boot'[q].pc \in {"checkRoot", "createRoot", "build"} => Len(applied') = Migrations
            /\ boot'[q].pc # "build"
      <3>1. TAKE q \in Processes
      <3>2. CASE q = p
        BY <1>1, <2>1, <2>2, <2>5, <2>8, <3>2, MigrationAssumption
      <3>3. CASE q # p
        <4>1. boot'[q] = boot[q]
          BY <2>5, <3>3
        <4>2. boot[q].pc = "claim" => boot[q].file <= Migrations /\ boot[q].file <= Len(applied) + 1
          BY DEF Migrated
        <4>3. QED
          BY <1>1, <2>2, <2>6, <2>7, <3>3, <4>1, <4>2
      <3>4. QED
        BY <3>2, <3>3
    <2>10. Len(applied') <= Migrations
      BY <2>1, <2>2
    <2>11. ~ Prepared
      BY <1>1, <2>1, AllApplied, MigrationAssumption
    <2>12. QED
      BY <2>3, <2>4, <2>9, <2>10, <2>11 DEF Migrated
  <1>6. CASE checkRootInode(p)
    <2>1. UNCHANGED database /\ boot[p].pc = "checkRoot"
      BY <1>6 DEF checkRootInode
    <2>2. \A q \in Processes :
             /\ q # p => boot'[q] = boot[q]
             /\ q = p => boot'[q].pc = (IF root THEN "build" ELSE "createRoot")
      BY <1>6 DEF checkRootInode, BootTo, MigrationTypeOK
    <2>3. QED
      BY <2>1, <2>2 DEF Migrated, database, Prepared
  <1>7. CASE createRootInode(p)
    <2>1. UNCHANGED <<versions, applied>> /\ root' = TRUE /\ boot[p].pc = "createRoot"
      BY <1>7 DEF createRootInode
    <2>2. \A q \in Processes :
             /\ q # p => boot'[q] = boot[q]
             /\ q = p => boot'[q].pc = "build"
      BY <1>7 DEF createRootInode, BootTo, MigrationTypeOK
    <2>3. QED
      BY <2>1, <2>2 DEF Migrated, Prepared
  <1>8. QED
    BY <1>4, <1>5, <1>6, <1>7 DEF BootStep

\* A process that is gone, or starts again, leaves the database as it is.
LEMMA BootMoves ==
    ASSUME MigrationTypeOK, Migrated, NEW p \in Processes, UNCHANGED database,
           BootTo(p, Over) \/ BootTo(p, AtFile(1))
    PROVE  Migrated' /\ (Prepared => Prepared')
  <1>1. Len(applied) \in Nat
    BY DEF MigrationTypeOK
  <1>2. Over.pc = "over" /\ AtFile(1).file = 1 /\ AtFile(1).pc \in {"claim", "checkRoot"}
        /\ (AtFile(1).pc = "claim" <=> 1 \in List)
    BY DEF Over, AtFile
  <1>3. \A q \in Processes : q # p => boot'[q] = boot[q]
    BY DEF BootTo, MigrationTypeOK
  <1>4. boot'[p] = Over \/ boot'[p] = AtFile(1)
    BY DEF BootTo, MigrationTypeOK
  <1>5. AtFile(1).pc = "checkRoot" => Len(applied) = Migrations
    BY <1>1, <1>2, MigrationAssumption DEF Migrated, List
  <1>6. AtFile(1).pc = "claim" => 1 <= Migrations
    BY <1>2 DEF List
  <1>7. /\ boot'[p].pc \in {"over", "claim", "checkRoot"}
        /\ boot'[p].pc = "claim" => boot'[p].file <= Migrations /\ boot'[p].file <= Len(applied) + 1
        /\ boot'[p].pc = "checkRoot" => Len(applied) = Migrations
    BY <1>1, <1>2, <1>4, <1>5, <1>6, MigrationAssumption
  <1>8. QED
    BY <1>3, <1>7 DEF Migrated, database, Prepared

-----------------------------------------------------------------------------
(* The processes together. *)

\* The database is in order, and prepared where somebody serves.
BootInv == Migrated /\ ServesPrepared

\* The generations that have begun and not ended.
Begun(p) == {g \in Generations : loops[p][g] \notin {"new", "done"}}

\* The supervisor of a process that starts or serves, for each place of its
\* elector: at most one generation has begun, and the elector knows which.
LoopOK(p) ==
    /\ app[p] \in {"starting", "exited"} =>
          elector[p] = "idle" /\ Begun(p) = {} /\ current[p] = 0
    /\ app[p] = "serving" =>
          /\ elector[p] \in {"joining", "leading"} => Begun(p) \subseteq {current[p]}
          /\ elector[p] = "stopping" =>
                Begun(p) \subseteq {waiting[p]["elector"]} /\ current[p] = 0
          /\ elector[p] \notin {"joining", "leading", "stopping"} =>
                Begun(p) = {} /\ current[p] = 0

LoopInv == \A p \in Processes : LoopOK(p)

\* A campaign has been won and the key not been given back.
Won == {"elected", "starting", "joining", "leading", "stopping"}

Oldest(p) == key[p] # 0 /\ \A q \in Processes : key[q] = 0 \/ key[p] <= key[q]

\* While its lease lives, a winner has the oldest key there is.
KeyOK(p) ==
    /\ elector[p] \in Won \cup {"campaign"} => lease[p] # "none"
    /\ elector[p] = "campaign" /\ term[p] # 0 /\ lease[p] = "live" => key[p] = term[p]
    /\ elector[p] \in Won /\ lease[p] = "live" => Oldest(p)

KeyInv ==
    /\ \A p \in Processes : key[p] <= revision
    /\ \A p, q \in Processes : key[p] = key[q] /\ key[p] # 0 => p = q
    /\ \A p \in Processes : KeyOK(p)

-----------------------------------------------------------------------------
(* Type correctness. *)

\* A set of revisions that is not empty has a smallest element.
LEMMA OldestKey ==
    ASSUME NEW T \in SUBSET Nat, T # {}
    PROVE  \E k \in T : \A j \in T : k <= j
  <1> DEFINE R == OpToRel(<, Nat)
  <1>1. IsWellFoundedOn(R, Nat)
    BY NatLessThanWellFounded, Zenon
  <1>2. \A x, y \in Nat : x < y => <<x, y>> \in R
    BY DEF OpToRel
  <1> HIDE DEF R
  <1>3. PICK k \in T : \A j \in T : ~(<<j, k>> \in R)
    BY <1>1, WFMin, Zenon
  <1>4. \A j \in T : k \in Nat /\ j \in Nat /\ ~(j < k)
    BY <1>2, <1>3, Zenon
  <1>5. QED
    BY <1>4

\* Cancelling generations leaves them in states of LoopStates.
LEMMA CancelAllType ==
    ASSUME TypeOK, NEW p \in Processes
    PROVE  CancelAll(p) \in [Processes -> [Generations -> LoopStates]]
  BY DEF TypeOK, CancelAll, Cancelled, LoopStates

\* The first state has the types.
LEMMA InitTyped == Init => TypeOK
  <1> SUFFICES ASSUME Init PROVE TypeOK
    OBVIOUS
  <1>1. MigrationTypeOK
    BY NewDatabase DEF Init
  <1>2. QED
    BY <1>1, LeadershipAssumption DEF Init, TypeOK, NoLoops, NoWait, Generations, Threads,
       ElectorStates, AppStates, LoopStates

\* The steps of the elector keep the types.
LEMMA ElectorTyped ==
    ASSUME TypeOK, NEW p \in Processes, ElectorStep(p), MigrationTypeOK'
    PROVE  TypeOK'
  <1> USE LeadershipAssumption DEF TypeOK, ElectorAt, etcd, ElectorStates
  <1>1. CASE NewSession(p)
    BY <1>1 DEF NewSession
  <1>2. CASE Campaign(p)
    BY <1>2 DEF Campaign
  <1>3. CASE Elected(p) \/ CampaignFails(p)
    BY <1>3, Zenon DEF Elected, CampaignFails
  <1>4. CASE CampaignCancelled(p)
    BY <1>4 DEF CampaignCancelled
  <1>5. CASE currentTerm(p)
    <2> DEFINE keys == {key[q] : q \in Processes} \ {0}
    <2>1. keys \in SUBSET Nat /\ keys \in SUBSET (0..MaxTerms)
      OBVIOUS
    <2>2. keys # {} => (CHOOSE k \in keys : \A j \in keys : k <= j) \in 0..MaxTerms
      BY <2>1, OldestKey, Zenon
    <2>3. term' \in [Processes -> 0..MaxTerms]
      BY <1>5, <2>2, ZenonT(60) DEF currentTerm
    <2>4. elector' \in [Processes -> ElectorStates]
      <3>1. \E to \in ElectorStates : elector' = [elector EXCEPT ![p] = to]
        BY <1>5, Zenon DEF currentTerm
      <3>2. QED
        BY <3>1
    <2>5. QED
      BY <1>5, <2>3, <2>4 DEF currentTerm
  <1>6. CASE OnStartedLeading(p)
    <2>1. PICK g \in Generations :
            /\ loops' = [loops EXCEPT ![p] = [h \in Generations |->
                            CASE h = g -> IF ctxDone[p] THEN "void" ELSE "made"
                              [] h = current[p] -> Cancelled(loops[p][h])
                              [] OTHER -> loops[p][h]]]
            /\ current' = [current EXCEPT ![p] = g]
            /\ waiting' = [waiting EXCEPT ![p] = [waiting[p] EXCEPT !["elector"] = current[p]]]
      BY <1>6, Zenon DEF OnStartedLeading, StartLeading
    <2>2. loops' \in [Processes -> [Generations -> LoopStates]]
      BY <2>1 DEF Cancelled, LoopStates
    <2>3. waiting' \in [Processes -> [Threads -> Generations \cup {0}]]
      BY <2>1 DEF Threads
    <2>4. current' \in [Processes -> Generations \cup {0}]
      BY <2>1
    <2>5. QED
      BY <1>6, <2>2, <2>3, <2>4, Zenon DEF OnStartedLeading
  <1>7. CASE LoopsStart(p)
    <2>1. loops' \in [Processes -> [Generations -> LoopStates]]
      BY <1>7 DEF LoopsStart, LoopStates
    <2>2. waiting' \in [Processes -> [Threads -> Generations \cup {0}]]
      BY <1>7 DEF LoopsStart, Threads
    <2>3. QED
      BY <1>7, <2>1, <2>2 DEF LoopsStart
  <1>8. CASE OnStoppedLeading(p)
    <2>1. loops' \in [Processes -> [Generations -> LoopStates]]
      BY <1>8, CancelAllType DEF OnStoppedLeading, StopLeading
    <2>2. waiting' \in [Processes -> [Threads -> Generations \cup {0}]]
      BY <1>8 DEF OnStoppedLeading, StopLeading, Threads
    <2>3. QED
      BY <1>8, <2>1, <2>2 DEF OnStoppedLeading, StopLeading
  <1>9. CASE Resign(p)
    <2>1. waiting' \in [Processes -> [Threads -> Generations \cup {0}]]
      BY <1>9 DEF Resign, Threads
    <2>2. QED
      BY <1>9, <2>1, SMTT(30) DEF Resign
  <1>10. CASE Close(p)
    <2>1. /\ \E to \in ElectorStates : elector' = [elector EXCEPT ![p] = to]
          /\ key' \in [Processes -> 0..MaxTerms]
          /\ lease' \in [Processes -> {"none", "live", "expired"}]
      <3>1. CASE ctxDone[p]
        BY <1>10, <3>1 DEF Close
      <3>2. CASE ~ ctxDone[p]
        <4>1. key' = [key EXCEPT ![p] = 0] /\ lease' = [lease EXCEPT ![p] = "none"]
          BY <1>10, <3>2 DEF Close
        <4>2. key' \in [Processes -> 0..MaxTerms] /\ lease' \in [Processes -> {"none", "live", "expired"}]
          BY <4>1
        <4>3. \E to \in ElectorStates : elector' = [elector EXCEPT ![p] = to]
          BY <1>10, <3>2 DEF Close
        <4>4. QED
          BY <4>2, <4>3, Zenon
      <3>3. QED
        BY <3>1, <3>2
    <2>2. elector' \in [Processes -> ElectorStates]
      BY <2>1
    <2>3. QED
      BY <1>10, <2>1, <2>2 DEF Close
  <1>11. QED
    BY <1>1, <1>2, <1>3, <1>4, <1>5, <1>6, <1>7, <1>8, <1>9, <1>10 DEF ElectorStep

\* Every step keeps the types, given that the migrations are in order.
LEMMA TypeStep == TypeOK /\ Migrated /\ [Next]_vars => TypeOK'
  <1> SUFFICES ASSUME TypeOK, Migrated, [Next]_vars PROVE TypeOK'
    OBVIOUS
  <1> USE LeadershipAssumption DEF etcd
  <1>1. MigrationTypeOK
    BY DEF TypeOK
  <1>2. ASSUME NEW p \in Processes, StopStep(p) \/ (\E g \in Generations : LoopsEnd(p, g))
                                    \/ SessionExpires(p) \/ LeaseLapses(p) \/ Fault(p),
               MigrationTypeOK'
        PROVE  TypeOK'
    <2>1. ASSUME StopLeading(p, "app")
          PROVE  /\ loops' \in [Processes -> [Generations -> LoopStates]]
                 /\ waiting' \in [Processes -> [Threads -> Generations \cup {0}]]
                 /\ current' \in [Processes -> Generations \cup {0}]
      <3>1. loops' \in [Processes -> [Generations -> LoopStates]]
        BY <2>1, CancelAllType DEF StopLeading
      <3>2. QED
        BY <2>1, <3>1, Zenon DEF StopLeading, TypeOK, Threads
    <2>2. CASE RunShutsDown(p)
      BY <1>2, <2>1, <2>2 DEF RunShutsDown, TypeOK, AppStates
    <2>3. CASE ServersStop(p)
      <3>1. waiting' \in [Processes -> [Threads -> Generations \cup {0}]]
        BY <2>3 DEF ServersStop, TypeOK, Threads
      <3>2. QED
        BY <1>2, <2>3, <3>1 DEF ServersStop, TypeOK, AppStates
    <2>4. CASE ElectorFailed(p) \/ ServerFails(p)
      <3>1. StopLeading(p, "app") /\ app' = [app EXCEPT ![p] = "returning"]
            /\ UNCHANGED <<key, revision, lease, sessionDone, elector, term, ctxDone>>
            /\ faults' \in 0..MaxFaults
        BY <2>4 DEF ElectorFailed, ServerFails, RunFails, TypeOK
      <3>2. QED
        BY <1>2, <2>1, <3>1 DEF TypeOK, AppStates
    <2>5. ASSUME NEW g \in Generations, LoopsEnd(p, g) PROVE TypeOK'
      <3>1. loops' \in [Processes -> [Generations -> LoopStates]]
        BY <2>5 DEF LoopsEnd, TypeOK, LoopStates
      <3>2. QED
        BY <1>2, <2>5, <3>1 DEF LoopsEnd, TypeOK
    <2>6. CASE SessionExpires(p) \/ SessionEnds(p)
      <3>1. /\ sessionDone' = [sessionDone EXCEPT ![p] = TRUE]
            /\ faults' \in 0..MaxFaults
            /\ UNCHANGED <<etcd, elector, term, app, ctxDone, current, waiting, loops>>
        BY <2>6 DEF SessionExpires, SessionEnds, TypeOK
      <3>2. QED
        BY <1>2, <3>1 DEF TypeOK
    <2>10. CASE LeaseLapses(p) \/ LeaseExpires(p)
      <3>1. /\ \E l \in {"none", "expired"} : lease' = [lease EXCEPT ![p] = l]
            /\ key' = [key EXCEPT ![p] = 0]
            /\ faults' \in 0..MaxFaults
            /\ UNCHANGED <<revision, sessionDone, elector, term, app, ctxDone, current, waiting, loops>>
        BY <2>10 DEF LeaseLapses, LeaseExpires, TypeOK
      <3>2. QED
        BY <1>2, <3>1 DEF TypeOK
    <2>7. CASE NewSessionFails(p)
      BY <1>2, <2>7 DEF NewSessionFails, ElectorAt, TypeOK, ElectorStates
    <2>8. CASE Shutdown(p)
      <3>1. loops' \in [Processes -> [Generations -> LoopStates]]
        BY <2>8, CancelAllType DEF Shutdown
      <3>2. QED
        BY <1>2, <2>8, <3>1 DEF Shutdown, TypeOK, CancelAll
    <2>9. QED
      BY <1>2, <2>2, <2>3, <2>4, <2>5, <2>6, <2>7, <2>8, <2>10, Zenon DEF StopStep, Fault
  <1>3. ASSUME NEW p \in Processes, Gone(p), faults' \in 0..MaxFaults PROVE TypeOK'
    <2>1. MigrationTypeOK'
      BY <1>1, <1>3, MigrationTyped DEF Gone, Rollback
    <2>2. NoLoops \in [Generations -> LoopStates] /\ NoWait \in [Threads -> Generations \cup {0}]
      BY DEF NoLoops, NoWait, LoopStates
    <2>3. QED
      BY <1>3, <2>1, <2>2 DEF Gone, TypeOK, AppStates, ElectorStates
  <1>4. ASSUME NEW p \in Processes, StartFails(p) \/ RunReturns(p) \/ Crash(p) PROVE TypeOK'
    <2>1. Gone(p) /\ faults' \in 0..MaxFaults
      BY <1>4 DEF StartFails, RunReturns, Crash, TypeOK
    <2>2. QED
      BY <1>3, <2>1
  <1>5. ASSUME NEW p \in Processes, StartStep(p) \/ Restart(p) PROVE TypeOK'
    <2>1. MigrationTypeOK'
      BY <1>1, <1>5, MigrationTyped DEF StartStep, Restart, PrepareDatabase, StartServing
    <2>2. QED
      BY <1>5, <2>1, Zenon DEF StartStep, Restart, PrepareDatabase, StartServing, TypeOK, AppStates
  <1>6. CASE UNCHANGED vars
    BY <1>1, <1>6 DEF vars, TypeOK, MigrationTypeOK
  <1>7. ASSUME NEW p \in Processes, ElectorStep(p), UNCHANGED migrationVars PROVE TypeOK'
    BY <1>1, <1>7, MigrationTyped, ElectorTyped
  <1>8. QED
    BY <1>1, <1>2, <1>4, <1>5, <1>6, <1>7, MigrationTyped, Zenon DEF Next

-----------------------------------------------------------------------------
(* The database. *)

\* A step of a process keeps the database in order, and the steps after which it
\* serves find the database prepared.
LEMMA BootKeeps == TypeOK /\ BootInv /\ [Next]_vars => BootInv'
  <1> SUFFICES ASSUME TypeOK, BootInv, [Next]_vars PROVE BootInv'
    OBVIOUS
  <1>1. MigrationTypeOK /\ Migrated /\ ServesPrepared
    BY DEF TypeOK, BootInv
  <1>2. ASSUME UNCHANGED migrationVars PROVE Migrated' /\ (Prepared => Prepared')
    BY <1>1, <1>2 DEF migrationVars, Migrated, Prepared
  <1>3. ASSUME NEW p \in Processes, Migrated', Prepared => Prepared',
               \A q \in Processes : q # p => app'[q] = app[q],
               app'[p] \notin {"starting", "exited"} => Prepared'
        PROVE  BootInv'
    BY <1>1, <1>3 DEF BootInv, ServesPrepared
  <1>4. ASSUME NEW p \in Processes, UNCHANGED migrationVars,
               app' = app \/ \E a \in AppStates :
                  app' = [app EXCEPT ![p] = a] /\ app[p] \notin {"starting", "exited"}
        PROVE  BootInv'
    <2>1. /\ \A q \in Processes : q # p => app'[q] = app[q]
          /\ app'[p] \notin {"starting", "exited"} => app[p] \notin {"starting", "exited"}
      BY <1>4 DEF TypeOK
    <2>2. QED
      BY <1>1, <1>2, <1>3, <1>4, <2>1 DEF ServesPrepared
  <1>5. ASSUME NEW p \in Processes, ElectorStep(p), UNCHANGED migrationVars PROVE BootInv'
    <2>1. app' = app
      BY <1>5 DEF ElectorStep, NewSession, Campaign, Elected, CampaignCancelled, CampaignFails,
         currentTerm, OnStartedLeading, LoopsStart, OnStoppedLeading, Resign, Close
    <2>2. QED
      BY <1>4, <1>5, <2>1
  <1>6. ASSUME NEW p \in Processes,
               StopStep(p) \/ (\E g \in Generations : LoopsEnd(p, g))
                          \/ SessionExpires(p) \/ LeaseLapses(p) \/ Fault(p),
               UNCHANGED migrationVars
        PROVE  BootInv'
    <2>1. app' = app \/ \E a \in AppStates :
             app' = [app EXCEPT ![p] = a] /\ app[p] \notin {"starting", "exited"}
      BY <1>6 DEF StopStep, Fault, LoopsEnd, SessionExpires, LeaseLapses, RunShutsDown, ServersStop,
         ElectorFailed, RunFails, NewSessionFails, LeaseExpires, SessionEnds, Shutdown, ServerFails,
         AppStates
    <2>2. QED
      BY <1>4, <1>6, <2>1
  <1>7. ASSUME NEW p \in Processes, Gone(p) PROVE BootInv'
    <2>1. Migrated' /\ (Prepared => Prepared')
      BY <1>1, <1>7, BootMoves DEF Gone, Rollback
    <2>2. QED
      BY <1>3, <1>7, <2>1 DEF Gone, TypeOK
  <1>8. ASSUME NEW p \in Processes, Restart(p) PROVE BootInv'
    <2>1. Migrated' /\ (Prepared => Prepared')
      BY <1>1, <1>8, BootMoves DEF Restart
    <2>2. QED
      BY <1>3, <1>8, <2>1 DEF Restart, TypeOK
  <1>9. ASSUME NEW p \in Processes, PrepareDatabase(p) PROVE BootInv'
    <2>1. Migrated' /\ (Prepared => Prepared')
      BY <1>1, <1>9, BootStepKeeps DEF PrepareDatabase
    <2>2. QED
      BY <1>3, <1>9, <2>1 DEF PrepareDatabase, TypeOK
  <1>10. ASSUME NEW p \in Processes, StartServing(p) PROVE BootInv'
    <2>1. Migrated' /\ (Prepared => Prepared')
      BY <1>1, <1>10, BootMoves DEF StartServing
    <2>2. Prepared
      BY <1>1, <1>10, AllApplied DEF StartServing, Migrated
    <2>3. QED
      BY <1>3, <1>10, <2>1, <2>2, SMTT(30) DEF StartServing, TypeOK
  <1>11. CASE UNCHANGED vars
    <2>1. UNCHANGED migrationVars /\ app' = app
      BY <1>11 DEF vars, migrationVars
    <2>2. QED
      BY <1>1, <1>2, <2>1 DEF BootInv, ServesPrepared
  <1>12. QED
    BY <1>5, <1>6, <1>7, <1>8, <1>9, <1>10, <1>11, Zenon
    DEF Next, StartStep, StartFails, RunReturns, Crash

-----------------------------------------------------------------------------
(* The generations of loops. *)

\* What does not touch a process keeps its supervisor as it is.
LEMMA LoopFrame ==
    ASSUME NEW q \in Processes, LoopOK(q), app'[q] = app[q], elector'[q] = elector[q],
           current'[q] = current[q], waiting'[q] = waiting[q], loops'[q] = loops[q]
    PROVE  LoopOK(q)'
  <1>1. Begun(q)' = Begun(q)
    BY DEF Begun
  <1>2. QED
    BY <1>1 DEF LoopOK

\* Cancelling generations neither begins nor ends one.
LEMMA CancelBegun ==
    ASSUME TypeOK, NEW p \in Processes, loops' = CancelAll(p)
    PROVE  Begun(p)' = Begun(p) /\ \A q \in Processes : q # p => loops'[q] = loops[q]
  <1>1. /\ loops'[p] = [g \in Generations |-> Cancelled(loops[p][g])]
        /\ \A q \in Processes : q # p => loops'[q] = loops[q]
    BY DEF TypeOK, CancelAll
  <1>2. \A g \in Generations : Cancelled(loops[p][g]) \in {"new", "done"} <=> loops[p][g] \in {"new", "done"}
    BY DEF Cancelled
  <1>3. QED
    BY <1>1, <1>2 DEF Begun

\* A step of the elector.
LEMMA ElectorLoops ==
    ASSUME TypeOK, LoopInv, NEW p \in Processes, ElectorStep(p)
    PROVE  LoopInv'
  <1> USE DEF TypeOK
  <1>1. LoopOK(p) /\ 0 \notin Generations /\ (\A q \in Processes : LoopOK(q))
    BY DEF LoopInv, Generations
  <1>2. UNCHANGED app /\ app[p] \notin {"starting", "exited"}
    BY Zenon DEF ElectorStep, NewSession, Campaign, Elected, CampaignCancelled, CampaignFails, ElectorAt,
       currentTerm, OnStartedLeading, LoopsStart, OnStoppedLeading, Resign, Close
  <1>3. \A q \in Processes : q # p => elector'[q] = elector[q]
    BY ZenonT(60) DEF ElectorStep, NewSession, Campaign, Elected, CampaignCancelled, CampaignFails, ElectorAt,
       currentTerm, OnStartedLeading, LoopsStart, OnStoppedLeading, Resign, Close
  <1>4. ASSUME LoopOK(p)',
               \A q \in Processes : q # p =>
                  current'[q] = current[q] /\ waiting'[q] = waiting[q] /\ loops'[q] = loops[q]
        PROVE  LoopInv'
    BY <1>1, <1>2, <1>3, <1>4, LoopFrame DEF LoopInv
  <1>5. ASSUME UNCHANGED <<current, waiting, loops>>,
               elector[p] \notin {"joining", "leading", "stopping"},
               elector'[p] \notin {"joining", "leading", "stopping"}
        PROVE  LoopInv'
    <2>1. Begun(p)' = Begun(p)
      BY <1>5 DEF Begun
    <2>2. LoopOK(p)'
      BY <1>1, <1>2, <1>5, <2>1 DEF LoopOK
    <2>3. QED
      BY <1>4, <1>5, <2>2
  <1>6. CASE NewSession(p) \/ Campaign(p) \/ Elected(p) \/ CampaignCancelled(p) \/ CampaignFails(p)
    <2>1. UNCHANGED <<current, waiting, loops>>
      BY <1>6 DEF NewSession, Campaign, Elected, CampaignCancelled, CampaignFails
    <2>2. elector[p] \in {"idle", "campaign"}
          /\ elector'[p] \notin {"joining", "leading", "stopping"}
      BY <1>6 DEF NewSession, Campaign, Elected, CampaignCancelled, CampaignFails, ElectorAt
    <2>3. QED
      BY <1>5, <2>1, <2>2
  <1>7. CASE currentTerm(p) \/ Close(p)
    <2>1. UNCHANGED <<current, waiting, loops>>
      BY <1>7, Zenon DEF currentTerm, Close
    <2>2. elector[p] \in {"elected", "close"}
          /\ elector'[p] \notin {"joining", "leading", "stopping"}
      BY <1>7, ZenonT(60) DEF currentTerm, Close, ElectorAt
    <2>3. QED
      BY <1>5, <2>1, <2>2
  <1>8. CASE OnStartedLeading(p)
    <2>1. PICK g \in Generations :
            /\ loops' = [loops EXCEPT ![p] = [h \in Generations |->
                            CASE h = g -> IF ctxDone[p] THEN "void" ELSE "made"
                              [] h = current[p] -> Cancelled(loops[p][h])
                              [] OTHER -> loops[p][h]]]
            /\ current' = [current EXCEPT ![p] = g]
            /\ waiting' = [waiting EXCEPT ![p] = [waiting[p] EXCEPT !["elector"] = current[p]]]
      BY <1>8, Zenon DEF OnStartedLeading, StartLeading
    <2>2. elector[p] = "starting" /\ elector'[p] = "joining"
      BY <1>8 DEF OnStartedLeading, ElectorAt
    <2>3. /\ \A q \in Processes : q # p =>
                current'[q] = current[q] /\ waiting'[q] = waiting[q] /\ loops'[q] = loops[q]
          /\ current'[p] = g
      BY <2>1
    <2>4. app[p] = "serving" => \A h \in Generations : h # g => loops'[p][h] \in {"new", "done"}
      <3>1. SUFFICES ASSUME app[p] = "serving", NEW h \in Generations, h # g
                     PROVE  loops'[p][h] \in {"new", "done"}
        OBVIOUS
      <3>2. loops[p][h] \in {"new", "done"} /\ h # current[p]
        BY <1>1, <2>2, <3>1, SMTT(30) DEF LoopOK, Begun
      <3>3. QED
        BY <2>1, <3>1, <3>2, SMTT(30)
    <2>5. app[p] = "serving" => Begun(p)' \subseteq {current'[p]}
      BY <2>3, <2>4, SMTT(30) DEF Begun
    <2>6. LoopOK(p)'
      BY <1>2, <2>2, <2>5 DEF LoopOK
    <2>7. QED
      BY <1>4, <2>3, <2>6
  <1>9. CASE LoopsStart(p)
    <2>1. /\ \A q \in Processes : q # p =>
                current'[q] = current[q] /\ waiting'[q] = waiting[q] /\ loops'[q] = loops[q]
          /\ current'[p] = current[p]
      BY <1>9 DEF LoopsStart
    <2>2. elector[p] = "joining" /\ elector'[p] = "leading"
      BY <1>9 DEF LoopsStart, ElectorAt
    <2>3. \A h \in Generations : loops'[p][h] \in {"new", "done"} <=> loops[p][h] \in {"new", "done"}
      BY <1>9, SMTT(30) DEF LoopsStart
    <2>4. Begun(p)' = Begun(p)
      BY <2>3, SMTT(30) DEF Begun
    <2>5. LoopOK(p)'
      BY <1>1, <1>2, <2>1, <2>2, <2>4, SMTT(30) DEF LoopOK
    <2>6. QED
      BY <1>4, <2>1, <2>5, Zenon
  <1>10. CASE OnStoppedLeading(p)
    <2>1. loops' = CancelAll(p)
      BY <1>10, SMTT(30) DEF OnStoppedLeading, StopLeading
    <2>2. Begun(p)' = Begun(p) /\ \A q \in Processes : q # p => loops'[q] = loops[q]
      BY <2>1, CancelBegun
    <2>3. /\ \A q \in Processes : q # p => current'[q] = current[q] /\ waiting'[q] = waiting[q]
          /\ current'[p] = 0 /\ waiting'[p]["elector"] = current[p]
      BY <1>10 DEF OnStoppedLeading, StopLeading, Threads
    <2>4. elector[p] = "leading" /\ elector'[p] = "stopping"
      BY <1>10, SMTT(30) DEF OnStoppedLeading, ElectorAt
    <2>5. LoopOK(p)'
      BY <1>1, <1>2, <2>2, <2>3, <2>4 DEF LoopOK
    <2>6. QED
      BY <1>4, <2>2, <2>3, <2>5
  <1>11. CASE Resign(p)
    <2>1. /\ \A q \in Processes : q # p =>
                current'[q] = current[q] /\ waiting'[q] = waiting[q] /\ loops'[q] = loops[q]
          /\ current'[p] = current[p] /\ loops'[p] = loops[p]
      BY <1>11 DEF Resign
    <2>2. elector[p] = "stopping" /\ elector'[p] = "close" /\ Joined(p, "elector")
      BY <1>11 DEF Resign, ElectorAt
    <2>3. waiting[p]["elector"] \notin Begun(p)
      BY <1>1, <2>2 DEF Joined, Begun
    <2>4. app[p] = "serving" => Begun(p) = {} /\ current[p] = 0
      BY <1>1, <2>2, <2>3, SMTT(30) DEF LoopOK
    <2>5. Begun(p)' = Begun(p)
      BY <2>1 DEF Begun
    <2>6. LoopOK(p)'
      BY <1>2, <2>1, <2>2, <2>4, <2>5, Zenon DEF LoopOK
    <2>7. QED
      BY <1>4, <2>1, <2>6, Zenon
  <1>12. QED
    BY <1>6, <1>7, <1>8, <1>9, <1>10, <1>11 DEF ElectorStep

\* Every step keeps at most one generation begun in a process that serves.
LEMMA LoopsKeep == TypeOK /\ LoopInv /\ [Next]_vars => LoopInv'
  <1> SUFFICES ASSUME TypeOK, LoopInv, [Next]_vars PROVE LoopInv'
    OBVIOUS
  <1>1. \A q \in Processes : LoopOK(q)
    BY DEF LoopInv
  <1>2. ASSUME NEW p \in Processes, LoopOK(p)',
               \A q \in Processes : q # p =>
                  /\ app'[q] = app[q] /\ elector'[q] = elector[q]
                  /\ current'[q] = current[q] /\ waiting'[q] = waiting[q] /\ loops'[q] = loops[q]
        PROVE  LoopInv'
    BY <1>1, <1>2, LoopFrame, Zenon DEF LoopInv
  <1>3. ASSUME NEW p \in Processes, StopLeading(p, "app"), UNCHANGED elector,
               app[p] \in {"serving", "draining"},
               \E a \in {"stopping", "returning"} : app' = [app EXCEPT ![p] = a]
        PROVE  LoopInv'
    <2>1. \A q \in Processes : q # p =>
             app'[q] = app[q] /\ current'[q] = current[q] /\ waiting'[q] = waiting[q]
      BY <1>3 DEF StopLeading, TypeOK
    <2>2. \A q \in Processes : q # p => loops'[q] = loops[q]
      BY <1>3, CancelBegun DEF StopLeading
    <2>3. app'[p] \in {"stopping", "returning"}
      BY <1>3 DEF TypeOK
    <2>4. LoopOK(p)'
      BY <2>3 DEF LoopOK
    <2>5. QED
      BY <1>2, <1>3, <2>1, <2>2, <2>4, Zenon
  <1>4. ASSUME NEW p \in Processes, StopStep(p) \/ ServerFails(p) PROVE LoopInv'
    <2>1. CASE RunShutsDown(p) \/ ElectorFailed(p) \/ ServerFails(p)
      BY <1>3, <2>1 DEF RunShutsDown, ElectorFailed, ServerFails, RunFails
    <2>2. CASE ServersStop(p)
      <3>1. /\ app'[p] = "draining"
            /\ \A q \in Processes : q # p => app'[q] = app[q] /\ waiting'[q] = waiting[q]
            /\ UNCHANGED <<elector, current, loops>>
        BY <2>2 DEF ServersStop, TypeOK
      <3>2. LoopOK(p)'
        BY <3>1 DEF LoopOK
      <3>3. QED
        BY <1>2, <3>1, <3>2
    <2>3. QED
      BY <1>4, <2>1, <2>2 DEF StopStep
  <1>5. ASSUME UNCHANGED <<app, elector, current, waiting, loops>> PROVE LoopInv'
    BY <1>1, <1>5, LoopFrame, SMTT(30) DEF LoopInv
  <1>6. ASSUME NEW p \in Processes, NEW g \in Generations, LoopsEnd(p, g) PROVE LoopInv'
    <2>1. UNCHANGED <<app, elector, current, waiting>>
      BY <1>6 DEF LoopsEnd
    <2>2. /\ \A q \in Processes : q # p => loops'[q] = loops[q]
          /\ \A h \in Generations : loops'[p][h] = IF h = g THEN "done" ELSE loops[p][h]
      BY <1>6 DEF LoopsEnd, TypeOK
    <2>3. Begun(p)' \subseteq Begun(p)
      BY <2>2, SMTT(30) DEF Begun
    <2>4. LoopOK(p)'
      BY <1>1, <2>1, <2>3 DEF LoopOK
    <2>5. QED
      BY <1>2, <2>1, <2>2, <2>4
  <1>7. ASSUME NEW p \in Processes, Shutdown(p) PROVE LoopInv'
    <2>1. UNCHANGED <<app, elector, current, waiting>>
      BY <1>7 DEF Shutdown
    <2>2. Begun(p)' = Begun(p) /\ \A q \in Processes : q # p => loops'[q] = loops[q]
      BY <1>7, CancelBegun DEF Shutdown
    <2>3. LoopOK(p)'
      BY <1>1, <2>1, <2>2 DEF LoopOK
    <2>4. QED
      BY <1>2, <2>1, <2>2, <2>3
  <1>8. ASSUME NEW p \in Processes,
               SessionExpires(p) \/ LeaseLapses(p) \/ LeaseExpires(p) \/ SessionEnds(p)
        PROVE  LoopInv'
    BY <1>5, <1>8 DEF SessionExpires, LeaseLapses, LeaseExpires, SessionEnds
  <1>9. ASSUME NEW p \in Processes, NewSessionFails(p) PROVE LoopInv'
    <2>1. /\ UNCHANGED <<app, current, waiting, loops>> /\ app[p] \notin {"starting", "exited"}
          /\ \A q \in Processes : q # p => elector'[q] = elector[q]
          /\ elector[p] = "idle" /\ elector'[p] \in {"exited", "failed"}
      BY <1>9 DEF NewSessionFails, ElectorAt, TypeOK
    <2>2. Begun(p)' = Begun(p)
      BY <2>1 DEF Begun
    <2>3. LoopOK(p)'
      BY <1>1, <2>1, <2>2 DEF LoopOK
    <2>4. QED
      BY <1>2, <2>1, <2>3
  <1>10. ASSUME NEW p \in Processes, Gone(p) PROVE LoopInv'
    <2>1. /\ app'[p] = "exited" /\ elector'[p] = "idle" /\ current'[p] = 0 /\ loops'[p] = NoLoops
          /\ \A q \in Processes : q # p =>
                /\ app'[q] = app[q] /\ elector'[q] = elector[q]
                /\ current'[q] = current[q] /\ waiting'[q] = waiting[q] /\ loops'[q] = loops[q]
      BY <1>10 DEF Gone, TypeOK
    <2>2. Begun(p)' = {}
      BY <2>1 DEF Begun, NoLoops
    <2>3. LoopOK(p)'
      BY <2>1, <2>2, SMTT(30) DEF LoopOK
    <2>4. QED
      BY <1>2, <2>1, <2>3
  <1>11. ASSUME NEW p \in Processes, Restart(p) \/ StartServing(p) PROVE LoopInv'
    <2>1. /\ UNCHANGED <<elector, current, waiting, loops>>
          /\ app[p] \in {"starting", "exited"} /\ app'[p] \in {"starting", "serving"}
          /\ \A q \in Processes : q # p => app'[q] = app[q]
      BY <1>11 DEF Restart, StartServing, TypeOK
    <2>2. Begun(p)' = Begun(p)
      BY <2>1, SMTT(30) DEF Begun
    <2>3. LoopOK(p)'
      BY <1>1, <2>1, <2>2 DEF LoopOK
    <2>4. QED
      BY <1>2, <2>1, <2>3, SMTT(30)
  <1>12. ASSUME NEW p \in Processes, PrepareDatabase(p) PROVE LoopInv'
    BY <1>5, <1>12 DEF PrepareDatabase
  <1>13. CASE UNCHANGED vars
    BY <1>5, <1>13 DEF vars
  <1>14. QED
    BY <1>4, <1>6, <1>7, <1>8, <1>9, <1>10, <1>11, <1>12, <1>13, ElectorLoops, Zenon
    DEF Next, StartStep, StartFails, RunReturns, Crash, Fault

-----------------------------------------------------------------------------
(* The campaign keys. *)

\* A step of p that creates no key keeps the keys in order, if p itself stays so.
LEMMA KeyFrame ==
    ASSUME TypeOK, KeyInv, NEW p \in Processes, KeyOK(p)',
           revision' = revision, key' = key \/ key' = [key EXCEPT ![p] = 0],
           \A q \in Processes : q # p =>
              elector'[q] = elector[q] /\ lease'[q] = lease[q] /\ term'[q] = term[q]
    PROVE  KeyInv'
  <1>1. \A q \in Processes : key[q] \in Nat /\ revision \in Nat
    BY DEF TypeOK
  <1>2. \A q \in Processes : (q # p => key'[q] = key[q]) /\ (key'[q] = key[q] \/ key'[q] = 0)
    BY DEF TypeOK
  <1>3. \A q \in Processes : key'[q] <= revision'
    BY <1>1, <1>2 DEF KeyInv
  <1>4. \A q, r \in Processes : key'[q] = key'[r] /\ key'[q] # 0 => q = r
    BY <1>2, SMTT(30) DEF KeyInv
  <1>5. ASSUME NEW q \in Processes, q # p PROVE KeyOK(q)'
    <2>1. KeyOK(q) /\ key'[q] = key[q]
      BY <1>2, <1>5 DEF KeyInv
    <2>2. Oldest(q) => Oldest(q)'
      BY <1>2, <2>1 DEF Oldest
    <2>3. QED
      BY <1>5, <2>1, <2>2, SMTT(30) DEF KeyOK
  <1>6. QED
    BY <1>3, <1>4, <1>5, SMTT(30) DEF KeyInv

\* A new key is younger than all the others.
LEMMA CampaignKey ==
    ASSUME TypeOK, KeyInv, NEW p \in Processes, Campaign(p)
    PROVE  KeyInv'
  <1>1. /\ revision \in Nat /\ revision' = revision + 1
        /\ \A q \in Processes : key[q] \in Nat /\ key[q] <= revision
        /\ \A q \in Processes : key'[q] = IF q = p THEN revision + 1 ELSE key[q]
        /\ \A q \in Processes : q # p => elector'[q] = elector[q] /\ term'[q] = term[q]
        /\ term'[p] = revision + 1
        /\ elector'[p] = "campaign" /\ lease' = lease /\ lease[p] = "live"
    BY SMTT(30) DEF Campaign, ElectorAt, TypeOK, KeyInv
  <1>2. \A q \in Processes : key'[q] <= revision'
    BY <1>1
  <1>3. \A q, r \in Processes : key'[q] = key'[r] /\ key'[q] # 0 => q = r
    <2>1. TAKE q, r \in Processes
    <2>2. key[q] = key[r] /\ key[q] # 0 => q = r
      BY DEF KeyInv
    <2>3. QED
      BY <1>1, <2>2
  <1>4. KeyOK(p)'
    BY <1>1 DEF KeyOK, Won
  <1>5. ASSUME NEW q \in Processes, q # p PROVE KeyOK(q)'
    <2>1. KeyOK(q) /\ key'[q] = key[q]
      BY <1>1, <1>5 DEF KeyInv
    <2>2. Oldest(q) => Oldest(q)'
      BY <1>1, <2>1 DEF Oldest
    <2>3. QED
      BY <1>1, <1>5, <2>1, <2>2, SMTT(30) DEF KeyOK
  <1>6. QED
    BY <1>2, <1>3, <1>4, <1>5 DEF KeyInv

\* A step of the elector.
LEMMA ElectorKeys ==
    ASSUME TypeOK, KeyInv, NEW p \in Processes, ElectorStep(p)
    PROVE  KeyInv'
  <1> USE DEF TypeOK
  <1>1. KeyOK(p)
    BY DEF KeyInv
  <1>2. ASSUME UNCHANGED etcd, elector[p] \in Won, elector'[p] \in Won PROVE KeyOK(p)'
    <2>1. Oldest(p) => Oldest(p)'
      BY <1>2 DEF Oldest, etcd
    <2>2. QED
      BY <1>1, <1>2, <2>1, Zenon DEF KeyOK, etcd, Won
  <1>3. ASSUME elector'[p] \notin Won \cup {"campaign"} PROVE KeyOK(p)'
    BY <1>3, Zenon DEF KeyOK
  <1>4. CASE NewSession(p)
    <2>1. /\ revision' = revision /\ key' = key /\ term'[p] = 0
          /\ elector'[p] \in {"campaign", "exited"}
          /\ elector'[p] = "campaign" => lease'[p] = "live"
          /\ \A q \in Processes : q # p =>
                elector'[q] = elector[q] /\ lease'[q] = lease[q] /\ term'[q] = term[q]
      BY <1>4 DEF NewSession, ElectorAt
    <2>2. KeyOK(p)'
      BY <2>1, Zenon DEF KeyOK, Won
    <2>3. QED
      BY <2>1, <2>2, KeyFrame, Zenon
  <1>5. CASE Elected(p)
    <2>1. /\ UNCHANGED <<etcd, term>> /\ elector[p] = "campaign" /\ elector'[p] = "elected"
          /\ \A q \in Processes : q # p => elector'[q] = elector[q]
          /\ term[p] # 0 /\ \A q \in Processes : key[q] = 0 \/ term[p] <= key[q]
      BY <1>5 DEF Elected, ElectorAt
    <2>2. lease[p] = "live" => Oldest(p)
      BY <1>1, <2>1 DEF KeyOK, Oldest
    <2>3. Oldest(p) => Oldest(p)'
      BY <2>1 DEF Oldest, etcd
    <2>4. KeyOK(p)'
      BY <1>1, <2>1, <2>2, <2>3 DEF KeyOK, Won, etcd
    <2>5. QED
      BY <2>1, <2>4, KeyFrame DEF etcd
  <1>6. CASE CampaignCancelled(p) \/ CampaignFails(p)
    <2>1. /\ UNCHANGED <<revision, lease, term>> /\ elector'[p] \in {"close", "failed"}
          /\ key' = key \/ key' = [key EXCEPT ![p] = 0]
          /\ \A q \in Processes : q # p => elector'[q] = elector[q]
      BY <1>6 DEF CampaignCancelled, CampaignFails, ElectorAt, etcd
    <2>2. QED
      BY <1>3, <2>1, KeyFrame DEF Won
  <1>7. CASE currentTerm(p)
    <2>1. /\ UNCHANGED etcd /\ elector[p] = "elected"
          /\ elector'[p] \in {"close", "failed", "starting"}
          /\ \A q \in Processes : q # p => elector'[q] = elector[q] /\ term'[q] = term[q]
      BY <1>7, ZenonT(60) DEF currentTerm, ElectorAt
    <2>2. KeyOK(p)'
      BY <1>2, <1>3, <2>1 DEF Won
    <2>3. QED
      BY <2>1, <2>2, KeyFrame, Zenon DEF etcd
  <1>8. CASE OnStartedLeading(p) \/ LoopsStart(p) \/ OnStoppedLeading(p)
    <2>1. /\ UNCHANGED <<etcd, term>>
          /\ elector[p] \in Won /\ elector'[p] \in Won
          /\ \A q \in Processes : q # p => elector'[q] = elector[q]
      BY <1>8 DEF OnStartedLeading, LoopsStart, OnStoppedLeading, ElectorAt, Won
    <2>2. QED
      BY <1>2, <2>1, KeyFrame DEF etcd
  <1>9. CASE Resign(p)
    <2>1. /\ UNCHANGED <<revision, lease, term>> /\ elector'[p] = "close"
          /\ key' = key \/ key' = [key EXCEPT ![p] = 0]
          /\ \A q \in Processes : q # p => elector'[q] = elector[q]
      BY <1>9 DEF Resign, ElectorAt
    <2>2. QED
      BY <1>3, <2>1, KeyFrame DEF Won
  <1>10. CASE Close(p)
    <2>1. /\ UNCHANGED <<revision, term>> /\ elector'[p] \in {"idle", "failed"}
          /\ \A q \in Processes : q # p => elector'[q] = elector[q]
      BY <1>10 DEF Close, ElectorAt
    <2>2. /\ key' = key \/ key' = [key EXCEPT ![p] = 0]
          /\ \A q \in Processes : q # p => lease'[q] = lease[q]
      BY <1>10 DEF Close
    <2>3. QED
      BY <1>3, <2>1, <2>2, KeyFrame, Zenon DEF Won
  <1>11. QED
    BY <1>4, <1>5, <1>6, <1>7, <1>8, <1>9, <1>10, CampaignKey DEF ElectorStep

\* Every step keeps the winner's key the oldest, as long as its lease lives.
LEMMA KeysKeep == TypeOK /\ LoopInv /\ KeyInv /\ [Next]_vars => KeyInv'
  <1> SUFFICES ASSUME TypeOK, LoopInv, KeyInv, [Next]_vars PROVE KeyInv'
    OBVIOUS
  <1>1. \A q \in Processes : KeyOK(q) /\ LoopOK(q)
    BY DEF KeyInv, LoopInv
  <1>2. ASSUME UNCHANGED <<key, revision, lease, elector, term>> PROVE KeyInv'
    BY <1>2 DEF KeyInv, KeyOK, Oldest
  <1>3. ASSUME NEW p \in Processes, StopStep(p) \/ ServerFails(p) PROVE KeyInv'
    BY <1>2, <1>3 DEF StopStep, RunShutsDown, ServersStop, ElectorFailed, ServerFails, RunFails, etcd
  <1>4. ASSUME NEW p \in Processes,
               (\E g \in Generations : LoopsEnd(p, g)) \/ SessionExpires(p) \/ SessionEnds(p)
               \/ Shutdown(p) \/ PrepareDatabase(p) \/ StartServing(p) \/ Restart(p)
        PROVE  KeyInv'
    BY <1>2, <1>4 DEF LoopsEnd, SessionExpires, SessionEnds, Shutdown, PrepareDatabase, StartServing,
       Restart, etcd
  <1>5. ASSUME NEW p \in Processes, LeaseLapses(p) \/ LeaseExpires(p) PROVE KeyInv'
    <2>1. /\ UNCHANGED <<revision, elector, term>>
          /\ key' = [key EXCEPT ![p] = 0]
          /\ \A q \in Processes : q # p => lease'[q] = lease[q]
          /\ lease'[p] = "expired" \/ (lease'[p] = "none" /\ app[p] = "exited")
      BY <1>5, SMTT(30) DEF LeaseLapses, LeaseExpires, TypeOK
    <2>2. app[p] = "exited" => elector[p] = "idle"
      BY <1>1 DEF LoopOK
    <2>3. KeyOK(p)'
      BY <2>1, <2>2 DEF KeyOK, Won
    <2>4. QED
      BY <2>1, <2>3, KeyFrame, Zenon
  <1>6. ASSUME NEW p \in Processes, NewSessionFails(p) PROVE KeyInv'
    <2>1. /\ UNCHANGED <<key, revision, lease, term>> /\ elector'[p] \in {"exited", "failed"}
          /\ \A q \in Processes : q # p => elector'[q] = elector[q]
      BY <1>6, SMTT(30) DEF NewSessionFails, ElectorAt, TypeOK, etcd
    <2>2. KeyOK(p)'
      BY <2>1 DEF KeyOK, Won
    <2>3. QED
      BY <2>1, <2>2, KeyFrame
  <1>7. ASSUME NEW p \in Processes, Gone(p) PROVE KeyInv'
    <2>1. /\ UNCHANGED <<key, revision, lease>> /\ elector'[p] = "idle"
          /\ \A q \in Processes : q # p => elector'[q] = elector[q] /\ term'[q] = term[q]
      BY <1>7, SMTT(30) DEF Gone, TypeOK, etcd
    <2>2. KeyOK(p)'
      BY <2>1 DEF KeyOK, Won
    <2>3. QED
      BY <2>1, <2>2, KeyFrame
  <1>8. CASE UNCHANGED vars
    BY <1>2, <1>8 DEF vars
  <1>9. QED
    BY <1>3, <1>4, <1>5, <1>6, <1>7, <1>8, ElectorKeys, Zenon
    DEF Next, StartStep, StartFails, RunReturns, Crash, Fault

-----------------------------------------------------------------------------
(* The theorems. *)

\* In the first state nothing has begun, and the database is empty.
LEMMA InitHolds == Init => TypeOK /\ BootInv /\ LoopInv /\ KeyInv
  <1> SUFFICES ASSUME Init PROVE TypeOK /\ BootInv /\ LoopInv /\ KeyInv
    OBVIOUS
  <1>1. TypeOK
    BY InitTyped
  <1>2. Migrated
    BY NewDatabase DEF Init
  <1>3. ServesPrepared
    BY DEF Init, ServesPrepared
  <1>4. LoopInv
    BY DEF Init, LoopInv, LoopOK, Begun, NoLoops
  <1>5. KeyInv
    BY DEF Init, KeyInv, KeyOK, Won
  <1>6. QED
    BY <1>1, <1>2, <1>3, <1>4, <1>5 DEF BootInv

\* The invariants that the theorems rest on hold throughout.  The types need the
\* order of the migrations, and the keys that a process that is gone has no
\* elector.
THEOREM Invariants == Spec => [](TypeOK /\ BootInv /\ LoopInv /\ KeyInv)
  <1>1. Init => TypeOK /\ BootInv /\ LoopInv /\ KeyInv
    BY InitHolds
  <1>2. (TypeOK /\ BootInv /\ LoopInv /\ KeyInv) /\ [Next]_vars
            => (TypeOK /\ BootInv /\ LoopInv /\ KeyInv)'
    BY TypeStep, BootKeeps, LoopsKeep, KeysKeep DEF BootInv
  <1>3. QED
    BY <1>1, <1>2, PTL DEF Spec

\* Every variable of the elector, the supervisor and the migrator keeps its type.
THEOREM TypeCorrect == Spec => []TypeOK
  BY Invariants, PTL

\* Whoever serves has the root and every migration, applied once and in order,
\* however many processes prepare the database at once and wherever one is lost.
THEOREM PreparedBeforeServing == Spec => []ServesPrepared
  <1>1. BootInv => ServesPrepared
    BY DEF BootInv
  <1>2. QED
    BY <1>1, Invariants, PTL

\* The loops of two terms of one process never run at the same time.
THEOREM GenerationsApart == Spec => []OneGeneration
  <1>1. LoopInv => OneGeneration
    <2> SUFFICES ASSUME LoopInv, NEW p \in Processes, app[p] = "serving"
                 PROVE  Cardinality(Working(p)) <= 1
      BY DEF OneGeneration
    <2>1. Working(p) \subseteq Begun(p)
      BY DEF Working, Begun
    <2>2. \E g : Working(p) \subseteq {g}
      BY <2>1 DEF LoopInv, LoopOK
    <2>3. PICK g : Working(p) \subseteq {g}
      BY <2>2
    <2>4. IsFiniteSet({g}) /\ Cardinality({g}) = 1
      BY FS_Singleton, Zenon
    <2>5. QED
      BY <2>3, <2>4, FS_Subset
  <1>2. QED
    BY <1>1, Invariants, PTL

\* Two serving processes whose leases have not expired never both run loops: the
\* key of each would be the oldest.
THEOREM LeadersApart == Spec => []LoopsOverlapOnlyAfterLoss
  <1>1. TypeOK /\ LoopInv /\ KeyInv => LoopsOverlapOnlyAfterLoss
    <2> SUFFICES ASSUME TypeOK, LoopInv, KeyInv, NEW p \in Processes, NEW q \in Processes,
                        p # q, Working(p) # {}, Working(q) # {},
                        \A r \in {p, q} : lease[r] # "expired" /\ app[r] = "serving"
                 PROVE  FALSE
      BY DEF LoopsOverlapOnlyAfterLoss
    <2>1. ASSUME NEW r \in {p, q} PROVE Oldest(r)
      <3>1. Begun(r) # {}
        BY <2>1 DEF Working, Begun
      <3>2. elector[r] \in {"joining", "leading", "stopping"}
        BY <2>1, <3>1 DEF LoopInv, LoopOK
      <3>3. lease[r] = "live"
        BY <2>1, <3>2 DEF KeyInv, KeyOK, Won, TypeOK
      <3>4. QED
        BY <2>1, <3>2, <3>3 DEF KeyInv, KeyOK, Won
    <2>2. key[p] \in Nat /\ key[q] \in Nat /\ key[p] # 0 /\ key[p] <= key[q] /\ key[q] <= key[p]
      BY <2>1, SMTT(30) DEF Oldest, TypeOK
    <2>3. key[p] = key[q] /\ key[p] # 0
      BY <2>2
    <2>4. QED
      BY <2>3 DEF KeyInv
  <1>2. QED
    BY <1>1, Invariants, PTL
=============================================================================
