------------------------------- MODULE ReadCache -------------------------------
(***************************************************************************)
(* The Redis read cache of the metadata service (internal/mds/             *)
(* read_cache.go, internal/platform/redis/lock): read models that are      *)
(* filled under a lock by the readers, and deleted, or in the case of a    *)
(* directory given a new version, after a mutation has been committed.     *)
(*                                                                         *)
(* The module follows one object: a file with its metadata and its         *)
(* download plan, a directory with the list of its children, or a node     *)
(* with its own entry and the list of the healthy nodes.  A cached value   *)
(* is the number of the commit it was loaded after.  Redis is external: a  *)
(* master, and a replica that the first look goes to.                      *)
(***************************************************************************)
EXTENDS Integers, FiniteSets

CONSTANTS
    Readers,      \* requests, and the warm-up, of any process
    None,         \* nobody holds the lock
    TTL,          \* the configured times to live of the read models and of a
                  \* null entry, zero or less where they are not set
    Jitter,       \* FileMetaTTLJitter, for the entries of files and directories
    MaxWrites,    \* bound: commits
    MaxFaults     \* bound: locks that expire in use, reads that break off, lost
                  \* invalidations and failovers of Redis

AllModels == {"meta", "plan", "children", "node", "healthy"}

ASSUME CacheAssumption ==
    /\ MaxWrites \in Nat /\ MaxFaults \in Nat /\ None \notin Readers
    /\ TTL \in [AllModels \cup {"null"} -> Int]
    /\ Jitter \in Int

VARIABLES
    object,    \* "file", "directory" or "node"
    db,        \* the repository: the last commit and what the object is after it
    pending,   \* the invalidations that are still to be done
    master,    \* Redis: the entries, and the version of the directory's list
    replica,   \* what the replica has got of it
    lock,      \* who holds the lock of a read model
    slow,      \* the readers whose lock has expired while they were filling
    reader,    \* what a reader is doing
    since,     \* history: the commits a version of the directory is later than
    failedOver, \* Redis has failed over
    faults

vars == <<object, db, pending, master, replica, lock, slow, reader, since, failedOver, faults>>

-----------------------------------------------------------------------------
Models == [file |-> {"meta", "plan"}, directory |-> {"children"}, node |-> {"node", "healthy"}]

Versions == 0..MaxWrites

\* NullFileKey is one key for both read models of a file, and a list of children
\* has a key for each version.
Keys == (AllModels \cup {"null"}) \X {0} \cup {"children"} \X Versions

NullKey == <<"null", 0>>

NotFound == -1

NoEntry == [value |-> NotFound, ttl |-> FALSE]

Redis == [entries : [Keys -> [value : 0..MaxWrites, ttl : BOOLEAN] \cup {NoEntry}],
          version : Versions]

EmptyRedis == [entries |-> [k \in Keys |-> NoEntry], version |-> 0]

IdleReader == [pc |-> "idle", model |-> "none", version |-> 0, value |-> 0]

Filling == {"load", "fill", "fillNull", "deleteNull", "release"}

TypeOK ==
    /\ object \in DOMAIN Models
    /\ db \in [commit : 0..MaxWrites, state : {"absent", "empty", "full"}]
    /\ pending \subseteq (1..MaxWrites) \X {"node", "healthy", "all"}
    /\ master \in Redis /\ replica \in Redis
    /\ lock \in [AllModels -> Readers \cup {None}]
    /\ slow \subseteq Readers
    /\ reader \in [Readers ->
          [pc : {"idle", "get", "null", "lock", "poll"} \cup Filling,
           model : AllModels \cup {"none"}, version : Versions, value : -1..MaxWrites]]
    /\ since \in [Versions -> 0..MaxWrites]
    /\ failedOver \in BOOLEAN
    /\ faults \in 0..MaxFaults

\* A file may be there or not; directories and nodes are.
Init ==
    /\ object \in DOMAIN Models
    /\ \E s \in IF object = "file" THEN {"absent", "empty", "full"} ELSE {"full"} :
          db = [commit |-> 0, state |-> s]
    /\ pending = {}
    /\ master = EmptyRedis
    /\ replica = EmptyRedis
    /\ lock = [m \in AllModels |-> None]
    /\ slow = {}
    /\ reader = [r \in Readers |-> IdleReader]
    /\ since = [v \in Versions |-> 0]
    /\ failedOver = FALSE
    /\ faults = 0

-----------------------------------------------------------------------------
(* Reads. *)

Key(r) == <<reader[r].model, reader[r].version>>

Goto(r, pc) == reader' = [reader EXCEPT ![r].pc = pc]

\* The read is over; what it answers is seen by its caller only.
Answer(r) == reader' = [reader EXCEPT ![r] = IdleReader]

\* In units of 15 seconds.
DefaultTTL == [meta |-> 20, plan |-> 12, children |-> 6, node |-> 1, healthy |-> 1, null |-> 2]

DefaultJitter == 2

withDefaults(value, default) == IF value <= 0 THEN default ELSE value

\* A random time within the jitter around ttl.
ApplyTTLJitter(ttl, jitter) ==
    IF ttl <= 0 \/ jitter <= 0 THEN {ttl} ELSE (ttl - jitter)..(ttl + jitter)

\* The times an entry of model m may be set with.  Nothing compares the jitter
\* with the times to live.
effectiveTTL(m) ==
    ApplyTTLJitter(withDefaults(TTL[m], DefaultTTL[m]),
        IF m \in {"meta", "plan", "children"} THEN withDefaults(Jitter, DefaultJitter) ELSE 0)

\* Mutant: an entry is set without a time to live.
SetForever(k, value) ==
    master' = [master EXCEPT !.entries = [@ EXCEPT ![k] = [value |-> value, ttl |-> FALSE]]]

\* Redis keeps an entry that is set with a time of zero or less for ever.
Set(k, value) ==
    \E t \in effectiveTTL(k[1]) :
        master' = [master EXCEPT !.entries = [@ EXCEPT ![k] = [value |-> value, ttl |-> t > 0]]]

Del(keys) ==
    master' = [master EXCEPT !.entries = [k \in Keys |-> IF k \in keys THEN NoEntry ELSE @[k]]]

\* What the repository answers the loader of a read model: the metadata of a file
\* that exists, and a download plan of one that has chunks.
Loaded(model) ==
    IF db.state = "absent" \/ (model = "plan" /\ db.state = "empty")
    THEN NotFound
    ELSE db.commit

\* The first look goes to the replica: an entry is the answer.
Look(r, looking) ==
    reader' = [reader EXCEPT ![r] =
        IF replica.entries[<<looking.model, looking.version>>] # NoEntry THEN IdleReader
        ELSE [looking EXCEPT !.pc = IF object = "file" THEN "null" ELSE "lock"]]

\* GetFile, GetDownloadPlan, GetNode and GetHealthyNodes start with loadJSON.
Start(r, m) ==
    /\ reader[r].pc = "idle"
    /\ m \in Models[object] \ {"children"}
    /\ Look(r, [IdleReader EXCEPT !.model = m])
    /\ UNCHANGED <<object, db, pending, master, replica, lock, slow, since, failedOver, faults>>

\* GetChildren reads the version first, and looks for the list under it.
directoryListVersion(r) ==
    /\ reader[r].pc = "idle" /\ object = "directory"
    /\ reader' = [reader EXCEPT ![r] =
          [IdleReader EXCEPT !.pc = "get", !.model = "children", !.version = replica.version]]
    /\ UNCHANGED <<object, db, pending, master, replica, lock, slow, since, failedOver, faults>>

loadJSON(r) ==
    /\ reader[r].pc = "get"
    /\ Look(r, reader[r])
    /\ UNCHANGED <<object, db, pending, master, replica, lock, slow, since, failedOver, faults>>

checkNull(r) ==
    /\ reader[r].pc = "null"
    /\ IF replica.entries[NullKey] # NoEntry
       THEN Answer(r)
       ELSE Goto(r, "lock")
    /\ UNCHANGED <<object, db, pending, master, replica, lock, slow, since, failedOver, faults>>

\* Acquire is a SetNX with a time to live.
Acquire(r) ==
    LET m == reader[r].model IN
    /\ reader[r].pc = "lock"
    /\ IF lock[m] = None
       THEN lock' = [lock EXCEPT ![m] = r] /\ Goto(r, "load")
       ELSE UNCHANGED lock /\ Goto(r, "poll")
    /\ UNCHANGED <<object, db, pending, master, replica, slow, since, failedOver, faults>>

\* Without the lock the reader looks for the entry three times, in the master.
PollHit(r) ==
    /\ reader[r].pc = "poll"
    /\ master.entries[Key(r)] # NoEntry
    /\ Answer(r)
    /\ UNCHANGED <<object, db, pending, master, replica, lock, slow, since, failedOver, faults>>

\* Then it loads the value itself, and leaves the cache alone.
LoadDirect(r) ==
    /\ reader[r].pc = "poll"
    /\ Answer(r)
    /\ UNCHANGED <<object, db, pending, master, replica, lock, slow, since, failedOver, faults>>

\* With the lock it loads the value; that the object is not there is remembered
\* under the null key.
Load(r) ==
    LET value == Loaded(reader[r].model) IN
    /\ reader[r].pc = "load"
    /\ reader' = [reader EXCEPT ![r].pc = IF value = NotFound THEN "fillNull" ELSE "fill",
                                ![r].value = value]
    /\ UNCHANGED <<object, db, pending, master, replica, lock, slow, since, failedOver, faults>>

\* Mutant: the list goes under the version of the moment.
FillLatest(r) ==
    /\ reader[r].pc = "fill"
    /\ Set(<<reader[r].model, IF object = "directory" THEN master.version ELSE 0>>,
           reader[r].value)
    /\ Goto(r, IF object = "file" THEN "deleteNull" ELSE "release")
    /\ UNCHANGED <<object, db, pending, replica, lock, slow, since, failedOver, faults>>

Fill(r) ==
    /\ reader[r].pc = "fill"
    /\ Set(Key(r), reader[r].value)
    /\ Goto(r, IF object = "file" THEN "deleteNull" ELSE "release")
    /\ UNCHANGED <<object, db, pending, replica, lock, slow, since, failedOver, faults>>

\* Mutant: the null entry holds the answer of the loader.
FillNullAnswer(r) ==
    /\ reader[r].pc = "fillNull"
    /\ Set(NullKey, reader[r].value)
    /\ Goto(r, "release")
    /\ UNCHANGED <<object, db, pending, replica, lock, slow, since, failedOver, faults>>

FillNull(r) ==
    /\ reader[r].pc = "fillNull"
    /\ Set(NullKey, 0)
    /\ Goto(r, "release")
    /\ UNCHANGED <<object, db, pending, replica, lock, slow, since, failedOver, faults>>

DeleteNull(r) ==
    /\ reader[r].pc = "deleteNull"
    /\ Del({NullKey})
    /\ Goto(r, "release")
    /\ UNCHANGED <<object, db, pending, replica, lock, slow, since, failedOver, faults>>

\* Mutant: the lock is deleted whoever holds it.
ReleaseAny(r) ==
    /\ reader[r].pc = "release"
    /\ lock' = [lock EXCEPT ![reader[r].model] = None]
    /\ slow' = slow \ {r}
    /\ Answer(r)
    /\ UNCHANGED <<object, db, pending, master, replica, since, failedOver, faults>>

\* Release deletes the lock if its value is still the reader's token.
Release(r) ==
    LET m == reader[r].model IN
    /\ reader[r].pc = "release"
    /\ lock' = [lock EXCEPT ![m] = IF @ = r THEN None ELSE @]
    /\ slow' = slow \ {r}
    /\ Answer(r)
    /\ UNCHANGED <<object, db, pending, master, replica, since, failedOver, faults>>

Faulty == faults < MaxFaults /\ faults' = faults + 1

\* An error of Redis ends the read, or its process crashes: a lock it holds is
\* left to expire.
ReadFails(r) ==
    /\ Faulty
    /\ reader[r].pc # "idle"
    /\ reader' = [reader EXCEPT ![r] = IdleReader]
    /\ slow' = slow \ {r}
    /\ UNCHANGED <<object, db, pending, master, replica, lock, since, failedOver>>

-----------------------------------------------------------------------------
(* Mutations.  Their operations are those of Upload, Namespace and DataNode;   *)
(* here they commit, and then invalidate.                                      *)

Commit(state) ==
    /\ db.commit < MaxWrites
    /\ db.state = "absent" => state = "empty"
    /\ object # "file" => state = "full"
    /\ db' = [commit |-> db.commit + 1, state |-> state]
    /\ pending' = pending \cup {<<db.commit + 1, IF object = "node" THEN "node" ELSE "all">>}
    /\ UNCHANGED <<object, master, replica, lock, slow, reader, since, failedOver, faults>>

InvalidateFile(c) ==
    /\ object = "file"
    /\ <<c, "all">> \in pending
    /\ pending' = pending \ {<<c, "all">>}
    /\ Del({<<"meta", 0>>, <<"plan", 0>>, NullKey})
    /\ UNCHANGED <<object, db, replica, lock, slow, reader, since, failedOver, faults>>

\* The list of children gets a new version, and the lists under the older
\* versions are left to expire.
InvalidateDirectory(c) ==
    LET next == master.version + 1 IN
    /\ object = "directory"
    /\ <<c, "all">> \in pending
    /\ pending' = pending \ {<<c, "all">>}
    /\ master' = [master EXCEPT !.version = next]
    /\ since' = [since EXCEPT ![next] =
                    IF since[master.version] > c THEN since[master.version] ELSE c]
    /\ UNCHANGED <<object, db, replica, lock, slow, reader, failedOver, faults>>

\* InvalidateNode, then InvalidateHealthyNodes.
InvalidateNode(c) ==
    /\ <<c, "node">> \in pending
    /\ pending' = (pending \ {<<c, "node">>}) \cup {<<c, "healthy">>}
    /\ Del({<<"node", 0>>})
    /\ UNCHANGED <<object, db, replica, lock, slow, reader, since, failedOver, faults>>

InvalidateHealthyNodes(c) ==
    /\ <<c, "healthy">> \in pending
    /\ pending' = pending \ {<<c, "healthy">>}
    /\ Del({<<"healthy", 0>>})
    /\ UNCHANGED <<object, db, replica, lock, slow, reader, since, failedOver, faults>>

\* An error of Redis is ignored, and a process may crash after the commit.
InvalidationLost(i) ==
    /\ Faulty
    /\ i \in pending
    /\ pending' = pending \ {i}
    /\ UNCHANGED <<object, db, master, replica, lock, slow, reader, since, failedOver>>

-----------------------------------------------------------------------------
(* Redis. *)

EntryExpires(k) ==
    /\ master.entries[k].ttl
    /\ Del({k})
    /\ UNCHANGED <<object, db, pending, replica, lock, slow, reader, since, failedOver, faults>>

InUse(m) == reader[lock[m]].pc \in Filling /\ reader[lock[m]].model = m

\* The lock of a reader that has broken off expires.
LockExpires(m) ==
    /\ lock[m] # None
    /\ ~ InUse(m)
    /\ lock' = [lock EXCEPT ![m] = None]
    /\ UNCHANGED <<object, db, pending, master, replica, slow, reader, since, failedOver, faults>>

\* The lock of a reader that takes longer than its time to live expires.
LockExpiresInUse(m) ==
    /\ Faulty
    /\ lock[m] # None
    /\ InUse(m)
    /\ lock' = [lock EXCEPT ![m] = None]
    /\ slow' = slow \cup {lock[m]}
    /\ UNCHANGED <<object, db, pending, master, replica, reader, since, failedOver>>

Replicate ==
    /\ replica # master
    /\ replica' = master
    /\ UNCHANGED <<object, db, pending, master, lock, slow, reader, since, failedOver, faults>>

\* Sentinel makes the replica the master; what it had not got is lost.
Failover ==
    /\ Faulty
    /\ replica # master
    /\ master' = replica
    /\ failedOver' = TRUE
    /\ UNCHANGED <<object, db, pending, replica, lock, slow, reader, since>>

-----------------------------------------------------------------------------
ReaderStep(r) ==
    \/ loadJSON(r)
    \/ checkNull(r)
    \/ Acquire(r)
    \/ PollHit(r)
    \/ LoadDirect(r)
    \/ Load(r)
    \/ Fill(r)
    \/ FillNull(r)
    \/ DeleteNull(r)
    \/ Release(r)

\* Requests, and the warm-up, which at the start and then periodically reads the
\* hot objects of each kind one by one.  Its reads are like any other; its own
\* lock, which keeps processes from warming up at the same time, is left out.
ReaderNext(r) ==
    \/ \E m \in AllModels : Start(r, m)
    \/ directoryListVersion(r)
    \/ ReaderStep(r)
    \/ ReadFails(r)

Invalidation ==
    \E c \in 1..MaxWrites :
        \/ InvalidateFile(c)
        \/ InvalidateDirectory(c)
        \/ InvalidateNode(c)
        \/ InvalidateHealthyNodes(c)

Next ==
    \/ \E r \in Readers : ReaderNext(r)
    \/ \E s \in {"absent", "empty", "full"} : Commit(s)
    \/ Invalidation
    \/ \E i \in pending : InvalidationLost(i)
    \/ \E k \in Keys : EntryExpires(k)
    \/ \E m \in AllModels : LockExpires(m) \/ LockExpiresInUse(m)
    \/ Replicate
    \/ Failover

\* Entries expire, and the replica catches up.  Nobody promises a read that ends,
\* a lock that is released, or an invalidation that works.
Fairness ==
    /\ \A k \in Keys : WF_vars(EntryExpires(k))
    /\ WF_vars(Replicate)

Spec == Init /\ [][Next]_vars /\ Fairness

-----------------------------------------------------------------------------
\* The entries that a reader can find are the current ones.  A null entry stands
\* for a file without chunks as well, as the download plan shares it.
Fresh(side) ==
    /\ \A k \in Keys :
          /\ k[1] \in AllModels
          /\ k[2] = side.version
          /\ side.entries[k] # NoEntry
          => side.entries[k].value = db.commit
    /\ side.entries[NullKey] # NoEntry => db.state # "full"

\* Until Redis fails over, a list of children that is cached under a version is
\* later than every commit whose invalidation has led to that version: neither a
\* slow reader nor a replica that lags behind puts an old list under a new version.
\* (A failover can take the version back to one under which an old list is cached.)
DirectoryListIsLater ==
    ~ failedOver =>
        \A v \in Versions :
            master.entries[<<"children", v>>] # NoEntry
                => master.entries[<<"children", v>>].value >= since[v]

\* Two readers fill the same read model at the same time only if the lock of one
\* of them has expired: nobody releases a lock that is not theirs any more.
OneFill ==
    \A r, s \in Readers :
        /\ r # s
        /\ reader[r].pc \in Filling
        /\ reader[s].pc \in Filling
        /\ reader[r].model = reader[s].model
        => r \in slow \/ s \in slow

\* When no more commits come, stale entries come to an end, in the master and in
\* the replica: those that a slow reader writes after the invalidation, those
\* that a lost invalidation leaves, and those that a failover brings back.
CacheSettles ==
    <>[](Fresh(master) /\ Fresh(replica))
=============================================================================
