--------------------------- MODULE ReadCacheProofs ---------------------------
(***************************************************************************)
(* Theorems about ReadCache for every number of readers, commits and       *)
(* faults and for all times to live.                                       *)
(***************************************************************************)
EXTENDS ReadCache, FiniteSetTheorems, TLAPS

\* What a reader keeps between its steps: the read model it is at, a version if
\* it is a list of children, and a value that the loader has found.
ReaderOK ==
    \A r \in Readers :
        /\ reader[r].pc # "idle" => reader[r].model \in AllModels
        /\ reader[r].version # 0 => reader[r].model = "children"
        /\ reader[r].pc = "fill" => reader[r].value # NotFound

\* Each version of the directory's list takes an invalidation of its own, and
\* there are no more of these than commits.
Counted ==
    /\ IsFiniteSet(pending)
    /\ master.version + Cardinality(pending) <= db.commit
    /\ replica.version <= master.version
    /\ \A i \in pending : i[1] <= db.commit
    /\ \A v \in Versions : since[v] <= db.commit

\* A reader that fills has the lock, unless it has expired.
HoldsLock ==
    \A r \in Readers :
        reader[r].pc \in Filling /\ r \notin slow => lock[reader[r].model] = r

\* As long as Redis has not failed over, nobody has come to a version that there
\* is not yet, and what is or will be stored under a version is late enough.
ListsLater ==
    ~ failedOver =>
        /\ \A v \in Versions :
              v > master.version => master.entries[<<"children", v>>] = NoEntry
        /\ \A r \in Readers :
              /\ reader[r].version <= master.version
              /\ reader[r].pc = "fill" /\ reader[r].model = "children"
                    => reader[r].value >= since[reader[r].version]

CacheInv == TypeOK /\ ReaderOK /\ Counted /\ HoldsLock /\ ListsLater /\ DirectoryListIsLater

-----------------------------------------------------------------------------
(* Operators. *)

\* Set changes one entry of the master.
LEMMA SetEntry ==
    ASSUME master \in Redis, NEW k \in Keys, NEW value \in 0..MaxWrites, Set(k, value)
    PROVE  /\ master' \in Redis
           /\ master'.version = master.version
           /\ master'.entries[k].value = value
           /\ \A j \in Keys : j # k => master'.entries[j] = master.entries[j]
  <1>2. PICK t \in effectiveTTL(k[1]) :
          master' = [master EXCEPT !.entries = [@ EXCEPT ![k] = [value |-> value, ttl |-> t > 0]]]
    BY DEF Set
  <1>3. [value |-> value, ttl |-> t > 0] \in [value : 0..MaxWrites, ttl : BOOLEAN]
    OBVIOUS
  <1>4. QED
    BY <1>2, <1>3, Zenon DEF Redis

\* Del leaves the version and the other entries.
LEMMA DelEntries ==
    ASSUME master \in Redis, NEW keys, Del(keys)
    PROVE  /\ master' \in Redis
           /\ master'.version = master.version
           /\ \A j \in Keys : master'.entries[j] \in {master.entries[j], NoEntry}
  BY DEF Del, Redis

\* The keys a reader uses are keys of the cache.
LEMMA ReaderKeys ==
    ASSUME TypeOK, ReaderOK, NEW r \in Readers, reader[r].pc # "idle"
    PROVE  Key(r) \in Keys
  BY SMTT(30) DEF TypeOK, ReaderOK, Key, Keys, AllModels, Versions

-----------------------------------------------------------------------------
(* Type correctness. *)

\* The steps of a reader keep its record well formed.
LEMMA ReadersTyped ==
    ASSUME TypeOK, ReaderOK, NEW r \in Readers, ReaderNext(r)
    PROVE  /\ reader' \in [Readers ->
                [pc : {"idle", "get", "null", "lock", "poll"} \cup Filling,
                 model : AllModels \cup {"none"}, version : Versions, value : -1..MaxWrites]]
           /\ ReaderOK'
           /\ \A s \in Readers : s # r => reader'[s] = reader[s]
  <1> DEFINE Records == [pc : {"idle", "get", "null", "lock", "poll"} \cup Filling,
                         model : AllModels \cup {"none"}, version : Versions, value : -1..MaxWrites]
             Good(x) == /\ x \in Records
                        /\ x.pc # "idle" => x.model \in AllModels
                        /\ x.version # 0 => x.model = "children"
                        /\ x.pc = "fill" => x.value # NotFound
  <1>1. /\ reader \in [Readers -> Records] /\ Good(reader[r])
        /\ 0 \in Versions /\ replica.version \in Versions /\ db.commit \in 0..MaxWrites
    BY CacheAssumption DEF TypeOK, ReaderOK, Versions, Redis
  <1>2. Good(IdleReader)
    BY <1>1, CacheAssumption DEF IdleReader, Versions, Filling
  <1>3. SUFFICES \E x : Good(x) /\ reader' = [reader EXCEPT ![r] = x]
    BY <1>1 DEF ReaderOK
  <1>4. ASSUME NEW x, Good(x), x.model \in AllModels, Look(r, x)
        PROVE  \E y : Good(y) /\ reader' = [reader EXCEPT ![r] = y]
    <2>1. ASSUME NEW pc \in {"null", "lock"}
          PROVE  Good([x EXCEPT !.pc = pc])
      BY <1>4
    <2>2. QED
      BY <1>4, <1>2, <2>1, Zenon DEF Look
  <1>5. ASSUME NEW m \in AllModels, Start(r, m)
        PROVE  \E x : Good(x) /\ reader' = [reader EXCEPT ![r] = x]
    <2>1. Good([IdleReader EXCEPT !.model = m]) /\ [IdleReader EXCEPT !.model = m].model = m
      BY <1>1, CacheAssumption DEF IdleReader, Versions, Filling
    <2>2. QED
      BY <1>4, <1>5, <2>1 DEF Start
  <1>6. ASSUME directoryListVersion(r)
        PROVE  \E x : Good(x) /\ reader' = [reader EXCEPT ![r] = x]
    <2>1. ASSUME NEW v \in Versions
          PROVE  Good([IdleReader EXCEPT !.pc = "get", !.model = "children", !.version = v])
      <3>1. IdleReader \in Records
        BY <1>2
      <3>2. [IdleReader EXCEPT !.pc = "get", !.model = "children", !.version = v] \in Records
        BY <3>1, Zenon DEF AllModels
      <3>3. QED
        BY <3>1, <3>2 DEF AllModels
    <2>2. QED
      BY <1>1, <1>6, <2>1, Zenon DEF directoryListVersion
  <1>7. ASSUME loadJSON(r)
        PROVE  \E x : Good(x) /\ reader' = [reader EXCEPT ![r] = x]
    BY <1>1, <1>4, <1>7 DEF loadJSON
  <1>8. ASSUME NEW pc \in {"idle", "get", "null", "lock", "poll"} \cup Filling, Goto(r, pc),
               pc # "fill", reader[r].pc # "idle"
        PROVE  \E x : Good(x) /\ reader' = [reader EXCEPT ![r] = x]
    <2>1. Good([reader[r] EXCEPT !.pc = pc])
      BY <1>1, <1>8
    <2>2. reader' = [reader EXCEPT ![r] = [reader[r] EXCEPT !.pc = pc]]
      BY <1>8 DEF Goto
    <2>3. QED
      BY <2>1, <2>2, Zenon
  <1>9. ASSUME Load(r)
        PROVE  \E x : Good(x) /\ reader' = [reader EXCEPT ![r] = x]
    <2>1. PICK value \in {NotFound, db.commit} :
             reader' = [reader EXCEPT ![r].pc = IF value = NotFound THEN "fillNull" ELSE "fill",
                                      ![r].value = value]
      BY <1>9, Zenon DEF Load, Loaded
    <2>2. Good([reader[r] EXCEPT !.pc = IF value = NotFound THEN "fillNull" ELSE "fill",
                                 !.value = value])
      <3>1. value \in -1..MaxWrites
        BY <1>1, CacheAssumption DEF NotFound
      <3>2. reader[r].pc # "idle"
        BY <1>9 DEF Load
      <3>3. QED
        BY <1>1, <3>1, <3>2, Zenon DEF Filling
    <2>3. reader' = [reader EXCEPT ![r] =
             [reader[r] EXCEPT !.pc = IF value = NotFound THEN "fillNull" ELSE "fill",
                               !.value = value]]
      BY <2>1, <1>1, Zenon
    <2>4. QED
      BY <2>2, <2>3, Zenon
  <1>10. ASSUME checkNull(r) \/ Acquire(r) \/ Fill(r) \/ FillNull(r) \/ DeleteNull(r)
         PROVE  \E x : Good(x) /\ reader' = [reader EXCEPT ![r] = x]
    BY <1>2, <1>8, <1>10 DEF checkNull, Acquire, Fill, FillNull, DeleteNull, Answer, Filling
  <1>11. ASSUME PollHit(r) \/ LoadDirect(r) \/ Release(r) \/ ReadFails(r)
         PROVE  \E x : Good(x) /\ reader' = [reader EXCEPT ![r] = x]
    BY <1>2, <1>11 DEF PollHit, LoadDirect, Release, ReadFails, Answer
  <1>12. QED
    BY <1>5, <1>6, <1>7, <1>9, <1>10, <1>11 DEF ReaderNext, ReaderStep

\* An invalidation that is pending leaves room for one more version.
LEMMA RoomForVersion ==
    ASSUME TypeOK, Counted, NEW i \in pending
    PROVE  /\ master.version + 1 \in Versions
           /\ IsFiniteSet(pending \ {i})
           /\ Cardinality(pending \ {i}) \in Nat
           /\ Cardinality(pending) = Cardinality(pending \ {i}) + 1
  <1>1. /\ IsFiniteSet(pending \ {i})
        /\ Cardinality(pending \ {i}) = Cardinality(pending) - 1
        /\ Cardinality(pending) \in Nat /\ Cardinality(pending \ {i}) \in Nat
    BY FS_RemoveElement, FS_CardinalityType DEF Counted
  <1>2. master.version \in 0..MaxWrites /\ db.commit \in 0..MaxWrites
    BY DEF TypeOK, Redis, Versions
  <1>3. master.version + Cardinality(pending) <= db.commit
    BY DEF Counted
  <1>4. QED
    BY <1>1, <1>2, <1>3, CacheAssumption DEF Versions

\* What a step does to Redis is well formed.
LEMMA RedisTyped ==
    ASSUME TypeOK, ReaderOK, Counted, Next
    PROVE  /\ master' \in Redis /\ replica' \in Redis
           /\ since' \in [Versions -> 0..MaxWrites]
  <1>1. master \in Redis /\ replica \in Redis /\ since \in [Versions -> 0..MaxWrites]
    BY DEF TypeOK
  <1>2. ASSUME NEW r \in Readers, ReaderNext(r)
        PROVE  master' \in Redis /\ UNCHANGED <<replica, since>>
    <2>1. CASE Fill(r)
      <3>1. Key(r) \in Keys /\ reader[r].value \in 0..MaxWrites
        BY <2>1, ReaderKeys, CacheAssumption DEF Fill, TypeOK, ReaderOK, NotFound
      <3>2. QED
        BY <1>1, <2>1, <3>1, SetEntry DEF Fill
    <2>2. CASE FillNull(r)
      <3>1. NullKey \in Keys /\ 0 \in 0..MaxWrites
        BY CacheAssumption DEF NullKey, Keys
      <3>2. QED
        BY <1>1, <2>2, <3>1, SetEntry DEF FillNull
    <2>3. CASE DeleteNull(r)
      BY <1>1, <2>3, DelEntries DEF DeleteNull
    <2>4. QED
      BY <1>1, <1>2, <2>1, <2>2, <2>3, Zenon
         DEF ReaderNext, ReaderStep, Start, directoryListVersion, loadJSON, checkNull, Acquire,
             PollHit, LoadDirect, Load, Release, ReadFails
  <1>3. ASSUME NEW c \in 1..MaxWrites, InvalidateDirectory(c)
        PROVE  master' \in Redis /\ since' \in [Versions -> 0..MaxWrites] /\ UNCHANGED replica
    <2>1. master.version + 1 \in Versions
      BY <1>3, RoomForVersion, SMTT(30) DEF InvalidateDirectory
    <2>2. master.version \in Versions /\ since[master.version] \in 0..MaxWrites /\ c \in 0..MaxWrites
      BY <1>1, CacheAssumption DEF Redis
    <2>3. QED
      BY <1>1, <1>3, <2>1, <2>2 DEF InvalidateDirectory, Redis
  <1>4. ASSUME NEW c \in 1..MaxWrites, InvalidateFile(c) \/ InvalidateNode(c) \/ InvalidateHealthyNodes(c)
        PROVE  master' \in Redis /\ UNCHANGED <<replica, since>>
    BY <1>1, <1>4, DelEntries DEF InvalidateFile, InvalidateNode, InvalidateHealthyNodes
  <1>5. ASSUME NEW k \in Keys, EntryExpires(k)
        PROVE  master' \in Redis /\ UNCHANGED <<replica, since>>
    BY <1>1, <1>5, DelEntries DEF EntryExpires
  <1>6. ASSUME Replicate \/ Failover
        PROVE  master' \in Redis /\ replica' \in Redis /\ UNCHANGED since
    BY <1>1, <1>6 DEF Replicate, Failover
  <1>7. ASSUME \/ \E s \in {"absent", "empty", "full"} : Commit(s)
               \/ \E i \in pending : InvalidationLost(i)
               \/ \E m \in AllModels : LockExpires(m) \/ LockExpiresInUse(m)
        PROVE  UNCHANGED <<master, replica, since>>
    BY <1>7 DEF Commit, InvalidationLost, LockExpires, LockExpiresInUse
  <1>8. QED
    BY <1>1, <1>2, <1>3, <1>4, <1>5, <1>6, <1>7 DEF Next, Invalidation

\* Which steps change a variable.
LEMMA Frames ==
    ASSUME Next
    PROVE  /\ UNCHANGED object
           /\ (\E s \in {"absent", "empty", "full"} : Commit(s)) \/ UNCHANGED db
           /\ \/ \E s \in {"absent", "empty", "full"} : Commit(s)
              \/ \E c \in 1..MaxWrites : InvalidateNode(c)
              \/ \E i \in pending : pending' = pending \ {i}
              \/ UNCHANGED pending
           /\ \/ \E r \in Readers : Acquire(r) \/ Release(r)
              \/ \E m \in AllModels : LockExpires(m) \/ LockExpiresInUse(m)
              \/ UNCHANGED lock
           /\ \/ \E r \in Readers : slow' = slow \ {r}
              \/ \E m \in AllModels : LockExpiresInUse(m)
              \/ UNCHANGED slow
           /\ (\E r \in Readers : ReaderNext(r)) \/ UNCHANGED reader
           /\ (\E c \in 1..MaxWrites : InvalidateDirectory(c)) \/ UNCHANGED since
           /\ Failover \/ UNCHANGED failedOver
           /\ Faulty \/ UNCHANGED faults
  <1> USE DEF Next, ReaderNext, ReaderStep, Start, directoryListVersion, loadJSON, checkNull,
              PollHit, LoadDirect, Load, Fill, FillNull, DeleteNull, ReadFails, Invalidation,
              InvalidateFile, InvalidateHealthyNodes, InvalidationLost, EntryExpires, Replicate
  <1>1. UNCHANGED object
    BY ZenonT(60) DEF Acquire, Release, Commit, InvalidateDirectory, InvalidateNode, LockExpires,
           LockExpiresInUse, Failover
  <1>2. (\E s \in {"absent", "empty", "full"} : Commit(s)) \/ UNCHANGED db
    BY ZenonT(60) DEF Acquire, Release, InvalidateDirectory, InvalidateNode, LockExpires, LockExpiresInUse,
           Failover
  <1>3. \/ \E s \in {"absent", "empty", "full"} : Commit(s)
        \/ \E c \in 1..MaxWrites : InvalidateNode(c)
        \/ \E i \in pending : pending' = pending \ {i}
        \/ UNCHANGED pending
    BY ZenonT(60) DEF Acquire, Release, InvalidateDirectory, LockExpires, LockExpiresInUse, Failover
  <1>4. \/ \E r \in Readers : Acquire(r) \/ Release(r)
        \/ \E m \in AllModels : LockExpires(m) \/ LockExpiresInUse(m)
        \/ UNCHANGED lock
    BY ZenonT(60) DEF Commit, InvalidateDirectory, InvalidateNode, Failover
  <1>5. \/ \E r \in Readers : slow' = slow \ {r}
        \/ \E m \in AllModels : LockExpiresInUse(m)
        \/ UNCHANGED slow
    BY ZenonT(60) DEF Acquire, Release, Commit, InvalidateDirectory, InvalidateNode, LockExpires, Failover
  <1>6. (\E r \in Readers : ReaderNext(r)) \/ UNCHANGED reader
    BY Zenon DEF Commit, InvalidateDirectory, InvalidateNode, LockExpires, LockExpiresInUse, Failover
  <1>7. (\E c \in 1..MaxWrites : InvalidateDirectory(c)) \/ UNCHANGED since
    BY ZenonT(60) DEF Acquire, Release, Commit, InvalidateNode, LockExpires, LockExpiresInUse, Failover
  <1>8. Failover \/ UNCHANGED failedOver
    BY ZenonT(60) DEF Acquire, Release, Commit, InvalidateDirectory, InvalidateNode, LockExpires,
           LockExpiresInUse
  <1>9. Faulty \/ UNCHANGED faults
    BY ZenonT(60) DEF Acquire, Release, Commit, InvalidateDirectory, InvalidateNode, LockExpires,
           LockExpiresInUse, Failover
  <1>10. QED
    BY <1>1, <1>2, <1>3, <1>4, <1>5, <1>6, <1>7, <1>8, <1>9, Zenon

\* Every step keeps the types, and what a reader keeps between its steps.
LEMMA StepTyped ==
    ASSUME TypeOK, ReaderOK, Counted, [Next]_vars
    PROVE  TypeOK' /\ ReaderOK'
  <1>1. CASE UNCHANGED vars
    BY <1>1 DEF vars, TypeOK, ReaderOK
  <1>2. CASE Next
    <2>1. /\ reader' \in [Readers ->
                [pc : {"idle", "get", "null", "lock", "poll"} \cup Filling,
                 model : AllModels \cup {"none"}, version : Versions, value : -1..MaxWrites]]
          /\ ReaderOK'
      BY <1>2, ReadersTyped, Frames DEF TypeOK, ReaderOK
    <2>2. object' \in DOMAIN Models
      BY <1>2, Frames DEF TypeOK
    <2>3. /\ db' \in [commit : 0..MaxWrites, state : {"absent", "empty", "full"}]
          /\ \A s \in {"absent", "empty", "full"} : Commit(s) => db.commit + 1 \in 1..MaxWrites
      <3>1. db.commit \in 0..MaxWrites
        BY DEF TypeOK
      <3>2. ASSUME NEW s \in {"absent", "empty", "full"}, Commit(s)
            PROVE  db.commit + 1 \in 1..MaxWrites /\ db.commit + 1 \in 0..MaxWrites
        BY <3>1, <3>2, CacheAssumption DEF Commit
      <3>3. QED
        BY <1>2, <3>2, Frames DEF Commit, TypeOK
    <2>4. pending' \subseteq (1..MaxWrites) \X {"node", "healthy", "all"}
      <3>1. CASE \E s \in {"absent", "empty", "full"} : Commit(s)
        <4>1. db.commit + 1 \in 1..MaxWrites
          BY <2>3, <3>1
        <4>2. QED
          BY <3>1, <4>1 DEF TypeOK, Commit
      <3>2. CASE \E c \in 1..MaxWrites : InvalidateNode(c)
        BY <3>2 DEF TypeOK, InvalidateNode
      <3>3. QED
        BY <1>2, <3>1, <3>2, Frames DEF TypeOK
    <2>5. lock' \in [AllModels -> Readers \cup {None}]
      BY <1>2, Frames DEF TypeOK, ReaderOK, Acquire, Release, LockExpires, LockExpiresInUse
    <2>6. slow' \subseteq Readers
      BY <1>2, Frames DEF TypeOK, LockExpiresInUse
    <2>7. failedOver' \in BOOLEAN
      BY <1>2, Frames, Zenon DEF TypeOK, Failover
    <2>8. faults' \in 0..MaxFaults
      BY <1>2, Frames, CacheAssumption DEF TypeOK, Faulty
    <2>9. QED
      BY <1>2, <2>1, <2>2, <2>3, <2>4, <2>5, <2>6, <2>7, <2>8, RedisTyped DEF TypeOK
  <1>3. QED
    BY <1>1, <1>2

-----------------------------------------------------------------------------
(* Invalidations and versions. *)

\* What a step does to the two copies: the version of the list moves only when a
\* directory is invalidated or the replica takes over, and an entry that differs
\* afterwards was filled by a reader or is gone.
LEMMA RedisMoves ==
    ASSUME TypeOK, ReaderOK, Next, ~ Failover, \A c \in 1..MaxWrites : ~ InvalidateDirectory(c)
    PROVE  /\ master'.version = master.version
           /\ \A j \in Keys :
                 \/ master'.entries[j] \in {master.entries[j], NoEntry}
                 \/ j = NullKey
                 \/ \E r \in Readers : Fill(r) /\ j = Key(r)
  <1>1. master \in Redis
    BY DEF TypeOK
  <1>2. ASSUME NEW keys, Del(keys)
        PROVE  /\ master'.version = master.version
               /\ \A j \in Keys : master'.entries[j] \in {master.entries[j], NoEntry}
    BY <1>1, <1>2, DelEntries
  <1>3. ASSUME NEW r \in Readers, ReaderNext(r)
        PROVE  /\ master'.version = master.version
               /\ \A j \in Keys :
                     \/ master'.entries[j] \in {master.entries[j], NoEntry}
                     \/ j = NullKey
                     \/ Fill(r) /\ j = Key(r)
    <2>1. CASE Fill(r)
      <3>1. Key(r) \in Keys /\ reader[r].value \in 0..MaxWrites
        BY <2>1, ReaderKeys, CacheAssumption DEF Fill, TypeOK, ReaderOK, NotFound
      <3>2. QED
        BY <1>1, <2>1, <3>1, SetEntry DEF Fill
    <2>2. CASE FillNull(r)
      <3>1. NullKey \in Keys /\ 0 \in 0..MaxWrites
        BY CacheAssumption DEF NullKey, Keys
      <3>2. QED
        BY <1>1, <2>2, <3>1, SetEntry DEF FillNull
    <2>3. CASE DeleteNull(r)
      BY <1>2, <2>3 DEF DeleteNull
    <2>4. QED
      BY <1>3, <2>1, <2>2, <2>3, Zenon
         DEF ReaderNext, ReaderStep, Start, directoryListVersion, loadJSON, checkNull, Acquire,
             PollHit, LoadDirect, Load, Release, ReadFails
  <1>4. ASSUME \/ \E c \in 1..MaxWrites :
                     InvalidateFile(c) \/ InvalidateNode(c) \/ InvalidateHealthyNodes(c)
               \/ \E k \in Keys : EntryExpires(k)
        PROVE  \E keys : Del(keys)
    BY <1>4, Zenon DEF InvalidateFile, InvalidateNode, InvalidateHealthyNodes, EntryExpires
  <1>5. ASSUME \/ \E s \in {"absent", "empty", "full"} : Commit(s)
               \/ \E i \in pending : InvalidationLost(i)
               \/ \E m \in AllModels : LockExpires(m) \/ LockExpiresInUse(m)
               \/ Replicate
        PROVE  UNCHANGED master
    BY <1>5 DEF Commit, InvalidationLost, LockExpires, LockExpiresInUse, Replicate
  <1>6. QED
    BY <1>2, <1>3, <1>4, <1>5 DEF Next, Invalidation

\* The replica changes when it catches up.
LEMMA ReplicaMoves ==
    ASSUME Next
    PROVE  Replicate \/ UNCHANGED replica
  BY ZenonT(60) DEF Next, ReaderNext, ReaderStep, Start, directoryListVersion, loadJSON, checkNull, Acquire,
         PollHit, LoadDirect, Load, Fill, FillNull, DeleteNull, Release, ReadFails, Commit,
         Invalidation, InvalidateFile, InvalidateDirectory, InvalidateNode,
         InvalidateHealthyNodes, InvalidationLost, EntryExpires, LockExpires, LockExpiresInUse,
         Failover

\* Every step keeps the count of versions and invalidations within that of the
\* commits.
LEMMA StepCounted ==
    ASSUME TypeOK, ReaderOK, Counted, [Next]_vars
    PROVE  Counted'
  <1>1. CASE UNCHANGED vars
    BY <1>1 DEF vars, Counted
  <1>2. CASE Next
    <2>1. /\ master.version \in 0..MaxWrites /\ replica.version \in 0..MaxWrites
          /\ db.commit \in 0..MaxWrites /\ MaxWrites \in Nat
          /\ IsFiniteSet(pending) /\ Cardinality(pending) \in Nat
          /\ \A i \in pending : i[1] \in 1..MaxWrites
          /\ since \in [Versions -> 0..MaxWrites]
      BY FS_CardinalityType, CacheAssumption, ZenonT(60) DEF TypeOK, Counted, Redis, Versions
    <2>2. /\ master.version + Cardinality(pending) <= db.commit
          /\ replica.version <= master.version
          /\ \A i \in pending : i[1] <= db.commit
          /\ \A v \in Versions : since[v] <= db.commit
      BY DEF Counted
    <2>3. CASE \E s \in {"absent", "empty", "full"} : Commit(s)
      <3>1. PICK k : pending' = pending \cup {<<db.commit + 1, k>>} /\ db'.commit = db.commit + 1
                     /\ UNCHANGED <<master, replica, since>>
        BY <2>3 DEF Commit
      <3>2. /\ IsFiniteSet(pending')
            /\ Cardinality(pending') \in {Cardinality(pending), Cardinality(pending) + 1}
        BY <2>1, <3>1, FS_AddElement, Zenon
      <3>3. QED
        BY <2>1, <2>2, <3>1, <3>2 DEF Counted
    <2>4. CASE \E c \in 1..MaxWrites : InvalidateDirectory(c)
      <3>1. PICK c \in 1..MaxWrites : InvalidateDirectory(c)
        BY <2>4
      <3>2. /\ <<c, "all">> \in pending /\ c <= db.commit
            /\ pending' = pending \ {<<c, "all">>}
            /\ master'.version = master.version + 1
            /\ UNCHANGED <<db, replica>>
        BY <2>2, <3>1 DEF InvalidateDirectory, TypeOK, Redis
      <3>3. /\ IsFiniteSet(pending') /\ Cardinality(pending') \in Nat
            /\ Cardinality(pending) = Cardinality(pending') + 1
        BY <3>2, RoomForVersion
      <3>4. \A v \in Versions : since'[v] <= db.commit
        BY <2>1, <2>2, <3>1, <3>2, Zenon DEF InvalidateDirectory, Versions
      <3>5. QED
        BY <2>1, <2>2, <3>2, <3>3, <3>4 DEF Counted
    <2>5. CASE \E c \in 1..MaxWrites : InvalidateNode(c)
      <3>1. PICK c \in 1..MaxWrites : InvalidateNode(c)
        BY <2>5
      <3>2. /\ <<c, "node">> \in pending /\ c <= db.commit
            /\ pending' = (pending \ {<<c, "node">>}) \cup {<<c, "healthy">>}
            /\ UNCHANGED <<db, replica, since>>
        BY <2>2, <3>1 DEF InvalidateNode
      <3>3. /\ IsFiniteSet(pending \ {<<c, "node">>})
            /\ Cardinality(pending \ {<<c, "node">>}) \in Nat
            /\ Cardinality(pending) = Cardinality(pending \ {<<c, "node">>}) + 1
        BY <3>2, RoomForVersion
      <3>4. /\ IsFiniteSet(pending')
            /\ Cardinality(pending') \in {Cardinality(pending \ {<<c, "node">>}),
                                         Cardinality(pending \ {<<c, "node">>}) + 1}
        BY <3>2, <3>3, FS_AddElement, Zenon
      <3>5. master'.version = master.version
        BY <3>1, DelEntries DEF InvalidateNode, TypeOK
      <3>6. QED
        BY <2>1, <2>2, <3>2, <3>3, <3>4, <3>5 DEF Counted
    <2>6. CASE /\ \A s \in {"absent", "empty", "full"} : ~ Commit(s)
               /\ \A c \in 1..MaxWrites : ~ InvalidateDirectory(c) /\ ~ InvalidateNode(c)
      <3>1. /\ UNCHANGED <<db, since>>
            /\ (\E i \in pending : pending' = pending \ {i}) \/ UNCHANGED pending
        BY <1>2, <2>6, Frames
      <3>2. /\ IsFiniteSet(pending') /\ Cardinality(pending') \in Nat
            /\ Cardinality(pending') <= Cardinality(pending) /\ pending' \subseteq pending
        BY <2>1, <3>1, RoomForVersion, SMTT(30)
      <3>3. /\ master'.version \in {master.version, replica.version}
            /\ replica'.version <= master'.version
        <4>1. CASE Failover
          BY <2>1, <4>1 DEF Failover
        <4>2. CASE ~ Failover
          <5>1. master'.version = master.version
            BY <1>2, <2>6, <4>2, RedisMoves
          <5>2. QED
            BY <1>2, <2>1, <2>2, <5>1, ReplicaMoves DEF Replicate
        <4>3. QED
          BY <4>1, <4>2
      <3>4. QED
        BY <2>1, <2>2, <3>1, <3>2, <3>3 DEF Counted
    <2>7. QED
      BY <2>3, <2>4, <2>5, <2>6
  <1>3. QED
    BY <1>1, <1>2

-----------------------------------------------------------------------------
(* The lock. *)

\* A reader begins to fill by acquiring the lock, and stays with its read model.
LEMMA FillingMoves ==
    ASSUME TypeOK, ReaderOK, NEW r \in Readers, ReaderNext(r), reader'[r].pc \in Filling
    PROVE  /\ (Acquire(r) /\ lock[reader[r].model] = None) \/ reader[r].pc \in Filling
           /\ reader'[r].model = reader[r].model
  <1>1. r \in DOMAIN reader /\ "pc" \in DOMAIN reader[r]
    BY DEF TypeOK
  <1>2. IdleReader.pc = "idle" /\ "idle" \notin Filling
    BY DEF IdleReader, Filling
  <1>3. ASSUME Answer(r) PROVE FALSE
    BY <1>1, <1>2, <1>3 DEF Answer
  <1>4. ASSUME NEW pc, Goto(r, pc) PROVE reader'[r].pc = pc /\ reader'[r].model = reader[r].model
    BY <1>4 DEF Goto, TypeOK
  <1>5. ASSUME NEW x, "pc" \in DOMAIN x, Look(r, x) PROVE FALSE
    BY <1>1, <1>2, <1>5 DEF Look, Filling
  <1>6. CASE \E m \in AllModels : Start(r, m)
    <2>1. \A m \in AllModels : "pc" \in DOMAIN [IdleReader EXCEPT !.model = m]
      BY DEF IdleReader
    <2>2. QED
      BY <1>5, <1>6, <2>1 DEF Start
  <1>7. CASE directoryListVersion(r)
    BY <1>1, <1>7, Zenon DEF directoryListVersion, IdleReader, Filling
  <1>8. CASE loadJSON(r)
    BY <1>1, <1>5, <1>8 DEF loadJSON
  <1>9. CASE checkNull(r) \/ PollHit(r) \/ LoadDirect(r) \/ Release(r) \/ ReadFails(r)
    BY <1>3, <1>4, <1>9, Zenon
       DEF checkNull, PollHit, LoadDirect, Release, ReadFails, Answer, Filling
  <1>10. CASE Acquire(r)
    BY <1>4, <1>10, Zenon DEF Acquire, Filling
  <1>11. CASE Load(r)
    BY <1>11 DEF Load, Filling, TypeOK
  <1>12. CASE Fill(r) \/ FillNull(r) \/ DeleteNull(r)
    BY <1>4, <1>12, Zenon DEF Fill, FillNull, DeleteNull, Filling
  <1>13. QED
    BY <1>6, <1>7, <1>8, <1>9, <1>10, <1>11, <1>12, Zenon DEF ReaderNext, ReaderStep

\* The lock and its expiry in the steps of a reader.
LEMMA LockMoves ==
    ASSUME NEW r \in Readers, ReaderNext(r)
    PROVE  \/ Acquire(r) /\ UNCHANGED slow
           \/ Release(r)
           \/ ReadFails(r) /\ UNCHANGED lock
           \/ UNCHANGED <<lock, slow>>
  BY Zenon DEF ReaderNext, ReaderStep, Start, directoryListVersion, loadJSON, checkNull, Acquire,
         PollHit, LoadDirect, Load, Fill, FillNull, DeleteNull, ReadFails

\* Every step keeps the lock with the reader that fills, until it expires.
LEMMA StepHoldsLock ==
    ASSUME TypeOK, ReaderOK, HoldsLock, [Next]_vars
    PROVE  HoldsLock'
  <1>1. CASE UNCHANGED vars
    BY <1>1 DEF vars, HoldsLock
  <1>2. ASSUME NEW r \in Readers, ReaderNext(r)
        PROVE  HoldsLock'
    <2>1. SUFFICES ASSUME NEW s \in Readers, reader'[s].pc \in Filling, s \notin slow'
                   PROVE  lock'[reader'[s].model] = s
      BY DEF HoldsLock
    <2>2. \A q \in Readers : q # r => reader'[q] = reader[q]
      BY <1>2, ReadersTyped
    <2>3. /\ reader'[s].model = reader[s].model
          /\ (s = r /\ Acquire(r) /\ lock[reader[r].model] = None) \/ reader[s].pc \in Filling
      BY <1>2, <2>1, <2>2, FillingMoves
    <2>4. lock \in [AllModels -> Readers \cup {None}] /\ None \notin Readers
          /\ reader[s].model \in AllModels
      BY <2>1, <2>3, CacheAssumption, Zenon DEF TypeOK, ReaderOK, Filling, Acquire
    <2>5. IdleReader.pc \notin Filling /\ r \in DOMAIN reader
      BY DEF IdleReader, Filling, TypeOK
    <2>6. CASE Acquire(r) /\ UNCHANGED slow
      <3>1. CASE s = r /\ lock[reader[r].model] = None
        BY <2>3, <2>4, <2>6, <3>1, Zenon DEF Acquire
      <3>2. CASE reader[s].pc \in Filling
        BY <2>1, <2>3, <2>4, <2>6, <3>2, ZenonT(60) DEF Acquire, HoldsLock
      <3>3. QED
        BY <2>3, <3>1, <3>2
    <2>7. CASE Release(r)
      <3>1. s # r
        BY <2>1, <2>5, <2>7 DEF Release, Answer
      <3>2. lock[reader[s].model] = s
        BY <2>1, <2>2, <2>3, <2>7, <3>1, Zenon DEF Release, HoldsLock
      <3>3. QED
        BY <2>3, <2>4, <2>7, <3>1, <3>2, Zenon DEF Release
    <2>8. CASE ReadFails(r) /\ UNCHANGED lock
      <3>1. s # r
        BY <2>1, <2>5, <2>8 DEF ReadFails
      <3>2. QED
        BY <2>1, <2>2, <2>3, <2>8, <3>1, Zenon DEF ReadFails, HoldsLock
    <2>9. CASE UNCHANGED <<lock, slow>> /\ ~ Acquire(r)
      BY <2>1, <2>3, <2>9 DEF HoldsLock
    <2>10. QED
      BY <1>2, <2>6, <2>7, <2>8, <2>9, LockMoves
  <1>3. ASSUME NEW m \in AllModels, LockExpires(m)
        PROVE  HoldsLock'
    BY <1>3 DEF LockExpires, InUse, HoldsLock, TypeOK
  <1>4. ASSUME NEW m \in AllModels, LockExpiresInUse(m)
        PROVE  HoldsLock'
    BY <1>4 DEF LockExpiresInUse, InUse, HoldsLock, TypeOK
  <1>5. ASSUME Next, \A r \in Readers : ~ ReaderNext(r),
               \A m \in AllModels : ~ LockExpires(m) /\ ~ LockExpiresInUse(m)
        PROVE  UNCHANGED <<lock, slow, reader>>
    BY <1>5, Zenon DEF Next, Commit, Invalidation, InvalidateFile, InvalidateDirectory, InvalidateNode,
                InvalidateHealthyNodes, InvalidationLost, EntryExpires, Replicate, Failover
  <1>6. QED
    BY <1>1, <1>2, <1>3, <1>4, <1>5, Zenon DEF HoldsLock

\* The lock lets one reader fill at a time.
LEMMA LockIsExclusive ==
    ASSUME HoldsLock
    PROVE  OneFill
  BY DEF HoldsLock, OneFill

-----------------------------------------------------------------------------
(* The lists of children. *)

\* What a step of a reader keeps of the list it is at: it moves to the version
\* the replica has, and takes what the repository answers.
LEMMA ListMoves ==
    ASSUME TypeOK, ReaderOK, NEW r \in Readers, ReaderNext(r)
    PROVE  /\ reader'[r].version \in {reader[r].version, 0, replica.version}
           /\ reader'[r].pc = "fill"
                 => /\ reader'[r].version = reader[r].version
                    /\ reader'[r].value = db.commit
  <1>1. r \in DOMAIN reader /\ reader[r] \in
             [pc : {"idle", "get", "null", "lock", "poll"} \cup Filling,
              model : AllModels \cup {"none"}, version : Versions, value : -1..MaxWrites]
    BY DEF TypeOK
  <1>2. IdleReader.pc = "idle" /\ IdleReader.version = 0
    BY DEF IdleReader
  <1>3. ASSUME Answer(r)
        PROVE  reader'[r].version = 0 /\ reader'[r].pc = "idle"
    BY <1>1, <1>2, <1>3 DEF Answer
  <1>4. ASSUME NEW pc, Goto(r, pc)
        PROVE  reader'[r].pc = pc /\ reader'[r].version = reader[r].version
    BY <1>1, <1>4 DEF Goto
  <1>5. ASSUME NEW x, DOMAIN x = {"pc", "model", "version", "value"}, Look(r, x)
        PROVE  reader'[r].version \in {x.version, 0} /\ reader'[r].pc \in {"idle", "null", "lock"}
    BY <1>1, <1>2, <1>5 DEF Look
  <1>6. CASE \E m \in AllModels : Start(r, m)
    <2>1. ASSUME NEW m \in AllModels
          PROVE  /\ DOMAIN [IdleReader EXCEPT !.model = m] = {"pc", "model", "version", "value"}
                 /\ [IdleReader EXCEPT !.model = m].version = 0
      BY DEF IdleReader
    <2>2. QED
      BY <1>5, <1>6, <2>1 DEF Start
  <1>7. CASE directoryListVersion(r)
    BY <1>1, <1>7, Zenon DEF directoryListVersion, IdleReader
  <1>8. CASE loadJSON(r)
    BY <1>1, <1>5, <1>8, SMTT(30) DEF loadJSON
  <1>9. CASE checkNull(r) \/ PollHit(r) \/ LoadDirect(r) \/ Release(r) \/ ReadFails(r)
    BY <1>3, <1>4, <1>9, SMTT(30) DEF checkNull, PollHit, LoadDirect, Release, ReadFails, Answer
  <1>10. CASE Acquire(r)
    BY <1>4, <1>10 DEF Acquire
  <1>11. CASE Load(r)
    BY <1>1, <1>11, Zenon DEF Load, Loaded
  <1>12. CASE Fill(r) \/ FillNull(r) \/ DeleteNull(r)
    BY <1>4, <1>12 DEF Fill, FillNull, DeleteNull
  <1>13. QED
    BY <1>6, <1>7, <1>8, <1>9, <1>10, <1>11, <1>12, Zenon DEF ReaderNext, ReaderStep

\* Every step keeps the lists under a version late enough.
LEMMA StepLists ==
    ASSUME TypeOK, ReaderOK, Counted, ListsLater, DirectoryListIsLater, [Next]_vars
    PROVE  ListsLater' /\ DirectoryListIsLater'
  <1>1. CASE UNCHANGED vars
    BY <1>1, Zenon DEF vars, ListsLater, DirectoryListIsLater
  <1>2. CASE Next /\ failedOver'
    BY <1>2, Zenon DEF ListsLater, DirectoryListIsLater
  <1>3. CASE Next /\ ~ failedOver'
    <2>1. ~ failedOver /\ ~ Failover
      <3>1. ~ Failover
        BY <1>3, Zenon DEF Failover
      <3>2. failedOver' = failedOver
        BY <1>3, <3>1, Frames
      <3>3. QED
        BY <1>3, <3>1, <3>2, Zenon
    <2>2. /\ \A v \in Versions : v > master.version => master.entries[<<"children", v>>] = NoEntry
          /\ \A r \in Readers : reader[r].version <= master.version
          /\ \A r \in Readers : reader[r].pc = "fill" /\ reader[r].model = "children"
                                   => reader[r].value >= since[reader[r].version]
          /\ \A v \in Versions : master.entries[<<"children", v>>] # NoEntry
                                   => master.entries[<<"children", v>>].value >= since[v]
      BY <2>1 DEF ListsLater, DirectoryListIsLater
    <2>3. /\ master.version \in Versions /\ \A r \in Readers : reader[r].version \in Versions
          /\ \A v \in Versions : v \in Int /\ 0 <= v
          /\ since \in [Versions -> 0..MaxWrites] /\ master \in Redis
      <3>1. master.version \in Versions /\ \A r \in Readers : reader[r].version \in Versions
        BY DEF TypeOK, Redis
      <3>2. \A v \in Versions : v \in Int /\ 0 <= v
        BY CacheAssumption DEF Versions
      <3>3. QED
        BY <3>1, <3>2 DEF TypeOK
    <2>4. CASE \E c \in 1..MaxWrites : InvalidateDirectory(c)
      <3>1. PICK c \in 1..MaxWrites : InvalidateDirectory(c)
        BY <2>4
      <3>2. /\ master'.version = master.version + 1 /\ master'.entries = master.entries
            /\ \A v \in Versions : v # master.version + 1 => since'[v] = since[v]
            /\ UNCHANGED reader
        BY <2>3, <3>1 DEF InvalidateDirectory, Redis
      <3>3. \A v \in Versions : v > master.version + 1 => v > master.version
        BY <2>3
      <3>4. \A r \in Readers : /\ reader[r].version <= master.version + 1
                               /\ reader[r].version # master.version + 1
        BY <2>2, <2>3
      <3>5. ListsLater'
        BY <2>2, <2>3, <3>2, <3>3, <3>4, Zenon DEF ListsLater
      <3>6. master.version + 1 \in Versions => master.version + 1 > master.version
        BY <2>3
      <3>7. DirectoryListIsLater'
        BY <2>2, <2>3, <3>2, <3>6, ZenonT(60) DEF DirectoryListIsLater
      <3>8. QED
        BY <3>5, <3>7
    <2>5. CASE \A c \in 1..MaxWrites : ~ InvalidateDirectory(c)
      <3>1. UNCHANGED since /\ master'.version = master.version
        BY <1>3, <2>1, <2>5, Frames, RedisMoves, Zenon
      <3>2. ASSUME NEW r \in Readers
            PROVE  /\ reader'[r].version <= master.version
                   /\ reader'[r].pc = "fill" /\ reader'[r].model = "children"
                         => reader'[r].value >= since[reader'[r].version]
        <4>1. CASE ReaderNext(r)
          <5>1. /\ reader'[r].version \in {reader[r].version, 0, replica.version}
                /\ reader'[r].pc = "fill" => /\ reader'[r].version = reader[r].version
                                            /\ reader'[r].value = db.commit
            BY <4>1, ListMoves
          <5>2. replica.version <= master.version /\ since[reader[r].version] <= db.commit
            BY <2>3 DEF Counted
          <5>3. since[reader[r].version] \in Int /\ db.commit \in Int
            BY <2>3, CacheAssumption DEF TypeOK
          <5>4. QED
            BY <2>2, <2>3, <5>1, <5>2, <5>3, Zenon
        <4>2. CASE ~ ReaderNext(r)
          <5>1. reader'[r] = reader[r]
            BY <1>3, <4>2, Frames, ReadersTyped
          <5>2. QED
            BY <2>2, <5>1
        <4>3. QED
          BY <4>1, <4>2, Zenon
      <3>3. ASSUME NEW v \in Versions
            PROVE  LET e == master.entries[<<"children", v>>]
                       f == master'.entries[<<"children", v>>]
                   IN  \/ f \in {e, NoEntry}
                       \/ (v <= master.version /\ f.value >= since[v])
        <4>1. <<"children", v>> \in Keys /\ <<"children", v>> # NullKey
          BY DEF Keys, NullKey
        <4>2. ASSUME NEW r \in Readers, Fill(r), <<"children", v>> = Key(r)
              PROVE  v <= master.version /\ master'.entries[<<"children", v>>].value >= since[v]
          <5>1. reader[r].value \in 0..MaxWrites
            BY <4>2, CacheAssumption DEF Fill, TypeOK, ReaderOK, NotFound
          <5>2. master'.entries[Key(r)].value = reader[r].value
            BY <2>3, <4>1, <4>2, <5>1, SetEntry, Zenon DEF Fill
          <5>3. reader[r].model = "children" /\ reader[r].version = v
            BY <4>2 DEF Key
          <5>4. QED
            BY <2>2, <4>2, <5>2, <5>3, Zenon DEF Fill
        <4>3. QED
          BY <1>3, <2>1, <2>5, <4>1, <4>2, RedisMoves, Zenon
      <3>4. ListsLater'
        <4>1. \A v \in Versions : v > master.version => ~ (v <= master.version)
          BY <2>3
        <4>2. \A v \in Versions : v > master.version => master'.entries[<<"children", v>>] = NoEntry
          BY <2>2, <3>3, <4>1
        <4>3. QED
          BY <3>1, <3>2, <4>2, Zenon DEF ListsLater
      <3>5. DirectoryListIsLater'
        BY <2>2, <3>1, <3>3, Zenon DEF DirectoryListIsLater
      <3>6. QED
        BY <3>4, <3>5
    <2>6. QED
      BY <2>4, <2>5
  <1>4. QED
    BY <1>1, <1>2, <1>3

-----------------------------------------------------------------------------
(* The theorems. *)

\* The empty cache satisfies the invariant.
LEMMA InitCache ==
    ASSUME Init
    PROVE  CacheInv
  <1>1. 0 \in Versions /\ 0 \in 0..MaxWrites /\ 0 \in 0..MaxFaults /\ 0 \in -1..MaxWrites
    BY CacheAssumption DEF Versions
  <1>2. EmptyRedis \in Redis
    BY <1>1 DEF EmptyRedis, Redis
  <1>3. TypeOK
    <2>1. IdleReader \in [pc : {"idle", "get", "null", "lock", "poll"} \cup Filling,
                          model : AllModels \cup {"none"}, version : Versions, value : -1..MaxWrites]
      BY <1>1 DEF IdleReader
    <2>2. object \in DOMAIN Models /\ db \in [commit : 0..MaxWrites, state : {"absent", "empty", "full"}]
      BY <1>1 DEF Init
    <2>3. QED
      BY <1>1, <1>2, <2>1, <2>2, Zenon DEF Init, TypeOK
  <1>4. ReaderOK /\ HoldsLock
    BY Zenon DEF Init, ReaderOK, HoldsLock, IdleReader, Filling
  <1>5. Counted
    BY <1>1, FS_EmptySet DEF Init, Counted, EmptyRedis
  <1>6. ListsLater /\ DirectoryListIsLater
    BY <1>1 DEF Init, ListsLater, DirectoryListIsLater, EmptyRedis, IdleReader, Keys
  <1>7. QED
    BY <1>3, <1>4, <1>5, <1>6 DEF CacheInv

\* The invariant of the cache is inductive.
THEOREM CacheInvariant == Spec => []CacheInv
  <1>1. CacheInv /\ [Next]_vars => CacheInv'
    BY StepTyped, StepCounted, StepHoldsLock, StepLists DEF CacheInv
  <1>2. QED
    BY <1>1, InitCache, PTL DEF Spec

\* The state of readers, locks, Redis and its replica keeps its types; in
\* particular there is never a version beyond the number of commits.
THEOREM TypeCorrect == Spec => []TypeOK
  BY CacheInvariant, PTL DEF CacheInv

\* Two readers fill one read model at the same time only if the lock of one of
\* them has expired (read_cache.go, lock.go).
THEOREM FillsAreExclusive == Spec => []OneFill
  <1>1. CacheInv => OneFill
    BY LockIsExclusive DEF CacheInv
  <1>2. QED
    BY <1>1, CacheInvariant, PTL

\* A list of children that is cached under a version is later than every commit
\* whose invalidation has led to that version (InvalidateDirectory,
\* directoryListVersion), whatever locks expire and replicas lag, until Redis
\* fails over.
THEOREM ListsAreLater == Spec => []DirectoryListIsLater
  BY CacheInvariant, PTL DEF CacheInv

=============================================================================
