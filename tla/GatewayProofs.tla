----------------------------- MODULE GatewayProofs -----------------------------
(***************************************************************************)
(* The copies of chunks on the data nodes under the requests of the        *)
(* gateway, for every number of nodes, chunks, requests and faults: what   *)
(* the steps of the data nodes' stores and of their callers do to them,    *)
(* and an invariant that makes CopiesAreWhole inductive.                   *)
(***************************************************************************)
EXTENDS Gateway, TLAPS

-----------------------------------------------------------------------------
(* The stores of the data nodes. *)

\* The disk has two files for every chunk of every node.
DiskShape == \E D : disk \in [Nodes -> [Chunks -> [data : D, meta : D]]]

\* A request is a record of these fields.
CallShape ==
    \A k \in call :
        k = [from |-> k.from, node |-> k.node, op |-> k.op, chunk |-> k.chunk,
             data |-> k.data, sum |-> k.sum, pc |-> k.pc]

IsHalf(k) == k.pc = "half"

\* Two requests do the same thing to the same copy.
SameWork(k, l) ==
    k.node = l.node /\ k.chunk = l.chunk /\ k.op = l.op /\ k.data = l.data /\ k.sum = l.sum

\* What the first half of a request has done is still so: it has the mutex.
HalfDone ==
    \A k \in call : IsHalf(k) /\ k.node \in Nodes /\ k.chunk \in Chunks =>
        /\ k.op = "put" => k.sum = k.data /\ disk[k.node][k.chunk].data = k.data
        /\ k.op = "delete" => disk[k.node][k.chunk].meta = None

\* One request of a node has the mutex.
OneHalf ==
    \A k, l \in call : IsHalf(k) /\ IsHalf(l) /\ k.node = l.node => SameWork(k, l)

OpsKnown == \A k \in call : k.op \in {"put", "delete"}

StoreInv ==
    DiskShape /\ CallShape /\ OpsKnown /\ HalfDone /\ OneHalf /\ CopiesAreWhole

-----------------------------------------------------------------------------
\* Requests come, are answered and are given up: as long as the disk stays as it
\* is, every request with the mutex is still there, or its copy counts as torn.
LEMMA CallsChange ==
    ASSUME StoreInv, disk' = disk, torn \subseteq torn', CallShape', OpsKnown',
           \A l \in call' : IsHalf(l) => \E k \in call : IsHalf(k) /\ SameWork(k, l),
           \A k \in call : IsHalf(k) =>
               <<k.node, k.chunk>> \in torn' \/ \E l \in call' : IsHalf(l) /\ SameWork(k, l)
    PROVE  StoreInv'
  <1>1. DiskShape'
    BY Zenon DEF StoreInv, DiskShape
  <1>2. HalfDone'
    <2> SUFFICES ASSUME NEW l \in call', IsHalf(l), l.node \in Nodes, l.chunk \in Chunks
                 PROVE  /\ l.op = "put" => l.sum = l.data /\ disk[l.node][l.chunk].data = l.data
                        /\ l.op = "delete" => disk[l.node][l.chunk].meta = None
      BY Zenon DEF HalfDone
    <2>1. PICK k \in call : IsHalf(k) /\ SameWork(k, l)
      BY Zenon
    <2>2. QED
      BY <2>1 DEF StoreInv, HalfDone, SameWork
  <1>3. OneHalf'
    <2> SUFFICES ASSUME NEW l \in call', NEW m \in call', IsHalf(l), IsHalf(m), l.node = m.node
                 PROVE  SameWork(l, m)
      BY Zenon DEF OneHalf
    <2>1. PICK k \in call : IsHalf(k) /\ SameWork(k, l)
      BY Zenon
    <2>2. PICK j \in call : IsHalf(j) /\ SameWork(j, m)
      BY Zenon
    <2>3. SameWork(k, j)
      BY <2>1, <2>2 DEF StoreInv, OneHalf, SameWork
    <2>4. QED
      BY <2>1, <2>2, <2>3, Zenon DEF SameWork
  <1>4. CopiesAreWhole'
    <2> SUFFICES ASSUME NEW n \in Nodes, NEW c \in Chunks,
                        disk[n][c].meta # None, disk[n][c].meta # disk[n][c].data,
                        <<n, c>> \notin torn'
                 PROVE  \E l \in call' : l.node = n /\ l.chunk = c /\ l.pc = "half"
      BY ZenonT(60) DEF CopiesAreWhole
    <2>1. PICK k \in call : k.node = n /\ k.chunk = c /\ k.pc = "half"
      BY ZenonT(60) DEF StoreInv, CopiesAreWhole
    <2>2. QED
      BY <2>1, Zenon DEF IsHalf, SameWork
  <1>5. QED
    BY <1>1, <1>2, <1>3, <1>4, Zenon DEF StoreInv

\* The request after its first half.
HalfOf(k) ==
    [from |-> k.from, node |-> k.node, op |-> k.op, chunk |-> k.chunk,
     data |-> k.data, sum |-> k.sum, pc |-> "half"]

\* The first half of a request: it takes the mutex and changes one file.
LEMMA FirstHalf ==
    ASSUME StoreInv, NEW k \in call, k.node \in Nodes, Unlocked(k.node), torn' = torn,
           DiskShape', call' = (call \ {k}) \cup {HalfOf(k)},
           \A n \in Nodes, c \in Chunks :
               n # k.node \/ c # k.chunk => disk'[n][c] = disk[n][c],
           k.chunk \in Chunks =>
              /\ k.op = "put" => k.sum = k.data /\ disk'[k.node][k.chunk].data = k.data
              /\ k.op = "delete" => disk'[k.node][k.chunk].meta = None
    PROVE  StoreInv'
  <1>1. \A l \in call' : IsHalf(l) => l = HalfOf(k) \/ (l \in call /\ l.node # k.node)
    BY Zenon DEF Unlocked, IsHalf
  <1>2. CallShape' /\ OpsKnown'
    BY DEF StoreInv, CallShape, OpsKnown, HalfOf
  <1>3. HalfDone'
    <2> SUFFICES ASSUME NEW l \in call', IsHalf(l), l.node \in Nodes, l.chunk \in Chunks
                 PROVE  /\ l.op = "put" => l.sum = l.data /\ disk'[l.node][l.chunk].data = l.data
                        /\ l.op = "delete" => disk'[l.node][l.chunk].meta = None
      BY Zenon DEF HalfDone
    <2>1. CASE l = HalfOf(k)
      BY <2>1, Zenon DEF HalfOf
    <2>2. CASE l \in call /\ l.node # k.node
      <3>1. disk'[l.node][l.chunk] = disk[l.node][l.chunk]
        BY <2>2, Zenon
      <3>2. QED
        BY <2>2, <3>1, ZenonT(60) DEF StoreInv, HalfDone
    <2>3. QED
      BY <1>1, <2>1, <2>2, Zenon
  <1>4. OneHalf'
    <2> SUFFICES ASSUME NEW l \in call', NEW m \in call', IsHalf(l), IsHalf(m), l.node = m.node
                 PROVE  SameWork(l, m)
      BY Zenon DEF OneHalf
    <2>1. CASE l = HalfOf(k) /\ m = HalfOf(k)
      BY <2>1, Zenon DEF SameWork
    <2>2. CASE l \in call /\ m \in call
      BY <2>2, Zenon DEF StoreInv, OneHalf
    <2>3. HalfOf(k).node = k.node
      BY Zenon DEF HalfOf
    <2>4. QED
      BY <1>1, <2>1, <2>2, <2>3, Zenon
  <1>5. CopiesAreWhole'
    <2> SUFFICES ASSUME NEW n \in Nodes, NEW c \in Chunks,
                        disk'[n][c].meta # None, disk'[n][c].meta # disk'[n][c].data,
                        <<n, c>> \notin torn'
                 PROVE  \E l \in call' : l.node = n /\ l.chunk = c /\ l.pc = "half"
      BY ZenonT(60) DEF CopiesAreWhole
    <2>1. CASE n = k.node /\ c = k.chunk
      <3>1. HalfOf(k) \in call' /\ HalfOf(k).node = n /\ HalfOf(k).chunk = c /\ HalfOf(k).pc = "half"
        BY <2>1, Zenon DEF HalfOf
      <3>2. QED
        BY <3>1, Zenon
    <2>2. CASE n # k.node \/ c # k.chunk
      <3>1. PICK l \in call : l.node = n /\ l.chunk = c /\ l.pc = "half"
        BY <2>2 DEF StoreInv, CopiesAreWhole
      <3>2. l # k
        BY <3>1, Zenon DEF Unlocked
      <3>3. QED
        BY <3>1, <3>2, Zenon
    <2>3. QED
      BY <2>1, <2>2, Zenon
  <1>6. QED
    BY <1>2, <1>3, <1>4, <1>5, Zenon DEF StoreInv

\* The second half: the copy is whole again, or gone, and the mutex is free.
LEMMA SecondHalf ==
    ASSUME StoreInv, NEW k \in call, IsHalf(k), k.node \in Nodes, torn' = torn, DiskShape',
           CallShape', OpsKnown',
           \A l \in call' : IsHalf(l) => l \in call,
           \A l \in call : l # k => l \in call',
           \A n \in Nodes, c \in Chunks :
               n # k.node \/ c # k.chunk => disk'[n][c] = disk[n][c],
           k.chunk \in Chunks =>
              /\ k.op = "put" => disk'[k.node][k.chunk].data = k.data
                                 /\ disk'[k.node][k.chunk].meta = k.data
              /\ k.op = "delete" => disk'[k.node][k.chunk].meta = None
    PROVE  StoreInv'
  <1>1. HalfDone'
    <2> SUFFICES ASSUME NEW l \in call', IsHalf(l), l.node \in Nodes, l.chunk \in Chunks
                 PROVE  /\ l.op = "put" => l.sum = l.data /\ disk'[l.node][l.chunk].data = l.data
                        /\ l.op = "delete" => disk'[l.node][l.chunk].meta = None
      BY Zenon DEF HalfDone
    <2>1. l \in call
      BY Zenon
    <2>2. CASE l.node = k.node
      <3>1. SameWork(k, l)
        BY <2>1, <2>2, Zenon DEF StoreInv, OneHalf
      <3>2. QED
        BY <2>1, <3>1, Zenon DEF StoreInv, HalfDone, SameWork
    <2>3. CASE l.node # k.node
      <3>1. disk'[l.node][l.chunk] = disk[l.node][l.chunk]
        BY <2>3, Zenon
      <3>2. QED
        BY <2>1, <3>1, Zenon DEF StoreInv, HalfDone
    <2>4. QED
      BY <2>2, <2>3, Zenon
  <1>2. OneHalf'
    BY Zenon DEF StoreInv, OneHalf
  <1>3. CopiesAreWhole'
    <2>0. SUFFICES ASSUME NEW n \in Nodes, NEW c \in Chunks
                   PROVE  \/ disk'[n][c].meta = None
                          \/ disk'[n][c].meta = disk'[n][c].data
                          \/ <<n, c>> \in torn'
                          \/ \E l \in call' : l.node = n /\ l.chunk = c /\ l.pc = "half"
      BY Zenon DEF CopiesAreWhole
    <2> SUFFICES ASSUME disk'[n][c].meta # None, disk'[n][c].meta # disk'[n][c].data,
                        <<n, c>> \notin torn'
                 PROVE  \E l \in call' : l.node = n /\ l.chunk = c /\ l.pc = "half"
      BY Zenon
    <2>1. ~(n = k.node /\ c = k.chunk)
      BY Zenon DEF StoreInv, OpsKnown
    <2>2. PICK l \in call : l.node = n /\ l.chunk = c /\ l.pc = "half"
      BY <2>1 DEF StoreInv, CopiesAreWhole
    <2>3. QED
      BY <2>1, <2>2, Zenon
  <1>4. QED
    BY <1>1, <1>2, <1>3, Zenon DEF StoreInv

-----------------------------------------------------------------------------
(* The steps of the nodes. *)

\* What writing one of the two files of a copy does to the disk.
LEMMA DataWritten ==
    ASSUME DiskShape, NEW n \in Nodes, NEW c, NEW d, disk' = [disk EXCEPT ![n][c].data = d]
    PROVE  /\ DiskShape'
           /\ \A m \in Nodes, e \in Chunks : m # n \/ e # c => disk'[m][e] = disk[m][e]
           /\ c \in Chunks => disk'[n][c].data = d /\ disk'[n][c].meta = disk[n][c].meta
  <1>1. PICK D : disk \in [Nodes -> [Chunks -> [data : D, meta : D]]]
    BY Zenon DEF DiskShape
  <1>2. disk[n] \in [Chunks -> [data : D, meta : D]]
    BY <1>1, Zenon
  <1>3. disk' = [disk EXCEPT ![n] = [disk[n] EXCEPT ![c] = [disk[n][c] EXCEPT !.data = d]]]
    BY Zenon
  <1>4. disk'[n] = [disk[n] EXCEPT ![c] = [disk[n][c] EXCEPT !.data = d]]
    BY <1>1, <1>3, Zenon
  <1>5. \A m \in Nodes : m # n => disk'[m] = disk[m]
    BY <1>1, <1>3, Zenon
  <1>6. \A e \in Chunks : e # c => disk'[n][e] = disk[n][e]
    BY <1>2, <1>4, Zenon
  <1>7. c \in Chunks => /\ disk'[n][c] = [disk[n][c] EXCEPT !.data = d]
                        /\ disk[n][c] \in [data : D, meta : D]
    BY <1>2, <1>4, Zenon
  <1>8. c \in Chunks => disk'[n][c].data = d /\ disk'[n][c].meta = disk[n][c].meta
    BY <1>7, Zenon
  <1>9. DiskShape'
    <2> DEFINE E == D \cup {d}
    <2>1. disk \in [Nodes -> [Chunks -> [data : E, meta : E]]]
      BY <1>1
    <2>2. c \in Chunks => [disk[n][c] EXCEPT !.data = d] \in [data : E, meta : E]
      BY <1>7, Zenon
    <2>3. [disk[n] EXCEPT ![c] = [disk[n][c] EXCEPT !.data = d]] \in [Chunks -> [data : E, meta : E]]
      BY <2>1, <2>2, ZenonT(60)
    <2>4. disk' \in [Nodes -> [Chunks -> [data : E, meta : E]]]
      BY <1>3, <2>1, <2>3, ZenonT(60)
    <2>5. QED
      BY <2>4, Zenon DEF DiskShape
  <1>10. QED
    BY <1>5, <1>6, <1>8, <1>9, ZenonT(60)

\* The same for the metadata file.
LEMMA MetaWritten ==
    ASSUME DiskShape, NEW n \in Nodes, NEW c, NEW d, disk' = [disk EXCEPT ![n][c].meta = d]
    PROVE  /\ DiskShape'
           /\ \A m \in Nodes, e \in Chunks : m # n \/ e # c => disk'[m][e] = disk[m][e]
           /\ c \in Chunks => disk'[n][c].meta = d /\ disk'[n][c].data = disk[n][c].data
  <1>1. PICK D : disk \in [Nodes -> [Chunks -> [data : D, meta : D]]]
    BY Zenon DEF DiskShape
  <1>2. disk[n] \in [Chunks -> [data : D, meta : D]]
    BY <1>1, Zenon
  <1>3. disk' = [disk EXCEPT ![n] = [disk[n] EXCEPT ![c] = [disk[n][c] EXCEPT !.meta = d]]]
    BY Zenon
  <1>4. disk'[n] = [disk[n] EXCEPT ![c] = [disk[n][c] EXCEPT !.meta = d]]
    BY <1>1, <1>3, Zenon
  <1>5. \A m \in Nodes : m # n => disk'[m] = disk[m]
    BY <1>1, <1>3, Zenon
  <1>6. \A e \in Chunks : e # c => disk'[n][e] = disk[n][e]
    BY <1>2, <1>4, Zenon
  <1>7. c \in Chunks => /\ disk'[n][c] = [disk[n][c] EXCEPT !.meta = d]
                        /\ disk[n][c] \in [data : D, meta : D]
    BY <1>2, <1>4, Zenon
  <1>8. c \in Chunks => disk'[n][c].meta = d /\ disk'[n][c].data = disk[n][c].data
    BY <1>7, Zenon
  <1>9. DiskShape'
    <2> DEFINE E == D \cup {d}
    <2>1. disk \in [Nodes -> [Chunks -> [data : E, meta : E]]]
      BY <1>1
    <2>2. c \in Chunks => [disk[n][c] EXCEPT !.meta = d] \in [data : E, meta : E]
      BY <1>7, Zenon
    <2>3. [disk[n] EXCEPT ![c] = [disk[n][c] EXCEPT !.meta = d]] \in [Chunks -> [data : E, meta : E]]
      BY <2>1, <2>2, Zenon
    <2>4. disk' \in [Nodes -> [Chunks -> [data : E, meta : E]]]
      BY <1>3, <2>1, <2>3, Zenon
    <2>5. QED
      BY <2>4, Zenon DEF DiskShape
  <1>10. QED
    BY <1>5, <1>6, <1>8, <1>9, Zenon

\* An answered request does not have the mutex, and the other requests stay.
LEMMA Answered ==
    ASSUME StoreInv, NEW k \in call, NEW pc \in {"ok", "missing", "error"}, call' = Answer(k, pc)
    PROVE  /\ CallShape' /\ OpsKnown'
           /\ \A l \in call' : IsHalf(l) => l \in call /\ l # k
           /\ \A l \in call : l # k => l \in call'
  <1>1. k = [from |-> k.from, node |-> k.node, op |-> k.op, chunk |-> k.chunk,
             data |-> k.data, sum |-> k.sum, pc |-> k.pc]
    BY Zenon DEF StoreInv, CallShape
  <1> DEFINE a == [k EXCEPT !.pc = pc]
  <1>2. a = [from |-> k.from, node |-> k.node, op |-> k.op, chunk |-> k.chunk,
             data |-> k.data, sum |-> k.sum, pc |-> pc]
    BY <1>1
  <1>3. a.pc # "half" /\ a.op = k.op
        /\ a = [from |-> a.from, node |-> a.node, op |-> a.op, chunk |-> a.chunk,
                data |-> a.data, sum |-> a.sum, pc |-> a.pc]
    BY <1>2, Zenon
  <1>4. \A l \in call' : (l \in call /\ l # k) \/ l = a
    BY Zenon DEF Answer
  <1>5. \A l \in call : l # k => l \in call'
    BY Zenon DEF Answer
  <1> HIDE DEF a
  <1>6. QED
    BY <1>3, <1>4, <1>5, Zenon DEF StoreInv, CallShape, OpsKnown, IsHalf

\* A step of a node's store.
LEMMA StoreStep ==
    ASSUME StoreInv, NEW k \in call, k.node \in Nodes,
           PutChunk(k) \/ PutMetadata(k) \/ DeleteChunk(k) \/ DeleteData(k) \/ StoreFails(k)
    PROVE  StoreInv'
  <1>1. DiskShape /\ HalfDone /\ OneHalf
    BY Zenon DEF StoreInv
  <1>2. Half(k) = (call \ {k}) \cup {HalfOf(k)}
    <2>1. k = [from |-> k.from, node |-> k.node, op |-> k.op, chunk |-> k.chunk,
               data |-> k.data, sum |-> k.sum, pc |-> k.pc]
      BY Zenon DEF StoreInv, CallShape
    <2>2. [k EXCEPT !.pc = "half"] = HalfOf(k)
      BY <2>1 DEF HalfOf
    <2>3. QED
      BY <2>2, Zenon DEF Half
  <1>3. ASSUME k.pc = "sent", UNCHANGED <<disk, torn>>,
               \E pc \in {"ok", "missing", "error"} : call' = Answer(k, pc)
        PROVE  StoreInv'
    <2>1. /\ CallShape' /\ OpsKnown'
          /\ \A l \in call' : IsHalf(l) => l \in call
          /\ \A l \in call : l # k => l \in call'
      BY <1>3, Answered, Zenon
    <2>2. ~ IsHalf(k) /\ \A l \in call : SameWork(l, l)
      BY <1>3, Zenon DEF IsHalf, SameWork
    <2>3. QED
      BY <1>3, <2>1, <2>2, CallsChange, ZenonT(60)
  <1>4. CASE PutChunk(k)
    <2>1. CASE validateChecksum(k)
      <3>1. /\ Unlocked(k.node) /\ torn' = torn /\ k.op = "put" /\ k.sum = k.data
            /\ disk' = [disk EXCEPT ![k.node][k.chunk].data = k.data]
            /\ call' = (call \ {k}) \cup {HalfOf(k)}
        BY <1>2, <1>4, <2>1, Zenon DEF PutChunk, At, validateChecksum
      <3>2. /\ DiskShape'
            /\ \A n \in Nodes, c \in Chunks : n # k.node \/ c # k.chunk => disk'[n][c] = disk[n][c]
            /\ k.chunk \in Chunks => disk'[k.node][k.chunk].data = k.data
        <4>1. disk' = [disk EXCEPT ![k.node][k.chunk].data = k.data]
          BY <3>1, Zenon
        <4>2. DiskShape
          BY <1>1, Zenon
        <4>3. /\ DiskShape'
              /\ \A m \in Nodes, e \in Chunks : m # k.node \/ e # k.chunk => disk'[m][e] = disk[m][e]
              /\ k.chunk \in Chunks => disk'[k.node][k.chunk].data = k.data
                                      /\ disk'[k.node][k.chunk].meta = disk[k.node][k.chunk].meta
          BY <4>1, <4>2, DataWritten, ZenonT(60)
        <4>4. QED
          BY <4>3, Zenon
      <3>3. "put" # "delete"
        BY Zenon
      <3>4. QED
        BY <3>1, <3>2, <3>3, FirstHalf, Zenon
    <2>2. CASE ~ validateChecksum(k)
      BY <1>3, <1>4, <2>2, ZenonT(60) DEF PutChunk, At
    <2>3. QED
      BY <2>1, <2>2, Zenon
  <1>5. CASE DeleteChunk(k)
    <2>1. /\ Unlocked(k.node) /\ torn' = torn /\ k.op = "delete" /\ k.pc = "sent"
          /\ disk' = [disk EXCEPT ![k.node][k.chunk].meta = None]
      BY <1>5, Zenon DEF DeleteChunk, At
    <2>2. CASE disk[k.node][k.chunk].meta = None
      <3>1. disk' = disk
        <4>1. PICK D : disk \in [Nodes -> [Chunks -> [data : D, meta : D]]]
          BY <1>1, Zenon DEF DiskShape
        <4>2. disk' = [disk EXCEPT ![k.node] = [disk[k.node] EXCEPT ![k.chunk] =
                           [disk[k.node][k.chunk] EXCEPT !.meta = None]]]
          BY <2>1, Zenon
        <4>3. k.chunk \in Chunks =>
                 [disk[k.node][k.chunk] EXCEPT !.meta = None] = disk[k.node][k.chunk]
          <5>1. k.chunk \in Chunks => disk[k.node][k.chunk] \in [data : D, meta : D]
            BY <4>1, Zenon
          <5>2. QED
            BY <2>2, <5>1, Zenon
        <4>4. [disk[k.node] EXCEPT ![k.chunk] = [disk[k.node][k.chunk] EXCEPT !.meta = None]]
                 = disk[k.node]
          BY <4>1, <4>3, Zenon
        <4>5. QED
          BY <4>1, <4>2, <4>4, Zenon
      <3>2. QED
        BY <1>3, <1>5, <2>1, <2>2, <3>1, ZenonT(60) DEF DeleteChunk
    <2>3. CASE disk[k.node][k.chunk].meta # None
      <3>1. call' = (call \ {k}) \cup {HalfOf(k)}
        BY <1>2, <1>5, <2>3, Zenon DEF DeleteChunk
      <3>2. /\ DiskShape'
            /\ \A n \in Nodes, c \in Chunks : n # k.node \/ c # k.chunk => disk'[n][c] = disk[n][c]
            /\ k.chunk \in Chunks => disk'[k.node][k.chunk].meta = None
        <4>1. disk' = [disk EXCEPT ![k.node][k.chunk].meta = None]
          BY <2>1, Zenon
        <4>2. DiskShape
          BY <1>1, Zenon
        <4>3. /\ DiskShape'
              /\ \A m \in Nodes, e \in Chunks : m # k.node \/ e # k.chunk => disk'[m][e] = disk[m][e]
              /\ k.chunk \in Chunks => disk'[k.node][k.chunk].meta = None
                                      /\ disk'[k.node][k.chunk].data = disk[k.node][k.chunk].data
          BY <4>1, <4>2, MetaWritten, ZenonT(60)
        <4>4. QED
          BY <4>3, Zenon
      <3>3. "put" # "delete"
        BY Zenon
      <3>4. QED
        BY <2>1, <3>1, <3>2, <3>3, FirstHalf, Zenon
    <2>4. QED
      BY <2>2, <2>3, Zenon
  <1>6. CASE PutMetadata(k)
    <2>1. /\ IsHalf(k) /\ torn' = torn /\ k.op = "put" /\ call' = Answer(k, "ok")
          /\ disk' = [disk EXCEPT ![k.node][k.chunk].meta = k.sum]
      BY <1>6, Zenon DEF PutMetadata, At, IsHalf
    <2>2. k.chunk \in Chunks => k.sum = k.data /\ disk[k.node][k.chunk].data = k.data
      BY <1>1, <2>1, Zenon DEF HalfDone
    <2>3. /\ CallShape' /\ OpsKnown'
          /\ \A l \in call' : IsHalf(l) => l \in call
          /\ \A l \in call : l # k => l \in call'
      BY <2>1, Answered, Zenon
    <2>4. /\ DiskShape'
          /\ \A n \in Nodes, c \in Chunks : n # k.node \/ c # k.chunk => disk'[n][c] = disk[n][c]
          /\ k.chunk \in Chunks => disk'[k.node][k.chunk].meta = k.sum
                                  /\ disk'[k.node][k.chunk].data = disk[k.node][k.chunk].data
      BY <1>1, <2>1, MetaWritten, ZenonT(60)
    <2>5. k.op # "delete"
      BY <2>1, Zenon
    <2>6. k.chunk \in Chunks => disk'[k.node][k.chunk].data = k.data
                               /\ disk'[k.node][k.chunk].meta = k.data
      BY <2>2, <2>4, Zenon
    <2>7. QED
      BY <2>1, <2>3, <2>4, <2>5, <2>6, SecondHalf, Zenon
  <1>7. CASE DeleteData(k)
    <2>1. /\ IsHalf(k) /\ torn' = torn /\ k.op = "delete" /\ call' = Answer(k, "ok")
          /\ disk' = [disk EXCEPT ![k.node][k.chunk].data = None]
      BY <1>7, Zenon DEF DeleteData, At, IsHalf
    <2>2. k.chunk \in Chunks => disk[k.node][k.chunk].meta = None
      BY <1>1, <2>1, Zenon DEF HalfDone
    <2>3. /\ CallShape' /\ OpsKnown'
          /\ \A l \in call' : IsHalf(l) => l \in call
          /\ \A l \in call : l # k => l \in call'
      BY <2>1, Answered, Zenon
    <2>4. /\ DiskShape'
          /\ \A n \in Nodes, c \in Chunks : n # k.node \/ c # k.chunk => disk'[n][c] = disk[n][c]
          /\ k.chunk \in Chunks => disk'[k.node][k.chunk].meta = disk[k.node][k.chunk].meta
      <3>1. disk' = [disk EXCEPT ![k.node][k.chunk].data = None]
        BY <2>1, ZenonT(60)
      <3>2. DiskShape
        BY <1>1, Zenon
      <3>3. /\ DiskShape'
            /\ \A m \in Nodes, e \in Chunks : m # k.node \/ e # k.chunk => disk'[m][e] = disk[m][e]
            /\ k.chunk \in Chunks => disk'[k.node][k.chunk].data = None
                                    /\ disk'[k.node][k.chunk].meta = disk[k.node][k.chunk].meta
        BY <3>1, <3>2, DataWritten, ZenonT(60)
      <3>4. QED
        BY <3>3, Zenon
    <2>5. k.op # "put"
      BY <2>1, Zenon
    <2>6. k.chunk \in Chunks => disk'[k.node][k.chunk].meta = None
      BY <2>2, <2>4, Zenon
    <2>7. QED
      BY <2>1, <2>3, <2>4, <2>5, <2>6, SecondHalf, ZenonT(60)
  <1>8. CASE StoreFails(k)
    <2>1. /\ disk' = disk /\ torn \subseteq torn' /\ call' = Answer(k, "error")
          /\ IsHalf(k) => <<k.node, k.chunk>> \in torn'
      BY <1>8, Zenon DEF StoreFails, IsHalf
    <2>2. /\ CallShape' /\ OpsKnown'
          /\ \A l \in call' : IsHalf(l) => l \in call
          /\ \A l \in call : l # k => l \in call'
      BY <2>1, Answered, Zenon
    <2>3. \A l \in call : SameWork(l, l)
      BY Zenon DEF SameWork
    <2>4. QED
      BY <2>1, <2>2, <2>3, CallsChange, ZenonT(60)
  <1>9. QED
    BY <1>4, <1>5, <1>6, <1>7, <1>8, ZenonT(60)

-----------------------------------------------------------------------------
(* What callers do to the requests. *)

\* A call set that is an image of the old one: what is not sent any more has no
\* mutex, and what stays keeps its work.
KeepsWork(k, l) == l = k \/ l = [k EXCEPT !.from = None]

\* A request that is given up does the same work.
LEMMA WorkKept ==
    ASSUME CallShape, NEW k \in call, NEW l, KeepsWork(k, l)
    PROVE  /\ SameWork(k, l) /\ l.pc = k.pc /\ l.op = k.op
           /\ l = [from |-> l.from, node |-> l.node, op |-> l.op, chunk |-> l.chunk,
                   data |-> l.data, sum |-> l.sum, pc |-> l.pc]
  <1>1. k = [from |-> k.from, node |-> k.node, op |-> k.op, chunk |-> k.chunk,
             data |-> k.data, sum |-> k.sum, pc |-> k.pc]
    BY Zenon DEF CallShape
  <1>2. CASE l = k
    BY <1>1, <1>2, Zenon DEF SameWork
  <1>3. CASE l = [k EXCEPT !.from = None]
    <2>1. l = [from |-> None, node |-> k.node, op |-> k.op, chunk |-> k.chunk,
               data |-> k.data, sum |-> k.sum, pc |-> k.pc]
      BY <1>1, <1>3, Zenon
    <2>2. QED
      BY <2>1, Zenon DEF SameWork
  <1>4. QED
    BY <1>2, <1>3, Zenon DEF KeepsWork

\* A request that is not at the disk yet.
Fresh(l) ==
    /\ l.op \in {"put", "delete"} /\ l.pc # "half"
    /\ l = [from |-> l.from, node |-> l.node, op |-> l.op, chunk |-> l.chunk,
            data |-> l.data, sum |-> l.sum, pc |-> l.pc]

\* Requests are sent, answers are read, requests are given up.
LEMMA CallsMove ==
    ASSUME StoreInv, disk' = disk, torn \subseteq torn',
           \A l \in call' : Fresh(l) \/ \E k \in call : KeepsWork(k, l),
           \A k \in call : IsHalf(k) =>
               <<k.node, k.chunk>> \in torn' \/ \E l \in call' : KeepsWork(k, l)
    PROVE  StoreInv'
  <1>1. CallShape /\ OpsKnown
    BY Zenon DEF StoreInv
  <1>2. CallShape'
    BY <1>1, WorkKept, Zenon DEF CallShape, Fresh
  <1>3. OpsKnown'
    BY <1>1, WorkKept, Zenon DEF OpsKnown, Fresh
  <1>4. \A l \in call' : IsHalf(l) => \E k \in call : IsHalf(k) /\ SameWork(k, l)
    BY <1>1, WorkKept, Zenon DEF IsHalf, Fresh
  <1>5. \A k \in call : IsHalf(k) =>
           <<k.node, k.chunk>> \in torn' \/ \E l \in call' : IsHalf(l) /\ SameWork(k, l)
    BY <1>1, WorkKept DEF IsHalf
  <1>6. QED
    BY <1>2, <1>3, <1>4, <1>5, CallsChange, ZenonT(60)

\* New requests next to the old ones, of which only answered ones may go.
LEMMA CallsSent ==
    ASSUME StoreInv, UNCHANGED <<disk, torn>>,
           \A l \in call' : l \in call \/ Fresh(l),
           \A k \in call : IsHalf(k) => k \in call'
    PROVE  StoreInv'
  BY CallsMove, Zenon DEF KeepsWork

\* GiveUp keeps the work of every request that has the mutex.
LEMMA GivenUp ==
    ASSUME NEW h
    PROVE  /\ \A l \in GiveUp(h) : \E k \in call : KeepsWork(k, l)
           /\ \A k \in call : IsHalf(k) => \E l \in GiveUp(h) : KeepsWork(k, l)
  <1>1. \A l \in GiveUp(h) : \E k \in call : KeepsWork(k, l)
    BY Zenon DEF GiveUp, KeepsWork
  <1>2. ASSUME NEW k \in call, IsHalf(k) PROVE \E l \in GiveUp(h) : KeepsWork(k, l)
    <2>1. k.pc \in {"sent", "half"}
      BY <1>2, Zenon DEF IsHalf
    <2>2. (IF k.from = h THEN [k EXCEPT !.from = None] ELSE k) \in GiveUp(h)
      BY <2>1, Zenon DEF GiveUp
    <2>3. QED
      BY <2>2, Zenon DEF KeepsWork
  <1>3. QED
    BY <1>1, <1>2, Zenon

-----------------------------------------------------------------------------
(* The requests of the gateway. *)

\* A request to put a chunk, as it is sent.
LEMMA PutIsFresh ==
    ASSUME NEW u, NEW n, NEW d, NEW e
    PROVE  Fresh(PutRequest(u, n, d, e))
  BY Zenon DEF Fresh, PutRequest

\* The next replica of the primary, given the requests that are left.
LEMMA ForwardedCalls ==
    ASSUME NEW u, NEW row, NEW calls, Forwarded(u, row, calls)
    PROVE  (\A l \in call' : l \in calls \/ Fresh(l)) /\ calls \subseteq call'
  <1>1. CASE call' = calls
    BY <1>1, Zenon
  <1>2. ASSUME NEW l, Fresh(l), call' = calls \cup {l}
        PROVE  (\A m \in call' : m \in calls \/ Fresh(m)) /\ calls \subseteq call'
    BY <1>2, Zenon
  <1>3. call' = calls \/ \E n, d, e : call' = calls \cup {PutRequest(u, n, d, e)}
    BY Zenon DEF Forwarded, forwardReplica
  <1>4. QED
    BY <1>1, <1>2, <1>3, PutIsFresh, ZenonT(60)

\* A step of an upload sends, reads or gives up requests, and writes no disk.
LEMMA UploadKeeps ==
    ASSUME StoreInv, NEW u \in Uploads, UploadStep(u)
    PROVE  StoreInv'
  <1>1. CASE UNCHANGED <<disk, torn, call>>
    BY <1>1, CallsSent, Zenon
  <1>2. CASE AllocateUploadTargets(u)
    <2>1. UNCHANGED <<disk, torn>> /\ \E n, d : call' = call \cup {PutRequest(u, n, d, d)}
      BY <1>2, Zenon DEF AllocateUploadTargets
    <2>2. QED
      BY <2>1, PutIsFresh, CallsSent, Zenon
  <1>3. CASE \E k \in call : PutAnswered(u, k)
    <2>1. UNCHANGED <<disk, torn>> /\ \E k \in call : ~ IsHalf(k) /\ call' = call \ {k}
      BY <1>3, Zenon DEF PutAnswered, IsHalf
    <2>2. QED
      BY <2>1, CallsSent, Zenon
  <1>4. CASE \E k \in call : ForwardAnswered(u, k)
    <2>1. PICK k \in call : ForwardAnswered(u, k)
      BY <1>4, Zenon
    <2>2. UNCHANGED <<disk, torn>> /\ ~ IsHalf(k)
          /\ \E row : Forwarded(u, row, call \ {k})
      BY <2>1, Zenon DEF ForwardAnswered, IsHalf
    <2>3. (\A l \in call' : l \in call \ {k} \/ Fresh(l)) /\ call \ {k} \subseteq call'
      BY <2>2, ForwardedCalls, Zenon
    <2>4. QED
      BY <2>2, <2>3, CallsSent, Zenon
  <1>5. CASE ReplicateChunk(u)
    <2>1. UNCHANGED <<disk, torn>>
          /\ (call' = call \/ \E n, d, e : call' = call \cup {PutRequest(u, n, d, e)})
      BY <1>5, Zenon DEF ReplicateChunk, forwardReplica
    <2>2. QED
      BY <2>1, PutIsFresh, CallsSent, ZenonT(60)
  <1>6. CASE ForwardTimesOut(u)
    <2>1. UNCHANGED <<disk, torn>> /\ Forwarded(u, "pending", GiveUp(u))
      BY <1>6, Zenon DEF ForwardTimesOut
    <2>2. (\A l \in call' : l \in GiveUp(u) \/ Fresh(l)) /\ GiveUp(u) \subseteq call'
      BY <2>1, ForwardedCalls, Zenon
    <2>3. QED
      BY <2>1, <2>2, GivenUp, CallsMove, ZenonT(60)
  <1>7. CASE UploadTimesOut(u)
    <2>1. UNCHANGED <<disk, torn>> /\ call' = GiveUp(u)
      BY <1>7, Zenon DEF UploadTimesOut
    <2>2. QED
      BY <2>1, GivenUp, CallsMove, Zenon
  <1>8. ASSUME (\E f \in Files, size \in FileSizes, b \in Bases : UploadCreatesFile(u, f, size, b))
               \/ UploadStartsSession(u) \/ UploadCommitsChunk(u) \/ UploadCompletes(u)
               \/ UploadVerifies(u) \/ UploadFails(u)
        PROVE  UNCHANGED <<disk, torn, call>>
    BY <1>8, Zenon DEF UploadCreatesFile, UploadStartsSession, UploadCommitsChunk, UploadCompletes,
       UploadVerifies, UploadFails, nodeVars
  <1>9. QED
    BY <1>1, <1>2, <1>3, <1>4, <1>5, <1>6, <1>7, <1>8, Zenon DEF UploadStep

\* So does a step of a delete.
LEMMA DeleteKeeps ==
    ASSUME StoreInv, NEW d \in Deletes, DeleteStep(d)
    PROVE  StoreInv'
  <1>1. CASE UNCHANGED <<disk, torn, call>>
    BY <1>1, CallsSent, Zenon
  <1>2. CASE \E c \in Chunks, n \in Nodes : DeleteSends(d, c, n)
    <2>1. PICK c \in Chunks, n \in Nodes : DeleteSends(d, c, n)
      BY <1>2, Zenon
    <2>2. Fresh([from |-> d, node |-> n, op |-> "delete", chunk |-> c,
                 data |-> None, sum |-> None, pc |-> "sent"])
      BY ZenonT(60) DEF Fresh
    <2>3. QED
      BY <2>1, <2>2, CallsSent, ZenonT(60) DEF DeleteSends
  <1>3. CASE \E k \in call : DeleteAnswered(d, k)
    <2>1. UNCHANGED <<disk, torn>> /\ \E k \in call : ~ IsHalf(k) /\ call' = call \ {k}
      BY <1>3, Zenon DEF DeleteAnswered, IsHalf
    <2>2. QED
      BY <2>1, CallsSent, Zenon
  <1>4. CASE DeleteTimesOut(d)
    <2>1. UNCHANGED <<disk, torn>> /\ call' = GiveUp(d)
      BY <1>4, Zenon DEF DeleteTimesOut
    <2>2. QED
      BY <2>1, GivenUp, CallsMove, Zenon
  <1>5. ASSUME (\E f \in Files : DeleteLists(d, f)) \/ DeleteRemovesFile(d) \/ DeleteFails(d)
        PROVE  UNCHANGED <<disk, torn, call>>
    BY <1>5, Zenon DEF DeleteLists, DeleteRemovesFile, DeleteFails, nodeVars
  <1>6. QED
    BY <1>1, <1>2, <1>3, <1>4, <1>5, ZenonT(60) DEF DeleteStep

\* A crash counts the copies its node was working on as torn, and leaves the work
\* of the other nodes as it is.
LEMMA CrashKeeps ==
    ASSUME StoreInv, NEW n \in Nodes, NodeCrashes(n)
    PROVE  StoreInv'
  <1> DEFINE lost == {u \in Uploads : upload[u].pc = "forward" /\ Primary(u) = n}
  <1>1. /\ disk' = disk
        /\ torn' = torn \cup {<<n, k.chunk>> : k \in {k \in call : k.node = n /\ k.pc = "half"}}
        /\ call' = {IF k.from \in lost THEN [k EXCEPT !.from = None] ELSE k :
                       k \in {k \in CallsAfterCrash(n) :
                                 k.from \in lost => k.pc \in {"sent", "half"}}}
    BY Zenon DEF NodeCrashes, Crash
  <1> HIDE DEF lost
  <1>2. \A k \in call : k = [from |-> k.from, node |-> k.node, op |-> k.op, chunk |-> k.chunk,
                             data |-> k.data, sum |-> k.sum, pc |-> k.pc]
                         /\ k.op \in {"put", "delete"}
    BY Zenon DEF StoreInv, CallShape, OpsKnown
  <1>3. ASSUME NEW j \in call, NEW k, k = [j EXCEPT !.pc = "error"]
        PROVE  Fresh(k) /\ Fresh([k EXCEPT !.from = None])
    <2>1. k = [from |-> j.from, node |-> j.node, op |-> j.op, chunk |-> j.chunk,
               data |-> j.data, sum |-> j.sum, pc |-> "error"]
      BY <1>2, <1>3
    <2>2. Fresh(k)
      BY <1>2, <2>1, Zenon DEF Fresh
    <2>3. PICK l : l = [k EXCEPT !.from = None]
      BY Zenon
    <2>4. l = [from |-> None, node |-> k.node, op |-> k.op, chunk |-> k.chunk,
               data |-> k.data, sum |-> k.sum, pc |-> k.pc]
      BY <2>2, <2>3, Zenon DEF Fresh
    <2>5. Fresh(l)
      BY <2>2, <2>4, Zenon DEF Fresh
    <2>6. QED
      BY <2>2, <2>3, <2>5, ZenonT(60)
  <1>4. \A k \in CallsAfterCrash(n) : k \in call \/ \E j \in call : k = [j EXCEPT !.pc = "error"]
    BY Zenon DEF CallsAfterCrash
  <1>5. \A l \in call' : Fresh(l) \/ \E k \in call : KeepsWork(k, l)
    <2> SUFFICES ASSUME NEW l \in call' PROVE Fresh(l) \/ \E k \in call : KeepsWork(k, l)
      BY Zenon
    <2>1. PICK k \in CallsAfterCrash(n) : l = k \/ l = [k EXCEPT !.from = None]
      BY <1>1, Zenon
    <2>2. CASE k \in call
      BY <2>1, <2>2, Zenon DEF KeepsWork
    <2>3. CASE \E j \in call : k = [j EXCEPT !.pc = "error"]
      BY <1>3, <2>1, <2>3, Zenon
    <2>4. QED
      BY <1>4, <2>2, <2>3, Zenon
  <1>6. ASSUME NEW k \in call, IsHalf(k)
        PROVE  <<k.node, k.chunk>> \in torn' \/ \E l \in call' : KeepsWork(k, l)
    <2>1. CASE k.node = n
      BY <1>1, <1>6, <2>1, Zenon DEF IsHalf
    <2>2. CASE k.node # n
      <3>1. k \in CallsAfterCrash(n)
        BY <2>2, Zenon DEF CallsAfterCrash
      <3>2. (IF k.from \in lost THEN [k EXCEPT !.from = None] ELSE k) \in call'
        BY <1>1, <1>6, <3>1, Zenon DEF IsHalf
      <3>3. QED
        BY <3>2, Zenon DEF KeepsWork
    <2>3. QED
      BY <2>1, <2>2, Zenon
  <1>7. torn \subseteq torn'
    BY <1>1, Zenon
  <1>8. QED
    BY <1>1, <1>5, <1>6, <1>7, CallsMove, ZenonT(60)

-----------------------------------------------------------------------------
\* Every copy of a chunk is whole, is at work under the mutex or counts as torn,
\* for every number of nodes, requests, crashes, I/O errors and timeouts: the two
\* files of a chunk are replaced one after the other, and neither a request that
\* was given up nor one that was forwarded can come between them.
THEOREM CopiesWhole == Spec => []CopiesAreWhole
  <1>1. Init => StoreInv
    <2> SUFFICES ASSUME Init PROVE StoreInv
      BY Zenon
    <2>1. disk = [n \in Nodes |-> [c \in Chunks |-> [data |-> None, meta |-> None]]] /\ call = {}
      BY Zenon DEF Init, NodeInit
    <2>2. disk \in [Nodes -> [Chunks -> [data : {None}, meta : {None}]]]
      BY <2>1, Zenon
    <2>3. DiskShape
      BY <2>2, Zenon DEF DiskShape
    <2>4. QED
      BY <2>1, <2>3, Zenon DEF StoreInv, CallShape, OpsKnown, HalfDone, OneHalf, CopiesAreWhole
  <1>2. StoreInv /\ [Next]_vars => StoreInv'
    <2> SUFFICES ASSUME StoreInv, [Next]_vars PROVE StoreInv'
      BY Zenon
    <2>1. CASE UNCHANGED <<disk, torn, call>>
      BY <2>1, CallsSent, Zenon
    <2>2. ASSUME NEW g \in Downloads, DownloadStep(g) PROVE UNCHANGED <<disk, torn, call>>
      BY <2>2, Zenon DEF DownloadStep, DownloadReadsFile, DownloadReadsChunks, DownloadFetches, nodeVars
    <2>3. ASSUME NEW n \in Nodes, NodeStep(n) PROVE StoreInv'
      <3>1. CASE StartNode(n) \/ SendHeartbeat(n)
        BY <2>1, <3>1, Zenon DEF StartNode, SendHeartbeat
      <3>2. QED
        BY <2>3, <3>1, StoreStep, Zenon DEF NodeStep
    <2>4. ASSUME UNCHANGED vars PROVE UNCHANGED <<disk, torn, call>>
      BY <2>4, Zenon DEF vars, nodeVars
    <2>5. QED
      BY <2>1, <2>2, <2>3, <2>4, UploadKeeps, DeleteKeeps, CrashKeeps, ZenonT(60) DEF Next
  <1>3. StoreInv => CopiesAreWhole
    BY Zenon DEF StoreInv
  <1>4. QED
    BY <1>1, <1>2, <1>3, PTL DEF Spec
=============================================================================
