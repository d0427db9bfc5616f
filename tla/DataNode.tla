------------------------------- MODULE DataNode -------------------------------
(***************************************************************************)
(* The data nodes (internal/datanode, cmd/datanode): the chunk store on    *)
(* disk, the requests that are at a node, crashes and restarts, and what   *)
(* the nodes report to the metadata service (internal/mds/service_node.go).*)
(*                                                                         *)
(* A chunk is two files, the data and the metadata with the checksum, each *)
(* replaced by a rename of its own.  A request is "sent", then "half" when *)
(* the first of its two files has changed (it holds the store's mutex),    *)
(* and then answered.  A checksum is modelled by the data it was computed  *)
(* from; every caller in the system sends one.  A file on disk takes one   *)
(* unit of capacity.                                                       *)
(***************************************************************************)
EXTENDS Integers, FiniteSets

CONSTANTS
    Nodes,      \* the node ids, numbers since they are compared
    Chunks,     \* the chunk ids
    Data,       \* the contents of chunks
    Callers,    \* who sends requests
    None,
    Capacity,   \* what every node announces as its capacity
    MaxFaults   \* bound: crashes, I/O errors and timeouts, and heartbeats that
                \* change a node's row

VARIABLES
    disk,    \* the two files of each chunk on each node
    up,      \* the data node process runs
    used,    \* the used bytes in the node's row at the metadata service
    call,    \* the requests that are at a node, or answered and not yet read
    torn,    \* history: the copies a failure caught between the two files
    faults, beats

nodeVars == <<disk, up, used, call, torn, faults, beats>>

CallRecord == [from : Callers \cup {None}, node : Nodes, op : {"put", "delete"},
               chunk : Chunks, data : Data \cup {None}, sum : Data \cup {None},
               pc : {"sent", "half", "ok", "missing", "error"}]

NodeTypeOK ==
    /\ disk \in [Nodes -> [Chunks -> [data : Data \cup {None}, meta : Data \cup {None}]]]
    /\ up \in [Nodes -> BOOLEAN]
    /\ used \in [Nodes -> 0..Capacity]
    /\ call \subseteq CallRecord
    /\ torn \subseteq Nodes \X Chunks
    /\ faults \in 0..MaxFaults
    /\ beats \in 0..MaxFaults

NodeInit ==
    /\ disk = [n \in Nodes |-> [c \in Chunks |-> [data |-> None, meta |-> None]]]
    /\ up = [n \in Nodes |-> TRUE]
    /\ used = [n \in Nodes |-> 0]
    /\ call = {}
    /\ torn = {}
    /\ faults = 0
    /\ beats = 0

-----------------------------------------------------------------------------
(* Requests. *)

\* The store's mutex is free.
Unlocked(n) == \A k \in call : k.node = n => k.pc # "half"

Fault == faults + beats < MaxFaults /\ faults' = faults + 1

\* What becomes of request k when it is answered with pc: nobody reads the
\* answer of a request that was given up.
Answer(k, pc) ==
    (call \ {k}) \cup (IF k.from = None THEN {} ELSE {[k EXCEPT !.pc = pc]})

\* The caller stops waiting.  The request is still at the node.
GiveUp(h) ==
    {IF k.from = h THEN [k EXCEPT !.from = None] ELSE k :
        k \in {k \in call : k.from = h => k.pc \in {"sent", "half"}}}

Half(k) == (call \ {k}) \cup {[k EXCEPT !.pc = "half"]}

At(k, op, pc) == k.op = op /\ k.pc = pc /\ up[k.node]

\* Mutant: the checksum of the request is stored and not compared.
validateNothing(k) == TRUE

validateChecksum(k) == k.sum = k.data

\* PutChunk up to the rename of the data file.
PutChunk(k) ==
    /\ At(k, "put", "sent")
    /\ IF validateChecksum(k)
       THEN /\ Unlocked(k.node)
            /\ disk' = [disk EXCEPT ![k.node][k.chunk].data = k.data]
            /\ call' = Half(k)
       ELSE call' = Answer(k, "error") /\ UNCHANGED disk
    /\ UNCHANGED <<up, used, torn, faults, beats>>

\* PutChunk from the rename of the metadata file on.
PutMetadata(k) ==
    /\ At(k, "put", "half")
    /\ disk' = [disk EXCEPT ![k.node][k.chunk].meta = k.sum]
    /\ call' = Answer(k, "ok")
    /\ UNCHANGED <<up, used, torn, faults, beats>>

\* DeleteChunk up to the removal of the metadata file.
DeleteChunk(k) ==
    /\ At(k, "delete", "sent")
    /\ Unlocked(k.node)
    /\ disk' = [disk EXCEPT ![k.node][k.chunk].meta = None]
    /\ call' = IF disk[k.node][k.chunk].meta = None THEN Answer(k, "missing") ELSE Half(k)
    /\ UNCHANGED <<up, used, torn, faults, beats>>

\* Mutant: only the metadata is removed.
DeleteMetadataOnly(k) ==
    /\ At(k, "delete", "half")
    /\ call' = Answer(k, "ok")
    /\ UNCHANGED <<disk, up, used, torn, faults, beats>>

\* DeleteChunk from the removal of the data file on.
DeleteData(k) ==
    /\ At(k, "delete", "half")
    /\ disk' = [disk EXCEPT ![k.node][k.chunk].data = None]
    /\ call' = Answer(k, "ok")
    /\ UNCHANGED <<up, used, torn, faults, beats>>

\* A write, rename or removal fails and the request is answered with an error:
\* what its first half did stays.
StoreFails(k) ==
    /\ Fault
    /\ k.pc \in {"sent", "half"} /\ up[k.node]
    /\ k.pc = "sent" => Unlocked(k.node)
    /\ call' = Answer(k, "error")
    /\ torn' = IF k.pc = "half" THEN torn \cup {<<k.node, k.chunk>>} ELSE torn
    /\ UNCHANGED <<disk, up, used, beats>>

\* GetChunk finds both files.
Stored(n, c) == disk[n][c].meta # None /\ disk[n][c].data # None

-----------------------------------------------------------------------------
(* The process and its row. *)

CountFiles(n) ==
    Cardinality({c \in Chunks : disk[n][c].data # None})
        + Cardinality({c \in Chunks : disk[n][c].meta # None})

\* The requests that are at a node fail with the process.
CallsAfterCrash(n) ==
    {IF k.node = n /\ k.pc \in {"sent", "half"} THEN [k EXCEPT !.pc = "error"] ELSE k :
        k \in {k \in call : k.node = n /\ k.pc \in {"sent", "half"} => k.from # None}}

Crash(n) ==
    /\ Fault
    /\ up[n]
    /\ up' = [up EXCEPT ![n] = FALSE]
    /\ torn' = torn \cup {<<n, k.chunk>> : k \in {k \in call : k.node = n /\ k.pc = "half"}}
    /\ UNCHANGED <<disk, used, beats>>

\* Mutant: the used bytes are not compared with the capacity.
ValidateAnyUsage(n) == TRUE

\* validateRegisterNodeRequest and validateHeartbeatNodeRequest refuse a node
\* that uses more than its capacity.
validateUsage(n) == CountFiles(n) <= Capacity

\* The node's row, which a registration inserts or overwrites.
upsertNode(n, bytes) == used' = [used EXCEPT ![n] = bytes]

\* Every node here has registered before, so a heartbeat finds its row.
updateNodeHeartbeat(n, bytes) == used' = [used EXCEPT ![n] = bytes]

RegisterNode(n) == validateUsage(n) /\ upsertNode(n, CountFiles(n))

HeartbeatNode(n) == validateUsage(n) /\ updateNodeHeartbeat(n, CountFiles(n))

\* The process starts and registers; it exits again if it is refused, or if the
\* answer is lost.  Requests it serves before that answer are left out.
StartNode(n) ==
    /\ ~up[n]
    /\ RegisterNode(n)
    /\ \E answered \in BOOLEAN : up' = [up EXCEPT ![n] = answered]
    /\ UNCHANGED <<disk, call, torn, faults, beats>>

\* A tick of runHeartbeatLoop, which goes on whatever the answer is.
SendHeartbeat(n) ==
    /\ up[n]
    /\ Unlocked(n)
    /\ used[n] # CountFiles(n) /\ faults + beats < MaxFaults
    /\ HeartbeatNode(n)
    /\ beats' = beats + 1
    /\ UNCHANGED <<disk, up, call, torn, faults>>

-----------------------------------------------------------------------------
\* A copy's checksum is the checksum of its data and the data is there, except
\* while a request has the mutex and where a failure caught an overwrite between
\* its two renames.  Such a torn copy stays alone: a node that replicates it
\* sends the old checksum with the new data, and the target refuses the pair.
CopiesAreWhole ==
    \A n \in Nodes, c \in Chunks :
        \/ disk[n][c].meta = None
        \/ disk[n][c].meta = disk[n][c].data
        \/ <<n, c>> \in torn
        \/ \E k \in call : k.node = n /\ k.chunk = c /\ k.pc = "half"
=============================================================================
