------------------------------- MODULE Gateway -------------------------------
(***************************************************************************)
(* The gateway's upload, download and delete requests                      *)
(* (internal/gateway), composed with the metadata service (module Upload)  *)
(* and the data nodes (module DataNode).                                   *)
(*                                                                         *)
(* A gateway request is a sequence of calls without a transaction around   *)
(* them: whatever fails, the calls before it stay.  A call to the metadata *)
(* service takes effect in one step, a call to a data node is a request    *)
(* that the gateway may give up after its timeout while the node still     *)
(* works on it.                                                            *)
(***************************************************************************)
EXTENDS DataNode, SequencesExt

CONSTANTS
    Files, Uploads, Deletes, Downloads,  \* files and requests
    Bases,         \* the ids chunk ids are derived from
    ChunkSize, FileSizes, MaxIndex,
    Desired,       \* ReplicaPolicy.DesiredReplicaCount
    Store,         \* the metadata store
    MaxEvents      \* bound: requests to the gateway, faults and heartbeats

VARIABLES
    file, session, chunk,  \* the metadata service, see Upload
    replica,               \* the replica rows of each chunk
    upload, delete, download

MDS == INSTANCE Upload WITH Sessions <- Uploads, MinimumReplicaCount <- 1,
                            ChunkRequests <- {}, ExpectedStatuses <- {},
                            ChunkIDs <- [f \in Files |-> Chunks]

mdsVars == <<file, session, chunk, replica>>
vars == <<nodeVars, mdsVars, upload, delete, download>>

ASSUME GatewayAssumption ==
    /\ Nodes \subseteq Nat
    /\ Capacity \in Nat \ {0}
    /\ Callers = Uploads \cup Deletes
    /\ Data = Uploads \X (0..MaxIndex)
    /\ Chunks = (Bases \X (0..MaxIndex)) \cup {<<b>> : b \in Bases}
    /\ \A size \in FileSizes : size \in 1..((MaxIndex + 1) * ChunkSize)

-----------------------------------------------------------------------------
chunkCount(size) == (size + ChunkSize - 1) \div ChunkSize

chunkIDForIndex(b, i, total) == IF total <= 1 THEN <<b>> ELSE <<b, i>>

chunkSize(size, i) ==
    IF size - i * ChunkSize > ChunkSize THEN ChunkSize ELSE size - i * ChunkSize

\* A row's role and state; the primary's row is ready.
Rows == {"none", "primary", "secondary", "pending"}

NoRows == [n \in Nodes |-> "none"]

IdleUpload == [pc |-> "idle", file |-> None, size |-> 0, base |-> None, index |-> 0,
               targets |-> <<>>, rows |-> NoRows, copy |-> None]

IdleDelete == [pc |-> "idle", file |-> None, listed |-> {}, todo |-> {}]

IdleDownload == [pc |-> "idle", file |-> None, by |-> None, size |-> 0, plan |-> <<>>,
                 tried |-> 0, got |-> <<>>]

\* Bound: another request, fault or heartbeat may come.
Arrives ==
    Cardinality({u \in Uploads : upload[u].pc # "idle"})
        + Cardinality({d \in Deletes : delete[d].pc # "idle"})
        + Cardinality({g \in Downloads : download[g].pc # "idle"})
        + faults + beats < MaxEvents

Init ==
    /\ NodeInit
    /\ MDS!Init
    /\ replica = [c \in Chunks |-> NoRows]
    /\ upload = [u \in Uploads |-> IdleUpload]
    /\ delete = [d \in Deletes |-> IdleDelete]
    /\ download = [g \in Downloads |-> IdleDownload]

-----------------------------------------------------------------------------
(* handleUploads. *)

ChunkOf(u) ==
    chunkIDForIndex(upload[u].base, upload[u].index, chunkCount(upload[u].size))

UploadTo(u, pc) == upload' = [upload EXCEPT ![u] = [@ EXCEPT !.pc = pc]]

\* The request is over.  Its file, size and chunk base are kept for the properties.
Ended(u, pc) ==
    [upload[u] EXCEPT !.pc = pc, !.index = 0, !.targets = <<>>, !.rows = NoRows, !.copy = None]

UploadEnds(u, pc) == upload' = [upload EXCEPT ![u] = Ended(u, pc)]

PutRequest(u, n, data, sum) ==
    [from |-> u, node |-> n, op |-> "put", chunk |-> ChunkOf(u), data |-> data,
     sum |-> sum, pc |-> "sent"]

\* The checks of the request and CreateFile.  The client names the chunk base
\* or the gateway generates it.
UploadCreatesFile(u, f, size, b) ==
    /\ upload[u].pc = "idle" /\ Arrives
    /\ MDS!CreateFile(f, size)
    /\ upload' = [upload EXCEPT ![u] = [@ EXCEPT !.pc = "start", !.file = f,
                                                 !.size = size, !.base = b]]
    /\ UNCHANGED <<nodeVars, replica, delete, download>>

UploadStartsSession(u) ==
    /\ upload[u].pc = "start"
    /\ MDS!StartUpload(upload[u].file, u, upload[u].size)
    /\ UploadTo(u, "allocate")
    /\ UNCHANGED <<nodeVars, replica, delete, download>>

\* SelectPlacementTargets: the nodes with room by their rows, emptiest first.
SelectPlacementTargets ==
    LET room == {n \in Nodes : used[n] < Capacity}
        order == SetToSortSeq(room, LAMBDA m, n : \/ used[m] < used[n]
                                                  \/ used[m] = used[n] /\ m < n)
    IN  SubSeq(order, 1, IF Desired < Len(order) THEN Desired ELSE Len(order))

\* AllocateUploadTargets, and the chunk is sent to the first target.
AllocateUploadTargets(u) ==
    LET targets == SelectPlacementTargets
        data == <<u, upload[u].index>>
    IN  /\ upload[u].pc = "allocate"
        /\ file[upload[u].file].status # "absent"
        /\ targets # <<>>
        /\ call' = call \cup {PutRequest(u, Head(targets), data, data)}
        /\ upload' = [upload EXCEPT ![u] =
               [@ EXCEPT !.pc = "put", !.targets = Tail(targets),
                         !.rows = [NoRows EXCEPT ![Head(targets)] = "primary"]]]
        /\ UNCHANGED <<disk, up, used, torn, faults, beats, mdsVars, delete, download>>

Primary(u) == CHOOSE n \in Nodes : upload[u].rows[n] = "primary"

\* The answer to PutChunk.
PutAnswered(u, k) ==
    /\ upload[u].pc = "put"
    /\ k.from = u /\ k.pc \in {"ok", "error"}
    /\ call' = call \ {k}
    /\ IF k.pc = "error" THEN UploadEnds(u, "failed")
       ELSE UploadTo(u, IF upload[u].targets = <<>> THEN "commit" ELSE "replicate")
    /\ UNCHANGED <<disk, up, used, torn, faults, beats, mdsVars, delete, download>>

\* forwardReplica: the primary sends its copy, with the checksum it has stored.
forwardReplica(u, target, copy) ==
    PutRequest(u, target, copy.data, copy.meta)

\* handleReplicate at the primary: it reads its copy, without which it answers
\* an error, and forwards it to the first of the other targets.
ReplicateChunk(u) ==
    LET n == Primary(u)
        copy == disk[n][ChunkOf(u)]
    IN  /\ upload[u].pc = "replicate"
        /\ Unlocked(n)
        /\ IF up[n] /\ Stored(n, ChunkOf(u))
           THEN /\ call' = call \cup {forwardReplica(u, Head(upload[u].targets), copy)}
                /\ upload' = [upload EXCEPT ![u] = [@ EXCEPT !.pc = "forward", !.copy = copy]]
           ELSE UploadEnds(u, "failed") /\ UNCHANGED call
        /\ UNCHANGED <<disk, up, used, torn, faults, beats, mdsVars, delete, download>>

\* The row of a target is known; calls are the requests without the target's.
\* The primary goes on with the next target, or answers.
Forwarded(u, row, calls) ==
    LET rest == Tail(upload[u].targets)
        next == [upload[u] EXCEPT !.rows = [@ EXCEPT ![Head(upload[u].targets)] = row],
                                  !.targets = rest]
    IN  IF rest = <<>>
        THEN /\ call' = calls
             /\ upload' = [upload EXCEPT ![u] = [next EXCEPT !.pc = "commit", !.copy = None]]
        ELSE /\ call' = calls \cup {forwardReplica(u, Head(rest), upload[u].copy)}
             /\ upload' = [upload EXCEPT ![u] = next]

\* Mutant: a target that answers is ready, whatever it answers.
ForwardReadyAnyway(u, k) ==
    /\ upload[u].pc = "forward"
    /\ k.from = u /\ k.pc \in {"ok", "error"}
    /\ Forwarded(u, "secondary", call \ {k})
    /\ UNCHANGED <<disk, up, used, torn, faults, beats, mdsVars, delete, download>>

ForwardAnswered(u, k) ==
    /\ upload[u].pc = "forward"
    /\ k.from = u /\ k.pc \in {"ok", "error"}
    /\ Forwarded(u, IF k.pc = "ok" THEN "secondary" ELSE "pending", call \ {k})
    /\ UNCHANGED <<disk, up, used, torn, faults, beats, mdsVars, delete, download>>

\* The primary's own timeout: the replica counts as pending, the target may
\* still store the chunk.
ForwardTimesOut(u) ==
    /\ Fault /\ Arrives
    /\ upload[u].pc = "forward"
    /\ Forwarded(u, "pending", GiveUp(u))
    /\ UNCHANGED <<disk, up, used, torn, beats, mdsVars, delete, download>>

\* buildChunkReplicas, as the rows of a request.
ChunkRequest(u) ==
    [index |-> upload[u].index, size |-> chunkSize(upload[u].size, upload[u].index),
     status |-> "persisted", sumReady |-> TRUE, data |-> <<u, upload[u].index>>,
     replicas |-> [n \in Nodes |->
        CASE upload[u].rows[n] \in {"primary", "secondary"} -> "ready"
          [] OTHER -> upload[u].rows[n]]]

\* CommitChunk, and the next round of the loop.
UploadCommitsChunk(u) ==
    /\ upload[u].pc = "commit"
    /\ MDS!CommitChunk(upload[u].file, u, ChunkOf(u), ChunkRequest(u))
    /\ replica' = [replica EXCEPT ![ChunkOf(u)] =
           [n \in Nodes |-> IF upload[u].rows[n] = "none" /\ Store = "postgres"
                            THEN @[n] ELSE upload[u].rows[n]]]
    /\ upload' = [upload EXCEPT ![u] =
           IF @.index + 1 < chunkCount(@.size)
           THEN [@ EXCEPT !.pc = "allocate", !.index = @ + 1, !.rows = NoRows]
           ELSE [@ EXCEPT !.pc = "complete", !.rows = NoRows]]
    /\ UNCHANGED <<nodeVars, delete, download>>

UploadCompletes(u) ==
    /\ upload[u].pc = "complete"
    /\ MDS!CompleteUpload(upload[u].file, u, {"uploading"}, TRUE)
    /\ UploadTo(u, "verify")
    /\ UNCHANGED <<nodeVars, replica, delete, download>>

UploadVerifies(u) ==
    /\ upload[u].pc = "verify"
    /\ MDS!VerifyUpload(upload[u].file, u, {"verifying"}, TRUE)
    /\ UploadEnds(u, "done")
    /\ UNCHANGED <<nodeVars, replica, delete, download>>

\* The metadata service refuses a call, or its answer does not come.
UploadFails(u) ==
    /\ upload[u].pc \in {"start", "allocate", "commit", "complete", "verify"}
    /\ UploadEnds(u, "failed")
    /\ UNCHANGED <<nodeVars, mdsVars, delete, download>>

\* The gateway's timeout on a call to a data node.
UploadTimesOut(u) ==
    /\ Fault /\ Arrives
    /\ upload[u].pc \in {"put", "replicate", "forward"}
    /\ call' = GiveUp(u)
    /\ UploadEnds(u, "failed")
    /\ UNCHANGED <<disk, up, used, torn, beats, mdsVars, delete, download>>

\* A node crashes, and with it the replication it was doing.
NodeCrashes(n) ==
    LET lost == {u \in Uploads : upload[u].pc = "forward" /\ Primary(u) = n}
    IN  /\ Crash(n) /\ Arrives
        /\ call' = {IF k.from \in lost THEN [k EXCEPT !.from = None] ELSE k :
                       k \in {k \in CallsAfterCrash(n) :
                                 k.from \in lost => k.pc \in {"sent", "half"}}}
        /\ upload' = [u \in Uploads |-> IF u \in lost THEN Ended(u, "failed") ELSE upload[u]]
        /\ UNCHANGED <<mdsVars, delete, download>>

UploadStep(u) ==
    \/ \E f \in Files, size \in FileSizes, b \in Bases : UploadCreatesFile(u, f, size, b)
    \/ UploadStartsSession(u) \/ AllocateUploadTargets(u)
    \/ \E k \in call : PutAnswered(u, k) \/ ForwardAnswered(u, k)
    \/ ReplicateChunk(u) \/ ForwardTimesOut(u)
    \/ UploadCommitsChunk(u) \/ UploadCompletes(u) \/ UploadVerifies(u)
    \/ UploadFails(u) \/ UploadTimesOut(u)

-----------------------------------------------------------------------------
(* deleteFile. *)

DeleteTo(d, pc) == delete' = [delete EXCEPT ![d] = [@ EXCEPT !.pc = pc]]

DeleteEnds(d, pc) == delete' = [delete EXCEPT ![d] = [@ EXCEPT !.pc = pc, !.todo = {}]]

\* ListFileChunks, which answers an empty list for a file that is not there.
DeleteLists(d, f) ==
    LET rows == {r \in MDS!ListChunksByFile(chunk, f) \X Nodes : replica[r[1]][r[2]] # "none"}
    IN  /\ delete[d].pc = "idle" /\ Arrives
        /\ delete' = [delete EXCEPT ![d] =
               [pc |-> "next", file |-> f, todo |-> rows,
                listed |-> {r \in rows : replica[r[1]][r[2]] # "pending"}]]
        /\ UNCHANGED <<nodeVars, mdsVars, upload, download>>

\* The chunks in their order, the nodes of a chunk in any order.
DeleteSends(d, c, n) ==
    /\ delete[d].pc = "next"
    /\ <<c, n>> \in delete[d].todo
    /\ \A r \in delete[d].todo : Len(c) = 2 /\ Len(r[1]) = 2 => c[2] <= r[1][2]
    /\ call' = call \cup {[from |-> d, node |-> n, op |-> "delete", chunk |-> c,
                           data |-> None, sum |-> None, pc |-> "sent"]}
    /\ DeleteTo(d, "wait")
    /\ UNCHANGED <<disk, up, used, torn, faults, beats, mdsVars, upload, download>>

\* A chunk that is not there counts as deleted.
DeleteAnswered(d, k) ==
    /\ delete[d].pc = "wait"
    /\ k.from = d /\ k.pc \in {"ok", "missing", "error"}
    /\ call' = call \ {k}
    /\ delete' = [delete EXCEPT ![d] =
           IF k.pc = "error" THEN [@ EXCEPT !.pc = "failed", !.todo = {}]
           ELSE [@ EXCEPT !.pc = "next", !.todo = @ \ {<<k.chunk, k.node>>}]]
    /\ UNCHANGED <<disk, up, used, torn, faults, beats, mdsVars, upload, download>>

\* DeleteFile, once no chunk is left.
DeleteRemovesFile(d) ==
    LET f == delete[d].file IN
    /\ delete[d].pc = "next"
    /\ delete[d].todo = {}
    /\ MDS!DeleteFile(f)
    /\ replica' = [c \in Chunks |-> IF chunk[c].file = f THEN NoRows ELSE replica[c]]
    /\ DeleteEnds(d, "done")
    /\ UNCHANGED <<nodeVars, upload, download>>

\* GetNode or DeleteFile fails.
DeleteFails(d) ==
    /\ delete[d].pc = "next"
    /\ DeleteEnds(d, "failed")
    /\ UNCHANGED <<nodeVars, mdsVars, upload, download>>

DeleteTimesOut(d) ==
    /\ Fault /\ Arrives
    /\ delete[d].pc = "wait"
    /\ call' = GiveUp(d)
    /\ DeleteEnds(d, "failed")
    /\ UNCHANGED <<disk, up, used, torn, beats, mdsVars, upload, download>>

DeleteStep(d) ==
    \/ \E f \in Files : DeleteLists(d, f)
    \/ \E c \in Chunks, n \in Nodes : DeleteSends(d, c, n)
    \/ \E k \in call : DeleteAnswered(d, k)
    \/ DeleteRemovesFile(d) \/ DeleteFails(d) \/ DeleteTimesOut(d)

-----------------------------------------------------------------------------
(* handleDownloads. *)

\* buildDownloadPlan reads the file ...
DownloadReadsFile(g, f) ==
    /\ download[g].pc = "idle" /\ Arrives
    /\ file[f].status # "absent"
    /\ download' = [download EXCEPT ![g] = [@ EXCEPT !.pc = "plan", !.file = f,
                                    !.by = file[f].latest, !.size = file[f].size]]
    /\ UNCHANGED <<nodeVars, mdsVars, upload, delete>>

Rank(row) == CASE row = "primary" -> 0 [] row = "secondary" -> 1 [] OTHER -> 2

orderedReplicaCandidates(c) ==
    SetToSortSeq({n \in Nodes : replica[c][n] # "none"},
        LAMBDA m, n : \/ Rank(replica[c][m]) < Rank(replica[c][n])
                      \/ Rank(replica[c][m]) = Rank(replica[c][n]) /\ m < n)

\* ... and then its chunks, in a read of its own.
DownloadReadsChunks(g) ==
    LET chunks == SetToSortSeq(MDS!ListChunksByFile(chunk, download[g].file),
                               LAMBDA c, d : chunk[c].index < chunk[d].index)
    IN  /\ download[g].pc = "plan"
        /\ download' = [download EXCEPT ![g] =
               IF chunks = <<>> THEN [IdleDownload EXCEPT !.pc = "failed"]
               ELSE [@ EXCEPT !.pc = "fetch",
                         !.plan = [i \in 1..Len(chunks) |->
                            [id |-> chunks[i], size |-> chunk[chunks[i]].size,
                             candidates |-> orderedReplicaCandidates(chunks[i])]]]]
        /\ UNCHANGED <<nodeVars, mdsVars, upload, delete>>

\* The node answers with the chunk.
GetChunk(n, c) == up[n] /\ Stored(n, c)

\* Mutant: a chunk that no candidate has is left out.
DownloadSkipsChunk(g, answered) ==
    LET d == download[g]
        c == d.plan[Len(d.got) + 1]
        n == c.candidates[d.tried + 1]
        found == answered /\ GetChunk(n, c.id)
    IN  /\ d.pc = "fetch"
        /\ Unlocked(n)
        /\ download' = [download EXCEPT ![g] =
               IF found
               THEN [@ EXCEPT !.got = Append(@, disk[n][c.id].data), !.tried = 0,
                              !.pc = IF Len(d.got) + 1 = Len(d.plan) THEN "done" ELSE "fetch"]
               ELSE IF d.tried + 1 < Len(c.candidates) THEN [@ EXCEPT !.tried = @ + 1]
               ELSE [@ EXCEPT !.pc = "done"]]
        /\ UNCHANGED <<nodeVars, mdsVars, upload, delete>>

\* fetchChunkFromCandidates, one candidate: GetNode and GetChunk, answered or not.
DownloadFetches(g, answered) ==
    LET d == download[g]
        c == d.plan[Len(d.got) + 1]
        n == c.candidates[d.tried + 1]
        found == answered /\ GetChunk(n, c.id)
    IN  /\ d.pc = "fetch"
        /\ Unlocked(n)
        /\ download' = [download EXCEPT ![g] =
               IF found
               THEN [@ EXCEPT !.got = Append(@, disk[n][c.id].data), !.tried = 0,
                              !.pc = IF Len(d.got) + 1 = Len(d.plan) THEN "done" ELSE "fetch"]
               ELSE IF d.tried + 1 < Len(c.candidates) THEN [@ EXCEPT !.tried = @ + 1]
               ELSE [IdleDownload EXCEPT !.pc = "failed"]]
        /\ UNCHANGED <<nodeVars, mdsVars, upload, delete>>

DownloadStep(g) ==
    \/ \E f \in Files : DownloadReadsFile(g, f)
    \/ DownloadReadsChunks(g)
    \/ \E answered \in BOOLEAN : DownloadFetches(g, answered)

-----------------------------------------------------------------------------
NodeStep(n) ==
    \/ \E k \in call : k.node = n /\
          (PutChunk(k) \/ PutMetadata(k) \/ DeleteChunk(k) \/ DeleteData(k))
    \/ \E k \in call : k.node = n /\ StoreFails(k) /\ Arrives
    \/ StartNode(n)
    \/ SendHeartbeat(n) /\ Arrives

Next ==
    \/ \E u \in Uploads : UploadStep(u)
    \/ \E d \in Deletes : DeleteStep(d)
    \/ \E g \in Downloads : DownloadStep(g)
    \/ \E n \in Nodes : NodeCrashes(n)
    \/ \E n \in Nodes : NodeStep(n) /\ UNCHANGED <<mdsVars, upload, delete, download>>

Spec == Init /\ [][Next]_vars

-----------------------------------------------------------------------------
UploadPCs == {"idle", "start", "allocate", "put", "replicate", "forward",
              "commit", "complete", "verify", "done", "failed"}

\* Every variable has the shape of what it models, and the replica rows and the
\* ready replicas of the metadata service are the same rows.
TypeOK ==
    /\ NodeTypeOK
    /\ MDS!TypeOK
    /\ replica \in [Chunks -> [Nodes -> Rows]]
    /\ \A c \in Chunks, n \in Nodes :
          (chunk[c].replicas[n] # None) = (replica[c][n] \in {"primary", "secondary"})
    /\ \A u \in Uploads : upload[u].pc \in UploadPCs
    /\ \A d \in Deletes : delete[d].pc \in {"idle", "next", "wait", "done", "failed"}
    /\ \A g \in Downloads : download[g].pc \in {"idle", "plan", "fetch", "done", "failed"}

\* The chunk ids that only one upload uses.  Nothing in the code keeps clients
\* from naming an id twice.
Unshared(c) ==
    \A u, v \in Uploads : upload[u].base = c[1] /\ upload[v].base = c[1] => u = v

\* Once a file is available, every replica that its rows call ready holds the
\* data of the chunk, whatever failed on the way and whatever crashes after,
\* until a delete request has listed the chunk.
AvailableIsStored ==
    \A c \in Chunks, n \in Nodes :
        /\ chunk[c].file # None /\ file[chunk[c].file].status = "available"
        /\ replica[c][n] \in {"primary", "secondary"}
        /\ Unshared(c)
        /\ \A d \in Deletes : \A r \in delete[d].listed : r[1] # c
        => disk[n][c].data = chunk[c].data /\ Stored(n, c)

\* A delete request that succeeded leaves no data of the replicas that were
\* ready when it began, on any node, whatever was retried or timed out, except
\* where a failure caught the node between its two files.
DeletedIsGone ==
    \A d \in Deletes : delete[d].pc = "done" =>
        \A r \in delete[d].listed :
            Unshared(r[1]) /\ <<r[2], r[1]>> \notin torn => disk[r[2]][r[1]].data = None

TotalSize(plan) == FoldLeft(LAMBDA sum, c : sum + c.size, 0, plan)

\* A download whose body has the announced length gives the chunks of one
\* upload, from the first on and in order; and all of them, if that upload is
\* the one the file belonged to when the download read it.
DownloadIsFile ==
    \A g \in Downloads : LET d == download[g] IN
        /\ d.pc = "done"
        /\ TotalSize(d.plan) = d.size
        /\ \A i \in 1..Len(d.plan) : Unshared(d.plan[i].id)
        => \E u \in Uploads :
              /\ d.got = [i \in 1..Len(d.got) |-> <<u, i - 1>>]
              /\ u = d.by => Len(d.got) = chunkCount(upload[u].size)
=============================================================================
