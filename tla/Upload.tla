------------------------------- MODULE Upload -------------------------------
(***************************************************************************)
(* The upload lifecycle of the metadata service (MDS): the handlers of     *)
(* internal/mds/service_upload.go, file creation and file deletion, over   *)
(* the file, upload session and chunk tables of the metadata store.        *)
(*                                                                         *)
(* A handler runs in one store transaction and is one action here.  Of     *)
(* overlapping transactions the in-memory store keeps the last one's       *)
(* tables as a whole: the others are lost, and every state of the tables   *)
(* is one that a serial order leaves too, though steps between them may go *)
(* back.  Transactions of PostgreSQL mix, which is in module UploadTx.     *)
(* A handler that returns an error rolls its transaction back and changes  *)
(* nothing: it is an action that is not enabled.                           *)
(*                                                                         *)
(* A checksum is modelled by what it is a checksum of: the set of          *)
(* <<index, data>> pairs of the chunks it was computed from.               *)
(***************************************************************************)
EXTENDS Integers, FiniteSets

CONSTANTS
    Files, Sessions, Chunks,  \* identifiers, all chosen by the client
    Nodes,                    \* the data nodes that hold replicas
    Data,                     \* chunk contents, as far as checksums tell them apart
    None,                     \* "no session", "no chunk", "no checksum"
    ChunkSize,                \* metadata.FixedChunkSizeBytes (4 MiB in the code)
    MaxIndex,                 \* bound: highest chunk index a client commits
    FileSizes,                \* the sizes clients announce
    MinimumReplicaCount,      \* ReplicaPolicy.MinimumReplicaCount of the files
    ChunkRequests,            \* what clients say of the chunks they commit
    ExpectedStatuses,         \* the ExpectedStatuses guards clients send
    ChunkIDs,                 \* the chunk ids used in uploads of each file
    Store                     \* the metadata store: "memory" or "postgres"

VARIABLES
    file,     \* mds_files / memoryState.files
    session,  \* mds_upload_sessions / memoryState.uploadSessions
    chunk     \* mds_chunks / memoryState.chunks

vars == <<file, session, chunk>>

-----------------------------------------------------------------------------
\* The status values of internal/mds/metadata; "absent" stands for no record.
FileStatus == {"pending", "uploading", "verifying", "available", "corrupted",
               "deleting", "deleted", "failed"}

UploadStatus == {"pending", "active", "paused", "retrying", "verifying",
                 "completed", "failed", "expired"}

ChunkStatus == {"pending", "writing", "persisted", "verifying", "available",
                "corrupted", "failed"}

isTerminalUploadStatus(st) == st \in {"completed", "failed", "expired"}

Indices == 0..MaxIndex

MaxEnd == (MaxIndex + 1) * ChunkSize

\* A verified checksum, by the content it covers, or none.
Checksum == {None} \cup SUBSET (Indices \X Data)

FileRecord == [status : FileStatus \cup {"absent"}, size : Nat, stored : Nat,
               latest : Sessions \cup {None}, checksum : Checksum]

SessionRecord == [status : UploadStatus \cup {"absent"}, file : Files \cup {None},
                  expected : Nat, confirmed : Nat, next : Nat,
                  last : Chunks \cup {None}, verified : Checksum,
                  failedOffset : Nat]

\* replicas[n] is the data of the ready replica recorded for node n, None when
\* there is no replica record or one in another state.
ChunkRecord == [status : ChunkStatus \cup {"absent"}, file : Files \cup {None},
                index : Indices, size : 0..ChunkSize, sumReady : BOOLEAN,
                data : Data, replicas : [Nodes -> Data \cup {None}]]

\* What a client says of a chunk it commits.  The status is "persisted" unless
\* the client sends one.
CommitChunkRequest ==
                [index : Indices, size : 0..ChunkSize, status : ChunkStatus,
                 sumReady : BOOLEAN, data : Data,
                 replicas : [Nodes -> {"none", "pending", "ready"}]]

AbsentFile == [status |-> "absent", size |-> 0, stored |-> 0, latest |-> None,
               checksum |-> None]

AbsentSession == [status |-> "absent", file |-> None, expected |-> 0,
                  confirmed |-> 0, next |-> 0, last |-> None,
                  verified |-> None, failedOffset |-> 0]

AbsentChunk == [status |-> "absent", file |-> None, index |-> 0, size |-> 0,
                sumReady |-> FALSE, data |-> CHOOSE d \in Data : TRUE,
                replicas |-> [n \in Nodes |-> None]]

\* The constants as the code has them; identifiers are not the empty string.
ASSUME ConstantsAssumption ==
    /\ ChunkSize \in Nat \ {0}
    /\ MaxIndex \in Nat
    /\ MinimumReplicaCount \in Int
    /\ FileSizes \subseteq Nat
    /\ Data # {}
    /\ ChunkRequests \subseteq CommitChunkRequest
    /\ ExpectedStatuses \subseteq SUBSET FileStatus
    /\ ChunkIDs \in [Files -> SUBSET Chunks]
    /\ Store \in {"memory", "postgres"}
    /\ None \notin Files \cup Sessions \cup Chunks \cup Data
    /\ \A x \in SUBSET (Indices \X Data) : x # None

\* Uploads of different files never use the same chunk id.  The store does not
\* enforce this, so it is a hypothesis of the properties that need it.
DisjointChunkIDs ==
    \A f, g \in Files : f # g => ChunkIDs[f] \cap ChunkIDs[g] = {}

-----------------------------------------------------------------------------
\* Helpers over a chunk table ck, before or after a step.

ListChunksByFile(ck, f) == {c \in Chunks : ck[c].file = f}

Offset(ck, c) == ck[c].index * ChunkSize

End(ck, c) == Offset(ck, c) + ck[c].size

\* The largest chunk end, 0 when there is no chunk.
currentStoredSize(ck, f) ==
    LET ends == {0} \cup {End(ck, c) : c \in ListChunksByFile(ck, f)}
    IN  CHOOSE n \in ends : \A m \in ends : m <= n

\* The content a checksum of the whole file covers.
Content(ck, f) == {<<ck[c].index, ck[c].data>> : c \in ListChunksByFile(ck, f)}

\* Mutant: a chunk in the middle may be short.
ContiguousAnySize(ck, f) ==
    \A c \in ListChunksByFile(ck, f) : \A i \in 0..(ck[c].index - 1) :
        \E d \in ListChunksByFile(ck, f) : ck[d].index = i

\* The scan of the chunks in index order: every chunk starts where the chunks
\* before it end, and only the last one may be short.  Since the store keeps
\* offset = index * ChunkSize, that is: every smaller index is there, full.
Contiguous(ck, f) ==
    \A c \in ListChunksByFile(ck, f) : \A i \in 0..(ck[c].index - 1) :
        \E d \in ListChunksByFile(ck, f) :
            ck[d].index = i /\ ck[d].size = ChunkSize

\* The size the session announced, or else the file's.
expectedSize(f, s) ==
    IF session[s].expected > 0 THEN session[s].expected ELSE file[f].size

ensureFileReadyForVerification(f, s) ==
    /\ ListChunksByFile(chunk, f) # {}
    /\ currentStoredSize(chunk, f) = expectedSize(f, s)
    /\ Contiguous(chunk, f)
    /\ \A c \in ListChunksByFile(chunk, f) :
          chunk[c].status \notin {"corrupted", "failed"}

healthyReplicaCount(ch) == Cardinality({n \in Nodes : ch.replicas[n] # None})

requiredReplicas == IF MinimumReplicaCount < 1 THEN 1 ELSE MinimumReplicaCount

\* Mutant: availability without the checks made for verification.
ReadyWithoutScan(f, s) ==
    \A c \in ListChunksByFile(chunk, f) :
        chunk[c].sumReady /\ healthyReplicaCount(chunk[c]) >= requiredReplicas

ensureFileReadyForAvailability(f, s) ==
    /\ ensureFileReadyForVerification(f, s)
    /\ \A c \in ListChunksByFile(chunk, f) :
          chunk[c].sumReady /\ healthyReplicaCount(chunk[c]) >= requiredReplicas

ListUploadSessionsByFile(f) == {s \in Sessions : session[s].file = f}

ensureNoActiveUploadSession(f) ==
    \A s \in ListUploadSessionsByFile(f) : isTerminalUploadStatus(session[s].status)

\* Mutant: an index that overlooks the retrying sessions.
IndexWithoutRetrying(f, s, st) ==
    Store = "postgres" /\ st # "retrying" /\ ~isTerminalUploadStatus(st)
        => \A o \in Sessions \ {s} :
              session[o].file = f => isTerminalUploadStatus(session[o].status)

\* PostgreSQL's partial unique index mds_upload_sessions_active_file_uq lets
\* session s of file f take status st.  The in-memory store has no such index.
activeIndexAllows(f, s, st) ==
    Store = "postgres" /\ ~isTerminalUploadStatus(st)
        => \A o \in Sessions \ {s} :
              session[o].file = f => isTerminalUploadStatus(session[o].status)

\* Mutant: a second chunk at an index of the file.
AnyIndex(f, c, i) == TRUE

\* UpsertChunks refuses chunk c at an index that another chunk of the file has.
indexFree(f, c, i) ==
    \A d \in ListChunksByFile(chunk, f) \ {c} : chunk[d].index # i

\* The checks of UpdateUploadProgress on a session that moves to offset next
\* and status st.
updateUploadProgressAllows(f, s, next, st) ==
    /\ session[s].status # "completed"
    /\ expectedSize(f, s) > 0 => next <= expectedSize(f, s)
    /\ activeIndexAllows(f, s, st)

\* The status and the offsets are overwritten, and the verified checksum is the
\* given one: the one that was there, another one, or none.
updateUploadProgress(f, s, st, confirmed, next, last, verified) ==
    /\ updateUploadProgressAllows(f, s, next, st)
    /\ session' = [session EXCEPT ![s] =
                      [@ EXCEPT !.status = st, !.confirmed = confirmed, !.next = next,
                                !.last = last, !.verified = verified]]

\* A session for a file that exists, under an id that is not taken.
createUploadSession(f, s, size) ==
    /\ file[f].status # "absent"
    /\ session[s].status = "absent"
    /\ activeIndexAllows(f, s, "pending")
    /\ session' = [session EXCEPT ![s] =
                      [AbsentSession EXCEPT !.status = "pending", !.file = f,
                                            !.expected = size]]

\* Any session takes a failure, a completed one too; retry is Retryable with
\* attempts left.
recordUploadFailure(f, s, retry, failedOffset) ==
    LET st == IF retry THEN "retrying" ELSE "failed"
    IN  /\ activeIndexAllows(f, s, st)
        /\ session' = [session EXCEPT ![s] =
                          [@ EXCEPT !.status = st, !.failedOffset = failedOffset]]

\* Mutant: a session completes whatever offset it has confirmed.
CompleteAnyOffset(f, s) == TRUE

\* CompleteUploadSession takes only a session that has confirmed the whole size.
completeUploadSessionAllows(f, s) ==
    expectedSize(f, s) > 0 => session[s].confirmed = expectedSize(f, s)

\* Session s and its file f exist and the request's status guard holds.
Found(f, s, allowed) ==
    /\ session[s].status # "absent"
    /\ session[s].file = f
    /\ file[f].status # "absent"
    /\ allowed # {} => file[f].status \in allowed

\* UpdateChunkStatus on every chunk of f.
updateChunkStatuses(f, st) ==
    [c \in Chunks |-> IF chunk[c].file = f THEN [chunk[c] EXCEPT !.status = st]
                                           ELSE chunk[c]]

\* Mutant: a verification failure marks the failed chunk only.
FailOnlyBadChunk(f, bad, actualReady) ==
    [c \in Chunks |->
        IF c # bad THEN chunk[c]
        ELSE [chunk[c] EXCEPT !.status = "failed", !.sumReady = actualReady]]

\* A verification failure marks every chunk of f failed, and gives the chunk bad
\* the checksum that was found.
failChunks(f, bad, actualReady) ==
    [c \in Chunks |->
        IF chunk[c].file # f THEN chunk[c]
        ELSE [chunk[c] EXCEPT !.status = "failed",
                              !.sumReady = IF c = bad THEN actualReady
                                          ELSE chunk[c].sumReady]]

\* The chunks of f that a retry from offset restart keeps.
keptChunks(f, restart) ==
    {c \in ListChunksByFile(chunk, f) : Offset(chunk, c) < restart}

\* Mutant: the file's status is not reset.
OpenKeepsStatus(f, ck) == [file[f] EXCEPT !.stored = currentStoredSize(ck, f)]

\* The file after a step that leaves it open for writing over the chunks ck.
openFile(f, ck) ==
    [file[f] EXCEPT !.status = "uploading", !.stored = currentStoredSize(ck, f)]

\* UpsertChunks: the in-memory store replaces the chunk with its replica set,
\* PostgreSQL keeps the replica rows of nodes the request does not name.
upsertReplicas(old, req) ==
    [n \in Nodes |->
        CASE req.replicas[n] = "ready"   -> req.data
          [] req.replicas[n] = "pending" -> None
          [] req.replicas[n] = "none"    -> IF Store = "postgres" THEN old[n]
                                                                 ELSE None]

\* The row of chunk c is inserted or overwritten, whatever file it was of.
chunkRow(f, c, req) ==
    [status |-> req.status, file |-> f, index |-> req.index, size |-> req.size,
     sumReady |-> req.sumReady, data |-> req.data,
     replicas |-> upsertReplicas(chunk[c].replicas, req)]

upsertChunk(f, c, req) ==
    /\ indexFree(f, c, req.index)
    /\ chunk' = [chunk EXCEPT ![c] = chunkRow(f, c, req)]

\* The tables without the sessions, or the chunks, of f.
deleteUploadSessions(f) ==
    [s \in Sessions |-> IF session[s].file = f THEN AbsentSession ELSE session[s]]

deleteChunks(f) ==
    [c \in Chunks |-> IF chunk[c].file = f THEN AbsentChunk ELSE chunk[c]]

-----------------------------------------------------------------------------
Init ==
    /\ file = [f \in Files |-> AbsentFile]
    /\ session = [s \in Sessions |-> AbsentSession]
    /\ chunk = [c \in Chunks |-> AbsentChunk]

\* Service.CreateFile, its inode apart.
CreateFile(f, size) ==
    /\ file[f].status = "absent"
    /\ file' = [file EXCEPT ![f] = [AbsentFile EXCEPT !.status = "pending",
                                                      !.size = size]]
    /\ UNCHANGED <<session, chunk>>

StartUpload(f, s, size) ==
    /\ file[f].status \notin {"absent", "deleting", "deleted"}
    /\ ensureNoActiveUploadSession(f)
    /\ createUploadSession(f, s, size)
    /\ file' = [file EXCEPT ![f] = [@ EXCEPT !.status = "uploading", !.size = size,
                                             !.latest = s]]
    /\ UNCHANGED chunk

\* CommitChunk writes the chunk whatever its file's status, and takes any
\* session that is not completed: pending, active, retrying, failed, verifying.
CommitChunk(f, s, c, req) ==
    LET end == req.index * ChunkSize + req.size
    IN  /\ session[s].status # "completed"
        /\ Found(f, s, {})
        /\ file[f].latest \in {None, s}
        /\ upsertChunk(f, c, req)
        /\ updateUploadProgress(f, s, "active", end, end, c, session[s].verified)
        /\ file' = [file EXCEPT ![f] = openFile(f, chunk')]

\* sum tells whether the request carries a verified final checksum.
CompleteUpload(f, s, allowed, sum) ==
    /\ Found(f, s, allowed)
    /\ ensureFileReadyForVerification(f, s)
    /\ updateUploadProgress(f, s, "verifying", session[s].confirmed, session[s].next,
                            session[s].last,
                            IF sum THEN Content(chunk, f) ELSE session[s].verified)
    /\ chunk' = updateChunkStatuses(f, "verifying")
    /\ file' = [file EXCEPT ![f] =
                   [@ EXCEPT !.status = "verifying",
                             !.size = expectedSize(f, s),
                             !.stored = currentStoredSize(chunk, f),
                             !.checksum = IF sum THEN Content(chunk, f)
                                          ELSE file[f].checksum]]

\* sum tells whether the request carries the verified checksum; without it the
\* one recorded in the session is published.
VerifyUpload(f, s, allowed, sum) ==
    LET checksum == IF sum THEN Content(chunk, f) ELSE session[s].verified
    IN  /\ Found(f, s, allowed)
        /\ ensureFileReadyForAvailability(f, s)
        /\ checksum # None
        /\ sum => updateUploadProgressAllows(f, s, session[s].next, "verifying")
        /\ completeUploadSessionAllows(f, s)
        /\ session' = [session EXCEPT ![s] =
                          [@ EXCEPT !.status = "completed", !.verified = checksum]]
        /\ chunk' = updateChunkStatuses(f, "available")
        /\ file' = [file EXCEPT ![f] =
                       [@ EXCEPT !.status = "available",
                                 !.size = expectedSize(f, s),
                                 !.stored = currentStoredSize(chunk, f),
                                 !.checksum = checksum]]

\* bad is the chunk that failed, or None; actualReady says of the chunk's
\* recomputed checksum whether it is marked verified, and is ignored without a
\* chunk.
FailUploadVerification(f, s, allowed, bad, retry, actualReady) ==
    /\ Found(f, s, allowed)
    /\ bad # None => chunk[bad].file = f
    /\ recordUploadFailure(f, s, retry, IF bad = None THEN 0 ELSE Offset(chunk, bad))
    /\ chunk' = failChunks(f, bad, actualReady)
    /\ file' = [file EXCEPT ![f] =
                   [@ EXCEPT !.status = "failed",
                             !.stored = currentStoredSize(chunk, f),
                             !.checksum = None]]

\* Chunks from the failed offset on are dropped, the ones before it kept.
RetryUpload(f, s, allowed) ==
    LET restart == session[s].failedOffset
        kept == keptChunks(f, restart)
        lastKept == IF kept = {} THEN None
                    ELSE CHOOSE c \in kept :
                            \A d \in kept : chunk[d].index <= chunk[c].index
    IN  /\ Found(f, s, allowed)
        /\ session[s].status = "retrying"
        /\ chunk' = [c \in Chunks |->
                        IF chunk[c].file # f THEN chunk[c]
                        ELSE IF c \in kept
                             THEN [chunk[c] EXCEPT !.status = "persisted"]
                             ELSE AbsentChunk]
        /\ updateUploadProgress(f, s, "active", restart, restart, lastKept, None)
        /\ file' = [file EXCEPT ![f] = [openFile(f, chunk') EXCEPT !.checksum = None]]

\* deleteFileCascade: sessions, chunks and the file, in one transaction.
DeleteFile(f) ==
    /\ file[f].status # "absent"
    /\ session' = deleteUploadSessions(f)
    /\ chunk' = deleteChunks(f)
    /\ file' = [file EXCEPT ![f] = AbsentFile]

\* The handlers that work on upload session s of file f.
UploadStep(f, s) ==
    \/ \E size \in FileSizes : StartUpload(f, s, size)
    \/ \E c \in ChunkIDs[f], req \in ChunkRequests : CommitChunk(f, s, c, req)
    \/ \E allowed \in ExpectedStatuses, sum \in BOOLEAN :
          CompleteUpload(f, s, allowed, sum) \/ VerifyUpload(f, s, allowed, sum)
    \/ \E allowed \in ExpectedStatuses, bad \in Chunks \cup {None},
          retry, actualReady \in BOOLEAN :
          FailUploadVerification(f, s, allowed, bad, retry, actualReady)
    \/ \E allowed \in ExpectedStatuses : RetryUpload(f, s, allowed)

FileStep(f) ==
    \/ \E size \in FileSizes : CreateFile(f, size)
    \/ DeleteFile(f)
    \/ \E s \in Sessions : UploadStep(f, s)

Next == \E f \in Files : FileStep(f)

Spec == Init /\ [][Next]_vars
-----------------------------------------------------------------------------
\* Every record has the shape of its table's row.
TypeOK ==
    /\ file \in [Files -> FileRecord]
    /\ session \in [Sessions -> SessionRecord]
    /\ chunk \in [Chunks -> ChunkRecord]

\* File f can be read back: every byte of [0, Size) lies in one of its chunks and
\* no chunk reaches past Size, every chunk is available with a verified checksum
\* and the minimum number of ready replicas, and the file has a checksum.
Readable(f) ==
    /\ \A b \in 0..(file[f].size - 1) :
          \E c \in ListChunksByFile(chunk, f) : Offset(chunk, c) <= b /\ b < End(chunk, c)
    /\ file[f].checksum # None
    /\ \A c \in ListChunksByFile(chunk, f) :
          /\ End(chunk, c) <= file[f].size
          /\ chunk[c].status = "available"
          /\ chunk[c].sumReady
          /\ healthyReplicaCount(chunk[c]) >= requiredReplicas

\* A file is available only while it can be read back.  No later commit, retry,
\* failure report or new session leaves a file available over chunks that have
\* changed under it.
AvailableIsReadable ==
    \A f \in Files : file[f].status = "available" => Readable(f)

\* An available file was completed by a session of its own that confirmed
\* exactly the file's size, and that session still counts as completed.
AvailableWasCompleted ==
    \A f \in Files : file[f].status = "available" =>
        \E s \in Sessions : /\ session[s].file = f
                            /\ session[s].status = "completed"
                            /\ file[f].size > 0 => session[s].confirmed = file[f].size

\* The three tables agree after every handler.  A file in verification or failed
\* has all its chunks in that state and a pending file has none; StoredSize is
\* the extent of the chunks that are there, also after a retry has dropped some;
\* nothing outlives its file, and LatestUploadSessionID names a session of it.
RowsAgree ==
    /\ \A c \in Chunks : chunk[c].status # "absent" =>
          /\ file[chunk[c].file].status \notin {"absent", "pending"}
          /\ file[chunk[c].file].status \in {"verifying", "failed"} =>
                chunk[c].status = file[chunk[c].file].status
    /\ \A s \in Sessions : session[s].status # "absent" =>
          session[s].file \in Files /\ file[session[s].file].status # "absent"
    /\ \A f \in Files :
          /\ file[f].stored = currentStoredSize(chunk, f)
          /\ file[f].latest # None => session[file[f].latest].file = f

\* At most one session of a file is in progress.
OneActiveSession ==
    \A s, o \in Sessions :
        /\ session[s].status # "absent" /\ ~isTerminalUploadStatus(session[s].status)
        /\ session[o].status # "absent" /\ ~isTerminalUploadStatus(session[o].status)
        /\ session[s].file = session[o].file
        => s = o
=============================================================================
