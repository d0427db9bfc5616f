------------------------------ MODULE UploadTx ------------------------------
(***************************************************************************)
(* The upload handlers of Upload as PostgreSQL runs them: transactions at  *)
(* read committed that take no lock when they read.  A handler             *)
(*   - reads its rows and checks them;                                     *)
(*   - reads again what the store's functions look at, and knows then      *)
(*     which columns of which rows it writes;                              *)
(*   - writes those columns of the rows as they are by then, when the      *)
(*     unique indexes and the foreign keys allow it, and commits.          *)
(* Other transactions commit between these steps.  A write waits for the   *)
(* transaction that has locked the row, and what was read before the wait  *)
(* is not read again.  A handler that nothing overlaps is a step of        *)
(* Upload; file creation and deletion are taken to be such handlers.       *)
(***************************************************************************)
EXTENDS Upload

CONSTANT Txs      \* the transactions that may be open at the same time

ASSUME TxsAssumption == None \notin Txs

VARIABLES
    tx,           \* the open transactions
    overlapped    \* the files over whose changed rows a transaction wrote

txVars == <<file, session, chunk, tx, overlapped>>

-----------------------------------------------------------------------------
\* What an UPDATE sets: a record of the columns it names, the empty one when
\* there is no UPDATE.
NoColumns == [k \in {} |-> k]

Set(row, columns) ==
    [k \in DOMAIN row |-> IF k \in DOMAIN columns THEN columns[k] ELSE row[k]]

Idle == [pc |-> "idle"]

Open(t) == tx[t].pc # "idle"

\* UpdateChunkStatus writes the checksum of the chunk as it was listed.
statusColumns(st, c) ==
    [status |-> st, sumReady |-> chunk[c].sumReady, data |-> chunk[c].data]

\* The columns of the chunks of f when each is given status st.
chunkColumns(f, st) ==
    [c \in Chunks |-> IF chunk[c].file = f THEN statusColumns(st, c) ELSE NoColumns]

-----------------------------------------------------------------------------
\* The first reads: call is what the handler keeps in its variables.
Reads(t, call) ==
    /\ tx[t] = Idle
    /\ tx' = [tx EXCEPT ![t] = [pc |-> "read", stale |-> FALSE, call |-> call,
                                f |-> call.f, s |-> call.s]]
    /\ UNCHANGED <<file, session, chunk, overlapped>>

StartUploadReads(t, f, s, size) ==
    /\ file[f].status \notin {"absent", "deleting", "deleted"}
    /\ ensureNoActiveUploadSession(f)
    /\ Reads(t, [op |-> "start", f |-> f, s |-> s, size |-> size])

CommitChunkReads(t, f, s, c, req) ==
    /\ session[s].status # "completed"
    /\ Found(f, s, {})
    /\ file[f].latest \in {None, s}
    /\ Reads(t, [op |-> "commit", f |-> f, s |-> s, c |-> c, req |-> req])

\* What CompleteUpload and VerifyUpload keep of the session, the size and the
\* extent of the chunks; sum and checksum are as in Upload.
Judging(op, f, s, sum, checksum) ==
    [op |-> op, f |-> f, s |-> s, sum |-> sum, checksum |-> checksum,
     size |-> expectedSize(f, s), stored |-> currentStoredSize(chunk, f),
     confirmed |-> session[s].confirmed, next |-> session[s].next,
     last |-> session[s].last]

CompleteUploadReads(t, f, s, allowed, sum) ==
    /\ Found(f, s, allowed)
    /\ ensureFileReadyForVerification(f, s)
    /\ Reads(t, Judging("complete", f, s, sum, IF sum THEN Content(chunk, f) ELSE None))

\* Mutant: the checks made for verification only.
VerifyUnready(t, f, s, allowed, sum) ==
    LET checksum == IF sum THEN Content(chunk, f) ELSE session[s].verified
    IN  /\ Found(f, s, allowed)
        /\ ensureFileReadyForVerification(f, s)
        /\ checksum # None
        /\ Reads(t, Judging("verify", f, s, sum, checksum))

VerifyUploadReads(t, f, s, allowed, sum) ==
    LET checksum == IF sum THEN Content(chunk, f) ELSE session[s].verified
    IN  /\ Found(f, s, allowed)
        /\ ensureFileReadyForAvailability(f, s)
        /\ checksum # None
        /\ Reads(t, Judging("verify", f, s, sum, checksum))

FailUploadReads(t, f, s, allowed, bad, retry, actualReady) ==
    /\ Found(f, s, allowed)
    /\ bad # None => chunk[bad].file = f
    /\ Reads(t, [op |-> "fail", f |-> f, s |-> s, retry |-> retry,
                 offset |-> IF bad = None THEN 0 ELSE Offset(chunk, bad),
                 chunks |-> [c \in Chunks |->
                     IF chunk[c].file # f THEN NoColumns
                     ELSE [statusColumns("failed", c) EXCEPT
                              !.sumReady = IF c = bad THEN actualReady ELSE @]]])

RetryUploadReads(t, f, s, allowed) ==
    LET restart == session[s].failedOffset
        kept == keptChunks(f, restart)
    IN  /\ Found(f, s, allowed)
        /\ session[s].status = "retrying"
        /\ Reads(t, [op |-> "retry", f |-> f, s |-> s, restart |-> restart,
                     last |-> IF kept = {} THEN None
                              ELSE CHOOSE c \in kept :
                                      \A d \in kept : chunk[d].index <= chunk[c].index,
                     dropped |-> ListChunksByFile(chunk, f) \ kept,
                     chunks |-> [c \in Chunks |->
                         IF c \in kept THEN statusColumns("persisted", c) ELSE NoColumns]])

-----------------------------------------------------------------------------
\* The second reads: the writes are settled.  put has the request of a chunk to
\* upsert, drop the chunks to delete.
NoWrites == [session |-> NoColumns, insert |-> FALSE, put |-> NoColumns, drop |-> {},
             chunks |-> [c \in Chunks |-> NoColumns], file |-> NoColumns]

Rereads(t, op, writes) ==
    /\ tx[t].pc = "read"
    /\ tx[t].call.op = op
    /\ tx' = [tx EXCEPT ![t] = [pc |-> "write", stale |-> tx[t].stale, writes |-> writes,
                                f |-> tx[t].f, s |-> tx[t].s]]
    /\ UNCHANGED <<file, session, chunk, overlapped>>

\* The checks of UpdateUploadProgress but for the index, on the session as it is.
progressAllows(f, s, next) ==
    /\ session[s].status \notin {"absent", "completed"}
    /\ expectedSize(f, s) > 0 => next <= expectedSize(f, s)

StartUploadRereads(t) ==
    LET call == tx[t].call
    IN  /\ Rereads(t, "start",
               [NoWrites EXCEPT
                   !.insert = TRUE,
                   !.session = [AbsentSession EXCEPT !.status = "pending", !.file = call.f,
                                                     !.expected = call.size],
                   !.file = [status |-> "uploading", size |-> call.size, latest |-> call.s]])
        /\ file[call.f].status # "absent"

CommitChunkRereads(t) ==
    LET call == tx[t].call
        req == call.req
        end == req.index * ChunkSize + req.size
        ck == [chunk EXCEPT ![call.c].file = call.f, ![call.c].index = req.index,
                            ![call.c].size = req.size]
    IN  /\ Rereads(t, "commit",
               [NoWrites EXCEPT
                   !.put = [c \in {call.c} |-> req],
                   !.session = [status |-> "active", confirmed |-> end, next |-> end,
                                last |-> call.c, verified |-> session[call.s].verified],
                   !.file = [status |-> "uploading",
                             stored |-> currentStoredSize(ck, call.f)]])
        /\ file[call.f].status # "absent"
        /\ indexFree(call.f, call.c, req.index)
        /\ progressAllows(call.f, call.s, end)

CompleteUploadRereads(t) ==
    LET call == tx[t].call
    IN  /\ Rereads(t, "complete",
               [NoWrites EXCEPT
                   !.session = [status |-> "verifying", confirmed |-> call.confirmed,
                                next |-> call.next, last |-> call.last,
                                verified |-> IF call.sum THEN call.checksum
                                             ELSE session[call.s].verified],
                   !.chunks = chunkColumns(call.f, "verifying"),
                   !.file = IF call.sum
                            THEN [status |-> "verifying", size |-> call.size,
                                  stored |-> call.stored, checksum |-> call.checksum]
                            ELSE [status |-> "verifying", size |-> call.size,
                                  stored |-> call.stored]])
        /\ progressAllows(call.f, call.s, call.next)

\* With a checksum in the request the session's offsets are the ones read first:
\* CompleteUploadSession reads back what the transaction has just written.
VerifyUploadRereads(t) ==
    LET call == tx[t].call
        confirmed == IF call.sum THEN call.confirmed ELSE session[call.s].confirmed
    IN  /\ Rereads(t, "verify",
               [NoWrites EXCEPT
                   !.session = IF call.sum
                               THEN [status |-> "completed", confirmed |-> call.confirmed,
                                     next |-> call.next, last |-> call.last,
                                     verified |-> call.checksum]
                               ELSE [status |-> "completed"],
                   !.chunks = chunkColumns(call.f, "available"),
                   !.file = [status |-> "available", size |-> call.size,
                             stored |-> call.stored, checksum |-> call.checksum]])
        /\ session[call.s].status # "absent"
        /\ call.sum => progressAllows(call.f, call.s, call.next)
        /\ expectedSize(call.f, call.s) > 0 => confirmed = expectedSize(call.f, call.s)

FailUploadRereads(t) ==
    LET call == tx[t].call
    IN  /\ Rereads(t, "fail",
               [NoWrites EXCEPT
                   !.session = [status |-> IF call.retry THEN "retrying" ELSE "failed",
                                failedOffset |-> call.offset],
                   !.chunks = call.chunks,
                   !.file = [status |-> "failed", checksum |-> None,
                             stored |-> currentStoredSize(chunk, call.f)]])
        /\ session[call.s].status # "absent"

RetryUploadRereads(t) ==
    LET call == tx[t].call
        ck == [c \in Chunks |-> IF c \in call.dropped THEN AbsentChunk ELSE chunk[c]]
    IN  /\ Rereads(t, "retry",
               [NoWrites EXCEPT
                   !.session = [status |-> "active", confirmed |-> call.restart,
                                next |-> call.restart, last |-> call.last,
                                verified |-> None],
                   !.chunks = call.chunks,
                   !.drop = call.dropped,
                   !.file = [status |-> "uploading", checksum |-> None,
                             stored |-> currentStoredSize(ck, call.f)]])
        /\ progressAllows(call.f, call.s, call.restart)

-----------------------------------------------------------------------------
\* The commit of a transaction, or of a handler that nothing overlapped, of file
\* f: the other open transactions of f have read rows that are no longer so.
Overtakes(f, t) ==
    tx' = [u \in Txs |-> CASE u = t -> Idle
                         [] u # t /\ Open(u) /\ tx[u].f = f -> [tx[u] EXCEPT !.stale = TRUE]
                         [] OTHER -> tx[u]]

\* The writes and the commit.  The indexes and the keys are those of the rows as
\* they are now: the session's primary key and mds_upload_sessions_active_file_uq,
\* mds_chunks_file_index_uq, and the file the rows refer to.  An UPDATE of a row
\* that has gone changes nothing, but a handler that no longer finds its file at
\* the end fails.
Write(t) ==
    LET w == tx[t].writes
        f == tx[t].f
        s == tx[t].s
        row == IF w.insert THEN w.session ELSE Set(session[s], w.session)
    IN  /\ tx[t].pc = "write"
        /\ file[f].status # "absent"
        /\ w.insert => session[s].status = "absent"
        /\ \A c \in DOMAIN w.put : indexFree(f, c, w.put[c].index)
        /\ \/ /\ session[s].status = "absent" /\ ~ w.insert
              /\ UNCHANGED session
           \/ /\ session[s].status # "absent" \/ w.insert
              /\ activeIndexAllows(row.file, s, row.status)
              /\ session' = [session EXCEPT ![s] = row]
        /\ chunk' = [c \in Chunks |->
                        CASE c \in DOMAIN w.put -> chunkRow(f, c, w.put[c])
                          [] c \in w.drop -> AbsentChunk
                          [] chunk[c].status = "absent" -> chunk[c]
                          [] OTHER -> Set(chunk[c], w.chunks[c])]
        /\ file' = [file EXCEPT ![f] = Set(@, w.file)]
        /\ Overtakes(f, t)
        /\ overlapped' = IF tx[t].stale THEN overlapped \cup {f} ELSE overlapped

\* A check, an index, a lost connection or a deadlock ends the transaction.
Rollback(t) ==
    /\ Open(t)
    /\ tx' = [tx EXCEPT ![t] = Idle]
    /\ UNCHANGED <<file, session, chunk, overlapped>>

\* A handler of Upload that no other transaction overlaps.
Alone(f) ==
    /\ FileStep(f)
    /\ Overtakes(f, None)
    /\ overlapped' = {g \in overlapped : file'[g].status # "absent"}

Begin(t, f, s) ==
    \/ \E size \in FileSizes : StartUploadReads(t, f, s, size)
    \/ \E c \in ChunkIDs[f], req \in ChunkRequests : CommitChunkReads(t, f, s, c, req)
    \/ \E allowed \in ExpectedStatuses, sum \in BOOLEAN :
          \/ CompleteUploadReads(t, f, s, allowed, sum)
          \/ VerifyUploadReads(t, f, s, allowed, sum)
    \/ \E allowed \in ExpectedStatuses, bad \in Chunks \cup {None},
          retry, actualReady \in BOOLEAN :
          FailUploadReads(t, f, s, allowed, bad, retry, actualReady)
    \/ \E allowed \in ExpectedStatuses : RetryUploadReads(t, f, s, allowed)

Continue(t) ==
    \/ StartUploadRereads(t) \/ CommitChunkRereads(t)
    \/ CompleteUploadRereads(t) \/ VerifyUploadRereads(t)
    \/ FailUploadRereads(t) \/ RetryUploadRereads(t)
    \/ Write(t) \/ Rollback(t)

TxInit == Init /\ tx = [t \in Txs |-> Idle] /\ overlapped = {}

TxNext ==
    \/ \E f \in Files : Alone(f) \/ \E t \in Txs, s \in Sessions : Begin(t, f, s)
    \/ \E t \in Txs : Continue(t)

TxSpec == TxInit /\ [][TxNext]_txVars

-----------------------------------------------------------------------------
\* A file none of whose transactions wrote over rows that had changed since it
\* read them is available only while it can be read back, whatever else ran
\* between its transactions' reads and writes and whichever of them were rolled
\* back.  A file over which one did may be available without: VerifyUpload
\* publishes chunks that a CommitChunk replaced after they were checked.
ReadableUnlessOverlapped ==
    \A f \in Files \ overlapped : file[f].status = "available" => Readable(f)
=============================================================================
