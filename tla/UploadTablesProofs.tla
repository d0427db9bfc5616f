------------------------- MODULE UploadTablesProofs -------------------------
(***************************************************************************)
(* Proofs of how the rows of the three upload tables fit together: what    *)
(* each handler writes, field by field, the handlers summed up as six      *)
(* effects on the tables, and the invariants every effect preserves; and   *)
(* what the index on active sessions keeps when transactions overlap.      *)
(***************************************************************************)
EXTENDS UploadProofs, UploadTx

-----------------------------------------------------------------------------
(* What the handlers write, field by field. *)

\* The rows of the other sessions, and of the other files, stay.
OnlyRows(f, s) ==
    /\ \A o \in Sessions \ {s} : session'[o] = session[o]
    /\ \A g \in Files \ {f} : file'[g] = file[g]

\* CreateFile adds a pending file without chunks.
LEMMA CreateWrites ==
    ASSUME TypeOK, NEW f \in Files, NEW size, CreateFile(f, size)
    PROVE  /\ file[f].status = "absent"
           /\ \A g \in Files \ {f} : file'[g] = file[g]
           /\ file'[f].status = "pending" /\ file'[f].stored = 0 /\ file'[f].latest = None
           /\ UNCHANGED <<session, chunk>>
  BY DEF CreateFile, TypeOK, AbsentFile

\* DeleteFile takes the file with its sessions and chunks.
LEMMA DeleteWrites ==
    ASSUME TypeOK, NEW f \in Files, DeleteFile(f)
    PROVE  /\ \A g \in Files \ {f} : file'[g] = file[g]
           /\ file'[f].status = "absent" /\ file'[f].stored = 0 /\ file'[f].latest = None
           /\ \A s \in Sessions : session'[s] = IF session[s].file = f THEN AbsentSession ELSE session[s]
           /\ \A c \in Chunks : chunk'[c] = IF chunk[c].file = f THEN AbsentChunk ELSE chunk[c]
  BY DEF DeleteFile, deleteUploadSessions, deleteChunks, TypeOK, AbsentFile

\* StartUpload adds a session and makes it the latest one.
LEMMA StartWrites ==
    ASSUME TypeOK, NEW f \in Files, NEW s \in Sessions, NEW size, StartUpload(f, s, size)
    PROVE  /\ OnlyRows(f, s)
           /\ session[s].status = "absent" /\ activeIndexAllows(f, s, "pending")
           /\ session'[s].status = "pending" /\ session'[s].file = f
           /\ session'[s].confirmed = 0 /\ session'[s].last = None /\ session'[s].failedOffset = 0
           /\ file[f].status # "absent"
           /\ file'[f].status = "uploading" /\ file'[f].stored = file[f].stored
           /\ file'[f].latest = s
           /\ UNCHANGED chunk
  <1>1. /\ file[f].status # "absent" /\ session[s].status = "absent"
        /\ activeIndexAllows(f, s, "pending") /\ UNCHANGED chunk
        /\ session' = [session EXCEPT ![s] = [AbsentSession EXCEPT !.status = "pending",
                                                 !.file = f, !.expected = size]]
        /\ file' = [file EXCEPT ![f] = [file[f] EXCEPT !.status = "uploading", !.size = size,
                                                       !.latest = s]]
    BY DEF StartUpload, createUploadSession
  <1>2. file \in [Files -> FileRecord] /\ session \in [Sessions -> SessionRecord]
    BY DEF TypeOK
  <1>3. /\ session'[s] = [AbsentSession EXCEPT !.status = "pending", !.file = f, !.expected = size]
        /\ file'[f] = [file[f] EXCEPT !.status = "uploading", !.size = size, !.latest = s]
        /\ OnlyRows(f, s)
    BY <1>1, <1>2 DEF OnlyRows
  <1>4. /\ session'[s].status = "pending" /\ session'[s].file = f
        /\ session'[s].confirmed = 0 /\ session'[s].last = None /\ session'[s].failedOffset = 0
    BY <1>3 DEF AbsentSession
  <1>5. /\ file'[f].status = "uploading" /\ file'[f].stored = file[f].stored
        /\ file'[f].latest = s
    BY <1>2, <1>3 DEF FileRecord
  <1>6. QED
    BY <1>1, <1>3, <1>4, <1>5

\* CommitChunk writes a chunk, and confirms its end in the session.
LEMMA CommitWrites ==
    ASSUME TypeOK, NEW f \in Files, NEW s \in Sessions, NEW c \in ChunkIDs[f],
           NEW req \in ChunkRequests, CommitChunk(f, s, c, req)
    PROVE  /\ OnlyRows(f, s)
           /\ session[s].file = f /\ session[s].status # "absent"
           /\ activeIndexAllows(f, s, "active")
           /\ session'[s].status = "active" /\ session'[s].file = session[s].file
           /\ session'[s].confirmed = End(chunk', c) /\ session'[s].last = c
           /\ session'[s].failedOffset = session[s].failedOffset
           /\ file[f].status # "absent" /\ file[f].latest \in {None, s}
           /\ file'[f].status = "uploading" /\ file'[f].stored = currentStoredSize(chunk', f)
           /\ file'[f].latest = file[f].latest
           /\ c \in Chunks /\ \A d \in Chunks \ {c} : chunk'[d] = chunk[d]
           /\ chunk'[c].file = f /\ chunk'[c].status # "absent"
           /\ chunk'[c].data = req.data
           /\ chunk'[c].replicas = upsertReplicas(chunk[c].replicas, req)
  <1> DEFINE end == req.index * ChunkSize + req.size
             row == [status |-> req.status, file |-> f, index |-> req.index,
                     size |-> req.size, sumReady |-> req.sumReady,
                     data |-> req.data,
                     replicas |-> upsertReplicas(chunk[c].replicas, req)]
  <1>1. req \in CommitChunkRequest /\ c \in Chunks
    BY ConstantsAssumption
  <1>2. file \in [Files -> FileRecord] /\ session \in [Sessions -> SessionRecord]
        /\ chunk \in [Chunks -> ChunkRecord]
    BY DEF TypeOK
  <1>3. /\ session[s].file = f /\ session[s].status # "absent" /\ file[f].status # "absent"
        /\ file[f].latest \in {None, s} /\ activeIndexAllows(f, s, "active")
    BY DEF CommitChunk, Found, updateUploadProgress, updateUploadProgressAllows
  <1>4. /\ chunk' = [chunk EXCEPT ![c] = row]
        /\ session' = [session EXCEPT ![s] = [session[s] EXCEPT !.status = "active",
                            !.confirmed = end, !.next = end, !.last = c, !.verified = session[s].verified]]
        /\ file' = [file EXCEPT ![f] = [file[f] EXCEPT !.status = "uploading",
                                        !.stored = currentStoredSize(chunk', f)]]
    BY DEF CommitChunk, upsertChunk, chunkRow, updateUploadProgress, openFile
  <1>5. chunk'[c] = row /\ \A d \in Chunks \ {c} : chunk'[d] = chunk[d]
    <2> HIDE DEF row
    <2>1. QED
      BY <1>1, <1>2, <1>4
  <1>6. /\ chunk'[c].file = f /\ chunk'[c].status = req.status /\ chunk'[c].data = req.data
        /\ chunk'[c].index = req.index /\ chunk'[c].size = req.size
        /\ chunk'[c].replicas = upsertReplicas(chunk[c].replicas, req)
    BY <1>5
  <1>7. req.status # "absent"
    BY <1>1 DEF CommitChunkRequest, ChunkStatus
  <1>8. End(chunk', c) = end
    BY <1>6 DEF End, Offset
  <1> HIDE DEF end, row
  <1>9. /\ session'[s].status = "active" /\ session'[s].file = session[s].file
        /\ session'[s].confirmed = end /\ session'[s].last = c
        /\ session'[s].failedOffset = session[s].failedOffset
        /\ \A o \in Sessions \ {s} : session'[o] = session[o]
    <2>1. session'[s] = [session[s] EXCEPT !.status = "active",
                            !.confirmed = end, !.next = end, !.last = c, !.verified = session[s].verified]
      BY <1>2, <1>4
    <2>2. session[s] \in SessionRecord
      BY <1>2
    <2>3. QED
      BY <1>2, <1>4, <2>1, <2>2 DEF SessionRecord
  <1>10. /\ file'[f].status = "uploading" /\ file'[f].stored = currentStoredSize(chunk', f)
         /\ file'[f].latest = file[f].latest
         /\ \A g \in Files \ {f} : file'[g] = file[g]
    <2>1. file'[f] = [file[f] EXCEPT !.status = "uploading", !.stored = currentStoredSize(chunk', f)]
      BY <1>2, <1>4
    <2>2. QED
      BY <1>2, <1>4, <2>1 DEF FileRecord
  <1>11. QED
    BY <1>1, <1>3, <1>5, <1>6, <1>7, <1>8, <1>9, <1>10 DEF OnlyRows

\* The chunks of f change their status to st and keep their place and data; the
\* other ones stay.
StatusRows(f, st) ==
    \A c \in Chunks :
        /\ chunk[c].file # f => chunk'[c] = chunk[c]
        /\ chunk[c].file = f =>
              /\ chunk'[c].status = st /\ chunk'[c].file = f
              /\ chunk'[c].index = chunk[c].index /\ chunk'[c].size = chunk[c].size
              /\ chunk'[c].data = chunk[c].data /\ chunk'[c].replicas = chunk[c].replicas

\* A change of status leaves the extent of a file.
LEMMA StatusExtent ==
    ASSUME NEW f \in Files, NEW st, StatusRows(f, st)
    PROVE  currentStoredSize(chunk', f) = currentStoredSize(chunk, f)
  <1>1. ListChunksByFile(chunk', f) = ListChunksByFile(chunk, f)
    BY DEF ListChunksByFile, StatusRows
  <1>2. \A c \in ListChunksByFile(chunk, f) : End(chunk', c) = End(chunk, c)
    BY DEF ListChunksByFile, StatusRows, End, Offset
  <1>3. {End(chunk', c) : c \in ListChunksByFile(chunk, f)}
          = {End(chunk, c) : c \in ListChunksByFile(chunk, f)}
    BY <1>2
  <1>4. QED
    BY <1>1, <1>3 DEF currentStoredSize

\* CompleteUpload puts the session, the file and its chunks into verification.
LEMMA CompleteWrites ==
    ASSUME TypeOK, NEW f \in Files, NEW s \in Sessions, NEW allowed, NEW sum \in BOOLEAN,
           CompleteUpload(f, s, allowed, sum)
    PROVE  /\ OnlyRows(f, s)
           /\ session[s].file = f /\ session[s].status # "absent"
           /\ activeIndexAllows(f, s, "verifying")
           /\ session'[s].status = "verifying" /\ session'[s].file = session[s].file
           /\ session'[s].confirmed = session[s].confirmed /\ session'[s].last = session[s].last
           /\ session'[s].failedOffset = session[s].failedOffset
           /\ file[f].status # "absent" /\ ListChunksByFile(chunk, f) # {}
           /\ file'[f].status = "verifying" /\ file'[f].stored = currentStoredSize(chunk, f)
           /\ file'[f].latest = file[f].latest
           /\ StatusRows(f, "verifying")
  <1> DEFINE verified == IF sum THEN Content(chunk, f) ELSE session[s].verified
             checksum == IF sum THEN Content(chunk, f) ELSE file[f].checksum
             expected == expectedSize(f, s)
             stored == currentStoredSize(chunk, f)
  <1>1. /\ session[s].file = f /\ session[s].status # "absent" /\ file[f].status # "absent"
        /\ activeIndexAllows(f, s, "verifying") /\ ListChunksByFile(chunk, f) # {}
    BY DEF CompleteUpload, Found, updateUploadProgress, updateUploadProgressAllows,
           ensureFileReadyForVerification
  <1>2. /\ session' = [session EXCEPT ![s] =
                          [session[s] EXCEPT !.status = "verifying", !.confirmed = session[s].confirmed,
                                !.next = session[s].next, !.last = session[s].last,
                                !.verified = verified]]
        /\ file' = [file EXCEPT ![f] =
                       [file[f] EXCEPT !.status = "verifying", !.size = expected,
                                       !.stored = stored, !.checksum = checksum]]
        /\ chunk' = updateChunkStatuses(f, "verifying")
    BY DEF CompleteUpload, updateUploadProgress
  <1>3. file \in [Files -> FileRecord] /\ session \in [Sessions -> SessionRecord]
        /\ chunk \in [Chunks -> ChunkRecord]
    BY DEF TypeOK
  <1> HIDE DEF verified, checksum, expected, stored
  <1>4. /\ session'[s].status = "verifying" /\ session'[s].file = session[s].file
        /\ session'[s].confirmed = session[s].confirmed /\ session'[s].last = session[s].last
        /\ session'[s].failedOffset = session[s].failedOffset
        /\ \A o \in Sessions \ {s} : session'[o] = session[o]
    <2>1. session'[s] = [session[s] EXCEPT !.status = "verifying", !.confirmed = session[s].confirmed,
                                !.next = session[s].next, !.last = session[s].last,
                                !.verified = verified]
      BY <1>2, <1>3
    <2>2. session[s] \in SessionRecord
      BY <1>3
    <2>3. QED
      BY <1>2, <1>3, <2>1, <2>2 DEF SessionRecord
  <1>5. /\ file'[f].status = "verifying" /\ file'[f].stored = stored
        /\ file'[f].latest = file[f].latest
        /\ \A g \in Files \ {f} : file'[g] = file[g]
    <2>1. file'[f] = [file[f] EXCEPT !.status = "verifying", !.size = expected,
                                       !.stored = stored, !.checksum = checksum]
      BY <1>2, <1>3
    <2>2. QED
      BY <1>2, <1>3, <2>1 DEF FileRecord
  <1>6. StatusRows(f, "verifying")
    BY <1>2, <1>3 DEF StatusRows, updateChunkStatuses, ChunkRecord
  <1>7. QED
    BY <1>1, <1>4, <1>5, <1>6 DEF OnlyRows, stored

\* VerifyUpload completes the session and makes the file available.
LEMMA VerifyWrites ==
    ASSUME TypeOK, NEW f \in Files, NEW s \in Sessions, NEW allowed, NEW sum \in BOOLEAN,
           VerifyUpload(f, s, allowed, sum)
    PROVE  /\ OnlyRows(f, s)
           /\ session[s].file = f /\ session[s].status # "absent"
           /\ file'[f].size > 0 => session[s].confirmed = file'[f].size
           /\ session'[s].status = "completed" /\ session'[s].file = session[s].file
           /\ session'[s].confirmed = session[s].confirmed /\ session'[s].last = session[s].last
           /\ session'[s].failedOffset = session[s].failedOffset
           /\ file[f].status # "absent" /\ ListChunksByFile(chunk, f) # {}
           /\ file'[f].status = "available" /\ file'[f].stored = currentStoredSize(chunk, f)
           /\ file'[f].latest = file[f].latest
           /\ StatusRows(f, "available")
  <1> DEFINE checksum == IF sum THEN Content(chunk, f) ELSE session[s].verified
             expected == expectedSize(f, s)
             stored == currentStoredSize(chunk, f)
  <1>1. /\ session[s].file = f /\ session[s].status # "absent" /\ file[f].status # "absent"
        /\ ListChunksByFile(chunk, f) # {}
        /\ expected > 0 => session[s].confirmed = expected
    BY DEF VerifyUpload, Found, ensureFileReadyForAvailability, ensureFileReadyForVerification,
           completeUploadSessionAllows
  <1>2. /\ session' = [session EXCEPT ![s] =
                          [session[s] EXCEPT !.status = "completed", !.verified = checksum]]
        /\ file' = [file EXCEPT ![f] =
                       [file[f] EXCEPT !.status = "available", !.size = expected,
                                       !.stored = stored, !.checksum = checksum]]
        /\ chunk' = updateChunkStatuses(f, "available")
    BY DEF VerifyUpload
  <1>3. file \in [Files -> FileRecord] /\ session \in [Sessions -> SessionRecord]
        /\ chunk \in [Chunks -> ChunkRecord]
    BY DEF TypeOK
  <1> HIDE DEF checksum, expected, stored
  <1>4. /\ session'[s].status = "completed" /\ session'[s].file = session[s].file
        /\ session'[s].confirmed = session[s].confirmed /\ session'[s].last = session[s].last
        /\ session'[s].failedOffset = session[s].failedOffset
        /\ \A o \in Sessions \ {s} : session'[o] = session[o]
    <2>1. session'[s] = [session[s] EXCEPT !.status = "completed", !.verified = checksum]
      BY <1>2, <1>3
    <2>2. session[s] \in SessionRecord
      BY <1>3
    <2>3. QED
      BY <1>2, <1>3, <2>1, <2>2 DEF SessionRecord
  <1>5. /\ file'[f].status = "available" /\ file'[f].stored = stored
        /\ file'[f].latest = file[f].latest /\ file'[f].size = expected
        /\ \A g \in Files \ {f} : file'[g] = file[g]
    <2>1. file'[f] = [file[f] EXCEPT !.status = "available", !.size = expected,
                                       !.stored = stored, !.checksum = checksum]
      BY <1>2, <1>3
    <2>2. QED
      BY <1>2, <1>3, <2>1 DEF FileRecord
  <1>6. StatusRows(f, "available")
    BY <1>2, <1>3 DEF StatusRows, updateChunkStatuses, ChunkRecord
  <1>7. QED
    BY <1>1, <1>4, <1>5, <1>6 DEF OnlyRows, stored

\* FailUploadVerification fails the file and its chunks, and records where the
\* session is to start again.
LEMMA FailWrites ==
    ASSUME TypeOK, NEW f \in Files, NEW s \in Sessions, NEW allowed,
           NEW bad \in Chunks \cup {None}, NEW retry \in BOOLEAN, NEW actualReady \in BOOLEAN,
           FailUploadVerification(f, s, allowed, bad, retry, actualReady)
    PROVE  /\ OnlyRows(f, s)
           /\ session[s].file = f /\ session[s].status # "absent"
           /\ activeIndexAllows(f, s, session'[s].status)
           /\ session'[s].status \in {"retrying", "failed"} /\ session'[s].file = session[s].file
           /\ session'[s].confirmed = session[s].confirmed /\ session'[s].last = session[s].last
           /\ session'[s].failedOffset = IF bad = None THEN 0 ELSE Offset(chunk, bad)
           /\ file[f].status # "absent"
           /\ file'[f].status = "failed" /\ file'[f].stored = currentStoredSize(chunk, f)
           /\ file'[f].latest = file[f].latest
           /\ StatusRows(f, "failed")
           /\ ListChunksByFile(chunk, f) # {} \/ bad = None
  <1> DEFINE offset == IF bad = None THEN 0 ELSE Offset(chunk, bad)
             st == IF retry THEN "retrying" ELSE "failed"
             stored == currentStoredSize(chunk, f)
  <1>1. /\ session[s].file = f /\ session[s].status # "absent" /\ file[f].status # "absent"
        /\ activeIndexAllows(f, s, st) /\ st \in {"retrying", "failed"}
        /\ ListChunksByFile(chunk, f) # {} \/ bad = None
    BY DEF FailUploadVerification, Found, recordUploadFailure, ListChunksByFile
  <1>2. /\ session' = [session EXCEPT ![s] =
                          [session[s] EXCEPT !.status = st, !.failedOffset = offset]]
        /\ file' = [file EXCEPT ![f] =
                       [file[f] EXCEPT !.status = "failed", !.stored = stored, !.checksum = None]]
        /\ chunk' = failChunks(f, bad, actualReady)
    BY DEF FailUploadVerification, recordUploadFailure
  <1>3. file \in [Files -> FileRecord] /\ session \in [Sessions -> SessionRecord]
        /\ chunk \in [Chunks -> ChunkRecord]
    BY DEF TypeOK
  <1> HIDE DEF offset, st, stored
  <1>4. /\ session'[s].status = st /\ session'[s].file = session[s].file
        /\ session'[s].confirmed = session[s].confirmed /\ session'[s].last = session[s].last
        /\ session'[s].failedOffset = offset
        /\ \A o \in Sessions \ {s} : session'[o] = session[o]
    <2>1. session'[s] = [session[s] EXCEPT !.status = st, !.failedOffset = offset]
      BY <1>2, <1>3
    <2>2. session[s] \in SessionRecord
      BY <1>3
    <2>3. QED
      BY <1>2, <1>3, <2>1, <2>2 DEF SessionRecord
  <1>5. /\ file'[f].status = "failed" /\ file'[f].stored = stored
        /\ file'[f].latest = file[f].latest
        /\ \A g \in Files \ {f} : file'[g] = file[g]
    <2>1. file'[f] = [file[f] EXCEPT !.status = "failed", !.stored = stored, !.checksum = None]
      BY <1>2, <1>3
    <2>2. QED
      BY <1>2, <1>3, <2>1 DEF FileRecord
  <1>6. StatusRows(f, "failed")
    <2>1. ASSUME NEW c \in Chunks, chunk[c].file = f
          PROVE  /\ chunk'[c].status = "failed" /\ chunk'[c].file = f
                 /\ chunk'[c].index = chunk[c].index /\ chunk'[c].size = chunk[c].size
                 /\ chunk'[c].data = chunk[c].data /\ chunk'[c].replicas = chunk[c].replicas
      <3>1. PICK b : chunk'[c] = [chunk[c] EXCEPT !.status = "failed", !.sumReady = b]
        BY <1>2, <2>1, Zenon DEF failChunks
      <3>2. chunk[c] \in ChunkRecord
        BY <1>3
      <3>3. QED
        BY <2>1, <3>1, <3>2 DEF ChunkRecord
    <2>2. \A c \in Chunks : chunk[c].file # f => chunk'[c] = chunk[c]
      BY <1>2, Zenon DEF failChunks
    <2>3. QED
      BY <2>1, <2>2 DEF StatusRows
  <1>7. QED
    BY <1>1, <1>4, <1>5, <1>6 DEF OnlyRows, stored, offset

\* RetryUpload drops the chunks from the failed offset on, and confirms what is
\* before it.
LEMMA RetryWrites ==
    ASSUME TypeOK, NEW f \in Files, NEW s \in Sessions, NEW allowed, RetryUpload(f, s, allowed)
    PROVE  /\ OnlyRows(f, s)
           /\ session[s].file = f /\ session[s].status # "absent"
           /\ activeIndexAllows(f, s, "active")
           /\ session'[s].status = "active" /\ session'[s].file = session[s].file
           /\ session'[s].confirmed = session[s].failedOffset
           /\ session'[s].last \in keptChunks(f, session[s].failedOffset) \cup {None}
           /\ session'[s].failedOffset = session[s].failedOffset
           /\ file[f].status # "absent"
           /\ file'[f].status = "uploading" /\ file'[f].stored = currentStoredSize(chunk', f)
           /\ file'[f].latest = file[f].latest
           /\ \A c \in Chunks :
                 /\ chunk[c].file # f => chunk'[c] = chunk[c]
                 /\ chunk[c].file = f =>
                       \/ chunk'[c] = AbsentChunk
                       \/ chunk'[c] = [chunk[c] EXCEPT !.status = "persisted"]
  <1> DEFINE restart == session[s].failedOffset
             kept == keptChunks(f, restart)
             lastKept == IF kept = {} THEN None
                         ELSE CHOOSE c \in kept :
                                 \A d \in kept : chunk[d].index <= chunk[c].index
             stored == currentStoredSize(chunk', f)
  <1>1. /\ session[s].file = f /\ session[s].status # "absent" /\ file[f].status # "absent"
        /\ activeIndexAllows(f, s, "active")
    BY DEF RetryUpload, Found, updateUploadProgress, updateUploadProgressAllows
  <1>2. /\ session' = [session EXCEPT ![s] =
                          [session[s] EXCEPT !.status = "active", !.confirmed = restart,
                                !.next = restart, !.last = lastKept, !.verified = None]]
        /\ file' = [file EXCEPT ![f] =
                       [[file[f] EXCEPT !.status = "uploading", !.stored = stored]
                           EXCEPT !.checksum = None]]
        /\ chunk' = [c \in Chunks |->
                       IF chunk[c].file # f THEN chunk[c]
                       ELSE IF c \in kept
                            THEN [chunk[c] EXCEPT !.status = "persisted"]
                            ELSE AbsentChunk]
    BY DEF RetryUpload, updateUploadProgress, openFile
  <1>3. file \in [Files -> FileRecord] /\ session \in [Sessions -> SessionRecord]
        /\ chunk \in [Chunks -> ChunkRecord]
    BY DEF TypeOK
  <1>4. lastKept \in kept \cup {None}
    <2>1. kept \in SUBSET Chunks
      BY DEF keptChunks, ListChunksByFile
    <2> HIDE DEF kept
    <2>2. kept # {} => lastKept \in kept
      BY <1>3, <2>1, LastOfChunks
    <2>3. QED
      BY <2>2
  <1> HIDE DEF restart, kept, lastKept, stored
  <1>5. /\ session'[s].status = "active" /\ session'[s].file = session[s].file
        /\ session'[s].confirmed = restart /\ session'[s].last = lastKept
        /\ session'[s].failedOffset = session[s].failedOffset
        /\ \A o \in Sessions \ {s} : session'[o] = session[o]
    <2>1. session'[s] = [session[s] EXCEPT !.status = "active", !.confirmed = restart,
                                !.next = restart, !.last = lastKept, !.verified = None]
      BY <1>2, <1>3
    <2>2. session[s] \in SessionRecord
      BY <1>3
    <2>3. QED
      BY <1>2, <1>3, <2>1, <2>2 DEF SessionRecord
  <1>6. /\ file'[f].status = "uploading" /\ file'[f].stored = stored
        /\ file'[f].latest = file[f].latest
        /\ \A g \in Files \ {f} : file'[g] = file[g]
    <2>1. file'[f] = [[file[f] EXCEPT !.status = "uploading", !.stored = stored]
                           EXCEPT !.checksum = None]
      BY <1>2, <1>3
    <2>2. QED
      BY <1>2, <1>3, <2>1 DEF FileRecord
  <1>7. \A c \in Chunks :
           /\ chunk[c].file # f => chunk'[c] = chunk[c]
           /\ chunk[c].file = f =>
                 \/ chunk'[c] = AbsentChunk
                 \/ chunk'[c] = [chunk[c] EXCEPT !.status = "persisted"]
    BY <1>2
  <1>8. QED
    BY <1>1, <1>4, <1>5, <1>6, <1>7 DEF OnlyRows, stored, restart, kept

\* The rows that stand for a missing one.
LEMMA AbsentRows ==
    /\ AbsentFile.status = "absent" /\ AbsentFile.latest = None /\ AbsentFile.stored = 0
    /\ AbsentSession.status = "absent" /\ AbsentSession.file = None
    /\ AbsentSession.last = None /\ AbsentSession.failedOffset = 0
    /\ AbsentChunk.status = "absent" /\ AbsentChunk.file = None
    /\ \A n \in Nodes : AbsentChunk.replicas[n] = None
  BY DEF AbsentFile, AbsentSession, AbsentChunk

-----------------------------------------------------------------------------
(* The handlers by what they do to the three tables. *)

Created(f) ==
    /\ file[f].status = "absent"
    /\ \A g \in Files \ {f} : file'[g] = file[g]
    /\ file'[f].status = "pending" /\ file'[f].stored = 0 /\ file'[f].latest = None
    /\ UNCHANGED <<session, chunk>>

Deleted(f) ==
    /\ \A g \in Files \ {f} : file'[g] = file[g]
    /\ file'[f].status = "absent" /\ file'[f].stored = 0 /\ file'[f].latest = None
    /\ \A s \in Sessions : session'[s] = IF session[s].file = f THEN AbsentSession ELSE session[s]
    /\ \A c \in Chunks : chunk'[c] = IF chunk[c].file = f THEN AbsentChunk ELSE chunk[c]

Started(f, s) ==
    /\ OnlyRows(f, s)
    /\ session[s].status = "absent" /\ activeIndexAllows(f, s, "pending")
    /\ session'[s].status = "pending" /\ session'[s].file = f
    /\ session'[s].last = None /\ session'[s].failedOffset = 0
    /\ file'[f].status = "uploading" /\ file'[f].stored = file[f].stored /\ file'[f].latest = s
    /\ UNCHANGED chunk

\* A handler works on session s of file f.
Works(f, s) ==
    /\ OnlyRows(f, s)
    /\ session[s].file = f /\ session'[s].file = f
    /\ session'[s].status # "absent" /\ activeIndexAllows(f, s, session'[s].status)
    /\ file'[f].status \notin {"absent", "pending"} /\ file'[f].latest = file[f].latest
    /\ file'[f].stored = currentStoredSize(chunk', f)

\* The session writes chunk c.
Committed(f, s, c) ==
    /\ file[f].latest \in {None, s} /\ file'[f].status = "uploading"
    /\ session'[s].last = c /\ session'[s].confirmed = End(chunk', c) /\ End(chunk', c) \in Nat
    /\ session'[s].failedOffset = session[s].failedOffset
    /\ \A d \in Chunks \ {c} : chunk'[d] = chunk[d]
    /\ chunk'[c].file = f /\ chunk'[c].status # "absent"
    /\ Store = "memory" => \A n \in Nodes : chunk'[c].replicas[n] \in {None, chunk'[c].data}

\* The chunks of the file take its status: verifying, available or failed.
Judged(f, s) ==
    /\ file'[f].status \in {"verifying", "available", "failed"}
    /\ StatusRows(f, file'[f].status)
    /\ session'[s].last = session[s].last /\ session'[s].confirmed = session[s].confirmed
    /\ \/ session'[s].failedOffset = session[s].failedOffset
       \/ \E k \in Nat : session'[s].failedOffset = k * ChunkSize
    /\ file'[f].status = "available" =>
          /\ session'[s].status = "completed"
          /\ file'[f].size > 0 => session'[s].confirmed = file'[f].size

\* The session goes back to the offset where it failed.
Retried(f, s) ==
    /\ file'[f].status = "uploading"
    /\ session'[s].confirmed = session[s].failedOffset
    /\ session'[s].last \in keptChunks(f, session[s].failedOffset) \cup {None}
    /\ session'[s].failedOffset = session[s].failedOffset
    /\ \A c \in Chunks : chunk[c].file # f => chunk'[c] = chunk[c]
    /\ \A c \in Chunks : chunk[c].file = f =>
          \/ /\ chunk'[c].file = None /\ chunk'[c].status = "absent"
             /\ \A n \in Nodes : chunk'[c].replicas[n] = None
          \/ /\ chunk'[c].file = f /\ chunk'[c].status = "persisted"
             /\ End(chunk', c) = End(chunk, c)
             /\ chunk'[c].data = chunk[c].data /\ chunk'[c].replicas = chunk[c].replicas

Effect(f) ==
    \/ Created(f)
    \/ Deleted(f)
    \/ \E s \in Sessions :
          \/ Started(f, s)
          \/ Works(f, s) /\ \E c \in Chunks : Committed(f, s, c)
          \/ Works(f, s) /\ Judged(f, s)
          \/ Works(f, s) /\ Retried(f, s)

\* CommitChunk has the effect of a commit.
LEMMA CommitEffect ==
    ASSUME TypeOK, NEW f \in Files, NEW s \in Sessions, NEW c \in ChunkIDs[f],
           NEW req \in ChunkRequests, CommitChunk(f, s, c, req)
    PROVE  Works(f, s) /\ c \in Chunks /\ Committed(f, s, c)
  <1>1. req \in CommitChunkRequest
    BY ConstantsAssumption
  <1>2. \A n \in Nodes : req.replicas[n] \in {"none", "pending", "ready"}
    BY <1>1 DEF CommitChunkRequest
  <1>3. Store = "memory" =>
           \A n \in Nodes : upsertReplicas(chunk[c].replicas, req)[n] \in {None, req.data}
    BY <1>2 DEF upsertReplicas
  <1>4. /\ OnlyRows(f, s)
        /\ session[s].file = f /\ session[s].status # "absent"
        /\ activeIndexAllows(f, s, "active")
        /\ session'[s].status = "active" /\ session'[s].file = session[s].file
        /\ session'[s].confirmed = End(chunk', c) /\ session'[s].last = c
        /\ session'[s].failedOffset = session[s].failedOffset
        /\ file[f].status # "absent" /\ file[f].latest \in {None, s}
        /\ file'[f].status = "uploading" /\ file'[f].stored = currentStoredSize(chunk', f)
        /\ file'[f].latest = file[f].latest
        /\ c \in Chunks /\ \A d \in Chunks \ {c} : chunk'[d] = chunk[d]
        /\ chunk'[c].file = f /\ chunk'[c].status # "absent"
        /\ chunk'[c].data = req.data
        /\ chunk'[c].replicas = upsertReplicas(chunk[c].replicas, req)
    BY CommitWrites
  <1>5. End(chunk', c) \in Nat
    BY <1>4, CommitChunkType, EndBounds DEF TypeOK
  <1>6. Works(f, s)
    BY <1>4 DEF Works
  <1>7. Committed(f, s, c)
    BY <1>3, <1>4, <1>5 DEF Committed
  <1>8. QED
    BY <1>4, <1>6, <1>7

\* CompleteUpload has the effect of a judgement.
LEMMA CompleteEffect ==
    ASSUME TypeOK, NEW f \in Files, NEW s \in Sessions, NEW allowed, NEW sum \in BOOLEAN,
           CompleteUpload(f, s, allowed, sum)
    PROVE  Works(f, s) /\ Judged(f, s)
  <1>1. /\ OnlyRows(f, s)
        /\ session[s].file = f /\ activeIndexAllows(f, s, "verifying")
        /\ session'[s].status = "verifying" /\ session'[s].file = session[s].file
        /\ session'[s].confirmed = session[s].confirmed /\ session'[s].last = session[s].last
        /\ session'[s].failedOffset = session[s].failedOffset
        /\ file'[f].status = "verifying" /\ file'[f].stored = currentStoredSize(chunk, f)
        /\ file'[f].latest = file[f].latest
        /\ StatusRows(f, "verifying")
    BY CompleteWrites
  <1>2. currentStoredSize(chunk', f) = currentStoredSize(chunk, f)
    BY <1>1, StatusExtent
  <1>3. Works(f, s)
    BY <1>1, <1>2 DEF Works
  <1>4. Judged(f, s)
    BY <1>1 DEF Judged
  <1>5. QED
    BY <1>3, <1>4

\* So has VerifyUpload.
LEMMA VerifyEffect ==
    ASSUME TypeOK, NEW f \in Files, NEW s \in Sessions, NEW allowed, NEW sum \in BOOLEAN,
           VerifyUpload(f, s, allowed, sum)
    PROVE  Works(f, s) /\ Judged(f, s)
  <1>1. /\ OnlyRows(f, s)
        /\ session[s].file = f
        /\ file'[f].size > 0 => session[s].confirmed = file'[f].size
        /\ session'[s].status = "completed" /\ session'[s].file = session[s].file
        /\ session'[s].confirmed = session[s].confirmed /\ session'[s].last = session[s].last
        /\ session'[s].failedOffset = session[s].failedOffset
        /\ file'[f].status = "available" /\ file'[f].stored = currentStoredSize(chunk, f)
        /\ file'[f].latest = file[f].latest
        /\ StatusRows(f, "available")
    BY VerifyWrites
  <1>2. currentStoredSize(chunk', f) = currentStoredSize(chunk, f)
    BY <1>1, StatusExtent
  <1>3. activeIndexAllows(f, s, "completed")
    BY DEF activeIndexAllows, isTerminalUploadStatus
  <1>4. Works(f, s)
    BY <1>1, <1>2, <1>3 DEF Works
  <1>5. Judged(f, s)
    BY <1>1 DEF Judged
  <1>6. QED
    BY <1>4, <1>5

\* And FailUploadVerification.
LEMMA FailEffect ==
    ASSUME TypeOK, NEW f \in Files, NEW s \in Sessions, NEW allowed,
           NEW bad \in Chunks \cup {None}, NEW retry \in BOOLEAN, NEW actualReady \in BOOLEAN,
           FailUploadVerification(f, s, allowed, bad, retry, actualReady)
    PROVE  Works(f, s) /\ Judged(f, s)
  <1>1. /\ OnlyRows(f, s)
        /\ session[s].file = f
        /\ activeIndexAllows(f, s, session'[s].status)
        /\ session'[s].status \in {"retrying", "failed"} /\ session'[s].file = session[s].file
        /\ session'[s].confirmed = session[s].confirmed /\ session'[s].last = session[s].last
        /\ session'[s].failedOffset = IF bad = None THEN 0 ELSE Offset(chunk, bad)
        /\ file'[f].status = "failed" /\ file'[f].stored = currentStoredSize(chunk, f)
        /\ file'[f].latest = file[f].latest
        /\ StatusRows(f, "failed")
    BY FailWrites
  <1>2. currentStoredSize(chunk', f) = currentStoredSize(chunk, f)
    BY <1>1, StatusExtent
  <1>3. \E k \in Nat : session'[s].failedOffset = k * ChunkSize
    <2>1. CASE bad = None
      <3>1. session'[s].failedOffset = 0 * ChunkSize
        BY <1>1, <2>1, ConstantsAssumption
      <3>2. QED
        BY <3>1
    <2>2. CASE bad # None
      <3>1. chunk[bad].index \in Nat
        BY <2>2, ConstantsAssumption DEF TypeOK, ChunkRecord, Indices
      <3>2. session'[s].failedOffset = chunk[bad].index * ChunkSize
        BY <1>1, <2>2 DEF Offset
      <3>3. QED
        BY <3>1, <3>2
    <2>3. QED
      BY <2>1, <2>2
  <1>4. Works(f, s)
    BY <1>1, <1>2 DEF Works
  <1>5. Judged(f, s)
    BY <1>1, <1>3 DEF Judged
  <1>6. QED
    BY <1>4, <1>5

\* RetryUpload has the effect of a retry.
LEMMA RetryEffect ==
    ASSUME TypeOK, NEW f \in Files, NEW s \in Sessions, NEW allowed, RetryUpload(f, s, allowed)
    PROVE  Works(f, s) /\ Retried(f, s)
  <1>1. /\ OnlyRows(f, s)
        /\ session[s].file = f
        /\ activeIndexAllows(f, s, "active")
        /\ session'[s].status = "active" /\ session'[s].file = session[s].file
        /\ session'[s].confirmed = session[s].failedOffset
        /\ session'[s].last \in keptChunks(f, session[s].failedOffset) \cup {None}
        /\ session'[s].failedOffset = session[s].failedOffset
        /\ file'[f].status = "uploading" /\ file'[f].stored = currentStoredSize(chunk', f)
        /\ file'[f].latest = file[f].latest
    BY RetryWrites
  <1>2. \A c \in Chunks :
           /\ chunk[c].file # f => chunk'[c] = chunk[c]
           /\ chunk[c].file = f =>
                 \/ chunk'[c] = AbsentChunk
                 \/ chunk'[c] = [chunk[c] EXCEPT !.status = "persisted"]
    BY RetryWrites
  <1>3. ASSUME NEW c \in Chunks, chunk[c].file = f
        PROVE  \/ /\ chunk'[c].file = None /\ chunk'[c].status = "absent"
                  /\ \A n \in Nodes : chunk'[c].replicas[n] = None
               \/ /\ chunk'[c].file = f /\ chunk'[c].status = "persisted"
                  /\ End(chunk', c) = End(chunk, c)
                  /\ chunk'[c].data = chunk[c].data /\ chunk'[c].replicas = chunk[c].replicas
    <2>1. CASE chunk'[c] = AbsentChunk
      BY <2>1, AbsentRows
    <2>2. CASE chunk'[c] = [chunk[c] EXCEPT !.status = "persisted"]
      <3>1. chunk[c] \in ChunkRecord
        BY DEF TypeOK
      <3>2. /\ chunk'[c].file = f /\ chunk'[c].status = "persisted"
            /\ chunk'[c].index = chunk[c].index /\ chunk'[c].size = chunk[c].size
            /\ chunk'[c].data = chunk[c].data /\ chunk'[c].replicas = chunk[c].replicas
        BY <1>3, <2>2, <3>1 DEF ChunkRecord
      <3>3. QED
        BY <3>2 DEF End, Offset
    <2>3. QED
      BY <1>2, <1>3, <2>1, <2>2
  <1>4. Works(f, s)
    BY <1>1 DEF Works
  <1>5. Retried(f, s)
    BY <1>1, <1>2, <1>3, Zenon DEF Retried
  <1>6. QED
    BY <1>4, <1>5

\* Every handler has one of the effects.
LEMMA StepEffect ==
    ASSUME TypeOK, NEW f \in Files, FileStep(f)
    PROVE  Effect(f)
  <1>1. ASSUME NEW size, CreateFile(f, size) PROVE Created(f)
    BY <1>1, CreateWrites DEF Created
  <1>2. ASSUME DeleteFile(f) PROVE Deleted(f)
    BY <1>2, DeleteWrites DEF Deleted
  <1>3. ASSUME NEW s \in Sessions, NEW size, StartUpload(f, s, size) PROVE Started(f, s)
    BY <1>3, StartWrites DEF Started
  <1>4. ASSUME NEW s \in Sessions, UploadStep(f, s)
        PROVE  \/ Started(f, s)
               \/ Works(f, s) /\ \E c \in Chunks : Committed(f, s, c)
               \/ Works(f, s) /\ Judged(f, s)
               \/ Works(f, s) /\ Retried(f, s)
    BY <1>3, <1>4, CommitEffect, CompleteEffect, VerifyEffect, FailEffect, RetryEffect, ZenonT(60) DEF UploadStep
  <1>5. QED
    BY <1>1, <1>2, <1>4 DEF FileStep, Effect

\* A step has one of the effects or leaves the tables alone.
LEMMA NextEffect ==
    ASSUME TypeOK, [Next]_vars
    PROVE  UNCHANGED <<file, session, chunk>> \/ \E f \in Files : Effect(f)
  BY StepEffect DEF Next, vars

-----------------------------------------------------------------------------
(* Invariants of the tables that hold whatever chunk ids are used. *)

\* A row is there if and only if it names its file.
RowShape ==
    /\ \A c \in Chunks : chunk[c].status = "absent" <=> chunk[c].file = None
    /\ \A s \in Sessions : session[s].status = "absent" <=> session[s].file = None

\* LatestUploadSessionID names a session of the file.
LatestOwned ==
    \A f \in Files : file[f].latest # None => session[file[f].latest].file = f

SessionInv == TypeOK /\ RowShape /\ LatestOwned /\ AvailableWasCompleted

\* Every step keeps the rows with their files.
LEMMA StepRowShape ==
    ASSUME TypeOK, RowShape, [Next]_vars
    PROVE  RowShape'
  <1>1. CASE UNCHANGED <<file, session, chunk>>
    BY <1>1 DEF RowShape
  <1>2. None \notin Files
    BY ConstantsAssumption
  <1>3. ASSUME NEW f \in Files, NEW s \in Sessions, OnlyRows(f, s),
               session'[s].status # "absent" /\ session'[s].file = f
        PROVE  \A o \in Sessions : session'[o].status = "absent" <=> session'[o].file = None
    BY <1>2, <1>3 DEF OnlyRows, RowShape
  <1>4. ASSUME NEW f \in Files, Effect(f)
        PROVE  RowShape'
    <2>1. CASE Created(f)
      BY <2>1 DEF Created, RowShape
    <2>2. CASE Deleted(f)
      BY <2>2, AbsentRows DEF Deleted, RowShape
    <2>3. ASSUME NEW s \in Sessions, Started(f, s) PROVE RowShape'
      BY <1>3, <2>3 DEF Started, RowShape
    <2>4. ASSUME NEW s \in Sessions, Works(f, s),
                 \A c \in Chunks : chunk'[c].status = "absent" <=> chunk'[c].file = None
          PROVE  RowShape'
      BY <1>3, <2>4 DEF Works, RowShape
    <2>5. ASSUME NEW s \in Sessions, Works(f, s), NEW c \in Chunks, Committed(f, s, c) PROVE RowShape'
      <3>1. \A d \in Chunks : chunk'[d].status = "absent" <=> chunk'[d].file = None
        BY <1>2, <2>5 DEF Committed, RowShape
      <3>2. QED
        BY <2>4, <2>5, <3>1
    <2>6. ASSUME NEW s \in Sessions, Works(f, s), Judged(f, s) PROVE RowShape'
      <3>1. \A d \in Chunks : chunk'[d].status = "absent" <=> chunk'[d].file = None
        BY <1>2, <2>6 DEF Judged, StatusRows, RowShape
      <3>2. QED
        BY <2>4, <2>6, <3>1
    <2>7. ASSUME NEW s \in Sessions, Works(f, s), Retried(f, s) PROVE RowShape'
      <3>1. \A d \in Chunks : chunk'[d].status = "absent" <=> chunk'[d].file = None
        BY <1>2, <2>7 DEF Retried, RowShape
      <3>2. QED
        BY <2>4, <2>7, <3>1
    <2>8. QED
      BY <1>4, <2>1, <2>2, <2>3, <2>5, <2>6, <2>7 DEF Effect
  <1>5. QED
    BY <1>1, <1>4, NextEffect

\* Every step keeps the latest session of a file with the file.
LEMMA StepLatestOwned ==
    ASSUME TypeOK, RowShape, LatestOwned, [Next]_vars
    PROVE  LatestOwned'
  <1>1. CASE UNCHANGED <<file, session, chunk>>
    BY <1>1 DEF LatestOwned
  <1>2. None \notin Files /\ \A g \in Files : file[g].latest \in Sessions \cup {None}
    BY ConstantsAssumption DEF TypeOK, FileRecord
  <1>3. ASSUME NEW f \in Files, Effect(f)
        PROVE  LatestOwned'
    <2>1. CASE Created(f)
      BY <2>1 DEF Created, LatestOwned
    <2>2. CASE Deleted(f)
      BY <1>2, <2>2 DEF Deleted, LatestOwned
    <2>3. ASSUME NEW s \in Sessions, Started(f, s) PROVE LatestOwned'
      <3>1. session[s].file = None
        BY <2>3 DEF Started, RowShape
      <3>2. ASSUME NEW g \in Files, file'[g].latest # None
            PROVE  session'[file'[g].latest].file = g
        BY <1>2, <2>3, <3>1, <3>2 DEF Started, OnlyRows, LatestOwned
      <3>3. QED
        BY <3>2 DEF LatestOwned
    <2>4. ASSUME NEW s \in Sessions, Works(f, s) PROVE LatestOwned'
      BY <1>2, <2>4 DEF Works, OnlyRows, LatestOwned
    <2>5. QED
      BY <1>3, <2>1, <2>2, <2>3, <2>4 DEF Effect
  <1>4. QED
    BY <1>1, <1>3, NextEffect

\* Every step keeps an available file with a session that completed it.
LEMMA StepCompleted ==
    ASSUME TypeOK, RowShape, AvailableWasCompleted, [Next]_vars
    PROVE  AvailableWasCompleted'
  <1> DEFINE Done(fr, se, g, s) == /\ se[s].file = g
                                   /\ se[s].status = "completed"
                                   /\ fr.size > 0 => se[s].confirmed = fr.size
  <1>1. CASE UNCHANGED <<file, session, chunk>>
    BY <1>1 DEF AvailableWasCompleted
  <1>2. ASSUME NEW f \in Files, \A g \in Files \ {f} : file'[g] = file[g],
               \A s \in Sessions : session[s].file \in {f, None} \/ session'[s] = session[s],
               file'[f].status = "available" => \E s \in Sessions : Done(file'[f], session', f, s)
        PROVE  AvailableWasCompleted'
    <2>1. ASSUME NEW g \in Files, file'[g].status = "available"
          PROVE  \E s \in Sessions : Done(file'[g], session', g, s)
      <3>1. CASE g = f
        BY <1>2, <2>1, <3>1
      <3>2. CASE g # f
        <4>1. PICK s \in Sessions : Done(file[g], session, g, s)
          BY <1>2, <2>1, <3>2 DEF AvailableWasCompleted
        <4>2. None \notin Files
          BY ConstantsAssumption
        <4>3. session'[s] = session[s] /\ file'[g] = file[g]
          BY <1>2, <3>2, <4>1, <4>2
        <4>4. QED
          BY <4>1, <4>3
      <3>3. QED
        BY <3>1, <3>2
    <2>2. QED
      BY <2>1 DEF AvailableWasCompleted
  <1>3. ASSUME NEW f \in Files, NEW s \in Sessions, OnlyRows(f, s), session[s].file \in {f, None},
               file'[f].status = "available" => Done(file'[f], session', f, s)
        PROVE  AvailableWasCompleted'
    <2>1. \A o \in Sessions : session[o].file \in {f, None} \/ session'[o] = session[o]
      BY <1>3 DEF OnlyRows
    <2>2. \A g \in Files \ {f} : file'[g] = file[g]
      BY <1>3 DEF OnlyRows
    <2>3. QED
      BY <1>2, <1>3, <2>1, <2>2
  <1> HIDE DEF Done
  <1>4. ASSUME NEW f \in Files, Effect(f)
        PROVE  AvailableWasCompleted'
    <2>1. CASE Created(f)
      BY <1>2, <2>1 DEF Created
    <2>2. CASE Deleted(f)
      <3>1. \A s \in Sessions : session[s].file \in {f, None} \/ session'[s] = session[s]
        BY <2>2 DEF Deleted
      <3>2. QED
        BY <1>2, <2>2, <3>1 DEF Deleted
    <2>3. ASSUME NEW s \in Sessions, Started(f, s) PROVE AvailableWasCompleted'
      BY <1>3, <2>3, Zenon DEF Started, RowShape
    <2>4. ASSUME NEW s \in Sessions, Works(f, s), NEW c \in Chunks, Committed(f, s, c)
          PROVE  AvailableWasCompleted'
      BY <1>3, <2>4, Zenon DEF Works, Committed
    <2>5. ASSUME NEW s \in Sessions, Works(f, s), Judged(f, s) PROVE AvailableWasCompleted'
      <3>1. file'[f].status = "available" => Done(file'[f], session', f, s)
        BY <2>5, Zenon DEF Works, Judged, Done
      <3>2. QED
        BY <1>3, <2>5, <3>1, Zenon DEF Works
    <2>6. ASSUME NEW s \in Sessions, Works(f, s), Retried(f, s) PROVE AvailableWasCompleted'
      BY <1>3, <2>6, Zenon DEF Works, Retried
    <2>7. QED
      BY <1>4, <2>1, <2>2, <2>3, <2>4, <2>5, <2>6, SMTT(30) DEF Effect
  <1>5. QED
    BY <1>1, <1>4, NextEffect

\* The empty tables satisfy the invariants.
LEMMA InitRows ==
    ASSUME Init
    PROVE  RowShape /\ LatestOwned /\ AvailableWasCompleted /\ OneActiveSession
  BY AbsentRows, Zenon DEF Init, RowShape, LatestOwned, AvailableWasCompleted, OneActiveSession

\* The tables keep their rows together on either store and whatever chunk ids
\* clients choose.
THEOREM SessionsInvariant == Spec => []SessionInv
  <1>1. SessionInv /\ TypeOK' /\ [Next]_vars => SessionInv'
    BY StepRowShape, StepLatestOwned, StepCompleted DEF SessionInv
  <1>2. Init /\ TypeOK => SessionInv
    BY InitRows DEF SessionInv
  <1>3. QED
    BY <1>1, <1>2, TypeCorrect, PTL DEF Spec

\* An available file has a session of its own that completed it with the file's
\* size confirmed, when no two handlers overlap: no later handler takes the
\* completed session away and leaves the file available.
THEOREM AvailableCompleted == Spec => []AvailableWasCompleted
  BY SessionsInvariant, PTL DEF SessionInv

-----------------------------------------------------------------------------
(* The three tables together. *)

\* A file without chunks has no extent.
LEMMA NoExtent ==
    ASSUME NEW ck, NEW f, ListChunksByFile(ck, f) = {}
    PROVE  currentStoredSize(ck, f) = 0
  <1>1. {0} \cup {End(ck, c) : c \in ListChunksByFile(ck, f)} = {0}
    OBVIOUS
  <1>2. currentStoredSize(ck, f) = CHOOSE n \in {0} : \A m \in {0} : m <= n
    BY <1>1, SMTT(30) DEF currentStoredSize
  <1>3. QED
    BY <1>2

\* It is enough to look at the rows of the file a handler is called for.
LEMMA RowsOfOneFile ==
    ASSUME TypeOK, RowsAgree, TypeOK', RowShape', LatestOwned', NEW f \in Files,
           \A g \in Files \ {f} : file'[g] = file[g] /\ SameChunks(chunk, chunk', g),
           \A s \in Sessions : session'[s].file \in {f, None} \/ session'[s] = session[s],
           \A c \in Chunks : chunk'[c].file = f =>
              /\ file'[f].status \notin {"absent", "pending"}
              /\ file'[f].status \in {"verifying", "failed"} => chunk'[c].status = file'[f].status,
           \A s \in Sessions : session'[s].file = f => file'[f].status # "absent",
           file'[f].stored = currentStoredSize(chunk', f)
    PROVE  RowsAgree'
  <1>1. /\ None \notin Files
        /\ \A c \in Chunks : chunk'[c].file \in Files \cup {None}
        /\ \A s \in Sessions : session'[s].file \in Files \cup {None}
    BY ConstantsAssumption, SMTT(30) DEF TypeOK, ChunkRecord, SessionRecord
  <1>2. ASSUME NEW c \in Chunks, chunk'[c].status # "absent"
        PROVE  /\ file'[chunk'[c].file].status \notin {"absent", "pending"}
               /\ file'[chunk'[c].file].status \in {"verifying", "failed"} =>
                     chunk'[c].status = file'[chunk'[c].file].status
    <2>1. chunk'[c].file \in Files
      BY <1>1, <1>2 DEF RowShape
    <2>2. CASE chunk'[c].file = f
      BY <2>2, SMTT(30)
    <2>3. CASE chunk'[c].file # f
      <3>1. chunk'[c] = chunk[c] /\ file'[chunk'[c].file] = file[chunk'[c].file]
        BY <2>1, <2>3 DEF SameChunks
      <3>2. QED
        BY <1>2, <3>1, SMTT(30) DEF RowsAgree
    <2>4. QED
      BY <2>2, <2>3
  <1>3. ASSUME NEW s \in Sessions, session'[s].status # "absent"
        PROVE  session'[s].file \in Files /\ file'[session'[s].file].status # "absent"
    <2>1. session'[s].file \in Files
      BY <1>1, <1>3 DEF RowShape
    <2>2. CASE session'[s].file = f
      BY <2>1, <2>2, SMTT(30)
    <2>3. CASE session'[s].file # f
      <3>1. session'[s] = session[s] /\ file'[session'[s].file] = file[session'[s].file]
        BY <1>1, <2>1, <2>3, SMTT(30)
      <3>2. QED
        BY <1>3, <2>1, <3>1, SMTT(30) DEF RowsAgree
    <2>4. QED
      BY <2>2, <2>3
  <1>4. ASSUME NEW g \in Files
        PROVE  /\ file'[g].stored = currentStoredSize(chunk', g)
               /\ file'[g].latest # None => session'[file'[g].latest].file = g
    <2>1. CASE g = f
      BY <2>1, SMTT(30) DEF LatestOwned
    <2>2. CASE g # f
      <3>1. file'[g] = file[g] /\ currentStoredSize(chunk', g) = currentStoredSize(chunk, g)
        BY <2>2, Frame
      <3>2. QED
        BY <3>1, SMTT(30) DEF RowsAgree, LatestOwned
    <2>3. QED
      BY <2>1, <2>2
  <1>5. QED
    BY <1>2, <1>3, <1>4, SMTT(30) DEF RowsAgree

\* Every handler keeps the three tables together.
LEMMA StepRows ==
    ASSUME DisjointChunkIDs, InductiveInvariant, SessionInv, TypeOK', SessionInv', RowsAgree,
           [Next]_vars
    PROVE  RowsAgree'
  <1>1. CASE UNCHANGED vars
    <2>1. \A f \in Files : SameChunks(chunk, chunk', f)
      BY <1>1 DEF vars, SameChunks
    <2>2. \A f \in Files : currentStoredSize(chunk', f) = currentStoredSize(chunk, f)
      BY <2>1, Frame
    <2>3. QED
      BY <1>1, <2>2 DEF vars, RowsAgree
  <1>2. /\ TypeOK /\ RowShape /\ RowShape' /\ LatestOwned' /\ ChunkOwners /\ UniqueIndices
        /\ None \notin Files
    BY ConstantsAssumption, SMTT(30) DEF InductiveInvariant, SessionInv
  <1>3. ASSUME NEW f \in Files, FileStep(f)
        PROVE  RowsAgree'
    <2>1. \A g \in Files \ {f} : file'[g] = file[g] /\ SameChunks(chunk, chunk', g)
      BY <1>2, <1>3, OneFileStep
    <2>2. Effect(f)
      BY <1>2, <1>3, StepEffect
    <2>3. CASE Created(f)
      <3>1. /\ file[f].status = "absent" /\ file'[f].status = "pending" /\ file'[f].stored = 0
            /\ session' = session /\ chunk' = chunk
        BY <2>3 DEF Created
      <3>2. \A c \in Chunks : chunk[c].file # f
        BY <1>2, <3>1 DEF RowsAgree, RowShape
      <3>3. currentStoredSize(chunk', f) = 0
        BY <3>1, <3>2, NoExtent, SMTT(30) DEF ListChunksByFile
      <3>4. QED
        BY <1>2, <2>1, <3>1, <3>2, <3>3, RowsOfOneFile
    <2>4. CASE Deleted(f)
      <3>1. \A c \in Chunks : chunk'[c].file # f
        BY <1>2, <2>4, AbsentRows DEF Deleted
      <3>2. \A s \in Sessions : /\ session'[s].file # f
                                /\ session'[s].file \in {f, None} \/ session'[s] = session[s]
        BY <1>2, <2>4, AbsentRows DEF Deleted
      <3>3. file'[f].stored = 0
        BY <2>4 DEF Deleted
      <3>4. currentStoredSize(chunk', f) = 0
        BY <3>1, NoExtent, SMTT(30) DEF ListChunksByFile
      <3>5. QED
        BY <1>2, <2>1, <3>1, <3>2, <3>3, <3>4, RowsOfOneFile, SMTT(30)
    \* The other handlers work on one session and leave a file that is there.
    <2>5. ASSUME NEW s \in Sessions, OnlyRows(f, s), session'[s].file = f,
                 file'[f].status \notin {"absent", "pending"},
                 file'[f].stored = currentStoredSize(chunk', f),
                 \A c \in Chunks :
                    chunk'[c].file = f /\ file'[f].status \in {"verifying", "failed"}
                       => chunk'[c].status = file'[f].status
          PROVE  RowsAgree'
      <3>1. \A o \in Sessions : session'[o].file \in {f, None} \/ session'[o] = session[o]
        BY <2>5, SMTT(30) DEF OnlyRows
      <3>2. QED
        BY <1>2, <2>1, <2>5, <3>1, RowsOfOneFile, SMTT(30)
    <2>6. ASSUME NEW s \in Sessions, Started(f, s) PROVE RowsAgree'
      <3>1. file'[f].stored = currentStoredSize(chunk', f)
        BY <2>6, SMTT(30) DEF Started, RowsAgree
      <3>2. QED
        BY <2>5, <2>6, <3>1, SMTT(30) DEF Started
    <2>7. ASSUME NEW s \in Sessions, Works(f, s), file'[f].status = "uploading" PROVE RowsAgree'
      BY <2>5, <2>7, SMTT(30) DEF Works
    <2>8. ASSUME NEW s \in Sessions, Works(f, s), Judged(f, s) PROVE RowsAgree'
      <3>1. \A c \in Chunks : chunk'[c].file = f => chunk'[c].status = file'[f].status
        BY <2>8 DEF Judged, StatusRows
      <3>2. QED
        BY <2>5, <2>8, <3>1, SMTT(30) DEF Works
    <2>9. QED
      BY <2>2, <2>3, <2>4, <2>6, <2>7, <2>8, SMTT(30) DEF Effect, Committed, Retried
  <1>4. QED
    BY <1>1, <1>3, SMTT(30) DEF Next

\* The three tables agree after every handler, on either store, as long as files
\* do not share chunk ids: the states of a file and of its chunks, StoredSize and
\* the extent of the chunks, sessions and chunks and the file they are of.
THEOREM TablesAgree ==
    ASSUME DisjointChunkIDs PROVE Spec => []RowsAgree
  <1>1. InductiveInvariant /\ SessionInv /\ TypeOK' /\ SessionInv' /\ RowsAgree /\ [Next]_vars
           => RowsAgree'
    BY StepRows, SMTT(30)
  <1>2. Init => RowsAgree
    <2>1. ASSUME Init, NEW f \in Files
          PROVE  currentStoredSize(chunk, f) = 0
      <3>1. \A c \in Chunks : chunk[c].file = None
        BY <2>1, AbsentRows DEF Init
      <3>2. ListChunksByFile(chunk, f) = {}
        BY <3>1, ConstantsAssumption DEF ListChunksByFile
      <3>3. QED
        BY <3>2, NoExtent
    <2>2. QED
      BY <2>1, AbsentRows DEF Init, RowsAgree
  <1>3. QED
    BY <1>1, <1>2, TypeCorrect, Invariant, SessionsInvariant, PTL DEF Spec


-----------------------------------------------------------------------------
(* One session in progress, on PostgreSQL, when transactions overlap. *)

SessionColumns == DOMAIN AbsentSession

\* The session table and the rows that are about to be inserted have all columns.
\* Nothing else is needed of what the transactions have read.
SessionShape ==
    /\ DOMAIN session = Sessions
    /\ \A s \in Sessions : DOMAIN session[s] = SessionColumns
    /\ DOMAIN tx = Txs
    /\ \A t \in Txs : Open(t) => tx[t].s \in Sessions
    /\ \A t \in Txs : tx[t].pc = "write" /\ tx[t].writes.insert =>
          DOMAIN tx[t].writes.session = SessionColumns

\* A row is written that the index allows.
RowWritten(s, row) ==
    /\ session' = [session EXCEPT ![s] = row]
    /\ DOMAIN row = SessionColumns
    /\ activeIndexAllows(row.file, s, row.status)

SessionsWritten ==
    \/ UNCHANGED session
    \/ \E f \in Files : session' = deleteUploadSessions(f)
    \/ \E s \in Sessions : \E row : RowWritten(s, row)

\* An update of a session row that keeps its file.
LEMMA RowUpdated ==
    ASSUME SessionShape, NEW s \in Sessions, NEW row, DOMAIN row = DOMAIN session[s],
           session' = [session EXCEPT ![s] = row], row.file = session[s].file,
           activeIndexAllows(session[s].file, s, row.status)
    PROVE  SessionsWritten
  BY Zenon DEF SessionsWritten, RowWritten, SessionShape

\* The handlers that nothing overlaps write the sessions so.
LEMMA AloneWrites ==
    ASSUME SessionShape, NEW f \in Files, FileStep(f)
    PROVE  SessionsWritten
  <1>0. {"status", "file", "confirmed", "next", "last", "verified", "failedOffset"}
            \subseteq SessionColumns
    BY DEF SessionColumns, AbsentSession
  <1>1. ASSUME NEW size, CreateFile(f, size) PROVE SessionsWritten
    BY <1>1, Zenon DEF CreateFile, SessionsWritten
  <1>2. CASE DeleteFile(f)
    BY <1>2, Zenon DEF DeleteFile, SessionsWritten
  <1>3. ASSUME NEW s \in Sessions, NEW size, StartUpload(f, s, size)
        PROVE  SessionsWritten
    <2> DEFINE row == [AbsentSession EXCEPT !.status = "pending", !.file = f, !.expected = size]
    <2>1. session' = [session EXCEPT ![s] = row] /\ activeIndexAllows(f, s, "pending")
      BY <1>3, Zenon DEF StartUpload, createUploadSession
    <2>2. row.file = f /\ row.status = "pending" /\ DOMAIN row = SessionColumns
      BY DEF SessionColumns, AbsentSession
    <2>3. QED
      BY <2>1, <2>2, Zenon DEF SessionsWritten, RowWritten
  <1>4. ASSUME NEW s \in Sessions, NEW row, DOMAIN row = DOMAIN session[s],
               session[s].file = f, session' = [session EXCEPT ![s] = row], row.file = session[s].file,
               activeIndexAllows(f, s, row.status)
        PROVE  SessionsWritten
    BY <1>4, RowUpdated, Zenon
  <1>5. ASSUME NEW s \in Sessions, session[s].file = f, NEW st, NEW confirmed, NEW next,
               NEW last, NEW verified, updateUploadProgress(f, s, st, confirmed, next, last, verified)
        PROVE  SessionsWritten
    <2> DEFINE row == [session[s] EXCEPT !.status = st, !.confirmed = confirmed, !.next = next,
                                         !.last = last, !.verified = verified]
    <2>1. session' = [session EXCEPT ![s] = row] /\ activeIndexAllows(f, s, st)
      BY <1>5, Zenon DEF updateUploadProgress, updateUploadProgressAllows
    <2>2. DOMAIN session[s] = SessionColumns
      BY DEF SessionShape
    <2>3. row.file = session[s].file /\ row.status = st /\ DOMAIN row = DOMAIN session[s]
      BY <1>0, <2>2
    <2>4. QED
      BY <1>4, <1>5, <2>1, <2>3, Zenon
  <1>6. ASSUME NEW s \in Sessions, NEW c, NEW req, CommitChunk(f, s, c, req)
        PROVE  SessionsWritten
    BY <1>5, <1>6, Zenon DEF CommitChunk, Found
  <1>7. ASSUME NEW s \in Sessions, NEW allowed, NEW sum, CompleteUpload(f, s, allowed, sum)
        PROVE  SessionsWritten
    BY <1>5, <1>7, Zenon DEF CompleteUpload, Found
  <1>8. ASSUME NEW s \in Sessions, NEW allowed, NEW sum, VerifyUpload(f, s, allowed, sum)
        PROVE  SessionsWritten
    <2> DEFINE checksum == IF sum THEN Content(chunk, f) ELSE session[s].verified
               row == [session[s] EXCEPT !.status = "completed", !.verified = checksum]
    <2>1. session' = [session EXCEPT ![s] = row] /\ session[s].file = f
      BY <1>8, Zenon DEF VerifyUpload, Found
    <2> HIDE DEF checksum
    <2>2. DOMAIN session[s] = SessionColumns
      BY DEF SessionShape
    <2>3. row.file = session[s].file /\ row.status = "completed" /\ DOMAIN row = DOMAIN session[s]
      BY <1>0, <2>2
    <2>4. activeIndexAllows(f, s, "completed")
      BY DEF activeIndexAllows, isTerminalUploadStatus
    <2>5. QED
      BY <1>4, <2>1, <2>3, <2>4, Zenon
  <1>9. ASSUME NEW s \in Sessions, NEW allowed, NEW bad, NEW retry, NEW actualReady,
               FailUploadVerification(f, s, allowed, bad, retry, actualReady)
        PROVE  SessionsWritten
    <2> DEFINE st == IF retry THEN "retrying" ELSE "failed"
               offset == IF bad = None THEN 0 ELSE Offset(chunk, bad)
               row == [session[s] EXCEPT !.status = st, !.failedOffset = offset]
    <2>1. /\ session' = [session EXCEPT ![s] = row] /\ activeIndexAllows(f, s, st)
          /\ session[s].file = f
      BY <1>9, Zenon DEF FailUploadVerification, recordUploadFailure, Found
    <2> HIDE DEF st, offset
    <2>2. DOMAIN session[s] = SessionColumns
      BY DEF SessionShape
    <2>3. row.file = session[s].file /\ row.status = st /\ DOMAIN row = DOMAIN session[s]
      BY <1>0, <2>2
    <2>4. QED
      BY <1>4, <2>1, <2>3, Zenon
  <1>10. ASSUME NEW s \in Sessions, NEW allowed, RetryUpload(f, s, allowed)
         PROVE  SessionsWritten
    BY <1>5, <1>10, Zenon DEF RetryUpload, Found
  <1>11. QED
    BY <1>1, <1>2, <1>3, <1>6, <1>7, <1>8, <1>9, <1>10, Zenon DEF FileStep, UploadStep

\* The transactions that others overlap do too: the columns are set on the row as
\* it is by then, and the index is consulted then.
LEMMA WriteWrites ==
    ASSUME SessionShape, NEW t \in Txs, Write(t)
    PROVE  SessionsWritten
  <1> DEFINE w == tx[t].writes
             s == tx[t].s
             row == IF w.insert THEN w.session ELSE Set(session[s], w.session)
  <1>1. CASE UNCHANGED session
    BY <1>1, Zenon DEF SessionsWritten
  <1>2. CASE ~ UNCHANGED session
    <2>1. session' = [session EXCEPT ![s] = row] /\ activeIndexAllows(row.file, s, row.status)
      BY <1>2, Zenon DEF Write
    <2>2. tx[t].pc = "write" /\ s \in Sessions
      <3>1. tx[t].pc = "write"
        BY Zenon DEF Write
      <3>2. Open(t)
        BY <3>1 DEF Open
      <3>3. QED
        BY <3>1, <3>2, Zenon DEF SessionShape
    <2>3. DOMAIN row = SessionColumns
      <3>1. CASE w.insert
        BY <2>2, <3>1, Zenon DEF SessionShape
      <3>2. CASE ~ w.insert
        <4>1. row = Set(session[s], w.session)
          BY <3>2, Zenon
        <4>2. DOMAIN Set(session[s], w.session) = DOMAIN session[s]
          BY Zenon DEF Set
        <4>3. QED
          BY <2>2, <4>1, <4>2, Zenon DEF SessionShape
      <3>3. QED
        BY <3>1, <3>2, Zenon
    <2>4. QED
      BY <2>1, <2>2, <2>3, Zenon DEF SessionsWritten, RowWritten
  <1>3. QED
    BY <1>1, <1>2, Zenon

\* Sessions written so keep their columns, and one in progress at most.
LEMMA WrittenKeeps ==
    ASSUME Store = "postgres", SessionShape, OneActiveSession, SessionsWritten
    PROVE  /\ DOMAIN session' = Sessions
           /\ \A s \in Sessions : DOMAIN session'[s] = SessionColumns
           /\ OneActiveSession'
  <1>1. CASE UNCHANGED session
    BY <1>1, Zenon DEF SessionShape, OneActiveSession
  <1>2. ASSUME NEW f \in Files, session' = deleteUploadSessions(f)
        PROVE  /\ DOMAIN session' = Sessions
               /\ \A s \in Sessions : DOMAIN session'[s] = SessionColumns
               /\ OneActiveSession'
    <2>1. \A s \in Sessions : session'[s] \in {AbsentSession, session[s]}
      BY <1>2, Zenon DEF deleteUploadSessions
    <2>2. DOMAIN session' = Sessions
      BY <1>2, Zenon DEF deleteUploadSessions
    <2>3. AbsentSession.status = "absent"
      BY DEF AbsentSession
    <2>4. \A s \in Sessions : DOMAIN session'[s] = SessionColumns
      BY <2>1, Zenon DEF SessionShape, SessionColumns
    <2>5. \A s \in Sessions : session'[s].status # "absent" => session'[s] = session[s]
      BY <2>1, <2>3, Zenon
    <2>6. OneActiveSession'
      BY <2>5, Zenon DEF OneActiveSession
    <2>7. QED
      BY <2>2, <2>4, <2>6, Zenon
  <1>3. ASSUME NEW s \in Sessions, NEW row, RowWritten(s, row)
        PROVE  /\ DOMAIN session' = Sessions
               /\ \A o \in Sessions : DOMAIN session'[o] = SessionColumns
               /\ OneActiveSession'
    <2>1. session' = [session EXCEPT ![s] = row] /\ DOMAIN session = Sessions
      BY <1>3, Zenon DEF RowWritten, SessionShape
    <2>2. session'[s] = row /\ \A o \in Sessions \ {s} : session'[o] = session[o]
      BY <2>1, Zenon
    <2>3. DOMAIN session' = Sessions /\ \A o \in Sessions : DOMAIN session'[o] = SessionColumns
      BY <1>3, <2>1, <2>2, Zenon DEF RowWritten, SessionShape
    <2>4. ~ isTerminalUploadStatus(row.status) => \A o \in Sessions \ {s} :
             session[o].file = row.file => isTerminalUploadStatus(session[o].status)
      BY <1>3, Zenon DEF RowWritten, activeIndexAllows
    <2>5. OneActiveSession'
      BY <2>2, <2>4, Zenon DEF OneActiveSession
    <2>6. QED
      BY <2>3, <2>5, Zenon
  <1>4. QED
    BY <1>1, <1>2, <1>3, Zenon DEF SessionsWritten

\* What the transactions are about to insert has all columns.
LEMMA TxShape ==
    ASSUME SessionShape, TxNext
    PROVE  /\ DOMAIN tx' = Txs
           /\ \A t \in Txs : tx'[t].pc # "idle" => tx'[t].s \in Sessions
           /\ \A t \in Txs : tx'[t].pc = "write" /\ tx'[t].writes.insert =>
                 DOMAIN tx'[t].writes.session = SessionColumns
  <1> DEFINE Shaped(u, r) == /\ r.pc # "idle" => r.s \in Sessions
                             /\ r.pc = "write" /\ r.writes.insert =>
                                   DOMAIN r.writes.session = SessionColumns
  <1>1. DOMAIN tx = Txs /\ \A t \in Txs : Shaped(t, tx[t])
    BY Zenon DEF SessionShape, Open
  <1>2. Idle.pc = "idle"
    BY DEF Idle
  <1>3. SUFFICES DOMAIN tx' = Txs /\ \A t \in Txs : Shaped(t, tx'[t])
    BY Zenon
  <1>4. ASSUME NEW t \in Txs, NEW r, Shaped(t, r), tx' = [tx EXCEPT ![t] = r]
        PROVE  DOMAIN tx' = Txs /\ \A u \in Txs : Shaped(u, tx'[u])
    <2> HIDE DEF Shaped
    <2>1. QED
      BY <1>1, <1>4, Zenon
  <1>5. ASSUME NEW f, NEW t, Overtakes(f, t)
        PROVE  DOMAIN tx' = Txs /\ \A u \in Txs : Shaped(u, tx'[u])
    <2>1. DOMAIN tx' = Txs
      BY <1>5, Zenon DEF Overtakes
    <2>2. ASSUME NEW u \in Txs PROVE Shaped(u, tx'[u])
      <3>1. CASE u = t
        BY <1>2, <1>5, <3>1 DEF Overtakes
      <3>2. CASE u # t /\ Open(u) /\ tx[u].f = f
        <4>1. tx'[u] = [tx[u] EXCEPT !.stale = TRUE]
          BY <1>5, <3>2 DEF Overtakes
        <4>2. tx'[u].pc = tx[u].pc /\ tx'[u].s = tx[u].s /\ tx'[u].writes = tx[u].writes
          BY <4>1
        <4>3. QED
          BY <1>1, <4>2, Zenon
      <3>3. CASE u # t /\ ~ (Open(u) /\ tx[u].f = f)
        <4>1. tx'[u] = tx[u]
          BY <1>5, <3>3 DEF Overtakes
        <4>2. QED
          BY <1>1, <4>1, Zenon
      <3>4. QED
        BY <3>1, <3>2, <3>3, Zenon
    <2>3. QED
      BY <2>1, <2>2, Zenon
  <1>6. ASSUME NEW t \in Txs, NEW call, call.s \in Sessions, Reads(t, call)
        PROVE  DOMAIN tx' = Txs /\ \A u \in Txs : Shaped(u, tx'[u])
    <2> DEFINE r == [pc |-> "read", stale |-> FALSE, call |-> call, f |-> call.f, s |-> call.s]
    <2>1. tx' = [tx EXCEPT ![t] = r]
      BY <1>6, Zenon DEF Reads
    <2>2. r.pc = "read" /\ r.s = call.s
      OBVIOUS
    <2>3. Shaped(t, r)
      BY <1>6, <2>2
    <2> HIDE DEF r, Shaped
    <2>4. QED
      BY <1>4, <2>1, <2>3, Zenon
  <1>7. ASSUME NEW t \in Txs, NEW op, NEW writes, Rereads(t, op, writes),
               writes.insert => DOMAIN writes.session = SessionColumns
        PROVE  DOMAIN tx' = Txs /\ \A u \in Txs : Shaped(u, tx'[u])
    <2> DEFINE r == [pc |-> "write", stale |-> tx[t].stale, writes |-> writes,
                     f |-> tx[t].f, s |-> tx[t].s]
    <2>1. tx' = [tx EXCEPT ![t] = r] /\ tx[t].pc = "read"
      BY <1>7, Zenon DEF Rereads
    <2>2. tx[t].s \in Sessions
      BY <1>1, <2>1
    <2>3. r.pc = "write" /\ r.s = tx[t].s /\ r.writes = writes
      OBVIOUS
    <2>4. Shaped(t, r)
      BY <1>7, <2>2, <2>3, Zenon
    <2> HIDE DEF r, Shaped
    <2>5. QED
      BY <1>4, <2>1, <2>4, Zenon
  <1> HIDE DEF Shaped
  <1>8. ASSUME NEW t \in Txs, NEW f \in Files, NEW s \in Sessions, Begin(t, f, s)
        PROVE  DOMAIN tx' = Txs /\ \A u \in Txs : Shaped(u, tx'[u])
    <2>1. \E call : Reads(t, call) /\ call.s = s
      <3>1. CASE \E size \in FileSizes : StartUploadReads(t, f, s, size)
        BY <3>1 DEF StartUploadReads
      <3>2. CASE \E c \in ChunkIDs[f], req \in ChunkRequests : CommitChunkReads(t, f, s, c, req)
        BY <3>2 DEF CommitChunkReads
      <3>3. ASSUME NEW op, NEW sum, NEW checksum PROVE Judging(op, f, s, sum, checksum).s = s
        BY DEF Judging
      <3>4. CASE \E allowed \in ExpectedStatuses, sum \in BOOLEAN :
                    \/ CompleteUploadReads(t, f, s, allowed, sum)
                    \/ VerifyUploadReads(t, f, s, allowed, sum)
        BY <3>3, <3>4, Zenon DEF CompleteUploadReads, VerifyUploadReads
      <3>5. CASE \E allowed \in ExpectedStatuses, bad \in Chunks \cup {None},
                    retry, actualReady \in BOOLEAN :
                    FailUploadReads(t, f, s, allowed, bad, retry, actualReady)
        BY <3>5 DEF FailUploadReads
      <3>6. CASE \E allowed \in ExpectedStatuses : RetryUploadReads(t, f, s, allowed)
        BY <3>6 DEF RetryUploadReads
      <3>7. QED
        BY <1>8, <3>1, <3>2, <3>4, <3>5, <3>6, Zenon DEF Begin
    <2>2. QED
      BY <1>6, <2>1, Zenon
  <1>9. ASSUME NEW t \in Txs, Continue(t)
        PROVE  DOMAIN tx' = Txs /\ \A u \in Txs : Shaped(u, tx'[u])
    <2>1. CASE Write(t)
      BY <1>5, <2>1, Zenon DEF Write
    <2>2. CASE Rollback(t)
      <3>1. Shaped(t, Idle)
        BY <1>2 DEF Shaped
      <3>2. QED
        BY <1>4, <2>2, <3>1, Zenon DEF Rollback
    <2>3. CASE StartUploadRereads(t)
      <3> DEFINE call == tx[t].call
                 row == [AbsentSession EXCEPT !.status = "pending", !.file = call.f,
                                              !.expected = call.size]
                 writes == [NoWrites EXCEPT !.insert = TRUE, !.session = row,
                               !.file = [status |-> "uploading", size |-> call.size,
                                         latest |-> call.s]]
      <3>1. Rereads(t, "start", writes)
        BY <2>3, Zenon DEF StartUploadRereads
      <3>2. DOMAIN row = SessionColumns
        BY DEF AbsentSession, SessionColumns
      <3> HIDE DEF row
      <3>3. writes.session = row
        BY DEF NoWrites
      <3> HIDE DEF writes
      <3>4. QED
        BY <1>7, <3>1, <3>2, <3>3, Zenon
    <2>4. ASSUME NEW op, NEW writes, Rereads(t, op, writes), writes.insert = FALSE
          PROVE  DOMAIN tx' = Txs /\ \A u \in Txs : Shaped(u, tx'[u])
      BY <1>7, <2>4, Zenon
    <2>5. CASE CommitChunkRereads(t)
      BY <2>4, <2>5 DEF CommitChunkRereads, NoWrites
    <2>6. CASE CompleteUploadRereads(t)
      BY <2>4, <2>6 DEF CompleteUploadRereads, NoWrites
    <2>7. CASE VerifyUploadRereads(t)
      BY <2>4, <2>7 DEF VerifyUploadRereads, NoWrites
    <2>8. CASE FailUploadRereads(t)
      BY <2>4, <2>8 DEF FailUploadRereads, NoWrites
    <2>9. CASE RetryUploadRereads(t)
      BY <2>4, <2>9 DEF RetryUploadRereads, NoWrites
    <2>10. QED
      BY <1>9, <2>1, <2>2, <2>3, <2>5, <2>6, <2>7, <2>8, <2>9, Zenon DEF Continue
  <1>10. ASSUME NEW f \in Files, Alone(f)
         PROVE  DOMAIN tx' = Txs /\ \A u \in Txs : Shaped(u, tx'[u])
    BY <1>5, <1>10, Zenon DEF Alone
  <1>11. QED
    BY <1>8, <1>9, <1>10, Zenon DEF TxNext

\* On PostgreSQL at most one session of a file is in progress, however many
\* transactions overlap and whatever they had read: StartUpload's own check may be
\* out of date when it inserts, and a late failure report or chunk takes a
\* session that had ended back, but every write of a session passes the partial
\* unique index mds_upload_sessions_active_file_uq.
THEOREM OneActive ==
    ASSUME Store = "postgres" PROVE TxSpec => []OneActiveSession
  <1>1. TxInit => SessionShape /\ OneActiveSession
    <2>1. SUFFICES ASSUME TxInit PROVE SessionShape /\ OneActiveSession
      BY Zenon
    <2>2. /\ AbsentSession.status = "absent" /\ Idle.pc = "idle"
      BY DEF AbsentSession, Idle
    <2>3. QED
      BY <2>1, <2>2 DEF TxInit, Init, SessionShape, SessionColumns, OneActiveSession, Open
  <1>2. SessionShape /\ OneActiveSession /\ [TxNext]_txVars => (SessionShape /\ OneActiveSession)'
    <2>1. CASE UNCHANGED txVars
      BY <2>1, Zenon DEF txVars, SessionShape, OneActiveSession, Open
    <2>2. ASSUME SessionShape, OneActiveSession, TxNext PROVE (SessionShape /\ OneActiveSession)'
      <3>1. SessionsWritten
        <4>1. ASSUME NEW f \in Files, Alone(f) PROVE SessionsWritten
          BY <2>2, <4>1, AloneWrites, Zenon DEF Alone
        <4>2. ASSUME NEW t \in Txs, Write(t) PROVE SessionsWritten
          BY <2>2, <4>2, WriteWrites, Zenon
        <4>3. ASSUME NEW f \in Files, NEW t \in Txs, NEW s \in Sessions, Begin(t, f, s)
              PROVE  UNCHANGED session
          BY <4>3, Zenon DEF Begin, Reads, StartUploadReads, CommitChunkReads,
             CompleteUploadReads, VerifyUploadReads, FailUploadReads, RetryUploadReads
        <4>4. ASSUME NEW t \in Txs, Continue(t), ~ Write(t)
              PROVE  UNCHANGED session
          BY <4>4, Zenon DEF Continue, Rollback, Rereads, StartUploadRereads,
             CommitChunkRereads, CompleteUploadRereads, VerifyUploadRereads,
             FailUploadRereads, RetryUploadRereads
        <4>5. ASSUME NEW t \in Txs, Continue(t) PROVE SessionsWritten
          BY <4>2, <4>4, <4>5, Zenon DEF SessionsWritten
        <4>6. QED
          BY <2>2, <4>1, <4>3, <4>5, Zenon DEF TxNext, SessionsWritten
      <3>2. QED
        BY <2>2, <3>1, WrittenKeeps, TxShape, Zenon DEF SessionShape, Open
    <2>3. QED
      BY <2>1, <2>2, Zenon
  <1>3. QED
    BY <1>1, <1>2, PTL DEF TxSpec
=============================================================================
