---------------------------- MODULE UploadProofs ----------------------------
(***************************************************************************)
(* Theorems about Upload for every value of its constants.                 *)
(***************************************************************************)
EXTENDS UploadRefinement, WellFoundedInduction, TLAPS

\* The numbers currentStoredSize takes the maximum of.
Ends(ck, f) == {0} \cup {End(ck, c) : c \in ListChunksByFile(ck, f)}

\* A chunk lies within the bound on indices: its offset and end are naturals.
LEMMA EndBounds ==
    ASSUME NEW ck \in [Chunks -> ChunkRecord], NEW c \in Chunks
    PROVE  /\ Offset(ck, c) \in Nat
           /\ End(ck, c) \in Nat
           /\ Offset(ck, c) <= End(ck, c)
           /\ End(ck, c) <= MaxEnd
           /\ MaxEnd \in Nat
  <1> DEFINE i == ck[c].index
             n == ck[c].size
  <1>1. /\ i \in 0..MaxIndex
        /\ n \in 0..ChunkSize
    BY DEF ChunkRecord, Indices
  <1>2. ChunkSize \in Nat /\ MaxIndex \in Nat
    BY ConstantsAssumption
  <1>3. i * ChunkSize \in Nat /\ i * ChunkSize <= MaxIndex * ChunkSize
    BY <1>1, <1>2
  <1>4. MaxEnd = MaxIndex * ChunkSize + ChunkSize /\ MaxIndex * ChunkSize \in Nat
    BY <1>2 DEF MaxEnd
  <1> HIDE DEF i, n
  <1>5. QED
    BY <1>1, <1>2, <1>3, <1>4 DEF Offset, End, i, n

\* A bounded, nonempty set of naturals has a largest element.
LEMMA BoundedHasMax ==
    ASSUME NEW E \in SUBSET Nat, E # {}, NEW b \in Nat, \A m \in E : m <= b
    PROVE  \E n \in E : \A m \in E : m <= n
  <1> DEFINE U == {n \in Nat : \A m \in E : m <= n}
             R == OpToRel(<, Nat)
  <1>1. U \in SUBSET Nat /\ U # {}
    <2>1. b \in U
      OBVIOUS
    <2>2. QED
      BY <2>1
  <1>2. IsWellFoundedOn(R, Nat)
    BY NatLessThanWellFounded, Zenon
  <1>3. \A x, y \in Nat : x < y => <<x, y>> \in R
    BY DEF OpToRel
  <1>4. PICK n \in U : \A m \in U : ~(<<m, n>> \in R)
    <2> HIDE DEF U, R
    <2>1. QED
      BY <1>1, <1>2, WFMin, Zenon
  <1>5. \A m \in U : ~(m < n)
    <2> HIDE DEF U, R
    <2>1. QED
      BY <1>1, <1>3, <1>4, Zenon
  <1>6. n \in Nat /\ \A m \in E : m <= n
    BY <1>4, Zenon
  <1> HIDE DEF R
  <1>7. n \in E
    <2>1. SUFFICES ASSUME n \notin E PROVE FALSE
      OBVIOUS
    <2>2. \A m \in E : m < n
      BY <1>6, <2>1
    <2>3. n - 1 \in Nat /\ \A m \in E : m <= n - 1
      <3>1. PICK k \in E : k < n
        BY <2>2, Zenon
      <3>2. QED
        BY <1>6, <2>2, <3>1
    <2>4. n - 1 \in U
      BY <2>3
    <2>5. QED
      BY <1>5, <1>6, <2>4
  <1>8. QED
    BY <1>6, <1>7

\* currentStoredSize is a natural number, no chunk ends behind it, and it is 0
\* or the end of a chunk: the maximum the loop of the code computes exists.
LEMMA StoredSizeIsMax ==
    ASSUME NEW ck \in [Chunks -> ChunkRecord], NEW f
    PROVE  /\ currentStoredSize(ck, f) \in Nat
           /\ currentStoredSize(ck, f) \in Ends(ck, f)
           /\ \A n \in Ends(ck, f) : n <= currentStoredSize(ck, f)
  <1> DEFINE E == Ends(ck, f)
  <1>1. E \in SUBSET Nat /\ MaxEnd \in Nat /\ \A m \in E : m <= MaxEnd
    <2>1. MaxEnd \in Nat
      BY ConstantsAssumption DEF MaxEnd
    <2>2. \A c \in ListChunksByFile(ck, f) : End(ck, c) \in Nat /\ End(ck, c) <= MaxEnd
      BY EndBounds DEF ListChunksByFile
    <2>3. QED
      BY <2>1, <2>2 DEF Ends
  <1>2. E # {}
    BY DEF Ends
  <1>3. currentStoredSize(ck, f) = CHOOSE k \in E : \A m \in E : m <= k
    BY DEF currentStoredSize, Ends
  <1> HIDE DEF E
  <1>4. \E n \in E : \A m \in E : m <= n
    BY <1>1, <1>2, BoundedHasMax, Zenon
  <1>5. currentStoredSize(ck, f) \in E /\ \A m \in E : m <= currentStoredSize(ck, f)
    BY <1>3, <1>4
  <1>6. QED
    BY <1>1, <1>5 DEF E

\* Among chunks there is always one with the highest index.
LEMMA LastOfChunks ==
    ASSUME NEW ck \in [Chunks -> ChunkRecord], NEW S \in SUBSET Chunks, S # {}
    PROVE  (CHOOSE c \in S : \A d \in S : ck[d].index <= ck[c].index) \in S
  <1> DEFINE I == {ck[c].index : c \in S}
  <1>1. I \in SUBSET Nat /\ MaxIndex \in Nat /\ I # {} /\ \A m \in I : m <= MaxIndex
    BY ConstantsAssumption DEF ChunkRecord, Indices
  <1>2. PICK n \in I : \A m \in I : m <= n
    <2> HIDE DEF I
    <2>1. QED
      BY <1>1, BoundedHasMax, Zenon
  <1>3. \E c \in S : \A d \in S : ck[d].index <= ck[c].index
    BY <1>2
  <1>4. QED
    BY <1>3

\* The records that stand for a missing row have the type of a row, and so has
\* the checksum of what a file holds.
LEMMA AbsentRecords ==
    /\ AbsentFile \in FileRecord
    /\ AbsentSession \in SessionRecord
    /\ AbsentChunk \in ChunkRecord
  <1>1. (CHOOSE d \in Data : TRUE) \in Data
    BY ConstantsAssumption
  <1>2. 0 \in Indices /\ 0 \in 0..ChunkSize
    BY ConstantsAssumption DEF Indices
  <1>3. QED
    BY <1>1, <1>2 DEF AbsentFile, AbsentSession, AbsentChunk, FileRecord,
                      SessionRecord, ChunkRecord, Checksum

\* None is one of the checksums.
LEMMA NoChecksum == None \in Checksum
  BY DEF Checksum

\* The content of a file, which stands for its checksum, has the type of one.
LEMMA ContentType ==
    ASSUME NEW ck \in [Chunks -> ChunkRecord], NEW f
    PROVE  Content(ck, f) \in SUBSET (Indices \X Data) /\ Content(ck, f) \in Checksum
  BY DEF Content, ListChunksByFile, ChunkRecord, Checksum

-----------------------------------------------------------------------------
\* The size a session works towards is a natural number.
LEMMA ExpectedSizeType ==
    ASSUME TypeOK, NEW f \in Files, NEW s \in Sessions
    PROVE  expectedSize(f, s) \in Nat
  BY DEF TypeOK, expectedSize, FileRecord, SessionRecord

\* Whatever replicas a chunk had, UpsertChunks leaves a replica table.
LEMMA UpsertReplicasType ==
    ASSUME NEW old \in [Nodes -> Data \cup {None}], NEW req \in CommitChunkRequest
    PROVE  upsertReplicas(old, req) \in [Nodes -> Data \cup {None}]
  <1>1. \A n \in Nodes : req.replicas[n] \in {"none", "pending", "ready"}
    BY DEF CommitChunkRequest
  <1>2. req.data \in Data
    BY DEF CommitChunkRequest
  <1>3. QED
    BY <1>1, <1>2 DEF upsertReplicas

\* Type correctness of the two handlers that change chunks other than in their
\* status, and of the ones that do not, one lemma for each.
LEMMA CommitChunkType ==
    ASSUME TypeOK, NEW f \in Files, NEW s \in Sessions, NEW c \in ChunkIDs[f],
           NEW req \in ChunkRequests, CommitChunk(f, s, c, req)
    PROVE  TypeOK'
  <1> DEFINE end == req.index * ChunkSize + req.size
             row == [status |-> req.status, file |-> f, index |-> req.index,
                     size |-> req.size, sumReady |-> req.sumReady,
                     data |-> req.data,
                     replicas |-> upsertReplicas(chunk[c].replicas, req)]
  <1>1. req \in CommitChunkRequest /\ c \in Chunks
    BY ConstantsAssumption
  <1>2. end \in Nat
    <2>1. req.index \in Nat /\ req.size \in Nat /\ ChunkSize \in Nat
      BY <1>1, ConstantsAssumption DEF CommitChunkRequest, Indices
    <2>2. req.index * ChunkSize \in Nat
      BY <2>1
    <2>3. QED
      BY <2>1, <2>2
  <1>3. chunk[c].replicas \in [Nodes -> Data \cup {None}]
    BY <1>1 DEF TypeOK, ChunkRecord
  <1>4. row \in ChunkRecord
    <2>1. row.replicas \in [Nodes -> Data \cup {None}]
      BY <1>1, <1>3, UpsertReplicasType
    <2>2. QED
      BY <1>1, <2>1 DEF ChunkRecord, CommitChunkRequest
  <1>5. chunk' \in [Chunks -> ChunkRecord]
    <2> HIDE DEF row
    <2>1. chunk' = [chunk EXCEPT ![c] = row]
      BY DEF CommitChunk, upsertChunk, chunkRow, updateUploadProgress, row
    <2>2. QED
      BY <1>1, <1>4, <2>1 DEF TypeOK
  <1>6. session' \in [Sessions -> SessionRecord]
    <2> HIDE DEF end
    <2>1. session' = [session EXCEPT ![s] = [@ EXCEPT !.status = "active",
                                     !.confirmed = end, !.next = end, !.last = c]]
      BY Zenon DEF CommitChunk, upsertChunk, chunkRow, updateUploadProgress, end
    <2>2. session[s] \in SessionRecord
      BY DEF TypeOK
    <2>3. [session[s] EXCEPT !.status = "active", !.confirmed = end,
                             !.next = end, !.last = c] \in SessionRecord
      BY <1>1, <1>2, <2>2, Zenon DEF SessionRecord, UploadStatus
    <2>4. QED
      BY <2>1, <2>3, Zenon DEF TypeOK
  <1>7. file' \in [Files -> FileRecord]
    <2>1. currentStoredSize(chunk', f) \in Nat
      BY <1>5, StoredSizeIsMax
    <2>2. file' = [file EXCEPT ![f] = [file[f] EXCEPT !.status = "uploading",
                                       !.stored = currentStoredSize(chunk', f)]]
      BY DEF CommitChunk, upsertChunk, chunkRow, updateUploadProgress, openFile
    <2>3. QED
      BY <2>1, <2>2, ZenonT(60) DEF TypeOK, FileRecord, FileStatus
  <1>8. QED
    BY <1>5, <1>6, <1>7 DEF TypeOK

\* updateChunkStatuses keeps the types of the chunks.
LEMMA ChunkStatusType ==
    ASSUME TypeOK, NEW f, NEW st \in ChunkStatus
    PROVE  updateChunkStatuses(f, st) \in [Chunks -> ChunkRecord]
  BY DEF TypeOK, updateChunkStatuses, ChunkRecord

\* CompleteUpload keeps the types.
LEMMA CompleteUploadType ==
    ASSUME TypeOK, NEW f \in Files, NEW s \in Sessions, NEW allowed, NEW sum \in BOOLEAN,
           CompleteUpload(f, s, allowed, sum)
    PROVE  TypeOK'
  <1> DEFINE verified == IF sum THEN Content(chunk, f) ELSE session[s].verified
             checksum == IF sum THEN Content(chunk, f) ELSE file[f].checksum
  <1>1. chunk' \in [Chunks -> ChunkRecord]
    BY ChunkStatusType DEF CompleteUpload, updateUploadProgress, ChunkStatus
  <1>2. /\ verified \in Checksum
        /\ checksum \in Checksum
        /\ currentStoredSize(chunk, f) \in Nat
        /\ expectedSize(f, s) \in Nat
    BY ContentType, StoredSizeIsMax, ExpectedSizeType DEF TypeOK, SessionRecord, FileRecord
  <1>3. /\ session' = [session EXCEPT ![s] =
                          [@ EXCEPT !.status = "verifying", !.verified = verified]]
        /\ file' = [file EXCEPT ![f] =
                       [@ EXCEPT !.status = "verifying",
                                 !.size = expectedSize(f, s),
                                 !.stored = currentStoredSize(chunk, f),
                                 !.checksum = checksum]]
    BY Zenon DEF CompleteUpload, updateUploadProgress
  <1> HIDE DEF verified, checksum
  <1>4. session' \in [Sessions -> SessionRecord]
    BY <1>2, <1>3, ZenonT(60) DEF TypeOK, SessionRecord, UploadStatus
  <1>5. file' \in [Files -> FileRecord]
    BY <1>2, <1>3, ZenonT(60) DEF TypeOK, FileRecord, FileStatus
  <1>6. QED
    BY <1>1, <1>4, <1>5 DEF TypeOK

\* VerifyUpload keeps the types.
LEMMA VerifyUploadType ==
    ASSUME TypeOK, NEW f \in Files, NEW s \in Sessions, NEW allowed, NEW sum \in BOOLEAN,
           VerifyUpload(f, s, allowed, sum)
    PROVE  TypeOK'
  <1>1. chunk' \in [Chunks -> ChunkRecord]
    BY ChunkStatusType DEF VerifyUpload, ChunkStatus
  <1> DEFINE checksum == IF sum THEN Content(chunk, f) ELSE session[s].verified
  <1>2. /\ checksum \in Checksum
        /\ currentStoredSize(chunk, f) \in Nat
        /\ expectedSize(f, s) \in Nat
    BY ContentType, StoredSizeIsMax, ExpectedSizeType DEF TypeOK, SessionRecord
  <1>3. /\ session' = [session EXCEPT ![s] =
                          [@ EXCEPT !.status = "completed", !.verified = checksum]]
        /\ file' = [file EXCEPT ![f] =
                       [@ EXCEPT !.status = "available",
                                 !.size = expectedSize(f, s),
                                 !.stored = currentStoredSize(chunk, f),
                                 !.checksum = checksum]]
    BY DEF VerifyUpload
  <1> HIDE DEF checksum
  <1>4. session' \in [Sessions -> SessionRecord]
    BY <1>2, <1>3, ZenonT(60) DEF TypeOK, SessionRecord, UploadStatus
  <1>5. file' \in [Files -> FileRecord]
    BY <1>2, <1>3, ZenonT(60) DEF TypeOK, FileRecord, FileStatus
  <1>6. QED
    BY <1>1, <1>4, <1>5 DEF TypeOK

\* FailUploadVerification keeps the types.
LEMMA FailUploadType ==
    ASSUME TypeOK, NEW f \in Files, NEW s \in Sessions, NEW allowed,
           NEW bad \in Chunks \cup {None}, NEW retry \in BOOLEAN,
           NEW actualReady \in BOOLEAN,
           FailUploadVerification(f, s, allowed, bad, retry, actualReady)
    PROVE  TypeOK'
  <1>1. chunk' \in [Chunks -> ChunkRecord]
    <2>1. failChunks(f, bad, actualReady) \in [Chunks -> ChunkRecord]
      BY ZenonT(60) DEF TypeOK, failChunks, ChunkRecord, ChunkStatus
    <2>2. QED
      BY <2>1 DEF FailUploadVerification, recordUploadFailure
  <1> DEFINE offset == IF bad = None THEN 0 ELSE Offset(chunk, bad)
             st == IF retry THEN "retrying" ELSE "failed"
  <1>2. offset \in Nat /\ st \in UploadStatus
    BY EndBounds DEF TypeOK, UploadStatus
  <1>3. session' = [session EXCEPT ![s] =
                       [@ EXCEPT !.status = st, !.failedOffset = offset]]
    BY DEF FailUploadVerification, recordUploadFailure
  <1> HIDE DEF offset, st
  <1>4. session' \in [Sessions -> SessionRecord]
    BY <1>2, <1>3, ZenonT(60) DEF TypeOK, SessionRecord
  <1>5. currentStoredSize(chunk, f) \in Nat
    BY StoredSizeIsMax DEF TypeOK
  <1>6. file' = [file EXCEPT ![f] = [file[f] EXCEPT !.status = "failed",
                                     !.stored = currentStoredSize(chunk, f),
                                     !.checksum = None]]
    BY DEF FailUploadVerification, recordUploadFailure, TypeOK
  <1>7. file' \in [Files -> FileRecord]
    BY <1>5, <1>6, NoChecksum, ZenonT(60) DEF TypeOK, FileRecord, FileStatus
  <1>8. QED
    BY <1>1, <1>4, <1>7 DEF TypeOK

\* RetryUpload keeps the types.
LEMMA RetryUploadType ==
    ASSUME TypeOK, NEW f \in Files, NEW s \in Sessions, NEW allowed,
           RetryUpload(f, s, allowed)
    PROVE  TypeOK'
  <1> DEFINE restart == session[s].failedOffset
             kept == keptChunks(f, restart)
             lastKept == IF kept = {} THEN None
                         ELSE CHOOSE c \in kept :
                                 \A d \in kept : chunk[d].index <= chunk[c].index
  <1>1. chunk' = [c \in Chunks |->
                     IF chunk[c].file # f THEN chunk[c]
                     ELSE IF c \in kept
                          THEN [chunk[c] EXCEPT !.status = "persisted"]
                          ELSE AbsentChunk]
    BY DEF RetryUpload, updateUploadProgress
  <1>2. session' = [session EXCEPT ![s] =
                       [@ EXCEPT !.status = "active", !.confirmed = restart,
                                 !.next = restart, !.last = lastKept,
                                 !.verified = None]]
    BY DEF RetryUpload, updateUploadProgress
  <1>3. restart \in Nat
    BY DEF TypeOK, SessionRecord
  <1>4. lastKept \in Chunks \cup {None}
    <2>1. kept \in SUBSET Chunks
      BY DEF keptChunks, ListChunksByFile
    <2> HIDE DEF kept
    <2>2. QED
      BY <2>1, LastOfChunks DEF TypeOK
  <1> HIDE DEF restart, kept, lastKept
  <1>5. chunk' \in [Chunks -> ChunkRecord]
    BY <1>1, AbsentRecords, ZenonT(60) DEF TypeOK, ChunkRecord, ChunkStatus
  <1>6. session' \in [Sessions -> SessionRecord]
    <2>1. session[s] \in SessionRecord
      BY DEF TypeOK
    <2>2. [session[s] EXCEPT !.status = "active", !.confirmed = restart,
                             !.next = restart, !.last = lastKept,
                             !.verified = None] \in SessionRecord
      BY <1>3, <1>4, <2>1, NoChecksum, Zenon DEF SessionRecord, UploadStatus
    <2>3. QED
      BY <1>2, <2>2, Zenon DEF TypeOK
  <1>7. currentStoredSize(chunk', f) \in Nat
    BY <1>5, StoredSizeIsMax
  <1>8. file' = [file EXCEPT ![f] = [file[f] EXCEPT !.status = "uploading",
                                     !.stored = currentStoredSize(chunk', f),
                                     !.checksum = None]]
    BY DEF RetryUpload, updateUploadProgress, openFile, TypeOK, FileRecord
  <1>9. file' \in [Files -> FileRecord]
    BY <1>7, <1>8, NoChecksum, ZenonT(60) DEF TypeOK, FileRecord, FileStatus
  <1>10. QED
    BY <1>5, <1>6, <1>9 DEF TypeOK

\* Type correctness: every handler writes well-formed rows, for any number of
\* files, sessions, chunks and nodes.
THEOREM TypeCorrect == Spec => []TypeOK
  <1>1. Init => TypeOK
    BY AbsentRecords DEF Init, TypeOK
  <1>2. TypeOK /\ [Next]_vars => TypeOK'
    <2> SUFFICES ASSUME TypeOK, [Next]_vars PROVE TypeOK'
      OBVIOUS
    <2>1. ASSUME NEW f \in Files, NEW size \in FileSizes, CreateFile(f, size)
          PROVE  TypeOK'
      <3>1. size \in Nat
        BY ConstantsAssumption
      <3>2. [AbsentFile EXCEPT !.status = "pending", !.size = size] \in FileRecord
        BY <3>1, AbsentRecords, Zenon DEF FileRecord, FileStatus
      <3>3. QED
        BY <2>1, <3>2 DEF CreateFile, TypeOK
    <2>2. ASSUME NEW f \in Files, DeleteFile(f)
          PROVE  TypeOK'
      BY <2>2, AbsentRecords DEF DeleteFile, deleteUploadSessions, deleteChunks, TypeOK
    <2>3. ASSUME NEW f \in Files, NEW s \in Sessions, NEW size \in FileSizes,
                 StartUpload(f, s, size)
          PROVE  TypeOK'
      <3>1. size \in Nat
        BY ConstantsAssumption
      <3>2. [AbsentSession EXCEPT !.status = "pending", !.file = f, !.expected = size]
               \in SessionRecord
        BY <3>1, AbsentRecords, Zenon DEF SessionRecord, UploadStatus
      <3>3. [file[f] EXCEPT !.status = "uploading", !.size = size, !.latest = s]
               \in FileRecord
        BY <3>1, Zenon DEF TypeOK, FileRecord, FileStatus
      <3>4. QED
        BY <2>3, <3>2, <3>3 DEF StartUpload, createUploadSession, TypeOK
    <2>4. ASSUME NEW f \in Files, NEW s \in Sessions, NEW c \in ChunkIDs[f],
                 NEW req \in ChunkRequests, CommitChunk(f, s, c, req)
          PROVE  TypeOK'
      BY <2>4, CommitChunkType
    <2>5. ASSUME NEW f \in Files, NEW s \in Sessions, NEW allowed \in ExpectedStatuses,
                 NEW sum \in BOOLEAN, CompleteUpload(f, s, allowed, sum)
          PROVE  TypeOK'
      BY <2>5, CompleteUploadType
    <2>6. ASSUME NEW f \in Files, NEW s \in Sessions, NEW allowed \in ExpectedStatuses,
                 NEW sum \in BOOLEAN, VerifyUpload(f, s, allowed, sum)
          PROVE  TypeOK'
      BY <2>6, VerifyUploadType
    <2>7. ASSUME NEW f \in Files, NEW s \in Sessions, NEW allowed \in ExpectedStatuses,
                 NEW bad \in Chunks \cup {None}, NEW retry \in BOOLEAN,
                 NEW actualReady \in BOOLEAN,
                 FailUploadVerification(f, s, allowed, bad, retry, actualReady)
          PROVE  TypeOK'
      BY <2>7, FailUploadType
    <2>8. ASSUME NEW f \in Files, NEW s \in Sessions, NEW allowed \in ExpectedStatuses,
                 RetryUpload(f, s, allowed)
          PROVE  TypeOK'
      BY <2>8, RetryUploadType
    <2>9. CASE UNCHANGED vars
      BY <2>9 DEF vars, TypeOK
    <2>10. CASE Next
      <3>1. PICK f \in Files :
               \/ \E size \in FileSizes : CreateFile(f, size)
               \/ DeleteFile(f)
               \/ \E s \in Sessions : UploadStep(f, s)
        BY <2>10 DEF Next, FileStep
      <3>2. ASSUME NEW s \in Sessions, UploadStep(f, s)
            PROVE  TypeOK'
        BY <3>2, <2>3, <2>4, <2>5, <2>6, <2>7, <2>8 DEF UploadStep
      <3>3. QED
        BY <3>1, <3>2, <2>1, <2>2
    <2>11. QED
      BY <2>9, <2>10
  <1>3. QED
    BY <1>1, <1>2, PTL DEF Spec

-----------------------------------------------------------------------------
\* Two chunk tables that have the same chunks of a file.
SameChunks(ck, cl, f) ==
    \A c \in Chunks : ck[c].file = f \/ cl[c].file = f => ck[c] = cl[c]

\* Everything the handlers compute of a file depends on its own chunks only.
LEMMA Frame ==
    ASSUME NEW ck, NEW cl, NEW f, SameChunks(ck, cl, f)
    PROVE  /\ ListChunksByFile(ck, f) = ListChunksByFile(cl, f)
           /\ Content(ck, f) = Content(cl, f)
           /\ currentStoredSize(ck, f) = currentStoredSize(cl, f)
           /\ \A fr : Whole(fr, ck, f) => Whole(fr, cl, f)
  <1> DEFINE L == ListChunksByFile(ck, f)
  <1>1. L = ListChunksByFile(cl, f) /\ \A c \in L : ck[c] = cl[c]
    BY DEF ListChunksByFile, SameChunks
  <1> HIDE DEF L
  <1>2. Content(ck, f) = Content(cl, f)
    BY <1>1 DEF Content, L
  <1>3. {End(ck, c) : c \in L} = {End(cl, c) : c \in L}
    BY <1>1 DEF End, Offset
  <1>4. currentStoredSize(ck, f) = currentStoredSize(cl, f)
    BY <1>1, <1>3, SMTT(30) DEF currentStoredSize, L
  <1>5. Contiguous(ck, f) => Contiguous(cl, f)
    BY <1>1 DEF Contiguous, L
  <1>6. \A fr : Whole(fr, ck, f) => Whole(fr, cl, f)
    BY <1>1, <1>4, <1>5 DEF Whole, L
  <1>7. QED
    BY <1>1, <1>2, <1>4, <1>6 DEF L

\* A change of status alone changes nothing the readiness checks look at.
LEMMA StatusFrame ==
    ASSUME TypeOK, NEW f \in Files, NEW st \in ChunkStatus,
           NEW cl, cl = updateChunkStatuses(f, st)
    PROVE  /\ ListChunksByFile(cl, f) = ListChunksByFile(chunk, f)
           /\ Content(cl, f) = Content(chunk, f)
           /\ currentStoredSize(cl, f) = currentStoredSize(chunk, f)
           /\ Contiguous(chunk, f) => Contiguous(cl, f)
           /\ \A c \in ListChunksByFile(chunk, f) :
                 cl[c] = [chunk[c] EXCEPT !.status = st]
  <1> DEFINE L == ListChunksByFile(chunk, f)
  <1>1. \A c \in L : cl[c] = [chunk[c] EXCEPT !.status = st]
    BY DEF updateChunkStatuses, ListChunksByFile
  <1>2. \A c \in L : /\ cl[c].file = chunk[c].file
                     /\ cl[c].index = chunk[c].index
                     /\ cl[c].size = chunk[c].size
                     /\ cl[c].data = chunk[c].data
    BY <1>1, Zenon DEF TypeOK, ChunkRecord, ListChunksByFile
  <1>3. ListChunksByFile(cl, f) = L
    BY <1>2 DEF ListChunksByFile, updateChunkStatuses
  <1> HIDE DEF L
  <1>4. Content(cl, f) = Content(chunk, f)
    BY <1>2, <1>3 DEF Content, L
  <1>5. {End(cl, c) : c \in L} = {End(chunk, c) : c \in L}
    BY <1>2 DEF End, Offset
  <1>6. currentStoredSize(cl, f) = currentStoredSize(chunk, f)
    BY <1>3, <1>5, SMTT(30) DEF currentStoredSize, L
  <1>7. Contiguous(chunk, f) => Contiguous(cl, f)
    BY <1>2, <1>3 DEF Contiguous, L
  <1>8. QED
    BY <1>1, <1>3, <1>4, <1>6, <1>7 DEF L

-----------------------------------------------------------------------------
\* What a handler does to the chunks of its own file f and of the others, when
\* it adds no chunk: rows of f change or vanish, and keep their place.
KeepsPlaces(f) ==
    /\ \A c \in Chunks : chunk[c].file # f => chunk'[c] = chunk[c]
    /\ \A c \in Chunks : chunk'[c].file # None =>
          chunk'[c].file = chunk[c].file /\ chunk'[c].index = chunk[c].index

\* What moves no chunk keeps the owners, the indices and the other files' chunks.
LEMMA KeepingPlaces ==
    ASSUME ChunkOwners, UniqueIndices, NEW f \in Files, KeepsPlaces(f)
    PROVE  /\ ChunkOwners' /\ UniqueIndices'
           /\ \A g \in Files \ {f} : SameChunks(chunk, chunk', g)
  <1>1. None \notin Files
    BY ConstantsAssumption
  <1>2. ChunkOwners'
    BY DEF ChunkOwners, KeepsPlaces
  <1>3. UniqueIndices'
    BY DEF UniqueIndices, KeepsPlaces
  <1>4. \A g \in Files \ {f} : SameChunks(chunk, chunk', g)
    BY <1>1 DEF SameChunks, KeepsPlaces
  <1>5. QED
    BY <1>2, <1>3, <1>4

\* CommitChunk writes one row, at an index no other chunk of the file has, under
\* an id that no other file uses.
LEMMA CommittingChunk ==
    ASSUME DisjointChunkIDs, TypeOK, ChunkOwners, UniqueIndices,
           NEW f \in Files, NEW s \in Sessions, NEW c \in ChunkIDs[f],
           NEW req \in ChunkRequests, CommitChunk(f, s, c, req)
    PROVE  /\ ChunkOwners' /\ UniqueIndices'
           /\ \A g \in Files \ {f} : SameChunks(chunk, chunk', g)
  <1>1. None \notin Files /\ c \in Chunks
    BY ConstantsAssumption
  <1>2. /\ chunk'[c].file = f
        /\ chunk'[c].index = req.index
        /\ \A d \in Chunks \ {c} : chunk'[d] = chunk[d]
    BY <1>1 DEF CommitChunk, upsertChunk, chunkRow, updateUploadProgress, TypeOK
  <1>3. \A d \in Chunks \ {c} : chunk[d].file = f => chunk[d].index # req.index
    BY DEF CommitChunk, upsertChunk, chunkRow, updateUploadProgress, indexFree, ListChunksByFile
  <1>4. chunk[c].file \in {None, f}
    BY <1>1 DEF ChunkOwners, DisjointChunkIDs, TypeOK, ChunkRecord
  <1>5. ChunkOwners'
    BY <1>2 DEF ChunkOwners
  <1>6. UniqueIndices'
    BY <1>2, <1>3 DEF UniqueIndices
  <1>7. \A g \in Files \ {f} : SameChunks(chunk, chunk', g)
    BY <1>1, <1>2, <1>4 DEF SameChunks
  <1>8. QED
    BY <1>5, <1>6, <1>7

\* A handler called for file f leaves the other files and their chunks alone,
\* and only VerifyUpload leaves f available.
LEMMA OneFileStep ==
    ASSUME DisjointChunkIDs, TypeOK, ChunkOwners, UniqueIndices,
           NEW f \in Files, FileStep(f)
    PROVE  /\ ChunkOwners' /\ UniqueIndices'
           /\ \A g \in Files \ {f} :
                 file'[g] = file[g] /\ SameChunks(chunk, chunk', g)
           /\ \/ file'[f].status # "available"
              \/ \E s \in Sessions, allowed \in ExpectedStatuses, sum \in BOOLEAN :
                    VerifyUpload(f, s, allowed, sum)
  <1> DEFINE Goal == /\ ChunkOwners' /\ UniqueIndices'
                     /\ \A g \in Files \ {f} :
                           file'[g] = file[g] /\ SameChunks(chunk, chunk', g)
                     /\ \/ file'[f].status # "available"
                        \/ \E s \in Sessions, allowed \in ExpectedStatuses,
                              sum \in BOOLEAN : VerifyUpload(f, s, allowed, sum)
  <1>1. ASSUME NEW size \in FileSizes, CreateFile(f, size)
        PROVE  Goal
    <2>1. KeepsPlaces(f)
      BY <1>1 DEF CreateFile, KeepsPlaces
    <2>2. file'[f].status # "available" /\ \A g \in Files \ {f} : file'[g] = file[g]
      BY <1>1 DEF CreateFile, TypeOK, AbsentFile
    <2>3. QED
      BY <2>1, <2>2, KeepingPlaces
  <1>2. ASSUME DeleteFile(f)
        PROVE  Goal
    <2>1. KeepsPlaces(f)
      BY <1>2 DEF DeleteFile, deleteUploadSessions, deleteChunks, KeepsPlaces, AbsentChunk
    <2>2. file'[f].status # "available" /\ \A g \in Files \ {f} : file'[g] = file[g]
      BY <1>2 DEF DeleteFile, deleteUploadSessions, deleteChunks, TypeOK, AbsentFile
    <2>3. QED
      BY <2>1, <2>2, KeepingPlaces
  <1>3. ASSUME NEW s \in Sessions, NEW size \in FileSizes, StartUpload(f, s, size)
        PROVE  Goal
    <2>1. KeepsPlaces(f)
      BY <1>3 DEF StartUpload, createUploadSession, KeepsPlaces
    <2>2. file'[f].status # "available" /\ \A g \in Files \ {f} : file'[g] = file[g]
      BY <1>3 DEF StartUpload, createUploadSession, TypeOK, FileRecord
    <2>3. QED
      BY <2>1, <2>2, KeepingPlaces
  <1>4. ASSUME NEW s \in Sessions, NEW c \in ChunkIDs[f], NEW req \in ChunkRequests,
               CommitChunk(f, s, c, req)
        PROVE  Goal
    <2>1. file'[f].status # "available" /\ \A g \in Files \ {f} : file'[g] = file[g]
      BY <1>4 DEF CommitChunk, upsertChunk, chunkRow, updateUploadProgress, openFile, TypeOK, FileRecord
    <2>2. QED
      BY <1>4, <2>1, CommittingChunk
  <1>5. ASSUME NEW s \in Sessions, NEW allowed \in ExpectedStatuses, NEW sum \in BOOLEAN,
               CompleteUpload(f, s, allowed, sum)
        PROVE  Goal
    <2>1. KeepsPlaces(f)
      BY <1>5 DEF CompleteUpload, updateUploadProgress, updateChunkStatuses, KeepsPlaces, TypeOK, ChunkRecord
    <2>2. file'[f].status # "available" /\ \A g \in Files \ {f} : file'[g] = file[g]
      BY <1>5 DEF CompleteUpload, updateUploadProgress, TypeOK, FileRecord
    <2>3. QED
      BY <2>1, <2>2, KeepingPlaces
  <1>6. ASSUME NEW s \in Sessions, NEW allowed \in ExpectedStatuses, NEW sum \in BOOLEAN,
               VerifyUpload(f, s, allowed, sum)
        PROVE  Goal
    <2>1. KeepsPlaces(f)
      BY <1>6 DEF VerifyUpload, updateChunkStatuses, KeepsPlaces, TypeOK, ChunkRecord
    <2>2. \A g \in Files \ {f} : file'[g] = file[g]
      BY <1>6 DEF VerifyUpload, TypeOK
    <2>3. QED
      BY <1>6, <2>1, <2>2, KeepingPlaces
  <1>7. ASSUME NEW s \in Sessions, NEW allowed \in ExpectedStatuses,
               NEW bad \in Chunks \cup {None}, NEW retry \in BOOLEAN,
               NEW actualReady \in BOOLEAN,
               FailUploadVerification(f, s, allowed, bad, retry, actualReady)
        PROVE  Goal
    <2>1. KeepsPlaces(f)
      BY <1>7, ZenonT(60) DEF FailUploadVerification, recordUploadFailure, failChunks, KeepsPlaces, TypeOK, ChunkRecord
    <2>2. file'[f].status # "available" /\ \A g \in Files \ {f} : file'[g] = file[g]
      BY <1>7 DEF FailUploadVerification, recordUploadFailure, TypeOK, FileRecord
    <2>3. QED
      BY <2>1, <2>2, KeepingPlaces
  <1>8. ASSUME NEW s \in Sessions, NEW allowed \in ExpectedStatuses,
               RetryUpload(f, s, allowed)
        PROVE  Goal
    <2>1. KeepsPlaces(f)
      BY <1>8 DEF RetryUpload, updateUploadProgress, KeepsPlaces, TypeOK, ChunkRecord, AbsentChunk
    <2>2. file'[f].status # "available" /\ \A g \in Files \ {f} : file'[g] = file[g]
      BY <1>8 DEF RetryUpload, updateUploadProgress, openFile, TypeOK, FileRecord
    <2>3. QED
      BY <2>1, <2>2, KeepingPlaces
  <1> HIDE DEF Goal
  <1>9. ASSUME NEW s \in Sessions, UploadStep(f, s)
        PROVE  Goal
    BY <1>9, <1>3, <1>4, <1>5, <1>6, <1>7, <1>8 DEF UploadStep
  <1>10. Goal
    BY <1>1, <1>2, <1>9 DEF FileStep
  <1>11. QED
    BY <1>10 DEF Goal

\* VerifyUpload publishes only what it has found whole.
LEMMA VerifyMakesWhole ==
    ASSUME TypeOK, NEW f \in Files, NEW s \in Sessions, NEW allowed,
           NEW sum \in BOOLEAN, VerifyUpload(f, s, allowed, sum)
    PROVE  Whole(file'[f], chunk', f)
  <1> DEFINE L == ListChunksByFile(chunk, f)
  <1>1. chunk' = updateChunkStatuses(f, "available") /\ "available" \in ChunkStatus
    BY DEF VerifyUpload, ChunkStatus
  <1>2. /\ ListChunksByFile(chunk', f) = L
        /\ currentStoredSize(chunk', f) = currentStoredSize(chunk, f)
        /\ Contiguous(chunk, f) => Contiguous(chunk', f)
        /\ \A c \in L : chunk'[c] = [chunk[c] EXCEPT !.status = "available"]
    BY <1>1, StatusFrame
  <1>3. /\ L # {}
        /\ currentStoredSize(chunk, f) = expectedSize(f, s)
        /\ Contiguous(chunk, f)
        /\ \A c \in L : chunk[c].sumReady
                        /\ healthyReplicaCount(chunk[c]) >= requiredReplicas
    BY DEF VerifyUpload, ensureFileReadyForAvailability, ensureFileReadyForVerification
  <1>4. file'[f].size = expectedSize(f, s) /\ file'[f].checksum # None
    BY DEF VerifyUpload, TypeOK, FileRecord
  <1>5. ASSUME NEW c \in L
        PROVE  /\ chunk'[c].status = "available"
               /\ chunk'[c].sumReady
               /\ healthyReplicaCount(chunk'[c]) >= requiredReplicas
    <2>1. /\ chunk'[c].status = "available"
          /\ chunk'[c].sumReady = chunk[c].sumReady
          /\ chunk'[c].replicas = chunk[c].replicas
      <3>1. chunk[c] \in ChunkRecord
        BY DEF TypeOK, ListChunksByFile
      <3>2. chunk'[c] = [chunk[c] EXCEPT !.status = "available"]
        BY <1>2
      <3>3. QED
        BY <3>1, <3>2 DEF ChunkRecord
    <2>2. healthyReplicaCount(chunk'[c]) = healthyReplicaCount(chunk[c])
      BY <2>1 DEF healthyReplicaCount
    <2>3. QED
      BY <1>3, <2>1, <2>2
  <1> HIDE DEF L
  <1>6. QED
    BY <1>2, <1>3, <1>4, <1>5 DEF Whole

\* The invariant is inductive.
LEMMA InvariantStep ==
    ASSUME DisjointChunkIDs, InductiveInvariant, TypeOK', [Next]_vars
    PROVE  InductiveInvariant'
  <1> USE DEF InductiveInvariant
  <1>1. CASE UNCHANGED vars
    BY <1>1 DEF vars, TypeOK, ChunkOwners, UniqueIndices, PublishedWhole
  <1>2. CASE Next
    <2>1. PICK f \in Files : FileStep(f)
      BY <1>2 DEF Next
    <2>2. /\ ChunkOwners' /\ UniqueIndices'
          /\ \A g \in Files \ {f} :
                file'[g] = file[g] /\ SameChunks(chunk, chunk', g)
          /\ \/ file'[f].status # "available"
             \/ \E s \in Sessions, allowed \in ExpectedStatuses, sum \in BOOLEAN :
                   VerifyUpload(f, s, allowed, sum)
      BY <2>1, OneFileStep
    <2>3. ASSUME NEW g \in Files, file'[g].status = "available"
          PROVE  Whole(file'[g], chunk', g)
      <3>1. CASE g = f
        <4>1. PICK s \in Sessions, allowed \in ExpectedStatuses, sum \in BOOLEAN :
                 VerifyUpload(f, s, allowed, sum)
          BY <2>2, <2>3, <3>1
        <4>2. QED
          BY <3>1, <4>1, VerifyMakesWhole
      <3>2. CASE g # f
        <4>1. Whole(file[g], chunk, g)
          BY <2>2, <2>3, <3>2 DEF PublishedWhole
        <4>2. QED
          BY <2>2, <3>2, <4>1, Frame
      <3>3. QED
        BY <3>1, <3>2
    <2>4. PublishedWhole'
      BY <2>3 DEF PublishedWhole
    <2>5. QED
      BY <2>2, <2>4
  <1>3. QED
    BY <1>1, <1>2

\* Every reachable state of the upload state machine satisfies the inductive
\* invariant when files do not share chunk ids: a chunk row belongs to a file
\* that uses its id, a file has one chunk for an index, and a file that
\* VerifyUpload made available is whole.
THEOREM Invariant == ASSUME DisjointChunkIDs PROVE Spec => []InductiveInvariant
  <1>1. Init => ChunkOwners /\ UniqueIndices /\ PublishedWhole
    BY DEF Init, AbsentChunk, AbsentFile, ChunkOwners, UniqueIndices, PublishedWhole
  <1>2. Init /\ TypeOK => InductiveInvariant
    BY <1>1 DEF InductiveInvariant
  <1>3. InductiveInvariant /\ TypeOK' /\ [Next]_vars => InductiveInvariant'
    BY InvariantStep
  <1>4. QED
    BY <1>2, <1>3, TypeCorrect, PTL DEF Spec

-----------------------------------------------------------------------------
\* A position in front of k chunks of length n lies in exactly one of them.
LEMMA Position ==
    ASSUME NEW n \in Nat \ {0}, NEW k \in Nat, NEW b \in Nat, b < k * n
    PROVE  \E i \in 0..(k - 1) : i * n <= b /\ b < i * n + n
  <1> DEFINE E == {i \in 0..k : i * n <= b}
  <1>1. E \in SUBSET Nat /\ E # {} /\ \A m \in E : m <= k
    <2>1. 0 \in E
      BY SMT
    <2>2. QED
      BY <2>1
  <1>2. PICK i \in E : \A m \in E : m <= i
    <2> HIDE DEF E
    <2>1. QED
      BY <1>1, BoundedHasMax, Zenon
  <1>3. i \in 0..k /\ i * n <= b
    BY <1>2
  <1>4. i # k
    BY <1>3
  <1>5. i + 1 \in 0..k /\ i + 1 \notin E
    BY <1>1, <1>2, <1>3, <1>4
  <1>6. (i + 1) * n > b
    <2>1. i + 1 \in Nat /\ (i + 1) * n \in Nat
      BY <1>3
    <2>2. QED
      BY <1>5, <2>1
  <1>7. (i + 1) * n = i * n + n
    BY <1>3
  <1>8. QED
    BY <1>3, <1>4, <1>6, <1>7

\* Chunks that are contiguous cover every byte up to their extent.
LEMMA ContiguousCovers ==
    ASSUME NEW ck \in [Chunks -> ChunkRecord], NEW f, Contiguous(ck, f),
           NEW b \in Nat, b < currentStoredSize(ck, f)
    PROVE  \E c \in ListChunksByFile(ck, f) : Offset(ck, c) <= b /\ b < End(ck, c)
  <1>1. ChunkSize \in Nat \ {0}
    BY ConstantsAssumption
  <1>2. PICK c \in ListChunksByFile(ck, f) : currentStoredSize(ck, f) = End(ck, c)
    <2>1. currentStoredSize(ck, f) \in Nat /\ currentStoredSize(ck, f) \in Ends(ck, f)
      BY StoredSizeIsMax
    <2>2. currentStoredSize(ck, f) # 0
      BY <2>1
    <2>3. QED
      BY <2>1, <2>2 DEF Ends
  <1>3. c \in Chunks /\ ck[c].index \in Nat
    BY ConstantsAssumption DEF ListChunksByFile, ChunkRecord, Indices
  <1>4. Offset(ck, c) \in Nat /\ End(ck, c) \in Nat
    BY <1>3, EndBounds
  <1>5. CASE Offset(ck, c) <= b
    BY <1>2, <1>5
  <1>6. CASE b < Offset(ck, c)
    <2>1. b < ck[c].index * ChunkSize
      BY <1>6 DEF Offset
    <2>2. PICK i \in 0..(ck[c].index - 1) :
             i * ChunkSize <= b /\ b < i * ChunkSize + ChunkSize
      BY <1>1, <1>3, <2>1, Position, Zenon
    <2>3. PICK d \in ListChunksByFile(ck, f) : ck[d].index = i /\ ck[d].size = ChunkSize
      BY <2>2 DEF Contiguous
    <2>4. QED
      BY <2>2, <2>3 DEF Offset, End
  <1>7. QED
    BY <1>4, <1>5, <1>6

\* Files that do not share chunk ids are readable whenever they are available,
\* whatever the sequence of handler calls, when no two handlers overlap.
THEOREM AvailableReadable ==
    ASSUME DisjointChunkIDs PROVE Spec => []AvailableIsReadable
  <1>1. ASSUME InductiveInvariant PROVE AvailableIsReadable
    <2>1. SUFFICES ASSUME NEW f \in Files, file[f].status = "available"
                   PROVE  /\ \A b \in 0..(file[f].size - 1) :
                                \E c \in ListChunksByFile(chunk, f) :
                                    Offset(chunk, c) <= b /\ b < End(chunk, c)
                          /\ file[f].checksum # None
                          /\ \A c \in ListChunksByFile(chunk, f) :
                                /\ End(chunk, c) <= file[f].size
                                /\ chunk[c].status = "available"
                                /\ chunk[c].sumReady
                                /\ healthyReplicaCount(chunk[c]) >= requiredReplicas
      BY DEF AvailableIsReadable, Readable
    <2>2. Whole(file[f], chunk, f) /\ chunk \in [Chunks -> ChunkRecord]
      BY <1>1, <2>1 DEF InductiveInvariant, PublishedWhole, TypeOK
    <2>3. currentStoredSize(chunk, f) = file[f].size /\ Contiguous(chunk, f)
      BY <2>2 DEF Whole
    <2>4. file[f].size \in Nat
      BY <2>2, <2>3, StoredSizeIsMax
    <2>5. ASSUME NEW b \in 0..(file[f].size - 1)
          PROVE  \E c \in ListChunksByFile(chunk, f) :
                    Offset(chunk, c) <= b /\ b < End(chunk, c)
      <3>1. b \in Nat /\ b < currentStoredSize(chunk, f)
        BY <2>3, <2>4
      <3>2. QED
        BY <2>2, <2>3, <3>1, ContiguousCovers
    <2>6. \A c \in ListChunksByFile(chunk, f) : End(chunk, c) <= file[f].size
      BY <2>2, <2>3, StoredSizeIsMax, Zenon DEF Ends
    <2>7. QED
      BY <2>2, <2>5, <2>6 DEF Whole
  <1>2. QED
    BY <1>1, Invariant, PTL

-----------------------------------------------------------------------------
\* What a file that is ready for verification holds is a whole object.
LEMMA ReadyIsWhole ==
    ASSUME TypeOK, UniqueIndices, NEW f \in Files, NEW s,
           ensureFileReadyForVerification(f, s)
    PROVE  Content(chunk, f) \in WholeObjects
  <1> DEFINE L == ListChunksByFile(chunk, f)
             o == Content(chunk, f)
  <1>1. o = {<<chunk[c].index, chunk[c].data>> : c \in L}
    BY DEF Content
  <1>2. L # {} /\ Contiguous(chunk, f) /\ \A c \in L : c \in Chunks /\ chunk[c].file = f
    BY DEF ensureFileReadyForVerification, ListChunksByFile
  <1>3. o \in SUBSET (Indices \X Data) /\ None \notin Files
    BY ContentType, ConstantsAssumption DEF TypeOK
  <1>4. \A c \in L : \A i \in 0..(chunk[c].index - 1) :
           \E d \in L : chunk[d].index = i
    BY <1>2 DEF Contiguous
  <1>5. \A c, d \in L : chunk[c].index = chunk[d].index => c = d
    BY <1>2, <1>3 DEF UniqueIndices
  <1>6. \A c \in L : chunk[c].index \in Nat
    BY <1>2, ConstantsAssumption DEF TypeOK, ChunkRecord, Indices
  <1> HIDE DEF L, o
  <1>7. o # {}
    BY <1>1, <1>2, Zenon
  <1>8. \A p, q \in o : p[1] = q[1] => p = q
    BY <1>1, <1>5
  <1>9. ASSUME NEW p \in o, NEW i \in 0..p[1]
        PROVE  \E q \in o : q[1] = i
    <2>1. PICK c \in L : p = <<chunk[c].index, chunk[c].data>>
      BY <1>1
    <2>2. CASE i = p[1]
      BY <2>2
    <2>3. CASE i # p[1]
      <3>1. i \in 0..(chunk[c].index - 1)
        BY <1>6, <2>1, <2>3
      <3>2. PICK d \in L : chunk[d].index = i
        BY <1>4, <3>1
      <3>3. <<chunk[d].index, chunk[d].data>> \in o
        BY <1>1
      <3>4. QED
        BY <3>2, <3>3
    <2>4. QED
      BY <2>2, <2>3
  <1>10. QED
    BY <1>3, <1>7, <1>8, <1>9 DEF WholeObjects, o

\* A handler publishes a whole object, retracts one, or leaves readers alone.
LEMMA PublishedStep ==
    ASSUME DisjointChunkIDs, InductiveInvariant, [Next]_vars
    PROVE  [Objects!Next]_published
  <1>1. TypeOK /\ ChunkOwners /\ UniqueIndices
    BY DEF InductiveInvariant
  <1>2. CASE UNCHANGED vars
    BY <1>2 DEF vars, published
  <1>3. CASE Next
    <2>1. PICK f \in Files : FileStep(f)
      BY <1>3 DEF Next
    <2>2. /\ \A g \in Files \ {f} :
                file'[g] = file[g] /\ SameChunks(chunk, chunk', g)
          /\ \/ file'[f].status # "available"
             \/ \E s \in Sessions, allowed \in ExpectedStatuses, sum \in BOOLEAN :
                   VerifyUpload(f, s, allowed, sum)
      BY <1>1, <2>1, OneFileStep
    <2>3. \A g \in Files \ {f} : Content(chunk', g) = Content(chunk, g)
      BY <2>2, Frame
    <2>4. /\ published' = [published EXCEPT ![f] = published'[f]]
          /\ published \in [Files -> {published[g] : g \in Files}]
      <3>1. \A g \in Files \ {f} : published'[g] = published[g]
        BY <2>2, <2>3 DEF published
      <3>2. QED
        BY <3>1, Zenon DEF published
    <2>5. CASE file'[f].status # "available"
      <3>1. published'[f] = None
        BY <2>5 DEF published
      <3>2. CASE published[f] = None
        BY <2>4, <3>1, <3>2
      <3>3. CASE published[f] # None
        <4>1. Objects!Retract(f)
          BY <2>4, <3>1, <3>3 DEF Objects!Retract
        <4>2. QED
          BY <4>1 DEF Objects!Next
      <3>4. QED
        BY <3>2, <3>3
    <2>6. ASSUME NEW s \in Sessions, NEW allowed \in ExpectedStatuses, NEW sum \in BOOLEAN,
                 VerifyUpload(f, s, allowed, sum)
          PROVE  [Objects!Next]_published
      <3>1. Content(chunk', f) = Content(chunk, f)
        BY <1>1, <2>6, StatusFrame DEF VerifyUpload, ChunkStatus
      <3>2. Content(chunk, f) \in WholeObjects
        BY <1>1, <2>6, ReadyIsWhole DEF VerifyUpload, ensureFileReadyForAvailability
      <3>3. file'[f].status = "available"
        BY <1>1, <2>6 DEF VerifyUpload, TypeOK, FileRecord
      <3>4. published'[f] = Content(chunk, f)
        BY <3>1, <3>3 DEF published
      <3>5. CASE file[f].status = "available"
        <4>1. published'[f] = published[f]
          BY <3>4, <3>5 DEF published
        <4>2. QED
          BY <2>4, <4>1
      <3>6. CASE file[f].status # "available"
        <4>1. published[f] = None
          BY <3>6 DEF published
        <4>2. Objects!Publish(f, Content(chunk, f))
          BY <2>4, <3>4, <4>1 DEF Objects!Publish
        <4>3. QED
          BY <3>2, <4>2 DEF Objects!Next
      <3>7. QED
        BY <3>5, <3>6
    <2>7. QED
      BY <2>2, <2>5, <2>6
  <1>4. QED
    BY <1>2, <1>3

\* On the in-memory store, as long as no two handlers overlap and files do not share
\* chunk ids, Upload implements ObjectStore: readers of available files see whole
\* objects that never change in place.
THEOREM Refinement ==
    ASSUME DisjointChunkIDs, Store = "memory"
    PROVE  Spec => ImplementsObjectStore
  <1>1. Init => Objects!Init
    BY DEF Init, Objects!Init, published, AbsentFile
  <1>2. InductiveInvariant /\ [Next]_vars => [Objects!Next]_published
    BY PublishedStep
  <1>3. QED
    BY <1>1, <1>2, Invariant, PTL DEF Spec, ImplementsObjectStore, Objects!Spec
=============================================================================
