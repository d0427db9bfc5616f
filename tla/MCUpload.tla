------------------------------ MODULE MCUpload ------------------------------
(***************************************************************************)
(* Small instances of Upload, and the readiness scan of a file's chunks as *)
(* the code runs it: a loop over the chunks in index order that adds up    *)
(* their sizes and stops at the first gap.                                 *)
(***************************************************************************)
EXTENDS UploadRefinement, SequencesExt

CONSTANTS f1, d1, d2, n1

\* A chunk of the given index and size as a client reports it after a good
\* write of data d.
Report(i, size, d) ==
    [index |-> i, size |-> size, status |-> "persisted", sumReady |-> TRUE,
     data |-> d, replicas |-> (n1 :> "ready")]

\* A first chunk, full and short with another content; a last one, short and
\* empty; one whose checksum is not verified and one that no replica has
\* acknowledged.
MCRequests ==
    {Report(0, ChunkSize, d1),
     Report(0, ChunkSize - 1, d2),
     [Report(0, ChunkSize, d1) EXCEPT !.replicas[n1] = "pending"],
     Report(1, ChunkSize - 1, d1),
     Report(1, 0, d1),
     [Report(1, ChunkSize - 1, d1) EXCEPT !.sumReady = FALSE]}

\* One file that uses every chunk id.
MCOneFile == (f1 :> Chunks)

\* What the gateway sends with VerifyUpload, and no guard.
MCExpected == {{}, {"verifying"}}

MCSymmetry == Permutations(Sessions) \cup Permutations(Chunks)

-----------------------------------------------------------------------------
\* The chunks of f in index order, as ListChunksByFile returns them.
InOrder(f) ==
    SetToSortSeq(ListChunksByFile(chunk, f),
                 LAMBDA c, d : chunk[c].index < chunk[d].index)

\* One round of the loop over the list cs: next is the offset the round expects.
ScanStep(cs, next, i) ==
    IF \/ next < 0
       \/ Offset(chunk, cs[i]) # next
       \/ i < Len(cs) /\ chunk[cs[i]].size # ChunkSize
    THEN -1
    ELSE next + chunk[cs[i]].size

\* The loop's last value of nextOffset, or -1 when it has returned an error.
Scan(f) == FoldLeft(LAMBDA next, i : ScanStep(InOrder(f), next, i), 0,
                    [i \in 1..Len(InOrder(f)) |-> i])

\* The model's set-based test accepts the chunk table of a file exactly when the
\* code's loop runs to the end with the stored size and there is a chunk at all:
\* a gap, a short chunk in the middle, a missing first chunk and an empty last
\* chunk are judged alike, in every chunk table the handlers can build.
ScanAgrees ==
    \A f \in Files :
        (ListChunksByFile(chunk, f) # {} /\ Contiguous(chunk, f))
        <=>
        (Len(InOrder(f)) # 0 /\ Scan(f) = currentStoredSize(chunk, f))
=============================================================================
