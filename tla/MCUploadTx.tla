----------------------------- MODULE MCUploadTx -----------------------------
(***************************************************************************)
(* A small instance of UploadTx.                                           *)
(***************************************************************************)
EXTENDS UploadTx, TLC

CONSTANTS f1, d1, n1

\* A full first chunk, written to the only node.
Report ==
    [index |-> 0, size |-> ChunkSize, status |-> "persisted", sumReady |-> TRUE,
     data |-> d1, replicas |-> (n1 :> "ready")]

\* The chunk with a verified checksum, and without.
MCRequests == {Report, [Report EXCEPT !.sumReady = FALSE]}

\* One file that uses every chunk id.
MCOneFile == (f1 :> Chunks)

\* Requests without a status guard, which take every file.
MCExpected == {{}}

MCSymmetry == Permutations(Sessions) \cup Permutations(Chunks)
=============================================================================
