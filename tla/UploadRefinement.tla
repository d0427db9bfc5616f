-------------------------- MODULE UploadRefinement --------------------------
(***************************************************************************)
(* Upload implements ObjectStore: the object a file publishes is the       *)
(* content of its chunks while the file is available.                      *)
(***************************************************************************)
EXTENDS Upload

\* A whole object: from index 0 on without a gap, one content for each index.
WholeObjects ==
    {o \in SUBSET (Indices \X Data) :
        /\ o # {}
        /\ \A p, q \in o : p[1] = q[1] => p = q
        /\ \A p \in o : \A i \in 0..p[1] : \E q \in o : q[1] = i}

published ==
    [f \in Files |-> IF file[f].status = "available" THEN Content(chunk, f) ELSE None]

Objects == INSTANCE ObjectStore WITH Objects <- WholeObjects

\* Readers of available files see whole objects that never change in place:
\* the upload handlers only ever publish a complete file and every handler that
\* touches a published file's chunks takes the file out of "available" first.  This
\* is about handlers that do not overlap: a later commit of an earlier snapshot may
\* put an earlier object back.
ImplementsObjectStore == Objects!Spec

-----------------------------------------------------------------------------
\* The inductive invariant behind ImplementsObjectStore and AvailableIsReadable
\* when files do not share chunk ids, in three parts.

\* A chunk row belongs to a file whose uploads use its id.
ChunkOwners ==
    \A c \in Chunks : chunk[c].file # None => c \in ChunkIDs[chunk[c].file]

\* A file has one chunk for an index: (file_id, chunk_index) is a key.
UniqueIndices ==
    \A c, d \in Chunks :
        chunk[c].file # None /\ chunk[c].file = chunk[d].file
            /\ chunk[c].index = chunk[d].index => c = d

\* What VerifyUpload has established of a file with row fr over the chunks ck.
Whole(fr, ck, f) ==
    /\ ListChunksByFile(ck, f) # {}
    /\ Contiguous(ck, f)
    /\ currentStoredSize(ck, f) = fr.size
    /\ fr.checksum # None
    /\ \A c \in ListChunksByFile(ck, f) :
          /\ ck[c].status = "available"
          /\ ck[c].sumReady
          /\ healthyReplicaCount(ck[c]) >= requiredReplicas

PublishedWhole ==
    \A f \in Files : file[f].status = "available" => Whole(file[f], chunk, f)

\* It is preserved by every handler, of the same file and of the others: no two
\* chunks of a file at one index, no chunk under an id of another file, and
\* every available file whole.
InductiveInvariant == TypeOK /\ ChunkOwners /\ UniqueIndices /\ PublishedWhole
=============================================================================
