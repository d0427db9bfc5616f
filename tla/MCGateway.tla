------------------------------ MODULE MCGateway ------------------------------
(***************************************************************************)
(* Values for the constants of Gateway.                                    *)
(***************************************************************************)
EXTENDS Gateway, TLC

const_Callers == Uploads \cup Deletes

const_Data == Uploads \X (0..MaxIndex)

const_Chunks == (Bases \X (0..MaxIndex)) \cup {<<b>> : b \in Bases}

\* Bound: two delete requests come when the only upload is over, with no download
\* beside them; with a fault or a heartbeat, the second when the first is over.
Bound ==
    (\A d \in Deletes : delete[d].pc # "idle") =>
        /\ \A g \in Downloads : download[g].pc = "idle"
        /\ \A u \in Uploads : upload[u].pc \in {"idle", "done", "failed"}
        /\ Cardinality({u \in Uploads : upload[u].pc # "idle"}) <= 1
        /\ faults + beats = 0 \/ \E d \in Deletes : delete[d].pc \in {"done", "failed"}

Symmetry ==
    Permutations(Files) \cup Permutations(Uploads) \cup Permutations(Deletes)
        \cup Permutations(Bases)
=============================================================================
