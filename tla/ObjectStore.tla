---------------------------- MODULE ObjectStore -----------------------------
(***************************************************************************)
(* What the upload service promises its readers: a file is either not      *)
(* published or published with one whole object.  Publishing and           *)
(* retracting are atomic, and a published object does not change in place: *)
(* it has to be retracted before another one takes its place.              *)
(***************************************************************************)
CONSTANTS Files,    \* file identifiers
          Objects,  \* the objects that may be published
          None      \* not published

VARIABLE published  \* for each file the object its readers get, or None

Init == published = [f \in Files |-> None]

Publish(f, o) ==
    /\ published[f] = None
    /\ published' = [published EXCEPT ![f] = o]

Retract(f) ==
    /\ published[f] # None
    /\ published' = [published EXCEPT ![f] = None]

Next == \E f \in Files : Retract(f) \/ \E o \in Objects : Publish(f, o)

Spec == Init /\ [][Next]_published
=============================================================================
