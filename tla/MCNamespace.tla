---- MODULE MCNamespace ----
EXTENDS Namespace

\* Two plain names and one with a backslash.
const_Names == {<<"a">>, <<"b">>, <<"a\\b">>}
const_Escaped == {"a\\b"}

\* The ids are interchangeable; the names are not needed as a symmetry.
Symmetry == Permutations(Inodes \ {Root}) \cup Permutations(Clients) \cup Permutations(Files)
====
