------------------------------ MODULE MCReadCache ------------------------------
EXTENDS ReadCache

\* Nothing is configured: the defaults.
const_TTL == [m \in AllModels \cup {"null"} |-> 0]
=============================================================================
