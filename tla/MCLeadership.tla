----------------------------- MODULE MCLeadership -----------------------------
EXTENDS Leadership
=============================================================================
