-------------------------- MODULE MCSharedCounter ---------------------------
EXTENDS SharedCounter
=============================================================================
