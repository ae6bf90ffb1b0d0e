----------------------------- MODULE MCHandoff ------------------------------
EXTENDS Handoff
=============================================================================
