----------------------------- MODULE MCSignals ------------------------------
EXTENDS Signals
=============================================================================
