----------------------------- MODULE MCKitchen ------------------------------
EXTENDS Kitchen
=============================================================================
