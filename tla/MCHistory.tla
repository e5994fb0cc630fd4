----------------------------- MODULE MCHistory ------------------------------
EXTENDS History
OutsideMemory == -100
=============================================================================
