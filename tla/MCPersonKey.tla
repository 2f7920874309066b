---------------------------- MODULE MCPersonKey ----------------------------
EXTENDS PersonKey, TLC
CONSTANTS t1, t2
=============================================================================
