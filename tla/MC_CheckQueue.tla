---------------------------- MODULE MC_CheckQueue ----------------------------
EXTENDS CheckQueue

CONSTANTS w1, w2, c1, c2, c3

MC_Workers == {w1, w2}
MC_Checks == {c1, c2, c3}
MC_Bad == {c1}
=============================================================================
