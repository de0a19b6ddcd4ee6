---------------------------- MODULE MCXfrdNotify ----------------------------
EXTENDS XfrdNotify, TLC
CONSTANTS z1, z2, z3
MCZone == {z1, z2, z3}
MCAclLen == {0, 1, 2}
MCAclLen0 == {0, 2}
MCSerial == {0, 1}
Symmetry == Permutations(MCZone)
=============================================================================
