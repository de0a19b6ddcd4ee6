------------------------- MODULE MCXfrdNotifyRepat --------------------------
EXTENDS XfrdNotifyRepat
CONSTANTS z1, z2, z3
MCZone == {z1, z2, z3}
MCZoneOrder == <<z1, z2, z3>>
MCAclLen == {0, 2}
MCSerial == {0}
=============================================================================
