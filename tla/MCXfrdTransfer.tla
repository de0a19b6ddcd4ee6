--------------------------- MODULE MCXfrdTransfer ---------------------------
(* A small instance of XfrdTransfer: two zones that share a master that is *)
(* asked over UDP first; one of them has a second master, for TCP only.    *)
EXTENDS XfrdTransfer

CONSTANTS z1, z2, a, b

MCZone == {z1, z2}
MCAcl == {a, b}
MCMasterList == [z \in Zone |-> IF z = z1 THEN <<a, b>> ELSE <<a>>]
MCNewList == [z \in Zone |-> <<b, a>>]
MCAddress == [m \in Acl |-> m]
=============================================================================
