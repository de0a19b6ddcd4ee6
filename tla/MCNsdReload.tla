--------------------------- MODULE MCNsdReload -----------------------------
(* Instances of the reload protocol for TLC.                               *)
EXTENDS NsdReload, TLC

CONSTANTS c1, c2

MCChild == {c1, c2}
MCOneChild == {c1}

NoCrash == {}
ReloadDies == {"reload"}
HelpersDie == {"child", "reload"}
AnyDies == {"child", "reload", "main"}

Symmetry == Permutations(MCChild)

=============================================================================
