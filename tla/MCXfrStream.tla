---------------------------- MODULE MCXfrStream -----------------------------
(* An instance of XfrStream: the versions of the zone, with a serial that  *)
(* wraps, and with two differences in a row over which it does not.        *)
EXTENDS XfrStream

MCStarts == {[versions |-> <<7, 0, 1>>, served |-> TRUE], [versions |-> <<0, 1, 2>>, served |-> FALSE]}
MCContent == (7 :> {1} @@ 0 :> {1, 2} @@ 1 :> {2} @@ 2 :> {1})
MCFaults == [disk |-> 1, task |-> 1, damage |-> 1, error |-> 1, cut |-> 1, expire |-> 1]
=============================================================================
