---------------------------- MODULE MCXfrdLease ----------------------------
(* The lease of a zone, with each kind of event at most once.              *)
EXTENDS XfrdLease

MCFaults ==
  [f \in {"serial", "notify", "hup", "reload", "stop"} |-> 1]
=============================================================================
