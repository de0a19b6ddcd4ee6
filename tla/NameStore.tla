----------------------------- MODULE NameStore -----------------------------
(***************************************************************************)
(* What a tree of domain names promises.  known is the set of names that   *)
(* the callers were told are in the tree, dict the set of names that a     *)
(* search finds: an operation that its caller sees succeed changes both by *)
(* its own name, and one that fails changes neither.  Names are in         *)
(* canonical form, so that names that differ in case only are one name.    *)
(***************************************************************************)
CONSTANT Name
VARIABLES dict, known

Init == dict = {} /\ known = {}
Create(d) == d \notin known /\ known' = known \cup {d} /\ dict' = dict \cup {d}
Delete(d) == d \in known /\ known' = known \ {d} /\ dict' = dict \ {d}
Clear == known' = {} /\ dict' = {}
Next == Clear \/ \E d \in Name : Create(d) \/ Delete(d)
Spec == Init /\ [][Next]_<<dict, known>>
=============================================================================
