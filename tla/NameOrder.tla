----------------------------- MODULE NameOrder -----------------------------
(***************************************************************************)
(* Domain names and their canonical order (RFC 4034, section 6.1): names   *)
(* are compared label by label from the right and without regard to case,  *)
(* and a name comes before the names below it.  A name is the sequence of  *)
(* its labels, leftmost first, without the root label.                     *)
(***************************************************************************)
EXTENDS Integers, Sequences

CONSTANTS
    UpperA,     \* 'A'
    UpperZ,     \* 'Z'
    LowerA      \* 'a'

Lower(c) == IF c \in UpperA..UpperZ THEN c - UpperA + LowerA ELSE c
Canon(d) == [i \in DOMAIN d |-> [j \in DOMAIN d[i] |-> Lower(d[i][j])]]

\* Lexicographic order of sequences of numbers.
SeqLess(x, y) ==
    \E i \in 1..Len(y) :
        /\ i <= Len(x) + 1
        /\ \A j \in 1..i - 1 : x[j] = y[j]
        /\ i <= Len(x) => x[i] < y[i]

\* Label number i from the right.
FromRight(d, i) == d[Len(d) + 1 - i]
NameLess(x, y) ==
    \E i \in 1..Len(y) :
        /\ i <= Len(x) + 1
        /\ \A j \in 1..i - 1 : FromRight(x, j) = FromRight(y, j)
        /\ i <= Len(x) => SeqLess(FromRight(x, i), FromRight(y, i))

\* The names of S that are not after d, and those before it.
NotAfter(S, d) == {x \in S : x = Canon(d) \/ NameLess(x, Canon(d))}
Before(S, d) == {x \in S : NameLess(x, Canon(d))}
IsGreatest(S, x) == x \in S /\ \A y \in S : y = x \/ NameLess(y, x)
=============================================================================
