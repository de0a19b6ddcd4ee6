------------------------------ MODULE RadNode ------------------------------
(***************************************************************************)
(* The nodes of NSD's radix trees and the walks over them, shared by the   *)
(* tree in memory (radtree.c) and the tree in the database file            *)
(* (udbradtree.c): search, closest smaller key, next and previous, and the *)
(* conversion of domain names to keys.                                     *)
(*                                                                         *)
(* A tree is a record with root, count and heap; heap maps a node to its   *)
(* elem, parent, pidx, offset and lookup array.  A pointer is a number,    *)
(* Null is 0.  A lookup array is a sequence of [str, node] entries; entry  *)
(* i of the code is array[i + 1] here, and len is the length of array.     *)
(* An element is <<e>>, no element is <<>>.  A domain name is the sequence *)
(* of its labels, leftmost first, without the root label.                  *)
(***************************************************************************)
EXTENDS NameOrder, FiniteSets, SequencesExt, FiniteSetsExt

CONSTANT
    Radix       \* number of byte values (256 in the code)

ASSUME AlphabetAssumption ==
    /\ Radix \in Nat /\ UpperA \in 1..Radix - 1 /\ UpperZ \in UpperA..Radix - 1
    /\ LowerA \in UpperZ + 1..Radix - 1
    /\ LowerA + (UpperZ - UpperA) \in 0..Radix - 1

Null == 0
NoElem == <<>>
EmptySel == [str |-> <<>>, node |-> Null]
-----------------------------------------------------------------------------
\* Reading one node.

NodeLen(t, n) == Len(t.heap[n].array)
HasElem(t, n) == t.heap[n].elem # NoElem
Sel(t, n, byte) == t.heap[n].array[byte - t.heap[n].offset + 1]
InLookup(t, n, byte) ==
    byte \in t.heap[n].offset .. t.heap[n].offset + NodeLen(t, n) - 1

\* memcmp of two byte strings of the same length.
Memcmp(x, y) ==
    LET d == {i \in DOMAIN x : x[i] # y[i]}
        i == CHOOSE j \in d : \A h \in d : j <= h
    IN  CASE d = {} -> 0 [] d # {} /\ x[i] < y[i] -> -1 [] OTHER -> 1

\* The first node of s that is not Null.
FirstHit(s) ==
    LET i == SelectInSeq(s, LAMBDA n : n # Null) IN IF i = 0 THEN Null ELSE s[i]
-----------------------------------------------------------------------------
\* Walks through subtrees, and up again.

RECURSIVE radnode_last_in_subtree(_, _)
RECURSIVE radnode_last_in_subtree_incl_self(_, _)
RECURSIVE radnode_first_in_subtree(_, _)
RECURSIVE radix_prev(_, _)
RECURSIVE NextAbove(_, _)

\* The last element among the entries idx-1 .. 0 of n.
radnode_find_prev_from_idx(t, n, from) ==
    FirstHit([i \in 1..from |->
                radnode_last_in_subtree_incl_self(t, t.heap[n].array[from - i + 1].node)])

radnode_last_in_subtree(t, n) == radnode_find_prev_from_idx(t, n, NodeLen(t, n))

radnode_last_in_subtree_incl_self(t, n) ==
    IF n = Null THEN Null
    ELSE FirstHit(<<radnode_last_in_subtree(t, n), IF HasElem(t, n) THEN n ELSE Null>>)

\* The first element in the subtree of entry idx (0-based) of n or a later entry.
FirstFromIdx(t, n, idx) ==
    FirstHit([i \in 1..NodeLen(t, n) - idx |->
        LET c == t.heap[n].array[idx + i].node
        IN  CASE c = Null -> Null
              [] c # Null /\ HasElem(t, c) -> c
              [] OTHER -> radnode_first_in_subtree(t, c)])

radnode_first_in_subtree(t, n) == FirstFromIdx(t, n, 0)

radix_prev(t, n) ==
    LET p == t.heap[n].parent
    IN  IF p = Null THEN Null
        ELSE FirstHit(<<radnode_find_prev_from_idx(t, p, t.heap[n].pidx),
                        IF HasElem(t, p) THEN p ELSE radix_prev(t, p)>>)

NextAbove(t, n) ==
    LET p == t.heap[n].parent
    IN  IF p = Null THEN Null
        ELSE FirstHit(<<FirstFromIdx(t, p, t.heap[n].pidx + 1), NextAbove(t, p)>>)

radix_next(t, n) == FirstHit(<<radnode_first_in_subtree(t, n), NextAbove(t, n)>>)

radix_first(t) ==
    CASE t.root = Null -> Null
      [] t.root # Null /\ HasElem(t, t.root) -> t.root
      [] OTHER -> radix_next(t, t.root)

radix_last(t) ==
    IF t.root = Null THEN Null ELSE radnode_last_in_subtree_incl_self(t, t.root)

ret_self_or_prev(t, n) == IF HasElem(t, n) THEN n ELSE radix_prev(t, n)
LastOrPrev(t, n) == FirstHit(<<radnode_last_in_subtree_incl_self(t, n), radix_prev(t, n)>>)
-----------------------------------------------------------------------------
\* Search by key.

\* Byte k[pos + 1] selects an entry of n whose string matches the key as well.
Follows(t, n, k, pos) ==
    /\ pos < Len(k) /\ InLookup(t, n, k[pos + 1])
    /\ LET s == Sel(t, n, k[pos + 1]).str IN IsPrefix(s, SubSeq(k, pos + 2, Len(k)))
PosAfter(t, n, k, pos) == pos + 1 + Len(Sel(t, n, k[pos + 1]).str)

\* The deepest whole node whose key is a prefix of k, with the length it matches.
RECURSIVE PrefixNode(_, _, _, _)
PrefixNode(t, k, n, pos) ==
    IF Follows(t, n, k, pos) /\ Sel(t, n, k[pos + 1]).node # Null
    THEN PrefixNode(t, k, Sel(t, n, k[pos + 1]).node, PosAfter(t, n, k, pos))
    ELSE [node |-> n, pos |-> pos]

radix_find_prefix_node(t, k) ==
    IF t.root = Null THEN [node |-> Null, pos |-> 0] ELSE PrefixNode(t, k, t.root, 0)

\* The node at which all of k is matched, with or without an element.
RECURSIVE NodeAt(_, _, _, _)
NodeAt(t, k, n, pos) ==
    CASE n = Null -> Null
      [] n # Null /\ pos = Len(k) -> n
      [] n # Null /\ pos # Len(k) /\ ~Follows(t, n, k, pos) -> Null
      [] OTHER -> NodeAt(t, k, Sel(t, n, k[pos + 1]).node, PosAfter(t, n, k, pos))

radix_search(t, k) ==
    LET n == NodeAt(t, k, t.root, 0)
    IN  IF n # Null /\ HasElem(t, n) THEN n ELSE Null

RECURSIVE LessEqualFrom(_, _, _, _)
LessEqualFrom(t, k, n, pos) ==
    LET sel  == Sel(t, n, k[pos + 1])
        rest == SubSeq(k, pos + 2, Len(k))
        cmp  == IF Len(sel.str) > Len(rest) THEN Memcmp(rest, SubSeq(sel.str, 1, Len(rest)))
                                             ELSE Memcmp(SubSeq(rest, 1, Len(sel.str)), sel.str)
        less(m) == [exact |-> FALSE, node |-> m]
    IN  IF pos = Len(k)
        THEN [exact |-> HasElem(t, n), node |-> ret_self_or_prev(t, n)]
        ELSE IF k[pos + 1] < t.heap[n].offset THEN less(ret_self_or_prev(t, n))
        ELSE IF ~InLookup(t, n, k[pos + 1]) THEN less(LastOrPrev(t, n))
        ELSE IF sel.node = Null
        THEN less(FirstHit(<<radnode_find_prev_from_idx(t, n, k[pos + 1] - t.heap[n].offset),
                             ret_self_or_prev(t, n)>>))
        ELSE IF sel.str # <<>> /\ Len(sel.str) > Len(rest) /\ cmp <= 0
        THEN less(radix_prev(t, sel.node))
        ELSE IF sel.str # <<>> /\ Len(sel.str) <= Len(rest) /\ cmp < 0
        THEN less(radix_prev(t, sel.node))
        ELSE IF sel.str # <<>> /\ cmp > 0 THEN less(LastOrPrev(t, sel.node))
        ELSE LessEqualFrom(t, k, sel.node, PosAfter(t, n, k, pos))

radix_find_less_equal(t, k) ==
    IF t.root = Null THEN [exact |-> FALSE, node |-> Null]
    ELSE LessEqualFrom(t, k, t.root, 0)
-----------------------------------------------------------------------------
\* Domain names as keys: lowercased, labels from the right, 0 between labels.

char_d2r(c) ==
    IF c < UpperA THEN c + 1 ELSE IF c <= UpperZ THEN c - UpperA + LowerA ELSE c
char_r2d(c) == IF c <= UpperA THEN c - 1 ELSE c

RECURSIVE radname_d2r(_)
radname_d2r(d) ==
    IF d = <<>> THEN <<>>
    ELSE (IF Len(d) = 1 THEN <<>> ELSE radname_d2r(Tail(d)) \o <<0>>)
         \o [i \in DOMAIN d[1] |-> char_d2r(d[1][i])]

\* The labels of a key: cut at the 0 bytes, converted, put in reverse order.
radname_r2d(k) ==
    LET ends == {i \in 1..Len(k) : k[i] = 0} \cup {0, Len(k) + 1}
        label(e) == LET s == CHOOSE x \in ends : x < e /\ \A y \in ends : y < e => y <= x
                    IN  [i \in 1..e - s - 1 |-> char_r2d(k[s + i])]
    IN  IF k = <<>> THEN <<>>
        ELSE Reverse([i \in 1..Cardinality(ends) - 1 |->
                        label(CHOOSE e \in ends : Cardinality({x \in ends : x < e}) = i)])

\* The cursor with which a name is read one byte of its key at a time: lab is
\* the label, lpos how much of it has been read.
StartOf(d) == [lab |-> Len(d), lpos |-> 0]
AtEnd(d, c) == c.lab = 1 /\ c.lpos = Len(d[c.lab])
NextByte(d, c) ==
    IF c.lpos < Len(d[c.lab])
    THEN [byte |-> char_d2r(d[c.lab][c.lpos + 1]), c |-> [c EXCEPT !.lpos = @ + 1]]
    ELSE [byte |-> 0, c |-> [lab |-> c.lab - 1, lpos |-> 0]]

\* Compare the string of an entry with what follows in the name.
RECURSIVE MatchStr(_, _, _)
MatchStr(d, c, str) ==
    IF str = <<>> THEN [cmp |-> "equal", c |-> c]
    ELSE IF AtEnd(d, c) THEN [cmp |-> "less", c |-> c]
    ELSE LET b == NextByte(d, c)
         IN  CASE b.byte < Head(str) -> [cmp |-> "less", c |-> c]
               [] b.byte > Head(str) -> [cmp |-> "greater", c |-> c]
               [] OTHER -> MatchStr(d, b.c, Tail(str))

RECURSIVE NameSearch(_, _, _, _)
NameSearch(t, d, n, c) ==
    LET b   == NextByte(d, c)
        sel == Sel(t, n, b.byte)
        mt  == MatchStr(d, b.c, sel.str)
    IN  IF n = Null THEN Null
        ELSE IF AtEnd(d, c) THEN IF HasElem(t, n) THEN n ELSE Null
        ELSE IF ~InLookup(t, n, b.byte) THEN Null
        ELSE IF mt.cmp # "equal" THEN Null
        ELSE NameSearch(t, d, sel.node, mt.c)

radname_search(t, d) ==
    CASE t.root = Null -> Null
      [] t.root # Null /\ d = <<>> -> IF HasElem(t, t.root) THEN t.root ELSE Null
      [] OTHER -> NameSearch(t, d, t.root, StartOf(d))

RECURSIVE NameLessEqual(_, _, _, _)
NameLessEqual(t, d, n, c) ==
    LET b   == NextByte(d, c)
        sel == Sel(t, n, b.byte)
        mt  == MatchStr(d, b.c, sel.str)
        less(m) == [exact |-> FALSE, node |-> m]
    IN  IF AtEnd(d, c) THEN [exact |-> HasElem(t, n), node |-> ret_self_or_prev(t, n)]
        ELSE IF b.byte < t.heap[n].offset THEN less(ret_self_or_prev(t, n))
        ELSE IF ~InLookup(t, n, b.byte) THEN less(LastOrPrev(t, n))
        ELSE IF sel.node = Null
        THEN less(FirstHit(<<radnode_find_prev_from_idx(t, n, b.byte - t.heap[n].offset),
                             ret_self_or_prev(t, n)>>))
        ELSE IF mt.cmp = "less" THEN less(radix_prev(t, sel.node))
        ELSE IF mt.cmp = "greater" THEN less(LastOrPrev(t, sel.node))
        ELSE NameLessEqual(t, d, sel.node, mt.c)

radname_find_less_equal(t, d) ==
    CASE t.root = Null -> [exact |-> FALSE, node |-> Null]
      [] t.root # Null /\ d = <<>> ->
            IF HasElem(t, t.root) THEN [exact |-> TRUE, node |-> t.root]
                                  ELSE [exact |-> FALSE, node |-> Null]
      [] OTHER -> NameLessEqual(t, d, t.root, StartOf(d))
-----------------------------------------------------------------------------
\* Changing nodes.  An assertion of the code that fails is recorded in bad.

Require(t, cond, where) == IF cond THEN t ELSE [t EXCEPT !.bad = @ \cup {where}]

\* The first unused node.
NewNode(t) == Min(1..Cardinality(DOMAIN t.heap) + 1 \ DOMAIN t.heap)
Alloc(t, n, node) ==
    [t EXCEPT !.heap = [m \in DOMAIN t.heap \cup {n} |-> IF m = n THEN node ELSE t.heap[m]]]
Free(t, n) == [t EXCEPT !.heap = [m \in DOMAIN t.heap \ {n} |-> t.heap[m]]]

SetSel(t, n, idx, str, child) ==
    [t EXCEPT !.heap[n].array[idx + 1] = [str |-> str, node |-> child]]
SetParent(t, child, n, idx) == [t EXCEPT !.heap[child].parent = n, !.heap[child].pidx = idx]
Link(t, n, idx, str, child) == SetParent(SetSel(t, n, idx, str, child), child, n, idx)

\* Every child of n gets the index of its entry.
FixPidx(t, n) ==
    LET idx(m) == SelectInSeq(t.heap[n].array, LAMBDA s : s.node = m)
    IN  [t EXCEPT !.heap = [m \in DOMAIN t.heap |->
            IF idx(m) # 0 THEN [t.heap[m] EXCEPT !.pidx = idx(m) - 1] ELSE t.heap[m]]]

\* The entries of n that lead to a node.
Used(t, n) == {i \in 1..NodeLen(t, n) : t.heap[n].array[i].node # Null}

bstr_is_prefix(p, x) == IsPrefix(p, x)
bstr_common(x, y) ==
    Max({i \in 0..Min({Len(x), Len(y)}) : SubSeq(x, 1, i) = SubSeq(y, 1, i)})
radsel_prefix_remainder(plen, l) == SubSeq(l, plen + 1, Len(l))
-----------------------------------------------------------------------------
\* What is asked of a tree t whose callers hold the nodes t.held.

\* Links agree in both directions and every node but the root has a parent.
LinksAgree(t) ==
    \A n \in DOMAIN t.heap :
        LET h == t.heap[n]
        IN  /\ IF h.parent = Null THEN t.root = n
               ELSE /\ h.pidx < NodeLen(t, h.parent)
                    /\ t.heap[h.parent].array[h.pidx + 1].node = n
            /\ \A i \in 1..NodeLen(t, n) :
                IF h.array[i].node = Null THEN h.array[i] = EmptySel
                ELSE t.heap[h.array[i].node].parent = n /\ t.heap[h.array[i].node].pidx = i - 1

\* Arrays begin and end with an entry in use, and a node without an element,
\* other than the root, has two children or more.
Compact(t) ==
    \A n \in DOMAIN t.heap :
        /\ NodeLen(t, n) > 0 => {1, NodeLen(t, n)} \subseteq Used(t, n)
        /\ HasElem(t, n) \/ Cardinality(Used(t, n)) >= (IF n = t.root THEN 1 ELSE 2)

HandlesStay(t) ==
    /\ t.count = Cardinality(DOMAIN t.held)
    /\ \A c \in DOMAIN t.held : t.held[c] \in DOMAIN t.heap /\ t.heap[t.held[c]].elem = <<c>>

\* r is the answer to a search of the name d or the name before it.
IsLessEqual(t, d, r) ==
    LET below == NotAfter(DOMAIN t.held, d)
    IN  /\ r.exact = (Canon(d) \in DOMAIN t.held)
        /\ IF below = {} THEN r.node = Null
           ELSE r.node \in DOMAIN t.heap /\ IsGreatest(below, t.heap[r.node].elem[1])

\* A walk that begins at first and goes on with next visits the names in order.
ForwardInOrder(t, first, next(_, _)) ==
    LET names == DOMAIN t.held
    IN  /\ (names = {}) = (first = Null)
        /\ names # {} => \A c \in names : ~NameLess(c, t.heap[first].elem[1])
        /\ \A c \in names :
            LET nxt == next(t, t.held[c])
            IN  IF IsGreatest(names, c) THEN nxt = Null
                ELSE /\ nxt \in DOMAIN t.heap
                     /\ IsGreatest(Before(names, t.heap[nxt].elem[1]), c)

\* A walk that begins at last and goes on with prev visits them in reverse.
BackwardInOrder(t, last, prev(_, _)) ==
    LET names == DOMAIN t.held
    IN  /\ (names = {}) = (last = Null)
        /\ names # {} => IsGreatest(names, t.heap[last].elem[1])
        /\ \A c \in names :
            LET prv == prev(t, t.held[c])
            IN  IF Before(names, c) = {} THEN prv = Null
                ELSE prv \in DOMAIN t.heap /\ IsGreatest(Before(names, c), t.heap[prv].elem[1])
=============================================================================
