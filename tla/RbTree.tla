------------------------------- MODULE RbTree -------------------------------
(***************************************************************************)
(* The red-black tree (rbtree.c) under the zone options, the events, the   *)
(* transfers and the NSEC3 chains.  A node belongs to its user, who        *)
(* embeds it in a larger structure: a node is known by its key here, and 0 *)
(* is RBTREE_NULL, the one black sentinel that all the trees share.        *)
(***************************************************************************)
EXTENDS Integers, Sequences, FiniteSets

CONSTANT RbKey      \* the keys; numbers above 0, in the order of cmp

ASSUME RbKeyAssumption == RbKey \subseteq Nat \ {0}

VARIABLE rb

RBTREE_NULL == 0
Unlinked == [parent |-> 0, left |-> 0, right |-> 0, color |-> "BLACK"]
RbEmpty == [root |-> 0, count |-> 0, n |-> [x \in RbKey \cup {0} |-> Unlinked], bad |-> {}]

Opposite(s) == IF s = "left" THEN "right" ELSE "left"
Color(t, x) == t.n[x].color
SideOf(t, x, p) == IF t.n[p].right = x THEN "right" ELSE "left"
Paint(t, x, c) == [t EXCEPT !.n[x].color = c]
RbRequire(t, cond, where) == IF cond THEN t ELSE [t EXCEPT !.bad = @ \cup {where}]

\* rbtree_rotate_left for "left", rbtree_rotate_right for "right".
rbtree_rotate(t, x, s) ==
    LET o == Opposite(s)
        c == t.n[x][o]
        g == t.n[c][s]
        p == t.n[x].parent
        u == [t EXCEPT !.n[x][o] = g, !.n[c].parent = p]
        v == IF g # 0 THEN [u EXCEPT !.n[g].parent = x] ELSE u
        w == IF p = 0 THEN [v EXCEPT !.root = c]
             ELSE [v EXCEPT !.n[p][IF t.n[p][s] = x THEN s ELSE o] = c]
    IN  [w EXCEPT !.n[c][s] = x, !.n[x].parent = c]
-----------------------------------------------------------------------------
\* Insertion.

RECURSIVE rbtree_insert_fixup(_, _)
rbtree_insert_fixup(t, x) ==
    LET p == t.n[x].parent
        g == t.n[p].parent
        s == IF t.n[g].left = p THEN "left" ELSE "right"
        uncle == t.n[g][Opposite(s)]
        inner == x = t.n[p][Opposite(s)]
        u == IF inner THEN rbtree_rotate(t, p, s) ELSE t
        y == IF inner THEN p ELSE x
        q == u.n[y].parent
    IN  IF x = t.root \/ Color(t, p) # "RED" THEN Paint(t, t.root, "BLACK")
        ELSE IF Color(t, uncle) = "RED"
        THEN rbtree_insert_fixup(Paint(Paint(Paint(t, p, "BLACK"), uncle, "BLACK"), g, "RED"), g)
        ELSE rbtree_insert_fixup(
                rbtree_rotate(Paint(Paint(u, q, "BLACK"), u.n[q].parent, "RED"),
                              u.n[q].parent, Opposite(s)), y)

\* The parent for a new key k, searched from x below parent p; found when k is
\* in the tree already.
RECURSIVE FindParent(_, _, _, _)
FindParent(t, k, x, p) ==
    IF x = 0 THEN [found |-> FALSE, parent |-> p]
    ELSE IF k = x THEN [found |-> TRUE, parent |-> p]
    ELSE FindParent(t, k, IF k < x THEN t.n[x].left ELSE t.n[x].right, x)

rbtree_insert(t, k) ==
    LET f == FindParent(t, k, t.root, 0)
        p == f.parent
        u == [t EXCEPT !.count = @ + 1,
                       !.n[k] = [parent |-> p, left |-> 0, right |-> 0, color |-> "RED"]]
        v == IF p = 0 THEN [u EXCEPT !.root = k]
             ELSE [u EXCEPT !.n[p][IF k < p THEN "left" ELSE "right"] = k]
    IN  IF f.found THEN t ELSE rbtree_insert_fixup(v, k)
-----------------------------------------------------------------------------
\* Search and walks.

RECURSIVE LessEqualBelow(_, _, _, _)
LessEqualBelow(t, k, x, best) ==
    IF x = 0 THEN [exact |-> FALSE, node |-> best]
    ELSE IF k = x THEN [exact |-> TRUE, node |-> x]
    ELSE IF k < x THEN LessEqualBelow(t, k, t.n[x].left, best)
    ELSE LessEqualBelow(t, k, t.n[x].right, x)

rbtree_find_less_equal(t, k) == LessEqualBelow(t, k, t.root, 0)
rbtree_search(t, k) == LET r == rbtree_find_less_equal(t, k) IN IF r.exact THEN r.node ELSE 0

RECURSIVE Outermost(_, _, _)
Outermost(t, x, s) == IF t.n[x][s] = 0 THEN x ELSE Outermost(t, t.n[x][s], s)
rbtree_first(t) == Outermost(t, t.root, "left")
rbtree_last(t) == Outermost(t, t.root, "right")

\* Up from x until it is not child s of its parent.
RECURSIVE UpFrom(_, _, _)
UpFrom(t, x, s) ==
    LET p == t.n[x].parent IN IF p # 0 /\ x = t.n[p][s] THEN UpFrom(t, p, s) ELSE p
Neighbour(t, x, s) ==
    IF t.n[x][s] # 0 THEN Outermost(t, t.n[x][s], Opposite(s)) ELSE UpFrom(t, x, s)
rbtree_next(t, x) == Neighbour(t, x, "right")
rbtree_previous(t, x) == Neighbour(t, x, "left")
-----------------------------------------------------------------------------
\* Deletion.

change_parent_ptr(t, p, old, new) ==
    LET L == t.n[p].left
        R == t.n[p].right
    IN  IF p = 0 THEN [RbRequire(t, t.root = old, "rbtree.c:262") EXCEPT
                          !.root = IF @ = old THEN new ELSE @]
        ELSE [RbRequire(t, {old, new} \cap {L, R} # {}, "rbtree.c:266") EXCEPT
                 !.n[p].left = IF L = old THEN new ELSE L,
                 !.n[p].right = IF R = old THEN new ELSE R]

\* Mutant of change_child_ptr: RBTREE_NULL is a child like another.
ChangeNullToo(t, c, old, new) ==
    [RbRequire(t, t.n[c].parent \in {old, new}, "rbtree.c:274") EXCEPT
        !.n[c].parent = IF @ = old THEN new ELSE @]

change_child_ptr(t, c, old, new) ==
    IF c = 0 THEN t
    ELSE [RbRequire(t, t.n[c].parent \in {old, new}, "rbtree.c:274") EXCEPT
             !.n[c].parent = IF @ = old THEN new ELSE @]

\* Exchange the places of d and m, the smallest node of d's right subtree.
Exchange(t, d, m) ==
    LET direct == t.n[d].right = m
        c1 == [t EXCEPT !.n[d].color = t.n[m].color, !.n[m].color = t.n[d].color]
        p1 == change_parent_ptr(c1, c1.n[d].parent, d, m)
        p2 == IF direct THEN p1 ELSE change_parent_ptr(p1, p1.n[m].parent, m, d)
        k1 == change_child_ptr(change_child_ptr(p2, p2.n[m].left, m, d), p2.n[m].right, m, d)
        k2 == change_child_ptr(k1, k1.n[d].left, d, m)
        k3 == IF direct THEN [k2 EXCEPT !.n[d].right = d, !.n[m].parent = m]
              ELSE change_child_ptr(k2, k2.n[d].right, d, m)
    IN  [k3 EXCEPT !.n[d] = [k3.n[m] EXCEPT !.color = k3.n[d].color],
                   !.n[m] = [k3.n[d] EXCEPT !.color = k3.n[m].color]]

Sibling(t, c, p) == IF t.n[p].right = c THEN t.n[p].left ELSE t.n[p].right
AllBlack(t, s) ==
    \A y \in {s, t.n[s].left, t.n[s].right} : Color(t, y) = "BLACK"
PaintRed(t, s) == IF s = 0 THEN t ELSE Paint(t, s, "RED")

\* The final rotation: sibling s of c is black, and its outer child is red.
Rebalance(t, c, p, s) ==
    LET side  == SideOf(t, c, p)
        outer == t.n[s][Opposite(side)]
        u == Paint(Paint(RbRequire(t, Color(t, outer) = "RED", "rbtree.c:447"),
                         s, Color(t, p)), p, "BLACK")
    IN  rbtree_rotate(Paint(u, outer, "BLACK"), p, side)

\* Only the inner child of s is red: rotate at s first.
RotateAtSibling(t, c, p, s) ==
    LET side  == SideOf(t, c, p)
        inner == t.n[s][side]
        outer == t.n[s][Opposite(side)]
        u == rbtree_rotate(Paint(Paint(t, s, "RED"), inner, "BLACK"), s, Opposite(side))
    IN  IF Color(t, s) = "BLACK" /\ Color(t, inner) = "RED" /\ Color(t, outer) = "BLACK"
        THEN Rebalance(u, c, p, Sibling(u, c, p))
        ELSE Rebalance(t, c, p, s)

RECURSIVE rbtree_delete_fixup(_, _, _)
rbtree_delete_fixup(t, c, p) ==
    LET s0 == Sibling(t, c, p)
        u  == IF Color(t, s0) = "RED"
              THEN rbtree_rotate(Paint(Paint(t, p, "RED"), s0, "BLACK"), p, SideOf(t, c, p))
              ELSE t
        s  == Sibling(u, c, p)
    IN  IF p = 0 THEN t
        ELSE IF Color(u, p) = "BLACK" /\ AllBlack(u, s)
        THEN rbtree_delete_fixup(PaintRed(u, s), p, u.n[p].parent)
        ELSE IF Color(u, p) = "RED" /\ AllBlack(u, s)
        THEN Paint(PaintRed(u, s), p, "BLACK")
        ELSE RotateAtSibling(RbRequire(u, s # 0, "rbtree.c:413"), c, p, s)

RbUnlink(t, d) ==
    LET c == IF t.n[d].left # 0 THEN t.n[d].left ELSE t.n[d].right
        p == t.n[d].parent
        u == change_child_ptr(change_parent_ptr(
                RbRequire(t, 0 \in {t.n[d].left, t.n[d].right}, "rbtree.c:328"), p, d, c), c, d, p)
        v == IF Color(u, d) = "RED" THEN u
             ELSE IF Color(u, c) = "RED" THEN Paint(u, c, "BLACK")
             ELSE rbtree_delete_fixup(u, c, p)
    IN  [v EXCEPT !.n[d] = Unlinked, !.count = @ - 1]

rbtree_delete(t, k) ==
    LET d == rbtree_search(t, k)
        m == Outermost(t, t.n[d].right, "left")
    IN  IF d = 0 THEN t
        ELSE IF t.n[d].left # 0 /\ t.n[d].right # 0 THEN RbUnlink(Exchange(t, d, m), d)
        ELSE RbUnlink(t, d)
-----------------------------------------------------------------------------
RbInit == rb = RbEmpty
RbInsert(k) == rb' = rbtree_insert(rb, k)
RbDelete(k) == rb' = rbtree_delete(rb, k)
RbNext == \E k \in RbKey : RbInsert(k) \/ RbDelete(k)
-----------------------------------------------------------------------------
\* Properties.

\* The nodes that can be reached from x.
RECURSIVE Below(_, _)
Below(t, x) == IF x = 0 THEN {} ELSE {x} \cup Below(t, t.n[x].left) \cup Below(t, t.n[x].right)
RbKeys == Below(rb, rb.root)

\* The number of black nodes on every path below x, or -1 when paths differ.
RECURSIVE BlackHeight(_, _)
BlackHeight(t, x) ==
    LET l == BlackHeight(t, t.n[x].left)
        r == BlackHeight(t, t.n[x].right)
    IN  IF x = 0 THEN 0 ELSE IF l # r \/ l < 0 THEN -1
        ELSE l + (IF Color(t, x) = "BLACK" THEN 1 ELSE 0)

\* The tree stays balanced: a red node has black children and every path has as
\* many black nodes.
Balanced(t) ==
    /\ Color(t, t.root) = "BLACK"
    /\ \A x \in RbKeys : Color(t, x) = "RED" =>
        Color(t, t.n[x].left) = "BLACK" /\ Color(t, t.n[x].right) = "BLACK"
    /\ BlackHeight(t, t.root) >= 0

\* Walks and searches are in the order of the keys, at the ends too.
InOrder(t) ==
    LET least(S) == IF S = {} THEN 0 ELSE CHOOSE x \in S : \A y \in S : x <= y
        most(S)  == IF S = {} THEN 0 ELSE CHOOSE x \in S : \A y \in S : x >= y
    IN  /\ rbtree_first(t) = least(RbKeys) /\ rbtree_last(t) = most(RbKeys)
        /\ \A x \in RbKeys : /\ rbtree_next(t, x) = least({y \in RbKeys : y > x})
                             /\ rbtree_previous(t, x) = most({y \in RbKeys : y < x})
        /\ \A k \in RbKey : rbtree_find_less_equal(t, k) =
                [exact |-> k \in RbKeys, node |-> most({y \in RbKeys : y <= k})]

\* However insertions and deletions are mixed, the tree is balanced and in order,
\* count is the number of nodes, so that no fixup loses a node, no assertion fails, and the fixups write neither
\* to the sentinel RBTREE_NULL, which is in every tree of the process, nor to a
\* node that is in no tree.
RbSound ==
    /\ rb.bad = {} /\ rb.count = Cardinality(RbKeys)
    /\ Balanced(rb) /\ InOrder(rb)
    /\ \A x \in (RbKey \cup {0}) \ RbKeys : rb.n[x] = Unlinked
=============================================================================
