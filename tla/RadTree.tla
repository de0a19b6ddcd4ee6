------------------------------ MODULE RadTree ------------------------------
(***************************************************************************)
(* The radix tree in memory (radtree.c): insertion and deletion of names,  *)
(* with the array of every node growing, moving and shrinking.  Allocation *)
(* does not fail: the region allocator exits when memory runs out.         *)
(*                                                                         *)
(* rad.held is what the callers keep: the node that radname_insert         *)
(* returned for a name (domain->rnode, zone->node), which they later hand  *)
(* to radix_delete.  rad.bad collects the assertions that failed.          *)
(***************************************************************************)
EXTENDS RadNode

CONSTANTS
    Name,       \* the names inserted and looked up
    MaxNames    \* at most so many names in the tree

ASSUME NameAssumption ==
    /\ MaxNames \in Nat
    /\ \A d \in Name : \A i \in DOMAIN d : d[i] # <<>> /\ \A j \in DOMAIN d[i] : d[i][j] \in 0..Radix - 1

VARIABLE rad
-----------------------------------------------------------------------------
\* Nodes and their arrays.

Zeroed == [elem |-> NoElem, parent |-> Null, pidx |-> 0, offset |-> 0, capacity |-> 0, array |-> <<>>]
radnode_delete(t, n) == Free(t, n)

radnode_array_grow(t, n, want) ==
    LET cap == t.heap[n].capacity
        ns  == Min({Max({2 * cap, want}), Radix})
    IN  Require([t EXCEPT !.heap[n].capacity = ns],
                want <= Radix /\ NodeLen(t, n) <= cap /\ cap < ns, "radtree.c:195")

GrowIfNeeded(t, n, want) ==
    IF want > t.heap[n].capacity THEN radnode_array_grow(t, n, want) ELSE t

radnode_array_space(t, n, byte) ==
    LET len == NodeLen(t, n)
        off == t.heap[n].offset
        below == off - byte
        above == byte - off - len + 1
        fresh(k) == [i \in 1..k |-> EmptySel]
    IN  IF len = 0
        THEN [t EXCEPT !.heap[n].array = <<EmptySel>>, !.heap[n].offset = byte,
                       !.heap[n].capacity = Max({@, 1})]
        ELSE IF byte < off
        THEN FixPidx([GrowIfNeeded(t, n, len + below) EXCEPT
                        !.heap[n].array = fresh(below) \o @, !.heap[n].offset = byte], n)
        ELSE IF byte - off >= len
        THEN [GrowIfNeeded(t, n, len + above) EXCEPT !.heap[n].array = @ \o fresh(above)]
        ELSE t
-----------------------------------------------------------------------------
\* Insertion.

\* 'add' becomes the parent of r.node.
SplitAbove(t, n, idx, str, add) ==
    LET r == t.heap[n].array[idx + 1]
        b == r.str[Len(str) + 1]
        u == SetParent(radnode_array_space(t, add, b), add, t.heap[r.node].parent, t.heap[r.node].pidx)
    IN  SetSel(Link(u, add, 0, radsel_prefix_remainder(Len(str) + 1, r.str), r.node), n, idx, str, add)

\* 'add' becomes a child of r.node.
SplitBelow(t, n, idx, str, add) ==
    LET r == t.heap[n].array[idx + 1]
        b == str[Len(r.str) + 1]
        u == radnode_array_space(t, r.node, b)
    IN  Link(u, r.node, b - u.heap[r.node].offset, radsel_prefix_remainder(Len(r.str) + 1, str), add)

\* A new node chooses between r.node and 'add'.
SplitCommon(t, n, idx, str, add) ==
    LET r   == t.heap[n].array[idx + 1]
        com == NewNode(t)
        c   == bstr_common(r.str, str)
        u   == radnode_array_space(radnode_array_space(Alloc(t, com, Zeroed), com, r.str[c + 1]), com, str[c + 1])
        off == u.heap[com].offset
        v   == SetParent(u, com, t.heap[r.node].parent, t.heap[r.node].pidx)
        w   == Link(v, com, r.str[c + 1] - off, radsel_prefix_remainder(c + 1, r.str), r.node)
    IN  Require(SetSel(Link(w, com, str[c + 1] - off, radsel_prefix_remainder(c + 1, str), add),
                       n, idx, SubSeq(str, 1, c), com),
                c < Len(r.str) /\ c < Len(str), "radtree.c:422")

radsel_split(t, n, idx, str, add) ==
    LET r == t.heap[n].array[idx + 1]
    IN  IF bstr_is_prefix(str, r.str)
        THEN SplitAbove(Require(t, Len(str) < Len(r.str), "radtree.c:354"), n, idx, str, add)
        ELSE IF bstr_is_prefix(r.str, str)
        THEN SplitBelow(Require(t, Len(r.str) < Len(str), "radtree.c:396"), n, idx, str, add)
        ELSE SplitCommon(t, n, idx, str, add)

\* The tree has no root: 'add' is the root, or the child of a new root.
InsertRoot(t, k, add) ==
    LET n == NewNode(t)
        u == radnode_array_space(Alloc(t, n, Zeroed), n, k[1])
    IN  IF k = <<>> THEN [t EXCEPT !.root = add]
        ELSE [Link(u, n, 0, radsel_prefix_remainder(1, k), add) EXCEPT !.root = n]

\* The node n, which matches pos bytes of k, accommodates 'add'.
InsertBelow(t, k, n, pos, add) ==
    LET byte == k[pos + 1]
        rest == SubSeq(k, pos + 2, Len(k))
        u    == radnode_array_space(t, n, byte)
        idx  == byte - u.heap[n].offset
    IN  IF InLookup(t, n, byte) /\ Sel(t, n, byte).node # Null
        THEN radsel_split(t, n, byte - t.heap[n].offset, rest, add)
        ELSE Link(Require(u, InLookup(u, n, byte), "radtree.c:559"), n, idx, rest, add)

\* The tree with k in it, and the node for it; the node is Null for a duplicate.
radix_insert(t, k, elem) ==
    LET add == NewNode(t)
        a   == Alloc(t, add, [Zeroed EXCEPT !.elem = <<elem>>])
        p   == radix_find_prefix_node(t, k)
        counted(u, n) == [tree |-> [u EXCEPT !.count = @ + 1], node |-> n]
    IN  IF p.node = Null THEN counted(InsertRoot(a, k, add), add)
        ELSE IF p.pos = Len(k) /\ HasElem(t, p.node) THEN [tree |-> t, node |-> Null]
        ELSE IF p.pos = Len(k) THEN counted([t EXCEPT !.heap[p.node].elem = <<elem>>], p.node)
        ELSE counted(InsertBelow(a, k, p.node, p.pos, add), add)

radname_insert(t, d, elem) == radix_insert(t, radname_d2r(d), elem)
-----------------------------------------------------------------------------
\* Deletion.

radnode_cleanup_onechild(t, n, par) ==
    LET pidx  == t.heap[n].pidx
        child == t.heap[n].array[1].node
        join  == t.heap[par].array[pidx + 1].str
                 \o <<t.heap[child].pidx + t.heap[n].offset>> \o t.heap[n].array[1].str
    IN  radnode_delete(Link(t, par, pidx, join, child), n)

radnode_array_clean_all(t, n) ==
    [t EXCEPT !.heap[n].offset = 0, !.heap[n].array = <<>>, !.heap[n].capacity = 0]

radnode_array_reduce_if_needed(t, n) ==
    LET len == NodeLen(t, n)
    IN  IF len <= t.heap[n].capacity \div 2 /\ len # t.heap[n].capacity
        THEN [t EXCEPT !.heap[n].capacity = len] ELSE t

\* Mutant of radnode_array_clean_front: the offset does not move with the array.
CleanFrontSameOffset(t, n) ==
    LET shuf == Min(Used(t, n)) - 1
    IN  IF Used(t, n) = {} THEN radnode_array_clean_all(t, n)
        ELSE FixPidx([t EXCEPT !.heap[n].array = SubSeq(@, shuf + 1, Len(@))], n)

radnode_array_clean_front(t, n) ==
    LET shuf == Min(Used(t, n)) - 1
    IN  IF Used(t, n) = {} THEN radnode_array_clean_all(t, n)
        ELSE IF shuf = 0 THEN t
        ELSE radnode_array_reduce_if_needed(
                FixPidx([t EXCEPT !.heap[n].array = SubSeq(@, shuf + 1, Len(@)),
                                  !.heap[n].offset = @ + shuf], n), n)

radnode_array_clean_end(t, n) ==
    IF Used(t, n) = {} THEN radnode_array_clean_all(t, n)
    ELSE IF Max(Used(t, n)) = NodeLen(t, n) THEN t
    ELSE radnode_array_reduce_if_needed(
            [t EXCEPT !.heap[n].array = SubSeq(@, 1, Max(Used(t, n)))], n)

radnode_cleanup_leaf(t, n, par) ==
    LET pidx == t.heap[n].pidx
        u    == SetSel(radnode_delete(t, n), par, pidx, <<>>, Null)
    IN  IF NodeLen(u, par) = 1 THEN radnode_array_clean_all(u, par)
        ELSE IF pidx = 0 THEN radnode_array_clean_front(u, par)
        ELSE IF pidx = NodeLen(u, par) - 1 THEN radnode_array_clean_end(u, par)
        ELSE u

RECURSIVE radnode_cleanup(_, _)
radnode_cleanup(t, n) ==
    LET par == t.heap[n].parent
    IN  IF HasElem(t, n) THEN t
        ELSE IF NodeLen(t, n) = 1 /\ par # Null THEN radnode_cleanup_onechild(t, n, par)
        ELSE IF NodeLen(t, n) > 0 THEN t
        ELSE IF par = Null THEN [radnode_delete(t, n) EXCEPT !.root = Null]
        ELSE radnode_cleanup(radnode_cleanup_leaf(t, n, par), par)

radix_delete(t, n) ==
    radnode_cleanup([t EXCEPT !.heap[n].elem = NoElem, !.count = @ - 1], n)

radname_delete(t, d) ==
    LET n == radname_search(t, d) IN IF n = Null THEN t ELSE radix_delete(t, n)

\* radnode_del_postorder frees what the root reaches.
RECURSIVE radnode_del_postorder(_, _)
radnode_del_postorder(t, n) ==
    IF n = Null THEN t
    ELSE radnode_delete(FoldLeft(LAMBDA u, s : radnode_del_postorder(u, s.node), t, t.heap[n].array), n)

radix_tree_clear(t) == [radnode_del_postorder(t, t.root) EXCEPT !.root = Null, !.count = 0]
-----------------------------------------------------------------------------
\* The callers.

\* The name an element stands for: names that differ in case are one name.
Canonical(d) == radname_r2d(radname_d2r(d))
HeldNames == DOMAIN rad.held

RadEmpty == [root |-> Null, count |-> 0, heap |-> <<>>, held |-> <<>>, bad |-> {}]
RadInit == rad = RadEmpty

\* A caller inserts a name and keeps the node, if it is given one.
RadInsert(d) ==
    LET r == radname_insert(rad, d, Canonical(d))
    IN  /\ Cardinality(HeldNames) < MaxNames
        /\ rad' = IF r.node = Null THEN r.tree
                  ELSE [r.tree EXCEPT !.held =
                          [c \in HeldNames \cup {Canonical(d)} |->
                              IF c = Canonical(d) THEN r.node ELSE rad.held[c]]]

\* A caller deletes by the node it kept.
RadDelete(c) ==
    rad' = [radix_delete(rad, rad.held[c]) EXCEPT !.held = [x \in HeldNames \ {c} |-> rad.held[x]]]

\* A caller deletes by name; nothing happens when the name is not there.
RadDeleteName(d) ==
    rad' = [radname_delete(rad, d) EXCEPT !.held = [x \in HeldNames \ {Canonical(d)} |-> rad.held[x]]]

RadClear == rad' = [radix_tree_clear(rad) EXCEPT !.held = <<>>]

RadNext ==
    \/ \E d \in Name : RadInsert(d) \/ RadDeleteName(d)
    \/ \E c \in HeldNames : RadDelete(c)
    \/ RadClear
-----------------------------------------------------------------------------
\* Properties.

\* radname_find_less_equal, which the name server uses to find the closest
\* encloser of every query, finds the name or the name before it in canonical
\* order, and agrees with the search by key.
FindsLessEqual(t) ==
    \A d \in Name :
        LET r == radname_find_less_equal(t, d)
        IN  /\ IsLessEqual(t, d, r)
            /\ radix_find_less_equal(t, radname_d2r(d)) = r
            /\ radix_search(t, radname_d2r(d)) = radname_search(t, d)
            /\ radname_search(t, d) = (IF r.exact THEN r.node ELSE Null)

\* "We do this so that r.node stays the same pointer for its key name": the node
\* a caller was given is the node of that name until it is deleted, though later
\* insertions split and deletions merge the nodes around it; searches find it,
\* and walks go over the names in canonical order and back; no assertion of
\* radtree.c fails, no node is leaked, and no deletion leaves the tree
\* "inefficient": radnode_cleanup merges and trims all that it can.
RadSound ==
    /\ rad.bad = {} /\ LinksAgree(rad) /\ Compact(rad)
    /\ HandlesStay(rad) /\ FindsLessEqual(rad)
    /\ \A c \in HeldNames : radname_search(rad, c) = rad.held[c]
    /\ ForwardInOrder(rad, radix_first(rad), radix_next)
    /\ BackwardInOrder(rad, radix_last(rad), radix_prev)
=============================================================================
