---------------------------- MODULE UdbRadTree ----------------------------
(***************************************************************************)
(* The radix tree in the database file (udbradtree.c), as the tree of the *)
(* zones (udbzone.c).  The lookup array of a node is a chunk of its own,   *)
(* with room for str_cap bytes of string per entry, that is reallocated    *)
(* when it must grow or can be halved.                                     *)
(*                                                                         *)
(* An allocation in the file can fail when the file cannot grow.  The      *)
(* first fuel allocations of an operation succeed and the next one fails;  *)
(* ok is FALSE from a failure until the code has dealt with it.  udr.held  *)
(* is the node each zone keeps (zone_d.node), udr.loose is TRUE once a     *)
(* deletion could not tidy up after itself, udr.bad collects failed        *)
(* assertions and strings written past their room.                         *)
(***************************************************************************)
EXTENDS RadNode

CONSTANTS
    ZoneName,   \* names of zones
    MaxZones,   \* at most so many zones in the tree
    Fuel        \* how many allocations of one operation may succeed

ASSUME FuelAssumption == Fuel \subseteq Nat /\ MaxZones \in Nat

VARIABLE udr

udb_Zeroed ==
    [elem |-> NoElem, parent |-> Null, pidx |-> 0, offset |-> 0,
     lookup |-> FALSE, capacity |-> 0, str_cap |-> 0, array |-> <<>>]

\* udb_ptr_alloc_space.
Take(t) == IF t.fuel = 0 THEN [t EXCEPT !.ok = FALSE] ELSE [t EXCEPT !.fuel = @ - 1]
Ignored(t) == [t EXCEPT !.ok = TRUE]

udb_radnode_delete(t, n) == Free(t, n)

\* Write an entry: its string has to fit.
WriteSel(t, n, idx, str, child) ==
    Require(SetSel(t, n, idx, str, child), Len(str) <= t.heap[n].str_cap, "str_cap")
WriteLink(t, n, idx, str, child) == SetParent(WriteSel(t, n, idx, str, child), child, n, idx)
-----------------------------------------------------------------------------
\* The lookup array of a node.

udb_radnode_str_grow(t, n, want) ==
    LET u == Take(t)
    IN  IF ~u.ok THEN u
        ELSE [u EXCEPT !.heap[n].str_cap = Min({Max({2 * @, want}), 65535})]

udb_radnode_array_grow(t, n, want) ==
    LET u   == Take(t)
        cap == t.heap[n].capacity
        ns  == Min({Max({2 * cap, want}), Radix})
    IN  IF ~u.ok THEN u
        ELSE Require([u EXCEPT !.heap[n].capacity = ns],
                     want <= Radix /\ NodeLen(t, n) <= cap /\ cap < ns, "udbradtree.c:259")

udb_radnode_array_create(t, n) ==
    LET u == Take(t) IN IF u.ok THEN [u EXCEPT !.heap[n].lookup = TRUE] ELSE u

\* There is no array yet: one of one entry, with room for len bytes.
CreateFor(t, n, byte, len) ==
    LET u == Take(t)
    IN  IF ~u.ok THEN u
        ELSE [u EXCEPT !.heap[n].lookup = TRUE, !.heap[n].array = <<EmptySel>>,
                       !.heap[n].capacity = 1, !.heap[n].str_cap = len, !.heap[n].offset = byte]

udb_GrowIfNeeded(t, n, want) ==
    IF want > t.heap[n].capacity THEN udb_radnode_array_grow(t, n, want) ELSE t

\* Room for the byte in an array that has the capacity for it or can grow.
PlaceByte(t, n, byte) ==
    LET len == NodeLen(t, n)
        off == t.heap[n].offset
        need == IF byte < off THEN off - byte ELSE byte - off - len + 1
        g    == udb_GrowIfNeeded(t, n, len + need)
        fresh == [i \in 1..need |-> EmptySel]
    IN  IF len = 0 THEN [t EXCEPT !.heap[n].array = <<EmptySel>>, !.heap[n].offset = byte]
        ELSE IF InLookup(t, n, byte) THEN t
        ELSE IF ~g.ok THEN g
        ELSE IF byte < off
        THEN FixPidx([g EXCEPT !.heap[n].array = fresh \o @, !.heap[n].offset = byte], n)
        ELSE [g EXCEPT !.heap[n].array = @ \o fresh]

udb_radnode_array_space(t, n, byte, len) ==
    LET u == IF t.heap[n].capacity = 0 THEN udb_radnode_array_grow(t, n, 1) ELSE t
        v == IF u.ok /\ u.heap[n].str_cap < len THEN udb_radnode_str_grow(u, n, len) ELSE u
    IN  IF ~t.ok THEN t
        ELSE IF ~t.heap[n].lookup THEN CreateFor(t, n, byte, len)
        ELSE IF ~v.ok THEN v
        ELSE PlaceByte(v, n, byte)

udb_radnode_str_space(t, n, len) ==
    IF ~t.ok THEN t
    ELSE IF ~t.heap[n].lookup THEN udb_radnode_array_space(t, n, 0, len)
    ELSE IF t.heap[n].str_cap < len THEN udb_radnode_str_grow(t, n, len)
    ELSE t

udb_radarray_reduce(t, n, cap, strcap) ==
    LET u == Take(Require(t, /\ NodeLen(t, n) <= cap /\ cap <= t.heap[n].capacity
                             /\ strcap <= t.heap[n].str_cap
                             /\ \A i \in 1..NodeLen(t, n) : Len(t.heap[n].array[i].str) <= strcap,
                          "udbradtree.c:829"))
    IN  IF u.ok THEN [u EXCEPT !.heap[n].capacity = cap, !.heap[n].str_cap = strcap] ELSE u

udb_radarray_max_len(t, n) ==
    Max({0} \cup {Len(t.heap[n].array[i].str) : i \in Used(t, n)})

udb_radarray_reduce_if_needed(t, n) ==
    LET len == NodeLen(t, n)
        cap == t.heap[n].capacity
        scap == t.heap[n].str_cap
        mx  == udb_radarray_max_len(t, n)
    IN  IF /\ len <= cap \div 2 \/ len = 0 \/ mx <= scap \div 2 \/ mx = 0
           /\ len # cap \/ scap # mx
        THEN udb_radarray_reduce(t, n, len, mx) ELSE t
-----------------------------------------------------------------------------
\* Insertion.

udb_SplitAbove(t, n, idx, str, add) ==
    LET r == t.heap[n].array[idx + 1]
        rem == radsel_prefix_remainder(Len(str) + 1, r.str)
        u == udb_radnode_array_space(udb_radnode_str_space(t, n, Len(str)),
                                     add, r.str[Len(str) + 1], Len(rem))
        v == SetParent(u, add, t.heap[r.node].parent, t.heap[r.node].pidx)
    IN  IF ~u.ok THEN u
        ELSE Ignored(udb_radarray_reduce_if_needed(
                WriteSel(WriteLink(v, add, 0, rem, r.node), n, idx, str, add), n))

udb_SplitBelow(t, n, idx, str, add) ==
    LET r == t.heap[n].array[idx + 1]
        b == str[Len(r.str) + 1]
        rem == radsel_prefix_remainder(Len(r.str) + 1, str)
        u == udb_radnode_array_space(t, r.node, b, Len(rem))
    IN  IF ~u.ok THEN u
        ELSE Ignored(udb_radarray_reduce_if_needed(
                WriteLink(u, r.node, b - u.heap[r.node].offset, rem, add), r.node))

\* Link up com, once all the space is there.
JoinUnder(t, u, n, idx, str, add, com, c) ==
    LET r   == t.heap[n].array[idx + 1]
        off == u.heap[com].offset
        v   == SetParent(u, com, t.heap[r.node].parent, t.heap[r.node].pidx)
        w   == WriteLink(v, com, r.str[c + 1] - off, radsel_prefix_remainder(c + 1, r.str), r.node)
        x   == WriteLink(w, com, str[c + 1] - off, radsel_prefix_remainder(c + 1, str), add)
    IN  Ignored(udb_radarray_reduce_if_needed(WriteSel(x, n, idx, SubSeq(str, 1, c), com), n))

udb_SplitCommon(t, n, idx, str, add) ==
    LET r   == t.heap[n].array[idx + 1]
        c   == bstr_common(r.str, str)
        com == NewNode(t)
        u   == Take(t)
        v   == udb_radnode_array_space(
                 udb_radnode_array_space(Alloc(u, com, udb_Zeroed), com, r.str[c + 1], Len(r.str) - c - 1),
                 com, str[c + 1], Len(str) - c - 1)
        w   == IF c > 0 THEN udb_radnode_str_space(v, n, c - 1) ELSE v
    IN  IF ~u.ok THEN u
        ELSE IF ~w.ok THEN udb_radnode_delete(w, com)
        ELSE Require(JoinUnder(t, w, n, idx, str, add, com, c),
                     c < Len(r.str) /\ c < Len(str), "udbradtree.c:566")

udb_radsel_split(t, n, idx, str, add) ==
    LET r == t.heap[n].array[idx + 1]
    IN  IF bstr_is_prefix(str, r.str)
        THEN udb_SplitAbove(Require(t, Len(str) < Len(r.str), "udbradtree.c:481"), n, idx, str, add)
        ELSE IF bstr_is_prefix(r.str, str)
        THEN udb_SplitBelow(Require(t, Len(r.str) < Len(str), "udbradtree.c:524"), n, idx, str, add)
        ELSE udb_SplitCommon(t, n, idx, str, add)

udb_InsertRoot(t, k, add) ==
    LET n == NewNode(t)
        u == Take(t)
        v == udb_radnode_array_space(Alloc(u, n, udb_Zeroed), n, k[1], Len(k) - 1)
    IN  IF k = <<>> THEN [t EXCEPT !.root = add]
        ELSE IF ~u.ok THEN u
        ELSE IF ~v.ok THEN Free(v, n)
        ELSE [WriteLink(v, n, 0, radsel_prefix_remainder(1, k), add) EXCEPT !.root = n]

udb_InsertBelow(t, k, n, pos, add) ==
    LET byte == k[pos + 1]
        rest == SubSeq(k, pos + 2, Len(k))
        u == IF ~InLookup(t, n, byte) THEN udb_radnode_array_space(t, n, byte, Len(rest))
             ELSE IF rest # <<>> THEN udb_radnode_str_space(t, n, Len(rest))
             ELSE t
    IN  IF InLookup(t, n, byte) /\ Sel(t, n, byte).node # Null
        THEN udb_radsel_split(t, n, byte - t.heap[n].offset, rest, add)
        ELSE IF ~u.ok THEN u
        ELSE WriteLink(Require(u, InLookup(u, n, byte), "udbradtree.c:719"),
                       n, byte - u.heap[n].offset, rest, add)

\* The tree after the insertion, and the node of k; Null for a duplicate or
\* when an allocation failed: then 'add' is deleted again.
Inserted(u, add) ==
    IF u.ok THEN [tree |-> [u EXCEPT !.count = @ + 1], node |-> add]
            ELSE [tree |-> udb_radnode_delete(u, add), node |-> Null]

\* The loop is the one of the tree in memory, over pointers relative to the file.
udb_radix_find_prefix_node(t, k) == radix_find_prefix_node(t, k)

\* When the array of 'add' cannot be allocated, 'add' is freed by itself and stays
\* on the pointer list of the element: udb_zone_create then frees the element.
udb_radix_insert(t, k, elem) ==
    LET add == NewNode(t)
        u   == Take(t)
        a   == udb_radnode_array_create(Alloc(u, add, [udb_Zeroed EXCEPT !.elem = <<elem>>]), add)
        p   == udb_radix_find_prefix_node(t, k)
    IN  IF ~u.ok THEN [tree |-> u, node |-> Null]
        ELSE IF ~a.ok THEN [tree |-> Free(a, add), node |-> Null]
        ELSE IF p.node = Null THEN Inserted(udb_InsertRoot(a, k, add), add)
        ELSE IF p.pos < Len(k) THEN Inserted(udb_InsertBelow(a, k, p.node, p.pos, add), add)
        ELSE IF HasElem(t, p.node) THEN [tree |-> udb_radnode_delete(a, add), node |-> Null]
        ELSE Inserted([udb_radnode_delete(a, add) EXCEPT !.heap[p.node].elem = <<elem>>], p.node)

udb_radname_insert(t, d, elem) == udb_radix_insert(t, radname_d2r(d), elem)
-----------------------------------------------------------------------------
\* Deletion.

\* Mutant of udb_radnode_cleanup_onechild: the byte of the entry is left out.
udb_JoinWithoutByte(t, n) ==
    LET par   == t.heap[n].parent
        pidx  == t.heap[n].pidx
        child == t.heap[n].array[1].node
        join  == t.heap[par].array[pidx + 1].str \o t.heap[n].array[1].str
        u     == udb_radnode_str_space(t, par, Len(join))
    IN  IF u.ok THEN udb_radnode_delete(WriteLink(u, par, pidx, join, child), n) ELSE u

\* Mutant of udb_radnode_cleanup_onechild: the node is deleted though there is no
\* room for the joined string.
udb_DeletedAnyway(t, n) ==
    LET par   == t.heap[n].parent
        pidx  == t.heap[n].pidx
        child == t.heap[n].array[1].node
        join  == t.heap[par].array[pidx + 1].str
                 \o <<t.heap[child].pidx + t.heap[n].offset>> \o t.heap[n].array[1].str
        u     == udb_radnode_str_space(t, par, Len(join))
    IN  IF u.ok THEN udb_radnode_delete(WriteLink(u, par, pidx, join, child), n)
                ELSE udb_radnode_delete(SetSel(u, par, pidx, <<>>, Null), n)

udb_radnode_cleanup_onechild(t, n) ==
    LET par   == t.heap[n].parent
        pidx  == t.heap[n].pidx
        child == t.heap[n].array[1].node
        join  == t.heap[par].array[pidx + 1].str
                 \o <<t.heap[child].pidx + t.heap[n].offset>> \o t.heap[n].array[1].str
        u     == udb_radnode_str_space(t, par, Len(join))
    IN  IF u.ok THEN udb_radnode_delete(WriteLink(u, par, pidx, join, child), n) ELSE u

udb_radnode_array_clean_all(t, n) ==
    udb_radarray_reduce([t EXCEPT !.heap[n].offset = 0, !.heap[n].array = <<>>], n, 0, 0)

udb_radnode_array_clean_front(t, n) ==
    LET shuf == Min(Used(t, n)) - 1
    IN  IF Used(t, n) = {} THEN udb_radnode_array_clean_all(t, n)
        ELSE IF shuf = 0 THEN t
        ELSE udb_radarray_reduce_if_needed(
                FixPidx([t EXCEPT !.heap[n].array = SubSeq(@, shuf + 1, Len(@)),
                                  !.heap[n].offset = @ + shuf], n), n)

udb_radnode_array_clean_end(t, n) ==
    IF Used(t, n) = {} THEN udb_radnode_array_clean_all(t, n)
    ELSE IF Max(Used(t, n)) = NodeLen(t, n) THEN t
    ELSE udb_radarray_reduce_if_needed(
            [t EXCEPT !.heap[n].array = SubSeq(@, 1, Max(Used(t, n)))], n)

udb_radnode_cleanup_leaf(t, n, par) ==
    LET pidx == t.heap[n].pidx
        u    == udb_radnode_delete(SetSel(t, par, pidx, <<>>, Null), n)
    IN  IF NodeLen(u, par) = 1 THEN udb_radnode_array_clean_all(u, par)
        ELSE IF pidx = 0 THEN udb_radnode_array_clean_front(u, par)
        ELSE IF pidx = NodeLen(u, par) - 1 THEN udb_radnode_array_clean_end(u, par)
        ELSE u

RECURSIVE udb_radnode_cleanup(_, _)
udb_radnode_cleanup(t, n) ==
    LET par == t.heap[n].parent
        u   == udb_radnode_cleanup_leaf(t, n, par)
    IN  IF HasElem(t, n) THEN udb_radarray_reduce_if_needed(t, n)
        ELSE IF NodeLen(t, n) = 1 /\ par # Null THEN udb_radnode_cleanup_onechild(t, n)
        ELSE IF NodeLen(t, n) > 0 THEN udb_radarray_reduce_if_needed(t, n)
        ELSE IF par = Null THEN [udb_radnode_delete(t, n) EXCEPT !.root = Null]
        ELSE IF ~u.ok THEN u
        ELSE udb_radnode_cleanup(u, par)

\* When the cleanup failed "the radix tree could be inefficient".
udb_radix_delete(t, n) ==
    LET u == udb_radnode_cleanup([t EXCEPT !.heap[n].elem = NoElem, !.count = @ - 1], n)
    IN  Ignored([u EXCEPT !.loose = @ \/ ~u.ok])

RECURSIVE udb_radnode_del_postorder(_, _)
udb_radnode_del_postorder(t, n) ==
    IF n = Null THEN t
    ELSE udb_radnode_delete(
            FoldLeft(LAMBDA u, s : udb_radnode_del_postorder(u, s.node), t, t.heap[n].array), n)

udb_radix_tree_clear(t) ==
    [udb_radnode_del_postorder(t, t.root) EXCEPT !.root = Null, !.count = 0]
-----------------------------------------------------------------------------
\* Search.

\* Unlike radix_search, it also returns a node that has no element.
udb_radix_search(t, k) == NodeAt(t, k, t.root, 0)
udb_radname_search(t, d) == udb_radix_search(t, radname_d2r(d))

\* The walk forward is that of the tree in memory.
udb_radnode_first_in_subtree(t, n) == radnode_first_in_subtree(t, n)
udb_radix_next(t, n) == FirstHit(<<udb_radnode_first_in_subtree(t, n), NextAbove(t, n)>>)
udb_radix_first(t) ==
    CASE t.count = 0 -> Null
      [] t.count # 0 /\ HasElem(t, t.root) -> t.root
      [] OTHER -> udb_radix_next(t, t.root)

udb_radnode_last_in_subtree(t, n) == radnode_last_in_subtree(t, n)
udb_radnode_last_in_subtree_incl_self(t, n) ==
    FirstHit(<<udb_radnode_last_in_subtree(t, n), IF HasElem(t, n) THEN n ELSE Null>>)
udb_radix_last(t) ==
    IF t.count = 0 THEN Null ELSE udb_radnode_last_in_subtree_incl_self(t, t.root)

\* The walk back differs: n is overwritten by the child it looks into.  When there
\* is no element in that child, n is the null pointer, and the next round of the
\* loop reads the array of a node that is not there: the result is Wild.
Wild == -1
udb_radnode_find_prev_from_idx(t, n, from) ==
    LET below == {i \in Used(t, n) : i <= from}
        last  == udb_radnode_last_in_subtree_incl_self(t, t.heap[n].array[Max(below)].node)
    IN  CASE below = {} -> Null
          [] below # {} /\ last = Null /\ Max(below) > 1 -> Wild
          [] OTHER -> last

RECURSIVE udb_radix_prev(_, _)
udb_radix_prev(t, n) ==
    LET p == t.heap[n].parent
    IN  IF p = Null THEN Null
        ELSE FirstHit(<<udb_radnode_find_prev_from_idx(t, p, t.heap[n].pidx),
                        IF HasElem(t, p) THEN p ELSE udb_radix_prev(t, p)>>)

udb_ret_self_or_prev(t, n) == IF HasElem(t, n) THEN n ELSE udb_radix_prev(t, n)
udb_LastOrPrev(t, n) ==
    FirstHit(<<udb_radnode_last_in_subtree_incl_self(t, n), udb_radix_prev(t, n)>>)

\* One round of the loop at node n, with pos bytes of the key matched.
RECURSIVE udb_LessEqualFrom(_, _, _, _)
udb_LessEqualFrom(t, k, n, pos) ==
    LET sel  == Sel(t, n, k[pos + 1])
        rest == SubSeq(k, pos + 2, Len(k))
        both == Min({Len(sel.str), Len(rest)})
        cmp  == Memcmp(SubSeq(rest, 1, both), SubSeq(sel.str, 1, both))
        less(m) == [exact |-> FALSE, node |-> m]
    IN  IF pos = Len(k) THEN [exact |-> HasElem(t, n), node |-> udb_ret_self_or_prev(t, n)]
        ELSE IF k[pos + 1] < t.heap[n].offset THEN less(udb_ret_self_or_prev(t, n))
        ELSE IF ~InLookup(t, n, k[pos + 1]) THEN less(udb_LastOrPrev(t, n))
        ELSE IF sel.node = Null
        THEN less(FirstHit(<<udb_radnode_find_prev_from_idx(t, n, k[pos + 1] - t.heap[n].offset),
                             udb_ret_self_or_prev(t, n)>>))
        ELSE IF cmp < 0 \/ (cmp = 0 /\ Len(sel.str) > Len(rest)) THEN less(udb_radix_prev(t, sel.node))
        ELSE IF cmp > 0 THEN less(udb_LastOrPrev(t, sel.node))
        ELSE udb_LessEqualFrom(t, k, sel.node, PosAfter(t, n, k, pos))

udb_radix_find_less_equal(t, k) ==
    IF t.count = 0 THEN [exact |-> FALSE, node |-> Null] ELSE udb_LessEqualFrom(t, k, t.root, 0)

\* The callers dereference the element of the node that the search returned:
\* udb_zone_search, udb_domain_find.
ElemAt(t, n) == IF n = Null THEN NoElem ELSE t.heap[n].elem
udb_zone_search(t, d) == ElemAt(t, udb_radname_search(t, d))
-----------------------------------------------------------------------------
\* The zones of a database: created, found, and deleted by their node.

ZoneOf == [d \in ZoneName |-> radname_r2d(radname_d2r(d))]
UdbZones == DOMAIN udr.held

UdrEmpty ==
    [root |-> Null, count |-> 0, heap |-> <<>>, held |-> <<>>, bad |-> {}, loose |-> FALSE,
     fuel |-> 0, ok |-> TRUE]
UdrInit == udr = UdrEmpty

Begin(t, f) == [t EXCEPT !.fuel = f]
End(t) == [t EXCEPT !.fuel = 0, !.ok = TRUE]

\* udb_zone_create: the zone chunk, its tree of domains, then the tree of zones.
\* A zone that cannot be entered is freed again.  Its tree of domains is freed while
\* zone_d.domains is still on its pointer list, so that assert(fp->ptrlist == 0) of
\* udb_alloc_free (udb.c:1767) ends the process there; the tree of zones is in the
\* file, which outlives the process, and the next one goes on with it.
udb_zone_create(f, d) ==
    LET u == Take(Take(Begin(udr, f)))
        r == udb_radname_insert(u, d, ZoneOf[d])
    IN  /\ udb_zone_search(udr, d) = NoElem
        /\ Cardinality(UdbZones) < MaxZones
        /\ udr' = IF ~u.ok THEN udr
                  ELSE IF r.node = Null THEN End(r.tree)
                  ELSE [End(r.tree) EXCEPT !.held =
                          [z \in UdbZones \cup {ZoneOf[d]} |->
                              IF z = ZoneOf[d] THEN r.node ELSE udr.held[z]]]

\* udb_zone_delete.
udb_zone_delete(f, z) ==
    udr' = [End(udb_radix_delete(Begin(udr, f), udr.held[z])) EXCEPT
               !.held = [x \in UdbZones \ {z} |-> udr.held[x]]]

\* udb_dns_deinit_file: the zones are deleted, then the tree.
udb_dns_deinit_file == udr' = [udb_radix_tree_clear(udr) EXCEPT !.held = <<>>, !.loose = FALSE]

UdrNext ==
    \/ \E f \in Fuel, d \in ZoneName : udb_zone_create(f, d)
    \/ \E f \in Fuel, z \in UdbZones : udb_zone_delete(f, z)
    \/ udb_dns_deinit_file
-----------------------------------------------------------------------------
\* Properties.

UdrNames == {Canon(d) : d \in ZoneName}
UdrFound == {d \in UdrNames : udb_zone_search(udr, d) # NoElem}
UdrStore == INSTANCE NameStore WITH dict <- UdrFound, known <- UdbZones, Name <- UdrNames

\* What a search from the root finds follows what the callers were told, one
\* operation at a time, also when an allocation fails halfway because the file
\* cannot grow: a udb_zone_create that returns the zone adds its name and one that
\* does not adds nothing, a udb_zone_delete puts its own name out of reach, though
\* udb_radnode_cleanup could not merge the nodes around it, and no operation loses
\* another zone.
UdrImplementsStore == UdrStore!Spec

\* No cleanup that failed has left a node with neither element nor children.
NoBareLeaf(t) == \A n \in DOMAIN t.heap : HasElem(t, n) \/ Used(t, n) # {}

\* udb_radix_find_less_equal and the walk back are right in a tree in which a
\* failed cleanup left no bare leaf (and NSD has no caller for them).
FindsBefore(t) ==
    NoBareLeaf(t) =>
        /\ \A d \in ZoneName : IsLessEqual(t, d, udb_radix_find_less_equal(t, radname_d2r(d)))
        /\ BackwardInOrder(t, udb_radix_last(t), udb_radix_prev)

\* zone_d.node stays the node of the zone while others come and go around it, also
\* when some of their allocations failed, and a search finds it; the walk forward
\* (namedb_read_zonefiles, udb_dns_deinit_file) is in order and complete, also over
\* the bare leaves that a failed cleanup left; in a tree without such leaves the
\* walk back and udb_radix_find_less_equal are right too;
\* no assertion of udbradtree.c fails, no string is written past the room its array
\* has for it, and no node is leaked on an error path (udb_radix_insert,
\* udb_radsel_split).  "the radix tree could be inefficient" only after a deletion
\* whose reallocation failed.
UdrSound ==
    /\ udr.bad = {} /\ LinksAgree(udr) /\ HandlesStay(udr)
    /\ \A n \in DOMAIN udr.heap : \A i \in 1..NodeLen(udr, n) :
        Len(udr.heap[n].array[i].str) <= udr.heap[n].str_cap
    /\ ~udr.loose => Compact(udr)
    /\ \A c \in UdbZones : udb_radname_search(udr, c) = udr.held[c]
    /\ ForwardInOrder(udr, udb_radix_first(udr), udb_radix_next)
    /\ FindsBefore(udr)
=============================================================================
