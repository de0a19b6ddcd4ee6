------------------------------- MODULE NameDb -------------------------------
(***************************************************************************)
(* The zones in memory (namedb.c, dbaccess.c): one table of the domain     *)
(* names of all zones, with the RRsets of each zone at each name.          *)
(*                                                                         *)
(* A name is the sequence of its labels from the root, and labels are      *)
(* numbers, so that canonical order is the order of sequences.  A zone is  *)
(* known by the name of its apex.  The table (RadTree or RbTree) is the    *)
(* function db.dom; parent and sub-domain are prefixes of a name.          *)
(*                                                                         *)
(* A domain has its RRsets as a function from <<zone, type>> to the        *)
(* sequence of rdata, usage, is_existing, is_apex, number, wc for          *)
(* wildcard_child_closest_match, and nsec3, which is Nsec3Data for a       *)
(* domain that has none allocated.  db.bad collects the assertions that    *)
(* failed and the freed memory that was used, db.leak tells that the names *)
(* of an RR that was not stored have stayed in the table.                  *)
(***************************************************************************)
EXTENDS Integers, Sequences, FiniteSets, SequencesExt, FiniteSetsExt

CONSTANTS
    DName,      \* the domain names, closed under parent
    Star        \* the label *

Root == <<>>
NoName == <<0>>
Parent(n) == Front(n)
IsSubdomain(n, top) == IsPrefix(top, n)
Label(n) == Last(n)

CanonLess(x, y) ==
    \/ IsStrictPrefix(x, y)
    \/ \E i \in 1..Min({Len(x), Len(y)}) : x[i] < y[i] /\ \A j \in 1..i - 1 : x[j] = y[j]
\* The place of a name in the canonical order.
Rank == [n \in DName \cup {NoName} |-> Cardinality({m \in DName : CanonLess(m, n)})]
Before(x, y) == Rank[x] < Rank[y]
LastOf(S) == CHOOSE n \in S : \A m \in S : Rank[m] <= Rank[n]
AllNames == [i \in 1..Cardinality(DName) |-> CHOOSE n \in DName : Rank[n] = i - 1]
InOrder(S) == SelectSeq(AllNames, LAMBDA n : n \in S)

ASSUME DNameAssumption ==
    /\ Root \in DName /\ NoName \notin DName
    /\ \A n \in DName \ {Root} : Parent(n) \in DName
-----------------------------------------------------------------------------
Nsec3Data ==
    [cover |-> NoName, wcard_child_cover |-> NoName, ds_parent_cover |-> NoName,
     is_exact |-> FALSE, ds_parent_is_exact |-> FALSE, hash |-> 0, wc_hash |-> 0,
     ds_parent_hash |-> 0, nsec3_node |-> FALSE, hash_node |-> FALSE,
     wchash_node |-> FALSE, dshash_node |-> FALSE]
NewDomain(n, num) ==
    [usage |-> 0, is_existing |-> FALSE, is_apex |-> FALSE, number |-> num, wc |-> n,
     rrsets |-> <<>>, nsec3 |-> Nsec3Data]
NewZone ==
    [soa_rrset |-> FALSE, soa_nx |-> <<>>, ns_rrset |-> FALSE, is_secure |-> FALSE,
     nsec3_param |-> 0, nsec3_last |-> NoName, nsec3tree |-> {}, hashtree |-> {},
     wchashtree |-> {}, dshashtree |-> {}, is_ok |-> TRUE, is_changed |-> FALSE]

\* domain_table_create: the root, which is never deleted.
EmptyDb(usesudb) ==
    [dom |-> (Root :> [NewDomain(Root, 1) EXCEPT !.usage = 1]), numlist |-> <<Root>>,
     zones |-> <<>>, prehash |-> <<>>, usesudb |-> usesudb, udb |-> <<>>,
     dirty |-> FALSE, softfail |-> FALSE, bad |-> {}, leak |-> FALSE]

DbRequire(d, cond, where) == IF cond THEN d ELSE [d EXCEPT !.bad = @ \cup {where}]
-----------------------------------------------------------------------------
\* Walking the table.

Names(d) == DOMAIN d.dom
Under(d, top) == {n \in Names(d) : IsSubdomain(n, top)}

\* The closest match is the name itself or the greatest before it; the closest
\* encloser is found from there upwards.
domain_table_search(d, n) ==
    LET cm == LastOf({m \in Names(d) : m = n \/ Before(m, n)})
        k  == Max({i \in 0..Min({Len(cm), Len(n)}) : SubSeq(cm, 1, i) = SubSeq(n, 1, i)})
    IN  [exact |-> cm = n, closest_match |-> cm, closest_encloser |-> SubSeq(cm, 1, k)]

domain_find_rrset(d, n, z, t) == <<z, t>> \in DOMAIN d.dom[n].rrsets
RRsOf(d, n, z, t) == d.dom[n].rrsets[<<z, t>>]
domain_find_any_rrset(d, n, z) == \E k \in DOMAIN d.dom[n].rrsets : k[1] = z
TypesAt(d, n, z) == {k[2] : k \in {x \in DOMAIN d.dom[n].rrsets : x[1] = z}}

Deepest(S) == CHOOSE m \in S : \A k \in S : Len(k) <= Len(m)

\* The zone whose apex is nearest above n; also nsec3_tree_zone.
domain_find_zone(d, n) ==
    LET S == {m \in Prefixes(n) : d.dom[m].is_apex}
    IN  IF S = {} THEN NoName ELSE Deepest(S)

domain_find_parent_zone(d, z) ==
    LET S == {k \in DOMAIN d.dom[z].rrsets : k[1] # z /\ k[2] = "NS"}
    IN  IF S # {} THEN (CHOOSE k \in S : TRUE)[1]
        ELSE IF z = Root THEN NoName ELSE domain_find_zone(d, Parent(z))

\* The delegation at or above n within zone z, not at its apex, or NoName.
domain_find_ns_rrsets(d, n, z) ==
    LET S == {m \in Prefixes(n) : Len(m) > Len(z) /\ m \in Names(d) /\ domain_find_rrset(d, m, z, "NS")}
    IN  IF S = {} THEN NoName ELSE Deepest(S)
\* The DNAME above n within zone z.
find_dname_above(d, n, z) ==
    LET S == {m \in Prefixes(n) \ {n} : Len(m) > Len(z) /\ domain_find_rrset(d, m, z, "DNAME")}
    IN  IF S = {} THEN NoName ELSE Deepest(S)
domain_is_glue(d, n, z) ==
    LET m == domain_find_ns_rrsets(d, n, z)
    IN  m # NoName /\ ~domain_find_rrset(d, m, z, "SOA")
domain_wildcard_child(d, n) ==
    LET w == d.dom[n].wc IN IF w # n /\ Label(w) = Star THEN w ELSE NoName

domain_previous_existing_child(d, n) ==
    LET S == {m \in Names(d) : Before(m, n) /\ (d.dom[m].is_existing \/ m = Parent(n))}
    IN  LastOf(S)
-----------------------------------------------------------------------------
\* Adding names and RRsets.

\* Does n become the closest match of its parent for the wildcard?
TakesWildcard(d, n) ==
    /\ n # Root /\ Label(n) <= Star
    /\ d.dom[Parent(n)].wc \in Names(d) /\ Before(d.dom[Parent(n)].wc, n)
UpdateWildcard(d, n) ==
    IF TakesWildcard(d, n) THEN [d EXCEPT !.dom[Parent(n)].wc = n] ELSE d

allocate_domain_info(d, n) ==
    [d EXCEPT !.dom = (n :> NewDomain(n, d.dom[Last(d.numlist)].number + 1)) @@ @,
              !.numlist = Append(@, n)]
domain_table_insert(d, n) ==
    LET k == Len(domain_table_search(d, n).closest_encloser)
    IN  FoldLeft(LAMBDA u, i : UpdateWildcard(allocate_domain_info(u, SubSeq(n, 1, i)), SubSeq(n, 1, i)),
                 d, [i \in 1..Len(n) - k |-> k + i])

\* The name and the names above it exist, up to the first that existed already.
RECURSIVE MakeExisting(_, _)
MakeExisting(d, n) ==
    LET u == UpdateWildcard([d EXCEPT !.dom[n].is_existing = TRUE], n)
    IN  IF d.dom[n].is_existing THEN d
        ELSE IF n = Root THEN u ELSE MakeExisting(u, Parent(n))
domain_add_rrset(d, n, z, t) ==
    MakeExisting([d EXCEPT !.dom[n].rrsets = (<<z, t>> :> <<>>) @@ @], n)
-----------------------------------------------------------------------------
\* Deleting names.

\* The names above 'last' in the list have unique numbers 1..; the swap keeps it so.
numlist_make_last(d, n) ==
    LET last == Last(d.numlist)
    IN  [d EXCEPT !.dom[n].number = d.dom[last].number, !.dom[last].number = d.dom[n].number,
                  !.numlist = [i \in DOMAIN @ |-> IF @[i] = n THEN last ELSE IF @[i] = last THEN n ELSE @[i]]]

domain_can_be_deleted(d, n) ==
    d.dom[n].rrsets = <<>> /\ d.dom[n].usage = 0 /\ Under(d, n) = {n}

domain_is_prehash(d, n) == n \in Range(d.prehash)
prehash_add(d, n) == IF domain_is_prehash(d, n) THEN d ELSE [d EXCEPT !.prehash = <<n>> \o @]
prehash_del(d, n) == [d EXCEPT !.prehash = Remove(@, n)]
prehash_clear(d) == [d EXCEPT !.prehash = <<>>]

\* zone_add_domain_in_hash_tree and zone_del_domain_in_hash_tree.  A node that is in
\* a tree must not be added again: that would wipe its links.  S is the set of
\* names a loop adds.
NodeOf(tree) == CASE tree = "nsec3tree" -> "nsec3_node" [] tree = "hashtree" -> "hash_node"
                  [] tree = "wchashtree" -> "wchash_node" [] tree = "dshashtree" -> "dshash_node"
InSomeTree(d, tree, S) == \E z \in DOMAIN d.zones : S \cap d.zones[z][tree] # {}
zone_add_domain_in_hash_tree(d, z, tree, S) ==
    [DbRequire(d, ~InSomeTree(d, tree, S), "namedb.c:308") EXCEPT
        !.zones[z][tree] = @ \cup S,
        !.dom = [n \in DOMAIN @ |-> IF n \in S THEN [@[n] EXCEPT !.nsec3[NodeOf(tree)] = TRUE] ELSE @[n]]]
zone_del_domain_in_hash_tree(d, z, tree, n) ==
    IF ~d.dom[n].nsec3[NodeOf(tree)] THEN d
    ELSE [DbRequire(d, z \in DOMAIN d.zones, "namedb.c:235") EXCEPT
            !.zones = IF z \in DOMAIN @ THEN [@ EXCEPT ![z][tree] = @ \ {n}] ELSE @,
            !.dom[n].nsec3[NodeOf(tree)] = FALSE]
\* The name leaves the trees of its zone; the parent side of a zone cut is in the
\* tree of the zone above.
DelFromTrees(d, n) ==
    LET z  == domain_find_zone(d, n)
        zd == IF d.dom[n].is_apex THEN domain_find_zone(d, Parent(n)) ELSE z
        u  == zone_del_domain_in_hash_tree(d, z, "nsec3tree", n)
        v  == zone_del_domain_in_hash_tree(zone_del_domain_in_hash_tree(u, z, "hashtree", n), z, "wchashtree", n)
    IN  zone_del_domain_in_hash_tree(v, zd, "dshashtree", n)

FixWildcardOfParent(d, n) ==
    IF n # Root /\ d.dom[Parent(n)].wc = n
    THEN [d EXCEPT !.dom[Parent(n)].wc = domain_previous_existing_child(d, n)] ELSE d

RemoveName(d, n) ==
    [d EXCEPT !.dom = [m \in DOMAIN @ \ {n} |-> @[m]], !.numlist = Front(@)]
do_deldomain(d, n) ==
    LET u == numlist_make_last(DbRequire(d, n # Root, "namedb.c:222"), n)
        v == IF domain_is_prehash(u, n) THEN prehash_del(u, n) ELSE u
    IN  RemoveName(FixWildcardOfParent(DelFromTrees(v, n), n), n)
RECURSIVE domain_table_deldomain(_, _)
domain_table_deldomain(d, n) ==
    IF domain_can_be_deleted(d, n) THEN domain_table_deldomain(do_deldomain(d, n), Parent(n)) ELSE d
=============================================================================
