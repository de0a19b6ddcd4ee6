------------------------------- MODULE Nsec3 -------------------------------
(***************************************************************************)
(* The NSEC3 chain of a zone in memory (nsec3.c) and the triggers that     *)
(* keep it up to date while RRs come and go (difffile.c).                  *)
(*                                                                         *)
(* A zone is hashed with one of its NSEC3PARAM records.  The names with an *)
(* NSEC3 of that chain are in nsec3tree, ordered by their first label.     *)
(* Every name that can be asked for is in hashtree (and wchashtree, for    *)
(* the wildcard below it), every zone cut in dshashtree, with a pointer to *)
(* the NSEC3 that matches or covers its hash.  An NSEC3 that is new, or    *)
(* that lost its successor, is on the prehash list until prehash_zone sets *)
(* the pointers of the names it covers.                                    *)
(*                                                                         *)
(* Rdata is a record of a name n, NoName for the types without one, and a  *)
(* number k: the serial of a SOA, the parameters of an NSEC3PARAM, twice   *)
(* the parameters plus the SOA bit for an NSEC3, 1 for an RRSIG of DNSKEY. *)
(* nsec3_param is the index of the NSEC3PARAM in its RRset, 0 for NULL.    *)
(***************************************************************************)
EXTENDS NameDb

CONSTANTS
    Param,          \* parameters NSD can hash with
    HashOf(_, _)    \* the hash of a name with parameters, as an NSEC3 label

HashNames == DName \cup {Append(n, Star) : n \in DName}
ASSUME HashAssumption ==
    \A p \in Param, x, y \in HashNames : HashOf(p, x) = HashOf(p, y) => x = y

ParamsOf(d, z) == IF domain_find_rrset(d, z, z, "NSEC3PARAM") THEN RRsOf(d, z, z, "NSEC3PARAM") ELSE <<>>
UsedParam(d, z) == ParamsOf(d, z)[d.zones[z].nsec3_param].k
Nsec3Param(data) == data.k \div 2
Nsec3HasSoa(data) == data.k % 2 = 1
-----------------------------------------------------------------------------
\* Which names belong in the chain and in the trees.

OnlyNsec3(T) == "NSEC3" \in T /\ T \subseteq {"NSEC3", "RRSIG"}
domain_has_only_NSEC3(d, n, z) == OnlyNsec3(TypesAt(d, n, z))
nsec3_domain_part_of_zone(d, n, z) == domain_find_zone(d, n) = z
nsec3_condition_hash(d, n, z) ==
    /\ d.dom[n].is_existing /\ ~domain_has_only_NSEC3(d, n, z)
    /\ nsec3_domain_part_of_zone(d, n, z) /\ ~domain_is_glue(d, n, z)
nsec3_condition_dshash(d, n, z) ==
    /\ d.dom[n].is_existing /\ ~domain_has_only_NSEC3(d, n, z)
    /\ {"DS", "NS"} \cap TypesAt(d, n, z) # {} /\ n # z

\* How many NSEC3s of the chain in use are at the name.
nsec3_in_chain_count(d, n, z) ==
    IF d.zones[z].nsec3_param = 0 \/ ~domain_find_rrset(d, n, z, "NSEC3") THEN 0
    ELSE Len(SelectSeq(RRsOf(d, n, z, "NSEC3"), LAMBDA x : Nsec3Param(x) = UsedParam(d, z)))

\* The NSEC3 that matches the hash or covers it.
nsec3_find_cover(d, z, h) ==
    LET S == {n \in d.zones[z].nsec3tree : Label(n) <= h}
    IN  IF S = {} THEN d.zones[z].nsec3_last ELSE LastOf(S)
Exact(n, h) == n # NoName /\ Label(n) = h

nsec3_chain_find_prev(d, n, z) ==
    LET S == {m \in d.zones[z].nsec3tree : Label(m) < Label(n)}
    IN  IF n \in d.zones[z].nsec3tree /\ S # {} THEN LastOf(S) ELSE d.zones[z].nsec3_last
-----------------------------------------------------------------------------
\* The parameters of the chain.

\* udb_zone_find_nsec3param: the RR in memory that is the one the database file
\* hashes with.  db_find_nsec3param: the first one, but not the one to avoid.
nsec3_find_zone_param(d, z, avoid) ==
    LET usable == {i \in DOMAIN ParamsOf(d, z) : i # avoid /\ ParamsOf(d, z)[i].k \in Param}
        found == IF d.usesudb
                 THEN SelectInSeq(ParamsOf(d, z), LAMBDA x : z \in DOMAIN d.udb /\ x.k = d.udb[z].param)
                 ELSE IF usable = {} THEN 0 ELSE Min(usable)
    IN  [d EXCEPT !.zones[z].nsec3_param = found]

\* The NSEC3 at the hash of the apex has the SOA bit.
check_apex_soa(d, z) ==
    LET n == Append(z, HashOf(UsedParam(d, z), z))
    IN  /\ n \in Names(d) /\ domain_find_rrset(d, n, z, "NSEC3")
        /\ \E x \in Range(RRsOf(d, n, z, "NSEC3")) : Nsec3HasSoa(x)
NoChain(d, z) == [d EXCEPT !.zones[z].nsec3_param = 0, !.zones[z].nsec3_last = NoName]
-----------------------------------------------------------------------------
\* Precompiling: hash the names, add them to the trees, and look up their covers.

\* The record of a name of the zone, with the hashes it has or new ones.
Precompiled(d, n, z) ==
    LET p  == UsedParam(d, z)
        x  == d.dom[n].nsec3
        new == x.hash = 0 \/ x.wc_hash = 0
        h  == IF new THEN HashOf(p, n) ELSE x.hash
        wh == IF new THEN HashOf(p, Append(n, Star)) ELSE x.wc_hash
        c  == nsec3_find_cover(d, z, h)
    IN  [x EXCEPT !.hash = h, !.wc_hash = wh, !.cover = c, !.is_exact = Exact(c, h),
                  !.wcard_child_cover = nsec3_find_cover(d, z, wh)]
SetNsec3(d, S, f) == [d EXCEPT !.dom = [n \in DOMAIN @ |-> IF n \in S THEN [@[n] EXCEPT !.nsec3 = f[n]] ELSE @[n]]]
\* nsec3_precompile_domain for the names of S.
nsec3_precompile_domain(d, S, z) ==
    LET u == zone_add_domain_in_hash_tree(zone_add_domain_in_hash_tree(d, z, "hashtree", S), z, "wchashtree", S)
    IN  SetNsec3(u, S, [n \in S |-> Precompiled(u, n, z)])

PrecompiledCut(d, n, z) ==
    LET x == d.dom[n].nsec3
        h == IF x.ds_parent_hash = 0 THEN HashOf(UsedParam(d, z), n) ELSE x.ds_parent_hash
        c == nsec3_find_cover(d, z, h)
    IN  [x EXCEPT !.ds_parent_hash = h, !.ds_parent_cover = c, !.ds_parent_is_exact = Exact(c, h)]
nsec3_precompile_domain_ds(d, S, z) ==
    LET u == zone_add_domain_in_hash_tree(d, z, "dshashtree", S)
    IN  SetNsec3(u, S, [n \in S |-> PrecompiledCut(u, n, z)])

nsec3_precompile_nsec3rr(d, S, z) ==
    LET u == zone_add_domain_in_hash_tree(d, z, "nsec3tree", S)
        last == LastOf(u.zones[z].nsec3tree)
    IN  IF last \in S THEN [u EXCEPT !.zones[z].nsec3_last = last] ELSE u

\* The chain first, then the names it covers.
PrecompileCovered(d, z) ==
    nsec3_precompile_domain_ds(
        nsec3_precompile_domain(d, {n \in Under(d, z) : nsec3_condition_hash(d, n, z)}, z),
        {n \in Under(d, z) : nsec3_condition_dshash(d, n, z)}, z)
nsec3_precompile_newparam(d, z) ==
    LET S == {n \in Under(d, z) : nsec3_in_chain_count(d, n, z) # 0}
    IN  PrecompileCovered(IF S = {} THEN d ELSE nsec3_precompile_nsec3rr(d, S, z), z)

OutOfTrees(d, n, z) ==
    [d.dom[n].nsec3 EXCEPT !.nsec3_node = @ /\ n \notin d.zones[z].nsec3tree,
                           !.hash_node = @ /\ n \notin d.zones[z].hashtree,
                           !.wchash_node = @ /\ n \notin d.zones[z].wchashtree,
                           !.dshash_node = @ /\ n \notin d.zones[z].dshashtree]
nsec3_hash_tree_clear(d, z) ==
    [SetNsec3(d, Names(d), [n \in Names(d) |-> OutOfTrees(d, n, z)])
        EXCEPT !.zones[z].nsec3tree = {}, !.zones[z].hashtree = {},
               !.zones[z].wchashtree = {}, !.zones[z].dshashtree = {}]

WipeNames(x) ==
    [x EXCEPT !.nsec3_node = FALSE, !.hash_node = FALSE, !.wchash_node = FALSE, !.cover = NoName,
              !.wcard_child_cover = NoName, !.is_exact = FALSE, !.hash = 0, !.wc_hash = 0]
WipeCut(x) ==
    [x EXCEPT !.dshash_node = FALSE, !.ds_parent_cover = NoName, !.ds_parent_is_exact = FALSE,
              !.ds_parent_hash = 0]
Wiped(d, n, z) ==
    LET x == IF nsec3_domain_part_of_zone(d, n, z) THEN WipeNames(d.dom[n].nsec3) ELSE d.dom[n].nsec3
    IN  IF n = Root \/ nsec3_domain_part_of_zone(d, Parent(n), z) THEN WipeCut(x) ELSE x
nsec3_clear_precompile(d, z) ==
    LET u == nsec3_hash_tree_clear(prehash_clear(d), z)
    IN  [SetNsec3(u, Under(u, z), [n \in Under(u, z) |-> Wiped(u, n, z)]) EXCEPT !.zones[z].nsec3_last = NoName]

PrecompileIfChain(d, z) ==
    IF d.zones[z].nsec3_param # 0 /\ check_apex_soa(d, z)
    THEN nsec3_precompile_newparam(d, z) ELSE NoChain(d, z)
prehash_zone_complete(d, z) ==
    PrecompileIfChain(nsec3_find_zone_param(nsec3_clear_precompile(d, z), z, 0), z)
-----------------------------------------------------------------------------
\* The prehash list.

\* The names whose hash is from 'from' to before 'to', where 0 is no limit.
InRange(h, from, to) == h > from /\ (to = 0 \/ h < to)
process_range(d, z, from, to, nsec3) ==
    LET Hash(x, n) ==
            IF n \notin d.zones[z].hashtree THEN x
            ELSE IF from # 0 /\ x.hash = from THEN [x EXCEPT !.cover = nsec3, !.is_exact = TRUE]
            ELSE IF InRange(x.hash, from, to) THEN [x EXCEPT !.cover = nsec3, !.is_exact = FALSE] ELSE x
        Wild(x, n) ==
            IF n \in d.zones[z].wchashtree /\ (InRange(x.wc_hash, from, to) \/ (from # 0 /\ x.wc_hash = from))
            THEN [x EXCEPT !.wcard_child_cover = nsec3] ELSE x
        Cut(x, n) ==
            IF n \notin d.zones[z].dshashtree THEN x
            ELSE IF from # 0 /\ x.ds_parent_hash = from
            THEN [x EXCEPT !.ds_parent_cover = nsec3, !.ds_parent_is_exact = TRUE]
            ELSE IF InRange(x.ds_parent_hash, from, to)
            THEN [x EXCEPT !.ds_parent_cover = nsec3, !.ds_parent_is_exact = FALSE] ELSE x
    IN  [d EXCEPT !.dom = [n \in DOMAIN @ |-> [@[n] EXCEPT !.nsec3 = Cut(Wild(Hash(@, n), n), n)]]]

process_prehash_domain(d, z, n) ==
    LET next  == {m \in d.zones[z].nsec3tree : Label(m) > Label(n)}
        first == CHOOSE m \in d.zones[z].nsec3tree : \A k \in d.zones[z].nsec3tree : Label(m) <= Label(k)
        after == CHOOSE m \in next : \A k \in next : Label(m) <= Label(k)
        u == DbRequire(d, d.dom[n].nsec3.nsec3_node, "nsec3.c:790")
    IN  IF next # {} THEN process_range(u, z, Label(n), Label(after), n)
        ELSE process_range(process_range(u, z, Label(n), 0, n), z, 0, Label(first), n)

ProcessPrehash(d, z) ==
    prehash_clear(FoldLeft(LAMBDA u, n : process_prehash_domain(u, z, n), d, d.prehash))
ChainIfApex(d, z) == IF check_apex_soa(d, z) THEN d ELSE NoChain(d, z)
prehash_zone(d, z) ==
    IF d.zones[z].nsec3_param = 0 THEN prehash_clear(d) ELSE ChainIfApex(ProcessPrehash(d, z), z)
-----------------------------------------------------------------------------
\* Triggers: RRs and RRsets that come and go.

\* Each takes the names S that a loop goes over.

LeaveTree(d, S, z, tree) ==
    [d EXCEPT !.zones[z][tree] = @ \ S,
              !.dom = [n \in DOMAIN @ |-> IF n \in S THEN [@[n] EXCEPT !.nsec3[NodeOf(tree)] = FALSE] ELSE @[n]]]
NoLongerHashed(d, S, z) ==
    {n \in S : nsec3_domain_part_of_zone(d, n, z) /\ d.dom[n].nsec3.hash_node /\ ~nsec3_condition_hash(d, n, z)}
NoLongerCut(d, S, z) ==
    {n \in S : /\ n # z /\ d.dom[n].nsec3.dshash_node /\ ~nsec3_condition_dshash(d, n, z)
               /\ n = Root \/ nsec3_domain_part_of_zone(d, Parent(n), z)}
RemoveHashed(d, S, z) ==
    LeaveTree(LeaveTree(
        SetNsec3(d, S, [n \in S |-> [d.dom[n].nsec3 EXCEPT !.cover = NoName, !.wcard_child_cover = NoName,
                                                          !.is_exact = FALSE]]),
        S, z, "hashtree"), S, z, "wchashtree")
RemoveCut(d, S, z) ==
    LeaveTree(SetNsec3(d, S, [n \in S |-> [d.dom[n].nsec3 EXCEPT !.ds_parent_cover = NoName,
                                                                !.ds_parent_is_exact = FALSE]]),
              S, z, "dshashtree")
nsec3_rrsets_changed_remove_prehash(d, S, z) ==
    RemoveCut(RemoveHashed(d, NoLongerHashed(d, S, z), z), NoLongerCut(d, S, z), z)

NowHashed(d, S, z) == {n \in S : ~d.dom[n].nsec3.hash_node /\ nsec3_condition_hash(d, n, z)}
NowCut(d, S, z) == {n \in S : ~d.dom[n].nsec3.dshash_node /\ nsec3_condition_dshash(d, n, z)}
nsec3_rrsets_changed_add_prehash(d, S, z) ==
    IF d.zones[z].nsec3_param = 0 THEN d
    ELSE nsec3_precompile_domain_ds(nsec3_precompile_domain(d, NowHashed(d, S, z), z), NowCut(d, S, z), z)

\* Mutant of LeaveChain: the NSEC3 before it is not put on the prehash list.
LeaveOnly(d, n, z, prev) ==
    LET u == prehash_del(d, n)
        v == IF n = d.zones[z].nsec3_last THEN [u EXCEPT !.zones[z].nsec3_last = prev] ELSE u
    IN  zone_del_domain_in_hash_tree(v, z, "nsec3tree", n)

\* The NSEC3 leaves the chain: the one before it covers its names.
LeaveChain(d, n, z, prev) ==
    LET u == prehash_del(d, n)
        v == IF n = d.zones[z].nsec3_last THEN [u EXCEPT !.zones[z].nsec3_last = prev] ELSE u
        w == zone_del_domain_in_hash_tree(v, z, "nsec3tree", n)
    IN  IF prev # NoName /\ prev # n THEN prehash_add(w, prev) ELSE nsec3_clear_precompile(w, z)
NewParam(d, z) == IF d.zones[z].nsec3_param = 0 THEN d ELSE nsec3_precompile_newparam(d, z)
\* The RR is still there, at index i of its RRset.
nsec3_delete_rr_trigger(d, z, rr, i) ==
    IF d.zones[z].nsec3_param = 0 THEN d
    ELSE IF /\ rr.type = "NSEC3" /\ d.dom[rr.name].nsec3.nsec3_node
            /\ Nsec3Param(rr.data) = UsedParam(d, z) /\ nsec3_in_chain_count(d, rr.name, z) <= 1
    THEN LeaveChain(d, rr.name, z, nsec3_chain_find_prev(d, rr.name, z))
    ELSE IF rr.type = "NSEC3PARAM" /\ i = d.zones[z].nsec3_param /\ rr.name = z
    THEN NewParam(nsec3_find_zone_param(nsec3_clear_precompile(d, z), z, i), z)
    ELSE d

\* Data below a delegation or a DNAME may be revealed.
nsec3_delete_rrset_trigger(d, n, z, t) ==
    LET S == (IF t \in {"NSEC3", "NS", "DS"} THEN {n} ELSE {})
             \cup (IF t \in {"NS", "DS", "DNAME"} THEN Under(d, n) \ {n} ELSE {})
    IN  IF d.zones[z].nsec3_param = 0 THEN d
        ELSE nsec3_rrsets_changed_add_prehash(nsec3_rrsets_changed_remove_prehash(d, {n}, z), S, z)

nsec3_add_rr_trigger(d, z, rr) ==
    LET n == rr.name IN
    IF d.zones[z].nsec3_param = 0
    THEN IF rr.type = "NSEC3PARAM" THEN NewParam(nsec3_find_zone_param(d, z, 0), z) ELSE d
    ELSE IF rr.type = "NSEC3" /\ ~d.dom[n].nsec3.nsec3_node /\ Nsec3Param(rr.data) = UsedParam(d, z)
    THEN prehash_add(nsec3_rrsets_changed_remove_prehash(nsec3_precompile_nsec3rr(d, {n}, z), {n}, z), n)
    ELSE d

\* Data below a delegation or a DNAME may become obscured.
nsec3_add_rrset_trigger(d, n, z, t) ==
    LET S == (IF t \in {"NS", "DS"} THEN {n} ELSE {})
             \cup (IF t \in {"NS", "DS", "DNAME"} THEN Under(d, n) \ {n} ELSE {})
    IN  IF d.zones[z].nsec3_param = 0 THEN d
        ELSE nsec3_rrsets_changed_remove_prehash(nsec3_rrsets_changed_add_prehash(d, {n}, z), S, z)
=============================================================================
