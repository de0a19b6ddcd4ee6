-------------------------------- MODULE Query --------------------------------
(***************************************************************************)
(* How a query is answered from the zones in memory (query.c, answer.c and *)
(* the answering half of nsec3.c), between the tasks that change them.     *)
(*                                                                         *)
(* A query q has a name, a type, the DO bit and the minimal-responses      *)
(* option.  An answer a is the rcode, the AA bit and the set of RRsets in  *)
(* it: their section, the owner they get and its number (NoName is 0, the  *)
(* query name), and where the RRset is.  next is the name that a CNAME or  *)
(* a DNAME leads to.  The functions of the source that add RRsets to the   *)
(* answer give the set of what they add.  Packets are not encoded: there   *)
(* is no truncation, and the RRSIGs that packet_encode_rrset adds to each  *)
(* RRset are left out.  The class is IN.                                   *)
(***************************************************************************)
EXTENDS ZoneData

ANSWER == 0
AUTHORITY == 1
OPTIONAL_AUTHORITY == 2
ADDITIONAL_A == 3

\* An RRset of zone z at a name, with the owner as it is sent.
Sent(d, z, sec, num, owner, at, t) ==
    [sec |-> sec, num |-> num, owner |-> owner, at |-> at, type |-> t, zone |-> z,
     data |-> IF t = "soa_nx" THEN Range(d.zones[z].soa_nx) ELSE Range(RRsOf(d, at, z, t))]
SentAs(d, z, sec, n, t) == Sent(d, z, sec, n, n, n, t)
SameRRset(e, f) == e.at = f.at /\ e.type = f.type /\ e.zone = f.zone /\ e.num = f.num
\* answer_add_rrset: once, in the first of the sections it is added to.
AddRRsets(R, E) == {e \in R \cup E : ~\E f \in R \cup E : SameRRset(e, f) /\ f.sec < e.sec}

\* The addresses of the names in an RRset, some of them from a wildcard.
DeepestOrNone(S) == IF S = {} THEN NoName ELSE Deepest(S)
\* Mutant of Existing: every name in the table exists.
InTable(d, n) == DeepestOrNone(Prefixes(n) \cap Names(d))

Existing(d, n) == DeepestOrNone({m \in Prefixes(n) : d.dom[m].is_existing})
WildcardOr(n, m, w) == IF m # n /\ w # NoName THEN w ELSE n
SourceOf(d, n) == WildcardOr(n, Existing(d, n), domain_wildcard_child(d, Existing(d, n)))
add_additional_rrsets(d, z, e) ==
    {Sent(d, z, ADDITIONAL_A, n, n, SourceOf(d, n), "A") :
        n \in {m \in {x.n : x \in e.data} : /\ e.type = "NS" \/ ~domain_is_glue(d, m, z)
                                           /\ domain_find_rrset(d, SourceOf(d, m), z, "A")}}
\* add_rrset for each of E.
WithAdditional(d, q, z, E) ==
    E \cup UNION {add_additional_rrsets(d, z, e) :
                    e \in {x \in E : x.type \in {"NS", "MX"} /\ (q.minimal => x.sec = AUTHORITY \/ q.type = "NS")}}
-----------------------------------------------------------------------------
\* NSEC3 proofs: the names of the NSEC3s to add.

Rec(d, n) == d.dom[n].nsec3
Provable(d, n) == {m \in Prefixes(n) \ {n} : Rec(d, m).is_exact}
CoverIfExact(d, n) == IF Rec(d, n).is_exact THEN {Rec(d, n).cover} ELSE {}

\* nsec3_add_nonexist_proof: the name one label below the encloser is hashed while
\* the query waits.
MatchCount(n, m) == Max({i \in 0..Min({Len(n), Len(m)}) : SubSeq(n, 1, i) = SubSeq(m, 1, i)})
NonexistHash(d, z, encloser, qname) ==
    HashOf(UsedParam(d, z), SubSeq(qname, 1, MatchCount(qname, encloser) + 1))
nsec3_add_nonexist_proof(d, z, h) ==
    LET c == nsec3_find_cover(d, z, h) IN IF Exact(c, h) THEN {} ELSE {c}
HashCollision(d, z, h) == Exact(nsec3_find_cover(d, z, h), h)

\* Mutant of nsec3_add_ds_proof: the closest encloser is left out.
DsProofNoEncloser(d, z, n, delegpt) == {Rec(d, n).ds_parent_cover}

\* From the NSEC3 at the cut, or from the closest encloser that has one.
nsec3_add_ds_proof(d, z, n, delegpt) ==
    LET x == Rec(d, n)
        par == Deepest(Provable(d, n))
        prev == SubSeq(n, 1, Len(par) + 1)
    IN  IF x.ds_parent_is_exact THEN {x.ds_parent_cover}
        ELSE IF ~delegpt /\ x.is_exact /\ nsec3_domain_part_of_zone(d, x.cover, z) THEN {x.cover}
        ELSE {Rec(d, par).cover, x.ds_parent_cover} \cup (IF prev = n THEN {} ELSE {Rec(d, prev).cover})

\* From n up to below a name that has an NSEC3.
UpToProvable(d, n) ==
    IF Rec(d, n).is_exact THEN n
    ELSE IF Provable(d, n) = {} THEN Root ELSE SubSeq(n, 1, Len(Deepest(Provable(d, n))) + 1)
nsec3_answer_nodata(d, q, z, n) ==
    LET m == UpToProvable(d, n) IN
    IF q.type = "DS" /\ n = z THEN CoverIfExact(d, n)
    ELSE IF q.type = "DS" THEN nsec3_add_ds_proof(d, z, n, FALSE)
    ELSE IF n # Root /\ d.dom[n].wc = n /\ Label(n) = Star THEN CoverIfExact(d, Parent(n)) \cup {Rec(d, n).cover}
    ELSE {Rec(d, m).cover} \cup (IF Rec(d, m).is_exact \/ m = Root THEN {} ELSE CoverIfExact(d, Parent(m)))
-----------------------------------------------------------------------------
\* Where the answer comes from.  match is the domain with the data: the name, or the
\* wildcard it is generated from, or NoName.

NoRoute ==
    [kind |-> "none", rcode |-> "NOERROR", zone |-> NoName, match |-> NoName, cm |-> NoName,
     ce |-> NoName, name |-> NoName, num |-> NoName]

\* answer_authoritative: the name itself, a DNAME above it, the wildcard, or nothing.
MatchedAt(d, r, exact, ce, w) ==
    IF exact THEN [r EXCEPT !.kind = "exact", !.match = r.cm, !.ce = ce, !.num = r.cm]
    ELSE IF domain_find_rrset(d, ce, r.zone, "DNAME") THEN [r EXCEPT !.kind = "dname", !.match = ce, !.ce = ce]
    ELSE [r EXCEPT !.kind = IF w = NoName THEN "nxdomain" ELSE "wildcard", !.match = w, !.ce = ce]
Occluded(d, r, exact, ce, dn) ==
    MatchedAt(d, r, exact /\ dn = NoName, IF dn = NoName THEN ce ELSE dn,
              domain_wildcard_child(d, IF dn = NoName THEN ce ELSE dn))
HideNsec3(d, r, exact, ce) == Occluded(d, r, exact, ce, find_dname_above(d, ce, r.zone))
RouteAuthoritative(d, r, exact, ce, hidden) ==
    HideNsec3(d, r, exact /\ ~hidden, IF hidden /\ ce # Root THEN Parent(ce) ELSE ce)

\* answer_lookup_zone: the parent answers for the DS of a zone that is here too.
DsZone(d, q, z, exact, ce) ==
    IF exact /\ q.type = "DS" /\ ce = z /\ domain_find_parent_zone(d, z) # NoName
    THEN domain_find_parent_zone(d, z) ELSE z
RouteAtCut(d, q, r, exact, ce, ds, cut) ==
    IF r.zone \in Slave /\ ~d.zones[r.zone].is_ok THEN [r EXCEPT !.kind = "fail", !.rcode = "SERVFAIL"]
    ELSE IF ds /\ ce = r.zone THEN [r EXCEPT !.kind = "dsapex", !.match = ce, !.ce = ce, !.num = ce]
    ELSE IF cut = NoName \/ (ds /\ ce = cut) \/ find_dname_above(d, cut, r.zone) # NoName
    THEN RouteAuthoritative(d, r, exact, ce, exact /\ domain_has_only_NSEC3(d, r.cm, r.zone))
    ELSE [r EXCEPT !.kind = "delegation", !.match = cut]
RouteInZone(d, q, r, exact, ce) ==
    RouteAtCut(d, q, r, exact, ce, exact /\ q.type = "DS", domain_find_ns_rrsets(d, ce, r.zone))

\* The domain that a DNAME leads to may be temporary: its closest match is not looked
\* for.  num is 0 for the query name only.
LookupZone(d, q, r, s, z, exact, ce) ==
    IF z = NoName THEN [r EXCEPT !.kind = "fail", !.rcode = "REFUSED"]
    ELSE IF ~d.zones[z].soa_rrset THEN [r EXCEPT !.kind = "fail", !.rcode = "SERVFAIL"]
    ELSE RouteInZone(d, q, [r EXCEPT !.zone = DsZone(d, q, z, exact, ce),
                                     !.cm = IF r.num = NoName \/ s.exact THEN s.closest_match
                                            ELSE s.closest_encloser], exact, ce)
FoundInTable(d, q, name, num, s, ce) ==
    LookupZone(d, q, [NoRoute EXCEPT !.name = name, !.num = num], s, domain_find_zone(d, s.closest_encloser),
               s.exact /\ ce = s.closest_encloser, ce)
answer_lookup_zone(d, q, name, num) ==
    FoundInTable(d, q, name, num, domain_table_search(d, name),
                 Existing(d, domain_table_search(d, name).closest_encloser))
-----------------------------------------------------------------------------
\* What is added on the way.

Nsec3Zone(d, q, r) == q.do /\ d.zones[r.zone].nsec3_param # 0
Secure(d, q, r) == q.do /\ d.zones[r.zone].is_secure
Found(r) == r.kind \in {"exact", "wildcard", "dsapex"}

\* answer_domain: the types at the domain that are added, or a CNAME, or no data.
TypesAdded(d, q, r) ==
    LET T == TypesAt(d, r.match, r.zone) \ {"NSEC3"}
    IN  IF r.kind = "dsapex" THEN {}
        ELSE IF q.type = "ANY" THEN T \ (IF Secure(d, q, r) THEN {"RRSIG"} ELSE {})
        ELSE IF q.type \notin T /\ q.type # "NSEC3" THEN T \cap {"CNAME"} ELSE T \cap {q.type}
Nodata(d, q, r) == Found(r) /\ TypesAdded(d, q, r) = {}
IsAlias(d, q, r) ==
    r.kind \in {"exact", "wildcard"} /\ q.type \notin {"ANY", "CNAME"} /\ TypesAdded(d, q, r) = {"CNAME"}

\* nsec3_answer_wildcard, nsec3_answer_authoritative, nsec3_answer_nodata and
\* nsec3_answer_delegation.
Nsec3Names(d, q, r) ==
    (IF r.kind \in {"wildcard", "nxdomain"}
     THEN nsec3_add_nonexist_proof(d, r.zone, NonexistHash(d, r.zone, r.ce, r.name)) ELSE {})
    \cup (IF r.kind = "nxdomain" THEN CoverIfExact(d, r.ce) \cup {Rec(d, r.ce).wcard_child_cover} ELSE {})
    \cup (IF r.kind = "delegation" THEN nsec3_add_ds_proof(d, r.zone, r.match, TRUE) ELSE {})
    \cup (IF Nodata(d, q, r) THEN nsec3_answer_nodata(d, q, r.zone, r.match) ELSE {})
Collides(d, q, r) ==
    /\ r.kind \in {"wildcard", "nxdomain"} /\ Nsec3Zone(d, q, r)
    /\ HashCollision(d, r.zone, NonexistHash(d, r.zone, r.ce, r.name))

\* The NSEC at the name or before it, within the zone.
find_covering_nsec(d, n, z) ==
    LET S == {m \in Under(d, z) : (m = n \/ Before(m, n)) /\ domain_find_rrset(d, m, z, "NSEC")}
    IN  IF S = {} THEN {} ELSE {LastOf(S)}
NsecNames(d, q, r) ==
    UNION {find_covering_nsec(d, n, r.zone) :
            n \in (IF r.kind \in {"wildcard", "nxdomain"} THEN {r.cm} ELSE {})
                  \cup (IF r.kind = "nxdomain" THEN {d.dom[r.ce].wc} ELSE {})
                  \cup (IF Nodata(d, q, r) THEN {r.match} ELSE {})}
    \cup (IF r.kind = "delegation" /\ domain_find_rrset(d, r.match, r.zone, "NSEC") THEN {r.match} ELSE {})

NeedsDs(d, q, r) == r.kind = "delegation" /\ Secure(d, q, r)
ProofType(d, q, r) ==
    IF r.kind \in {"fail", "dname"} \/ (r.kind = "delegation" /\ ~Secure(d, q, r)) THEN "none"
    ELSE IF NeedsDs(d, q, r) /\ domain_find_rrset(d, r.match, r.zone, "DS") THEN "DS"
    ELSE IF Nsec3Zone(d, q, r) THEN "NSEC3" ELSE IF Secure(d, q, r) THEN "NSEC" ELSE "none"
ProofNames(d, q, r, t) ==
    CASE t = "NSEC3" -> Nsec3Names(d, q, r) \ {NoName}
      [] t = "NSEC" -> NsecNames(d, q, r)
      [] t = "DS" -> {r.match}
      [] OTHER -> {}
ProofRRsets(d, r, t, S) ==
    {SentAs(d, r.zone, AUTHORITY, n, t) : n \in {m \in S \cap Names(d) : domain_find_rrset(d, m, r.zone, t)}}

\* The data, the SOA of a negative answer, the name servers.
DataRRsets(d, q, r) ==
    IF r.kind \in {"exact", "wildcard"}
    THEN {Sent(d, r.zone, ANSWER, r.num, r.name, r.match, t) : t \in TypesAdded(d, q, r)}
    ELSE IF r.kind = "dname" THEN {SentAs(d, r.zone, ANSWER, r.match, "DNAME")}
    ELSE IF r.kind = "delegation" THEN {SentAs(d, r.zone, AUTHORITY, r.match, "NS")} ELSE {}
AddsSoa(d, q, a, r) == r.kind = "nxdomain" \/ (Nodata(d, q, r) /\ a.cname_count = 0)
AddsNs(d, q, r) ==
    /\ r.kind \in {"exact", "wildcard"} /\ TypesAdded(d, q, r) # {} /\ ~IsAlias(d, q, r)
    /\ d.zones[r.zone].ns_rrset /\ q.type \notin {"DNSKEY", "DS"} /\ ~q.minimal
ZoneRRsets(d, q, a, r) ==
    (IF AddsSoa(d, q, a, r) THEN {SentAs(d, r.zone, AUTHORITY, r.zone, "soa_nx")} ELSE {})
    \cup (IF AddsNs(d, q, r) THEN {SentAs(d, r.zone, OPTIONAL_AUTHORITY, r.zone, "NS")} ELSE {})
-----------------------------------------------------------------------------
\* The answer.

NoAnswer == [rcode |-> "NOERROR", aa |-> FALSE, cname_count |-> 0, rrs |-> {}, next |-> NoName, bad |-> {}]

\* A CNAME or DNAME that is in the answer already is a loop.  The name below a DNAME
\* is moved, with a CNAME that says so, unless it is too long then.
AliasOf(d, r) == Head(RRsOf(d, r.match, r.zone, IF r.kind = "dname" THEN "DNAME" ELSE "CNAME")).n
Target(d, r) ==
    IF r.kind = "dname" THEN AliasOf(d, r) \o SubSeq(r.name, Len(r.match) + 1, Len(r.name)) ELSE AliasOf(d, r)
query_synthesize_cname(r, to) ==
    IF r.kind = "dname" /\ to \in DName
    THEN {[sec |-> ANSWER, num |-> r.num, owner |-> r.name, at |-> r.match, type |-> "CNAME", zone |-> r.zone,
           data |-> {[n |-> to, k |-> 0]}]}
    ELSE {}
FollowAlias(a, b, r, to) ==
    IF b.rrs = a.rrs THEN b
    ELSE [b EXCEPT !.cname_count = @ + 1, !.rrs = @ \cup query_synthesize_cname(r, to),
                   !.next = IF to \in DName THEN to ELSE NoName,
                   !.rcode = IF to \in DName THEN @ ELSE "YXDOMAIN"]

\* S is the names with proofs of type t.  A hash collision ends the answer.
WithRRsets(d, q, a, r, t, S, E, collides) ==
    [a EXCEPT !.rrs = AddRRsets(@, WithAdditional(d, q, r.zone, E)),
              !.aa = IF r.kind = "delegation" THEN a.cname_count > 0 ELSE TRUE,
              !.rcode = IF collides THEN "SERVFAIL" ELSE IF r.kind = "nxdomain" THEN "NXDOMAIN" ELSE @,
              !.bad = @ \cup (IF S \subseteq Names(d) THEN {} ELSE {"nsec3.c:832"})
                        \cup (IF NeedsDs(d, q, r) /\ t = "NSEC3" /\ Provable(d, r.match) = {}
                              THEN {"nsec3.c:921"} ELSE {})]
FollowIfAlias(d, q, a, b, r) ==
    IF b.rcode = "NOERROR" /\ (r.kind = "dname" \/ IsAlias(d, q, r)) THEN FollowAlias(a, b, r, Target(d, r)) ELSE b
AnswerFrom(d, q, a, r, t, S, collides) ==
    FollowIfAlias(d, q, a,
        WithRRsets(d, q, a, r, t, S,
                   ProofRRsets(d, r, t, S)
                      \cup (IF collides THEN {} ELSE DataRRsets(d, q, r) \cup ZoneRRsets(d, q, a, r)), collides), r)
AnswerProved(d, q, a, r, t) == AnswerFrom(d, q, a, r, t, ProofNames(d, q, r, t), Collides(d, q, r))
\* A zone without SOA has no soa_nx_rrset to add.
AnswerRoute(d, q, a, r) ==
    IF r.kind = "fail" THEN IF a.cname_count = 0 THEN [a EXCEPT !.rcode = r.rcode] ELSE a
    ELSE IF AddsSoa(d, q, a, r) /\ d.zones[r.zone].soa_nx = <<>> THEN [a EXCEPT !.bad = @ \cup {"query.c:710"}]
    ELSE AnswerProved(d, q, a, r, ProofType(d, q, r))

RECURSIVE Follow(_, _, _)
Follow(d, q, a) ==
    IF a.next = NoName THEN a
    ELSE Follow(d, q, AnswerRoute(d, q, [a EXCEPT !.next = NoName],
                                  answer_lookup_zone(d, q, a.next, IF a.cname_count = 0 THEN NoName ELSE a.next)))
answer_query(d, q) == Follow(d, q, [NoAnswer EXCEPT !.next = q.name])
-----------------------------------------------------------------------------
\* What the answer should be, from the RRs of the zones alone (RFC 1034, 4.3.2).

CONSTANTS QName, QType

Queries == [name : QName, type : QType, do : BOOLEAN, minimal : BOOLEAN]
Served(z) == ContentOf(db, z)
Has(C, n, t) == \E rr \in C : rr.name = n /\ rr.type = t
DataOf(C, n, t) == {rr.data : rr \in {x \in C : x.name = n /\ x.type = t}}
Exists(C, n) == \E rr \in C : IsPrefix(n, rr.name) /\ rr.type \notin {"NSEC3", "RRSIG"}
ZonesAbove(n) == {z \in DOMAIN db.zones : IsPrefix(z, n)}
ZoneFor(n, t) ==
    LET own == Deepest(ZonesAbove(n))
        above == ZonesAbove(n) \ {own}
    IN  IF t = "DS" /\ n = own /\ above # {} THEN Deepest(above) ELSE own
Topmost(S) == CHOOSE m \in S : \A k \in S : Len(m) <= Len(k)

\* The data at a name, or at the wildcard it comes from.
AtSource(C, src, t) ==
    LET has == {rr.type : rr \in {x \in C : x.name = src}} \ {"NSEC3"}
    IN  IF t = "ANY" /\ has # {} THEN "answer"
        ELSE IF t # "NSEC3" /\ t \in has THEN "answer"
        ELSE IF t \notin {"ANY", "NSEC3"} /\ "CNAME" \in has THEN "cname" ELSE "nodata"
NamesFor(C, z, n, t, cuts, dnames, ce, R) ==
    IF cuts # {} /\ \A m \in dnames : Len(m) >= Len(Topmost(cuts))
    THEN [R EXCEPT !.kind = "delegation", !.at = Topmost(cuts)]
    ELSE IF dnames # {} THEN [R EXCEPT !.kind = "dname", !.at = Topmost(dnames)]
    ELSE IF ~Exists(C, R.at) THEN R ELSE [R EXCEPT !.kind = AtSource(C, R.at, t)]
InZone(C, z, n, t, ce) ==
    NamesFor(C, z, n, t,
             {m \in Prefixes(n) : Len(m) > Len(z) /\ Has(C, m, "NS") /\ ~(t = "DS" /\ m = n)},
             {m \in Prefixes(n) \ {n} : IsPrefix(z, m) /\ Has(C, m, "DNAME")}, ce,
             [kind |-> "nxdomain", zone |-> z, ce |-> ce, at |-> IF ce = n THEN n ELSE Append(ce, Star)])
EnclosedIn(C, z, n, t) == InZone(C, z, n, t, Deepest({m \in Prefixes(n) : Exists(C, m)}))
Unserved(n, z, own) == ~Has(Served(own), own, "SOA") \/ (z \in Slave /\ ~db.zones[z].is_ok)
Failed(k) == [kind |-> k, zone |-> NoName, ce |-> NoName, at |-> NoName]
\* A DS query at the apex of a zone goes to the zone above, without a look whether that
\* one has a SOA (query.c:1237-1246): there is no right answer then.
ParentUnloaded(n, z) == z # Deepest(ZonesAbove(n)) /\ ~Has(Served(z), z, "SOA")
OutcomeIn(n, t, z) ==
    IF Unserved(n, z, Deepest(ZonesAbove(n))) THEN Failed("servfail")
    ELSE IF ParentUnloaded(n, z) THEN Failed("unloaded") ELSE EnclosedIn(Served(z), z, n, t)
Outcome(n, t) == IF ZonesAbove(n) = {} THEN Failed("refused") ELSE OutcomeIn(n, t, ZoneFor(n, t))

\* The outcomes along the names that CNAMEs and DNAMEs lead to.
NextName(n, o) ==
    IF o.kind = "cname" THEN (CHOOSE x \in DataOf(Served(o.zone), o.at, "CNAME") : TRUE).n
    ELSE (CHOOSE x \in DataOf(Served(o.zone), o.at, "DNAME") : TRUE).n \o SubSeq(n, Len(o.at) + 1, Len(n))
RECURSIVE Trail(_, _, _, _)
Trail(n, t, seen, o) ==
    IF o.kind \notin {"cname", "dname"} THEN Append(seen, <<n, o>>)
    ELSE IF <<n, o>> \in Range(seen) \/ NextName(n, o) \notin DName THEN <<>>
    ELSE Trail(NextName(n, o), t, Append(seen, <<n, o>>), Outcome(NextName(n, o), t))
-----------------------------------------------------------------------------
\* Properties.  Queries are answered by processes that have what a reload left.

\* Each property is about the queries whose names do not lead in circles.  The answer
\* is a, and tr the names to the answer with what becomes of them.
Ends(tr) == tr # <<>> /\ Last(tr)[2].kind \notin {"cname", "dname"}
MeetsUnloaded(tr) == tr # <<>> /\ Last(tr)[2].kind = "unloaded"

ExpectedAt(q, n, o) ==
    LET C == Served(o.zone)
        types == IF q.type # "ANY" THEN {q.type}
                 ELSE {rr.type : rr \in {x \in C : x.name = o.at}}
                        \ ({"NSEC3"} \cup (IF q.do /\ db.zones[o.zone].is_secure THEN {"RRSIG"} ELSE {}))
    IN  CASE o.kind = "answer" -> {<<n, t, DataOf(C, o.at, t)>> : t \in types}
          [] o.kind = "cname" -> {<<n, "CNAME", DataOf(C, o.at, "CNAME")>>}
          [] o.kind = "dname" -> {<<o.at, "DNAME", DataOf(C, o.at, "DNAME")>>,
                                  <<n, "CNAME", {[n |-> NextName(n, o), k |-> 0]}>>}
          [] OTHER -> {}
ExpectedRcode(tr) ==
    LET k == Last(tr)[2].kind
    IN  IF k = "nxdomain" THEN "NXDOMAIN"
        ELSE IF Len(tr) = 1 /\ k = "refused" THEN "REFUSED"
        ELSE IF Len(tr) = 1 /\ k = "servfail" THEN "SERVFAIL" ELSE "NOERROR"

\* The rcode, the AA bit and the answer section are the ones that the RRs of the
\* zones call for: names, empty nonterminals, wildcards, delegations, aliases and
\* the DS of a child are told apart with is_existing, the wildcard pointers and the
\* zones of RRsets as every sequence of transfers left them.
AnswerIsRight(q, a, tr) ==
    /\ a.rcode = ExpectedRcode(tr)
    /\ a.aa <=> Len(tr) > 1 \/ tr[1][2].kind \notin {"refused", "servfail", "delegation"}
    /\ {<<e.owner, e.type, e.data>> : e \in {x \in a.rrs : x.sec = ANSWER}}
          = UNION {ExpectedAt(q, tr[i][1], tr[i][2]) : i \in DOMAIN tr}

\* A negative answer has the SOA that is served now, and a referral has the name
\* servers of the cut and the addresses of those of them that are in the zone.
Referral(C, a, o) ==
    /\ \E e \in a.rrs : e.at = o.at /\ e.type = "NS" /\ e.sec = AUTHORITY
    /\ \A x \in DataOf(C, o.at, "NS") : Has(C, x.n, "A") =>
            \E e \in a.rrs : e.at = x.n /\ e.type = "A" /\ e.data = DataOf(C, x.n, "A")
HasSoa(C, a, o) == \E e \in a.rrs : e.type = "soa_nx" /\ e.sec = AUTHORITY /\ e.data = DataOf(C, o.zone, "SOA")
ReferralIsComplete(a, tr, o) ==
    /\ o.kind = "delegation" => Referral(Served(o.zone), a, o)
    /\ o.kind = "nxdomain" \/ (o.kind = "nodata" /\ Len(tr) = 1) => HasSoa(Served(o.zone), a, o)

AnswerHolds(q, a, tr) ==
    IF MeetsUnloaded(tr) THEN a.bad \subseteq {"query.c:710"}
    ELSE /\ a.bad = {}
         /\ Ends(tr) => AnswerIsRight(q, a, tr) /\ ReferralIsComplete(a, tr, Last(tr)[2])

\* Between tasks, every query whose names do not lead in circles gets the rcode, the
\* AA bit, the answer section, the SOA or the referral that the RRs of the zones in
\* memory call for (answer_query), whatever transfers they came with; and no query
\* uses an NSEC3 that is freed, an RRset that is not there or fails an assertion.  The
\* exception: DS at an apex below a zone that is configured and not loaded, where the
\* assertion of the RRset that is added (query.c:710) may fail.
AnswersRight ==
    Idle => \A q \in Queries :
        AnswerHolds(q, answer_query(db, q), Trail(q.name, q.type, <<>>, Outcome(q.name, q.type)))

\* Names with an NSEC3 of the chain, and whether it is complete: it may leave out
\* unsigned delegations.
ChainOf(C, p) == {rr.name : rr \in {x \in C : x.type = "NSEC3" /\ Nsec3Param(x.data) = p}}
CutsOf(C, z) == {rr.name : rr \in {x \in C : x.type = "NS"}} \ {z}
ChainComplete(z) ==
    LET C == Served(z)
        p == UsedParam(db, z)
        names == {m \in UNION {Prefixes(rr.name) : rr \in C} :
                    /\ IsPrefix(z, m) /\ Exists(C, m)
                    /\ \A k \in CutsOf(C, z) : ~IsPrefix(k, m) \/ (k = m /\ Has(C, k, "DS"))}
    IN  \A m \in names : Append(z, HashOf(p, m)) \in ChainOf(C, p)

\* The NSEC3s in the answer match a name, or cover it.
Proves(a, z, n, exact) ==
    LET p == UsedParam(db, z)
        h == HashOf(p, n)
        L == {Label(m) : m \in ChainOf(Served(z), p)}
        below == {x \in L : x <= h}
        at == IF below = {} THEN Max(L) ELSE Max(below)
    IN  (at = h) = exact /\ \E e \in a.rrs : e.type = "NSEC3" /\ e.sec = AUTHORITY /\ e.at = Append(z, at)
NextCloser(n, ce) == SubSeq(n, 1, Len(ce) + 1)
\* A name without NSEC3: from the closest encloser that has one.
ProvesAbsence(a, z, n) ==
    \/ Proves(a, z, n, TRUE)
    \/ \E p \in Prefixes(n) \ {n} : Proves(a, z, p, TRUE) /\ Proves(a, z, NextCloser(n, p), FALSE)
\* For DS the code does not add the closest encloser of a wildcard without data.
StepProved(q, a, n, o) ==
    LET z == o.zone
        wild == o.at # n
        C == Served(z)
    IN  CASE o.kind = "nxdomain" -> /\ Proves(a, z, o.ce, TRUE) /\ Proves(a, z, NextCloser(n, o.ce), FALSE)
                                    /\ Proves(a, z, Append(o.ce, Star), FALSE)
          [] o.kind = "nodata" /\ wild -> /\ Proves(a, z, o.at, TRUE) /\ Proves(a, z, NextCloser(n, o.ce), FALSE)
                                          /\ q.type # "DS" => Proves(a, z, o.ce, TRUE)
          [] o.kind = "nodata" /\ ~wild -> ProvesAbsence(a, z, n)
          [] o.kind \in {"answer", "cname"} /\ wild -> Proves(a, z, NextCloser(n, o.ce), FALSE)
          [] o.kind = "delegation" -> Has(C, o.at, "DS") \/ ~db.zones[z].is_secure \/ ProvesAbsence(a, z, o.at)
          [] OTHER -> TRUE
\* The same for a zone with NSECs, at the name or the last before it.
HasNsec(a, z, n) ==
    LET S == {rr.name : rr \in {x \in Served(z) : x.type = "NSEC" /\ (x.name = n \/ CanonLess(x.name, n))}}
    IN  \E e \in a.rrs : e.type = "NSEC" /\ e.sec = AUTHORITY /\ e.at = LastOf(S)
StepProvedNsec(a, n, o) ==
    LET wild == o.at # n
    IN  CASE o.kind = "nxdomain" -> HasNsec(a, o.zone, n) /\ HasNsec(a, o.zone, Append(o.ce, Star))
          [] o.kind = "nodata" -> HasNsec(a, o.zone, n) /\ HasNsec(a, o.zone, o.at)
          [] o.kind \in {"answer", "cname"} -> wild => HasNsec(a, o.zone, n)
          [] o.kind = "delegation" -> Has(Served(o.zone), o.at, "DS") \/ HasNsec(a, o.zone, o.at)
          [] OTHER -> TRUE

\* In a zone with NSECs or a complete NSEC3 chain every answer that needs one has its
\* proof that the name, the wildcard, the type or the DS does not exist, from the
\* pointers that were kept up to date as RRs came and went.  Two proofs are not whole:
\* with NSECs, that of a name that a DNAME leads to and that is not in the table; with
\* NSEC3s, that of a wildcard without a DS, which lacks the closest encloser.
DenialIsProved(q, a, n, o, first) ==
    IF o.kind \in {"refused", "servfail"} THEN TRUE
    ELSE IF db.zones[o.zone].nsec3_param # 0 THEN ChainComplete(o.zone) => StepProved(q, a, n, o)
    ELSE /\ db.zones[o.zone].is_secure /\ Has(Served(o.zone), o.zone, "NSEC")
         /\ first \/ n \in Names(db)
         => StepProvedNsec(a, n, o)

ProofsHold(q, a, tr) ==
    Ends(tr) /\ ~MeetsUnloaded(tr) => \A i \in DOMAIN tr : DenialIsProved(q, a, tr[i][1], tr[i][2], i = 1)
\* Between tasks, every query with the DO bit gets the NSECs or NSEC3s that prove what
\* its answer denies (nsec3_answer_authoritative, answer_nodata, answer_nxdomain), but
\* for DS at an apex below a zone that is not loaded and the two proofs named above.
DenialsProved ==
    Idle => \A q \in Queries : q.do =>
        ProofsHold(q, answer_query(db, q), Trail(q.name, q.type, <<>>, Outcome(q.name, q.type)))
=============================================================================
