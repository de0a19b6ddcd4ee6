----------------------------- MODULE MCZoneData -----------------------------
(***************************************************************************)
(* Zone contents for TLC: a zone with a delegation, a child zone below it, *)
(* a wildcard, an empty nonterminal and NSEC3 chains of two parameters.    *)
(***************************************************************************)
EXTENDS Query

Z == <<5>>
MCStar == 3
Child == <<5, 6>>
Glue == <<5, 6, 8>>
Host == <<5, 7>>
Wild == <<5, 3>>
Ent == <<5, 9>>
Deep == <<5, 9, 8>>
Alias == <<5, 4>>
Loop == <<5, 8>>
Moved == <<5, 9, 7>>
Wild2 == <<5, 7, 3>>
Missing == {<<5, 5>>, <<5, 6, 7>>, <<5, 7, 4>>, <<7>>}
Data == {<<>>, Z, Child, Glue, Host, Wild, Ent, Deep}
MoreData == {Alias, Loop, Moved, Wild2} \cup Missing

MCHash(p, n) == 20 + FoldLeft(LAMBDA a, x : (a * (29 + 8 * p) + x) % 997, p, n)
MCDName == Data \cup {Append(Z, MCHash(p, n)) : p \in {1, 2}, n \in {Z, Child, Host, Wild, Ent, Deep}}
MCQueryDName == MCDName \cup MoreData

RR(n, t, x, k) == [name |-> n, type |-> t, data |-> [n |-> x, k |-> k]]
SOA(k) == RR(Z, "SOA", Host, k)
NSEC3(p, n) == RR(Append(Z, MCHash(p, n)), "NSEC3", NoName, 2 * p + (IF n = Z THEN 1 ELSE 0))
Chain(p, names) == <<RR(Z, "NSEC3PARAM", NoName, p)>> \o [i \in DOMAIN names |-> NSEC3(p, names[i])]
NSECs(names) == [i \in DOMAIN names |-> RR(names[i], "NSEC", NoName, 0)]
Common == <<RR(Z, "NS", Host, 0), RR(Child, "NS", Glue, 0), RR(Glue, "A", NoName, 1)>>

\* Unsigned; signed with a chain; rolled over to another chain; both chains.
V1 == <<SOA(1)>> \o Common \o <<RR(Wild, "A", NoName, 1), RR(Deep, "A", NoName, 1)>>
V2 == <<SOA(2)>> \o Common \o <<RR(Host, "A", NoName, 1), RR(Z, "RRSIG", NoName, 1)>> \o Chain(1, <<Z, Child, Host>>)
V6 == <<SOA(6)>> \o Common \o <<RR(Alias, "CNAME", Moved, 0), RR(Ent, "DNAME", Z, 0), RR(Host, "A", NoName, 1),
        RR(Wild2, "A", NoName, 1), RR(Loop, "CNAME", Deep, 0), RR(Z, "RRSIG", NoName, 1)>> \o NSECs(<<Z, Alias, Child, Host, Wild2, Loop, Ent>>)
V3 == <<SOA(3)>> \o Common \o <<RR(Deep, "MX", Host, 0), RR(Z, "RRSIG", NoName, 1)>> \o Chain(2, <<Z, Ent, Deep>>)
V4 == <<SOA(4)>> \o Common \o <<RR(Host, "A", NoName, 1), RR(Deep, "A", NoName, 2), RR(Wild, "A", NoName, 1), RR(Z, "RRSIG", NoName, 1)>>
        \o Chain(1, <<Z, Host, Deep, Ent, Wild>>) \o Chain(2, <<Z, Host, Deep, Ent, Wild>>)

Without(v, w) == SelectSeq(Tail(v), LAMBDA x : x \notin Range(w))
Steps(v, w) == <<Head(v)>> \o Without(v, w) \o <<Head(w)>> \o Without(w, v)
Back(v, w) == <<Head(v)>> \o Reverse(Without(v, w)) \o <<Head(w)>> \o Reverse(Without(w, v))
AXFR(v) == [old |-> 0, base |-> {}, goal |-> Range(v), rrs |-> v \o <<Head(v)>>]
IXFR(v, w, parts) == [old |-> v[1].data.k, base |-> Range(v), goal |-> Range(w), rrs |-> <<Head(w)>> \o parts \o <<Head(w)>>]

VC == <<RR(Child, "SOA", Glue, 7), RR(Child, "NS", Glue, 0), RR(Glue, "A", NoName, 1)>>
MCStream(z) ==
    IF z = Z THEN {AXFR(v) : v \in {V1, V2, V3, V4}}
                  \cup {IXFR(p[1], p[2], Steps(p[1], p[2])) : p \in {<<V1, V2>>, <<V2, V4>>, <<V4, V3>>, <<V3, V1>>, <<V2, V3>>}}
                  \cup {IXFR(p[1], p[2], Back(p[1], p[2])) : p \in {<<V2, V4>>, <<V4, V3>>, <<V4, V2>>, <<V2, V3>>}}
                  \cup {IXFR(V1, V4, Steps(V1, V2) \o Steps(V2, V4))}
    ELSE {AXFR(VC)}
MCQueryStream(z) == MCStream(z) \cup (IF z = Z THEN {AXFR(V6), IXFR(V6, V1, Back(V6, V1))} ELSE {})
MCFile(z) == IF z = Z THEN {V2, V1 \o <<RR(Wild, "CNAME", Host, 0)>>} ELSE {VC}
MCQName == Data \cup MoreData \cup {Append(Z, MCHash(1, Z))}
MCQType == {"A", "NS", "DS", "ANY", "NSEC3"}
MCZone == {Z, Child}
MCSlave == {Child}
=============================================================================
