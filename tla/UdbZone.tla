------------------------------ MODULE UdbZone ------------------------------
(***************************************************************************)
(* A zone in the database file (udbzone.c): a tree of its names, a list of *)
(* RRsets at each name and a list of RRs in each RRset, with counts and    *)
(* the NSEC3PARAM record the zone is hashed with.                          *)
(*                                                                         *)
(* uz.rrsets is the list of RRsets per name: a sequence of [type, rrs],    *)
(* where rrs is a sequence of rdata.  Its domain is the set of names that  *)
(* are in the tree: that an insertion in the tree adds the name or, when   *)
(* an allocation fails, nothing at all is what UdbRadTree shows.  The      *)
(* first uz.fuel allocations of an operation succeed and the next one      *)
(* fails; uz.ok is FALSE from a failure on.  A chunk is known by what is   *)
(* in it: nsec3param is <<>> or <<name, rdata>>.  uz.told is the set of    *)
(* RRs the users of the zone believe to be in it.  TTL, class and the log  *)
(* and file strings of the zone are left out.                              *)
(***************************************************************************)
EXTENDS NameOrder, FiniteSets, SequencesExt

CONSTANTS
    ZoneRR,     \* the RRs that come and go: records with name, type, data
    MaxRR,      \* at most so many RRs in the zone
    Sha1        \* NSEC3_SHA1_HASH, the first byte of rdata

VARIABLE uz

UzEmpty ==
    [rrsets |-> <<>>, rrset_count |-> 0, rr_count |-> 0, nsec3param |-> <<>>,
     told |-> {}, fuel |-> 0, ok |-> TRUE]
UzInit == uz = UzEmpty

UzStart(f) == [uz EXCEPT !.fuel = f]
UzEnd(z) == [z EXCEPT !.fuel = 0, !.ok = TRUE]
Chunk(z) == IF z.fuel = 0 THEN [z EXCEPT !.ok = FALSE] ELSE [z EXCEPT !.fuel = @ - 1]
-----------------------------------------------------------------------------
\* Names of the zone.

udb_domain_find(z, nm) == nm \in DOMAIN z.rrsets

\* The domain chunk, then its place in the tree.
domain_create(z, nm) ==
    LET u == Chunk(z)
        v == Chunk(u)
    IN  IF ~u.ok THEN u
        ELSE IF ~v.ok THEN v
        ELSE [v EXCEPT !.rrsets = [d \in DOMAIN v.rrsets \cup {nm} |->
                                      IF d = nm THEN <<>> ELSE v.rrsets[d]]]

domain_find_or_create(z, nm) == IF udb_domain_find(z, nm) THEN z ELSE domain_create(z, nm)

domain_delete_unlink(z, nm) ==
    [z EXCEPT !.rrsets = [d \in DOMAIN z.rrsets \ {nm} |-> z.rrsets[d]]]
-----------------------------------------------------------------------------
\* RRsets of a name.

RRsetAt(z, nm, t) == SelectInSeq(z.rrsets[nm], LAMBDA s : s.type = t)
udb_rrset_find(z, nm, t) == RRsetAt(z, nm, t) # 0
RRs(z, nm, t) == z.rrsets[nm][RRsetAt(z, nm, t)].rrs

domain_remove_rrset(z, nm, t) ==
    [z EXCEPT !.rrsets[nm] = SelectSeq(@, LAMBDA s : s.type # t)]

\* "preserve RRset order, link at end".
rrset_create(z, nm, t) ==
    IF z.ok THEN [z EXCEPT !.rrsets[nm] = Append(@, [type |-> t, rrs |-> <<>>])] ELSE z

rrset_find_or_create(z, nm, t) ==
    IF udb_rrset_find(z, nm, t) THEN z ELSE rrset_create(Chunk(z), nm, t)

rr_search(z, nm, t, data) == SelectInSeq(RRs(z, nm, t), LAMBDA d : d = data)

rrset_add_rr(z, nm, t, data) ==
    IF z.ok THEN [z EXCEPT !.rrsets[nm][RRsetAt(z, nm, t)].rrs = Append(@, data)] ELSE z

rrset_del_rr(z, nm, t, data) ==
    [z EXCEPT !.rrsets[nm][RRsetAt(z, nm, t)].rrs = SelectSeq(@, LAMBDA d : d # data)]
-----------------------------------------------------------------------------
\* NSEC3PARAM.  Rdata is the hash, the flags and the salt; less is too short.

Selectable(data) == Len(data) >= 3 /\ data[1] = Sha1 /\ data[2] = 0

select_nsec3_param(z, nm) ==
    LET i == SelectInSeq(RRs(z, nm, "NSEC3PARAM"), Selectable)
    IN  IF i = 0 THEN z ELSE [z EXCEPT !.nsec3param = <<nm, RRs(z, nm, "NSEC3PARAM")[i]>>]

zone_hash_nsec3param(z, nm, t) ==
    IF t = "NSEC3PARAM" /\ z.nsec3param = <<>> THEN select_nsec3_param(z, nm) ELSE z
-----------------------------------------------------------------------------
\* Adding an RR.  What was created for it goes away when it cannot be added.

CleanDomain(z, nm) ==
    UzEnd(IF z.rrsets[nm] = <<>> THEN domain_delete_unlink(z, nm) ELSE z)

CleanDomainRRset(z, nm, t) ==
    CleanDomain(IF RRs(z, nm, t) = <<>> THEN domain_remove_rrset(z, nm, t) ELSE z, nm)

\* The caller is told that the RR is added.
Told(z, nm, t, data) ==
    [z EXCEPT !.told = @ \cup {[name |-> nm, type |-> t, data |-> data]}]

AddedRR(z, nm, t, data, created) ==
    UzEnd(zone_hash_nsec3param(
        [Told(z, nm, t, data) EXCEPT !.rr_count = @ + 1,
                                     !.rrset_count = @ + (IF created THEN 1 ELSE 0)], nm, t))

AddToRRset(z, nm, t, data) ==
    LET u == rrset_add_rr(Chunk(z), nm, t, data)
    IN  IF rr_search(z, nm, t, data) # 0 THEN CleanDomainRRset(z, nm, t)
        ELSE IF ~u.ok THEN CleanDomainRRset(u, nm, t)
        ELSE AddedRR(u, nm, t, data, RRs(z, nm, t) = <<>>)

AddToDomain(z, nm, t, data) ==
    LET u == rrset_find_or_create(z, nm, t)
    IN  IF u.ok THEN AddToRRset(u, nm, t, data) ELSE CleanDomain(u, nm)

udb_zone_add_rr(f, nm, t, data) ==
    LET u == domain_find_or_create(UzStart(f), nm)
    IN  /\ uz.rr_count < MaxRR
        /\ uz' = IF u.ok THEN AddToDomain(u, nm, t, data) ELSE UzEnd(u)
-----------------------------------------------------------------------------
\* Deleting an RR, and what is empty then.

DropDomain(z, nm) == IF z.rrsets[nm] = <<>> THEN domain_delete_unlink(z, nm) ELSE z

DropRRset(z, nm, t) ==
    IF RRs(z, nm, t) = <<>>
    THEN [domain_remove_rrset(z, nm, t) EXCEPT !.rrset_count = @ - 1]
    ELSE zone_hash_nsec3param(z, nm, t)

\* Mutant of ForgetParam: the parameters stay when their RR goes.
RememberParam(z, nm, t, data) == z

ForgetParam(z, nm, t, data) ==
    IF t = "NSEC3PARAM" /\ z.nsec3param = <<nm, data>> THEN [z EXCEPT !.nsec3param = <<>>] ELSE z

DelFromRRset(z, nm, t, data) ==
    LET u == ForgetParam(z, nm, t, data)
        v == [rrset_del_rr(u, nm, t, data) EXCEPT !.rr_count = @ - 1]
    IN  IF rr_search(z, nm, t, data) = 0 THEN u ELSE DropDomain(DropRRset(v, nm, t), nm)

udb_zone_del_rr(nm, t, data) ==
    /\ udb_domain_find(uz, nm) /\ udb_rrset_find(uz, nm, t)
    /\ uz' = DelFromRRset([uz EXCEPT !.told = @ \ {[name |-> nm, type |-> t, data |-> data]}], nm, t, data)

\* udb_zone_clear: all names go, the tree stays.
udb_zone_clear == uz' = UzEmpty

UzNext ==
    \/ \E f \in 0..4, rr \in ZoneRR : udb_zone_add_rr(f, Canon(rr.name), rr.type, rr.data)
    \/ \E rr \in ZoneRR : udb_zone_del_rr(Canon(rr.name), rr.type, rr.data)
    \/ udb_zone_clear
-----------------------------------------------------------------------------
\* Properties.

UzContent ==
    UNION {UNION {{[name |-> nm, type |-> s.type, data |-> d] : d \in Range(s.rrs)} :
                  s \in Range(uz.rrsets[nm])} : nm \in DOMAIN uz.rrsets}
UzParams == {rr \in UzContent : rr.type = "NSEC3PARAM"}

\* rr_count and rrset_count, which udb_zone_write and the statistics trust, are
\* what is in the lists: no RR is twice in an RRset and no RRset twice at a name.
CountsRight ==
    /\ uz.rr_count = Cardinality(UzContent)
    /\ uz.rrset_count = Cardinality({<<rr.name, rr.type>> : rr \in UzContent})
    /\ \A nm \in DOMAIN uz.rrsets :
        /\ Len(uz.rrsets[nm]) = Cardinality({rr.type : rr \in {x \in UzContent : x.name = nm}})
        /\ \A s \in Range(uz.rrsets[nm]) : Cardinality(Range(s.rrs)) = Len(s.rrs)

\* No name and no RRset stays behind empty, after deletions and after additions
\* that failed once the name or the RRset for them was there.
NothingEmpty ==
    \A nm \in DOMAIN uz.rrsets :
        uz.rrsets[nm] # <<>> /\ \A s \in Range(uz.rrsets[nm]) : s.rrs # <<>>

\* The zone's nsec3param is an RR of the zone that NSD can hash with, and there
\* is one when the zone has such an RR.  The RRs of ZoneRR have NSEC3PARAM at the
\* apex only: udbzone.c takes it from any name, nsec3.c looks at the apex.
ParamValid ==
    /\ uz.nsec3param # <<>> =>
        \E rr \in UzParams : uz.nsec3param = <<rr.name, rr.data>> /\ Selectable(rr.data)
    /\ (\E rr \in UzParams : Selectable(rr.data)) => uz.nsec3param # <<>>

\* The zone has the RRs for which udb_zone_add_rr said that it had added them and
\* that were not deleted since: no RR is lost or stays behind, and no count, empty
\* RRset or NSEC3 parameter goes wrong, at whatever allocation an addition fails
\* and however it cleans up.
UzSound == UzContent = uz.told /\ CountsRight /\ NothingEmpty /\ ParamValid
=============================================================================
