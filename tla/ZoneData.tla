------------------------------ MODULE ZoneData ------------------------------
(***************************************************************************)
(* How the contents of zones change (difffile.c, dbaccess.c, dbcreate.c,   *)
(* zonec.c): zone transfers that are applied RR by RR to memory and to the *)
(* database file, zone files that are read, zones that are added, deleted  *)
(* and expired, and the restart of the program from the database file.     *)
(*                                                                         *)
(* db is the database in memory; db.udb is the database file, per zone the *)
(* RRs it holds, the NSEC3PARAMs in their order and the one it hashes with *)
(* (that udbzone.c keeps them so is what UdbZone shows), and db.usesudb is *)
(* FALSE for a server without a database file.  db.dirty is its userflags. *)
(* job is the transfer being applied: the RRs still to come, and how far   *)
(* apply_ixfr is.  An RR is a record of name, type and data.               *)
(*                                                                         *)
(* A reload process does one task after another in its own copy of the     *)
(* memory, and main is the memory of the process that goes on serving      *)
(* meanwhile, or <<>>; the database file is the same for both.  conf is    *)
(* the set of zones in the configuration, which xfrd keeps.  hist is what  *)
(* the properties remember: last is what the last task that ended left of  *)
(* a zone, done are the zones that the reload process had tasks for, apart *)
(* are those whose file need not have what memory has, and torn are those  *)
(* for which it need not have what any task left.                          *)
(***************************************************************************)
EXTENDS Nsec3

CONSTANTS
    Zone,       \* the zones that can be configured
    Slave,      \* those of them that have a master
    Stream(_),  \* the transfers of a zone
    File(_),    \* the zone files of a zone: sequences of RRs
    MaxJobs,    \* transfers and other tasks in a behaviour
    MaxDeaths,  \* processes that die, and writes that fail, in a behaviour
    Room,       \* of how many RRs there is room for, in a file without room for all
    Careful     \* no zone file is written to a database file that is dirty

VARIABLES db, job, jobs, deaths, main, conf, hist

zdvars == <<db, job, jobs, deaths, main, conf, hist>>

NamesIn(rr) == IF rr.data.n = NoName THEN {} ELSE {rr.data.n}
Serial(rr) == rr.data.k
rdatas_equal(t, x, y) == IF t = "SOA" THEN x.k = y.k ELSE x = y
find_rr_num(d, z, rr) ==
    SelectInSeq(RRsOf(d, rr.name, z, rr.type), LAMBDA x : rdatas_equal(rr.type, x, rr.data))
-----------------------------------------------------------------------------
\* The database file (UdbZone).

NewUdbZone == [rrs |-> {}, params |-> <<>>, param |-> 0]
HashWith(u) ==
    LET i == SelectInSeq(u.params, LAMBDA k : k \in Param)
    IN  IF u.param = 0 /\ i # 0 THEN [u EXCEPT !.param = u.params[i]] ELSE u
IsParam(z, rr) == rr.type = "NSEC3PARAM" /\ rr.name = z
udb_write_rr(d, z, rr) ==
    IF ~d.usesudb \/ rr \in d.udb[z].rrs THEN d
    ELSE [d EXCEPT !.udb[z] = HashWith(
            [@ EXCEPT !.rrs = @ \cup {rr},
                      !.params = IF IsParam(z, rr) THEN Append(@, rr.data.k) ELSE @])]

\* Mutant of udb_del_rr: all but the NSEC3PARAM RRs stay in the file.
DelNoRR(d, z, rr) ==
    IF ~d.usesudb \/ rr \notin d.udb[z].rrs \/ ~IsParam(z, rr) THEN d
    ELSE [d EXCEPT !.udb[z] = HashWith(
            [@ EXCEPT !.rrs = @ \ {rr}, !.params = Remove(@, rr.data.k),
                      !.param = IF @ = rr.data.k THEN 0 ELSE @])]

udb_del_rr(d, z, rr) ==
    IF ~d.usesudb \/ rr \notin d.udb[z].rrs THEN d
    ELSE [d EXCEPT !.udb[z] = HashWith(
            [@ EXCEPT !.rrs = @ \ {rr},
                      !.params = IF IsParam(z, rr) THEN Remove(@, rr.data.k) ELSE @,
                      !.param = IF IsParam(z, rr) /\ @ = rr.data.k THEN 0 ELSE @])]
\* udb_zone_create when it is not there, and udb_zone_clear.
UdbZoneCreate(d, z) ==
    IF d.usesudb /\ z \notin DOMAIN d.udb THEN [d EXCEPT !.udb = (z :> NewUdbZone) @@ @] ELSE d
udb_zone_clear(d, z) == IF d.usesudb THEN [d EXCEPT !.udb[z] = NewUdbZone] ELSE d
udb_zone_delete(d, z) == [d EXCEPT !.udb = [x \in DOMAIN @ \ {z} |-> @[x]]]
-----------------------------------------------------------------------------
\* Adding an RR.

apex_rrset_checks(d, z, t) ==
    LET rrs == RRsOf(d, z, z, t) IN
    CASE t = "SOA" -> [d EXCEPT !.zones[z].soa_rrset = TRUE, !.zones[z].soa_nx = <<rrs[1]>>]
      [] t = "NS" -> [d EXCEPT !.zones[z].ns_rrset = TRUE]
      [] t = "RRSIG" /\ (\E i \in DOMAIN rrs : rrs[i].k = 1) -> [d EXCEPT !.zones[z].is_secure = TRUE]
      [] OTHER -> d

\* rdata_wireformat_to_rdata_atoms: the names in rdata are in the table, and used.
UseNames(d, rr) ==
    FoldSet(LAMBDA n, u : [domain_table_insert(u, n) EXCEPT !.dom[n].usage = @ + 1], d, NamesIn(rr))

FindOrAddRRset(d, z, rr) ==
    LET u == domain_table_insert(d, rr.name)
    IN  IF domain_find_rrset(u, rr.name, z, rr.type) THEN u ELSE domain_add_rrset(u, rr.name, z, rr.type)

\* The array of RRs moves: nsec3_param has to point into it.
StoreRR(d, z, rr) ==
    LET u == [d EXCEPT !.dom[rr.name].rrsets[<<z, rr.type>>] = Append(@, rr.data)]
        v == IF rr.name = z THEN apex_rrset_checks(u, z, rr.type) ELSE u
    IN  DbRequire(v, (IsParam(z, rr) /\ d.zones[z].nsec3_param # 0) =>
                        d.zones[z].nsec3_param <= Len(RRsOf(d, z, z, "NSEC3PARAM")), "difffile.c:831")

\* The new RRset may have made empty nonterminals above it.
EmptyAbove(d, n) ==
    {m \in Prefixes(n) \ {n} :
        \A k \in Prefixes(n) \ {n} : Len(k) >= Len(m) => d.dom[k].rrsets = <<>> /\ ~d.dom[k].is_apex}
AddTriggers(d, z, rr, added) ==
    nsec3_add_rr_trigger(
        IF added THEN nsec3_rrsets_changed_add_prehash(nsec3_add_rrset_trigger(d, rr.name, z, rr.type),
                                                       EmptyAbove(d, rr.name), z)
        ELSE d, z, rr)

\* d is before the RR, u has its RRset and the names in its rdata.
AddToRRset(d, u, z, rr) ==
    IF find_rr_num(u, z, rr) # 0 THEN [u EXCEPT !.softfail = TRUE, !.leak = @ \/ NamesIn(rr) # {}]
    ELSE AddTriggers(udb_write_rr(StoreRR(u, z, rr), z, rr), z, rr,
                     ~(rr.name \in Names(d) /\ domain_find_rrset(d, rr.name, z, rr.type)))
add_RR(d, z, rr) == AddToRRset(d, UseNames(FindOrAddRRset(d, z, rr), rr), z, rr)
-----------------------------------------------------------------------------
\* Deleting an RR.

rr_lower_usage(d, rr) ==
    FoldSet(LAMBDA n, u :
                LET v == [DbRequire(u, u.dom[n].usage > 0, "difffile.c:609") EXCEPT !.dom[n].usage = @ - 1]
                IN  IF v.dom[n].usage = 0 THEN domain_table_deldomain(v, n) ELSE v,
            d, NamesIn(rr))

rrset_delete(d, n, z, t) ==
    LET rrs == RRsOf(d, n, z, t)
    IN  [d EXCEPT !.dom[n].rrsets = [k \in DOMAIN @ \ {<<z, t>>} |-> @[k]],
                  !.zones[z].soa_rrset = @ /\ ~(n = z /\ t = "SOA"),
                  !.zones[z].ns_rrset = @ /\ ~(n = z /\ t = "NS"),
                  !.zones[z].is_secure = @ /\ ~(n = z /\ t = "RRSIG" /\ \E i \in DOMAIN rrs : rrs[i].k = 1)]

has_data_below(d, n) == \E m \in Under(d, n) \ {n} : d.dom[m].is_existing
Nonexist(d, n) == FixWildcardOfParent([d EXCEPT !.dom[n].is_existing = FALSE], n)
\* Mutant of NonexistUp: the names above it are not looked at.
NonexistOnce(d, n, ce) == [db |-> Nonexist(d, n), ce |-> NoName]

RECURSIVE NonexistUp(_, _, _)
NonexistUp(d, n, ce) ==
    IF d.dom[n].rrsets # <<>> THEN [db |-> d, ce |-> NoName]
    ELSE IF n = ce \/ has_data_below(d, n) THEN [db |-> d, ce |-> n]
    ELSE IF n = Root THEN [db |-> Nonexist(d, n), ce |-> NoName]
    ELSE NonexistUp(Nonexist(d, n), Parent(n), ce)
\* Gives the database and the nonterminal where the search upwards ended.
rrset_zero_nonexist_check(d, n, ce) ==
    IF d.dom[n].rrsets = <<>> /\ ~has_data_below(d, n) THEN NonexistUp(d, n, ce)
    ELSE [db |-> d, ce |-> NoName]

DeleteRRset(d, z, rr) ==
    LET u == rrset_zero_nonexist_check(rrset_delete(d, rr.name, z, rr.type), rr.name, NoName).db
    IN  domain_table_deldomain(nsec3_delete_rrset_trigger(u, rr.name, z, rr.type), rr.name)

\* The last RR takes the place of the one deleted, and nsec3_param follows its RR.
SwapOut(s, i) == [j \in 1..Len(s) - 1 |-> IF j = i THEN s[Len(s)] ELSE s[j]]
DeleteFromRRset(d, z, rr, i) ==
    LET n == Len(RRsOf(d, rr.name, z, rr.type))
        p == d.zones[z].nsec3_param
        u == [DbRequire(d, (IsParam(z, rr) /\ p # 0) => p <= n, "difffile.c:716") EXCEPT
                !.dom[rr.name].rrsets[<<z, rr.type>>] = SwapOut(@, i),
                !.zones[z].nsec3_param = IF IsParam(z, rr) /\ p = n THEN i ELSE p]
    IN  IF rr.type = "NSEC3" THEN nsec3_rrsets_changed_add_prehash(u, {rr.name}, z) ELSE u

DeleteFound(d, z, rr, i) ==
    IF Len(RRsOf(d, rr.name, z, rr.type)) = 1 THEN DeleteRRset(d, z, rr) ELSE DeleteFromRRset(d, z, rr, i)
DeleteRR(d, z, rr, i) ==
    DeleteFound(rr_lower_usage(nsec3_delete_rr_trigger(udb_del_rr(d, z, rr), z, rr, i), rr), z, rr, i)

\* The index of the RR to delete; any SOA will do at the apex.
RRToDelete(d, z, rr) ==
    LET i == find_rr_num(d, z, rr) IN IF i = 0 /\ rr.type = "SOA" /\ rr.name = z THEN 1 ELSE i
delete_RR(d, z, rr) ==
    IF ~(rr.name \in Names(d) /\ domain_find_rrset(d, rr.name, z, rr.type)) \/ RRToDelete(d, z, rr) = 0
    THEN [d EXCEPT !.softfail = TRUE]
    ELSE LET i == RRToDelete(d, z, rr)
         IN  DeleteRR(d, z, [rr EXCEPT !.data = RRsOf(d, rr.name, z, rr.type)[i]], i)
-----------------------------------------------------------------------------
\* All RRs of a zone go.

LowerAll(d, n, z, t) ==
    FoldLeft(LAMBDA u, x : rr_lower_usage(u, [name |-> n, type |-> t, data |-> x]), d, RRsOf(d, n, z, t))
DeleteRRsets(d, n, z) ==
    FoldSet(LAMBDA t, u : rrset_delete(LowerAll(u, n, z, t), n, z, t), d, TypesAt(d, n, z))
NextUnder(d, n, z) ==
    LET L == SelectSeq(InOrder(Under(d, z)), LAMBDA m : Before(n, m))
    IN  IF L = <<>> THEN NoName ELSE Head(L)

NonexistPass(d, z) ==
    FoldLeft(LAMBDA a, n : IF a.db.dom[n].is_existing THEN rrset_zero_nonexist_check(a.db, n, a.ce) ELSE a,
             [db |-> d, ce |-> NoName], InOrder(Under(d, z))).db

\* The end of delete_zone_rrs, and what the callers do next.
AssertWiped(d, z) ==
    DbRequire(DbRequire(d, ~d.zones[z].soa_rrset /\ ~d.zones[z].ns_rrset, "difffile.c:956"),
              ~d.zones[z].is_secure, "difffile.c:959")
NoRRsLeft(d, z) == [nsec3_clear_precompile(AssertWiped(d, z), z) EXCEPT !.zones[z].nsec3_param = 0]
-----------------------------------------------------------------------------
\* Zones.

namedb_zone_create(d, z) ==
    LET u == domain_table_insert(d, z)
    IN  [u EXCEPT !.zones = (z :> NewZone) @@ @, !.dom[z].usage = @ + 1, !.dom[z].is_apex = TRUE]
find_or_create_zone(d, z) == IF z \in DOMAIN d.zones THEN d ELSE namedb_zone_create(d, z)

namedb_zone_delete(d, z) ==
    LET u == [d EXCEPT !.zones = [x \in DOMAIN @ \ {z} |-> @[x]],
                       !.dom[z].usage = @ - 1, !.dom[z].is_apex = FALSE]
    IN  IF u.dom[z].usage = 0 THEN domain_table_deldomain(u, z) ELSE u

\* The RRs of a zone in the database file, in an order of names.
InNameOrder(S) ==
    FoldLeft(LAMBDA s, n : s \o SetToSeq({rr \in S : rr.name = n}), <<>>, AllNames)
ReadRR(d, z, rr) ==
    StoreRR(UseNames(FindOrAddRRset(d, z, rr), rr), z, rr)
\* NSEC3PARAMs come in the order in which they are stored.
RRsInFile(d, z) ==
    LET S == {rr \in d.udb[z].rrs : ~IsParam(z, rr)}
        P == [i \in DOMAIN d.udb[z].params |->
                [name |-> z, type |-> "NSEC3PARAM", data |-> [n |-> NoName, k |-> d.udb[z].params[i]]]]
    IN  IF z \in DOMAIN d.udb THEN P \o InNameOrder(S) ELSE <<>>
-----------------------------------------------------------------------------
\* Reading a zone file.  A zone with a master takes what it can: errors become
\* warnings.

domain_find_non_cname_rrset(d, n, z) == TypesAt(d, n, z) \ {"CNAME", "RRSIG", "NSEC", "NSEC3"} # {}
RejectedRR(d, z, rr) ==
    \/ rr.type = "SOA" /\ (rr.name # z \/ \E k \in DOMAIN d.dom[z].rrsets : k[2] = "SOA")
    \/ ~IsSubdomain(rr.name, z)
BadTypes(d, n, z, t) ==
    \/ t \in {"CNAME", "DNAME"} /\ Len(RRsOf(d, n, z, t)) > 1
    \/ t \in {"CNAME", "DNAME"} /\ {"CNAME", "DNAME"} \subseteq TypesAt(d, n, z)
    \/ domain_find_rrset(d, n, z, "CNAME") /\ domain_find_non_cname_rrset(d, n, z)
process_rr(a, z, rr) ==
    LET u == UseNames(domain_table_insert(a.db, rr.name), rr)
        v == FindOrAddRRset(u, z, rr)
        w == StoreRR(v, z, rr)
    IN  IF RejectedRR(u, z, rr)
        THEN [db |-> [u EXCEPT !.leak = TRUE], errors |-> a.errors \/ (rr.type = "SOA" /\ rr.name # z) \/ z \notin Slave]
        ELSE IF rr.data \in Range(RRsOf(v, rr.name, z, rr.type))
        THEN [a EXCEPT !.db = [v EXCEPT !.leak = @ \/ NamesIn(rr) # {}]]
        ELSE [db |-> w, errors |-> a.errors \/ (z \notin Slave /\ BadTypes(w, rr.name, z, rr.type))]

\* There may be no data below a DNAME.
check_dname(d, z) ==
    \A n \in Under(d, z) : d.dom[n].is_existing /\ ~OnlyNsec3({k[2] : k \in DOMAIN d.dom[n].rrsets}) =>
        \A m \in Prefixes(n) \ {n} : \A k \in DOMAIN d.dom[m].rrsets : k[2] # "DNAME"
FileFails(d, z, errors) == errors \/ ~d.zones[z].soa_rrset \/ (z \notin Slave /\ ~check_dname(d, z))

ContentOf(d, z) ==
    UNION {{[name |-> n, type |-> t, data |-> x] : x \in Range(RRsOf(d, n, z, t))} :
           <<n, t>> \in UNION {{n} \X TypesAt(d, n, z) : n \in Under(d, z)}}
\* The order in which write_zone goes over the RRs of the zone.
WriteOrder(d, z) ==
    LET RRset(n, t) == [i \in DOMAIN RRsOf(d, n, z, t) |-> [name |-> n, type |-> t, data |-> RRsOf(d, n, z, t)[i]]]
        RRsets(n) == FoldSet(LAMBDA t, s : s \o RRset(n, t), <<>>, TypesAt(d, n, z))
    IN  FoldLeft(LAMBDA s, n : s \o RRsets(n), <<>>, InOrder(Under(d, z)))
\* write_zone_to_udb: the file is dirty from when the zone in it is cleared until it
\* is written again, or until writing it fails.
StartWriteToUdb(d, z) ==
    IF d.usesudb THEN [d EXCEPT !.dirty = TRUE, !.udb = (z :> NewUdbZone) @@ @] ELSE d
WrittenToUdb(d, z, rrs) ==
    LET params == SelectSeq(rrs, LAMBDA rr : IsParam(z, rr))
    IN  IF d.usesudb
        THEN [d EXCEPT !.dirty = FALSE,
                       !.udb[z] = HashWith([rrs |-> Range(rrs), params |-> [i \in DOMAIN params |-> params[i].data.k],
                                            param |-> 0])]
        ELSE d

-----------------------------------------------------------------------------
\* The tasks of a reload.  The ones that change zone contents are loops over names
\* and RRs, an iteration at a time.

NoJob ==
    [kind |-> "none", zone |-> NoName, wipe |-> FALSE, walk |-> NoName, emptied |-> FALSE, rrs |-> <<>>,
     new |-> 0, rr_count |-> 0, is_axfr |-> FALSE, delete_mode |-> FALSE, errors |-> FALSE,
     todo |-> <<>>, goal |-> <<>>]
Idle == job.kind = "none"
Job(k) == job.kind = k /\ ~job.wipe
\* main and done are of no use, and not kept, when no more processes can die.
Turn(z) ==
    LET dies == deaths < MaxDeaths
    IN  /\ Idle /\ jobs < MaxJobs /\ jobs' = jobs + 1 /\ UNCHANGED deaths
        /\ main' = (IF ~dies THEN <<>> ELSE IF main = <<>> THEN <<db>> ELSE main)
        /\ hist' = [hist EXCEPT !.done = IF dies THEN @ \cup {z} ELSE {}]
Frame == UNCHANGED <<jobs, deaths, main, conf>>
Rest == Frame /\ UNCHANGED hist

\* The task ends; whole says that the file now has all of the zone, and no more.
Ended(z, whole) ==
    hist' = [hist EXCEPT !.last[z] = IF z \in DOMAIN db'.zones THEN ContentOf(db', z) ELSE {},
                         !.apart = IF whole THEN @ \ {z} ELSE @,
                         !.torn = IF whole THEN @ \ {z} ELSE IF z \in hist.apart THEN @ \cup {z} ELSE @]
NotStored(z) ==
    hist' = [hist EXCEPT !.last[z] = ContentOf(db', z), !.apart = @ \cup {z}, !.torn = @ \cup {z}]

ZdInit ==
    /\ \E usesudb \in BOOLEAN : db = namedb_zone_create(EmptyDb(usesudb), Head(InOrder(Zone)))
    /\ job = NoJob /\ jobs = 0 /\ deaths = 0 /\ main = <<>> /\ conf = DOMAIN db.zones
    /\ hist = [last |-> [z \in Zone |-> {}], done |-> {}, apart |-> {}, torn |-> {}]

\* delete_zone_rrs: the RRs of the zone at one name after another.
StartWipe(j, z) == [j EXCEPT !.wipe = TRUE, !.walk = z, !.emptied = FALSE]
WipeName ==
    LET n == job.walk
        u == DeleteRRsets(db, n, job.zone)
    IN  /\ job.wipe /\ n # NoName
        /\ db' = domain_table_deldomain(u, n)
        /\ job' = [job EXCEPT !.walk = NextUnder(u, n, job.zone),
                              !.emptied = @ \/ (TypesAt(db, n, job.zone) # {} /\ u.dom[n].rrsets = <<>>)]
        /\ Rest
EndWipe ==
    LET u == NoRRsLeft(IF job.emptied THEN NonexistPass(db, job.zone) ELSE db, job.zone)
    IN  /\ job.wipe /\ job.walk = NoName
        /\ db' = IF job.kind = "xfr" THEN udb_zone_clear(u, job.zone)
                 ELSE IF job.kind = "del" THEN namedb_zone_delete(udb_zone_delete(u, job.zone), job.zone) ELSE u
        /\ job' = IF job.kind = "del" THEN NoJob ELSE [job EXCEPT !.wipe = FALSE]
        /\ IF job.kind = "del" THEN Ended(job.zone, TRUE) ELSE UNCHANGED hist
        /\ Frame
-----------------------------------------------------------------------------
\* Transfers (apply_ixfr_for_zone and apply_ixfr).

\* What the differences start from is what is in memory.
check_for_bad_serial(d, z, old) ==
    d.zones[z].soa_rrset /\ old # 0 /\ old # RRsOf(d, z, z, "SOA")[1].k

\* A file that is dirty is not updated.
StartXfr(z, x) ==
    /\ Turn(z) /\ z \in conf \cap DOMAIN db.zones /\ ~check_for_bad_serial(db, z, x.old) /\ ~db.dirty
    /\ db' = [UdbZoneCreate(db, z) EXCEPT !.dirty = db.usesudb, !.softfail = FALSE]
    /\ job' = [NoJob EXCEPT !.kind = "xfr", !.zone = z, !.rrs = Tail(x.rrs), !.new = Serial(Head(x.rrs)),
                            !.rr_count = 1,
                            !.goal = IF x.old = 0 \/ ContentOf(db, z) = x.base THEN <<x.goal>> ELSE <<>>]
    /\ UNCHANGED conf

\* The second RR tells a full transfer: all that the zone has goes.
Second == job.rr_count = 1 /\ ~job.is_axfr
StartsAxfr == Second /\ (Head(job.rrs).type # "SOA" \/ Serial(Head(job.rrs)) = job.new)
SawAxfr ==
    /\ Job("xfr") /\ job.rrs # <<>> /\ StartsAxfr
    /\ db' = nsec3_hash_tree_clear(db, job.zone)
    /\ job' = StartWipe([job EXCEPT !.is_axfr = TRUE], job.zone)
    /\ Rest

\* Without a SOA in memory differences are ignored.
NothingToDiff == Second /\ ~StartsAxfr /\ ~domain_find_rrset(db, job.zone, job.zone, "SOA")

Deletes == IF Head(job.rrs).type = "SOA" /\ ~job.is_axfr THEN ~job.delete_mode ELSE job.delete_mode
\* Mutant of FinalSoa: the last SOA is taken for the start of more differences.
NoFinalSoa == FALSE

FinalSoa == ~job.is_axfr /\ Head(job.rrs).type = "SOA" /\ Len(job.rrs) = 1
ApplyRR == Job("xfr") /\ job.rrs # <<>> /\ ~StartsAxfr /\ ~NothingToDiff
NextRR == job' = [job EXCEPT !.rrs = Tail(@), !.rr_count = @ + 1, !.delete_mode = Deletes]
ApplyDelete ==
    /\ ApplyRR /\ Deletes /\ NextRR /\ Rest
    /\ db' = IF FinalSoa THEN db ELSE delete_RR(db, job.zone, Head(job.rrs))
ApplyAdd ==
    /\ ApplyRR /\ ~Deletes /\ NextRR /\ Rest
    /\ db' = add_RR(db, job.zone, Head(job.rrs))

EndXfr ==
    /\ Job("xfr") /\ (job.rrs = <<>> \/ NothingToDiff)
    /\ db' = [prehash_zone([db EXCEPT !.dirty = FALSE], job.zone) EXCEPT !.zones[job.zone].is_changed = TRUE]
    /\ IF NothingToDiff THEN UNCHANGED hist ELSE Ended(job.zone, job.is_axfr)
    /\ job' = NoJob /\ Frame
-----------------------------------------------------------------------------
\* Zone files (namedb_read_zonefile).  The file is newer than what is in memory.

StartFile(z, file) ==
    /\ Turn(z) /\ z \in conf \cap DOMAIN db.zones /\ (db.dirty => ~Careful)
    /\ db' = nsec3_hash_tree_clear(db, z)
    /\ job' = StartWipe([NoJob EXCEPT !.kind = "file", !.zone = z, !.rrs = file,
                                      !.goal = <<Range(file)>>], z)
    /\ UNCHANGED conf
ReadFileRR ==
    LET a == process_rr([db |-> db, errors |-> job.errors], job.zone, Head(job.rrs))
    IN  /\ Job("file") /\ job.rrs # <<>>
        /\ db' = a.db
        /\ job' = [job EXCEPT !.rrs = Tail(@), !.errors = a.errors]
        /\ Rest
ReadWell == [db EXCEPT !.zones[job.zone].is_ok = TRUE, !.zones[job.zone].is_changed = FALSE]
FileRead ==
    /\ Job("file") /\ job.rrs = <<>> /\ ~FileFails(db, job.zone, job.errors)
    /\ db' = StartWriteToUdb(ReadWell, job.zone)
    /\ job' = [job EXCEPT !.kind = "write"]
    /\ Rest
FileWritten ==
    /\ Job("write")
    /\ db' = prehash_zone_complete(WrittenToUdb(db, job.zone, WriteOrder(db, job.zone)), job.zone)
    /\ Ended(job.zone, TRUE)
    /\ job' = NoJob /\ Frame
\* There is no room in the file for the zone, or for all of it.  That is logged, the
\* flag is cleared, and the zone is served.
Fails == db.usesudb /\ deaths < MaxDeaths /\ deaths' = deaths + 1 /\ UNCHANGED <<jobs, main, conf>>
ZoneNotCreated ==
    /\ Job("file") /\ job.rrs = <<>> /\ ~FileFails(db, job.zone, job.errors) /\ Fails
    /\ job.zone \notin DOMAIN db.udb
    /\ db' = prehash_zone_complete([ReadWell EXCEPT !.dirty = FALSE], job.zone)
    /\ NotStored(job.zone)
    /\ job' = NoJob
WriteFails ==
    LET rrs == WriteOrder(db, job.zone)
    IN  /\ Job("write") /\ Fails
        /\ \E k \in {r \in Room : r < Len(rrs)} :
                db' = prehash_zone_complete(WrittenToUdb(db, job.zone, SubSeq(rrs, 1, k)), job.zone)
        /\ NotStored(job.zone)
        /\ job' = NoJob
\* With errors, back to what the database file has.
FileFailed ==
    /\ Job("file") /\ job.rrs = <<>> /\ FileFails(db, job.zone, job.errors)
    /\ db' = nsec3_hash_tree_clear([db EXCEPT !.zones[job.zone].is_ok = TRUE], job.zone)
    /\ job' = StartWipe([job EXCEPT !.kind = "revert", !.rrs = RRsInFile(db, job.zone),
                                    !.goal = IF ~db.usesudb THEN <<{}>>
                                             ELSE IF db.dirty \/ job.zone \in hist.torn THEN <<>>
                                             ELSE <<hist.last[job.zone]>>],
                        job.zone)
    /\ Rest
ReadUdbRR ==
    /\ (Job("revert") \/ Job("open")) /\ job.rrs # <<>>
    /\ db' = ReadRR(db, job.zone, Head(job.rrs))
    /\ job' = [job EXCEPT !.rrs = Tail(@)]
    /\ Rest
EndRevert ==
    /\ Job("revert") /\ job.rrs = <<>>
    /\ db' = IF db.usesudb /\ job.zone \notin DOMAIN db.udb THEN db ELSE prehash_zone_complete(db, job.zone)
    /\ Ended(job.zone, TRUE)
    /\ job' = NoJob /\ Frame
-----------------------------------------------------------------------------
\* The other tasks.

task_process_expire(z, yes) ==
    /\ Turn(z) /\ z \in DOMAIN db.zones /\ db.zones[z].is_ok = yes
    /\ db' = [db EXCEPT !.zones[z].is_ok = ~yes]
    /\ UNCHANGED <<job, conf>>

\* There is no zone file for it yet.
task_process_add_zone(z) ==
    /\ Turn(z) /\ z \notin conf /\ conf' = conf \cup {z}
    /\ db' = find_or_create_zone(db, z)
    /\ UNCHANGED job

task_process_del_zone(z) ==
    /\ Turn(z) /\ z \in conf /\ conf' = conf \ {z}
    /\ IF z \in DOMAIN db.zones
       THEN /\ db' = nsec3_hash_tree_clear(db, z)
            /\ job' = StartWipe([NoJob EXCEPT !.kind = "del", !.zone = z], z)
       ELSE UNCHANGED <<db, job>>
-----------------------------------------------------------------------------
\* The end of a reload process, and processes that die.

\* The tasks are done, and the reload process is the one that serves.
ReloadDone ==
    /\ Idle /\ main # <<>>
    /\ main' = <<>> /\ hist' = [hist EXCEPT !.done = {}]
    /\ UNCHANGED <<db, job, jobs, deaths, conf>>

\* The process that reloads dies in a task, or after some.  Its memory is gone, with
\* all of the tasks that it did; the database file is shared, and has them.
ReloadDies ==
    /\ main # <<>> /\ deaths < MaxDeaths /\ deaths' = deaths + 1
    /\ db' = [main[1] EXCEPT !.udb = db.udb, !.dirty = db.dirty]
    /\ main' = <<>> /\ job' = NoJob
    /\ hist' = [hist EXCEPT !.apart = @ \cup hist.done, !.done = {}]
    /\ UNCHANGED <<jobs, conf>>

\* Mutant of Restart: a file that is dirty is used.
RestartDirtyToo ==
    LET udb == [z \in DOMAIN db.udb \cap conf |-> db.udb[z]]
    IN  /\ deaths < MaxDeaths /\ deaths' = deaths + 1
        /\ db' = [EmptyDb(db.usesudb) EXCEPT !.udb = udb]
        /\ job' = [NoJob EXCEPT !.kind = "open", !.todo = InOrder(DOMAIN udb)]
        /\ main' = <<>> /\ UNCHANGED <<jobs, conf, hist>>

\* The server stops, or dies, and starts again (namedb_open).  A file that is dirty,
\* and a zone that is not configured any more, do not come back.
Restart ==
    LET udb == IF db.dirty THEN <<>> ELSE [z \in DOMAIN db.udb \cap conf |-> db.udb[z]]
    IN  /\ deaths < MaxDeaths /\ deaths' = deaths + 1
        /\ db' = [EmptyDb(db.usesudb) EXCEPT !.udb = udb]
        /\ job' = [NoJob EXCEPT !.kind = "open", !.todo = InOrder(DOMAIN udb)]
        /\ main' = <<>> /\ UNCHANGED <<jobs, conf, hist>>

OpenZone ==
    /\ Job("open") /\ job.zone = NoName /\ job.todo # <<>>
    /\ db' = namedb_zone_create(db, Head(job.todo))
    /\ job' = [job EXCEPT !.zone = Head(job.todo), !.todo = Tail(@), !.rrs = RRsInFile(db, Head(job.todo))]
    /\ Rest
ZoneOpened ==
    /\ Job("open") /\ job.zone # NoName /\ job.rrs = <<>>
    /\ db' = prehash_zone_complete(db, job.zone)
    /\ job' = [job EXCEPT !.zone = NoName]
    /\ Rest
Opened ==
    /\ Job("open") /\ job.zone = NoName /\ job.todo = <<>>
    /\ db' = FoldLeft(LAMBDA x, z : find_or_create_zone(x, z), db, InOrder(conf))
    /\ hist' = [last |-> [z \in Zone |-> IF z \in conf THEN ContentOf(db', z) ELSE {}],
                done |-> {}, apart |-> {}, torn |-> {}]
    /\ job' = NoJob /\ Frame

ZdNext ==
    \/ \E z \in Zone : \E x \in Stream(z) : StartXfr(z, x)
    \/ WipeName \/ EndWipe \/ SawAxfr \/ ApplyDelete \/ ApplyAdd \/ EndXfr
    \/ \E z \in Zone : \E f \in File(z) : StartFile(z, f)
    \/ ReadFileRR \/ FileRead \/ FileWritten \/ ZoneNotCreated \/ WriteFails \/ FileFailed \/ ReadUdbRR \/ EndRevert
    \/ \E z \in Zone, yes \in BOOLEAN : task_process_expire(z, yes)
    \/ \E z \in Zone : task_process_add_zone(z) \/ task_process_del_zone(z)
    \/ ReloadDone \/ ReloadDies \/ Restart \/ OpenZone \/ ZoneOpened \/ Opened

ZdSpec == ZdInit /\ [][ZdNext]_zdvars
-----------------------------------------------------------------------------
\* Properties.

References(n) ==
    Cardinality(UNION {{<<z, rr>> : rr \in {x \in ContentOf(db, z) : n \in NamesIn(x)}} : z \in DOMAIN db.zones})
    + Cardinality({n} \cap DOMAIN db.zones) + (IF n = Root THEN 1 ELSE 0)
\* usage counts the pointers to a name: a name that is too low in usage is freed
\* while rdata or a zone still points to it.  An RR that is added twice, or is
\* rejected by the parser, leaves its names too high in usage.
UsageCounted ==
    \A n \in Names(db) : IF db.leak THEN db.dom[n].usage >= References(n) ELSE db.dom[n].usage = References(n)

\* After any deletions, domain_table_deldomain has left the names that have data or
\* usage, and the names above them, and no other.
OnlyNamesNeeded ==
    db.leak \/ \A n \in Names(db) : \E m \in Under(db, n) : db.dom[m].rrsets # <<>> \/ db.dom[m].usage > 0

\* is_existing, on which NXDOMAIN depends, says that there is data at the name or
\* below it, in whatever zone.
ExistsWithData ==
    ~job.wipe => \A n \in Names(db) : db.dom[n].is_existing <=> \E m \in Under(db, n) : db.dom[m].rrsets # <<>>

\* A wildcard that exists is found below its name, and the closest match for a
\* wildcard is the name itself or a child in the table.
WildcardFound ==
    \A n \in Names(db) :
        /\ db.dom[n].wc \in Names(db) /\ (db.dom[n].wc = n \/ Parent(db.dom[n].wc) = n)
        /\ Append(n, Star) \in Names(db) /\ db.dom[Append(n, Star)].is_existing =>
                domain_wildcard_child(db, n) = Append(n, Star)

\* The numbers of the names, which index the tables of compressed names, are 1 to
\* the number of names, however names come and go.
NumbersDense ==
    /\ Range(db.numlist) = Names(db) /\ Len(db.numlist) = Cardinality(Names(db))
    /\ \A i \in DOMAIN db.numlist : db.dom[db.numlist[i]].number = i

\* What a zone knows of its apex is what is there: the SOA, the copy of it for
\* negative answers, the NS RRset, and that it is signed.
ApexKnown ==
    \A z \in DOMAIN db.zones :
        /\ db.zones[z].soa_rrset <=> domain_find_rrset(db, z, z, "SOA")
        /\ db.zones[z].soa_rrset => db.zones[z].soa_nx = <<RRsOf(db, z, z, "SOA")[1]>>
        /\ db.zones[z].ns_rrset <=> domain_find_rrset(db, z, z, "NS")
        /\ db.zones[z].is_secure <=> \E rr \in ContentOf(db, z) : rr.name = z /\ rr.type = "RRSIG" /\ rr.data.k = 1

\* No assertion of namedb.c, nsec3.c and difffile.c fails, nothing is added to a
\* hash tree that it is in already, and no name is looked up in the trees of a
\* zone that is gone; and the names of the table are exactly those that are
\* needed, with usage counts, existence flags, wildcard pointers, numbers and
\* apex pointers that agree with the RRs, after every single RR that a transfer,
\* a zone file or a deletion adds or takes away.
NamesSound ==
    /\ db.bad = {} /\ UsageCounted /\ OnlyNamesNeeded /\ ExistsWithData
    /\ WildcardFound /\ NumbersDense /\ ApexKnown

\* Between tasks, the chain that was kept up to date RR by RR is the one that
\* computing it from nothing would give: the NSEC3s in it, the last of them, and
\* for every name and zone cut of the zone the NSEC3 that matches or covers it.
\* No name in the trees points to an NSEC3 that is freed.  Of a zone whose chain lost
\* the NSEC3 of its apex nothing is said: its nsec3_param is NULL, and the pointers
\* that stay are not looked at.
Nsec3AsComputed ==
    Idle => \A z \in {x \in DOMAIN db.zones : db.zones[x].nsec3_param # 0} :
        LET p == UsedParam(db, z)
            Rec(n) == db.dom[n].nsec3
        IN  /\ \A n \in db.zones[z].hashtree : {Rec(n).cover, Rec(n).wcard_child_cover} \subseteq Names(db) \cup {NoName}
            /\ \A n \in db.zones[z].dshashtree : Rec(n).ds_parent_cover \in Names(db) \cup {NoName}
            /\ db.zones[z].nsec3tree = {n \in Under(db, z) : nsec3_in_chain_count(db, n, z) > 0}
            /\ db.zones[z].nsec3_last = LastOf(db.zones[z].nsec3tree)
            /\ \A n \in Under(db, z) :
                /\ nsec3_condition_hash(db, n, z) =>
                    LET c == nsec3_find_cover(db, z, HashOf(p, n))
                    IN  /\ n \in db.zones[z].hashtree /\ n \in db.zones[z].wchashtree
                        /\ Rec(n).cover = c /\ Rec(n).is_exact = Exact(c, HashOf(p, n))
                        /\ Rec(n).wcard_child_cover = nsec3_find_cover(db, z, HashOf(p, Append(n, Star)))
                /\ nsec3_condition_dshash(db, n, z) =>
                    LET c == nsec3_find_cover(db, z, HashOf(p, n))
                    IN  /\ n \in db.zones[z].dshashtree
                        /\ Rec(n).ds_parent_cover = c /\ Rec(n).ds_parent_is_exact = Exact(c, HashOf(p, n))

\* Between tasks, unless a process died while it was written and it is dirty, the
\* database file has of every zone what the last task that ended left in memory, and
\* hashes with the same parameters.  A reload process that dies takes the tasks that
\* it did from memory and leaves them in the file (apart), until a full transfer, a
\* zone file or a restart makes them the same.  Two things the code does not rule out
\* are left out (torn): a zone file that could not be written for lack of room, whose
\* file is marked clean, and differences applied to a zone that is apart.
FileAsMemory ==
    Idle /\ db.usesudb /\ ~db.dirty =>
        /\ \A z \in Zone \ hist.torn : hist.last[z] = (IF z \in DOMAIN db.udb THEN db.udb[z].rrs ELSE {})
        /\ \A z \in DOMAIN db.zones \ hist.apart :
            /\ ContentOf(db, z) = (IF z \in DOMAIN db.udb THEN db.udb[z].rrs ELSE {})
            /\ db.zones[z].nsec3_param # 0 => UsedParam(db, z) = db.udb[z].param

\* A full transfer and a zone file, whatever was there before, and differences that
\* start from what the master had, end with exactly what the master or the file has.
\* A zone file with errors ends with what the last task that ended had left, which
\* comes from the database file; without a database file nothing is left of the zone.
EndsWithGoal ==
    [][(job.goal # <<>> /\ job'.kind = "none" /\ main' = main /\ job.rrs = <<>>)
        => ContentOf(db', job.zone) = job.goal[1] /\ (job.kind = "xfr" /\ ~job.is_axfr => ~db.softfail)]_zdvars

\* A restart serves what the last task that ended had left of a zone, or nothing:
\* never a part of a transfer.  The zones of FileAsMemory that are torn are left out.
RestartWhole ==
    [][(job.kind = "open" /\ job'.kind = "none") => \A z \in DOMAIN db'.zones \ hist.torn :
        ContentOf(db', z) \in {{}, hist.last[z]}]_zdvars
=============================================================================
