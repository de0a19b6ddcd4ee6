------------------------------ MODULE XfrStream -------------------------------
(***************************************************************************)
(* The stream of packets of a zone transfer: how xfrd checks it, keeps it  *)
(* in a file and commits it (xfrd.c), and how the reload process reads the *)
(* file and applies it to the zone in memory (difffile.c).                 *)
(*                                                                         *)
(* There is one secondary zone and one master.  The versions of the zone   *)
(* have the serials start.versions for a start in Starts, which also says  *)
(* whether the first of them is in the database; Content[s] is the set of  *)
(* RRs of version s besides its SOA.  A server that can do IXFR may        *)
(* answer with the differences in one or in several steps; NSD itself      *)
(* answers with the whole zone (AxfrOut).                                  *)
(*                                                                         *)
(* z is the zone in xfrd, mem the zone in the server, files the transfers  *)
(* on disk by their number, tasks the tasklist, peer what the master has   *)
(* still to send, hist what a property has to know of the past.            *)
(***************************************************************************)
EXTENDS AxfrOut, SequencesExt

CONSTANTS SerialSpace,   \* serials are 0 .. SerialSpace - 1
          Starts, Content,
          Keyed,         \* the master has a key
          MaxUnsigned,   \* XFRD_TSIG_MAX_UNSIGNED
          SizeLimit,     \* size_limit_xfr in RRs, 0 for none
          Faults, MaxFaults,  \* how often each fault happens, and all of them
          MaxRequests

VARIABLES z, mem, files, tasks, peer, hist
xsvars == <<z, mem, files, tasks, peer, hist>>

Serial == 0 .. SerialSpace - 1
RR == UNION {Content[s] : s \in DOMAIN Content}
ASSUME XfrStreamAssumption ==
  /\ SerialSpace \in Nat \ {0} /\ \A start \in Starts : Range(start.versions) \subseteq DOMAIN Content /\ DOMAIN Content \subseteq Serial
  /\ Keyed \in BOOLEAN /\ MaxUnsigned \in Nat /\ SizeLimit \in Nat

compare_serial(a, b) ==
  IF a = b THEN 0
  ELSE IF (a < b /\ b - a < SerialSpace \div 2) \/ (a > b /\ a - b > SerialSpace \div 2) THEN -1 ELSE 1

Data(n) == [type |-> "RR", v |-> n]
VersionRRs(s) == {Soa(s)} \cup {Data(n) : n \in Content[s]}
DataSeq(S) == SetToSeq({Data(n) : n \in S})
Counted(f) == hist.n[f] < Faults[f] /\ MapThenSumSet(LAMBDA g : hist.n[g], DOMAIN Faults) < MaxFaults
Used(h, f) == [h EXCEPT !.n[f] = @ + 1]
-----------------------------------------------------------------------------
(***************************************************************************)
(* The master.                                                             *)
(***************************************************************************)
Versions == hist.versions
Current == Versions[peer.cur]
AxfrStream(s) == <<Soa(s)>> \o DataSeq(Content[s]) \o <<Soa(s)>>
Difference(a, b) ==
  <<Soa(a)>> \o DataSeq(Content[a] \ Content[b]) \o <<Soa(b)>> \o DataSeq(Content[b] \ Content[a])
\* The differences along the versions whose places are in path, up to the last.
IxfrStream(path) ==
  <<Soa(Versions[Last(path)])>>
    \o FlattenSeq([i \in 1 .. Len(path) - 1 |-> Difference(Versions[path[i]], Versions[path[i + 1]])])
    \o <<Soa(Versions[Last(path)])>>
Paths(i, j) == {SetToSortSeq({i, j} \cup S, <) : S \in SUBSET (i + 1 .. j - 1)}

\* What a server that has the differences answers to an IXFR from serial s.
IxfrStreams(s) ==
  IF s = Current THEN {<<Soa(s)>>}
  ELSE {AxfrStream(Current)}
       \cup UNION {{IxfrStream(p) : p \in Paths(i, peer.cur)} :
                     i \in {k \in 1 .. peer.cur - 1 : Versions[k] = s}}

\* It cuts the stream as it likes, and signs the first and the last packet, and others.
Signed(t, msg, sign) ==
  IF ~Keyed THEN <<t, msg>>
  ELSE LET u == tsig_update(t, msg)
       IN  IF sign THEN <<tsig_prepare(tsig_sign(u)), [msg EXCEPT !.tsig = Digest(u)]>> ELSE <<u, msg>>
NoPeer(cur) == [cur |-> cur, kind |-> "none"]
-----------------------------------------------------------------------------
(***************************************************************************)
(* xfrd checks a packet.                                                   *)
(***************************************************************************)
\* xfrd_xfr_process_tsig: the TSIG of the zone after the packet, and whether it is good.
AfterUpdate(y, p, t) ==
  IF t.status = TSIG_OK
  THEN [good |-> tsig_verify(t, p), tsig |-> IF tsig_verify(t, p) THEN tsig_prepare(Verified(t)) ELSE Verified(t)]
  ELSE [good |-> t.upd <= MaxUnsigned /\ y.seq # 0, tsig |-> t]
xfrd_xfr_process_tsig(y, p) ==
  IF Keyed THEN AfterUpdate(y, p, tsig_update(tsig_find_rr(y.tsig, p), p)) ELSE [good |-> TRUE, tsig |-> y.tsig]

\* Mutant of CheckSoa: the serials in the middle of an IXFR have to increase.
CheckSoaStrict(c, v) ==
  IF c.y.cnt = 1 /\ v # c.y.new
  THEN [c EXCEPT !.y.is = 1, !.ok = c.y.acq /\ v = c.y.disk, !.y.old = IF c.y.acq /\ v = c.y.disk THEN v ELSE @, !.tmp = v]
  ELSE IF v = c.y.new
  THEN IF c.y.is = 1 THEN [c EXCEPT !.y.is = 2] ELSE [c EXCEPT !.done = TRUE]
  ELSE IF c.y.is # 0 THEN [c EXCEPT !.ok = v <= c.y.new /\ v > c.tmp, !.tmp = v] ELSE c

\* xfrd_xfr_check_rrs.  tmp is tmp_serial, which starts at 0 in every packet.
CheckSoa(c, v) ==
  IF c.y.cnt = 1 /\ v # c.y.new
  THEN [c EXCEPT !.y.is = 1, !.ok = c.y.acq /\ v = c.y.disk, !.y.old = IF c.y.acq /\ v = c.y.disk THEN v ELSE @, !.tmp = v]
  ELSE IF v = c.y.new
  THEN IF c.y.is = 1 THEN [c EXCEPT !.y.is = 2] ELSE [c EXCEPT !.done = TRUE]
  ELSE IF c.y.is # 0 THEN [c EXCEPT !.ok = v <= c.y.new /\ v >= c.tmp, !.tmp = v] ELSE c
NextCnt(c) == IF c.ok THEN [c EXCEPT !.y.cnt = @ + 1] ELSE c
CheckRR(c, rr) ==
  IF c.done THEN [c EXCEPT !.ok = FALSE]
  ELSE NextCnt(IF rr.type = "SOA" THEN CheckSoa(c, rr.v) ELSE c)
RECURSIVE xfrd_xfr_check_rrs(_, _)
xfrd_xfr_check_rrs(c, rrs) ==
  IF rrs = <<>> \/ ~c.ok THEN c ELSE xfrd_xfr_check_rrs(CheckRR(c, Head(rrs)), Tail(rrs))

\* xfrd_parse_received_xfr_packet: the result code and the zone.
Parsed(res, y) == [res |-> res, y |-> y]
AfterCheck(c) ==
  IF ~c.ok THEN Parsed("bad", c.y)
  ELSE IF ~c.done THEN Parsed(IF c.y.conn = "udp" THEN "bad" ELSE "more", c.y)
  ELSE Parsed(IF Keyed /\ c.y.tsig.upd # 0 THEN "bad" ELSE "transfer", c.y)
CheckRRs(y, p, rrs) ==
  IF y.conn = "udp" /\ (p.tc \/ Len(p.rr) < 2) THEN Parsed("tcp", y)
  ELSE AfterCheck(xfrd_xfr_check_rrs([y |-> y, ok |-> TRUE, done |-> FALSE, tmp |-> 0], rrs))
FirstSoa(y, p, v) ==
  IF y.acq /\ ~y.expired /\ compare_serial(v, y.disk) < 0 THEN Parsed("bad", y)
  ELSE IF y.acq /\ y.disk = v THEN Parsed("newlease", [y EXCEPT !.expired = FALSE, !.fresh = TRUE, !.nsdacq = @ \/ y.nsd = v])
  ELSE CheckRRs([y EXCEPT !.new = v, !.cnt = 1, !.is = 0, !.old = IF y.acq THEN y.disk ELSE 0], p, Tail(p.rr))
ParseAnswer(y, p) ==
  IF y.cnt # 0 THEN CheckRRs(y, p, p.rr)
  ELSE IF p.rr = <<>> THEN Parsed(IF y.conn = "udp" /\ p.tc THEN "tcp" ELSE "bad", y)
  ELSE IF p.rr[1].type # "SOA" THEN Parsed("bad", y)
  ELSE FirstSoa(y, p, p.rr[1].v)
ParseSigned(y, p, g) ==
  IF ~g.good THEN Parsed("bad", [y EXCEPT !.tsig = g.tsig])
  ELSE IF p.rcode = "notauth" THEN Parsed("drop", [y EXCEPT !.tsig = g.tsig])
  ELSE ParseAnswer([y EXCEPT !.tsig = g.tsig], p)
xfrd_parse_received_xfr_packet(y, p) ==
  IF p.rcode = "notimpl" THEN Parsed("notimpl", y)
  ELSE IF p.rcode \notin {"ok", "notauth"} THEN Parsed("drop", y)
  ELSE ParseSigned(y, p, xfrd_xfr_process_tsig(y, p))
-----------------------------------------------------------------------------
(***************************************************************************)
(* The file of a transfer.  A write may fail to open the file, or leave    *)
(* only a part of what it should write; nobody looks.                      *)
(***************************************************************************)
Without(f, S) == [k \in DOMAIN f \ S |-> f[k]]
Unlinked(f, nr) == Without(f, {nr})
With(f, nr, x) == [k \in DOMAIN f \cup {nr} |-> IF k = nr THEN x ELSE f[k]]
\* rr: the RRs of the parts, up to the first that is cut off; bad: there is such a part,
\* or one is missing, so that a reader does not get num_parts parts.
NewFile(old, new, head) ==
  [committed |-> FALSE, old |-> old, new |-> new, head |-> head, bad |-> FALSE, rr |-> <<>>]
\* The file without its header when the first packet was not written.
Opened(f, nr, seq, y) ==
  IF seq = 0 THEN NewFile(y.old, y.new, TRUE) ELSE IF nr \in DOMAIN f THEN f[nr] ELSE NewFile(y.old, y.new, FALSE)
\* The packet is written without its TSIG.
WithPart(x, p, how) ==
  [x EXCEPT !.bad = @ \/ how # "ok", !.rr = IF x.bad \/ how # "ok" THEN @ ELSE @ \o p.rr]
diff_write_packet(f, nr, seq, y, p, how) ==
  IF how = "closed" /\ nr \notin DOMAIN f THEN f ELSE With(f, nr, WithPart(Opened(f, nr, seq, y), p, how))
diff_write_commit(f, y, how) ==
  IF how = "closed" \/ y.nr \notin DOMAIN f THEN f
  ELSE With(f, y.nr, [f[y.nr] EXCEPT !.committed = TRUE, !.old = y.old, !.new = y.new])
-----------------------------------------------------------------------------
(***************************************************************************)
(* xfrd_handle_received_xfr_packet.  An outcome has the result for the     *)
(* caller, the zone, the files and the tasks.                              *)
(***************************************************************************)
Outcome(res, y, f, t) == [res |-> res, y |-> y, files |-> f, tasks |-> t]

\* Mutant of Rollback: the file of the parts that were received before stays.
RollbackKeepsFile(res, y) == Outcome(IF res = "notimpl" THEN res ELSE "bad", [y EXCEPT !.seq = 0], files, tasks)
Rollback(res, y) ==
  Outcome(IF res = "notimpl" THEN res ELSE "bad", [y EXCEPT !.seq = 0],
          IF y.seq > 0 THEN Unlinked(files, y.nr) ELSE files, tasks)

\* The task is on the list unless there is no room for it (full).
Committed(y, f, full) ==
  IF full THEN Outcome("bad", [y EXCEPT !.seq = 0], Unlinked(f, y.nr), tasks)
  ELSE Outcome("transfer", [y EXCEPT !.seq = 0, !.disk = y.new, !.acq = TRUE, !.fresh = TRUE], f, Append(tasks, y.nr))
AfterWrite(res, y, f, how, full) ==
  IF SizeLimit # 0 /\ y.nr \in DOMAIN f /\ Len(f[y.nr].rr) > SizeLimit THEN Outcome("bad", y, f, tasks)
  ELSE IF res = "more" THEN Outcome("more", y, f, tasks)
  ELSE Committed(y, diff_write_commit(f, y, how), full)
WritePacket(res, y, p, how, full) ==
  AfterWrite(res, [y EXCEPT !.seq = @ + 1], diff_write_packet(files, y.nr, y.seq, y, p, how), how, full)
Numbered(y) == IF y.seq = 0 THEN [y EXCEPT !.nr = y.next, !.next = @ + 1] ELSE y
xfrd_handle_received_xfr_packet(r, p, how, full) ==
  IF r.res \in {"newlease", "tcp"} THEN Outcome(r.res, r.y, files, tasks)
  ELSE IF r.res \in {"more", "transfer"} THEN WritePacket(r.res, Numbered(r.y), p, how, full)
  ELSE Rollback(r.res, r.y)

\* xfrd_udp_read, xfrd_tcp_read: what becomes of the request.
xfrd_disable_ixfr(y) == [y EXCEPT !.noixfr = TRUE]
BadUdp(y) == IF y.bad >= 2 THEN [xfrd_disable_ixfr(y) EXCEPT !.bad = 0] ELSE [y EXCEPT !.bad = @ + 1]
\* The counters and the hash are of no use until the next request starts them anew.
Released(y) ==
  [y EXCEPT !.conn = "none", !.tsig = tsig_init_query, !.cnt = 0, !.is = 0, !.new = 0, !.old = 0]
xfrd_udp_read(res, y) ==
  IF res = "tcp" THEN [Released(y) EXCEPT !.retry = TRUE]
  ELSE Released(IF res = "notimpl" THEN xfrd_disable_ixfr(y) ELSE IF res = "bad" THEN BadUdp(y) ELSE y)
xfrd_tcp_read(res, y) ==
  IF res = "more" THEN y ELSE Released(IF res = "notimpl" THEN xfrd_disable_ixfr(y) ELSE y)
AfterRead(res, y) == IF y.conn = "udp" THEN xfrd_udp_read(res, y) ELSE xfrd_tcp_read(res, y)
-----------------------------------------------------------------------------
(***************************************************************************)
(* The reload process applies a file (apply_ixfr_for_zone, apply_ixfr) to  *)
(* a copy m of the zone.                                                   *)
(***************************************************************************)
SoasOf(m) == {rr \in m.rrs : rr.type = "SOA"}
SerialsOf(m) == {rr.v : rr \in SoasOf(m)}
\* A SOA that is not there is deleted in place of the one that is.
delete_RR(a, rr) ==
  IF rr.type = "SOA" /\ SoasOf(a.m) # {} /\ rr \notin a.m.rrs
  THEN [a EXCEPT !.m.rrs = @ \ {CHOOSE soa \in SoasOf(a.m) : TRUE}]
  ELSE [a EXCEPT !.m.rrs = @ \ {rr}, !.soft = @ \/ rr \notin a.m.rrs]
add_RR(a, rr) == [a EXCEPT !.m.rrs = @ \cup {rr}, !.soft = @ \/ rr \in a.m.rrs]

\* Mutant of Second: the zone that is there is not deleted before a full transfer.
SecondKeepsZone(a, rr, x) ==
  IF a.count = 1 /\ (rr.type # "SOA" \/ rr.v = x.new) THEN [a EXCEPT !.axfr = TRUE, !.del = FALSE] ELSE a

\* The second RR tells a full transfer from an incremental one.
Second(a, rr, x) ==
  IF a.count # 1 THEN a
  ELSE IF rr.type # "SOA" \/ rr.v = x.new THEN [a EXCEPT !.axfr = TRUE, !.del = FALSE, !.m.rrs = {}]
  ELSE IF SoasOf(a.m) = {} THEN [a EXCEPT !.ret = 2] ELSE a
Switch(a, rr) == IF rr.type = "SOA" /\ ~a.axfr THEN [a EXCEPT !.del = ~@] ELSE a
Change(a, rr, last) ==
  IF a.ret # 1 THEN a
  ELSE IF a.del THEN IF ~a.axfr /\ rr.type = "SOA" /\ last THEN a ELSE delete_RR(a, rr)
  ELSE add_RR(a, rr)
ApplyRR(a, rr, x, last) ==
  IF a.count = 0
  THEN [a EXCEPT !.ret = IF rr = Soa(x.new) THEN 1 ELSE 0, !.count = 1]
  ELSE [Change(Switch(Second(a, rr, x), rr), rr, last) EXCEPT !.count = @ + 1]
RECURSIVE apply_ixfr(_, _, _)
apply_ixfr(a, rrs, x) ==
  IF rrs = <<>> \/ a.ret # 1 THEN a
  ELSE apply_ixfr(ApplyRR(a, Head(rrs), x, Len(rrs) = 1 /\ ~x.bad), Tail(rrs), x)
\* A part that is not there or is cut off is an error, when it is reached.
ReachBad(a, x) == IF a.ret = 1 /\ x.bad THEN [a EXCEPT !.ret = 0] ELSE a
ApplyParts(a, x) == ReachBad(apply_ixfr(a, x.rr, x), x)

\* An old serial of 0 stands for no serial, and is not compared.
check_for_bad_serial(m, x) == \E s \in SerialsOf(m) : x.old # 0 /\ x.old # s
Fresh(m) == [m |-> m, count |-> 0, axfr |-> FALSE, del |-> FALSE, soft |-> FALSE, ret |-> 1]
\* task_new_soainfo: the serial that is in memory, or that there is none; the same is told
\* when differences could not be applied as they are.
Gone == [gone |-> TRUE, v |-> 0]
SoaInfo(a) ==
  IF (a.soft /\ ~a.axfr) \/ SoasOf(a.m) = {} THEN Gone ELSE [gone |-> FALSE, v |-> Max(SerialsOf(a.m))]
\* A part that is bad ends the process.  blind: differences from serial 0 came on another
\* serial, and no full transfer after them.
Blind(m, a, x) ==
  ~a.axfr /\ (m.blind \/ (a.ret = 1 /\ x.old = 0 /\ SerialsOf(m) # {0}))
Applied(m, a, x) ==
  IF a.ret = 0 THEN [m EXCEPT !.died = TRUE]
  ELSE [a.m EXCEPT !.blind = Blind(m, a, x), !.infos = Append(@, SoaInfo(a))]
apply_ixfr_for_zone(m, x) ==
  IF ~x.head \/ ~x.committed \/ check_for_bad_serial(m, x) THEN m
  ELSE Applied(m, ApplyParts(Fresh(m), x), x)
\* The file is gone afterwards.
task_process_apply_xfr(m, nr) ==
  [IF nr \notin DOMAIN files THEN m ELSE apply_ixfr_for_zone(m, files[nr]) EXCEPT !.handled = @ \cup {nr}]
RECURSIVE TasksDone(_, _)
TasksDone(m, t) == IF t = <<>> \/ m.died THEN m ELSE TasksDone(task_process_apply_xfr(m, Head(t)), Tail(t))
-----------------------------------------------------------------------------
(***************************************************************************)
(* Actions.                                                                *)
(***************************************************************************)
\* The zone is new, or the first version is in the database (xfrd_init_slave_zone).
XsInit == \E start \in Starts :
  /\ z = [acq |-> start.served, disk |-> IF start.served THEN start.versions[1] ELSE 0, expired |-> FALSE,
          conn |-> "none", retry |-> FALSE, noixfr |-> FALSE, bad |-> 0, tsig |-> tsig_init_query, seq |-> 0, cnt |-> 0, is |-> 0, new |-> 0, old |-> 0,
          nr |-> 0, next |-> 0, fresh |-> FALSE, nsdacq |-> start.served,
          nsd |-> IF start.served THEN start.versions[1] ELSE 0]
  /\ mem = [rrs |-> IF start.served THEN VersionRRs(start.versions[1]) ELSE {}, blind |-> FALSE,
            infos |-> <<>>, died |-> FALSE, handled |-> {}]
  /\ files = <<>> /\ tasks = <<>>
  /\ peer = NoPeer(1)
  /\ hist = [versions |-> start.versions, n |-> [f \in DOMAIN Faults |-> 0], requests |-> 0,
             clean |-> FALSE, wraps |-> FALSE, refused |-> FALSE, reload |-> <<>>, running |-> FALSE, lost |-> FALSE]

\* xfrd_make_request and xfrd_tcp_setup_write_packet: what is asked for, and how.
Axfr(y, round) == ~y.acq \/ y.noixfr \/ (y.expired /\ round # 0)
Transports(y) == IF ~y.retry /\ y.acq /\ ~y.noixfr THEN {"udp", "tcp"} ELSE {"tcp"}
Asked(y, conn, qtype) ==
  [y EXCEPT !.conn = conn, !.retry = FALSE, !.seq = 0, !.cnt = 0,
            !.tsig = IF Keyed THEN xfrd_tsig_sign_request(Query(qtype)) ELSE tsig_init_query]

\* The master gets the query.  Over UDP the reply is whole, or has the TC bit.
ServerTsig(qtype) == IF Keyed THEN tsig_prepare(process_tsig(TRUE, Query(qtype))) ELSE tsig_init_query
Other(p, qtype, stream) ==
  [cur |-> p.cur, kind |-> "other", left |-> stream, first |-> TRUE, tsig |-> ServerTsig(qtype)]
Nsd(p, qtype) ==
  [cur |-> p.cur, kind |-> "nsd", qtype |-> qtype, serial |-> Current,
   rrs |-> DataSeq(Content[Current]), q |-> NewQuery(Keyed, Query(qtype))]
Peers(qtype, conn) ==
  {Nsd(peer, qtype)}
    \cup {Other(peer, qtype, s) : s \in IF qtype = "AXFR" THEN {AxfrStream(Current)} ELSE IxfrStreams(z.disk)}
\* An IXFR of several differences over which the serial wraps.
Wraps(s) ==
  \E i \in DOMAIN s : s[i].type = "SOA" /\ s[i].v \notin {s[1].v, z.disk} /\ (s[i].v > s[1].v \/ s[i].v < z.disk)
StreamOf(p) == IF p.kind = "other" THEN p.left ELSE <<>>

Request(conn, round) ==
  /\ z.conn = "none" /\ hist.requests < MaxRequests
  /\ conn \in Transports(z)
  /\ LET qtype == IF conn = "tcp" /\ Axfr(z, round) THEN "AXFR" ELSE "IXFR"
     IN  /\ z' = Asked(z, conn, qtype)
         /\ \E p \in Peers(qtype, conn) :
               /\ peer' = p
               /\ hist' = [hist EXCEPT !.requests = @ + 1, !.clean = TRUE, !.wraps = Wraps(StreamOf(p))]
  /\ files' = IF z.seq > 0 THEN Unlinked(files, z.nr) ELSE files
  /\ UNCHANGED <<mem, tasks>>

\* The packets that the master may send now, with what it has left.
OtherSends(n, sign) ==
  LET msg == Message("ok", SubSeq(peer.left, 1, n))
      out == Signed(peer.tsig, msg, sign)
  IN  <<[peer EXCEPT !.left = SubSeq(@, n + 1, Len(@)), !.first = FALSE, !.tsig = out[1]], out[2]>>
MustSign(n) == peer.first \/ n = Len(peer.left) \/ peer.tsig.upd >= SignEveryNth
OtherPackets ==
  UNION {{OtherSends(n, sign) : sign \in IF ~Keyed THEN {FALSE} ELSE IF MustSign(n) THEN {TRUE} ELSE BOOLEAN} :
           n \in IF z.conn = "udp" THEN {Len(peer.left)} ELSE 1 .. Len(peer.left)}
Truncated ==
  IF z.conn = "udp" /\ peer.first
  THEN LET out == Signed(peer.tsig, [Message("ok", <<Head(peer.left)>>) EXCEPT !.tc = TRUE], TRUE)
       IN  {<<[peer EXCEPT !.left = <<>>, !.first = FALSE], out[2]>>}
  ELSE {}
NsdSends(out) == <<[peer EXCEPT !.q = out[1]], out[2]>>
NsdPackets ==
  IF peer.q.axfr_is_done THEN {}
  ELSE {NsdSends(answer_axfr_ixfr(peer.q, peer.qtype, z.conn = "tcp", peer.serial, peer.rrs))}
Packets == IF peer.kind = "nsd" THEN NsdPackets ELSE IF peer.left = <<>> THEN {} ELSE OtherPackets \cup Truncated

\* The outcomes of the writes to disk: as they should, or a fault.
Writes == {"ok"} \cup (IF Counted("disk") THEN {"closed", "torn"} ELSE {})
Fills == {FALSE} \cup (IF Counted("task") THEN {TRUE} ELSE {})
Handled(o, sent, how, full) ==
  /\ z' = AfterRead(o.res, o.y)
  /\ files' = o.files /\ tasks' = o.tasks
  /\ peer' = IF o.res = "more" THEN sent ELSE NoPeer(peer.cur)
  /\ hist' = [hist EXCEPT !.n["disk"] = IF how = "ok" THEN @ ELSE @ + 1, !.n["task"] = IF full THEN @ + 1 ELSE @,
                          !.refused = @ \/ (hist.clean /\ ~full /\ o.res = "bad" /\ ~hist.wraps)]
  /\ UNCHANGED mem
Received(p, sent, how, full) ==
  Handled(xfrd_handle_received_xfr_packet(xfrd_parse_received_xfr_packet(z, p), p, how, full), sent, how, full)
Receive ==
  /\ z.conn # "none" /\ peer.kind # "none"
  /\ \E s \in Packets, how \in Writes, full \in Fills : Received(s[2], s[1], how, full)

\* A packet is changed on the way: an RR of it, or it has lost its TSIG.
Damaged(p) ==
  {[p EXCEPT !.rr[i] = Data(n)] : i \in DOMAIN p.rr, n \in RR} \cup {[p EXCEPT !.tsig = NoMac]}
ReceiveDamaged ==
  /\ z.conn # "none" /\ peer.kind # "none" /\ Counted("damage")
  /\ \E s \in Packets : \E p \in Damaged(s[2]) \ {s[2]} :
       LET o == xfrd_handle_received_xfr_packet(xfrd_parse_received_xfr_packet(z, p), p, "ok", FALSE)
       IN  /\ z' = AfterRead(o.res, o.y) /\ files' = o.files /\ tasks' = o.tasks
           /\ peer' = IF o.res = "more" THEN s[1] ELSE NoPeer(peer.cur)
           /\ hist' = Used([hist EXCEPT !.clean = FALSE], "damage")
  /\ UNCHANGED mem

\* The master answers with an error, signed or not.
ErrorReplies == {[Message(r, <<>>) EXCEPT !.tsig = NoMac] : r \in {"servfail", "notimpl", "notauth"}}
ReceiveError ==
  /\ z.conn # "none" /\ peer.kind # "none" /\ Counted("error")
  /\ \E p \in ErrorReplies :
       LET o == xfrd_handle_received_xfr_packet(xfrd_parse_received_xfr_packet(z, p), p, "ok", FALSE)
       IN  /\ z' = AfterRead(o.res, o.y) /\ files' = o.files /\ tasks' = o.tasks
  /\ peer' = NoPeer(peer.cur)
  /\ hist' = Used([hist EXCEPT !.clean = FALSE], "error")
  /\ UNCHANGED mem

\* No reply, or the connection is closed: xfrd_tcp_pipe_stop, xfrd_handle_zone.
Cut ==
  /\ z.conn # "none" /\ Counted("cut")
  /\ z' = Released(z) /\ peer' = NoPeer(peer.cur)
  /\ hist' = Used(hist, "cut")
  /\ UNCHANGED <<mem, files, tasks>>

MasterUpdate ==
  /\ peer.cur < Len(Versions) /\ peer' = [peer EXCEPT !.cur = @ + 1]
  /\ UNCHANGED <<z, mem, files, tasks, hist>>
\* xfrd_handle_zone: the lease is over.
Expire ==
  /\ z.acq /\ ~z.expired /\ Counted("expire")
  /\ z' = [z EXCEPT !.expired = TRUE] /\ hist' = Used(hist, "expire")
  /\ UNCHANGED <<mem, files, tasks, peer>>
\* xfrd_make_request: IXFR is tried again after XFRD_NO_IXFR_CACHE.
IxfrAgain ==
  /\ z.noixfr /\ z.conn = "none" /\ z' = [z EXCEPT !.noixfr = FALSE]
  /\ UNCHANGED <<mem, files, tasks, peer, hist>>

\* The tasks go to a reload process (xfrd_send_reload_req), also when there are none and
\* the zone is still to be loaded.  A transfer on disk is now one from before the reload.
Unloaded(y) == y.acq /\ (~y.nsdacq \/ y.nsd # y.disk)
SendReload ==
  /\ ~hist.running /\ (tasks # <<>> \/ Unloaded(z))
  /\ hist' = [hist EXCEPT !.running = TRUE, !.reload = tasks]
  /\ tasks' = <<>> /\ z' = [z EXCEPT !.fresh = FALSE]
  /\ UNCHANGED <<mem, files, peer>>

\* xfrd_handle_incoming_soa: what the server has is nothing, what it had, what is on disk,
\* or something else, which counts as given by the operator.
xfrd_handle_incoming_soa(y, i) ==
  IF i.gone THEN [y EXCEPT !.nsdacq = FALSE, !.expired = FALSE]
  ELSE IF y.nsdacq /\ i.v = y.nsd THEN y
  ELSE IF y.acq /\ i.v = y.disk THEN [y EXCEPT !.nsdacq = TRUE, !.nsd = i.v, !.expired = FALSE]
  ELSE [y EXCEPT !.acq = TRUE, !.disk = i.v, !.nsdacq = TRUE, !.nsd = i.v, !.fresh = TRUE, !.expired = FALSE]
\* xfrd_check_failed_updates: a transfer from before the reload that is not served goes;
\* with the one that is served, if both are of the same second.
xfrd_check_failed_updates(y, same) ==
  IF ~Unloaded(y) \/ y.fresh THEN y
  ELSE IF same /\ y.nsdacq THEN [y EXCEPT !.acq = FALSE, !.nsdacq = FALSE]
  ELSE [y EXCEPT !.acq = y.nsdacq, !.disk = y.nsd]
Settle(m) == [m EXCEPT !.died = FALSE, !.handled = {}, !.infos = <<>>]
Loaded(m, same) ==
  /\ mem' = IF m.died THEN mem ELSE Settle(m)
  /\ files' = Without(files, m.handled)
  /\ z' = xfrd_check_failed_updates(FoldLeft(xfrd_handle_incoming_soa, z, IF m.died THEN <<>> ELSE m.infos), same)
  /\ hist' = [hist EXCEPT !.running = FALSE, !.reload = <<>>, !.lost = @ \/ m.died,
                          !.clean = @ /\ z'.disk = z.disk /\ z'.acq = z.acq]
ReloadDone ==
  /\ hist.running /\ \E same \in BOOLEAN : Loaded(TasksDone(mem, hist.reload), same)
  /\ UNCHANGED <<tasks, peer>>

XsNext ==
  \/ \E conn \in {"udp", "tcp"}, round \in {0, 1} : Request(conn, round)
  \/ Receive \/ ReceiveDamaged \/ ReceiveError \/ Cut
  \/ MasterUpdate \/ Expire \/ IxfrAgain \/ SendReload \/ ReloadDone
XsSpec == XsInit /\ [][XsNext]_xsvars
-----------------------------------------------------------------------------
(***************************************************************************)
(* Properties.                                                             *)
(***************************************************************************)
\* What is served is a version of the zone as the master has it, however transfers were
\* cut into packets, broken off, damaged, written in part, lost and applied in a row.  The
\* exception: differences from serial 0, which are applied to whatever version is there.
ServedIsAVersion ==
  mem.rrs = {} \/ mem.blind \/ \E s \in DOMAIN Content : mem.rrs = VersionRRs(s)

\* A stream that nobody disturbed is not refused, wherever it is cut into packets and
\* whichever packets have a TSIG, with one difference or several.  The exception: several
\* differences over which the serial wraps; the code compares their serials as numbers.
HonestAccepted == ~hist.refused

\* Every file of a transfer will be unlinked: it is being received, or is a task, unless
\* a reload process died with tasks.
FilesAccounted ==
  ~hist.lost => DOMAIN files \subseteq (IF z.seq > 0 THEN {z.nr} ELSE {}) \cup Range(tasks) \cup Range(hist.reload)
=============================================================================
