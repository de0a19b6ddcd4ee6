---------------------------- MODULE XfrdTransfer ----------------------------
(***************************************************************************)
(* How xfrd asks the masters of its slave zones for transfers: which       *)
(* master is next, the sockets for UDP, the TCP connections with their     *)
(* pipelines of queries, the two waiting lines, the timer of each zone and *)
(* the list of activated zones (xfrd.c, xfrd-tcp.c, parts of remote.c).    *)
(*                                                                         *)
(* What a reply says is left to the module of the SOAs: here the result of *)
(* xfrd_handle_received_xfr_packet is any that is possible.                *)
(***************************************************************************)
EXTENDS Integers, Sequences, FiniteSets, SequencesExt, FiniteSetsExt

CONSTANTS Zone,        \* the slave zones there may be
          Acl,         \* the request-xfr entries
          MasterList,  \* request_xfr of a zone: a sequence of entries
          NewList,     \* the same in the configuration that repattern may read
          Address,     \* address and port of an entry
          AllowUdp,    \* entries with allow_udp
          AxfrOnly,    \* entries with use_axfr_only
          Fallback,    \* zones with allow_axfr_fallback
          MultiMaster, \* zones with multi_master_check
          MaxUdp,      \* XFRD_MAX_UDP
          MaxTcp,      \* XFRD_MAX_TCP
          IdNum,       \* ID_PIPE_NUM
          Unasked,     \* zones whose replies may come before their query
          Commanded,   \* bound: the zones that notifies and commands are for
          MaxOps       \* bound: notifies, commands and changed zones

ASSUME ListAssumption ==
  \A z \in Zone : {MasterList[z], NewList[z]} \subseteq Seq(Acl) \ {<<>>}
ASSUME PoolAssumption == {MaxUdp, MaxTcp, IdNum} \subseteq Nat \ {0}

MaxRounds == 1         \* XFRD_MAX_ROUNDS

VARIABLE xfrd

(***************************************************************************)
(* zones    the zones tree                                                 *)
(* master   the master of a zone: 0 is NULL, i the i-th of its list        *)
(* next     next_master, 0 for -1          round   round_num               *)
(* first    multi_master_first_master, 0 for -1                            *)
(* disk     zones with soa_disk_acquired   await   zones whose disk SOA is *)
(*          not (yet) the one served                                       *)
(* fd       zones with a UDP socket in their handler                       *)
(* timer    zones whose handler has a timeout pending                      *)
(* act      the activated list             running xfrd_process_activated  *)
(*                                                 has begun, is not done  *)
(* udpQ     udp_waiting_first ... _last    udpNum  udp_use_num             *)
(* tcpQ     tcp_waiting_first ... _last    tcpNum  tcp_count               *)
(* conn     tcp_conn, 0 for -1             qid     query_id on a pipeline  *)
(* pipe     tcp_state                      new     zones that have NewList *)
(* stray    deleted zones whose handler still has a timeout pending        *)
(* failed   (history) the asserts that failed, and reads through NULL or   *)
(*          of freed memory; xfrd ends there                               *)
(* cutoff   (history) a zone in line has lost its master                   *)
(***************************************************************************)

Id == 1..IdNum
Pipe == 1..MaxTcp
Null == "null"          \* an id that is not in use
Skip == "skip"          \* TCP_NULL_SKIP

\* A pipeline that is not connected, and one just connected to an address.
ClosedPipe == [open |-> FALSE, ip |-> Null, unused |-> {}, skip |-> 0,
               id |-> [q \in Id |-> Null], send |-> <<>>, packet |-> Null]
OpenPipe(ip) == [ClosedPipe EXCEPT !.open = TRUE, !.ip = ip, !.unused = Id]

Without(q, z) == SelectSeq(q, LAMBDA y : y # z)

\* An assert of the code; who breaks it is remembered.
Require(s, holds, where) ==
  IF holds THEN s ELSE [s EXCEPT !.failed = @ \cup {where}]

ListOf(s, z) == IF z \in s.new THEN NewList[z] ELSE MasterList[z]
MasterOf(s, z) == ListOf(s, z)[s.master[z]]
AddressOf(s, z) == IF s.master[z] = 0 THEN Null ELSE Address[MasterOf(s, z)]

-----------------------------------------------------------------------------
(* Timers and the activated list.                                          *)

\* xfrd_set_refresh_now
SetRefreshNow(s, z) ==
  IF z \in ToSet(s.act) THEN s ELSE [s EXCEPT !.act = <<z>> \o @]

\* xfrd_deactivate_zone
Deactivate(s, z) == [s EXCEPT !.act = Without(@, z)]

\* xfrd_set_timer
SetTimer(s, z) == [s EXCEPT !.timer = @ \cup {z}]

\* xfrd_unset_timer
UnsetTimer(s, z) ==
  [Require(s, z \notin s.fd, "xfrd.c:1080") EXCEPT !.timer = @ \ {z}]

-----------------------------------------------------------------------------
(* UDP.  "fails" are the zones for which the operating system refuses a    *)
(* socket, a bind, a connect or a send while the handler runs.             *)

\* xfrd_send_ixfr_request_udp and the handler that is set for the socket.
SendIxfrUdp(s, z, fails) ==
  LET r == SetTimer(Require(s, s.master[z] # 0, "xfrd.c:1523"), z)
  IN  IF z \in fails THEN r ELSE [r EXCEPT !.fd = @ \cup {z}]

\* A zone of the line that could not send is activated to act on it.
UdpGaveUp(s, z, fails) ==
  IF s.conn[z] = 0 THEN SetRefreshNow(SendIxfrUdp(s, z, fails), z) ELSE s

\* The loop of xfrd_udp_release: the slot goes to the first that can use it.
ServeUdpLine(s, fails) ==
  LET able == {i \in DOMAIN s.udpQ :
                 s.conn[s.udpQ[i]] = 0 /\ s.udpQ[i] \notin fails}
      k == IF able = {} THEN Len(s.udpQ) + 1 ELSE Min(able)
      r == FoldLeft(LAMBDA t, w : UdpGaveUp(t, w, fails),
                    [s EXCEPT !.udpQ = SubSeq(@, k + 1, Len(@))],
                    SubSeq(s.udpQ, 1, k - 1))
  IN  IF able = {} THEN [r EXCEPT !.udpNum = IF @ > 0 THEN @ - 1 ELSE @]
      ELSE SendIxfrUdp(r, s.udpQ[k], fails)

\* xfrd_udp_release
UdpRelease(s, z, fails) ==
  LET r == [Require(s, z \notin ToSet(s.udpQ), "xfrd.c:1233") EXCEPT
              !.fd = @ \ {z}, !.timer = @ \ {z}]
  IN  IF r.udpNum = MaxUdp THEN ServeUdpLine(r, fails)
      ELSE [r EXCEPT !.udpNum = IF @ > 0 THEN @ - 1 ELSE @]

\* "stop udp (if any)"
StopUdp(s, z, fails) == IF z \in s.fd THEN UdpRelease(s, z, fails) ELSE s

-----------------------------------------------------------------------------
(* TCP.                                                                    *)

\* xfrd_tcp_open, where a missing master becomes the first one.
TcpOpen(s, i, z, fails) ==
  LET r == [Require(s, s.conn[z] # 0, "xfrd-tcp.c:493") EXCEPT
              !.master[z] = IF @ = 0 THEN 1 ELSE @]
  IN  IF z \in fails THEN SetRefreshNow(r, z)
      ELSE [r EXCEPT !.pipe[i] = OpenPipe(AddressOf(r, z))]

\* xfrd_tcp_setup_write_packet: tcp_w holds the query of the zone.
SetupWritePacket(s, i, z) ==
  [Require(s, s.conn[z] # 0 /\ z \notin ToSet(s.tcpQ), "xfrd-tcp.c:593")
     EXCEPT !.pipe[i].packet = z]

\* pipeline_setup_new_zone; the ID it draws is one of the unused ones, which
\* are all alike, so that the smallest stands for any.
PipelineSetupNewZone(s, i, z) ==
  LET q == Min(s.pipe[i].unused)
      r == [s EXCEPT !.qid[z] = q,
                     !.pipe[i].unused = @ \ {q}, !.pipe[i].id[q] = z,
                     !.pipe[i].send = Append(@, z)]
  IN  IF s.pipe[i].unused = {} THEN Require(s, FALSE, "xfrd-tcp.c:373")
      ELSE IF s.pipe[i].send = <<>> THEN SetupWritePacket(r, i, z) ELSE r

\* Mutant of PipelineFind: a connection without unused IDs will do.
PipelineFindFull(s, z) ==
  {i \in Pipe : s.pipe[i].open /\ s.pipe[i].ip = AddressOf(s, z)}

\* pipeline_find: the connection to this master with the most unused IDs (of
\* two with as many, the one the tree has last).
PipelineFind(s, z) ==
  LET same == {i \in Pipe : s.pipe[i].open /\ s.pipe[i].ip = AddressOf(s, z)}
      free(i) == Cardinality(s.pipe[i].unused)
  IN  {i \in same : free(i) > 0 /\ \A j \in same : free(j) <= free(i)}

\* The end of xfrd_tcp_obtain: wait, at end of line.
WaitForTcp(s, z) ==
  UnsetTimer(Deactivate([s EXCEPT !.tcpQ = Append(@, z)], z), z)

\* A zone joins the pipeline of a connection.
JoinPipeline(s, i, z) ==
  PipelineSetupNewZone(UnsetTimer(Deactivate([s EXCEPT !.conn[z] = i], z), z), i, z)

\* The first part of xfrd_tcp_obtain: a connection of its own.
ConnectTcp(s, z, fails) ==
  LET free == {i \in Pipe : ~s.pipe[i].open}
      i == Min(free)
      r == Require([s EXCEPT !.tcpNum = @ + 1], s.tcpQ = <<>>, "xfrd-tcp.c:410")
      t == TcpOpen(StopUdp([r EXCEPT !.conn[z] = i], z, fails), i, z, fails)
  IN  IF free = {} THEN r
      ELSE IF z \in fails
             THEN SetRefreshNow([t EXCEPT !.conn[z] = 0, !.tcpNum = @ - 1], z)
             ELSE JoinPipeline(t, i, z)

\* xfrd_tcp_obtain
TcpObtain(s, z, fails) ==
  LET r == Require(s, s.conn[z] = 0 /\ z \notin ToSet(s.tcpQ), "xfrd-tcp.c:405")
      found == PipelineFind(r, z)
  IN  IF r.tcpNum < MaxTcp THEN ConnectTcp(r, z, fails)
      ELSE IF found # {} THEN JoinPipeline(StopUdp(r, z, fails), Max(found), z)
      ELSE WaitForTcp(r, z)

\* A zone of the line whose connection could not be opened.
TcpGaveUp(s, i, z, fails) ==
  [TcpOpen(StopUdp([s EXCEPT !.conn[z] = i], z, fails), i, z, fails)
     EXCEPT !.conn[z] = 0]

\* xfrd_tcp_pipe_release: close; the first in line that can connect takes over.
TcpPipeRelease(s, i, fails) ==
  LET able == {k \in DOMAIN s.tcpQ : s.tcpQ[k] \notin fails}
      k == IF able = {} THEN Len(s.tcpQ) + 1 ELSE Min(able)
      c == [s EXCEPT !.pipe[i] = ClosedPipe]
      r == FoldLeft(LAMBDA t, w : TcpGaveUp(t, i, w, fails),
                    [c EXCEPT !.tcpQ = SubSeq(@, k + 1, Len(@))],
                    SubSeq(s.tcpQ, 1, k - 1))
      z == s.tcpQ[k]
      none(t) == Require([t EXCEPT !.tcpNum = @ - 1],
                        t.tcpQ = <<>> /\ t.tcpNum > 0, "xfrd-tcp.c:1040")
  IN  IF s.tcpNum # MaxTcp THEN none(c)
      ELSE IF able = {} THEN none(r)
      ELSE PipelineSetupNewZone(
             UnsetTimer(TcpOpen(StopUdp([r EXCEPT !.conn[z] = i], z, fails),
                                i, z, fails), z), i, z)

\* tcp_pipe_id_remove
IdRemove(s, i, q, z) ==
  [Require(s, s.pipe[i].unused # Id /\ s.pipe[i].id[q] = z, "xfrd-tcp.c:288")
     EXCEPT !.pipe[i].id[q] = Null, !.pipe[i].unused = @ \cup {q}]

\* The zone is off the connection: tcp_conn and tcp_pipe_sendlist_remove.
OffConnection(s, i, z) ==
  [s EXCEPT !.conn[z] = 0, !.qid[z] = 0, !.pipe[i].send = Without(@, z)]

\* The IDs left on a pipeline are unused, or only there to be skipped.
NobodyOn(p) == p.skip >= IdNum - Cardinality(p.unused)

\* The zone leaves the connection, and its ID is free unless it is skipped.
LeaveConnection(s, z) ==
  LET i == s.conn[z]
      r == OffConnection(Require(s, z \notin ToSet(s.tcpQ), "xfrd-tcp.c:937"), i, z)
  IN  IF s.pipe[i].id[s.qid[z]] = Skip THEN r ELSE IdRemove(r, i, s.qid[z], z)

\* The first zone in line gets the one ID that is free.
TakeUnusedId(s, i, w, fails) ==
  PipelineSetupNewZone(
    UnsetTimer(StopUdp([s EXCEPT !.conn[w] = i, !.tcpQ = Tail(@)], w, fails), w), i, w)

\* Whether that zone is looked at, and wants the master of this connection.
LooksAtFirst(s, i) == Cardinality(s.pipe[i].unused) = 1 /\ s.tcpQ # <<>>
FirstWants(s, i) == LooksAtFirst(s, i) /\ AddressOf(s, Head(s.tcpQ)) = s.pipe[i].ip

\* xfrd_tcp_release: an ID that is free again goes to the first in line if it
\* wants this master; an empty pipeline is closed.
AfterLeaving(s, i, fails) ==
  LET r == Require(s, LooksAtFirst(s, i) => s.master[Head(s.tcpQ)] # 0, "xfrd-tcp.c:957")
  IN  IF FirstWants(r, i) THEN TakeUnusedId(r, i, Head(r.tcpQ), fails)
      ELSE IF NobodyOn(r.pipe[i]) THEN TcpPipeRelease(r, i, fails)
      ELSE r

TcpRelease(s, z, fails) == AfterLeaving(LeaveConnection(s, z), s.conn[z], fails)

\* xfrd_tcp_pipe_stop: every zone on the connection has to try again.
TcpPipeStop(s, i, fails) ==
  LET ids == SelectSeq([q \in Id |-> q], LAMBDA q : s.pipe[i].id[q] \in Zone)
      drop(t, q) == LET z == s.pipe[i].id[q]
                    IN  SetRefreshNow(IdRemove(OffConnection(t, i, z), i, q, z), z)
      r == Require(s, ~NobodyOn(s.pipe[i]) /\ ids # <<>>, "xfrd-tcp.c:303")
  IN  TcpPipeRelease(FoldLeft(drop, r, ids), i, fails)

-----------------------------------------------------------------------------
(* Requests.  "noIxfr": ixfr_disabled is set for the chosen master and not *)
(* too old; the clock and the zones that share the master decide on that.  *)

\* Mutant of SendOrWait: the slot is counted although the send failed.
SendOrWaitCounts(s, z, fails) ==
  IF s.udpNum < MaxUdp
    THEN SendIxfrUdp([s EXCEPT !.udpNum = @ + 1], z, fails)
    ELSE UnsetTimer([s EXCEPT !.udpQ = Append(@, z)], z)

\* xfrd_udp_obtain: "queue the zone as last" when the slots are all in use.
SendOrWait(s, z, fails) ==
  IF s.udpNum < MaxUdp
    THEN SendIxfrUdp([s EXCEPT !.udpNum = IF z \in fails THEN @ ELSE @ + 1], z, fails)
    ELSE UnsetTimer([s EXCEPT !.udpQ = Append(@, z)], z)

UdpObtain(s, z, fails) ==
  LET r == Require(s, z \notin ToSet(s.udpQ), "xfrd.c:962")
  IN  SendOrWait(IF s.conn[z] # 0 THEN TcpRelease(r, z, fails) ELSE r, z, fails)

\* The choice of the master at the start of xfrd_make_request.
ChooseMaster(s, z) ==
  LET n == Len(ListOf(s, z))
  IN  IF s.next[z] # 0
        THEN [s EXCEPT !.master[z] = IF s.next[z] <= n THEN s.next[z] ELSE 1,
                       !.next[z] = 0, !.round[z] = 0]
      ELSE IF s.round[z] # -1 /\ s.master[z] \in 1..(n - 1)
        THEN [s EXCEPT !.master[z] = @ + 1]
        ELSE [s EXCEPT !.master[z] = 1, !.round[z] = @ + 1]

\* The request to the chosen master, over UDP or TCP, or none at all.
PerformRequest(s, z, fails, noIxfr) ==
  LET m == MasterOf(s, z)
      ixfr == m \notin AxfrOnly /\ z \in s.disk
      t == SetTimer(s, z)
  IN  IF ixfr /\ ~noIxfr /\ m \in AllowUdp THEN UdpObtain(t, z, fails)
      ELSE IF ixfr /\ noIxfr /\ z \notin Fallback THEN s
      ELSE TcpObtain(t, z, fails)

\* xfrd_make_request
MakeRequest(s, z, fails, noIxfr) ==
  LET r == ChooseMaster(s, z)
      all == r.first[z] = r.master[z] /\ r.round[z] > 0
  IN  IF r.round[z] >= MaxRounds
        THEN SetTimer([r EXCEPT !.round[z] = -1, !.first[z] = 0], z)
      ELSE IF z \in MultiMaster /\ all
        THEN SetTimer([r EXCEPT !.round[z] = -1, !.first[z] = 0], z)
      ELSE PerformRequest(
             IF z \in MultiMaster /\ r.first[z] = 0
               THEN [r EXCEPT !.first[z] = r.master[z]] ELSE r,
             z, fails, noIxfr)

\* xfrd_disable_ixfr; "fresh": it was not disabled too long ago already, so
\* that a new round starts at this master, without IXFR.
DisableIxfr(s, z, fresh) ==
  IF fresh THEN [s EXCEPT !.round[z] = 0, !.next[z] = s.master[z]] ELSE s

\* What xfrd_handle_received_xfr_packet may return, and what it does to this
\* state.  "committed" is a transfer of a serial older than the one notified,
\* for which it returns xfrd_packet_bad; "bad" is any other reason to drop it.
Result == {"newlease", "transfer", "committed", "notimpl", "bad"}

\* The zone has what it asked for, and asks no other master.
Ends(z, res) == res \in {"newlease", "transfer"} /\ z \notin MultiMaster

Possible(s, z, res) ==
  res = "newlease" => z \in s.disk /\ z \notin MultiMaster

HandleReceived(s, z, res) ==
  LET ends(t) == SetTimer([t EXCEPT !.round[z] = -1], z)
      kept(t) == [t EXCEPT !.disk = @ \cup {z}, !.await = @ \cup {z}]
  IN  CASE res = "newlease" -> ends(s)
        [] res = "transfer" -> IF z \in MultiMaster THEN kept(s) ELSE ends(kept(s))
        [] res = "committed" -> kept(s)
        [] OTHER -> s

-----------------------------------------------------------------------------
(* The handlers.  They run one at a time, but xfrd_process_activated does  *)
(* not stop between two zones to look for events.                          *)

Event == ~xfrd.running /\ xfrd.failed = {}

\* Only a zone that asks, or one in line, opens a socket.
Openers(z) == {z} \cup ToSet(xfrd.udpQ) \cup ToSet(xfrd.tcpQ)

\* An event that somebody outside causes; there are at most MaxOps of them.
Outside(s) == [s EXCEPT !.ops = @ + 1]
MayCome(z) == Event /\ z \in Commanded /\ xfrd.ops < MaxOps

\* xfrd_handle_zone, after a timeout has taken its socket: the zone asks, if it
\* is not busy or in line.
RequestUnlessBusy(s, z, fails, noIxfr) ==
  IF z \in ToSet(s.tcpQ) \cup ToSet(s.udpQ) THEN UnsetTimer(s, z)
  ELSE IF z \in s.fd \/ s.conn[z] # 0 THEN s
  ELSE MakeRequest(s, z, fails, noIxfr)

\* xfrd_handle_zone on a timeout ("timeout") or for an activated zone.
HandleZone(s, z, timeout, fails, noIxfr) ==
  IF s.conn[z] # 0 /\ ~timeout THEN s
  ELSE RequestUnlessBusy(
         IF s.conn[z] # 0 THEN StopUdp(TcpRelease(s, z, fails), z, fails)
         ELSE IF timeout THEN StopUdp(s, z, fails)
         ELSE s,
         z, fails, noIxfr)

\* xfrd_process_activated, one round of its loop.
RunActivated ==
  /\ xfrd.act # <<>> /\ xfrd.failed = {}
  /\ \E fails \in SUBSET Openers(Head(xfrd.act)), noIxfr \in BOOLEAN :
       LET s == HandleZone([xfrd EXCEPT !.act = Tail(@)], Head(xfrd.act),
                           FALSE, fails, noIxfr)
       IN  xfrd' = [s EXCEPT !.running = s.act # <<>>]

\* The timeout of the handler of a zone; it is pending only once.
ZoneTimeout(z) ==
  /\ Event /\ z \in xfrd.timer
  /\ \E fails \in SUBSET Openers(z), noIxfr \in BOOLEAN :
       xfrd' = HandleZone([xfrd EXCEPT !.timer = @ \ {z}], z, TRUE, fails, noIxfr)

\* xfrd_udp_read.  A reply with NOTIMPL disables IXFR, and so does the third
\* bad one ("fresh" as above).
UdpRead(z) ==
  /\ Event /\ z \in xfrd.fd
  /\ \E res \in Result \cup {"tcp"}, fails \in SUBSET Openers(z) :
     \E noIxfr, fresh \in IF Ends(z, res) \/ res = "tcp" THEN {FALSE} ELSE BOOLEAN :
       /\ Possible(xfrd, z, res)
       /\ LET s == HandleReceived(xfrd, z, res)
              t == CASE res = "tcp" -> SetTimer(s, z)
                     [] Ends(z, res) -> Require(s, s.round[z] = -1, "xfrd.c:1328")
                     [] res = "transfer" /\ z \in MultiMaster -> s
                     [] OTHER -> DisableIxfr(s, z, fresh)
              r == UdpRelease(t, z, fails)
          IN  xfrd' = CASE res = "tcp" -> TcpObtain(r, z, fails)
                        [] Ends(z, res) -> r
                        [] OTHER -> MakeRequest(r, z, fails, noIxfr)

\* xfrd_tcp_read of a reply for a zone: the last packet of it, or a bad one.
\* A packet that more will follow, or that nobody waits for, changes nothing.
TcpRead(z) ==
  /\ Event /\ xfrd.conn[z] # 0
  /\ z \in ToSet(xfrd.pipe[xfrd.conn[z]].send) => z \in Unasked
  /\ \E res \in Result, fails \in SUBSET Openers(z) :
     \E noIxfr \in IF Ends(z, res) THEN {FALSE} ELSE BOOLEAN,
        fresh \in IF res = "notimpl" THEN BOOLEAN ELSE {FALSE} :
       /\ Possible(xfrd, z, res)
       /\ LET i == xfrd.conn[z]
              s == HandleReceived(xfrd, z, res)
              t == CASE res = "transfer" -> s
                     [] res = "notimpl" -> DisableIxfr(s, z, fresh)
                     [] OTHER -> [s EXCEPT !.pipe[i].id[s.qid[z]] = Skip,
                                           !.pipe[i].skip = @ + 1]
              r == TcpRelease(t, z, fails)
          IN  xfrd' = IF Ends(z, res)
                        THEN Require(r, r.round[z] = -1, "xfrd-tcp.c:908")
                        ELSE MakeRequest(r, z, fails, noIxfr)

\* xfrd_tcp_write: k queries are written; the one after them is set up.
TcpWrite(i) ==
  /\ Event /\ xfrd.pipe[i].send # <<>>
  /\ \E k \in 1..Len(xfrd.pipe[i].send) :
       LET send == xfrd.pipe[i].send
           s == [xfrd EXCEPT !.pipe[i].send = SubSeq(@, k + 1, Len(@)),
                             !.pipe[i].packet = Null]
       IN  xfrd' = IF k < Len(send) THEN SetupWritePacket(s, i, send[k + 1]) ELSE s

\* xfrd_handle_tcp_pipe when the connection fails or is timed out.
TcpPipeFails(i) ==
  /\ Event /\ xfrd.pipe[i].open
  /\ \E fails \in SUBSET ToSet(xfrd.tcpQ) : xfrd' = TcpPipeStop(xfrd, i, fails)

\* xfrd_handle_notify_and_start_xfr
StartXfr(s, z) ==
  IF z \in s.fd \/ s.conn[z] # 0 \/ z \in ToSet(s.tcpQ) \cup ToSet(s.udpQ)
    THEN s ELSE SetRefreshNow(s, z)

\* xfrd_handle_passed_packet: a NOTIFY, which may be for an old serial, and
\* may say which master to ask; do_transfer is one that says nothing.
Notify(z) ==
  /\ MayCome(z) /\ z \in xfrd.zones
  /\ \E isNew \in BOOLEAN, m \in 0..Len(ListOf(xfrd, z)) :
       LET s == IF isNew THEN StartXfr(xfrd, z) ELSE xfrd
       IN  xfrd' = Outside([s EXCEPT !.next[z] = IF m = 0 THEN @ ELSE m])

\* force_transfer_zone
ForceTransfer(z) ==
  /\ MayCome(z) /\ z \in xfrd.zones
  /\ \E fails \in SUBSET Openers(z) :
       LET s == IF xfrd.conn[z] # 0 THEN TcpRelease(xfrd, z, fails)
                ELSE StopUdp(xfrd, z, fails)
       IN  xfrd' = Outside(StartXfr([s EXCEPT !.disk = @ \ {z}, !.await = @ \ {z}], z))

\* xfrd_init_slave_zone, for a zone without a state file.
NewZone(s, z) ==
  SetRefreshNow([s EXCEPT !.zones = @ \cup {z}, !.master[z] = 1, !.next[z] = 1,
                          !.round[z] = 0, !.first[z] = 0], z)

InitSlaveZone(z) ==
  /\ Event /\ z \notin xfrd.zones
  /\ xfrd' = NewZone(xfrd, z)

\* repat_interrupt_zones, for a zone whose master list is another one: a
\* transfer is broken off, but a zone in a line stays there, without a master.
ChangeMasters(z) ==
  /\ MayCome(z) /\ z \in xfrd.zones
  /\ \E fails \in SUBSET Openers(z) :
       LET s == IF xfrd.conn[z] # 0 THEN SetRefreshNow(TcpRelease(xfrd, z, fails), z)
                ELSE IF z \in xfrd.fd THEN SetRefreshNow(UdpRelease(xfrd, z, fails), z)
                ELSE xfrd
       IN  xfrd' = Outside([s EXCEPT !.master[z] = 0, !.next[z] = 0, !.round[z] = -1,
                                     !.new = (@ \ {z}) \cup ({z} \ @),
                                     !.cutoff = @ \/ z \in ToSet(s.udpQ) \cup ToSet(s.tcpQ)])

\* The end of xfrd_del_slave_zone.  The event of the handler goes with a socket
\* or as a timeout of its own, not for a zone that is on a connection.
Deleted(s, z, fails) ==
  LET onTcp == s.conn[z] # 0
      t == IF onTcp THEN TcpRelease(s, z, fails) ELSE StopUdp(s, z, fails)
  IN  [t EXCEPT !.zones = @ \ {z}, !.disk = @ \ {z}, !.await = @ \ {z}, !.timer = @ \ {z},
                !.stray = IF onTcp THEN @ \cup ({z} \cap t.timer) ELSE @]

\* Mutant of DelSlaveZone: the zone stays in the line for a TCP connection.
DelSlaveZoneWaits(z) ==
  /\ MayCome(z) /\ z \in xfrd.zones
  /\ \E fails \in SUBSET Openers(z) :
       xfrd' = Outside(Deleted(Deactivate([xfrd EXCEPT !.udpQ = Without(@, z)], z), z, fails))

\* xfrd_del_slave_zone
DelSlaveZone(z) ==
  /\ MayCome(z) /\ z \in xfrd.zones
  /\ \E fails \in SUBSET Openers(z) :
       xfrd' = Outside(Deleted(Deactivate([xfrd EXCEPT !.tcpQ = Without(@, z),
                                                       !.udpQ = Without(@, z)], z), z, fails))

\* The timeout of a zone that is gone: xfrd_handle_zone reads recycled memory.
StrayTimeout ==
  /\ Event /\ xfrd.stray # {}
  /\ xfrd' = [xfrd EXCEPT !.failed = @ \cup {"xfrd.c:790"}]

\* xfrd_handle_incoming_soa: the server serves the SOA on disk now; the zone
\* is ok until its refresh, or is refreshing or expired, or both when a newer
\* serial was notified.
SoaLoaded(z) ==
  /\ Event /\ z \in xfrd.await
  /\ LET s == [xfrd EXCEPT !.await = @ \ {z}]
         ok == SetTimer([s EXCEPT !.round[z] = -1], z)
     IN  xfrd' \in {ok, SetRefreshNow(ok, z), SetRefreshNow(s, z)}

\* The same for a zone the server has nothing for, or has other data for.
SoaChanged(z) ==
  /\ MayCome(z) /\ z \in xfrd.zones
  /\ LET gone == [xfrd EXCEPT !.await = @ \cup ({z} \cap xfrd.disk)]
         manual == [xfrd EXCEPT !.disk = @ \cup {z}, !.await = @ \ {z}]
     IN  xfrd' \in {Outside(SetRefreshNow(gone, z)), Outside(SetRefreshNow(manual, z))}

\* xfrd_check_failed_updates: the disk SOA is not served, back to the old one.
UpdateFailed(z) ==
  /\ Event /\ z \in xfrd.await
  /\ \E kept \in SUBSET {z} :
       xfrd' = SetTimer([xfrd EXCEPT !.await = @ \ {z},
                                     !.disk = (@ \ {z}) \cup kept], z)

\* xfrd_init_zones, and xfrd_read_state for some zones.
Init ==
  \E saved \in SUBSET Zone :
    xfrd = [zones |-> Zone,
            master |-> [z \in Zone |-> 1],
            next |-> [z \in Zone |-> IF z \in saved THEN 0 ELSE 1],
            round |-> [z \in Zone |-> IF z \in saved THEN -1 ELSE 0],
            first |-> [z \in Zone |-> 0],
            disk |-> saved, await |-> {},
            fd |-> {}, timer |-> saved,
            act |-> SetToSeq(Zone \ saved), running |-> Zone # saved,
            udpQ |-> <<>>, udpNum |-> 0, tcpQ |-> <<>>, tcpNum |-> 0,
            conn |-> [z \in Zone |-> 0], qid |-> [z \in Zone |-> 0],
            pipe |-> [i \in Pipe |-> ClosedPipe],
            new |-> {}, stray |-> {}, failed |-> {}, cutoff |-> FALSE, ops |-> 0]

Next ==
  \/ RunActivated \/ StrayTimeout
  \/ \E z \in Zone :
       \/ ZoneTimeout(z)
       \/ UdpRead(z)
       \/ TcpRead(z)
       \/ Notify(z)
       \/ ForceTransfer(z)
       \/ InitSlaveZone(z)
       \/ DelSlaveZone(z)
       \/ ChangeMasters(z)
       \/ SoaLoaded(z)
       \/ SoaChanged(z)
       \/ UpdateFailed(z)
  \/ \E i \in Pipe : TcpWrite(i) \/ TcpPipeFails(i)

Spec == Init /\ [][Next]_xfrd

-----------------------------------------------------------------------------
(* Properties.                                                             *)

\* No assert of xfrd.c and xfrd-tcp.c on the way of a transfer can fail, and
\* nothing is read through a master that is NULL or from a freed zone, whatever
\* the network and the reloads do and the operator asks for.  The exceptions:
\* the masters of a zone change while it waits in a line, and a zone is deleted
\* that is on a connection and has a timeout pending.
AssertsHold ==
  /\ xfrd.failed \subseteq {"xfrd.c:1523", "xfrd-tcp.c:957", "xfrd.c:790"}
  /\ "xfrd.c:790" \in xfrd.failed => xfrd.stray # {}
  /\ xfrd.failed \ {"xfrd.c:790"} # {} => xfrd.cutoff

\* udp_use_num is the number of UDP sockets in use and tcp_count the number of
\* open connections, and a zone waits for one only while all of XFRD_MAX_UDP, or
\* of XFRD_MAX_TCP, are in use (xfrd.c:959-998, 1230-1283; xfrd-tcp.c:401-485,
\* 978-1043).
SlotsCounted ==
  /\ xfrd.udpNum = Cardinality(xfrd.fd) /\ xfrd.udpNum <= MaxUdp
  /\ xfrd.udpQ # <<>> => xfrd.udpNum = MaxUdp
  /\ xfrd.tcpNum = Cardinality({i \in Pipe : xfrd.pipe[i].open})
  /\ xfrd.tcpQ # <<>> => xfrd.tcpNum = MaxTcp

\* An open connection carries at least one zone, every zone on it owns the ID
\* that leads to it, the unused and skipped IDs are the others, and only
\* zones on it are in its send list (xfrd-tcp.h:108-124).
PipelineSound(i, p) ==
  LET on == {z \in Zone : xfrd.conn[z] = i}
  IN  /\ p.open <=> on # {}
      /\ p.open => /\ p.unused = {q \in Id : p.id[q] = Null}
                   /\ p.skip = Cardinality({q \in Id : p.id[q] = Skip})
                   /\ on = {p.id[q] : q \in Id} \ {Null, Skip}
                   /\ \A z \in on : p.id[xfrd.qid[z]] = z
                   /\ ToSet(p.send) \subseteq on
                   /\ Cardinality(ToSet(p.send)) = Len(p.send)

Places(z) ==
  (IF z \in xfrd.fd THEN 1 ELSE 0) + (IF xfrd.conn[z] # 0 THEN 1 ELSE 0)
  + Len(SelectSeq(xfrd.udpQ \o xfrd.tcpQ, LAMBDA y : y = z))

\* A zone is in one place: it has a UDP socket, a connection, or a place in
\* one of the two lines, once; a deleted zone is nowhere; and the connections
\* agree with the zones that are on them.
OnePlace ==
  /\ \A z \in Zone : Places(z) <= (IF z \in xfrd.zones THEN 1 ELSE 0)
  /\ \A i \in Pipe : PipelineSound(i, xfrd.pipe[i])

\* Something will make the zone act again.
Scheduled(z) ==
  \/ z \in ToSet(xfrd.act) \cup xfrd.timer \cup xfrd.await
  \/ z \in ToSet(xfrd.udpQ) \cup ToSet(xfrd.tcpQ)
  \/ z \in xfrd.fd \/ xfrd.conn[z] # 0

\* Every zone has something that will make it act again.
NeverForgotten == \A z \in xfrd.zones : Scheduled(z)
=============================================================================
