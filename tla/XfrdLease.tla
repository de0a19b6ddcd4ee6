----------------------------- MODULE XfrdLease -----------------------------
(***************************************************************************)
(* The lease of a secondary zone: which version of the zone xfrd believes  *)
(* is served, which one it has on disk, which one it was notified of, and  *)
(* when each was acquired; the timer that refreshes the zone and expires   *)
(* it; the reload that loads a transfer and the SOA it reports back; and   *)
(* the state file that carries all this over a restart (xfrd.c,            *)
(* xfrd-disk.c).                                                           *)
(*                                                                         *)
(* One zone with one master; masters, rounds and the socket pools are the  *)
(* matter of XfrdTransfer, and the processes of a reload of NsdReload.     *)
(* Time is counted in seconds, and a second passes only when the event     *)
(* loop has nothing left to do in it.  The serials form the circular space *)
(* 0 .. SerialSpace - 1 of RFC 1982; the timers of the SOA are constants.  *)
(***************************************************************************)
EXTENDS Integers, Sequences, FiniteSetsExt

CONSTANTS
  SerialSpace,          \* number of serials, 2^SERIAL_BITS
  Refresh, Retry, Expire,                 \* the timers of the SOA
  MinRefresh, MaxRefresh, MinRetry, MaxRetry, \* nsd.conf bounds on them
  BackoffStart, BackoffMax, \* XFRD_TRANSFER_TIMEOUT_START, _MAX
  RandomAbove,          \* timers above it are randomised (10)
  MaxDraw,              \* random numbers are 0 .. MaxDraw
  ReqTimeout,           \* XFRD_UDP_TIMEOUT, tcp_timeout
  ReloadWait,           \* xfrd-reload-timeout
  AllowUdp,             \* whether request-xfr allows UDP: the configurations
  MaxTime,              \* bound: the clock
  MaxReloadTime,        \* bound: how long a reload takes
  Faults,               \* bound: how often each kind of event may happen
  MaxFaults             \* bound: how many of them may happen in all

ASSUME LeaseAssumption ==
  /\ SerialSpace \in Nat \ {0}
  /\ {Refresh, Retry, Expire, MinRefresh, MaxRefresh, MinRetry, MaxRetry,
      RandomAbove, MaxDraw, MaxTime, MaxReloadTime, MaxFaults} \subseteq Nat
  /\ {BackoffStart, BackoffMax, ReqTimeout, ReloadWait} \subseteq Nat \ {0}
  /\ Refresh <= Expire /\ AllowUdp \subseteq BOOLEAN
  /\ Faults \in [{"serial", "notify", "hup", "reload", "stop"}
                 -> Nat]

VARIABLES
  now,     \* time(0)
  x,       \* xfrd: the zone and the scheduling of reloads
  srv,     \* the serving side: the zone's serial, and zone->is_ok
  rel,     \* the task list a reload works on, and the SOAs it reported
  file,    \* the state file, <<>> when there is none
  master,  \* the serial at the master
  hist     \* history: faults so far; when the master last confirmed or gave the
           \* contents, or the operator did; when NSD was last started; whether
           \* a reload died, or did not load all transfers

vars == <<now, x, srv, rel, file, master, hist>>

Serial == 0 .. SerialSpace - 1
NoSerial == -1
LowerBound == 1 \* XFRD_LOWERBOUND_REFRESH and XFRD_LOWERBOUND_RETRY

compare_serial(a, b) ==
  IF a = b THEN 0
  ELSE IF \/ a < b /\ b - a < SerialSpace \div 2
          \/ a > b /\ a - b > SerialSpace \div 2 THEN -1
  ELSE 1

(***************************************************************************)
(* Timers.  A timer is <<>> or << [due, sec] >>: when it fires, and the    *)
(* seconds it was set to, which is what the state file records.            *)
(***************************************************************************)
Clamp(v, lo, hi) == IF v > hi THEN hi ELSE IF v < lo THEN lo ELSE v

\* 90% to 100% of the time, for times far in the future.
Randomised(t, r) ==
  IF t > RandomAbove THEN (t * 9) \div 10 + (r % (t - (t * 9) \div 10)) ELSE t

xfrd_set_timer(s, t, r) ==
  [s EXCEPT !.timer = <<[due |-> now + Randomised(t, r), sec |-> Randomised(t, r)]>>,
            !.taken = FALSE]

NextBackoff(b) == IF b = 0 THEN BackoffStart ELSE Min({2 * b, BackoffMax})
Multiplier(b) == Max({1, b \div BackoffStart})

RetryOrExpire(s, retry, r) ==
  IF s.disk.acq = 0 THEN xfrd_set_timer(s, s.backoff + (r % s.backoff), r)
  ELSE IF s.st = "expired" \/ now + retry < s.disk.acq + Expire
    THEN xfrd_set_timer(s, Max({LowerBound, Clamp(retry, MinRetry, MaxRetry)}), r)
  ELSE IF Expire < LowerBound \/ s.disk.acq + Expire < now
    THEN xfrd_set_timer(s, LowerBound, r)
  ELSE xfrd_set_timer(s, s.disk.acq + Expire - now, r)

\* Mutant of xfrd_set_timer_retry: the next retry, though the zone expires first.
TimerRetryOnly(s, r) ==
  xfrd_set_timer([s EXCEPT !.backoff = NextBackoff(@)],
                 Retry * Multiplier(NextBackoff(s.backoff)), r)

xfrd_set_timer_retry(s, r) ==
  RetryOrExpire([s EXCEPT !.backoff = NextBackoff(@)],
                Retry * Multiplier(NextBackoff(s.backoff)), r)

\* Refresh or expire, whichever is earlier.
RefreshPoint(acq) ==
  Max({acq + LowerBound,
       Min({acq + Clamp(Refresh, MinRefresh, MaxRefresh), acq + Expire})})

xfrd_set_timer_refresh(s, r) ==
  IF s.disk.acq = 0 \/ s.st # "ok" THEN xfrd_set_timer_retry(s, r)
  ELSE xfrd_set_timer(s, Max({0, RefreshPoint(s.disk.acq) - now}), r)

(***************************************************************************)
(* The scheduling of reloads and the tasks for them.                       *)
(***************************************************************************)
xfrd_set_reload_timeout(s) ==
  IF s.wait = 0 \/ now >= s.wait
    THEN [s EXCEPT !.need = TRUE, !.wait = now + ReloadWait]
  ELSE IF s.added = <<>>
    THEN [s EXCEPT !.added = <<now + Min({s.wait - now, ReloadWait})>>]
  ELSE s

Task(op, serial) == [op |-> op, serial |-> serial]

xfrd_send_expire_notification(s) ==
  xfrd_set_reload_timeout(
    [s EXCEPT !.tasks = Append(@, Task(IF s.st = "expired" THEN "expire" ELSE "unexpire",
                                       NoSerial))])

\* Mutant of xfrd_set_zone_state: the server is not told that a zone is well again.
SetStateTellExpired(s, st) ==
  IF st = "expired" /\ s.st # "expired"
    THEN xfrd_send_expire_notification([s EXCEPT !.st = st])
  ELSE [s EXCEPT !.st = st]

xfrd_set_zone_state(s, st) ==
  IF st # s.st /\ "expired" \in {st, s.st}
    THEN xfrd_send_expire_notification([s EXCEPT !.st = st])
  ELSE [s EXCEPT !.st = st]

(***************************************************************************)
(* Requests.                                                               *)
(***************************************************************************)
SendRequest(s, r) ==
  xfrd_set_timer([s EXCEPT !.busy = IF s.disk.acq > 0 /\ s.udp THEN "udp" ELSE "tcp"],
                 ReqTimeout, r)

\* The single master is asked once per round, XFRD_MAX_ROUNDS is 1.
xfrd_make_request(s, r) ==
  IF s.next # -1 THEN SendRequest([s EXCEPT !.next = -1, !.round = 0], r)
  ELSE IF s.round = 0 THEN xfrd_set_timer_retry([s EXCEPT !.round = -1], r)
  ELSE SendRequest([s EXCEPT !.round = 0], r)

\* Mutant of Aged: only a zone that is ok expires.
AgedFromOk(s) ==
  IF s.disk.acq = 0 \/ s.st # "ok" THEN s
  ELSE IF now >= s.disk.acq + Expire THEN xfrd_set_zone_state(s, "expired")
  ELSE IF now >= s.disk.acq + Refresh THEN xfrd_set_zone_state(s, "refreshing")
  ELSE s

\* The zone expires or goes stale.
Aged(s) ==
  IF s.disk.acq = 0 THEN s
  ELSE IF s.st # "expired" /\ now >= s.disk.acq + Expire
    THEN xfrd_set_zone_state(s, "expired")
  ELSE IF s.st = "ok" /\ now >= s.disk.acq + Refresh
    THEN xfrd_set_zone_state(s, "refreshing")
  ELSE s

RequestIfIdle(s, r) == IF s.busy = "no" THEN xfrd_make_request(s, r) ELSE s

\* xfrd_handle_zone for a timeout: the request in progress is given up.
TimedOut(s, r) == RequestIfIdle(Aged([s EXCEPT !.busy = "no"]), r)

\* xfrd_handle_zone for an activated zone: a request in progress is left alone.
RunActivated(s, r) == IF s.busy = "tcp" THEN s ELSE RequestIfIdle(Aged(s), r)

(***************************************************************************)
(* The SOAs.  An SOA is kept as its serial, with the time it was acquired, *)
(* 0 when there is none.                                                   *)
(***************************************************************************)
NoSoa == [acq |-> 0, serial |-> 0]
SoaAt(t, serial) == [acq |-> t, serial |-> serial]

\* A notification is answered by a version at least as new.
DropNotified(s) ==
  IF /\ s.notif.acq # 0
     /\ s.notif.serial = 0 \/ compare_serial(s.disk.serial, s.notif.serial) >= 0
    THEN [s EXCEPT !.notif.acq = 0]
  ELSE s

xfrd_set_refresh_now(s) == [s EXCEPT !.act = TRUE]

\* xfrd_handle_incoming_notify; serial is <<>> for a notify without SOA.
NotifyIgnored(s, serial) ==
  /\ serial # <<>> /\ s.disk.acq # 0 /\ s.st # "expired"
  /\ compare_serial(serial[1], s.disk.serial) <= 0

NotifySerial(s, serial) ==
  IF serial = <<>> THEN 0
  ELSE IF s.notif.acq = 0 \/ s.notif.serial = 0
          \/ compare_serial(serial[1], s.notif.serial) > 0 THEN serial[1]
  ELSE s.notif.serial

xfrd_handle_incoming_notify(s, serial) ==
  IF NotifyIgnored(s, serial) THEN s
  ELSE xfrd_set_zone_state([s EXCEPT !.notif = SoaAt(now, NotifySerial(s, serial))],
                           IF s.st = "ok" THEN "refreshing" ELSE s.st)

\* xfrd_handle_incoming_soa when the version on disk has been loaded.
LoadedState(s, r) ==
  IF now - s.disk.acq >= Expire
    THEN xfrd_set_refresh_now(xfrd_set_zone_state(s, "expired"))
  ELSE IF now - s.disk.acq < Refresh
    THEN xfrd_set_timer_refresh([xfrd_set_zone_state(s, "ok") EXCEPT !.round = -1], r)
  ELSE xfrd_set_refresh_now(xfrd_set_zone_state(s, "refreshing"))

StillNotified(s) ==
  IF s.notif.acq # 0 /\ s.st = "ok"
    THEN xfrd_set_refresh_now(xfrd_set_zone_state(s, "refreshing"))
  ELSE s

xfrd_handle_incoming_soa(s, serial, acquired, r) ==
  IF serial = NoSerial
    THEN xfrd_set_refresh_now(xfrd_set_zone_state([s EXCEPT !.nsd.acq = 0], "refreshing"))
  ELSE IF s.nsd.acq # 0 /\ serial = s.nsd.serial THEN s
  ELSE IF s.disk.acq # 0 /\ serial = s.disk.serial
    THEN StillNotified(DropNotified(LoadedState([s EXCEPT !.nsd = s.disk, !.backoff = 0], r)))
  ELSE xfrd_set_refresh_now(xfrd_set_zone_state(DropNotified(
         [s EXCEPT !.nsd = SoaAt(acquired, serial), !.disk = SoaAt(acquired, serial)]),
         "refreshing"))

(***************************************************************************)
(* The state file.                                                         *)
(***************************************************************************)
\* xfrd_write_state: next_timeout is the time the timer was set to; the timeout of
\* a TCP connection is not one of the zone.
Written(s) ==
  [st |-> s.st, next |-> s.next, round |-> s.round,
   timeout |-> IF s.timer = <<>> \/ s.busy = "tcp" THEN 0 ELSE s.timer[1].sec,
   backoff |-> s.backoff \div BackoffStart,
   nsd |-> s.nsd, disk |-> s.disk, notif |-> s.notif]

\* The zone as in the file, and not tried before its timeout.
AsInFile(s, f, r) == xfrd_set_timer([s EXCEPT !.act = FALSE, !.st = f.st], f.timeout, r)

ReadRefresh(s, f) ==
  IF \/ f.timeout = 0 \/ f.notif.acq # 0
     \/ f.disk.acq # 0 /\ now - f.disk.acq > Clamp(Refresh, MinRefresh, MaxRefresh)
    THEN xfrd_set_refresh_now([s EXCEPT !.st = "refreshing"])
  ELSE s

ReadExpired(s, f) ==
  IF f.disk.acq # 0 /\ now - f.disk.acq > Expire
    THEN xfrd_set_refresh_now([s EXCEPT !.st = "expired"])
  ELSE s

ReadMatches(s, f, r) ==
  IF s.nsd.acq # 0 /\ s.st # "expired" /\ s.nsd.serial = f.nsd.serial
    THEN AsInFile(s, f, r)
  ELSE s

ReadNoStorm(s, f, r) ==
  IF \/ s.nsd.acq = 0 /\ f.nsd.acq = 0 /\ f.disk.acq = 0
     \/ s.st # "ok" /\ f.timeout # 0
    THEN AsInFile(s, f, r)
  ELSE s

\* The SOAs of the file replace those NSD reported; the time the version on
\* disk was acquired does not.
ReadSoas(s, f) ==
  [s EXCEPT !.nsd = f.nsd, !.disk.serial = f.disk.serial, !.notif = f.notif]

ReadNotify(s) == IF s.st = "expired" THEN xfrd_send_expire_notification(s) ELSE s

ReadIncoming(s, nsd, r) ==
  IF nsd.acq # 0 THEN xfrd_handle_incoming_soa(s, nsd.serial, nsd.acq, r) ELSE s

xfrd_read_state(s, f, r) ==
  ReadIncoming(ReadNotify(ReadSoas(ReadNoStorm(ReadMatches(ReadExpired(ReadRefresh(
    [s EXCEPT !.st = f.st, !.next = f.next, !.round = f.round,
              !.backoff = f.backoff * BackoffStart],
    f), f), f, r), f, r), f)), s.nsd, r)

(***************************************************************************)
(* Start.                                                                  *)
(***************************************************************************)
\* xfrd_init and xfrd_init_slave_zone.
FreshZone(udp) ==
  [up |-> TRUE, udp |-> udp, st |-> "refreshing", nsd |-> NoSoa, disk |-> NoSoa, notif |-> NoSoa,
   timer |-> <<>>, act |-> TRUE, busy |-> "no", next |-> 0, round |-> 0,
   backoff |-> BackoffStart, taken |-> FALSE,
   need |-> FALSE, can |-> TRUE, wait |-> 0, added |-> <<>>, tasks |-> <<>>]

\* xfrd_receive_soa: what the server has; an xfrd that was restarted alone
\* tells the server of expired zones by a reload.
ReceiveSoa(s, soa, r) == xfrd_handle_incoming_soa(s, soa, now, r)

\* The file was written and reads well, or all zones are refreshed.
ReadStateFile(s, f, r) == IF f = <<>> THEN s ELSE xfrd_read_state(s, f[1], r)

Started(udp, soa, f, r) == ReadStateFile(ReceiveSoa(FreshZone(udp), soa, r), f, r)

NoReload == [on |-> FALSE, at |-> 0, done |-> FALSE, tasks |-> <<>>, res |-> <<>>]

Init ==
  /\ now = 2
  /\ master = 1
  /\ file = <<>>
  /\ srv \in {[soa |-> NoSerial, ok |-> TRUE], [soa |-> 1, ok |-> TRUE]}
  /\ rel = NoReload
  /\ \E udp \in AllowUdp : x = Started(udp, srv.soa, <<>>, 0)
  /\ hist = [n |-> [f \in DOMAIN Faults |-> 0], contact |-> 2, start |-> 2,
             died |-> FALSE, soft |-> FALSE]

Counted(f) ==
  /\ hist.n[f] < Faults[f]
  /\ MapThenSumSet(LAMBDA g : hist.n[g], DOMAIN Faults) < MaxFaults
Count(f) == [hist EXCEPT !.n[f] = @ + 1]

\* The event loop has nothing to do before the next second.
Idle ==
  /\ ~x.act /\ ~rel.done /\ ~(x.can /\ x.need)
  /\ x.timer # <<>> => now < x.timer[1].due
  /\ x.added # <<>> => now < x.added[1]

(***************************************************************************)
(* The steps of xfrd.                                                      *)
(***************************************************************************)
Draw == 0 .. MaxDraw

Activated ==
  /\ x.up /\ x.act
  /\ \E r \in Draw : x' = RunActivated([x EXCEPT !.act = FALSE], r)
  /\ UNCHANGED <<now, srv, rel, file, master, hist>>

ZoneTimeout ==
  /\ x.up /\ ~x.act
  /\ x.timer # <<>> /\ now >= x.timer[1].due
  /\ \E r \in Draw : x' = TimedOut([x EXCEPT !.timer = <<>>], r)
  /\ UNCHANGED <<now, srv, rel, file, master, hist>>

\* xfrd_udp_release deletes the event of the zone, and with it its timer; a
\* TCP connection has an event of its own.
Released(s) ==
  [s EXCEPT !.busy = "no", !.timer = IF s.busy = "udp" THEN <<>> ELSE @]

\* The reply was the last of the round: also the refresh timer that it set is
\* deleted, which taken records.
EndOfRound(s) == [Released(s) EXCEPT !.taken = s.busy = "udp"]

\* xfrd_parse_received_xfr_packet: an older serial than ours, unless expired.
OldSerial(s) ==
  s.disk.acq # 0 /\ s.st # "expired" /\ compare_serial(master, s.disk.serial) < 0

\* The request fails, by an error, a bad reply or an old serial.
ReplyBad ==
  /\ x.up /\ x.busy # "no" /\ ~x.act
  /\ \E r \in Draw : x' = xfrd_make_request(Released(x), r)
  /\ UNCHANGED <<now, srv, rel, file, master, hist>>

LeaseRenewed(s) ==
  xfrd_set_zone_state(
    [s EXCEPT !.disk.acq = now,
              !.nsd.acq = IF s.nsd.serial = s.disk.serial THEN now ELSE @], "ok")

AfterLease(s, r) ==
  IF s.notif.acq = 0
    THEN EndOfRound(xfrd_set_timer_refresh([s EXCEPT !.round = -1], r))
  ELSE xfrd_make_request(Released(s), r)

\* The master still has the version on disk.
ReplySame ==
  /\ x.up /\ x.busy # "no" /\ ~x.act
  /\ x.disk.acq # 0 /\ master = x.disk.serial
  /\ \E r \in Draw : x' = AfterLease(LeaseRenewed(x), r)
  /\ hist' = [hist EXCEPT !.contact = now]
  /\ UNCHANGED <<now, srv, rel, file, master>>

\* A single SOA by UDP: a newer version, like a notify, and to be had by TCP.
ReplyShort ==
  /\ x.up /\ x.busy = "udp" /\ ~x.act
  /\ ~OldSerial(x) /\ master # x.disk.serial
  /\ \E r \in Draw :
       x' = xfrd_set_timer([xfrd_handle_incoming_notify(x, <<master>>) EXCEPT !.busy = "tcp"],
                           ReqTimeout, r)
  /\ UNCHANGED <<now, srv, rel, file, master, hist>>

\* xfrd_parse_received_xfr_packet: the transfer shows that a newer serial exists.
SawSerial(s) ==
  IF s.notif.acq # 0 /\ s.notif.serial # 0 /\ compare_serial(s.notif.serial, master) < 0
    THEN [s EXCEPT !.notif.serial = master]
  ELSE s

Committed(s) ==
  DropNotified([s EXCEPT !.tasks = Append(@, Task("xfr", master)), !.disk = SoaAt(now, master)])

\* An expired zone is not set ok before it is loaded.
AfterTransfer(s, r) ==
  IF s.notif.acq = 0
    THEN EndOfRound(xfrd_set_reload_timeout(xfrd_set_timer_refresh(
           [xfrd_set_zone_state(s, IF s.st = "expired" THEN "expired" ELSE "ok")
              EXCEPT !.round = -1], r)))
  ELSE xfrd_make_request(Released(xfrd_set_reload_timeout(s)), r)

ReplyTransfer ==
  /\ x.up /\ x.busy # "no" /\ ~x.act
  /\ ~OldSerial(x) /\ ~(x.disk.acq # 0 /\ master = x.disk.serial)
  /\ \E r \in Draw : x' = AfterTransfer(Committed(SawSerial(x)), r)
  /\ hist' = [hist EXCEPT !.contact = now]
  /\ UNCHANGED <<now, srv, rel, file, master>>

\* xfrd_handle_passed_packet, xfrd_handle_notify_and_start_xfr.
StartXfr(s) ==
  [s EXCEPT !.act = @ \/ s.busy = "no", !.next = 0,
            !.backoff = IF s.disk.acq = 0 THEN BackoffStart ELSE @]

HandleNotify ==
  /\ x.up /\ Idle /\ Counted("notify")
  /\ \E soa \in {<<>>, <<master>>} :
       x' = IF NotifyIgnored(x, soa) THEN [x EXCEPT !.next = 0]
            ELSE StartXfr(xfrd_handle_incoming_notify(x, soa))
  /\ hist' = Count("notify")
  /\ UNCHANGED <<now, srv, rel, file, master>>

HandleReloadTimer ==
  /\ x.up /\ ~x.act /\ x.added # <<>> /\ now >= x.added[1]
  /\ x' = [x EXCEPT !.added = <<>>, !.wait = now + ReloadWait, !.need = TRUE]
  /\ UNCHANGED <<now, srv, rel, file, master, hist>>

\* SIGHUP: the zone file, in which the operator put a version of their own,
\* ahead of the master.
Sighup ==
  /\ x.up /\ Idle /\ Counted("hup")
  /\ x' = [x EXCEPT !.tasks = Append(@, Task("check", (master + 1) % SerialSpace)),
                     !.need = TRUE]
  /\ hist' = Count("hup")
  /\ UNCHANGED <<now, srv, rel, file, master>>

(***************************************************************************)
(* A reload.                                                               *)
(***************************************************************************)
Unloaded(s) == s.disk.acq # 0 /\ (s.nsd.acq = 0 \/ s.disk.serial # s.nsd.serial)

xfrd_prepare_zones_for_reload(s) ==
  IF Unloaded(s) /\ s.disk.acq = now THEN [s EXCEPT !.disk.acq = @ - 1] ELSE s

SendReload ==
  /\ x.up /\ ~x.act /\ x.can /\ x.need
  /\ rel' = [NoReload EXCEPT !.on = TRUE, !.at = now, !.tasks = x.tasks]
  /\ x' = [xfrd_prepare_zones_for_reload([x EXCEPT !.tasks = <<>>])
             EXCEPT !.need = FALSE, !.can = FALSE]
  /\ UNCHANGED <<now, srv, file, master, hist>>

\* One task in the reload process; how says how transfers fare.
TaskDone(how, acc, t) ==
  CASE t.op = "expire" -> [acc EXCEPT !.ok = FALSE]
    [] t.op = "unexpire" -> [acc EXCEPT !.ok = TRUE]
    [] t.op = "check" -> [soa |-> t.serial, ok |-> TRUE, res |-> Append(acc.res, t.serial)]
    [] t.op = "xfr" /\ how = "skipped" -> acc
    [] t.op = "xfr" /\ how # "skipped" ->
         [acc EXCEPT !.soa = t.serial,
                     !.res = Append(@, IF how = "soft" THEN NoSerial ELSE t.serial)]

RECURSIVE TasksDone(_, _, _)
TasksDone(how, acc, ts) ==
  IF ts = <<>> THEN acc ELSE TasksDone(how, TaskDone(how, acc, Head(ts)), Tail(ts))

ReloadEnds(end) ==
  /\ srv' = [soa |-> end.soa, ok |-> end.ok]
  /\ rel' = [rel EXCEPT !.done = TRUE, !.tasks = <<>>, !.res = end.res]

ReloadFine ==
  /\ rel.on /\ ~rel.done
  /\ ReloadEnds(TasksDone("applied", [soa |-> srv.soa, ok |-> srv.ok, res |-> <<>>], rel.tasks))
  /\ UNCHANGED <<now, x, file, master, hist>>

\* Transfers that cannot be read are skipped, those that do not fit are
\* reported as a zone that is gone.
ReloadPartly ==
  /\ rel.on /\ ~rel.done /\ Counted("reload")
  /\ \E t \in DOMAIN rel.tasks : rel.tasks[t].op = "xfr"
  /\ \E how \in {"soft", "skipped"} :
       ReloadEnds(TasksDone(how, [soa |-> srv.soa, ok |-> srv.ok, res |-> <<>>], rel.tasks))
  /\ hist' = [Count("reload") EXCEPT !.soft = TRUE]
  /\ UNCHANGED <<now, x, file, master>>

\* The reload process dies, the old server goes on, the tasks are gone.
ReloadDies ==
  /\ rel.on /\ ~rel.done /\ Counted("reload")
  /\ rel' = [rel EXCEPT !.done = TRUE, !.tasks = <<>>]
  /\ hist' = [Count("reload") EXCEPT !.died = TRUE]
  /\ UNCHANGED <<now, x, srv, file, master>>

\* Mutant of Reverted: the version on disk is kept, it will be loaded yet.
RevertedNot(s) == s

\* xfrd_check_failed_updates: the version on disk was not loaded.
Reverted(s) ==
  IF s.disk.acq = s.nsd.acq THEN [s EXCEPT !.disk.acq = 0, !.nsd.acq = 0]
  ELSE [s EXCEPT !.disk = s.nsd]

xfrd_check_failed_updates(s, r) ==
  IF ~Unloaded(s) THEN s
  ELSE IF s.disk.acq < rel.at
    THEN xfrd_set_timer_refresh(
           xfrd_handle_incoming_notify(Reverted(s), <<s.disk.serial>>), r)
  ELSE IF ~s.need /\ s.added = <<>> THEN xfrd_set_reload_timeout(s)
  ELSE s

RECURSIVE SoasReported(_, _, _)
SoasReported(s, res, r) ==
  IF res = <<>> THEN s
  ELSE SoasReported(xfrd_handle_incoming_soa(s, Head(res), now, r), Tail(res), r)

HandleReloadDone ==
  /\ x.up /\ ~x.act /\ rel.done
  /\ \E r \in Draw :
       x' = xfrd_check_failed_updates([SoasReported(x, rel.res, r) EXCEPT !.can = TRUE], r)
  /\ rel' = NoReload
  /\ hist' = [hist EXCEPT !.contact = IF x'.disk.acq > @ THEN x'.disk.acq ELSE @]
  /\ UNCHANGED <<now, srv, file, master>>

(***************************************************************************)
(* The world: the master, the clock, stops and starts.                     *)
(***************************************************************************)
\* The serial is looked at in a reply and sent in a notify only.
MasterUpdate ==
  /\ Counted("serial")
  /\ x.up /\ (x.busy # "no" \/ Idle)
  /\ master' = (master + 1) % SerialSpace
  /\ hist' = Count("serial")
  /\ UNCHANGED <<now, x, srv, rel, file>>

Tick ==
  /\ now < MaxTime
  /\ x.up => Idle
  /\ rel.on => now < rel.at + MaxReloadTime
  /\ now' = now + 1
  /\ x' = [x EXCEPT !.wait = IF @ <= now + 1 THEN 0 ELSE @] \* a wait that is over
  /\ UNCHANGED <<srv, rel, file, master, hist>>

\* NSD is stopped, and writes the state file.
Stop ==
  /\ x.up /\ ~x.act /\ ~rel.on /\ Counted("stop")
  /\ x' = [x EXCEPT !.up = FALSE]
  /\ file' = <<Written(x)>>
  /\ hist' = Count("stop")
  /\ UNCHANGED <<now, srv, rel, master>>

\* NSD is killed; the state file stays as it was, or is lost.
Kill ==
  /\ x.up /\ ~x.act /\ ~rel.on /\ Counted("stop")
  /\ x' = [x EXCEPT !.up = FALSE]
  /\ file' \in {file, <<>>}
  /\ hist' = Count("stop")
  /\ UNCHANGED <<now, srv, rel, master>>

Start ==
  /\ ~x.up
  /\ srv' = [srv EXCEPT !.ok = TRUE]
  /\ \E r \in Draw : x' = Started(x.udp, srv.soa, file, r)
  /\ hist' = [hist EXCEPT !.start = now]
  /\ file' = IF Counted("stop") THEN file ELSE <<>> \* nobody is to read it any more
  /\ UNCHANGED <<now, rel, master>>

Next ==
  \/ Activated \/ ZoneTimeout \/ HandleReloadTimer
  \/ ReplyBad \/ ReplySame \/ ReplyShort \/ ReplyTransfer
  \/ HandleNotify \/ Sighup
  \/ SendReload \/ ReloadFine \/ ReloadPartly \/ ReloadDies \/ HandleReloadDone
  \/ MasterUpdate \/ Tick \/ Stop \/ Kill \/ Start

Spec == Init /\ [][Next]_vars

(***************************************************************************)
(* Properties.                                                             *)
(***************************************************************************)
\* No reload is pending or running, and none died with its tasks.
Settled ==
  /\ x.up /\ ~rel.on /\ ~x.need /\ x.added = <<>>
  /\ ~hist.died

\* A zone never sleeps for good, after no outcome of a request, a reload or a
\* restart: it is activated or has a timer, unless xfrd_udp_release took the
\* timer (the forgotten zone of XfrdTransfer).  And the timer fires by the time
\* the zone expires, "not later so zones cannot expire too late"
\* (xfrd_set_timer), a request in progress or the smallest timeout permitting;
\* the second is the one a reload antedates by.
WokenInTime ==
  x.up /\ ~x.act /\ ~x.taken =>
    /\ x.timer # <<>>
    /\ x.disk.acq # 0 /\ x.st # "expired" =>
         x.timer[1].due <= Max({x.disk.acq + Expire + 1, now + ReqTimeout, now + LowerBound})

\* How long requests, each by UDP and then by TCP, may hold up the expiry:
\* only the timeout of a request notices it, and a notify renews the request.
Grace == 2 * ReqTimeout * (1 + hist.n["notify"]) + LowerBound

\* The server answers for the zone only for the expire time after the
\* contents were confirmed or NSD was started, as long as xfrd has a lease
\* and a timer at all, and once the reload with the news has been made.
AnswersWithinLease ==
  Settled /\ ~x.act /\ ~x.taken /\ srv.soa # NoSerial /\ srv.ok /\ x.disk.acq # 0 =>
    now <= Max({hist.contact, hist.start}) + Expire + Grace

\* The server refuses to answer exactly when xfrd holds the zone for expired:
\* no notification of xfrd_set_zone_state is lost, repeated or overtaken by
\* the loading of a transfer.
ServerFollowsExpiry ==
  Settled /\ srv.soa # NoSerial /\ hist.n["hup"] = 0 => (srv.ok <=> x.st # "expired")

\* A version that was transferred is loaded, is about to be, or has been given
\* up to be transferred again, though xfrd_check_failed_updates tells the cases
\* apart by times in seconds; and the version xfrd takes for the served one is
\* the served one: on it rest the SOA of its notifies and the next IXFR.
SoasAsServed ==
  /\ Settled /\ hist.n["stop"] = 0 => ~Unloaded(x)
  /\ x.up /\ ~rel.on /\ x.nsd.acq # 0 /\ ~hist.soft => x.nsd.serial = srv.soa
=============================================================================
