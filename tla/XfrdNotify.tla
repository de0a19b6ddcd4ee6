----------------------------- MODULE XfrdNotify -----------------------------
(***************************************************************************)
(* The NOTIFY sender of xfrd (xfrd-notify.c).  Every zone has a            *)
(* notify_zone; when its SOA changes, a round of NOTIFY packets goes to    *)
(* the zone's list of secondaries, one after another, each tried again on  *)
(* a timeout.  At most MaxUdpNotify zones have a round going on; the       *)
(* others wait in a linked list.                                           *)
(*                                                                         *)
(* xfrd is a single thread: a handler runs to its end.  Handlers are       *)
(* written as operators from the state (a record with one field per member *)
(* of the C structs) to the state, so that they compose as the calls do.   *)
(***************************************************************************)
EXTENDS Integers, Sequences, FiniteSets

CONSTANTS Zone,          \* the zones that may be configured
          MaxUdpNotify,  \* XFRD_MAX_UDP_NOTIFY
          NotifyRetry,   \* pattern->notify_retry, the notify-retry: option
          RetryMod,      \* notify_retry is a uint8_t: RetryMod is 2^8
          AclLen,        \* possible lengths of a zone's notify: list
          Serial         \* SOA serials; 0 is the zeroed SOA (none known)

ASSUME ZoneAssumption == IsFiniteSet(Zone)
ASSUME SlotAssumption == MaxUdpNotify \in Nat \ {0}
ASSUME RetryAssumption == RetryMod \in Nat \ {0} /\ NotifyRetry \in 0..(RetryMod - 1)
ASSUME AclAssumption == AclLen \subseteq Nat /\ AclLen # {}
ASSUME SerialAssumption == 0 \in Serial

VARIABLE xfrd   \* the fields of struct xfrd_state and of every notify_zone

(***************************************************************************)
(* zones    the notify_zones tree                                          *)
(* acl      length of options->pattern->notify                             *)
(* soa      serial of current_soa                                          *)
(* current  notify_current: 0 is NULL, i the i-th of the list              *)
(* retry    notify_retry                                                   *)
(* enable   the zones with notify_send_enable set                          *)
(* fd       the zones whose handler has an open socket                     *)
(* waiting  the list from notify_waiting_first to notify_waiting_last;     *)
(*          is_waiting is set exactly for the zones on it                  *)
(* num      notify_udp_num                                                 *)
(* tried    (history) the secondaries tried in this round                  *)
(***************************************************************************)

First(s, z) == IF s.acl[z] > 0 THEN 1 ELSE 0

IsWaiting(s, z) == \E i \in DOMAIN s.waiting : s.waiting[i] = z

Init ==
  \E a \in [Zone -> AclLen] :
    xfrd = [zones   |-> Zone,
            acl     |-> a,
            soa     |-> [z \in Zone |-> 0],
            current |-> [z \in Zone |-> 0],
            retry   |-> [z \in Zone |-> 0],
            enable  |-> {},
            fd      |-> {},
            waiting |-> <<>>,
            num     |-> 0,
            tried   |-> [z \in Zone |-> 1..a[z]]]

-----------------------------------------------------------------------------
(* The functions the handlers call.                                        *)

\* setup_notify_active: start at the first secondary, with a timer of zero.
SetupNotifyActive(s, z) ==
  [s EXCEPT !.retry[z] = 0, !.current[z] = First(s, z),
            !.enable = @ \cup {z}, !.fd = @ \ {z}]

\* The linked list without its i-th element.
Unlink(q, i) == [j \in 1..(Len(q) - 1) |-> IF j < i THEN q[j] ELSE q[j + 1]]

\* The waiting list without z, if it is on it.
OffWaitingList(s, z) ==
  IF IsWaiting(s, z)
    THEN Unlink(s.waiting, CHOOSE i \in DOMAIN s.waiting : s.waiting[i] = z)
    ELSE s.waiting

\* The zones in line that still want to send.
Needy(s) == {i \in DOMAIN s.waiting : s.current[s.waiting[i]] # 0}

FirstNeedy(s) == CHOOSE i \in Needy(s) : \A j \in Needy(s) : i <= j

\* Mutant of NotifyDisable: the count stays when nobody needs the slot.
NotifyDisableNoCount(s, z) ==
  LET r == [s EXCEPT !.current[z] = 0, !.enable = @ \ {z}, !.fd = @ \ {z}]
      k == FirstNeedy(r)
  IN  IF r.num = MaxUdpNotify /\ Needy(r) # {}
        THEN SetupNotifyActive(
               [r EXCEPT !.waiting = SubSeq(r.waiting, k + 1, Len(r.waiting))],
               r.waiting[k])
        ELSE r

\* notify_disable: close the socket; give the slot to the first needy zone.
NotifyDisable(s, z) ==
  LET r == [s EXCEPT !.current[z] = 0, !.enable = @ \ {z}, !.fd = @ \ {z}]
      k == FirstNeedy(r)
  IN  IF r.num = MaxUdpNotify /\ Needy(r) # {}
        THEN SetupNotifyActive(
               [r EXCEPT !.waiting = SubSeq(r.waiting, k + 1, Len(r.waiting))],
               r.waiting[k])
        ELSE [r EXCEPT !.num = r.num - 1,
                       !.waiting = IF r.num = MaxUdpNotify THEN <<>> ELSE @]

\* Mutant of NotifyEnable: is_waiting is not looked at.
NotifyEnableAgain(s, z, serial) ==
  LET r == [s EXCEPT !.soa[z] = serial, !.tried[z] = {}]
  IN  IF s.acl[z] = 0 THEN s
      ELSE IF s.num < MaxUdpNotify
             THEN [SetupNotifyActive(r, z) EXCEPT !.num = s.num + 1]
             ELSE [r EXCEPT !.current[z] = First(s, z),
                            !.waiting = Append(s.waiting, z)]

\* Mutant of NotifyEnable: the zone goes to the front of the line.
NotifyEnableFront(s, z, serial) ==
  LET r == [s EXCEPT !.soa[z] = serial, !.tried[z] = {}]
  IN  IF s.acl[z] = 0 THEN s
      ELSE IF IsWaiting(s, z) THEN r
      ELSE IF s.num < MaxUdpNotify
             THEN [SetupNotifyActive(r, z) EXCEPT !.num = s.num + 1]
             ELSE [r EXCEPT !.current[z] = First(s, z),
                            !.waiting = <<z>> \o s.waiting]

\* notify_enable: note the SOA, then start sending or get in line.
NotifyEnable(s, z, serial) ==
  LET r == [s EXCEPT !.soa[z] = serial, !.tried[z] = {}]
  IN  IF s.acl[z] = 0 THEN s
      ELSE IF IsWaiting(s, z) THEN r
      ELSE IF s.num < MaxUdpNotify
             THEN [SetupNotifyActive(r, z) EXCEPT !.num = s.num + 1]
             ELSE [r EXCEPT !.current[z] = First(s, z),
                            !.waiting = Append(s.waiting, z)]

\* Mutant of NotifyNext: notify_retry is not reset.
NotifyNextNoReset(s, z) ==
  LET r == [s EXCEPT
              !.current[z] = IF s.current[z] < s.acl[z] THEN s.current[z] + 1 ELSE 0]
  IN  IF r.current[z] = 0 THEN NotifyDisable(r, z) ELSE r

\* xfrd_notify_next: the next secondary, or the end of the round.
NotifyNext(s, z) ==
  LET r == [s EXCEPT !.retry[z] = 0,
              !.current[z] = IF s.current[z] < s.acl[z] THEN s.current[z] + 1 ELSE 0]
  IN  IF r.current[z] = 0 THEN NotifyDisable(r, z) ELSE r

\* xfrd_notify_send_udp: a new socket, or only the timer if it failed.
NotifySendUdp(s, z, sent) ==
  [s EXCEPT !.enable = @ \cup {z},
            !.fd = IF sent THEN @ \cup {z} ELSE @ \ {z},
            !.tried[z] = @ \cup {s.current[z]}]

\* Mutant of CountTry: notify_retry is compared, but never advanced.
CountTryNoAdvance(s, z) ==
  IF s.current[z] = 0 THEN s
  ELSE IF s.retry[z] > NotifyRetry THEN NotifyNext(s, z) ELSE s

\* The part of xfrd_handle_notify_send that counts the tries.
CountTry(s, z) ==
  LET r == [s EXCEPT !.retry[z] = (s.retry[z] + 1) % RetryMod]
  IN  IF s.current[z] = 0 THEN s
      ELSE IF r.retry[z] > NotifyRetry THEN NotifyNext(r, z) ELSE r

\* The end of xfrd_handle_notify_send: try again.
SendAgain(s, z, sent) ==
  IF s.current[z] # 0 THEN NotifySendUdp(s, z, sent) ELSE s

\* xfrd_del_notify: off the waiting list, stop the round, free the struct.
DelNotifyZone(s, z) ==
  LET r == [s EXCEPT !.zones = @ \ {z},
                     !.waiting = OffWaitingList(s, z)]
      t == IF z \in r.enable THEN NotifyDisable(r, z) ELSE r
  IN  [t EXCEPT !.soa[z] = 0, !.current[z] = 0, !.retry[z] = 0]

\* xfrd_notify_start: only if no round is going on and none is waiting.
NotifyStartZone(s, z, serial) ==
  IF IsWaiting(s, z) \/ z \in s.enable THEN s ELSE NotifyEnable(s, z, serial)

\* The zone is in the notify_zones tree.
Configured(z) == z \in xfrd.zones

-----------------------------------------------------------------------------
(* The handlers.                                                           *)

\* init_notify_send: a zone is added to the configuration.
InitNotifySend(z) ==
  /\ ~Configured(z)
  /\ \E len \in AclLen :
       xfrd' = [xfrd EXCEPT !.zones = @ \cup {z}, !.acl[z] = len,
                            !.tried[z] = 1..len]

\* xfrd_del_notify on a zone of the tree.
DelNotify(z) ==
  /\ Configured(z)
  /\ xfrd' = DelNotifyZone(xfrd, z)

\* xfrd_handle_notify_send on EV_READ: the reply settles this secondary
\* (RCODE_OK, or RCODE_IMPL "consider retries done").
HandleNotifyAck(z) ==
  /\ z \in xfrd.enable /\ z \in xfrd.fd
  /\ ~IsWaiting(xfrd, z)
  /\ \E sent \in BOOLEAN :
       xfrd' = SendAgain(CountTry(NotifyNext(xfrd, z), z), z, sent)

\* The same on EV_TIMEOUT, or on a reply that is not accepted.
HandleNotifyTimeout(z) ==
  /\ z \in xfrd.enable
  /\ ~IsWaiting(xfrd, z)
  /\ \E sent \in BOOLEAN :
       xfrd' = SendAgain(CountTry(xfrd, z), z, sent)

\* do_notify: the notify command of nsd-control.
NotifyStart(z) ==
  /\ Configured(z)
  /\ \E serial \in Serial : xfrd' = NotifyStartZone(xfrd, z, serial)

\* notify_disable if a round is going on, then notify_enable.
Restart(z, serial) ==
  xfrd' = NotifyEnable(IF z \in xfrd.enable THEN NotifyDisable(xfrd, z) ELSE xfrd,
                       z, serial)

\* xfrd_send_notify: a slave zone was updated.
SendNotify(z) ==
  /\ Configured(z)
  /\ \E serial \in Serial : Restart(z, serial)

\* notify_handle_master_zone_soainfo: the SOA of a master zone after a reload.
HandleMasterZoneSoainfo(z) ==
  /\ Configured(z)
  /\ \E serial \in Serial \ {xfrd.soa[z]} : Restart(z, serial)

Next ==
  \E z \in Zone :
    \/ InitNotifySend(z)
    \/ DelNotify(z)
    \/ HandleNotifyAck(z)
    \/ HandleNotifyTimeout(z)
    \/ NotifyStart(z)
    \/ SendNotify(z)
    \/ HandleMasterZoneSoainfo(z)

Spec == Init /\ [][Next]_xfrd

\* The event loop runs a handler whose timer expired, sooner or later.
Fairness == \A z \in Zone : WF_xfrd(HandleNotifyTimeout(z))

FairSpec == Spec /\ Fairness

-----------------------------------------------------------------------------
(* Properties.                                                             *)

\* The values the fields of the structs can have.
State ==
  [zones   : SUBSET Zone,
   acl     : [Zone -> AclLen],
   soa     : [Zone -> Serial],
   current : [Zone -> Nat],
   retry   : [Zone -> 0..(RetryMod - 1)],
   enable  : SUBSET Zone,
   fd      : SUBSET Zone,
   waiting : Seq(Zone),
   num     : Nat,
   tried   : [Zone -> SUBSET Nat]]

\* Every field of the structs has its type: notify_udp_num, a counter that
\* every way a round ends decrements, never underflows.
TypeOK == xfrd \in State

\* notify_udp_num is the number of zones with a round going on, and stays
\* within XFRD_MAX_UDP_NOTIFY, through every way a round starts, restarts,
\* ends, or hands its slot over (xfrd-notify.c:57-79, 308-323).
SlotsCounted ==
  /\ xfrd.num = Cardinality(xfrd.enable)
  /\ xfrd.num <= MaxUdpNotify

\* The waiting list holds no zone twice, no zone that is sending, none that
\* was deleted, and none that has nobody to send to; and no zone waits while
\* a slot is free (the linked list of xfrd-notify.c:113-125, 313-323).
WaitingListSound ==
  /\ \A i, j \in DOMAIN xfrd.waiting :
       xfrd.waiting[i] = xfrd.waiting[j] => i = j
  /\ \A i \in DOMAIN xfrd.waiting :
       LET z == xfrd.waiting[i]
       IN  z \in xfrd.zones \ xfrd.enable /\ xfrd.current[z] # 0
  /\ xfrd.waiting # <<>> => xfrd.num = MaxUdpNotify

\* A zone whose handler can run has a secondary to send to: the assert of
\* xfrd_handle_notify_send (xfrd-notify.c:241); a deleted zone has no handler.
ActiveHasTarget ==
  /\ xfrd.fd \subseteq xfrd.enable /\ xfrd.enable \subseteq xfrd.zones
  /\ \A z \in xfrd.enable : xfrd.current[z] \in 1..xfrd.acl[z]

\* A round that ended has tried every secondary of the list with the SOA the
\* round was started for, however timeouts, replies, failing sends and
\* restarts were ordered (xfrd-notify.c:170-183, 260-272).
RoundComplete ==
  \A z \in xfrd.zones \ xfrd.enable :
    ~IsWaiting(xfrd, z) => xfrd.tried[z] = 1..xfrd.acl[z]

\* The pool of sockets, as SlotPool promises it.
Pool == INSTANCE SlotPool WITH
          Client <- Zone, Slots <- MaxUdpNotify,
          holders <- xfrd.enable, queue <- xfrd.waiting

\* Slots and line follow SlotPool: no slot is lost, handed to a zone out of
\* turn, or taken past those in line.
PoolBehaviour == Pool!PoolSpec

\* A zone in line gets its turn (or is deleted): slots are given back because
\* a round is a bounded number of timeouts.
WaitingServed ==
  \A z \in Zone : IsWaiting(xfrd, z) ~> ~IsWaiting(xfrd, z)
=============================================================================
