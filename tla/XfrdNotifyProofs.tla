-------------------------- MODULE XfrdNotifyProofs --------------------------
(***************************************************************************)
(* Proofs about the NOTIFY sender, for any number of zones, slots, retries *)
(* and secondaries.  The handlers are operators from states to states, so  *)
(* the invariant is one too, and every operator has its lemma.             *)
(***************************************************************************)
EXTENDS XfrdNotify, FiniteSetTheorems, SequenceTheorems, TLAPS

\* The waiting list of s: no zone twice, nobody on it who is sending, gone or
\* without secondaries, and nobody on it while a slot is free.
LineSound(s) ==
  /\ \A i, j \in 1..Len(s.waiting) : s.waiting[i] = s.waiting[j] => i = j
  /\ \A i \in 1..Len(s.waiting) :
       /\ s.waiting[i] \in s.zones
       /\ s.waiting[i] \notin s.enable
       /\ s.current[s.waiting[i]] # 0
       /\ s.acl[s.waiting[i]] > 0
  /\ Len(s.waiting) > 0 => s.num = MaxUdpNotify

\* The slots of s: they are counted, and no idle zone has a socket.
SlotsSound(s) ==
  /\ s.num = Cardinality(s.enable)
  /\ s.num <= MaxUdpNotify
  /\ s.fd \subseteq s.enable

\* The round of z in s: it has a secondary, and the zone is configured.
RoundSound(s, z) == s.current[z] \in 1..s.acl[z] /\ z \in s.zones

Sound(s) ==
  /\ s \in State
  /\ LineSound(s)
  /\ SlotsSound(s)
  /\ \A z \in s.enable : RoundSound(s, z)

\* A state in which z is in the middle of a handler that ends its round.
SoundBut(s, z) ==
  /\ s \in State
  /\ LineSound(s)
  /\ SlotsSound(s)
  /\ \A y \in s.enable \ {z} : RoundSound(s, y)

-----------------------------------------------------------------------------
(* The operators.                                                          *)

\* Any set of zones is finite: its cardinality counts one element at a time.
LEMMA CountZones ==
  ASSUME NEW A \in SUBSET Zone, NEW z
  PROVE  /\ Cardinality(A) \in Nat
         /\ z \in A => Cardinality(A \ {z}) = Cardinality(A) - 1
         /\ z \notin A => Cardinality(A \cup {z}) = Cardinality(A) + 1
<1>1. IsFiniteSet(A)
  BY ZoneAssumption, FS_Subset
<1> QED
  BY <1>1, FS_CardinalityType, FS_AddElement, FS_RemoveElement

\* What a state says of the fields that the invariant is about.
LEMMA Fields ==
  ASSUME NEW s \in State
  PROVE  /\ s.zones \in SUBSET Zone
         /\ s.acl \in [Zone -> Nat]
         /\ s.current \in [Zone -> Nat]
         /\ s.enable \in SUBSET Zone
         /\ s.fd \in SUBSET Zone
         /\ s.num \in Nat
         /\ s.waiting \in Seq(Zone)
         /\ Len(s.waiting) \in Nat
         /\ DOMAIN s.waiting = 1..Len(s.waiting)
         /\ \A i \in 1..Len(s.waiting) : s.waiting[i] \in Zone
<1>1. s.waiting \in Seq(Zone)
  BY DEF State
<1>2. /\ Len(s.waiting) \in Nat
      /\ DOMAIN s.waiting = 1..Len(s.waiting)
      /\ \A i \in 1..Len(s.waiting) : s.waiting[i] \in Zone
  BY <1>1
<1> QED
  BY <1>1, <1>2, AclAssumption DEF State

\* setup_notify_active for a zone with secondaries: what it changes.
LEMMA SetupFields ==
  ASSUME NEW s \in State, NEW z \in Zone, s.acl[z] > 0
  PROVE  LET t == SetupNotifyActive(s, z)
         IN  /\ t \in State
             /\ t.waiting = s.waiting /\ t.num = s.num
             /\ t.zones = s.zones /\ t.acl = s.acl
             /\ t.enable = s.enable \cup {z}
             /\ t.current = [s.current EXCEPT ![z] = 1]
             /\ t.fd = s.fd \ {z}
             /\ t.tried = s.tried
             /\ t.retry = [s.retry EXCEPT ![z] = 0]
<1>1. First(s, z) = 1 /\ 0 \in 0..(RetryMod - 1)
  BY RetryAssumption DEF First
<1> DEFINE u == [s EXCEPT !.retry[z] = 0]
           v == [u EXCEPT !.current[z] = 1]
<1>2. /\ u \in State
      /\ u.waiting = s.waiting /\ u.num = s.num
      /\ u.zones = s.zones /\ u.acl = s.acl
      /\ u.enable = s.enable /\ u.current = s.current /\ u.fd = s.fd
      /\ u.tried = s.tried
      /\ u.retry = [s.retry EXCEPT ![z] = 0]
  BY <1>1 DEF State
<1>3. SetupNotifyActive(s, z) = [v EXCEPT !.enable = @ \cup {z}, !.fd = @ \ {z}]
  BY <1>1 DEF SetupNotifyActive, State
<1> HIDE DEF u
<1>4. /\ v \in State
      /\ v.waiting = s.waiting /\ v.num = s.num
      /\ v.zones = s.zones /\ v.acl = s.acl
      /\ v.enable = s.enable /\ v.fd = s.fd
      /\ v.current = [s.current EXCEPT ![z] = 1]
      /\ v.tried = s.tried
      /\ v.retry = [s.retry EXCEPT ![z] = 0]
  BY <1>2 DEF State
<1> HIDE DEF v
<1> DEFINE en == v.enable \cup {z}
           f == v.fd \ {z}
           t == [v EXCEPT !.enable = en, !.fd = f]
<1>5. en \in SUBSET Zone /\ f \in SUBSET Zone
  BY <1>4 DEF State
<1>6. t = SetupNotifyActive(s, z)
  BY <1>3, <1>4 DEF State
<1>7. en = s.enable \cup {z} /\ f = s.fd \ {z}
  BY <1>4
<1> HIDE DEF en, f
<1>8. /\ t \in State
      /\ t.waiting = v.waiting /\ t.num = v.num
      /\ t.zones = v.zones /\ t.acl = v.acl
      /\ t.enable = en /\ t.fd = f
      /\ t.current = v.current /\ t.tried = v.tried /\ t.retry = v.retry
  BY <1>4, <1>5 DEF State
<1> HIDE DEF t
<1> QED
  BY <1>4, <1>6, <1>7, <1>8

\* From s to t, z gave up its slot, and it stays free or goes to the first in
\* line.
Freed(s, t, z) ==
  /\ t.waiting = <<>> /\ s.waiting = <<>> /\ t.num = s.num - 1
  /\ t.enable = s.enable \ {z}
  /\ t.current = [s.current EXCEPT ![z] = 0]
  /\ t.fd = s.fd \ {z}
  /\ t.retry = s.retry

HandedOver(s, t, z) ==
  LET w == s.waiting[1]
  IN  /\ t.waiting = SubSeq(s.waiting, 2, Len(s.waiting))
      /\ t.num = s.num /\ s.num = MaxUdpNotify
      /\ t.enable = (s.enable \ {z}) \cup {w}
      /\ t.current = [s.current EXCEPT ![z] = 0, ![w] = 1]
      /\ t.fd = (s.fd \ {z}) \ {w}
      /\ t.retry = [s.retry EXCEPT ![w] = 0]

\* notify_disable in a state that is sound but for the round that it ends.
LEMMA DisableFields ==
  ASSUME NEW s, NEW z \in Zone, SoundBut(s, z), z \in s.enable
  PROVE  LET t == NotifyDisable(s, z)
         IN  /\ t \in State
             /\ t.zones = s.zones /\ t.acl = s.acl /\ t.tried = s.tried
             /\ Len(s.waiting) = 0 => Freed(s, t, z)
             /\ Len(s.waiting) > 0 => HandedOver(s, t, z)
<1> DEFINE r == [s EXCEPT !.current[z] = 0, !.enable = @ \ {z}, !.fd = @ \ {z}]
           t == NotifyDisable(s, z)
           w == s.waiting[1]
           q == SubSeq(s.waiting, 2, Len(s.waiting))
<1>1. /\ s \in State /\ r \in State
      /\ r.waiting = s.waiting /\ r.num = s.num
      /\ r.zones = s.zones /\ r.acl = s.acl
      /\ r.enable = s.enable \ {z}
      /\ r.current = [s.current EXCEPT ![z] = 0]
      /\ r.fd = s.fd \ {z}
      /\ r.tried = s.tried /\ r.retry = s.retry
  BY DEF SoundBut, State
<1>2. t = IF r.num = MaxUdpNotify /\ Needy(r) # {}
          THEN SetupNotifyActive(
                 [r EXCEPT !.waiting = SubSeq(r.waiting, FirstNeedy(r) + 1,
                                              Len(r.waiting))],
                 r.waiting[FirstNeedy(r)])
          ELSE [r EXCEPT !.num = r.num - 1,
                         !.waiting = IF r.num = MaxUdpNotify THEN <<>> ELSE @]
  BY DEF NotifyDisable
<1> HIDE DEF r, t
<1>3. /\ s.enable \in SUBSET Zone /\ s.current \in [Zone -> Nat]
      /\ s.num \in Nat /\ MaxUdpNotify \in Nat
      /\ s.waiting \in Seq(Zone) /\ Len(s.waiting) \in Nat
      /\ DOMAIN s.waiting = 1..Len(s.waiting)
      /\ \A i \in 1..Len(s.waiting) : s.waiting[i] \in Zone
  BY <1>1, Fields, SlotAssumption
<1>4. LineSound(s) /\ SlotsSound(s)
  BY DEF SoundBut
<1>5. s.num - 1 \in Nat
  <2>1. Cardinality(s.enable \ {z}) = Cardinality(s.enable) - 1 /\ Cardinality(s.enable \ {z}) \in Nat
    BY <1>3, CountZones
  <2> QED
    BY <1>4, <2>1 DEF SlotsSound
<1>6. \A i \in 1..Len(s.waiting) : s.waiting[i] # z
  BY <1>4 DEF LineSound
<1>7. Needy(r) = 1..Len(s.waiting)
  BY <1>1, <1>3, <1>4, <1>6 DEF LineSound, Needy
<1>8. CASE Len(s.waiting) = 0
  <2>1. s.waiting = <<>> /\ <<>> \in Seq(Zone)
    BY <1>8, <1>3, EmptySeq
  <2>2. t = [r EXCEPT !.num = s.num - 1, !.waiting = <<>>]
    BY <1>1, <1>2, <1>7, <1>8, <2>1
  <2>3. /\ t \in State /\ t.waiting = <<>> /\ t.num = s.num - 1
        /\ t.zones = s.zones /\ t.acl = s.acl /\ t.tried = s.tried
        /\ t.enable = s.enable \ {z} /\ t.retry = s.retry
        /\ t.current = [s.current EXCEPT ![z] = 0]
        /\ t.fd = s.fd \ {z}
    BY <2>1, <2>2, <1>1, <1>5 DEF State
  <2>4. Freed(s, t, z)
    BY <2>1, <2>3 DEF Freed
  <2> QED
    BY <2>3, <2>4, <1>8 DEF t
<1>9. CASE Len(s.waiting) > 0
  <2>1. s.num = MaxUdpNotify
    BY <1>4, <1>9 DEF LineSound
  <2>2. 1 \in Needy(r) /\ \A j \in Needy(r) : 1 <= j
    BY <1>3, <1>7, <1>9
  <2>3. FirstNeedy(r) = 1
    <3>1. FirstNeedy(r) \in Needy(r) /\ \A j \in Needy(r) : FirstNeedy(r) <= j
      BY <2>2 DEF FirstNeedy
    <3>2. FirstNeedy(r) \in 1..Len(s.waiting) /\ FirstNeedy(r) <= 1
      BY <3>1, <2>2, <1>7
    <3> QED
      BY <3>2, <1>3
  <2>4. t = SetupNotifyActive([r EXCEPT !.waiting = q], w)
    BY <1>1, <1>2, <2>1, <2>2, <2>3
  <2>5. q \in Seq(Zone) /\ w \in Zone /\ s.acl[w] > 0
    BY <1>3, <1>4, <1>9, SubSeqProperties DEF LineSound
  <2> HIDE DEF q, w
  <2> DEFINE v == [r EXCEPT !.waiting = q]
  <2>6. /\ v \in State /\ v.waiting = q /\ v.num = s.num
        /\ v.zones = s.zones /\ v.acl = s.acl /\ v.tried = s.tried
        /\ v.enable = s.enable \ {z} /\ v.retry = s.retry
        /\ v.current = [s.current EXCEPT ![z] = 0]
        /\ v.fd = s.fd \ {z}
    BY <1>1, <2>5 DEF State
  <2>7. t = SetupNotifyActive(v, w)
    BY <2>4
  <2> HIDE DEF v
  <2>8. /\ t \in State /\ t.waiting = v.waiting /\ t.num = v.num
        /\ t.zones = v.zones /\ t.acl = v.acl /\ t.tried = v.tried
        /\ t.enable = v.enable \cup {w}
        /\ t.current = [v.current EXCEPT ![w] = 1]
        /\ t.fd = v.fd \ {w}
        /\ t.retry = [v.retry EXCEPT ![w] = 0]
    BY <2>5, <2>6, <2>7, SetupFields
  <2>9. HandedOver(s, t, z)
    BY <2>1, <2>6, <2>8 DEF HandedOver, q, w
  <2> QED
    BY <2>6, <2>8, <2>9, <1>9 DEF t
<1> QED
  BY <1>3, <1>8, <1>9

\* notify_disable keeps the state sound; the zone has no round afterwards
\* and, as it was sending, is not in line either.
LEMMA DisableSound ==
  ASSUME NEW s, NEW z \in Zone, SoundBut(s, z), z \in s.enable
  PROVE  /\ Sound(NotifyDisable(s, z))
         /\ z \notin NotifyDisable(s, z).enable
         /\ NotifyDisable(s, z).current[z] = 0
         /\ NotifyDisable(s, z).zones = s.zones
         /\ NotifyDisable(s, z).acl = s.acl
<1> DEFINE t == NotifyDisable(s, z)
<1>1. s \in State
  BY DEF SoundBut
<1>3. /\ s.enable \in SUBSET Zone /\ s.fd \in SUBSET Zone
      /\ s.current \in [Zone -> Nat] /\ s.acl \in [Zone -> Nat]
      /\ s.num \in Nat /\ MaxUdpNotify \in Nat
      /\ s.waiting \in Seq(Zone) /\ Len(s.waiting) \in Nat
      /\ DOMAIN s.waiting = 1..Len(s.waiting)
      /\ \A i \in 1..Len(s.waiting) : s.waiting[i] \in Zone
  BY <1>1, Fields, SlotAssumption
<1>4. LineSound(s) /\ SlotsSound(s) /\ \A y \in s.enable \ {z} : RoundSound(s, y)
  BY DEF SoundBut
<1>5. Cardinality(s.enable \ {z}) = s.num - 1 /\ s.num - 1 \in Nat
  <2>1. /\ Cardinality(s.enable \ {z}) = Cardinality(s.enable) - 1
        /\ Cardinality(s.enable \ {z}) \in Nat
    BY <1>3, CountZones
  <2> QED
    BY <1>4, <2>1 DEF SlotsSound
<1>6. \A i \in 1..Len(s.waiting) : s.waiting[i] # z
  BY <1>4 DEF LineSound
<1>8. CASE Len(s.waiting) = 0
  <2>4. /\ t \in State /\ t.waiting = <<>> /\ t.num = s.num - 1
        /\ t.zones = s.zones /\ t.acl = s.acl
        /\ t.enable = s.enable \ {z}
        /\ t.current = [s.current EXCEPT ![z] = 0]
        /\ t.fd = s.fd \ {z}
    BY <1>8, DisableFields DEF Freed
  <2> HIDE DEF t
  <2>5. LineSound(t)
    BY <2>4 DEF LineSound
  <2>6. SlotsSound(t)
    BY <2>4, <1>3, <1>4, <1>5 DEF SlotsSound
  <2>7. \A y \in t.enable : RoundSound(t, y)
    BY <2>4, <1>3, <1>4 DEF RoundSound
  <2> QED
    BY <2>4, <2>5, <2>6, <2>7, <1>3 DEF t, Sound
<1>9. CASE Len(s.waiting) > 0
  <2> DEFINE w == s.waiting[1]
             q == SubSeq(s.waiting, 2, Len(s.waiting))
  <2>4. /\ q \in Seq(Zone) /\ Len(q) = Len(s.waiting) - 1
        /\ \A i \in 1..Len(q) : q[i] = s.waiting[i + 1]
    BY <1>3, <1>9, SubSeqProperties
  <2>5. /\ w \in Zone /\ w # z
        /\ s.acl[w] > 0 /\ w \notin s.enable /\ w \in s.zones
        /\ \A i \in 1..Len(q) : q[i] # w
    BY <1>3, <1>4, <1>6, <1>9, <2>4 DEF LineSound
  <2>6. /\ t \in State /\ t.waiting = q /\ t.num = s.num
        /\ t.zones = s.zones /\ t.acl = s.acl
        /\ t.enable = (s.enable \ {z}) \cup {w}
        /\ t.current = [s.current EXCEPT ![z] = 0, ![w] = 1]
        /\ t.fd = (s.fd \ {z}) \ {w}
    BY <1>9, DisableFields DEF HandedOver
  <2> HIDE DEF q, w, t
  <2>7. LineSound(t)
    <3>1. \A i \in 1..Len(q) : i + 1 \in 1..Len(s.waiting)
      BY <1>3, <1>9, <2>4
    <3>2. \A i, j \in 1..Len(q) : q[i] = q[j] => i = j
      <4> SUFFICES ASSUME NEW i \in 1..Len(q), NEW j \in 1..Len(q), q[i] = q[j]
                   PROVE  i = j
        OBVIOUS
      <4>1. s.waiting[i + 1] = s.waiting[j + 1]
        BY <2>4
      <4>2. i + 1 = j + 1
        BY <4>1, <3>1, <1>4 DEF LineSound
      <4> QED
        BY <4>2
    <3>3. \A i \in 1..Len(q) :
            /\ q[i] \in Zone /\ q[i] # z /\ q[i] # w
            /\ q[i] \in s.zones /\ q[i] \notin s.enable
            /\ s.current[q[i]] # 0 /\ s.acl[q[i]] > 0
      <4> SUFFICES ASSUME NEW i \in 1..Len(q)
                   PROVE  /\ q[i] \in Zone /\ q[i] # z /\ q[i] # w
                          /\ q[i] \in s.zones /\ q[i] \notin s.enable
                          /\ s.current[q[i]] # 0 /\ s.acl[q[i]] > 0
        OBVIOUS
      <4>1. i + 1 \in 1..Len(s.waiting) /\ q[i] = s.waiting[i + 1]
        BY <3>1, <2>4
      <4> QED
        BY <4>1, <2>5, <1>3, <1>4, <1>6 DEF LineSound
    <3>4. \A i \in 1..Len(q) : t.current[q[i]] = s.current[q[i]]
      <4> SUFFICES ASSUME NEW i \in 1..Len(q)
                   PROVE  t.current[q[i]] = s.current[q[i]]
        OBVIOUS
      <4>1. q[i] \in Zone /\ q[i] # z /\ q[i] # w
        BY <3>3
      <4> QED
        BY <4>1, <2>6, <1>3
    <3>5. s.num = MaxUdpNotify
      BY <1>4, <1>9 DEF LineSound
    <3> QED
      BY <3>2, <3>3, <3>4, <3>5, <2>6 DEF LineSound
  <2>8. SlotsSound(t)
    <3>1. /\ s.enable \ {z} \in SUBSET Zone /\ w \notin s.enable \ {z}
      BY <1>3, <2>5
    <3>2. Cardinality((s.enable \ {z}) \cup {w}) = Cardinality(s.enable \ {z}) + 1
      BY <3>1, CountZones
    <3> QED
      BY <3>2, <2>5, <2>6, <1>3, <1>4, <1>5 DEF SlotsSound
  <2>9. \A y \in t.enable : RoundSound(t, y)
    BY <2>5, <2>6, <1>3, <1>4 DEF RoundSound
  <2> QED
    BY <2>5, <2>6, <2>7, <2>8, <2>9, <1>3 DEF t, Sound
<1> QED
  BY <1>8, <1>9 DEF t

\* A state that differs from a sound one in the SOAs, the retry counters and
\* the history only, or in the sockets of zones that send, is sound.
LEMMA SoundAlike ==
  ASSUME NEW s, Sound(s), NEW t \in State,
         t.waiting = s.waiting, t.num = s.num, t.zones = s.zones,
         t.acl = s.acl, t.enable = s.enable, t.current = s.current,
         t.fd \subseteq t.enable
  PROVE  Sound(t)
<1>1. LineSound(t)
  BY DEF Sound, LineSound
<1>2. SlotsSound(t)
  BY DEF Sound, SlotsSound
<1>3. \A z \in t.enable : RoundSound(t, z)
  BY DEF Sound, RoundSound
<1> QED
  BY <1>1, <1>2, <1>3 DEF Sound

\* From s to t, a round of z was asked for: z waits already, takes a free slot,
\* or gets in line.
Renewed(s, t, z) ==
  /\ t.waiting = s.waiting /\ t.num = s.num
  /\ t.enable = s.enable /\ t.fd = s.fd
  /\ t.current = s.current /\ t.retry = s.retry
  /\ t.tried = [s.tried EXCEPT ![z] = {}]

Started(s, t, z) ==
  /\ t.waiting = s.waiting /\ t.num = s.num + 1
  /\ t.enable = s.enable \cup {z} /\ t.fd = s.fd \ {z}
  /\ t.current = [s.current EXCEPT ![z] = 1]
  /\ t.retry = [s.retry EXCEPT ![z] = 0]
  /\ t.tried = [s.tried EXCEPT ![z] = {}]

GotInLine(s, t, z) ==
  /\ t.waiting = Append(s.waiting, z) /\ t.num = s.num
  /\ t.enable = s.enable /\ t.fd = s.fd
  /\ t.current = [s.current EXCEPT ![z] = 1] /\ t.retry = s.retry
  /\ t.tried = [s.tried EXCEPT ![z] = {}]

\* notify_enable of a zone with secondaries does one of these.
LEMMA EnableFields ==
  ASSUME NEW s \in State, NEW z \in Zone, NEW serial \in Serial, s.acl[z] # 0
  PROVE  LET t == NotifyEnable(s, z, serial)
         IN  /\ t \in State
             /\ t.zones = s.zones /\ t.acl = s.acl
             /\ IsWaiting(s, z) => Renewed(s, t, z)
             /\ ~IsWaiting(s, z) /\ s.num < MaxUdpNotify => Started(s, t, z)
             /\ ~IsWaiting(s, z) /\ ~(s.num < MaxUdpNotify) => GotInLine(s, t, z)
<1> DEFINE r == [s EXCEPT !.soa[z] = serial, !.tried[z] = {}]
           t == NotifyEnable(s, z, serial)
<1>1. /\ r \in State
      /\ r.waiting = s.waiting /\ r.num = s.num
      /\ r.zones = s.zones /\ r.acl = s.acl
      /\ r.enable = s.enable /\ r.current = s.current /\ r.fd = s.fd
      /\ r.retry = s.retry /\ r.tried = [s.tried EXCEPT ![z] = {}]
  BY DEF State
<1>2. t = IF IsWaiting(s, z) THEN r
          ELSE IF s.num < MaxUdpNotify
                 THEN [SetupNotifyActive(r, z) EXCEPT !.num = s.num + 1]
                 ELSE [r EXCEPT !.current[z] = First(s, z),
                                !.waiting = Append(s.waiting, z)]
  BY DEF NotifyEnable
<1> HIDE DEF r, t
<1>3. /\ s.acl[z] > 0 /\ s.num \in Nat /\ s.waiting \in Seq(Zone)
      /\ s.current \in [Zone -> Nat]
  BY Fields
<1>4. CASE IsWaiting(s, z)
  BY <1>1, <1>2, <1>4 DEF t, Renewed
<1>5. CASE ~IsWaiting(s, z) /\ s.num < MaxUdpNotify
  <2> DEFINE u == SetupNotifyActive(r, z)
  <2>1. t = [u EXCEPT !.num = s.num + 1]
    BY <1>2, <1>5
  <2>2. r \in State /\ r.acl[z] > 0 /\ u = SetupNotifyActive(r, z)
    BY <1>1, <1>3
  <2> HIDE DEF u
  <2>3. /\ u \in State /\ u.waiting = r.waiting /\ u.num = r.num
        /\ u.zones = r.zones /\ u.acl = r.acl
        /\ u.enable = r.enable \cup {z}
        /\ u.current = [r.current EXCEPT ![z] = 1]
        /\ u.fd = r.fd \ {z} /\ u.tried = r.tried
        /\ u.retry = [r.retry EXCEPT ![z] = 0]
    BY <2>2, SetupFields
  <2>4. u \in State /\ s.num + 1 \in Nat
    BY <2>3, <1>3
  <2>5. /\ t \in State /\ t.waiting = u.waiting /\ t.num = s.num + 1
        /\ t.zones = u.zones /\ t.acl = u.acl /\ t.enable = u.enable
        /\ t.current = u.current /\ t.fd = u.fd
        /\ t.retry = u.retry /\ t.tried = u.tried
    BY <2>1, <2>4 DEF State
  <2>6. Started(s, t, z)
    BY <1>1, <2>3, <2>5 DEF Started
  <2> QED
    BY <1>1, <1>5, <2>3, <2>5, <2>6 DEF t
<1>6. CASE ~IsWaiting(s, z) /\ ~(s.num < MaxUdpNotify)
  <2> DEFINE q == Append(s.waiting, z)
  <2>1. First(s, z) = 1
    BY <1>3 DEF First
  <2>2. t = [r EXCEPT !.current[z] = 1, !.waiting = q]
    BY <1>2, <1>6, <2>1
  <2>3. q \in Seq(Zone)
    BY <1>3
  <2> HIDE DEF q
  <2>4. /\ t \in State /\ t.waiting = q /\ t.num = r.num
        /\ t.zones = r.zones /\ t.acl = r.acl
        /\ t.enable = r.enable /\ t.fd = r.fd
        /\ t.current = [r.current EXCEPT ![z] = 1]
        /\ t.retry = r.retry /\ t.tried = r.tried
    BY <1>1, <2>2, <2>3 DEF State
  <2>5. GotInLine(s, t, z)
    BY <1>1, <2>4 DEF GotInLine, q
  <2> QED
    BY <1>1, <1>6, <2>4, <2>5 DEF t
<1> QED
  BY <1>4, <1>5, <1>6

\* notify_enable keeps the state sound, for a zone that is not sending.
LEMMA EnableSound ==
  ASSUME NEW s, Sound(s), NEW z \in s.zones, z \notin s.enable,
         NEW serial \in Serial
  PROVE  Sound(NotifyEnable(s, z, serial))
<1> DEFINE t == NotifyEnable(s, z, serial)
<1>1. s \in State /\ z \in Zone
  BY DEF Sound, State
<1>2. s.acl[z] # 0 =>
        /\ t \in State
        /\ t.zones = s.zones /\ t.acl = s.acl
        /\ IsWaiting(s, z) => Renewed(s, t, z)
        /\ ~IsWaiting(s, z) /\ s.num < MaxUdpNotify => Started(s, t, z)
        /\ ~IsWaiting(s, z) /\ ~(s.num < MaxUdpNotify) => GotInLine(s, t, z)
  BY <1>1, EnableFields
<1>3. s.acl[z] = 0 => t = s
  BY DEF NotifyEnable
<1> HIDE DEF t
<1>4. /\ s.enable \in SUBSET Zone /\ s.fd \in SUBSET Zone
      /\ s.current \in [Zone -> Nat] /\ s.acl \in [Zone -> Nat]
      /\ s.num \in Nat /\ MaxUdpNotify \in Nat
      /\ s.waiting \in Seq(Zone) /\ Len(s.waiting) \in Nat
      /\ DOMAIN s.waiting = 1..Len(s.waiting)
      /\ \A i \in 1..Len(s.waiting) : s.waiting[i] \in Zone
  BY <1>1, Fields, SlotAssumption
<1>5. LineSound(s) /\ SlotsSound(s) /\ \A y \in s.enable : RoundSound(s, y)
  BY DEF Sound
<1>6. CASE s.acl[z] = 0
  BY <1>3, <1>6 DEF t
<1>7. CASE s.acl[z] # 0 /\ IsWaiting(s, z)
  <2>1. t \in State /\ t.zones = s.zones /\ t.acl = s.acl /\ Renewed(s, t, z)
    BY <1>2, <1>7
  <2>2. t.fd \subseteq t.enable
    BY <2>1, <1>5 DEF SlotsSound, Renewed
  <2>3. Sound(t)
    BY <2>1, <2>2, SoundAlike DEF Renewed
  <2> QED
    BY <2>3 DEF t
<1>8. CASE /\ s.acl[z] # 0 /\ ~IsWaiting(s, z)
           /\ s.num < MaxUdpNotify
  <2>5. /\ t \in State /\ t.waiting = s.waiting /\ t.num = s.num + 1
        /\ t.zones = s.zones /\ t.acl = s.acl
        /\ t.enable = s.enable \cup {z}
        /\ t.current = [s.current EXCEPT ![z] = 1]
        /\ t.fd = s.fd \ {z}
    BY <1>2, <1>8 DEF Started
  <2>6. Len(s.waiting) = 0
    BY <1>4, <1>5, <1>8 DEF LineSound
  <2>7. LineSound(t)
    BY <2>5, <2>6 DEF LineSound
  <2>8. SlotsSound(t)
    <3>1. Cardinality(s.enable \cup {z}) = Cardinality(s.enable) + 1
      BY <1>4, CountZones
    <3> QED
      BY <3>1, <2>5, <1>4, <1>5, <1>8 DEF SlotsSound
  <2>9. \A y \in t.enable : RoundSound(t, y)
    BY <2>5, <1>1, <1>4, <1>5, <1>8 DEF RoundSound
  <2> QED
    BY <2>5, <2>7, <2>8, <2>9 DEF Sound, t
<1>9. CASE /\ s.acl[z] # 0 /\ ~IsWaiting(s, z)
           /\ ~(s.num < MaxUdpNotify)
  <2> DEFINE q == Append(s.waiting, z)
  <2>3. /\ q \in Seq(Zone) /\ Len(q) = Len(s.waiting) + 1
        /\ \A i \in 1..Len(s.waiting) : q[i] = s.waiting[i]
        /\ q[Len(q)] = z
    BY <1>1, <1>4
  <2>5. /\ t \in State /\ t.waiting = q /\ t.num = s.num
        /\ t.zones = s.zones /\ t.acl = s.acl
        /\ t.enable = s.enable /\ t.fd = s.fd
        /\ t.current = [s.current EXCEPT ![z] = 1]
    BY <1>2, <1>9 DEF GotInLine
  <2> HIDE DEF q
  <2>6. \A i \in 1..Len(s.waiting) : s.waiting[i] # z
    BY <1>4, <1>9 DEF IsWaiting
  <2>7. LineSound(t)
    <3>1. \A i \in 1..Len(q) : i \in 1..Len(s.waiting) \/ i = Len(q)
      BY <1>4, <2>3
    <3>2. \A i, j \in 1..Len(q) : q[i] = q[j] => i = j
      BY <3>1, <2>3, <2>6, <1>5 DEF LineSound
    <3>3. \A i \in 1..Len(q) :
            /\ q[i] \in s.zones /\ q[i] \notin s.enable
            /\ t.current[q[i]] # 0 /\ s.acl[q[i]] > 0
      <4>1. ASSUME NEW i \in 1..Len(s.waiting)
            PROVE  /\ q[i] \in s.zones /\ q[i] \notin s.enable
                   /\ t.current[q[i]] # 0 /\ s.acl[q[i]] > 0
        <5>1. q[i] = s.waiting[i] /\ q[i] # z /\ q[i] \in Zone
          BY <2>3, <2>6, <1>4
        <5>2. t.current[q[i]] = s.current[q[i]]
          BY <5>1, <2>5, <1>4
        <5> QED
          BY <5>1, <5>2, <1>5 DEF LineSound
      <4>2. /\ z \in s.zones /\ z \notin s.enable
            /\ t.current[z] # 0 /\ s.acl[z] > 0
        BY <2>5, <1>1, <1>4, <1>9
      <4> QED
        BY <4>1, <4>2, <3>1, <2>3
    <3>4. s.num = MaxUdpNotify
      BY <1>4, <1>5, <1>9 DEF SlotsSound
    <3> QED
      BY <3>2, <3>3, <3>4, <2>5 DEF LineSound
  <2>8. SlotsSound(t)
    BY <2>5, <1>5 DEF SlotsSound
  <2>9. \A y \in t.enable : RoundSound(t, y)
    BY <2>5, <1>1, <1>4, <1>5 DEF RoundSound
  <2> QED
    BY <2>5, <2>7, <2>8, <2>9 DEF Sound, t
<1> QED
  BY <1>6, <1>7, <1>8, <1>9

\* xfrd_notify_next keeps the state sound; the zone still sends, or has no
\* secondary left.
LEMMA NextSound ==
  ASSUME NEW s, Sound(s), NEW z \in s.enable
  PROVE  /\ Sound(NotifyNext(s, z))
         /\ NotifyNext(s, z).current[z] # 0 => z \in NotifyNext(s, z).enable
<1> DEFINE c == IF s.current[z] < s.acl[z] THEN s.current[z] + 1 ELSE 0
           u == [s EXCEPT !.retry[z] = 0]
           r == [u EXCEPT !.current[z] = c]
           t == NotifyNext(s, z)
<1>1. s \in State /\ z \in Zone
  BY DEF Sound, State
<1>2. /\ s.current \in [Zone -> Nat] /\ s.acl \in [Zone -> Nat]
      /\ s.enable \in SUBSET Zone
      /\ \A i \in 1..Len(s.waiting) : s.waiting[i] \in Zone
  BY <1>1, Fields
<1>3. LineSound(s) /\ SlotsSound(s) /\ \A y \in s.enable : RoundSound(s, y)
  BY DEF Sound
<1>4. 0 \in 0..(RetryMod - 1)
  BY RetryAssumption
<1>5. c \in Nat
  BY <1>1, <1>2
<1>6. c # 0 => c \in 1..s.acl[z]
  BY <1>1, <1>2
<1>7. t = IF r.current[z] = 0 THEN NotifyDisable(r, z) ELSE r
  BY <1>1 DEF NotifyNext, State
<1> HIDE DEF c, t
<1>8. /\ u \in State
      /\ u.waiting = s.waiting /\ u.num = s.num
      /\ u.zones = s.zones /\ u.acl = s.acl
      /\ u.enable = s.enable /\ u.fd = s.fd /\ u.current = s.current
  BY <1>1, <1>4 DEF State
<1> HIDE DEF u
<1>9. /\ r \in State
      /\ r.waiting = s.waiting /\ r.num = s.num
      /\ r.zones = s.zones /\ r.acl = s.acl
      /\ r.enable = s.enable /\ r.fd = s.fd
      /\ r.current = [s.current EXCEPT ![z] = c]
  BY <1>1, <1>5, <1>8 DEF State
<1> HIDE DEF r
<1>10. LineSound(r)
  <2>1. \A i \in 1..Len(s.waiting) :
          s.waiting[i] # z /\ r.current[s.waiting[i]] = s.current[s.waiting[i]]
    BY <1>2, <1>3, <1>9 DEF LineSound
  <2> QED
    BY <2>1, <1>3, <1>9 DEF LineSound
<1>11. SlotsSound(r)
  BY <1>3, <1>9 DEF SlotsSound
<1>12. \A y \in s.enable \ {z} : RoundSound(r, y)
  BY <1>2, <1>3, <1>9 DEF RoundSound
<1>13. r.current[z] = c
  BY <1>1, <1>2, <1>9
<1>14. CASE c = 0
  <2>1. SoundBut(r, z) /\ z \in r.enable
    BY <1>9, <1>10, <1>11, <1>12 DEF SoundBut
  <2>2. t = NotifyDisable(r, z)
    BY <1>7, <1>13, <1>14
  <2> QED
    BY <2>1, <2>2, <1>1, DisableSound DEF t
<1>15. CASE c # 0
  <2>1. RoundSound(r, z)
    BY <1>3, <1>6, <1>9, <1>13, <1>15 DEF RoundSound
  <2>2. Sound(r)
    BY <2>1, <1>9, <1>10, <1>11, <1>12 DEF Sound
  <2> QED
    BY <2>2, <1>7, <1>9, <1>13, <1>15 DEF t
<1> QED
  BY <1>14, <1>15

\* Counting a try keeps the state sound.
LEMMA CountSound ==
  ASSUME NEW s, Sound(s), NEW z \in Zone, s.current[z] # 0 => z \in s.enable
  PROVE  /\ Sound(CountTry(s, z))
         /\ CountTry(s, z).current[z] # 0 => z \in CountTry(s, z).enable
<1> DEFINE n == (s.retry[z] + 1) % RetryMod
           r == [s EXCEPT !.retry[z] = n]
<1>1. s \in State
  BY DEF Sound
<1>2. n \in 0..(RetryMod - 1)
  <2>1. s.retry[z] + 1 \in Nat
    BY <1>1, RetryAssumption DEF State
  <2> QED
    BY <2>1, RetryAssumption
<1>3. CountTry(s, z) = IF s.current[z] = 0 THEN s
                       ELSE IF r.retry[z] > NotifyRetry THEN NotifyNext(r, z) ELSE r
  BY DEF CountTry
<1> HIDE DEF n
<1>4. /\ r \in State
      /\ r.waiting = s.waiting /\ r.num = s.num
      /\ r.zones = s.zones /\ r.acl = s.acl
      /\ r.enable = s.enable /\ r.fd = s.fd /\ r.current = s.current
  BY <1>1, <1>2 DEF State
<1> HIDE DEF r
<1>5. Sound(r)
  <2>1. r.fd \subseteq r.enable
    BY <1>4 DEF Sound, SlotsSound
  <2> QED
    BY <1>4, <2>1, SoundAlike
<1>6. CASE s.current[z] = 0
  BY <1>3, <1>6
<1>7. CASE s.current[z] # 0 /\ r.retry[z] > NotifyRetry
  <2>1. z \in r.enable
    BY <1>4, <1>7
  <2>2. CountTry(s, z) = NotifyNext(r, z)
    BY <1>3, <1>7
  <2> QED
    BY <2>1, <2>2, <1>5, NextSound
<1>8. CASE s.current[z] # 0 /\ ~(r.retry[z] > NotifyRetry)
  BY <1>3, <1>4, <1>5, <1>8
<1> QED
  BY <1>6, <1>7, <1>8

\* Sending again keeps the state sound.
LEMMA SendSound ==
  ASSUME NEW s, Sound(s), NEW z \in Zone, s.current[z] # 0 => z \in s.enable,
         NEW sent \in BOOLEAN
  PROVE  Sound(SendAgain(s, z, sent))
<1>1. CASE s.current[z] = 0
  BY <1>1 DEF SendAgain
<1>2. CASE s.current[z] # 0
  <2> DEFINE f == IF sent THEN s.fd \cup {z} ELSE s.fd \ {z}
             tr == [s.tried EXCEPT ![z] = @ \cup {s.current[z]}]
             t == [s EXCEPT !.enable = s.enable \cup {z}, !.fd = f, !.tried = tr]
  <2>1. s \in State /\ z \in s.enable /\ s.fd \subseteq s.enable
    BY <1>2 DEF Sound, SlotsSound
  <2>2. s.enable \cup {z} = s.enable /\ f \subseteq s.enable
    BY <2>1
  <2>3. SendAgain(s, z, sent) = t
    BY <1>2, <2>1 DEF SendAgain, NotifySendUdp, State
  <2>4. f \in SUBSET Zone /\ s.enable \cup {z} \in SUBSET Zone
    BY <2>1, <2>2 DEF State
  <2>5. tr \in [Zone -> SUBSET Nat]
    BY <2>1 DEF State
  <2> HIDE DEF f, tr
  <2>6. /\ t \in State
        /\ t.waiting = s.waiting /\ t.num = s.num
        /\ t.zones = s.zones /\ t.acl = s.acl
        /\ t.enable = s.enable \cup {z} /\ t.fd = f /\ t.current = s.current
    BY <2>1, <2>4, <2>5 DEF State
  <2> HIDE DEF t
  <2> QED
    BY <2>2, <2>3, <2>6, SoundAlike
<1> QED
  BY <1>1, <1>2

\* No element twice; and nothing but elements of q other than e.
Distinct(q) == \A j, k \in 1..Len(q) : q[j] = q[k] => j = k

FromWithout(p, q, e) ==
  \A j \in 1..Len(p) : \E k \in 1..Len(q) : p[j] = q[k] /\ q[k] # e

\* Taking the i-th element out of a list without repetitions.
LEMMA UnlinkList ==
  ASSUME NEW q \in Seq(Zone), NEW i \in 1..Len(q), Distinct(q),
         NEW p, p = Unlink(q, i)
  PROVE  /\ p \in Seq(Zone) /\ Len(p) = Len(q) - 1
         /\ Distinct(p) /\ FromWithout(p, q, q[i])
<1> DEFINE at(j) == IF j < i THEN j ELSE j + 1
<1>1. Len(q) \in Nat /\ DOMAIN q = 1..Len(q) /\ Len(q) - 1 \in Nat
  OBVIOUS
<1>2. \A j \in 1..(Len(q) - 1) : at(j) \in 1..Len(q) /\ at(j) # i
  BY <1>1
<1>3. \A j, k \in 1..(Len(q) - 1) : at(j) = at(k) => j = k
  BY <1>1
<1>4. p = [j \in 1..(Len(q) - 1) |-> q[at(j)]]
  <2>1. \A j \in 1..(Len(q) - 1) :
          (IF j < i THEN q[j] ELSE q[j + 1]) = q[at(j)]
    OBVIOUS
  <2> QED
    BY <2>1 DEF Unlink
<1> HIDE DEF at
<1>5. \A j \in 1..(Len(q) - 1) : q[at(j)] \in Zone
  BY <1>1, <1>2
<1>6. p \in Seq(Zone) /\ Len(p) = Len(q) - 1
  <2>1. p \in [1..(Len(q) - 1) -> Zone]
    BY <1>4, <1>5
  <2>2. p \in Seq(Zone)
    BY <2>1, <1>1, SeqDef
  <2>3. DOMAIN p = 1..Len(p) /\ Len(p) \in Nat /\ DOMAIN p = 1..(Len(q) - 1)
    BY <2>1, <2>2, LenProperties
  <2>4. ASSUME NEW m \in Nat, NEW n \in Nat, 1..m = 1..n  PROVE m <= n
    <3>1. CASE m = 0
      BY <3>1
    <3>2. CASE m # 0
      <4>1. m \in 1..m
        BY <3>2
      <4> QED
        BY <4>1, <2>4
    <3> QED
      BY <3>1, <3>2
  <2>5. Len(p) <= Len(q) - 1 /\ Len(q) - 1 <= Len(p)
    BY <2>3, <2>4, <1>1
  <2>6. Len(p) \in Int /\ Len(q) - 1 \in Int
    BY <2>3, <1>1
  <2> QED
    BY <2>2, <2>5, <2>6
<1>7. \A j \in 1..Len(p) : p[j] = q[at(j)]
  BY <1>4, <1>6
<1>8. ASSUME NEW j \in 1..Len(p), NEW k \in 1..Len(p), p[j] = p[k]
      PROVE  j = k
  BY <1>2, <1>3, <1>6, <1>7, <1>8 DEF Distinct
<1>9. ASSUME NEW j \in 1..Len(p)
      PROVE  \E k \in 1..Len(q) : p[j] = q[k] /\ q[k] # q[i]
  <2>1. at(j) \in 1..Len(q) /\ p[j] = q[at(j)] /\ q[at(j)] # q[i]
    BY <1>2, <1>6, <1>7 DEF Distinct
  <2> QED
    BY <2>1
<1> QED
  BY <1>6, <1>8, <1>9 DEF Distinct, FromWithout

\* Taking a zone off the waiting list.
LEMMA OffList ==
  ASSUME NEW s, Sound(s), NEW z \in Zone
  PROVE  LET p == OffWaitingList(s, z)
         IN  /\ p \in Seq(Zone) /\ Distinct(p)
             /\ FromWithout(p, s.waiting, z)
             /\ Len(p) > 0 => Len(s.waiting) > 0
<1> DEFINE i == CHOOSE j \in DOMAIN s.waiting : s.waiting[j] = z
           p == OffWaitingList(s, z)
<1>1. /\ s.waiting \in Seq(Zone) /\ Len(s.waiting) \in Nat
      /\ DOMAIN s.waiting = 1..Len(s.waiting)
  BY Fields DEF Sound
<1>2. Distinct(s.waiting)
  BY DEF Sound, LineSound, Distinct
<1>3. CASE IsWaiting(s, z)
  <2>1. i \in 1..Len(s.waiting) /\ s.waiting[i] = z
    BY <1>1, <1>3 DEF IsWaiting
  <2>2. p = Unlink(s.waiting, i)
    BY <1>3 DEF OffWaitingList
  <2> HIDE DEF i, p
  <2>3. /\ p \in Seq(Zone) /\ Len(p) = Len(s.waiting) - 1
        /\ Distinct(p) /\ FromWithout(p, s.waiting, s.waiting[i])
    BY <2>1, <2>2, <1>1, <1>2, UnlinkList
  <2>4. Len(p) > 0 => Len(s.waiting) > 0
    BY <2>3, <1>1
  <2> QED
    BY <2>1, <2>3, <2>4 DEF p
<1>4. CASE ~IsWaiting(s, z)
  <2>1. p = s.waiting
    BY <1>4 DEF OffWaitingList
  <2>2. FromWithout(s.waiting, s.waiting, z)
    BY <1>1, <1>4 DEF IsWaiting, FromWithout
  <2> HIDE DEF p
  <2> QED
    BY <2>1, <2>2, <1>1, <1>2 DEF p
<1> QED
  BY <1>3, <1>4

\* Deleting a zone keeps the state sound.
LEMMA DelSound ==
  ASSUME NEW s, Sound(s), NEW z \in Zone
  PROVE  Sound(DelNotifyZone(s, z))
<1> DEFINE p == OffWaitingList(s, z)
           r == [s EXCEPT !.zones = @ \ {z}, !.waiting = p]
           t == IF z \in r.enable THEN NotifyDisable(r, z) ELSE r
           a == [t EXCEPT !.soa[z] = 0]
           b == [a EXCEPT !.current[z] = 0]
           v == [b EXCEPT !.retry[z] = 0]
<1>1. s \in State /\ LineSound(s) /\ SlotsSound(s) /\ \A y \in s.enable : RoundSound(s, y)
  BY DEF Sound
<1>2. /\ p \in Seq(Zone) /\ Distinct(p) /\ FromWithout(p, s.waiting, z)
      /\ Len(p) > 0 => Len(s.waiting) > 0
  BY OffList
<1>3. DelNotifyZone(s, z) = [t EXCEPT !.soa[z] = 0, !.current[z] = 0, !.retry[z] = 0]
  BY DEF DelNotifyZone
<1> HIDE DEF p
<1>4. /\ r \in State
      /\ r.waiting = p /\ r.num = s.num
      /\ r.zones = s.zones \ {z} /\ r.acl = s.acl
      /\ r.enable = s.enable /\ r.fd = s.fd /\ r.current = s.current
  BY <1>1, <1>2 DEF State
<1> HIDE DEF r
<1>5. LineSound(r)
  <2>1. ASSUME NEW j \in 1..Len(p)
        PROVE  /\ p[j] \in s.zones \ {z} /\ p[j] \notin s.enable
               /\ s.current[p[j]] # 0 /\ s.acl[p[j]] > 0
    BY <1>1, <1>2 DEF LineSound, FromWithout
  <2>2. Len(p) > 0 => s.num = MaxUdpNotify
    BY <1>1, <1>2 DEF LineSound
  <2> QED
    BY <2>1, <2>2, <1>2, <1>4 DEF LineSound, Distinct
<1>6. SlotsSound(r)
  BY <1>1, <1>4 DEF SlotsSound
<1>7. \A y \in r.enable \ {z} : RoundSound(r, y)
  BY <1>1, <1>4 DEF RoundSound
<1>8. Sound(t) /\ t.zones = s.zones \ {z} /\ z \notin t.enable
  <2>1. CASE z \in r.enable
    <3>1. SoundBut(r, z)
      BY <1>4, <1>5, <1>6, <1>7 DEF SoundBut
    <3> QED
      BY <3>1, <2>1, <1>4, DisableSound
  <2>2. CASE z \notin r.enable
    BY <2>2, <1>4, <1>5, <1>6, <1>7 DEF Sound
  <2> QED
    BY <2>1, <2>2
<1> HIDE DEF t
<1>9. t \in State
  BY <1>8 DEF Sound
<1>10. DelNotifyZone(s, z) = v
  BY <1>3, <1>9 DEF State
<1>11. /\ a \in State
       /\ a.waiting = t.waiting /\ a.num = t.num /\ a.zones = t.zones
       /\ a.acl = t.acl /\ a.enable = t.enable /\ a.fd = t.fd
       /\ a.current = t.current
  BY <1>9, SerialAssumption DEF State
<1> HIDE DEF a
<1>12. /\ b \in State
       /\ b.waiting = a.waiting /\ b.num = a.num /\ b.zones = a.zones
       /\ b.acl = a.acl /\ b.enable = a.enable /\ b.fd = a.fd
       /\ b.current = [a.current EXCEPT ![z] = 0]
  BY <1>11 DEF State
<1> HIDE DEF b
<1>13. /\ v \in State
       /\ v.waiting = b.waiting /\ v.num = b.num /\ v.zones = b.zones
       /\ v.acl = b.acl /\ v.enable = b.enable /\ v.fd = b.fd
       /\ v.current = b.current
  <2>1. b \in State /\ 0 \in 0..(RetryMod - 1)
    BY <1>12, RetryAssumption
  <2> QED
    BY <2>1 DEF State
<1> HIDE DEF v
<1>14. /\ v \in State
       /\ v.waiting = t.waiting /\ v.num = t.num /\ v.zones = t.zones
       /\ v.acl = t.acl /\ v.enable = t.enable /\ v.fd = t.fd
       /\ v.current = [t.current EXCEPT ![z] = 0]
  BY <1>11, <1>12, <1>13
<1>15. /\ t.current \in [Zone -> Nat] /\ t.enable \in SUBSET Zone
       /\ \A i \in 1..Len(t.waiting) : t.waiting[i] \in Zone
  BY <1>9, Fields
<1>16. LineSound(t) /\ SlotsSound(t) /\ \A y \in t.enable : RoundSound(t, y)
  BY <1>8 DEF Sound
<1>17. LineSound(v)
  <2>1. \A i \in 1..Len(t.waiting) :
          t.waiting[i] # z /\ v.current[t.waiting[i]] = t.current[t.waiting[i]]
    BY <1>8, <1>14, <1>15, <1>16 DEF LineSound
  <2> QED
    BY <2>1, <1>14, <1>16 DEF LineSound
<1>18. SlotsSound(v)
  BY <1>14, <1>16 DEF SlotsSound
<1>19. \A y \in v.enable : RoundSound(v, y)
  BY <1>8, <1>14, <1>15, <1>16 DEF RoundSound
<1> QED
  BY <1>10, <1>14, <1>17, <1>18, <1>19 DEF Sound

-----------------------------------------------------------------------------
(* The specification.                                                      *)

\* The inductive invariant.
Inv == Sound(xfrd)

\* xfrd starts with no round, no slot in use and nobody in line.
LEMMA InitInv == Init => Inv
<1> SUFFICES ASSUME Init PROVE Inv
  OBVIOUS
<1>1. PICK a \in [Zone -> AclLen] :
        xfrd = [zones   |-> Zone,
                acl     |-> a,
                soa     |-> [z \in Zone |-> 0],
                current |-> [z \in Zone |-> 0],
                retry   |-> [z \in Zone |-> 0],
                enable  |-> {},
                fd      |-> {},
                waiting |-> <<>>,
                num     |-> 0,
                tried   |-> [z \in Zone |-> 1..a[z]]]
  BY DEF Init
<1>2. /\ [z \in Zone |-> 0] \in [Zone -> Serial]
      /\ [z \in Zone |-> 0] \in [Zone -> Nat]
      /\ [z \in Zone |-> 0] \in [Zone -> 0..(RetryMod - 1)]
      /\ [z \in Zone |-> 1..a[z]] \in [Zone -> SUBSET Nat]
      /\ <<>> \in Seq(Zone)
  BY SerialAssumption, RetryAssumption
<1>3. xfrd \in State
  BY <1>1, <1>2 DEF State
<1>4. LineSound(xfrd)
  BY <1>1 DEF LineSound
<1>5. SlotsSound(xfrd)
  BY <1>1, FS_EmptySet, SlotAssumption DEF SlotsSound
<1> QED
  BY <1>1, <1>3, <1>4, <1>5 DEF Inv, Sound

\* Adding a zone.
LEMMA InitNotifySendInv ==
  ASSUME Inv, NEW z \in Zone, InitNotifySend(z)
  PROVE  Sound(xfrd')
<1>1. PICK len \in AclLen :
        xfrd' = [xfrd EXCEPT !.zones = @ \cup {z}, !.acl[z] = len,
                             !.tried[z] = 1..len]
  BY DEF InitNotifySend
<1>2. /\ xfrd \in State /\ z \notin xfrd.zones
      /\ LineSound(xfrd) /\ SlotsSound(xfrd)
      /\ \A y \in xfrd.enable : RoundSound(xfrd, y)
  BY DEF Inv, Sound, InitNotifySend, Configured
<1> DEFINE s == xfrd
           t == xfrd'
           r == [s EXCEPT !.tried[z] = 1..len]
           u == [r EXCEPT !.acl[z] = len]
<1>3. t = [u EXCEPT !.zones = @ \cup {z}]
  BY <1>1, <1>2 DEF State
<1>4. s \in State /\ 1..len \in SUBSET Nat
  BY <1>2
<1> HIDE DEF s, t
<1>5. /\ r \in State
      /\ r.waiting = s.waiting /\ r.num = s.num /\ r.zones = s.zones
      /\ r.acl = s.acl /\ r.enable = s.enable /\ r.fd = s.fd
      /\ r.current = s.current
  BY <1>4 DEF State
<1> HIDE DEF r
<1>6. /\ u \in State
      /\ u.waiting = r.waiting /\ u.num = r.num /\ u.zones = r.zones
      /\ u.acl = [r.acl EXCEPT ![z] = len] /\ u.enable = r.enable
      /\ u.fd = r.fd /\ u.current = r.current
  BY <1>5 DEF State
<1> HIDE DEF u
<1>7. /\ t \in State
      /\ t.waiting = u.waiting /\ t.num = u.num
      /\ t.zones = u.zones \cup {z}
      /\ t.acl = u.acl /\ t.enable = u.enable
      /\ t.fd = u.fd /\ t.current = u.current
  BY <1>3, <1>6 DEF State
<1>8. /\ t.waiting = s.waiting /\ t.num = s.num
      /\ t.zones = s.zones \cup {z}
      /\ t.acl = [s.acl EXCEPT ![z] = len]
      /\ t.enable = s.enable /\ t.fd = s.fd /\ t.current = s.current
  BY <1>5, <1>6, <1>7
<1>9. /\ z \notin s.zones /\ LineSound(s) /\ SlotsSound(s)
      /\ \A y \in s.enable : RoundSound(s, y)
  BY <1>2 DEF s
<1>10. s.acl \in [Zone -> Nat] /\ s.zones \in SUBSET Zone
  BY <1>4, Fields
<1>11. \A y \in s.zones : t.acl[y] = s.acl[y]
  BY <1>8, <1>9, <1>10
<1>12. LineSound(t)
  BY <1>8, <1>9, <1>11 DEF LineSound
<1>13. SlotsSound(t)
  BY <1>8, <1>9 DEF SlotsSound
<1>14. \A y \in t.enable : RoundSound(t, y)
  BY <1>8, <1>9, <1>11 DEF RoundSound
<1> QED
  BY <1>7, <1>12, <1>13, <1>14 DEF Sound, t

\* Restarting the round of a zone.
LEMMA RestartInv ==
  ASSUME Inv, NEW z \in Zone, Configured(z), NEW serial \in Serial,
         Restart(z, serial)
  PROVE  Sound(xfrd')
<1> DEFINE r == IF z \in xfrd.enable THEN NotifyDisable(xfrd, z) ELSE xfrd
<1>1. xfrd' = NotifyEnable(r, z, serial)
  BY DEF Restart
<1>2. Sound(r) /\ z \in r.zones /\ z \notin r.enable
  <2>1. CASE z \in xfrd.enable
    <3>1. SoundBut(xfrd, z)
      BY DEF Inv, Sound, SoundBut
    <3> QED
      BY <2>1, <3>1, DisableSound DEF Configured
  <2>2. CASE z \notin xfrd.enable
    BY <2>2 DEF Inv, Configured
  <2> QED
    BY <2>1, <2>2
<1> HIDE DEF r
<1> QED
  BY <1>1, <1>2, EnableSound

\* A zone whose handler runs has a round.
LEMMA HandlerInv ==
  ASSUME Inv, NEW z \in Zone, HandleNotifyAck(z) \/ HandleNotifyTimeout(z)
  PROVE  Sound(xfrd')
<1>1. CASE HandleNotifyAck(z)
  <2>1. PICK sent \in BOOLEAN :
          xfrd' = SendAgain(CountTry(NotifyNext(xfrd, z), z), z, sent)
    BY <1>1 DEF HandleNotifyAck
  <2> DEFINE r == NotifyNext(xfrd, z)
             t == CountTry(r, z)
  <2>2. z \in xfrd.enable
    BY <1>1 DEF HandleNotifyAck
  <2>3. Sound(r) /\ (r.current[z] # 0 => z \in r.enable)
    BY <2>2, NextSound DEF Inv
  <2>4. xfrd' = SendAgain(t, z, sent)
    BY <2>1
  <2> HIDE DEF r
  <2>5. Sound(t) /\ (t.current[z] # 0 => z \in t.enable)
    BY <2>3, CountSound
  <2> HIDE DEF t
  <2> QED
    BY <2>4, <2>5, SendSound
<1>2. CASE HandleNotifyTimeout(z)
  <2>1. PICK sent \in BOOLEAN : xfrd' = SendAgain(CountTry(xfrd, z), z, sent)
    BY <1>2 DEF HandleNotifyTimeout
  <2> DEFINE t == CountTry(xfrd, z)
  <2>2. z \in xfrd.enable
    BY <1>2 DEF HandleNotifyTimeout
  <2>3. Sound(t) /\ (t.current[z] # 0 => z \in t.enable)
    BY <2>2, CountSound DEF Inv
  <2> HIDE DEF t
  <2> QED
    BY <2>1, <2>3, SendSound DEF t
<1> QED
  BY <1>1, <1>2

\* Every handler of the NOTIFY sender keeps the state sound.
LEMMA NextInv == Inv /\ [Next]_xfrd => Inv'
<1> SUFFICES ASSUME Inv, [Next]_xfrd PROVE Sound(xfrd')
  BY DEF Inv
<1>1. CASE UNCHANGED xfrd
  BY <1>1 DEF Inv
<1>2. ASSUME NEW z \in Zone, InitNotifySend(z) PROVE Sound(xfrd')
  BY <1>2, InitNotifySendInv
<1>3. ASSUME NEW z \in Zone, DelNotify(z) PROVE Sound(xfrd')
  BY <1>3, DelSound DEF DelNotify, Inv
<1>4. ASSUME NEW z \in Zone, HandleNotifyAck(z) \/ HandleNotifyTimeout(z)
      PROVE  Sound(xfrd')
  BY <1>4, HandlerInv
<1>5. ASSUME NEW z \in Zone, NotifyStart(z) PROVE Sound(xfrd')
  <2>1. PICK serial \in Serial : xfrd' = NotifyStartZone(xfrd, z, serial)
    BY <1>5 DEF NotifyStart
  <2>2. z \in xfrd.zones
    BY <1>5 DEF NotifyStart, Configured
  <2>3. CASE IsWaiting(xfrd, z) \/ z \in xfrd.enable
    BY <2>1, <2>3 DEF NotifyStartZone, Inv
  <2>4. CASE ~(IsWaiting(xfrd, z) \/ z \in xfrd.enable)
    BY <2>1, <2>2, <2>4, EnableSound DEF NotifyStartZone, Inv
  <2> QED
    BY <2>3, <2>4
<1>6. ASSUME NEW z \in Zone, SendNotify(z) \/ HandleMasterZoneSoainfo(z)
      PROVE  Sound(xfrd')
  BY <1>6, RestartInv DEF SendNotify, HandleMasterZoneSoainfo
<1> QED
  BY <1>1, <1>2, <1>3, <1>4, <1>5, <1>6 DEF Next

\* The invariant holds in every behaviour of the NOTIFY sender.
THEOREM Soundness == Spec => []Inv
  BY InitInv, NextInv, PTL DEF Spec

\* Every field keeps its type: in particular, notify_udp_num never drops
\* below zero, for any number of zones, slots and secondaries.
THEOREM TypeCorrect == Spec => []TypeOK
<1>1. Inv => TypeOK
  BY DEF Inv, Sound, TypeOK
<1> QED
  BY <1>1, Soundness, PTL

\* notify_udp_num counts the rounds going on, and stays within its limit.
THEOREM SlotsAreCounted == Spec => []SlotsCounted
<1>1. Inv => SlotsCounted
  BY DEF Inv, Sound, SlotsSound, SlotsCounted
<1> QED
  BY <1>1, Soundness, PTL

\* The waiting list is sound, and empty while a slot is free.
THEOREM WaitingListIsSound == Spec => []WaitingListSound
<1>1. Inv => WaitingListSound
  <2> SUFFICES ASSUME Inv PROVE WaitingListSound
    OBVIOUS
  <2>1. LineSound(xfrd)
    BY DEF Inv, Sound
  <2>2. /\ DOMAIN xfrd.waiting = 1..Len(xfrd.waiting)
        /\ xfrd.waiting \in Seq(Zone)
    BY Fields DEF Inv, Sound
  <2>3. xfrd.waiting # <<>> => Len(xfrd.waiting) > 0
    BY <2>2
  <2> QED
    BY <2>1, <2>2, <2>3 DEF LineSound, WaitingListSound
<1> QED
  BY <1>1, Soundness, PTL

\* The assert of xfrd_handle_notify_send holds whenever the handler can run,
\* and no deleted zone has a handler.
THEOREM ActiveZonesHaveTarget == Spec => []ActiveHasTarget
<1>1. Inv => ActiveHasTarget
  BY DEF Inv, Sound, SlotsSound, RoundSound, ActiveHasTarget
<1> QED
  BY <1>1, Soundness, PTL
=============================================================================
