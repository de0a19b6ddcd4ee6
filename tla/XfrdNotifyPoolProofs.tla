------------------------ MODULE XfrdNotifyPoolProofs ------------------------
(***************************************************************************)
(* Two more results about the NOTIFY sender, on the invariant of           *)
(* XfrdNotifyProofs: its slots and its line follow SlotPool, step by step, *)
(* and no round ends before every secondary was tried.                     *)
(***************************************************************************)
EXTENDS XfrdNotifyProofs

-----------------------------------------------------------------------------
(* What the operators do to the slots and to the line.                     *)

\* Slots and line stay; and z gives its slot to the first in line, if any.
Kept(s, t) == t.enable = s.enable /\ t.waiting = s.waiting

Gave(s, t, z) ==
  /\ z \in s.enable
  /\ s.waiting = <<>> => t.enable = s.enable \ {z} /\ t.waiting = <<>>
  /\ s.waiting # <<>> => /\ t.enable = (s.enable \ {z}) \cup {Head(s.waiting)}
                         /\ t.waiting = Tail(s.waiting)

\* What a step about z does to another zone: nothing, or it gives it a slot.
Untouched(s, t, y) ==
  /\ y \in t.enable <=> y \in s.enable
  /\ y \in t.fd <=> y \in s.fd
  /\ t.current[y] = s.current[y] /\ t.retry[y] = s.retry[y]
  /\ IsWaiting(t, y) <=> IsWaiting(s, y)

Served(s, t, y) ==
  /\ y \notin s.enable /\ IsWaiting(s, y)
  /\ y \in t.enable /\ y \notin t.fd
  /\ t.current[y] = 1 /\ t.retry[y] = 0

Others(s, t, z) ==
  \A y \in Zone \ {z} :
    /\ t.acl[y] = s.acl[y] /\ t.tried[y] = s.tried[y]
    /\ y \in t.zones <=> y \in s.zones
    /\ Untouched(s, t, y) \/ Served(s, t, y)

\* Head and tail of the line, by position.
LEMMA HeadOfLine ==
  ASSUME NEW q \in Seq(Zone), Len(q) > 0
  PROVE  /\ q # <<>> /\ q[1] = Head(q)
         /\ SubSeq(q, 2, Len(q)) = Tail(q)
         /\ Tail(q) \in Seq(Zone) /\ Len(Tail(q)) = Len(q) - 1 /\ Len(q) \in Nat
         /\ \A i \in 1..Len(Tail(q)) : Tail(q)[i] = q[i + 1]
  BY HeadTailProperties

\* notify_disable gives the slot back.
LEMMA DisableGives ==
  ASSUME NEW s, NEW z \in Zone, SoundBut(s, z), z \in s.enable
  PROVE  LET t == NotifyDisable(s, z)
         IN  /\ Gave(s, t, z) /\ Others(s, t, z)
             /\ z \notin t.enable /\ ~IsWaiting(t, z) /\ t.current[z] = 0
             /\ t.zones = s.zones /\ t.acl = s.acl /\ t.tried = s.tried
<1> DEFINE t == NotifyDisable(s, z)
<1>1. s \in State /\ LineSound(s)
  BY DEF SoundBut
<1>2. /\ s.waiting \in Seq(Zone) /\ Len(s.waiting) \in Nat
      /\ DOMAIN s.waiting = 1..Len(s.waiting)
      /\ \A i \in 1..Len(s.waiting) : s.waiting[i] \in Zone
      /\ s.current \in [Zone -> Nat] /\ s.enable \in SUBSET Zone
  BY <1>1, Fields
<1>3. s.retry \in [Zone -> 0..(RetryMod - 1)]
  BY <1>1 DEF State
<1>4. /\ t \in State /\ t.zones = s.zones /\ t.acl = s.acl /\ t.tried = s.tried
      /\ Len(s.waiting) = 0 => Freed(s, t, z)
      /\ Len(s.waiting) > 0 => HandedOver(s, t, z)
  BY DisableFields
<1>5. \A i \in 1..Len(s.waiting) : s.waiting[i] # z /\ s.waiting[i] \notin s.enable
  BY <1>1 DEF LineSound
<1> HIDE DEF t
<1>6. CASE Len(s.waiting) = 0
  <2>1. Freed(s, t, z)
    BY <1>4, <1>6
  <2>2. Gave(s, t, z)
    BY <2>1 DEF Freed, Gave
  <2>3. ~IsWaiting(t, z) /\ z \notin t.enable /\ t.current[z] = 0
    BY <2>1, <1>2 DEF Freed, IsWaiting
  <2>4. ASSUME NEW y \in Zone \ {z} PROVE Untouched(s, t, y)
    BY <2>1, <2>4, <1>2 DEF Freed, Untouched, IsWaiting
  <2>5. Others(s, t, z)
    BY <2>4, <1>4 DEF Others
  <2> QED
    BY <2>2, <2>3, <2>5, <1>4 DEF t
<1>7. CASE Len(s.waiting) > 0
  <2> DEFINE w == s.waiting[1]
             q == s.waiting
             p == Tail(s.waiting)
  <2>1. HandedOver(s, t, z)
    BY <1>4, <1>7
  <2>2. /\ q # <<>> /\ w = Head(q) /\ SubSeq(q, 2, Len(q)) = p
        /\ p \in Seq(Zone) /\ Len(p) = Len(q) - 1
        /\ \A i \in 1..Len(p) : p[i] = q[i + 1]
    BY <1>2, <1>7, HeadOfLine
  <2>3. w \in Zone /\ w # z /\ w \notin s.enable /\ 1 \in 1..Len(s.waiting)
    BY <1>2, <1>5, <1>7
  <2>4. DOMAIN p = 1..Len(p)
    BY <2>2
  <2> HIDE DEF p
  <2>5. Gave(s, t, z)
    BY <2>1, <2>2 DEF HandedOver, Gave, p
  <2> DEFINE Later(y) == \E i \in 1..Len(p) : p[i] = y
  <2>6. t.waiting = p /\ \A y : IsWaiting(t, y) <=> Later(y)
    BY <2>1, <2>2, <2>4 DEF HandedOver, IsWaiting
  <2>7. \A y : IsWaiting(s, y) <=> y = w \/ Later(y)
    <3>1. \A i \in 1..Len(p) : i + 1 \in 1..Len(q) /\ p[i] = q[i + 1]
      BY <2>2, <1>2
    <3>2. \A i \in 1..Len(q) : i = 1 \/ (i - 1 \in 1..Len(p) /\ p[i - 1] = q[i])
      BY <2>2, <1>2
    <3> QED
      BY <3>1, <3>2, <2>3, <1>2 DEF IsWaiting
  <2>8. ~IsWaiting(s, z)
    BY <1>2, <1>5 DEF IsWaiting
  <2>9. ~IsWaiting(t, z)
    BY <2>6, <2>7, <2>8
  <2>10. /\ t.enable = (s.enable \ {z}) \cup {w} /\ t.fd = (s.fd \ {z}) \ {w}
         /\ t.current = [s.current EXCEPT ![z] = 0, ![w] = 1]
         /\ t.retry = [s.retry EXCEPT ![w] = 0]
    BY <2>1 DEF HandedOver
  <2>11. IsWaiting(s, w)
    BY <2>7
  <2> HIDE DEF w, Later
  <2>12. z \notin t.enable /\ t.current[z] = 0
    BY <2>3, <2>10, <1>2
  <2>13. Served(s, t, w)
    BY <2>3, <2>10, <2>11, <1>2, <1>3 DEF Served
  <2>14. ASSUME NEW y \in Zone \ {z}, y # w PROVE Untouched(s, t, y)
    <3>1. IsWaiting(t, y) <=> IsWaiting(s, y)
      BY <2>6, <2>7, <2>14
    <3>2. t.current[y] = s.current[y] /\ t.retry[y] = s.retry[y]
      BY <2>10, <2>14, <1>2, <1>3
    <3> QED
      BY <3>1, <3>2, <2>10, <2>14 DEF Untouched
  <2>15. Others(s, t, z)
    BY <2>13, <2>14, <1>4 DEF Others
  <2> QED
    BY <2>5, <2>9, <2>12, <2>15, <1>4 DEF t
<1> QED
  BY <1>2, <1>6, <1>7

\* xfrd_notify_next goes on to the next secondary, or gives the slot back.
LEMMA NextGives ==
  ASSUME NEW s, Sound(s), NEW z \in s.enable
  PROVE  LET t == NotifyNext(s, z)
         IN  /\ Others(s, t, z)
             /\ t.zones = s.zones /\ t.acl = s.acl /\ t.tried = s.tried
             /\ s.current[z] # s.acl[z] =>
                  /\ Kept(s, t) /\ s.current[z] + 1 \in 1..s.acl[z]
                  /\ t.current[z] = s.current[z] + 1 /\ t.retry[z] = 0
             /\ s.current[z] = s.acl[z] =>
                  /\ Gave(s, t, z)
                  /\ z \notin t.enable /\ ~IsWaiting(t, z) /\ t.current[z] = 0
<1> DEFINE c == IF s.current[z] < s.acl[z] THEN s.current[z] + 1 ELSE 0
           u == [s EXCEPT !.retry[z] = 0]
           r == [u EXCEPT !.current[z] = c]
           t == NotifyNext(s, z)
<1>1. s \in State /\ z \in Zone
  BY DEF Sound, State
<1>2. /\ s.current \in [Zone -> Nat] /\ s.acl \in [Zone -> Nat]
      /\ \A i \in 1..Len(s.waiting) : s.waiting[i] \in Zone
      /\ s.retry \in [Zone -> 0..(RetryMod - 1)]
  BY <1>1, Fields DEF State
<1>3. LineSound(s) /\ SlotsSound(s) /\ \A y \in s.enable : RoundSound(s, y)
  BY DEF Sound
<1>4. 0 \in 0..(RetryMod - 1) /\ c \in Nat
  BY <1>1, <1>2, RetryAssumption
<1>5. /\ s.current[z] # s.acl[z] => c = s.current[z] + 1 /\ c \in 1..s.acl[z] /\ c # 0
      /\ s.current[z] = s.acl[z] => c = 0
  BY <1>1, <1>2, <1>3 DEF RoundSound
<1>6. t = IF r.current[z] = 0 THEN NotifyDisable(r, z) ELSE r
  BY <1>1 DEF NotifyNext, State
<1> HIDE DEF c, t
<1>7. /\ u \in State
      /\ u.waiting = s.waiting /\ u.num = s.num
      /\ u.zones = s.zones /\ u.acl = s.acl /\ u.tried = s.tried
      /\ u.enable = s.enable /\ u.fd = s.fd /\ u.current = s.current
      /\ u.retry = [s.retry EXCEPT ![z] = 0]
  BY <1>1, <1>4 DEF State
<1> HIDE DEF u
<1>8. /\ r \in State
      /\ r.waiting = s.waiting /\ r.num = s.num
      /\ r.zones = s.zones /\ r.acl = s.acl /\ r.tried = s.tried
      /\ r.enable = s.enable /\ r.fd = s.fd
      /\ r.current = [s.current EXCEPT ![z] = c]
      /\ r.retry = [s.retry EXCEPT ![z] = 0]
  BY <1>1, <1>4, <1>7 DEF State
<1> HIDE DEF r
<1>9. r.current[z] = c /\ r.retry[z] = 0
  BY <1>1, <1>2, <1>8
<1>10. ASSUME NEW y \in Zone \ {z} PROVE Untouched(s, r, y)
  BY <1>2, <1>8, <1>10 DEF Untouched, IsWaiting
<1>11. Others(s, r, z)
  BY <1>8, <1>10 DEF Others
<1>12. CASE s.current[z] # s.acl[z]
  <2>1. t = r
    BY <1>5, <1>6, <1>9, <1>12
  <2> QED
    BY <2>1, <1>5, <1>8, <1>9, <1>11, <1>12 DEF t, Kept
<1>13. CASE s.current[z] = s.acl[z]
  <2>1. LineSound(r)
    <3>1. \A i \in 1..Len(s.waiting) :
            s.waiting[i] # z /\ r.current[s.waiting[i]] = s.current[s.waiting[i]]
      BY <1>2, <1>3, <1>8 DEF LineSound
    <3> QED
      BY <3>1, <1>3, <1>8 DEF LineSound
  <2>2. SlotsSound(r)
    BY <1>3, <1>8 DEF SlotsSound
  <2>3. s.enable \in SUBSET Zone
    BY <1>1 DEF State
  <2>4. \A y \in r.enable \ {z} : RoundSound(r, y)
    BY <2>3, <1>2, <1>3, <1>8 DEF RoundSound
  <2>5. SoundBut(r, z) /\ z \in r.enable
    BY <2>1, <2>2, <2>4, <1>8 DEF SoundBut
  <2>6. t = NotifyDisable(r, z)
    BY <1>5, <1>6, <1>9, <1>13
  <2>7. /\ Gave(r, t, z) /\ Others(r, t, z)
        /\ z \notin t.enable /\ ~IsWaiting(t, z) /\ t.current[z] = 0
        /\ t.zones = r.zones /\ t.acl = r.acl /\ t.tried = r.tried
    BY <2>5, <2>6, <1>1, DisableGives
  <2>8. Gave(s, t, z)
    BY <2>7, <1>8 DEF Gave
  <2>9. ASSUME NEW y \in Zone \ {z} PROVE Untouched(s, t, y) \/ Served(s, t, y)
    <3>1. Untouched(s, r, y) /\ (Untouched(r, t, y) \/ Served(r, t, y))
      BY <2>7, <2>9, <1>10 DEF Others
    <3> QED
      BY <3>1 DEF Untouched, Served
  <2>10. Others(s, t, z)
    BY <2>7, <2>9, <1>8 DEF Others
  <2> QED
    BY <2>7, <2>8, <2>10, <1>8, <1>13 DEF t
<1> QED
  BY <1>12, <1>13

\* Counting a try leaves everything but the counter alone, or goes on to the
\* next secondary when the counter passed notify-retry.
LEMMA CountGives ==
  ASSUME NEW s, Sound(s), NEW z \in s.enable
  PROVE  LET t == CountTry(s, z)
             more == s.current[z] # s.acl[z]
         IN  /\ Others(s, t, z)
             /\ t.zones = s.zones /\ t.acl = s.acl /\ t.tried = s.tried
             /\ \/ Kept(s, t) /\ t.current[z] = s.current[z]
                \/ /\ s.retry[z] >= NotifyRetry
                   /\ more => /\ Kept(s, t)
                              /\ s.current[z] + 1 \in 1..s.acl[z]
                              /\ t.current[z] = s.current[z] + 1
                   /\ ~more => /\ Gave(s, t, z)
                               /\ z \notin t.enable /\ ~IsWaiting(t, z)
                               /\ t.current[z] = 0
<1> DEFINE n == (s.retry[z] + 1) % RetryMod
           r == [s EXCEPT !.retry[z] = n]
           t == CountTry(s, z)
<1>1. s \in State /\ z \in Zone /\ s.current[z] # 0
  BY DEF Sound, State, RoundSound
<1>2. s.retry[z] \in Nat /\ s.retry[z] < RetryMod
  BY <1>1, RetryAssumption DEF State
<1>3. n \in 0..(RetryMod - 1) /\ n <= s.retry[z] + 1
  <2>1. CASE s.retry[z] + 1 < RetryMod
    BY <2>1, <1>2, RetryAssumption
  <2>2. CASE s.retry[z] + 1 = RetryMod
    BY <2>2, <1>2, RetryAssumption
  <2> QED
    BY <2>1, <2>2, <1>2, RetryAssumption
<1>4. t = IF r.retry[z] > NotifyRetry THEN NotifyNext(r, z) ELSE r
  BY <1>1 DEF CountTry
<1> HIDE DEF n, t
<1>5. /\ r \in State
      /\ r.waiting = s.waiting /\ r.num = s.num
      /\ r.zones = s.zones /\ r.acl = s.acl /\ r.tried = s.tried
      /\ r.enable = s.enable /\ r.fd = s.fd /\ r.current = s.current
      /\ r.retry = [s.retry EXCEPT ![z] = n]
  BY <1>1, <1>3 DEF State
<1> HIDE DEF r
<1>6. r.retry[z] = n
  BY <1>1, <1>5 DEF State
<1>7. ASSUME NEW y \in Zone \ {z} PROVE Untouched(s, r, y)
  <2>1. r.retry[y] = s.retry[y]
    BY <1>1, <1>5, <1>7 DEF State
  <2> QED
    BY <2>1, <1>5 DEF Untouched, IsWaiting
<1>8. Others(s, r, z)
  BY <1>5, <1>7 DEF Others
<1>9. Sound(r)
  <2>1. r.fd \subseteq r.enable
    BY <1>5 DEF Sound, SlotsSound
  <2> QED
    BY <1>5, <2>1, SoundAlike
<1>10. CASE ~(n > NotifyRetry)
  <2>1. t = r
    BY <1>4, <1>6, <1>10
  <2> QED
    BY <2>1, <1>5, <1>8 DEF t, Kept
<1>11. CASE n > NotifyRetry
  <2> DEFINE more == r.current[z] # r.acl[z]
  <2>1. t = NotifyNext(r, z) /\ z \in r.enable
    BY <1>4, <1>5, <1>6, <1>11
  <2>2. /\ Others(r, t, z)
        /\ t.zones = r.zones /\ t.acl = r.acl /\ t.tried = r.tried
        /\ more => /\ Kept(r, t) /\ r.current[z] + 1 \in 1..r.acl[z]
                   /\ t.current[z] = r.current[z] + 1
        /\ ~more => /\ Gave(r, t, z)
                    /\ z \notin t.enable /\ ~IsWaiting(t, z) /\ t.current[z] = 0
    BY <2>1, <1>9, NextGives
  <2>3. ASSUME NEW y \in Zone \ {z} PROVE Untouched(s, t, y) \/ Served(s, t, y)
    <3>1. Untouched(s, r, y) /\ (Untouched(r, t, y) \/ Served(r, t, y))
      BY <2>2, <2>3, <1>7 DEF Others
    <3> QED
      BY <3>1 DEF Untouched, Served
  <2>4. Others(s, t, z)
    BY <2>2, <2>3, <1>5 DEF Others
  <2>5. s.retry[z] >= NotifyRetry
    BY <1>2, <1>3, <1>11, RetryAssumption
  <2>6. /\ more => /\ Kept(s, t) /\ s.current[z] + 1 \in 1..s.acl[z]
                   /\ t.current[z] = s.current[z] + 1
        /\ ~more => /\ Gave(s, t, z)
                    /\ z \notin t.enable /\ ~IsWaiting(t, z) /\ t.current[z] = 0
    BY <2>2, <1>5 DEF Kept, Gave
  <2> QED
    BY <2>2, <2>4, <2>5, <2>6, <1>5 DEF t
<1> QED
  BY <1>10, <1>11, <1>3, RetryAssumption

\* Sending again keeps slots and line, and counts the secondary as tried.
LEMMA SendKeeps ==
  ASSUME NEW s, Sound(s), NEW z \in Zone, s.current[z] # 0 => z \in s.enable,
         NEW sent \in BOOLEAN
  PROVE  LET t == SendAgain(s, z, sent)
         IN  /\ Others(s, t, z) /\ Kept(s, t)
             /\ t.zones = s.zones /\ t.acl = s.acl /\ t.current = s.current
             /\ s.current[z] = 0 => t = s
             /\ s.current[z] # 0 => t.tried[z] = s.tried[z] \cup {s.current[z]}
<1> DEFINE f == IF sent THEN s.fd \cup {z} ELSE s.fd \ {z}
           tr == [s.tried EXCEPT ![z] = @ \cup {s.current[z]}]
           t == SendAgain(s, z, sent)
<1>1. s \in State
  BY DEF Sound
<1>2. CASE s.current[z] = 0
  <2>1. t = s
    BY <1>2 DEF SendAgain
  <2> HIDE DEF t
  <2>2. Others(s, t, z) /\ Kept(s, t)
    BY <2>1 DEF Others, Untouched, Kept
  <2> QED
    BY <2>1, <2>2, <1>2 DEF t
<1>3. CASE s.current[z] # 0
  <2>1. z \in s.enable /\ s.enable \cup {z} = s.enable
    BY <1>3
  <2>2. t = [s EXCEPT !.enable = s.enable, !.fd = f, !.tried = tr]
    BY <1>1, <1>3, <2>1 DEF SendAgain, NotifySendUdp, State
  <2>3. /\ tr[z] = s.tried[z] \cup {s.current[z]}
        /\ \A y \in Zone \ {z} : tr[y] = s.tried[y] /\ (y \in f <=> y \in s.fd)
    BY <1>1 DEF State
  <2> HIDE DEF f, tr, t
  <2>4. /\ t.waiting = s.waiting /\ t.num = s.num
        /\ t.zones = s.zones /\ t.acl = s.acl /\ t.retry = s.retry
        /\ t.enable = s.enable /\ t.fd = f /\ t.current = s.current /\ t.tried = tr
    BY <1>1, <2>2 DEF State
  <2>5. Others(s, t, z)
    BY <2>3, <2>4 DEF Others, Untouched, IsWaiting
  <2> QED
    BY <2>3, <2>4, <2>5, <1>3 DEF t, Kept
<1> QED
  BY <1>2, <1>3

\* notify_enable of a zone that is not sending.
LEMMA EnableAsks ==
  ASSUME NEW s, Sound(s), NEW z \in s.zones, z \notin s.enable,
         NEW serial \in Serial
  PROVE  LET t == NotifyEnable(s, z, serial)
         IN  /\ Others(s, t, z) /\ t.zones = s.zones /\ t.acl = s.acl
             /\ s.acl[z] = 0 => t = s
             /\ s.acl[z] # 0 => t.tried[z] = {}
             /\ s.acl[z] # 0 /\ IsWaiting(s, z) => Kept(s, t) /\ IsWaiting(t, z)
             /\ s.acl[z] # 0 /\ ~IsWaiting(s, z) /\ s.num < MaxUdpNotify =>
                  /\ s.waiting = <<>> /\ t.waiting = s.waiting
                  /\ t.enable = s.enable \cup {z} /\ z \notin t.fd
                  /\ t.current[z] = 1 /\ t.retry[z] = 0
             /\ s.acl[z] # 0 /\ ~IsWaiting(s, z) /\ ~(s.num < MaxUdpNotify) =>
                  /\ t.waiting = Append(s.waiting, z) /\ t.enable = s.enable
                  /\ IsWaiting(t, z)
<1> DEFINE t == NotifyEnable(s, z, serial)
<1>1. s \in State /\ z \in Zone /\ LineSound(s)
  BY DEF Sound, State
<1>2. /\ s.waiting \in Seq(Zone) /\ Len(s.waiting) \in Nat
      /\ DOMAIN s.waiting = 1..Len(s.waiting)
      /\ s.current \in [Zone -> Nat] /\ s.num \in Nat
  BY <1>1, Fields
<1>3. s.retry \in [Zone -> 0..(RetryMod - 1)] /\ s.tried \in [Zone -> SUBSET Nat]
  BY <1>1 DEF State
<1>4. CASE s.acl[z] = 0
  <2>1. t = s
    BY <1>4 DEF NotifyEnable
  <2> HIDE DEF t
  <2>2. Others(s, t, z)
    BY <2>1 DEF Others, Untouched
  <2> QED
    BY <2>1, <2>2, <1>4 DEF t
<1>5. CASE s.acl[z] # 0
  <2>1. /\ t \in State
        /\ t.zones = s.zones /\ t.acl = s.acl
        /\ IsWaiting(s, z) => Renewed(s, t, z)
        /\ ~IsWaiting(s, z) /\ s.num < MaxUdpNotify => Started(s, t, z)
        /\ ~IsWaiting(s, z) /\ ~(s.num < MaxUdpNotify) => GotInLine(s, t, z)
    BY <1>1, <1>5, EnableFields
  <2> HIDE DEF t
  <2>2. CASE IsWaiting(s, z)
    <3>1. Renewed(s, t, z)
      BY <2>1, <2>2
    <3>2. t.tried[z] = {} /\ \A y \in Zone \ {z} : t.tried[y] = s.tried[y]
      BY <3>1, <1>1, <1>3 DEF Renewed
    <3>3. Kept(s, t) /\ \A y : Untouched(s, t, y)
      BY <3>1 DEF Renewed, Kept, Untouched, IsWaiting
    <3>4. Others(s, t, z) /\ IsWaiting(t, z)
      BY <3>2, <3>3, <2>1, <2>2 DEF Others, Untouched
    <3> QED
      BY <3>2, <3>3, <3>4, <2>1, <2>2, <1>5 DEF t
  <2>3. CASE ~IsWaiting(s, z) /\ s.num < MaxUdpNotify
    <3>1. Started(s, t, z)
      BY <2>1, <2>3
    <3>2. t.tried[z] = {} /\ \A y \in Zone \ {z} : t.tried[y] = s.tried[y]
      BY <3>1, <1>1, <1>3 DEF Started
    <3>3. ASSUME NEW y \in Zone \ {z} PROVE Untouched(s, t, y)
      <4>1. t.current[y] = s.current[y] /\ t.retry[y] = s.retry[y]
        BY <3>1, <3>3, <1>2, <1>3 DEF Started
      <4> QED
        BY <4>1, <3>1, <3>3 DEF Started, Untouched, IsWaiting
    <3>4. Others(s, t, z)
      BY <3>2, <3>3, <2>1 DEF Others
    <3>5. t.current[z] = 1 /\ t.retry[z] = 0
      BY <3>1, <1>1, <1>2, <1>3 DEF Started
    <3>6. Len(s.waiting) = 0
      BY <1>1, <1>2, <2>3 DEF LineSound
    <3>7. s.waiting = <<>>
      BY <3>6, <1>2, EmptySeq
    <3>8. t.waiting = s.waiting /\ t.enable = s.enable \cup {z} /\ z \notin t.fd
      BY <3>1 DEF Started
    <3> QED
      BY <3>2, <3>4, <3>5, <3>7, <3>8, <2>1, <2>3, <1>5 DEF t
  <2>4. CASE ~IsWaiting(s, z) /\ ~(s.num < MaxUdpNotify)
    <3> DEFINE q == Append(s.waiting, z)
    <3>1. GotInLine(s, t, z)
      BY <2>1, <2>4
    <3>2. t.tried[z] = {} /\ \A y \in Zone \ {z} : t.tried[y] = s.tried[y]
      BY <3>1, <1>1, <1>3 DEF GotInLine
    <3>3. /\ DOMAIN q = 1..(Len(s.waiting) + 1) /\ q[Len(s.waiting) + 1] = z
          /\ \A i \in 1..Len(s.waiting) : q[i] = s.waiting[i]
      BY <1>1, <1>2
    <3>4. t.waiting = q
      BY <3>1 DEF GotInLine
    <3> HIDE DEF q
    <3>5. \A y : IsWaiting(t, y) <=> IsWaiting(s, y) \/ y = z
      <4>1. \A i \in DOMAIN q : i \in 1..Len(s.waiting) \/ i = Len(s.waiting) + 1
        BY <3>3, <1>2
      <4>2. Len(s.waiting) + 1 \in DOMAIN q /\ \A i \in 1..Len(s.waiting) : i \in DOMAIN q
        BY <3>3, <1>2
      <4> QED
        BY <4>1, <4>2, <3>3, <3>4, <1>2 DEF IsWaiting
    <3>6. ASSUME NEW y \in Zone \ {z} PROVE Untouched(s, t, y)
      <4>1. t.current[y] = s.current[y]
        BY <3>1, <3>6, <1>2 DEF GotInLine
      <4> QED
        BY <4>1, <3>1, <3>5, <3>6 DEF GotInLine, Untouched
    <3>7. Others(s, t, z)
      BY <3>2, <3>6, <2>1 DEF Others
    <3>8. t.waiting = Append(s.waiting, z) /\ t.enable = s.enable /\ IsWaiting(t, z)
      BY <3>1, <3>5 DEF GotInLine
    <3> QED
      BY <3>2, <3>7, <3>8, <2>1, <2>4, <1>5 DEF t
  <2> QED
    BY <2>2, <2>3, <2>4
<1> QED
  BY <1>4, <1>5

\* Taking an element out of a list takes out no other.
LEMMA UnlinkKeeps ==
  ASSUME NEW q \in Seq(Zone), NEW i \in 1..Len(q), NEW k \in 1..Len(q), k # i
  PROVE  \E j \in 1..(Len(q) - 1) : Unlink(q, i)[j] = q[k]
<1>1. Len(q) \in Nat
  OBVIOUS
<1>2. CASE k < i
  <2>1. k \in 1..(Len(q) - 1) /\ Unlink(q, i)[k] = q[k]
    BY <1>1, <1>2 DEF Unlink
  <2> QED
    BY <2>1
<1>3. CASE k > i
  <2>1. k - 1 \in 1..(Len(q) - 1) /\ ~(k - 1 < i) /\ (k - 1) + 1 = k
    BY <1>1, <1>3
  <2>2. Unlink(q, i)[k - 1] = q[k]
    BY <2>1 DEF Unlink
  <2> QED
    BY <2>1, <2>2
<1> QED
  BY <1>1, <1>2, <1>3

\* xfrd_del_notify takes a zone out of the line, or gives its slot back.
LEMMA DelLeaves ==
  ASSUME NEW s, Sound(s), NEW z \in Zone
  PROVE  LET t == DelNotifyZone(s, z)
         IN  /\ Others(s, t, z) /\ t.zones = s.zones \ {z}
             /\ z \in s.enable => Gave(s, t, z)
             /\ z \notin s.enable /\ ~IsWaiting(s, z) => Kept(s, t)
             /\ z \notin s.enable /\ IsWaiting(s, z) =>
                  /\ t.enable = s.enable
                  /\ \E i \in DOMAIN s.waiting :
                       s.waiting[i] = z /\ t.waiting = Unlink(s.waiting, i)
<1> DEFINE p == OffWaitingList(s, z)
           r == [s EXCEPT !.zones = @ \ {z}, !.waiting = p]
           t == IF z \in r.enable THEN NotifyDisable(r, z) ELSE r
           v == [t EXCEPT !.soa[z] = 0, !.current[z] = 0, !.retry[z] = 0]
<1>1. s \in State /\ LineSound(s) /\ SlotsSound(s) /\ \A y \in s.enable : RoundSound(s, y)
  BY DEF Sound
<1>2. /\ p \in Seq(Zone) /\ Distinct(p) /\ FromWithout(p, s.waiting, z)
      /\ Len(p) > 0 => Len(s.waiting) > 0
  BY OffList
<1>3. /\ s.waiting \in Seq(Zone) /\ Len(s.waiting) \in Nat
      /\ DOMAIN s.waiting = 1..Len(s.waiting)
  BY <1>1, Fields
<1>4. Distinct(s.waiting)
  BY <1>1 DEF LineSound, Distinct
<1>5. /\ ~IsWaiting(s, z) => p = s.waiting
      /\ IsWaiting(s, z) => \E i \in 1..Len(s.waiting) :
           s.waiting[i] = z /\ p = Unlink(s.waiting, i) /\ Len(p) = Len(s.waiting) - 1
  <2>1. ~IsWaiting(s, z) => p = s.waiting
    BY DEF OffWaitingList
  <2>2. ASSUME IsWaiting(s, z)
        PROVE  \E i \in 1..Len(s.waiting) :
                 s.waiting[i] = z /\ p = Unlink(s.waiting, i) /\ Len(p) = Len(s.waiting) - 1
    <3> DEFINE i == CHOOSE j \in DOMAIN s.waiting : s.waiting[j] = z
    <3>1. i \in 1..Len(s.waiting) /\ s.waiting[i] = z
      BY <1>3, <2>2 DEF IsWaiting
    <3>2. p = Unlink(s.waiting, i)
      BY <2>2 DEF OffWaitingList
    <3> HIDE DEF i, p
    <3>3. Len(p) = Len(s.waiting) - 1
      BY <3>1, <3>2, <1>3, <1>4, UnlinkList
    <3> QED
      BY <3>1, <3>2, <3>3
  <2> QED
    BY <2>1, <2>2
<1>6. DelNotifyZone(s, z) = v
  BY DEF DelNotifyZone
<1> HIDE DEF p
<1>7. /\ r \in State
      /\ r.waiting = p /\ r.num = s.num
      /\ r.zones = s.zones \ {z} /\ r.acl = s.acl /\ r.tried = s.tried
      /\ r.enable = s.enable /\ r.fd = s.fd /\ r.current = s.current
      /\ r.retry = s.retry
  BY <1>1, <1>2 DEF State
<1> HIDE DEF r
<1>8. DOMAIN p = 1..Len(p) /\ Len(p) \in Nat
  BY <1>2
<1>9. ASSUME NEW y \in Zone \ {z} PROVE Untouched(s, r, y)
  <2>1. ASSUME IsWaiting(r, y) PROVE IsWaiting(s, y)
    <3>1. PICK j \in 1..Len(p) : p[j] = y
      BY <2>1, <1>7, <1>8 DEF IsWaiting
    <3>2. \E k \in 1..Len(s.waiting) : p[j] = s.waiting[k]
      BY <1>2 DEF FromWithout
    <3> QED
      BY <3>1, <3>2, <1>3 DEF IsWaiting
  <2>2. ASSUME IsWaiting(s, y) PROVE IsWaiting(r, y)
    <3>1. PICK k \in 1..Len(s.waiting) : s.waiting[k] = y
      BY <2>2, <1>3 DEF IsWaiting
    <3>2. CASE ~IsWaiting(s, z)
      BY <3>2, <2>2, <1>5, <1>7 DEF IsWaiting
    <3>3. CASE IsWaiting(s, z)
      <4>1. PICK i \in 1..Len(s.waiting) :
              s.waiting[i] = z /\ p = Unlink(s.waiting, i) /\ Len(p) = Len(s.waiting) - 1
        BY <3>3, <1>5
      <4>2. k # i
        BY <3>1, <4>1, <1>9
      <4>3. \E j \in 1..(Len(s.waiting) - 1) : Unlink(s.waiting, i)[j] = s.waiting[k]
        BY <4>2, <1>3, UnlinkKeeps
      <4> QED
        BY <3>1, <4>1, <4>3, <1>7, <1>8 DEF IsWaiting
    <3> QED
      BY <3>2, <3>3
  <2> QED
    BY <2>1, <2>2, <1>7 DEF Untouched
<1>10. /\ t \in State /\ t.zones = r.zones /\ t.acl = r.acl /\ t.tried = r.tried
       /\ \A y \in Zone \ {z} : Untouched(r, t, y) \/ Served(r, t, y)
       /\ z \in r.enable => Gave(r, t, z)
       /\ z \notin r.enable => t = r
  <2>1. CASE z \in r.enable
    <3>1. SoundBut(r, z)
      <4>1. LineSound(r)
        <5>1. ASSUME NEW j \in 1..Len(p)
              PROVE  /\ p[j] \in s.zones \ {z} /\ p[j] \notin s.enable
                     /\ s.current[p[j]] # 0 /\ s.acl[p[j]] > 0
          BY <1>1, <1>2 DEF LineSound, FromWithout
        <5> QED
          BY <5>1, <1>1, <1>2, <1>7 DEF LineSound, Distinct
      <4>2. SlotsSound(r)
        BY <1>1, <1>7 DEF SlotsSound
      <4>3. \A y \in r.enable \ {z} : RoundSound(r, y)
        BY <1>1, <1>7 DEF RoundSound
      <4> QED
        BY <4>1, <4>2, <4>3, <1>7 DEF SoundBut
    <3>2. t = NotifyDisable(r, z)
      BY <2>1
    <3> HIDE DEF t
    <3>3. t \in State
      BY <2>1, <3>1, <3>2, DisableFields
    <3>4. /\ Gave(r, t, z) /\ Others(r, t, z)
          /\ t.zones = r.zones /\ t.acl = r.acl /\ t.tried = r.tried
      BY <2>1, <3>1, <3>2, DisableGives
    <3> QED
      BY <2>1, <3>3, <3>4 DEF Others
  <2>2. CASE z \notin r.enable
    <3>1. t = r
      BY <2>2
    <3> HIDE DEF t
    <3> QED
      BY <2>2, <3>1, <1>7 DEF Untouched
  <2> QED
    BY <2>1, <2>2
<1> HIDE DEF t
<1>11. /\ v.enable = t.enable /\ v.waiting = t.waiting /\ v.fd = t.fd
       /\ v.zones = t.zones /\ v.acl = t.acl /\ v.tried = t.tried
       /\ \A y \in Zone \ {z} : v.current[y] = t.current[y] /\ v.retry[y] = t.retry[y]
  <2>1. /\ t.current \in [Zone -> Nat] /\ t.retry \in [Zone -> 0..(RetryMod - 1)]
    BY <1>10 DEF State
  <2>2. /\ v.enable = t.enable /\ v.waiting = t.waiting /\ v.fd = t.fd
        /\ v.zones = t.zones /\ v.acl = t.acl /\ v.tried = t.tried
        /\ v.current = [t.current EXCEPT ![z] = 0]
        /\ v.retry = [t.retry EXCEPT ![z] = 0]
    BY <1>10 DEF State
  <2> HIDE DEF v
  <2> QED
    BY <2>1, <2>2
<1> HIDE DEF v
<1>12. Others(s, v, z)
  <2>1. ASSUME NEW y \in Zone \ {z} PROVE Untouched(s, v, y) \/ Served(s, v, y)
    <3>1. Untouched(s, r, y) /\ (Untouched(r, t, y) \/ Served(r, t, y))
      BY <2>1, <1>9, <1>10
    <3>2. Untouched(t, v, y)
      BY <2>1, <1>11 DEF Untouched, IsWaiting
    <3> QED
      BY <3>1, <3>2 DEF Untouched, Served
  <2> QED
    BY <2>1, <1>7, <1>10, <1>11 DEF Others
<1>13. CASE z \in s.enable
  <2>1. ~IsWaiting(s, z)
    BY <1>1, <1>3, <1>13 DEF LineSound, IsWaiting
  <2>2. Gave(s, v, z)
    BY <2>1, <1>5, <1>7, <1>10, <1>11, <1>13 DEF Gave
  <2> QED
    BY <2>1, <2>2, <1>6, <1>7, <1>10, <1>11, <1>12, <1>13
<1>14. CASE z \notin s.enable /\ ~IsWaiting(s, z)
  <2>1. Kept(s, v)
    BY <1>5, <1>7, <1>10, <1>11, <1>14 DEF Kept
  <2> QED
    BY <2>1, <1>6, <1>7, <1>10, <1>11, <1>12, <1>14
<1>15. CASE z \notin s.enable /\ IsWaiting(s, z)
  <2>1. v.enable = s.enable /\ v.waiting = p
    BY <1>7, <1>10, <1>11, <1>15
  <2> QED
    BY <2>1, <1>3, <1>5, <1>6, <1>7, <1>10, <1>11, <1>12, <1>15
<1> QED
  BY <1>13, <1>14, <1>15

-----------------------------------------------------------------------------
(* The slots and the line follow SlotPool.                                 *)

\* The handler of a zone that is sending keeps its slot or gives it back.
LEMMA HandlerGives ==
  ASSUME Inv, NEW z \in Zone, HandleNotifyAck(z) \/ HandleNotifyTimeout(z)
  PROVE  Kept(xfrd, xfrd') \/ Gave(xfrd, xfrd', z)
<1>1. CASE HandleNotifyAck(z)
  <2> DEFINE r == NotifyNext(xfrd, z)
             t == CountTry(r, z)
  <2>1. PICK sent \in BOOLEAN : xfrd' = SendAgain(t, z, sent)
    BY <1>1 DEF HandleNotifyAck
  <2>2. z \in xfrd.enable /\ Sound(xfrd)
    BY <1>1 DEF HandleNotifyAck, Inv
  <2>3. Sound(r) /\ (r.current[z] # 0 => z \in r.enable)
    BY <2>2, NextSound
  <2>4. \/ Kept(xfrd, r)
        \/ Gave(xfrd, r, z) /\ r.current[z] = 0
    BY <2>2, NextGives
  <2> HIDE DEF r
  <2>5. Sound(t) /\ (t.current[z] # 0 => z \in t.enable)
    BY <2>3, CountSound
  <2>6. r.current[z] = 0 => t = r
    BY DEF CountTry
  <2>7. r.current[z] # 0 => Kept(r, t) \/ Gave(r, t, z)
    BY <2>3, CountGives
  <2> HIDE DEF t
  <2>8. Kept(t, xfrd')
    BY <2>1, <2>5, SendKeeps
  <2> QED
    BY <2>4, <2>6, <2>7, <2>8 DEF Kept, Gave
<1>2. CASE HandleNotifyTimeout(z)
  <2> DEFINE t == CountTry(xfrd, z)
  <2>1. PICK sent \in BOOLEAN : xfrd' = SendAgain(t, z, sent)
    BY <1>2 DEF HandleNotifyTimeout
  <2>2. z \in xfrd.enable /\ Sound(xfrd)
    BY <1>2 DEF HandleNotifyTimeout, Inv
  <2>3. Sound(t) /\ (t.current[z] # 0 => z \in t.enable)
    BY <2>2, CountSound
  <2>4. Kept(xfrd, t) \/ Gave(xfrd, t, z)
    BY <2>2, CountGives
  <2> HIDE DEF t
  <2>5. Kept(t, xfrd')
    BY <2>1, <2>3, SendKeeps
  <2> QED
    BY <2>4, <2>5 DEF Kept, Gave
<1> QED
  BY <1>1, <1>2

\* SlotPool counts the holders as XfrdNotify counts the rounds.
LEMMA SameCount ==
  ASSUME NEW A
  PROVE  Pool!Cardinality(A) = Cardinality(A)
  BY DEF Pool!Cardinality, Cardinality

\* notify_enable of an idle zone in a sound state: it takes a free slot, or
\* gets in line when there is none.
LEMMA EnableMoves ==
  ASSUME Sound(xfrd), NEW z \in xfrd.zones, z \notin xfrd.enable,
         NEW serial \in Serial, xfrd' = NotifyEnable(xfrd, z, serial)
  PROVE  Kept(xfrd, xfrd') \/ Pool!Take(z) \/ Pool!Wait(z)
<1>1. /\ xfrd.num \in Nat /\ MaxUdpNotify \in Nat
      /\ xfrd.num = Cardinality(xfrd.enable)
  BY Fields, SlotAssumption DEF Sound, SlotsSound
<1>2. CASE xfrd.acl[z] = 0 \/ IsWaiting(xfrd, z)
  <2>1. Kept(xfrd, NotifyEnable(xfrd, z, serial))
    BY <1>2, EnableAsks DEF Kept
  <2> QED
    BY <2>1
<1>3. CASE xfrd.acl[z] # 0 /\ ~IsWaiting(xfrd, z) /\ xfrd.num < MaxUdpNotify
  <2>1. /\ xfrd.waiting = <<>> /\ xfrd'.waiting = xfrd.waiting
        /\ xfrd'.enable = xfrd.enable \cup {z}
    BY <1>3, EnableAsks
  <2>2. Pool!Take(z)
    BY <2>1, <1>1, <1>3, SameCount DEF Pool!Take, Pool!Full, Pool!InLine, IsWaiting
  <2> QED
    BY <2>2
<1>4. CASE xfrd.acl[z] # 0 /\ ~IsWaiting(xfrd, z) /\ ~(xfrd.num < MaxUdpNotify)
  <2>1. xfrd'.waiting = Append(xfrd.waiting, z) /\ xfrd'.enable = xfrd.enable
    BY <1>4, EnableAsks
  <2>2. Pool!Wait(z)
    BY <2>1, <1>1, <1>4, SameCount DEF Pool!Wait, Pool!Full, Pool!InLine, IsWaiting
  <2> QED
    BY <2>2
<1> QED
  BY <1>2, <1>3, <1>4

\* Restarting the round of a zone: it keeps its slot when nobody waits, and
\* queues behind those in line otherwise.
LEMMA RestartMoves ==
  ASSUME Inv, NEW z \in Zone, Configured(z), NEW serial \in Serial,
         Restart(z, serial)
  PROVE  Kept(xfrd, xfrd') \/ Pool!Take(z) \/ Pool!Wait(z) \/ Pool!Requeue(z)
<1>1. Sound(xfrd) /\ z \in xfrd.zones
  BY DEF Inv, Configured
<1>2. CASE z \notin xfrd.enable
  <2>1. xfrd' = NotifyEnable(xfrd, z, serial)
    BY <1>2 DEF Restart
  <2> QED
    BY <1>1, <1>2, <2>1, EnableMoves
<1>3. CASE z \in xfrd.enable
  <2> DEFINE r == NotifyDisable(xfrd, z)
  <2>1. xfrd' = NotifyEnable(r, z, serial)
    BY <1>3 DEF Restart
  <2>2. SoundBut(xfrd, z)
    BY <1>1 DEF Sound, SoundBut
  <2>3. Sound(r) /\ z \notin r.enable
    BY <1>3, <2>2, DisableSound
  <2>4. /\ Gave(xfrd, r, z) /\ ~IsWaiting(r, z)
        /\ r.zones = xfrd.zones /\ r.acl = xfrd.acl
    BY <1>3, <2>2, DisableGives
  <2>5. /\ Len(xfrd.waiting) = 0 => r.num = xfrd.num - 1 /\ xfrd.waiting = <<>>
        /\ Len(xfrd.waiting) > 0 => r.num = MaxUdpNotify
    <3>1. /\ Len(xfrd.waiting) = 0 => Freed(xfrd, r, z)
          /\ Len(xfrd.waiting) > 0 => HandedOver(xfrd, r, z)
      BY <1>3, <2>2, DisableFields
    <3> HIDE DEF r
    <3> QED
      BY <3>1 DEF Freed, HandedOver
  <2> HIDE DEF r
  <2>6. r.acl[z] # 0 /\ z \in r.zones
    <3>1. RoundSound(xfrd, z) /\ xfrd.acl \in [Zone -> Nat]
      BY <1>1, <1>3, Fields DEF Sound
    <3> QED
      BY <3>1, <2>4 DEF RoundSound
  <2>7. /\ xfrd.num \in Nat /\ xfrd.num <= MaxUdpNotify /\ MaxUdpNotify \in Nat
        /\ Len(xfrd.waiting) \in Nat /\ xfrd.waiting \in Seq(Zone)
    BY <1>1, Fields, SlotAssumption DEF Sound, SlotsSound
  <2>8. CASE Len(xfrd.waiting) = 0
    <3>1. r.num < MaxUdpNotify
      BY <2>5, <2>7, <2>8
    <3>2. xfrd'.waiting = r.waiting /\ xfrd'.enable = r.enable \cup {z}
      BY <2>1, <2>3, <2>4, <2>6, <3>1, EnableAsks
    <3>3. Kept(xfrd, xfrd')
      BY <3>2, <2>4, <2>5, <2>8 DEF Kept, Gave
    <3> QED
      BY <3>3
  <2>9. CASE Len(xfrd.waiting) > 0
    <3>1. ~(r.num < MaxUdpNotify) /\ xfrd.waiting # <<>>
      BY <2>5, <2>7, <2>9
    <3>2. xfrd'.waiting = Append(r.waiting, z) /\ xfrd'.enable = r.enable
      BY <2>1, <2>3, <2>4, <2>6, <3>1, EnableAsks
    <3>3. Pool!Requeue(z)
      BY <3>1, <3>2, <2>4 DEF Pool!Requeue, Gave
    <3> QED
      BY <3>3
  <2> QED
    BY <2>7, <2>8, <2>9
<1> QED
  BY <1>2, <1>3

\* Every handler of the NOTIFY sender is a step of SlotPool, or leaves slots
\* and line alone.
LEMMA PoolStep ==
  ASSUME Inv, [Next]_xfrd
  PROVE  [Pool!PoolNext]_(Pool!poolVars)
<1>1. ASSUME Kept(xfrd, xfrd') PROVE UNCHANGED Pool!poolVars
  BY <1>1 DEF Kept, Pool!poolVars
<1>2. ASSUME NEW z \in Zone, Gave(xfrd, xfrd', z) PROVE Pool!Give(z)
  BY <1>2 DEF Gave, Pool!Give
<1>3. ASSUME NEW z \in Zone, InitNotifySend(z) PROVE Kept(xfrd, xfrd')
  BY <1>3 DEF InitNotifySend, Inv, Sound, State, Kept
<1>4. ASSUME NEW z \in Zone, DelNotify(z)
      PROVE  Kept(xfrd, xfrd') \/ Pool!Give(z) \/ Pool!Leave(z)
  <2>1. xfrd' = DelNotifyZone(xfrd, z) /\ Sound(xfrd)
    BY <1>4 DEF DelNotify, Inv
  <2>2. CASE z \in xfrd.enable
    BY <2>1, <2>2, <1>2, DelLeaves
  <2>3. CASE z \notin xfrd.enable /\ ~IsWaiting(xfrd, z)
    BY <2>1, <2>3, DelLeaves
  <2>4. CASE z \notin xfrd.enable /\ IsWaiting(xfrd, z)
    <3>1. /\ xfrd'.enable = xfrd.enable
          /\ \E i \in DOMAIN xfrd.waiting :
               xfrd.waiting[i] = z /\ xfrd'.waiting = Unlink(xfrd.waiting, i)
      BY <2>1, <2>4, DelLeaves
    <3>2. Pool!Leave(z)
      BY <3>1 DEF Pool!Leave, Unlink
    <3> QED
      BY <3>2
  <2> QED
    BY <2>2, <2>3, <2>4
<1>5. ASSUME NEW z \in Zone, HandleNotifyAck(z) \/ HandleNotifyTimeout(z)
      PROVE  Kept(xfrd, xfrd') \/ Pool!Give(z)
  BY <1>2, <1>5, HandlerGives
<1>6. ASSUME NEW z \in Zone, NotifyStart(z)
      PROVE  Kept(xfrd, xfrd') \/ Pool!Take(z) \/ Pool!Wait(z)
  <2>1. PICK serial \in Serial : xfrd' = NotifyStartZone(xfrd, z, serial)
    BY <1>6 DEF NotifyStart
  <2>2. z \in xfrd.zones /\ Sound(xfrd)
    BY <1>6 DEF NotifyStart, Configured, Inv
  <2>3. CASE IsWaiting(xfrd, z) \/ z \in xfrd.enable
    BY <2>1, <2>3 DEF NotifyStartZone, Kept
  <2>4. CASE ~(IsWaiting(xfrd, z) \/ z \in xfrd.enable)
    BY <2>1, <2>2, <2>4, EnableMoves DEF NotifyStartZone
  <2> QED
    BY <2>3, <2>4
<1>7. ASSUME NEW z \in Zone, SendNotify(z) \/ HandleMasterZoneSoainfo(z)
      PROVE  Kept(xfrd, xfrd') \/ Pool!Take(z) \/ Pool!Wait(z) \/ Pool!Requeue(z)
  BY <1>7, RestartMoves DEF SendNotify, HandleMasterZoneSoainfo
<1>8. CASE UNCHANGED xfrd
  BY <1>8 DEF Pool!poolVars
<1>9. CASE Next
  <2>1. PICK z \in Zone :
          Kept(xfrd, xfrd') \/ Pool!Take(z) \/ Pool!Wait(z) \/ Pool!Give(z)
            \/ Pool!Requeue(z) \/ Pool!Leave(z)
    BY <1>3, <1>4, <1>5, <1>6, <1>7, <1>9 DEF Next
  <2> QED
    BY <1>1, <2>1 DEF Pool!PoolNext
<1> QED
  BY <1>8, <1>9

\* The NOTIFY sender implements SlotPool: no slot is lost, handed to a zone
\* out of turn, or taken past those in line.
THEOREM PoolIsImplemented == Spec => PoolBehaviour
<1>1. Init => Pool!PoolInit
  BY DEF Init, Pool!PoolInit
<1>2. Inv /\ [Next]_xfrd => [Pool!PoolNext]_(Pool!poolVars)
  BY PoolStep
<1> QED
  BY <1>1, <1>2, Soundness, PTL DEF Spec, PoolBehaviour, Pool!PoolSpec

-----------------------------------------------------------------------------
(* No round ends early.                                                    *)

\* Where the round of z stands: the secondaries before the current one were
\* tried, the current one too once a packet was sent or a try counted, and
\* all of them when the zone is idle.
RoundOf(s, z) ==
  /\ s.tried[z] \subseteq 1..s.acl[z]
  /\ z \in s.enable =>
       /\ 1..(s.current[z] - 1) \subseteq s.tried[z]
       /\ z \in s.fd \/ s.retry[z] > 0 => s.current[z] \in s.tried[z]
  /\ z \notin s.enable /\ ~IsWaiting(s, z) => s.tried[z] = 1..s.acl[z]

RoundsBut(s, z) == \A y \in s.zones \ {z} : RoundOf(s, y)

Rounds(s) == \A y \in s.zones : RoundOf(s, y)

\* The same in the middle of the handler of z, which still has to send.
MidRound(s, z) ==
  /\ s.tried[z] \subseteq 1..s.acl[z]
  /\ z \in s.enable => 1..(s.current[z] - 1) \subseteq s.tried[z]
  /\ z \notin s.enable => /\ ~IsWaiting(s, z) /\ s.current[z] = 0
                          /\ s.tried[z] = 1..s.acl[z]

\* A step about z leaves the rounds of the other zones where they are.
LEMMA OthersRounds ==
  ASSUME NEW s, NEW t \in State, NEW z, Others(s, t, z), RoundsBut(s, z)
  PROVE  RoundsBut(t, z)
<1> SUFFICES ASSUME NEW y \in t.zones \ {z} PROVE RoundOf(t, y)
  BY DEF RoundsBut
<1>1. y \in Zone \ {z}
  BY DEF State
<1>2. /\ t.acl[y] = s.acl[y] /\ t.tried[y] = s.tried[y] /\ y \in s.zones
      /\ Untouched(s, t, y) \/ Served(s, t, y)
  BY <1>1 DEF Others
<1>3. RoundOf(s, y)
  BY <1>1, <1>2 DEF RoundsBut
<1>4. CASE Untouched(s, t, y)
  BY <1>2, <1>3, <1>4 DEF Untouched, RoundOf
<1>5. CASE Served(s, t, y)
  BY <1>2, <1>3, <1>5 DEF Served, RoundOf
<1> QED
  BY <1>2, <1>4, <1>5

\* xfrd_notify_next after the current secondary was tried.
LEMMA NextRound ==
  ASSUME NEW s, Sound(s), NEW z \in s.enable,
         s.tried[z] \subseteq 1..s.acl[z], 1..s.current[z] \subseteq s.tried[z]
  PROVE  LET t == NotifyNext(s, z)
         IN  MidRound(t, z) /\ (z \in t.enable => t.retry[z] = 0)
<1> DEFINE t == NotifyNext(s, z)
<1>1. s.current[z] \in Nat /\ s.acl[z] \in Nat
  BY Fields DEF Sound, State
<1>2. CASE s.current[z] # s.acl[z]
  <2>1. /\ t.acl = s.acl /\ t.tried = s.tried /\ Kept(s, t)
        /\ t.current[z] = s.current[z] + 1 /\ t.retry[z] = 0
    BY <1>2, NextGives
  <2> HIDE DEF t
  <2>2. t.current[z] - 1 = s.current[z] /\ z \in t.enable
    BY <2>1, <1>1 DEF Kept
  <2> QED
    BY <2>1, <2>2 DEF MidRound, t
<1>3. CASE s.current[z] = s.acl[z]
  <2>1. /\ t.acl = s.acl /\ t.tried = s.tried
        /\ z \notin t.enable /\ ~IsWaiting(t, z) /\ t.current[z] = 0
    BY <1>3, NextGives
  <2> HIDE DEF t
  <2>2. s.tried[z] = 1..s.acl[z]
    BY <1>3
  <2> QED
    BY <2>1, <2>2 DEF MidRound, t
<1> QED
  BY <1>2, <1>3

\* Counting a try: a secondary is given up only after a packet was sent to it.
LEMMA CountRound ==
  ASSUME NEW s, Sound(s), NEW z \in s.enable, NotifyRetry > 0, MidRound(s, z),
         s.retry[z] > 0 => s.current[z] \in s.tried[z]
  PROVE  MidRound(CountTry(s, z), z)
<1> DEFINE t == CountTry(s, z)
           more == s.current[z] # s.acl[z]
<1>1. s.current[z] \in 1..s.acl[z] /\ s.acl[z] \in Nat /\ s.retry[z] \in Nat
  <2>1. s \in State /\ z \in Zone /\ s.current[z] \in 1..s.acl[z]
    BY DEF Sound, State, RoundSound
  <2>2. s.acl \in [Zone -> Nat] /\ s.retry \in [Zone -> 0..(RetryMod - 1)]
    BY <2>1, Fields DEF State
  <2> QED
    BY <2>1, <2>2, RetryAssumption
<1>2. /\ t.acl = s.acl /\ t.tried = s.tried
      /\ \/ Kept(s, t) /\ t.current[z] = s.current[z]
         \/ /\ s.retry[z] >= NotifyRetry
            /\ more => Kept(s, t) /\ t.current[z] = s.current[z] + 1
            /\ ~more => z \notin t.enable /\ ~IsWaiting(t, z) /\ t.current[z] = 0
  BY CountGives
<1> HIDE DEF t
<1>3. CASE Kept(s, t) /\ t.current[z] = s.current[z]
  BY <1>2, <1>3 DEF MidRound, Kept, t
<1>4. CASE s.retry[z] >= NotifyRetry /\ ~(Kept(s, t) /\ t.current[z] = s.current[z])
  <2>1. s.current[z] \in s.tried[z]
    BY <1>1, <1>4, RetryAssumption
  <2>2. \A i \in 1..s.current[z] : i \in 1..(s.current[z] - 1) \/ i = s.current[z]
    BY <1>1
  <2>3. 1..s.current[z] \subseteq s.tried[z]
    BY <2>1, <2>2 DEF MidRound
  <2>4. CASE more
    <3>1. Kept(s, t) /\ t.current[z] - 1 = s.current[z]
      BY <2>4, <1>1, <1>2, <1>4
    <3> QED
      BY <3>1, <2>3, <1>2 DEF MidRound, Kept, t
  <2>5. CASE ~more
    <3>1. s.tried[z] = 1..s.acl[z]
      BY <2>3, <2>5 DEF MidRound
    <3>2. z \notin t.enable /\ ~IsWaiting(t, z) /\ t.current[z] = 0
      BY <2>5, <1>2, <1>4
    <3> QED
      BY <3>1, <3>2, <1>2 DEF MidRound, t
  <2> QED
    BY <2>4, <2>5
<1> QED
  BY <1>2, <1>3, <1>4

\* Sending ends the handler.
LEMMA SendRound ==
  ASSUME NEW s, Sound(s), NEW z \in Zone, s.current[z] # 0 => z \in s.enable,
         NEW sent \in BOOLEAN, MidRound(s, z)
  PROVE  RoundOf(SendAgain(s, z, sent), z)
<1> DEFINE t == SendAgain(s, z, sent)
<1>1. /\ Kept(s, t) /\ t.acl = s.acl /\ t.current = s.current
      /\ s.current[z] = 0 => t = s
      /\ s.current[z] # 0 => t.tried[z] = s.tried[z] \cup {s.current[z]}
  BY SendKeeps
<1> HIDE DEF t
<1>2. z \in s.enable => s.current[z] # 0 /\ s.current[z] \in 1..s.acl[z]
  BY DEF Sound, RoundSound
<1>3. CASE s.current[z] = 0
  BY <1>1, <1>2, <1>3 DEF MidRound, RoundOf, t
<1>4. CASE s.current[z] # 0
  BY <1>1, <1>2, <1>4 DEF MidRound, RoundOf, Kept, t
<1> QED
  BY <1>3, <1>4

\* The handler of a zone that is sending.
LEMMA HandlerRounds ==
  ASSUME Inv, Rounds(xfrd), NotifyRetry > 0, NEW z \in Zone,
         HandleNotifyAck(z) \/ HandleNotifyTimeout(z)
  PROVE  RoundsBut(xfrd', z) /\ RoundOf(xfrd', z)
<1>1. Sound(xfrd) /\ z \in xfrd.enable /\ z \in xfrd.zones
  BY DEF HandleNotifyAck, HandleNotifyTimeout, Inv, Sound, RoundSound
<1>2. RoundOf(xfrd, z) /\ RoundsBut(xfrd, z)
  BY <1>1 DEF Rounds, RoundsBut
<1>3. xfrd' \in State
  BY HandlerInv DEF Sound
<1>4. xfrd.current[z] \in Nat
  BY <1>1, Fields DEF Sound
<1>5. ASSUME NEW t, Sound(t), t.current[z] # 0 => z \in t.enable,
             RoundsBut(t, z), MidRound(t, z),
             NEW sent \in BOOLEAN, xfrd' = SendAgain(t, z, sent)
      PROVE  RoundsBut(xfrd', z) /\ RoundOf(xfrd', z)
  <2>1. Others(t, xfrd', z)
    BY <1>5, SendKeeps
  <2>2. RoundOf(xfrd', z)
    BY <1>5, SendRound
  <2> QED
    BY <2>1, <2>2, <1>3, <1>5, OthersRounds
<1>6. CASE HandleNotifyAck(z)
  <2> DEFINE r == NotifyNext(xfrd, z)
             t == CountTry(r, z)
  <2>1. PICK sent \in BOOLEAN : xfrd' = SendAgain(t, z, sent)
    BY <1>6 DEF HandleNotifyAck
  <2>2. xfrd.current[z] \in xfrd.tried[z]
    BY <1>1, <1>2, <1>6 DEF HandleNotifyAck, RoundOf
  <2>3. \A i \in 1..xfrd.current[z] : i \in 1..(xfrd.current[z] - 1) \/ i = xfrd.current[z]
    BY <1>4
  <2>4. 1..xfrd.current[z] \subseteq xfrd.tried[z] /\ xfrd.tried[z] \subseteq 1..xfrd.acl[z]
    BY <2>2, <2>3, <1>1, <1>2 DEF RoundOf
  <2>5. Sound(r) /\ (r.current[z] # 0 => z \in r.enable)
    BY <1>1, NextSound
  <2>6. MidRound(r, z) /\ (z \in r.enable => r.retry[z] = 0)
    BY <2>4, <1>1, NextRound
  <2>7. Others(xfrd, r, z)
    BY <1>1, NextGives
  <2> HIDE DEF r
  <2>8. RoundsBut(r, z)
    BY <2>5, <2>7, <1>2, OthersRounds DEF Sound
  <2>9. Sound(t) /\ (t.current[z] # 0 => z \in t.enable)
    BY <2>5, CountSound
  <2>10. CASE r.current[z] = 0
    <3>1. t = r
      BY <2>10 DEF CountTry
    <3> QED
      BY <3>1, <2>1, <2>5, <2>6, <2>8, <1>5
  <2>11. CASE r.current[z] # 0
    <3>1. z \in r.enable /\ ~(r.retry[z] > 0)
      BY <2>5, <2>6, <2>11
    <3>2. MidRound(t, z)
      BY <3>1, <2>5, <2>6, CountRound
    <3>3. Others(r, t, z)
      BY <3>1, <2>5, CountGives
    <3> HIDE DEF t
    <3>4. RoundsBut(t, z)
      BY <3>3, <2>8, <2>9, OthersRounds DEF Sound
    <3> QED
      BY <3>2, <3>4, <2>1, <2>9, <1>5
  <2> QED
    BY <2>10, <2>11
<1>7. CASE HandleNotifyTimeout(z)
  <2> DEFINE t == CountTry(xfrd, z)
  <2>1. PICK sent \in BOOLEAN : xfrd' = SendAgain(t, z, sent)
    BY <1>7 DEF HandleNotifyTimeout
  <2>2. Sound(t) /\ (t.current[z] # 0 => z \in t.enable)
    BY <1>1, CountSound
  <2>3. MidRound(xfrd, z) /\ (xfrd.retry[z] > 0 => xfrd.current[z] \in xfrd.tried[z])
    BY <1>1, <1>2 DEF RoundOf, MidRound
  <2>4. MidRound(t, z)
    BY <2>3, <1>1, CountRound
  <2>5. Others(xfrd, t, z)
    BY <1>1, CountGives
  <2> HIDE DEF t
  <2>6. RoundsBut(t, z)
    BY <2>2, <2>5, <1>2, OthersRounds DEF Sound
  <2> QED
    BY <2>1, <2>2, <2>4, <2>6, <1>5
<1> QED
  BY <1>6, <1>7

\* A zone that was asked to send, and sends or waits after notify_enable.
LEMMA EnableRound ==
  ASSUME NEW s, Sound(s), NEW z \in s.zones, z \notin s.enable,
         NEW serial \in Serial,
         s.acl[z] = 0 => RoundOf(s, z)
  PROVE  RoundOf(NotifyEnable(s, z, serial), z)
<1> DEFINE t == NotifyEnable(s, z, serial)
<1>1. /\ t.acl = s.acl
      /\ s.acl[z] = 0 => t = s
      /\ s.acl[z] # 0 => t.tried[z] = {}
      /\ s.acl[z] # 0 /\ IsWaiting(s, z) => Kept(s, t) /\ IsWaiting(t, z)
      /\ s.acl[z] # 0 /\ ~IsWaiting(s, z) /\ s.num < MaxUdpNotify =>
           /\ t.enable = s.enable \cup {z} /\ z \notin t.fd
           /\ t.current[z] = 1 /\ t.retry[z] = 0
      /\ s.acl[z] # 0 /\ ~IsWaiting(s, z) /\ ~(s.num < MaxUdpNotify) =>
           t.enable = s.enable /\ IsWaiting(t, z)
  BY EnableAsks
<1> HIDE DEF t
<1>2. CASE s.acl[z] = 0
  BY <1>1, <1>2 DEF t
<1>3. CASE s.acl[z] # 0 /\ IsWaiting(s, z)
  BY <1>1, <1>3 DEF Kept, RoundOf, t
<1>4. CASE s.acl[z] # 0 /\ ~IsWaiting(s, z) /\ s.num < MaxUdpNotify
  <2>1. 1..(t.current[z] - 1) = {}
    BY <1>1, <1>4
  <2> QED
    BY <2>1, <1>1, <1>4 DEF RoundOf, t
<1>5. CASE s.acl[z] # 0 /\ ~IsWaiting(s, z) /\ ~(s.num < MaxUdpNotify)
  BY <1>1, <1>5 DEF RoundOf, t
<1> QED
  BY <1>2, <1>3, <1>4, <1>5

\* Restarting a round, sending or not.
LEMMA RestartRounds ==
  ASSUME Inv, Rounds(xfrd), NEW z \in Zone, Configured(z), NEW serial \in Serial,
         Restart(z, serial)
  PROVE  RoundsBut(xfrd', z) /\ RoundOf(xfrd', z)
<1> DEFINE r == IF z \in xfrd.enable THEN NotifyDisable(xfrd, z) ELSE xfrd
<1>1. xfrd' = NotifyEnable(r, z, serial)
  BY DEF Restart
<1>2. Sound(xfrd) /\ z \in xfrd.zones /\ RoundOf(xfrd, z) /\ RoundsBut(xfrd, z)
  BY DEF Inv, Configured, Rounds, RoundsBut
<1>3. /\ Sound(r) /\ z \in r.zones /\ z \notin r.enable /\ RoundsBut(r, z)
      /\ r.acl[z] = 0 => RoundOf(r, z)
  <2>1. CASE z \in xfrd.enable
    <3>1. SoundBut(xfrd, z)
      BY <1>2 DEF Sound, SoundBut
    <3>2. r = NotifyDisable(xfrd, z)
      BY <2>1
    <3> HIDE DEF r
    <3>3. Sound(r) /\ z \notin r.enable /\ r.zones = xfrd.zones /\ r.acl = xfrd.acl
      BY <3>1, <3>2, <2>1, DisableSound
    <3>4. Others(xfrd, r, z)
      BY <3>1, <3>2, <2>1, DisableGives
    <3>5. RoundsBut(r, z)
      BY <3>3, <3>4, <1>2, OthersRounds DEF Sound
    <3>6. xfrd.acl[z] # 0
      <4>1. xfrd.current[z] \in 1..xfrd.acl[z] /\ xfrd.acl \in [Zone -> Nat]
        BY <2>1, <1>2, Fields DEF Sound, RoundSound
      <4> QED
        BY <4>1
    <3> QED
      BY <3>3, <3>5, <3>6, <1>2
  <2>2. CASE z \notin xfrd.enable
    BY <2>2, <1>2
  <2> QED
    BY <2>1, <2>2
<1> HIDE DEF r
<1>4. RoundOf(xfrd', z)
  BY <1>1, <1>3, EnableRound
<1>5. Others(r, xfrd', z)
  BY <1>1, <1>3, EnableAsks
<1>6. xfrd' \in State
  BY RestartInv DEF Sound
<1> QED
  BY <1>3, <1>4, <1>5, <1>6, OthersRounds

\* Every handler keeps the rounds complete.
LEMMA RoundsStep ==
  ASSUME Inv, Rounds(xfrd), NotifyRetry > 0, [Next]_xfrd
  PROVE  Rounds(xfrd')
<1>1. xfrd' \in State /\ Sound(xfrd)
  BY NextInv DEF Inv, Sound
<1>2. ASSUME NEW z, RoundsBut(xfrd', z), RoundOf(xfrd', z) PROVE Rounds(xfrd')
  BY <1>2 DEF Rounds, RoundsBut
<1>3. \A z : RoundsBut(xfrd, z)
  BY DEF Rounds, RoundsBut
<1>4. CASE UNCHANGED xfrd
  BY <1>4
<1>5. ASSUME NEW z \in Zone, InitNotifySend(z) PROVE Rounds(xfrd')
  <2>1. PICK len \in AclLen :
          xfrd' = [xfrd EXCEPT !.zones = @ \cup {z}, !.acl[z] = len,
                               !.tried[z] = 1..len]
    BY <1>5 DEF InitNotifySend
  <2>2. xfrd \in State
    BY <1>1 DEF Sound
  <2>3. /\ xfrd'.zones = xfrd.zones \cup {z}
        /\ xfrd'.acl = [xfrd.acl EXCEPT ![z] = len]
        /\ xfrd'.tried = [xfrd.tried EXCEPT ![z] = 1..len]
        /\ xfrd'.enable = xfrd.enable /\ xfrd'.fd = xfrd.fd
        /\ xfrd'.current = xfrd.current /\ xfrd'.retry = xfrd.retry
        /\ xfrd'.waiting = xfrd.waiting
    BY <2>1, <2>2 DEF State
  <2>4. xfrd'.acl[z] = len /\ xfrd'.tried[z] = 1..len
    BY <2>2, <2>3 DEF State
  <2>5. z \notin xfrd.enable
    BY <1>1, <1>5 DEF InitNotifySend, Configured, Sound, RoundSound
  <2>6. RoundOf(xfrd', z)
    BY <2>3, <2>4, <2>5 DEF RoundOf
  <2>7. ASSUME NEW y \in Zone \ {z}
        PROVE  xfrd'.acl[y] = xfrd.acl[y] /\ xfrd'.tried[y] = xfrd.tried[y]
    BY <2>2, <2>3, <2>7 DEF State
  <2>8. \A y : Untouched(xfrd, xfrd', y)
    BY <2>3 DEF Untouched, IsWaiting
  <2>9. Others(xfrd, xfrd', z)
    BY <2>3, <2>7, <2>8 DEF Others
  <2> QED
    BY <2>6, <2>9, <1>1, <1>2, <1>3, OthersRounds
<1>6. ASSUME NEW z \in Zone, DelNotify(z) PROVE Rounds(xfrd')
  <2>1. Others(xfrd, xfrd', z) /\ xfrd'.zones = xfrd.zones \ {z}
    BY <1>1, <1>6, DelLeaves DEF DelNotify
  <2>2. RoundsBut(xfrd', z)
    BY <2>1, <1>1, <1>3, OthersRounds
  <2> QED
    BY <2>1, <2>2 DEF Rounds, RoundsBut
<1>7. ASSUME NEW z \in Zone, HandleNotifyAck(z) \/ HandleNotifyTimeout(z)
      PROVE  Rounds(xfrd')
  BY <1>2, <1>7, HandlerRounds
<1>8. ASSUME NEW z \in Zone, NotifyStart(z) PROVE Rounds(xfrd')
  <2>1. PICK serial \in Serial : xfrd' = NotifyStartZone(xfrd, z, serial)
    BY <1>8 DEF NotifyStart
  <2>2. z \in xfrd.zones /\ RoundOf(xfrd, z)
    BY <1>8 DEF NotifyStart, Configured, Rounds
  <2>3. CASE IsWaiting(xfrd, z) \/ z \in xfrd.enable
    BY <2>1, <2>3 DEF NotifyStartZone
  <2>4. CASE ~(IsWaiting(xfrd, z) \/ z \in xfrd.enable)
    <3>1. xfrd' = NotifyEnable(xfrd, z, serial)
      BY <2>1, <2>4 DEF NotifyStartZone
    <3>2. RoundOf(xfrd', z)
      BY <3>1, <2>2, <2>4, <1>1, EnableRound
    <3>3. Others(xfrd, xfrd', z)
      BY <3>1, <2>2, <2>4, <1>1, EnableAsks
    <3> QED
      BY <3>2, <3>3, <1>1, <1>2, <1>3, OthersRounds
  <2> QED
    BY <2>3, <2>4
<1>9. ASSUME NEW z \in Zone, SendNotify(z) \/ HandleMasterZoneSoainfo(z)
      PROVE  Rounds(xfrd')
  BY <1>2, <1>9, RestartRounds DEF SendNotify, HandleMasterZoneSoainfo
<1> QED
  BY <1>4, <1>5, <1>6, <1>7, <1>8, <1>9 DEF Next

\* A round that ended has tried every secondary of the list, for any number of
\* zones, slots, secondaries and retries but zero: with notify-retry: 0 the
\* first try exceeds the limit already, and the first secondary is skipped.
THEOREM RoundsAreComplete ==
  ASSUME NotifyRetry > 0
  PROVE  Spec => []RoundComplete
<1>1. Init => Rounds(xfrd)
  <2> SUFFICES ASSUME Init PROVE Rounds(xfrd)
    OBVIOUS
  <2>1. PICK a \in [Zone -> AclLen] :
          /\ xfrd.zones = Zone /\ xfrd.acl = a /\ xfrd.enable = {}
          /\ xfrd.tried = [z \in Zone |-> 1..a[z]]
    BY DEF Init
  <2> QED
    BY <2>1 DEF Rounds, RoundOf
<1>2. Inv /\ Rounds(xfrd) /\ [Next]_xfrd => Rounds(xfrd)'
  BY RoundsStep
<1>3. Rounds(xfrd) => RoundComplete
  BY DEF Rounds, RoundOf, RoundComplete
<1> QED
  BY <1>1, <1>2, <1>3, Soundness, PTL DEF Spec
=============================================================================
