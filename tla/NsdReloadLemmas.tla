--------------------------- MODULE NsdReloadLemmas --------------------------
(***************************************************************************)
(* Facts about the sockets, task files and processes of NsdReload, and     *)
(* what its two composite actions, xfrd_handle_ipc and the round of        *)
(* netio_dispatch, do field by field.                                      *)
(***************************************************************************)
EXTENDS NsdReloadInv, FiniteSetTheorems, TLAPS

-----------------------------------------------------------------------------
(* Sockets.                                                                *)

(* Append adds one element behind the ones that are there.                 *)
LEMMA AppendFacts ==
  ASSUME NEW S, NEW q \in Seq(S), NEW e \in S
  PROVE  /\ Append(q, e) \in Seq(S) /\ Append(q, e) # <<>>
         /\ Len(Append(q, e)) = Len(q) + 1
         /\ Append(q, e)[Len(q) + 1] = e
         /\ \A i \in DOMAIN q : Append(q, e)[i] = q[i]
         /\ DOMAIN Append(q, e) = DOMAIN q \cup {Len(q) + 1}
         /\ Len(q) + 1 \notin DOMAIN q
         /\ DOMAIN q = 1..Len(q) /\ Len(q) \in Nat
  OBVIOUS

(* What a socket holds after a command was written to it.                  *)
LEMMA AppendHas ==
  ASSUME NEW S, NEW q \in Seq(S), NEW e \in S
  PROVE  /\ Range(Append(q, e)) = Range(q) \cup {e}
         /\ \A c : Has(Append(q, e), c) <=> Has(q, c) \/ e = c
         /\ \A c : Once(q, c) /\ ~(e = c /\ Has(q, c)) => Once(Append(q, e), c)
<1>1. Range(Append(q, e)) = Range(q) \cup {e}
  BY AppendFacts DEF Range
<1>2. \A c : Has(Append(q, e), c) <=> Has(q, c) \/ e = c
  BY AppendFacts DEF Has
<1>3. \A c : Once(q, c) /\ ~(e = c /\ Has(q, c)) => Once(Append(q, e), c)
  BY AppendFacts DEF Has, Once
<1> QED
  BY <1>1, <1>2, <1>3

(* Tail moves every element but the first one forward.                     *)
LEMMA TailFacts ==
  ASSUME NEW S, NEW q \in Seq(S), q # <<>>
  PROVE  /\ Head(q) \in S /\ Tail(q) \in Seq(S)
         /\ Len(Tail(q)) = Len(q) - 1 /\ Len(q) \in Nat \ {0}
         /\ DOMAIN Tail(q) = 1..(Len(q) - 1) /\ DOMAIN q = 1..Len(q)
         /\ \A i \in DOMAIN Tail(q) : Tail(q)[i] = q[i + 1] /\ i + 1 \in DOMAIN q
         /\ Head(q) = q[1] /\ 1 \in DOMAIN q
         /\ \A i \in DOMAIN q : i = 1 \/ (i - 1 \in DOMAIN Tail(q) /\ q[i] = Tail(q)[i - 1])
  OBVIOUS

(* What a socket holds after a command was read from it.                   *)
LEMMA TailHas ==
  ASSUME NEW S, NEW q \in Seq(S), q # <<>>
  PROVE  /\ Range(q) = {Head(q)} \cup Range(Tail(q))
         /\ \A c : Has(q, c) <=> Has(Tail(q), c) \/ Head(q) = c
         /\ \A c : Once(q, c) => Once(Tail(q), c) /\ (Head(q) = c => ~Has(Tail(q), c))
<1>0. /\ Head(q) = q[1] /\ 1 \in DOMAIN q
      /\ \A i \in DOMAIN Tail(q) : Tail(q)[i] = q[i + 1] /\ i + 1 \in DOMAIN q
      /\ \A i \in DOMAIN q : i = 1 \/ (i - 1 \in DOMAIN Tail(q) /\ q[i] = Tail(q)[i - 1])
  BY TailFacts
<1>1. Range(q) = {Head(q)} \cup Range(Tail(q))
  <2>1. \A i \in DOMAIN q : q[i] = Head(q) \/ \E j \in DOMAIN Tail(q) : q[i] = Tail(q)[j]
    BY <1>0
  <2>2. \A i \in DOMAIN Tail(q) : \E j \in DOMAIN q : Tail(q)[i] = q[j]
    BY <1>0
  <2> QED
    BY <1>0, <2>1, <2>2 DEF Range
<1>2. \A c : Has(q, c) <=> Has(Tail(q), c) \/ Head(q) = c
  BY <1>0 DEF Has
<1>3. \A c : Once(q, c) => Once(Tail(q), c)
  <2> SUFFICES ASSUME NEW c, Once(q, c), NEW i \in DOMAIN Tail(q), NEW j \in DOMAIN Tail(q),
                      Tail(q)[i] = c, Tail(q)[j] = c
               PROVE  i = j
    BY DEF Once
  <2>1. i + 1 \in DOMAIN q /\ j + 1 \in DOMAIN q /\ q[i + 1] = c /\ q[j + 1] = c
    BY TailFacts
  <2>2. i + 1 = j + 1
    BY <2>1 DEF Once
  <2> QED
    BY <2>2, TailFacts
<1>4. \A c : Once(q, c) /\ Head(q) = c => ~Has(Tail(q), c)
  <2> SUFFICES ASSUME NEW c, Once(q, c), q[1] = c, NEW i \in DOMAIN Tail(q), Tail(q)[i] = c
               PROVE  FALSE
    BY TailFacts DEF Has
  <2>1. i + 1 \in DOMAIN q /\ q[i + 1] = c /\ 1 \in DOMAIN q
    BY TailFacts
  <2>2. i + 1 = 1
    BY <2>1 DEF Once
  <2> QED
    BY <2>2, TailFacts
<1> QED
  BY <1>1, <1>2, <1>3, <1>4

(* What a socket holds after several commands were written to it.          *)
LEMMA ConcatHas ==
  ASSUME NEW S, NEW q \in Seq(S), NEW r \in Seq(S)
  PROVE  /\ q \o r \in Seq(S)
         /\ Range(q \o r) = Range(q) \cup Range(r)
         /\ \A c : Has(q \o r, c) <=> Has(q, c) \/ Has(r, c)
         /\ \A c : Once(q, c) /\ ~Has(r, c) => Once(q \o r, c)
<1> DEFINE w == q \o r
<1>1. /\ w \in Seq(S) /\ Len(w) = Len(q) + Len(r) /\ Len(q) \in Nat /\ Len(r) \in Nat
      /\ DOMAIN w = 1..(Len(q) + Len(r)) /\ DOMAIN q = 1..Len(q) /\ DOMAIN r = 1..Len(r)
      /\ \A i \in DOMAIN q : w[i] = q[i] /\ i \in DOMAIN w
      /\ \A i \in DOMAIN r : w[Len(q) + i] = r[i] /\ Len(q) + i \in DOMAIN w
      /\ \A i \in DOMAIN w : (i \in DOMAIN q /\ w[i] = q[i])
                           \/ (i - Len(q) \in DOMAIN r /\ w[i] = r[i - Len(q)])
  OBVIOUS
<1> HIDE DEF w
<1>2. Range(w) = Range(q) \cup Range(r)
  BY <1>1 DEF Range
<1>3. \A c : Has(w, c) <=> Has(q, c) \/ Has(r, c)
  BY <1>1 DEF Has
<1>4. \A c : Once(q, c) /\ ~Has(r, c) => Once(w, c)
  <2> SUFFICES ASSUME NEW c, Once(q, c), ~Has(r, c), NEW i \in DOMAIN w, NEW j \in DOMAIN w, w[i] = c, w[j] = c
              PROVE i = j
    BY DEF Once
  <2>1. i \in DOMAIN q /\ q[i] = c /\ j \in DOMAIN q /\ q[j] = c
    BY <1>1 DEF Has
  <2> QED
    BY <2>1 DEF Once
<1> QED
  BY <1>1, <1>2, <1>3, <1>4 DEF w

(* A command written last comes before nothing.                            *)
LEMMA AppendBefore ==
  ASSUME NEW S, NEW q \in Seq(S), NEW e \in S, NEW c, NEW d, c # d,
         Before(q, c, d), e = c => ~Has(q, d)
  PROVE  Before(Append(q, e), c, d)
  BY AppendFacts DEF Before, Has

(* Reading keeps the order, and a d that is read had no c ahead or behind. *)
LEMMA TailBefore ==
  ASSUME NEW S, NEW q \in Seq(S), q # <<>>, NEW c, NEW d, Before(q, c, d)
  PROVE  Before(Tail(q), c, d) /\ (Head(q) = d => ~Has(q, c) \/ c = d)
<1>0. /\ Len(q) \in Nat \ {0} /\ DOMAIN Tail(q) = 1..(Len(q) - 1) /\ DOMAIN q = 1..Len(q)
      /\ Head(q) = q[1] /\ 1 \in DOMAIN q
      /\ \A i \in DOMAIN Tail(q) : Tail(q)[i] = q[i + 1] /\ i + 1 \in DOMAIN q
  BY TailFacts
<1>1. Before(Tail(q), c, d)
  BY <1>0 DEF Before
<1>2. Head(q) = d => ~Has(q, c) \/ c = d
  BY <1>0 DEF Before, Has
<1> QED
  BY <1>1, <1>2

(* Writing anything but c keeps c before d.                                *)
LEMMA ConcatBefore ==
  ASSUME NEW S, NEW q \in Seq(S), NEW r \in Seq(S), NEW c, NEW d,
         Before(q, c, d), ~Has(r, c)
  PROVE  Before(q \o r, c, d)
<1> DEFINE w == q \o r
<1>1. /\ Len(q) \in Nat /\ DOMAIN q = 1..Len(q) /\ DOMAIN w = 1..(Len(q) + Len(r)) /\ Len(r) \in Nat
      /\ \A i \in DOMAIN w : (i \in DOMAIN q /\ w[i] = q[i])
                           \/ (i - Len(q) \in DOMAIN r /\ w[i] = r[i - Len(q)] /\ i > Len(q))
  OBVIOUS
<1> HIDE DEF w
<1>2. Before(w, c, d)
  BY <1>1 DEF Before, Has
<1> QED
  BY <1>2 DEF w

-----------------------------------------------------------------------------
(* Tasks, packets and processes.                                           *)

(* The two task files tk, of which x is xfrd's.                            *)
LEMMA TwoFiles ==
  ASSUME NEW x \in {0, 1}, NEW tk \in [{0, 1} -> Seq(Tasks)]
  PROVE  /\ 1 - x \in {0, 1} /\ 1 - x # x /\ 1 - (1 - x) = x
         /\ tk[x] \in Seq(Tasks) /\ tk[1 - x] \in Seq(Tasks)
         /\ \A f \in {0, 1} : f = x \/ f = 1 - x
         /\ Range(tk[0]) \cup Range(tk[1]) = Range(tk[x]) \cup Range(tk[1 - x])
<1>1. CASE x = 0
  BY <1>1
<1>2. CASE x = 1
  BY <1>2
<1> QED
  BY <1>1, <1>2

(* xfrd's task file and the other one are the two files.                   *)
LEMMA Files ==
  ASSUME TypeOK
  PROVE  /\ xfrd.task \in {0, 1} /\ 1 - xfrd.task \in {0, 1} /\ 1 - xfrd.task # xfrd.task
         /\ 1 - (1 - xfrd.task) = xfrd.task
         /\ Own \in Seq(Tasks) /\ Other \in Seq(Tasks)
         /\ \A f \in {0, 1} : f = xfrd.task \/ f = 1 - xfrd.task
         /\ Range(task[0]) \cup Range(task[1]) = Range(Own) \cup Range(Other)
<1>1. xfrd.task \in {0, 1} /\ task \in [{0, 1} -> Seq(Tasks)]
  BY DEF TypeOK, XfrdFields
<1> QED
  BY <1>1, TwoFiles DEF Own, Other

(* The ids of a list of tasks are numbers of tasks.                        *)
LEMMA TaskIds ==
  ASSUME NEW q \in Seq(Tasks)
  PROVE  /\ \A i \in DOMAIN q : q[i] \in Tasks /\ q[i].id \in Nat /\ q[i].id \in 1..MaxTask
         /\ \A a \in Ids(q) : a \in Nat
         /\ Ids(q) = {u.id : u \in Range(q)}
<1>1. \A i \in DOMAIN q : q[i] \in Tasks
  OBVIOUS
<1>2. \A u \in Tasks : u.id \in Nat /\ u.id \in 1..MaxTask
  BY BoundAssumption DEF Tasks
<1> QED
  BY <1>1, <1>2 DEF Ids, Range

(* Everything that Order compares is a number.                             *)
LEMMA Numbers ==
  ASSUME TypeOK
  PROVE  /\ \A a \in Range(main.db) \cup Range(reload.db) : a \in Nat
         /\ \A a \in Ids(reload.todo) \cup Ids(Own) \cup Ids(Other) : a \in Nat
         /\ hist.issued \in Nat /\ hist.passed \in Nat
<1>1. /\ main.db \in Seq(1..MaxTask) /\ reload.db \in Seq(1..MaxTask) /\ reload.todo \in Seq(Tasks)
      /\ hist.issued \in Nat /\ hist.passed \in Nat
  BY BoundAssumption DEF TypeOK, MainFields, ReloadFields, HistFields
<1>2. \A q \in Seq(1..MaxTask) : \A a \in Range(q) : a \in Nat
  BY BoundAssumption DEF Range
<1> QED
  BY <1>1, <1>2, TaskIds, Files

(* A list of tasks in order stays one when more tasks are written.         *)
LEMMA InOrderLater ==
  ASSUME NEW q \in Seq(Tasks), NEW n \in Nat, NEW m \in Nat, n <= m, TasksInOrder(q, n)
  PROVE  TasksInOrder(q, m)
  BY TaskIds DEF TasksInOrder

(* The state of reload when there is none.                                 *)
LEMMA NoReloadFields ==
  /\ NoReload \in ReloadFields /\ NoReload.todo = <<>> /\ NoReload.pc = "none" /\ NoReload.db = <<>>
  /\ Range(<<>>) = {} /\ Ids(<<>>) = {}
<1>1. NoReload \in ReloadFields /\ NoReload.todo = <<>> /\ NoReload.pc = "none" /\ NoReload.db = <<>>
  BY DEF NoReload, ReloadFields
<1>2. Range(<<>>) = {} /\ Ids(<<>>) = {}
  BY DEF Range, Ids
<1> QED
  BY <1>1, <1>2

(* A death makes the conjuncts about a quiet history say nothing.          *)
LEMMA CrashHist ==
  ASSUME TypeOK, NEW kind, Crash(kind)
  PROVE  /\ hist' \in HistFields /\ hist'.crashes # 0 /\ hist'.issued = hist.issued
         /\ kind \in Crashing
<1>1. hist.crashes + 1 \in 0..MaxCrash /\ hist.crashes + 1 # 0
  BY BoundAssumption DEF Crash, TypeOK, HistFields
<1> QED
  BY <1>1 DEF Crash, TypeOK, HistFields

(* Sending QUIT to all children changes nothing else about them.           *)
LEMMA QuitAllFields ==
  ASSUME NEW ks \in [Child -> Kids]
  PROVE  /\ QuitAll(ks) \in [Child -> Kids]
         /\ \A c \in Child :
              /\ QuitAll(ks)[c].up = ks[c].up /\ QuitAll(ks)[c].fd = ks[c].fd
              /\ QuitAll(ks)[c].needExit = ks[c].needExit /\ QuitAll(ks)[c].exited = ks[c].exited
              /\ QuitAll(ks)[c].pkts = ks[c].pkts
  BY DEF QuitAll, Kids

(* Forking a child replaces process and socket, and leaves the flags       *)
(* alone.                                                                  *)
LEMMA ForkFields ==
  ASSUME NEW k \in Kids
  PROVE  /\ Fork(k) \in Kids
         /\ Fork(k).up /\ Fork(k).pid /\ Fork(k).fd /\ Fork(k).mine
         /\ ~Fork(k).quit /\ Fork(k).pkts = <<>>
         /\ Fork(k).needExit = k.needExit /\ Fork(k).sendQuit = k.sendQuit
         /\ Fork(k).exited = k.exited
<1>1. <<>> \in Seq(1..MaxPacket)
  OBVIOUS
<1>2. Fork(k) \in Kids
  BY <1>1 DEF Kids, Fork
<1> QED
  BY <1>2 DEF Kids, Fork

(* While a process reloads the token is with main and the file that xfrd   *)
(* does not own is with reload.                                            *)
LEMMA Reloading ==
  ASSUME TypeOK, Token, TaskFilesApart, Phases, reload.pc # "none"
  PROVE  /\ main.rfd /\ main.reloading /\ ~ReloadInFlight /\ ~xfrd.can /\ ~Has(toXfrd, ReloadDoneCmd)
         /\ ~main.hint /\ ~Has(toMain, "RELOAD")
         /\ reload.task = 1 - xfrd.task /\ task[reload.task] = Other
<1>1. main.rfd /\ main.reloading /\ ~ReloadInFlight /\ ~xfrd.can /\ ~Has(toXfrd, ReloadDoneCmd)
  BY DEF Token
<1>2. ~main.hint /\ ~Has(toMain, "RELOAD")
  BY <1>1 DEF ReloadInFlight, Has
<1>3. reload.task = 1 - xfrd.task
  BY DEF TaskFilesApart
<1> QED
  BY <1>1, <1>2, <1>3 DEF Other

(* NoPacketLost, packet by packet.                                         *)
Carried(p) ==
    \/ p \in hist.got
    \/ \E m \in Range(toXfrd) : m.id = p
    \/ main.up /\ \E c \in Child : kids[c].fd /\ p \in Range(kids[c].pkts)
    \/ reload.pc # "none" /\ \E c \in Child : p \in Range(nkids[c].pkts)

AllCarried == hist.crashes = 0 /\ ~hist.stop => \A p \in 1..hist.passed : Carried(p)

(* NoPacketLost says that every packet passed is carried, before and after *)
(* a step.                                                                 *)
LEMMA PacketsCarried == (NoPacketLost <=> AllCarried) /\ (NoPacketLost' <=> AllCarried')
<1>1. NoPacketLost <=> AllCarried
  <2> DEFINE A == {m.id : m \in Range(toXfrd)}
             K == UNION {Range(kids[c].pkts) : c \in {d \in Child : main.up /\ kids[d].fd}}
             N == UNION {Range(nkids[c].pkts) : c \in {d \in Child : reload.pc # "none"}}
  <2>1. \A p : p \in A <=> \E m \in Range(toXfrd) : m.id = p
    OBVIOUS
  <2>2. \A p : p \in K <=> main.up /\ \E c \in Child : kids[c].fd /\ p \in Range(kids[c].pkts)
    OBVIOUS
  <2>3. \A p : p \in N <=> reload.pc # "none" /\ \E c \in Child : p \in Range(nkids[c].pkts)
    OBVIOUS
  <2>4. NoPacketLost <=> (hist.crashes = 0 /\ ~hist.stop => 1..hist.passed \subseteq hist.got \cup A \cup K \cup N)
    BY DEF NoPacketLost
  <2> HIDE DEF A, K, N
  <2> QED
    BY <2>1, <2>2, <2>3, <2>4 DEF AllCarried, Carried
<1>2. NoPacketLost' <=> AllCarried'
  <2> DEFINE A == {m.id : m \in Range(toXfrd')}
             K == UNION {Range(kids'[c].pkts) : c \in {d \in Child : main'.up /\ kids'[d].fd}}
             N == UNION {Range(nkids'[c].pkts) : c \in {d \in Child : reload'.pc # "none"}}
  <2>1. \A p : p \in A <=> \E m \in Range(toXfrd') : m.id = p
    OBVIOUS
  <2>2. \A p : p \in K <=> main'.up /\ \E c \in Child : kids'[c].fd /\ p \in Range(kids'[c].pkts)
    OBVIOUS
  <2>3. \A p : p \in N <=> reload'.pc # "none" /\ \E c \in Child : p \in Range(nkids'[c].pkts)
    OBVIOUS
  <2>4. NoPacketLost' <=> (hist'.crashes = 0 /\ ~hist'.stop => 1..hist'.passed \subseteq hist'.got \cup A \cup K \cup N)
    BY DEF NoPacketLost
  <2> HIDE DEF A, K, N
  <2> QED
    BY <2>1, <2>2, <2>3, <2>4 DEF AllCarried, Carried
<1> QED
  BY <1>1, <1>2

-----------------------------------------------------------------------------
(* xfrd_handle_ipc.                                                        *)

(* xfrd reads m.                                                           *)
Reads(m) == toXfrd # <<>> /\ Head(toXfrd) = m

(* xfrd_handle_ipc, field by field: x and t are xfrd and the task files    *)
(* after the read, y is xfrd after the write of cmd.                       *)
IpcRead(x, t) ==
    /\ x \in XfrdFields /\ t \in [{0, 1} -> Seq(Tasks)]
    /\ x.up => xfrd.up /\ ~Reads(QuitCmd) /\ ~XfrdSeesEof
    /\ xfrd.up /\ ~Reads(QuitCmd) /\ ~XfrdSeesEof => x.up
    /\ x.task = xfrd.task
    /\ x.can <=> xfrd.can \/ Reads(ReloadDoneCmd)
    /\ x.blocked <=> xfrd.blocked /\ ~Reads(ReloadDoneCmd)
    /\ x.needReload <=> xfrd.needReload
    /\ x.needQuit <=> xfrd.needQuit \/ Reads(ReloadCmd)
    /\ x.needShutdown <=> xfrd.needShutdown
    /\ x.served = IF Reads(ReloadDoneCmd) THEN xfrd.served \cup Results(Other) ELSE xfrd.served
    /\ t = IF Reads(ReloadDoneCmd) THEN [task EXCEPT ![1 - xfrd.task] = <<>>] ELSE task

IpcWrite(x, y, cmd) ==
    /\ y \in XfrdFields
    /\ y.up <=> x.up
    /\ y.task = IF cmd = "RELOAD" THEN 1 - x.task ELSE x.task
    /\ y.can <=> x.can /\ cmd # "RELOAD"
    /\ y.blocked <=> x.blocked \/ cmd \in {"SHUTDOWN", "QUIT"}
    /\ y.needReload <=> x.needReload /\ cmd # "RELOAD"
    /\ y.needQuit <=> x.needQuit /\ cmd # "QUIT"
    /\ y.needShutdown <=> x.needShutdown /\ cmd # "SHUTDOWN"
    /\ y.served = x.served
    /\ cmd \in {"none", "SHUTDOWN", "QUIT", "RELOAD"}
    /\ cmd # "none" => ~x.blocked
    /\ cmd = "SHUTDOWN" => x.needShutdown
    /\ cmd = "QUIT" => x.needQuit
    /\ cmd = "RELOAD" => ~x.needQuit /\ x.can

Sent(q, cmd) == IF cmd = "none" THEN q ELSE Append(q, cmd)

(* The results in a task file are numbers of tasks.                        *)
LEMMA ResultsType ==
  ASSUME NEW q \in Seq(Tasks)
  PROVE  Results(q) \in SUBSET (1..MaxTask) /\ Range(q) \subseteq Tasks
<1>1. Range(q) \subseteq Tasks
  BY DEF Range
<1> QED
  BY <1>1 DEF Results, Tasks

(* The read half of xfrd_handle_ipc does what IpcRead says.                *)
LEMMA IpcReadStep ==
  ASSUME TypeOK
  PROVE  LET s == [x |-> xfrd, task |-> task, out |-> toMain]
             r == IF toXfrd # <<>> THEN RecvCommand(s, Head(toXfrd))
                  ELSE [s EXCEPT !.x.up = ~XfrdSeesEof]
         IN  xfrd.up => IpcRead(r.x, r.task) /\ r.out = toMain /\ r = [x |-> r.x, task |-> r.task, out |-> r.out]
<1> DEFINE s == [x |-> xfrd, task |-> task, out |-> toMain]
           r == IF toXfrd # <<>> THEN RecvCommand(s, Head(toXfrd))
                ELSE [s EXCEPT !.x.up = ~XfrdSeesEof]
<1> SUFFICES ASSUME xfrd.up PROVE IpcRead(r.x, r.task) /\ r.out = toMain /\ r = [x |-> r.x, task |-> r.task, out |-> r.out]
  OBVIOUS
<1>0. /\ xfrd \in XfrdFields /\ task \in [{0, 1} -> Seq(Tasks)] /\ toXfrd \in Seq(Messages)
      /\ 1 - xfrd.task \in {0, 1}
  BY DEF TypeOK, XfrdFields
<1>1. CASE toXfrd = <<>>
  <2>1. r = [s EXCEPT !.x.up = ~XfrdSeesEof]
    BY <1>1
  <2> QED
    BY <1>0, <1>1, <2>1 DEF IpcRead, XfrdFields, Reads, XfrdSeesEof
<1>2. CASE toXfrd # <<>>
  <2> DEFINE cmd == Head(toXfrd)
  <2>1. cmd \in Messages /\ ~XfrdSeesEof
    BY <1>0, <1>2 DEF XfrdSeesEof
  <2>2. r = RecvCommand(s, cmd)
    BY <1>2
  <2> HIDE DEF cmd, r
  <2>3. CASE cmd = QuitCmd
    <3>1. cmd.op = "QUIT" /\ cmd # ReloadDoneCmd /\ cmd # ReloadCmd
      BY <2>3 DEF QuitCmd, ReloadCmd, ReloadDoneCmd
    <3>2. r = [s EXCEPT !.x.up = FALSE]
      BY <2>2, <3>1 DEF RecvCommand
    <3> QED
      BY <1>0, <1>2, <2>1, <2>3, <3>1, <3>2 DEF IpcRead, XfrdFields, Reads, cmd
  <2>4. CASE cmd = ReloadDoneCmd
    <3>1. cmd.op = "RELOAD_DONE" /\ cmd # QuitCmd /\ cmd # ReloadCmd
      BY <2>4 DEF QuitCmd, ReloadCmd, ReloadDoneCmd
    <3>2. r = RecvReloadDone(s)
      BY <2>2, <3>1 DEF RecvCommand
    <3>3. Results(task[1 - xfrd.task]) \in SUBSET (1..MaxTask)
      BY <1>0, ResultsType
    <3>4. /\ r.x = [xfrd EXCEPT !.served = @ \cup Results(task[1 - xfrd.task]),
                              !.can = TRUE, !.blocked = FALSE, !.write = TRUE]
          /\ r.task = [task EXCEPT ![1 - xfrd.task] = <<>>]
          /\ r.out = toMain
          /\ r = [x |-> r.x, task |-> r.task, out |-> r.out]
      BY <3>2, <1>0 DEF RecvReloadDone, XfrdFields
    <3>5. /\ r.x \in XfrdFields /\ r.task \in [{0, 1} -> Seq(Tasks)]
          /\ r.x.served = xfrd.served \cup Results(task[1 - xfrd.task])
      <4> DEFINE v == xfrd.served \cup Results(task[1 - xfrd.task])
      <4>1. v \in SUBSET (1..MaxTask)
        BY <3>3, <1>0 DEF XfrdFields
      <4>2. r.x = [xfrd EXCEPT !.served = v, !.can = TRUE, !.blocked = FALSE, !.write = TRUE]
        BY <3>4
      <4>3. r.task \in [{0, 1} -> Seq(Tasks)]
        BY <3>4, <1>0
      <4> HIDE DEF v
      <4>4. r.x \in XfrdFields /\ r.x.served = v
        BY <4>1, <4>2, <1>0 DEF XfrdFields
      <4> QED
        BY <4>3, <4>4 DEF v
    <3> QED
      BY <1>0, <1>2, <2>1, <2>4, <3>1, <3>4, <3>5 DEF IpcRead, XfrdFields, Reads, cmd, Other
  <2>5. CASE cmd = ReloadCmd
    <3>1. cmd.op = "RELOAD" /\ cmd # QuitCmd /\ cmd # ReloadDoneCmd
      BY <2>5 DEF QuitCmd, ReloadCmd, ReloadDoneCmd
    <3>2. r = [s EXCEPT !.x.write = TRUE, !.x.needQuit = TRUE]
      BY <2>2, <3>1 DEF RecvCommand
    <3> QED
      BY <1>0, <1>2, <2>1, <2>5, <3>1, <3>2 DEF IpcRead, XfrdFields, Reads, cmd
  <2>6. CASE cmd \in [op : {"PASS"}, id : 1..MaxPacket]
    <3>1. cmd.op = "PASS" /\ cmd # QuitCmd /\ cmd # ReloadDoneCmd /\ cmd # ReloadCmd
      BY <2>6 DEF QuitCmd, ReloadCmd, ReloadDoneCmd
    <3>2. r = s
      BY <2>2, <3>1 DEF RecvCommand
    <3> QED
      BY <1>0, <1>2, <2>1, <2>6, <3>1, <3>2 DEF IpcRead, XfrdFields, Reads, cmd
  <2> QED
    BY <2>1, <2>3, <2>4, <2>5, <2>6 DEF Messages
<1> QED
  BY <1>1, <1>2

(* The write half of xfrd_handle_ipc sends at most one command, as         *)
(* IpcWrite says.                                                          *)
LEMMA IpcWriteStep ==
  ASSUME NEW x \in XfrdFields, NEW t, NEW q
  PROVE  LET w == SendCommand([x |-> x, task |-> t, out |-> q])
         IN  \E cmd : IpcWrite(x, w.x, cmd) /\ w.task = t /\ w.out = Sent(q, cmd)
<1> DEFINE s == [x |-> x, task |-> t, out |-> q]
           w == SendCommand(s)
           u == CASE x.blocked -> s
               [] ~x.blocked /\ x.needShutdown -> SendShutdownReq(s)
               [] ~x.blocked /\ ~x.needShutdown /\ x.needQuit ->
                    SendQuitReq(s)
               [] ~x.blocked /\ ~x.needShutdown /\ ~x.needQuit
                    /\ x.can /\ x.needReload -> SendReloadReq(s)
               [] OTHER -> s
<1>1. w = [u EXCEPT !.x.write = ~u.x.blocked /\ Sending(u.x)]
  BY DEF SendCommand
<1>2. ASSUME NEW cmd, NEW y, u = [x |-> y, task |-> t, out |-> Sent(q, cmd)], IpcWrite(x, y, cmd)
      PROVE  \E c : IpcWrite(x, w.x, c) /\ w.task = t /\ w.out = Sent(q, c)
  <2> HIDE DEF u
  <2>1. /\ w.x = [y EXCEPT !.write = ~y.blocked /\ Sending(y)]
        /\ w.task = t /\ w.out = Sent(q, cmd)
    BY <1>1, <1>2 DEF IpcWrite, XfrdFields
  <2>2. IpcWrite(x, w.x, cmd)
    BY <1>2, <2>1 DEF IpcWrite, XfrdFields, Sending
  <2> QED
    BY <2>1, <2>2
<1>3. CASE x.blocked \/ (~x.needShutdown /\ ~x.needQuit /\ ~(x.can /\ x.needReload))
  <2>1. u = [x |-> x, task |-> t, out |-> Sent(q, "none")]
    BY <1>3 DEF Sent
  <2>2. IpcWrite(x, x, "none")
    BY DEF IpcWrite
  <2> QED
    BY <1>2, <2>1, <2>2
<1>4. CASE ~x.blocked /\ x.needShutdown
  <2> DEFINE y == [x EXCEPT !.blocked = TRUE, !.needShutdown = FALSE]
  <2>1. u = [x |-> y, task |-> t, out |-> Sent(q, "SHUTDOWN")]
    BY <1>4 DEF Sent, SendShutdownReq, XfrdFields
  <2>2. IpcWrite(x, y, "SHUTDOWN")
    BY <1>4 DEF IpcWrite, XfrdFields
  <2> QED
    BY <1>2, <2>1, <2>2
<1>5. CASE ~x.blocked /\ ~x.needShutdown /\ x.needQuit
  <2> DEFINE y == [x EXCEPT !.blocked = TRUE, !.needQuit = FALSE]
  <2>1. u = [x |-> y, task |-> t, out |-> Sent(q, "QUIT")]
    BY <1>5 DEF Sent, SendQuitReq, XfrdFields
  <2>2. IpcWrite(x, y, "QUIT")
    BY <1>5 DEF IpcWrite, XfrdFields
  <2> QED
    BY <1>2, <2>1, <2>2
<1>6. CASE ~x.blocked /\ ~x.needShutdown /\ ~x.needQuit /\ x.can /\ x.needReload
  <2> DEFINE y == [x EXCEPT !.task = 1 - @, !.needReload = FALSE, !.can = FALSE]
  <2>1. u = [x |-> y, task |-> t, out |-> Sent(q, "RELOAD")]
    BY <1>6 DEF Sent, SendReloadReq, XfrdFields
  <2>2. IpcWrite(x, y, "RELOAD")
    <3>1. 1 - x.task \in {0, 1}
      BY DEF XfrdFields
    <3>2. y \in XfrdFields
      BY <3>1 DEF XfrdFields
    <3> QED
      BY <1>6, <3>2 DEF IpcWrite, XfrdFields
  <2> QED
    BY <1>2, <2>1, <2>2
<1> QED
  BY <1>3, <1>4, <1>5, <1>6

(* xfrd_handle_ipc is a read followed by a write.                          *)
LEMMA IpcStep ==
  ASSUME TypeOK, NEW writable \in BOOLEAN, XfrdHandleIpc(writable)
  PROVE  \E x, cmd : IpcRead(x, task') /\ IpcWrite(x, xfrd', cmd) /\ toMain' = Sent(toMain, cmd)
<1> DEFINE s == [x |-> xfrd, task |-> task, out |-> toMain]
           r == IF toXfrd # <<>> THEN RecvCommand(s, Head(toXfrd))
                ELSE [s EXCEPT !.x.up = ~XfrdSeesEof]
           w == IF xfrd.write /\ writable THEN SendCommand(r) ELSE r
<1>1. xfrd' = w.x /\ task' = w.task /\ toMain' = w.out /\ xfrd.up
  BY DEF XfrdHandleIpc
<1>2. IpcRead(r.x, r.task) /\ r.out = toMain /\ r = [x |-> r.x, task |-> r.task, out |-> r.out]
  BY <1>1, IpcReadStep
<1> HIDE DEF r
<1>3. r.x \in XfrdFields
  BY <1>2 DEF IpcRead
<1>4. CASE xfrd.write /\ writable
  <2> DEFINE v == SendCommand([x |-> r.x, task |-> r.task, out |-> r.out])
  <2>1. w = v
    BY <1>2, <1>4
  <2>2. \E cmd : IpcWrite(r.x, v.x, cmd) /\ v.task = r.task /\ v.out = Sent(r.out, cmd)
    BY <1>3, IpcWriteStep
  <2> HIDE DEF v, w
  <2> QED
    BY <1>1, <1>2, <2>1, <2>2
<1>5. CASE ~(xfrd.write /\ writable)
  <2>1. w = r
    BY <1>5
  <2>2. IpcWrite(r.x, r.x, "none")
    BY <1>3 DEF IpcWrite
  <2> HIDE DEF w
  <2>3. toMain' = Sent(toMain, "none") /\ xfrd' = r.x /\ task' = r.task
    BY <1>1, <1>2, <2>1 DEF Sent
  <2> QED
    BY <1>2, <2>2, <2>3
<1> QED
  BY <1>4, <1>5

-----------------------------------------------------------------------------
(* netio_dispatch of main.                                                 *)

(* netio_dispatch of main, field by field: the command of xfrd that it     *)
(* reads, the children after QUIT_SYNC and after their handlers, and the   *)
(* packets that they passed.                                               *)
Gets(cmd) == XfrdReadable /\ toMain # <<>> /\ Head(toMain) = cmd
XfrdGone == XfrdReadable /\ toMain = <<>>
GetsSync == ReloadReadable /\ toOld # <<>>
AfterSync(c) == IF GetsSync THEN MustExit(kids[c]) ELSE kids[c]
Handled(c) == HandleChildCommand(AfterSync(c), c)
Restarts == \E c \in Child : ChildReadable(c) /\ kids[c].pkts = <<>> /\ ~AfterSync(c).needExit
Passing == {c \in Child : ChildReadable(c) /\ kids[c].pkts # <<>>}
PassSet == {[op |-> "PASS", id |-> Head(kids[c].pkts)] : c \in Passing}
PassType == [op : {"PASS"}, id : 1..MaxPacket]

(* The end of file of the socket of a child, and the write of QUIT to it.  *)
ChildEof(c) == ChildReadable(c) /\ kids[c].pkts = <<>>
Writes(c) == ChildWritable(c) /\ kids[c].up

(* What a round of netio_dispatch makes of main, of its children and of    *)
(* the socket to xfrd.                                                     *)
DispatchMain ==
    /\ main' \in MainFields
    /\ main'.up /\ main'.pc = "loop"
    /\ main'.hint <=> main.hint \/ Gets("RELOAD")
    /\ main'.reloading <=> main.reloading /\ ~ReloadEof
    /\ main'.rfd <=> main.rfd /\ ~ReloadEof
    /\ main'.xfd <=> main.xfd /\ ~XfrdGone
    /\ main'.quitSync <=> main.quitSync
    /\ main'.task = main.task /\ main'.db = main.db
    /\ XfrdGone => main'.mode = "SHUTDOWN"
    /\ Gets("SHUTDOWN") => main'.mode = "SHUTDOWN"
    /\ Gets("QUIT") => main'.mode = "QUIT"
    /\ XfrdGone \/ Gets("SHUTDOWN") \/ Gets("QUIT") \/ main'.mode = main.mode
         \/ (main'.mode = "QUIT_SYNC" /\ AllChildrenExited(kids'))

DispatchKids ==
    /\ kids' \in [Child -> Kids]
    /\ \A c \in Child : \/ kids'[c] = Handled(c)
                        \/ Restarts /\ ~Handled(c).pid /\ kids'[c] = Fork(Handled(c))

DispatchSends(p) ==
    /\ p \in Seq(PassType) /\ Range(p) = PassSet
    /\ toXfrd' = IF ReloadEof /\ main'.xfd THEN Append(toXfrd \o p, ReloadDoneCmd) ELSE toXfrd \o p

(* A finite set in some order is a sequence of its elements.               *)
LEMMA OrderedFacts ==
  ASSUME NEW S, IsFiniteSet(S)
  PROVE  Ordered(S) \in Seq(S) /\ Range(Ordered(S)) = S
<1> DEFINE n == Cardinality(S)
<1>1. n \in Nat /\ \E g \in [1..n -> S] : \A e \in S : \E i \in 1..n : g[i] = e
  BY FS_CardinalityType DEF ExistsBijection, Bijection, Injection, Surjection
<1>2. \E g \in [1..n -> S] : Range(g) = S
  BY <1>1 DEF Range
<1>3. Ordered(S) \in [1..n -> S] /\ Range(Ordered(S)) = S
  BY <1>2 DEF Ordered
<1> QED
  BY <1>1, <1>3

(* QUIT_SYNC changes the exit flags of a child only.                       *)
LEMMA AfterSyncFields ==
  ASSUME TypeOK, NEW c \in Child
  PROVE  /\ AfterSync(c) \in Kids
         /\ AfterSync(c).up = kids[c].up /\ AfterSync(c).pid = kids[c].pid
         /\ AfterSync(c).fd = kids[c].fd /\ AfterSync(c).mine = kids[c].mine
         /\ AfterSync(c).quit = kids[c].quit /\ AfterSync(c).pkts = kids[c].pkts
         /\ AfterSync(c).needExit <=> GetsSync \/ kids[c].needExit
         /\ AfterSync(c).exited <=> kids[c].exited \/ (GetsSync /\ ~kids[c].fd)
         /\ AfterSync(c).sendQuit <=> kids[c].sendQuit \/ (GetsSync /\ kids[c].pid /\ kids[c].fd)
<1>1. kids[c] \in Kids
  BY DEF TypeOK
<1>2. CASE ~GetsSync
  BY <1>1, <1>2 DEF AfterSync, Kids
<1>3. CASE GetsSync /\ kids[c].pid /\ kids[c].fd
  <2>1. AfterSync(c) = [kids[c] EXCEPT !.needExit = TRUE, !.sendQuit = TRUE]
    BY <1>3 DEF AfterSync, MustExit
  <2> QED
    BY <1>1, <1>3, <2>1 DEF Kids
<1>4. CASE GetsSync /\ ~(kids[c].pid /\ kids[c].fd)
  <2>1. AfterSync(c) = [kids[c] EXCEPT !.needExit = TRUE, !.exited = @ \/ ~kids[c].fd]
    BY <1>4 DEF AfterSync, MustExit
  <2> QED
    BY <1>1, <1>4, <2>1 DEF Kids
<1> QED
  BY <1>2, <1>3, <1>4

(* What the handler of a child changes.                                    *)
LEMMA HandledFields ==
  ASSUME TypeOK, NEW c \in Child
  PROVE  /\ Handled(c) \in Kids
         /\ Handled(c).up = kids[c].up /\ Handled(c).mine = kids[c].mine
         /\ Handled(c).needExit = AfterSync(c).needExit
         /\ Handled(c).fd <=> kids[c].fd /\ ~ChildEof(c)
         /\ Handled(c).pid <=> kids[c].pid /\ ~(ChildEof(c) /\ ~AfterSync(c).needExit)
         /\ Handled(c).exited <=> AfterSync(c).exited \/ (ChildEof(c) /\ AfterSync(c).needExit)
         /\ Handled(c).quit <=> kids[c].quit \/ Writes(c)
         /\ Handled(c).sendQuit <=> AfterSync(c).sendQuit /\ ~Writes(c)
         /\ Handled(c).pkts = IF c \in Passing THEN Tail(kids[c].pkts) ELSE kids[c].pkts
<1> DEFINE a == AfterSync(c)
           k == kids[c]
           w == IF ChildWritable(c) /\ a.up
                THEN [a EXCEPT !.sendQuit = FALSE, !.quit = TRUE] ELSE a
<1>1. /\ a \in Kids /\ k \in Kids /\ a.up = k.up /\ a.pid = k.pid /\ a.fd = k.fd /\ a.mine = k.mine
      /\ a.quit = k.quit /\ a.pkts = k.pkts
  BY AfterSyncFields DEF TypeOK
<1>2. Handled(c) = IF ~ChildReadable(c) THEN w ELSE IF a.pkts # <<>> THEN [w EXCEPT !.pkts = Tail(@)] ELSE ChildIsDone(w)
  BY DEF Handled, HandleChildCommand
<1> HIDE DEF a, k
<1>3. /\ w \in Kids /\ w.up = k.up /\ w.pid = k.pid /\ w.fd = k.fd /\ w.mine = k.mine /\ w.pkts = k.pkts
      /\ w.needExit = a.needExit /\ w.exited = a.exited
      /\ w.quit <=> k.quit \/ Writes(c)
      /\ w.sendQuit <=> a.sendQuit /\ ~Writes(c)
  BY <1>1 DEF Kids, Writes, k
<1> HIDE DEF w
<1>4. CASE ~ChildReadable(c)
  BY <1>1, <1>2, <1>3, <1>4 DEF ChildEof, Passing, a, k
<1>5. CASE c \in Passing
  <2>1. Handled(c) = [w EXCEPT !.pkts = Tail(@)] /\ ~ChildEof(c)
    BY <1>1, <1>2, <1>5 DEF Passing, ChildEof, k
  <2>2. k.pkts \in Seq(1..MaxPacket) /\ k.pkts # <<>>
    BY <1>1, <1>5 DEF Kids, Passing, k
  <2>3. Tail(k.pkts) \in Seq(1..MaxPacket)
    BY <2>2, TailFacts
  <2> QED
    BY <1>3, <1>5, <2>1, <2>3 DEF Kids, a, k
<1>6. CASE ChildEof(c) /\ w.needExit
  <2>1. Handled(c) = [w EXCEPT !.fd = FALSE, !.exited = TRUE] /\ c \notin Passing
    BY <1>1, <1>2, <1>6 DEF Passing, ChildEof, ChildIsDone, k
  <2> QED
    BY <1>3, <1>6, <2>1 DEF Kids, a, k
<1>7. CASE ChildEof(c) /\ ~w.needExit
  <2>1. Handled(c) = [w EXCEPT !.fd = FALSE, !.pid = FALSE] /\ c \notin Passing
    BY <1>1, <1>2, <1>7 DEF Passing, ChildEof, ChildIsDone, k
  <2> QED
    BY <1>3, <1>7, <2>1 DEF Kids, a, k
<1> QED
  BY <1>4, <1>5, <1>6, <1>7 DEF Passing, ChildEof

(* The packets passed in a round are PASS messages.                        *)
LEMMA PassingFacts ==
  ASSUME TypeOK
  PROVE  Ordered(PassSet) \in Seq(PassType) /\ Range(Ordered(PassSet)) = PassSet
<1>1. IsFiniteSet(Passing)
  BY ChildAssumption, FS_Subset DEF Passing
<1>2. \A c \in Passing : [op |-> "PASS", id |-> Head(kids[c].pkts)] \in PassType
  <2> SUFFICES ASSUME NEW c \in Passing PROVE [op |-> "PASS", id |-> Head(kids[c].pkts)] \in PassType
    OBVIOUS
  <2>1. kids[c].pkts \in Seq(1..MaxPacket) /\ kids[c].pkts # <<>>
    BY DEF TypeOK, Passing, Kids
  <2>2. Head(kids[c].pkts) \in 1..MaxPacket
    BY <2>1, TailFacts
  <2> QED
    BY <2>2 DEF PassType
<1>3. IsFiniteSet(PassSet)
  <2> DEFINE f == [c \in Passing |-> [op |-> "PASS", id |-> Head(kids[c].pkts)]]
  <2>1. f \in Surjection(Passing, PassSet)
    BY DEF Surjection, PassSet
  <2> QED
    BY <1>1, <2>1, FS_Surjection
<1>4. PassSet \subseteq PassType
  BY <1>2 DEF PassSet
<1>5. Ordered(PassSet) \in Seq(PassSet) /\ Range(Ordered(PassSet)) = PassSet
  BY <1>3, OrderedFacts
<1> HIDE DEF PassSet
<1> QED
  BY <1>4, <1>5

(* A round of netio_dispatch does what DispatchMain, DispatchKids and      *)
(* DispatchSends say.                                                      *)
LEMMA DispatchStep ==
  ASSUME TypeOK, MainDispatch
  PROVE  DispatchMain /\ DispatchKids /\ \E p : DispatchSends(p)
<1> DEFINE p == Ordered(PassSet)
           ks0 == [c \in Child |-> AfterSync(c)]
           ks1 == [c \in Child |-> Handled(c)]
           mode0 == IF GetsSync THEN ModeAfterCheck(ks0, main.mode) ELSE main.mode
           mode1 == IF \E c \in Child : ChildEof(c) THEN ModeAfterCheck(ks1, mode0) ELSE mode0
           s0 == [m |-> main, ks |-> kids, out |-> toXfrd, restart |-> FALSE]
           s1 == HandleReloadCommand(s0)
           s2 == HandleChildren(s1)
           s3 == HandleXfrdCommand(s2)
           s4 == AfterDispatch(s3)
<1>0. /\ main \in MainFields /\ kids \in [Child -> Kids] /\ toXfrd \in Seq(Messages) /\ toMain \in Seq(Cmds)
      /\ main.up /\ main.pc = "poll"
  BY DEF TypeOK, MainFields, MainDispatch
<1>1. main' = [s4.m EXCEPT !.pc = "loop"] /\ kids' = s4.ks /\ toXfrd' = s4.out
  BY DEF MainDispatch, Dispatch
<1>2. s1 = [m |-> [main EXCEPT !.mode = mode0], ks |-> ks0, out |-> toXfrd, restart |-> FALSE]
  <2>1. CASE GetsSync
    <3>1. \A c \in Child : MustExit(s0.ks[c]) = AfterSync(c)
      BY <2>1 DEF AfterSync
    <3>2. [c \in Child |-> MustExit(s0.ks[c])] = ks0
      BY <3>1
    <3> HIDE DEF ks0
    <3>3. s1 = [s0 EXCEPT !.ks = ks0, !.m.mode = ModeAfterCheck(ks0, @)]
      BY <2>1, <3>2 DEF HandleReloadCommand, GetsSync
    <3> QED
      BY <2>1, <3>3, <1>0 DEF MainFields
  <2>2. CASE ~GetsSync
    <3>1. s1 = s0
      BY <2>2 DEF HandleReloadCommand, GetsSync
    <3>2. ks0 = kids
      BY <2>2, <1>0 DEF AfterSync
    <3>3. [main EXCEPT !.mode = mode0] = main
      BY <2>2, <1>0 DEF MainFields
    <3> QED
      BY <3>1, <3>2, <3>3
  <2> QED
    BY <2>1, <2>2
<1>3. /\ s2 = [m |-> s2.m, ks |-> s2.ks, out |-> s2.out, restart |-> s2.restart]
      /\ s2.m = [main EXCEPT !.mode = mode1] /\ s2.ks = ks1 /\ s2.out = toXfrd \o p
      /\ s2.restart <=> Restarts
  <2> HIDE DEF s1, mode0
  <2>1. [c \in Child |-> HandleChildCommand(s1.ks[c], c)] = ks1
    BY <1>2 DEF Handled
  <2>2. (\E c \in {d \in Child : ChildReadable(d) /\ kids[d].pkts = <<>>} : ~s1.ks[c].needExit) <=> Restarts
    BY <1>2 DEF Restarts
  <2>3. {c \in Child : ChildReadable(c) /\ kids[c].pkts = <<>>} # {} <=> \E c \in Child : ChildEof(c)
    BY DEF ChildEof
  <2> HIDE DEF ks1, ks0
  <2> DEFINE done == {c \in Child : ChildReadable(c) /\ kids[c].pkts = <<>>}
             b == \E c \in done : ~s1.ks[c].needExit
             md == IF done # {} THEN ModeAfterCheck(ks1, s1.m.mode) ELSE s1.m.mode
  <2>4. s2 = [s1 EXCEPT !.ks = ks1, !.m.mode = md, !.restart = b, !.out = s1.out \o p]
    BY <2>1 DEF HandleChildren, PassSet, Passing
  <2>5. b <=> Restarts
    BY <2>2
  <2>6. md = mode1
    BY <1>0, <1>2, <2>3 DEF MainFields
  <2> HIDE DEF b, md, mode1, s2, p, done
  <2> QED
    BY <2>4, <2>5, <2>6, <1>2, <1>0 DEF MainFields
<1> HIDE DEF s2
<1>4. /\ s3 = [m |-> s3.m, ks |-> s3.ks, out |-> s3.out, restart |-> s3.restart]
      /\ s3.ks = ks1 /\ s3.out = toXfrd \o p /\ (s3.restart <=> Restarts)
      /\ s3.m = IF XfrdGone THEN [main EXCEPT !.mode = "SHUTDOWN", !.xfd = FALSE]
                ELSE IF Gets("RELOAD") THEN [main EXCEPT !.mode = mode1, !.hint = TRUE]
                ELSE IF XfrdReadable THEN [main EXCEPT !.mode = Head(toMain)]
                ELSE [main EXCEPT !.mode = mode1]
  <2> HIDE DEF mode1, ks1, p
  <2>1. CASE ~XfrdReadable
    BY <2>1, <1>3 DEF HandleXfrdCommand, XfrdGone, Gets
  <2>2. CASE XfrdGone
    BY <2>2, <1>3, <1>0 DEF HandleXfrdCommand, XfrdGone, MainFields
  <2>3. CASE Gets("RELOAD")
    BY <2>3, <1>3, <1>0 DEF HandleXfrdCommand, XfrdGone, Gets, MainFields
  <2>4. CASE XfrdReadable /\ ~XfrdGone /\ ~Gets("RELOAD")
    BY <2>4, <1>3, <1>0 DEF HandleXfrdCommand, XfrdGone, Gets, MainFields
  <2> QED
    BY <2>1, <2>2, <2>3, <2>4
<1> HIDE DEF s3
<1>5. /\ s4.ks = IF Restarts THEN RestartChildServers(ks1) ELSE ks1
      /\ s4.m = IF ReloadEof THEN [s3.m EXCEPT !.reloading = FALSE, !.rfd = FALSE] ELSE s3.m
      /\ s4.out = IF ReloadEof /\ s3.m.xfd THEN Append(toXfrd \o p, ReloadDoneCmd) ELSE toXfrd \o p
  <2> HIDE DEF mode1, ks1, p
  <2> DEFINE r == IF s3.restart THEN [s3 EXCEPT !.ks = RestartChildServers(@)] ELSE s3
  <2>1. /\ r = [m |-> r.m, ks |-> r.ks, out |-> r.out, restart |-> r.restart]
        /\ r.m = s3.m /\ r.out = s3.out
        /\ r.ks = IF Restarts THEN RestartChildServers(ks1) ELSE ks1
    BY <1>4
  <2>2. s4 = IF ReloadEof
             THEN [r EXCEPT !.m.reloading = FALSE, !.m.rfd = FALSE,
                            !.out = IF r.m.xfd THEN Append(@, ReloadDoneCmd) ELSE @]
             ELSE r
    BY DEF AfterDispatch
  <2> HIDE DEF r, s4
  <2>3. CASE ~ReloadEof
    BY <2>1, <2>2, <2>3, <1>4
  <2>4. CASE ReloadEof
    BY <2>1, <2>2, <2>4, <1>4
  <2> QED
    BY <2>3, <2>4
<1> HIDE DEF s4
<1>6. DispatchKids
  <2>1. \A c \in Child : Handled(c) \in Kids
    BY HandledFields
  <2>2. \A c \in Child : Fork(Handled(c)) \in Kids
    BY <2>1, ForkFields
  <2>3. kids' = [c \in Child |-> IF ~Restarts \/ Handled(c).pid THEN Handled(c) ELSE Fork(Handled(c))]
    BY <1>1, <1>5 DEF RestartChildServers
  <2> QED
    BY <2>1, <2>2, <2>3 DEF DispatchKids
<1>7. mode1 \in {"RUN", "QUIT_SYNC", "QUIT", "SHUTDOWN"} /\ (mode1 = main.mode \/ (mode1 = "QUIT_SYNC" /\ AllChildrenExited(kids')))
  <2>1. \A c \in Child : /\ kids'[c].needExit = AfterSync(c).needExit
                         /\ kids'[c].exited = Handled(c).exited
                         /\ AfterSync(c).exited => Handled(c).exited
    BY <1>6, HandledFields, ForkFields DEF DispatchKids
  <2>2. AllChildrenExited(ks0) => AllChildrenExited(kids')
    BY <2>1 DEF AllChildrenExited
  <2>3. AllChildrenExited(ks1) => AllChildrenExited(kids')
    BY <2>1, HandledFields DEF AllChildrenExited
  <2>4. mode0 = main.mode \/ (mode0 = "QUIT_SYNC" /\ AllChildrenExited(kids'))
    BY <2>2 DEF ModeAfterCheck
  <2> HIDE DEF mode0, ks1
  <2>5. mode1 = mode0 \/ (mode1 = "QUIT_SYNC" /\ AllChildrenExited(kids'))
    BY <2>3 DEF ModeAfterCheck
  <2> HIDE DEF mode1
  <2> QED
    BY <2>4, <2>5, <1>0 DEF MainFields
<1> HIDE DEF mode1, ks1, p
<1>8. DispatchMain
  <2>0. Head(toMain) \in Cmds \/ toMain = <<>>
    BY <1>0, TailFacts
  <2> DEFINE m == s3.m
  <2>5. ASSUME m \in MainFields
        PROVE  /\ main' \in MainFields /\ main'.pc = "loop" /\ main'.mode = m.mode
               /\ main'.up = m.up /\ main'.hint = m.hint /\ main'.xfd = m.xfd
               /\ main'.quitSync = m.quitSync /\ main'.task = m.task /\ main'.db = m.db
               /\ main'.reloading <=> m.reloading /\ ~ReloadEof
               /\ main'.rfd <=> m.rfd /\ ~ReloadEof
    <3> HIDE DEF m
    <3>1. CASE ReloadEof
      <4>1. main' = [m EXCEPT !.reloading = FALSE, !.rfd = FALSE, !.pc = "loop"]
        BY <3>1, <1>1, <1>5, <2>5 DEF MainFields, m
      <4> QED
        BY <3>1, <4>1, <2>5 DEF MainFields
    <3>2. CASE ~ReloadEof
      <4>1. main' = [m EXCEPT !.pc = "loop"]
        BY <3>2, <1>1, <1>5, <2>5 DEF m
      <4> QED
        BY <3>2, <4>1, <2>5 DEF MainFields
    <3> QED
      BY <3>1, <3>2
  <2>1. CASE XfrdGone
    <3>1. m = [main EXCEPT !.mode = "SHUTDOWN", !.xfd = FALSE]
      BY <2>1, <1>4
    <3> HIDE DEF m
    <3>2. /\ m \in MainFields /\ m.up /\ m.mode = "SHUTDOWN" /\ ~m.xfd /\ m.hint = main.hint
          /\ m.reloading = main.reloading /\ m.rfd = main.rfd /\ m.quitSync = main.quitSync
          /\ m.task = main.task /\ m.db = main.db
      BY <3>1, <1>0 DEF MainFields
    <3>3. ~Gets("QUIT") /\ ~Gets("RELOAD")
      BY <2>1 DEF Gets, XfrdGone
    <3> QED
      BY <3>2, <3>3, <2>1, <2>5 DEF DispatchMain, m
  <2>2. CASE Gets("RELOAD")
    <3>1. m = [main EXCEPT !.mode = mode1, !.hint = TRUE] /\ ~XfrdGone /\ ~Gets("QUIT") /\ ~Gets("SHUTDOWN")
      BY <2>2, <1>4 DEF Gets, XfrdGone
    <3> HIDE DEF m
    <3>4. /\ m \in MainFields /\ m.up /\ m.mode = mode1 /\ m.xfd = main.xfd /\ m.hint
          /\ m.reloading = main.reloading /\ m.rfd = main.rfd /\ m.quitSync = main.quitSync
          /\ m.task = main.task /\ m.db = main.db
      BY <3>1, <1>7, <1>0 DEF MainFields
    <3> QED
      BY <3>1, <3>4, <2>2, <2>5, <1>7 DEF DispatchMain, m
  <2>3. CASE ~XfrdReadable
    <3>1. m = [main EXCEPT !.mode = mode1] /\ ~XfrdGone /\ ~Gets("QUIT") /\ ~Gets("SHUTDOWN") /\ ~Gets("RELOAD")
      BY <2>3, <1>4 DEF Gets, XfrdGone
    <3> HIDE DEF m
    <3>4. /\ m \in MainFields /\ m.up /\ m.mode = mode1 /\ m.xfd = main.xfd /\ m.hint = main.hint
          /\ m.reloading = main.reloading /\ m.rfd = main.rfd /\ m.quitSync = main.quitSync
          /\ m.task = main.task /\ m.db = main.db
      BY <3>1, <1>7, <1>0 DEF MainFields
    <3> QED
      BY <3>1, <3>4, <2>3, <2>5, <1>7 DEF DispatchMain, m
  <2>4. CASE XfrdReadable /\ ~XfrdGone /\ ~Gets("RELOAD")
    <3>1. m = [main EXCEPT !.mode = Head(toMain)]
      BY <2>4, <1>4
    <3>2. Head(toMain) \in {"QUIT", "SHUTDOWN"} /\ Gets(Head(toMain))
      BY <2>0, <2>4 DEF Gets, XfrdGone, Cmds
    <3> HIDE DEF m
    <3>3. (Gets("QUIT") /\ Head(toMain) = "QUIT" /\ ~Gets("SHUTDOWN"))
            \/ (Gets("SHUTDOWN") /\ Head(toMain) = "SHUTDOWN" /\ ~Gets("QUIT"))
      BY <3>2 DEF Gets
    <3>4. /\ m \in MainFields /\ m.up /\ m.mode = Head(toMain) /\ m.xfd = main.xfd /\ m.hint = main.hint
          /\ m.reloading = main.reloading /\ m.rfd = main.rfd /\ m.quitSync = main.quitSync
          /\ m.task = main.task /\ m.db = main.db
      BY <3>1, <3>2, <1>0 DEF MainFields
    <3> QED
      BY <3>1, <3>3, <3>4, <2>4, <2>5 DEF DispatchMain, m
  <2> QED
    BY <2>1, <2>2, <2>3, <2>4
<1>9. DispatchSends(p)
  <2>1. ReloadEof => (s3.m.xfd <=> main'.xfd)
    BY <1>1, <1>4, <1>5, <1>0 DEF MainFields
  <2> QED
    BY <2>1, <1>1, <1>5, PassingFacts DEF DispatchSends, p
<1> QED
  BY <1>6, <1>8, <1>9

=============================================================================
