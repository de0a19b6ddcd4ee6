------------------------- MODULE NsdReloadXfrdSteps -------------------------
(***************************************************************************)
(* The invariant of NsdReloadInv holds initially, and every step of xfrd   *)
(* keeps it.                                                               *)
(***************************************************************************)
EXTENDS NsdReloadLemmas

(* The invariant holds after startup.                                      *)
LEMMA InitIInv == Init => IInv
<1> SUFFICES ASSUME Init PROVE IInv
  OBVIOUS
<1>1. TypeOK
  <2>0. <<>> \in Seq(1..MaxPacket)
    OBVIOUS
  <2>1. NewKid \in Kids /\ [NewKid EXCEPT !.up = FALSE] \in Kids
    BY <2>0 DEF NewKid, Kids
  <2> QED
    BY <2>1, BoundAssumption DEF Init, TypeOK, NoReload, XfrdFields, MainFields, ReloadFields, HistFields
<1>2. Token /\ TaskFilesApart /\ Phases /\ Order
  BY DEF Init, Token, TaskFilesApart, Phases, Order, Once, Has, ReloadInFlight, NoReload, AppliedInOrder,
         TasksInOrder, Own, Other, Ids, Below, Range
<1>3. NoneDied
  BY DEF Init, NoneDied, Reported, Has, ReloadInFlight, NoReload, Range
<1>4. Quiet
  BY DEF Init, Quiet, Has, Once, Leaving, NoReload, FreshKid, NewKid
<1>5. NoTaskLost /\ NoPacketLost
  BY DEF Init, NoTaskLost, NoPacketLost, Range, NoReload
<1>6. Handover
  BY DEF Init, Handover, Has, Before, NoReload
<1> QED
  BY <1>1, <1>2, <1>3, <1>4, <1>5, <1>6 DEF IInv

(* A request to stop keeps the invariant.                                  *)
LEMMA XfrdStopStep == ASSUME IInv, XfrdStop PROVE IInv'
<1>1. /\ TypeOK /\ Token /\ TaskFilesApart /\ Phases /\ Order
      /\ hist.crashes = 0 => NoneDied
      /\ "main" \notin Crashing => Handover
  BY DEF IInv
<1>2. /\ UNCHANGED <<main, kids, reload, nkids, toReload, toOld, task, toMain, toXfrd>>
      /\ xfrd'.up = xfrd.up /\ xfrd'.task = xfrd.task /\ xfrd'.can = xfrd.can
      /\ xfrd'.blocked = xfrd.blocked /\ xfrd'.needQuit = xfrd.needQuit /\ xfrd'.served = xfrd.served
      /\ hist'.issued = hist.issued /\ hist'.crashes = hist.crashes /\ hist'.stop
  BY <1>1 DEF XfrdStop, TypeOK, XfrdFields, HistFields, serverVars
<1>3. TypeOK'
  <2>1. xfrd' \in XfrdFields
    BY <1>1 DEF XfrdStop, TypeOK, XfrdFields
  <2>2. hist' \in HistFields
    BY <1>1 DEF XfrdStop, TypeOK, HistFields
  <2> QED
    BY <1>1, <1>2, <2>1, <2>2 DEF TypeOK
<1>4. Token' /\ TaskFilesApart' /\ Phases' /\ Order'
  BY <1>1, <1>2 DEF Token, TaskFilesApart, Phases, Order, ReloadInFlight, AppliedInOrder, TasksInOrder, Own, Other
<1>5. hist.crashes = 0 => NoneDied'
  BY <1>1, <1>2 DEF NoneDied, Reported, ReloadInFlight, Other
<1>6. "main" \notin Crashing => Handover'
  BY <1>1, <1>2 DEF Handover
<1>7. NoTaskLost' /\ NoPacketLost'
  BY <1>2 DEF NoTaskLost, NoPacketLost
<1> QED
  BY <1>2, <1>3, <1>4, <1>5, <1>6, <1>7 DEF IInv

(* A task at the end of xfrd's file keeps the invariant: its number is     *)
(* larger than any number in use.                                          *)
LEMMA XfrdNewTaskStep == ASSUME IInv, XfrdNewTask PROVE IInv'
<1>1. /\ TypeOK /\ Token /\ TaskFilesApart /\ Phases /\ Order /\ NoTaskLost /\ NoPacketLost
      /\ hist.crashes = 0 => NoneDied
      /\ hist.crashes = 0 /\ ~hist.stop => Quiet
      /\ "main" \notin Crashing => Handover
  BY DEF IInv
<1> DEFINE t == [op |-> "task", id |-> hist.issued + 1]
<1>2. /\ UNCHANGED <<xfrd, main, kids, reload, nkids, toReload, toOld, toMain, toXfrd>>
      /\ hist'.issued = hist.issued + 1 /\ hist'.crashes = hist.crashes /\ hist'.stop = hist.stop
      /\ hist'.passed = hist.passed /\ hist'.got = hist.got
      /\ hist.issued \in Nat
  BY <1>1 DEF XfrdNewTask, TypeOK, HistFields, serverVars
<1>3. t \in Tasks
  BY <1>1, BoundAssumption DEF XfrdNewTask, TypeOK, HistFields, Tasks
<1>4. Own' = Append(Own, t) /\ Other' = Other /\ task' \in [{0, 1} -> Seq(Tasks)]
  <2>1. task' = [task EXCEPT ![xfrd.task] = Append(task[xfrd.task], t)]
    BY DEF XfrdNewTask
  <2>2. Append(task[xfrd.task], t) \in Seq(Tasks)
    BY <1>1, <1>3, Files, AppendFacts DEF Own
  <2> HIDE DEF t
  <2> QED
    BY <1>1, <1>2, <2>1, <2>2, Files DEF Own, Other, TypeOK
<1> HIDE DEF t
<1>5. /\ \A i \in DOMAIN Own : Own'[i] = Own[i]
      /\ DOMAIN Own' = DOMAIN Own \cup {Len(Own) + 1} /\ DOMAIN Own = 1..Len(Own) /\ Len(Own) \in Nat
      /\ Own'[Len(Own) + 1] = t
      /\ t.op = "task" /\ t.id = hist.issued + 1
  BY <1>1, <1>3, <1>4, Files, AppendFacts DEF t
<1>6. TypeOK'
  <2>0. hist.issued + 1 \in 0..MaxTask
    BY <1>1, BoundAssumption DEF XfrdNewTask, TypeOK, HistFields
  <2>1. hist' \in HistFields
    BY <1>1, <2>0 DEF XfrdNewTask, TypeOK, HistFields
  <2> QED
    BY <1>1, <1>2, <1>4, <2>1 DEF TypeOK
<1>7. Token' /\ Phases'
  BY <1>1, <1>2 DEF Token, Phases, ReloadInFlight
<1>8. TaskFilesApart'
  BY <1>1, <1>2, <1>4 DEF TaskFilesApart, ReloadInFlight, Other
<1>9. Order'
  <2>1. Ids(Own)' = Ids(Own) \cup {hist.issued + 1}
    BY <1>5 DEF Ids
  <2>2. \A a \in Range(main.db) \cup Range(reload.db) \cup Ids(reload.todo) \cup Ids(Own) : a <= hist.issued
    BY <1>1 DEF Order, TasksInOrder, Ids
  <2>3. ReloadInFlight \/ reload.pc = "begin" => \A a \in Ids(Other) : a <= hist.issued
    BY <1>1 DEF Order, TasksInOrder, Ids
  <2>4. TasksInOrder(Own, hist.issued)'
    <3>0. /\ \A i \in DOMAIN Own : Own[i].op = "task" /\ Own[i].id \in Nat /\ Own[i].id <= hist.issued
          /\ \A i, j \in DOMAIN Own : i < j => Own[i].id < Own[j].id
      <4>1. TasksInOrder(Own, hist.issued) /\ Own \in Seq(Tasks)
        BY <1>1, Files DEF Order
      <4> QED
        BY <4>1, TaskIds DEF TasksInOrder
    <3>1. \A i \in DOMAIN Own' : Own'[i].op = "task" /\ Own'[i].id <= hist'.issued
      BY <3>0, <1>2, <1>5
    <3>2. \A i, j \in DOMAIN Own' : i < j => Own'[i].id < Own'[j].id
      BY <3>0, <1>2, <1>5
    <3> QED
      BY <3>1, <3>2 DEF TasksInOrder
  <2>5. Below(Range(main.db) \cup Range(reload.db) \cup Ids(reload.todo), Ids(Own))'
    BY <1>1, <1>2, <2>1, <2>2, Numbers DEF Order, Below
  <2>6. \A a \in Range(main.db) \cup Range(reload.db) : a <= hist'.issued
    BY <1>1, <1>2, <2>2, Numbers
  <2>7. TasksInOrder(reload.todo, hist.issued)'
    BY <1>1, <1>2, InOrderLater, Numbers DEF Order, TypeOK, ReloadFields
  <2>8. (ReloadInFlight \/ reload.pc = "begin")' =>
          TasksInOrder(Other, hist.issued)' /\ Below(Ids(Other), Ids(Own))'
          /\ Below(Range(main.db) \cup Range(reload.db), Ids(Other))'
    <3> SUFFICES ASSUME (ReloadInFlight \/ reload.pc = "begin")'
                 PROVE  TasksInOrder(Other, hist.issued)' /\ Below(Ids(Other), Ids(Own))'
                        /\ Below(Range(main.db) \cup Range(reload.db), Ids(Other))'
      OBVIOUS
    <3>1. /\ TasksInOrder(Other, hist.issued) /\ Below(Ids(Other), Ids(Own))
          /\ Below(Range(main.db) \cup Range(reload.db), Ids(Other))
          /\ \A a \in Ids(Other) : a <= hist.issued
      BY <1>1, <1>2, <2>3 DEF Order, ReloadInFlight
    <3>2. Ids(Other)' = Ids(Other)
      BY <1>4
    <3>3. TasksInOrder(Other, hist.issued)'
      BY <1>1, <1>2, <1>4, <3>1, InOrderLater, Numbers, Files
    <3>4. Below(Ids(Other), Ids(Own))'
      BY <1>1, <1>2, <2>1, <3>1, <3>2, Numbers DEF Below
    <3> QED
      BY <1>2, <3>1, <3>2, <3>3, <3>4
  <2> QED
    BY <1>1, <1>2, <2>4, <2>5, <2>6, <2>7, <2>8 DEF Order, AppliedInOrder
<1>10. NoTaskLost'
  <2>1. Range(Own)' = Range(Own) \cup {t}
    BY <1>1, <1>3, <1>4, Files, AppendHas
  <2>2. Range(task'[0]) \cup Range(task'[1]) = Range(Own)' \cup Range(Other)'
    BY <1>6, TwoFiles DEF TypeOK, XfrdFields, Own, Other
  <2> DEFINE W == Range(Own) \cup Range(Other) \cup Range(reload.todo)
  <2>3. W' = W \cup {t}
    BY <1>2, <1>4, <2>1
  <2>4. {u.id : u \in {v \in W' : v.op = "task"}} = {u.id : u \in {v \in W : v.op = "task"}} \cup {hist.issued + 1}
    BY <2>3, <1>5
  <2>5. 1..(hist.issued + 1) = (1..hist.issued) \cup {hist.issued + 1}
    BY <1>2
  <2> HIDE DEF W
  <2>6. hist.crashes = 0 /\ ~hist.stop =>
          1..hist.issued = {u.id : u \in {v \in W : v.op = "task"}} \cup Range(reload.db) \cup Range(main.db)
    BY <1>1, Files DEF NoTaskLost, W
  <2> QED
    BY <1>2, <2>2, <2>4, <2>5, <2>6 DEF NoTaskLost, W
<1>11. hist.crashes = 0 => NoneDied'
  BY <1>1, <1>2, <1>4 DEF NoneDied, Reported, ReloadInFlight, Other
<1>12. hist.crashes = 0 /\ ~hist.stop => Quiet'
  BY <1>1, <1>2 DEF Quiet, Leaving, AllChildrenExited
<1>13. "main" \notin Crashing => Handover'
  BY <1>1, <1>2 DEF Handover
<1>14. NoPacketLost'
  BY <1>1, <1>2 DEF NoPacketLost
<1> QED
  BY <1>2, <1>6, <1>7, <1>8, <1>9, <1>10, <1>11, <1>12, <1>13, <1>14 DEF IInv

(* Wanting a reload keeps the invariant.                                   *)
LEMMA XfrdSetReloadNowStep == ASSUME IInv, XfrdSetReloadNow PROVE IInv'
<1>1. /\ TypeOK /\ Token /\ TaskFilesApart /\ Phases /\ Order /\ NoTaskLost /\ NoPacketLost
      /\ hist.crashes = 0 => NoneDied
      /\ hist.crashes = 0 /\ ~hist.stop => Quiet
      /\ "main" \notin Crashing => Handover
  BY DEF IInv
<1>2. /\ UNCHANGED <<main, kids, reload, nkids, toReload, toOld, task, toMain, toXfrd, hist>>
      /\ xfrd'.up = xfrd.up /\ xfrd'.task = xfrd.task /\ xfrd'.can = xfrd.can
      /\ xfrd'.blocked = xfrd.blocked /\ xfrd'.needQuit = xfrd.needQuit /\ xfrd'.served = xfrd.served
      /\ xfrd'.needShutdown = xfrd.needShutdown
  BY <1>1 DEF XfrdSetReloadNow, TypeOK, XfrdFields, serverVars
<1>3. TypeOK'
  <2>1. xfrd' \in XfrdFields
    BY <1>1 DEF XfrdSetReloadNow, TypeOK, XfrdFields
  <2> QED
    BY <1>1, <1>2, <2>1 DEF TypeOK
<1>4. Token' /\ TaskFilesApart' /\ Phases' /\ Order'
  BY <1>1, <1>2 DEF Token, TaskFilesApart, Phases, Order, ReloadInFlight, AppliedInOrder, Own, Other
<1>5. hist.crashes = 0 => NoneDied'
  BY <1>1, <1>2 DEF NoneDied, Reported, ReloadInFlight, Other
<1>6. hist.crashes = 0 /\ ~hist.stop => Quiet'
  BY <1>1, <1>2 DEF Quiet, Leaving
<1>7. "main" \notin Crashing => Handover'
  BY <1>1, <1>2 DEF Handover
<1>8. NoTaskLost' /\ NoPacketLost'
  BY <1>1, <1>2 DEF NoTaskLost, NoPacketLost
<1> QED
  BY <1>2, <1>3, <1>4, <1>5, <1>6, <1>7, <1>8 DEF IInv

(* xfrd_handle_ipc keeps the invariant: RELOAD is sent, and the files are  *)
(* swapped, by the xfrd that holds the token only, and RELOAD_DONE gives   *)
(* it back.                                                                *)
LEMMA XfrdHandleIpcStep == ASSUME IInv, NEW writable \in BOOLEAN, XfrdHandleIpc(writable) PROVE IInv'
<1>1. /\ TypeOK /\ Token /\ TaskFilesApart /\ Phases /\ Order /\ NoTaskLost /\ NoPacketLost
      /\ hist.crashes = 0 => NoneDied
      /\ hist.crashes = 0 /\ ~hist.stop => Quiet
      /\ "main" \notin Crashing => Handover
  BY DEF IInv
<1>2. PICK x, cmd : IpcRead(x, task') /\ IpcWrite(x, xfrd', cmd) /\ toMain' = Sent(toMain, cmd)
  BY <1>1, IpcStep
<1>3. /\ xfrd.up /\ UNCHANGED <<main, kids, reload, nkids, toReload, toOld>>
      /\ toXfrd' = IF toXfrd # <<>> THEN Tail(toXfrd) ELSE toXfrd
      /\ hist' = IF toXfrd # <<>> /\ Head(toXfrd).op = "PASS"
                 THEN [hist EXCEPT !.got = @ \cup {Head(toXfrd).id}] ELSE hist
  BY DEF XfrdHandleIpc, serverVars
<1> DEFINE D == Reads(ReloadDoneCmd)
           R == Reads(ReloadCmd)
           S == cmd = "RELOAD"
<1>4. /\ toXfrd \in Seq(Messages) /\ toMain \in Seq(Cmds) /\ toXfrd' \in Seq(Messages)
      /\ \A m : Has(toXfrd, m) <=> Has(toXfrd', m) \/ Reads(m)
      /\ \A m : Once(toXfrd, m) => Once(toXfrd', m) /\ (Reads(m) => ~Has(toXfrd', m))
      /\ Range(toXfrd) = IF toXfrd = <<>> THEN Range(toXfrd') ELSE {Head(toXfrd)} \cup Range(toXfrd')
      /\ Before(toXfrd, ReloadCmd, ReloadDoneCmd) =>
            Before(toXfrd', ReloadCmd, ReloadDoneCmd) /\ (D => ~Has(toXfrd, ReloadCmd))
      /\ ~(D /\ R)
  <2>1. toXfrd \in Seq(Messages) /\ toMain \in Seq(Cmds)
    BY <1>1 DEF TypeOK
  <2>2. ReloadCmd # ReloadDoneCmd
    BY DEF ReloadCmd, ReloadDoneCmd
  <2>3. CASE toXfrd = <<>>
    BY <1>3, <2>1, <2>3 DEF Reads
  <2>4. CASE toXfrd # <<>>
    <3>1. toXfrd' = Tail(toXfrd)
      BY <1>3, <2>4
    <3>2. /\ toXfrd' \in Seq(Messages)
          /\ \A m : Has(toXfrd, m) <=> Has(toXfrd', m) \/ Reads(m)
          /\ \A m : Once(toXfrd, m) => Once(toXfrd', m) /\ (Reads(m) => ~Has(toXfrd', m))
          /\ Range(toXfrd) = {Head(toXfrd)} \cup Range(toXfrd')
      BY <2>1, <2>4, <3>1, TailFacts, TailHas DEF Reads
    <3>3. Before(toXfrd, ReloadCmd, ReloadDoneCmd) =>
            Before(toXfrd', ReloadCmd, ReloadDoneCmd) /\ (D => ~Has(toXfrd, ReloadCmd))
      BY <2>1, <2>2, <2>4, <3>1, TailBefore DEF Reads
    <3> QED
      BY <2>1, <2>2, <2>4, <3>2, <3>3 DEF Reads
  <2> QED
    BY <2>3, <2>4
<1>5. /\ toMain' \in Seq(Cmds) /\ cmd \in {"none", "SHUTDOWN", "QUIT", "RELOAD"}
      /\ cmd = "none" => toMain' = toMain
      /\ \A c : c # "none" => (Has(toMain', c) <=> Has(toMain, c) \/ cmd = c)
      /\ \A c : c # "none" /\ Once(toMain, c) /\ ~(cmd = c /\ Has(toMain, c)) => Once(toMain', c)
      /\ Before(toMain, "QUIT", "RELOAD") /\ (cmd = "QUIT" => ~Has(toMain, "RELOAD")) =>
            Before(toMain', "QUIT", "RELOAD")
      /\ cmd # "none" => toMain'[Len(toMain')] = cmd
  <2>1. cmd \in {"none", "SHUTDOWN", "QUIT", "RELOAD"}
    BY <1>2 DEF IpcWrite
  <2>2. CASE cmd = "none"
    BY <1>2, <1>4, <2>2 DEF Sent
  <2>3. CASE cmd # "none"
    <3>1. toMain' = Append(toMain, cmd) /\ cmd \in Cmds
      BY <1>2, <2>1, <2>3 DEF Sent, Cmds
    <3>2. Before(toMain, "QUIT", "RELOAD") /\ (cmd = "QUIT" => ~Has(toMain, "RELOAD")) =>
            Before(toMain', "QUIT", "RELOAD")
      BY <1>4, <3>1, AppendBefore
    <3> QED
      BY <1>4, <2>1, <2>3, <3>1, <3>2, AppendFacts, AppendHas
  <2> QED
    BY <2>2, <2>3
<1>6. /\ x.up <=> ~Reads(QuitCmd) /\ ~XfrdSeesEof
      /\ x.task = xfrd.task
      /\ x.can <=> xfrd.can \/ D
      /\ x.blocked <=> xfrd.blocked /\ ~D
      /\ x.needQuit <=> xfrd.needQuit \/ R
      /\ x.needShutdown <=> xfrd.needShutdown
      /\ x.served = IF D THEN xfrd.served \cup Results(Other) ELSE xfrd.served
      /\ task' = IF D THEN [task EXCEPT ![1 - xfrd.task] = <<>>] ELSE task
      /\ task' \in [{0, 1} -> Seq(Tasks)]
  BY <1>2, <1>3 DEF IpcRead
<1>7. /\ xfrd' \in XfrdFields
      /\ xfrd'.up <=> x.up
      /\ xfrd'.task = IF S THEN 1 - xfrd.task ELSE xfrd.task
      /\ xfrd'.can <=> x.can /\ ~S
      /\ xfrd'.blocked <=> x.blocked \/ cmd \in {"SHUTDOWN", "QUIT"}
      /\ xfrd'.needQuit <=> x.needQuit /\ cmd # "QUIT"
      /\ xfrd'.needShutdown <=> x.needShutdown /\ cmd # "SHUTDOWN"
      /\ xfrd'.served = x.served
      /\ cmd # "none" => ~x.blocked
      /\ cmd = "SHUTDOWN" => x.needShutdown
      /\ cmd = "QUIT" => x.needQuit
      /\ S => ~x.needQuit /\ x.can
  BY <1>2, <1>6 DEF IpcWrite
<1>8. /\ hist' \in HistFields /\ hist'.issued = hist.issued /\ hist'.passed = hist.passed
      /\ hist'.crashes = hist.crashes /\ hist'.stop = hist.stop
      /\ hist'.got = IF toXfrd # <<>> /\ Head(toXfrd).op = "PASS" THEN hist.got \cup {Head(toXfrd).id} ELSE hist.got
  <2>1. hist \in HistFields
    BY <1>1 DEF TypeOK
  <2>2. toXfrd # <<>> /\ Head(toXfrd).op = "PASS" => Head(toXfrd).id \in 1..MaxPacket
    <3>1. toXfrd # <<>> => Head(toXfrd) \in Messages
      BY <1>4, TailFacts
    <3>2. \A m \in Messages : m.op = "PASS" => m.id \in 1..MaxPacket
      BY DEF Messages, ReloadDoneCmd, ReloadCmd, QuitCmd
    <3> QED
      BY <3>1, <3>2
  <2>3. CASE toXfrd # <<>> /\ Head(toXfrd).op = "PASS"
    <3> DEFINE v == hist.got \cup {Head(toXfrd).id}
    <3>1. v \in SUBSET (1..MaxPacket)
      BY <2>1, <2>2, <2>3 DEF HistFields
    <3>2. hist' = [hist EXCEPT !.got = v]
      BY <1>3, <2>3
    <3> HIDE DEF v
    <3>3. /\ hist' \in HistFields /\ hist'.issued = hist.issued /\ hist'.passed = hist.passed
          /\ hist'.crashes = hist.crashes /\ hist'.stop = hist.stop /\ hist'.got = v
      BY <2>1, <3>1, <3>2 DEF HistFields
    <3> QED
      BY <2>3, <3>3 DEF v
  <2>4. CASE ~(toXfrd # <<>> /\ Head(toXfrd).op = "PASS")
    BY <1>3, <2>1, <2>4
  <2> QED
    BY <2>3, <2>4
<1>9. /\ D => Has(toXfrd, ReloadDoneCmd) /\ ~xfrd.can /\ ~ReloadInFlight /\ ~main.rfd
      /\ x.can => ~ReloadInFlight /\ ~main.rfd /\ ~Has(toXfrd', ReloadDoneCmd)
      /\ ReloadInFlight' <=> ReloadInFlight \/ S
      /\ reload.pc # "none" => ~D /\ ~x.can /\ ~S /\ ~ReloadInFlight
      /\ ReloadInFlight \/ main.rfd => ~D /\ ~S
  <2>1. D => Has(toXfrd, ReloadDoneCmd) /\ ~xfrd.can /\ ~ReloadInFlight /\ ~main.rfd
    BY <1>1, <1>4 DEF Token
  <2>2. x.can => ~ReloadInFlight /\ ~main.rfd /\ ~Has(toXfrd', ReloadDoneCmd)
    BY <1>1, <1>4, <1>6, <2>1 DEF Token
  <2>3. ReloadInFlight' <=> ReloadInFlight \/ S
    <3>1. ReloadInFlight <=> main.hint \/ Has(toMain, "RELOAD")
      BY DEF ReloadInFlight, Has
    <3>2. ReloadInFlight' <=> main.hint \/ Has(toMain', "RELOAD")
      BY <1>3 DEF ReloadInFlight, Has
    <3> QED
      BY <1>5, <3>1, <3>2
  <2>4. reload.pc # "none" => main.rfd
    BY <1>1 DEF Token
  <2> QED
    BY <1>1, <1>7, <2>1, <2>2, <2>3, <2>4 DEF Token
<1> HIDE DEF D, R
<1>10. /\ ~S => Own' = Own /\ Other' = IF D THEN <<>> ELSE Other
       /\ S => Own' = <<>> /\ Other' = Own
       /\ Range(task'[0]) \cup Range(task'[1]) = Range(Own) \cup (IF D THEN {} ELSE Range(Other))
  <2>1. /\ xfrd.task \in {0, 1} /\ 1 - xfrd.task \in {0, 1} /\ 1 - xfrd.task # xfrd.task /\ 1 - (1 - xfrd.task) = xfrd.task
        /\ task \in [{0, 1} -> Seq(Tasks)]
    BY <1>1, Files DEF TypeOK
  <2>2. task'[xfrd.task] = Own /\ task'[1 - xfrd.task] = IF D THEN <<>> ELSE Other
    BY <1>6, <2>1 DEF Own, Other
  <2>3. S => D \/ Other = <<>>
    BY <1>1, <1>6, <1>7 DEF TaskFilesApart, Other
  <2>4. Range(task'[0]) \cup Range(task'[1]) = Range(task'[xfrd.task]) \cup Range(task'[1 - xfrd.task])
    BY <1>6, <2>1, TwoFiles
  <2> QED
    BY <1>7, <2>1, <2>2, <2>3, <2>4, NoReloadFields DEF Own, Other
<1>11. TypeOK'
  BY <1>1, <1>3, <1>4, <1>5, <1>6, <1>7, <1>8 DEF TypeOK
<1>12. Token'
  <2>1. Once(toMain', "RELOAD") /\ Once(toXfrd', ReloadDoneCmd)
    <3>1. S => ~Has(toMain, "RELOAD")
      BY <1>7, <1>9 DEF ReloadInFlight, Has
    <3> QED
      BY <1>1, <1>4, <1>5, <3>1 DEF Token
  <2>2. Has(toMain', "RELOAD") => ~main.hint
    <3>1. S => ~main.hint
      BY <1>7, <1>9 DEF ReloadInFlight
    <3> QED
      BY <1>1, <1>5, <3>1 DEF Token
  <2>3. ReloadInFlight' => ~main.rfd /\ ~Has(toXfrd', ReloadDoneCmd)
    BY <1>1, <1>4, <1>7, <1>9 DEF Token
  <2> QED
    BY <1>1, <1>3, <1>4, <1>7, <1>9, <2>1, <2>2, <2>3 DEF Token
<1>13. TaskFilesApart'
  <2>1. main.up => (main.task = xfrd'.task <=> ReloadInFlight')
    <3>1. main.task \in {0, 1} /\ xfrd.task \in {0, 1} /\ 1 - xfrd.task # xfrd.task /\ \A f \in {0, 1} : f = xfrd.task \/ f = 1 - xfrd.task
      BY <1>1, Files DEF TypeOK, MainFields
    <3> QED
      BY <1>1, <1>7, <1>9, <3>1 DEF TaskFilesApart
  <2>2. xfrd'.can => Other' = <<>>
    BY <1>1, <1>6, <1>7, <1>10 DEF TaskFilesApart, Other
  <2> QED
    BY <1>1, <1>3, <1>7, <1>9, <2>1, <2>2 DEF TaskFilesApart, Other
<1>14. Phases'
  BY <1>1, <1>3 DEF Phases
<1>15. Order'
  <2>1. AppliedInOrder'
    BY <1>1, <1>3 DEF Order, AppliedInOrder
  <2>2. CASE ~S
    <3>1. (ReloadInFlight \/ reload.pc = "begin")' => Other' = Other /\ (ReloadInFlight \/ reload.pc = "begin")
      BY <1>3, <1>9, <1>10, <2>2
    <3>2. Own' = Own
      BY <1>10, <2>2
    <3> QED
      BY <1>1, <1>3, <1>8, <2>1, <3>1, <3>2 DEF Order
  <2>3. CASE S
    <3>1. Own' = <<>> /\ Other' = Own /\ Ids(<<>>) = {} /\ TasksInOrder(<<>>, hist.issued)
      BY <1>10, <2>3, NoReloadFields DEF TasksInOrder
    <3> QED
      BY <1>1, <1>3, <1>8, <2>1, <3>1 DEF Order, Below
  <2> QED
    BY <2>2, <2>3
<1>16. hist.crashes = 0 => NoneDied'
  <2> SUFFICES ASSUME NoneDied PROVE NoneDied'
    BY <1>1
  <2>1. Has(toXfrd', ReloadDoneCmd) => Has(toXfrd, ReloadDoneCmd) /\ ~D /\ ~S
    BY <1>1, <1>4, <1>7, <1>9 DEF Token, D
  <2>2. Has(toXfrd', ReloadDoneCmd) \/ reload.pc # "none" => Other' = Other /\ xfrd'.served = xfrd.served
    BY <1>6, <1>7, <1>9, <1>10, <2>1
  <2>3. main.up /\ (xfrd'.can \/ ReloadInFlight') => xfrd'.served = Range(main.db)
    <3>1. CASE D
      BY <1>6, <1>7, <1>9, <3>1 DEF NoneDied, Reported
    <3>2. CASE ~D
      BY <1>6, <1>7, <1>9, <3>2 DEF NoneDied, Reported
    <3> QED
      BY <3>1, <3>2
  <2> QED
    BY <1>3, <2>1, <2>2, <2>3 DEF NoneDied, Reported
<1>17. hist.crashes = 0 /\ ~hist.stop => Quiet'
  <2> SUFFICES ASSUME Quiet PROVE Quiet'
    BY <1>1
  <2>1. xfrd'.up /\ ~xfrd'.needShutdown /\ ~Has(toMain', "SHUTDOWN") /\ ~Has(toXfrd', QuitCmd)
    <3>1. ~Reads(QuitCmd) /\ ~XfrdSeesEof
      BY <1>4 DEF Quiet, XfrdSeesEof, Leaving
    <3> QED
      BY <1>4, <1>5, <1>6, <1>7, <3>1 DEF Quiet
  <2>2. /\ Once(toXfrd', ReloadCmd) /\ (R => Has(toXfrd, ReloadCmd) /\ ~Has(toXfrd', ReloadCmd))
        /\ Has(toXfrd', ReloadCmd) => Has(toXfrd, ReloadCmd) /\ ~R
    BY <1>4 DEF Quiet, R
  <2>3. cmd = "QUIT" => Has(toXfrd, ReloadCmd) \/ xfrd.needQuit
    BY <1>6, <1>7, <2>2
  <2>4. Once(toMain', "QUIT")
    BY <1>5, <2>3 DEF Quiet
  <2>5. Has(toXfrd', ReloadCmd) => ~xfrd'.needQuit
    BY <1>6, <1>7, <2>2 DEF Quiet
  <2>6. Has(toXfrd', ReloadCmd) \/ xfrd'.needQuit => ~Has(toMain', "QUIT")
    BY <1>5, <1>6, <1>7, <2>2 DEF Quiet
  <2>7. Has(toXfrd', ReloadCmd) \/ xfrd'.needQuit \/ Has(toMain', "QUIT") =>
          main.up /\ main.quitSync /\ main.mode # "QUIT"
    BY <1>5, <1>6, <1>7, <2>2, <2>3 DEF Quiet
  <2> QED
    BY <1>3, <2>1, <2>2, <2>4, <2>5, <2>6, <2>7 DEF Quiet, Leaving
<1>18. "main" \notin Crashing => Handover'
  <2> SUFFICES ASSUME Handover PROVE Handover'
    BY <1>1
  <2>1. Before(toXfrd', ReloadCmd, ReloadDoneCmd) /\ (D => ~Has(toXfrd, ReloadCmd))
    BY <1>4 DEF Handover
  <2>2. Has(toXfrd, ReloadDoneCmd) => Has(toXfrd', ReloadDoneCmd) \/ D
    BY <1>4 DEF D
  <2>3. R => Has(toXfrd, ReloadCmd) /\ ~D
    BY <1>4 DEF R, D
  <2>4. Has(toXfrd', ReloadCmd) => main.rfd \/ Has(toXfrd', ReloadDoneCmd)
    BY <1>3, <1>4, <2>1, <2>2 DEF Handover
  <2>5. x.needQuit => main.rfd \/ Has(toXfrd', ReloadDoneCmd) \/ x.can
    BY <1>3, <1>6, <2>2, <2>3 DEF Handover
  <2>6. xfrd'.needQuit => main.rfd \/ Has(toXfrd', ReloadDoneCmd) \/ xfrd'.can
    BY <1>7, <2>5
  <2>7. cmd = "QUIT" => ~Has(toMain, "RELOAD") /\ ~main.hint
    <3>1. Has(toXfrd', ReloadDoneCmd) => ~ReloadInFlight
      BY <1>1, <1>4 DEF Token
    <3>2. cmd = "QUIT" => ~ReloadInFlight
      BY <1>1, <1>7, <1>9, <2>5, <3>1 DEF Token
    <3> QED
      BY <3>2 DEF ReloadInFlight, Has
  <2>8. main.rfd /\ xfrd.blocked => cmd = "none" /\ xfrd'.blocked /\ toMain' = toMain
    BY <1>5, <1>6, <1>7, <1>9
  <2>9. Has(toMain', "QUIT") /\ main.rfd =>
          Once(toMain', "QUIT") /\ toMain'[Len(toMain')] = "QUIT" /\ xfrd'.blocked
    <3>1. CASE Has(toMain, "QUIT")
      BY <2>8, <3>1 DEF Handover
    <3>2. CASE ~Has(toMain, "QUIT")
      <4>1. Once(toMain, "QUIT")
        BY <3>2 DEF Once, Has
      <4> QED
        BY <1>5, <1>7, <3>2, <4>1
    <3> QED
      BY <3>1, <3>2
  <2>10. main.mode = "QUIT" /\ main.rfd => toMain' = <<>> /\ xfrd'.blocked
    BY <2>8 DEF Handover
  <2>11. main.hint => ~Has(toMain', "QUIT")
    BY <1>5, <2>7 DEF Handover
  <2>12. Before(toMain', "QUIT", "RELOAD")
    BY <1>5, <2>7 DEF Handover
  <2> QED
    BY <1>3, <2>1, <2>4, <2>6, <2>9, <2>10, <2>11, <2>12 DEF Handover
<1>19. NoTaskLost'
  <2> SUFFICES ASSUME hist.crashes = 0, ~hist.stop PROVE NoTaskLost'
    BY <1>8 DEF NoTaskLost
  <2>1. D => \A u \in Range(Other) : u.op = "soa"
    BY <1>1, <1>9 DEF NoneDied, Range
  <2> DEFINE W == Range(Own) \cup Range(Other) \cup Range(reload.todo)
             V == Range(Own) \cup (IF D THEN {} ELSE Range(Other)) \cup Range(reload.todo)
  <2>2. {u \in W : u.op = "task"} = {u \in V : u.op = "task"}
    BY <2>1
  <2>3. Range(task[0]) \cup Range(task[1]) \cup Range(reload.todo) = W
    BY <1>1, Files
  <2>4. Range(task'[0]) \cup Range(task'[1]) \cup Range(reload'.todo) = V
    BY <1>3, <1>10
  <2> HIDE DEF W, V
  <2> QED
    BY <1>1, <1>3, <1>8, <2>2, <2>3, <2>4 DEF NoTaskLost
<1>20. NoPacketLost'
  <2> SUFFICES ASSUME hist.crashes = 0, ~hist.stop, NEW p \in 1..hist.passed PROVE Carried(p)'
    BY <1>8, PacketsCarried DEF AllCarried
  <2>1. Carried(p)
    BY <1>1, PacketsCarried DEF AllCarried
  <2>2. p # 0
    BY <1>1, Numbers
  <2>3. ASSUME NEW m \in Range(toXfrd), m.id = p
        PROVE  p \in hist'.got \/ \E n \in Range(toXfrd') : n.id = p
    <3>1. CASE m \in Range(toXfrd')
      BY <2>3, <3>1
    <3>2. CASE toXfrd # <<>> /\ m = Head(toXfrd)
      <4>1. m \in Messages
        BY <1>4, <3>2, TailFacts
      <4>2. m.op = "PASS"
        BY <2>2, <2>3, <4>1 DEF Messages, ReloadDoneCmd, ReloadCmd, QuitCmd
      <4> QED
        BY <1>8, <2>3, <3>2, <4>2
    <3> QED
      BY <1>4, <3>1, <3>2
  <2>4. hist.got \subseteq hist'.got
    BY <1>8
  <2> QED
    BY <1>3, <2>1, <2>3, <2>4 DEF Carried
<1> QED
  BY <1>8, <1>11, <1>12, <1>13, <1>14, <1>15, <1>16, <1>17, <1>18, <1>19, <1>20 DEF IInv

=============================================================================
