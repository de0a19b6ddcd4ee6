--------------------------- MODULE NsdReloadSteps ---------------------------
(***************************************************************************)
(* Every step of reload and of the children, and every death of one of     *)
(* them, keeps the invariant of NsdReloadInv.                              *)
(***************************************************************************)
EXTENDS NsdReloadLemmas

(* Taking over the other file's list of tasks keeps the invariant.         *)
LEMMA ReloadBeginStep == ASSUME IInv, ReloadBegin PROVE IInv'
<1>1. /\ TypeOK /\ Token /\ TaskFilesApart /\ Phases /\ Order /\ NoTaskLost /\ NoPacketLost
      /\ hist.crashes = 0 => NoneDied
      /\ hist.crashes = 0 /\ ~hist.stop => Quiet
      /\ "main" \notin Crashing => Handover
  BY DEF IInv
<1>2. /\ reload.pc = "begin" /\ main.rfd /\ ~ReloadInFlight /\ ~xfrd.can /\ ~Has(toXfrd, ReloadDoneCmd)
      /\ reload.task = 1 - xfrd.task /\ task[reload.task] = Other /\ reload.todo = <<>> /\ ~Leaving
  <2>1. reload.pc = "begin"
    BY DEF ReloadBegin
  <2> QED
    BY <1>1, <2>1, Reloading DEF Phases, Leaving
<1>3. /\ UNCHANGED <<xfrd, main, kids, nkids, toMain, toXfrd, toReload, toOld, hist>>
      /\ reload' = [reload EXCEPT !.todo = Other, !.pc = IF Other = <<>> THEN "start" ELSE "tasks"]
      /\ task' = [task EXCEPT ![1 - xfrd.task] = <<>>]
  BY <1>2 DEF ReloadBegin
<1>4. Own \in Seq(Tasks) /\ Other \in Seq(Tasks)
  BY <1>1, Files
<1>5. /\ reload' \in ReloadFields /\ reload'.todo = Other /\ reload'.task = reload.task
      /\ reload'.pc = IF Other = <<>> THEN "start" ELSE "tasks"
      /\ reload'.db = reload.db /\ reload'.quitSync = reload.quitSync
  BY <1>1, <1>3, <1>4 DEF TypeOK, ReloadFields
<1>6. task' \in [{0, 1} -> Seq(Tasks)] /\ Own' = Own /\ Other' = <<>>
  <2>1. <<>> \in Seq(Tasks)
    OBVIOUS
  <2> QED
    BY <1>1, <1>3, <2>1, Files DEF TypeOK, Own, Other
<1>7. ~ReloadInFlight' /\ ~Leaving' /\ reload'.pc \in {"tasks", "start"}
  BY <1>2, <1>3, <1>5 DEF ReloadInFlight, Leaving
<1>8. TypeOK' /\ Token'
  BY <1>1, <1>2, <1>3, <1>5, <1>6, <1>7 DEF TypeOK, Token
<1>9. TaskFilesApart' /\ Phases'
  BY <1>1, <1>2, <1>3, <1>5, <1>7 DEF TaskFilesApart, Phases, ReloadInFlight
<1>10. Order'
  <2>1. /\ TasksInOrder(Other, hist.issued) /\ Below(Ids(Other), Ids(Own))
        /\ Below(Range(main.db) \cup Range(reload.db), Ids(Other))
    BY <1>1, <1>2 DEF Order
  <2>2. AppliedInOrder'
    BY <1>1, <1>3, <1>5 DEF Order, AppliedInOrder
  <2> QED
    BY <1>1, <1>3, <1>5, <1>6, <1>7, <2>1, <2>2 DEF Order, Below
<1>11. hist.crashes = 0 => NoneDied'
  <2>1. Results(<<>>) = {}
    BY DEF Results, Range
  <2> QED
    BY <1>1, <1>2, <1>3, <1>5, <1>6, <1>7, <2>1 DEF NoneDied, Reported
<1>12. hist.crashes = 0 /\ ~hist.stop => Quiet'
  BY <1>1, <1>2, <1>3, <1>5, <1>7 DEF Quiet
<1>13. "main" \notin Crashing => Handover'
  BY <1>1, <1>2, <1>3, <1>5 DEF Handover
<1>14. NoTaskLost'
  <2>1. Range(task[0]) \cup Range(task[1]) = Range(Own) \cup Range(Other)
    BY <1>1, Files
  <2>2. Range(task'[0]) \cup Range(task'[1]) = Range(Own) \cup Range(<<>>)
    BY <1>6, <1>8, TwoFiles DEF TypeOK, XfrdFields, Own, Other
  <2>3. Range(<<>>) = {}
    BY DEF Range
  <2>4. Range(task'[0]) \cup Range(task'[1]) \cup Range(reload'.todo)
          = Range(task[0]) \cup Range(task[1]) \cup Range(reload.todo)
    BY <1>2, <1>5, <2>1, <2>2, <2>3
  <2> QED
    BY <1>1, <1>3, <1>5, <2>4 DEF NoTaskLost
<1>15. NoPacketLost'
  BY <1>1, <1>2, <1>3, <1>7, PacketsCarried DEF AllCarried, Carried
<1> QED
  BY <1>3, <1>8, <1>9, <1>10, <1>11, <1>12, <1>13, <1>14, <1>15 DEF IInv

(* Applying one task keeps the invariant: it moves from the list to the    *)
(* database, and its result into the file.                                 *)
LEMMA ReloadProcessTaskStep == ASSUME IInv, ReloadProcessTask PROVE IInv'
<1>1. /\ TypeOK /\ Token /\ TaskFilesApart /\ Phases /\ Order /\ NoTaskLost /\ NoPacketLost
      /\ hist.crashes = 0 => NoneDied
      /\ hist.crashes = 0 /\ ~hist.stop => Quiet
      /\ "main" \notin Crashing => Handover
  BY DEF IInv
<1> DEFINE h == Head(reload.todo)
           soa == [op |-> "soa", id |-> h.id]
<1>2. /\ reload.pc = "tasks" /\ main.rfd /\ ~ReloadInFlight /\ ~xfrd.can /\ ~Has(toXfrd, ReloadDoneCmd)
      /\ reload.task = 1 - xfrd.task /\ task[reload.task] = Other /\ reload.todo # <<>> /\ ~Leaving
  <2>1. reload.pc = "tasks"
    BY DEF ReloadProcessTask
  <2> QED
    BY <1>1, <2>1, Reloading DEF Phases, Leaving
<1>3. /\ UNCHANGED <<xfrd, main, kids, nkids, toMain, toXfrd, toOld, hist>>
      /\ task' = [task EXCEPT ![1 - xfrd.task] = Append(Other, soa)]
      /\ Told => reload' = NoReload
      /\ ~Told => reload' = [reload EXCEPT !.db = Append(reload.db, h.id), !.todo = Tail(reload.todo),
                               !.pc = IF Tail(reload.todo) = <<>> THEN "start" ELSE "tasks"]
      /\ toReload' = IF toReload # <<>> THEN Tail(toReload) ELSE toReload
  BY <1>2 DEF ReloadProcessTask
<1>4. /\ Own \in Seq(Tasks) /\ Other \in Seq(Tasks) /\ reload.todo \in Seq(Tasks)
      /\ reload.db \in Seq(1..MaxTask) /\ toReload \in Seq({"RELOAD", "QUIT"})
  BY <1>1, Files DEF TypeOK, ReloadFields
<1>5. /\ h \in Tasks /\ soa \in Tasks /\ Tail(reload.todo) \in Seq(Tasks) /\ h.id \in 1..MaxTask /\ h.id \in Nat
      /\ soa.op = "soa" /\ soa.id = h.id
  <2>1. h \in Tasks /\ Tail(reload.todo) \in Seq(Tasks)
    BY <1>2, <1>4, TailFacts
  <2> HIDE DEF h
  <2> QED
    BY <2>1, BoundAssumption DEF Tasks
<1> HIDE DEF h, soa
<1>6. /\ Append(reload.db, h.id) \in Seq(1..MaxTask)
      /\ Range(Append(reload.db, h.id)) = Range(reload.db) \cup {h.id}
  <2> DEFINE T == 1..MaxTask
  <2>1. h.id \in T /\ reload.db \in Seq(T)
    BY <1>4, <1>5
  <2> HIDE DEF T
  <2>2. Append(reload.db, h.id) \in Seq(T) /\ Range(Append(reload.db, h.id)) = Range(reload.db) \cup {h.id}
    BY <2>1, AppendFacts, AppendHas
  <2> QED
    BY <2>2 DEF T
<1>7. ~Told => /\ reload' \in ReloadFields /\ reload'.todo = Tail(reload.todo) /\ reload'.task = reload.task
               /\ reload'.pc = IF Tail(reload.todo) = <<>> THEN "start" ELSE "tasks"
               /\ reload'.pc \in {"start", "tasks"}
               /\ reload'.db = Append(reload.db, h.id) /\ reload'.quitSync = reload.quitSync
  BY <1>1, <1>3, <1>5, <1>6 DEF TypeOK, ReloadFields
<1>8. Told => /\ reload' \in ReloadFields /\ reload'.todo = <<>> /\ reload'.pc = "none" /\ reload'.db = <<>>
              /\ Range(reload'.db) = {} /\ Ids(reload'.todo) = {} /\ ~main.up
  <2>1. NoReload \in ReloadFields /\ NoReload.todo = <<>> /\ NoReload.pc = "none" /\ NoReload.db = <<>>
    BY DEF NoReload, ReloadFields
  <2>2. Range(<<>>) = {} /\ Ids(<<>>) = {}
    BY DEF Range, Ids
  <2>3. Told => ~main.up
    BY <1>1 DEF Told, Phases
  <2> QED
    BY <1>3, <2>1, <2>2, <2>3
<1>9. /\ task' \in [{0, 1} -> Seq(Tasks)] /\ Own' = Own /\ Other' = Append(Other, soa)
      /\ Range(Append(Other, soa)) = Range(Other) \cup {soa}
  <2>1. Append(Other, soa) \in Seq(Tasks) /\ Range(Append(Other, soa)) = Range(Other) \cup {soa}
    BY <1>4, <1>5, AppendFacts, AppendHas
  <2> QED
    BY <1>1, <1>3, <2>1, Files DEF TypeOK, Own, Other
<1>10. /\ toReload' \in Seq({"RELOAD", "QUIT"}) /\ (toReload' # <<>> => toReload # <<>>)
       /\ (~Has(toReload, "QUIT") => ~Told /\ ~Has(toReload', "QUIT"))
  BY <1>3, <1>4, TailFacts, TailHas DEF Told
<1>11. ~ReloadInFlight' /\ ~Leaving' /\ reload'.pc # "begin"
  BY <1>2, <1>3, <1>7, <1>8 DEF ReloadInFlight, Leaving
<1>12. TypeOK' /\ Token'
  BY <1>1, <1>2, <1>3, <1>7, <1>8, <1>9, <1>10, <1>11 DEF TypeOK, Token
<1>13. TaskFilesApart'
  BY <1>1, <1>2, <1>3, <1>7, <1>8, <1>11 DEF TaskFilesApart, ReloadInFlight
<1>14. Phases'
  BY <1>1, <1>2, <1>3, <1>6, <1>7, <1>8, <1>10 DEF Phases, NoReload
<1>15. /\ Ids(reload.todo) = {h.id} \cup Ids(Tail(reload.todo)) /\ Below({h.id}, Ids(Tail(reload.todo)))
       /\ h.op = "task" /\ h.id <= hist.issued /\ TasksInOrder(Tail(reload.todo), hist.issued)
       /\ Range(reload.todo) = {h} \cup Range(Tail(reload.todo))
  <2> DEFINE q == reload.todo
  <2>1. TasksInOrder(q, hist.issued)
    BY <1>1 DEF Order
  <2>2. /\ h = q[1] /\ 1 \in DOMAIN q /\ DOMAIN Tail(q) = 1..(Len(q) - 1) /\ DOMAIN q = 1..Len(q) /\ Len(q) \in Nat
        /\ \A i \in DOMAIN Tail(q) : Tail(q)[i] = q[i + 1] /\ i + 1 \in DOMAIN q
        /\ \A i \in DOMAIN q : i = 1 \/ (i - 1 \in DOMAIN Tail(q) /\ q[i] = Tail(q)[i - 1])
    BY <1>2, <1>4, TailFacts DEF h
  <2>3. Range(q) = {h} \cup Range(Tail(q))
    BY <1>2, <1>4, TailHas DEF h
  <2> HIDE DEF q
  <2>4. Ids(q) = {h.id} \cup Ids(Tail(q))
    <3>1. q \in Seq(Tasks) /\ Tail(q) \in Seq(Tasks)
      BY <1>4, <1>5 DEF q
    <3>2. Ids(q) = {u.id : u \in Range(q)} /\ Ids(Tail(q)) = {u.id : u \in Range(Tail(q))}
      BY <3>1, TaskIds
    <3> QED
      BY <2>3, <3>2
  <2>5. \A i \in DOMAIN Tail(q) : q[1].id < q[i + 1].id
    BY <2>1, <2>2 DEF TasksInOrder
  <2>6. Below({h.id}, Ids(Tail(q)))
    BY <2>2, <2>5 DEF Below, Ids
  <2>7. TasksInOrder(Tail(q), hist.issued)
    <3>1. \A i \in DOMAIN Tail(q) : Tail(q)[i].op = "task" /\ Tail(q)[i].id <= hist.issued
      BY <2>1, <2>2 DEF TasksInOrder
    <3>2. \A i, j \in DOMAIN Tail(q) : i < j => i + 1 < j + 1
      BY <2>2
    <3>3. \A i, j \in DOMAIN Tail(q) : i < j => Tail(q)[i].id < Tail(q)[j].id
      BY <2>1, <2>2, <3>2 DEF TasksInOrder
    <3> QED
      BY <3>1, <3>3 DEF TasksInOrder
  <2> QED
    BY <2>1, <2>2, <2>3, <2>4, <2>6, <2>7 DEF q, TasksInOrder
<1>16. Order'
  <2>1. CASE Told
    <3>1. AppliedInOrder'
      BY <1>1, <1>3, <1>8, <2>1 DEF Order, AppliedInOrder
    <3> QED
      BY <1>1, <1>3, <1>8, <1>9, <1>11, <2>1, <3>1 DEF Order, TasksInOrder, Below
  <2>2. CASE ~Told
    <3>1. AppliedInOrder'
      <4>1. \A i \in DOMAIN reload.db : reload.db[i] < h.id
        BY <1>1, <1>15 DEF Order, Below, Range
      <4>2. /\ DOMAIN reload'.db = DOMAIN reload.db \cup {Len(reload.db) + 1} /\ DOMAIN reload.db = 1..Len(reload.db)
            /\ Len(reload.db) \in Nat
            /\ \A i \in DOMAIN reload.db : reload'.db[i] = reload.db[i]
            /\ reload'.db[Len(reload.db) + 1] = h.id
        <5> DEFINE T == 1..MaxTask
        <5>1. h.id \in T /\ reload.db \in Seq(T) /\ reload'.db = Append(reload.db, h.id)
          BY <1>4, <1>5, <1>7, <2>2
        <5> HIDE DEF T
        <5> QED
          BY <5>1, AppendFacts
      <4>3. \A i, j \in DOMAIN reload.db : i < j => reload.db[i] < reload.db[j]
        BY <1>1 DEF Order, AppliedInOrder
      <4>4. \A i, j \in DOMAIN reload'.db : i < j => reload'.db[i] < reload'.db[j]
        BY <4>1, <4>2, <4>3
      <4> QED
        BY <1>1, <1>3, <4>4 DEF Order, AppliedInOrder
    <3>2. Range(reload'.db) = Range(reload.db) \cup {h.id} /\ reload'.todo = Tail(reload.todo)
      BY <1>6, <1>7, <2>2
    <3> QED
      BY <1>1, <1>3, <1>9, <1>11, <1>15, <3>1, <3>2 DEF Order, Below
  <2> QED
    BY <2>1, <2>2
<1>17. hist.crashes = 0 => NoneDied'
  <2> SUFFICES ASSUME NoneDied PROVE NoneDied'
    BY <1>1
  <2>1. \A i \in DOMAIN Other' : Other'[i].op = "soa"
    <3>1. \A i \in DOMAIN Other : Other[i].op = "soa"
      BY <1>2 DEF NoneDied
    <3>2. /\ DOMAIN Other' = DOMAIN Other \cup {Len(Other) + 1} /\ Other'[Len(Other) + 1] = soa
          /\ \A i \in DOMAIN Other : Other'[i] = Other[i]
      BY <1>4, <1>5, <1>9, AppendFacts
    <3> QED
      BY <1>5, <3>1, <3>2
  <2>2. Results(Other') = Results(Other) \cup {h.id}
    BY <1>5, <1>9 DEF Results
  <2>3. xfrd.served \cup Results(Other) = Range(reload.db)
    BY <1>2 DEF NoneDied, Reported
  <2>4. reload'.pc # "none" => xfrd.served \cup Results(Other') = Range(reload'.db)
    BY <1>6, <1>7, <1>8, <2>2, <2>3
  <2> QED
    BY <1>2, <1>3, <1>7, <1>8, <1>11, <2>1, <2>4 DEF NoneDied, Reported
<1>18. hist.crashes = 0 /\ ~hist.stop => Quiet' /\ ~Told
  <2> SUFFICES ASSUME Quiet PROVE Quiet' /\ ~Told
    BY <1>1
  <2>1. ~Told /\ ~Has(toReload', "QUIT")
    BY <1>10 DEF Quiet
  <2> QED
    BY <1>2, <1>3, <1>7, <1>11, <2>1 DEF Quiet
<1>19. "main" \notin Crashing => Handover'
  <2> SUFFICES ASSUME Handover PROVE Handover'
    BY <1>1
  <2>1. (reload.pc # "none" /\ ~main.up)' => main.mode = "QUIT"
    <3>1. toReload = <<"QUIT">> => Told
      BY DEF Told
    <3> QED
      BY <1>2, <1>3, <1>8, <3>1 DEF Handover
  <2> QED
    BY <1>3, <2>1 DEF Handover
<1>20. NoTaskLost'
  <2> DEFINE W == Range(Own) \cup Range(Other) \cup Range(reload.todo)
             V == Range(Own) \cup Range(Other) \cup {soa} \cup Range(Tail(reload.todo))
  <2>1. Range(task[0]) \cup Range(task[1]) = Range(Own) \cup Range(Other)
    BY <1>1, Files
  <2>2. Range(task'[0]) \cup Range(task'[1]) = Range(Own) \cup Range(Other) \cup {soa}
    BY <1>9, <1>12, TwoFiles DEF TypeOK, XfrdFields, Own, Other
  <2>3. {u.id : u \in {v \in W : v.op = "task"}} = {u.id : u \in {v \in V : v.op = "task"}} \cup {h.id}
    BY <1>5, <1>15
  <2> SUFFICES ASSUME hist.crashes = 0, ~hist.stop, ~Told PROVE NoTaskLost'
    BY <1>3, <1>18 DEF NoTaskLost
  <2>4. Range(task'[0]) \cup Range(task'[1]) \cup Range(reload'.todo) = V
    BY <2>2, <1>7
  <2>5. Range(reload'.db) = Range(reload.db) \cup {h.id}
    BY <1>6, <1>7
  <2> HIDE DEF V
  <2>6. 1..hist.issued = {u.id : u \in {v \in W : v.op = "task"}} \cup Range(reload.db) \cup Range(main.db)
    BY <1>1, <2>1 DEF NoTaskLost
  <2> HIDE DEF W
  <2> QED
    BY <1>3, <2>3, <2>4, <2>5, <2>6 DEF NoTaskLost
<1>21. NoPacketLost'
  <2>1. hist.crashes = 0 /\ ~hist.stop => reload'.pc # "none"
    BY <1>7, <1>18
  <2> QED
    BY <1>1, <1>2, <1>3, <2>1, PacketsCarried DEF AllCarried, Carried
<1> QED
  BY <1>3, <1>12, <1>13, <1>14, <1>16, <1>17, <1>18, <1>19, <1>20, <1>21 DEF IInv

(* What reload reads from the old main.                                    *)
LEMMA ReadsFromOld ==
  ASSUME TypeOK, Phases, toReload' = IF toReload # <<>> THEN Tail(toReload) ELSE toReload
  PROVE  /\ toReload' \in Seq({"RELOAD", "QUIT"}) /\ (toReload' # <<>> => toReload # <<>>)
         /\ ~Has(toReload, "QUIT") => ~Told /\ ~Has(toReload', "QUIT")
         /\ Told => ~main.up
         /\ toReload = <<"QUIT">> => Told
<1>1. toReload \in Seq({"RELOAD", "QUIT"})
  BY DEF TypeOK
<1>2. /\ toReload' \in Seq({"RELOAD", "QUIT"}) /\ (toReload' # <<>> => toReload # <<>>)
      /\ ~Has(toReload, "QUIT") => ~Told /\ ~Has(toReload', "QUIT")
  BY <1>1, TailFacts, TailHas DEF Told
<1>3. Told => ~main.up
  BY DEF Told, Phases
<1>4. toReload = <<"QUIT">> => Told
  BY DEF Told
<1> QED
  BY <1>2, <1>3, <1>4

(* The part of IInv that says nothing of the children, for a reload that   *)
(* goes on to phase pc or is told to quit.                                 *)
LEMMA ReloadGoesOn ==
  ASSUME IInv, reload.pc \in {"start", "await"}, NEW pc \in {"await", "done"},
         reload' = IF Told THEN NoReload ELSE [reload EXCEPT !.pc = pc],
         toReload' = IF toReload # <<>> THEN Tail(toReload) ELSE toReload,
         UNCHANGED <<xfrd, main, kids, task, toMain, toXfrd, hist>>,
         nkids' \in [Child -> Kids], toOld' \in Seq({"QUIT_SYNC"}), pc = "done" => ~main.up
  PROVE  /\ TypeOK' /\ Token' /\ TaskFilesApart' /\ Phases' /\ Order' /\ NoTaskLost'
         /\ hist.crashes = 0 => NoneDied'
         /\ "main" \notin Crashing => Handover'
         /\ hist.crashes = 0 /\ ~hist.stop => ~Told /\ ~Has(toReload', "QUIT")
         /\ ~Told => reload'.pc = pc /\ reload'.quitSync = reload.quitSync
<1>1. /\ TypeOK /\ Token /\ TaskFilesApart /\ Phases /\ Order /\ NoTaskLost /\ NoPacketLost
      /\ hist.crashes = 0 => NoneDied
      /\ hist.crashes = 0 /\ ~hist.stop => Quiet
      /\ "main" \notin Crashing => Handover
  BY DEF IInv
<1>2. /\ main.rfd /\ ~ReloadInFlight /\ ~xfrd.can /\ ~Has(toXfrd, ReloadDoneCmd)
      /\ reload.task = 1 - xfrd.task /\ reload.todo = <<>>
  BY <1>1, Reloading DEF Phases
<1>3. ~Told => /\ reload' \in ReloadFields /\ reload'.todo = <<>> /\ reload'.task = reload.task
               /\ reload'.pc = pc /\ reload'.db = reload.db /\ reload'.quitSync = reload.quitSync
  BY <1>1, <1>2 DEF TypeOK, ReloadFields
<1>4. Told => /\ reload' = NoReload /\ reload' \in ReloadFields /\ reload'.todo = <<>> /\ reload'.pc = "none"
              /\ reload'.db = <<>> /\ ~main.up
  BY <1>1, NoReloadFields, ReadsFromOld
<1>5. /\ toReload' \in Seq({"RELOAD", "QUIT"}) /\ (toReload' # <<>> => toReload # <<>>)
      /\ ~Has(toReload, "QUIT") => ~Told /\ ~Has(toReload', "QUIT")
      /\ toReload = <<"QUIT">> => Told
  BY <1>1, ReadsFromOld
<1>6. ~ReloadInFlight' /\ reload'.pc \in {"none", pc} /\ Own' = Own /\ Other' = Other
  BY <1>2, <1>3, <1>4 DEF ReloadInFlight, Own, Other
<1>7. TypeOK' /\ Token'
  BY <1>1, <1>2, <1>3, <1>4, <1>5, <1>6 DEF TypeOK, Token
<1>8. TaskFilesApart'
  BY <1>1, <1>2, <1>3, <1>4, <1>6 DEF TaskFilesApart, ReloadInFlight
<1>9. Phases'
  BY <1>1, <1>2, <1>3, <1>4, <1>5 DEF Phases
<1>10. Order'
  <2>1. /\ reload'.todo = reload.todo /\ Range(<<>>) = {}
        /\ reload'.db = reload.db \/ reload'.db = <<>>
    BY <1>2, <1>3, <1>4, NoReloadFields
  <2>2. AppliedInOrder'
    BY <1>1, <2>1 DEF Order, AppliedInOrder
  <2> QED
    BY <1>1, <1>6, <2>1, <2>2 DEF Order, Below
<1>11. hist.crashes = 0 => NoneDied'
  BY <1>1, <1>2, <1>3, <1>4, <1>6 DEF NoneDied, Reported
<1>12. hist.crashes = 0 /\ ~hist.stop => ~Told /\ ~Has(toReload', "QUIT")
  BY <1>1, <1>5 DEF Quiet
<1>13. "main" \notin Crashing => Handover'
  <2> SUFFICES ASSUME Handover PROVE Handover'
    BY <1>1
  <2>1. (reload.pc # "none" /\ ~main.up)' => main.mode = "QUIT"
    BY <1>4, <1>5 DEF Handover
  <2> QED
    BY <2>1 DEF Handover
<1>14. NoTaskLost'
  BY <1>1, <1>2, <1>3, <1>12 DEF NoTaskLost
<1> QED
  BY <1>3, <1>7, <1>8, <1>9, <1>10, <1>11, <1>12, <1>13, <1>14

(* Starting the new children, before QUIT_SYNC, keeps the invariant.       *)
LEMMA ReloadStartChildrenStep == ASSUME IInv, ReloadStartChildren PROVE IInv'
<1>1. /\ TypeOK /\ Token /\ TaskFilesApart /\ Phases /\ Order /\ NoTaskLost /\ NoPacketLost
      /\ hist.crashes = 0 => NoneDied
      /\ hist.crashes = 0 /\ ~hist.stop => Quiet
      /\ "main" \notin Crashing => Handover
  BY DEF IInv
<1> DEFINE ks == [c \in Child |-> Fork(nkids[c])]
<1>2. /\ reload.pc = "start" /\ UNCHANGED <<xfrd, main, kids, task, toMain, toXfrd, hist>>
      /\ nkids' = IF Told THEN QuitAll(ks) ELSE ks
      /\ reload' = IF Told THEN NoReload ELSE [reload EXCEPT !.pc = "await"]
      /\ toOld' = IF Told THEN toOld ELSE Append(toOld, "QUIT_SYNC")
      /\ toReload' = IF toReload # <<>> THEN Tail(toReload) ELSE toReload
  BY DEF ReloadStartChildren
<1>3. nkids \in [Child -> Kids] /\ ks \in [Child -> Kids] /\ nkids' \in [Child -> Kids]
  <2>1. nkids \in [Child -> Kids] /\ ks \in [Child -> Kids]
    BY <1>1, ForkFields DEF TypeOK
  <2> HIDE DEF ks
  <2> QED
    BY <1>2, <2>1, QuitAllFields
<1>4. toOld' \in Seq({"QUIT_SYNC"})
  BY <1>1, <1>2, AppendFacts DEF TypeOK
<1>5. /\ TypeOK' /\ Token' /\ TaskFilesApart' /\ Phases' /\ Order' /\ NoTaskLost'
      /\ hist.crashes = 0 => NoneDied'
      /\ "main" \notin Crashing => Handover'
      /\ hist.crashes = 0 /\ ~hist.stop => ~Told /\ ~Has(toReload', "QUIT")
      /\ ~Told => reload'.pc = "await" /\ reload'.quitSync = reload.quitSync
  BY <1>2, <1>3, <1>4, ReloadGoesOn
<1>6. hist.crashes = 0 /\ ~hist.stop => /\ reload'.pc = "await" /\ reload'.quitSync = reload.quitSync
                                        /\ nkids' = ks /\ ~Has(toReload', "QUIT")
  BY <1>2, <1>5
<1>7. hist.crashes = 0 /\ ~hist.stop => Quiet'
  <2> SUFFICES ASSUME Quiet, hist.crashes = 0, ~hist.stop PROVE Quiet'
    BY <1>1
  <2>1. \A c \in Child : UnbornKid(nkids[c]) /\ nkids[c] \in Kids
    BY <1>2, <1>3 DEF Quiet
  <2>2. \A c \in Child : FreshKid(nkids'[c])
    BY <1>6, <2>1, ForkFields DEF UnbornKid, FreshKid
  <2>3. ~Leaving /\ Leaving'
    BY <1>2, <1>6 DEF Leaving
  <2> QED
    BY <1>2, <1>6, <2>2, <2>3 DEF Quiet
<1>8. NoPacketLost'
  <2> SUFFICES ASSUME hist.crashes = 0, ~hist.stop, NEW p \in 1..hist.passed PROVE Carried(p)'
    BY <1>2, PacketsCarried DEF AllCarried
  <2>1. \A c \in Child : p \notin Range(nkids[c].pkts)
    BY <1>1, <1>2 DEF Quiet, UnbornKid, Range
  <2>2. Carried(p)
    BY <1>1, PacketsCarried DEF AllCarried
  <2> QED
    BY <1>2, <2>1, <2>2 DEF Carried
<1> QED
  BY <1>2, <1>5, <1>7, <1>8 DEF IInv

(* The answer of the old main keeps the invariant.                         *)
LEMMA ReloadAnsweredStep == ASSUME IInv, ReloadAnswered PROVE IInv'
<1>1. /\ TypeOK /\ Token /\ TaskFilesApart /\ Phases /\ Order /\ NoTaskLost /\ NoPacketLost
      /\ hist.crashes = 0 => NoneDied
      /\ hist.crashes = 0 /\ ~hist.stop => Quiet
      /\ "main" \notin Crashing => Handover
  BY DEF IInv
<1>2. /\ reload.pc = "await" /\ UNCHANGED <<xfrd, main, kids, task, toMain, toXfrd, toOld, hist>>
      /\ nkids' = IF Told THEN QuitAll(nkids) ELSE nkids
      /\ reload' = IF Told THEN NoReload ELSE [reload EXCEPT !.pc = "done"]
      /\ toReload' = IF toReload # <<>> THEN Tail(toReload) ELSE toReload
      /\ ~main.up
  BY <1>1 DEF ReloadAnswered, Phases
<1>3. nkids' \in [Child -> Kids] /\ toOld' \in Seq({"QUIT_SYNC"})
  BY <1>1, <1>2, QuitAllFields DEF TypeOK
<1>4. /\ TypeOK' /\ Token' /\ TaskFilesApart' /\ Phases' /\ Order' /\ NoTaskLost'
      /\ hist.crashes = 0 => NoneDied'
      /\ "main" \notin Crashing => Handover'
      /\ hist.crashes = 0 /\ ~hist.stop => ~Told /\ ~Has(toReload', "QUIT")
      /\ ~Told => reload'.pc = "done" /\ reload'.quitSync = reload.quitSync
  BY <1>2, <1>3, ReloadGoesOn
<1>5. hist.crashes = 0 /\ ~hist.stop => /\ reload'.pc = "done" /\ reload'.quitSync = reload.quitSync
                                        /\ nkids' = nkids /\ ~Has(toReload', "QUIT")
  BY <1>2, <1>4
<1>6. hist.crashes = 0 /\ ~hist.stop => Quiet'
  <2> SUFFICES ASSUME Quiet, hist.crashes = 0, ~hist.stop PROVE Quiet'
    BY <1>1
  <2>1. Leaving /\ Leaving'
    BY <1>2, <1>5 DEF Leaving
  <2> QED
    BY <1>2, <1>5, <2>1 DEF Quiet
<1>7. NoPacketLost'
  BY <1>1, <1>2, <1>5, PacketsCarried DEF AllCarried, Carried
<1> QED
  BY <1>2, <1>4, <1>6, <1>7 DEF IInv

(* reload continues as main: the token goes back to xfrd in RELOAD_DONE.   *)
LEMMA ReloadBecomesMainStep == ASSUME IInv, ReloadBecomesMain PROVE IInv'
<1>1. /\ TypeOK /\ Token /\ TaskFilesApart /\ Phases /\ Order /\ NoTaskLost /\ NoPacketLost
      /\ hist.crashes = 0 => NoneDied
      /\ hist.crashes = 0 /\ ~hist.stop => Quiet
      /\ "main" \notin Crashing => Handover
  BY DEF IInv
<1>2. /\ reload.pc = "done" /\ main.rfd /\ ~ReloadInFlight /\ ~xfrd.can /\ ~Has(toXfrd, ReloadDoneCmd)
      /\ ~Has(toMain, "RELOAD") /\ reload.task = 1 - xfrd.task /\ reload.todo = <<>> /\ ~main.up /\ Leaving
  <2>1. reload.pc = "done"
    BY DEF ReloadBecomesMain
  <2> QED
    BY <1>1, <2>1, Reloading DEF Phases, Leaving
<1>3. /\ UNCHANGED <<xfrd, task, toMain, hist>> /\ kids' = nkids /\ reload' = NoReload
      /\ toOld' = <<>> /\ toReload' = <<>> /\ toXfrd' = Append(toXfrd, ReloadDoneCmd)
      /\ main' = [up |-> TRUE, pc |-> "loop", mode |-> "RUN", hint |-> FALSE, reloading |-> FALSE,
                  rfd |-> FALSE, xfd |-> TRUE, quitSync |-> reload.quitSync, task |-> reload.task,
                  db |-> reload.db]
      /\ nkids' = [c \in Child |-> [NewKid EXCEPT !.up = FALSE]]
  BY DEF ReloadBecomesMain
<1>4. /\ main' \in MainFields /\ main'.up /\ main'.pc = "loop" /\ main'.mode = "RUN" /\ ~main'.hint
      /\ main'.reloading = FALSE /\ main'.rfd = FALSE /\ main'.xfd /\ (main'.quitSync <=> reload.quitSync)
      /\ main'.task = reload.task /\ main'.db = reload.db
  <2>1. reload.task \in {0, 1} /\ reload.db \in Seq(1..MaxTask) /\ reload.quitSync \in BOOLEAN
    BY <1>1 DEF TypeOK, ReloadFields
  <2> QED
    BY <1>3, <2>1 DEF MainFields
<1>5. /\ reload' \in ReloadFields /\ reload'.todo = <<>> /\ reload'.pc = "none" /\ reload'.db = <<>>
      /\ Range(reload'.db) = {} /\ Ids(reload'.todo) = {}
  BY <1>3, NoReloadFields
<1>6. kids' \in [Child -> Kids] /\ nkids' \in [Child -> Kids]
  <2>1. <<>> \in Seq(1..MaxPacket)
    OBVIOUS
  <2>2. [NewKid EXCEPT !.up = FALSE] \in Kids
    BY <2>1 DEF NewKid, Kids
  <2> QED
    BY <1>1, <1>3, <2>2 DEF TypeOK
<1>7. /\ toXfrd \in Seq(Messages) /\ ReloadDoneCmd \in Messages
      /\ ReloadCmd # ReloadDoneCmd /\ ReloadCmd # QuitCmd /\ ReloadDoneCmd # QuitCmd
  BY <1>1 DEF TypeOK, Messages, ReloadCmd, ReloadDoneCmd, QuitCmd
<1>8. /\ toXfrd' \in Seq(Messages) /\ Range(toXfrd) \subseteq Range(toXfrd')
      /\ Has(toXfrd', ReloadDoneCmd)
      /\ \A m : m # ReloadDoneCmd => (Has(toXfrd', m) <=> Has(toXfrd, m))
      /\ \A m : Once(toXfrd, m) => Once(toXfrd', m)
      /\ Before(toXfrd, ReloadCmd, ReloadDoneCmd) => Before(toXfrd', ReloadCmd, ReloadDoneCmd)
  BY <1>2, <1>3, <1>7, AppendFacts, AppendHas, AppendBefore
<1>9. ~ReloadInFlight' /\ ~Leaving' /\ Own' = Own /\ Other' = Other
  BY <1>2, <1>3, <1>4, <1>5 DEF ReloadInFlight, Leaving, Own, Other
<1>10. TypeOK'
  <2>1. toOld' \in Seq({"QUIT_SYNC"}) /\ toReload' \in Seq({"RELOAD", "QUIT"})
    BY <1>3
  <2> QED
    BY <1>1, <1>3, <1>4, <1>5, <1>6, <1>8, <2>1 DEF TypeOK
<1>11. Token' /\ TaskFilesApart' /\ Phases'
  BY <1>1, <1>2, <1>3, <1>4, <1>5, <1>8, <1>9, Files DEF Token, TaskFilesApart, Phases
<1>12. Order'
  <2>1. AppliedInOrder'
    BY <1>1, <1>4, <1>5 DEF Order, AppliedInOrder
  <2> QED
    BY <1>1, <1>3, <1>4, <1>5, <1>9, <2>1 DEF Order, Below, TasksInOrder
<1>13. hist.crashes = 0 => NoneDied'
  BY <1>1, <1>2, <1>3, <1>4, <1>5, <1>9 DEF NoneDied, Reported
<1>14. hist.crashes = 0 /\ ~hist.stop => \A c \in Child : FreshKid(nkids[c])
  BY <1>1, <1>2 DEF Quiet
<1>15. hist.crashes = 0 /\ ~hist.stop => Quiet'
  <2> SUFFICES ASSUME Quiet, hist.crashes = 0, ~hist.stop PROVE Quiet'
    BY <1>1
  <2>1. ~Has(toXfrd, ReloadCmd) /\ ~xfrd.needQuit /\ ~Has(toMain, "QUIT") /\ ~reload.quitSync
    BY <1>2 DEF Quiet
  <2>2. ~Has(toReload', "QUIT")
    BY <1>3 DEF Has
  <2> QED
    BY <1>3, <1>4, <1>5, <1>7, <1>8, <1>9, <1>14, <2>1, <2>2 DEF Quiet
<1>16. "main" \notin Crashing => Handover'
  BY <1>1, <1>3, <1>4, <1>5, <1>8 DEF Handover
<1>17. NoTaskLost'
  <2>1. Range(main.db) \subseteq Range(reload.db)
    BY <1>1, <1>2 DEF Phases
  <2> QED
    BY <1>1, <1>2, <1>3, <1>4, <1>5, <2>1 DEF NoTaskLost
<1>18. NoPacketLost'
  BY <1>1, <1>2, <1>3, <1>4, <1>8, <1>14, PacketsCarried DEF AllCarried, Carried, FreshKid
<1> QED
  BY <1>3, <1>10, <1>11, <1>12, <1>13, <1>15, <1>16, <1>17, <1>18 DEF IInv

(* Another QUIT_SYNC keeps the invariant.                                  *)
LEMMA ReloadResendStep == ASSUME IInv, ReloadResend PROVE IInv'
<1>1. /\ TypeOK /\ Token /\ TaskFilesApart /\ Phases /\ Order /\ NoTaskLost /\ NoPacketLost
      /\ hist.crashes = 0 => NoneDied
      /\ hist.crashes = 0 /\ ~hist.stop => Quiet
      /\ "main" \notin Crashing => Handover
  BY DEF IInv
<1>2. /\ UNCHANGED <<xfrd, main, kids, reload, nkids, toReload, task, toMain, toXfrd>>
      /\ toOld' = Append(toOld, "QUIT_SYNC") /\ reload.pc = "await"
      /\ hist'.issued = hist.issued /\ hist'.crashes = hist.crashes /\ hist'.stop = hist.stop
      /\ hist'.passed = hist.passed /\ hist'.got = hist.got
  BY <1>1 DEF ReloadResend, TypeOK, HistFields
<1>3. TypeOK'
  <2>1. hist.resends + 1 \in 0..MaxResend
    BY <1>1, BoundAssumption DEF ReloadResend, TypeOK, HistFields
  <2>2. hist' \in HistFields
    BY <1>1, <2>1 DEF ReloadResend, TypeOK, HistFields
  <2>3. toOld' \in Seq({"QUIT_SYNC"})
    BY <1>1, <1>2, AppendFacts DEF TypeOK
  <2> QED
    BY <1>1, <1>2, <2>2, <2>3 DEF TypeOK
<1>4. Token' /\ TaskFilesApart' /\ Phases' /\ Order'
  BY <1>1, <1>2 DEF Token, TaskFilesApart, Phases, Order, ReloadInFlight, AppliedInOrder, Own, Other
<1>5. hist.crashes = 0 => NoneDied'
  BY <1>1, <1>2 DEF NoneDied, Reported, ReloadInFlight, Other
<1>6. hist.crashes = 0 /\ ~hist.stop => Quiet'
  BY <1>1, <1>2 DEF Quiet, Leaving
<1>7. "main" \notin Crashing => Handover'
  BY <1>1, <1>2 DEF Handover
<1>8. NoTaskLost' /\ NoPacketLost'
  BY <1>1, <1>2 DEF NoTaskLost, NoPacketLost
<1> QED
  BY <1>2, <1>3, <1>4, <1>5, <1>6, <1>7, <1>8 DEF IInv

(* The death of reload keeps the invariant.                                *)
LEMMA ReloadCrashStep == ASSUME IInv, ReloadCrash PROVE IInv'
<1>1. /\ TypeOK /\ Token /\ TaskFilesApart /\ Phases /\ Order /\ NoTaskLost /\ NoPacketLost
      /\ hist.crashes = 0 => NoneDied
      /\ hist.crashes = 0 /\ ~hist.stop => Quiet
      /\ "main" \notin Crashing => Handover
  BY DEF IInv
<1>2. /\ UNCHANGED <<xfrd, main, kids, nkids, toReload, toOld, task, toMain, toXfrd>>
      /\ reload' = NoReload
      /\ hist' \in HistFields /\ hist'.crashes # 0 /\ hist'.issued = hist.issued
  BY <1>1, CrashHist DEF ReloadCrash, Crash
<1>3. /\ reload' \in ReloadFields /\ reload'.pc = "none" /\ reload'.todo = <<>> /\ reload'.db = <<>>
      /\ Range(reload'.db) = {} /\ Ids(reload'.todo) = {}
  BY <1>2 DEF NoReload, ReloadFields, Range, Ids
<1>4. TypeOK' /\ Token' /\ TaskFilesApart' /\ Phases'
  BY <1>1, <1>2, <1>3 DEF TypeOK, Token, TaskFilesApart, Phases, ReloadInFlight
<1>5. Order'
  BY <1>1, <1>2, <1>3 DEF Order, ReloadInFlight, AppliedInOrder, Own, Other, TasksInOrder, Below
<1>6. "main" \notin Crashing => Handover'
  BY <1>1, <1>2, <1>3 DEF Handover
<1> QED
  BY <1>2, <1>4, <1>5, <1>6 DEF IInv, NoTaskLost, NoPacketLost

(* A packet passed by a child keeps the invariant.                         *)
LEMMA ChildPassStep == ASSUME IInv, NEW c \in Child, ChildPass(c) PROVE IInv'
<1>1. /\ TypeOK /\ Token /\ TaskFilesApart /\ Phases /\ Order /\ NoTaskLost /\ NoPacketLost
      /\ hist.crashes = 0 => NoneDied
      /\ hist.crashes = 0 /\ ~hist.stop => Quiet
      /\ "main" \notin Crashing => Handover
  BY DEF IInv
<1> DEFINE n == hist.passed + 1
           Pass(k) == [k EXCEPT !.pkts = Append(@, n)]
<1>2. /\ UNCHANGED <<xfrd, main, reload, task, toMain, toXfrd, toReload, toOld>>
      /\ hist'.passed = n /\ hist'.issued = hist.issued /\ hist'.got = hist.got
      /\ hist'.crashes = hist.crashes /\ hist'.stop = hist.stop
  BY <1>1 DEF ChildPass, TypeOK, HistFields
<1>3. kids \in [Child -> Kids] /\ nkids \in [Child -> Kids]
  BY <1>1 DEF TypeOK
<1>4. n \in 1..MaxPacket /\ n \in 0..MaxPacket /\ 1..n = (1..hist.passed) \cup {n}
  <2>1. hist.passed \in Nat /\ hist.passed < MaxPacket /\ MaxPacket \in Nat
    BY <1>1, BoundAssumption DEF ChildPass, TypeOK, HistFields
  <2> QED
    BY <2>1
<1>5. hist' \in HistFields
  BY <1>1, <1>4 DEF ChildPass, TypeOK, HistFields
<1>6. \/ /\ kids[c].up /\ main.up
         /\ kids' = [kids EXCEPT ![c] = Pass(kids[c])] /\ nkids' = nkids
      \/ /\ nkids[c].up /\ reload.pc # "none"
         /\ nkids' = [nkids EXCEPT ![c] = Pass(nkids[c])] /\ kids' = kids
  BY <1>3 DEF ChildPass, Kids
<1> HIDE DEF n
<1>7. \A k \in Kids : /\ Pass(k) \in Kids /\ Range(Pass(k).pkts) = Range(k.pkts) \cup {n}
                      /\ Pass(k).up = k.up /\ Pass(k).pid = k.pid /\ Pass(k).fd = k.fd
                      /\ Pass(k).needExit = k.needExit /\ Pass(k).sendQuit = k.sendQuit
                      /\ Pass(k).exited = k.exited /\ Pass(k).quit = k.quit
  <2> SUFFICES ASSUME NEW k \in Kids
               PROVE  /\ Pass(k) \in Kids /\ Range(Pass(k).pkts) = Range(k.pkts) \cup {n}
                      /\ Pass(k).up = k.up /\ Pass(k).pid = k.pid /\ Pass(k).fd = k.fd
                      /\ Pass(k).needExit = k.needExit /\ Pass(k).sendQuit = k.sendQuit
                      /\ Pass(k).exited = k.exited /\ Pass(k).quit = k.quit
    OBVIOUS
  <2> DEFINE P == 1..MaxPacket
  <2>1. k.pkts \in Seq(P) /\ n \in P
    BY <1>4 DEF Kids
  <2> HIDE DEF P
  <2>2. Append(k.pkts, n) \in Seq(P) /\ Range(Append(k.pkts, n)) = Range(k.pkts) \cup {n}
    BY <2>1, AppendFacts, AppendHas
  <2> USE DEF P
  <2> QED
    BY <2>2 DEF Kids
<1> HIDE DEF Pass
<1>8. kids' \in [Child -> Kids] /\ nkids' \in [Child -> Kids]
  BY <1>3, <1>6, <1>7
<1>9. TypeOK' /\ Token' /\ TaskFilesApart' /\ Phases' /\ Order'
  BY <1>1, <1>2, <1>5, <1>8 DEF TypeOK, Token, TaskFilesApart, Phases, Order, ReloadInFlight, AppliedInOrder, Own, Other
<1>10. hist.crashes = 0 => NoneDied'
  BY <1>1, <1>2 DEF NoneDied, Reported, ReloadInFlight, Other
<1>11. hist.crashes = 0 /\ ~hist.stop => Quiet'
  <2> SUFFICES ASSUME Quiet PROVE Quiet'
    BY <1>1
  <2>1. \A d \in Child : /\ kids'[d].needExit = kids[d].needExit /\ kids'[d].exited = kids[d].exited
                         /\ FreshKid(kids[d]) => FreshKid(kids'[d])
                         /\ OldKid(kids[d]) => OldKid(kids'[d])
                         /\ FreshKid(nkids[d]) => FreshKid(nkids'[d])
                         /\ UnbornKid(nkids[d]) => nkids'[d] = nkids[d]
    BY <1>3, <1>6, <1>7 DEF FreshKid, OldKid, UnbornKid
  <2> HIDE DEF Pass
  <2> QED
    BY <1>2, <2>1 DEF Quiet, Leaving, AllChildrenExited
<1>12. "main" \notin Crashing => Handover'
  BY <1>1, <1>2 DEF Handover
<1>13. NoTaskLost'
  BY <1>1, <1>2 DEF NoTaskLost
<1>14. NoPacketLost'
  <2> SUFFICES ASSUME hist.crashes = 0, ~hist.stop, NEW p \in 1..n PROVE Carried(p)'
    BY <1>2, PacketsCarried DEF AllCarried
  <2>1. \A d \in Child : /\ kids'[d].fd = kids[d].fd /\ Range(kids[d].pkts) \subseteq Range(kids'[d].pkts)
                         /\ Range(nkids[d].pkts) \subseteq Range(nkids'[d].pkts)
    BY SMTT(60), <1>3, <1>6, <1>7
  <2>2. \/ n \in Range(kids'[c].pkts) /\ main.up /\ kids'[c].fd
        \/ n \in Range(nkids'[c].pkts) /\ reload.pc # "none"
    <3>1. CASE kids[c].up /\ main.up /\ kids' = [kids EXCEPT ![c] = Pass(kids[c])]
      <4>1. kids[c].fd
        BY <1>1, <3>1 DEF Quiet, FreshKid, OldKid
      <4>2. kids'[c] = Pass(kids[c])
        BY <1>3, <3>1
      <4> QED
        BY <1>3, <1>7, <3>1, <4>1, <4>2
    <3>2. CASE reload.pc # "none" /\ nkids' = [nkids EXCEPT ![c] = Pass(nkids[c])]
      <4>1. nkids'[c] = Pass(nkids[c])
        BY <1>3, <3>2
      <4> QED
        BY <1>3, <1>7, <3>2, <4>1
    <3> QED
      BY <1>6, <3>1, <3>2
  <2>3. p = n \/ Carried(p)
    BY <1>1, <1>4, PacketsCarried DEF AllCarried
  <2> QED
    BY <1>2, <2>1, <2>2, <2>3 DEF Carried
<1> QED
  BY <1>2, <1>9, <1>10, <1>11, <1>12, <1>13, <1>14 DEF IInv

(* A child that leaves keeps the invariant: without a death it was told    *)
(* to, and its packets stay in the socket.                                 *)
LEMMA ChildQuitStep == ASSUME IInv, NEW c \in Child, ChildQuit(c) PROVE IInv'
<1>1. /\ TypeOK /\ Token /\ TaskFilesApart /\ Phases /\ Order /\ NoTaskLost /\ NoPacketLost
      /\ hist.crashes = 0 => NoneDied
      /\ hist.crashes = 0 /\ ~hist.stop => Quiet
      /\ "main" \notin Crashing => Handover
  BY DEF IInv
<1>2. UNCHANGED <<xfrd, main, reload, task, toMain, toXfrd, toReload, toOld, hist>>
  BY DEF ChildQuit
<1> DEFINE Gone(k) == [k EXCEPT !.up = FALSE, !.quit = FALSE]
<1>3. kids \in [Child -> Kids] /\ nkids \in [Child -> Kids]
  BY <1>1 DEF TypeOK
<1>4. \A k \in Kids : /\ Gone(k) \in Kids /\ Gone(k).pkts = k.pkts /\ Gone(k).fd = k.fd
                      /\ Gone(k).needExit = k.needExit /\ Gone(k).exited = k.exited /\ ~Gone(k).up
  BY DEF Kids
<1>5. \/ /\ kids[c].up /\ (kids[c].quit \/ ~main.up)
         /\ kids' = [kids EXCEPT ![c] = Gone(kids[c])] /\ nkids' = nkids
      \/ /\ nkids[c].up /\ (nkids[c].quit \/ reload.pc = "none")
         /\ nkids' = [nkids EXCEPT ![c] = Gone(nkids[c])] /\ kids' = kids
  BY <1>3 DEF ChildQuit, Kids
<1> HIDE DEF Gone
<1>6. /\ kids' \in [Child -> Kids] /\ nkids' \in [Child -> Kids]
      /\ \A d \in Child : /\ kids'[d].pkts = kids[d].pkts /\ kids'[d].fd = kids[d].fd
                          /\ kids'[d].needExit = kids[d].needExit /\ kids'[d].exited = kids[d].exited
                          /\ nkids'[d].pkts = nkids[d].pkts
  BY <1>3, <1>4, <1>5
<1>7. TypeOK' /\ Token' /\ TaskFilesApart' /\ Phases' /\ Order'
  BY <1>1, <1>2, <1>6 DEF TypeOK, Token, TaskFilesApart, Phases, Order, ReloadInFlight, AppliedInOrder, Own, Other
<1>8. hist.crashes = 0 => NoneDied'
  BY <1>1, <1>2 DEF NoneDied, Reported, ReloadInFlight, Other
<1>9. hist.crashes = 0 /\ ~hist.stop => Quiet'
  <2> SUFFICES ASSUME Quiet PROVE Quiet'
    BY <1>1
  <2>1. AllChildrenExited(kids)' <=> AllChildrenExited(kids)
    BY <1>6 DEF AllChildrenExited
  <2>2. \A d \in Child : (FreshKid(kids[d]) \/ (Leaving /\ OldKid(kids[d])))'
    <3>1. CASE kids' = kids
      BY <3>1, <1>2 DEF Quiet, Leaving
    <3>2. CASE kids[c].up /\ (kids[c].quit \/ ~main.up) /\ kids' = [kids EXCEPT ![c] = Gone(kids[c])]
      <4>1. Leaving /\ OldKid(kids[c])
        <5>1. FreshKid(kids[c]) \/ (Leaving /\ OldKid(kids[c]))
          BY DEF Quiet
        <5>2. CASE kids[c].quit
          BY <5>1, <5>2 DEF FreshKid
        <5>3. CASE ~main.up
          <6>1. Leaving /\ AllChildrenExited(kids)
            BY <5>3 DEF Quiet
          <6>2. kids[c].needExit
            BY <6>1 DEF AllChildrenExited
          <6> QED
            BY <5>1, <6>2 DEF FreshKid
        <5> QED
          BY <3>2, <5>2, <5>3
      <4>2. kids'[c] = Gone(kids[c]) /\ \A d \in Child \ {c} : kids'[d] = kids[d]
        BY <3>2, <1>3
      <4>3. OldKid(kids'[c])
        BY <4>1, <4>2, <1>3, <1>4 DEF OldKid
      <4> QED
        BY <4>1, <4>2, <4>3, <1>2 DEF Quiet, Leaving
    <3> QED
      BY <1>5, <3>1, <3>2
  <2>3. reload.pc # "none" => nkids' = nkids
    <3> SUFFICES ASSUME reload.pc # "none", nkids[c].up, nkids[c].quit PROVE FALSE
      BY <1>5
    <3>1. reload.pc \in {"begin", "tasks", "start", "await", "done"}
      BY <1>1 DEF TypeOK, ReloadFields
    <3> QED
      BY <3>1 DEF Quiet, Leaving, FreshKid, UnbornKid
  <2> QED
    BY <1>2, <2>1, <2>2, <2>3 DEF Quiet, Leaving
<1>10. "main" \notin Crashing => Handover'
  BY <1>1, <1>2 DEF Handover
<1>11. NoTaskLost'
  BY <1>1, <1>2 DEF NoTaskLost
<1>12. NoPacketLost'
  BY <1>1, <1>2, <1>6 DEF NoPacketLost
<1> QED
  BY <1>2, <1>7, <1>8, <1>9, <1>10, <1>11, <1>12 DEF IInv

(* The death of a child keeps the invariant.                               *)
LEMMA ChildCrashStep == ASSUME IInv, NEW c \in Child, ChildCrash(c) PROVE IInv'
<1>1. /\ TypeOK /\ Token /\ TaskFilesApart /\ Phases /\ Order /\ NoTaskLost /\ NoPacketLost
      /\ hist.crashes = 0 => NoneDied
      /\ hist.crashes = 0 /\ ~hist.stop => Quiet
      /\ "main" \notin Crashing => Handover
  BY DEF IInv
<1>2. /\ UNCHANGED <<xfrd, main, reload, nkids, toReload, toOld, task, toMain, toXfrd>>
      /\ kids' = [kids EXCEPT ![c].up = FALSE]
      /\ hist' \in HistFields /\ hist'.crashes # 0 /\ hist'.issued = hist.issued
  BY <1>1, CrashHist DEF ChildCrash, Crash
<1>3. kids' \in [Child -> Kids]
  <2>1. kids[c] \in Kids /\ kids \in [Child -> Kids]
    BY <1>1 DEF TypeOK
  <2>2. [kids[c] EXCEPT !.up = FALSE] \in Kids
    BY <2>1 DEF Kids
  <2> QED
    BY <1>2, <2>1, <2>2
<1>4. TypeOK' /\ Token' /\ TaskFilesApart' /\ Phases' /\ Order'
  BY <1>1, <1>2, <1>3 DEF TypeOK, Token, TaskFilesApart, Phases, Order, ReloadInFlight, AppliedInOrder, Own, Other
<1>5. "main" \notin Crashing => Handover'
  BY <1>1, <1>2 DEF Handover
<1> QED
  BY <1>2, <1>4, <1>5 DEF IInv, NoTaskLost, NoPacketLost

=============================================================================
