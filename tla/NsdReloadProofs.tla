--------------------------- MODULE NsdReloadProofs --------------------------
(***************************************************************************)
(* What holds of the reload protocol of nsd for any set of children, any   *)
(* number of tasks and packets, and any pattern of deaths: the invariant   *)
(* of NsdReloadInv, and the properties of NsdReload that follow from it.   *)
(***************************************************************************)
EXTENDS NsdReloadXfrdSteps, NsdReloadMainSteps, NsdReloadSteps

(* Every step of nsd keeps the invariant.                                  *)
LEMMA NextStep == ASSUME IInv, [Next]_vars PROVE IInv'
<1>1. CASE XfrdNext
  BY <1>1, XfrdNewTaskStep, XfrdSetReloadNowStep, XfrdStopStep, XfrdHandleIpcStep DEF XfrdNext
<1>2. CASE MainNext
  <2>1. ASSUME NEW forks \in IF ForkFails THEN BOOLEAN ELSE {TRUE}, MainReload(forks) PROVE IInv'
    <3>1. forks \in BOOLEAN
      BY <2>1, FaultAssumption
    <3> QED
      BY <2>1, <3>1, MainReloadStep
  <2> QED
    BY <1>2, <2>1, MainReapStep, MainInterruptedStep, MainDispatchStep, MainQuitSyncStep, MainQuitStep,
       MainShutdownStep DEF MainNext
<1>3. CASE ReloadNext
  BY <1>3, ReloadBeginStep, ReloadProcessTaskStep, ReloadStartChildrenStep, ReloadAnsweredStep,
     ReloadBecomesMainStep DEF ReloadNext
<1>4. CASE ReloadResend
  BY <1>4, ReloadResendStep
<1>5. CASE \E c \in Child : ChildNext(c)
  BY <1>5, ChildPassStep, ChildQuitStep, ChildCrashStep DEF ChildNext
<1>6. CASE ReloadCrash
  BY <1>6, ReloadCrashStep
<1>7. CASE MainCrash
  BY <1>7, MainCrashStep
<1>8. CASE UNCHANGED vars
  <2>1. UNCHANGED <<xfrd, main, kids, reload, nkids, task, toMain, toXfrd, toReload, toOld, hist>>
    BY <1>8 DEF vars
  <2>2. TypeOK' /\ Token' /\ TaskFilesApart' /\ Phases' /\ Order' /\ NoTaskLost' /\ NoPacketLost'
    BY <2>1 DEF IInv, TypeOK, Token, TaskFilesApart, Phases, Order, NoTaskLost, NoPacketLost, ReloadInFlight,
                AppliedInOrder, Own, Other
  <2>3. /\ hist'.crashes = 0 => NoneDied'
        /\ hist'.crashes = 0 /\ ~hist'.stop => Quiet'
        /\ "main" \notin Crashing => Handover'
    BY <2>1 DEF IInv, NoneDied, Reported, Quiet, Handover, Leaving, ReloadInFlight, Other
  <2> QED
    BY <2>2, <2>3 DEF IInv
<1> QED
  BY <1>1, <1>2, <1>3, <1>4, <1>5, <1>6, <1>7, <1>8 DEF Next

(* IInv is an invariant of the reload protocol: of every interleaving of   *)
(* xfrd, main, reload and the children, with any number of tasks, packets, *)
(* children, resends and deaths.                                           *)
THEOREM Invariance == Spec => []IInv
<1>1. Init => IInv
  BY InitIInv
<1>2. IInv /\ [Next]_vars => IInv'
  BY NextStep
<1> QED
  BY <1>1, <1>2, PTL DEF Spec

(* The state of the processes, the task files and the sockets have their   *)
(* types.                                                                  *)
THEOREM TypesCorrect == Spec => []TypeOK
<1>1. IInv => TypeOK
  BY DEF IInv
<1> QED
  BY <1>1, Invariance, PTL

(* xfrd and the reloading process never use the same task file, and main   *)
(* keeps track of who owns which one (mytask, server.c), whatever process  *)
(* dies.                                                                   *)
THEOREM FilesStayApart == Spec => []TaskFilesApart
<1>1. IInv => TaskFilesApart
  BY DEF IInv
<1> QED
  BY <1>1, Invariance, PTL

(* No task is applied twice or out of order, whatever process dies.        *)
THEOREM TasksAppliedInOrder == Spec => []AppliedInOrder
<1>1. IInv => AppliedInOrder
  BY DEF IInv, Order
<1> QED
  BY <1>1, Invariance, PTL

(* Every task that xfrd wrote is in a task file, in the hands of the       *)
(* reload under way or in a database, as long as no process dies.          *)
THEOREM TasksKept == Spec => []NoTaskLost
<1>1. IInv => NoTaskLost
  BY DEF IInv
<1> QED
  BY <1>1, Invariance, PTL

(* No reload drops a packet that a child passed on its way to xfrd.        *)
THEOREM PacketsKept == Spec => []NoPacketLost
<1>1. IInv => NoPacketLost
  BY DEF IInv
<1> QED
  BY <1>1, Invariance, PTL

(* All of the old or all of the new children run at every moment of a      *)
(* reload.                                                                 *)
THEOREM ServiceGoesOn == Spec => []ServiceContinues
<1>1. IInv => ServiceContinues
  <2> SUFFICES ASSUME IInv, hist.crashes = 0, ~hist.stop
               PROVE  (\A c \in Child : kids[c].up) \/ (\A c \in Child : nkids[c].up)
    BY DEF ServiceContinues
  <2>1. Quiet
    BY DEF IInv
  <2>2. CASE Leaving
    BY <2>1, <2>2 DEF Quiet, FreshKid
  <2>3. CASE ~Leaving
    BY <2>1, <2>3 DEF Quiet, FreshKid
  <2> QED
    BY <2>2, <2>3
<1> QED
  BY <1>1, Invariance, PTL

(* Between two passes xfrd holds for served exactly what the serving       *)
(* process has in its database.                                            *)
THEOREM ReportsTrue == Spec => []ServedAsReported
<1>1. IInv => ServedAsReported
  BY DEF IInv, NoneDied, Reported, ServedAsReported
<1> QED
  BY <1>1, Invariance, PTL

(* main is never asked for a reload while one is under way, whatever       *)
(* process dies.                                                           *)
THEOREM ReloadsOneByOne == Spec => []OneReloadAtATime
<1>1. IInv => OneReloadAtATime
  BY DEF IInv, Token, OneReloadAtATime
<1> QED
  BY <1>1, Invariance, PTL

(* When reload takes over, the old main is gone and has read all that xfrd *)
(* wrote, provided that main does not die by itself (reload and the        *)
(* children may).                                                          *)
THEOREM HandoverIsQuiet == ASSUME "main" \notin Crashing PROVE Spec => []QuietHandover
<1>1. IInv => QuietHandover
  <2> SUFFICES ASSUME IInv, reload.pc = "done" PROVE ~main.up /\ toMain = <<>>
    BY DEF QuietHandover
  <2>1. ~main.up /\ main.rfd
    BY DEF IInv, Phases, Token
  <2>2. Handover
    BY DEF IInv
  <2> QED
    BY <2>1, <2>2 DEF Handover
<1> QED
  BY <1>1, Invariance, PTL

(* A process that takes over has all that the one before it had applied:   *)
(* reload starts from main's database, and only adds to it.                *)
THEOREM DatabaseNeverGoesBack == Spec => NothingUnapplied
<1>1. ASSUME IInv, [Next]_vars PROVE Range(main.db) \subseteq Range(main'.db)
  <2>1. CASE ReloadBecomesMain
    <3>1. main'.db = reload.db /\ reload.pc = "done"
      BY <2>1 DEF ReloadBecomesMain
    <3> QED
      BY <1>1, <3>1 DEF IInv, Phases
  <2>2. CASE XfrdNext
    BY <2>2 DEF XfrdNext, XfrdNewTask, XfrdSetReloadNow, XfrdStop, XfrdHandleIpc, serverVars
  <2>3. CASE MainNext
    <3>1. main \in MainFields /\ TypeOK
      BY <1>1 DEF IInv, TypeOK
    <3>2. CASE MainReap \/ MainInterrupted
      BY <3>1, <3>2 DEF MainReap, MainInterrupted, MainFields
    <3>3. CASE MainDispatch
      BY <3>1, <3>3, DispatchStep DEF DispatchMain
    <3>4. ASSUME NEW forks \in IF ForkFails THEN BOOLEAN ELSE {TRUE}, MainReload(forks)
          PROVE  main'.db = main.db
      <4>1. CASE main.reloading
        BY <3>1, <3>4, <4>1 DEF MainReload, MainFields
      <4>2. CASE ~main.reloading
        BY <3>1, <3>4, <4>2 DEF MainReload, MainFields
      <4> QED
        BY <4>1, <4>2
    <3>5. CASE MainQuitSync \/ MainQuit \/ MainShutdown
      BY <3>1, <3>5 DEF MainQuitSync, MainQuit, MainShutdown, MainFields
    <3> QED
      BY <2>3, <3>2, <3>3, <3>4, <3>5 DEF MainNext
  <2>4. CASE ReloadBegin \/ ReloadProcessTask \/ ReloadStartChildren \/ ReloadAnswered
    BY <2>4 DEF ReloadBegin, ReloadProcessTask, ReloadStartChildren, ReloadAnswered
  <2>5. CASE ReloadResend \/ ReloadCrash
    BY <2>5 DEF ReloadResend, ReloadCrash
  <2>6. CASE \E c \in Child : ChildNext(c)
    BY <2>6 DEF ChildNext, ChildPass, ChildQuit, ChildCrash
  <2>7. CASE MainCrash
    BY <1>1, <2>7 DEF MainCrash, IInv, TypeOK, MainFields
  <2>8. CASE UNCHANGED vars
    BY <2>8 DEF vars
  <2> QED
    BY <1>1, <2>1, <2>2, <2>3, <2>4, <2>5, <2>6, <2>7, <2>8 DEF Next, ReloadNext
<1>2. IInv /\ [Next]_vars => [Range(main.db) \subseteq Range(main'.db)]_vars
  BY <1>1
<1> QED
  BY <1>2, Invariance, PTL DEF Spec, NothingUnapplied

=============================================================================
