----------------------------- MODULE NsdReload -----------------------------
(***************************************************************************)
(* The reload protocol between the processes of one running nsd:           *)
(*                                                                         *)
(*   xfrd      long lived; collects tasks in one of two task files and     *)
(*             asks for a reload, which swaps the two files;               *)
(*   main      server_main: watches the query children, forks a reload;    *)
(*   reload    server_reload: applies the tasks to the database, starts    *)
(*             new children, makes the old main leave and becomes main;    *)
(*   children  answer queries and pass NOTIFYs to xfrd through main.       *)
(*                                                                         *)
(* The processes talk over socketpairs, modelled as sequences of commands; *)
(* the end of file of a socket is the death of the process at its other    *)
(* end once everything that process wrote has been read.                   *)
(*                                                                         *)
(* A task is the number of its place in the order in which xfrd wrote      *)
(* them; a passed packet likewise.  What a task does to a zone is left     *)
(* out: a database is the sequence of the tasks applied to it.             *)
(***************************************************************************)
EXTENDS Naturals, Sequences, FiniteSets, Functions

CONSTANTS
    Child,       \* the query processes, nsd->children[]
    MaxTask,     \* bound: tasks that xfrd writes
    MaxPacket,   \* bound: packets that children pass to xfrd
    MaxResend,   \* bound: QUIT_SYNC retransmissions of reload
    Crashing,    \* the kinds of process that may die: "child", "reload", "main"
    MaxCrash,    \* bound: deaths of processes
    ForkFails    \* whether fork or socketpair may fail for a reload

ASSUME ChildAssumption == IsFiniteSet(Child) /\ Child # {}
ASSUME BoundAssumption ==
    /\ MaxTask \in Nat
    /\ MaxPacket \in Nat
    /\ MaxResend \in Nat
    /\ MaxCrash \in Nat
ASSUME FaultAssumption ==
    /\ Crashing \subseteq {"child", "reload", "main"}
    /\ ForkFails \in BOOLEAN

VARIABLES
    xfrd,      \* xfrd's side of the ipc: xfrd_state_type
    main,      \* the process that runs server_main's loop
    kids,      \* the children of main
    reload,    \* the process that runs server_reload
    nkids,     \* the children that reload starts
    task,      \* the two task files, nsd->task[]
    toMain, toXfrd,     \* the socketpair of xfrd and main
    toReload, toOld,    \* the socketpair of reload and the main it replaces
    hist       \* what happened so far: bounds and the history properties use

vars == <<xfrd, main, kids, reload, nkids, task, toMain, toXfrd,
          toReload, toOld, hist>>

serverVars == <<main, kids, reload, nkids, toReload, toOld>>

-----------------------------------------------------------------------------
(* A child as its parent keeps it (struct nsd_child) and as it is: up says  *)
(* the process runs, pid that children[i].pid > 0, fd that child_fd # -1,   *)
(* mine that it is a child process of this main, so that waitpid tells of   *)
(* it.  quit is a QUIT and pkts are packets, on their way between the two.  *)
NewKid ==
    [up |-> TRUE, pid |-> TRUE, fd |-> TRUE, mine |-> TRUE,
     needExit |-> FALSE, sendQuit |-> FALSE, exited |-> FALSE,
     quit |-> FALSE, pkts |-> <<>>]

(* Forking a child replaces pid and socket and leaves the flags alone.      *)
Fork(k) ==
    [k EXCEPT !.up = TRUE, !.pid = TRUE, !.fd = TRUE, !.mine = TRUE,
              !.quit = FALSE, !.pkts = <<>>]

NoReload == [pc |-> "none", task |-> 0, todo |-> <<>>, db |-> <<>>,
             quitSync |-> FALSE]

(* After startup: main owns the empty task file 1, xfrd the empty file 0.   *)
Init ==
    /\ xfrd = [up |-> TRUE, task |-> 0, can |-> TRUE, blocked |-> FALSE,
               needReload |-> FALSE, needQuit |-> FALSE,
               needShutdown |-> FALSE, write |-> FALSE, served |-> {}]
    /\ main = [up |-> TRUE, pc |-> "loop", mode |-> "RUN", hint |-> FALSE,
               reloading |-> FALSE, rfd |-> FALSE, xfd |-> TRUE,
               quitSync |-> FALSE, task |-> 1, db |-> <<>>]
    /\ kids = [c \in Child |-> NewKid]
    /\ reload = NoReload
    /\ nkids = [c \in Child |-> [NewKid EXCEPT !.up = FALSE]]
    /\ task = [f \in {0, 1} |-> <<>>]
    /\ toMain = <<>> /\ toXfrd = <<>> /\ toReload = <<>> /\ toOld = <<>>
    /\ hist = [issued |-> 0, passed |-> 0, got |-> {}, crashes |-> 0,
               resends |-> 0, stop |-> FALSE]

-----------------------------------------------------------------------------
(* xfrd *)

(* Mutant of XfrdNewTask: the task goes to the front of the list.           *)
XfrdNewTaskFirst ==
    /\ xfrd.up /\ hist.issued < MaxTask
    /\ task' = [task EXCEPT ![xfrd.task] =
                    <<[op |-> "task", id |-> hist.issued + 1]>> \o @]
    /\ hist' = [hist EXCEPT !.issued = @ + 1]
    /\ UNCHANGED <<xfrd, serverVars, toMain, toXfrd>>

(* A transfer, a zone that expires or an operator's command becomes a task  *)
(* at the end of xfrd's own task file.                                      *)
XfrdNewTask ==
    /\ xfrd.up /\ hist.issued < MaxTask
    /\ task' = [task EXCEPT ![xfrd.task] =
                    Append(@, [op |-> "task", id |-> hist.issued + 1])]
    /\ hist' = [hist EXCEPT !.issued = @ + 1]
    /\ UNCHANGED <<xfrd, serverVars, toMain, toXfrd>>

(* xfrd_set_reload_now: at once, or when the reload timer expires.          *)
XfrdSetReloadNow ==
    /\ xfrd.up /\ ~xfrd.needReload
    /\ task[xfrd.task] # <<>>
    /\ xfrd' = [xfrd EXCEPT !.needReload = TRUE, !.write = TRUE]
    /\ UNCHANGED <<serverVars, task, toMain, toXfrd, hist>>

(* Mutant of XfrdStop: xfrd does not listen for EV_WRITE.                   *)
XfrdStopNoWrite ==
    /\ xfrd.up /\ ~hist.stop
    /\ xfrd' = [xfrd EXCEPT !.needShutdown = TRUE]
    /\ hist' = [hist EXCEPT !.stop = TRUE]
    /\ UNCHANGED <<serverVars, task, toMain, toXfrd>>

(* nsd-control stop, or SIGTERM for xfrd.                                   *)
XfrdStop ==
    /\ xfrd.up /\ ~hist.stop
    /\ xfrd' = [xfrd EXCEPT !.needShutdown = TRUE, !.write = TRUE]
    /\ hist' = [hist EXCEPT !.stop = TRUE]
    /\ UNCHANGED <<serverVars, task, toMain, toXfrd>>

(* The ids of the soa_info results in a task file.                          *)
Results(f) == {t.id : t \in {u \in Range(f) : u.op = "soa"}}

(* Mutant of RecvReloadDone: both files are cleared for the next pass.      *)
RecvReloadDoneClearsBoth(s) ==
    [s EXCEPT !.x.served = @ \cup Results(s.task[1 - s.x.task]),
              !.task = [f \in {0, 1} |-> <<>>],
              !.x.can = TRUE, !.x.blocked = FALSE, !.x.write = TRUE]

(* RELOAD_DONE: the results are read from the file that is not xfrd's, and  *)
(* the file is cleared.                                                     *)
RecvReloadDone(s) ==
    [s EXCEPT !.x.served = @ \cup Results(s.task[1 - s.x.task]),
              !.task[1 - s.x.task] = <<>>,
              !.x.can = TRUE, !.x.blocked = FALSE, !.x.write = TRUE]

(* xfrd_handle_ipc_read of one command.                                     *)
RecvCommand(s, cmd) ==
    CASE cmd.op = "QUIT" -> [s EXCEPT !.x.up = FALSE]
      [] cmd.op = "RELOAD_DONE" -> RecvReloadDone(s)
      [] cmd.op = "RELOAD" -> [s EXCEPT !.x.write = TRUE, !.x.needQuit = TRUE]
      [] cmd.op = "PASS" -> s

Sending(x) ==
    (x.can /\ x.needReload) \/ x.needShutdown \/ x.needQuit

SendShutdownReq(s) ==
    [s EXCEPT !.x.blocked = TRUE, !.x.needShutdown = FALSE,
              !.out = Append(@, "SHUTDOWN")]

(* Mutant of SendQuitReq: ipc_send_blocked is not set.                      *)
SendQuitReqUnblocked(s) ==
    [s EXCEPT !.x.needQuit = FALSE, !.out = Append(@, "QUIT")]

SendQuitReq(s) ==
    [s EXCEPT !.x.blocked = TRUE, !.x.needQuit = FALSE,
              !.out = Append(@, "QUIT")]

SendReloadReq(s) ==
    [s EXCEPT !.x.task = 1 - @, !.x.needReload = FALSE, !.x.can = FALSE,
              !.out = Append(@, "RELOAD")]

(* The EV_WRITE half of xfrd_handle_ipc.                                    *)
SendCommand(s) ==
    LET t == CASE s.x.blocked -> s
               [] ~s.x.blocked /\ s.x.needShutdown -> SendShutdownReq(s)
               [] ~s.x.blocked /\ ~s.x.needShutdown /\ s.x.needQuit ->
                    SendQuitReq(s)
               [] ~s.x.blocked /\ ~s.x.needShutdown /\ ~s.x.needQuit
                    /\ s.x.can /\ s.x.needReload -> SendReloadReq(s)
               [] OTHER -> s
    IN [t EXCEPT !.x.write = ~t.x.blocked /\ Sending(t.x)]

(* Nothing is left to read and nobody is left to write.                     *)
XfrdSeesEof == toXfrd = <<>> /\ ~main.up /\ reload.pc = "none"

(* xfrd_handle_ipc: a read event, if there is something to read, and then a *)
(* write event, if xfrd asked for it and the socket takes data.             *)
XfrdHandleIpc(writable) ==
    /\ xfrd.up
    /\ toXfrd # <<>> \/ XfrdSeesEof \/ (xfrd.write /\ writable)
    /\ LET s == [x |-> xfrd, task |-> task, out |-> toMain]
           r == IF toXfrd # <<>> THEN RecvCommand(s, Head(toXfrd))
                ELSE [s EXCEPT !.x.up = ~XfrdSeesEof]
           w == IF xfrd.write /\ writable THEN SendCommand(r) ELSE r
       IN /\ xfrd' = w.x /\ task' = w.task /\ toMain' = w.out
    /\ toXfrd' = IF toXfrd # <<>> THEN Tail(toXfrd) ELSE toXfrd
    /\ hist' = IF toXfrd # <<>> /\ Head(toXfrd).op = "PASS"
               THEN [hist EXCEPT !.got = @ \cup {Head(toXfrd).id}]
               ELSE hist
    /\ UNCHANGED serverVars

-----------------------------------------------------------------------------
(* main *)

RestartChildServers(ks) ==
    [c \in Child |-> IF ks[c].pid THEN ks[c] ELSE Fork(ks[c])]

(* Mutant of AllChildrenExited: has_exited is not looked at.                *)
AllChildrenTold(ks) == \A c \in Child : ks[c].needExit

AllChildrenExited(ks) == \A c \in Child : ks[c].needExit /\ ks[c].exited

(* parent_check_all_children_exited, for the mode that follows.             *)
ModeAfterCheck(ks, mode) == IF AllChildrenExited(ks) THEN "QUIT_SYNC" ELSE mode

ReloadDoneCmd == [op |-> "RELOAD_DONE", id |-> 0]
ReloadCmd == [op |-> "RELOAD", id |-> 0]
QuitCmd == [op |-> "QUIT", id |-> 0]

(* The dead children that waitpid reports to this main.                     *)
Zombies == {c \in Child : kids[c].mine /\ kids[c].pid /\ ~kids[c].up}

(* delete_child_pid, and what follows it for a child told to exit.          *)
DeleteChildPid(k) ==
    IF k.needExit THEN [k EXCEPT !.pid = FALSE, !.exited = @ \/ ~k.fd]
    ELSE [k EXCEPT !.pid = FALSE, !.fd = FALSE, !.pkts = <<>>]

(* Top of the loop in mode RUN: collect the dead children.                  *)
MainReap ==
    /\ main.up /\ main.pc = "loop" /\ main.mode = "RUN" /\ ~main.hint
    /\ LET gone == [c \in Child |-> IF c \in Zombies THEN DeleteChildPid(kids[c])
                                    ELSE kids[c]]
           told == \E c \in Zombies : kids[c].needExit
           lost == \E c \in Zombies : ~kids[c].needExit
           mode == IF told THEN ModeAfterCheck(gone, "RUN") ELSE "RUN"
       IN /\ kids' = IF lost THEN RestartChildServers(gone) ELSE gone
          /\ main' = [main EXCEPT !.mode = mode,
                                  !.pc = IF mode = "RUN" THEN "poll" ELSE "loop"]
    /\ UNCHANGED <<xfrd, reload, nkids, task, toMain, toXfrd, toReload, toOld,
                   hist>>

(* netio_dispatch interrupted by SIGCHLD: the loop goes on to waitpid.      *)
MainInterrupted ==
    /\ main.up /\ main.pc = "poll" /\ Zombies # {}
    /\ main' = [main EXCEPT !.pc = "loop"]
    /\ UNCHANGED <<xfrd, kids, reload, nkids, task, toMain, toXfrd, toReload,
                   toOld, hist>>

(* The descriptors that poll reports.                                       *)
ReloadReadable == main.rfd /\ (toOld # <<>> \/ reload.pc = "none")
XfrdReadable == main.xfd /\ (toMain # <<>> \/ ~xfrd.up)
ChildReadable(c) == kids[c].fd /\ (kids[c].pkts # <<>> \/ ~kids[c].up)
ChildWritable(c) == kids[c].fd /\ kids[c].sendQuit

ReloadEof == ReloadReadable /\ toOld = <<>>

(* parent_handle_reload_command for QUIT_SYNC: every child has to exit.     *)
MustExit(k) ==
    IF k.pid /\ k.fd THEN [k EXCEPT !.needExit = TRUE, !.sendQuit = TRUE]
    ELSE [k EXCEPT !.needExit = TRUE, !.exited = @ \/ ~k.fd]

HandleReloadCommand(s) ==
    IF ReloadReadable /\ toOld # <<>>
    THEN LET ks == [c \in Child |-> MustExit(s.ks[c])]
         IN [s EXCEPT !.ks = ks, !.m.mode = ModeAfterCheck(ks, @)]
    ELSE s

(* child_is_done: the end of file of a child's socket.                      *)
ChildIsDone(k) ==
    IF k.needExit THEN [k EXCEPT !.fd = FALSE, !.exited = TRUE]
    ELSE [k EXCEPT !.fd = FALSE, !.pid = FALSE]

(* parent_handle_child_command of one child: first the write, which fails   *)
(* for a child that is gone, and then a packet for xfrd or the end of file. *)
HandleChildCommand(k, c) ==
    LET w == IF ChildWritable(c) /\ k.up
             THEN [k EXCEPT !.sendQuit = FALSE, !.quit = TRUE] ELSE k
    IN IF ~ChildReadable(c) THEN w
       ELSE IF k.pkts # <<>> THEN [w EXCEPT !.pkts = Tail(@)]
       ELSE ChildIsDone(w)

(* The elements of a finite set in some order.                             *)
Ordered(S) == CHOOSE q \in [1..Cardinality(S) -> S] : Range(q) = S

HandleChildren(s) ==
    LET ks == [c \in Child |-> HandleChildCommand(s.ks[c], c)]
        done == {c \in Child : ChildReadable(c) /\ kids[c].pkts = <<>>}
    IN [s EXCEPT
          !.ks = ks,
          !.m.mode = IF done # {} THEN ModeAfterCheck(ks, @) ELSE @,
          !.restart = \E c \in done : ~s.ks[c].needExit,
          !.out = @ \o Ordered({[op |-> "PASS", id |-> Head(kids[c].pkts)] :
                        c \in {d \in Child : ChildReadable(d)
                                             /\ kids[d].pkts # <<>>}})]

(* parent_handle_xfrd_command.                                              *)
HandleXfrdCommand(s) ==
    IF ~XfrdReadable THEN s
    ELSE IF toMain = <<>> THEN [s EXCEPT !.m.xfd = FALSE, !.m.mode = "SHUTDOWN"]
    ELSE IF Head(toMain) = "RELOAD" THEN [s EXCEPT !.m.hint = TRUE]
    ELSE [s EXCEPT !.m.mode = Head(toMain)]

(* Mutant of Dispatch: the first handler added comes first.                 *)
DispatchReversed(s) ==
    HandleReloadCommand(HandleChildren(HandleXfrdCommand(s)))

(* The handlers in the order in which netio_dispatch calls them: the last   *)
(* one added comes first.                                                   *)
Dispatch(s) == HandleXfrdCommand(HandleChildren(HandleReloadCommand(s)))

(* Mutant of AfterDispatch: xfrd is not told that the reload failed.        *)
AfterDispatchSilent(s) ==
    LET r == IF s.restart THEN [s EXCEPT !.ks = RestartChildServers(@)] ELSE s
    IN IF ReloadEof THEN [r EXCEPT !.m.reloading = FALSE, !.m.rfd = FALSE]
       ELSE r

(* After the handlers: children that died are forked again, and the failure *)
(* of a reload ends its pass with RELOAD_DONE.                              *)
AfterDispatch(s) ==
    LET r == IF s.restart THEN [s EXCEPT !.ks = RestartChildServers(@)] ELSE s
    IN IF ReloadEof
       THEN [r EXCEPT !.m.reloading = FALSE, !.m.rfd = FALSE,
                      !.out = IF r.m.xfd THEN Append(@, ReloadDoneCmd) ELSE @]
       ELSE r

MainDispatch ==
    /\ main.up /\ main.pc = "poll"
    /\ \/ ReloadReadable
       \/ XfrdReadable
       \/ \E c \in Child : ChildReadable(c) \/ ChildWritable(c)
    /\ LET s == AfterDispatch(Dispatch([m |-> main, ks |-> kids, out |-> toXfrd,
                                        restart |-> FALSE]))
       IN /\ main' = [s.m EXCEPT !.pc = "loop"]
          /\ kids' = s.ks
          /\ toXfrd' = s.out
    /\ toOld' = IF ReloadReadable /\ toOld # <<>> THEN Tail(toOld) ELSE toOld
    /\ toMain' = IF XfrdReadable /\ toMain # <<>> THEN Tail(toMain) ELSE toMain
    /\ UNCHANGED <<xfrd, reload, nkids, task, toReload, hist>>

(* Mutant of MainReload: mytask is not switched.                            *)
MainReloadNoSwitch(forks) ==
    /\ main.up /\ main.pc = "loop" /\ main.mode = "RUN" /\ main.hint
    /\ main' = [main EXCEPT !.hint = FALSE, !.reloading = @ \/ forks,
                            !.rfd = @ \/ forks]
    /\ IF main.reloading \/ ~forks THEN UNCHANGED <<kids, reload, nkids>>
       ELSE /\ reload' = [pc |-> "begin", task |-> main.task, todo |-> <<>>,
                          db |-> main.db, quitSync |-> main.quitSync]
            /\ kids' = [c \in Child |-> [kids[c] EXCEPT !.mine = FALSE]]
            /\ nkids' = [c \in Child |-> [kids[c] EXCEPT !.up = FALSE,
                                                         !.quit = FALSE,
                                                         !.pkts = <<>>]]
    /\ UNCHANGED <<xfrd, task, toMain, toXfrd, toReload, toOld, hist>>

(* Mode RELOAD.  The process that forks is the one that goes on as reload,  *)
(* the new process is main: the children of main are no longer its child    *)
(* processes.  Without a fork nobody reloads and main runs on.              *)
MainReload(forks) ==
    /\ main.up /\ main.pc = "loop" /\ main.mode = "RUN" /\ main.hint
    /\ main' = IF main.reloading THEN [main EXCEPT !.hint = FALSE]
               ELSE [main EXCEPT !.hint = FALSE, !.task = 1 - @,
                                 !.reloading = forks, !.rfd = forks]
    /\ IF main.reloading \/ ~forks THEN UNCHANGED <<kids, reload, nkids>>
       ELSE /\ reload' = [pc |-> "begin", task |-> 1 - main.task, todo |-> <<>>,
                          db |-> main.db, quitSync |-> main.quitSync]
            /\ kids' = [c \in Child |-> [kids[c] EXCEPT !.mine = FALSE]]
            /\ nkids' = [c \in Child |-> [kids[c] EXCEPT !.up = FALSE,
                                                         !.quit = FALSE,
                                                         !.pkts = <<>>]]
    /\ UNCHANGED <<xfrd, task, toMain, toXfrd, toReload, toOld, hist>>

(* Mode QUIT_SYNC: all children are gone, tell xfrd once.                   *)
MainQuitSync ==
    /\ main.up /\ main.pc = "loop" /\ main.mode = "QUIT_SYNC"
    /\ LET tell == ~main.quitSync /\ main.rfd
       IN /\ toXfrd' = IF tell THEN Append(toXfrd, ReloadCmd) ELSE toXfrd
          /\ main' = [main EXCEPT !.mode = "RUN", !.quitSync = @ \/ tell]
    /\ UNCHANGED <<xfrd, kids, reload, nkids, task, toMain, toReload, toOld,
                   hist>>

QuitAll(ks) == [c \in Child |-> [ks[c] EXCEPT !.quit = @ \/ ks[c].fd]]

(* Mode QUIT: acknowledge to reload, and leave.                             *)
MainQuit ==
    /\ main.up /\ main.pc = "loop" /\ main.mode = "QUIT"
    /\ toReload' = IF main.rfd THEN Append(toReload, "RELOAD") ELSE toReload
    /\ kids' = QuitAll(kids)
    /\ main' = [main EXCEPT !.up = FALSE]
    /\ UNCHANGED <<xfrd, reload, nkids, task, toMain, toXfrd, toOld, hist>>

(* Mode SHUTDOWN: children, reload and xfrd are told to stop.               *)
MainShutdown ==
    /\ main.up /\ main.pc = "loop" /\ main.mode = "SHUTDOWN"
    /\ toReload' = IF main.rfd THEN Append(toReload, "QUIT") ELSE toReload
    /\ toXfrd' = IF main.xfd THEN Append(toXfrd, QuitCmd) ELSE toXfrd
    /\ kids' = QuitAll(kids)
    /\ main' = [main EXCEPT !.up = FALSE]
    /\ UNCHANGED <<xfrd, reload, nkids, task, toMain, toOld, hist>>

-----------------------------------------------------------------------------
(* reload *)

(* Mutant of ReloadBegin: the old main is asked to leave before the tasks   *)
(* are done and the new children run.                                       *)
ReloadBeginSync ==
    /\ reload.pc = "begin"
    /\ reload' = [reload EXCEPT !.todo = task[reload.task],
                     !.pc = IF task[reload.task] = <<>> THEN "start" ELSE "tasks"]
    /\ task' = [task EXCEPT ![reload.task] = <<>>]
    /\ toOld' = Append(toOld, "QUIT_SYNC")
    /\ UNCHANGED <<xfrd, main, kids, nkids, toMain, toXfrd, toReload, hist>>

(* reload_process_tasks takes the list over, and empties the file's list    *)
(* for the results.                                                         *)
ReloadBegin ==
    /\ reload.pc = "begin"
    /\ reload' = [reload EXCEPT !.todo = task[reload.task],
                     !.pc = IF task[reload.task] = <<>> THEN "start" ELSE "tasks"]
    /\ task' = [task EXCEPT ![reload.task] = <<>>]
    /\ UNCHANGED <<xfrd, main, kids, nkids, toMain, toXfrd, toReload, toOld,
                   hist>>

Told == toReload # <<>> /\ Head(toReload) = "QUIT"

(* One task, its result, and a look whether main has quit.                  *)
ReloadProcessTask ==
    /\ reload.pc = "tasks"
    /\ task' = [task EXCEPT ![reload.task] =
                    Append(@, [op |-> "soa", id |-> Head(reload.todo).id])]
    /\ reload' =
         IF Told THEN NoReload
         ELSE [reload EXCEPT !.db = Append(@, Head(reload.todo).id),
                             !.todo = Tail(@),
                             !.pc = IF Tail(reload.todo) = <<>> THEN "start"
                                    ELSE "tasks"]
    /\ toReload' = IF toReload # <<>> THEN Tail(toReload) ELSE toReload
    /\ UNCHANGED <<xfrd, main, kids, nkids, toMain, toXfrd, toOld, hist>>

(* The new children are started, then the old main is asked to leave.       *)
ReloadStartChildren ==
    /\ reload.pc = "start"
    /\ LET ks == [c \in Child |-> Fork(nkids[c])]
       IN nkids' = IF Told THEN QuitAll(ks) ELSE ks
    /\ reload' = IF Told THEN NoReload ELSE [reload EXCEPT !.pc = "await"]
    /\ toOld' = IF Told THEN toOld ELSE Append(toOld, "QUIT_SYNC")
    /\ toReload' = IF toReload # <<>> THEN Tail(toReload) ELSE toReload
    /\ UNCHANGED <<xfrd, main, kids, task, toMain, toXfrd, hist>>

(* RELOAD_SYNC_TIMEOUT passed without an answer.                            *)
ReloadResend ==
    /\ reload.pc = "await" /\ toReload = <<>> /\ main.up
    /\ hist.resends < MaxResend
    /\ toOld' = Append(toOld, "QUIT_SYNC")
    /\ hist' = [hist EXCEPT !.resends = @ + 1]
    /\ UNCHANGED <<xfrd, main, kids, reload, nkids, task, toMain, toXfrd,
                   toReload>>

(* The old main answers RELOAD, or QUIT when it shuts down; the end of file *)
(* lets reload go on too.                                                   *)
ReloadAnswered ==
    /\ reload.pc = "await"
    /\ toReload # <<>> \/ ~main.up
    /\ reload' = IF Told THEN NoReload ELSE [reload EXCEPT !.pc = "done"]
    /\ nkids' = IF Told THEN QuitAll(nkids) ELSE nkids
    /\ toReload' = IF toReload # <<>> THEN Tail(toReload) ELSE toReload
    /\ UNCHANGED <<xfrd, main, kids, task, toMain, toXfrd, toOld, hist>>

(* RELOAD_DONE goes to xfrd and the process continues as server_main.       *)
ReloadBecomesMain ==
    /\ reload.pc = "done"
    /\ toXfrd' = Append(toXfrd, ReloadDoneCmd)
    /\ main' = [up |-> TRUE, pc |-> "loop", mode |-> "RUN", hint |-> FALSE,
                reloading |-> FALSE, rfd |-> FALSE, xfd |-> TRUE,
                quitSync |-> reload.quitSync, task |-> reload.task,
                db |-> reload.db]
    /\ kids' = nkids
    /\ nkids' = [c \in Child |-> [NewKid EXCEPT !.up = FALSE]]
    /\ reload' = NoReload
    /\ toOld' = <<>> /\ toReload' = <<>>
    /\ UNCHANGED <<xfrd, task, toMain, hist>>

-----------------------------------------------------------------------------
(* children, and processes that die *)

ChildPass(c) ==
    /\ hist.passed < MaxPacket
    /\ hist' = [hist EXCEPT !.passed = @ + 1]
    /\ \/ /\ kids[c].up /\ main.up
          /\ kids' = [kids EXCEPT ![c].pkts = Append(@, hist.passed + 1)]
          /\ nkids' = nkids
       \/ /\ nkids[c].up /\ reload.pc # "none"
          /\ nkids' = [nkids EXCEPT ![c].pkts = Append(@, hist.passed + 1)]
          /\ kids' = kids
    /\ UNCHANGED <<xfrd, main, reload, task, toMain, toXfrd, toReload, toOld>>

(* A child leaves when it reads QUIT or the end of file from its parent.    *)
ChildQuit(c) ==
    /\ \/ /\ kids[c].up /\ (kids[c].quit \/ ~main.up)
          /\ kids' = [kids EXCEPT ![c].up = FALSE, ![c].quit = FALSE]
          /\ nkids' = nkids
       \/ /\ nkids[c].up /\ (nkids[c].quit \/ reload.pc = "none")
          /\ nkids' = [nkids EXCEPT ![c].up = FALSE, ![c].quit = FALSE]
          /\ kids' = kids
    /\ UNCHANGED <<xfrd, main, reload, task, toMain, toXfrd, toReload, toOld,
                   hist>>

Crash(kind) ==
    /\ kind \in Crashing /\ hist.crashes < MaxCrash
    /\ hist' = [hist EXCEPT !.crashes = @ + 1]
    /\ UNCHANGED <<xfrd, task, toMain, toXfrd, toReload, toOld>>

ChildCrash(c) ==
    /\ Crash("child")
    /\ kids[c].up
    /\ kids' = [kids EXCEPT ![c].up = FALSE]
    /\ UNCHANGED <<main, reload, nkids>>

ReloadCrash ==
    /\ Crash("reload")
    /\ reload.pc # "none"
    /\ reload' = NoReload
    /\ UNCHANGED <<main, kids, nkids>>

MainCrash ==
    /\ Crash("main")
    /\ main.up
    /\ main' = [main EXCEPT !.up = FALSE]
    /\ UNCHANGED <<kids, reload, nkids>>

-----------------------------------------------------------------------------
XfrdNext ==
    \/ XfrdNewTask
    \/ XfrdSetReloadNow
    \/ XfrdStop
    \/ \E writable \in BOOLEAN : XfrdHandleIpc(writable)

MainNext ==
    \/ MainReap
    \/ MainInterrupted
    \/ MainDispatch
    \/ \E forks \in IF ForkFails THEN BOOLEAN ELSE {TRUE} : MainReload(forks)
    \/ MainQuitSync
    \/ MainQuit
    \/ MainShutdown

ReloadNext ==
    \/ ReloadBegin
    \/ ReloadProcessTask
    \/ ReloadStartChildren
    \/ ReloadAnswered
    \/ ReloadBecomesMain

ChildNext(c) == ChildPass(c) \/ ChildQuit(c) \/ ChildCrash(c)

Next ==
    \/ XfrdNext
    \/ MainNext
    \/ ReloadNext
    \/ ReloadResend
    \/ \E c \in Child : ChildNext(c)
    \/ ReloadCrash
    \/ MainCrash

Spec == Init /\ [][Next]_vars

(* Every process keeps running: xfrd's event loop serves its socket, a task *)
(* has reload wanted sooner or later, main's loop and reload go on, and a   *)
(* child reads its socket.                                                  *)
Fairness ==
    /\ WF_vars(XfrdSetReloadNow)
    /\ WF_vars(XfrdHandleIpc(TRUE))
    /\ WF_vars(MainNext)
    /\ WF_vars(ReloadNext)
    /\ \A c \in Child : WF_vars(ChildQuit(c))

FairSpec == Spec /\ Fairness

-----------------------------------------------------------------------------
(* Properties *)

Cmds == {"QUIT", "RELOAD", "SHUTDOWN"}
Tasks == [op : {"task", "soa"}, id : 1..MaxTask]
Kids ==
    [up : BOOLEAN, pid : BOOLEAN, fd : BOOLEAN, mine : BOOLEAN,
     needExit : BOOLEAN, sendQuit : BOOLEAN, exited : BOOLEAN, quit : BOOLEAN,
     pkts : Seq(1..MaxPacket)]
Messages == {ReloadDoneCmd, ReloadCmd, QuitCmd} \cup [op : {"PASS"}, id : 1..MaxPacket]

XfrdFields ==
    [up : BOOLEAN, task : {0, 1}, can : BOOLEAN, blocked : BOOLEAN,
     needReload : BOOLEAN, needQuit : BOOLEAN, needShutdown : BOOLEAN,
     write : BOOLEAN, served : SUBSET (1..MaxTask)]
MainFields ==
    [up : BOOLEAN, pc : {"loop", "poll"},
     mode : {"RUN", "QUIT_SYNC", "QUIT", "SHUTDOWN"}, hint : BOOLEAN,
     reloading : BOOLEAN, rfd : BOOLEAN, xfd : BOOLEAN, quitSync : BOOLEAN,
     task : {0, 1}, db : Seq(1..MaxTask)]
ReloadFields ==
    [pc : {"none", "begin", "tasks", "start", "await", "done"}, task : {0, 1},
     todo : Seq(Tasks), db : Seq(1..MaxTask), quitSync : BOOLEAN]
HistFields ==
    [issued : 0..MaxTask, passed : 0..MaxPacket, got : SUBSET (1..MaxPacket),
     crashes : 0..MaxCrash, resends : 0..MaxResend, stop : BOOLEAN]

(* The types of the processes' state, of the task files and of the sockets. *)
TypeOK ==
    /\ xfrd \in XfrdFields /\ main \in MainFields /\ reload \in ReloadFields
    /\ kids \in [Child -> Kids] /\ nkids \in [Child -> Kids]
    /\ task \in [{0, 1} -> Seq(Tasks)]
    /\ toMain \in Seq(Cmds) /\ toReload \in Seq({"RELOAD", "QUIT"})
    /\ toOld \in Seq({"QUIT_SYNC"}) /\ toXfrd \in Seq(Messages)
    /\ hist \in HistFields

(* A RELOAD command that main has not acted on.                             *)
ReloadInFlight == main.hint \/ (\E i \in DOMAIN toMain : toMain[i] = "RELOAD")

(* xfrd and the reloading process never use the same task file, xfrd and    *)
(* main agree on who owns which one, but for a RELOAD under way ("switch    *)
(* the mytask to keep track of who owns task", server.c), and the file that *)
(* xfrd may swap to has been read and cleared, as xfrd_send_reload_req      *)
(* asserts.                                                                 *)
TaskFilesApart ==
    /\ reload.pc # "none" => reload.task = 1 - xfrd.task
    /\ main.up => (main.task = xfrd.task <=> ReloadInFlight)
    /\ xfrd.can => task[1 - xfrd.task] = <<>>

(* No task is applied twice or out of order, whatever process dies.         *)
AppliedInOrder ==
    \A db \in {main.db, reload.db} :
        \A i, j \in DOMAIN db : i < j => db[i] < db[j]

(* A task waits in a task file, is in the hands of the reload under way or  *)
(* is in the database, as long as no process dies.                          *)
NoTaskLost ==
    hist.crashes = 0 /\ ~hist.stop =>
        1..hist.issued =
            {t.id : t \in {u \in Range(task[0]) \cup Range(task[1])
                                  \cup Range(reload.todo) : u.op = "task"}}
            \cup Range(reload.db) \cup Range(main.db)

(* What the serving process has applied stays applied: a process that takes *)
(* over from it has it too, whatever process dies.                          *)
NothingUnapplied == [][Range(main.db) \subseteq Range(main'.db)]_vars

(* One reload at a time: main is not asked for another one while reload_pid *)
(* is set ("Reload already in progress" is never logged).                   *)
OneReloadAtATime == ReloadInFlight => ~main.reloading

(* When reload takes over, the old main is gone and nothing that xfrd wrote *)
(* for it is left for the new one to read.                                  *)
QuietHandover == reload.pc = "done" => ~main.up /\ toMain = <<>>

(* A packet that a child passed is received by xfrd or still on its way     *)
(* through a process that will forward it: no reload drops one ("so that    *)
(* buffered packets to pass to xfrd can arrive", ipc.c).                    *)
NoPacketLost ==
    hist.crashes = 0 /\ ~hist.stop =>
        1..hist.passed \subseteq
            hist.got
            \cup {m.id : m \in Range(toXfrd)}
            \cup (UNION {Range(kids[c].pkts) :
                            c \in {d \in Child : main.up /\ kids[d].fd}})
            \cup (UNION {Range(nkids[c].pkts) :
                            c \in {d \in Child : reload.pc # "none"}})

(* A reload never leaves queries unanswered: all of the old or all of the   *)
(* new children run at every moment.                                        *)
ServiceContinues ==
    hist.crashes = 0 /\ ~hist.stop =>
        (\A c \in Child : kids[c].up) \/ (\A c \in Child : nkids[c].up)

(* Between two passes, xfrd holds for served exactly what the database of   *)
(* the process that serves has, as long as no process dies (soa_nsd, "in    *)
(* use by running server", xfrd.h).                                         *)
ServedAsReported ==
    hist.crashes = 0 /\ xfrd.can /\ main.up => xfrd.served = Range(main.db)

(* After a reload that failed main runs on, and its children with it        *)
(* ("Reload process %d failed, continuing with old database", server.c).    *)
ContinuesWithOldDatabase ==
    main.up /\ ~main.reloading /\ ~hist.stop => \A c \in Child : kids[c].up

(* Every reload pass ends with RELOAD_DONE at xfrd, or nsd stops            *)
(* ("RELOAD_DONE is sent at the end of a reload pass", nsd.h).              *)
ReloadPassEnds == ~xfrd.can ~> (xfrd.can \/ ~xfrd.up)

(* Every task reaches the database of the serving process, unless a process *)
(* died on the way.                                                         *)
TasksApplied ==
    \A t \in 1..MaxTask :
        (hist.issued >= t) ~> \/ hist.stop \/ hist.crashes > 0
                              \/ main.up /\ t \in Range(main.db)

(* A stop requested at any moment of a reload ends every process.           *)
ShutdownCompletes ==
    hist.stop ~> /\ ~xfrd.up /\ ~main.up /\ reload.pc = "none"
                 /\ \A c \in Child : ~kids[c].up /\ ~nkids[c].up

=============================================================================
