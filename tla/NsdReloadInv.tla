---------------------------- MODULE NsdReloadInv ----------------------------
(***************************************************************************)
(* The inductive invariant of the reload protocol, which the theorems of   *)
(* NsdReloadProofs rest on.  NoTaskLost, ServiceContinues and the others   *)
(* are not inductive: they hold because the right to ask for a reload is   *)
(* in one place, because tasks only ever move in one direction, and        *)
(* because the old main is asked to leave after the new children run.      *)
(***************************************************************************)
EXTENDS NsdReload

(* Sequences of commands: c is on its way, is on its way at most once, and *)
(* no d is on its way before a c.                                          *)
Has(q, c) == \E i \in DOMAIN q : q[i] = c
Once(q, c) == \A i, j \in DOMAIN q : q[i] = c /\ q[j] = c => i = j
Before(q, c, d) == \A i, j \in DOMAIN q : q[i] = c /\ q[j] = d => i < j

(* The right to ask for a reload is in one place at a time: with xfrd      *)
(* (can), in a RELOAD on its way or taken by main (ReloadInFlight), with   *)
(* main that waits for its reload (rfd), or in a RELOAD_DONE on its way    *)
(* back.                                                                   *)
Token ==
    /\ main.reloading = main.rfd
    /\ reload.pc # "none" => main.rfd
    /\ Once(toMain, "RELOAD") /\ Once(toXfrd, ReloadDoneCmd)
    /\ xfrd.can => ~ReloadInFlight /\ ~main.rfd /\ ~Has(toXfrd, ReloadDoneCmd)
    /\ Has(toMain, "RELOAD") => ~main.hint
    /\ ReloadInFlight => ~main.rfd /\ ~Has(toXfrd, ReloadDoneCmd)
    /\ main.rfd => ~Has(toXfrd, ReloadDoneCmd)

(* What the phases of reload and main say about the rest: reload has tasks *)
(* to do in phase tasks only, main speaks to reload and reload takes over  *)
(* once main is gone, and the database of reload extends that of main.     *)
Phases ==
    /\ reload.pc = "none" => reload = NoReload
    /\ reload.pc = "done" => ~main.up
    /\ toReload # <<>> => ~main.up
    /\ reload.pc = "tasks" <=> reload.todo # <<>>
    /\ main.pc = "poll" => main.mode = "RUN"
    /\ reload.pc # "none" => Range(main.db) \subseteq Range(reload.db)

(* xfrd's task file and the other one, the ids in a task list, all of S    *)
(* below all of T, and a list of tasks that were written, in that order,   *)
(* among the first n.                                                      *)
Own == task[xfrd.task]
Other == task[1 - xfrd.task]
Ids(q) == {q[i].id : i \in DOMAIN q}
Below(S, T) == \A a \in S, b \in T : a < b
TasksInOrder(q, n) ==
    /\ \A i \in DOMAIN q : q[i].op = "task" /\ q[i].id <= n
    /\ \A i, j \in DOMAIN q : i < j => q[i].id < q[j].id

(* The tasks move from xfrd's file through the other file and reload's     *)
(* list to its database, the older ones ahead.                             *)
Order ==
    /\ AppliedInOrder
    /\ TasksInOrder(Own, hist.issued) /\ TasksInOrder(reload.todo, hist.issued)
    /\ Below(Range(main.db) \cup Range(reload.db) \cup Ids(reload.todo), Ids(Own))
    /\ Below(Range(reload.db), Ids(reload.todo))
    /\ \A t \in Range(main.db) \cup Range(reload.db) : t <= hist.issued
    /\ ReloadInFlight \/ reload.pc = "begin" =>
          /\ TasksInOrder(Other, hist.issued)
          /\ Below(Ids(Other), Ids(Own))
          /\ Below(Range(main.db) \cup Range(reload.db), Ids(Other))

(* What xfrd believes is served, together with the results that it has not *)
(* read yet, is what the database of the next or the present main holds.   *)
Reported ==
    /\ main.up /\ (xfrd.can \/ ReloadInFlight) => xfrd.served = Range(main.db)
    /\ main.up /\ Has(toXfrd, ReloadDoneCmd) =>
          xfrd.served \cup Results(Other) = Range(main.db)
    /\ reload.pc = "begin" => xfrd.served = Range(reload.db)
    /\ reload.pc \in {"tasks", "start", "await", "done"} =>
          xfrd.served \cup Results(Other) = Range(reload.db)

(* As long as no process died: main waits for a reload that runs, and the  *)
(* file that xfrd will read next holds results only.                       *)
NoneDied ==
    /\ main.up /\ main.rfd => reload.pc # "none"
    /\ Has(toXfrd, ReloadDoneCmd) \/ reload.pc \in {"tasks", "start", "await", "done"} =>
         \A i \in DOMAIN Other : Other[i].op = "soa"
    /\ Reported

(* A child that serves, a child of the old main that has to exit, and an   *)
(* entry of reload before its child is forked.                             *)
FreshKid(k) ==
    k.up /\ k.pid /\ k.fd /\ ~k.needExit /\ ~k.sendQuit /\ ~k.exited /\ ~k.quit

OldKid(k) == k.needExit /\ (k.exited => ~k.fd) /\ (k.up => k.fd)
UnbornKid(k) ==
    ~k.up /\ k.pid /\ k.fd /\ ~k.needExit /\ ~k.sendQuit /\ ~k.exited /\ ~k.quit /\ k.pkts = <<>>

Leaving == reload.pc \in {"await", "done"}

(* As long as no process died and nobody asked nsd to stop: the old main   *)
(* and its children leave only after reload has started new ones, and the  *)
(* request to leave (RELOAD to xfrd, needQuit, QUIT to main) exists once.  *)
Quiet ==
    /\ xfrd.up /\ main.xfd /\ ~xfrd.needShutdown /\ ~Has(toMain, "SHUTDOWN")
    /\ main.mode # "SHUTDOWN" /\ ~Has(toXfrd, QuitCmd) /\ ~Has(toReload, "QUIT")
    /\ main.up \/ (Leaving /\ main.quitSync)
    /\ toOld # <<>> => Leaving
    /\ main.quitSync => Leaving /\ AllChildrenExited(kids)
    /\ main.mode = "QUIT_SYNC" => Leaving /\ AllChildrenExited(kids)
    /\ reload.pc # "none" => ~reload.quitSync
    /\ Once(toXfrd, ReloadCmd) /\ Once(toMain, "QUIT")
    /\ Has(toXfrd, ReloadCmd) => ~xfrd.needQuit
    /\ Has(toXfrd, ReloadCmd) \/ xfrd.needQuit => ~Has(toMain, "QUIT")
    /\ Has(toXfrd, ReloadCmd) \/ xfrd.needQuit \/ Has(toMain, "QUIT") =>
          main.up /\ main.quitSync /\ main.mode # "QUIT"
    /\ main.mode = "QUIT" => main.quitSync
    /\ \A c \in Child : FreshKid(kids[c]) \/ (Leaving /\ OldKid(kids[c]))
    /\ Leaving => \A c \in Child : FreshKid(nkids[c])
    /\ reload.pc \in {"begin", "tasks", "start"} => \A c \in Child : UnbornKid(nkids[c])

(* As long as main does not die by itself: a QUIT for the main that waits  *)
(* for its reload is the last thing that xfrd writes to it, so nothing is  *)
(* left in the socket when reload takes over.                              *)
Handover ==
    /\ Before(toXfrd, ReloadCmd, ReloadDoneCmd)
    /\ xfrd.up /\ Has(toXfrd, ReloadCmd) => main.rfd \/ Has(toXfrd, ReloadDoneCmd)
    /\ xfrd.up /\ xfrd.needQuit => main.rfd \/ Has(toXfrd, ReloadDoneCmd) \/ xfrd.can
    /\ Before(toMain, "QUIT", "RELOAD")
    /\ main.hint => ~Has(toMain, "QUIT")
    /\ Has(toMain, "QUIT") /\ main.rfd =>
          Once(toMain, "QUIT") /\ toMain[Len(toMain)] = "QUIT" /\ xfrd.blocked
    /\ main.mode = "QUIT" /\ main.rfd => toMain = <<>> /\ xfrd.blocked
    /\ reload.pc # "none" /\ ~main.up =>
          main.mode = "QUIT" \/ (main.mode = "SHUTDOWN" /\ reload.pc # "done" /\ toReload = <<"QUIT">>)
    /\ ~main.xfd => ~xfrd.up

(* The inductive invariant.                                                *)
IInv ==
    /\ TypeOK /\ Token /\ TaskFilesApart /\ Phases /\ Order
    /\ hist.crashes = 0 => NoneDied
    /\ hist.crashes = 0 /\ ~hist.stop => Quiet
    /\ NoTaskLost /\ NoPacketLost
    /\ "main" \notin Crashing => Handover

=============================================================================
