------------------------- MODULE NsdReloadMainSteps -------------------------
(***************************************************************************)
(* Every step of main keeps the invariant of NsdReloadInv.                 *)
(***************************************************************************)
EXTENDS NsdReloadLemmas

(* Collecting dead children keeps the invariant: without a death only      *)
(* children that have to exit are gone.                                    *)
LEMMA MainReapStep == ASSUME IInv, MainReap PROVE IInv'
<1>1. /\ TypeOK /\ Token /\ TaskFilesApart /\ Phases /\ Order /\ NoTaskLost /\ NoPacketLost
      /\ hist.crashes = 0 => NoneDied
      /\ hist.crashes = 0 /\ ~hist.stop => Quiet
      /\ "main" \notin Crashing => Handover
  BY DEF IInv
<1> DEFINE gone == [c \in Child |-> IF c \in Zombies THEN DeleteChildPid(kids[c]) ELSE kids[c]]
           told == \E c \in Zombies : kids[c].needExit
           lost == \E c \in Zombies : ~kids[c].needExit
           mode == IF told THEN ModeAfterCheck(gone, "RUN") ELSE "RUN"
<1>2. /\ UNCHANGED <<xfrd, reload, nkids, task, toMain, toXfrd, toReload, toOld, hist>>
      /\ main.up /\ main.mode = "RUN"
      /\ main' = [main EXCEPT !.mode = mode, !.pc = IF mode = "RUN" THEN "poll" ELSE "loop"]
      /\ kids' = IF lost THEN RestartChildServers(gone) ELSE gone
  BY DEF MainReap
<1>3. mode = "RUN" \/ (mode = "QUIT_SYNC" /\ AllChildrenExited(gone) /\ told)
  BY DEF ModeAfterCheck
<1> HIDE DEF mode
<1>4. /\ main' \in MainFields /\ main'.mode = mode /\ main'.up
      /\ (main'.pc = "poll" => mode = "RUN") /\ main'.hint = main.hint
      /\ main'.reloading = main.reloading /\ main'.rfd = main.rfd /\ main'.xfd = main.xfd
      /\ main'.quitSync = main.quitSync /\ main'.task = main.task /\ main'.db = main.db
  BY <1>1, <1>2, <1>3 DEF TypeOK, MainFields
<1>5. \A k \in Kids : DeleteChildPid(k) \in Kids /\ (k.needExit =>
           /\ DeleteChildPid(k).needExit /\ (DeleteChildPid(k).exited <=> k.exited \/ ~k.fd)
           /\ DeleteChildPid(k).fd = k.fd /\ DeleteChildPid(k).up = k.up /\ DeleteChildPid(k).pkts = k.pkts)
  <2> SUFFICES ASSUME NEW k \in Kids
               PROVE  DeleteChildPid(k) \in Kids /\ (k.needExit =>
           /\ DeleteChildPid(k).needExit /\ (DeleteChildPid(k).exited <=> k.exited \/ ~k.fd)
           /\ DeleteChildPid(k).fd = k.fd /\ DeleteChildPid(k).up = k.up /\ DeleteChildPid(k).pkts = k.pkts)
    OBVIOUS
  <2>0. <<>> \in Seq(1..MaxPacket)
    OBVIOUS
  <2>1. CASE k.needExit
    BY <2>1 DEF DeleteChildPid, Kids
  <2>2. CASE ~k.needExit
    BY <2>0, <2>2 DEF DeleteChildPid, Kids
  <2> QED
    BY <2>1, <2>2
<1>6. gone \in [Child -> Kids]
  BY <1>1, <1>5 DEF TypeOK
<1>7. kids' \in [Child -> Kids]
  BY <1>2, <1>6, ForkFields DEF RestartChildServers
<1>8. TypeOK' /\ Token' /\ TaskFilesApart' /\ Phases' /\ Order'
  BY <1>1, <1>2, <1>3, <1>4, <1>7
     DEF TypeOK, Token, TaskFilesApart, Phases, Order, ReloadInFlight, AppliedInOrder, Own, Other
<1>9. hist.crashes = 0 => NoneDied'
  BY <1>1, <1>2, <1>4 DEF NoneDied, Reported, ReloadInFlight, Other
<1> DEFINE Kept(c) ==
             /\ kids'[c].pkts = kids[c].pkts /\ kids'[c].fd = kids[c].fd
             /\ kids[c].needExit /\ kids[c].exited => kids'[c].needExit /\ kids'[c].exited
             /\ FreshKid(kids[c]) => kids'[c] = kids[c]
             /\ OldKid(kids[c]) => OldKid(kids'[c])
           AllKept == kids' = gone /\ (\A c \in Child : Kept(c)) /\ (told => Leaving)
<1>10. hist.crashes = 0 /\ ~hist.stop => AllKept
  <2> SUFFICES ASSUME hist.crashes = 0, ~hist.stop PROVE AllKept
    OBVIOUS
  <2>0. Quiet
    BY <1>1
  <2>1. \A c \in Zombies : Leaving /\ OldKid(kids[c]) /\ c \in Child /\ kids[c] \in Kids /\ ~FreshKid(kids[c])
    BY <1>1, <2>0 DEF Quiet, Zombies, FreshKid, TypeOK
  <2>2. ~lost /\ (told => Leaving)
    BY <2>1 DEF OldKid
  <2>3. kids' = gone
    BY <1>2, <2>2
  <2>4. \A c \in Child \ Zombies : kids'[c] = kids[c]
    BY <2>3
  <2>5. \A c \in Zombies : kids'[c] = DeleteChildPid(kids[c])
    BY <2>1, <2>3
  <2>6. \A c \in Zombies : /\ kids'[c].pkts = kids[c].pkts /\ kids'[c].fd = kids[c].fd
                           /\ kids[c].exited => kids'[c].needExit /\ kids'[c].exited
                           /\ OldKid(kids'[c])
    BY <1>5, <2>1, <2>5 DEF OldKid
  <2> QED
    BY <2>1, <2>2, <2>3, <2>4, <2>6
<1> HIDE DEF gone, told, lost
<1>11. hist.crashes = 0 /\ ~hist.stop => Quiet'
  <2> SUFFICES ASSUME Quiet, hist.crashes = 0, ~hist.stop PROVE Quiet'
    BY <1>1
  <2>1. AllChildrenExited(kids) => AllChildrenExited(kids')
    BY <1>10 DEF AllChildrenExited
  <2>2. main'.mode # "SHUTDOWN" /\ main'.mode # "QUIT" /\ (main'.mode = "QUIT_SYNC" => Leaving /\ AllChildrenExited(kids'))
    BY <1>3, <1>4, <1>10
  <2>3. \A c \in Child : FreshKid(kids'[c]) \/ (Leaving /\ OldKid(kids'[c]))
    BY <1>10 DEF Quiet
  <2> QED
    BY <1>2, <1>4, <2>1, <2>2, <2>3 DEF Quiet, Leaving
<1>12. "main" \notin Crashing => Handover'
  BY <1>1, <1>2, <1>3, <1>4 DEF Handover
<1>13. NoTaskLost'
  BY <1>1, <1>2, <1>4 DEF NoTaskLost
<1>14. NoPacketLost'
  BY <1>1, <1>2, <1>4, <1>10, PacketsCarried DEF AllCarried, Carried
<1> QED
  BY <1>2, <1>8, <1>9, <1>11, <1>12, <1>13, <1>14 DEF IInv

(* An interrupted poll keeps the invariant.                                *)
LEMMA MainInterruptedStep == ASSUME IInv, MainInterrupted PROVE IInv'
<1>1. /\ TypeOK /\ Token /\ TaskFilesApart /\ Phases /\ Order /\ NoTaskLost /\ NoPacketLost
      /\ hist.crashes = 0 => NoneDied
      /\ hist.crashes = 0 /\ ~hist.stop => Quiet
      /\ "main" \notin Crashing => Handover
  BY DEF IInv
<1>2. /\ UNCHANGED <<xfrd, kids, reload, nkids, toReload, toOld, task, toMain, toXfrd, hist>>
      /\ main' = [main EXCEPT !.pc = "loop"]
  BY DEF MainInterrupted
<1>3. /\ main' \in MainFields /\ main'.pc = "loop"
      /\ main'.up = main.up /\ main'.mode = main.mode /\ main'.hint = main.hint
      /\ main'.reloading = main.reloading /\ main'.rfd = main.rfd /\ main'.xfd = main.xfd
      /\ main'.quitSync = main.quitSync /\ main'.task = main.task /\ main'.db = main.db
  BY <1>1, <1>2 DEF TypeOK, MainFields
<1>4. TypeOK' /\ Token' /\ TaskFilesApart' /\ Phases' /\ Order'
  BY <1>1, <1>2, <1>3 DEF TypeOK, Token, TaskFilesApart, Phases, Order, ReloadInFlight, AppliedInOrder, Own, Other
<1>5. hist.crashes = 0 => NoneDied'
  BY <1>1, <1>2, <1>3 DEF NoneDied, Reported, ReloadInFlight, Other
<1>6. hist.crashes = 0 /\ ~hist.stop => Quiet'
  BY <1>1, <1>2, <1>3 DEF Quiet, Leaving
<1>7. "main" \notin Crashing => Handover'
  BY <1>1, <1>2, <1>3 DEF Handover
<1>8. NoTaskLost' /\ NoPacketLost'
  BY <1>1, <1>2, <1>3 DEF NoTaskLost, NoPacketLost
<1> QED
  BY <1>2, <1>4, <1>5, <1>6, <1>7, <1>8 DEF IInv

(* What main reads from xfrd in one round of netio_dispatch.               *)
LEMMA DispatchReads ==
  ASSUME TypeOK, MainDispatch
  PROVE  /\ toMain' \in Seq(Cmds) /\ toMain \in Seq(Cmds)
         /\ \A c : Has(toMain, c) <=> Has(toMain', c) \/ Gets(c)
         /\ \A c : Once(toMain, c) => Once(toMain', c) /\ (Gets(c) => ~Has(toMain', c))
         /\ Before(toMain, "QUIT", "RELOAD") =>
               Before(toMain', "QUIT", "RELOAD") /\ (Gets("RELOAD") => ~Has(toMain, "QUIT"))
         /\ toMain' # <<>> => toMain'[Len(toMain')] = toMain[Len(toMain)]
         /\ Once(toMain, "QUIT") /\ Gets("QUIT") /\ toMain[Len(toMain)] = "QUIT" => toMain' = <<>>
<1>1. /\ toMain \in Seq(Cmds)
      /\ toMain' = IF XfrdReadable /\ toMain # <<>> THEN Tail(toMain) ELSE toMain
  BY DEF TypeOK, MainDispatch
<1>2. CASE ~(XfrdReadable /\ toMain # <<>>)
  BY <1>1, <1>2 DEF Gets
<1>3. CASE XfrdReadable /\ toMain # <<>>
  <2>1. /\ toMain' = Tail(toMain) /\ toMain' \in Seq(Cmds)
        /\ \A c : Has(toMain, c) <=> Has(toMain', c) \/ Gets(c)
        /\ \A c : Once(toMain, c) => Once(toMain', c) /\ (Gets(c) => ~Has(toMain', c))
    BY <1>1, <1>3, TailFacts, TailHas DEF Gets
  <2>2. Before(toMain, "QUIT", "RELOAD") =>
           Before(toMain', "QUIT", "RELOAD") /\ (Gets("RELOAD") => ~Has(toMain, "QUIT"))
    BY <1>1, <1>3, TailBefore DEF Gets
  <2>3. /\ Len(toMain) \in Nat \ {0} /\ Len(toMain') = Len(toMain) - 1 /\ Head(toMain) = toMain[1]
        /\ 1 \in DOMAIN toMain /\ Len(toMain) \in DOMAIN toMain
        /\ \A i \in 1..(Len(toMain) - 1) : toMain'[i] = toMain[i + 1]
    BY <1>1, <1>3, TailFacts
  <2>4. toMain' # <<>> => toMain'[Len(toMain')] = toMain[Len(toMain)]
    <3>1. toMain' # <<>> => Len(toMain') # 0
      BY <2>1
    <3> QED
      BY <2>3, <3>1
  <2>5. Once(toMain, "QUIT") /\ Gets("QUIT") /\ toMain[Len(toMain)] = "QUIT" => toMain' = <<>>
    <3>1. Once(toMain, "QUIT") /\ Gets("QUIT") /\ toMain[Len(toMain)] = "QUIT" => Len(toMain) = 1
      BY <2>3 DEF Once, Gets
    <3>2. Len(toMain') = 0 => toMain' = <<>>
      BY <2>1
    <3> QED
      BY <2>3, <3>1, <3>2
  <2> QED
    BY <1>1, <2>1, <2>2, <2>4, <2>5
<1> QED
  BY <1>2, <1>3

(* What main writes to xfrd in one round of netio_dispatch.                *)
LEMMA DispatchWrites ==
  ASSUME TypeOK, NEW p, DispatchSends(p)
  PROVE  /\ toXfrd' \in Seq(Messages)
         /\ \A m \in {ReloadCmd, ReloadDoneCmd, QuitCmd} :
              /\ Has(toXfrd', m) <=> Has(toXfrd, m) \/ (m = ReloadDoneCmd /\ ReloadEof /\ main'.xfd)
              /\ Once(toXfrd, m) /\ (m = ReloadDoneCmd /\ ReloadEof => ~Has(toXfrd, m)) => Once(toXfrd', m)
         /\ Before(toXfrd, ReloadCmd, ReloadDoneCmd) => Before(toXfrd', ReloadCmd, ReloadDoneCmd)
         /\ Range(toXfrd) \cup PassSet \subseteq Range(toXfrd')
<1>1. /\ toXfrd \in Seq(Messages) /\ ReloadDoneCmd \in Messages
      /\ ReloadCmd # ReloadDoneCmd /\ ReloadCmd # QuitCmd /\ ReloadDoneCmd # QuitCmd
  BY DEF TypeOK, Messages, ReloadCmd, ReloadDoneCmd, QuitCmd
<1>2. p \in Seq(Messages) /\ \A m \in {ReloadCmd, ReloadDoneCmd, QuitCmd} : ~Has(p, m)
  <2>1. p \in Seq(PassType) /\ PassType \subseteq Messages
    BY DEF DispatchSends, Messages, PassType
  <2>2. \A m \in {ReloadCmd, ReloadDoneCmd, QuitCmd} : m \notin PassType
    BY DEF PassType, ReloadCmd, ReloadDoneCmd, QuitCmd
  <2> QED
    BY <2>1, <2>2 DEF Has
<1> DEFINE q == toXfrd \o p
<1>3. /\ q \in Seq(Messages) /\ Range(q) = Range(toXfrd) \cup PassSet
      /\ \A m \in {ReloadCmd, ReloadDoneCmd, QuitCmd} :
           (Has(q, m) <=> Has(toXfrd, m)) /\ (Once(toXfrd, m) => Once(q, m))
      /\ Before(toXfrd, ReloadCmd, ReloadDoneCmd) => Before(q, ReloadCmd, ReloadDoneCmd)
  BY <1>1, <1>2, ConcatHas, ConcatBefore DEF DispatchSends
<1>4. toXfrd' = IF ReloadEof /\ main'.xfd THEN Append(q, ReloadDoneCmd) ELSE q
  BY DEF DispatchSends
<1> HIDE DEF q
<1>5. CASE ~(ReloadEof /\ main'.xfd)
  BY <1>3, <1>4, <1>5
<1>6. CASE ReloadEof /\ main'.xfd
  <2>1. toXfrd' = Append(q, ReloadDoneCmd)
    BY <1>4, <1>6
  <2>2. /\ toXfrd' \in Seq(Messages) /\ Range(toXfrd') = Range(q) \cup {ReloadDoneCmd}
        /\ \A m : Has(toXfrd', m) <=> Has(q, m) \/ ReloadDoneCmd = m
        /\ \A m : Once(q, m) /\ ~(ReloadDoneCmd = m /\ Has(q, m)) => Once(toXfrd', m)
    BY <1>1, <1>3, <2>1, AppendFacts, AppendHas
  <2>3. Before(q, ReloadCmd, ReloadDoneCmd) => Before(toXfrd', ReloadCmd, ReloadDoneCmd)
    BY <1>1, <1>3, <2>1, AppendBefore
  <2> QED
    BY <1>1, <1>3, <1>6, <2>2, <2>3
<1> QED
  BY <1>5, <1>6

(* The children in a round without a death: nothing is restarted, a new    *)
(* child that is not told to exit stays as it is, an old one loses its     *)
(* socket when it is done.                                                 *)
LEMMA DispatchQuietKids ==
  ASSUME TypeOK, Quiet, DispatchKids
  PROVE  /\ \A c \in Child : kids'[c] = Handled(c)
         /\ \A c \in Child : FreshKid(kids'[c]) \/ (Leaving /\ OldKid(kids'[c]))
         /\ AllChildrenExited(kids) => AllChildrenExited(kids')
         /\ AllChildrenExited(kids') => Leaving
<1>1. \A c \in Child : FreshKid(kids[c]) \/ (Leaving /\ OldKid(kids[c]))
  BY DEF Quiet
<1>2. GetsSync => Leaving
  BY DEF Quiet, GetsSync
<1>3. \A c \in Child : /\ FreshKid(kids[c]) => ~ChildEof(c)
                       /\ ChildEof(c) => ~kids[c].up /\ kids[c].fd
                       /\ Writes(c) => kids[c].sendQuit
  BY DEF FreshKid, ChildEof, ChildReadable, Writes, ChildWritable
<1>4. ~Restarts
  <2> SUFFICES ASSUME NEW c \in Child, ChildEof(c), ~AfterSync(c).needExit PROVE FALSE
    BY DEF Restarts, ChildEof
  <2>1. kids[c].needExit
    BY <1>1, <1>3 DEF OldKid
  <2> QED
    BY <2>1, AfterSyncFields
<1>5. \A c \in Child : kids'[c] = Handled(c)
  BY <1>4 DEF DispatchKids
<1>6. ASSUME NEW c \in Child PROVE FreshKid(kids'[c]) \/ (Leaving /\ OldKid(kids'[c]))
  <2>1. /\ kids'[c].up = kids[c].up
        /\ kids'[c].needExit <=> GetsSync \/ kids[c].needExit
        /\ kids'[c].fd <=> kids[c].fd /\ ~ChildEof(c)
        /\ ~ChildEof(c) => (kids'[c].pid <=> kids[c].pid)
        /\ kids'[c].exited => kids[c].exited \/ (GetsSync /\ ~kids[c].fd) \/ ChildEof(c)
        /\ kids'[c].quit <=> kids[c].quit \/ Writes(c)
        /\ kids'[c].sendQuit => kids[c].sendQuit \/ GetsSync
    <3>1. kids[c] \in Kids /\ Handled(c) \in Kids /\ AfterSync(c) \in Kids
      BY HandledFields, AfterSyncFields DEF TypeOK
    <3>2. /\ Handled(c).needExit <=> GetsSync \/ kids[c].needExit
          /\ Handled(c).exited => kids[c].exited \/ (GetsSync /\ ~kids[c].fd) \/ ChildEof(c)
          /\ Handled(c).sendQuit => kids[c].sendQuit \/ GetsSync
      BY HandledFields, AfterSyncFields
    <3> QED
      BY <1>5, <3>2, HandledFields
  <2>2. CASE FreshKid(kids[c]) /\ ~GetsSync
    BY <1>3, <2>1, <2>2 DEF FreshKid
  <2>3. CASE FreshKid(kids[c]) /\ GetsSync
    BY <1>2, <1>3, <2>1, <2>3 DEF FreshKid, OldKid
  <2>4. CASE Leaving /\ OldKid(kids[c])
    BY <1>3, <2>1, <2>4 DEF OldKid
  <2> QED
    BY <1>1, <2>2, <2>3, <2>4
<1>7. AllChildrenExited(kids) => AllChildrenExited(kids')
  <2>1. \A c \in Child : kids[c].needExit /\ kids[c].exited => Handled(c).needExit /\ Handled(c).exited
    BY HandledFields, AfterSyncFields
  <2> QED
    BY <1>5, <2>1 DEF AllChildrenExited
<1>8. AllChildrenExited(kids') => Leaving
  <2>1. PICK c \in Child : TRUE
    BY ChildAssumption
  <2>2. kids'[c].needExit => Leaving
    BY <1>6 DEF FreshKid
  <2> QED
    BY <2>2 DEF AllChildrenExited
<1> QED
  BY <1>5, <1>6, <1>7, <1>8

(* A round of netio_dispatch keeps the invariant.                          *)
LEMMA MainDispatchStep == ASSUME IInv, MainDispatch PROVE IInv'
<1>1. /\ TypeOK /\ Token /\ TaskFilesApart /\ Phases /\ Order /\ NoTaskLost /\ NoPacketLost
      /\ hist.crashes = 0 => NoneDied
      /\ hist.crashes = 0 /\ ~hist.stop => Quiet
      /\ "main" \notin Crashing => Handover
  BY DEF IInv
<1>2. /\ main.up /\ main.mode = "RUN" /\ reload.pc # "done" /\ toReload = <<>>
      /\ UNCHANGED <<xfrd, reload, nkids, task, toReload, hist>>
      /\ toOld' = IF ReloadReadable /\ toOld # <<>> THEN Tail(toOld) ELSE toOld
  BY <1>1 DEF MainDispatch, Phases
<1>3. DispatchMain /\ DispatchKids
  BY <1>1, DispatchStep
<1>4. PICK p : DispatchSends(p)
  BY <1>1, DispatchStep
<1>5. /\ main' \in MainFields /\ main \in MainFields
      /\ main'.up /\ main'.pc = "loop"
      /\ main'.hint <=> main.hint \/ Gets("RELOAD")
      /\ main'.reloading <=> main.reloading /\ ~ReloadEof
      /\ main'.rfd <=> main.rfd /\ ~ReloadEof
      /\ main'.xfd <=> main.xfd /\ ~XfrdGone
      /\ main'.quitSync <=> main.quitSync
      /\ main'.task = main.task /\ main'.db = main.db
      /\ main'.mode = "QUIT" => Gets("QUIT")
      /\ XfrdGone \/ Gets("SHUTDOWN") \/ Gets("QUIT") \/ main'.mode = "RUN"
           \/ (main'.mode = "QUIT_SYNC" /\ AllChildrenExited(kids'))
      /\ Gets("QUIT") => main'.mode = "QUIT"
  <2>1. ~(XfrdGone /\ Gets("QUIT")) /\ ~(Gets("SHUTDOWN") /\ Gets("QUIT"))
    BY DEF XfrdGone, Gets
  <2> QED
    BY <1>1, <1>2, <1>3, <2>1 DEF DispatchMain, TypeOK
<1>6. /\ toMain' \in Seq(Cmds)
      /\ \A c : Has(toMain, c) <=> Has(toMain', c) \/ Gets(c)
      /\ \A c : Once(toMain, c) => Once(toMain', c) /\ (Gets(c) => ~Has(toMain', c))
      /\ Before(toMain, "QUIT", "RELOAD") =>
            Before(toMain', "QUIT", "RELOAD") /\ (Gets("RELOAD") => ~Has(toMain, "QUIT"))
      /\ toMain' # <<>> => toMain'[Len(toMain')] = toMain[Len(toMain)]
      /\ Once(toMain, "QUIT") /\ Gets("QUIT") /\ toMain[Len(toMain)] = "QUIT" => toMain' = <<>>
  BY <1>1, DispatchReads
<1>7. /\ toXfrd' \in Seq(Messages)
      /\ \A m \in {ReloadCmd, ReloadDoneCmd, QuitCmd} :
           /\ Has(toXfrd', m) <=> Has(toXfrd, m) \/ (m = ReloadDoneCmd /\ ReloadEof /\ main'.xfd)
           /\ Once(toXfrd, m) /\ (m = ReloadDoneCmd /\ ReloadEof => ~Has(toXfrd, m)) => Once(toXfrd', m)
      /\ Before(toXfrd, ReloadCmd, ReloadDoneCmd) => Before(toXfrd', ReloadCmd, ReloadDoneCmd)
      /\ Range(toXfrd) \cup PassSet \subseteq Range(toXfrd')
      /\ ReloadCmd # ReloadDoneCmd /\ QuitCmd # ReloadDoneCmd
  <2>1. ReloadCmd # ReloadDoneCmd /\ QuitCmd # ReloadDoneCmd
    BY DEF ReloadCmd, ReloadDoneCmd, QuitCmd
  <2> QED
    BY <1>1, <1>4, <2>1, DispatchWrites
<1>8. /\ ReloadEof => main.rfd /\ reload.pc = "none"
      /\ ReloadInFlight' <=> ReloadInFlight
      /\ Own' = Own /\ Other' = Other
  <2>1. ReloadEof => main.rfd /\ reload.pc = "none"
    BY DEF ReloadEof, ReloadReadable
  <2>2. ReloadInFlight' <=> ReloadInFlight
    <3>1. ReloadInFlight <=> main.hint \/ Has(toMain, "RELOAD")
      BY DEF ReloadInFlight, Has
    <3>2. ReloadInFlight' <=> main'.hint \/ Has(toMain', "RELOAD")
      BY DEF ReloadInFlight, Has
    <3> QED
      BY <1>5, <1>6, <3>1, <3>2
  <2> QED
    BY <1>2, <2>1, <2>2 DEF Own, Other
<1>9. TypeOK'
  <2>1. toOld' \in Seq({"QUIT_SYNC"})
    BY <1>1, <1>2, TailFacts DEF TypeOK
  <2>2. kids' \in [Child -> Kids]
    BY <1>3 DEF DispatchKids
  <2> QED
    BY <1>1, <1>2, <1>5, <1>6, <1>7, <2>1, <2>2 DEF TypeOK
<1>10. Token'
  <2>1. main'.reloading = main'.rfd
    <3>1. main'.reloading <=> main'.rfd
      BY <1>1, <1>5 DEF Token
    <3>2. main'.reloading \in BOOLEAN /\ main'.rfd \in BOOLEAN
      BY <1>5 DEF MainFields
    <3> QED
      BY <3>1, <3>2
  <2>2. Once(toMain', "RELOAD") /\ Once(toXfrd', ReloadDoneCmd)
    BY <1>1, <1>6, <1>7, <1>8 DEF Token
  <2>3. Has(toMain', "RELOAD") => ~main'.hint
    BY <1>1, <1>5, <1>6 DEF Token
  <2>4. Has(toXfrd', ReloadDoneCmd) <=> Has(toXfrd, ReloadDoneCmd) \/ (ReloadEof /\ main'.xfd)
    BY <1>7
  <2> QED
    BY <1>1, <1>2, <1>5, <1>8, <2>1, <2>2, <2>3, <2>4 DEF Token
<1>11. TaskFilesApart' /\ Phases'
  BY <1>1, <1>2, <1>5, <1>8 DEF TaskFilesApart, Phases
<1>12. Order'
  <2>1. AppliedInOrder'
    BY <1>1, <1>2, <1>5 DEF Order, AppliedInOrder
  <2> QED
    BY <1>1, <1>2, <1>5, <1>8, <2>1 DEF Order
<1>13. hist.crashes = 0 => ~ReloadEof /\ NoneDied'
  <2> SUFFICES ASSUME NoneDied PROVE ~ReloadEof /\ NoneDied'
    BY <1>1
  <2>1. ~ReloadEof
    BY <1>2, <1>8 DEF NoneDied
  <2>2. Has(toXfrd', ReloadDoneCmd) <=> Has(toXfrd, ReloadDoneCmd)
    BY <1>7, <2>1
  <2> QED
    BY <1>2, <1>5, <1>8, <2>1, <2>2 DEF NoneDied, Reported
<1>14. hist.crashes = 0 /\ ~hist.stop => Quiet'
  <2> SUFFICES ASSUME Quiet, hist.crashes = 0 PROVE Quiet'
    BY <1>1
  <2>1. ~XfrdGone /\ ~Gets("SHUTDOWN")
    BY <1>6 DEF Quiet, XfrdGone, XfrdReadable
  <2>2. /\ \A c \in Child : FreshKid(kids'[c]) \/ (Leaving /\ OldKid(kids'[c]))
        /\ AllChildrenExited(kids) => AllChildrenExited(kids')
        /\ AllChildrenExited(kids') => Leaving
    BY <1>1, <1>3, DispatchQuietKids
  <2>3. /\ Has(toXfrd', ReloadCmd) <=> Has(toXfrd, ReloadCmd)
        /\ ~Has(toXfrd', QuitCmd) /\ Once(toXfrd', ReloadCmd)
    BY <1>7 DEF Quiet
  <2>4. /\ Has(toMain', "QUIT") => Has(toMain, "QUIT") /\ ~Gets("QUIT")
        /\ Gets("QUIT") => Has(toMain, "QUIT")
        /\ Once(toMain', "QUIT") /\ ~Has(toMain', "SHUTDOWN")
    BY <1>6 DEF Quiet
  <2>5. Leaving' <=> Leaving
    BY <1>2 DEF Leaving
  <2>6. main'.mode # "SHUTDOWN" /\ (main'.mode = "QUIT_SYNC" => Leaving /\ AllChildrenExited(kids'))
    BY <1>5, <2>1, <2>2
  <2>7. toOld' # <<>> => toOld # <<>>
    BY <1>2
  <2>8. /\ Has(toXfrd', ReloadCmd) \/ xfrd.needQuit => ~Has(toMain', "QUIT") /\ ~Gets("QUIT")
        /\ Has(toXfrd', ReloadCmd) \/ xfrd.needQuit \/ Has(toMain', "QUIT") =>
              main.quitSync /\ main'.mode # "QUIT"
        /\ main'.mode = "QUIT" => main.quitSync
    BY <1>5, <2>3, <2>4 DEF Quiet
  <2> QED
    BY <1>2, <1>5, <2>1, <2>2, <2>3, <2>4, <2>5, <2>6, <2>7, <2>8 DEF Quiet
<1>15. "main" \notin Crashing => Handover'
  <2> SUFFICES ASSUME Handover PROVE Handover'
    BY <1>1
  <2>1. XfrdGone => ~xfrd.up
    BY DEF XfrdGone, XfrdReadable
  <2>2. ~main'.xfd => ~xfrd.up
    BY <1>5, <2>1 DEF Handover
  <2>3. xfrd.up /\ (main.rfd \/ Has(toXfrd, ReloadDoneCmd)) => main'.rfd \/ Has(toXfrd', ReloadDoneCmd)
    BY <1>5, <1>7, <2>2
  <2>4. Has(toXfrd', ReloadCmd) => Has(toXfrd, ReloadCmd)
    BY <1>7
  <2>5. main'.hint => ~Has(toMain', "QUIT")
    BY <1>5, <1>6 DEF Handover
  <2>6. Has(toMain', "QUIT") /\ main'.rfd =>
           Once(toMain', "QUIT") /\ toMain'[Len(toMain')] = "QUIT" /\ xfrd.blocked
    <3>1. Has(toMain', "QUIT") => toMain' # <<>>
      BY DEF Has
    <3> QED
      BY <1>5, <1>6, <3>1 DEF Handover
  <2>7. main'.mode = "QUIT" /\ main'.rfd => toMain' = <<>> /\ xfrd.blocked
    <3>1. Gets("QUIT") => Has(toMain, "QUIT")
      BY <1>6
    <3> QED
      BY <1>5, <1>6, <3>1 DEF Handover
  <2>8. Before(toMain', "QUIT", "RELOAD") /\ Before(toXfrd', ReloadCmd, ReloadDoneCmd)
    BY <1>6, <1>7 DEF Handover
  <2> QED
    BY <1>2, <1>5, <2>2, <2>3, <2>4, <2>5, <2>6, <2>7, <2>8 DEF Handover
<1>16. NoTaskLost'
  BY <1>1, <1>2, <1>5 DEF NoTaskLost
<1>17. NoPacketLost'
  <2> SUFFICES ASSUME hist.crashes = 0, ~hist.stop, NEW n \in 1..hist.passed PROVE Carried(n)'
    BY <1>2, PacketsCarried DEF AllCarried
  <2>1. Carried(n)
    BY <1>1, PacketsCarried DEF AllCarried
  <2>2. \A c \in Child : kids'[c] = Handled(c)
    BY <1>1, <1>3, DispatchQuietKids
  <2>3. ASSUME NEW c \in Child, kids[c].fd, n \in Range(kids[c].pkts)
        PROVE  (\E m \in Range(toXfrd') : m.id = n) \/ (kids'[c].fd /\ n \in Range(kids'[c].pkts))
    <3>1. kids[c].pkts # <<>> /\ ~ChildEof(c)
      BY <2>3 DEF Range, ChildEof
    <3>2. kids'[c].fd
      BY <1>1, <2>2, <2>3, <3>1, HandledFields
    <3>3. CASE c \notin Passing
      BY <1>1, <2>2, <2>3, <3>2, <3>3, HandledFields
    <3>4. CASE c \in Passing
      <4> DEFINE P == 1..MaxPacket
      <4>1. kids[c].pkts \in Seq(P)
        BY <1>1 DEF TypeOK, Kids
      <4> HIDE DEF P
      <4>2. Range(kids[c].pkts) = {Head(kids[c].pkts)} \cup Range(Tail(kids[c].pkts))
        BY <3>1, <4>1, TailHas
      <4>3. kids'[c].pkts = Tail(kids[c].pkts)
        BY <1>1, <2>2, <3>4, HandledFields
      <4>4. [op |-> "PASS", id |-> Head(kids[c].pkts)] \in Range(toXfrd')
        BY <1>7, <3>4 DEF PassSet
      <4> QED
        BY <2>3, <3>2, <4>2, <4>3, <4>4
    <3> QED
      BY <3>3, <3>4
  <2> QED
    BY <1>2, <1>5, <1>7, <2>1, <2>3 DEF Carried
<1> QED
  BY <1>2, <1>9, <1>10, <1>11, <1>12, <1>13, <1>14, <1>15, <1>16, <1>17 DEF IInv

(* Forking a reload keeps the invariant: there is none, since the token    *)
(* was with the RELOAD.                                                    *)
LEMMA MainReloadStep == ASSUME IInv, NEW forks \in BOOLEAN, MainReload(forks) PROVE IInv'
<1>1. /\ TypeOK /\ Token /\ TaskFilesApart /\ Phases /\ Order /\ NoTaskLost /\ NoPacketLost
      /\ hist.crashes = 0 => NoneDied
      /\ hist.crashes = 0 /\ ~hist.stop => Quiet
      /\ "main" \notin Crashing => Handover
  BY DEF IInv
<1>2. /\ main.up /\ main.hint /\ main.mode = "RUN" /\ ReloadInFlight /\ ~main.rfd /\ ~main.reloading
      /\ ~Has(toMain, "RELOAD") /\ ~Has(toXfrd, ReloadDoneCmd) /\ ~xfrd.can
      /\ reload = NoReload /\ reload.pc = "none" /\ reload.db = <<>> /\ reload.todo = <<>> /\ toReload = <<>>
      /\ main.task = xfrd.task /\ ~Leaving
  <2>1. main.up /\ main.hint /\ main.mode = "RUN" /\ ReloadInFlight
    BY DEF MainReload, ReloadInFlight
  <2>2. /\ ~main.rfd /\ ~main.reloading /\ ~Has(toMain, "RELOAD") /\ ~Has(toXfrd, ReloadDoneCmd)
        /\ ~xfrd.can /\ reload.pc = "none"
    BY <1>1, <2>1 DEF Token
  <2>3. reload = NoReload /\ toReload = <<>> /\ main.task = xfrd.task
    BY <1>1, <2>1, <2>2 DEF Phases, TaskFilesApart
  <2> QED
    BY <2>1, <2>2, <2>3 DEF NoReload, Leaving
<1>3. /\ UNCHANGED <<xfrd, task, toMain, toXfrd, toReload, toOld, hist>>
      /\ main' = [main EXCEPT !.hint = FALSE, !.task = 1 - main.task, !.reloading = forks, !.rfd = forks]
      /\ IF ~forks THEN UNCHANGED <<kids, reload, nkids>>
         ELSE /\ reload' = [pc |-> "begin", task |-> 1 - main.task, todo |-> <<>>,
                            db |-> main.db, quitSync |-> main.quitSync]
              /\ kids' = [c \in Child |-> [kids[c] EXCEPT !.mine = FALSE]]
              /\ nkids' = [c \in Child |-> [kids[c] EXCEPT !.up = FALSE, !.quit = FALSE, !.pkts = <<>>]]
  BY <1>2 DEF MainReload
<1>4. /\ main' \in MainFields /\ main'.mode = main.mode /\ main'.up /\ main'.pc = main.pc /\ ~main'.hint
      /\ main'.reloading = forks /\ main'.rfd = forks /\ main'.xfd = main.xfd
      /\ main'.quitSync = main.quitSync /\ main'.task = 1 - main.task /\ main'.db = main.db
  <2>1. main.task \in {0, 1} /\ 1 - main.task \in {0, 1}
    BY <1>1 DEF TypeOK, MainFields
  <2> QED
    BY <1>1, <1>2, <1>3, <2>1 DEF TypeOK, MainFields
<1>5. /\ ~forks => reload' = reload
      /\ forks => /\ reload'.pc = "begin" /\ reload'.task = 1 - xfrd.task /\ reload'.todo = <<>>
                  /\ reload'.db = main.db /\ (reload'.quitSync <=> main.quitSync)
      /\ reload' \in ReloadFields /\ reload'.todo = <<>>
  <2>1. main.task \in {0, 1} /\ 1 - main.task \in {0, 1} /\ main.quitSync \in BOOLEAN /\ main.db \in Seq(1..MaxTask)
    BY <1>1 DEF TypeOK, MainFields
  <2>2. CASE forks
    <3>1. reload' = [pc |-> "begin", task |-> 1 - main.task, todo |-> <<>>, db |-> main.db, quitSync |-> main.quitSync]
      BY <1>3, <2>2
    <3>2. <<>> \in Seq(Tasks)
      OBVIOUS
    <3>3. reload' \in ReloadFields
      BY <2>1, <3>1, <3>2 DEF ReloadFields
    <3> QED
      BY <1>2, <2>2, <3>1, <3>3
  <2>3. CASE ~forks
    BY <1>1, <1>2, <1>3, <2>3 DEF TypeOK
  <2> QED
    BY <2>2, <2>3
<1>6. /\ kids' \in [Child -> Kids] /\ nkids' \in [Child -> Kids]
      /\ \A c \in Child :
           /\ kids'[c].pkts = kids[c].pkts /\ kids'[c].fd = kids[c].fd
           /\ FreshKid(kids[c]) => FreshKid(kids'[c])
           /\ FreshKid(kids[c]) /\ forks => UnbornKid(nkids'[c])
  <2>1. kids \in [Child -> Kids] /\ nkids \in [Child -> Kids] /\ <<>> \in Seq(1..MaxPacket)
    BY <1>1 DEF TypeOK
  <2>2. CASE ~forks
    BY <1>3, <2>1, <2>2
  <2>3. CASE forks
    <3>1. \A c \in Child : /\ kids'[c] = [kids[c] EXCEPT !.mine = FALSE]
                           /\ nkids'[c] = [kids[c] EXCEPT !.up = FALSE, !.quit = FALSE, !.pkts = <<>>]
      BY <1>3, <2>3
    <3>2. \A k \in Kids : /\ [k EXCEPT !.mine = FALSE] \in Kids
                          /\ [k EXCEPT !.mine = FALSE].pkts = k.pkts /\ [k EXCEPT !.mine = FALSE].fd = k.fd
                          /\ FreshKid(k) => FreshKid([k EXCEPT !.mine = FALSE])
      BY DEF Kids, FreshKid
    <3>4. \A k \in Kids : /\ [k EXCEPT !.up = FALSE, !.quit = FALSE, !.pkts = <<>>] \in Kids
                          /\ FreshKid(k) => UnbornKid([k EXCEPT !.up = FALSE, !.quit = FALSE, !.pkts = <<>>])
      <4>1. \A k \in Kids : [k EXCEPT !.up = FALSE, !.quit = FALSE, !.pkts = <<>>] \in Kids
        BY <2>1 DEF Kids
      <4>2. \A k \in Kids : FreshKid(k) => UnbornKid([k EXCEPT !.up = FALSE, !.quit = FALSE, !.pkts = <<>>])
        BY <2>1 DEF Kids, FreshKid, UnbornKid
      <4> QED
        BY <4>1, <4>2
    <3>3. kids' \in [Child -> Kids] /\ nkids' \in [Child -> Kids]
      BY <1>3, <2>1, <2>3, <3>2, <3>4
    <3> QED
      <4> SUFFICES ASSUME NEW c \in Child
                   PROVE  /\ kids'[c].pkts = kids[c].pkts /\ kids'[c].fd = kids[c].fd
                          /\ FreshKid(kids[c]) => FreshKid(kids'[c])
                          /\ FreshKid(kids[c]) /\ forks => UnbornKid(nkids'[c])
        BY <3>3
      <4>1. kids[c] \in Kids
        BY <2>1
      <4> QED
        BY <3>1, <3>2, <3>4, <4>1
  <2> QED
    BY <2>2, <2>3
<1>7. ~ReloadInFlight'
  BY <1>2, <1>3, <1>4 DEF ReloadInFlight, Has
<1>8. TypeOK' /\ Token'
  BY <1>1, <1>2, <1>3, <1>4, <1>5, <1>6, <1>7 DEF TypeOK, Token, NoReload
<1>9. TaskFilesApart'
  BY <1>1, <1>2, <1>3, <1>4, <1>5, <1>7, Files DEF TaskFilesApart
<1>10. Phases'
  BY <1>1, <1>2, <1>3, <1>4, <1>5 DEF Phases, NoReload
<1>11. Order'
  <2>1. Own' = Own /\ Other' = Other /\ hist' = hist
    BY <1>3 DEF Own, Other
  <2>2. Ids(reload'.todo) = {} /\ Range(<<>>) = {} /\ (reload'.db = main.db \/ reload'.db = <<>>)
    BY <1>2, <1>5 DEF Ids, Range
  <2>3. TasksInOrder(Other, hist.issued) /\ Below(Ids(Other), Ids(Own)) /\ Below(Range(main.db), Ids(Other))
    BY <1>1, <1>2 DEF Order, Below
  <2>4. AppliedInOrder'
    BY <1>1, <1>2, <1>4, <2>2 DEF Order, AppliedInOrder
  <2>5. TasksInOrder(reload.todo, hist.issued)'
    BY <1>5 DEF TasksInOrder
  <2>6. Range(reload'.db) \subseteq Range(main.db)
    BY <2>2
  <2> QED
    BY <1>1, <1>4, <2>1, <2>2, <2>3, <2>4, <2>5, <2>6 DEF Order, Below
<1>12. hist.crashes = 0 => NoneDied'
  <2>1. Other' = Other
    BY <1>3 DEF Other
  <2> QED
    BY <1>1, <1>2, <1>3, <1>4, <1>5, <1>7, <2>1 DEF NoneDied, Reported
<1>13. hist.crashes = 0 /\ ~hist.stop => Quiet'
  <2> SUFFICES ASSUME Quiet PROVE Quiet'
    BY <1>1
  <2>1. \A c \in Child : FreshKid(kids[c])
    BY <1>2 DEF Quiet
  <2>2. ~main.quitSync /\ toOld = <<>>
    BY <1>2 DEF Quiet
  <2>3. \A c \in Child : FreshKid(kids'[c]) /\ (forks => UnbornKid(nkids'[c]))
    BY <2>1, <1>6
  <2>4. reload'.pc \in {"none", "begin"} /\ (reload'.pc = "begin" => forks) /\ ~Leaving'
    BY <1>2, <1>5 DEF Leaving
  <2> QED
    BY <1>2, <1>3, <1>4, <1>5, <2>2, <2>3, <2>4 DEF Quiet
<1>14. "main" \notin Crashing => Handover'
  BY <1>1, <1>2, <1>3, <1>4 DEF Handover
<1>15. NoTaskLost'
  <2>1. Range(<<>>) = {} /\ (reload'.db = main.db \/ reload'.db = <<>>)
    BY <1>2, <1>5 DEF Range
  <2> QED
    BY <1>1, <1>2, <1>3, <1>4, <1>5, <2>1 DEF NoTaskLost
<1>16. NoPacketLost'
  BY <1>1, <1>2, <1>3, <1>4, <1>6, PacketsCarried DEF AllCarried, Carried
<1> QED
  BY <1>3, <1>8, <1>9, <1>10, <1>11, <1>12, <1>13, <1>14, <1>15, <1>16 DEF IInv

(* Telling xfrd that the children are gone keeps the invariant.            *)
LEMMA MainQuitSyncStep == ASSUME IInv, MainQuitSync PROVE IInv'
<1>1. /\ TypeOK /\ Token /\ TaskFilesApart /\ Phases /\ Order /\ NoTaskLost /\ NoPacketLost
      /\ hist.crashes = 0 => NoneDied
      /\ hist.crashes = 0 /\ ~hist.stop => Quiet
      /\ "main" \notin Crashing => Handover
  BY DEF IInv
<1> DEFINE tell == ~main.quitSync /\ main.rfd
<1>2. /\ UNCHANGED <<xfrd, kids, reload, nkids, task, toMain, toReload, toOld, hist>>
      /\ main.up /\ main.mode = "QUIT_SYNC" /\ main.pc = "loop"
      /\ main' = [main EXCEPT !.mode = "RUN", !.quitSync = @ \/ tell]
      /\ toXfrd' = IF tell THEN Append(toXfrd, ReloadCmd) ELSE toXfrd
  BY DEF MainQuitSync
<1>3. /\ main' \in MainFields /\ main'.mode = "RUN" /\ main'.up /\ main'.pc = main.pc /\ main'.hint = main.hint
      /\ main'.reloading = main.reloading /\ main'.rfd = main.rfd /\ main'.xfd = main.xfd
      /\ (main'.quitSync <=> main.quitSync \/ tell) /\ main'.task = main.task /\ main'.db = main.db
  BY <1>1, <1>2 DEF TypeOK, MainFields
<1>4. /\ toXfrd \in Seq(Messages) /\ ReloadCmd \in Messages
      /\ ReloadCmd # ReloadDoneCmd /\ ReloadCmd # QuitCmd /\ ReloadDoneCmd # QuitCmd
  BY <1>1 DEF TypeOK, Messages, ReloadCmd, ReloadDoneCmd, QuitCmd
<1>5. /\ toXfrd' \in Seq(Messages)
      /\ \A m : Has(toXfrd', m) <=> Has(toXfrd, m) \/ (tell /\ m = ReloadCmd)
      /\ \A m : Once(toXfrd, m) /\ ~(tell /\ m = ReloadCmd /\ Has(toXfrd, m)) => Once(toXfrd', m)
      /\ Range(toXfrd) \subseteq Range(toXfrd')
      /\ Before(toXfrd, ReloadCmd, ReloadDoneCmd) /\ (tell => ~Has(toXfrd, ReloadDoneCmd))
            => Before(toXfrd', ReloadCmd, ReloadDoneCmd)
  BY <1>2, <1>4, AppendFacts, AppendHas, AppendBefore
<1> HIDE DEF tell
<1>6. TypeOK' /\ TaskFilesApart' /\ Phases' /\ Order'
  BY <1>1, <1>2, <1>3, <1>5 DEF TypeOK, TaskFilesApart, Phases, Order, ReloadInFlight, AppliedInOrder, Own, Other
<1>7. Token'
  BY <1>1, <1>2, <1>3, <1>4, <1>5 DEF Token, ReloadInFlight
<1>8. hist.crashes = 0 => NoneDied'
  BY <1>1, <1>2, <1>3, <1>4, <1>5 DEF NoneDied, Reported, ReloadInFlight, Other
<1>9. hist.crashes = 0 /\ ~hist.stop => Quiet'
  BY <1>1, <1>2, <1>3, <1>4, <1>5 DEF Quiet, Leaving, tell
<1>10. "main" \notin Crashing => Handover'
  BY <1>1, <1>2, <1>3, <1>4, <1>5 DEF Handover, Token, tell
<1>11. NoTaskLost'
  BY <1>1, <1>2, <1>3 DEF NoTaskLost
<1>12. NoPacketLost'
  BY <1>1, <1>2, <1>3, <1>5, PacketsCarried DEF AllCarried, Carried
<1> QED
  BY <1>2, <1>6, <1>7, <1>8, <1>9, <1>10, <1>11, <1>12 DEF IInv

(* main leaves, in mode QUIT or SHUTDOWN.                                  *)
LEMMA MainLeaves ==
  ASSUME TypeOK, main.up, main' = [main EXCEPT !.up = FALSE], kids' = QuitAll(kids),
         NEW e \in {"RELOAD", "QUIT"}, toReload' = IF main.rfd THEN Append(toReload, e) ELSE toReload
  PROVE  /\ main' \in MainFields /\ main'.mode = main.mode /\ ~main'.up /\ main'.pc = main.pc
         /\ main'.hint = main.hint /\ main'.reloading = main.reloading /\ main'.rfd = main.rfd
         /\ main'.xfd = main.xfd /\ main'.quitSync = main.quitSync /\ main'.task = main.task
         /\ main'.db = main.db
         /\ kids' \in [Child -> Kids]
         /\ toReload' \in Seq({"RELOAD", "QUIT"})
<1>1. /\ main' \in MainFields /\ main'.mode = main.mode /\ ~main'.up /\ main'.pc = main.pc
      /\ main'.hint = main.hint /\ main'.reloading = main.reloading /\ main'.rfd = main.rfd
      /\ main'.xfd = main.xfd /\ main'.quitSync = main.quitSync /\ main'.task = main.task
      /\ main'.db = main.db
  BY DEF TypeOK, MainFields
<1>2. toReload' \in Seq({"RELOAD", "QUIT"})
  BY AppendFacts DEF TypeOK
<1> QED
  BY <1>1, <1>2, QuitAllFields DEF TypeOK

(* The old main leaves in mode QUIT: its children are gone and have passed *)
(* all they had.                                                           *)
LEMMA MainQuitStep == ASSUME IInv, MainQuit PROVE IInv'
<1>1. /\ TypeOK /\ Token /\ TaskFilesApart /\ Phases /\ Order /\ NoTaskLost /\ NoPacketLost
      /\ hist.crashes = 0 => NoneDied
      /\ hist.crashes = 0 /\ ~hist.stop => Quiet
      /\ "main" \notin Crashing => Handover
  BY DEF IInv
<1>2. /\ UNCHANGED <<xfrd, reload, nkids, task, toMain, toXfrd, toOld, hist>>
      /\ main.up /\ main.mode = "QUIT" /\ main' = [main EXCEPT !.up = FALSE] /\ kids' = QuitAll(kids)
      /\ toReload' = IF main.rfd THEN Append(toReload, "RELOAD") ELSE toReload
  BY DEF MainQuit
<1>3. /\ main' \in MainFields /\ main'.mode = main.mode /\ ~main'.up /\ main'.pc = main.pc
      /\ main'.hint = main.hint /\ main'.reloading = main.reloading /\ main'.rfd = main.rfd
      /\ main'.xfd = main.xfd /\ main'.quitSync = main.quitSync /\ main'.task = main.task
      /\ main'.db = main.db
      /\ kids' \in [Child -> Kids]
      /\ toReload' \in Seq({"RELOAD", "QUIT"})
  BY <1>1, <1>2, MainLeaves
<1>4. TypeOK' /\ Token' /\ TaskFilesApart' /\ Phases' /\ Order'
  BY <1>1, <1>2, <1>3 DEF TypeOK, Token, TaskFilesApart, Phases, Order, ReloadInFlight, AppliedInOrder, Own, Other
<1>5. hist.crashes = 0 => NoneDied'
  BY <1>1, <1>2, <1>3 DEF NoneDied, Reported, ReloadInFlight, Other
<1>6. hist.crashes = 0 /\ ~hist.stop => Leaving /\ main.quitSync /\ AllChildrenExited(kids) /\ \A c \in Child : ~kids[c].fd
  <2> SUFFICES ASSUME Quiet PROVE Leaving /\ main.quitSync /\ AllChildrenExited(kids) /\ \A c \in Child : ~kids[c].fd
    BY <1>1
  <2>1. Leaving /\ AllChildrenExited(kids) /\ main.quitSync
    BY <1>2 DEF Quiet
  <2>2. \A c \in Child : OldKid(kids[c])
    BY <2>1 DEF Quiet, AllChildrenExited, FreshKid
  <2> QED
    BY <2>1, <2>2 DEF AllChildrenExited, OldKid
<1>7. hist.crashes = 0 /\ ~hist.stop => Quiet'
  <2> SUFFICES ASSUME Quiet, hist.crashes = 0, ~hist.stop PROVE Quiet'
    BY <1>1
  <2>1. AllChildrenExited(kids')
    BY <1>1, <1>2, <1>6, QuitAllFields DEF TypeOK, AllChildrenExited
  <2>2. \A c \in Child : OldKid(kids'[c])
    <3>1. \A c \in Child : kids'[c].up = kids[c].up /\ kids'[c].fd = kids[c].fd
      BY <1>1, <1>2, QuitAllFields DEF TypeOK
    <3>2. \A c \in Child : kids[c].up => kids[c].fd
      BY DEF Quiet, FreshKid, OldKid
    <3> QED
      BY <1>6, <2>1, <3>1, <3>2 DEF AllChildrenExited, OldKid
  <2>3. ~Has(toReload', "QUIT")
    <3>1. toReload \in Seq({"RELOAD", "QUIT"}) /\ ~Has(toReload, "QUIT")
      BY <1>1 DEF TypeOK, Quiet
    <3> QED
      BY <1>2, <3>1, AppendHas
  <2> QED
    BY <1>2, <1>3, <1>6, <2>1, <2>2, <2>3 DEF Quiet, Leaving
<1>8. "main" \notin Crashing => Handover'
  BY <1>1, <1>2, <1>3 DEF Handover
<1>9. NoTaskLost'
  BY <1>1, <1>2, <1>3 DEF NoTaskLost
<1>10. NoPacketLost'
  BY <1>1, <1>2, <1>6, PacketsCarried DEF AllCarried, Carried
<1> QED
  BY <1>2, <1>4, <1>5, <1>7, <1>8, <1>9, <1>10 DEF IInv

(* main leaves in mode SHUTDOWN, which only a stop or a death brings       *)
(* about.                                                                  *)
LEMMA MainShutdownStep == ASSUME IInv, MainShutdown PROVE IInv'
<1>1. /\ TypeOK /\ Token /\ TaskFilesApart /\ Phases /\ Order /\ NoTaskLost /\ NoPacketLost
      /\ hist.crashes = 0 => NoneDied
      /\ hist.crashes = 0 /\ ~hist.stop => Quiet
      /\ "main" \notin Crashing => Handover
  BY DEF IInv
<1>2. /\ UNCHANGED <<xfrd, reload, nkids, task, toMain, toOld, hist>>
      /\ main.up /\ main.mode = "SHUTDOWN" /\ main' = [main EXCEPT !.up = FALSE] /\ kids' = QuitAll(kids)
      /\ toReload' = IF main.rfd THEN Append(toReload, "QUIT") ELSE toReload
      /\ toXfrd' = IF main.xfd THEN Append(toXfrd, QuitCmd) ELSE toXfrd
  BY DEF MainShutdown
<1>3. /\ main' \in MainFields /\ main'.mode = main.mode /\ ~main'.up /\ main'.pc = main.pc
      /\ main'.hint = main.hint /\ main'.reloading = main.reloading /\ main'.rfd = main.rfd
      /\ main'.xfd = main.xfd /\ main'.quitSync = main.quitSync /\ main'.task = main.task
      /\ main'.db = main.db
      /\ kids' \in [Child -> Kids]
      /\ toReload' \in Seq({"RELOAD", "QUIT"})
  BY <1>1, <1>2, MainLeaves
<1>4. /\ toXfrd \in Seq(Messages) /\ QuitCmd \in Messages
      /\ ReloadCmd # ReloadDoneCmd /\ ReloadCmd # QuitCmd /\ ReloadDoneCmd # QuitCmd
  BY <1>1 DEF TypeOK, Messages, ReloadCmd, ReloadDoneCmd, QuitCmd
<1>5. /\ toXfrd' \in Seq(Messages)
      /\ \A m : m # QuitCmd => (Has(toXfrd', m) <=> Has(toXfrd, m)) /\ (Once(toXfrd, m) => Once(toXfrd', m))
      /\ Before(toXfrd, ReloadCmd, ReloadDoneCmd) => Before(toXfrd', ReloadCmd, ReloadDoneCmd)
  BY <1>2, <1>4, AppendFacts, AppendHas, AppendBefore
<1>6. ~(hist.crashes = 0 /\ ~hist.stop)
  BY <1>1, <1>2 DEF Quiet
<1>7. TypeOK' /\ TaskFilesApart' /\ Phases' /\ Order'
  BY <1>1, <1>2, <1>3, <1>5 DEF TypeOK, TaskFilesApart, Phases, Order, ReloadInFlight, AppliedInOrder, Own, Other
<1>8. Token'
  BY <1>1, <1>2, <1>3, <1>4, <1>5 DEF Token, ReloadInFlight
<1>9. hist.crashes = 0 => NoneDied'
  BY <1>1, <1>2, <1>3, <1>4, <1>5 DEF NoneDied, Reported, ReloadInFlight, Other
<1>10. "main" \notin Crashing => Handover'
  <2>1. reload.pc # "none" => reload.pc # "done" /\ toReload' = <<"QUIT">>
    <3>1. main.up => reload.pc # "done" /\ toReload = <<>>
      BY <1>1 DEF Phases
    <3>2. reload.pc # "none" => main.rfd
      BY <1>1 DEF Token
    <3> QED
      BY <1>2, <3>1, <3>2
  <2> QED
    BY <1>1, <1>2, <1>3, <1>4, <1>5, <2>1 DEF Handover
<1> QED
  BY <1>2, <1>6, <1>7, <1>8, <1>9, <1>10 DEF IInv, NoTaskLost, NoPacketLost

(* The death of main keeps the invariant.                                  *)
LEMMA MainCrashStep == ASSUME IInv, MainCrash PROVE IInv'
<1>1. /\ TypeOK /\ Token /\ TaskFilesApart /\ Phases /\ Order /\ NoTaskLost /\ NoPacketLost
      /\ hist.crashes = 0 => NoneDied
      /\ hist.crashes = 0 /\ ~hist.stop => Quiet
      /\ "main" \notin Crashing => Handover
  BY DEF IInv
<1>2. /\ UNCHANGED <<xfrd, kids, reload, nkids, toReload, toOld, task, toMain, toXfrd>>
      /\ hist' \in HistFields /\ hist'.crashes # 0 /\ hist'.issued = hist.issued
      /\ "main" \in Crashing
  BY <1>1, CrashHist DEF MainCrash, Crash
<1>3. /\ main' \in MainFields /\ main'.pc = main.pc /\ ~main'.up
      /\ main'.mode = main.mode /\ main'.hint = main.hint
      /\ main'.reloading = main.reloading /\ main'.rfd = main.rfd
      /\ main'.db = main.db
  BY <1>1 DEF MainCrash, TypeOK, MainFields
<1>4. TypeOK' /\ Token' /\ TaskFilesApart' /\ Phases' /\ Order'
  BY <1>1, <1>2, <1>3 DEF TypeOK, Token, TaskFilesApart, Phases, Order, ReloadInFlight, AppliedInOrder, Own, Other
<1> QED
  BY <1>2, <1>4 DEF IInv, NoTaskLost, NoPacketLost

=============================================================================
