-------------------------- MODULE XfrdNotifyRepat ---------------------------
(***************************************************************************)
(* The NOTIFY sender when nsd-control repattern or reconfig changes the    *)
(* notify: lists under it (remote.c, repat_patterns).  The command runs in *)
(* one go: it interrupts the rounds of the zones whose list changed, walks *)
(* over the patterns, and restarts what it interrupted.                    *)
(***************************************************************************)
EXTENDS XfrdNotify

LOCAL INSTANCE SequencesExt

CONSTANT ZoneOrder   \* the zones in the order RBTREE_FOR visits them

\* The state of the command: the sender's state, and notify_restart per zone.
Begin == [x |-> xfrd, restart |-> [z \in Zone |-> 0]]

\* The second loop of repat_interrupt_zones: stop the rounds that use a list
\* that changed; notify_restart is 2 if a round was stopped, 1 if there was none.
InterruptZone(c, z, changed) ==
  IF z \notin c.x.zones \/ z \notin changed THEN c
  ELSE IF z \in c.x.enable
         THEN [x |-> NotifyDisable(c.x, z), restart |-> [c.restart EXCEPT ![z] = 2]]
         ELSE [c EXCEPT !.restart[z] = 1]

\* remove_cfgzone, add_pat and add_cfgzone: zones that left the configuration are
\* deleted, the others get their new list, and those that are new have no round.
\* A zone that gets or loses its masters keeps its place here: the NOTIFY sender
\* has the zones with masters and those without.
ChangePatterns(c, len, gone, added) ==
  LET del == FoldLeft(LAMBDA s, z : IF z \in gone \cap s.zones
                                      THEN DelNotifyZone(s, z) ELSE s,
                      c.x, ZoneOrder)
      idle(z) == z \notin del.enable /\ ~IsWaiting(del, z)
  IN  [c EXCEPT !.x = [del EXCEPT
         !.zones = @ \cup added,
         !.acl = len,
         !.tried = [z \in Zone |-> IF idle(z) THEN 1..len[z] ELSE @[z]]]]

\* repat_interrupt_notify_start for one zone.
RestartZone(c, z, serial) ==
  LET s == [c.x EXCEPT !.current[z] = IF @ # 0 THEN First(c.x, z) ELSE @]
  IN  IF z \notin c.x.zones \/ c.restart[z] = 0 THEN c
      ELSE [c EXCEPT !.x = IF c.restart[z] = 2 THEN NotifyStartZone(s, z, serial) ELSE s]

\* repat_patterns, as far as the NOTIFY sender is concerned.
RepatPatterns(len, gone, added, serial) ==
  LET changed == {z \in Zone : len[z] # xfrd.acl[z]} \cup gone
      stopped == FoldLeft(LAMBDA c, z : InterruptZone(c, z, changed), Begin, ZoneOrder)
      altered == ChangePatterns(stopped, len, gone, added)
  IN  xfrd' = FoldLeft(LAMBDA c, z : RestartZone(c, z, serial), altered, ZoneOrder).x

Repattern ==
  \E len \in [Zone -> AclLen], gone \in SUBSET xfrd.zones,
     added \in SUBSET (Zone \ xfrd.zones), serial \in Serial :
    RepatPatterns(len, gone, added, serial)

RepatNext == Next \/ Repattern

RepatSpec == Init /\ [][RepatNext]_xfrd

-----------------------------------------------------------------------------
\* The handler of a zone runs only while there is a secondary to send to:
\* "assert(zone->notify_current)" (xfrd-notify.c:241).
HandlerHasTarget == \A z \in xfrd.enable : xfrd.current[z] # 0
=============================================================================
