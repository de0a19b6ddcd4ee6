------------------------------ MODULE SlotPool ------------------------------
(***************************************************************************)
(* What xfrd promises of its bounded pools of sockets: a client either     *)
(* holds a slot, waits in line, or is idle; a free slot never stays free   *)
(* while somebody waits; slots are handed over first come, first served.   *)
(* The pool of NOTIFY sockets (XfrdNotify) implements this specification.  *)
(***************************************************************************)
EXTENDS Integers, Sequences, FiniteSets

CONSTANTS Client,  \* who may ask for a slot
          Slots    \* how many slots there are

VARIABLES holders, \* the clients that hold a slot
          queue    \* the clients in line, first in line first

poolVars == <<holders, queue>>

InLine == {queue[i] : i \in DOMAIN queue}

Full == Cardinality(holders) >= Slots

PoolInit == holders = {} /\ queue = <<>>

\* A client takes a free slot.  Nobody is in line: who is first is served.
Take(c) ==
  /\ c \notin holders \cup InLine
  /\ queue = <<>>
  /\ ~Full
  /\ holders' = holders \cup {c}
  /\ UNCHANGED queue

\* All slots are held: the client goes to the end of the line.
Wait(c) ==
  /\ c \notin holders \cup InLine
  /\ Full
  /\ queue' = Append(queue, c)
  /\ UNCHANGED holders

\* A holder is done; its slot goes to the first in line, if any.
Give(c) ==
  /\ c \in holders
  /\ IF queue = <<>>
       THEN holders' = holders \ {c} /\ UNCHANGED queue
       ELSE /\ holders' = (holders \ {c}) \cup {Head(queue)}
            /\ queue' = Tail(queue)

\* A holder starts anew: others are in line, so it queues behind them.
Requeue(c) ==
  /\ c \in holders
  /\ queue # <<>>
  /\ holders' = (holders \ {c}) \cup {Head(queue)}
  /\ queue' = Append(Tail(queue), c)

\* A client in line is removed; the order of the others stays.
Leave(c) ==
  \E i \in DOMAIN queue :
    /\ queue[i] = c
    /\ queue' = [j \in 1..(Len(queue) - 1) |->
                   IF j < i THEN queue[j] ELSE queue[j + 1]]
    /\ UNCHANGED holders

PoolNext ==
  \E c \in Client : Take(c) \/ Wait(c) \/ Give(c) \/ Requeue(c) \/ Leave(c)

PoolSpec == PoolInit /\ [][PoolNext]_poolVars
=============================================================================
