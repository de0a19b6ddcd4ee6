# NSD in TLA+

NSD is an authoritative name server. This directory holds TLA+ models of it, the
configurations that check them with TLC, and proofs that TLAPS checks.
`PROJECT.json` is the index: which definition models which lines, what each run
checks, the hazards of the code, what is proved.

## The system

A running nsd is a handful of processes:

- **xfrd** (`xfrd.c`, `xfrd-tcp.c`, `xfrd-notify.c`, `xfrd-disk.c`, `remote.c`)
  lives as long as nsd does. It is single threaded, around an event loop. It
  keeps secondary zones up to date (asks masters over UDP and TCP, stores
  transfers in files), sends NOTIFY to secondaries, and executes `nsd-control`
  commands. What has to change in the served data becomes a *task*, in a task
  file (`difffile.c` over `udb.c`).
- **main** (`server.c`, `ipc.c`, `netio.c`) watches the query processes and
  forks a **reload** when xfrd asks for one. The reload process reads the task
  file, changes the database, forks new query processes, makes the old main
  leave and takes its place.
- the **query processes** (children; `server.c`, `query.c`, `answer.c`,
  `nsec3.c`, `axfr.c`) answer queries from memory and pass NOTIFYs on to xfrd
  through main.

Below them are the stores: `udb.c` (the database file: an allocator with
relative pointers), `udbradtree.c`, `udbzone.c`, `namedb.c` (names in memory),
`radtree.c`, `rbtree.c`.

## Modules

| module | code | what it is |
| --- | --- | --- |
| `XfrdNotify` | `xfrd-notify.c`, `do_notify` | the NOTIFY sender |
| `SlotPool` | – | abstract: what a bounded pool of sockets promises |
| `XfrdNotifyRepat` | `remote.c` `repat_*` | the NOTIFY sender while its lists change |
| `XfrdNotifyProofs`, `XfrdNotifyPoolProofs` | – | theorems about `XfrdNotify` |
| `NsdReload` | `server.c`, `ipc.c`, `netio.c`, ipc of `xfrd.c` | the reload protocol |
| `NsdReloadInv` | – | its inductive invariant |
| `NsdReloadLemmas` | – | lemmas: what the operators of `NsdReload` do |
| `NsdReloadXfrdSteps`, `NsdReloadMainSteps`, `NsdReloadSteps` | – | lemmas: each step of xfrd, of main, of reload and the children keeps the invariant |
| `NsdReloadProofs` | – | the theorems about `NsdReload` |
| `XfrdTransfer` | `xfrd.c`, `xfrd-tcp.c`, parts of `remote.c` | requests for transfers: masters, sockets, connections, timers |
| `XfrdLease` | `xfrd.c`, `xfrd-disk.c` | the lease of a zone: SOAs, refresh, retry, expiry, the state file |
| `XfrStream` | `xfrd.c`, `difffile.c` | a transfer packet by packet, from the master to the served zone |
| `AxfrOut`, `Tsig` | `axfr.c`, `query.c`, `tsig.c` | the sending side of a transfer, signatures |
| `NameDb` | `namedb.c`, `dbaccess.c` | the names and RRsets in memory |
| `Nsec3` | `nsec3.c`, `difffile.c` | the NSEC3 chain kept with them |
| `ZoneData` | `difffile.c`, `dbaccess.c`, `dbcreate.c` | transfers, zone files, expiry, restarts over memory and database file |
| `Query` | `query.c`, `answer.c`, `nsec3.c` | answers to queries |
| `ServerTcp`, `ServerTcpProofs` | `server.c` `handle_tcp_*`, `server_child` | the connections of a query process, and theorems about them |
| `ServerUdp` | `server.c` `handle_udp` | its batches of datagrams |
| `UdbAlloc` | `udb.c` | the space in the database file |
| `UdbZone` | `udbzone.c` | a zone in the database file |
| `RadNode`, `RadTree`, `UdbRadTree` | `radtree.c`, `udbradtree.c` | the radix trees in memory and in the file |
| `NameOrder`, `NameStore` | – | canonical order; abstract: a set of names |
| `RbTree` | `rbtree.c` | the red-black tree |
| `MC*` | – | instances for TLC |

`XfrdNotify`, `XfrdNotifyRepat`, `XfrdTransfer` and `XfrdLease` share a form. xfrd
has one thread, so a handler is one atomic step. The state is one record with a
field per member of the C structs; flags of zones are sets of zones, linked
lists are sequences. A C function is an operator from a state to a state, so
that calls compose as they do in the code (`TcpRelease` may end in
`TcpPipeRelease`, which may take another zone out of the line and open its
connection). An action is a handler: a timer, a readable socket, a command. A C
loop over a waiting list is a fold over the part of the list that is visited, or
says at once what becomes of that part.

### XfrdNotify, SlotPool, XfrdNotifyRepat

Every zone has a `notify_zone` with a list of secondaries. A *round* sends a
NOTIFY to each in turn; `HandleNotifyAck` and `HandleNotifyTimeout` are the two
ways `xfrd_handle_notify_send` is called. At most `XFRD_MAX_UDP_NOTIFY` zones
have a round going on; `NotifyEnable` puts the others in line and
`NotifyDisable` hands a slot on. A secondary is its place in the list; of a
reply only matters whether it is the expected one. `notify_retry` is a `uint8_t`,
and wraps at `RetryMod`. `tried` is a history field: the secondaries that the
current round has tried.

`SlotPool` has holders and a queue and nothing else. `Pool` in `XfrdNotify` maps
the zones with a round to the holders and the waiting list to the queue.

`XfrdNotifyRepat` adds `repat_patterns`, one atomic command that changes the
lists: it interrupts rounds, deletes and adds zones, sets the new lists, and
restarts what it interrupted, in the order of the zones in the tree
(`ZoneOrder`). The masters that it changes are part of `XfrdTransfer`.

### NsdReload

Here the processes interleave. Each has a record of its own (`xfrd`, `main`,
`kids`, `reload`, `nkids`), and the socketpairs are sequences of commands. A
process that dies leaves what it wrote to be read, then end of file. A step of
main is one pass over its mode switch: collecting dead children, one
`netio_dispatch` (which calls the handlers of every socket that is ready, in
the order of their list), or one of the modes. `reload` has a step for each
thing it does that others can see. The two task files are sequences of
numbered tasks; a database is the sequence of tasks applied to it; `hist`
counts and remembers for the properties and the bounds.

Left out: signals that an operator sends to server processes, statistics (they
take the same path as RELOAD), `PASS` packets in parts (one message here), the
sockets that new children inherit (they delay an end of file).

### XfrdTransfer

For each zone: its place in the list of masters (`master`, `next`, `round`),
its timer, whether it has a UDP socket (`fd`), a connection (`conn`, `qid`), or
a place in one of the two lines. For each TCP connection: the IDs in use, the
IDs to skip, the list of zones that want to write, and whose query is in the
write buffer (`packet`). `RunActivated` is one round of the loop of
`xfrd_process_activated`; other events wait until the list is empty. The ID that
a zone gets on a connection is any unused one (the code takes them at random),
and among connections with as many unused IDs any is taken.

The result of reading a packet is a choice from `Result`. Whether a socket can be
opened is a choice too: `fails` is the set of zones for which the operating
system refuses. Whether IXFR is disabled for a master is a choice as well
(`noIxfr`, `fresh`), because it depends on the clock, on `bad_xfr_count` and on
every zone that shares the master. `ChangeMasters` is what repattern and reconfig
do to a zone with a new list of masters (`repat_interrupt_zones`).

An assert of the code that fails is recorded in `failed`, by its line, and so is a
read through a master that is NULL. Three of them can be reached, after which the
model stops (see the observations): two when the masters of a zone change while
it waits in a line (`cutoff`), one when a zone is deleted that is on a connection
and has a timeout pending (`stray`, `StrayTimeout`). `AssertsHold` says that there
are no others, and that these have no other cause.

### XfrdLease

One zone with one master, over time: the SOAs that xfrd keeps (`disk`, `nsd`,
`notif`) with the times they were acquired, the refresh, retry, backoff and
expiry timers, the tasks and the reloads they cause, the SOA that a reload
reports back, and the state file. A second passes only when the event loop has
nothing left to do in it. Serials are compared in a circular space.

### XfrStream, AxfrOut, Tsig

The master sends AXFR as NSD itself does (`AxfrOut`), or IXFR in one or several
differences; the stream is cut into packets, signed every so many packets, and
may be cut short or damaged. xfrd checks each packet, appends it to a file and
commits it; a reload reads the file and applies it RR by RR. The running hash
of TSIG is the sequence of what went into it, so two MACs are equal when the
same was signed.

### NameDb, Nsec3, ZoneData, Query

One table of names for all zones with their RRsets, existence, wildcard
pointers and usage counts; the NSEC3 trees and the pointers from each name to
the NSEC3 that covers it; and the tasks that change all this RR by RR, in memory
and in the database file, with a process that may die between two RRs.

A reload process does several tasks before its memory becomes the one that is
served. While it runs, `main` keeps the memory of the process that serves; if it
dies, between two RRs or between two tasks, that memory is back, while the
database file keeps what was written. `hist` notes which zones are then apart from
the file, and those whose file the code cannot vouch for (`torn`): a zone file
that could not be written for lack of room (`WriteFails`), and differences that
are applied to a zone apart. `conf` is the set of configured zones; a zone may be
configured and not loaded (`ZoneNotCreated`). `Query` takes each state these reach
and compares every answer with what the RRs of the zones call for.

### ServerTcp, ServerUdp

`ServerTcp` is the table of connections of one query process: for each, whether it
reads or writes, how far its message is, and how many queries it had; then
`current_tcp_count`, which sockets are listened on, and the pause after a failed
`accept`. Every `read`, `write` and `writev` may move some of the bytes, none of them, or
fail; a handler goes on in the same step as the code does, until a call would
block. An operator therefore returns the set of states that the handler may
leave its connection in. The contents of messages are left out, an AXFR is a
reply of any number of packets.

`ServerUdp` is the `recvmmsg` variant of `handle_udp`: the three arrays that point
into each other, the swap of a dropped datagram with the last one, and the loop of
`sendmmsg`, batch after batch.

### The stores

`UdbAlloc` is the buddy allocator with the pointers that follow a chunk when it
moves. `UdbRadTree` is shown to implement `NameStore`, `RadTree` is compared with
the names and nodes its callers hold, `UdbZone` with the RRs its users put in;
allocations in the file fail at any point. `RbTree` has the shared sentinel.
`MCStructures` uses one of them at a time.

## Runs

Every run stays under three minutes on two cores.

| run | what it asks | bounds |
| --- | --- | --- |
| `notify` | slot counter, waiting list, rounds, refinement of `SlotPool`, service of who waits | 3 zones, 1 slot, 0 or 2 secondaries, 2 tries |
| `notify_repat_target` | *violation*, see findings | the same, any change of lists |
| `reload` | task files, order of tasks, packets, service | 2 children, 2 tasks, 1 packet, 1 retransmission, 2 deaths of any process, failing forks, a stop |
| `reload_live` | tasks are applied, passes end, a stop ends, the hand-over is quiet | 1 child, 2 tasks, 1 death of a child or reload |
| `reload_old_database` | *violation*, see findings | 1 task, 1 death |
| `transfer` | asserts, slots, pipelines, one place per zone | 2 zones, 1 UDP socket, 1 connection with 2 IDs, 1 command or change of masters |
| `transfer_newlease` | *violation*, see findings | the same |
| `lease` | a zone is woken in time, expires in the server too, xfrd knows what is served | 4 serials, expire 2, 8 seconds, 2 faults of 5 kinds |
| `stream` | what is served is a version, an honest master is accepted, no file is lost | 3 versions, over a wrap or from serial 0, 2 faults of 6 kinds, 2 requests |
| `zone_data` | names, NSEC3 chain and database file agree, a transfer ends with its goal, restarts are whole | 2 zones, 4 versions of one, 3 tasks, 2 deaths or failed writes |
| `query` | answers and denials are right | 5 versions, 2 tasks, 5 types, every name and names near them |
| `structures` | the trees and the allocator against their references; connections and batches of a query process | 8 keys, 9 names, 16 units of file, failing allocations; 3 clients for 2 connections, batches of 3 |

Why the bounds are enough to see what matters:

- `notify`: one slot and three zones make a line of two, so that the order of
  the line, a removal in its middle and a hand-over past a zone are all there.
  Two secondaries and two tries make a round of several steps; a list of length
  zero is the early return. `RetryMod` is 4, above the tries.
- `reload`: two children can be at different points of leaving; with two tasks a
  pass can be asked for while one is under way; with two deaths a reload can die
  after an earlier death. Children are symmetric.
- `transfer`: two zones compete for both kinds of slot. Zone `z1` has two
  masters and `multi_master_check`, `z2` one; the shared master is asked over UDP
  first, the second one over TCP only. Two IDs on the connection let the zones
  share it, be skipped on it and be refused by it. `MaxOps` and `Commanded`
  bound what comes from outside to one notify, command, changed zone or list, for
  `z2`; timeouts, replies and reloads are not bounded. A line of two zones is
  beyond this instance.
- `lease`: the zone can be refreshed, retried and expire, and come back, within
  the eight seconds; two faults are enough for a failed reload after a notify,
  or a restart after a stop.
- `stream`: three versions are the least for an IXFR of two differences. There are
  two starts: a zone that is served, whose serials 7, 0, 1 wrap between the
  versions, and one that is not, with serials 0, 1, 2. A packet holds two RRs, so
  that every transfer has several.
- `zone_data`, `query`: three tasks and two deaths let a reload die in its second
  task, and another one start from what it left. The versions have a delegation
  with the child zone below it, a wildcard, an empty nonterminal, a CNAME, a
  DNAME, and NSEC3 chains of two parameters, singly and both at once.
- `structures`: names share prefixes, differ in case, and are prefixes of each
  other; eight keys give a red-black tree every case of the fix-ups; the file
  has room for a few chunks of three sizes. Three clients compete for two
  connections on two interfaces, with lengths below, at and above the limits; a
  batch of three has a first, a middle and a last datagram to drop.

Deadlock is checked in `notify` and `structures`, where something can always
happen. The other runs end when nsd stops or a bound is reached.

What the instances take for granted: one RRSIG at an apex, NSEC3PARAM only at
the apex, a child zone that all versions of its parent delegate, an IXFR that
does not replace a whole NSEC3 chain, no children below labels that sort before
`*`, and no zone file written to a database file that is dirty (`Careful`).
Outside them the code behaves differently; see the observations below.

### Properties

`SlotsCounted` (of `XfrdNotify` and `XfrdTransfer`) and `WaitingListSound` say that the
counters are the number of slots in use and that nobody waits for a slot that
is free: a slot that leaks, or a zone left in line, blocks later requests for
good. `OnePlace` relates the places a zone can be in, and the maps of a pipeline
to the zones on it. `RoundComplete` says that a round that ended has tried every
secondary. `PoolBehaviour` is the refinement of `SlotPool`: first come, first
served. `TaskFilesApart`, `AppliedInOrder`, `NoTaskLost` are about the two task
files that two processes share; `QuietHandover` and `NoPacketLost` about the
moment main is replaced, `ServiceContinues` about the children that answer
meanwhile, `ServedAsReported` about what xfrd believes is served (proved, and in
no run). The first two of these hold whatever process dies; `NoTaskLost`, `NoPacketLost`,
`ServiceContinues` and `ServedAsReported` are for executions in which none died,
as they say, and `QuietHandover` for those in which main does not die by itself.

`WokenInTime`, `AnswersWithinLease`, `ServerFollowsExpiry` and `SoasAsServed` are
the promises of a secondary over time. `ServedIsAVersion`, `HonestAccepted` and
`FilesAccounted` follow a transfer to the served zone. `NamesSound`,
`Nsec3AsComputed`, `FileAsMemory` compare the incremental tables with what they
would be if computed from the RRs; `EndsWithGoal` and `RestartWhole` say what a
transfer and a restart leave behind. Where the code does not keep such a promise
the property names the case: `ServedIsAVersion` leaves out differences from serial
0, `HonestAccepted` several differences over a wrap of the serial, `FilesAccounted` a
reload that died, `FileAsMemory` and `RestartWhole` the zones that are `torn`, and
`Nsec3AsComputed` a zone that lost its chain. `AnswersRight` and `DenialsProved` compare
answers with a definition from the RRs of the zone.

`AcceptsWhenRoom` says that a query process listens exactly when it has room for
a connection and is not pausing, and that a pause has a timer that ends it.
`UdpBatchSound` says that the arrays of a batch stay a permutation of each other,
and that what is sent is what was answered, once each.

### Fairness

- `XfrdNotify`: weak fairness of the timeout of every zone. The event loop of
  xfrd runs handlers whose time has come, and a round always has a timer.
  Replies and commands get no fairness. `WaitingServed` follows because a round
  is a bounded number of timeouts.
- `NsdReload`: weak fairness of the steps of main, reload and xfrd's socket, of
  the reload timer, and of a child that reads its QUIT. These are loops that
  run as long as the process lives; nothing is assumed of tasks, packets,
  retransmissions, deaths or failing forks.

## Proofs

### The NOTIFY sender

`XfrdNotifyProofs` and `XfrdNotifyPoolProofs` prove, for every finite set of
zones and every number of slots, retries and secondaries:

- `SlotsAreCounted`, `WaitingListIsSound`, `ActiveZonesHaveTarget`, `TypeCorrect`:
  the invariants `SlotsCounted`, `WaitingListSound`, `ActiveHasTarget`, `TypeOK`;
- `PoolIsImplemented`: `XfrdNotify` refines `SlotPool` (`PoolBehaviour`);
- `RoundsAreComplete`: `RoundComplete`, when `notify-retry` is above 0.

None of the first four is inductive alone. The count of slots is kept by a
hand-over only if the zone taken from the line is not already sending; that the
zone has somebody to send to needs that zones in line do; that the line is
emptied only when it may be needs the count. `Sound(s)` is their conjunction
over a state `s`, with the additional fact that a zone in line has a list that
is not empty. As the handlers are compositions of operators, each operator has a
lemma of the form "`Sound` before, `Sound` after", and the lemma of an action
chains them. In the middle of `NotifyNext` the invariant is broken for one zone:
its `notify_current` is past the end, and the round is about to be disabled.
`SoundBut(s, z)` is `Sound` but for the round of `z`, and `DisableSound` starts
from it. `NextInv` has a step per action; `Soundness` concludes `Spec => []Inv`.

For the refinement, the effect of each operator on the pair of holders and line
is stated as a relation (`Gave`: a slot left a zone and went to the head of the
line, if there is one; `Kept`: nothing changed), and `PoolStep` shows that each
action does one step of `SlotPool` or none. `RoundComplete` needs the invariant
`RoundOf`: the secondaries before the current one were tried, and so was the
current one once a packet was sent or a try was counted. With `notify-retry: 0`
the first try is over the limit before it is sent, and the first secondary of
every list is passed over (`xfrd-notify.c:260`); that is why the theorem
excludes it.

The assumptions are those of `XfrdNotify`: a finite set of zones, at least one
slot, a retry limit below the modulus, lengths of lists that are natural
numbers, 0 among the serials.

### The reload protocol

`NsdReloadProofs` proves, for every finite set of children and any number of
tasks, packets, retransmissions and deaths, with forks that fail:

- whatever process dies: `FilesStayApart` (`TaskFilesApart`),
  `TasksAppliedInOrder` (`AppliedInOrder`), `ReloadsOneByOne` (main is never
  asked for a reload while one is under way), `DatabaseNeverGoesBack` (an action
  property: the database of the serving process only grows), `TypesCorrect`;
- as long as no process dies, and nobody asks nsd to stop: `TasksKept`
  (`NoTaskLost`), `PacketsKept` (`NoPacketLost`), `ServiceGoesOn`
  (`ServiceContinues`); as long as none dies, `ReportsTrue` (`ServedAsReported`);
- when main does not die by itself, `HandoverIsQuiet` (`QuietHandover`).

The conditions are in the properties themselves, but for the last, where it is
an assumption on the constant `Crashing`.

The inductive invariant `IInv` (in `NsdReloadInv`) has these parts:

- `Token`: the right to ask for a reload is in one place, with xfrd (`can`), in a
  RELOAD on its way to main or noted by it, with the reload under way, or in a
  RELOAD_DONE on its way back. The two task files are apart because of it.
- `Phases`: what a phase of reload says about main. Main writes to reload only
  as the last thing it does, reload is done only when main is gone, and the
  database of reload holds all that main's does.
- `Order`: task numbers grow along the database, the list in the hands of reload,
  the file xfrd handed over and the file xfrd writes.
- `NoneDied`, `Reported`: while no process died, a main that waits for a reload
  has one, and what xfrd believes plus the results it has yet to read is what
  the next main serves.
- `Quiet`: while none died and no stop was asked for, the old children are told
  to leave only when the new ones run, every child is either serving or on a
  list to be told, and the request to leave exists once, be it in a
  message, a flag or a mode.
- `Handover`: if main does not die by itself, a QUIT to a main that waits for its
  reload is the last thing that xfrd writes, since xfrd blocks until RELOAD_DONE.

`NsdReloadLemmas` has the facts about queues and what the operators of main and
xfrd do, field by field; `NsdReloadXfrdSteps`, `NsdReloadMainSteps` and
`NsdReloadSteps` have a lemma per action, and below it a step per part of `IInv`.
`IInv` was checked with TLC on the instances of the runs before it was proved.

### Connections of a query process

`ServerTcpProofs` proves, for any finite set of clients, any interfaces, limits and
lengths:

- `TableIsRight` (`AcceptsWhenRoom`);
- `MessagesStayInBounds` (`MessagesInBounds`): while a query is read part of it is
  left to be read, which is the assert at `server.c:2538`; a packet is never
  written past its end; no connection is answered more than `tcp-query-count`
  queries.

The invariant `TcpInv` joins the two with the types. An operator of `ServerTcp`
returns a set of states, so its lemma says that all of them are in bounds or
are `Aborted` (see the observations). `Counting` says what one connection more or
less does to the number of open ones.

### What is only model-checked

- Liveness: `WaitingServed`, `TasksApplied`, `ReloadPassEnds`,
  `ShutdownCompletes`. TLAPS has no fairness.
- `UdpBatchSound`: `ServerUdp` is recursive over the datagrams of a batch, and
  TLAPS has no SMT solver in a module with a `RECURSIVE` operator.
- `XfrdLease`, `XfrStream`, `ZoneData`, `Query`, the trees and the allocator are
  recursive over task lists, packets, names and nodes; the same holds.
- `XfrdTransfer`: its invariants hold up to the exceptions of `AssertsHold`, which
  come from three of its actions; they are checked for two zones.
- `XfrdNotifyRepat`, which exists for a finding.

## Findings

Each is a run whose property is violated; `PROJECT.json` quotes the line.

- `notify_repat_target`: when repattern stops a round, its slot goes to the first
  zone in line, which still has its old list. If the new list of that zone is
  empty, it is then left active with nobody to send to, and the assert of
  `xfrd_handle_notify_send` fails.
- `reload_old_database`: when reload dies after QUIT_SYNC, main continues, but its
  children have been told to leave and are not started again.
- `transfer_newlease`: a reply over UDP that the serial is current arms the refresh
  timer and then deletes it with the socket; the zone is not asked about again
  until something from outside touches it.

### Observations outside the runs

Met while modelling, and seen in counterexamples or in the code, but outside
what the passing runs assume. They are not claims of `PROJECT.json`.

Reload and NOTIFY:
- When `fork` or `socketpair` fails for a reload, xfrd is never told that the pass
  is over (`server.c:1751`).
- With `notify-retry: 0` the first secondary of a list gets no NOTIFY; with 255 the
  `uint8_t` never exceeds the limit, and only an answer ends the round.
- The files of the remaining tasks stay behind when a reload process dies.

Transfers and leases:
- When the first zone of a pipeline's send list leaves before its query is
  written, the query in the buffer is not replaced (`xfrd-tcp.c:941`).
- The time a version was acquired does not survive a restart
  (`xfrd-disk.c:309-329`), so an expired zone is served again until it expires once
  more.
- A reload that dies loses an expire notification; a zone file with the same
  serial revives an expired zone in the server only; `min-retry-time` can push
  a retry past the expiry (`xfrd.c:746`).
- After an IXFR that failed softly, or a forced transfer, a zone without a
  version on disk does not expire while its master is silent.
- An IXFR of several differences over a wrap of the serial is refused
  (`xfrd.c:1682`); an RR that is larger than `AXFR_MAX_MESSAGE_LEN` never fits.
- An IXFR from serial 0 is applied to whatever version is served
  (`difffile.c:1247`). A difference that could not be applied is forgotten when a
  later file of the same reload is clean.
- A reply with the current serial marks that serial as served when it is the one
  last known of the server, also if the server has no data now (`xfrd.c:1893`).
- repattern resets the master of a zone that waits for a socket, and the zone is
  then asked about through a master that is NULL (`xfrd.c:1523`,
  `xfrd-tcp.c:957`).
- A zone that is deleted while it is on a connection keeps its timeout, whose
  handler then runs on freed memory (`xfrd.c:672`, `xfrd.c:790`).

Query processes:
- `handle_tcp_writing` takes a whole length field off what `writev` sent even when
  a byte of it had been sent before (`server.c:2712`): the byte of the packet
  that is left is sent twice, or the assert on the position fails (`Aborted`).
- The `recvmmsg` variant of `handle_udp` never resets `msg_namelen`
  (`RepliesToSender` is not an invariant); the other variant does.
- With `reuseport` the loop over TCP sockets in `server_child` starts at the first
  socket of this child and ends at the number of interfaces, so later children
  have no TCP accept handlers; `Interface` may be empty for that reason.

Zone data and answers:
- An IXFR that replaces all NSEC3s of a chain leaves the zone without one
  (`difffile.c:457`); two RRSIGs at an apex trip the assert at `difffile.c:959`.
- The dirty flag of the database file is cleared too early when a zone file is
  written to a file that is dirty already, and when `write_zone_to_udb` fails
  (`dbcreate.c:161`, `dbaccess.c:630`).
- A reload that dies in a later task leaves its finished transfers in the database
  file, which is clean, while the old version is served. Differences that are
  applied after that go to the old version in memory and to the new one in the file.
- A chain that lost the NSEC3 of its apex leaves stale pointers at the names; they
  are not looked at until there is a chain again, which recomputes them.
- A DS query at the apex of a loaded zone whose parent is configured but not
  loaded reaches the assert at `query.c:710`; a wildcard answer without data for
  DS in an NSEC3 zone lacks the closest encloser; an NSEC denial for a DNAME
  target that is not in the table and the NSEC for a wildcard next to labels
  before `*` are not the right ones.
- `delete_RR` fixes NSEC3PARAM pointers as if the owner were the apex
  (`difffile.c:716`); a duplicate RR leaks the usage of its names.

Stores:
- `grow_ram_hash` (`udb.c:401`) takes every element out of the old table and puts
  none into the new one. NSD never has as many `udb_ptr`s as there are buckets
  (`RamAssumption`).
- `chunk_fix_ptr_each` (`udb.c:1359`) tells a pointer to its own chunk from others
  only at the head of its list.
- When `udb_radix_insert` cannot allocate the array of a node, it frees the node
  while its element still has it in its list of pointers (`udbradtree.c:651`);
  `udb_zone_create` then frees that element and reaches the assert at
  `udb.c:1767`.
- After a clean-up that failed, `udb_radnode_find_prev_from_idx` can go on from a
  null pointer (`udbradtree.c:1187`); NSD has no caller that gets there.
- A growth of the file that fails leaves the allocation marked dirty.

## Not modelled

`PROJECT.json` has a row for each part. Wire and text formats, the configuration
grammar, the zone compiler and the command line tools are sequential
conversions whose state is a string. The control channel, rate limiting, the
region allocator, the `recvfrom` variant of `handle_udp` and the replacement for
libevent are left out; the models take the contract of the
event loop (one handler at a time, timers in order of time) from how xfrd uses
it. Of `repat_*` the effect on lists of secondaries and masters is modelled, the
comparison of patterns is not. XL chunks of `udb.c` are not modelled, as no caller
asks for one; a task file that runs out of space is not, and neither is the stale
mapping of the database file in a main whose reload died.

Within the modelled parts: packets are not encoded or truncated, there is no
class ANY, names are sequences of small numbers, the SOA timers of a zone are
constant with refresh at most expire, and the clock does not jump.
