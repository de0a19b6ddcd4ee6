----------------------------- MODULE ServerTcp ------------------------------
(***************************************************************************)
(* The TCP side of a query process (server_child and the handlers of       *)
(* server.c): which connections are open and how far their message is, how *)
(* many there are, and when new ones are accepted.                         *)
(*                                                                         *)
(* tcp.conn   the connections: what their handler waits for, bytes is      *)
(*            bytes_transmitted, len is tcplen, pos the position in the    *)
(*            packet, state is query_state, count is query_count           *)
(* tcp.count  current_tcp_count                                            *)
(* tcp.added  the accept handlers with event_added                         *)
(* tcp.slow   slowaccept                  tcp.timer  slowaccept_event      *)
(* tcp.up     the process runs                                             *)
(***************************************************************************)
EXTENDS Integers, FiniteSets

CONSTANTS Client,      \* the connections there may be
          Interface,   \* the sockets that server_child adds accept handlers for
          MaxTcpCount, \* maximum_tcp_count, tcp-count of the configuration
          QueryLimit,  \* tcp_query_count, where 0 is no limit
          MinLength,   \* QHEADERSZ + 1 + 2 + 2, the smallest query
          MaxLength,   \* maxlen of a query over TCP
          Length,      \* lengths a client may announce
          Reply        \* lengths of the packets that are sent

ASSUME TcpAssumption ==
  /\ MaxTcpCount \in Nat \ {0} /\ QueryLimit \in Nat
  /\ MinLength \in Nat \ {0} /\ MaxLength \in Nat
  /\ Length \subseteq Nat /\ Reply \subseteq Nat \ {0}
  /\ IsFiniteSet(Client)

VARIABLE tcp

LengthSize == 2        \* sizeof(uint16_t)

Closed == [at |-> "closed", bytes |-> 0, len |-> 0, pos |-> 0, state |-> "processed", count |-> 0]
Opened == [Closed EXCEPT !.at = "reading"]
Aborted == [Closed EXCEPT !.at = "aborted"]     \* an assert failed

-----------------------------------------------------------------------------
(* Writing.  Every operator has the states the handler may leave its       *)
(* connection in, for every result that read, write and writev may have:   *)
(* some bytes, EAGAIN, or an error or end of file, which closes it.        *)

\* The read handler is installed for the next query.
NextQuery(d) == [d EXCEPT !.at = "reading", !.bytes = 0, !.state = "processed"]

\* A packet to be sent from its first byte.
Packet(d, len, state) ==
  [d EXCEPT !.at = "writing", !.bytes = 0, !.pos = 0, !.len = len, !.state = state]

\* The packet is sent: the next one of the AXFR, or the next query.
PacketDone(d) ==
  {NextQuery(d)} \cup (IF d.state = "axfr" THEN {Packet(d, l, "axfr") : l \in Reply} ELSE {})

\* From packet_could_be_done on: n bytes were sent, of which the handler takes
\* skip to be of the packet.
Sent(d, n, skip) ==
  LET e == [d EXCEPT !.bytes = @ + n, !.pos = @ + skip]
  IN  IF e.pos \notin 0..d.len THEN {Aborted}
      ELSE IF e.bytes < d.len + LengthSize THEN {e}
      ELSE IF e.bytes # d.len + LengthSize THEN {Aborted}
      ELSE PacketDone(e)

\* handle_tcp_writing.  While the length is not out, writev sends it with the
\* packet, and the handler takes both bytes of it to be part of what was sent.
handle_tcp_writing(d) ==
  {d, Closed}
  \cup IF d.bytes < LengthSize
         THEN UNION {IF d.bytes + n < LengthSize THEN {[d EXCEPT !.bytes = @ + n]}
                     ELSE Sent(d, n, n - LengthSize)
                       : n \in 1..(LengthSize - d.bytes + d.len)}
         ELSE UNION {Sent(d, n, n) : n \in 1..(d.len - d.pos)}

-----------------------------------------------------------------------------
(* Reading.                                                                *)

\* The query is complete: it is discarded with its connection, or answered,
\* and the answer is written as far as the socket takes it.
Answer(d) ==
  LET e == [d EXCEPT !.count = @ + 1]
  IN  {Closed} \cup UNION {handle_tcp_writing(Packet(e, l, x)) : l \in Reply, x \in {"processed", "axfr"}}

\* The rest of the query.
ReadBody(d) ==
  LET rest == d.len + LengthSize - d.bytes
  IN  {d, Closed}
      \cup {[d EXCEPT !.bytes = @ + n, !.pos = @ + n] : n \in 1..(rest - 1)}
      \cup Answer([d EXCEPT !.bytes = @ + rest, !.pos = @ + rest])

\* The length of the query is in: too small or too large, or the body is read.
GotLength(d, len) ==
  IF len < MinLength \/ len > MaxLength THEN {Closed}
  ELSE ReadBody([d EXCEPT !.bytes = LengthSize, !.len = len])

ReadLength(d) ==
  {d, Closed}
  \cup {[d EXCEPT !.bytes = @ + n] : n \in 1..(LengthSize - d.bytes - 1)}
  \cup UNION {GotLength(d, len) : len \in Length}

\* handle_tcp_reading
handle_tcp_reading(d) ==
  IF QueryLimit > 0 /\ d.count >= QueryLimit THEN {Closed}
  ELSE IF d.bytes = 0 THEN ReadLength([d EXCEPT !.len = 0, !.pos = 0])
  ELSE IF d.bytes < LengthSize THEN ReadLength(d)
  ELSE ReadBody(d)

-----------------------------------------------------------------------------
(* Accepting.                                                              *)

\* configure_handler_event_types
configure_handler_event_types(t, on) == [t EXCEPT !.added = IF on THEN Interface ELSE {}]

\* Mutant of cleanup_tcp_handler: the connection is taken off the count before
\* the count is compared with the maximum.
CleanupCountsFirst(t) ==
  LET u == [t EXCEPT !.count = @ - 1]
  IN  IF u.slow \/ u.count = MaxTcpCount
        THEN [configure_handler_event_types(u, TRUE) EXCEPT !.slow = FALSE,
                !.timer = IF u.slow THEN FALSE ELSE @]
        ELSE u

\* cleanup_tcp_handler: there is room again, or a file descriptor.
cleanup_tcp_handler(t) ==
  LET u == IF t.slow \/ t.count = MaxTcpCount
             THEN [configure_handler_event_types(t, TRUE) EXCEPT !.slow = FALSE,
                     !.timer = IF t.slow THEN FALSE ELSE @]
             ELSE t
  IN  [u EXCEPT !.count = @ - 1]

\* server_child, up to its loop.
Started ==
  [conn |-> [c \in Client |-> Closed], count |-> 0, added |-> Interface,
   slow |-> FALSE, timer |-> FALSE, up |-> TRUE]
Ended == [Started EXCEPT !.added = {}, !.up = FALSE]

\* The handler of a connection leaves it as d.
Leave(c, d) ==
  tcp' = IF d = Aborted THEN Ended
         ELSE [(IF d = Closed THEN cleanup_tcp_handler(tcp) ELSE tcp) EXCEPT !.conn[c] = d]

TcpReading(c) ==
  /\ tcp.up /\ tcp.conn[c].at = "reading"
  /\ \E d \in handle_tcp_reading(tcp.conn[c]) : Leave(c, d)

TcpWriting(c) ==
  /\ tcp.up /\ tcp.conn[c].at = "writing"
  /\ \E d \in handle_tcp_writing(tcp.conn[c]) : Leave(c, d)

\* EV_TIMEOUT of either handler.
TcpTimeout(c) ==
  /\ tcp.up /\ tcp.conn[c].at # "closed"
  /\ Leave(c, Closed)

\* handle_tcp_accept of a connection.
Accepted(t, c) ==
  LET u == [t EXCEPT !.conn[c] = Opened, !.count = @ + 1]
  IN  IF u.count = MaxTcpCount THEN configure_handler_event_types(u, FALSE) ELSE u

TcpAccept(i, c) ==
  /\ tcp.up /\ i \in tcp.added /\ tcp.conn[c].at = "closed"
  /\ tcp.count < MaxTcpCount
  /\ tcp' = Accepted(tcp, c)

\* handle_tcp_accept when accept fails with EMFILE or ENFILE.
AcceptFails(i) ==
  /\ tcp.up /\ i \in tcp.added
  /\ tcp.count < MaxTcpCount /\ ~tcp.slow
  /\ tcp' = [configure_handler_event_types(tcp, FALSE) EXCEPT !.timer = TRUE, !.slow = TRUE]

\* handle_slowaccept_timeout
SlowacceptTimeout ==
  /\ tcp.up /\ tcp.timer
  /\ tcp' = [(IF tcp.slow THEN configure_handler_event_types(tcp, TRUE) ELSE tcp)
               EXCEPT !.slow = FALSE, !.timer = FALSE]

\* The loop of server_child ends; the main process starts another one.
ChildQuits == tcp.up /\ tcp' = Ended
ChildStarts == ~tcp.up /\ tcp' = Started

TcpInit == tcp = Started
TcpNext ==
  \/ \E c \in Client : TcpReading(c) \/ TcpWriting(c) \/ TcpTimeout(c)
  \/ \E i \in Interface : AcceptFails(i) \/ \E c \in Client : TcpAccept(i, c)
  \/ SlowacceptTimeout \/ ChildQuits \/ ChildStarts
TcpSpec == TcpInit /\ [][TcpNext]_tcp

-----------------------------------------------------------------------------
(* Properties.                                                             *)

Open == {c \in Client : tcp.conn[c].at # "closed"}

\* current_tcp_count is the number of open connections and never more than
\* tcp-count; while the process runs, all interfaces are listened on exactly
\* when there is room for a connection and accept is not paused; and it is
\* paused only while the timer that ends the pause runs (server.c:2420-2442,
\* 2812-2946): no order of accepts, failing accepts, closes and timeouts
\* leaves the process deaf or lets it take one connection too many.
AcceptsWhenRoom ==
  /\ tcp.count = Cardinality(Open) /\ tcp.count <= MaxTcpCount
  /\ tcp.added = IF tcp.up /\ tcp.count < MaxTcpCount /\ ~tcp.slow THEN Interface ELSE {}
  /\ tcp.slow = tcp.timer

\* The message of a connection is in bounds: part of a query is left to be read
\* (assert of server.c:2538), a packet is never written past its end, and no
\* more queries were answered than tcp-query-count.
MessageInBounds(d) ==
  /\ d.at = "reading" => \/ d.bytes < LengthSize /\ (d.bytes > 0 => d.pos = 0)
                         \/ /\ d.len \in MinLength..MaxLength
                            /\ d.bytes = d.pos + LengthSize /\ d.pos < d.len
  /\ d.at = "writing" => /\ d.len \in Reply /\ d.pos \in 0..d.len
                         /\ d.bytes < d.len + LengthSize
                         /\ d.bytes < LengthSize => d.pos = 0
  /\ QueryLimit > 0 => d.count <= QueryLimit
MessagesInBounds == \A c \in Client : MessageInBounds(tcp.conn[c])
=============================================================================
