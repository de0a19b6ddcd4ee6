-------------------------- MODULE ServerTcpProofs ---------------------------
(***************************************************************************)
(* The connection table of a query process keeps its count, its limit and  *)
(* its accept handlers right for every number of clients and interfaces    *)
(* and every tcp-count and tcp-query-count, and the message of every       *)
(* connection stays in bounds.                                             *)
(***************************************************************************)
EXTENDS ServerTcp, FiniteSetTheorems, TLAPS

Conn == [at : {"closed", "reading", "writing"}, bytes : Nat, len : Nat, pos : Nat,
         state : {"processed", "axfr"}, count : Nat]

\* What a handler may leave a connection as.
Fine(d) == d \in Conn /\ MessageInBounds(d) /\ (d.at = "closed" => d = Closed)

Table == [conn : [Client -> Conn], count : Nat, added : SUBSET Interface,
          slow : BOOLEAN, timer : BOOLEAN, up : BOOLEAN]

TcpType == tcp \in Table /\ \A c \in Client : Fine(tcp.conn[c])

TcpInv ==
  /\ TcpType /\ AcceptsWhenRoom
  /\ tcp.slow => tcp.count < MaxTcpCount

USE DEF LengthSize

\* A closed connection is in bounds, and an open one is not an aborted one.
LEMMA ClosedFine == Fine(Closed) /\ Closed # Aborted /\ Closed.at = "closed"
  BY TcpAssumption DEF Fine, Conn, Closed, Aborted, MessageInBounds

\* A connection within its limit is in bounds when it waits for the next query.
LEMMA NextQueryFine ==
  ASSUME NEW d \in Conn, QueryLimit > 0 => d.count <= QueryLimit
  PROVE  Fine(NextQuery(d))
  <1> DEFINE f == NextQuery(d)
  <1>1. f \in Conn /\ f.at = "reading" /\ f.bytes = 0 /\ f.count = d.count
    BY DEF NextQuery, Conn
  <1> HIDE DEF f
  <1>2. Fine(f)
    BY <1>1, TcpAssumption DEF Fine, MessageInBounds
  <1> QED
    BY <1>2 DEF f

\* So it is when it has a packet to send from its first byte.
LEMMA PacketFine ==
  ASSUME NEW d \in Conn, QueryLimit > 0 => d.count <= QueryLimit,
         NEW l \in Reply, NEW x \in {"processed", "axfr"}
  PROVE  Fine(Packet(d, l, x)) /\ Packet(d, l, x).at = "writing" /\ Packet(d, l, x) \in Conn
  <1> DEFINE f == Packet(d, l, x)
  <1>1. l \in Nat /\ l > 0
    BY TcpAssumption
  <1>2. /\ f \in Conn /\ f.at = "writing" /\ f.bytes = 0 /\ f.pos = 0 /\ f.len = l
        /\ f.count = d.count
    BY <1>1 DEF Packet, Conn
  <1> HIDE DEF f
  <1>3. Fine(f)
    BY <1>1, <1>2, TcpAssumption DEF Fine, MessageInBounds
  <1> QED
    BY <1>2, <1>3 DEF f

\* handle_tcp_writing, after some bytes were sent: the packet goes on, is done,
\* or an assert fails.
LEMMA SentFine ==
  ASSUME NEW d \in Conn, Fine(d), d.at = "writing",
         NEW n \in Nat \ {0}, NEW skip \in Int, skip <= n,
         d.bytes + n >= LengthSize,
         NEW e \in Sent(d, n, skip)
  PROVE  e = Aborted \/ Fine(e)
  <1> DEFINE b == d.bytes + n
             p == d.pos + skip
             f == [d EXCEPT !.bytes = b, !.pos = p]
  <1>1. /\ d.bytes \in Nat /\ d.pos \in Nat /\ d.len \in Nat /\ d.count \in Nat
        /\ QueryLimit > 0 => d.count <= QueryLimit
        /\ d.len \in Reply
    BY DEF Conn, Fine, MessageInBounds
  <1>2. b \in Nat /\ p \in Int /\ b >= LengthSize
    BY <1>1
  <1>3. f.bytes = b /\ f.pos = p
    BY DEF Conn
  <1>4. CASE p \notin 0..d.len
    BY <1>3, <1>4 DEF Sent
  <1>5. CASE p \in 0..d.len
    <2>1. p \in Nat /\ p <= d.len
      BY <1>1, <1>2, <1>5
    <2>2. /\ f \in Conn /\ f.at = "writing" /\ f.len = d.len /\ f.count = d.count
      <3>1. f = [d EXCEPT !.bytes = b, !.pos = p]
        OBVIOUS
      <3> HIDE DEF f, b, p
      <3> QED
        BY <3>1, <1>2, <2>1 DEF Conn
    <2>3. \/ e = Aborted
          \/ e = f /\ b < d.len + LengthSize
          \/ e \in PacketDone(f)
      BY <1>3, <1>5 DEF Sent
    <2> HIDE DEF f, b, p
    <2>4. ASSUME e = f, b < d.len + LengthSize PROVE Fine(e)
      BY <2>1, <2>2, <2>4, <1>1, <1>2, <1>3 DEF Fine, MessageInBounds
    <2>5. ASSUME e \in PacketDone(f) PROVE Fine(e)
      BY <2>2, <2>5, <1>1, NextQueryFine, PacketFine DEF PacketDone
    <2> QED
      BY <2>3, <2>4, <2>5
  <1> QED
    BY <1>4, <1>5

\* handle_tcp_writing leaves the connection closed or in bounds, or an assert
\* fails.
LEMMA WritingFine ==
  ASSUME NEW d \in Conn, Fine(d), d.at = "writing", NEW e \in handle_tcp_writing(d)
  PROVE  e = Aborted \/ Fine(e)
  <1>1. d.bytes \in Nat /\ d.len \in Nat /\ d.pos \in 0..d.len
    BY DEF Conn, Fine, MessageInBounds
  <1>2. CASE e \in {d, Closed}
    BY <1>2, ClosedFine
  <1>3. ASSUME d.bytes < LengthSize, NEW n \in 1..(LengthSize - d.bytes + d.len),
               d.bytes + n < LengthSize, e = [d EXCEPT !.bytes = @ + n]
        PROVE  Fine(e)
    <2>1. /\ e.at = "writing" /\ e.bytes = d.bytes + n /\ e.pos = d.pos
          /\ e.len = d.len /\ e.state = d.state /\ e.count = d.count /\ e \in Conn
      BY <1>1, <1>3 DEF Conn
    <2> QED
      BY <2>1, <1>3, <1>1, TcpAssumption DEF Fine, MessageInBounds
  <1>4. ASSUME d.bytes < LengthSize, NEW n \in 1..(LengthSize - d.bytes + d.len),
               ~(d.bytes + n < LengthSize), e \in Sent(d, n, n - LengthSize)
        PROVE  e = Aborted \/ Fine(e)
    BY <1>1, <1>4, SentFine
  <1>5. ASSUME ~(d.bytes < LengthSize), NEW n \in 1..(d.len - d.pos), e \in Sent(d, n, n)
        PROVE  e = Aborted \/ Fine(e)
    BY <1>1, <1>5, SentFine
  <1> QED
    BY <1>2, <1>3, <1>4, <1>5 DEF handle_tcp_writing

\* A complete query is answered within the limit of the connection.
LEMMA AnswerFine ==
  ASSUME NEW d \in Conn, QueryLimit > 0 => d.count < QueryLimit, NEW e \in Answer(d)
  PROVE  e = Aborted \/ Fine(e)
  <1> DEFINE f == [d EXCEPT !.count = @ + 1]
  <1>1. f \in Conn /\ f.count = d.count + 1 /\ d.count \in Nat
    BY DEF Conn
  <1>2. QueryLimit > 0 => f.count <= QueryLimit
    BY <1>1, TcpAssumption
  <1>3. CASE e = Closed
    BY <1>3, ClosedFine
  <1>4. ASSUME NEW l \in Reply, NEW x \in {"processed", "axfr"}, e \in handle_tcp_writing(Packet(f, l, x))
        PROVE  e = Aborted \/ Fine(e)
    BY <1>1, <1>2, <1>4, PacketFine, WritingFine
  <1> QED
    BY <1>3, <1>4 DEF Answer

\* The rest of a query, of which something is left to be read.
LEMMA ReadBodyFine ==
  ASSUME NEW d \in Conn, d.at = "reading", QueryLimit > 0 => d.count < QueryLimit,
         d.len \in MinLength..MaxLength, d.bytes = d.pos + LengthSize, d.pos < d.len,
         NEW e \in ReadBody(d)
  PROVE  e = Aborted \/ Fine(e)
  <1> DEFINE rest == d.len + LengthSize - d.bytes
  <1>1. d.bytes \in Nat /\ d.len \in Nat /\ d.pos \in Nat /\ d.count \in Nat /\ rest = d.len - d.pos
    BY DEF Conn
  <1>2. CASE e = Closed
    BY <1>2, ClosedFine
  <1>3. CASE e = d
    BY <1>3, <1>1, TcpAssumption DEF Fine, MessageInBounds
  <1>4. ASSUME NEW n \in 1..(rest - 1), e = [d EXCEPT !.bytes = @ + n, !.pos = @ + n]
        PROVE  Fine(e)
    <2>1. /\ e \in Conn /\ e.at = "reading" /\ e.bytes = d.bytes + n /\ e.pos = d.pos + n
          /\ e.len = d.len /\ e.count = d.count
      <3> DEFINE b == d.bytes + n
                 p == d.pos + n
      <3>1. b \in Nat /\ p \in Nat
        BY <1>1
      <3>2. e = [d EXCEPT !.bytes = b, !.pos = p]
        BY <1>4
      <3>3. e \in Conn /\ e.at = d.at /\ e.bytes = b /\ e.pos = p /\ e.len = d.len /\ e.count = d.count
        <4> HIDE DEF b, p
        <4> QED
          BY <3>1, <3>2 DEF Conn
      <3> QED
        BY <3>3
    <2> QED
      BY <2>1, <1>1, TcpAssumption DEF Fine, MessageInBounds
  <1>5. ASSUME e \in Answer([d EXCEPT !.bytes = @ + rest, !.pos = @ + rest])
        PROVE  e = Aborted \/ Fine(e)
    <2> DEFINE f == [d EXCEPT !.bytes = @ + rest, !.pos = @ + rest]
    <2>1. f \in Conn /\ f.count = d.count
      <3> DEFINE b == d.bytes + rest
                 p == d.pos + rest
      <3>1. b \in Nat /\ p \in Nat
        BY <1>1
      <3>2. f = [d EXCEPT !.bytes = b, !.pos = p]
        OBVIOUS
      <3> HIDE DEF b, p, f
      <3> QED
        BY <3>1, <3>2 DEF Conn
    <2> QED
      BY <2>1, <1>5, AnswerFine
  <1> QED
    BY <1>2, <1>3, <1>4, <1>5 DEF ReadBody

\* The length of a query, read in one piece or two.
LEMMA ReadLengthFine ==
  ASSUME NEW d \in Conn, d.at = "reading", QueryLimit > 0 => d.count < QueryLimit,
         d.bytes < LengthSize, d.pos = 0, NEW e \in ReadLength(d)
  PROVE  e = Aborted \/ Fine(e)
  <1>1. d.bytes \in Nat /\ d.count \in Nat
    BY DEF Conn
  <1>2. CASE e = Closed
    BY <1>2, ClosedFine
  <1>3. CASE e = d
    BY <1>3, <1>1, TcpAssumption DEF Fine, MessageInBounds
  <1>4. ASSUME NEW n \in 1..(LengthSize - d.bytes - 1), e = [d EXCEPT !.bytes = @ + n]
        PROVE  Fine(e)
    <2>1. e \in Conn /\ e.at = "reading" /\ e.bytes = d.bytes + n /\ e.count = d.count /\ e.pos = d.pos
      BY <1>1, <1>4 DEF Conn
    <2> QED
      BY <2>1, <1>1, TcpAssumption DEF Fine, MessageInBounds
  <1>5. ASSUME NEW len \in Length, e \in GotLength(d, len)
        PROVE  e = Aborted \/ Fine(e)
    <2> DEFINE f == [d EXCEPT !.bytes = LengthSize, !.len = len]
    <2>1. CASE len < MinLength \/ len > MaxLength
      BY <1>5, <2>1, ClosedFine DEF GotLength
    <2>2. CASE ~(len < MinLength \/ len > MaxLength)
      <3>1. len \in Nat /\ len \in MinLength..MaxLength /\ 0 < len
        BY <2>2, TcpAssumption
      <3>2. /\ f \in Conn /\ f.at = "reading" /\ f.count = d.count /\ f.len = len
            /\ f.bytes = LengthSize /\ f.pos = 0
        BY <3>1 DEF Conn
      <3>3. e \in ReadBody(f)
        BY <1>5, <2>2 DEF GotLength
      <3> HIDE DEF f
      <3> QED
        BY <3>1, <3>2, <3>3, ReadBodyFine
    <2> QED
      BY <2>1, <2>2
  <1> QED
    BY <1>2, <1>3, <1>4, <1>5 DEF ReadLength

\* handle_tcp_reading leaves the connection closed or in bounds, or an assert
\* fails while it writes the answer.
LEMMA ReadingFine ==
  ASSUME NEW d \in Conn, Fine(d), d.at = "reading", NEW e \in handle_tcp_reading(d)
  PROVE  e = Aborted \/ Fine(e)
  <1>1. d.bytes \in Nat /\ d.count \in Nat /\ QueryLimit \in Nat
    BY TcpAssumption DEF Conn
  <1>0. ~(QueryLimit > 0 /\ d.count >= QueryLimit) => (QueryLimit > 0 => d.count < QueryLimit)
    BY <1>1
  <1>2. CASE QueryLimit > 0 /\ d.count >= QueryLimit
    BY <1>2, ClosedFine DEF handle_tcp_reading
  <1>3. CASE ~(QueryLimit > 0 /\ d.count >= QueryLimit) /\ d.bytes = 0
    <2> DEFINE f == [d EXCEPT !.len = 0, !.pos = 0]
    <2>1. f \in Conn /\ f.at = "reading" /\ f.count = d.count /\ f.bytes = 0 /\ f.pos = 0
      BY <1>3 DEF Conn
    <2>2. e \in ReadLength(f)
      BY <1>3 DEF handle_tcp_reading
    <2> HIDE DEF f
    <2> QED
      BY <2>1, <2>2, <1>0, <1>3, ReadLengthFine
  <1>4. CASE ~(QueryLimit > 0 /\ d.count >= QueryLimit) /\ d.bytes # 0 /\ d.bytes < LengthSize
    <2>1. e \in ReadLength(d)
      BY <1>4 DEF handle_tcp_reading
    <2>2. d.pos = 0
      BY <1>1, <1>4 DEF Fine, MessageInBounds, Conn
    <2> QED
      BY <2>1, <2>2, <1>0, <1>4, ReadLengthFine
  <1>5. CASE ~(QueryLimit > 0 /\ d.count >= QueryLimit) /\ ~(d.bytes < LengthSize)
    <2>1. e \in ReadBody(d)
      BY <1>1, <1>5 DEF handle_tcp_reading
    <2>2. /\ d.len \in MinLength..MaxLength
          /\ d.bytes = d.pos + LengthSize /\ d.pos < d.len
      BY <1>5 DEF Fine, MessageInBounds
    <2> QED
      BY <2>1, <2>2, <1>0, <1>5, ReadBodyFine
  <1> QED
    BY <1>2, <1>3, <1>4, <1>5

-----------------------------------------------------------------------------
(* The table.                                                              *)

OpenIn(conn) == {c \in Client : conn[c].at # "closed"}

\* A connection that closes or opens changes the number of open ones by one.
LEMMA Counting ==
  ASSUME NEW conn \in [Client -> Conn], NEW c \in Client, NEW d \in Conn,
         NEW new, new = [conn EXCEPT ![c] = d]
  PROVE  /\ IsFiniteSet(OpenIn(conn)) /\ Cardinality(OpenIn(conn)) \in Nat
         /\ conn[c].at # "closed" => Cardinality(OpenIn(conn)) > 0
         /\ conn[c].at # "closed" /\ d.at # "closed" => OpenIn(new) = OpenIn(conn)
         /\ conn[c].at # "closed" /\ d.at = "closed" =>
              Cardinality(OpenIn(new)) = Cardinality(OpenIn(conn)) - 1
         /\ conn[c].at = "closed" /\ d.at # "closed" =>
              Cardinality(OpenIn(new)) = Cardinality(OpenIn(conn)) + 1
  <1>1. IsFiniteSet(OpenIn(conn)) /\ Cardinality(OpenIn(conn)) \in Nat
    BY TcpAssumption, FS_Subset, FS_CardinalityType DEF OpenIn
  <1>2. ASSUME conn[c].at # "closed" PROVE Cardinality(OpenIn(conn)) > 0
    BY <1>1, <1>2, FS_EmptySet DEF OpenIn
  <1>3. ASSUME conn[c].at # "closed", d.at # "closed" PROVE OpenIn(new) = OpenIn(conn)
    BY <1>3 DEF OpenIn
  <1>4. ASSUME conn[c].at # "closed", d.at = "closed"
        PROVE  Cardinality(OpenIn(new)) = Cardinality(OpenIn(conn)) - 1
    <2>1. OpenIn(new) = OpenIn(conn) \ {c} /\ c \in OpenIn(conn)
      BY <1>4 DEF OpenIn
    <2> QED
      BY <2>1, <1>1, FS_RemoveElement
  <1>5. ASSUME conn[c].at = "closed", d.at # "closed"
        PROVE  Cardinality(OpenIn(new)) = Cardinality(OpenIn(conn)) + 1
    <2>1. OpenIn(new) = OpenIn(conn) \cup {c} /\ c \notin OpenIn(conn)
      BY <1>5 DEF OpenIn
    <2> QED
      BY <2>1, <1>1, FS_AddElement
  <1> QED
    BY <1>1, <1>2, <1>3, <1>4, <1>5

\* cleanup_tcp_handler makes room and listens again.
LEMMA CleanupEffect ==
  ASSUME TcpInv, tcp.up, tcp.count > 0, NEW t, t = cleanup_tcp_handler(tcp)
  PROVE  /\ t \in Table /\ t.conn = tcp.conn /\ t.count = tcp.count - 1 /\ t.up
         /\ t.added = Interface /\ ~t.slow /\ ~t.timer
  <1> USE DEF TcpInv, TcpType, Table
  <1>0. tcp.count - 1 \in Nat
    OBVIOUS
  <1>1. CASE tcp.slow \/ tcp.count = MaxTcpCount
    <2> DEFINE x == IF tcp.slow THEN FALSE ELSE tcp.timer
    <2>1. t = [[[tcp EXCEPT !.added = Interface] EXCEPT !.slow = FALSE, !.timer = x]
                 EXCEPT !.count = tcp.count - 1]
      BY <1>1 DEF cleanup_tcp_handler, configure_handler_event_types
    <2>2. x = FALSE
      BY DEF AcceptsWhenRoom
    <2>3. t.conn = tcp.conn /\ t.count = tcp.count - 1 /\ t.added = Interface
      BY <2>1
    <2>4. t.slow = FALSE /\ t.timer = FALSE
      BY <2>1, <2>2
    <2>5. t.up = tcp.up
      BY <2>1
    <2>6. t \in Table
      BY <2>1, <2>2, <1>0
    <2> QED
      BY <2>3, <2>4, <2>5, <2>6
  <1>2. CASE ~(tcp.slow \/ tcp.count = MaxTcpCount)
    <2>1. t = [tcp EXCEPT !.count = tcp.count - 1]
      BY <1>2 DEF cleanup_tcp_handler
    <2>2. t.conn = tcp.conn /\ t.count = tcp.count - 1 /\ t.added = tcp.added
      BY <2>1
    <2>3. t.slow = tcp.slow /\ t.timer = tcp.timer
      BY <2>1
    <2>4. t.up = tcp.up
      BY <2>1
    <2>5. tcp.count < MaxTcpCount
      BY <1>2, TcpAssumption DEF AcceptsWhenRoom
    <2>6. tcp.added = Interface /\ ~tcp.timer
      BY <1>2, <2>5 DEF AcceptsWhenRoom
    <2>7. t \in Table
      BY <2>1, <1>0
    <2> QED
      BY <2>2, <2>3, <2>4, <2>6, <2>7, <1>2
  <1> QED
    BY <1>1, <1>2

\* A fresh process, and one that has ended.
LEMMA StartedInv ==
  /\ tcp = Started => TcpInv
  /\ tcp' = Started => TcpInv'
  /\ tcp' = Ended => TcpInv'
  <1>1. Closed \in Conn /\ Fine(Closed) /\ Closed.at = "closed"
    BY ClosedFine DEF Fine
  <1>2. Cardinality({}) = 0
    BY FS_EmptySet
  <1>3. Started \in Table /\ Ended \in Table
    BY <1>1 DEF Started, Ended, Table
  <1>7. 0 < MaxTcpCount /\ 0 <= MaxTcpCount
    BY TcpAssumption
  <1>4. ASSUME tcp = Started PROVE TcpInv
    <2>1. /\ tcp.conn = [c \in Client |-> Closed] /\ tcp.count = 0
          /\ tcp.added = Interface /\ tcp.up
      BY <1>4 DEF Ended, Started
    <2>2. ~tcp.slow /\ tcp.slow = tcp.timer
      BY <1>4 DEF Ended, Started
    <2>3. Cardinality(Open) = 0
      <3>1. Open = {}
        BY <1>1, <2>1 DEF Open
      <3> QED
        BY <1>2, <3>1
    <2>4. AcceptsWhenRoom
      BY <1>7, <2>1, <2>2, <2>3 DEF AcceptsWhenRoom
    <2>5. TcpType
      BY <1>1, <1>3, <1>4, <2>1 DEF TcpType
    <2> QED
      BY <2>2, <2>4, <2>5 DEF TcpInv
  <1>5. ASSUME tcp' = Started PROVE TcpInv'
    <2>1. /\ tcp'.conn = [c \in Client |-> Closed] /\ tcp'.count = 0
          /\ tcp'.added = Interface /\ tcp'.up
      BY <1>5 DEF Ended, Started
    <2>2. ~tcp'.slow /\ tcp'.slow = tcp'.timer
      BY <1>5 DEF Ended, Started
    <2>3. Cardinality(Open') = 0
      <3>1. Open' = {}
        BY <1>1, <2>1 DEF Open
      <3> QED
        BY <1>2, <3>1
    <2>4. AcceptsWhenRoom'
      BY <1>7, <2>1, <2>2, <2>3 DEF AcceptsWhenRoom
    <2>5. TcpType'
      BY <1>1, <1>3, <1>5, <2>1 DEF TcpType
    <2> QED
      BY <2>2, <2>4, <2>5 DEF TcpInv
  <1>6. ASSUME tcp' = Ended PROVE TcpInv'
    <2>1. /\ tcp'.conn = [c \in Client |-> Closed] /\ tcp'.count = 0
          /\ tcp'.added = {} /\ ~tcp'.up
      BY <1>6 DEF Ended, Started
    <2>2. ~tcp'.slow /\ tcp'.slow = tcp'.timer
      BY <1>6 DEF Ended, Started
    <2>3. Cardinality(Open') = 0
      <3>1. Open' = {}
        BY <1>1, <2>1 DEF Open
      <3> QED
        BY <1>2, <3>1
    <2>4. AcceptsWhenRoom'
      BY <1>7, <2>1, <2>2, <2>3 DEF AcceptsWhenRoom
    <2>5. TcpType'
      BY <1>1, <1>3, <1>6, <2>1 DEF TcpType
    <2> QED
      BY <2>2, <2>4, <2>5 DEF TcpInv
  <1> QED
    BY <1>4, <1>5, <1>6

\* A handler that leaves its connection open, closed or aborted keeps the table.
LEMMA LeaveInv ==
  ASSUME TcpInv, tcp.up, NEW c \in Client, tcp.conn[c].at # "closed",
         NEW d, d = Aborted \/ Fine(d), Leave(c, d)
  PROVE  TcpInv'
  <1>0. /\ tcp.conn \in [Client -> Conn] /\ tcp.count \in Nat /\ tcp \in Table
        /\ \A k \in Client : Fine(tcp.conn[k])
    BY DEF TcpInv, TcpType, Table
  <1>a. /\ tcp.count = Cardinality(OpenIn(tcp.conn)) /\ tcp.count <= MaxTcpCount
        /\ tcp.added = IF tcp.up /\ tcp.count < MaxTcpCount /\ ~tcp.slow THEN Interface ELSE {}
        /\ tcp.slow = tcp.timer
    <2>1. Open = OpenIn(tcp.conn)
      BY DEF Open, OpenIn
    <2> QED
      BY <2>1 DEF TcpInv, AcceptsWhenRoom
  <1>1. CASE d = Aborted
    BY <1>1, StartedInv DEF Leave
  <1>2. CASE d # Aborted /\ d = Closed
    <2> DEFINE t == cleanup_tcp_handler(tcp)
               new == [tcp.conn EXCEPT ![c] = d]
    <2>1. d \in Conn /\ Fine(d) /\ d.at = "closed"
      BY <1>2, ClosedFine DEF Fine
    <2>2. tcp.count > 0
      BY <1>0, <1>a, <2>1, Counting
    <2>3. /\ t \in Table /\ t.conn = tcp.conn /\ t.count = tcp.count - 1 /\ t.up
          /\ t.added = Interface /\ ~t.slow /\ ~t.timer
      BY <2>2, CleanupEffect
    <2>4. tcp' = [t EXCEPT !.conn[c] = d]
      BY <1>2 DEF Leave
    <2> HIDE DEF t
    <2>5. /\ tcp'.conn = new /\ tcp'.count = tcp.count - 1 /\ tcp'.added = Interface
          /\ tcp' \in Table
      BY <2>1, <2>3, <2>4 DEF Table
    <2>6. tcp'.up /\ ~tcp'.slow /\ ~tcp'.timer
      BY <2>3, <2>4 DEF Table
    <2>6b. tcp'.slow = FALSE /\ tcp'.timer = FALSE
      BY <2>5, <2>6 DEF Table
    <2>7. Cardinality(OpenIn(new)) = tcp.count - 1
      BY <1>0, <1>a, <2>1, Counting
    <2>8. Open' = OpenIn(new)
      BY <2>5 DEF Open, OpenIn
    <2>9. \A k \in Client : Fine(new[k])
      BY <1>0, <2>1
    <2>10. tcp.count - 1 < MaxTcpCount /\ tcp.count - 1 <= MaxTcpCount
      BY <1>0, <1>a, TcpAssumption
    <2> HIDE DEF new
    <2> QED
      BY <2>5, <2>6, <2>6b, <2>7, <2>8, <2>9, <2>10 DEF TcpInv, TcpType, AcceptsWhenRoom
  <1>3. CASE d # Aborted /\ d # Closed
    <2> DEFINE new == [tcp.conn EXCEPT ![c] = d]
    <2>1. d \in Conn /\ Fine(d) /\ d.at # "closed"
      BY <1>3 DEF Fine
    <2>2. tcp' = [tcp EXCEPT !.conn[c] = d]
      BY <1>3 DEF Leave
    <2>3. tcp'.conn = new /\ tcp'.count = tcp.count /\ tcp'.added = tcp.added /\ tcp' \in Table
      BY <1>0, <2>1, <2>2 DEF Table
    <2>4. tcp'.slow = tcp.slow /\ tcp'.timer = tcp.timer /\ tcp'.up = tcp.up
      BY <1>0, <2>2 DEF Table
    <2>5. OpenIn(new) = OpenIn(tcp.conn)
      BY <1>0, <2>1, Counting
    <2>6. Open' = OpenIn(new)
      BY <2>3 DEF Open, OpenIn
    <2>7. \A k \in Client : Fine(new[k])
      BY <1>0, <2>1
    <2> HIDE DEF new
    <2>8. tcp'.slow => tcp'.count < MaxTcpCount
      BY <2>3, <2>4 DEF TcpInv
    <2> QED
      BY <1>a, <2>3, <2>4, <2>5, <2>6, <2>7, <2>8 DEF TcpInv, TcpType, AcceptsWhenRoom
  <1> QED
    BY <1>1, <1>2, <1>3

\* A connection that is accepted keeps the invariant (handle_tcp_accept).
LEMMA AcceptInv ==
  ASSUME TcpInv, NEW i \in Interface, NEW c \in Client, TcpAccept(i, c)
  PROVE  TcpInv'
  <1> DEFINE n == tcp.count + 1
             new == [tcp.conn EXCEPT ![c] = Opened]
             u == [tcp EXCEPT !.conn[c] = Opened, !.count = n]
  <1>0. /\ tcp.conn \in [Client -> Conn] /\ tcp.count \in Nat /\ tcp \in Table
        /\ \A k \in Client : Fine(tcp.conn[k])
    BY DEF TcpInv, TcpType, Table
  <1>1. Opened \in Conn /\ Opened.at = "reading" /\ Opened.bytes = 0 /\ Opened.count = 0
    BY DEF Opened, Closed, Conn
  <1>2. Fine(Opened)
    BY <1>1, TcpAssumption DEF Fine, MessageInBounds
  <1>3. tcp.count < MaxTcpCount /\ tcp.up /\ i \in tcp.added /\ tcp.conn[c].at = "closed"
    BY DEF TcpAccept
  <1>4. tcp.added = Interface /\ tcp.slow = FALSE /\ tcp.timer = FALSE
    BY <1>0, <1>3 DEF TcpInv, AcceptsWhenRoom, Table
  <1>5. n \in Nat /\ n <= MaxTcpCount
    BY <1>0, <1>3, TcpAssumption
  <1>6. u \in Table /\ u.conn = new /\ u.count = n /\ u.added = Interface
    <2> HIDE DEF n
    <2> QED
      BY <1>0, <1>1, <1>4, <1>5 DEF Table
  <1>7. u.slow = FALSE /\ u.timer = FALSE /\ u.up
    <2> HIDE DEF n
    <2> QED
      BY <1>0, <1>3, <1>4 DEF Table
  <1>8. tcp' = IF n = MaxTcpCount THEN [u EXCEPT !.added = {}] ELSE u
    <2>1. tcp' = IF u.count = MaxTcpCount THEN [u EXCEPT !.added = {}] ELSE u
      BY DEF TcpAccept, Accepted, configure_handler_event_types
    <2> QED
      BY <1>6, <2>1
  <1> HIDE DEF u
  <1>9. /\ tcp' \in Table /\ tcp'.conn = new /\ tcp'.count = n
        /\ tcp'.added = IF n = MaxTcpCount THEN {} ELSE Interface
    BY <1>6, <1>8 DEF Table
  <1>10. tcp'.slow = FALSE /\ tcp'.timer = FALSE /\ tcp'.up
    BY <1>6, <1>7, <1>8 DEF Table
  <1>11. Cardinality(OpenIn(new)) = n
    <2>1. tcp.count = Cardinality(OpenIn(tcp.conn))
      BY DEF TcpInv, AcceptsWhenRoom, Open, OpenIn
    <2> QED
      BY <1>0, <1>1, <1>3, <2>1, Counting
  <1>12. Open' = OpenIn(new)
    BY <1>9 DEF Open, OpenIn
  <1>13. \A k \in Client : Fine(new[k])
    BY <1>0, <1>2
  <1>14. n < MaxTcpCount <=> n # MaxTcpCount
    BY <1>5, TcpAssumption
  <1> HIDE DEF new, n
  <1>15. AcceptsWhenRoom'
    BY <1>5, <1>9, <1>10, <1>11, <1>12, <1>14 DEF AcceptsWhenRoom
  <1>16. TcpType'
    BY <1>9, <1>13 DEF TcpType
  <1> QED
    BY <1>10, <1>15, <1>16 DEF TcpInv

\* Accepting is paused when accept fails, and a timer runs then.
LEMMA PauseInv ==
  ASSUME TcpInv, NEW i \in Interface, AcceptFails(i)
  PROVE  TcpInv'
  <1>0. tcp.count \in Nat /\ tcp \in Table /\ \A k \in Client : Fine(tcp.conn[k])
    BY DEF TcpInv, TcpType, Table
  <1>1. tcp' = [[tcp EXCEPT !.added = {}] EXCEPT !.timer = TRUE, !.slow = TRUE]
    BY DEF AcceptFails, configure_handler_event_types
  <1>2. tcp' \in Table /\ tcp'.conn = tcp.conn /\ tcp'.count = tcp.count /\ tcp'.added = {}
    BY <1>0, <1>1 DEF Table
  <1>3. tcp'.slow = TRUE /\ tcp'.timer = TRUE
    BY <1>0, <1>1 DEF Table
  <1>4. Open' = Open
    BY <1>2 DEF Open
  <1>5. AcceptsWhenRoom'
    BY <1>2, <1>3, <1>4 DEF AcceptsWhenRoom, TcpInv
  <1>6. tcp'.count < MaxTcpCount
    BY <1>2 DEF AcceptFails
  <1> QED
    BY <1>0, <1>2, <1>5, <1>6 DEF TcpInv, TcpType

\* The end of a pause keeps it: the process listens if it has room
\* (handle_slowaccept_timeout).
LEMMA ResumeInv ==
  ASSUME TcpInv, SlowacceptTimeout
  PROVE  TcpInv'
  <1>0. tcp.count \in Nat /\ tcp \in Table /\ \A k \in Client : Fine(tcp.conn[k])
    BY DEF TcpInv, TcpType, Table
  <1>1. tcp.up /\ tcp.timer /\ tcp.slow /\ tcp.added = {}
    BY DEF SlowacceptTimeout, TcpInv, AcceptsWhenRoom
  <1>2. tcp' = [[tcp EXCEPT !.added = Interface] EXCEPT !.slow = FALSE, !.timer = FALSE]
    BY <1>1 DEF SlowacceptTimeout, configure_handler_event_types
  <1>3. tcp' \in Table /\ tcp'.conn = tcp.conn /\ tcp'.count = tcp.count /\ tcp'.added = Interface
    BY <1>0, <1>2 DEF Table
  <1>4. tcp'.slow = FALSE /\ tcp'.timer = FALSE /\ tcp'.up
    BY <1>0, <1>1, <1>2 DEF Table
  <1>5. Open' = Open
    BY <1>3 DEF Open
  <1>6. tcp.count < MaxTcpCount /\ tcp.count = Cardinality(Open) /\ tcp.count <= MaxTcpCount
    BY <1>1 DEF TcpInv, AcceptsWhenRoom
  <1>7. AcceptsWhenRoom'
    BY <1>3, <1>4, <1>5, <1>6 DEF AcceptsWhenRoom
  <1> QED
    BY <1>0, <1>3, <1>4, <1>7 DEF TcpInv, TcpType

-----------------------------------------------------------------------------
(* The theorems.                                                           *)

\* Every step keeps it.
LEMMA TcpStep == TcpInv /\ [TcpNext]_tcp => TcpInv'
  <1> SUFFICES ASSUME TcpInv, [TcpNext]_tcp PROVE TcpInv'
    OBVIOUS
  <1>0. \A c \in Client : tcp.conn[c] \in Conn /\ Fine(tcp.conn[c])
    BY DEF TcpInv, TcpType, Fine
  <1>1. ASSUME NEW c \in Client, TcpReading(c) PROVE TcpInv'
    <2>1. PICK d \in handle_tcp_reading(tcp.conn[c]) : Leave(c, d)
      BY <1>1 DEF TcpReading
    <2>2. tcp.up /\ tcp.conn[c].at = "reading"
      BY <1>1 DEF TcpReading
    <2>3. d = Aborted \/ Fine(d)
      BY <1>0, <2>2, ReadingFine
    <2> QED
      BY <2>1, <2>2, <2>3, LeaveInv
  <1>2. ASSUME NEW c \in Client, TcpWriting(c) PROVE TcpInv'
    <2>1. PICK d \in handle_tcp_writing(tcp.conn[c]) : Leave(c, d)
      BY <1>2 DEF TcpWriting
    <2>2. tcp.up /\ tcp.conn[c].at = "writing"
      BY <1>2 DEF TcpWriting
    <2>3. d = Aborted \/ Fine(d)
      BY <1>0, <2>2, WritingFine
    <2> QED
      BY <2>1, <2>2, <2>3, LeaveInv
  <1>3. ASSUME NEW c \in Client, TcpTimeout(c) PROVE TcpInv'
    BY <1>3, ClosedFine, LeaveInv DEF TcpTimeout
  <1>4. CASE ChildQuits \/ ChildStarts
    BY <1>4, StartedInv DEF ChildQuits, ChildStarts
  <1>5. CASE UNCHANGED tcp
    BY <1>5 DEF TcpInv, TcpType, AcceptsWhenRoom, Open
  <1> QED
    BY <1>1, <1>2, <1>3, <1>4, <1>5, AcceptInv, PauseInv, ResumeInv DEF TcpNext

\* For every number of clients and interfaces, every tcp-count and every
\* tcp-query-count: current_tcp_count is the number of open connections and at
\* most tcp-count, and a query process listens exactly while it has room and is
\* not pausing (server.c:2420-2442, 2812-2946).
THEOREM TableIsRight == TcpSpec => []AcceptsWhenRoom
  <1>1. TcpInit => TcpInv
    BY StartedInv DEF TcpInit
  <1>2. TcpInv => AcceptsWhenRoom
    BY DEF TcpInv
  <1> QED
    BY <1>1, <1>2, TcpStep, PTL DEF TcpSpec

\* For every length of queries and replies and every way the socket takes or
\* gives their bytes in pieces: there is room to read while a query is read, no
\* packet is written past its end, and no connection gets more answers than
\* tcp-query-count (server.c:2444-2810).
THEOREM MessagesStayInBounds == TcpSpec => []MessagesInBounds
  <1>1. TcpInit => TcpInv
    BY StartedInv DEF TcpInit
  <1>2. TcpInv => MessagesInBounds
    BY DEF TcpInv, TcpType, Fine, MessagesInBounds
  <1> QED
    BY <1>1, <1>2, TcpStep, PTL DEF TcpSpec
=============================================================================
