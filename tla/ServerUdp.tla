----------------------------- MODULE ServerUdp ------------------------------
(***************************************************************************)
(* The UDP side of a query process: handle_udp of server.c takes a batch   *)
(* of datagrams with recvmmsg, answers them, drops some by swapping them   *)
(* with the last, and sends the rest with sendmmsg.  Its arrays are used   *)
(* again by the next batch, on whatever socket that comes.                 *)
(*                                                                         *)
(* udp.queries  queries[]: the query structure at an index                 *)
(* udp.name, namelen, iov   msgs[]: the query whose addr the header points *)
(*              to, the length it holds, and the index of its iovec        *)
(* udp.base, len   iovecs[]: the query whose buffer it points to, and      *)
(*              whether it has room for a query ("full")                   *)
(* udp.addr, packet   of a query structure: its addr, what is in its buffer*)
(* udp.answered, sent, lost   (history) of the last batch: the queries     *)
(*              that got an answer, the datagrams sent, whether the sending*)
(*              failed                                                     *)
(***************************************************************************)
EXTENDS Integers, FiniteSets, Sequences

CONSTANTS NumRecv,    \* NUM_RECV_PER_SELECT
          Family,     \* address families of the sockets
          NameLength  \* the length of an address of a family

VARIABLE udp

Index == 1..NumRecv
Storage == 100         \* sizeof(struct sockaddr_storage), more than any address
NoAddr == [family |-> "none", whole |-> TRUE]

\* query_reset, and the room of the iovec that goes with it.
query_reset(u, i) == [u EXCEPT !.packet[u.queries[i]] = "empty", !.len[i] = "full"]

\* recvmmsg: datagrams for the first n headers from a socket of a family.  A
\* name that is longer than the header has room for is cut off.
recvmmsg(u, n, f) ==
  [u EXCEPT !.addr = [q \in Index |->
                IF \E i \in 1..n : u.name[i] = q
                  THEN [family |-> f, whole |-> u.namelen[CHOOSE i \in 1..n : u.name[i] = q] >= NameLength[f]]
                  ELSE @[q]],
            !.packet = [q \in Index |->
                IF \E i \in 1..n : u.base[u.iov[i]] = q /\ u.len[u.iov[i]] = "full"
                  THEN "query" ELSE @[q]],
            !.namelen = [i \in Index |-> IF i <= n THEN NameLength[f] ELSE @[i]],
            !.answered = {}, !.sent = <<>>, !.lost = FALSE]

\* Two indices of an array change places.
Swapped(f, i, k) == [f EXCEPT ![i] = f[k], ![k] = f[i]]

\* Mutant of swap_drop: the iovecs stay.
SwapDropHeaders(u, i, k) ==
  [u EXCEPT !.queries = Swapped(@, i, k), !.name = Swapped(@, i, k), !.namelen = Swapped(@, i, k),
            !.iov[i] = i, !.iov[k] = k]

\* swap_drop: the headers, iovecs and queries of two indices change places,
\* and the headers point to the iovec of their own index again.
swap_drop(u, i, k) ==
  [u EXCEPT !.queries = Swapped(@, i, k), !.base = Swapped(@, i, k), !.len = Swapped(@, i, k),
            !.name = Swapped(@, i, k), !.namelen = Swapped(@, i, k), !.iov[i] = i, !.iov[k] = k]

\* The loop over the batch from index i on, of count datagrams; "drop" are the
\* queries that are discarded, or that recvmmsg has an error for.
RECURSIVE ProcessBatch(_, _, _, _)
ProcessBatch(u, i, count, drop) ==
  LET q == u.queries[i]
  IN  IF i > count THEN [udp |-> u, count |-> count]
      ELSE IF q \notin drop
        THEN ProcessBatch([u EXCEPT !.packet[q] = IF @ = "query" THEN "reply" ELSE @,
                                    !.len[i] = "reply", !.answered = @ \cup {q}],
                          i + 1, count, drop)
      ELSE IF i = count THEN [udp |-> query_reset(u, i), count |-> count - 1]
      ELSE ProcessBatch(swap_drop(query_reset(u, i), i, count), i, count - 1, drop)

\* What sendmmsg sends for a header: to whose address, whose buffer.
Datagram(u, i) ==
  [to |-> u.name[i], whole |-> u.addr[u.name[i]].whole,
   of |-> u.base[u.iov[i]], what |-> u.packet[u.base[u.iov[i]]]]

\* "send until all are sent", which ends when sendmmsg fails after k of them;
\* and everything is reset for the next batch.
SendBatch(u, count, k) ==
  [u EXCEPT !.sent = [i \in 1..k |-> Datagram(u, i)], !.lost = k < count,
            !.packet = [q \in Index |-> IF \E i \in 1..count : u.queries[i] = q THEN "empty" ELSE @[q]],
            !.len = [i \in Index |-> IF i <= count THEN "full" ELSE @[i]]]

handle_udp ==
  \E n \in Index, f \in Family :
  \E drop \in SUBSET {udp.queries[i] : i \in 1..n} :
    LET b == ProcessBatch(recvmmsg(udp, n, f), 1, n, drop)
    IN  \E k \in 0..b.count : udp' = SendBatch(b.udp, b.count, k)

\* The set-up of the arrays in server_child.
UdpStarted ==
  [queries |-> [i \in Index |-> i], name |-> [i \in Index |-> i],
   namelen |-> [i \in Index |-> Storage], iov |-> [i \in Index |-> i],
   base |-> [i \in Index |-> i], len |-> [i \in Index |-> "full"],
   addr |-> [i \in Index |-> NoAddr], packet |-> [i \in Index |-> "empty"],
   answered |-> {}, sent |-> <<>>, lost |-> FALSE]
UdpInit == udp = UdpStarted
UdpNext == handle_udp

\* After every batch the arrays belong together again, whatever was dropped:
\* each index has its own query, whose address its header and whose buffer its
\* iovec points to, with room for a query; and the batch was answered right:
\* every answer was sent once, with the buffer and to the address of its own
\* query, all of them unless sendmmsg failed, and nothing was sent for a query
\* that was dropped (server.c:2154-2276).
UdpBatchSound ==
  LET of == {udp.sent[i].of : i \in DOMAIN udp.sent}
  IN  /\ \A i \in Index : /\ udp.name[i] = udp.queries[i] /\ udp.base[i] = udp.queries[i]
                          /\ udp.iov[i] = i /\ udp.len[i] = "full"
                          /\ udp.packet[i] = "empty"
      /\ {udp.queries[i] : i \in Index} = Index
      /\ \A i \in DOMAIN udp.sent : udp.sent[i].to = udp.sent[i].of /\ udp.sent[i].what = "reply"
      /\ Cardinality(of) = Len(udp.sent) /\ of \subseteq udp.answered
      /\ ~udp.lost => of = udp.answered

\* The answer goes to the whole address of who asked.  This is not an invariant:
\* handle_udp leaves msg_namelen as recvmmsg set it (server.c:2234-2236), so that
\* an address of a family with longer names is cut off in a header that held a
\* shorter one.
RepliesToSender == \A i \in DOMAIN udp.sent : udp.sent[i].whole
=============================================================================
