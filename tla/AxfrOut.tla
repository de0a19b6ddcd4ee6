------------------------------- MODULE AxfrOut -------------------------------
(***************************************************************************)
(* A full zone transfer from the side of the server that has the zone      *)
(* (axfr.c, with the TSIG half of query.c).                                *)
(*                                                                         *)
(* The state of a transfer is a query q, kept between the packets.  The    *)
(* place in the zone (axfr_current_domain, _rrset, _rr) is the sequence    *)
(* todo of the RRs that come after it.  Every RR has size 1, and a packet  *)
(* has room for Cap of them.                                               *)
(***************************************************************************)
EXTENDS Tsig, FiniteSetsExt

CONSTANTS Cap,          \* RRs that fit in AXFR_MAX_MESSAGE_LEN
          SignEveryNth  \* AXFR_TSIG_SIGN_EVERY_NTH
ASSUME AxfrOutAssumption == Cap \in Nat \ {0} /\ SignEveryNth \in Nat \ {0}

Soa(v) == [type |-> "SOA", v |-> v]
Message(rcode, rrs) == [qr |-> TRUE, rcode |-> rcode, tc |-> FALSE, rr |-> rrs, tsig |-> NoMac]
Query(qtype) == [qr |-> FALSE, rcode |-> qtype, tc |-> FALSE, rr |-> <<>>, tsig |-> NoMac]

\* query_reset, and process_tsig for a query with the MAC of a key that both have.
\* soa is the serial, or nothing before query_axfr has found the zone.
process_tsig(keyed, msg) ==
  IF keyed THEN [Verified(tsig_update(tsig_prepare(tsig_init_query), msg)) EXCEPT !.status = TSIG_OK]
  ELSE tsig_init_query
NewQuery(keyed, msg) ==
  [soa |-> <<>>, todo |-> <<>>, axfr_is_done |-> FALSE, tsig |-> process_tsig(keyed, msg),
   prepare_it |-> TRUE, update_it |-> TRUE, sign_it |-> TRUE]

\* query_add_optional: the hash and the signature of a reply.
query_add_optional(q, msg) ==
  IF q.tsig.status = TSIG_NOT_PRESENT THEN <<q, msg>>
  ELSE LET p == IF q.prepare_it THEN tsig_prepare(q.tsig) ELSE q.tsig
           t == IF q.update_it THEN tsig_update(p, msg) ELSE p
       IN  IF q.sign_it THEN <<[q EXCEPT !.tsig = tsig_sign(t)], [msg EXCEPT !.tsig = Digest(t)]>>
           ELSE <<[q EXCEPT !.tsig = t], msg>>

\* The first packet, the last, and each that comes when enough have gone unsigned.  The
\* count is the one before this packet, and a new hash is started only when it is sent.
SignNow(q, first, ends) == ends \/ (q.tsig.status = TSIG_OK /\ (first \/ q.tsig.upd >= SignEveryNth))
\* n RRs of the zone fit; the terminating SOA goes with them, or in a packet of its own.
AxfrPacket(q, first, n, ends) ==
  (IF first THEN q.soa ELSE <<>>) \o SubSeq(q.todo, 1, n) \o (IF ends THEN q.soa ELSE <<>>)
AxfrStep(q, first, n, ends) ==
  query_add_optional([q EXCEPT !.prepare_it = q.sign_it, !.update_it = TRUE,
                               !.sign_it = SignNow(q, first, ends), !.axfr_is_done = ends,
                               !.todo = SubSeq(@, n + 1, Len(@))],
                     Message("ok", AxfrPacket(q, first, n, ends)))
Fits(q, room) == Min({room, Len(q.todo)})
Room(first) == IF first THEN Cap - 1 ELSE Cap
AxfrFill(q, first, n) == AxfrStep(q, first, n, n = Len(q.todo) /\ n < Room(first))

\* query_axfr: the state and the packet that is sent next.  The zone is looked up for
\* the first packet; rrs is what is in it.
query_axfr(q, serial, rrs) ==
  IF q.soa = <<>>
  THEN AxfrFill([q EXCEPT !.soa = <<Soa(serial)>>, !.todo = rrs], TRUE, Min({Room(TRUE), Len(rrs)}))
  ELSE AxfrFill(q, FALSE, Fits(q, Room(FALSE)))

\* answer_axfr_ixfr: AXFR over TCP is served, IXFR is not implemented.
answer_axfr_ixfr(q, qtype, tcp, serial, rrs) ==
  IF qtype = "AXFR" /\ tcp THEN query_axfr(q, serial, rrs)
  ELSE query_add_optional([q EXCEPT !.axfr_is_done = TRUE], Message("notimpl", <<>>))
=============================================================================
