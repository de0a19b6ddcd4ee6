-------------------------------- MODULE Tsig ---------------------------------
(***************************************************************************)
(* The signatures of DNS messages (tsig.c) on both sides of a transfer.    *)
(*                                                                         *)
(* The running hash of a tsig_record is the sequence of what went into it, *)
(* and a MAC is that sequence, with whether only the timers of the TSIG    *)
(* were digested: two MACs are equal when the same was signed in the same  *)
(* way.  A message msg has qr, rcode, tc, rr and tsig, where tsig holds    *)
(* the MAC or nothing; what is hashed is the message without its TSIG.     *)
(***************************************************************************)
EXTENDS Integers, Sequences

NoMac == <<>>
TSIG_NOT_PRESENT == "not_present"
TSIG_OK == "ok"

\* tsig_init_record, tsig_init_query: nothing is signed yet.
tsig_init_query ==
  [status |-> TSIG_NOT_PRESENT, response_count |-> 0, prior |-> NoMac, ctx |-> <<>>, upd |-> 0]

\* tsig_prepare: a new hash, that starts from the last MAC.
tsig_prepare(t) == [t EXCEPT !.ctx = IF t.prior = NoMac THEN <<>> ELSE <<t.prior>>, !.upd = 0]

Unsigned(msg) == [msg EXCEPT !.tsig = NoMac]
tsig_update(t, msg) ==
  [t EXCEPT !.ctx = Append(@, Unsigned(msg)), !.upd = @ + 1,
            !.response_count = IF msg.qr THEN @ + 1 ELSE @]

\* tsig_digest_variables and the end of the hash: only the timers from the second reply on.
Digest(t) == <<t.ctx, t.response_count > 1>>
tsig_sign(t) == [t EXCEPT !.prior = Digest(t)]
\* The MAC that is computed replaces the prior one, whether it is the right one or not.
tsig_verify(t, msg) == msg.tsig = Digest(t)
Verified(t) == [t EXCEPT !.prior = Digest(t)]

\* tsig_find_rr: the TSIG is there or it is not.
tsig_find_rr(t, msg) == [t EXCEPT !.status = IF msg.tsig = NoMac THEN TSIG_NOT_PRESENT ELSE TSIG_OK]

\* xfrd_tsig_sign_request: signs a query, and prepares for the signatures of the reply.
SignedQuery(t, msg) == tsig_sign(tsig_update(tsig_prepare(t), msg))
xfrd_tsig_sign_request(msg) == tsig_prepare(SignedQuery(tsig_init_query, msg))
=============================================================================
