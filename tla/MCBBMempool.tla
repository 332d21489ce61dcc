----------------------------- MODULE MCBBMempool -----------------------------
(***************************************************************************)
(* Three lanes: an auction lane, a capped lane in the middle and a default *)
(* lane that matches everything. Sender 1's first nonce is used by four    *)
(* transactions, two in each of two lanes, so that replacement happens;    *)
(* sender 2 has one that cannot be encoded, in the place of one that can.  *)
(***************************************************************************)
EXTENDS BBMempool

MkTx(s, n, p, b, e) ==
    [sender |-> s, nonce |-> n, priority |-> p, body |-> b, signed |-> TRUE, encodes |-> e]

bid    == MkTx(1, 1, 2, 0, TRUE)
rebid  == MkTx(1, 1, 1, 3, TRUE)
free2  == MkTx(2, 2, 2, 0, TRUE)
free   == MkTx(1, 2, 1, 0, TRUE)
plain  == MkTx(1, 1, 1, 1, TRUE)
raised == MkTx(1, 1, 2, 2, TRUE)
other  == MkTx(2, 1, 1, 0, TRUE)
broken == MkTx(2, 1, 1, 1, FALSE)
unsigned == [other EXCEPT !.signed = FALSE]

MCTxs == {bid, rebid, free2, free, plain, raised, other, broken, unsigned}

MCMatchHandler ==
    [l \in Lanes |-> CASE l = 1 -> {bid, rebid} [] l = 2 -> {bid, free, free2, other} [] l = 3 -> Txs]

MCMaxTxs == [l \in Lanes |-> IF l = 2 THEN 2 ELSE 0]
=============================================================================
