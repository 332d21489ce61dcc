----------------------------- MODULE MCBidIntake -----------------------------
(***************************************************************************)
(* Two bidders with coins of two denominations, and governance that may    *)
(* move the auction from the first denomination to the second. Bidder 1    *)
(* bids three times with one sequence number and in the other              *)
(* denomination; bidder 2 bids once with a timeout that is negative as a   *)
(* signed number, once between bidder 1's bids and once too large for the  *)
(* lane. Their bundles hold a transaction of their own, of the other       *)
(* bidder, or both.                                                        *)
(***************************************************************************)
EXTENDS BidIntake

MkTx(s, n, p, b) ==
    [sender |-> s, nonce |-> n, priority |-> p, body |-> b, signed |-> TRUE, encodes |-> TRUE]

first  == MkTx(1, 0, 1, 0)
raised == MkTx(1, 0, 3, 0)
again  == MkTx(1, 0, 4, 0)
moved  == MkTx(1, 0, 1, 1)
later  == MkTx(1, 1, 1, 0)
rival  == MkTx(2, 0, 2, 0)
forever == MkTx(2, 0, 4, 1)
large  == MkTx(2, 0, 3, 1)

MCTxs == {first, raised, again, moved, later, rival, forever, large}

own1 == [sender |-> 1, nonce |-> 1]
own2 == [sender |-> 2, nonce |-> 1]
victim == [sender |-> 2, nonce |-> 0]

MCPlain == {own1, own2, victim}

MkBid(d, t, f, b) == [denom |-> d, timeout |-> t, fits |-> f, bundle |-> b]

MCBidOf == [tx \in Txs |-> CASE tx = first -> MkBid(1, 1, TRUE, <<own1>>)
                             [] tx = raised -> MkBid(1, 3, TRUE, <<victim, own1>>)
                             [] tx = again -> MkBid(1, 2, TRUE, <<victim>>)
                             [] tx = moved -> MkBid(2, 3, TRUE, <<own1>>)
                             [] tx = later -> MkBid(2, 3, TRUE, <<victim>>)
                             [] tx = forever -> MkBid(1, 7, TRUE, <<own2>>)
                             [] tx = large -> MkBid(1, 2, FALSE, <<own2>>)
                             [] OTHER -> MkBid(1, 3, TRUE, <<own2>>)]

MkCoin(d, a) == [denom |-> d, amount |-> a]
MkParams(d) == [reserveFee |-> MkCoin(d, 1), minBidIncrement |-> MkCoin(d, 1)]

MCInitParams == MkParams(1)
MCParamUpdates ==
    {MkParams(1), MkParams(2), [reserveFee |-> MkCoin(1, 2), minBidIncrement |-> MkCoin(2, 1)]}

MCInitAccounts ==
    [seq |-> [s \in Senders |-> 0],
     bal |-> [s \in Senders |-> [d \in Denoms |-> IF d = 1 THEN 4 ELSE 1]]]
=============================================================================
