-------------------------- MODULE MCProposalHandler --------------------------
(***************************************************************************)
(* Three lanes, auction, free and default, and three accounts. Account 1   *)
(* pays for two transactions, the second with the higher fee; account 2    *)
(* has a free one and a bid; account 3 bids with a bundle that takes the   *)
(* place of account 1's first transaction, and raises its bid. Other nodes *)
(* also propose bytes that do not decode (junk) and a bid among other      *)
(* messages (mixed).                                                       *)
(***************************************************************************)
EXTENDS ProposalHandler

MkTx(s, n, p, b) ==
    [sender |-> s, nonce |-> n, priority |-> p, body |-> b, signed |-> TRUE, encodes |-> TRUE]

pay   == MkTx(1, 0, 1, 0)
pay2  == MkTx(1, 1, 2, 0)
swap  == MkTx(1, 0, 1, 1)
free  == MkTx(2, 0, 0, 0)
bid   == MkTx(3, 0, 2, 0)
raise == MkTx(3, 0, 4, 1)
rival == MkTx(2, 0, 3, 1)
junk  == [MkTx(2, 1, 0, 2) EXCEPT !.encodes = FALSE]
mixed == MkTx(2, 0, 0, 3)

MCTxs == {pay, pay2, swap, free, bid, raise, rival, junk, mixed}

Plain(fee) == [size |-> 1, fee |-> fee, info |-> "none", timeout |-> 0, bundle |-> <<>>]
Bid(timeout, bundle) == [size |-> 1, fee |-> 0, info |-> "bid", timeout |-> timeout, bundle |-> bundle]

MCContent ==
    [tx \in Txs |-> CASE tx \in {pay, swap} -> Plain(1)
                      [] tx = pay2 -> Plain(2)
                      [] tx = free -> Plain(0)
                      [] tx = bid -> Bid(1, <<swap>>)
                      [] tx = raise -> Bid(2, <<swap>>)
                      [] tx = rival -> Bid(2, <<pay, pay2>>)
                      [] tx \in {junk, mixed} -> [Plain(0) EXCEPT !.info = "error"]]

MCMatchHandler ==
    [l \in Lanes |-> CASE l = 1 -> {bid, raise, rival} [] l = 2 -> {free} [] l = 3 -> Txs]

MCMaxTxs == [l \in Lanes |-> 0]

MCMaxBlockSpace == [l \in Lanes |-> IF l = 1 THEN <<1, 2>> ELSE <<0, 1>>]

MCInitState == [seq |-> [s \in Senders |-> 0], bal |-> [s \in Senders |-> IF s = 1 THEN 3 ELSE 4]]

MCSubmitted == {pay, pay2, free, bid, raise, rival}

\* The verdict on another node's proposal depends on the committed state and not on
\* the mempool: it is enough to receive proposals while nothing is pooled.
MCNext ==
    /\ Next
    /\ phase = "idle" /\ phase' = "process" =>
          check = state /\ \A l \in Lanes : lanes[l] = NewConstructorMempool

MCSpec == Init /\ [][MCNext]_vars /\ Fairness
=============================================================================
