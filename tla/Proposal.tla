------------------------------ MODULE Proposal ------------------------------
(***************************************************************************)
(* A block proposal under construction (blockbuster/proposals.go) and the  *)
(* handlers that check a finished one lane by lane                         *)
(* (blockbuster/lane_handlers.go, blockbuster/lanes/auction/abci.go).      *)
(* Lane 1 has the handlers of the auction lane, all others the default     *)
(* ones. A transaction stands for its bytes and for their hash.            *)
(***************************************************************************)
EXTENDS Ante

CONSTANT MaxBlockSpace   \* per lane LegacyDec as <<numerator, denominator>>

ASSUME BlockSpaceAssumption == MaxBlockSpace \in [Lanes -> Nat \X (Nat \ {0})]

NewProposal(maxTxBytes) == [txs |-> <<>>, cache |-> {}, total |-> 0, max |-> maxTxBytes]

\* The bytes of a list of transactions.
SumSize(txs) ==
    LET sum[i \in 0..Len(txs)] == IF i = 0 THEN 0 ELSE sum[i - 1] + TxSize(txs[i])
    IN  sum[Len(txs)]

TxSet(txs) == {txs[i] : i \in DOMAIN txs}

\* GetMaxTxBytesForLane: a ratio of zero means all that is left; any other ratio
\* is taken of the whole block, whatever is left of it.
GetMaxTxBytesForLane(maxTxBytes, totalTxBytes, ratio) ==
    IF ratio[1] = 0
    THEN IF maxTxBytes < totalTxBytes THEN 0 ELSE maxTxBytes - totalTxBytes
    ELSE (ratio[1] * maxTxBytes) \div ratio[2]

LaneMax(p, l) == GetMaxTxBytesForLane(p.max, p.total, MaxBlockSpace[l])

\* UpdateProposal's two size checks.
UpdateError(p, l, txs) ==
    /\ txs # <<>>
    /\ \/ SumSize(txs) > LaneMax(p, l)
       \/ p.total + SumSize(txs) > p.max

\* Mutant: the hashes are not remembered.
UpdateProposalUncached(p, l, txs) ==
    IF UpdateError(p, l, txs) THEN p
    ELSE [p EXCEPT !.txs = @ \o txs, !.total = @ + SumSize(txs)]

UpdateProposal(p, l, txs) ==
    IF UpdateError(p, l, txs) THEN p
    ELSE [p EXCEPT !.txs = @ \o txs, !.cache = @ \cup TxSet(txs), !.total = @ + SumSize(txs)]

-----------------------------------------------------------------------------
(* Checking a proposal. *)

\* Mutants: further bids are not looked for; the block must go on after the bundle.
AuctionCheckOrderFirstBid(txs) ==
    LET n == Len(Bundle(txs[1]))
    IN  IF ~Match(TOBLane, txs[1])
        THEN \A i \in 2..Len(txs) : ~Match(TOBLane, txs[i])
        ELSE /\ Len(txs) >= n + 1
             /\ \A i \in 1..n : ~Match(TOBLane, txs[i + 1]) /\ txs[i + 1] = Bundle(txs[1])[i]

AuctionCheckOrderLonger(txs) ==
    LET n == Len(Bundle(txs[1]))
    IN  IF ~Match(TOBLane, txs[1])
        THEN \A i \in 2..Len(txs) : ~Match(TOBLane, txs[i])
        ELSE /\ Len(txs) > n + 1
             /\ \A i \in 1..n : ~Match(TOBLane, txs[i + 1]) /\ txs[i + 1] = Bundle(txs[1])[i]
             /\ \A i \in (n + 2)..Len(txs) : ~Match(TOBLane, txs[i])

\* The auction lane's CheckOrderHandler: a bid is the first transaction or there is
\* none, and its bundle follows it, in order and complete.
AuctionCheckOrder(txs) ==
    LET n == Len(Bundle(txs[1]))
    IN  IF ~Match(TOBLane, txs[1])
        THEN \A i \in 2..Len(txs) : ~Match(TOBLane, txs[i])
        ELSE /\ Len(txs) >= n + 1
             /\ \A i \in 1..n : ~Match(TOBLane, txs[i + 1]) /\ txs[i + 1] = Bundle(txs[1])[i]
             /\ \A i \in (n + 2)..Len(txs) : ~Match(TOBLane, txs[i])

\* DefaultCheckOrderHandler: the lane's transactions stand together at the front,
\* no one after one of lower priority.
DefaultCheckOrder(l, txs) ==
    \A i \in DOMAIN txs : Match(l, txs[i]) =>
        /\ \A j \in 1..(i - 1) : Match(l, txs[j])
        /\ i > 1 => txs[i - 1].priority >= txs[i].priority

CheckOrder(l, txs) == IF l = TOBLane THEN AuctionCheckOrder(txs) ELSE DefaultCheckOrder(l, txs)

\* How many transactions at the front of txs the lane takes.
LaneShare(l, txs) ==
    IF l = TOBLane
    THEN IF Match(TOBLane, txs[1]) THEN 1 + Len(Bundle(txs[1])) ELSE 0
    ELSE CHOOSE n \in 0..Len(txs) :
            /\ \A i \in 1..n : Match(l, txs[i])
            /\ n < Len(txs) => ~Match(l, txs[n + 1])

\* ProcessLane: verify the lane's share, pass on the rest. The auction lane
\* verifies the bundle the bid names, which CheckOrder has compared with the block.
ProcessLane(l, st, h, txs) ==
    LET n        == LaneShare(l, txs)
        share    == IF l = TOBLane /\ n > 0 THEN <<txs[1]>> \o Bundle(txs[1]) ELSE SubSeq(txs, 1, n)
        verified == AnteVerifyAll(st, h, share)
    IN  [ok |-> verified.ok, st |-> verified.st, rest |-> SubSeq(txs, n + 1, Len(txs))]
=============================================================================
