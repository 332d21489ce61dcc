------------------------------ MODULE BidIntake ------------------------------
(***************************************************************************)
(* The life of bids around the auction lane while the chain moves on: the  *)
(* CheckTx handler admits and rechecks them (blockbuster/lanes/auction/    *)
(* check_tx.go) against the committed accounts, the current parameters of  *)
(* x/builder, the current height and the top bid of the lane               *)
(* (x/builder/ante/ante.go, x/builder/keeper/auction.go); PrepareLane      *)
(* picks the winner and throws out what has become invalid; blocks move    *)
(* coins, sequences, parameters and the height.                            *)
(*                                                                         *)
(* A transaction's priority is the amount it bids; its denomination,       *)
(* timeout, bundle and whether it fits the lane are in BidOf. A bundle is  *)
(* of plain transactions, which the lanes besides the auction's may hold   *)
(* or not. CometBFT's mempool, which rechecks after every block what it    *)
(* still holds, in the order it came, is external. No transaction pays a   *)
(* fee here (ProposalHandler has fees), and who signed a bundle is         *)
(* BundleCheck's.                                                          *)
(***************************************************************************)
EXTENDS LaneMempool, Functions, FiniteSetsExt

SeqExt == INSTANCE SequencesExt

CONSTANTS
    Denoms,         \* denominations
    Plain,          \* the transactions that are no bids
    BidOf,          \* what the bids carry
    TimeoutRange,   \* 2^64 in the code: timeouts are below it
    InitParams,     \* the parameters at genesis
    ParamUpdates,   \* those governance may choose
    InitAccounts,   \* sequences and balances at genesis
    MaxHeight,      \* bound: the last height
    MaxBalance      \* bound: what an account may receive up to

Coin == [denom: Denoms, amount: Nat]
Bid == [denom: Denoms, timeout: 0..(TimeoutRange - 1), fits: BOOLEAN, bundle: Seq(Plain)]

ASSUME BidOfAssumption ==
    /\ TimeoutRange \in Nat \ {0}
    /\ BidOf \in [Txs -> Bid]
    /\ \A tx \in Txs : tx.signed /\ tx.encodes /\ BidOf[tx].bundle # <<>>
ASSUME PlainAssumption == Plain \subseteq [sender: Senders, nonce: Nat]
ASSUME GovernanceAssumption ==
    /\ InitParams \in [reserveFee: Coin, minBidIncrement: Coin]
    /\ ParamUpdates \subseteq [reserveFee: Coin, minBidIncrement: Coin]
ASSUME AccountsAssumption ==
    InitAccounts \in [seq: [Senders -> Nat], bal: [Senders -> [Denoms -> Nat]]]
ASSUME IntakeBoundsAssumption == MaxHeight \in Nat /\ MaxBalance \in Nat

VARIABLES
    lane,      \* the mempool of the auction lane
    held,      \* the plain transactions in the mempools of the other lanes
    comet,     \* CometBFT's mempool: the bids it got accepted, in order
    recheck,   \* the bid it rechecks next, 0 for none
    params,    \* the parameters of x/builder
    acct,      \* the committed sequences and balances
    height,    \* of the last block
    winner     \* the bid in the proposal this node has prepared, if any

vars == <<lane, held, comet, recheck, params, acct, height, winner>>

Init ==
    /\ lane = NewConstructorMempool
    /\ held = {}
    /\ comet = <<>>
    /\ recheck = 0
    /\ params = InitParams
    /\ acct = InitAccounts
    /\ height = 0
    /\ winner = None

-----------------------------------------------------------------------------
(* What the ante handler asks of a bid for the next block. *)

\* uint64 to int64.
ToSigned(timeout) == IF timeout >= TimeoutRange \div 2 THEN timeout - TimeoutRange ELSE timeout

\* Mutant: the height is that of the last block.
ValidateTimeoutLastBlock(tx) == ToSigned(BidOf[tx].timeout) >= height

ValidateTimeout(tx) == ToSigned(BidOf[tx].timeout) >= height + 1

\* Mutant: bids in different denominations are not compared.
OutbidsOwnDenom(tx, top) ==
    /\ params.minBidIncrement.denom = BidOf[tx].denom
    /\ BidOf[top].denom = params.minBidIncrement.denom =>
          tx.priority >= top.priority + params.minBidIncrement.amount

\* bid >= highestBid + minBidIncrement. Adding coins of different denominations
\* panics, and the CheckTx handler makes an error of it.
Outbids(tx, top) ==
    /\ params.minBidIncrement.denom = BidOf[tx].denom
    /\ BidOf[top].denom = params.minBidIncrement.denom
    /\ tx.priority >= top.priority + params.minBidIncrement.amount

\* highestBid is None for the top bid itself and in a proposal.
ValidateAuctionBid(tx, highestBid) ==
    /\ BidOf[tx].denom = params.reserveFee.denom
    /\ tx.priority >= params.reserveFee.amount
    /\ highestBid # None => Outbids(tx, highestBid)
    /\ acct.bal[tx.sender][BidOf[tx].denom] >= tx.priority

\* SigVerificationDecorator, on a bid and on what its bundle adds to it: number i of
\* these comes after i - 1 transactions that each use up a sequence number.
SequenceOK(tx) == acct.seq[tx.sender] = tx.nonce

WithBundle(tx) == <<tx>> \o BidOf[tx].bundle

UsedBefore(txs, s, i) == Cardinality({j \in 1..(i - 1) : txs[j].sender = s})

BundleInSequence(tx) ==
    LET txs == WithBundle(tx)
    IN  \A i \in 2..Len(txs) :
            txs[i].nonce = acct.seq[txs[i].sender] + UsedBefore(txs, txs[i].sender, i)

\* The ante handler in a proposal, on a bid and its bundle.
VerifyTx(tx) ==
    /\ SequenceOK(tx) /\ ValidateTimeout(tx) /\ ValidateAuctionBid(tx, None)
    /\ BundleInSequence(tx)

-----------------------------------------------------------------------------
(* CheckTx. *)

GetTopAuctionTx(mp) == LET it == FirstOf(mp) IN IF it.at = "end" THEN None ELSE Current(it)

\* The bid tx has to beat.
HighestBid(mp, tx) == IF GetTopAuctionTx(mp) = tx THEN None ELSE GetTopAuctionTx(mp)

\* The ante handler on the bundle of a bid whose own checks have passed. A recheck
\* asks the mempool for every transaction, the bundled ones too.
BundleOK(tx, rechecked) ==
    /\ BundleInSequence(tx)
    /\ rechecked => Range(BidOf[tx].bundle) \subseteq held

\* Mutant: a recheck that fails takes the bid out of the lane.
CheckBidEvicting(tx, rechecked) ==
    LET looksUp == /\ SequenceOK(tx)
                   /\ rechecked => LaneContains(lane, tx)
                   /\ ValidateTimeout(tx)
        tob     == IF looksUp THEN LaneSelect(lane) ELSE lane
        ok      == /\ looksUp /\ ValidateAuctionBid(tx, HighestBid(tob.index, tx))
                   /\ BundleOK(tx, rechecked)
    IN  [ok |-> ok, lane |-> IF ok THEN LaneInsert(tob, tx, 0)
                             ELSE IF rechecked THEN LaneRemove(tob, tx) ELSE tob]

\* Mutant: a rechecked bid is not inserted anew.
CheckBidOnce(tx, rechecked) ==
    LET looksUp == /\ SequenceOK(tx)
                   /\ rechecked => LaneContains(lane, tx)
                   /\ ValidateTimeout(tx)
        tob     == IF looksUp THEN LaneSelect(lane) ELSE lane
        ok      == /\ looksUp /\ ValidateAuctionBid(tx, HighestBid(tob.index, tx))
                   /\ BundleOK(tx, rechecked)
    IN  [ok |-> ok, lane |-> IF ok /\ ~rechecked THEN LaneInsert(tob, tx, 0) ELSE tob]

\* The CheckTx handler on a bid (ValidateBidTx): its verdict, and the lane it leaves.
\* A recheck asks the mempool for the bid first, and inserts it anew like a new one;
\* looking up the top bid reorders the lane, also when the bid or its bundle fails
\* thereafter. A bid that fails stays where it is.
CheckBid(tx, rechecked) ==
    LET looksUp == /\ SequenceOK(tx)
                   /\ rechecked => LaneContains(lane, tx)
                   /\ ValidateTimeout(tx)
        tob     == IF looksUp THEN LaneSelect(lane) ELSE lane
        ok      == /\ looksUp /\ ValidateAuctionBid(tx, HighestBid(tob.index, tx))
                   /\ BundleOK(tx, rechecked)
    IN  [ok |-> ok, lane |-> IF ok THEN LaneInsert(tob, tx, 0) ELSE tob]

CheckTx(tx) ==
    /\ recheck = 0
    /\ tx \notin Range(comet)
    /\ \E r \in {CheckBid(tx, FALSE)} :
          /\ lane' = r.lane
          /\ comet' = IF r.ok THEN Append(comet, tx) ELSE comet
    /\ UNCHANGED <<held, recheck, params, acct, height, winner>>

\* After a block CometBFT rechecks its bids and drops those that fail.
RecheckTx ==
    /\ recheck > 0
    /\ \E r \in {CheckBid(comet[recheck], TRUE)} :
          /\ lane' = r.lane
          /\ comet' = IF r.ok THEN comet ELSE SeqExt!RemoveAt(comet, recheck)
          /\ recheck' = IF r.ok /\ recheck < Len(comet) THEN recheck + 1
                        ELSE IF ~r.ok /\ recheck < Len(comet) THEN recheck ELSE 0
    /\ UNCHANGED <<held, params, acct, height, winner>>

\* A plain transaction that BaseApp's CheckTx admits to its lane, and one that its
\* lane throws out of a proposal.
AdmitPlain(p) ==
    /\ recheck = 0
    /\ p \notin held
    /\ acct.seq[p.sender] <= p.nonce
    /\ held' = held \union {p}
    /\ UNCHANGED <<lane, comet, recheck, params, acct, height, winner>>

DropPlain(p) ==
    /\ recheck = 0
    /\ p \in held
    /\ held' = held \ {p}
    /\ UNCHANGED <<lane, comet, recheck, params, acct, height, winner>>

-----------------------------------------------------------------------------
(* PrepareLane. *)

\* The bids of the lane in the order of the iterator.
BidsInOrder(mp) ==
    LET steps == 4 * CountTx(mp) + 1
        on(it) == IF it.at = "Tx" THEN [it EXCEPT !.at = "Next"] ELSE Advance(mp, it)
        walk[i \in 0..steps] ==
            IF i = 0 THEN SelectIterator(mp)
            ELSE CHOOSE it \in {on(prev) : prev \in {walk[i - 1]}} : TRUE
    IN  walk[steps].out

\* The bids it comes by before bid number i that it looks at and rejects.
RejectedBefore(bids, i) ==
    {bids[j] : j \in {k \in 1..(i - 1) : BidOf[bids[k]].fits /\ ~VerifyTx(bids[k])}}

WinnerAt(bids) ==
    {i \in DOMAIN bids : /\ BidOf[bids[i]].fits /\ VerifyTx(bids[i])
                         /\ \A j \in 1..(i - 1) : ~(BidOf[bids[j]].fits /\ VerifyTx(bids[j]))}

RemoveTxsFromLane(cm, txs) == FoldSet(LAMBDA tx, l : LaneRemove(l, tx), cm, txs)

\* Mutant: only a prepared winner has the bids above it removed.
PrepareRemovingAboveWinner ==
    /\ recheck = 0
    /\ winner = None
    /\ \E selected \in {LaneSelect(lane)} : \E bids \in {BidsInOrder(selected.index)} :
          \/ /\ WinnerAt(bids) = {}
             /\ winner' = None
             /\ lane' = selected
          \/ \E i \in WinnerAt(bids) :
             /\ winner' = bids[i]
             /\ lane' = RemoveTxsFromLane(selected, RejectedBefore(bids, i))
    /\ UNCHANGED <<held, comet, recheck, params, acct, height>>

\* The first bid that fits and passes wins; those before it that fit and fail are
\* removed, those that do not fit are neither looked at nor removed.
Prepare ==
    /\ recheck = 0
    /\ winner = None
    /\ \E selected \in {LaneSelect(lane)} : \E bids \in {BidsInOrder(selected.index)} :
          \/ /\ WinnerAt(bids) = {}
             /\ winner' = None
             /\ lane' = RemoveTxsFromLane(selected, RejectedBefore(bids, Len(bids) + 1))
          \/ \E i \in WinnerAt(bids) :
             /\ winner' = bids[i]
             /\ lane' = RemoveTxsFromLane(selected, RejectedBefore(bids, i))
    /\ UNCHANGED <<held, comet, recheck, params, acct, height>>

-----------------------------------------------------------------------------
(* Blocks. *)

\* The round ends without this node's proposal.
NextRound ==
    /\ winner # None
    /\ winner' = None
    /\ UNCHANGED <<lane, held, comet, recheck, params, acct, height>>

\* CometBFT's mempool without the bid of a block: there is one at most, and it
\* holds no bid twice.
Without(txs, done) ==
    LET at == {i \in DOMAIN txs : txs[i] \in done}
    IN  IF at = {} THEN txs ELSE SeqExt!RemoveAt(txs, CHOOSE i \in at : TRUE)

\* A block that executes the bids in done and some plain transactions: BaseApp takes
\* them out of their lanes, CometBFT out of its mempool, which it then rechecks.
Block(done, plain) ==
    /\ recheck = 0
    /\ height < MaxHeight
    /\ height' = height + 1
    /\ winner' = None
    /\ lane' = RemoveTxsFromLane(lane, {tx \in done : LaneContains(lane, tx)})
    /\ held' = held \ plain
    /\ comet' = Without(comet, done)
    /\ recheck' = IF comet' = <<>> THEN 0 ELSE 1

\* A block with a bid, which is paid, and its bundle; the sequences of all are used.
BlockWithBid(tx) ==
    LET txs == WithBundle(tx)
    IN  /\ Block({tx}, Range(BidOf[tx].bundle))
        /\ acct' = [seq |-> [s \in Senders |-> acct.seq[s] + UsedBefore(txs, s, Len(txs) + 1)],
                    bal |-> [acct.bal EXCEPT ![tx.sender][BidOf[tx].denom] = @ - tx.priority]]
        /\ UNCHANGED params

CommitWinner ==
    /\ winner # None
    /\ BlockWithBid(winner)

\* The blocks of other nodes: one with a bid of its own auction, one with a plain
\* transaction, one with some other of an account, one that pays it, one with an
\* update.
CommitOtherBid(tx) ==
    /\ VerifyTx(tx)
    /\ BlockWithBid(tx)

CommitPlain(p) ==
    /\ SequenceOK(p)
    /\ Block({}, {p})
    /\ acct' = [acct EXCEPT !.seq[p.sender] = @ + 1]
    /\ UNCHANGED params

CommitSpend(s, d) ==
    /\ acct.bal[s][d] > 0
    /\ Block({}, {})
    /\ acct' = [acct EXCEPT !.seq[s] = @ + 1, !.bal[s][d] = @ - 1]
    /\ UNCHANGED params

CommitReceive(s, d) ==
    /\ acct.bal[s][d] < MaxBalance
    /\ Block({}, {})
    /\ acct' = [acct EXCEPT !.bal[s][d] = @ + 1]
    /\ UNCHANGED params

\* UpdateParams stores only parameters that pass Validate.
ValidParams(p) ==
    /\ p.minBidIncrement.amount > 0
    /\ p.minBidIncrement.denom = p.reserveFee.denom

CommitUpdateParams(p) ==
    /\ ValidParams(p)
    /\ Block({}, {})
    /\ params' = p
    /\ UNCHANGED acct

Next ==
    \/ \E tx \in Txs : CheckTx(tx) \/ CommitOtherBid(tx)
    \/ \E p \in Plain : AdmitPlain(p) \/ DropPlain(p) \/ CommitPlain(p)
    \/ RecheckTx
    \/ Prepare
    \/ NextRound
    \/ CommitWinner
    \/ \E s \in Senders, d \in Denoms : CommitSpend(s, d) \/ CommitReceive(s, d)
    \/ \E p \in ParamUpdates : CommitUpdateParams(p)

\* CometBFT finishes a recheck, a round ends, and the node keeps its turn as a
\* proposer.
Fairness == WF_vars(RecheckTx) /\ WF_vars(NextRound) /\ WF_vars(Prepare)

Spec == Init /\ [][Next]_vars /\ Fairness

-----------------------------------------------------------------------------
(* Properties. *)

Pooled == TxsOf(lane.index)

\* All pooled bids are in one denomination, whatever governance has changed since
\* they came, because a bid that cannot be compared with the top bid is refused:
\* the comparison of the auction lane's TxPriority, which calls bids in different
\* denominations equal, is a total order on the lane.
OneDenomination == \A a, b \in Pooled : BidOf[a].denom = BidOf[b].denom

\* A prepared winner has not expired in the block it is proposed for, although it
\* was admitted for an earlier one, and no bid in the lane or in a proposal has a
\* timeout that the conversion to int64 turns negative.
WinnerTimely ==
    /\ winner # None => BidOf[winner].timeout >= height + 1
    /\ \A tx \in Pooled \cup ({winner} \ {None}) : ToSigned(BidOf[tx].timeout) >= 0

\* CometBFT holds no later bid with the sender and nonce of its bid number i.
LatestOfKey(txs, i) ==
    \A j \in DOMAIN txs : ScoreKey(txs[j]) = ScoreKey(txs[i]) => j <= i

\* A recheck inserts what it finds in the cache, which can put a replaced bid back
\* in the place of the one that replaced it. Unless a recheck is under way, a pooled
\* bid is nevertheless the latest that CometBFT holds of its sender and nonce, if
\* CometBFT holds any.
LatestPooled ==
    recheck = 0 =>
        \A tx \in Pooled : \A i \in DOMAIN comet :
            ScoreKey(comet[i]) = ScoreKey(tx)
               => \E j \in DOMAIN comet : j >= i /\ comet[j] = tx

\* A node that has rechecked all its bids can propose every one CometBFT still
\* relays: of each sender and nonce the latest that CometBFT has kept is in the lane,
\* whatever a proposal or a replacement took out of the lane before, and whichever
\* rechecks failed for the bid or for a bundled transaction no lane holds any more.
RecheckRestores ==
    [][recheck > 0 /\ recheck' = 0 =>
          \A i \in DOMAIN comet' :
              LatestOfKey(comet', i) => comet'[i] \in TxsOf(lane.index)']_vars

\* A bid that can win now, or that no proposal of this node looks at.
Alive(tx) == VerifyTx(tx) \/ ~BidOf[tx].fits

\* A top bid that expired, lost its funds or its denomination keeps new bids out,
\* but not for good: again and again the top bid is one that can win (or one too
\* large for the lane, which nothing removes), or there is none.
TopRevives == []<>(LET top == GetTopAuctionTx(lane.index) IN top = None \/ Alive(top))
=============================================================================
