-------------------------------- MODULE Ante --------------------------------
(***************************************************************************)
(* The ante handler every proposal lane and CheckTx run a transaction      *)
(* through (tests/app/ante.go) on the part of the application state it     *)
(* reads and writes: the sequence number and the balance of every account. *)
(* The decorators of the SDK are external and modelled by what the chain   *)
(* needs of them; the last one, BuilderDecorator (x/builder/ante/ante.go), *)
(* validates bids against the auction parameters of x/builder.             *)
(*                                                                         *)
(* One denomination; a bid's priority in the auction lane is the amount    *)
(* bid, any other transaction's priority is its fee. The bidder is the     *)
(* sender of the bid.                                                      *)
(***************************************************************************)
EXTENDS LaneRegistry, AuctionBundle

CONSTANTS
    Content,                 \* what a transaction carries
    FreeLanes,               \* the lanes whose transactions pay no fee
    MaxBundleSize,           \* the parameters of x/builder
    ReserveFee,
    MinBidIncrement,
    FrontRunningProtection

\* info is what GetAuctionBidInfo makes of a transaction: no bid, a bid, or an error
\* (several messages next to a bid, or a bundle that does not decode).
TxContent == [size: Nat \ {0}, fee: Nat, info: {"none", "bid", "error"},
              timeout: Nat, bundle: Seq(Txs)]

ASSUME ContentAssumption ==
    /\ Content \in [Txs -> TxContent]
    /\ \A tx \in Txs : Content[tx].info # "bid" => tx.priority = Content[tx].fee
    /\ \A tx \in Txs : \A i \in DOMAIN Content[tx].bundle : Content[tx].bundle[i].encodes
    /\ MatchHandler[TOBLane] = {tx \in Txs : Content[tx].info = "bid"}
ASSUME FreeLanesAssumption == FreeLanes \subseteq Lanes
ASSUME ParamsAssumption ==
    /\ MaxBundleSize \in Nat
    /\ ReserveFee \in Nat
    /\ MinBidIncrement \in Nat \ {0}
    /\ FrontRunningProtection \in BOOLEAN

IsBid(tx) == Content[tx].info = "bid"
Bundle(tx) == Content[tx].bundle
TxSize(tx) == Content[tx].size

AccountState == [seq: [Senders -> Nat], bal: [Senders -> Nat]]

\* What a decorator does to a state: it goes on with the state it leaves, or it
\* fails, and what it and the decorators before it wrote stays in the store.
Pass(st) == [ok |-> TRUE, st |-> st]
Fail(st) == [ok |-> FALSE, st |-> st]

-----------------------------------------------------------------------------
(* The decorators. *)

\* Mutant: the balance is not checked.
DeductFeeUnchecked(st, tx) ==
    IF \E l \in FreeLanes : Match(l, tx) THEN Pass(st)
    ELSE Pass([st EXCEPT !.bal[tx.sender] = @ - Content[tx].fee])

\* DeductFeeDecorator behind IgnoreDecorator.
DeductFee(st, tx) ==
    IF \E l \in FreeLanes : Match(l, tx) THEN Pass(st)
    ELSE IF st.bal[tx.sender] < Content[tx].fee THEN Fail(st)
    ELSE Pass([st EXCEPT !.bal[tx.sender] = @ - Content[tx].fee])

\* SigVerificationDecorator and IncrementSequenceDecorator.
UseSequence(st, tx) ==
    IF ~tx.signed \/ st.seq[tx.sender] # tx.nonce THEN Fail(st)
    ELSE Pass([st EXCEPT !.seq[tx.sender] = @ + 1])

\* The bid to beat when there is none.
NoTopBid == -1

ValidateAuctionBid(st, bidder, bid, topBid) ==
    /\ bid >= ReserveFee
    /\ topBid # NoTopBid => bid >= topBid + MinBidIncrement
    /\ st.bal[bidder] >= bid

ValidateBidInfo(st, tx, topBid) ==
    /\ Len(Bundle(tx)) <= MaxBundleSize
    /\ ValidateAuctionBid(st, tx.sender, tx.priority, topBid)
    /\ FrontRunningProtection =>
          ValidateAuctionBundle(tx.sender, [i \in DOMAIN Bundle(tx) |-> {Bundle(tx)[i].sender}])

\* BuilderDecorator.AnteHandle for a transaction to be executed at height h, from
\* where it has validated the timeout and knows the bid to beat.
Timely(h, tx) == IsBid(tx) => Content[tx].timeout >= h

BuilderAnteHandle(st, h, tx, topBid) ==
    /\ Content[tx].info # "error"
    /\ Timely(h, tx)
    /\ IsBid(tx) => ValidateBidInfo(st, tx, topBid)

\* The decorators before the builder's.
SdkAnteHandler(st, tx) ==
    LET fee == DeductFee(st, tx)
    IN  IF fee.ok THEN UseSequence(fee.st, tx) ELSE fee

\* The whole chain. (CHOOSE from a singleton names an intermediate result, here sdk,
\* so that it is evaluated once.)
AnteHandler(st, h, tx, topBid) ==
    CHOOSE r \in {IF sdk.ok /\ BuilderAnteHandle(sdk.st, h, tx, topBid) THEN sdk ELSE Fail(sdk.st) :
                     sdk \in {SdkAnteHandler(st, tx)}} : TRUE

\* In a proposal a bid is not compared with the mempool (AnteVerifyTx).
AnteVerifyTx(st, h, tx) == AnteHandler(st, h, tx, NoTopBid)

\* Transactions verified one after the other in one store, up to the first error.
AnteVerifyAll(st, h, txs) ==
    LET run[i \in 0..Len(txs)] ==
            IF i = 0 THEN Pass(st)
            ELSE CHOOSE r \in {IF prev.ok THEN AnteVerifyTx(prev.st, h, txs[i]) ELSE prev :
                                  prev \in {run[i - 1]}} : TRUE
    IN  run[Len(txs)]

\* TOBLane.VerifyTx: the bid, then its bundle.
VerifyTx(st, h, bid) == AnteVerifyAll(st, h, <<bid>> \o Bundle(bid))
=============================================================================
