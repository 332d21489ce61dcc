--------------------------- MODULE ProposalHandler ---------------------------
(***************************************************************************)
(* A node building and checking blocks: the CheckTx handler of the auction *)
(* lane and BaseApp fill the lanes, ChainPrepareLanes builds a proposal    *)
(* lane by lane, ChainProcessLanes checks one, its own or another node's,  *)
(* and a block that passed is executed (blockbuster/abci/abci.go,          *)
(* blockbuster/lane_abci.go, blockbuster/lanes/auction/abci.go and         *)
(* check_tx.go).                                                           *)
(*                                                                         *)
(* The ABCI calls of a node are serialised. CheckTx and the execution of a *)
(* block are one step each; preparing takes one step per transaction a     *)
(* lane looks at, checking one step per lane, and between any two of these *)
(* steps of a lane it may panic.                                           *)
(***************************************************************************)
EXTENDS Proposal

CONSTANTS
    Submitted,      \* the transactions clients send to this node
    BlockSizes,     \* RequestPrepareProposal.MaxTxBytes
    InitState,      \* the accounts at genesis
    MaxHeight,      \* bound: how many blocks are executed
    MaxForeign      \* bound: the length of a proposal by another node

ASSUME SubmittedAssumption == Submitted \subseteq Txs
ASSUME BlockSizesAssumption == BlockSizes \subseteq Nat
ASSUME InitStateAssumption == InitState \in AccountState
ASSUME BoundsAssumption == MaxHeight \in Nat /\ MaxForeign \in Nat

VARIABLES
    lanes,    \* the mempool of every lane
    state,    \* the committed accounts
    check,    \* BaseApp's check state
    height,   \* of the last block
    phase,    \* "idle", "prepare", "process", "accepted" or "rejected"
    prop,     \* the proposal being built
    prep,     \* ChainPrepareLanes: where it is
    proc      \* ChainProcessLanes: where it is

vars == <<lanes, state, check, height, phase, prop, prep, proc>>

mempool == <<lanes, check>>
chain   == <<state, height>>

-----------------------------------------------------------------------------
(* CheckTx. *)

\* GetTopAuctionTx: the bid tx has to beat, which is none if tx is that bid itself.
TopBid(mp, tx) ==
    LET it == FirstOf(mp)
    IN  IF it.at = "end" \/ Current(it) = tx THEN NoTopBid ELSE Current(it).priority

\* BaseApp.CheckTx for a transaction that is not a bid: the ante handler runs on
\* the check state, and what passes is inserted into the lanes that match.
CheckTx(tx) ==
    LET r == AnteHandler(check, height + 1, tx, NoTopBid)
    IN  /\ phase = "idle"
        /\ Content[tx].info = "none"
        /\ r.ok
        /\ check' = r.st
        /\ lanes' = [l \in Lanes |-> IF Match(l, tx) THEN LaneInsert(lanes[l], tx, MaxTxs[l])
                                     ELSE lanes[l]]
        /\ UNCHANGED <<chain, phase, prop, prep, proc>>

\* A recheck of one after a block: the ante handler also asks whether some lane's
\* mempool knows it. What passes is in its lane already; what fails stays there, and
\* CometBFT forgets it.
RecheckTx(tx) ==
    LET r == AnteHandler(check, height + 1, tx, NoTopBid)
    IN  /\ phase = "idle"
        /\ Content[tx].info = "none"
        /\ \E l \in Lanes : LaneContains(lanes[l], tx)
        /\ r.ok
        /\ check' = r.st
        /\ UNCHANGED <<lanes, chain, phase, prop, prep, proc>>

\* ValidateBidTx: the bid and its bundle pass the ante handler on the committed
\* state, and no bundled transaction is itself a bid.
ValidateBidTx(tx, topBid) ==
    LET r == AnteHandler(state, height + 1, tx, topBid)
    IN  /\ r.ok
        /\ \A i \in DOMAIN Bundle(tx) : ~IsBid(Bundle(tx)[i])
        /\ AnteVerifyAll(r.st, height + 1, Bundle(tx)).ok

\* CheckTxHandler.CheckTx for a bid. Looking up the top bid reorders the lane.
CheckBid(tx) ==
    LET looksUp == SdkAnteHandler(state, tx).ok /\ Timely(height + 1, tx)
        tob     == IF looksUp THEN LaneSelect(lanes[TOBLane]) ELSE lanes[TOBLane]
        valid   == looksUp /\ ValidateBidTx(tx, TopBid(tob.index, tx))
    IN  /\ phase = "idle"
        /\ IsBid(tx)
        /\ lanes' = [lanes EXCEPT ![TOBLane] =
                        IF valid THEN LaneInsert(tob, tx, MaxTxs[TOBLane]) ELSE tob]
        /\ UNCHANGED <<check, chain, phase, prop, prep, proc>>

-----------------------------------------------------------------------------
(* ChainPrepareLanes. *)

\* A lane is entered with the store the lanes before it left (ctx). While it works,
\* laneCtx is its cached store, txs and remove are what it selected and rejected.
NoPrep == [lane |-> 0, ctx |-> InitState, laneCtx |-> InitState, it |-> NoIterator,
           txs |-> <<>>, remove |-> <<>>]

\* The call of lane l: Select reorders its mempool and gives the first transaction.
EnterLane(pools, l, ctx) ==
    IF l > NumLanes THEN /\ prep' = [NoPrep EXCEPT !.lane = l, !.ctx = ctx, !.laneCtx = ctx]
                         /\ lanes' = pools
    ELSE \E selected \in {LaneSelect(pools[l])} :
            /\ lanes' = [pools EXCEPT ![l] = selected]
            /\ prep' = [lane |-> l, ctx |-> ctx, laneCtx |-> ctx, it |-> SelectIterator(selected.index),
                        txs |-> <<>>, remove |-> <<>>]

PrepareProposal(maxTxBytes) ==
    /\ phase = "idle"
    /\ height < MaxHeight
    /\ phase' = "prepare"
    /\ prop' = NewProposal(maxTxBytes)
    /\ EnterLane(lanes, 1, state)
    /\ UNCHANGED <<check, chain, proc>>

\* A lane of the default handlers, or the auction lane, looks at a transaction.
Looking == phase = "prepare" /\ prep.it.at = "Tx"
LookingAtTx == Looking /\ prep.lane # TOBLane
LookingAtBid == Looking /\ prep.lane = TOBLane

Pool == lanes[prep.lane].index
NextTx == [prep.it EXCEPT !.at = "Next"]
NothingElse == UNCHANGED <<mempool, chain, phase, prop, proc>>

\* The iterator looks for the next transaction.
Walk ==
    /\ phase = "prepare"
    /\ prep.it.at \in {"iteratePriority", "Next"}
    /\ prep' = [prep EXCEPT !.it = Advance(Pool, @)]
    /\ NothingElse

\* DefaultPrepareLaneHandler: a transaction that does not belong here, or fails the
\* ante handler, is rejected. It runs on the lane's store, and what it wrote stays.
Belongs(tx) == tx.encodes /\ Match(prep.lane, tx)
Fits(tx) == SumSize(prep.txs) + TxSize(tx) <= LaneMax(prop, prep.lane)
Verified(tx) == AnteVerifyTx(prep.laneCtx, height + 1, tx)

RejectTx(tx) ==
    /\ LookingAtTx
    /\ tx = Current(prep.it)
    /\ Belongs(tx) => tx \notin prop.cache /\ Fits(tx) /\ ~Verified(tx).ok
    /\ prep' = [prep EXCEPT !.it = NextTx, !.remove = Append(@, tx),
                            !.laneCtx = IF Belongs(tx) THEN Verified(tx).st ELSE @]
    /\ NothingElse

\* Mutant: the loop continues without moving the iterator.
SkipTxStays(tx) ==
    /\ LookingAtTx
    /\ tx = Current(prep.it)
    /\ Belongs(tx) /\ tx \in prop.cache
    /\ prep' = prep
    /\ NothingElse

\* One that is in the proposal already is skipped.
SkipTx(tx) ==
    /\ LookingAtTx
    /\ tx = Current(prep.it)
    /\ Belongs(tx) /\ tx \in prop.cache
    /\ prep' = [prep EXCEPT !.it = NextTx]
    /\ NothingElse

\* The first one that does not fit ends the lane.
LaneFull(tx) ==
    /\ LookingAtTx
    /\ tx = Current(prep.it)
    /\ Belongs(tx) /\ tx \notin prop.cache /\ ~Fits(tx)
    /\ prep' = [prep EXCEPT !.it = NoIterator]
    /\ NothingElse

SelectTx(tx) ==
    /\ LookingAtTx
    /\ tx = Current(prep.it)
    /\ Belongs(tx) /\ tx \notin prop.cache /\ Fits(tx) /\ Verified(tx).ok
    /\ prep' = [prep EXCEPT !.it = NextTx, !.txs = Append(@, tx), !.laneCtx = Verified(tx).st]
    /\ NothingElse

\* The auction lane's PrepareLaneHandler asks only whether the bid itself fits; a
\* bid that is too large or in the proposal with a part of its bundle is skipped.
BidFits(bid) == TxSize(bid) <= LaneMax(prop, TOBLane)
BundleInProposal(bid) == TxSet(Bundle(bid)) \cap prop.cache # {}
BidVerified(bid) == VerifyTx(prep.laneCtx, height + 1, bid)

SkipBid(bid) ==
    /\ LookingAtBid
    /\ bid = Current(prep.it)
    /\ bid.encodes
    /\ \/ bid \in prop.cache
       \/ ~BidFits(bid)
       \/ BidVerified(bid).ok /\ BundleInProposal(bid)
    /\ prep' = [prep EXCEPT !.it = NextTx]
    /\ NothingElse

\* A bid is verified in a cached store of its own, dropped if it fails.
RejectBid(bid) ==
    /\ LookingAtBid
    /\ bid = Current(prep.it)
    /\ bid.encodes => BidFits(bid) /\ bid \notin prop.cache /\ ~BidVerified(bid).ok
    /\ prep' = [prep EXCEPT !.it = NextTx, !.remove = Append(@, bid)]
    /\ NothingElse

\* The first bid that passes wins: it and its bundle are the lane's part.
SelectBid(bid) ==
    /\ LookingAtBid
    /\ bid = Current(prep.it)
    /\ bid.encodes /\ bid \notin prop.cache /\ BidFits(bid)
    /\ BidVerified(bid).ok /\ ~BundleInProposal(bid)
    /\ prep' = [prep EXCEPT !.it = NoIterator, !.txs = <<bid>> \o Bundle(bid),
                            !.laneCtx = BidVerified(bid).st]
    /\ NothingElse

\* PrepareLane after its handler: what was rejected leaves the lane's mempool, the
\* proposal takes the lane's part, and the next lane goes on in the lane's store. If
\* the part is too large the lane fails, and the next lane goes on without it.
RemoveTxsFromLane(cm, txs) ==
    LET run[i \in 0..Len(txs)] == IF i = 0 THEN cm ELSE LaneRemove(run[i - 1], txs[i])
    IN  run[Len(txs)]

FinishLane ==
    /\ phase = "prepare"
    /\ prep.lane \in Lanes
    /\ prep.it.at = "end"
    /\ prop' = UpdateProposal(prop, prep.lane, prep.txs)
    /\ \E cm \in {RemoveTxsFromLane(lanes[prep.lane], prep.remove)} :
          EnterLane([lanes EXCEPT ![prep.lane] = cm], prep.lane + 1,
                    IF UpdateError(prop, prep.lane, prep.txs) THEN prep.ctx ELSE prep.laneCtx)
    /\ UNCHANGED <<check, chain, phase, proc>>

\* Mutant: what the lane wrote before it panicked is kept.
LanePanicsKeepingStore ==
    /\ phase = "prepare"
    /\ prep.lane \in Lanes
    /\ EnterLane(lanes, prep.lane + 1, prep.laneCtx)
    /\ UNCHANGED <<check, chain, phase, prop, proc>>

\* A panic anywhere in the lane's own work: the recover skips the lane.
LanePanics ==
    /\ phase = "prepare"
    /\ prep.lane \in Lanes
    /\ EnterLane(lanes, prep.lane + 1, prep.ctx)
    /\ UNCHANGED <<check, chain, phase, prop, proc>>

-----------------------------------------------------------------------------
(* ProcessProposal: the proposal of this node or of another one. *)

NoProc == [own |-> FALSE, txs |-> <<>>, rest |-> <<>>, lane |-> 0, ctx |-> InitState]

StartProcess(own, txs) ==
    /\ phase' = "process"
    /\ proc' = [own |-> own, txs |-> txs, rest |-> txs, lane |-> 1, ctx |-> state]

Propose ==
    /\ phase = "prepare"
    /\ prep.lane > NumLanes
    /\ StartProcess(TRUE, prop.txs)
    /\ prop' = NewProposal(0)
    /\ prep' = NoPrep
    /\ UNCHANGED <<mempool, chain>>

ReceiveProposal ==
    /\ phase = "idle"
    /\ height < MaxHeight
    /\ \E n \in 1..MaxForeign : \E txs \in [1..n -> Txs] : StartProcess(FALSE, txs)
    /\ UNCHANGED <<mempool, chain, prop, prep>>

Decide(verdict) == phase' = verdict /\ UNCHANGED proc

\* Bytes that do not decode reject the proposal.
Undecodable == proc.lane = 1 /\ \E i \in DOMAIN proc.txs : ~proc.txs[i].encodes

\* One lane's turn; with nothing left, or only the terminator left, it is accepted.
ProcessLaneStep ==
    /\ phase = "process"
    /\ IF Undecodable THEN Decide("rejected")
       ELSE IF proc.rest = <<>> \/ proc.lane > NumLanes THEN Decide("accepted")
       ELSE IF ~CheckOrder(proc.lane, proc.rest) THEN Decide("rejected")
       ELSE \E r \in {ProcessLane(proc.lane, proc.ctx, height + 1, proc.rest)} :
               IF ~r.ok THEN Decide("rejected")
               ELSE /\ proc' = [proc EXCEPT !.lane = @ + 1, !.rest = r.rest, !.ctx = r.st]
                    /\ UNCHANGED phase
    /\ UNCHANGED <<mempool, chain, prop, prep>>

\* A lane that panics rejects the proposal.
ProcessPanics ==
    /\ phase = "process"
    /\ phase' = "rejected"
    /\ proc' = [proc EXCEPT !.lane = 0]
    /\ UNCHANGED <<mempool, chain, prop, prep>>

\* The round ends without a block.
NextRound ==
    /\ phase \in {"accepted", "rejected"}
    /\ phase' = "idle"
    /\ proc' = NoProc
    /\ UNCHANGED <<mempool, chain, prop, prep>>

-----------------------------------------------------------------------------
(* Execution of a block, by BaseApp. *)

\* A transaction that fails its ante handler changes nothing; a bid pays its amount
\* if the bidder has it.
Deliver(st, tx) ==
    LET r == AnteVerifyTx(st, height + 1, tx)
    IN  IF ~r.ok THEN st
        ELSE IF IsBid(tx) /\ r.st.bal[tx.sender] >= tx.priority
             THEN [r.st EXCEPT !.bal[tx.sender] = @ - tx.priority] ELSE r.st

\* The transactions of a block one after the other: the accounts they leave, and
\* those whose ante handler passed, which BaseApp takes out of the mempool.
DeliverAll(st, txs) ==
    LET run[i \in 0..Len(txs)] ==
            IF i = 0 THEN [st |-> st, done |-> <<>>]
            ELSE LET prev == run[i - 1]
                 IN  [st   |-> Deliver(prev.st, txs[i]),
                      done |-> IF AnteVerifyTx(prev.st, height + 1, txs[i]).ok
                               THEN Append(prev.done, txs[i]) ELSE prev.done]
    IN  run[Len(txs)]

\* BBMempool.Remove of these, on one lane.
RemoveKnown(cm, txs) ==
    LET run[i \in 0..Len(txs)] ==
            IF i = 0 THEN cm
            ELSE CHOOSE l \in {IF LaneContains(prev, txs[i]) THEN LaneRemove(prev, txs[i]) ELSE prev :
                                  prev \in {run[i - 1]}} : TRUE
    IN  run[Len(txs)]

Commit ==
    /\ phase = "accepted"
    /\ phase' = "idle"
    /\ state' = DeliverAll(state, proc.txs).st
    /\ check' = state'
    /\ height' = height + 1
    /\ lanes' = [l \in Lanes |-> RemoveKnown(lanes[l], DeliverAll(state, proc.txs).done)]
    /\ proc' = NoProc
    /\ UNCHANGED <<prop, prep>>

-----------------------------------------------------------------------------

Init ==
    /\ lanes = [l \in Lanes |-> NewConstructorMempool]
    /\ state = InitState
    /\ check = InitState
    /\ height = 0
    /\ phase = "idle"
    /\ prop = NewProposal(0)
    /\ prep = NoPrep
    /\ proc = NoProc

Look(tx) ==
    \/ RejectTx(tx) \/ SkipTx(tx) \/ LaneFull(tx) \/ SelectTx(tx)
    \/ SkipBid(tx) \/ RejectBid(tx) \/ SelectBid(tx)

Next ==
    \/ \E tx \in Submitted : CheckTx(tx) \/ RecheckTx(tx) \/ CheckBid(tx)
    \/ \E max \in BlockSizes : PrepareProposal(max)
    \/ Walk
    \/ \E tx \in Submitted : Look(tx)
    \/ FinishLane
    \/ LanePanics
    \/ Propose
    \/ ReceiveProposal
    \/ ProcessLaneStep
    \/ ProcessPanics
    \/ NextRound
    \/ Commit

Spec == Init /\ [][Next]_vars

\* A call, once made, runs to its end: its goroutine is scheduled.
Fairness ==
    /\ WF_vars(Walk)
    /\ WF_vars(\E tx \in Submitted : Look(tx))
    /\ WF_vars(FinishLane)
    /\ WF_vars(Propose)
    /\ WF_vars(ProcessLaneStep)

FairSpec == Spec /\ Fairness

-----------------------------------------------------------------------------
(* Properties. *)

TypeOK ==
    /\ \A l \in Lanes : PoolType(lanes[l].index) /\ lanes[l].txCache \subseteq Txs
    /\ state \in AccountState /\ check \in AccountState
    /\ height \in 0..MaxHeight
    /\ phase \in {"idle", "prepare", "process", "accepted", "rejected"}
    /\ prop \in [txs: Seq(Txs), cache: SUBSET Txs, total: Nat, max: Nat]
    /\ prep.lane \in 0..(NumLanes + 1)
    /\ prep.ctx \in AccountState /\ prep.laneCtx \in AccountState
    /\ prep.txs \in Seq(Txs) /\ prep.remove \in Seq(Txs)
    /\ proc.lane \in 0..(NumLanes + 1)
    /\ proc.txs \in Seq(Txs) /\ proc.rest \in Seq(Txs)

\* A proposal's running total and its cache are those of its transactions; it
\* holds no transaction twice, in two lanes, in a bundle and a lane, or otherwise;
\* and it never outgrows the block.
ProposalConsistent ==
    /\ prop.total = SumSize(prop.txs)
    /\ prop.cache = TxSet(prop.txs)
    /\ Cardinality(prop.cache) = Len(prop.txs)
    /\ prop.total <= prop.max

\* Whatever lanes have failed, panicked or rejected transactions on the way, what
\* has been selected so far passes the ante handler in this order from the
\* committed state.
ProposalVerified ==
    phase = "prepare" => AnteVerifyAll(state, height + 1, prop.txs \o prep.txs).ok

\* The lane that owns a transaction outside a bundle.
LaneOf(tx) == CHOOSE l \in Lanes : Match(l, tx)

\* The transactions after the winning bid's bundle.
AfterAuction(txs) ==
    IF txs # <<>> /\ IsBid(txs[1]) THEN SubSeq(txs, Len(Bundle(txs[1])) + 2, Len(txs)) ELSE txs

\* A block is laid out: at most one bid, in front, followed by all of its bundle in
\* order, then the other lanes' transactions, lane after lane.
LaidOut(txs) ==
    LET rest == AfterAuction(txs)
    IN  /\ \A i \in 2..Len(txs) : ~IsBid(txs[i])
        /\ txs # <<>> /\ IsBid(txs[1]) =>
              LET n == Len(Bundle(txs[1]))
              IN  Len(txs) > n /\ Bundle(txs[1]) = SubSeq(txs, 2, n + 1)
        /\ \A i \in 2..Len(rest) : LaneOf(rest[i - 1]) <= LaneOf(rest[i])

\* Within a lane no transaction is worth more than the one before it.
FeesDescend(txs) ==
    LET rest == AfterAuction(txs)
    IN  \A i \in 2..Len(rest) :
            LaneOf(rest[i - 1]) = LaneOf(rest[i]) => rest[i - 1].priority >= rest[i].priority

\* No block is accepted, whoever proposed it, unless every one of its transactions
\* passes the ante handler in order, it is laid out and its fees descend.
AcceptedSound ==
    phase = "accepted" =>
        /\ AnteVerifyAll(state, height + 1, proc.txs).ok
        /\ LaidOut(proc.txs)
        /\ FeesDescend(proc.txs)

\* Nothing else is held against a block: one that a lane rejects has a transaction
\* that does not decode or does not pass, is not laid out, or has a rising fee.
RejectedForCause ==
    phase = "rejected" /\ proc.lane # 0 =>
        \/ \E i \in DOMAIN proc.txs : ~proc.txs[i].encodes
        \/ ~AnteVerifyAll(state, height + 1, proc.txs).ok
        \/ ~LaidOut(proc.txs)
        \/ ~FeesDescend(proc.txs)

\* A proposal this node prepared and then checked on the same state was rejected
\* by a lane.
RejectsOwn == phase = "rejected" /\ proc.own /\ proc.lane # 0

\* The only reason a node has to reject its own proposal is the order of the fees.
OwnRejectedForFees == RejectsOwn => ~FeesDescend(proc.txs)

\* A node accepts what it proposed.
OwnAccepted == ~RejectsOwn

\* The bids of the auction lane that no earlier bid of their bidder precedes.
OpenBids ==
    LET bids == TxsOf(lanes[TOBLane].index)
    IN  {b \in bids : \A c \in bids : c.sender = b.sender => c.nonce >= b.nonce}

\* The auction lane is done and chose a bid.
Winner == prop.txs[1]
AuctionWon == phase = "prepare" /\ prep.lane > TOBLane /\ prop.txs # <<>> /\ IsBid(Winner)

\* The highest bid wins: what is left in the lane above the winner does not fit.
HighestBidWins ==
    AuctionWon => \A b \in OpenBids :
        b.priority > Winner.priority => TxSize(b) > LaneMax(NewProposal(prop.max), TOBLane)

\* No key of the auction lane's sender lists is out of date (no bid was replaced by
\* one of another amount).
TOBKeysFresh ==
    LET index == lanes[TOBLane].index
    IN  \A s \in DOMAIN index.senderIndices : \A n \in DOMAIN index.senderIndices[s] :
            index.senderIndices[s][n].priority = index.senderIndices[s][n].tx.priority

\* The highest bid wins an auction in which no bid has been replaced.
HighestFreshBidWins == TOBKeysFresh => HighestBidWins

\* A bid that would have fitted with its whole bundle and passes the ante handler.
Eligible(b) ==
    /\ TxSize(b) + SumSize(Bundle(b)) <= LaneMax(prop, TOBLane)
    /\ VerifyTx(state, height + 1, b).ok

\* When the auction lane comes to its end and some bid was eligible, there is a
\* winner.
AuctionServed ==
    [][FinishLane /\ prep.lane = TOBLane /\ (\E b \in OpenBids : Eligible(b))
          => prop'.txs # <<>>]_vars

\* A lane rejects, and removes from its mempool, only transactions that fail the
\* ante handler after those selected before them.
OnlyInvalidRejected ==
    [][\A tx \in Submitted : RejectTx(tx) =>
          LET before == AnteVerifyAll(state, height + 1, prop.txs \o prep.txs)
          IN  ~AnteVerifyTx(before.st, height + 1, tx).ok]_vars

\* A proposal that is being built or checked is decided, whatever the lanes do.
ProposalDecided == (phase \in {"prepare", "process"}) ~> (phase \in {"accepted", "rejected"})
=============================================================================
