------------------------------- MODULE Builder -------------------------------
(***************************************************************************)
(* The messages and the parameters of x/builder: AuctionBid, which takes a *)
(* bid from the bidder and divides it between the previous proposer and    *)
(* the escrow account, and UpdateParams. Messages are executed one after   *)
(* the other; one that fails or panics is undone as a whole, so it is no   *)
(* step here.                                                              *)
(*                                                                         *)
(* A fee is a fraction of One (10^18 in the code). A negative amount or    *)
(* fee stands for every value that is nil or negative.                     *)
(***************************************************************************)
EXTENDS Integers

CONSTANTS
    Accounts,        \* account addresses
    NoAddress,       \* the nil address
    Authority,       \* who may update the parameters
    Denoms,          \* denominations
    One,             \* the fee that is the whole bid
    Locked,          \* per account and denomination, coins the bank does not let go (vesting)
    ParamChoices,    \* the parameters that may be proposed
    Messages,        \* the MsgAuctionBids that may be sent
    InitBalances     \* the balances the chain may start with

Addresses == Accounts \union {NoAddress}
Coin == [denom: Denoms, amount: Int]
Params == [maxBundleSize: Nat, escrow: Addresses, reserveFee: Coin,
           minBidIncrement: Coin, proposerFee: Int]
MsgAuctionBid == [bidder: Accounts, bid: Coin, txs: Nat]
Balances == [Addresses -> [Denoms -> Nat]]

ASSUME AddressAssumption == NoAddress \notin Accounts /\ Authority \in Accounts
ASSUME OneAssumption == One \in Nat \ {0}
ASSUME LockedAssumption == Locked \in [Accounts -> [Denoms -> Nat]]
ASSUME ChoicesAssumption == ParamChoices \subseteq Params /\ Messages \subseteq MsgAuctionBid
ASSUME BalancesAssumption == InitBalances \subseteq Balances

VARIABLES
    params,      \* the stored parameters
    bal,         \* the balances in the bank module
    rewards      \* what the rewards address provider holds; NoAddress makes it return an error

vars == <<params, bal, rewards>>

-----------------------------------------------------------------------------
(* Validation. *)

ValidateFee(coin) == coin.amount >= 0

\* Mutant: no upper bound.
ValidateProposerFeeUnbounded(fee) == fee >= 0

ValidateProposerFee(fee) == fee >= 0 /\ fee <= One

Validate(p) ==
    /\ p.escrow # NoAddress
    /\ ValidateFee(p.reserveFee)
    /\ ValidateFee(p.minBidIncrement)
    /\ p.minBidIncrement.amount > 0
    /\ p.reserveFee.denom = p.minBidIncrement.denom
    /\ ValidateProposerFee(p.proposerFee)

\* MsgAuctionBid.ValidateBasic, run before a message is executed.
ValidateBasic(msg) == msg.bid.amount >= 0 /\ msg.txs > 0

\* ValidateBidInfo as the ante handler runs it before the execution of a bid, when
\* there is no other bid to beat: it compares with the whole balance.
ValidateBid(msg) ==
    /\ msg.txs <= params.maxBundleSize
    /\ msg.bid.denom = params.reserveFee.denom
    /\ msg.bid.amount >= params.reserveFee.amount
    /\ bal[msg.bidder][msg.bid.denom] >= msg.bid.amount

-----------------------------------------------------------------------------
(* The payment of a bid. *)

\* bankKeeper.SendCoins: nothing, or coins that are not locked.
SendCoins(b, from, to, denom, amount) ==
    LET taken == [b EXCEPT ![from][denom] = @ - amount]
    IN  [ok  |-> amount = 0 \/ b[from][denom] >= Locked[from][denom] + amount,
         bal |-> [taken EXCEPT ![to][denom] = @ + amount]]

\* Mutant: the provider's error is ignored.
RewardsAddressUnchecked(escrow) == rewards

\* The previous proposer or a fixed address, and the escrow account on an error.
RewardsAddress(escrow) == IF rewards = NoAddress THEN escrow ELSE rewards

\* Mutant: the share is rounded up.
ProposerRewardRoundedUp(amount) == (amount * params.proposerFee + One - 1) \div One

ProposerReward(amount) == (amount * params.proposerFee) \div One

\* Mutant: the escrow account's share is computed from the fee and rounded as well.
EscrowRewardRounded(amount) == (amount * (One - params.proposerFee)) \div One

EscrowReward(amount) == amount - ProposerReward(amount)

\* What executing a bid returns and leaves behind. With no fee the first transfer
\* is empty. A negative share, on either side, panics.
Payment(msg) ==
    LET denom  == msg.bid.denom
        reward == ProposerReward(msg.bid.amount)
        rest   == EscrowReward(msg.bid.amount)
        toProposer == SendCoins(bal, msg.bidder, RewardsAddress(params.escrow), denom, reward)
        toEscrow   == SendCoins(toProposer.bal, msg.bidder, params.escrow, denom, rest)
    IN  [ok  |-> /\ msg.txs <= params.maxBundleSize
                 /\ params.proposerFee >= 0 /\ rest >= 0
                 /\ toProposer.ok /\ toEscrow.ok,
         bal |-> toEscrow.bal]

-----------------------------------------------------------------------------
(* The state machine. *)

\* InitGenesis stores what the genesis file says without validating it.
Init ==
    /\ params \in ParamChoices
    /\ bal \in InitBalances
    /\ rewards \in Addresses

AuctionBid(msg) ==
    /\ ValidateBasic(msg)
    /\ Payment(msg).ok
    /\ bal' = Payment(msg).bal
    /\ UNCHANGED <<params, rewards>>

\* UpdateParams, for a message that has passed its ValidateBasic.
UpdateParams(signer, p) ==
    /\ Validate(p)
    /\ signer = Authority
    /\ params' = p
    /\ UNCHANGED <<bal, rewards>>

\* Another block: the proposer of the one before may be known or not.
NewBlock ==
    /\ rewards' \in Addresses
    /\ UNCHANGED <<params, bal>>

Next ==
    \/ \E msg \in Messages : AuctionBid(msg)
    \/ \E signer \in Accounts, p \in ParamChoices : UpdateParams(signer, p)
    \/ NewBlock

Spec == Init /\ [][Next]_vars

-----------------------------------------------------------------------------
(* Properties. *)

Gain(a, denom) == bal'[a][denom] - bal[a][denom]

\* With valid parameters, a bid that passes the ante handler's validation can be
\* paid when it is executed: no transfer fails and no share is negative, whoever
\* the bidder, the previous proposer and the escrow account are. Only coins that
\* are locked (which the ante handler counts and the bank does not) can stop it.
CoveredBidPaid ==
    \A msg \in Messages :
        (/\ Validate(params)
         /\ ValidateBasic(msg)
         /\ ValidateBid(msg)
         /\ Locked[msg.bidder][msg.bid.denom] = 0)
        => Payment(msg).ok

\* A bidder that gets no share itself pays its bid to the last coin, with any
\* parameters: the escrow account's share is the bid less the truncated share of the
\* proposer, so it is whole and its own truncation leaves no remainder with the bidder.
BidPaidInFull ==
    [][\A msg \in Messages :
          (AuctionBid(msg) /\ msg.bidder \notin {params.escrow, RewardsAddress(params.escrow)})
          => Gain(msg.bidder, msg.bid.denom) = -msg.bid.amount]_vars

\* What AuctionBid says of its truncation, for valid parameters and a bid the ante
\* handler lets through: when the proposer's share is not whole, a remainder stays
\* with the bidder.
RemainderStays ==
    [][\A msg \in Messages :
          (/\ Validate(params) /\ ValidateBid(msg) /\ AuctionBid(msg)
           /\ msg.bidder \notin {params.escrow, RewardsAddress(params.escrow)}
           /\ (msg.bid.amount * params.proposerFee) % One # 0)
          => Gain(msg.bidder, msg.bid.denom) > -msg.bid.amount]_vars

\* The escrow account gets at least what the fee leaves of a bid, and a proposer
\* at most its fee and less than a coin short of it, with any parameters and
\* whether the provider knows the proposer or not.
SharesRight ==
    [][\A msg \in Messages : AuctionBid(msg) =>
          LET denom == msg.bid.denom
              due   == msg.bid.amount * params.proposerFee
          IN  /\ msg.bidder # params.escrow =>
                    One * Gain(params.escrow, denom) >= One * msg.bid.amount - due
              /\ rewards \notin {NoAddress, msg.bidder, params.escrow} =>
                    /\ One * Gain(rewards, denom) <= due
                    /\ One * Gain(rewards, denom) > due - One]_vars

\* With valid parameters no bid, and no share of one, goes to the nil address.
NothingStranded ==
    [][Validate(params) => \A denom \in Denoms : Gain(NoAddress, denom) = 0]_vars
==============================================================================
