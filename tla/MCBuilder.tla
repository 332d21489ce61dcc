------------------------------ MODULE MCBuilder ------------------------------
(***************************************************************************)
(* Three accounts: a is the authority and may be the previous proposer, b  *)
(* has locked coins, e may be the escrow account; all of them may bid. The *)
(* fee is in quarters. Genesis may hold any of the parameters, updates     *)
(* only the valid ones.                                                    *)
(*                                                                         *)
(* The same accounts sign the transactions of bundles. Payments and the    *)
(* check of a bundle share no state, so a behavior of MCSpec has bids and  *)
(* updates, or goes through one bundle.                                    *)
(***************************************************************************)
EXTENDS Builder, BundleCheck

CONSTANTS a, b, e, d1, d2

MCLocked == [acc \in Accounts |-> [d \in Denoms |-> IF acc = b /\ d = d1 THEN 2 ELSE 0]]

MkCoin(d, n) == [denom |-> d, amount |-> n]
MkParams(escrow, reserve, increment, fee) ==
    [maxBundleSize |-> 2, escrow |-> escrow, reserveFee |-> reserve,
     minBidIncrement |-> increment, proposerFee |-> fee]

MCParamChoices ==
    {MkParams(e, MkCoin(d1, 1), MkCoin(d1, 1), fee) : fee \in -1..5}
    \union {MkParams(escrow, MkCoin(d2, 0), MkCoin(d2, 1), 2) : escrow \in {a, NoAddress}}
    \union {MkParams(e, MkCoin(d1, 1), MkCoin(d2, 1), 1),
            MkParams(e, MkCoin(d1, -1), MkCoin(d1, 1), 1),
            MkParams(e, MkCoin(d1, 1), MkCoin(d1, 0), 1)}

MCMessages ==
    {[bidder |-> acc, bid |-> MkCoin(d1, n), txs |-> 1] : acc \in Accounts, n \in -1..5}
    \union {[bidder |-> acc, bid |-> MkCoin(d2, 1), txs |-> 1] : acc \in Accounts}
    \union {[bidder |-> a, bid |-> MkCoin(d1, 1), txs |-> txs] : txs \in {0, 2, 3}}

\* One account owns everything.
MCInitBalances ==
    {[acc \in Addresses |-> [d \in Denoms |-> IF acc # rich THEN 0 ELSE IF d = d1 THEN 5 ELSE 1]]
        : rich \in Accounts}

\* Bids and updates, while the bundle is not looked at.
PaymentInit == Init /\ CheckInit /\ bidder = a /\ bundleSigners = <<{a}>>
PaymentNext == Next /\ bidder = a /\ bundleSigners = <<{a}>> /\ UNCHANGED checkVars

\* Any bundle, with nobody paying.
BundleInit ==
    /\ CheckInit
    /\ params = MkParams(e, MkCoin(d1, 1), MkCoin(d1, 1), 1)
    /\ bal = [acc \in Addresses |-> [d \in Denoms |-> 0]]
    /\ rewards = NoAddress
BundleNext == ScanNext /\ UNCHANGED vars

MCInit == PaymentInit \/ BundleInit
MCNext == PaymentNext \/ BundleNext
MCSpec == MCInit /\ [][MCNext]_<<vars, checkVars>>
==============================================================================
