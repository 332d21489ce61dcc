----------------------------- MODULE BundleCheck -----------------------------
(***************************************************************************)
(* ValidateAuctionBundle as the loop it is, one transaction per step, on   *)
(* every bundle of a bounded length, next to the rule it enforces.         *)
(***************************************************************************)
EXTENDS AuctionBundle, FiniteSets

CONSTANTS
    Signers,     \* who may sign
    MaxBundle    \* the longest bundle considered

ASSUME SignersAssumption == IsFiniteSet(Signers)
ASSUME MaxBundleAssumption == MaxBundle \in Nat

VARIABLES
    bidder, bundleSigners,   \* the arguments
    scan,                    \* the loop state
    index                    \* how many transactions have been looked at

checkVars == <<bidder, bundleSigners, scan, index>>

\* A transaction has at least one signer.
SignerSets == (SUBSET Signers) \ {{}}

Bundles == UNION {[1..n -> SignerSets] : n \in 1..MaxBundle}

CheckInit ==
    /\ bidder \in Signers
    /\ bundleSigners \in Bundles
    /\ scan = StartScan(bidder, bundleSigners[1])
    /\ index = 1

\* One round of the loop; an error leaves it.
ScanNext ==
    /\ scan.ok
    /\ index < Len(bundleSigners)
    /\ scan' = ScanTx(bidder, scan, bundleSigners[index + 1])
    /\ index' = index + 1
    /\ UNCHANGED <<bidder, bundleSigners>>

CheckSpec == CheckInit /\ [][ScanNext]_checkVars

-----------------------------------------------------------------------------
(* Properties. *)

\* Somebody signed all of the transactions lo..hi.
OneSigner(lo, hi) == \E a \in Signers : \A i \in lo..hi : a \in bundleSigners[i]

\* The bidder signed all of the transactions lo..hi.
BidderSigned(lo, hi) == \A i \in lo..hi : bidder \in bundleSigners[i]

\* The rule the code states for the first n transactions: one account signed them
\* all, or one signed a first part of them and the bidder all the rest.
Rule(n) ==
    \/ OneSigner(1, n)
    \/ \E m \in 1..n : OneSigner(1, m) /\ BidderSigned(m + 1, n)

\* The bidder is never in front of somebody else's transaction: a transaction
\* the bidder did not sign comes only after ones signed by its own signer.
NoFrontRunning(n) ==
    \A i \in 1..n : bidder \notin bundleSigners[i] =>
        \E a \in bundleSigners[i] : \A j \in 1..i : a \in bundleSigners[j]

\* Types of the loop state.
CheckTypeOK ==
    /\ bidder \in Signers
    /\ bundleSigners \in Seq(SignerSets)
    /\ scan \in [prevSigners: SUBSET Signers, seenBidder: BOOLEAN, ok: BOOLEAN]
    /\ index \in 1..Len(bundleSigners)

\* After every round the loop's verdict on the transactions it has seen is its rule,
\* with one case refused that the rule allows: when the bidder is among the signers of
\* the first transaction, seenBidder is set from the start and the bidder cannot take
\* over later, so one account must have signed everything.
VerdictRight ==
    scan.ok <=> /\ Rule(index)
                /\ bidder \in bundleSigners[1] => OneSigner(1, index)

\* The rule as the comment of ValidateAuctionBundle has it: a bundle that keeps to it
\* is accepted.
RuleAllowed == Rule(index) => scan.ok

\* A bundle that got through puts no transaction of the bidder before another
\* account's transaction that shares no signer with it.
NotFrontRun == scan.ok => NoFrontRunning(index)
=============================================================================
