---------------------------- MODULE AuctionBundle ----------------------------
(***************************************************************************)
(* Front-running protection (x/builder/keeper/auction.go,                  *)
(* ValidateAuctionBundle): who may have signed the transactions of a       *)
(* bundle, in which order. Each transaction has a set of signers.          *)
(***************************************************************************)
EXTENDS Integers, Sequences

\* Mutant: whether the bidder signed the first transaction is forgotten.
StartScanUnaware(bidder, first) ==
    [prevSigners |-> first, seenBidder |-> FALSE, ok |-> TRUE]

\* The loop state: the signers common to the transactions of the current run,
\* whether the bidder has been met, and whether the bundle is still valid.
StartScan(bidder, first) ==
    [prevSigners |-> first, seenBidder |-> bidder \in first, ok |-> TRUE]

\* Mutant: the bidder need not have signed the transaction it takes over at.
ScanTxUnchecked(bidder, scan, txSigners) ==
    LET common == scan.prevSigners \cap txSigners
    IN  IF common # {} THEN [scan EXCEPT !.prevSigners = common]
        ELSE [prevSigners |-> IF scan.seenBidder THEN common ELSE {bidder},
              seenBidder  |-> TRUE,
              ok          |-> ~scan.seenBidder]

\* One round: keep the signers that signed this transaction too (filterSigners).
\* When none is left the bidder has to take over, once, and must have signed it.
ScanTx(bidder, scan, txSigners) ==
    LET common  == scan.prevSigners \cap txSigners
        bidders == {bidder} \cap txSigners
    IN  IF common # {} THEN [scan EXCEPT !.prevSigners = common]
        ELSE [prevSigners |-> IF scan.seenBidder THEN common ELSE bidders,
              seenBidder  |-> TRUE,
              ok          |-> ~scan.seenBidder /\ bidders # {}]

\* ValidateAuctionBundle: the first error returns, so a scan that is not ok stays.
ValidateAuctionBundle(bidder, bundleSigners) ==
    LET scan[i \in 1..Len(bundleSigners)] ==
            IF i = 1 THEN StartScan(bidder, bundleSigners[1])
            ELSE LET prev == scan[i - 1]
                 IN  IF prev.ok THEN ScanTx(bidder, prev, bundleSigners[i]) ELSE prev
    IN  Len(bundleSigners) <= 1 \/ scan[Len(bundleSigners)].ok
=============================================================================
