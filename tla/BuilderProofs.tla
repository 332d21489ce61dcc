---------------------------- MODULE BuilderProofs ----------------------------
(***************************************************************************)
(* Theorems about x/builder. First the payment of a bid, for any accounts, *)
(* denominations, parameters, balances and granularity of fees; then what  *)
(* ValidateAuctionBundle decides, for every set of signers and every       *)
(* bundle.                                                                 *)
(***************************************************************************)
EXTENDS Builder, BundleCheck, TLAPS

-----------------------------------------------------------------------------
(* The payment of a bid. *)

\* The parameters and the provider are typed, and no balance is negative.
BuilderTypeOK ==
    /\ params \in ParamChoices
    /\ bal \in Balances
    /\ rewards \in Addresses

\* What truncation does.
LEMMA Truncation ==
    ASSUME NEW n \in Int
    PROVE  /\ n \div One \in Int
           /\ One * (n \div One) <= n
           /\ n < One * (n \div One) + One
  BY OneAssumption

\* A product is monotonic in a factor that is not negative.
LEMMA ProductBound ==
    ASSUME NEW n \in Nat, NEW f \in Nat, f <= One
    PROVE  n * f \in Nat /\ n * f <= One * n
  <1>1. n * f \in Nat
    OBVIOUS
  <1>2. PICK g \in Nat : One = f + g
    BY OneAssumption
  <1>3. One * n = n * f + n * g /\ n * g \in Nat
    BY <1>2
  <1> QED
    BY <1>1, <1>3

\* A factor can be cancelled.
LEMMA Cancel ==
    ASSUME NEW m \in Int, NEW n \in Int, One * m <= One * n
    PROVE  m <= n
  <1>1. SUFFICES ASSUME m > n PROVE FALSE
    OBVIOUS
  <1>2. PICK k \in Nat : m = n + 1 + k
    <2>1. m - n - 1 \in Nat /\ m = n + 1 + (m - n - 1)
      BY <1>1
    <2> QED
      BY <2>1
  <1>3. One * m = One * n + One + One * k /\ One * k \in Nat
    BY <1>2, OneAssumption
  <1> QED
    BY <1>3, OneAssumption

-----------------------------------------------------------------------------
(* The shares and the transfers. *)

\* The proposer's share for a fee that is not negative: truncated, not negative,
\* and at most the bid when the fee is at most One.
LEMMA ShareBounds ==
    ASSUME params \in Params, params.proposerFee >= 0, NEW n \in Nat
    PROVE  /\ ProposerReward(n) \in Nat
           /\ n * params.proposerFee \in Nat
           /\ One * ProposerReward(n) <= n * params.proposerFee
           /\ n * params.proposerFee < One * ProposerReward(n) + One
           /\ params.proposerFee <= One => ProposerReward(n) <= n
  <1> DEFINE f == params.proposerFee
             r == ProposerReward(n)
  <1>1. f \in Nat
    BY DEF Params
  <1>2. n * f \in Nat
    BY <1>1
  <1>3. r \in Int /\ One * r <= n * f /\ n * f < One * r + One
    BY <1>2, Truncation DEF ProposerReward
  <1>4. r >= 0
    <2>1. One * 0 <= One * (r + 1)
      <3>1. One * (r + 1) = One * r + One
        BY <1>3, OneAssumption
      <3> QED
        BY <3>1, <1>2, <1>3, OneAssumption
    <2>2. 0 <= r + 1
      BY <2>1, <1>3, Cancel
    <2>3. r # -1
      BY <1>2, <1>3, OneAssumption
    <2> QED
      BY <2>2, <2>3, <1>3
  <1>5. f <= One => r <= n
    <2>1. ASSUME f <= One PROVE One * r <= One * n
      BY <2>1, <1>1, <1>2, <1>3, ProductBound, OneAssumption
    <2> QED
      BY <2>1, <1>3, Cancel
  <1> QED
    BY <1>2, <1>3, <1>4, <1>5

\* What a transfer makes of a balance.
Moved(v, x, d, from, to, denom, amount) ==
    IF d # denom THEN v
    ELSE v - (IF x = from THEN amount ELSE 0) + (IF x = to THEN amount ELSE 0)

\* A transfer keeps the balances a function of addresses and denominations.
LEMMA TransferTyped ==
    ASSUME NEW B \in [Addresses -> [Denoms -> Int]], NEW from \in Addresses,
           NEW to \in Addresses, NEW denom \in Denoms, NEW amount \in Int
    PROVE  SendCoins(B, from, to, denom, amount).bal \in [Addresses -> [Denoms -> Int]]
  <1> DEFINE T == [B EXCEPT ![from][denom] = @ - amount]
  <1>1. T \in [Addresses -> [Denoms -> Int]]
    OBVIOUS
  <1>2. SendCoins(B, from, to, denom, amount).bal = [T EXCEPT ![to][denom] = @ + amount]
    BY DEF SendCoins
  <1> HIDE DEF T
  <1> QED
    BY <1>1, <1>2

\* A transfer moves the amount and nothing else.
LEMMA TransferEffect ==
    ASSUME NEW B \in [Addresses -> [Denoms -> Int]], NEW from \in Addresses,
           NEW to \in Addresses, NEW denom \in Denoms, NEW amount \in Int,
           NEW x \in Addresses, NEW d \in Denoms
    PROVE  SendCoins(B, from, to, denom, amount).bal[x][d] =
              Moved(B[x][d], x, d, from, to, denom, amount)
  <1> DEFINE T == [B EXCEPT ![from][denom] = @ - amount]
             S == [T EXCEPT ![to][denom] = @ + amount]
  <1>1. /\ T \in [Addresses -> [Denoms -> Int]]
        /\ T[x][d] = IF d = denom /\ x = from THEN B[x][d] - amount ELSE B[x][d]
    OBVIOUS
  <1>2. SendCoins(B, from, to, denom, amount).bal = S
    BY DEF SendCoins
  <1> HIDE DEF T
  <1>3. S[x][d] = IF d = denom /\ x = to THEN T[x][d] + amount ELSE T[x][d]
    BY <1>1
  <1>4. B[x][d] \in Int
    OBVIOUS
  <1> HIDE DEF S
  <1> QED
    BY <1>1, <1>2, <1>3, <1>4 DEF Moved

\* Whom the proposer's share goes to.
LEMMA RewardsTyped ==
    ASSUME BuilderTypeOK
    PROVE  params.escrow \in Addresses /\ RewardsAddress(params.escrow) \in Addresses
  BY ChoicesAssumption DEF BuilderTypeOK, Params, RewardsAddress

\* What an address gains by a bid.
Share(x, msg) ==
      (IF x = RewardsAddress(params.escrow) THEN ProposerReward(msg.bid.amount) ELSE 0)
    + (IF x = params.escrow THEN EscrowReward(msg.bid.amount) ELSE 0)
    - (IF x = msg.bidder THEN msg.bid.amount ELSE 0)

\* The two transfers of AuctionBid together.
LEMMA PaymentEffect ==
    ASSUME BuilderTypeOK, NEW msg \in Messages, params.proposerFee >= 0, ValidateBasic(msg)
    PROVE  /\ Payment(msg).bal \in [Addresses -> [Denoms -> Int]]
           /\ \A x \in Addresses, d \in Denoms :
                 Payment(msg).bal[x][d] =
                    IF d # msg.bid.denom THEN bal[x][d] ELSE bal[x][d] + Share(x, msg)
  <1> DEFINE d0 == msg.bid.denom
             n  == msg.bid.amount
             r  == ProposerReward(n)
             q  == EscrowReward(n)
             to == RewardsAddress(params.escrow)
             A  == SendCoins(bal, msg.bidder, to, d0, r).bal
             B  == SendCoins(A, msg.bidder, params.escrow, d0, q).bal
  <1>1. /\ msg.bidder \in Addresses /\ d0 \in Denoms /\ n \in Nat
        /\ params \in Params
    BY ChoicesAssumption DEF MsgAuctionBid, Coin, Addresses, ValidateBasic, BuilderTypeOK
  <1>2. r \in Nat /\ r \in Int /\ q \in Int /\ r + q = n
    BY <1>1, ShareBounds DEF EscrowReward
  <1>3. to \in Addresses /\ params.escrow \in Addresses
    BY RewardsTyped
  <1>4. bal \in [Addresses -> [Denoms -> Int]]
    BY DEF BuilderTypeOK, Balances
  <1> HIDE DEF d0, n, r, q, to, A, B
  <1>5. /\ A \in [Addresses -> [Denoms -> Int]]
        /\ \A x \in Addresses, d \in Denoms :
              A[x][d] = IF d # d0 THEN bal[x][d]
                        ELSE bal[x][d] - (IF x = msg.bidder THEN r ELSE 0)
                                       + (IF x = to THEN r ELSE 0)
    <2>1. A \in [Addresses -> [Denoms -> Int]]
      BY <1>1, <1>2, <1>3, <1>4, TransferTyped, Zenon DEF A
    <2>2. ASSUME NEW x \in Addresses, NEW d \in Denoms
          PROVE  A[x][d] = Moved(bal[x][d], x, d, msg.bidder, to, d0, r)
      BY <1>1, <1>2, <1>3, <1>4, TransferEffect, SMT DEF A
    <2> QED
      BY <2>1, <2>2 DEF Moved
  <1>6. /\ B \in [Addresses -> [Denoms -> Int]]
        /\ \A x \in Addresses, d \in Denoms :
              B[x][d] = IF d # d0 THEN A[x][d]
                        ELSE A[x][d] - (IF x = msg.bidder THEN q ELSE 0)
                                     + (IF x = params.escrow THEN q ELSE 0)
    <2>1. B \in [Addresses -> [Denoms -> Int]]
      BY <1>1, <1>2, <1>3, <1>5, TransferTyped, Zenon DEF B
    <2>2. ASSUME NEW x \in Addresses, NEW d \in Denoms
          PROVE  B[x][d] = Moved(A[x][d], x, d, msg.bidder, params.escrow, d0, q)
      BY <1>1, <1>2, <1>3, <1>5, TransferEffect, SMT DEF B
    <2> QED
      BY <2>1, <2>2 DEF Moved
  <1>7. Payment(msg).bal = B
    BY DEF Payment, A, B, d0, n, r, q, to
  <1>8. ASSUME NEW x \in Addresses, NEW d \in Denoms
        PROVE  B[x][d] = IF d # d0 THEN bal[x][d] ELSE bal[x][d] + Share(x, msg)
    <2>1. Share(x, msg) = (IF x = to THEN r ELSE 0) + (IF x = params.escrow THEN q ELSE 0)
                          - (IF x = msg.bidder THEN n ELSE 0)
      BY DEF Share, n, r, q, to
    <2>2. bal[x][d] \in Int /\ A[x][d] \in Int
      BY <1>4, <1>5
    <2>3. CASE d # d0
      BY <2>3, <1>5, <1>6
    <2>4. CASE d = d0
      <3>1. A[x][d] = bal[x][d] - (IF x = msg.bidder THEN r ELSE 0) + (IF x = to THEN r ELSE 0)
        BY <2>4, <1>5
      <3>2. B[x][d] = A[x][d] - (IF x = msg.bidder THEN q ELSE 0)
                              + (IF x = params.escrow THEN q ELSE 0)
        BY <2>4, <1>6
      <3> QED
        BY <2>1, <2>2, <2>4, <3>1, <3>2, <1>1, <1>2
    <2> QED
      BY <2>3, <2>4
  <1> QED
    BY <1>6, <1>7, <1>8 DEF d0

\* A transfer of coins that are there and not locked succeeds.
LEMMA TransferSucceeds ==
    ASSUME NEW B, NEW from, NEW to, NEW denom, NEW amount,
           B[from][denom] >= Locked[from][denom] + amount
    PROVE  SendCoins(B, from, to, denom, amount).ok
  BY DEF SendCoins

\* A transfer that succeeds leaves no balance negative.
LEMMA TransferCovered ==
    ASSUME NEW B \in Balances, NEW from \in Accounts, NEW to \in Addresses,
           NEW denom \in Denoms, NEW amount \in Nat,
           SendCoins(B, from, to, denom, amount).ok
    PROVE  SendCoins(B, from, to, denom, amount).bal \in Balances
  <1> DEFINE S == SendCoins(B, from, to, denom, amount).bal
  <1>1. from \in Addresses /\ amount \in Int /\ B \in [Addresses -> [Denoms -> Int]]
    BY DEF Addresses, Balances
  <1>2. S \in [Addresses -> [Denoms -> Int]]
    BY <1>1, TransferTyped
  <1>3. B[from][denom] >= amount
    <2>1. B[from][denom] \in Nat /\ Locked[from][denom] \in Nat
      BY <1>1, LockedAssumption DEF Balances
    <2>2. amount = 0 \/ B[from][denom] >= Locked[from][denom] + amount
      BY DEF SendCoins
    <2> QED
      BY <2>1, <2>2
  <1>4. ASSUME NEW x \in Addresses, NEW d \in Denoms PROVE S[x][d] \in Nat
    <2>1. S[x][d] = Moved(B[x][d], x, d, from, to, denom, amount)
      BY <1>1, TransferEffect, SMT
    <2>2. B[x][d] \in Nat
      BY DEF Balances
    <2> QED
      BY <2>1, <2>2, <1>3 DEF Moved
  <1> HIDE DEF S
  <1>5. S \in Balances
    BY <1>2, <1>4 DEF Balances
  <1> QED
    BY <1>5 DEF S

-----------------------------------------------------------------------------
(* The theorems. *)

\* A bid that is executed leaves no balance negative.
LEMMA BidTyped ==
    ASSUME BuilderTypeOK, NEW msg \in Messages, AuctionBid(msg)
    PROVE  bal' \in Balances
  <1> DEFINE d0 == msg.bid.denom
             r  == ProposerReward(msg.bid.amount)
             q  == EscrowReward(msg.bid.amount)
             to == RewardsAddress(params.escrow)
             P  == SendCoins(bal, msg.bidder, to, d0, r)
             E  == SendCoins(P.bal, msg.bidder, params.escrow, d0, q)
  <1>1. /\ msg.bidder \in Accounts /\ d0 \in Denoms /\ msg.bid.amount \in Nat
        /\ params \in Params /\ bal \in Balances
    BY ChoicesAssumption DEF MsgAuctionBid, Coin, ValidateBasic, BuilderTypeOK, AuctionBid
  <1>2. /\ params.proposerFee >= 0 /\ q >= 0 /\ P.ok /\ E.ok
        /\ bal' = E.bal
    BY DEF AuctionBid, Payment
  <1>3. r \in Nat /\ q \in Nat
    BY <1>1, <1>2, ShareBounds DEF EscrowReward
  <1>4. to \in Addresses /\ params.escrow \in Addresses
    BY RewardsTyped
  <1> HIDE DEF d0, r, q, to
  <1>5. P.bal \in Balances
    BY <1>1, <1>2, <1>3, <1>4, TransferCovered
  <1> HIDE DEF P
  <1>6. E.bal \in Balances
    BY <1>1, <1>2, <1>3, <1>4, <1>5, TransferCovered
  <1> QED
    BY <1>2, <1>6

\* The typing the theorems below start from.
LEMMA BuilderTyped == Spec => []BuilderTypeOK
  <1>1. Init => BuilderTypeOK
    BY BalancesAssumption DEF Init, BuilderTypeOK
  <1>2. BuilderTypeOK /\ [Next]_vars => BuilderTypeOK'
    <2> SUFFICES ASSUME BuilderTypeOK, [Next]_vars PROVE BuilderTypeOK'
      OBVIOUS
    <2>1. ASSUME NEW msg \in Messages, AuctionBid(msg) PROVE BuilderTypeOK'
      <3>1. bal' \in Balances
        BY <2>1, BidTyped
      <3> QED
        BY <2>1, <3>1 DEF AuctionBid, BuilderTypeOK
    <2>2. ASSUME NEW signer \in Accounts, NEW p \in ParamChoices, UpdateParams(signer, p)
          PROVE  BuilderTypeOK'
      BY <2>2 DEF UpdateParams, BuilderTypeOK
    <2>3. CASE NewBlock
      BY <2>3 DEF NewBlock, BuilderTypeOK
    <2>4. CASE UNCHANGED vars
      BY <2>4 DEF vars, BuilderTypeOK
    <2> QED
      BY <2>1, <2>2, <2>3, <2>4 DEF Next
  <1> QED
    BY <1>1, <1>2, PTL DEF Spec

\* With valid parameters a bid the ante handler lets through can be paid.
THEOREM BidPayable == Spec => []CoveredBidPaid
  <1>1. BuilderTypeOK => CoveredBidPaid
    <2> SUFFICES ASSUME BuilderTypeOK, NEW msg \in Messages, Validate(params),
                        ValidateBasic(msg), ValidateBid(msg),
                        Locked[msg.bidder][msg.bid.denom] = 0
                 PROVE  Payment(msg).ok
      BY DEF CoveredBidPaid
    <2> DEFINE d0 == msg.bid.denom
               n  == msg.bid.amount
               r  == ProposerReward(n)
               q  == EscrowReward(n)
               to == RewardsAddress(params.escrow)
               A  == SendCoins(bal, msg.bidder, to, d0, r).bal
               have == bal[msg.bidder][d0]
    <2>1. /\ msg.bidder \in Accounts /\ msg.bidder \in Addresses /\ d0 \in Denoms
          /\ n \in Nat /\ params \in Params
          /\ bal \in [Addresses -> [Denoms -> Int]] /\ have \in Nat
      BY ChoicesAssumption DEF MsgAuctionBid, Coin, Addresses, ValidateBasic, BuilderTypeOK, Balances
    <2>2. params.proposerFee >= 0 /\ params.proposerFee <= One
      BY DEF Validate, ValidateProposerFee
    <2>3. r \in Nat /\ r \in Int /\ r <= n /\ q = n - r
      BY <2>1, <2>2, ShareBounds DEF EscrowReward
    <2>4. have >= n
      BY DEF ValidateBid
    <2>5. to \in Addresses
      BY RewardsTyped
    <2> HIDE DEF r, q, to
    <2>6. A[msg.bidder][d0] = Moved(have, msg.bidder, d0, msg.bidder, to, d0, r)
      BY <2>1, <2>3, <2>5, TransferEffect, SMT
    <2>7. A[msg.bidder][d0] >= q
      BY <2>1, <2>3, <2>4, <2>6 DEF Moved
    <2>8. SendCoins(bal, msg.bidder, to, d0, r).ok
      <3>1. bal[msg.bidder][d0] >= Locked[msg.bidder][d0] + r
        BY <2>1, <2>3, <2>4
      <3> QED
        BY <3>1, TransferSucceeds
    <2> HIDE DEF A
    <2>9. SendCoins(A, msg.bidder, params.escrow, d0, q).ok
      <3>1. A[msg.bidder][d0] >= Locked[msg.bidder][d0] + q
        BY <2>1, <2>3, <2>7
      <3> QED
        BY <3>1, TransferSucceeds
    <2>10. q >= 0 /\ msg.txs <= params.maxBundleSize
      BY <2>1, <2>3 DEF ValidateBid
    <2> QED
      BY <2>2, <2>8, <2>9, <2>10 DEF Payment, A, q, r, to, n, d0
  <1> QED
    BY <1>1, BuilderTyped, PTL

\* The change of a balance in a bid's step.
LEMMA BidGain ==
    ASSUME BuilderTypeOK, NEW msg \in Messages, AuctionBid(msg),
           NEW x \in Addresses, NEW d \in Denoms
    PROVE  /\ params.proposerFee >= 0 /\ EscrowReward(msg.bid.amount) >= 0
           /\ Gain(x, d) \in Int
           /\ Gain(x, d) = IF d = msg.bid.denom THEN Share(x, msg) ELSE 0
  <1>1. /\ params.proposerFee >= 0 /\ EscrowReward(msg.bid.amount) >= 0
        /\ bal' = Payment(msg).bal /\ ValidateBasic(msg)
    BY DEF AuctionBid, Payment
  <1>2. Payment(msg).bal \in [Addresses -> [Denoms -> Int]]
    BY <1>1, PaymentEffect
  <1>3. bal'[x][d] = IF d # msg.bid.denom THEN bal[x][d] ELSE bal[x][d] + Share(x, msg)
    BY <1>1, PaymentEffect
  <1>4. bal'[x][d] \in Int /\ bal[x][d] \in Int
    BY <1>1, <1>2 DEF BuilderTypeOK, Balances
  <1>5. Share(x, msg) \in Int
    <2>1. /\ msg.bid.amount \in Nat /\ params \in Params
      BY <1>1, ChoicesAssumption DEF MsgAuctionBid, Coin, ValidateBasic, BuilderTypeOK
    <2>2. ProposerReward(msg.bid.amount) \in Nat /\ EscrowReward(msg.bid.amount) \in Int
      BY <2>1, <1>1, ShareBounds DEF EscrowReward
    <2> QED
      BY <2>1, <2>2 DEF Share
  <1> QED
    BY <1>1, <1>3, <1>4, <1>5 DEF Gain

\* The shares in a bid's step.
LEMMA BidShares ==
    ASSUME BuilderTypeOK, NEW msg \in Messages, AuctionBid(msg)
    PROVE  LET n == msg.bid.amount
               r == ProposerReward(n)
               due == n * params.proposerFee
           IN  /\ n \in Nat /\ r \in Nat /\ due \in Nat
               /\ One * r <= due /\ due < One * r + One
               /\ EscrowReward(n) = n - r /\ EscrowReward(n) >= 0
  <1>1. /\ params.proposerFee >= 0 /\ EscrowReward(msg.bid.amount) >= 0
        /\ msg.bid.amount \in Nat /\ params \in Params
    BY ChoicesAssumption DEF AuctionBid, Payment, MsgAuctionBid, Coin, ValidateBasic, BuilderTypeOK
  <1> QED
    BY <1>1, ShareBounds DEF EscrowReward

\* A bidder without a share of its own pays its bid in full.
THEOREM BidPaidExactly == Spec => BidPaidInFull
  <1>1. ASSUME BuilderTypeOK, NEW msg \in Messages, AuctionBid(msg),
               msg.bidder \notin {params.escrow, RewardsAddress(params.escrow)}
        PROVE  Gain(msg.bidder, msg.bid.denom) = -msg.bid.amount
    <2>1. msg.bidder \in Addresses /\ msg.bid.denom \in Denoms
      BY ChoicesAssumption DEF MsgAuctionBid, Coin, Addresses
    <2>2. Gain(msg.bidder, msg.bid.denom) = Share(msg.bidder, msg)
      BY <1>1, <2>1, BidGain
    <2>3. msg.bid.amount \in Nat
      BY <1>1, BidShares
    <2> QED
      BY <1>1, <2>2, <2>3 DEF Share
  <1>2. BuilderTypeOK /\ [Next]_vars =>
          [\A msg \in Messages :
              (AuctionBid(msg) /\ msg.bidder \notin {params.escrow, RewardsAddress(params.escrow)})
              => Gain(msg.bidder, msg.bid.denom) = -msg.bid.amount]_vars
    BY <1>1
  <1> QED
    BY <1>2, BuilderTyped, PTL DEF Spec, BidPaidInFull

\* The escrow account never gets less than the fee leaves, the proposer never more
\* than the fee, and less than a coin short of it.
THEOREM SharesCorrect == Spec => SharesRight
  <1>1. ASSUME BuilderTypeOK, NEW msg \in Messages, AuctionBid(msg), msg.bidder # params.escrow
        PROVE  One * Gain(params.escrow, msg.bid.denom) >=
                  One * msg.bid.amount - msg.bid.amount * params.proposerFee
    <2> DEFINE n == msg.bid.amount
               r == ProposerReward(n)
               due == n * params.proposerFee
               g == Gain(params.escrow, msg.bid.denom)
    <2>1. params.escrow \in Addresses /\ msg.bid.denom \in Denoms
      BY <1>1, RewardsTyped, ChoicesAssumption DEF MsgAuctionBid, Coin
    <2>2. g = Share(params.escrow, msg)
      BY <1>1, <2>1, BidGain
    <2>3. /\ n \in Nat /\ r \in Nat /\ due \in Nat /\ One * r <= due
          /\ EscrowReward(n) = n - r
      BY <1>1, BidShares
    <2>4. g = n \/ g = n - r
      BY <1>1, <2>2, <2>3 DEF Share
    <2> HIDE DEF n, r, due, g
    <2>5. One * (n - r) = One * n - One * r /\ One * n \in Nat /\ One * r \in Nat
      BY <2>3, OneAssumption
    <2>6. One * g >= One * n - due
      BY <2>3, <2>4, <2>5
    <2> QED
      BY <2>6 DEF n, due, g
  <1>2. ASSUME BuilderTypeOK, NEW msg \in Messages, AuctionBid(msg),
               rewards \notin {NoAddress, msg.bidder, params.escrow}
        PROVE  /\ One * Gain(rewards, msg.bid.denom) <= msg.bid.amount * params.proposerFee
               /\ One * Gain(rewards, msg.bid.denom) > msg.bid.amount * params.proposerFee - One
    <2> DEFINE n == msg.bid.amount
               r == ProposerReward(n)
               due == n * params.proposerFee
    <2>1. rewards \in Addresses /\ msg.bid.denom \in Denoms
      BY <1>2, ChoicesAssumption DEF MsgAuctionBid, Coin, BuilderTypeOK
    <2>2. Gain(rewards, msg.bid.denom) = Share(rewards, msg)
      BY <1>2, <2>1, BidGain
    <2>3. r \in Nat /\ due \in Nat /\ One * r <= due /\ due < One * r + One
      BY <1>2, BidShares
    <2>4. Share(rewards, msg) = r
      BY <1>2, <2>3 DEF Share, RewardsAddress
    <2>5. One * r \in Nat
      BY <2>3, OneAssumption
    <2> HIDE DEF r, due
    <2>6. One * r > due - One
      BY <2>3, <2>5, OneAssumption
    <2> QED
      BY <2>2, <2>3, <2>4, <2>6 DEF due
  <1>3. BuilderTypeOK /\ [Next]_vars =>
          [\A msg \in Messages : AuctionBid(msg) =>
              LET denom == msg.bid.denom
                  due   == msg.bid.amount * params.proposerFee
              IN  /\ msg.bidder # params.escrow =>
                        One * Gain(params.escrow, denom) >= One * msg.bid.amount - due
                  /\ rewards \notin {NoAddress, msg.bidder, params.escrow} =>
                        /\ One * Gain(rewards, denom) <= due
                        /\ One * Gain(rewards, denom) > due - One]_vars
    BY <1>1, <1>2
  <1> QED
    BY <1>3, BuilderTyped, PTL DEF Spec, SharesRight

\* With valid parameters nothing goes to the nil address.
THEOREM NoneStranded == Spec => NothingStranded
  <1>1. ASSUME BuilderTypeOK, Validate(params), NEW msg \in Messages, AuctionBid(msg),
               NEW denom \in Denoms
        PROVE  Gain(NoAddress, denom) = 0
    <2>1. NoAddress \in Addresses
      BY DEF Addresses
    <2>2. Gain(NoAddress, denom) = IF denom = msg.bid.denom THEN Share(NoAddress, msg) ELSE 0
      BY <1>1, <2>1, BidGain
    <2>3. NoAddress \notin {params.escrow, RewardsAddress(params.escrow), msg.bidder}
      BY <1>1, AddressAssumption, ChoicesAssumption DEF Validate, RewardsAddress, MsgAuctionBid
    <2> QED
      BY <2>2, <2>3 DEF Share
  <1>2. ASSUME BuilderTypeOK, bal' = bal, NEW denom \in Denoms
        PROVE  Gain(NoAddress, denom) = 0
    BY <1>2 DEF Gain, BuilderTypeOK, Balances, Addresses
  <1>3. ASSUME BuilderTypeOK, Next, Validate(params), NEW denom \in Denoms
        PROVE  Gain(NoAddress, denom) = 0
    <2>1. ASSUME NEW msg \in Messages, AuctionBid(msg) PROVE Gain(NoAddress, denom) = 0
      BY <1>1, <1>3, <2>1
    <2>2. ASSUME NEW signer \in Accounts, NEW p \in ParamChoices, UpdateParams(signer, p)
          PROVE  Gain(NoAddress, denom) = 0
      BY <1>2, <1>3, <2>2 DEF UpdateParams
    <2>3. CASE NewBlock
      BY <1>2, <1>3, <2>3 DEF NewBlock
    <2> QED
      BY <1>3, <2>1, <2>2, <2>3 DEF Next
  <1>4. BuilderTypeOK /\ [Next]_vars =>
          [Validate(params) => \A denom \in Denoms : Gain(NoAddress, denom) = 0]_vars
    BY <1>3
  <1> QED
    BY <1>4, BuilderTyped, PTL DEF Spec, NothingStranded

-----------------------------------------------------------------------------
(* The bundle rule. *)

\* What the loop decides, in the form the invariant uses: the bidder takes over only
\* when it did not sign the first transaction.
Protected(n) ==
    \/ OneSigner(1, n)
    \/ /\ bidder \notin bundleSigners[1]
       /\ \E m \in 1..n : OneSigner(1, m) /\ BidderSigned(m + 1, n)

Common(n) == {a \in Signers : \A i \in 1..n : a \in bundleSigners[i]}

\* While one account has signed everything so far, the loop keeps who that is.
SameSigner ==
    /\ scan.prevSigners = Common(index)
    /\ scan.prevSigners # {}
    /\ scan.seenBidder <=> bidder \in bundleSigners[1]

\* Once the bidder has taken over, after transaction m, nobody signed the first
\* m + 1 transactions and the bidder signed every one from m + 1 on.
BidderTookOver ==
    /\ scan.prevSigners = {bidder}
    /\ scan.seenBidder
    /\ bidder \notin bundleSigners[1]
    /\ \E m \in 1..(index - 1) :
          /\ Common(m) # {}
          /\ Common(m + 1) = {}
          /\ BidderSigned(m + 1, index)

ScanInv ==
    /\ scan.ok => SameSigner \/ BidderTookOver
    /\ ~scan.ok => ~Protected(index)

IInv == CheckTypeOK /\ ScanInv

-----------------------------------------------------------------------------

LEMMA CommonOne == ASSUME NEW n \in Nat PROVE OneSigner(1, n) <=> Common(n) # {}
BY DEF OneSigner, Common

\* One more transaction: the common signers that signed it too.
LEMMA CommonStep ==
    ASSUME NEW n \in Nat, n >= 1
    PROVE  Common(n + 1) = Common(n) \cap bundleSigners[n + 1]
<1>1. 1..(n + 1) = (1..n) \cup {n + 1}
    OBVIOUS
<1> QED
    BY <1>1 DEF Common

\* Fewer transactions have at least the same common signers.
LEMMA CommonShrinks ==
    ASSUME NEW m \in Nat, NEW n \in Nat, m <= n
    PROVE  Common(n) \subseteq Common(m)
BY DEF Common

\* The loop's verdict is the rule, with the exception for the first transaction.
LEMMA InvVerdict == ASSUME CheckTypeOK, ScanInv PROVE VerdictRight
<1>0. index \in Nat /\ index >= 1
    BY DEF CheckTypeOK
<1>1. CASE scan.ok /\ SameSigner
    BY <1>0, <1>1, CommonOne DEF SameSigner, VerdictRight, Rule
<1>2. CASE scan.ok /\ BidderTookOver
    <2>1. PICK m \in 1..(index - 1) : Common(m) # {} /\ BidderSigned(m + 1, index)
        BY <1>2 DEF BidderTookOver
    <2>2. m \in 1..index /\ OneSigner(1, m)
        BY <1>0, <2>1, CommonOne
    <2> QED
        BY <1>2, <2>1, <2>2 DEF BidderTookOver, VerdictRight, Rule
<1>3. CASE ~scan.ok
    <2>1. ~Protected(index)
        BY <1>3 DEF ScanInv
    <2> QED
        BY <1>3, <2>1 DEF Protected, VerdictRight, Rule
<1> QED
    BY <1>1, <1>2, <1>3 DEF ScanInv

LEMMA InitInv == CheckInit => IInv
<1> SUFFICES ASSUME CheckInit PROVE IInv
    OBVIOUS
<1>1. PICK n \in 1..MaxBundle : bundleSigners \in [1..n -> SignerSets]
    BY DEF CheckInit, Bundles
<1>2. n \in Nat /\ n >= 1 /\ bundleSigners \in Seq(SignerSets) /\ Len(bundleSigners) = n
    BY <1>1, MaxBundleAssumption
<1>3. bundleSigners[1] \in SignerSets
    BY <1>1, <1>2
<1>4. CheckTypeOK
    BY <1>2, <1>3 DEF CheckInit, CheckTypeOK, StartScan, SignerSets
<1>5. Common(1) = bundleSigners[1]
    BY <1>3 DEF Common, SignerSets
<1>6. SameSigner
    BY <1>3, <1>5 DEF CheckInit, SameSigner, StartScan, SignerSets
<1> QED
    BY <1>4, <1>6 DEF IInv, ScanInv, CheckInit, StartScan

LEMMA NextInv == IInv /\ [ScanNext]_checkVars => IInv'
<1> SUFFICES ASSUME IInv, [ScanNext]_checkVars PROVE IInv'
    OBVIOUS
<1>1. CASE UNCHANGED checkVars
    BY <1>1 DEF checkVars, IInv, CheckTypeOK, ScanInv, SameSigner, BidderTookOver, Protected,
                OneSigner, BidderSigned, Common, SignerSets
<1>2. CASE ScanNext
    <2> DEFINE tx == bundleSigners[index + 1]
               common == scan.prevSigners \cap tx
    <2>0. index \in Nat /\ index >= 1 /\ index' = index + 1 /\ index + 1 <= Len(bundleSigners)
          /\ UNCHANGED <<bidder, bundleSigners>> /\ scan.ok
          /\ scan' = ScanTx(bidder, scan, tx)
        BY <1>2 DEF IInv, CheckTypeOK, ScanNext
    <2>1. tx \in SignerSets
        BY <2>0 DEF IInv, CheckTypeOK
    <2>2. CheckTypeOK'
        BY <2>0, <2>1 DEF IInv, CheckTypeOK, ScanTx, SignerSets
    <2>3. Common(index + 1) = Common(index) \cap tx
        BY <2>0, CommonStep
    <2>4. \A n \in Nat : Common(n)' = Common(n)
        BY <2>0 DEF Common
    <2>5. SameSigner \/ BidderTookOver
        BY <2>0 DEF IInv, ScanInv
    <2>6. CASE common # {}
        <3>1. scan' = [scan EXCEPT !.prevSigners = common]
            BY <2>0, <2>6 DEF ScanTx
        <3>2. scan'.prevSigners = common /\ scan'.seenBidder = scan.seenBidder /\ scan'.ok
            BY <3>1, <2>0 DEF IInv, CheckTypeOK
        <3>3. CASE SameSigner
            <4>1. Common(index)' = Common(index) \cap tx
                BY <2>0, <2>3, <2>4
            <4>2. SameSigner'
                BY <2>0, <2>6, <3>2, <3>3, <4>1 DEF SameSigner
            <4> QED
                BY <2>2, <3>2, <4>2 DEF IInv, ScanInv
        <3>4. CASE BidderTookOver
            <4>1. PICK m \in 1..(index - 1) :
                     Common(m) # {} /\ Common(m + 1) = {} /\ BidderSigned(m + 1, index)
                BY <3>4 DEF BidderTookOver
            <4>2. common = {bidder} /\ bidder \in tx
                BY <2>6, <3>4 DEF BidderTookOver
            <4>3. m \in 1..(index' - 1) /\ m \in Nat /\ m + 1 \in Nat
                BY <2>0
            <4>4. BidderSigned(m + 1, index)'
                BY <2>0, <4>1, <4>2 DEF BidderSigned
            <4>5. (Common(m) # {})' /\ (Common(m + 1) = {})'
                BY <2>4, <4>1, <4>3
            <4>6. BidderTookOver'
                BY <2>0, <3>2, <3>4, <4>2, <4>3, <4>4, <4>5 DEF BidderTookOver
            <4> QED
                BY <2>2, <3>2, <4>6 DEF IInv, ScanInv
        <3> QED
            BY <2>5, <3>3, <3>4
    <2>7. CASE common = {} /\ ~scan.seenBidder /\ bidder \in tx
        <3>1. SameSigner /\ bidder \notin bundleSigners[1]
            BY <2>5, <2>7 DEF SameSigner, BidderTookOver
        <3>2. scan'.prevSigners = {bidder} /\ scan'.seenBidder /\ scan'.ok
            BY <2>0, <2>7 DEF ScanTx
        <3>3. index \in 1..(index' - 1)
            BY <2>0
        <3>4. Common(index) # {} /\ Common(index + 1) = {}
            BY <2>3, <2>7, <3>1 DEF SameSigner
        <3>5. (Common(index) # {} /\ Common(index + 1) = {})
              /\ \A i \in (index + 1)..(index + 1) : bidder \in bundleSigners[i]
            BY <2>0, <2>7, <3>4
        <3>6. \E m \in 1..(index' - 1) :
                 Common(m) # {} /\ Common(m + 1) = {}
                 /\ \A i \in (m + 1)..index' : bidder \in bundleSigners[i]
            BY <2>0, <3>3, <3>5
        <3>7. BidderTookOver'
            BY <2>0, <3>1, <3>2, <3>6 DEF BidderTookOver, Common, BidderSigned
        <3> QED
            BY <2>2, <3>2, <3>7 DEF IInv, ScanInv
    <2>8. CASE common = {} /\ (scan.seenBidder \/ bidder \notin tx)
        <3>1. ~scan'.ok
            BY <2>0, <2>8 DEF ScanTx
        <3>2. Common(index + 1) = {}
            <4>1. CASE SameSigner
                BY <2>3, <2>8, <4>1 DEF SameSigner
            <4>2. CASE BidderTookOver
                <5>1. PICK m \in 1..(index - 1) : Common(m + 1) = {}
                    BY <4>2 DEF BidderTookOver
                <5>2. Common(index + 1) \subseteq Common(m + 1)
                    BY <2>0, CommonShrinks
                <5> QED
                    BY <5>1, <5>2
            <4> QED
                BY <2>5, <4>1, <4>2
        <3>3. ~OneSigner(1, index + 1)
            BY <2>0, <3>2, CommonOne
        <3>4. ASSUME bidder \notin bundleSigners[1],
                     NEW m \in 1..(index + 1), OneSigner(1, m), BidderSigned(m + 1, index + 1)
              PROVE  FALSE
            <4>1. m # index + 1
                BY <3>3, <3>4
            <4>2. bidder \in tx
                BY <2>0, <3>4, <4>1 DEF BidderSigned
            <4>3. scan.seenBidder /\ BidderTookOver
                BY <2>5, <2>8, <3>4, <4>2 DEF SameSigner
            <4> QED
                BY <2>8, <4>2, <4>3 DEF BidderTookOver
        <3>5. ~Protected(index + 1)
            BY <3>3, <3>4 DEF Protected
        <3>6. ~Protected(index)'
            BY <2>0, <3>5 DEF Protected, OneSigner, BidderSigned
        <3> QED
            BY <2>2, <3>1, <3>6 DEF IInv, ScanInv
    <2> QED
        BY <2>6, <2>7, <2>8
<1> QED
    BY <1>1, <1>2

\* ValidateAuctionBundle accepts exactly the bundles that keep to its rule and, when
\* the bidder is among the signers of the first transaction, have one signer in common,
\* whatever the accounts and however long the bundle.
THEOREM VerdictCorrect == CheckSpec => []VerdictRight
<1>1. IInv => VerdictRight
    BY InvVerdict DEF IInv
<1> QED
    BY InitInv, NextInv, <1>1, PTL DEF CheckSpec

\* No bundle that gets through has a transaction of the bidder in front of one by
\* somebody else that shares no signer with it.
THEOREM FrontRunningCorrect == CheckSpec => []NotFrontRun
<1>1. IInv => NotFrontRun
    <2> SUFFICES ASSUME IInv, scan.ok, NEW i \in 1..index, bidder \notin bundleSigners[i]
                 PROVE  \E a \in bundleSigners[i] : \A j \in 1..i : a \in bundleSigners[j]
        BY DEF NotFrontRun, NoFrontRunning
    <2>0. index \in Nat /\ i \in Nat
        BY DEF IInv, CheckTypeOK
    <2>1. CASE SameSigner
        <3>1. PICK a \in Signers : \A j \in 1..index : a \in bundleSigners[j]
            BY <2>1 DEF SameSigner, Common
        <3> QED
            BY <2>0, <3>1
    <2>2. CASE BidderTookOver
        <3>1. PICK m \in 1..(index - 1) : Common(m) # {} /\ BidderSigned(m + 1, index)
            BY <2>2 DEF BidderTookOver
        <3>2. i <= m
            BY <2>0, <3>1 DEF BidderSigned
        <3>3. PICK a \in Signers : \A j \in 1..m : a \in bundleSigners[j]
            BY <3>1 DEF Common
        <3> QED
            BY <2>0, <3>2, <3>3
    <2> QED
        BY <2>1, <2>2 DEF IInv, ScanInv
<1> QED
    BY InitInv, NextInv, <1>1, PTL DEF CheckSpec

==============================================================================
