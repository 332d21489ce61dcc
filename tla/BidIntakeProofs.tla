--------------------------- MODULE BidIntakeProofs ---------------------------
(***************************************************************************)
(* Theorems about BidIntake, for any bidders, bids, denominations,         *)
(* accounts and parameters, and any number of blocks.                      *)
(***************************************************************************)
EXTENDS BidIntake, PriorityNonceProofs

-----------------------------------------------------------------------------
(* The lane. *)

\* RemoveTxsFromLane leaves a good lane that has nothing new.
LEMMA RemoveTxs ==
    ASSUME NEW cm, LaneOK(cm), NEW txs \in SUBSET Txs, IsFiniteSet(txs)
    PROVE  /\ LaneOK(RemoveTxsFromLane(cm, txs))
           /\ TxsOf(RemoveTxsFromLane(cm, txs).index) \subseteq TxsOf(cm.index)
  <1> DEFINE V == {l \in LaneSet : TxsOf(l.index) \subseteq TxsOf(cm.index)}
             pick == [s \in SUBSET txs |-> CHOOSE x \in s : TRUE]
             step == [x \in txs |-> [l \in V |-> LaneRemove(l, x)]]
             More(iter, s) == IF s = {} THEN cm
                              ELSE LaneRemove(iter[s \ {CHOOSE x \in s : TRUE}], CHOOSE x \in s : TRUE)
             Folds(iter) == iter = [s \in SUBSET txs |-> More(iter, s)]
             iter == CHOOSE iter : Folds(iter)
  <1>1. RemoveTxsFromLane(cm, txs) = iter[txs]
    BY DEF RemoveTxsFromLane, FoldSet, MapThenFoldSet
  <1>2. cm \in V
    BY LaneInSet
  <1>3. ASSUME NEW x \in txs, NEW l \in V PROVE LaneRemove(l, x) \in V
    <2>1. LaneOK(l) /\ x \in Txs /\ TxsOf(l.index) \subseteq TxsOf(cm.index)
      BY DEF LaneSet
    <2>2. LaneOK(LaneRemove(l, x)) /\ TxsOf(LaneRemove(l, x).index) \subseteq TxsOf(l.index)
      BY <2>1, LaneRemoveOK, TxsAfterLaneRemove
    <2> QED BY <2>1, <2>2, LaneInSet
  <1>4. \A s \in SUBSET txs : s # {} => pick[s] \in s /\ pick[s] = CHOOSE x \in s : TRUE
    OBVIOUS
  <1>5. \E f : Folds(f)
    <2>1. step \in [txs -> [V -> V]]
      BY <1>3
    <2>2. StepsBy(step, txs, V, pick)
      <3> HIDE DEF V, pick, step
      <3> QED BY <1>4, <2>1 DEF StepsBy
    <2>3. PICK f : IsFold(f, txs, V, cm, step, pick)
      <3> HIDE DEF V, pick, step
      <3> QED BY <1>2, <2>2, SubsetRecursion
    <2>4. ASSUME NEW s \in SUBSET txs PROVE f[s] = More(f, s)
      <3>1. CASE s = {}
        BY <2>3, <3>1 DEF IsFold
      <3>2. CASE s # {}
        <4>1. pick[s] \in txs /\ s \ {pick[s]} \in SUBSET txs /\ pick[s] = CHOOSE x \in s : TRUE
          BY <1>4, <3>2
        <4> HIDE DEF pick
        <4>2. f[s \ {pick[s]}] \in V
          BY <2>3, <4>1 DEF IsFold
        <4>3. f[s] = LaneRemove(f[s \ {pick[s]}], pick[s])
          BY <2>3, <3>2, <4>1, <4>2 DEF IsFold
        <4> QED BY <3>2, <4>1, <4>3
      <3> QED BY <3>1, <3>2
    <2>5. Folds(f)
      <3> HIDE DEF More
      <3> QED BY <2>3, <2>4 DEF IsFold
    <2> QED BY <2>5
  <1>6. Folds(iter)
    <2> HIDE DEF Folds
    <2> QED BY <1>5
  <1> HIDE DEF iter
  <1> DEFINE P == {s \in SUBSET txs : iter[s] \in V}
  <1>7. ASSUME NEW s \in SUBSET txs, \A t \in SUBSET s : t # s => t \in P PROVE s \in P
    <2>1. iter[s] = More(iter, s)
      <3> HIDE DEF More
      <3> QED BY <1>6
    <2>2. CASE s = {}
      BY <1>2, <2>1, <2>2
    <2>3. CASE s # {}
      <3> DEFINE x == CHOOSE x \in s : TRUE
      <3>1. x \in s /\ x \in txs
        BY <2>3
      <3>2. s \ {x} \in P
        <4> HIDE DEF x, P
        <4> QED BY <1>7, <3>1
      <3>3. iter[s] = LaneRemove(iter[s \ {x}], x)
        BY <2>1, <2>3
      <3> HIDE DEF x
      <3> QED BY <1>3, <3>1, <3>2, <3>3
    <2> QED BY <2>2, <2>3
  <1>8. txs \in P
    <2> HIDE DEF P
    <2> QED BY <1>7, SubsetInduction
  <1> QED BY <1>1, <1>8 DEF LaneSet

\* A transaction that is inserted takes the place of the one of its sender and nonce.
LEMMA InsertedTxs ==
    ASSUME NEW cm, LaneOK(cm), NEW tx \in Txs
    PROVE  TxsOf(LaneInsert(cm, tx, 0).index)
              = {t \in TxsOf(cm.index) : ScoreKey(t) # ScoreKey(tx)} \cup {tx}
  <1>1. tx.signed /\ tx.encodes
    BY BidOfAssumption
  <1>2. InsertError(cm.index, tx, 0) = "none"
    BY <1>1 DEF InsertError
  <1>3. LaneInsert(cm, tx, 0).index = Index(cm.index, tx)
    BY <1>1, <1>2 DEF LaneInsert, Insert
  <1> QED BY <1>3, TxsAfterIndex DEF LaneOK

\* What PrepareLane comes by is in the lane.
LEMMA BidsPooled ==
    ASSUME NEW mp, PoolOK(mp)
    PROVE  BidsInOrder(mp) \in Seq(TxsOf(mp))
  <1> DEFINE n == 4 * CountTx(mp) + 1
             V == GoodIterators(mp)
             On(it) == IF it.at = "Tx" THEN [it EXCEPT !.at = "Next"] ELSE Advance(mp, it)
             More(w, i) == IF i = 0 THEN SelectIterator(mp)
                           ELSE CHOOSE it \in {On(prev) : prev \in {w[i - 1]}} : TRUE
             Walks(w) == w = [i \in 0..n |-> More(w, i)]
             w == CHOOSE w : Walks(w)
  <1>1. BidsInOrder(mp) = w[n].out
    BY DEF BidsInOrder
  <1>2. n \in Nat
    BY KeysFinite, FS_CardinalityType DEF PoolOK, PoolType, CountTx
  <1>3. ASSUME NEW it \in V PROVE On(it) \in V
    <2>1. CASE it.at = "Tx"
      BY <2>1 DEF GoodIterators, Iterators
    <2>2. CASE it.at # "Tx"
      BY <2>2, AdvanceGood
    <2> QED BY <2>1, <2>2
  <1>4. SelectIterator(mp) \in V
    BY SelectIteratorGood
  <1>5. \E f : Walks(f)
    <2> DEFINE step == [i \in 1..n |-> [it \in V |-> On(it)]]
    <2>1. step \in Steps(n, V)
      BY <1>3 DEF Steps
    <2>2. PICK f : IsRun(f, n, V, SelectIterator(mp), step)
      <3> HIDE DEF step, V, n
      <3> QED BY <1>2, <1>4, <2>1, IntervalRecursion
    <2>3. ASSUME NEW i \in 0..n PROVE f[i] = More(f, i)
      <3>1. CASE i = 0
        BY <2>2, <3>1 DEF IsRun
      <3>2. CASE i # 0
        <4>1. i \in 1..n /\ i - 1 \in 0..n
          BY <1>2, <3>2
        <4> HIDE DEF On, V, n
        <4>2. f[i] = On(f[i - 1])
          BY <2>2, <4>1 DEF IsRun
        <4> QED BY <3>2, <4>2
      <3> QED BY <3>1, <3>2
    <2>4. Walks(f)
      <3> HIDE DEF More
      <3> QED BY <2>2, <2>3 DEF IsRun
    <2> QED BY <2>4
  <1>6. Walks(w)
    <2> HIDE DEF Walks
    <2> QED BY <1>5
  <1> HIDE DEF w, n
  <1>7. \A i \in 0..n : w[i] = More(w, i)
    <2> HIDE DEF More
    <2> QED BY <1>6
  <1> DEFINE S == {i \in 0..n : w[i] \in V}
  <1>8. 0 \in S
    BY <1>2, <1>4, <1>7
  <1>9. ASSUME NEW i \in 1..n, i - 1 \in S PROVE i \in S
    <2>1. i \in 0..n /\ i # 0 /\ w[i - 1] \in V
      BY <1>2, <1>9
    <2> HIDE DEF On, V
    <2>2. w[i] = On(w[i - 1])
      BY <1>7, <2>1
    <2> QED BY <1>3, <2>1, <2>2
  <1>10. n \in S
    <2>1. \A i \in 0..n : i \in S
      <3> HIDE DEF S
      <3> QED BY <1>2, <1>8, <1>9, IntervalInduction
    <2> QED BY <1>2, <2>1
  <1> QED BY <1>1, <1>10 DEF GoodIterators, Iterators

LEMMA TxIsNotNone == \A tx \in Txs : tx # None
  <1>1. SUFFICES ASSUME NEW tx \in Txs, tx = None PROVE FALSE
    OBVIOUS
  <1>2. DOMAIN tx = {"sender", "nonce", "priority", "body", "signed", "encodes"}
    BY TxAssumption DEF Tx
  <1>3. DOMAIN tx = {"none"}
    BY <1>1 DEF None
  <1> QED BY <1>2, <1>3

\* The bids PrepareLane throws out are finitely many.
LEMMA RejectedFinite ==
    ASSUME NEW bids \in Seq(Txs), NEW i \in 1..(Len(bids) + 1)
    PROVE  RejectedBefore(bids, i) \in SUBSET Txs /\ IsFiniteSet(RejectedBefore(bids, i))
  <1> DEFINE K == {k \in 1..(i - 1) : BidOf[bids[k]].fits /\ ~VerifyTx(bids[k])}
             R == RejectedBefore(bids, i)
             f == [k \in K |-> bids[k]]
  <1>1. K \in SUBSET (1..(i - 1)) /\ i - 1 \in Int
    OBVIOUS
  <1>2. IsFiniteSet(K)
    <2>1. IsFiniteSet(1..(i - 1))
      BY <1>1, FS_Interval
    <2> HIDE DEF K
    <2> QED BY <1>1, <2>1, FS_Subset
  <1>3. R = {bids[k] : k \in K}
    BY DEF RejectedBefore
  <1>4. \A k \in K : bids[k] \in Txs
    OBVIOUS
  <1> HIDE DEF K, R
  <1>5. f \in Surjection(K, R)
    BY <1>3 DEF Surjection
  <1>6. IsFiniteSet(R)
    <2> HIDE DEF f
    <2> QED BY <1>2, <1>5, FS_Surjection
  <1> QED BY <1>3, <1>4, <1>6 DEF R

-----------------------------------------------------------------------------
(* The inductive invariant. *)

\* How far CometBFT has rechecked its bids.
Rechecked == IF recheck = 0 THEN Len(comet) ELSE recheck - 1

\* LatestPooled in the midst of a recheck, of the bids rechecked so far.
LatestRechecked ==
    \A tx \in Pooled : \A i \in 1..Rechecked :
        ScoreKey(comet[i]) = ScoreKey(tx) => \E j \in i..Rechecked : comet[j] = tx

IntakeType ==
    /\ LaneOK(lane)
    /\ comet \in Seq(Txs) /\ recheck \in 0..Len(comet)
    /\ height \in Nat
    /\ winner \in Txs \cup {None}

\* Of the bids rechecked so far, the latest of every sender and nonce is in the lane.
Restored ==
    \A i \in 1..Rechecked :
        (\A j \in 1..Rechecked : ScoreKey(comet[j]) = ScoreKey(comet[i]) => j <= i)
           => comet[i] \in Pooled

RestoredRechecked == recheck > 0 => Restored

IntakeInv == IntakeType /\ OneDenomination /\ WinnerTimely /\ LatestRechecked /\ RestoredRechecked

\* The lane on which the CheckTx handler looks up the top bid, and its verdict.
LEMMA CheckBidCases ==
    ASSUME IntakeType, NEW tx \in Txs, NEW rechecked \in BOOLEAN, NEW r, r = CheckBid(tx, rechecked)
    PROVE  /\ r.ok \in BOOLEAN /\ LaneOK(r.lane)
           /\ ~r.ok => TxsOf(r.lane.index) = Pooled
           /\ r.ok => /\ TxsOf(r.lane.index) = {t \in Pooled : ScoreKey(t) # ScoreKey(tx)} \cup {tx}
                      /\ ValidateTimeout(tx) /\ (rechecked => tx \in lane.txCache)
                      /\ \/ Pooled = {}
                         \/ tx \in Pooled
                         \/ \E top \in Pooled : BidOf[top].denom = BidOf[tx].denom
  <1> DEFINE looksUp == /\ SequenceOK(tx)
                        /\ rechecked => LaneContains(lane, tx)
                        /\ ValidateTimeout(tx)
             tob == IF looksUp THEN LaneSelect(lane) ELSE lane
             ok == /\ looksUp /\ ValidateAuctionBid(tx, HighestBid(tob.index, tx))
                   /\ BundleOK(tx, rechecked)
  <1>1. r = [ok |-> ok, lane |-> IF ok THEN LaneInsert(tob, tx, 0) ELSE tob]
    BY DEF CheckBid
  <1>2. LaneOK(tob) /\ TxsOf(tob.index) = Pooled
    BY LaneSelectOK, TxsAfterLaneSelect DEF IntakeType, Pooled
  <1> HIDE DEF tob, ok
  <1>3. ok \in BOOLEAN /\ r.ok = ok /\ r.lane = IF ok THEN LaneInsert(tob, tx, 0) ELSE tob
    <2>1. ok \in BOOLEAN
      BY DEF ok
    <2> QED BY <1>1, <2>1
  <1>4. CASE ~ok
    <2>1. ~r.ok /\ r.lane = tob
      BY <1>3, <1>4
    <2> QED BY <1>2, <1>3, <2>1
  <1>5. CASE ok
    <2>1. r.ok /\ r.lane = LaneInsert(tob, tx, 0)
      BY <1>3, <1>5
    <2>2. LaneOK(r.lane)
      BY <1>2, <2>1, LaneInsertOK
    <2>3. TxsOf(r.lane.index) = {t \in Pooled : ScoreKey(t) # ScoreKey(tx)} \cup {tx}
      <3>1. TxsOf(r.lane.index) = {t \in TxsOf(tob.index) : ScoreKey(t) # ScoreKey(tx)} \cup {tx}
        BY <1>2, <2>1, InsertedTxs
      <3> QED BY <1>2, <3>1
    <2>5. ValidateTimeout(tx) /\ (rechecked => tx \in lane.txCache)
      BY <1>5 DEF LaneContains, ok
    <2>4. ASSUME Pooled # {}, tx \notin Pooled
          PROVE  \E top \in Pooled : BidOf[top].denom = BidOf[tx].denom
      <3> DEFINE top == GetTopAuctionTx(tob.index)
      <3>1. top \in Pooled
        BY <1>2, <2>4, TopOf DEF GetTopAuctionTx, LaneOK
      <3>2. top \in Txs
        BY <1>2, <3>1 DEF LaneOK, LaneType, Removable
      <3>3. HighestBid(tob.index, tx) = top /\ top # None
        BY <2>4, <3>1, <3>2, TxIsNotNone DEF HighestBid
      <3>4. Outbids(tx, top)
        BY <1>5, <3>3 DEF ValidateAuctionBid, ok
      <3> QED BY <3>1, <3>4 DEF Outbids
    <2> QED BY <1>3, <2>1, <2>2, <2>3, <2>4, <2>5
  <1> QED BY <1>3, <1>4, <1>5

LEMMA IntakeInit == Init => IntakeInv
  <1> SUFFICES ASSUME Init PROVE IntakeInv
    OBVIOUS
  <1>1. TxsOf(lane.index) = {}
    BY DEF Init, NewConstructorMempool, EmptyPool, EmptyList, TxsOf
  <1>2. IntakeType
    BY NewLaneOK DEF Init, IntakeType
  <1> QED BY <1>1, <1>2 DEF Init, IntakeInv, OneDenomination, WinnerTimely, LatestRechecked,
                           RestoredRechecked, Pooled

\* One more bid rechecked: it is the latest of its sender and nonce.
LEMMA OneMoreRechecked ==
    ASSUME NEW s, NEW u, NEW n \in Nat, \A i \in 1..n : u[i] = s[i],
           NEW tx, u[n + 1] = tx, NEW P,
           \A t \in P : \A i \in 1..n : ScoreKey(s[i]) = ScoreKey(t) => \E j \in i..n : s[j] = t,
           NEW Q, Q = {t \in P : ScoreKey(t) # ScoreKey(tx)} \cup {tx}
    PROVE  \A t \in Q : \A i \in 1..(n + 1) :
              ScoreKey(u[i]) = ScoreKey(t) => \E j \in i..(n + 1) : u[j] = t
  <1> SUFFICES ASSUME NEW t \in Q, NEW i \in 1..(n + 1), ScoreKey(u[i]) = ScoreKey(t)
               PROVE  \E j \in i..(n + 1) : u[j] = t
    OBVIOUS
  <1>1. CASE t = tx
    BY <1>1
  <1>2. CASE t # tx
    <2>1. t \in P /\ i # n + 1
      BY <1>2
    <2>2. i \in 1..n
      BY <2>1
    <2>3. PICK j \in i..n : s[j] = t
      BY <2>1, <2>2
    <2>4. j \in 1..n /\ j \in i..(n + 1)
      BY <2>2
    <2> QED BY <2>3, <2>4
  <1> QED BY <1>1, <1>2

\* What an admitted bid does to the denominations and the timeouts of the lane.
LEMMA AdmittedFits ==
    ASSUME IntakeInv, NEW tx \in Txs, ValidateTimeout(tx),
           \/ Pooled = {}
           \/ tx \in Pooled
           \/ \E top \in Pooled : BidOf[top].denom = BidOf[tx].denom
    PROVE  /\ \A a, b \in Pooled \cup {tx} : BidOf[a].denom = BidOf[b].denom
           /\ ToSigned(BidOf[tx].timeout) >= 0
  <1>1. \A a, b \in Pooled \cup {tx} : BidOf[a].denom = BidOf[b].denom
    BY DEF IntakeInv, OneDenomination
  <1>2. BidOf[tx].timeout \in Int /\ TimeoutRange \in Int /\ height \in Nat
    BY BidOfAssumption DEF IntakeInv, IntakeType, Bid
  <1>3. ToSigned(BidOf[tx].timeout) \in Int
    BY <1>2 DEF ToSigned
  <1> QED BY <1>1, <1>2, <1>3 DEF ValidateTimeout

\* A bid verified for a proposal has a timeout that is not negative and not past.
LEMMA VerifiedTimely ==
    ASSUME IntakeType, NEW tx \in Txs, VerifyTx(tx)
    PROVE  BidOf[tx].timeout >= height + 1 /\ ToSigned(BidOf[tx].timeout) >= 0
  <1>1. BidOf[tx].timeout \in 0..(TimeoutRange - 1) /\ TimeoutRange \in Nat /\ height \in Nat
    BY BidOfAssumption DEF IntakeType, Bid
  <1>2. ToSigned(BidOf[tx].timeout) >= height + 1
    BY DEF VerifyTx, ValidateTimeout
  <1> QED BY <1>1, <1>2 DEF ToSigned

LEMMA CheckTxStep ==
    ASSUME IntakeInv, NEW tx \in Txs, CheckTx(tx)
    PROVE  IntakeInv'
  <1>1. IntakeType /\ OneDenomination /\ WinnerTimely /\ LatestRechecked /\ RestoredRechecked
    BY DEF IntakeInv
  <1>2. PICK r : /\ r = CheckBid(tx, FALSE) /\ lane' = r.lane
                 /\ comet' = IF r.ok THEN Append(comet, tx) ELSE comet
    BY DEF CheckTx
  <1>3. recheck = 0 /\ UNCHANGED <<recheck, height, winner>>
    BY DEF CheckTx
  <1>4. /\ r.ok \in BOOLEAN /\ LaneOK(r.lane)
        /\ ~r.ok => TxsOf(r.lane.index) = Pooled
        /\ r.ok => /\ TxsOf(r.lane.index) = {t \in Pooled : ScoreKey(t) # ScoreKey(tx)} \cup {tx}
                   /\ ValidateTimeout(tx)
                   /\ \/ Pooled = {}
                      \/ tx \in Pooled
                      \/ \E top \in Pooled : BidOf[top].denom = BidOf[tx].denom
    BY <1>1, <1>2, CheckBidCases
  <1>5. comet \in Seq(Txs) /\ Len(comet) \in Nat
    BY <1>1 DEF IntakeType
  <1>6. CASE ~r.ok
    <2>1. Pooled' = Pooled /\ LaneOK(lane)' /\ UNCHANGED <<comet, recheck, height, winner>>
      BY <1>2, <1>3, <1>4, <1>6 DEF Pooled, LaneOK
    <2> QED BY <1>1, <1>3, <2>1 DEF IntakeInv, IntakeType, OneDenomination, WinnerTimely,
                                   LatestRechecked, Rechecked, RestoredRechecked
  <1>7. CASE r.ok
    <2>1. Pooled' = {t \in Pooled : ScoreKey(t) # ScoreKey(tx)} \cup {tx}
      BY <1>2, <1>4, <1>7 DEF Pooled
    <2>2. comet' = Append(comet, tx)
      BY <1>2, <1>7
    <2>3. /\ \A a, b \in Pooled \cup {tx} : BidOf[a].denom = BidOf[b].denom
          /\ ToSigned(BidOf[tx].timeout) >= 0
      BY <1>4, <1>7, AdmittedFits
    <2>4. IntakeType'
      <3>1. LaneOK(lane)'
        BY <1>2, <1>4 DEF LaneOK
      <3>2. comet' \in Seq(Txs) /\ recheck' \in 0..Len(comet')
        BY <1>3, <1>5, <2>2
      <3> QED BY <1>1, <1>3, <3>1, <3>2 DEF IntakeType
    <2>5. OneDenomination' /\ WinnerTimely'
      BY <1>1, <1>3, <2>1, <2>3 DEF OneDenomination, WinnerTimely
    <2>6. LatestRechecked'
      <3> DEFINE n == Len(comet)
      <3>1. Rechecked = n /\ Rechecked' = n + 1 /\ n \in Nat
        BY <1>3, <1>5, <2>2 DEF Rechecked
      <3>2. (\A i \in 1..n : comet'[i] = comet[i]) /\ comet'[n + 1] = tx
        BY <1>5, <2>2
      <3>3. \A t \in Pooled : \A i \in 1..n : ScoreKey(comet[i]) = ScoreKey(t) => \E j \in i..n : comet[j] = t
        BY <1>1, <3>1 DEF LatestRechecked
      <3> HIDE DEF n
      <3>4. \A t \in Pooled' : \A i \in 1..(n + 1) :
               ScoreKey(comet'[i]) = ScoreKey(t) => \E j \in i..(n + 1) : comet'[j] = t
        BY <2>1, <3>1, <3>2, <3>3, OneMoreRechecked
      <3> QED BY <3>1, <3>4 DEF LatestRechecked
    <2> QED BY <1>3, <2>4, <2>5, <2>6 DEF IntakeInv, RestoredRechecked
  <1> QED BY <1>4, <1>6, <1>7

\* One more bid rechecked: of its sender and nonce it is now the one in the lane.
LEMMA OneMoreRestored ==
    ASSUME NEW s, NEW n \in Nat, NEW tx, s[n + 1] = tx, NEW P,
           \A i \in 1..n : (\A j \in 1..n : ScoreKey(s[j]) = ScoreKey(s[i]) => j <= i) => s[i] \in P,
           NEW Q, Q = {t \in P : ScoreKey(t) # ScoreKey(tx)} \cup {tx}
    PROVE  \A i \in 1..(n + 1) :
              (\A j \in 1..(n + 1) : ScoreKey(s[j]) = ScoreKey(s[i]) => j <= i) => s[i] \in Q
  <1> SUFFICES ASSUME NEW i \in 1..(n + 1),
                      \A j \in 1..(n + 1) : ScoreKey(s[j]) = ScoreKey(s[i]) => j <= i
               PROVE  s[i] \in Q
    OBVIOUS
  <1>1. CASE i = n + 1
    BY <1>1
  <1>2. CASE i # n + 1
    <2>1. i \in 1..n /\ n + 1 \in 1..(n + 1) /\ \A j \in 1..n : j \in 1..(n + 1)
      BY <1>2
    <2>2. ScoreKey(s[i]) # ScoreKey(tx)
      BY <1>2, <2>1
    <2>3. s[i] \in P
      BY <2>1
    <2> QED BY <2>2, <2>3
  <1> QED BY <1>1, <1>2

LEMMA Joined ==
    ASSUME NEW a \in Seq(Txs), NEW b \in Seq(Txs)
    PROVE  a \o b \in Seq(Txs) /\ Len(a \o b) = Len(a) + Len(b) /\ \A i \in 1..Len(a) : (a \o b)[i] = a[i]
  OBVIOUS

\* What RemoveAt leaves of CometBFT's mempool.
LEMMA TakenOut ==
    ASSUME NEW s \in Seq(Txs), NEW k \in 1..Len(s)
    PROVE  LET u == SubSeq(s, 1, k - 1) \o SubSeq(s, k + 1, Len(s))
           IN  u \in Seq(Txs) /\ Len(u) = Len(s) - 1 /\ \A i \in 1..(k - 1) : u[i] = s[i]
  <1>1. PICK a : a = SubSeq(s, 1, k - 1)
    OBVIOUS
  <1>2. PICK b : b = SubSeq(s, k + 1, Len(s))
    OBVIOUS
  <1>3. a \in Seq(Txs) /\ Len(a) = k - 1 /\ \A i \in 1..(k - 1) : a[i] = s[i]
    BY <1>1
  <1>4. b \in Seq(Txs) /\ Len(b) = Len(s) - k
    BY <1>2
  <1>5. PICK u : u = a \o b
    OBVIOUS
  <1>6. u \in Seq(Txs) /\ Len(u) = Len(a) + Len(b) /\ \A i \in 1..Len(a) : u[i] = a[i]
    BY <1>3, <1>4, <1>5, Joined, Zenon
  <1>7. Len(s) \in Nat /\ k \in Nat
    OBVIOUS
  <1>8. Len(u) = Len(s) - 1
    BY <1>3, <1>4, <1>6, <1>7
  <1>9. \A i \in 1..(k - 1) : u[i] = s[i]
    BY <1>3, <1>6, Zenon
  <1> QED BY <1>1, <1>2, <1>5, <1>6, <1>8, <1>9, Zenon

LEMMA RecheckTxStep ==
    ASSUME IntakeInv, RecheckTx
    PROVE  IntakeInv' /\ Restored'
  <1> DEFINE tx == comet[recheck]
             n == recheck - 1
  <1>1. IntakeType /\ OneDenomination /\ WinnerTimely /\ LatestRechecked /\ RestoredRechecked
    BY DEF IntakeInv
  <1>2. PICK r : /\ r = CheckBid(tx, TRUE) /\ lane' = r.lane
                 /\ comet' = IF r.ok THEN comet ELSE SeqExt!RemoveAt(comet, recheck)
                 /\ recheck' = IF r.ok /\ recheck < Len(comet) THEN recheck + 1
                               ELSE IF ~r.ok /\ recheck < Len(comet) THEN recheck ELSE 0
    BY DEF RecheckTx
  <1>3. /\ comet \in Seq(Txs) /\ Len(comet) \in Nat /\ recheck \in 1..Len(comet) /\ tx \in Txs
        /\ UNCHANGED <<height, winner>>
    BY <1>1 DEF RecheckTx, IntakeType
  <1>4. /\ r.ok \in BOOLEAN /\ LaneOK(r.lane)
        /\ ~r.ok => TxsOf(r.lane.index) = Pooled
        /\ r.ok => /\ TxsOf(r.lane.index) = {t \in Pooled : ScoreKey(t) # ScoreKey(tx)} \cup {tx}
                   /\ ValidateTimeout(tx)
                   /\ \/ Pooled = {}
                      \/ tx \in Pooled
                      \/ \E top \in Pooled : BidOf[top].denom = BidOf[tx].denom
    BY <1>1, <1>2, <1>3, CheckBidCases
  <1>5. n \in Nat /\ Rechecked = n
    BY <1>3 DEF Rechecked
  <1>6. \A t \in Pooled : \A i \in 1..n : ScoreKey(comet[i]) = ScoreKey(t) => \E j \in i..n : comet[j] = t
    BY <1>1, <1>5 DEF LatestRechecked
  <1>7. LaneOK(lane)'
    BY <1>2, <1>4 DEF LaneOK
  <1>8. \A i \in 1..n : (\A j \in 1..n : ScoreKey(comet[j]) = ScoreKey(comet[i]) => j <= i)
                            => comet[i] \in Pooled
    BY <1>1, <1>3, <1>5 DEF RestoredRechecked, Restored
  <1>9. CASE ~r.ok
    <2>1. comet' = SubSeq(comet, 1, recheck - 1) \o SubSeq(comet, recheck + 1, Len(comet))
          /\ recheck' = IF recheck < Len(comet) THEN recheck ELSE 0
      BY <1>2, <1>9 DEF SeqExt!RemoveAt
    <2>2. comet' \in Seq(Txs) /\ Len(comet') = Len(comet) - 1 /\ \A i \in 1..n : comet'[i] = comet[i]
      BY <1>3, <2>1, TakenOut
    <2>3. recheck' \in 0..Len(comet') /\ Rechecked' = n
      <3>1. recheck' = IF recheck < Len(comet) THEN recheck ELSE 0
        BY <2>1
      <3>2. Len(comet') = Len(comet) - 1
        BY <2>2
      <3>3. Rechecked' = IF recheck' = 0 THEN Len(comet') ELSE recheck' - 1
        BY DEF Rechecked
      <3>4. CASE recheck < Len(comet)
        BY <1>3, <3>1, <3>2, <3>3, <3>4
      <3>5. CASE ~(recheck < Len(comet))
        BY <1>3, <3>1, <3>2, <3>3, <3>5
      <3> QED BY <3>4, <3>5
    <2>4. Pooled' = Pooled
      BY <1>2, <1>4, <1>9 DEF Pooled
    <2>5. IntakeType'
      BY <1>1, <1>3, <1>7, <2>2, <2>3 DEF IntakeType
    <2>6. OneDenomination' /\ WinnerTimely'
      BY <1>1, <1>3, <2>4 DEF OneDenomination, WinnerTimely
    <2>7. LatestRechecked'
      <3> HIDE DEF n
      <3> SUFFICES ASSUME NEW t \in Pooled, NEW i \in 1..n, ScoreKey(comet'[i]) = ScoreKey(t)
                   PROVE  \E j \in i..n : comet'[j] = t
        BY <2>3, <2>4 DEF LatestRechecked
      <3>1. PICK j \in i..n : comet[j] = t
        BY <1>6, <2>2
      <3>2. j \in 1..n
        BY <1>5
      <3> QED BY <2>2, <3>1, <3>2
    <2>8. Restored'
      <3> HIDE DEF n
      <3> SUFFICES ASSUME NEW i \in 1..n,
                          \A j \in 1..n : ScoreKey(comet'[j]) = ScoreKey(comet'[i]) => j <= i
                   PROVE  comet'[i] \in Pooled
        BY <2>3, <2>4 DEF Restored
      <3> QED BY <1>8, <2>2
    <2> QED BY <2>5, <2>6, <2>7, <2>8 DEF IntakeInv, RestoredRechecked
  <1>10. CASE r.ok
    <2>1. Pooled' = {t \in Pooled : ScoreKey(t) # ScoreKey(tx)} \cup {tx}
      BY <1>2, <1>4, <1>10 DEF Pooled
    <2>2. comet' = comet /\ recheck' = IF recheck < Len(comet) THEN recheck + 1 ELSE 0
      BY <1>2, <1>10
    <2>3. recheck' \in 0..Len(comet') /\ Rechecked' = n + 1
      BY <1>3, <2>2 DEF Rechecked
    <2>4. /\ \A a, b \in Pooled \cup {tx} : BidOf[a].denom = BidOf[b].denom
          /\ ToSigned(BidOf[tx].timeout) >= 0
      BY <1>3, <1>4, <1>10, AdmittedFits
    <2>5. IntakeType'
      BY <1>1, <1>3, <1>7, <2>2, <2>3 DEF IntakeType
    <2>6. OneDenomination' /\ WinnerTimely'
      BY <1>1, <1>3, <2>1, <2>4 DEF OneDenomination, WinnerTimely
    <2>7. LatestRechecked'
      <3>1. comet[n + 1] = tx
        BY <1>3
      <3> HIDE DEF n, tx
      <3>2. \A t \in Pooled' : \A i \in 1..(n + 1) :
               ScoreKey(comet[i]) = ScoreKey(t) => \E j \in i..(n + 1) : comet[j] = t
        BY <1>5, <1>6, <2>1, <3>1, OneMoreRechecked
      <3> QED BY <2>2, <2>3, <3>2 DEF LatestRechecked
    <2>8. Restored'
      <3>1. comet[n + 1] = tx
        BY <1>3
      <3> HIDE DEF n, tx
      <3>2. \A i \in 1..(n + 1) :
               (\A j \in 1..(n + 1) : ScoreKey(comet[j]) = ScoreKey(comet[i]) => j <= i)
                  => comet[i] \in Pooled'
        BY <1>5, <1>8, <2>1, <3>1, OneMoreRestored
      <3> QED BY <2>2, <2>3, <3>2 DEF Restored
    <2> QED BY <2>5, <2>6, <2>7, <2>8 DEF IntakeInv, RestoredRechecked
  <1> QED BY <1>4, <1>9, <1>10

\* PrepareLane takes bids out of the lane, and verifies the winner for the next block.
LEMMA PrepareStep ==
    ASSUME IntakeInv, Prepare
    PROVE  IntakeInv'
  <1>1. IntakeType /\ OneDenomination /\ WinnerTimely /\ LatestRechecked /\ RestoredRechecked
    BY DEF IntakeInv
  <1> DEFINE selected == LaneSelect(lane)
             bids == BidsInOrder(selected.index)
  <1>2. LaneOK(selected) /\ TxsOf(selected.index) = Pooled
    BY <1>1, LaneSelectOK, TxsAfterLaneSelect DEF IntakeType, Pooled
  <1>3. bids \in Seq(Pooled) /\ bids \in Seq(Txs) /\ Len(bids) \in Nat
    <2>1. bids \in Seq(Pooled)
      BY <1>2, BidsPooled DEF LaneOK
    <2>2. Pooled \subseteq Txs
      BY <1>1 DEF IntakeType, LaneOK, LaneType, Removable, Pooled
    <2> HIDE DEF bids
    <2> QED BY <2>1, <2>2
  <1>4. PICK i \in 1..(Len(bids) + 1) :
           /\ lane' = RemoveTxsFromLane(selected, RejectedBefore(bids, i))
           /\ winner' = None \/ (winner' \in Pooled /\ VerifyTx(winner'))
    <2>1. CASE WinnerAt(bids) = {} /\ winner' = None
               /\ lane' = RemoveTxsFromLane(selected, RejectedBefore(bids, Len(bids) + 1))
      <3>1. Len(bids) + 1 \in 1..(Len(bids) + 1)
        BY <1>3
      <3> HIDE DEF bids, selected
      <3> QED BY <2>1, <3>1
    <2>2. ASSUME NEW i \in WinnerAt(bids), winner' = bids[i],
                 lane' = RemoveTxsFromLane(selected, RejectedBefore(bids, i))
          PROVE  i \in 1..(Len(bids) + 1) /\ winner' \in Pooled /\ VerifyTx(winner')
      <3> HIDE DEF bids
      <3>1. i \in 1..Len(bids) /\ VerifyTx(bids[i])
        BY <1>3 DEF WinnerAt
      <3>2. bids[i] \in Pooled /\ i \in 1..(Len(bids) + 1)
        BY <1>3, <3>1
      <3> HIDE DEF VerifyTx
      <3> QED BY <2>2, <3>1, <3>2
    <2>3. \/ /\ WinnerAt(bids) = {} /\ winner' = None
             /\ lane' = RemoveTxsFromLane(selected, RejectedBefore(bids, Len(bids) + 1))
          \/ \E i \in WinnerAt(bids) :
                /\ winner' = bids[i]
                /\ lane' = RemoveTxsFromLane(selected, RejectedBefore(bids, i))
      BY DEF Prepare
    <2> HIDE DEF bids, selected
    <2> QED BY <2>1, <2>2, <2>3
  <1>5. RejectedBefore(bids, i) \in SUBSET Txs /\ IsFiniteSet(RejectedBefore(bids, i))
    <2> HIDE DEF bids
    <2> QED BY <1>3, RejectedFinite
  <1>6. LaneOK(lane)' /\ Pooled' \subseteq Pooled
    <2>1. /\ LaneOK(RemoveTxsFromLane(selected, RejectedBefore(bids, i)))
          /\ TxsOf(RemoveTxsFromLane(selected, RejectedBefore(bids, i)).index) \subseteq TxsOf(selected.index)
      <3> HIDE DEF bids, selected
      <3> QED BY <1>2, <1>5, RemoveTxs
    <2> HIDE DEF bids, selected
    <2> QED BY <1>2, <1>4, <2>1 DEF LaneOK, Pooled
  <1>7. UNCHANGED <<comet, recheck, height>>
    BY DEF Prepare
  <1> HIDE DEF bids, selected
  <1>8. winner' = None \/ (winner' \in Txs /\ winner' \in Pooled
                           /\ BidOf[winner'].timeout >= height + 1)
    <2>1. CASE winner' # None
      <3>1. PICK w : w = winner'
        OBVIOUS
      <3>2. w \in Txs /\ w \in Pooled /\ VerifyTx(w)
        BY <1>1, <1>4, <2>1, <3>1 DEF IntakeType, LaneOK, LaneType, Removable, Pooled
      <3>3. BidOf[w].timeout >= height + 1
        BY <1>1, <3>2, VerifiedTimely
      <3> QED BY <3>1, <3>2, <3>3
    <2> QED BY <2>1
  <1>9. IntakeType'
    BY <1>1, <1>6, <1>7, <1>8 DEF IntakeType
  <1>10. OneDenomination' /\ WinnerTimely'
    BY <1>1, <1>6, <1>7, <1>8 DEF OneDenomination, WinnerTimely
  <1>11. LatestRechecked'
    BY <1>1, <1>6, <1>7 DEF LatestRechecked, Rechecked
  <1>12. RestoredRechecked'
    BY <1>7 DEF RestoredRechecked, Prepare
  <1> QED BY <1>9, <1>10, <1>11, <1>12 DEF IntakeInv

\* A block takes bids out of the lane and starts a recheck, which has all before it.
LEMMA BlockStep ==
    ASSUME IntakeInv, NEW done \in SUBSET Txs, IsFiniteSet(done), NEW plain, Block(done, plain)
    PROVE  IntakeInv'
  <1>1. IntakeType /\ OneDenomination /\ WinnerTimely /\ LatestRechecked /\ RestoredRechecked
    BY DEF IntakeInv
  <1>2. LaneOK(lane)' /\ Pooled' \subseteq Pooled
    <2> DEFINE txs == {tx \in done : LaneContains(lane, tx)}
    <2>1. txs \in SUBSET done /\ txs \in SUBSET Txs
      OBVIOUS
    <2>2. lane' = RemoveTxsFromLane(lane, txs)
      BY DEF Block
    <2> HIDE DEF txs
    <2>3. IsFiniteSet(txs)
      BY <2>1, FS_Subset
    <2>4. /\ LaneOK(RemoveTxsFromLane(lane, txs))
          /\ TxsOf(RemoveTxsFromLane(lane, txs).index) \subseteq TxsOf(lane.index)
      BY <1>1, <2>1, <2>3, RemoveTxs DEF IntakeType
    <2> QED BY <2>2, <2>4 DEF LaneOK, Pooled
  <1>3. comet \in Seq(Txs) /\ Len(comet) \in Nat /\ height \in Nat
    BY <1>1 DEF IntakeType
  <1>4. comet' \in Seq(Txs)
    <2> DEFINE at == {i \in DOMAIN comet : comet[i] \in done}
               i == CHOOSE i \in at : TRUE
    <2>1. comet' = IF at = {} THEN comet ELSE SeqExt!RemoveAt(comet, i)
      BY DEF Block, Without
    <2>2. CASE at = {}
      BY <1>3, <2>1, <2>2
    <2>3. CASE at # {}
      <3>1. i \in at
        <4> HIDE DEF at
        <4> QED BY <2>3
      <3>2. i \in 1..Len(comet)
        <4> HIDE DEF i
        <4> QED BY <1>3, <3>1
      <3> HIDE DEF i, at
      <3>3. comet' = SubSeq(comet, 1, i - 1) \o SubSeq(comet, i + 1, Len(comet))
        BY <2>1, <2>3 DEF SeqExt!RemoveAt
      <3> QED BY <1>3, <3>2, <3>3
    <2> QED BY <2>2, <2>3
  <1>5. recheck' = (IF comet' = <<>> THEN 0 ELSE 1) /\ height' = height + 1 /\ winner' = None
    BY DEF Block
  <1>6. Rechecked' = 0 /\ recheck' \in 0..Len(comet') /\ height' \in Nat
    BY <1>3, <1>4, <1>5 DEF Rechecked
  <1>7. IntakeType'
    BY <1>2, <1>4, <1>5, <1>6 DEF IntakeType
  <1>8. OneDenomination' /\ WinnerTimely'
    BY <1>1, <1>2, <1>5 DEF OneDenomination, WinnerTimely
  <1>9. LatestRechecked' /\ RestoredRechecked'
    BY <1>6 DEF LatestRechecked, RestoredRechecked, Restored
  <1> QED BY <1>7, <1>8, <1>9 DEF IntakeInv

\* A step that leaves the lane, CometBFT's mempool and the recheck alone.
LEMMA AsideStep ==
    ASSUME IntakeInv, UNCHANGED <<lane, comet, recheck, height>>, winner' = winner \/ winner' = None
    PROVE  IntakeInv'
  <1>1. IntakeType /\ OneDenomination /\ WinnerTimely /\ LatestRechecked /\ RestoredRechecked
    BY DEF IntakeInv
  <1>2. LaneOK(lane)' /\ Pooled' = Pooled
    BY <1>1 DEF IntakeType, LaneOK, Pooled
  <1>3. IntakeType'
    BY <1>1, <1>2 DEF IntakeType
  <1>4. OneDenomination' /\ WinnerTimely'
    BY <1>1, <1>2 DEF OneDenomination, WinnerTimely
  <1>5. Rechecked' = Rechecked
    BY DEF Rechecked
  <1>6. LatestRechecked' /\ RestoredRechecked'
    BY <1>1, <1>2, <1>5 DEF LatestRechecked, RestoredRechecked, Restored
  <1> QED BY <1>3, <1>4, <1>6 DEF IntakeInv

LEMMA IntakeNext == IntakeInv /\ [Next]_vars => IntakeInv'
  <1> SUFFICES ASSUME IntakeInv, [Next]_vars PROVE IntakeInv'
    OBVIOUS
  <1>1. winner \in Txs \cup {None}
    BY DEF IntakeInv, IntakeType
  <1>2. ASSUME NEW tx \in Txs PROVE {tx} \in SUBSET Txs /\ IsFiniteSet({tx})
    BY FS_Singleton
  <1>3. {} \in SUBSET Txs /\ IsFiniteSet({})
    BY FS_EmptySet
  <1>4. ASSUME NEW tx \in Txs, CheckTx(tx) PROVE IntakeInv'
    BY <1>4, CheckTxStep
  <1>5. ASSUME NEW tx \in Txs, CommitOtherBid(tx) PROVE IntakeInv'
    BY <1>2, <1>5, BlockStep DEF CommitOtherBid, BlockWithBid
  <1>6. CASE RecheckTx
    BY <1>6, RecheckTxStep
  <1>7. CASE Prepare
    BY <1>7, PrepareStep
  <1>8. CASE NextRound
    BY <1>8, AsideStep DEF NextRound
  <1>9. CASE CommitWinner
    <2>1. winner \in Txs /\ Block({winner}, Range(BidOf[winner].bundle))
      BY <1>1, <1>9 DEF CommitWinner, BlockWithBid
    <2> QED BY <1>2, <2>1, BlockStep
  <1>10. ASSUME NEW s \in Senders, NEW d \in Denoms, CommitSpend(s, d) PROVE IntakeInv'
    BY <1>3, <1>10, BlockStep DEF CommitSpend
  <1>11. ASSUME NEW s \in Senders, NEW d \in Denoms, CommitReceive(s, d) PROVE IntakeInv'
    BY <1>3, <1>11, BlockStep DEF CommitReceive
  <1>12. ASSUME NEW p \in ParamUpdates, CommitUpdateParams(p) PROVE IntakeInv'
    BY <1>3, <1>12, BlockStep DEF CommitUpdateParams
  <1>13. ASSUME NEW p \in Plain, AdmitPlain(p) \/ DropPlain(p) PROVE IntakeInv'
    BY <1>13, AsideStep DEF AdmitPlain, DropPlain
  <1>14. ASSUME NEW p \in Plain, CommitPlain(p) PROVE IntakeInv'
    BY <1>3, <1>14, BlockStep DEF CommitPlain
  <1>15. CASE UNCHANGED vars
    BY <1>15, AsideStep DEF vars
  <1> QED BY <1>4, <1>5, <1>6, <1>7, <1>8, <1>9, <1>10, <1>11, <1>12, <1>13, <1>14, <1>15 DEF Next

-----------------------------------------------------------------------------
(* Theorems. *)

LEMMA IntakeInvariant == Spec => []IntakeInv
  BY IntakeInit, IntakeNext, PTL DEF Spec

\* The bids in the lane are all in one denomination, whatever governance has
\* changed: the comparison of the auction lane's TxPriority, which calls bids in
\* different denominations equal, is a total order on it. Rests on the top bid,
\* with which ValidateAuctionBid compares, being one of the lane.
THEOREM Comparable == Spec => []OneDenomination
  <1>1. IntakeInv => OneDenomination
    BY DEF IntakeInv
  <1> QED BY <1>1, IntakeInvariant, PTL

\* A bid this node prepares has not expired in the block it is proposed for, and
\* none in the lane or in a proposal has a timeout that is negative as an int64.
THEOREM Timely == Spec => []WinnerTimely
  <1>1. IntakeInv => WinnerTimely
    BY DEF IntakeInv
  <1> QED BY <1>1, IntakeInvariant, PTL

\* Unless a recheck is under way, a pooled bid is the latest that CometBFT holds of its
\* sender and nonce, although the recheck of an older one may have put that back in the
\* meantime.
THEOREM LatestWins == Spec => []LatestPooled
  <1>1. IntakeInv => LatestPooled
    <2> SUFFICES ASSUME IntakeInv, recheck = 0, NEW tx \in Pooled, NEW i \in DOMAIN comet,
                        ScoreKey(comet[i]) = ScoreKey(tx)
                 PROVE  \E j \in DOMAIN comet : j >= i /\ comet[j] = tx
      BY DEF LatestPooled
    <2>1. Rechecked = Len(comet) /\ comet \in Seq(Txs)
      BY DEF Rechecked, IntakeInv, IntakeType
    <2>2. i \in 1..Len(comet) /\ DOMAIN comet = 1..Len(comet) /\ Len(comet) \in Nat
      BY <2>1
    <2>3. PICK j \in i..Len(comet) : comet[j] = tx
      BY <2>1, <2>2 DEF IntakeInv, LatestRechecked
    <2> QED BY <2>2, <2>3
  <1> QED BY <1>1, IntakeInvariant, PTL

\* Once CometBFT has rechecked all its bids, the latest of every sender and nonce that it
\* has kept is in the lane, although a replacement, a proposal or the recheck of an older
\* one may have taken it out: a bid that passes its recheck is inserted, and nothing that
\* is rechecked before a later bid of its sender and nonce can stay in its place.
THEOREM RecheckComplete == Spec => RecheckRestores
  <1> DEFINE Ends == recheck > 0 /\ recheck' = 0 =>
                       \A i \in DOMAIN comet' :
                           LatestOfKey(comet', i) => comet'[i] \in TxsOf(lane.index)'
  <1>1. IntakeInv /\ [Next]_vars => [Ends]_vars
    <2> SUFFICES ASSUME IntakeInv, Next, recheck > 0, recheck' = 0,
                        NEW i \in DOMAIN comet', LatestOfKey(comet', i)
                 PROVE  comet'[i] \in TxsOf(lane.index)'
      OBVIOUS
    <2>1. RecheckTx
      <3>1. recheck # 0 /\ recheck' # recheck
        BY DEF IntakeInv, IntakeType
      <3>2. \A done, plain : ~Block(done, plain)
        BY <3>1 DEF Block
      <3> QED BY <3>1, <3>2 DEF Next, CheckTx, CommitOtherBid, BlockWithBid, AdmitPlain, DropPlain,
                 CommitPlain, Prepare, NextRound, CommitWinner, CommitSpend, CommitReceive, CommitUpdateParams
    <2>2. IntakeInv' /\ Restored'
      BY <2>1, RecheckTxStep
    <2>3. Rechecked' = Len(comet') /\ DOMAIN comet' = 1..Len(comet')
      BY <2>2 DEF Rechecked, IntakeInv, IntakeType
    <2>4. \A j \in 1..Rechecked' : ScoreKey(comet'[j]) = ScoreKey(comet'[i]) => j <= i
      BY <2>3 DEF LatestOfKey
    <2>5. comet'[i] \in Pooled'
      BY <2>2, <2>3, <2>4 DEF Restored
    <2> QED BY <2>5 DEF Pooled
  <1>2. RecheckRestores <=> [][Ends]_vars
    BY DEF RecheckRestores
  <1> QED BY <1>1, <1>2, IntakeInvariant, PTL DEF Spec
==============================================================================
