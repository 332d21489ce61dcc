------------------------ MODULE ProposalHandlerProofs ------------------------
(***************************************************************************)
(* Theorems about ProposalHandler, for any lanes, transactions, accounts,  *)
(* block sizes and proposals, and any number of blocks.                    *)
(***************************************************************************)
EXTENDS ProposalHandler, PriorityNonceProofs

-----------------------------------------------------------------------------
(* The ante handler on one transaction. *)

Result == [ok: BOOLEAN, st: AccountState]

\* The same sequences and no more coins.
Lower(lo, hi) == lo.seq = hi.seq /\ \A s \in Senders : lo.bal[s] <= hi.bal[s]

LEMMA LowerReflexive ==
    ASSUME NEW st \in AccountState
    PROVE  Lower(st, st)
  BY DEF Lower, AccountState

LEMMA ContentFacts ==
    ASSUME NEW tx \in Txs
    PROVE  /\ Content[tx].fee \in Nat /\ TxSize(tx) \in Nat /\ Bundle(tx) \in Seq(Txs)
           /\ tx.sender \in Senders /\ tx.nonce \in Nat /\ tx.priority \in Int
  <1>1. Content[tx] \in TxContent
    BY ContentAssumption
  <1>2. tx.nonce \in Nat /\ tx.priority \in Int
    BY TxFacts, NonceAssumption, PriorityAssumption
  <1> QED BY <1>1, <1>2, TxFacts DEF TxContent, TxSize, Bundle

\* DeductFeeDecorator takes no more than there is.
LEMMA DeductFeeFacts ==
    ASSUME NEW st \in AccountState, NEW tx \in Txs, NEW r, r = DeductFee(st, tx)
    PROVE  r \in Result /\ r.st.seq = st.seq /\ Lower(r.st, st) /\ (~r.ok => r.st = st)
  <1> DEFINE free == \E l \in FreeLanes : Match(l, tx)
             paid == [st EXCEPT !.bal[tx.sender] = @ - Content[tx].fee]
  <1>1. r = IF free THEN Pass(st) ELSE IF st.bal[tx.sender] < Content[tx].fee THEN Fail(st) ELSE Pass(paid)
    BY DEF DeductFee
  <1> HIDE DEF free
  <1>2. st.bal \in [Senders -> Nat] /\ st.seq \in [Senders -> Nat] /\ Lower(st, st)
    BY LowerReflexive DEF AccountState
  <1>3. CASE ~(st.bal[tx.sender] < Content[tx].fee)
    <2>1. st.bal[tx.sender] - Content[tx].fee \in Nat /\ st.bal[tx.sender] - Content[tx].fee <= st.bal[tx.sender]
      BY <1>2, <1>3, ContentFacts
    <2>2. paid \in AccountState /\ paid.seq = st.seq /\ Lower(paid, st)
      BY <1>2, <2>1, ContentFacts DEF AccountState, Lower
    <2> HIDE DEF paid
    <2> QED BY <1>1, <1>2, <1>3, <2>2 DEF Pass, Fail, Result
  <1>4. CASE st.bal[tx.sender] < Content[tx].fee
    <2> HIDE DEF paid
    <2> QED BY <1>1, <1>2, <1>4 DEF Pass, Fail, Result
  <1> QED BY <1>3, <1>4

LEMMA DeductFeeLower ==
    ASSUME NEW lo \in AccountState, NEW hi \in AccountState, Lower(lo, hi), NEW tx \in Txs,
           DeductFee(lo, tx).ok
    PROVE  DeductFee(hi, tx).ok /\ Lower(DeductFee(lo, tx).st, DeductFee(hi, tx).st)
  <1> DEFINE free == \E l \in FreeLanes : Match(l, tx)
             paid(st) == [st EXCEPT !.bal[tx.sender] = @ - Content[tx].fee]
  <1>1. \A st : DeductFee(st, tx) = IF free THEN Pass(st)
                                    ELSE IF st.bal[tx.sender] < Content[tx].fee THEN Fail(st) ELSE Pass(paid(st))
    BY DEF DeductFee
  <1> HIDE DEF free
  <1>2. /\ lo.bal \in [Senders -> Nat] /\ hi.bal \in [Senders -> Nat]
        /\ tx.sender \in Senders /\ Content[tx].fee \in Nat
    BY ContentFacts DEF AccountState
  <1>3. CASE free
    BY <1>1, <1>3 DEF Pass
  <1>4. CASE ~free
    <2>1. ASSUME lo.bal[tx.sender] < Content[tx].fee PROVE FALSE
      <3> HIDE DEF paid
      <3>1. DeductFee(lo, tx) = Fail(lo)
        BY <1>1, <1>4, <2>1
      <3>2. Fail(lo).ok = FALSE
        BY DEF Fail
      <3> QED BY <3>1, <3>2
    <2>2. ~(hi.bal[tx.sender] < Content[tx].fee)
      BY <1>2, <2>1 DEF Lower
    <2>3. DeductFee(lo, tx) = Pass(paid(lo)) /\ DeductFee(hi, tx) = Pass(paid(hi))
      BY <1>1, <1>4, <2>1, <2>2
    <2>4. Lower(paid(lo), paid(hi))
      BY <1>2 DEF Lower, AccountState
    <2> HIDE DEF paid
    <2> QED BY <2>3, <2>4 DEF Pass
  <1> QED BY <1>3, <1>4

\* The sequence that was used cannot be used again.
LEMMA UseSequenceFacts ==
    ASSUME NEW st \in AccountState, NEW tx \in Txs, NEW r, r = UseSequence(st, tx)
    PROVE  /\ r \in Result /\ r.st.bal = st.bal
           /\ ~r.ok => r.st = st
           /\ r.ok => /\ tx.signed /\ st.seq[tx.sender] = tx.nonce
                      /\ r.st.seq = [st.seq EXCEPT ![tx.sender] = @ + 1]
  <1> DEFINE used == [st EXCEPT !.seq[tx.sender] = @ + 1]
             bad == ~tx.signed \/ st.seq[tx.sender] # tx.nonce
  <1>1. r = IF bad THEN Fail(st) ELSE Pass(used)
    BY DEF UseSequence
  <1>2. used \in AccountState /\ used.bal = st.bal /\ used.seq = [st.seq EXCEPT ![tx.sender] = @ + 1]
    <2>1. st = [seq |-> st.seq, bal |-> st.bal] /\ st.seq \in [Senders -> Nat] /\ st.bal \in [Senders -> Nat]
      BY DEF AccountState
    <2>2. [st.seq EXCEPT ![tx.sender] = @ + 1] \in [Senders -> Nat]
      BY <2>1, ContentFacts
    <2> QED BY <2>1, <2>2 DEF AccountState
  <1> HIDE DEF used
  <1> QED BY <1>1, <1>2 DEF Pass, Fail, Result

LEMMA UseSequenceLower ==
    ASSUME NEW lo \in AccountState, NEW hi \in AccountState, Lower(lo, hi), NEW tx \in Txs,
           UseSequence(lo, tx).ok
    PROVE  UseSequence(hi, tx).ok /\ Lower(UseSequence(lo, tx).st, UseSequence(hi, tx).st)
  <1>1. PICK a : a = UseSequence(lo, tx)
    OBVIOUS
  <1>2. PICK b : b = UseSequence(hi, tx)
    OBVIOUS
  <1>3. /\ a.st.bal = lo.bal /\ tx.signed /\ lo.seq[tx.sender] = tx.nonce
        /\ a.st.seq = [lo.seq EXCEPT ![tx.sender] = @ + 1]
    BY <1>1, UseSequenceFacts
  <1>4. b.ok
    BY <1>2, <1>3 DEF UseSequence, Pass, Lower
  <1>5. b.st.bal = hi.bal /\ b.st.seq = [hi.seq EXCEPT ![tx.sender] = @ + 1]
    BY <1>2, <1>4, UseSequenceFacts
  <1>6. Lower(a.st, b.st)
    BY <1>3, <1>5 DEF Lower
  <1> QED BY <1>1, <1>2, <1>4, <1>6

\* What the decorators of the SDK do.
LEMMA SdkFacts ==
    ASSUME NEW st \in AccountState, NEW tx \in Txs, NEW r, r = SdkAnteHandler(st, tx)
    PROVE  /\ r \in Result
           /\ ~r.ok => Lower(r.st, st)
           /\ r.ok => st.seq[tx.sender] = tx.nonce /\ r.st.seq = [st.seq EXCEPT ![tx.sender] = @ + 1]
  <1>1. PICK fee : fee = DeductFee(st, tx)
    OBVIOUS
  <1>2. fee \in Result /\ fee.st.seq = st.seq /\ Lower(fee.st, st) /\ fee.st \in AccountState
    BY <1>1, DeductFeeFacts DEF Result
  <1>3. r = IF fee.ok THEN UseSequence(fee.st, tx) ELSE fee
    BY <1>1 DEF SdkAnteHandler
  <1>4. CASE fee.ok
    BY <1>2, <1>3, <1>4, UseSequenceFacts
  <1>5. CASE ~fee.ok
    BY <1>2, <1>3, <1>5
  <1> QED BY <1>4, <1>5

LEMMA SdkLower ==
    ASSUME NEW lo \in AccountState, NEW hi \in AccountState, Lower(lo, hi), NEW tx \in Txs,
           SdkAnteHandler(lo, tx).ok
    PROVE  SdkAnteHandler(hi, tx).ok /\ Lower(SdkAnteHandler(lo, tx).st, SdkAnteHandler(hi, tx).st)
  <1>1. PICK a : a = DeductFee(lo, tx)
    OBVIOUS
  <1>2. PICK b : b = DeductFee(hi, tx)
    OBVIOUS
  <1>3. a.st \in AccountState /\ b.st \in AccountState
    BY <1>1, <1>2, DeductFeeFacts DEF Result
  <1>4. SdkAnteHandler(lo, tx) = IF a.ok THEN UseSequence(a.st, tx) ELSE a
    BY <1>1 DEF SdkAnteHandler
  <1>5. SdkAnteHandler(hi, tx) = IF b.ok THEN UseSequence(b.st, tx) ELSE b
    BY <1>2 DEF SdkAnteHandler
  <1>6. a.ok
    BY <1>4
  <1>7. b.ok /\ Lower(a.st, b.st)
    BY <1>1, <1>2, <1>6, DeductFeeLower
  <1> QED BY <1>3, <1>4, <1>5, <1>6, <1>7, UseSequenceLower

\* What the ante handler of a proposal does to one transaction.
LEMMA AnteFacts ==
    ASSUME NEW st \in AccountState, NEW h, NEW tx \in Txs, NEW top, NEW r, r = AnteHandler(st, h, tx, top)
    PROVE  /\ r \in Result
           /\ r.ok => st.seq[tx.sender] = tx.nonce /\ r.st.seq = [st.seq EXCEPT ![tx.sender] = @ + 1]
           /\ ~r.ok /\ Content[tx].info = "none" => Lower(r.st, st)
  <1>1. PICK sdk : sdk = SdkAnteHandler(st, tx)
    OBVIOUS
  <1>2. /\ sdk \in Result
        /\ ~sdk.ok => Lower(sdk.st, st)
        /\ sdk.ok => st.seq[tx.sender] = tx.nonce /\ sdk.st.seq = [st.seq EXCEPT ![tx.sender] = @ + 1]
    BY <1>1, SdkFacts
  <1> DEFINE builder == BuilderAnteHandle(sdk.st, h, tx, top)
  <1>3. r = IF sdk.ok /\ builder THEN sdk ELSE Fail(sdk.st)
    BY <1>1 DEF AnteHandler
  <1>4. Content[tx].info = "none" => builder
    BY DEF BuilderAnteHandle, Timely, IsBid
  <1> HIDE DEF builder
  <1>5. Fail(sdk.st) \in Result /\ Fail(sdk.st).ok = FALSE /\ Fail(sdk.st).st = sdk.st
    BY <1>2 DEF Fail, Result
  <1> QED BY <1>2, <1>3, <1>4, <1>5

\* More coins do not keep a transaction from passing.
LEMMA AnteLower ==
    ASSUME NEW lo \in AccountState, NEW hi \in AccountState, Lower(lo, hi), NEW h, NEW tx \in Txs,
           AnteVerifyTx(lo, h, tx).ok
    PROVE  AnteVerifyTx(hi, h, tx).ok /\ Lower(AnteVerifyTx(lo, h, tx).st, AnteVerifyTx(hi, h, tx).st)
  <1>1. PICK a : a = SdkAnteHandler(lo, tx)
    OBVIOUS
  <1>2. PICK b : b = SdkAnteHandler(hi, tx)
    OBVIOUS
  <1>3. a.st \in AccountState /\ b.st \in AccountState
    <2>1. a \in Result /\ b \in Result
      BY <1>1, <1>2, SdkFacts
    <2> QED BY <2>1 DEF Result
  <1>4. AnteVerifyTx(lo, h, tx) = IF a.ok /\ BuilderAnteHandle(a.st, h, tx, NoTopBid) THEN a ELSE Fail(a.st)
    BY <1>1 DEF AnteVerifyTx, AnteHandler
  <1>5. AnteVerifyTx(hi, h, tx) = IF b.ok /\ BuilderAnteHandle(b.st, h, tx, NoTopBid) THEN b ELSE Fail(b.st)
    BY <1>2 DEF AnteVerifyTx, AnteHandler
  <1>6. a.ok /\ BuilderAnteHandle(a.st, h, tx, NoTopBid)
    BY <1>4 DEF Fail
  <1>7. b.ok /\ Lower(a.st, b.st)
    BY <1>1, <1>2, <1>6, SdkLower
  <1>8. a.st.bal[tx.sender] \in Nat /\ b.st.bal[tx.sender] \in Nat /\ tx.priority \in Int
        /\ a.st.bal[tx.sender] <= b.st.bal[tx.sender]
    BY <1>3, <1>7, ContentFacts DEF AccountState, Lower
  <1>9. ValidateBidInfo(a.st, tx, NoTopBid) => ValidateBidInfo(b.st, tx, NoTopBid)
    BY <1>8 DEF ValidateBidInfo, ValidateAuctionBid
  <1>10. BuilderAnteHandle(b.st, h, tx, NoTopBid)
    BY <1>6, <1>9 DEF BuilderAnteHandle
  <1> QED BY <1>4, <1>5, <1>6, <1>7, <1>10

-----------------------------------------------------------------------------
(* The ante handler on a list of transactions: its run is the results after *)
(* every one of them.                                                       *)

Then(prev, h, tx) == IF prev.ok THEN AnteVerifyTx(prev.st, h, tx) ELSE prev
IsAnteRun(run, st, h, txs) ==
    /\ run \in [0..Len(txs) -> Result]
    /\ run[0] = Pass(st)
    /\ \A i \in 1..Len(txs) : run[i] = Then(run[i - 1], h, txs[i])

LEMMA ThenType ==
    ASSUME NEW prev \in Result, NEW h, NEW tx \in Txs
    PROVE  Then(prev, h, tx) \in Result
  <1>1. prev.st \in AccountState
    BY DEF Result
  <1> QED BY <1>1, AnteFacts DEF Then, AnteVerifyTx

LEMMA AnteRun ==
    ASSUME NEW st \in AccountState, NEW h, NEW txs \in Seq(Txs)
    PROVE  \E run : IsAnteRun(run, st, h, txs) /\ AnteVerifyAll(st, h, txs) = run[Len(txs)]
  <1> DEFINE n == Len(txs)
             NextOf(w, i) == IF i = 0 THEN Pass(st)
                             ELSE CHOOSE r \in {IF prev.ok THEN AnteVerifyTx(prev.st, h, txs[i]) ELSE prev :
                                                   prev \in {w[i - 1]}} : TRUE
             Solves(w) == w = [i \in 0..n |-> NextOf(w, i)]
             run == CHOOSE w : Solves(w)
             step == [i \in 1..n |-> [v \in Result |-> Then(v, h, txs[i])]]
  <1>1. AnteVerifyAll(st, h, txs) = run[n]
    BY DEF AnteVerifyAll
  <1>2. n \in Nat /\ \A i \in 1..n : i \in 0..n /\ i - 1 \in 0..n /\ i # 0 /\ txs[i] \in Txs
    OBVIOUS
  <1>3. \A w : \A i \in 1..n : NextOf(w, i) = Then(w[i - 1], h, txs[i])
    BY <1>2 DEF Then
  <1>4. \A w : NextOf(w, 0) = Pass(st)
    OBVIOUS
  <1> HIDE DEF NextOf
  <1>5. Pass(st) \in Result
    BY DEF Pass, Result
  <1>6. \E w : Solves(w)
    <2>1. step \in Steps(n, Result)
      BY <1>2, ThenType DEF Steps
    <2>2. PICK f : IsRun(f, n, Result, Pass(st), step)
      <3> HIDE DEF step, n
      <3> QED BY <1>2, <1>5, <2>1, IntervalRecursion
    <2>3. f \in [0..n -> Result] /\ f[0] = Pass(st) /\ \A i \in 1..n : f[i] = Then(f[i - 1], h, txs[i])
      <3>1. f \in [0..n -> Result] /\ f[0] = Pass(st) /\ \A i \in 1..n : f[i] = step[i][f[i - 1]]
        BY <2>2 DEF IsRun
      <3>2. \A i \in 1..n : f[i - 1] \in Result
        <4> HIDE DEF n
        <4> QED BY <1>2, <3>1
      <3> QED BY <3>1, <3>2
    <2> HIDE DEF n
    <2>4. ASSUME NEW i \in 0..n PROVE f[i] = NextOf(f, i)
      <3>1. CASE i = 0
        BY <1>4, <2>3, <3>1
      <3>2. CASE i # 0
        <4>1. i \in 1..n
          BY <1>2, <3>2
        <4> QED BY <1>3, <2>3, <4>1
      <3> QED BY <3>1, <3>2
    <2>5. Solves(f)
      BY <2>3, <2>4
    <2> HIDE DEF Solves
    <2> QED BY <2>5
  <1>7. Solves(run)
    <2> HIDE DEF Solves
    <2> QED BY <1>6
  <1> HIDE DEF run, n
  <1>8. run[0] = Pass(st) /\ \A i \in 1..n : run[i] = Then(run[i - 1], h, txs[i])
    BY <1>2, <1>3, <1>4, <1>7
  <1> DEFINE S == {i \in 0..n : run[i] \in Result}
  <1>9. \A i \in 0..n : i \in S
    <2>1. 0 \in S
      BY <1>2, <1>5, <1>8
    <2>2. ASSUME NEW i \in 1..n, i - 1 \in S PROVE i \in S
      BY <1>2, <1>8, <2>2, ThenType
    <2> HIDE DEF S
    <2> QED BY <1>2, <2>1, <2>2, IntervalInduction
  <1>10. run \in [0..n -> Result]
    BY <1>7, <1>9
  <1>11. IsAnteRun(run, st, h, txs)
    BY <1>8, <1>10 DEF IsAnteRun, n
  <1> QED BY <1>1, <1>11 DEF n

LEMMA VerifyType ==
    ASSUME NEW st \in AccountState, NEW h, NEW txs \in Seq(Txs)
    PROVE  AnteVerifyAll(st, h, txs) \in Result
  <1>1. PICK run : IsAnteRun(run, st, h, txs) /\ AnteVerifyAll(st, h, txs) = run[Len(txs)]
    BY AnteRun
  <1>2. Len(txs) \in 0..Len(txs)
    OBVIOUS
  <1> QED BY <1>1, <1>2 DEF IsAnteRun

LEMMA VerifyNone ==
    ASSUME NEW st \in AccountState, NEW h
    PROVE  AnteVerifyAll(st, h, <<>>) = Pass(st)
  <1>1. <<>> \in Seq(Txs) /\ Len(<<>>) = 0
    OBVIOUS
  <1>2. PICK run : IsAnteRun(run, st, h, <<>>) /\ AnteVerifyAll(st, h, <<>>) = run[Len(<<>>)]
    BY <1>1, AnteRun
  <1> QED BY <1>1, <1>2 DEF IsAnteRun

LEMMA VerifyOne ==
    ASSUME NEW st \in AccountState, NEW h, NEW tx \in Txs
    PROVE  AnteVerifyAll(st, h, <<tx>>) = AnteVerifyTx(st, h, tx)
  <1>1. <<tx>> \in Seq(Txs) /\ Len(<<tx>>) = 1 /\ <<tx>>[1] = tx /\ 1 \in 1..1 /\ 1 - 1 = 0
    OBVIOUS
  <1>2. PICK run : IsAnteRun(run, st, h, <<tx>>) /\ AnteVerifyAll(st, h, <<tx>>) = run[Len(<<tx>>)]
    BY <1>1, AnteRun
  <1>3. run[1] = Then(Pass(st), h, tx)
    BY <1>1, <1>2 DEF IsAnteRun
  <1>4. Then(Pass(st), h, tx) = AnteVerifyTx(st, h, tx)
    BY DEF Then, Pass
  <1> QED BY <1>1, <1>2, <1>3, <1>4

\* Verifying two lists one after the other.
LEMMA VerifyConcat ==
    ASSUME NEW st \in AccountState, NEW h, NEW a \in Seq(Txs), NEW b \in Seq(Txs)
    PROVE  AnteVerifyAll(st, h, a \o b)
              = IF AnteVerifyAll(st, h, a).ok THEN AnteVerifyAll(AnteVerifyAll(st, h, a).st, h, b)
                ELSE AnteVerifyAll(st, h, a)
  <1> DEFINE n == Len(a)
             m == Len(b)
  <1>1. /\ a \o b \in Seq(Txs) /\ Len(a \o b) = n + m /\ n \in Nat /\ m \in Nat
        /\ \A i \in 1..n : (a \o b)[i] = a[i]
        /\ \A j \in 1..m : (a \o b)[n + j] = b[j]
    OBVIOUS
  <1>2. PICK c : c = a \o b
    OBVIOUS
  <1>3. PICK rc : IsAnteRun(rc, st, h, c) /\ AnteVerifyAll(st, h, c) = rc[Len(c)]
    BY <1>1, <1>2, AnteRun
  <1>4. PICK ra : IsAnteRun(ra, st, h, a) /\ AnteVerifyAll(st, h, a) = ra[n]
    BY AnteRun
  <1>5. /\ rc[0] = Pass(st) /\ \A i \in 1..(n + m) : rc[i] = Then(rc[i - 1], h, c[i])
        /\ ra \in [0..n -> Result] /\ ra[0] = Pass(st) /\ \A i \in 1..n : ra[i] = Then(ra[i - 1], h, a[i])
    BY <1>1, <1>2, <1>3, <1>4 DEF IsAnteRun
  <1>6. Len(c) = n + m /\ (\A i \in 1..n : c[i] = a[i]) /\ (\A j \in 1..m : c[n + j] = b[j])
    BY <1>1, <1>2
  <1>7. n \in Nat /\ m \in Nat /\ n \in 0..n /\ m \in 0..m
    OBVIOUS
  <1> HIDE DEF n, m
  <1>8. rc[n] = ra[n]
    <2> DEFINE S == {i \in 0..n : rc[i] = ra[i]}
    <2>1. 0 \in S
      BY <1>5, <1>7
    <2>2. ASSUME NEW i \in 1..n, i - 1 \in S PROVE i \in S
      <3>1. i \in 0..n /\ i \in 1..(n + m)
        BY <1>7
      <3> QED BY <1>5, <1>6, <2>2, <3>1
    <2>3. \A i \in 0..n : i \in S
      <3> HIDE DEF S
      <3> QED BY <1>7, <2>1, <2>2, IntervalInduction
    <2> QED BY <1>7, <2>3
  <1>9. ra[n] \in Result
    BY <1>5, <1>7
  <1>10. CASE ra[n].ok
    <2>1. ra[n] = Pass(ra[n].st) /\ ra[n].st \in AccountState
      BY <1>9, <1>10 DEF Result, Pass
    <2>2. PICK rb : IsAnteRun(rb, ra[n].st, h, b) /\ AnteVerifyAll(ra[n].st, h, b) = rb[m]
      BY <2>1, AnteRun DEF m
    <2>3. rb[0] = ra[n] /\ \A j \in 1..m : rb[j] = Then(rb[j - 1], h, b[j])
      BY <2>1, <2>2 DEF IsAnteRun, m
    <2> DEFINE S == {j \in 0..m : rc[n + j] = rb[j]}
    <2>4. 0 \in S
      <3>1. n + 0 = n /\ 0 \in 0..m
        BY <1>7
      <3> QED BY <1>8, <2>3, <3>1
    <2>5. ASSUME NEW j \in 1..m, j - 1 \in S PROVE j \in S
      <3>1. j \in 0..m /\ n + j \in 1..(n + m) /\ (n + j) - 1 = n + (j - 1)
        BY <1>7
      <3>2. rc[n + j] = Then(rc[n + (j - 1)], h, b[j])
        BY <1>5, <1>6, <3>1
      <3> QED BY <2>3, <2>5, <3>1, <3>2
    <2>6. \A j \in 0..m : j \in S
      <3> HIDE DEF S
      <3> QED BY <1>7, <2>4, <2>5, IntervalInduction
    <2>7. rc[n + m] = rb[m]
      BY <1>7, <2>6
    <2> QED BY <1>2, <1>3, <1>4, <1>6, <1>10, <2>2, <2>7
  <1>11. CASE ~ra[n].ok
    <2> DEFINE S == {j \in 0..m : rc[n + j] = ra[n]}
    <2>1. 0 \in S
      <3>1. n + 0 = n /\ 0 \in 0..m
        BY <1>7
      <3> QED BY <1>8, <3>1
    <2>2. ASSUME NEW j \in 1..m, j - 1 \in S PROVE j \in S
      <3>1. j \in 0..m /\ n + j \in 1..(n + m) /\ (n + j) - 1 = n + (j - 1)
        BY <1>7
      <3>2. rc[n + j] = Then(rc[n + (j - 1)], h, b[j])
        BY <1>5, <1>6, <3>1
      <3> QED BY <1>11, <2>2, <3>1, <3>2 DEF Then
    <2>3. \A j \in 0..m : j \in S
      <3> HIDE DEF S
      <3> QED BY <1>7, <2>1, <2>2, IntervalInduction
    <2>4. rc[n + m] = ra[n]
      BY <1>7, <2>3
    <2> QED BY <1>2, <1>3, <1>4, <1>6, <1>11, <2>4
  <1> QED BY <1>10, <1>11

\* A list that passes passes with more coins too.
LEMMA VerifyLower ==
    ASSUME NEW lo \in AccountState, NEW hi \in AccountState, Lower(lo, hi), NEW h, NEW txs \in Seq(Txs),
           AnteVerifyAll(lo, h, txs).ok
    PROVE  /\ AnteVerifyAll(hi, h, txs).ok
           /\ Lower(AnteVerifyAll(lo, h, txs).st, AnteVerifyAll(hi, h, txs).st)
  <1>1. PICK n : n = Len(txs)
    OBVIOUS
  <1>2. n \in Nat /\ n \in 0..n /\ \A i \in 1..n : i \in 0..n /\ i - 1 \in 0..n /\ txs[i] \in Txs
    BY <1>1
  <1>3. PICK ra : IsAnteRun(ra, lo, h, txs) /\ AnteVerifyAll(lo, h, txs) = ra[n]
    BY <1>1, AnteRun
  <1>4. PICK rb : IsAnteRun(rb, hi, h, txs) /\ AnteVerifyAll(hi, h, txs) = rb[n]
    BY <1>1, AnteRun
  <1>5. /\ ra \in [0..n -> Result] /\ ra[0] = Pass(lo) /\ \A i \in 1..n : ra[i] = Then(ra[i - 1], h, txs[i])
        /\ rb \in [0..n -> Result] /\ rb[0] = Pass(hi) /\ \A i \in 1..n : rb[i] = Then(rb[i - 1], h, txs[i])
    BY <1>1, <1>3, <1>4 DEF IsAnteRun
  <1> DEFINE S == {i \in 0..n : ra[i].ok => rb[i].ok /\ Lower(ra[i].st, rb[i].st)}
  <1>6. 0 \in S
    BY <1>2, <1>5 DEF Pass
  <1>7. ASSUME NEW i \in 1..n, i - 1 \in S PROVE i \in S
    <2>1. i \in 0..n /\ i - 1 \in 0..n /\ txs[i] \in Txs
      BY <1>2
    <2>2. ra[i - 1] \in Result /\ rb[i - 1] \in Result
      BY <1>5, <2>1
    <2>3. ra[i - 1].st \in AccountState /\ rb[i - 1].st \in AccountState
      BY <2>2 DEF Result
    <2>4. ASSUME ra[i].ok PROVE rb[i].ok /\ Lower(ra[i].st, rb[i].st)
      <3>1. ra[i - 1].ok
        BY <1>5, <2>4 DEF Then
      <3>2. rb[i - 1].ok /\ Lower(ra[i - 1].st, rb[i - 1].st)
        BY <1>7, <3>1
      <3>3. ra[i] = AnteVerifyTx(ra[i - 1].st, h, txs[i]) /\ rb[i] = AnteVerifyTx(rb[i - 1].st, h, txs[i])
        BY <1>5, <3>1, <3>2 DEF Then
      <3> QED BY <2>1, <2>3, <2>4, <3>2, <3>3, AnteLower
    <2> QED BY <2>1, <2>4
  <1>8. \A i \in 0..n : i \in S
    <2> HIDE DEF S
    <2> QED BY <1>2, <1>6, <1>7, IntervalInduction
  <1> QED BY <1>2, <1>3, <1>4, <1>8

\* No transaction passes twice: it would use its sequence twice.
LEMMA VerifyDistinct ==
    ASSUME NEW st \in AccountState, NEW h, NEW txs \in Seq(Txs), AnteVerifyAll(st, h, txs).ok
    PROVE  \A i, j \in 1..Len(txs) : i < j => txs[i] # txs[j]
  <1>1. PICK n : n = Len(txs)
    OBVIOUS
  <1>2. n \in Nat /\ n \in 0..n /\ \A i \in 1..n : i \in 0..n /\ i - 1 \in 0..n /\ txs[i] \in Txs
    BY <1>1
  <1>3. PICK run : IsAnteRun(run, st, h, txs) /\ AnteVerifyAll(st, h, txs) = run[n]
    BY <1>1, AnteRun
  <1>4. run \in [0..n -> Result] /\ \A i \in 1..n : run[i] = Then(run[i - 1], h, txs[i])
    BY <1>1, <1>3 DEF IsAnteRun
  <1> DEFINE D == {i \in 0..n : \A k \in 0..i : ~run[k].ok => ~run[i].ok}
  <1>5. \A i \in 0..n : i \in D
    <2>1. 0 \in D
      <3>1. \A k \in 0..0 : k = 0
        OBVIOUS
      <3> QED BY <1>2, <3>1
    <2>2. ASSUME NEW i \in 1..n, i - 1 \in D PROVE i \in D
      <3>1. i \in 0..n /\ \A k \in 0..i : k = i \/ k \in 0..(i - 1)
        BY <1>2
      <3>2. ~run[i - 1].ok => ~run[i].ok
        BY <1>4 DEF Then
      <3> QED BY <2>2, <3>1, <3>2
    <2> HIDE DEF D
    <2> QED BY <1>2, <2>1, <2>2, IntervalInduction
  <1>6. \A i \in 0..n : run[i].ok
    BY <1>2, <1>3, <1>5
  <1>7. ASSUME NEW i \in 1..n
        PROVE  /\ run[i].st \in AccountState /\ run[i - 1].st \in AccountState
               /\ run[i - 1].st.seq[txs[i].sender] = txs[i].nonce
               /\ run[i].st.seq = [run[i - 1].st.seq EXCEPT ![txs[i].sender] = @ + 1]
    <2>1. i \in 0..n /\ i - 1 \in 0..n /\ txs[i] \in Txs
      BY <1>2
    <2>2. run[i] \in Result /\ run[i - 1] \in Result /\ run[i].ok /\ run[i - 1].ok
      BY <1>4, <1>6, <2>1
    <2>3. run[i].st \in AccountState /\ run[i - 1].st \in AccountState
      BY <2>2 DEF Result
    <2>4. PICK p : p = run[i - 1].st
      OBVIOUS
    <2>5. PICK t : t = txs[i]
      OBVIOUS
    <2>6. PICK r : r = run[i]
      OBVIOUS
    <2>7. r = AnteHandler(p, h, t, NoTopBid)
      BY <1>4, <2>2, <2>4, <2>5, <2>6 DEF Then, AnteVerifyTx
    <2>8. r.st \in AccountState /\ p \in AccountState /\ t \in Txs /\ r.ok
      BY <2>1, <2>2, <2>3, <2>4, <2>5, <2>6
    <2>9. p.seq[t.sender] = t.nonce /\ r.st.seq = [p.seq EXCEPT ![t.sender] = @ + 1]
      BY <2>7, <2>8, AnteFacts
    <2> QED BY <2>3, <2>4, <2>5, <2>6, <2>9
  <1> DEFINE S == {j \in 0..n : \A i \in 1..j : run[j].st.seq[txs[i].sender] > txs[i].nonce}
  <1>8. \A j \in 0..n : j \in S
    <2>1. 0 \in S
      BY <1>2
    <2>2. ASSUME NEW j \in 1..n, j - 1 \in S PROVE j \in S
      <3> SUFFICES ASSUME NEW i \in 1..j PROVE run[j].st.seq[txs[i].sender] > txs[i].nonce
        BY <1>2
      <3>1. i \in 1..n /\ txs[i] \in Txs /\ txs[j] \in Txs
        BY <1>2
      <3>2. txs[i].sender \in Senders /\ txs[i].nonce \in Nat /\ txs[j].sender \in Senders /\ txs[j].nonce \in Nat
        BY <3>1, ContentFacts
      <3>3. run[j - 1].st.seq \in [Senders -> Nat]
        BY <1>7 DEF AccountState
      <3>4. PICK q : q = run[j - 1].st.seq
        OBVIOUS
      <3>5. PICK s : s = txs[j].sender
        OBVIOUS
      <3>6. q \in [Senders -> Nat] /\ s \in Senders /\ q[s] = txs[j].nonce /\ run[j].st.seq = [q EXCEPT ![s] = @ + 1]
        BY <1>7, <3>2, <3>3, <3>4, <3>5
      <3>7. CASE i = j
        BY <3>2, <3>5, <3>6, <3>7
      <3>8. CASE i # j
        <4>1. i \in 1..(j - 1)
          BY <3>8
        <4>2. q[txs[i].sender] > txs[i].nonce
          BY <2>2, <3>4, <4>1
        <4> QED BY <3>2, <3>6, <4>2
      <3> QED BY <3>7, <3>8
    <2> HIDE DEF S
    <2> QED BY <1>2, <2>1, <2>2, IntervalInduction
  <1> SUFFICES ASSUME NEW i \in 1..n, NEW j \in 1..n, i < j, txs[i] = txs[j] PROVE FALSE
    BY <1>1
  <1>9. j - 1 \in 0..n /\ i \in 1..(j - 1)
    BY <1>2
  <1>10. run[j - 1].st.seq[txs[j].sender] > txs[j].nonce
    BY <1>8, <1>9
  <1>11. run[j - 1].st.seq[txs[j].sender] = txs[j].nonce /\ txs[j].nonce \in Nat
    BY <1>2, <1>7, ContentFacts
  <1> QED BY <1>10, <1>11

-----------------------------------------------------------------------------
(* The bytes of a list of transactions. *)

IsSum(sum, txs) ==
    /\ sum \in [0..Len(txs) -> Nat]
    /\ sum[0] = 0
    /\ \A i \in 1..Len(txs) : sum[i] = sum[i - 1] + TxSize(txs[i])

LEMMA SumRun ==
    ASSUME NEW txs \in Seq(Txs)
    PROVE  \E sum : IsSum(sum, txs) /\ SumSize(txs) = sum[Len(txs)]
  <1> DEFINE n == Len(txs)
             NextOf(w, i) == IF i = 0 THEN 0 ELSE w[i - 1] + TxSize(txs[i])
             Solves(w) == w = [i \in 0..n |-> NextOf(w, i)]
             sum == CHOOSE w : Solves(w)
             step == [i \in 1..n |-> [v \in Nat |-> v + TxSize(txs[i])]]
  <1>1. SumSize(txs) = sum[n]
    BY DEF SumSize
  <1>2. n \in Nat /\ \A i \in 1..n : i \in 0..n /\ i - 1 \in 0..n /\ i # 0 /\ txs[i] \in Txs
    OBVIOUS
  <1>3. \A i \in 1..n : TxSize(txs[i]) \in Nat
    BY <1>2, ContentFacts
  <1>4. \A w : NextOf(w, 0) = 0 /\ \A i \in 1..n : NextOf(w, i) = w[i - 1] + TxSize(txs[i])
    BY <1>2
  <1> HIDE DEF NextOf
  <1>5. \E w : Solves(w)
    <2>1. step \in Steps(n, Nat)
      BY <1>3 DEF Steps
    <2>2. PICK f : IsRun(f, n, Nat, 0, step)
      <3> HIDE DEF step, n
      <3> QED BY <1>2, <2>1, IntervalRecursion
    <2>3. f \in [0..n -> Nat] /\ f[0] = 0 /\ \A i \in 1..n : f[i] = step[i][f[i - 1]]
      BY <2>2 DEF IsRun
    <2>4. \A i \in 1..n : f[i] = f[i - 1] + TxSize(txs[i])
      <3>1. \A i \in 1..n : f[i - 1] \in Nat
        <4> HIDE DEF n
        <4> QED BY <1>2, <2>3
      <3> QED BY <2>3, <3>1
    <2> HIDE DEF n
    <2>5. ASSUME NEW i \in 0..n PROVE f[i] = NextOf(f, i)
      <3>1. CASE i = 0
        BY <1>4, <2>3, <3>1
      <3>2. CASE i # 0
        <4>1. i \in 1..n
          BY <1>2, <3>2
        <4> QED BY <1>4, <2>4, <4>1
      <3> QED BY <3>1, <3>2
    <2>6. Solves(f)
      BY <2>3, <2>5
    <2> HIDE DEF Solves
    <2> QED BY <2>6
  <1>6. Solves(sum)
    <2> HIDE DEF Solves
    <2> QED BY <1>5
  <1> HIDE DEF sum, n
  <1>7. sum[0] = 0 /\ \A i \in 1..n : sum[i] = sum[i - 1] + TxSize(txs[i])
    BY <1>2, <1>4, <1>6
  <1> DEFINE S == {i \in 0..n : sum[i] \in Nat}
  <1>8. \A i \in 0..n : i \in S
    <2>1. 0 \in S
      BY <1>2, <1>7
    <2>2. ASSUME NEW i \in 1..n, i - 1 \in S PROVE i \in S
      <3>1. sum[i - 1] \in Nat /\ i \in 0..n /\ TxSize(txs[i]) \in Nat
        BY <1>2, <1>3, <2>2
      <3>2. sum[i - 1] + TxSize(txs[i]) \in Nat
        BY <3>1
      <3> QED BY <1>7, <3>1, <3>2
    <2> HIDE DEF S
    <2> QED BY <1>2, <2>1, <2>2, IntervalInduction
  <1>9. sum \in [0..n -> Nat]
    BY <1>6, <1>8
  <1>10. IsSum(sum, txs)
    BY <1>7, <1>9 DEF IsSum, n
  <1> QED BY <1>1, <1>10 DEF n

LEMMA SumType ==
    ASSUME NEW txs \in Seq(Txs)
    PROVE  SumSize(txs) \in Nat
  <1>1. PICK sum : IsSum(sum, txs) /\ SumSize(txs) = sum[Len(txs)]
    BY SumRun
  <1>2. Len(txs) \in 0..Len(txs)
    OBVIOUS
  <1> QED BY <1>1, <1>2 DEF IsSum

LEMMA SumNone == SumSize(<<>>) = 0
  <1>1. <<>> \in Seq(Txs) /\ Len(<<>>) = 0
    OBVIOUS
  <1>2. PICK sum : IsSum(sum, <<>>) /\ SumSize(<<>>) = sum[Len(<<>>)]
    BY <1>1, SumRun
  <1> QED BY <1>1, <1>2 DEF IsSum

LEMMA SumConcat ==
    ASSUME NEW a \in Seq(Txs), NEW b \in Seq(Txs)
    PROVE  SumSize(a \o b) = SumSize(a) + SumSize(b)
  <1>1. PICK n : n = Len(a)
    OBVIOUS
  <1>2. PICK m : m = Len(b)
    OBVIOUS
  <1>3. PICK c : c = a \o b
    OBVIOUS
  <1>4. /\ c \in Seq(Txs) /\ Len(c) = n + m /\ n \in Nat /\ m \in Nat /\ n \in 0..n /\ m \in 0..m
        /\ \A i \in 1..n : c[i] = a[i]
        /\ \A j \in 1..m : c[n + j] = b[j]
    BY <1>1, <1>2, <1>3
  <1>5. PICK sc : IsSum(sc, c) /\ SumSize(c) = sc[n + m]
    BY <1>4, SumRun
  <1>6. PICK sa : IsSum(sa, a) /\ SumSize(a) = sa[n]
    BY <1>1, SumRun
  <1>7. PICK sb : IsSum(sb, b) /\ SumSize(b) = sb[m]
    BY <1>2, SumRun
  <1>8. /\ sc \in [0..(n + m) -> Nat] /\ sc[0] = 0 /\ \A i \in 1..(n + m) : sc[i] = sc[i - 1] + TxSize(c[i])
        /\ sa \in [0..n -> Nat] /\ sa[0] = 0 /\ \A i \in 1..n : sa[i] = sa[i - 1] + TxSize(a[i])
        /\ sb \in [0..m -> Nat] /\ sb[0] = 0 /\ \A i \in 1..m : sb[i] = sb[i - 1] + TxSize(b[i])
    BY <1>1, <1>2, <1>4, <1>5, <1>6, <1>7 DEF IsSum
  <1> DEFINE S == {i \in 0..n : sc[i] = sa[i]}
             T == {j \in 0..m : sc[n + j] = sa[n] + sb[j]}
  <1>9. \A i \in 0..n : i \in S
    <2>1. 0 \in S
      BY <1>4, <1>8
    <2>2. ASSUME NEW i \in 1..n, i - 1 \in S PROVE i \in S
      <3>1. i \in 0..n /\ i \in 1..(n + m)
        BY <1>4
      <3> QED BY <1>4, <1>8, <2>2, <3>1
    <2> HIDE DEF S
    <2> QED BY <1>4, <2>1, <2>2, IntervalInduction
  <1>10. \A j \in 0..m : j \in T
    <2>1. 0 \in T
      <3>1. n + 0 = n /\ 0 \in 0..m /\ n \in S /\ sa[n] \in Nat
        BY <1>4, <1>8, <1>9
      <3> QED BY <1>8, <3>1
    <2>2. ASSUME NEW j \in 1..m, j - 1 \in T PROVE j \in T
      <3>1. j \in 0..m /\ n + j \in 1..(n + m) /\ (n + j) - 1 = n + (j - 1) /\ j - 1 \in 0..m
        BY <1>4
      <3>2. sc[n + j] = sc[n + (j - 1)] + TxSize(b[j])
        BY <1>4, <1>8, <3>1
      <3>3. sa[n] \in Nat /\ sb[j - 1] \in Nat /\ TxSize(b[j]) \in Nat
        <4>1. b[j] \in Txs
          BY <1>2
        <4> QED BY <1>4, <1>8, <3>1, <4>1, ContentFacts
      <3>4. sc[n + (j - 1)] = sa[n] + sb[j - 1] /\ sb[j] = sb[j - 1] + TxSize(b[j])
        BY <1>8, <2>2
      <3> QED BY <3>1, <3>2, <3>3, <3>4
    <2> HIDE DEF T
    <2> QED BY <1>4, <2>1, <2>2, IntervalInduction
  <1> QED BY <1>3, <1>4, <1>5, <1>6, <1>7, <1>10

\* A list without repetition has as many members as transactions.
LEMMA DistinctCount ==
    ASSUME NEW txs \in Seq(Txs), \A i, j \in 1..Len(txs) : i < j => txs[i] # txs[j]
    PROVE  Cardinality(TxSet(txs)) = Len(txs)
  <1>1. PICK n : n = Len(txs)
    OBVIOUS
  <1>2. n \in Nat /\ DOMAIN txs = 1..n /\ TxSet(txs) = {txs[i] : i \in 1..n}
    BY <1>1 DEF TxSet
  <1>3. \A i, j \in 1..n : i # j => txs[i] # txs[j]
    <2> SUFFICES ASSUME NEW i \in 1..n, NEW j \in 1..n, i # j PROVE txs[i] # txs[j]
      OBVIOUS
    <2>1. i < j \/ j < i
      BY <1>2
    <2> QED BY <1>1, <2>1
  <1>4. IsFiniteSet(1..n) /\ Cardinality(1..n) = n
    <2>1. 1 \in Int /\ n \in Int
      BY <1>2
    <2>2. IsFiniteSet(1..n) /\ Cardinality(1..n) = IF 1 > n THEN 0 ELSE n - 1 + 1
      BY <2>1, FS_Interval
    <2> QED BY <1>2, <2>2
  <1> DEFINE f == [i \in 1..n |-> txs[i]]
  <1>5. f \in Surjection(1..n, TxSet(txs)) /\ f \in Injection(1..n, TxSet(txs))
    BY <1>2, <1>3 DEF Surjection, Injection, IsInjective
  <1>6. f \in Bijection(1..n, TxSet(txs))
    BY <1>5 DEF Bijection
  <1> HIDE DEF f
  <1> QED BY <1>1, <1>4, <1>6, FS_Bijection DEF ExistsBijection

LEMMA TxSetConcat ==
    ASSUME NEW a \in Seq(Txs), NEW b \in Seq(Txs)
    PROVE  TxSet(a \o b) = TxSet(a) \cup TxSet(b)
  <1>1. PICK n : n = Len(a)
    OBVIOUS
  <1>2. PICK m : m = Len(b)
    OBVIOUS
  <1>3. PICK c : c = a \o b
    OBVIOUS
  <1>4. /\ DOMAIN c = 1..(n + m) /\ n \in Nat /\ m \in Nat /\ DOMAIN a = 1..n /\ DOMAIN b = 1..m
        /\ \A i \in 1..n : c[i] = a[i]
        /\ \A j \in 1..m : c[n + j] = b[j]
    BY <1>1, <1>2, <1>3
  <1>5. \A i \in 1..(n + m) : i \in 1..n \/ \E j \in 1..m : i = n + j
    <2> SUFFICES ASSUME NEW i \in 1..(n + m), i \notin 1..n PROVE \E j \in 1..m : i = n + j
      OBVIOUS
    <2>1. i - n \in 1..m /\ i = n + (i - n)
      BY <1>4
    <2> QED BY <2>1
  <1>6. (\A i \in 1..n : i \in 1..(n + m)) /\ \A j \in 1..m : n + j \in 1..(n + m)
    BY <1>4
  <1>7. \A t \in TxSet(c) : t \in TxSet(a) \cup TxSet(b)
    <2> SUFFICES ASSUME NEW i \in 1..(n + m) PROVE c[i] \in TxSet(a) \cup TxSet(b)
      BY <1>4 DEF TxSet
    <2>1. CASE i \in 1..n
      BY <1>4, <2>1 DEF TxSet
    <2>2. CASE \E j \in 1..m : i = n + j
      BY <1>4, <2>2 DEF TxSet
    <2> QED BY <1>5, <2>1, <2>2
  <1>8. \A t \in TxSet(a) \cup TxSet(b) : t \in TxSet(c)
    <2>1. ASSUME NEW i \in 1..n PROVE a[i] \in TxSet(c)
      BY <1>4, <1>6 DEF TxSet
    <2>2. ASSUME NEW j \in 1..m PROVE b[j] \in TxSet(c)
      <3>1. b[j] = c[n + j] /\ n + j \in DOMAIN c
        BY <1>4, <1>6
      <3> QED BY <3>1 DEF TxSet
    <2> QED BY <1>4, <2>1, <2>2 DEF TxSet
  <1> QED BY <1>3, <1>7, <1>8

-----------------------------------------------------------------------------
(* What the end of a lane's turn and the execution of a block do to the      *)
(* mempools and the accounts.                                                *)

\* RemoveTxsFromLane removes one transaction after the other.
LEMMA RemoveRun ==
    ASSUME NEW V, NEW cm \in V, NEW txs \in Seq(Txs),
           \A l \in V, i \in 1..Len(txs) : LaneRemove(l, txs[i]) \in V
    PROVE  \E run : /\ run[0] = cm
                    /\ \A i \in 1..Len(txs) : run[i] = LaneRemove(run[i - 1], txs[i])
                    /\ \A i \in 0..Len(txs) : run[i] \in V
                    /\ RemoveTxsFromLane(cm, txs) = run[Len(txs)]
  <1> DEFINE n == Len(txs)
             After(l, i) == LaneRemove(l, txs[i])
             NextOf(w, i) == IF i = 0 THEN cm
                             ELSE LaneRemove(w[i - 1], txs[i])
             Solves(w) == w = [i \in 0..n |-> NextOf(w, i)]
             run == CHOOSE w : Solves(w)
             step == [i \in 1..n |-> [l \in V |-> After(l, i)]]
  <1>1. RemoveTxsFromLane(cm, txs) = run[n]
    BY DEF RemoveTxsFromLane
  <1>2. n \in Nat /\ n \in 0..n /\ \A i \in 1..n : i \in 0..n /\ i - 1 \in 0..n /\ i # 0 /\ txs[i] \in Txs
    OBVIOUS
  <1>3. \A w : NextOf(w, 0) = cm /\ \A i \in 1..n : NextOf(w, i) = After(w[i - 1], i)
    BY <1>2
  <1>4. cm \in V
    OBVIOUS
  <1>5. ASSUME NEW i \in 1..n, NEW l \in V PROVE After(l, i) \in V
    OBVIOUS
  <1> HIDE DEF NextOf, After
  <1>6. \E w : Solves(w)
    <2>1. step \in Steps(n, V)
      BY <1>5 DEF Steps
    <2>2. PICK f : IsRun(f, n, V, cm, step)
      <3> HIDE DEF step, n
      <3> QED BY <1>2, <1>4, <2>1, IntervalRecursion
    <2>3. f \in [0..n -> V] /\ f[0] = cm /\ \A i \in 1..n : f[i] = step[i][f[i - 1]]
      BY <2>2 DEF IsRun
    <2>4. \A i \in 1..n : f[i] = After(f[i - 1], i)
      <3>1. \A i \in 1..n : f[i - 1] \in V
        <4> HIDE DEF n
        <4> QED BY <1>2, <2>3
      <3> QED BY <2>3, <3>1
    <2> HIDE DEF n
    <2>5. ASSUME NEW i \in 0..n PROVE f[i] = NextOf(f, i)
      <3>1. CASE i = 0
        BY <1>3, <2>3, <3>1
      <3>2. CASE i # 0
        <4>1. i \in 1..n
          BY <1>2, <3>2
        <4> QED BY <1>3, <2>4, <4>1
      <3> QED BY <3>1, <3>2
    <2>6. Solves(f)
      BY <2>3, <2>5
    <2> HIDE DEF Solves
    <2> QED BY <2>6
  <1>7. Solves(run)
    <2> HIDE DEF Solves
    <2> QED BY <1>6
  <1> HIDE DEF run, n
  <1>8. run[0] = cm /\ \A i \in 1..n : run[i] = After(run[i - 1], i)
    BY <1>2, <1>3, <1>7
  <1> DEFINE S == {i \in 0..n : run[i] \in V}
  <1>9. \A i \in 0..n : i \in S
    <2>1. 0 \in S
      BY <1>2, <1>4, <1>8
    <2>2. ASSUME NEW i \in 1..n, i - 1 \in S PROVE i \in S
      BY <1>2, <1>5, <1>8, <2>2
    <2> HIDE DEF S
    <2> QED BY <1>2, <2>1, <2>2, IntervalInduction
  <1>10. RemoveTxsFromLane(cm, txs) = run[Len(txs)]
    BY <1>1 DEF n
  <1>11. \A i \in 1..Len(txs) : run[i] = LaneRemove(run[i - 1], txs[i])
    BY <1>8 DEF n, After
  <1>12. \A i \in 0..Len(txs) : run[i] \in V
    BY <1>9 DEF n
  <1> QED BY <1>8, <1>10, <1>11, <1>12

\* PrepareLane takes out what its handler rejected, and nothing comes in.
LEMMA RemoveTxsOK ==
    ASSUME NEW cm, LaneOK(cm), NEW txs \in Seq(Txs)
    PROVE  LaneOK(RemoveTxsFromLane(cm, txs)) /\ TxsOf(RemoveTxsFromLane(cm, txs).index) \subseteq TxsOf(cm.index)
  <1> DEFINE V == {l \in LaneSet : TxsOf(l.index) \subseteq TxsOf(cm.index)}
  <1>1. cm \in V
    BY LaneInSet
  <1>2. ASSUME NEW l \in V, NEW i \in 1..Len(txs) PROVE LaneRemove(l, txs[i]) \in V
    <2>1. LaneOK(l) /\ txs[i] \in Txs /\ TxsOf(l.index) \subseteq TxsOf(cm.index)
      BY DEF LaneSet
    <2>2. LaneOK(LaneRemove(l, txs[i])) /\ TxsOf(LaneRemove(l, txs[i]).index) \subseteq TxsOf(l.index)
      BY <2>1, LaneRemoveOK, TxsAfterLaneRemove
    <2> QED BY <2>1, <2>2, LaneInSet
  <1>3. RemoveTxsFromLane(cm, txs) \in V
    <2> HIDE DEF V
    <2>1. PICK run : (\A i \in 0..Len(txs) : run[i] \in V) /\ RemoveTxsFromLane(cm, txs) = run[Len(txs)]
      BY <1>1, <1>2, RemoveRun
    <2>2. Len(txs) \in 0..Len(txs)
      OBVIOUS
    <2> QED BY <2>1, <2>2
  <1> QED BY <1>3 DEF LaneSet

\* What is left is what has the sender and nonce of none of them.
LEMMA RemoveTxsLeaves ==
    ASSUME NEW cm, LaneOK(cm), NEW txs \in Seq(Txs), \A i \in 1..Len(txs) : txs[i].signed
    PROVE  LeftOf(cm, RemoveTxsFromLane(cm, txs), {ScoreKey(txs[i]) : i \in 1..Len(txs)})
  <1> DEFINE n == Len(txs)
             Gone(i) == {ScoreKey(txs[j]) : j \in 1..i}
  <1>1. cm \in LaneSet
    BY LaneInSet
  <1>2. ASSUME NEW l \in LaneSet, NEW i \in 1..Len(txs) PROVE LaneRemove(l, txs[i]) \in LaneSet
    <2>1. LaneOK(l) /\ txs[i] \in Txs
      BY DEF LaneSet
    <2> QED BY <2>1, LaneRemoveOK, LaneInSet
  <1>3. PICK run : /\ run[0] = cm
                   /\ \A i \in 1..Len(txs) : run[i] = LaneRemove(run[i - 1], txs[i])
                   /\ \A i \in 0..Len(txs) : run[i] \in LaneSet
                   /\ RemoveTxsFromLane(cm, txs) = run[Len(txs)]
    BY <1>1, <1>2, RemoveRun
  <1>4. n \in Nat /\ n \in 0..n /\ \A i \in 1..n : i \in 0..n /\ i - 1 \in 0..n /\ txs[i] \in Txs
    OBVIOUS
  <1> DEFINE S == {i \in 0..n : LeftOf(cm, run[i], Gone(i))}
  <1>5. 0 \in S
    <2>1. Gone(0) = {}
      OBVIOUS
    <2>2. LeftOf(cm, cm, {})
      BY DEF LeftOf
    <2>3. LeftOf(cm, run[0], Gone(0))
      <3> HIDE DEF Gone
      <3> QED BY <1>3, <2>1, <2>2
    <2> HIDE DEF Gone
    <2> QED BY <1>4, <2>3
  <1>6. ASSUME NEW i \in 1..n, i - 1 \in S PROVE i \in S
    <2>1. PICK a : a = run[i - 1]
      OBVIOUS
    <2>2. PICK b : b = run[i]
      OBVIOUS
    <2>3. LaneOK(a) /\ b = LaneRemove(a, txs[i]) /\ txs[i] \in Txs /\ txs[i].signed
      BY <1>3, <1>4, <2>1, <2>2 DEF LaneSet
    <2>4. LeftOf(a, b, {ScoreKey(txs[i])})
      BY <2>3, LaneRemoveLeaves
    <2>5. PICK G : G = Gone(i - 1)
      OBVIOUS
    <2>6. LeftOf(cm, a, G)
      BY <1>6, <2>1, <2>5
    <2>7. Gone(i) = G \cup {ScoreKey(txs[i])}
      <3>1. 1..i = 1..(i - 1) \cup {i}
        OBVIOUS
      <3> QED BY <2>5, <3>1
    <2> HIDE DEF Gone
    <2>8. LeftOf(cm, b, Gone(i))
      BY <2>4, <2>6, <2>7 DEF LeftOf
    <2> QED BY <1>4, <2>2, <2>8
  <1>7. n \in S
    <2> HIDE DEF S, n
    <2> QED BY <1>4, <1>5, <1>6, IntervalInduction
  <1> QED BY <1>3, <1>7

\* Nor does anything come in when the transactions of a block are removed.
LEMMA RemoveKnownOK ==
    ASSUME NEW cm, LaneOK(cm), NEW txs \in Seq(Txs)
    PROVE  LaneOK(RemoveKnown(cm, txs)) /\ TxsOf(RemoveKnown(cm, txs).index) \subseteq TxsOf(cm.index)
  <1> DEFINE n == Len(txs)
             V == {l \in LaneSet : TxsOf(l.index) \subseteq TxsOf(cm.index)}
             After(l, i) == IF LaneContains(l, txs[i]) THEN LaneRemove(l, txs[i]) ELSE l
             NextOf(w, i) == IF i = 0 THEN cm
                             ELSE CHOOSE l \in {IF LaneContains(prev, txs[i]) THEN LaneRemove(prev, txs[i]) ELSE prev :
                                                   prev \in {w[i - 1]}} : TRUE
             Solves(w) == w = [i \in 0..n |-> NextOf(w, i)]
             run == CHOOSE w : Solves(w)
             step == [i \in 1..n |-> [l \in V |-> After(l, i)]]
  <1>1. RemoveKnown(cm, txs) = run[n]
    BY DEF RemoveKnown
  <1>2. n \in Nat /\ n \in 0..n /\ \A i \in 1..n : i \in 0..n /\ i - 1 \in 0..n /\ i # 0 /\ txs[i] \in Txs
    OBVIOUS
  <1>3. \A w : NextOf(w, 0) = cm /\ \A i \in 1..n : NextOf(w, i) = After(w[i - 1], i)
    BY <1>2
  <1>4. cm \in V
    BY LaneInSet
  <1>5. ASSUME NEW i \in 1..n, NEW l \in V PROVE After(l, i) \in V
    <2>1. LaneOK(l) /\ txs[i] \in Txs /\ TxsOf(l.index) \subseteq TxsOf(cm.index)
      BY <1>2 DEF LaneSet
    <2>2. LaneOK(LaneRemove(l, txs[i])) /\ TxsOf(LaneRemove(l, txs[i]).index) \subseteq TxsOf(l.index)
      BY <2>1, LaneRemoveOK, TxsAfterLaneRemove
    <2> QED BY <2>1, <2>2, LaneInSet
  <1> HIDE DEF NextOf, After
  <1>6. \E w : Solves(w)
    <2>1. step \in Steps(n, V)
      BY <1>5 DEF Steps
    <2>2. PICK f : IsRun(f, n, V, cm, step)
      <3> HIDE DEF step, n, V
      <3> QED BY <1>2, <1>4, <2>1, IntervalRecursion
    <2> HIDE DEF V
    <2>3. f \in [0..n -> V] /\ f[0] = cm /\ \A i \in 1..n : f[i] = step[i][f[i - 1]]
      BY <2>2 DEF IsRun
    <2>4. \A i \in 1..n : f[i] = After(f[i - 1], i)
      <3>1. \A i \in 1..n : f[i - 1] \in V
        <4> HIDE DEF n
        <4> QED BY <1>2, <2>3
      <3> QED BY <2>3, <3>1
    <2> HIDE DEF n
    <2>5. ASSUME NEW i \in 0..n PROVE f[i] = NextOf(f, i)
      <3>1. CASE i = 0
        BY <1>3, <2>3, <3>1
      <3>2. CASE i # 0
        <4>1. i \in 1..n
          BY <1>2, <3>2
        <4> QED BY <1>3, <2>4, <4>1
      <3> QED BY <3>1, <3>2
    <2>6. Solves(f)
      BY <2>3, <2>5
    <2> HIDE DEF Solves
    <2> QED BY <2>6
  <1>7. Solves(run)
    <2> HIDE DEF Solves
    <2> QED BY <1>6
  <1> HIDE DEF run, n, V
  <1>8. run[0] = cm /\ \A i \in 1..n : run[i] = After(run[i - 1], i)
    BY <1>2, <1>3, <1>7
  <1> DEFINE S == {i \in 0..n : run[i] \in V}
  <1>9. \A i \in 0..n : i \in S
    <2>1. 0 \in S
      BY <1>2, <1>4, <1>8
    <2>2. ASSUME NEW i \in 1..n, i - 1 \in S PROVE i \in S
      BY <1>2, <1>5, <1>8, <2>2
    <2> HIDE DEF S
    <2> QED BY <1>2, <2>1, <2>2, IntervalInduction
  <1>10. run[n] \in V
    BY <1>2, <1>9
  <1> QED BY <1>1, <1>10 DEF V, LaneSet

\* A transaction of a block leaves accounts.
LEMMA DeliverType ==
    ASSUME NEW st \in AccountState, NEW tx \in Txs
    PROVE  Deliver(st, tx) \in AccountState
  <1>1. PICK r : r = AnteVerifyTx(st, height + 1, tx)
    OBVIOUS
  <1>2. r \in Result
    BY <1>1, AnteFacts DEF AnteVerifyTx
  <1>3. r.st \in AccountState
    BY <1>2 DEF Result
  <1> DEFINE paid == [r.st EXCEPT !.bal[tx.sender] = @ - tx.priority]
  <1>4. Deliver(st, tx) = IF ~r.ok THEN st
                          ELSE IF IsBid(tx) /\ r.st.bal[tx.sender] >= tx.priority THEN paid ELSE r.st
    BY <1>1 DEF Deliver
  <1>5. ASSUME r.st.bal[tx.sender] >= tx.priority PROVE paid \in AccountState
    <2>1. PICK s : s = r.st
      OBVIOUS
    <2>2. s \in AccountState /\ s.bal[tx.sender] >= tx.priority
      BY <1>3, <1>5, <2>1
    <2>3. s.bal[tx.sender] \in Nat /\ tx.priority \in Int /\ tx.sender \in Senders
      BY <2>2, ContentFacts DEF AccountState
    <2>4. s.bal[tx.sender] - tx.priority \in Nat
      BY <2>2, <2>3
    <2>5. [s EXCEPT !.bal[tx.sender] = @ - tx.priority] \in AccountState
      BY <2>2, <2>3, <2>4 DEF AccountState
    <2> QED BY <2>1, <2>5
  <1> HIDE DEF paid
  <1> QED BY <1>3, <1>4, <1>5

\* The accounts and the list of transactions that a block leaves.
LEMMA DeliverAllType ==
    ASSUME NEW st \in AccountState, NEW txs \in Seq(Txs)
    PROVE  DeliverAll(st, txs).st \in AccountState /\ DeliverAll(st, txs).done \in Seq(Txs)
  <1> DEFINE n == Len(txs)
             V == [st: AccountState, done: Seq(Txs)]
             c == [st |-> st, done |-> <<>>]
             After(v, i) == [st   |-> Deliver(v.st, txs[i]),
                             done |-> IF AnteVerifyTx(v.st, height + 1, txs[i]).ok
                                      THEN Append(v.done, txs[i]) ELSE v.done]
             NextOf(w, i) == IF i = 0 THEN c ELSE After(w[i - 1], i)
             Solves(w) == w = [i \in 0..n |-> NextOf(w, i)]
             run == CHOOSE w : Solves(w)
             step == [i \in 1..n |-> [v \in V |-> After(v, i)]]
  <1>1. DeliverAll(st, txs) = run[n]
    BY DEF DeliverAll
  <1>2. n \in Nat /\ n \in 0..n /\ \A i \in 1..n : i \in 0..n /\ i - 1 \in 0..n /\ i # 0 /\ txs[i] \in Txs
    OBVIOUS
  <1>3. \A w : NextOf(w, 0) = c /\ \A i \in 1..n : NextOf(w, i) = After(w[i - 1], i)
    BY <1>2
  <1>4. c \in V
    OBVIOUS
  <1>5. ASSUME NEW i \in 1..n, NEW v \in V PROVE After(v, i) \in V
    <2>1. v.st \in AccountState /\ v.done \in Seq(Txs) /\ txs[i] \in Txs
      BY <1>2
    <2>2. Deliver(v.st, txs[i]) \in AccountState
      BY <2>1, DeliverType
    <2>3. Append(v.done, txs[i]) \in Seq(Txs)
      BY <2>1
    <2> QED BY <2>1, <2>2, <2>3
  <1> HIDE DEF NextOf, After, c
  <1>6. \E w : Solves(w)
    <2>1. step \in Steps(n, V)
      BY <1>5 DEF Steps
    <2>2. PICK f : IsRun(f, n, V, c, step)
      <3> HIDE DEF step, n, V
      <3> QED BY <1>2, <1>4, <2>1, IntervalRecursion
    <2> HIDE DEF V
    <2>3. f \in [0..n -> V] /\ f[0] = c /\ \A i \in 1..n : f[i] = step[i][f[i - 1]]
      BY <2>2 DEF IsRun
    <2>4. \A i \in 1..n : f[i] = After(f[i - 1], i)
      <3>1. \A i \in 1..n : f[i - 1] \in V
        <4> HIDE DEF n
        <4> QED BY <1>2, <2>3
      <3> QED BY <2>3, <3>1
    <2> HIDE DEF n
    <2>5. ASSUME NEW i \in 0..n PROVE f[i] = NextOf(f, i)
      <3>1. CASE i = 0
        BY <1>3, <2>3, <3>1
      <3>2. CASE i # 0
        <4>1. i \in 1..n
          BY <1>2, <3>2
        <4> QED BY <1>3, <2>4, <4>1
      <3> QED BY <3>1, <3>2
    <2>6. Solves(f)
      BY <2>3, <2>5
    <2> HIDE DEF Solves
    <2> QED BY <2>6
  <1>7. Solves(run)
    <2> HIDE DEF Solves
    <2> QED BY <1>6
  <1> HIDE DEF run, n, V
  <1>8. run[0] = c /\ \A i \in 1..n : run[i] = After(run[i - 1], i)
    BY <1>2, <1>3, <1>7
  <1> DEFINE S == {i \in 0..n : run[i] \in V}
  <1>9. \A i \in 0..n : i \in S
    <2>1. 0 \in S
      BY <1>2, <1>4, <1>8
    <2>2. ASSUME NEW i \in 1..n, i - 1 \in S PROVE i \in S
      BY <1>2, <1>5, <1>8, <2>2
    <2> HIDE DEF S
    <2> QED BY <1>2, <2>1, <2>2, IntervalInduction
  <1>10. run[n] \in V
    BY <1>2, <1>9
  <1> QED BY <1>1, <1>10 DEF V

-----------------------------------------------------------------------------
(* Which lane matches a transaction. *)

\* The auction lane matches the bids.
LEMMA BidsMatch ==
    ASSUME NEW tx \in Txs
    PROVE  TOBLane \in Lanes /\ (Match(TOBLane, tx) <=> IsBid(tx))
  <1> DEFINE W == {i \in Lanes : tx \in MatchHandler[i]}
             Solves(m) == m = [i \in Lanes |-> tx \in MatchHandler[i] /\ \A j \in IgnoreList(i) : ~m[j]]
             match == CHOOSE m : Solves(m)
  <1>1. \E m : Solves(m)
    <2>1. CASE Mutex
      <3>1. \A m : Solves(m) <=> FirstOnly(m, NumLanes, W)
        BY <2>1 DEF FirstOnly, IgnoreList, Lanes
      <3>2. \E m : FirstOnly(m, NumLanes, W)
        BY LanesAssumption, FirstOnlyExists
      <3> HIDE DEF Solves
      <3> QED BY <3>1, <3>2
    <2>2. CASE ~Mutex
      <3> DEFINE m == [i \in Lanes |-> tx \in MatchHandler[i] /\ \A j \in {} : FALSE]
      <3>1. \A i \in Lanes : IgnoreList(i) = {}
        BY <2>2 DEF IgnoreList
      <3>2. Solves(m)
        BY <3>1
      <3> HIDE DEF Solves
      <3> QED BY <3>2
    <2> QED BY <2>1, <2>2
  <1>2. Solves(match)
    <2> HIDE DEF Solves
    <2> QED BY <1>1
  <1>3. Match(TOBLane, tx) = match[TOBLane]
    BY DEF Match
  <1> HIDE DEF match
  <1>4. TOBLane \in Lanes /\ IgnoreList(TOBLane) = {}
    BY LanesAssumption DEF Lanes, TOBLane, IgnoreList
  <1>5. match[TOBLane] <=> tx \in MatchHandler[TOBLane]
    BY <1>2, <1>4
  <1> QED BY <1>3, <1>4, <1>5, ContentAssumption DEF IsBid

\* Every transaction is wanted by some lane, as with the default lane of the
\* example application, which comes last and wants all of them.
EveryTxWanted == \A tx \in Txs : \E l \in Lanes : tx \in MatchHandler[l]

\* With mutex exactly one lane matches a transaction then.
LEMMA LaneOfFacts ==
    ASSUME Mutex, EveryTxWanted, NEW tx \in Txs
    PROVE  LaneOf(tx) \in Lanes /\ \A l \in Lanes : Match(l, tx) <=> l = LaneOf(tx)
  <1> DEFINE W == {i \in Lanes : tx \in MatchHandler[i]}
             Solves(m) == m = [i \in Lanes |-> tx \in MatchHandler[i] /\ \A j \in IgnoreList(i) : ~m[j]]
             match == CHOOSE m : Solves(m)
  <1>1. \A m : Solves(m) <=> FirstOnly(m, NumLanes, W)
    BY DEF FirstOnly, IgnoreList, Lanes
  <1>2. FirstOnly(match, NumLanes, W)
    <2>1. \E m : FirstOnly(m, NumLanes, W)
      BY LanesAssumption, FirstOnlyExists
    <2> HIDE DEF Solves
    <2> QED BY <1>1, <2>1
  <1>3. \A l \in Lanes : Match(l, tx) = match[l]
    BY DEF Match
  <1>4. PICK o \in Lanes : o \in W
    BY DEF EveryTxWanted
  <1> HIDE DEF match, W
  <1>5. \A l \in Lanes : Match(l, tx) <=> IsFirst(l, W)
    BY <1>2, <1>3, LanesAssumption, FirstOnlyFacts DEF Lanes
  <1>6. PICK k \in 1..o : IsFirst(k, W)
    BY <1>4, HasFirst, LanesAssumption DEF Lanes
  <1>7. k \in Lanes
    BY LanesAssumption DEF Lanes
  <1>8. \A l \in Lanes : IsFirst(l, W) => l = k
    <2> SUFFICES ASSUME NEW l \in Lanes, IsFirst(l, W), l # k PROVE FALSE
      OBVIOUS
    <2>1. l \in 1..(k - 1) \/ k \in 1..(l - 1)
      BY LanesAssumption DEF Lanes
    <2> QED BY <1>6, <2>1 DEF IsFirst
  <1>9. LaneOf(tx) = k
    <2>1. Match(k, tx) /\ \A l \in Lanes : Match(l, tx) => l = k
      BY <1>5, <1>6, <1>7, <1>8
    <2> QED BY <1>7, <2>1 DEF LaneOf
  <1> QED BY <1>5, <1>6, <1>7, <1>8, <1>9

-----------------------------------------------------------------------------
(* Types. *)

LookIterators(mp) == {it \in GoodIterators(mp) : it.at = "Tx" => it.out # <<>>}

\* The auction lane pools bids whose bundles hold no bid; the other lanes pool
\* transactions without bid information.
LanesOK(pools) ==
    /\ pools = [l \in Lanes |-> pools[l]]
    /\ \A l \in Lanes : LaneOK(pools[l])
    /\ \A l \in Lanes \ {TOBLane} : \A tx \in TxsOf(pools[l].index) : Content[tx].info = "none"
    /\ \A tx \in TxsOf(pools[TOBLane].index) :
          IsBid(tx) /\ \A i \in DOMAIN Bundle(tx) : ~IsBid(Bundle(tx)[i])

LanesInv == LanesOK(lanes)

ChainInv ==
    /\ state \in AccountState /\ check \in AccountState
    /\ height \in 0..MaxHeight
    /\ phase \in {"idle", "prepare", "process", "accepted", "rejected"}
    /\ phase # "idle" => height < MaxHeight

PropInv == prop \in [txs: Seq(Txs), cache: SUBSET Txs, total: Nat, max: Nat]

PrepInv ==
    /\ prep = [lane |-> prep.lane, ctx |-> prep.ctx, laneCtx |-> prep.laneCtx, it |-> prep.it,
               txs |-> prep.txs, remove |-> prep.remove]
    /\ prep.lane \in 0..(NumLanes + 1)
    /\ prep.ctx \in AccountState /\ prep.laneCtx \in AccountState
    /\ prep.txs \in Seq(Txs) /\ prep.remove \in Seq(Txs)
    /\ phase = "prepare" => /\ prep.lane > 0
                            /\ prep.lane \in Lanes => prep.it \in LookIterators(lanes[prep.lane].index)
                            /\ prep.lane \notin Lanes => prep.it = NoIterator /\ prep.txs = <<>>

ProcInv ==
    /\ proc \in [own: BOOLEAN, txs: Seq(Txs), rest: Seq(Txs), lane: 0..(NumLanes + 1), ctx: AccountState]
    /\ phase = "process" => proc.lane > 0

TypeInv == LanesInv /\ ChainInv /\ PropInv /\ PrepInv /\ ProcInv

LEMMA NoIteratorGood ==
    ASSUME NEW mp
    PROVE  NoIterator \in LookIterators(mp) /\ SelectIterator(mp) \in LookIterators(mp)
  <1> DEFINE E == EmptyList
  <1>1. E \in [{} -> Nonces] /\ {} \in SUBSET Senders
    BY DEF EmptyList
  <1>2. E \in UNION {[D -> Nonces] : D \in SUBSET Senders}
    BY <1>1
  <1> HIDE DEF E
  <1>3. NoIterator = [at |-> "end", node |-> None, cursors |-> E, out |-> <<>>]
    BY DEF NoIterator, E
  <1>4. NoIterator \in GoodIterators(mp)
    BY <1>2, <1>3 DEF GoodIterators, Iterators
  <1>5. NoIterator.at # "Tx" /\ SelectIterator(mp).at # "Tx"
    BY DEF NoIterator, NewIterator, SelectIterator
  <1> QED BY <1>4, <1>5, SelectIteratorGood DEF LookIterators

\* The loop moves on, and the iterator looks for the next transaction.
LEMMA IteratorMoves ==
    ASSUME NEW mp, PoolOK(mp), NEW it \in LookIterators(mp)
    PROVE  /\ it.at = "Tx" => /\ [it EXCEPT !.at = "Next"] \in LookIterators(mp)
                              /\ Current(it) \in TxsOf(mp)
           /\ it.at \in {"iteratePriority", "Next"} => Advance(mp, it) \in LookIterators(mp)
  <1>1. it \in GoodIterators(mp) /\ it \in Iterators(mp)
    BY DEF LookIterators, GoodIterators
  <1>2. it.out \in Seq(TxsOf(mp))
    BY <1>1 DEF Iterators
  <1>3. ASSUME it.at = "Tx"
        PROVE  [it EXCEPT !.at = "Next"] \in LookIterators(mp) /\ Current(it) \in TxsOf(mp)
    <2>1. it.out # <<>> /\ it.node # None
      BY <1>1, <1>3 DEF LookIterators, GoodIterators
    <2>2. Current(it) \in TxsOf(mp)
      BY <1>2, <2>1 DEF Current
    <2>3. [it EXCEPT !.at = "Next"] \in Iterators(mp)
      BY <1>1 DEF Iterators
    <2>4. [it EXCEPT !.at = "Next"].at = "Next" /\ [it EXCEPT !.at = "Next"].node = it.node
      BY <1>1 DEF Iterators
    <2> QED BY <2>1, <2>2, <2>3, <2>4 DEF LookIterators, GoodIterators
  <1>4. CASE it.at = "iteratePriority"
    <2> DEFINE rest == IF it.node = None THEN DOMAIN mp.priorityIndex ELSE KeysAfter(mp, it.node)
    <2>1. Advance(mp, it) = IF rest = {} THEN [it EXCEPT !.at = "end"]
                            ELSE [it EXCEPT !.at = "Next", !.node = FrontKey(rest)]
      BY <1>4 DEF Advance, IteratePriority
    <2> HIDE DEF rest
    <2>2. Advance(mp, it).at # "Tx"
      BY <1>1, <2>1 DEF Iterators
    <2> QED BY <1>1, <1>4, <2>2, AdvanceGood DEF LookIterators
  <1>5. CASE it.at = "Next"
    <2>1. Advance(mp, it) = IteratorNext(mp, it) /\ Advance(mp, it) \in GoodIterators(mp)
      BY <1>1, <1>5, AdvanceGood DEF Advance
    <2>2. CASE IteratorNext(mp, it) = [it EXCEPT !.at = "iteratePriority"]
      <3>1. [it EXCEPT !.at = "iteratePriority"].at # "Tx"
        BY <1>1 DEF Iterators
      <3> QED BY <1>5, <2>1, <2>2, <3>1 DEF LookIterators
    <2>3. CASE \E tx \in TxsOf(mp) : IteratorNext(mp, it).out = Append(it.out, tx)
      <3>1. IteratorNext(mp, it).out # <<>>
        BY <1>2, <2>3
      <3> QED BY <1>5, <2>1, <3>1 DEF LookIterators
    <2> QED BY <1>1, <1>5, <2>2, <2>3, IteratorNextCases
  <1> QED BY <1>3, <1>4, <1>5

\* Entering a lane leaves the mempools well-formed and starts its work.
LEMMA EnterLaneFacts ==
    ASSUME NEW pools, LanesOK(pools), NEW l \in 1..(NumLanes + 1), NEW ctx \in AccountState,
           EnterLane(pools, l, ctx), phase' = "prepare"
    PROVE  /\ LanesInv' /\ PrepInv'
           /\ prep'.lane = l /\ prep'.ctx = ctx /\ prep'.laneCtx = ctx /\ prep'.txs = <<>>
  <1>1. NumLanes \in Nat /\ TOBLane \in Lanes
    BY LanesAssumption DEF Lanes, TOBLane
  <1>2. CASE l > NumLanes
    <2>1. prep' = [lane |-> l, ctx |-> ctx, laneCtx |-> ctx, it |-> NoIterator,
                   txs |-> <<>>, remove |-> <<>>] /\ lanes' = pools
      BY <1>2 DEF EnterLane, NoPrep
    <2>2. l \notin Lanes /\ l > 0 /\ l \in 0..(NumLanes + 1)
      BY <1>1, <1>2 DEF Lanes
    <2>3. PrepInv'
      BY <2>1, <2>2 DEF PrepInv
    <2> QED BY <2>1, <2>3 DEF LanesInv
  <1>3. CASE ~(l > NumLanes)
    <2>1. l \in Lanes /\ l > 0 /\ l \in 0..(NumLanes + 1)
      BY <1>1, <1>3 DEF Lanes
    <2>2. PICK cm : cm = LaneSelect(pools[l])
      OBVIOUS
    <2>3. LaneOK(pools[l])
      BY <2>1 DEF LanesOK
    <2>4. LaneOK(cm) /\ TxsOf(cm.index) = TxsOf(pools[l].index)
      BY <2>2, <2>3, LaneSelectOK, TxsAfterLaneSelect
    <2>5. /\ lanes' = [pools EXCEPT ![l] = cm]
          /\ prep' = [lane |-> l, ctx |-> ctx, laneCtx |-> ctx, it |-> SelectIterator(cm.index),
                      txs |-> <<>>, remove |-> <<>>]
      BY <1>3, <2>2 DEF EnterLane
    <2>6. lanes' = [k \in Lanes |-> lanes'[k]] /\ lanes'[l] = cm /\ \A k \in Lanes \ {l} : lanes'[k] = pools[k]
      BY <2>1, <2>5 DEF LanesOK
    <2>7. \A k \in Lanes : TxsOf(lanes'[k].index) = TxsOf(pools[k].index) /\ LaneOK(lanes'[k])
      BY <2>4, <2>6 DEF LanesOK
    <2>8. LanesInv'
      BY <1>1, <2>6, <2>7 DEF LanesOK, LanesInv
    <2>9. SelectIterator(cm.index) \in LookIterators(lanes'[l].index)
      BY <2>6, NoIteratorGood
    <2>10. PrepInv'
      BY <2>1, <2>5, <2>9 DEF PrepInv
    <2> QED BY <2>5, <2>8, <2>10
  <1> QED BY <1>2, <1>3

LEMMA TypeInit == Init => TypeInv
  <1> SUFFICES ASSUME Init PROVE TypeInv
    OBVIOUS
  <1> USE DEF Init
  <1>1. TxsOf(NewConstructorMempool.index) = {} /\ TOBLane \in Lanes /\ NumLanes \in Nat
    BY LanesAssumption DEF NewConstructorMempool, EmptyPool, EmptyList, TxsOf, TOBLane, Lanes
  <1>2. LanesInv
    BY <1>1, NewLaneOK DEF LanesInv, LanesOK
  <1>3. ChainInv
    BY InitStateAssumption, BoundsAssumption DEF ChainInv
  <1>4. PropInv
    BY DEF PropInv, NewProposal
  <1>5. PrepInv
    BY <1>1, InitStateAssumption DEF PrepInv, NoPrep
  <1>6. ProcInv
    BY <1>1, InitStateAssumption DEF ProcInv, NoProc
  <1> QED BY <1>2, <1>3, <1>4, <1>5, <1>6 DEF TypeInv

\* One lane's mempool is changed and nothing foreign comes in.
LEMMA LaneChanged ==
    ASSUME NEW pools, LanesOK(pools), NEW l \in Lanes, NEW cm, LaneOK(cm), NEW T,
           TxsOf(cm.index) \subseteq TxsOf(pools[l].index) \cup T,
           l # TOBLane => \A tx \in T : Content[tx].info = "none",
           l = TOBLane => \A tx \in T : IsBid(tx) /\ \A i \in DOMAIN Bundle(tx) : ~IsBid(Bundle(tx)[i])
    PROVE  LanesOK([pools EXCEPT ![l] = cm])
  <1> DEFINE new == [pools EXCEPT ![l] = cm]
  <1>1. new = [k \in Lanes |-> new[k]] /\ new[l] = cm /\ \A k \in Lanes \ {l} : new[k] = pools[k]
    BY DEF LanesOK
  <1>2. TOBLane \in Lanes
    BY LanesAssumption DEF Lanes, TOBLane
  <1> HIDE DEF new
  <1>3. \A k \in Lanes : LaneOK(new[k])
    BY <1>1 DEF LanesOK
  <1>4. \A k \in Lanes \ {TOBLane} : \A tx \in TxsOf(new[k].index) : Content[tx].info = "none"
    BY <1>1 DEF LanesOK
  <1>5. \A tx \in TxsOf(new[TOBLane].index) : IsBid(tx) /\ \A i \in DOMAIN Bundle(tx) : ~IsBid(Bundle(tx)[i])
    BY <1>1, <1>2 DEF LanesOK
  <1>6. LanesOK(new)
    BY <1>1, <1>3, <1>4, <1>5 DEF LanesOK
  <1> QED BY <1>6 DEF new

LEMMA CheckTxType ==
    ASSUME TypeInv, NEW tx \in Submitted, CheckTx(tx)
    PROVE  TypeInv'
  <1>1. tx \in Txs /\ ~IsBid(tx) /\ Content[tx].info = "none" /\ phase = "idle" /\ phase' = "idle"
    BY SubmittedAssumption DEF CheckTx, IsBid
  <1>2. /\ check' = AnteHandler(check, height + 1, tx, NoTopBid).st
        /\ lanes' = [l \in Lanes |-> IF Match(l, tx) THEN LaneInsert(lanes[l], tx, MaxTxs[l]) ELSE lanes[l]]
        /\ UNCHANGED <<state, height, phase, prop, prep, proc>>
    BY DEF CheckTx, chain
  <1>3. check' \in AccountState
    <2>1. AnteHandler(check, height + 1, tx, NoTopBid) \in Result
      BY <1>1, AnteFacts DEF TypeInv, ChainInv
    <2> QED BY <1>2, <2>1 DEF Result
  <1>4. ASSUME NEW l \in Lanes PROVE LaneOK(lanes'[l]) /\ TxsOf(lanes'[l].index) \subseteq TxsOf(lanes[l].index) \cup {tx}
    <2>1. LaneOK(lanes[l]) /\ MaxTxs[l] \in Int
      BY MaxTxsAssumption DEF TypeInv, LanesInv, LanesOK
    <2> QED BY <1>1, <1>2, <2>1, LaneInsertOK, TxsAfterLaneInsert
  <1>5. lanes'[TOBLane] = lanes[TOBLane]
    BY <1>1, <1>2, BidsMatch
  <1>6. LanesInv'
    <2>1. lanes' = [l \in Lanes |-> lanes'[l]]
      BY <1>2
    <2> QED BY <1>1, <1>4, <1>5, <2>1 DEF TypeInv, LanesInv, LanesOK
  <1>7. ChainInv' /\ PropInv' /\ PrepInv' /\ ProcInv'
    BY <1>1, <1>2, <1>3 DEF TypeInv, ChainInv, PropInv, PrepInv, ProcInv
  <1> QED BY <1>6, <1>7 DEF TypeInv

LEMMA RecheckTxType ==
    ASSUME TypeInv, NEW tx \in Submitted, RecheckTx(tx)
    PROVE  TypeInv'
  <1>1. /\ tx \in Txs /\ check' = AnteHandler(check, height + 1, tx, NoTopBid).st
        /\ UNCHANGED <<lanes, state, height, phase, prop, prep, proc>>
    BY SubmittedAssumption DEF RecheckTx, chain
  <1>2. check' \in AccountState
    <2>1. AnteHandler(check, height + 1, tx, NoTopBid) \in Result
      BY <1>1, AnteFacts DEF TypeInv, ChainInv
    <2> QED BY <1>1, <2>1 DEF Result
  <1>3. LanesInv' /\ ChainInv' /\ PropInv' /\ PrepInv' /\ ProcInv'
    BY <1>1, <1>2 DEF TypeInv, LanesInv, ChainInv, PropInv, PrepInv, ProcInv
  <1> QED BY <1>1, <1>3 DEF TypeInv

LEMMA CheckBidType ==
    ASSUME TypeInv, NEW tx \in Submitted, CheckBid(tx)
    PROVE  TypeInv'
  <1> DEFINE looksUp == SdkAnteHandler(state, tx).ok /\ Timely(height + 1, tx)
             tob     == IF looksUp THEN LaneSelect(lanes[TOBLane]) ELSE lanes[TOBLane]
             valid   == looksUp /\ ValidateBidTx(tx, TopBid(tob.index, tx))
             new     == IF valid THEN LaneInsert(tob, tx, MaxTxs[TOBLane]) ELSE tob
  <1>1. /\ tx \in Txs /\ IsBid(tx) /\ phase = "idle" /\ lanes' = [lanes EXCEPT ![TOBLane] = new]
        /\ UNCHANGED <<check, state, height, phase, prop, prep, proc>>
    BY SubmittedAssumption DEF CheckBid, chain
  <1>2. valid => \A i \in DOMAIN Bundle(tx) : ~IsBid(Bundle(tx)[i])
    BY DEF ValidateBidTx
  <1>3. TOBLane \in Lanes /\ MaxTxs[TOBLane] \in Int
    BY LanesAssumption, MaxTxsAssumption DEF TOBLane, Lanes
  <1>4. LaneOK(lanes[TOBLane])
    BY <1>3 DEF TypeInv, LanesInv, LanesOK
  <1> HIDE DEF looksUp
  <1>5. LaneOK(tob) /\ TxsOf(tob.index) = TxsOf(lanes[TOBLane].index)
    BY <1>4, LaneSelectOK, TxsAfterLaneSelect
  <1> HIDE DEF tob, valid
  <1>6. LaneOK(new) /\ TxsOf(new.index) \subseteq TxsOf(lanes[TOBLane].index) \cup (IF valid THEN {tx} ELSE {})
    BY <1>1, <1>3, <1>5, LaneInsertOK, TxsAfterLaneInsert
  <1> HIDE DEF new
  <1>7. PICK T : T = IF valid THEN {tx} ELSE {}
    OBVIOUS
  <1>8. /\ TxsOf(new.index) \subseteq TxsOf(lanes[TOBLane].index) \cup T
        /\ \A t \in T : IsBid(t) /\ \A i \in DOMAIN Bundle(t) : ~IsBid(Bundle(t)[i])
    BY <1>1, <1>2, <1>6, <1>7
  <1>9. LanesOK([lanes EXCEPT ![TOBLane] = new])
    BY <1>3, <1>6, <1>8, LaneChanged DEF TypeInv, LanesInv
  <1>10. LanesInv'
    BY <1>1, <1>9 DEF LanesInv
  <1>11. ChainInv' /\ PropInv' /\ PrepInv' /\ ProcInv'
    BY <1>1 DEF TypeInv, ChainInv, PropInv, PrepInv, ProcInv
  <1> QED BY <1>10, <1>11 DEF TypeInv

\* What holds while a lane looks at a transaction.
LEMMA LookingFacts ==
    ASSUME TypeInv, Looking
    PROVE  /\ phase = "prepare" /\ prep.lane \in Lanes
           /\ prep.it \in LookIterators(lanes[prep.lane].index)
           /\ NextTx \in LookIterators(lanes[prep.lane].index)
           /\ Current(prep.it) \in TxsOf(lanes[prep.lane].index)
  <1>1. phase = "prepare" /\ prep.it.at = "Tx"
    BY DEF Looking
  <1>2. prep.lane \in Lanes
    BY <1>1 DEF TypeInv, PrepInv, NoIterator
  <1>3. prep.it \in LookIterators(lanes[prep.lane].index) /\ PoolOK(lanes[prep.lane].index)
    BY <1>1, <1>2 DEF TypeInv, PrepInv, LanesInv, LanesOK, LaneOK
  <1> QED BY <1>1, <1>2, <1>3, IteratorMoves DEF NextTx

\* A step that changes prep only.
LEMMA PrepStepType ==
    ASSUME TypeInv, phase = "prepare", prep.lane \in Lanes, NothingElse,
           prep' = [prep EXCEPT !.it = prep'.it, !.txs = prep'.txs, !.remove = prep'.remove, !.laneCtx = prep'.laneCtx],
           prep'.it \in LookIterators(lanes[prep.lane].index),
           prep'.txs \in Seq(Txs), prep'.remove \in Seq(Txs), prep'.laneCtx \in AccountState
    PROVE  TypeInv' /\ prep'.lane = prep.lane /\ prep'.ctx = prep.ctx
  <1>1. UNCHANGED <<lanes, check, state, height, phase, prop, proc>>
    BY DEF NothingElse, mempool, chain
  <1>2. LanesInv' /\ ChainInv' /\ PropInv' /\ ProcInv'
    BY <1>1 DEF TypeInv, LanesInv, ChainInv, PropInv, ProcInv
  <1>3. prep = [lane |-> prep.lane, ctx |-> prep.ctx, laneCtx |-> prep.laneCtx, it |-> prep.it,
                txs |-> prep.txs, remove |-> prep.remove]
    BY DEF TypeInv, PrepInv
  <1>4. prep' = [lane |-> prep.lane, ctx |-> prep.ctx, laneCtx |-> prep'.laneCtx, it |-> prep'.it,
                 txs |-> prep'.txs, remove |-> prep'.remove]
    BY <1>3
  <1>5. prep'.lane = prep.lane /\ prep'.ctx = prep.ctx
    BY <1>4
  <1>6. PrepInv'
    BY <1>1, <1>4, <1>5 DEF TypeInv, PrepInv
  <1> QED BY <1>2, <1>5, <1>6 DEF TypeInv

LEMMA WalkType ==
    ASSUME TypeInv, Walk
    PROVE  TypeInv' /\ prep'.lane = prep.lane /\ prep'.ctx = prep.ctx
  <1>1. phase = "prepare" /\ prep.it.at \in {"iteratePriority", "Next"} /\ NothingElse
        /\ prep' = [prep EXCEPT !.it = Advance(Pool, prep.it)]
    BY DEF Walk
  <1>2. prep.lane \in Lanes
    BY <1>1 DEF TypeInv, PrepInv, NoIterator
  <1>3. prep.it \in LookIterators(Pool) /\ PoolOK(Pool)
    BY <1>1, <1>2 DEF TypeInv, PrepInv, LanesInv, LanesOK, LaneOK, Pool
  <1>4. Advance(Pool, prep.it) \in LookIterators(Pool)
    BY <1>1, <1>3, IteratorMoves
  <1>5. PICK it : it = Advance(Pool, prep.it)
    OBVIOUS
  <1>6. prep = [lane |-> prep.lane, ctx |-> prep.ctx, laneCtx |-> prep.laneCtx, it |-> prep.it,
                txs |-> prep.txs, remove |-> prep.remove]
        /\ prep.txs \in Seq(Txs) /\ prep.remove \in Seq(Txs) /\ prep.laneCtx \in AccountState
    BY DEF TypeInv, PrepInv
  <1>7. prep' = [prep EXCEPT !.it = it]
    BY <1>1, <1>5
  <1>8. prep'.it = it /\ prep'.txs = prep.txs /\ prep'.remove = prep.remove /\ prep'.laneCtx = prep.laneCtx
        /\ prep' = [prep EXCEPT !.it = it, !.txs = prep.txs, !.remove = prep.remove, !.laneCtx = prep.laneCtx]
    BY <1>6, <1>7
  <1>9. it \in LookIterators(lanes[prep.lane].index)
    BY <1>4, <1>5 DEF Pool
  <1> QED BY <1>1, <1>2, <1>6, <1>8, <1>9, PrepStepType

\* What looking at a transaction may do to the lane's part and its store.
LookOutcome(tx) ==
    \/ prep'.txs = prep.txs /\ prep'.laneCtx = prep.laneCtx
    \/ /\ prep.lane # TOBLane /\ ~Verified(tx).ok
       /\ prep'.txs = prep.txs /\ prep'.laneCtx = Verified(tx).st
    \/ /\ prep.lane # TOBLane /\ Belongs(tx) /\ Verified(tx).ok
       /\ prep'.txs = Append(prep.txs, tx) /\ prep'.laneCtx = Verified(tx).st
    \/ /\ prep.lane = TOBLane /\ tx.encodes /\ BidVerified(tx).ok /\ prep'.it = NoIterator
       /\ prep'.txs = <<tx>> \o Bundle(tx) /\ prep'.laneCtx = BidVerified(tx).st

LEMMA LookType ==
    ASSUME TypeInv, NEW tx \in Submitted, Look(tx)
    PROVE  /\ TypeInv' /\ prep'.lane = prep.lane /\ prep'.ctx = prep.ctx
           /\ UNCHANGED <<lanes, check, state, height, phase, prop, proc>>
           /\ Looking /\ tx = Current(prep.it) /\ LookOutcome(tx)
  <1>1. Looking /\ tx = Current(prep.it) /\ NothingElse
    BY DEF Look, RejectTx, SkipTx, LaneFull, SelectTx, SkipBid, RejectBid, SelectBid, LookingAtTx, LookingAtBid
  <1>2. UNCHANGED <<lanes, check, state, height, phase, prop, proc>>
    BY <1>1 DEF NothingElse, mempool, chain
  <1>3. PICK next : next = NextTx
    OBVIOUS
  <1>4. phase = "prepare" /\ prep.lane \in Lanes /\ next \in LookIterators(lanes[prep.lane].index)
    BY <1>1, <1>3, LookingFacts
  <1>5. NoIterator \in LookIterators(lanes[prep.lane].index)
    BY NoIteratorGood
  <1>6. tx \in Txs
    BY SubmittedAssumption
  <1>7. /\ prep = [lane |-> prep.lane, ctx |-> prep.ctx, laneCtx |-> prep.laneCtx, it |-> prep.it,
                   txs |-> prep.txs, remove |-> prep.remove]
        /\ prep.txs \in Seq(Txs) /\ prep.remove \in Seq(Txs) /\ prep.laneCtx \in AccountState
    BY DEF TypeInv, PrepInv
  <1>8. Append(prep.txs, tx) \in Seq(Txs) /\ Append(prep.remove, tx) \in Seq(Txs) /\ <<tx>> \o Bundle(tx) \in Seq(Txs)
    BY <1>6, <1>7, ContentFacts
  <1>9. Verified(tx).st \in AccountState /\ BidVerified(tx).st \in AccountState
    <2>1. Verified(tx) \in Result
      BY <1>6, <1>7, AnteFacts DEF Verified, AnteVerifyTx
    <2>2. BidVerified(tx) \in Result
      BY <1>7, <1>8, VerifyType DEF BidVerified, VerifyTx
    <2> QED BY <2>1, <2>2 DEF Result
  <1> DEFINE Becomes(it, txs, remove, laneCtx) ==
                 prep' = [prep EXCEPT !.it = it, !.txs = txs, !.remove = remove, !.laneCtx = laneCtx]
  <1>10. ASSUME NEW it \in LookIterators(lanes[prep.lane].index), NEW txs \in Seq(Txs), NEW remove \in Seq(Txs),
                NEW laneCtx \in AccountState, Becomes(it, txs, remove, laneCtx)
         PROVE  /\ TypeInv' /\ prep'.lane = prep.lane /\ prep'.ctx = prep.ctx
                /\ prep'.it = it /\ prep'.txs = txs /\ prep'.laneCtx = laneCtx
    <2>1. prep'.it = it /\ prep'.txs = txs /\ prep'.remove = remove /\ prep'.laneCtx = laneCtx
      BY <1>7, <1>10
    <2> QED BY <1>1, <1>4, <1>10, <2>1, PrepStepType
  <1>11. CASE RejectTx(tx)
    <2>1. PICK ctx : ctx = IF Belongs(tx) THEN Verified(tx).st ELSE prep.laneCtx
      OBVIOUS
    <2>2. Becomes(next, prep.txs, Append(prep.remove, tx), ctx) /\ prep.lane # TOBLane /\ (Belongs(tx) => ~Verified(tx).ok)
      BY <1>3, <1>7, <1>11, <2>1 DEF RejectTx, LookingAtTx
    <2>3. ctx \in AccountState
      BY <1>7, <1>9, <2>1
    <2> HIDE DEF Becomes
    <2>4. TypeInv' /\ prep'.lane = prep.lane /\ prep'.ctx = prep.ctx /\ prep'.txs = prep.txs /\ prep'.laneCtx = ctx
      BY <1>4, <1>7, <1>8, <1>10, <2>2, <2>3
    <2> QED BY <1>1, <1>2, <2>1, <2>2, <2>4 DEF LookOutcome
  <1>12. CASE SkipTx(tx) \/ SkipBid(tx)
    <2>1. Becomes(next, prep.txs, prep.remove, prep.laneCtx)
      BY <1>3, <1>7, <1>12 DEF SkipTx, SkipBid
    <2> HIDE DEF Becomes
    <2>2. TypeInv' /\ prep'.lane = prep.lane /\ prep'.ctx = prep.ctx /\ prep'.txs = prep.txs /\ prep'.laneCtx = prep.laneCtx
      BY <1>4, <1>7, <1>10, <2>1
    <2> QED BY <1>1, <1>2, <2>2 DEF LookOutcome
  <1>13. CASE LaneFull(tx)
    <2>1. Becomes(NoIterator, prep.txs, prep.remove, prep.laneCtx)
      BY <1>7, <1>13 DEF LaneFull
    <2> HIDE DEF Becomes
    <2>2. TypeInv' /\ prep'.lane = prep.lane /\ prep'.ctx = prep.ctx /\ prep'.txs = prep.txs /\ prep'.laneCtx = prep.laneCtx
      BY <1>5, <1>7, <1>10, <2>1
    <2> QED BY <1>1, <1>2, <2>2 DEF LookOutcome
  <1>14. CASE SelectTx(tx)
    <2>1. PICK ctx : ctx = Verified(tx).st
      OBVIOUS
    <2>2. Becomes(next, Append(prep.txs, tx), prep.remove, ctx) /\ prep.lane # TOBLane /\ Belongs(tx) /\ Verified(tx).ok
      BY <1>3, <1>7, <1>14, <2>1 DEF SelectTx, LookingAtTx
    <2> HIDE DEF Becomes
    <2>3. /\ TypeInv' /\ prep'.lane = prep.lane /\ prep'.ctx = prep.ctx
          /\ prep'.txs = Append(prep.txs, tx) /\ prep'.laneCtx = ctx
      BY <1>4, <1>7, <1>8, <1>9, <1>10, <2>1, <2>2
    <2> QED BY <1>1, <1>2, <2>1, <2>2, <2>3 DEF LookOutcome
  <1>15. CASE RejectBid(tx)
    <2>1. Becomes(next, prep.txs, Append(prep.remove, tx), prep.laneCtx)
      BY <1>3, <1>7, <1>15 DEF RejectBid
    <2> HIDE DEF Becomes
    <2>2. TypeInv' /\ prep'.lane = prep.lane /\ prep'.ctx = prep.ctx /\ prep'.txs = prep.txs /\ prep'.laneCtx = prep.laneCtx
      BY <1>4, <1>7, <1>8, <1>10, <2>1
    <2> QED BY <1>1, <1>2, <2>2 DEF LookOutcome
  <1>16. CASE SelectBid(tx)
    <2>1. PICK ctx : ctx = BidVerified(tx).st
      OBVIOUS
    <2>2. PICK part : part = <<tx>> \o Bundle(tx)
      OBVIOUS
    <2>3. Becomes(NoIterator, part, prep.remove, ctx) /\ prep.lane = TOBLane /\ tx.encodes /\ BidVerified(tx).ok
      BY <1>7, <1>16, <2>1, <2>2 DEF SelectBid, LookingAtBid
    <2> HIDE DEF Becomes
    <2>4. /\ TypeInv' /\ prep'.lane = prep.lane /\ prep'.ctx = prep.ctx
          /\ prep'.txs = part /\ prep'.laneCtx = ctx /\ prep'.it = NoIterator
      BY <1>5, <1>7, <1>8, <1>9, <1>10, <2>1, <2>2, <2>3
    <2> QED BY <1>1, <1>2, <2>1, <2>2, <2>3, <2>4 DEF LookOutcome
  <1> QED BY <1>11, <1>12, <1>13, <1>14, <1>15, <1>16 DEF Look

LEMMA UpdateProposalType ==
    ASSUME NEW p \in [txs: Seq(Txs), cache: SUBSET Txs, total: Nat, max: Nat], NEW l, NEW txs \in Seq(Txs)
    PROVE  UpdateProposal(p, l, txs) \in [txs: Seq(Txs), cache: SUBSET Txs, total: Nat, max: Nat]
  <1>1. SumSize(txs) \in Nat /\ p.txs \o txs \in Seq(Txs) /\ p.total + SumSize(txs) \in Nat
    BY SumType
  <1>2. TxSet(txs) \subseteq Txs
    BY DEF TxSet
  <1>3. [p EXCEPT !.txs = @ \o txs, !.cache = @ \cup TxSet(txs), !.total = @ + SumSize(txs)]
          \in [txs: Seq(Txs), cache: SUBSET Txs, total: Nat, max: Nat]
    BY <1>1, <1>2
  <1> QED BY <1>3 DEF UpdateProposal

\* The end of a lane's turn: the next lane begins.
LEMMA FinishLaneFacts ==
    ASSUME TypeInv, FinishLane
    PROVE  /\ TypeInv'
           /\ UNCHANGED <<check, state, height, phase, proc>>
           /\ phase = "prepare" /\ prep.lane \in Lanes /\ prop' = UpdateProposal(prop, prep.lane, prep.txs)
           /\ prep'.lane = prep.lane + 1 /\ prep'.txs = <<>> /\ prep'.laneCtx = prep'.ctx
           /\ prep'.ctx = IF UpdateError(prop, prep.lane, prep.txs) THEN prep.ctx ELSE prep.laneCtx
  <1>1. PICK l : l = prep.lane
    OBVIOUS
  <1>2. PICK ctx : ctx = IF UpdateError(prop, l, prep.txs) THEN prep.ctx ELSE prep.laneCtx
    OBVIOUS
  <1>3. PICK cm : cm = RemoveTxsFromLane(lanes[l], prep.remove)
    OBVIOUS
  <1>4. /\ phase = "prepare" /\ l \in Lanes /\ prop' = UpdateProposal(prop, l, prep.txs)
        /\ EnterLane([lanes EXCEPT ![l] = cm], l + 1, ctx)
        /\ UNCHANGED <<check, state, height, phase, proc>>
    BY <1>1, <1>2, <1>3 DEF FinishLane, chain
  <1>5. ctx \in AccountState /\ prep.txs \in Seq(Txs) /\ prep.remove \in Seq(Txs)
    BY <1>2 DEF TypeInv, PrepInv
  <1>6. LaneOK(lanes[l])
    BY <1>4 DEF TypeInv, LanesInv, LanesOK
  <1>7. LaneOK(cm) /\ TxsOf(cm.index) \subseteq TxsOf(lanes[l].index)
    BY <1>3, <1>5, <1>6, RemoveTxsOK
  <1>8. LanesOK([lanes EXCEPT ![l] = cm])
    <2>1. PICK T : T = {}
      OBVIOUS
    <2>2. TxsOf(cm.index) \subseteq TxsOf(lanes[l].index) \cup T /\ LanesOK(lanes)
      BY <1>7 DEF TypeInv, LanesInv
    <2> QED BY <1>4, <1>7, <2>1, <2>2, LaneChanged
  <1>9. l + 1 \in 1..(NumLanes + 1) /\ phase' = "prepare"
    BY <1>4, LanesAssumption DEF Lanes
  <1>10. PICK pools : pools = [lanes EXCEPT ![l] = cm]
    OBVIOUS
  <1>11. LanesInv' /\ PrepInv' /\ prep'.lane = l + 1 /\ prep'.ctx = ctx /\ prep'.laneCtx = ctx /\ prep'.txs = <<>>
    BY <1>4, <1>5, <1>8, <1>9, <1>10, EnterLaneFacts
  <1>12. PropInv'
    BY <1>4, <1>5, UpdateProposalType DEF TypeInv, PropInv
  <1>13. ChainInv' /\ ProcInv'
    BY <1>4 DEF TypeInv, ChainInv, ProcInv
  <1> QED BY <1>1, <1>2, <1>4, <1>11, <1>12, <1>13 DEF TypeInv

LEMMA LanePanicsFacts ==
    ASSUME TypeInv, LanePanics
    PROVE  /\ TypeInv'
           /\ UNCHANGED <<check, state, height, phase, prop, proc>>
           /\ phase = "prepare" /\ prep.lane \in Lanes
           /\ prep'.lane = prep.lane + 1 /\ prep'.txs = <<>> /\ prep'.laneCtx = prep.ctx /\ prep'.ctx = prep.ctx
  <1>1. /\ phase = "prepare" /\ prep.lane \in Lanes
        /\ EnterLane(lanes, prep.lane + 1, prep.ctx)
        /\ UNCHANGED <<check, state, height, phase, prop, proc>>
    BY DEF LanePanics, chain
  <1>2. prep.lane + 1 \in 1..(NumLanes + 1) /\ phase' = "prepare" /\ prep.ctx \in AccountState
    BY <1>1, LanesAssumption DEF Lanes, TypeInv, PrepInv
  <1>3. PICK l : l = prep.lane + 1
    OBVIOUS
  <1>4. PICK ctx : ctx = prep.ctx
    OBVIOUS
  <1>5. LanesInv' /\ PrepInv' /\ prep'.lane = l /\ prep'.ctx = ctx /\ prep'.laneCtx = ctx /\ prep'.txs = <<>>
    BY <1>1, <1>2, <1>3, <1>4, EnterLaneFacts DEF TypeInv, LanesInv
  <1>6. PropInv' /\ ChainInv' /\ ProcInv'
    BY <1>1 DEF TypeInv, PropInv, ChainInv, ProcInv
  <1> QED BY <1>1, <1>3, <1>4, <1>5, <1>6 DEF TypeInv

LEMMA PrepareProposalFacts ==
    ASSUME TypeInv, NEW max \in BlockSizes, PrepareProposal(max)
    PROVE  /\ TypeInv'
           /\ UNCHANGED <<check, state, height, proc>>
           /\ phase = "idle" /\ phase' = "prepare" /\ prop' = NewProposal(max) /\ max \in Nat
           /\ prep'.lane = 1 /\ prep'.txs = <<>> /\ prep'.laneCtx = state /\ prep'.ctx = state
  <1>1. /\ phase = "idle" /\ phase' = "prepare" /\ prop' = NewProposal(max) /\ height < MaxHeight
        /\ EnterLane(lanes, 1, state)
        /\ UNCHANGED <<check, state, height, proc>>
    BY DEF PrepareProposal, chain
  <1>2. 1 \in 1..(NumLanes + 1) /\ max \in Nat /\ state \in AccountState
    BY LanesAssumption, BlockSizesAssumption DEF TypeInv, ChainInv
  <1>3. LanesInv' /\ PrepInv' /\ prep'.lane = 1 /\ prep'.ctx = state /\ prep'.laneCtx = state /\ prep'.txs = <<>>
    BY <1>1, <1>2, EnterLaneFacts DEF TypeInv, LanesInv
  <1>4. PropInv' /\ ChainInv' /\ ProcInv'
    BY <1>1, <1>2 DEF TypeInv, PropInv, NewProposal, ChainInv, ProcInv
  <1> QED BY <1>1, <1>2, <1>3, <1>4 DEF TypeInv

\* A new proposal to check.
LEMMA StartProcessType ==
    ASSUME TypeInv, NEW own \in BOOLEAN, NEW txs \in Seq(Txs), StartProcess(own, txs), height < MaxHeight,
           UNCHANGED <<lanes, check, state, height>>, PropInv', prep' = prep \/ prep' = NoPrep
    PROVE  TypeInv'
  <1>1. phase' = "process" /\ proc' = [own |-> own, txs |-> txs, rest |-> txs, lane |-> 1, ctx |-> state]
    BY DEF StartProcess
  <1>2. 1 \in 0..(NumLanes + 1) /\ NumLanes \in Nat /\ state \in AccountState
    BY LanesAssumption DEF TypeInv, ChainInv
  <1>3. LanesInv' /\ ChainInv'
    BY <1>1 DEF TypeInv, LanesInv, ChainInv
  <1>4. ProcInv'
    BY <1>1, <1>2 DEF ProcInv
  <1>5. CASE prep' = prep
    BY <1>1, <1>3, <1>4, <1>5 DEF TypeInv, PrepInv
  <1>6. CASE prep' = NoPrep
    <2>1. PrepInv'
      BY <1>1, <1>2, <1>6, InitStateAssumption DEF PrepInv, NoPrep
    <2> QED BY <1>3, <1>4, <2>1 DEF TypeInv
  <1> QED BY <1>5, <1>6

\* What a lane takes from the rest of a proposal, and what it leaves. A lane other
\* than the auction lane takes its transactions up to the first that is not its own.
LEMMA LaneShareTaken ==
    ASSUME NEW l \in Lanes, l # TOBLane, NEW txs \in Seq(Txs), NEW n, n = LaneShare(l, txs)
    PROVE  /\ n \in 0..Len(txs)
           /\ \A i \in 1..n : Match(l, txs[i])
           /\ n < Len(txs) => ~Match(l, txs[n + 1])
  <1> DEFINE W == {i \in 1..(Len(txs) + 1) : i = Len(txs) + 1 \/ ~Match(l, txs[i])}
             Taken(m) == (\A i \in 1..m : Match(l, txs[i])) /\ (m < Len(txs) => ~Match(l, txs[m + 1]))
  <1>1. Len(txs) \in Nat /\ Len(txs) + 1 \in Nat /\ Len(txs) + 1 \in 1..(Len(txs) + 1) /\ Len(txs) + 1 \in W
    OBVIOUS
  <1>2. PICK k \in 1..(Len(txs) + 1) : IsFirst(k, W)
    <2> HIDE DEF W
    <2> QED BY <1>1, HasFirst
  <1>3. k - 1 \in 0..Len(txs) /\ (k - 1) + 1 = k /\ (k - 1 < Len(txs) => k # Len(txs) + 1)
        /\ \A i \in 1..(k - 1) : i \in 1..(Len(txs) + 1)
    BY <1>1
  <1>4. k \in W /\ \A j \in 1..(k - 1) : j \notin W
    BY <1>2 DEF IsFirst
  <1>5. Taken(k - 1)
    BY <1>3, <1>4
  <1>6. n = CHOOSE m \in 0..Len(txs) : Taken(m)
    BY DEF LaneShare
  <1>7. n \in 0..Len(txs) /\ Taken(n)
    <2> HIDE DEF Taken
    <2> QED BY <1>3, <1>5, <1>6
  <1> QED BY <1>7

LEMMA LaneShareType ==
    ASSUME NEW l \in Lanes, NEW txs \in Seq(Txs), txs # <<>>, CheckOrder(l, txs)
    PROVE  LaneShare(l, txs) \in 0..Len(txs)
  <1>1. CASE l = TOBLane
    <2>1. txs[1] \in Txs /\ Len(txs) >= 1 /\ Len(txs) \in Nat
      OBVIOUS
    <2>2. Len(Bundle(txs[1])) \in Nat
      BY <2>1, ContentFacts
    <2>3. Match(TOBLane, txs[1]) => Len(txs) >= Len(Bundle(txs[1])) + 1
      BY <1>1 DEF CheckOrder, AuctionCheckOrder
    <2>4. LaneShare(l, txs) = IF Match(TOBLane, txs[1]) THEN 1 + Len(Bundle(txs[1])) ELSE 0
      BY <1>1 DEF LaneShare
    <2> QED BY <2>1, <2>2, <2>3, <2>4
  <1>2. CASE l # TOBLane
    BY <1>2, LaneShareTaken
  <1> QED BY <1>1, <1>2

LEMMA SubSeqFacts ==
    ASSUME NEW txs \in Seq(Txs), NEW m \in Nat, NEW n \in Nat, m <= Len(txs), n <= Len(txs), m <= n
    PROVE  /\ SubSeq(txs, m + 1, n) \in Seq(Txs)
           /\ Len(SubSeq(txs, m + 1, n)) = n - m
           /\ \A i \in 1..(n - m) : SubSeq(txs, m + 1, n)[i] = txs[m + i]
  OBVIOUS

\* A lane's turn: what it takes is verified, what it leaves is the rest.
LEMMA ProcessLaneFacts ==
    ASSUME NEW l \in Lanes, NEW st \in AccountState, NEW h, NEW txs \in Seq(Txs), txs # <<>>, CheckOrder(l, txs),
           NEW n, n = LaneShare(l, txs), NEW r, r = ProcessLane(l, st, h, txs)
    PROVE  /\ n \in 0..Len(txs)
           /\ r.ok <=> AnteVerifyAll(st, h, SubSeq(txs, 1, n)).ok
           /\ r.st = AnteVerifyAll(st, h, SubSeq(txs, 1, n)).st
           /\ r.rest = SubSeq(txs, n + 1, Len(txs))
           /\ r.rest \in Seq(Txs) /\ r.st \in AccountState
  <1> DEFINE share == IF l = TOBLane /\ n > 0 THEN <<txs[1]>> \o Bundle(txs[1]) ELSE SubSeq(txs, 1, n)
  <1>1. n \in 0..Len(txs) /\ Len(txs) \in Nat /\ n \in Nat /\ txs[1] \in Txs
    BY LaneShareType
  <1>2. share = SubSeq(txs, 1, n)
    <2>1. CASE l = TOBLane /\ n > 0
      <3>1. Match(TOBLane, txs[1]) /\ n = 1 + Len(Bundle(txs[1]))
        BY <2>1 DEF LaneShare
      <3>2. \A i \in 1..Len(Bundle(txs[1])) : txs[i + 1] = Bundle(txs[1])[i]
        BY <2>1, <3>1 DEF CheckOrder, AuctionCheckOrder
      <3>3. PICK b : b = Bundle(txs[1])
        OBVIOUS
      <3>4. b \in Seq(Txs)
        BY <1>1, <3>3, ContentFacts
      <3>5. /\ SubSeq(txs, 0 + 1, n) \in Seq(Txs) /\ Len(SubSeq(txs, 0 + 1, n)) = n - 0
            /\ \A i \in 1..(n - 0) : SubSeq(txs, 0 + 1, n)[i] = txs[0 + i]
        BY <1>1, SubSeqFacts
      <3>6. /\ <<txs[1]>> \o b \in Seq(Txs) /\ Len(<<txs[1]>> \o b) = 1 + Len(b)
            /\ (<<txs[1]>> \o b)[1] = txs[1] /\ \A i \in 2..(1 + Len(b)) : (<<txs[1]>> \o b)[i] = b[i - 1]
        BY <1>1, <3>4
      <3>7. \A i \in 2..(1 + Len(b)) : txs[i] = b[i - 1]
        <4> SUFFICES ASSUME NEW i \in 2..(1 + Len(b)) PROVE txs[i] = b[i - 1]
          OBVIOUS
        <4>1. i - 1 \in 1..Len(b) /\ (i - 1) + 1 = i
          BY <3>4
        <4> QED BY <3>2, <3>3, <4>1
      <3>8. PICK p : p = <<txs[1]>> \o b
        OBVIOUS
      <3>9. PICK q : q = SubSeq(txs, 1, n)
        OBVIOUS
      <3>10. /\ p \in Seq(Txs) /\ q \in Seq(Txs) /\ Len(p) = n /\ Len(q) = n
             /\ \A i \in 1..n : p[i] = txs[i] /\ q[i] = txs[i]
        BY <1>1, <3>1, <3>3, <3>4, <3>5, <3>6, <3>7, <3>8, <3>9
      <3>11. p = q
        BY <3>10
      <3> QED BY <2>1, <3>3, <3>8, <3>9, <3>11
    <2> QED BY <2>1
  <1>3. r = [ok |-> AnteVerifyAll(st, h, share).ok, st |-> AnteVerifyAll(st, h, share).st,
             rest |-> SubSeq(txs, n + 1, Len(txs))]
    BY DEF ProcessLane
  <1> HIDE DEF share
  <1>4. SubSeq(txs, 1, n) \in Seq(Txs) /\ SubSeq(txs, n + 1, Len(txs)) \in Seq(Txs)
    BY <1>1
  <1>5. AnteVerifyAll(st, h, SubSeq(txs, 1, n)) \in Result
    BY <1>4, VerifyType
  <1>6. AnteVerifyAll(st, h, SubSeq(txs, 1, n)).st \in AccountState
    BY <1>5 DEF Result
  <1>7. PICK v : v = AnteVerifyAll(st, h, SubSeq(txs, 1, n))
    OBVIOUS
  <1>8. r = [ok |-> v.ok, st |-> v.st, rest |-> SubSeq(txs, n + 1, Len(txs))]
    BY <1>2, <1>3, <1>7
  <1>9. (r.ok <=> v.ok) /\ r.st = v.st /\ r.rest = SubSeq(txs, n + 1, Len(txs))
    <2>1. v.ok \in BOOLEAN
      BY <1>5, <1>7 DEF Result
    <2>2. PICK ok \in BOOLEAN : ok = v.ok
      BY <2>1
    <2>3. PICK vst : vst = v.st
      OBVIOUS
    <2>4. PICK q : q = SubSeq(txs, n + 1, Len(txs))
      OBVIOUS
    <2>5. r = [ok |-> ok, st |-> vst, rest |-> q]
      BY <1>8, <2>2, <2>3, <2>4, Zenon
    <2>6. (r.ok <=> ok) /\ r.st = vst /\ r.rest = q
      BY <2>5
    <2> QED BY <2>2, <2>3, <2>4, <2>6, Zenon
  <1> QED BY <1>1, <1>4, <1>6, <1>7, <1>9

\* The outcomes of a lane's turn in ChainProcessLanes.
Rest(n) == SubSeq(proc.rest, n + 1, Len(proc.rest))
Checked(n) == AnteVerifyAll(proc.ctx, height + 1, SubSeq(proc.rest, 1, n))
Open == ~Undecodable /\ proc.rest # <<>> /\ proc.lane \in Lanes
ProcessOutcome ==
    \/ Undecodable /\ phase' = "rejected" /\ proc' = proc
    \/ ~Undecodable /\ (proc.rest = <<>> \/ proc.lane = NumLanes + 1) /\ phase' = "accepted" /\ proc' = proc
    \/ Open /\ ~CheckOrder(proc.lane, proc.rest) /\ phase' = "rejected" /\ proc' = proc
    \/ /\ Open /\ CheckOrder(proc.lane, proc.rest) /\ phase' = "rejected" /\ proc' = proc
       /\ LaneShare(proc.lane, proc.rest) \in 0..Len(proc.rest)
       /\ ~Checked(LaneShare(proc.lane, proc.rest)).ok
    \/ /\ Open /\ CheckOrder(proc.lane, proc.rest) /\ phase' = "process"
       /\ LaneShare(proc.lane, proc.rest) \in 0..Len(proc.rest)
       /\ Checked(LaneShare(proc.lane, proc.rest)).ok
       /\ proc'.own = proc.own /\ proc'.txs = proc.txs /\ proc'.lane = proc.lane + 1
       /\ proc'.rest = Rest(LaneShare(proc.lane, proc.rest))
       /\ proc'.ctx = Checked(LaneShare(proc.lane, proc.rest)).st

LEMMA ProcessStepFacts ==
    ASSUME TypeInv, ProcessLaneStep
    PROVE  /\ TypeInv' /\ ProcessOutcome
           /\ phase = "process" /\ UNCHANGED <<lanes, check, state, height, prop, prep>>
  <1>1. phase = "process" /\ UNCHANGED <<lanes, check, state, height, prop, prep>>
    BY DEF ProcessLaneStep, mempool, chain
  <1>2. /\ proc \in [own: BOOLEAN, txs: Seq(Txs), rest: Seq(Txs), lane: 0..(NumLanes + 1), ctx: AccountState]
        /\ proc.lane > 0 /\ NumLanes \in Nat /\ proc.lane \in Nat
    BY <1>1, LanesAssumption DEF TypeInv, ProcInv
  <1>3. proc.lane > NumLanes => proc.lane = NumLanes + 1
    BY <1>2
  <1>4. ~(proc.lane > NumLanes) => proc.lane \in Lanes
    BY <1>2 DEF Lanes
  <1>5. ASSUME proc' = proc, phase' \in {"accepted", "rejected"} PROVE TypeInv'
    BY <1>1, <1>5 DEF TypeInv, LanesInv, ChainInv, PropInv, PrepInv, ProcInv
  <1>6. CASE Undecodable
    <2>1. phase' = "rejected" /\ proc' = proc
      BY <1>6 DEF ProcessLaneStep, Decide
    <2> QED BY <1>1, <1>5, <1>6, <2>1 DEF ProcessOutcome
  <1>7. CASE ~Undecodable /\ (proc.rest = <<>> \/ proc.lane > NumLanes)
    <2>1. phase' = "accepted" /\ proc' = proc
      BY <1>7 DEF ProcessLaneStep, Decide
    <2> QED BY <1>1, <1>3, <1>5, <1>7, <2>1 DEF ProcessOutcome
  <1>8. CASE ~Undecodable /\ proc.rest # <<>> /\ ~(proc.lane > NumLanes)
    <2>1. Open
      BY <1>4, <1>8 DEF Open
    <2>2. CASE ~CheckOrder(proc.lane, proc.rest)
      <3>1. phase' = "rejected" /\ proc' = proc
        BY <1>8, <2>2 DEF ProcessLaneStep, Decide
      <3> QED BY <1>1, <1>5, <2>1, <2>2, <3>1 DEF ProcessOutcome
    <2>3. CASE CheckOrder(proc.lane, proc.rest)
      <3>1. PICK r : r = ProcessLane(proc.lane, proc.ctx, height + 1, proc.rest)
        OBVIOUS
      <3>2. PICK n : n = LaneShare(proc.lane, proc.rest)
        OBVIOUS
      <3>3. IF ~r.ok THEN Decide("rejected")
            ELSE /\ proc' = [proc EXCEPT !.lane = @ + 1, !.rest = r.rest, !.ctx = r.st]
                 /\ UNCHANGED phase
        BY <1>8, <2>3, <3>1 DEF ProcessLaneStep
      <3>4. proc.lane \in Lanes /\ proc.ctx \in AccountState /\ proc.rest \in Seq(Txs) /\ proc.rest # <<>>
        BY <1>2, <1>4, <1>8
      <3>5. /\ n \in 0..Len(proc.rest) /\ (r.ok <=> Checked(n).ok) /\ r.st = Checked(n).st /\ r.rest = Rest(n)
            /\ r.rest \in Seq(Txs) /\ r.st \in AccountState
        <4>1. PICK l : l = proc.lane
          OBVIOUS
        <4>2. PICK ctx : ctx = proc.ctx
          OBVIOUS
        <4>3. PICK txs : txs = proc.rest
          OBVIOUS
        <4>4. PICK h : h = height + 1
          OBVIOUS
        <4>5. /\ l \in Lanes /\ ctx \in AccountState /\ txs \in Seq(Txs) /\ txs # <<>> /\ CheckOrder(l, txs)
              /\ n = LaneShare(l, txs) /\ r = ProcessLane(l, ctx, h, txs)
          BY <2>3, <3>1, <3>2, <3>4, <4>1, <4>2, <4>3, <4>4
        <4>6. /\ n \in 0..Len(txs) /\ (r.ok <=> AnteVerifyAll(ctx, h, SubSeq(txs, 1, n)).ok)
              /\ r.st = AnteVerifyAll(ctx, h, SubSeq(txs, 1, n)).st
              /\ r.rest = SubSeq(txs, n + 1, Len(txs)) /\ r.rest \in Seq(Txs) /\ r.st \in AccountState
          BY <4>5, ProcessLaneFacts
        <4> QED BY <4>2, <4>3, <4>4, <4>6 DEF Checked, Rest
      <3>6. CASE ~r.ok
        <4>1. phase' = "rejected" /\ proc' = proc
          BY <3>3, <3>6 DEF Decide
        <4> QED BY <1>1, <1>5, <2>1, <2>3, <3>2, <3>5, <3>6, <4>1 DEF ProcessOutcome
      <3>7. CASE r.ok
        <4>1. phase' = "process" /\ proc' = [proc EXCEPT !.lane = proc.lane + 1, !.rest = r.rest, !.ctx = r.st]
          BY <1>1, <3>3, <3>7
        <4>2. PICK rest : rest = r.rest
          OBVIOUS
        <4>3. PICK ctx : ctx = r.st
          OBVIOUS
        <4>4. proc' = [proc EXCEPT !.lane = proc.lane + 1, !.rest = rest, !.ctx = ctx]
          BY <4>1, <4>2, <4>3, Zenon
        <4>5. /\ proc'.own = proc.own /\ proc'.txs = proc.txs /\ proc'.lane = proc.lane + 1
              /\ proc'.rest = rest /\ proc'.ctx = ctx
          BY <1>2, <4>4
        <4>6. proc.lane + 1 \in 0..(NumLanes + 1) /\ proc.lane + 1 > 0 /\ rest \in Seq(Txs) /\ ctx \in AccountState
          BY <1>2, <3>4, <3>5, <4>2, <4>3 DEF Lanes
        <4>7. ProcInv'
          BY <1>2, <4>4, <4>6 DEF ProcInv
        <4>8. LanesInv' /\ ChainInv' /\ PropInv' /\ PrepInv'
          BY <1>1, <4>1 DEF TypeInv, LanesInv, ChainInv, PropInv, PrepInv
        <4>9. TypeInv'
          BY <4>7, <4>8 DEF TypeInv
        <4>10. ProcessOutcome
          BY <2>1, <2>3, <3>2, <3>5, <3>7, <4>1, <4>2, <4>3, <4>5 DEF ProcessOutcome
        <4> QED BY <1>1, <4>9, <4>10
      <3> QED BY <3>6, <3>7
    <2> QED BY <2>2, <2>3
  <1> QED BY <1>6, <1>7, <1>8

LEMMA ProposeFacts ==
    ASSUME TypeInv, Propose
    PROVE  /\ TypeInv' /\ phase = "prepare" /\ phase' = "process" /\ prep.lane > NumLanes
           /\ proc' = [own |-> TRUE, txs |-> prop.txs, rest |-> prop.txs, lane |-> 1, ctx |-> state]
           /\ prop' = NewProposal(0) /\ UNCHANGED <<lanes, check, state, height>>
  <1>1. /\ phase = "prepare" /\ prep.lane > NumLanes /\ StartProcess(TRUE, prop.txs) /\ prop' = NewProposal(0)
        /\ prep' = NoPrep /\ UNCHANGED <<lanes, check, state, height>>
    BY DEF Propose, mempool, chain
  <1>2. prop.txs \in Seq(Txs) /\ height < MaxHeight /\ PropInv'
    BY <1>1 DEF TypeInv, PropInv, ChainInv, NewProposal
  <1>3. PICK txs : txs = prop.txs
    OBVIOUS
  <1>4. TypeInv'
    BY <1>1, <1>2, <1>3, StartProcessType
  <1> QED BY <1>1, <1>4 DEF StartProcess

LEMMA ReceiveFacts ==
    ASSUME TypeInv, ReceiveProposal
    PROVE  /\ TypeInv' /\ phase = "idle" /\ phase' = "process"
           /\ \E txs \in Seq(Txs) :
                 proc' = [own |-> FALSE, txs |-> txs, rest |-> txs, lane |-> 1, ctx |-> state]
           /\ UNCHANGED <<lanes, check, state, height, prop, prep>>
  <1>1. PICK n \in 1..MaxForeign : \E txs \in [1..n -> Txs] : StartProcess(FALSE, txs)
    BY DEF ReceiveProposal
  <1>2. PICK txs \in [1..n -> Txs] : StartProcess(FALSE, txs)
    BY <1>1
  <1>3. txs \in Seq(Txs)
    BY BoundsAssumption
  <1>4. phase = "idle" /\ height < MaxHeight /\ UNCHANGED <<lanes, check, state, height, prop, prep>>
    BY DEF ReceiveProposal, mempool, chain
  <1>5. PropInv'
    BY <1>4 DEF TypeInv, PropInv
  <1>6. TypeInv'
    BY <1>2, <1>3, <1>4, <1>5, StartProcessType
  <1> QED BY <1>2, <1>3, <1>4, <1>6 DEF StartProcess

LEMMA ProcessPanicsFacts ==
    ASSUME TypeInv, ProcessPanics
    PROVE  /\ TypeInv' /\ phase = "process" /\ phase' = "rejected" /\ proc'.lane = 0
           /\ proc'.own = proc.own /\ proc'.txs = proc.txs
           /\ UNCHANGED <<lanes, check, state, height, prop, prep>>
  <1>1. phase = "process" /\ phase' = "rejected" /\ proc' = [proc EXCEPT !.lane = 0]
        /\ UNCHANGED <<lanes, check, state, height, prop, prep>>
    BY DEF ProcessPanics, mempool, chain
  <1>2. ProcInv' /\ proc'.lane = 0 /\ proc'.own = proc.own /\ proc'.txs = proc.txs
    BY <1>1, LanesAssumption DEF TypeInv, ProcInv
  <1>3. LanesInv' /\ ChainInv' /\ PropInv' /\ PrepInv'
    BY <1>1 DEF TypeInv, LanesInv, ChainInv, PropInv, PrepInv
  <1> QED BY <1>1, <1>2, <1>3 DEF TypeInv

LEMMA NextRoundFacts ==
    ASSUME TypeInv, NextRound
    PROVE  TypeInv' /\ phase' = "idle" /\ phase # "prepare" /\ prop' = prop
  <1>1. phase \in {"accepted", "rejected"} /\ phase' = "idle" /\ proc' = NoProc
        /\ UNCHANGED <<lanes, check, state, height, prop, prep>>
    BY DEF NextRound, mempool, chain
  <1>2. ProcInv'
    BY <1>1, LanesAssumption, InitStateAssumption DEF ProcInv, NoProc
  <1>3. LanesInv' /\ ChainInv' /\ PropInv' /\ PrepInv'
    BY <1>1 DEF TypeInv, LanesInv, ChainInv, PropInv, PrepInv
  <1> QED BY <1>1, <1>2, <1>3 DEF TypeInv

LEMMA CommitFacts ==
    ASSUME TypeInv, Commit
    PROVE  TypeInv' /\ phase' = "idle" /\ phase # "prepare" /\ prop' = prop
  <1>1. PICK d : d = DeliverAll(state, proc.txs)
    OBVIOUS
  <1>2. /\ phase = "accepted" /\ phase' = "idle" /\ state' = d.st /\ check' = state' /\ height' = height + 1
        /\ lanes' = [l \in Lanes |-> RemoveKnown(lanes[l], d.done)] /\ proc' = NoProc /\ UNCHANGED <<prop, prep>>
    BY <1>1 DEF Commit
  <1>3. d.st \in AccountState /\ d.done \in Seq(Txs)
    <2>1. state \in AccountState /\ proc.txs \in Seq(Txs)
      BY DEF TypeInv, ChainInv, ProcInv
    <2> QED BY <1>1, <2>1, DeliverAllType
  <1>4. PICK done \in Seq(Txs) : done = d.done
    BY <1>3
  <1>5. \A l \in Lanes : LaneOK(lanes'[l]) /\ TxsOf(lanes'[l].index) \subseteq TxsOf(lanes[l].index)
    <2> SUFFICES ASSUME NEW l \in Lanes
                 PROVE  LaneOK(lanes'[l]) /\ TxsOf(lanes'[l].index) \subseteq TxsOf(lanes[l].index)
      OBVIOUS
    <2>1. LaneOK(lanes[l]) /\ lanes'[l] = RemoveKnown(lanes[l], done)
      BY <1>2, <1>4 DEF TypeInv, LanesInv, LanesOK
    <2> QED BY <2>1, RemoveKnownOK
  <1>6. LanesInv'
    <2>1. lanes' = [l \in Lanes |-> lanes'[l]] /\ TOBLane \in Lanes
      BY <1>2, LanesAssumption DEF Lanes, TOBLane
    <2> QED BY <1>5, <2>1 DEF TypeInv, LanesInv, LanesOK
  <1>7. ChainInv'
    BY <1>2, <1>3, BoundsAssumption DEF TypeInv, ChainInv
  <1>8. ProcInv'
    BY <1>2, LanesAssumption, InitStateAssumption DEF ProcInv, NoProc
  <1>9. PropInv' /\ PrepInv'
    BY <1>2 DEF TypeInv, PropInv, PrepInv
  <1> QED BY <1>2, <1>6, <1>7, <1>8, <1>9 DEF TypeInv

LEMMA TypeStep == TypeInv /\ [Next]_vars => TypeInv'
  <1> SUFFICES ASSUME TypeInv, [Next]_vars PROVE TypeInv'
    OBVIOUS
  <1>1. CASE UNCHANGED vars
    BY <1>1 DEF vars, TypeInv, LanesInv, ChainInv, PropInv, PrepInv, ProcInv
  <1> QED BY <1>1, CheckTxType, RecheckTxType, CheckBidType, PrepareProposalFacts, WalkType, LookType,
             FinishLaneFacts, LanePanicsFacts, ProposeFacts, ReceiveFacts, ProcessStepFacts, ProcessPanicsFacts,
             NextRoundFacts, CommitFacts DEF Next

\* Every variable of the node keeps its type, whatever the calls and their order:
\* the mempools stay well-formed through every insertion, removal and reordering,
\* balances stay natural numbers, and no more blocks are executed than proposed.
THEOREM Typed == Spec => []TypeOK
  <1>1. TypeInv => TypeOK
    BY DEF TypeInv, LanesInv, LanesOK, LaneOK, LaneType, PoolOK, ChainInv, PropInv, PrepInv, ProcInv, TypeOK
  <1> QED BY <1>1, TypeInit, TypeStep, PTL DEF Spec

-----------------------------------------------------------------------------
(* The proposal under construction. *)

\* The list passes the ante handler and leaves at least the coins of st.
Backs(txs, st) ==
    LET r == AnteVerifyAll(state, height + 1, txs)
    IN  r.ok /\ Lower(st, r.st)

PrepareInv ==
    /\ phase = "prepare" => /\ Backs(prop.txs, prep.ctx)
                            /\ Backs(prop.txs \o prep.txs, prep.laneCtx)
                            /\ prep.lane = TOBLane /\ prep.it.at # "end" => prep.txs = <<>>
    /\ phase # "prepare" => prop = NewProposal(0)
    /\ prop.total = SumSize(prop.txs) /\ prop.cache = TxSet(prop.txs) /\ prop.total <= prop.max

LEMMA LowerTransitive ==
    ASSUME NEW a \in AccountState, NEW b \in AccountState, NEW c \in AccountState, Lower(a, b), Lower(b, c)
    PROVE  Lower(a, c)
  BY DEF Lower, AccountState

LEMMA BacksNothing ==
    ASSUME TypeInv
    PROVE  Backs(<<>>, state)
  <1>1. state \in AccountState
    BY DEF TypeInv, ChainInv
  <1>2. AnteVerifyAll(state, height + 1, <<>>) = Pass(state) /\ Lower(state, state)
    BY <1>1, VerifyNone, LowerReflexive
  <1> QED BY <1>2 DEF Backs, Pass

\* A list that passes in a store with fewer coins than the proposal leaves passes
\* after the proposal.
LEMMA BacksMore ==
    ASSUME TypeInv, NEW a \in Seq(Txs), NEW b \in Seq(Txs), NEW st \in AccountState, Backs(a, st),
           AnteVerifyAll(st, height + 1, b).ok
    PROVE  Backs(a \o b, AnteVerifyAll(st, height + 1, b).st)
  <1>1. state \in AccountState
    BY DEF TypeInv, ChainInv
  <1>2. PICK h : h = height + 1
    OBVIOUS
  <1>3. PICK r : r = AnteVerifyAll(state, h, a)
    OBVIOUS
  <1>4. r \in Result /\ r.ok /\ Lower(st, r.st)
    BY <1>1, <1>2, <1>3, VerifyType DEF Backs
  <1>5. r.st \in AccountState
    BY <1>4 DEF Result
  <1>6. AnteVerifyAll(r.st, h, b).ok /\ Lower(AnteVerifyAll(st, h, b).st, AnteVerifyAll(r.st, h, b).st)
    BY <1>2, <1>4, <1>5, VerifyLower
  <1>7. AnteVerifyAll(state, h, a \o b) = AnteVerifyAll(r.st, h, b)
    BY <1>1, <1>3, <1>4, VerifyConcat
  <1> QED BY <1>2, <1>6, <1>7 DEF Backs

LEMMA BacksLess ==
    ASSUME TypeInv, NEW a \in Seq(Txs), NEW st \in AccountState, NEW lo \in AccountState, Backs(a, st), Lower(lo, st)
    PROVE  Backs(a, lo)
  <1>1. state \in AccountState
    BY DEF TypeInv, ChainInv
  <1>2. PICK r : r = AnteVerifyAll(state, height + 1, a)
    OBVIOUS
  <1>3. r \in Result /\ r.ok /\ Lower(st, r.st)
    BY <1>1, <1>2, VerifyType DEF Backs
  <1>4. r.st \in AccountState
    BY <1>3 DEF Result
  <1>5. Lower(lo, r.st)
    BY <1>3, <1>4, LowerTransitive
  <1> QED BY <1>2, <1>3, <1>5 DEF Backs

\* The chain does not move while a proposal is prepared.
LEMMA BacksSame ==
    ASSUME UNCHANGED <<state, height>>, NEW txs, NEW st, Backs(txs, st)
    PROVE  Backs(txs, st)'
  BY DEF Backs

LEMMA AppendConcat ==
    ASSUME NEW a \in Seq(Txs), NEW b \in Seq(Txs), NEW t \in Txs
    PROVE  (a \o b) \o <<t>> = a \o Append(b, t)
  <1>1. PICK c : c = (a \o b) \o <<t>>
    OBVIOUS
  <1>2. PICK d : d = a \o Append(b, t)
    OBVIOUS
  <1>3. PICK ab : ab = a \o b
    OBVIOUS
  <1>4. /\ c \in Seq(Txs) /\ d \in Seq(Txs) /\ ab \in Seq(Txs)
        /\ Len(c) = Len(a) + Len(b) + 1 /\ Len(d) = Len(a) + Len(b) + 1
    BY <1>1, <1>2, <1>3
  <1>5. ASSUME NEW i \in 1..Len(c) PROVE c[i] = d[i]
    <2>1. CASE i <= Len(a)
      <3>1. ab[i] = a[i] /\ i <= Len(ab)
        BY <1>3, <2>1
      <3> QED BY <1>1, <1>2, <1>3, <2>1, <3>1
    <2>2. CASE i > Len(a) /\ i <= Len(a) + Len(b)
      <3>1. ab[i] = b[i - Len(a)] /\ i <= Len(ab)
        BY <1>3, <2>2
      <3>2. c[i] = ab[i]
        BY <1>1, <1>3, <3>1
      <3>3. d[i] = Append(b, t)[i - Len(a)]
        BY <1>2, <1>4, <2>2
      <3> QED BY <2>2, <3>1, <3>2, <3>3
    <2>3. CASE i = Len(a) + Len(b) + 1
      <3>1. Len(ab) = Len(a) + Len(b)
        BY <1>3
      <3>2. c[i] = t
        BY <1>1, <1>3, <2>3, <3>1
      <3>3. d[i] = Append(b, t)[Len(b) + 1]
        BY <1>2, <2>3
      <3> QED BY <3>2, <3>3
    <2> QED BY <1>4, <2>1, <2>2, <2>3
  <1>6. c = d
    BY <1>4, <1>5
  <1> QED BY <1>1, <1>2, <1>6

\* A look at a transaction keeps what is selected verified.
LEMMA LookPrepares ==
    ASSUME TypeInv, PrepareInv, NEW tx \in Submitted, Look(tx)
    PROVE  PrepareInv'
  <1>1. /\ TypeInv' /\ prep'.lane = prep.lane /\ prep'.ctx = prep.ctx
        /\ UNCHANGED <<lanes, check, state, height, phase, prop, proc>>
        /\ Looking /\ tx = Current(prep.it) /\ LookOutcome(tx)
    BY LookType
  <1>2. /\ phase = "prepare" /\ prep.lane \in Lanes /\ tx \in Txs /\ prep.it.at = "Tx"
        /\ prep.lane # TOBLane => Content[tx].info = "none"
    <2>1. phase = "prepare" /\ prep.lane \in Lanes /\ tx \in TxsOf(lanes[prep.lane].index)
      BY <1>1, LookingFacts
    <2> QED BY <1>1, <2>1, SubmittedAssumption DEF Looking, TypeInv, LanesInv, LanesOK
  <1>3. /\ Backs(prop.txs, prep.ctx) /\ Backs(prop.txs \o prep.txs, prep.laneCtx)
        /\ prep.lane = TOBLane => prep.txs = <<>>
    BY <1>2 DEF PrepareInv
  <1>4. /\ prop.txs \in Seq(Txs) /\ prep.txs \in Seq(Txs) /\ prep.laneCtx \in AccountState
        /\ prop.txs \o prep.txs \in Seq(Txs)
    BY DEF TypeInv, PropInv, PrepInv
  <1>5. PICK all \in Seq(Txs) : all = prop.txs \o prep.txs
    BY <1>4
  <1>6. PICK h : h = height + 1
    OBVIOUS
  <1>7. PICK r : r = AnteVerifyTx(prep.laneCtx, h, tx)
    OBVIOUS
  <1>8. r \in Result /\ (~r.ok /\ Content[tx].info = "none" => Lower(r.st, prep.laneCtx)) /\ r = Verified(tx)
    <2>1. PICK st \in AccountState : st = prep.laneCtx
      BY <1>4
    <2>2. r = AnteHandler(st, h, tx, NoTopBid) /\ tx \in Txs
      BY <1>2, <1>7, <2>1 DEF AnteVerifyTx
    <2>3. r \in Result /\ (~r.ok /\ Content[tx].info = "none" => Lower(r.st, st))
      BY <2>2, AnteFacts
    <2>4. r = Verified(tx)
      BY <1>6, <1>7 DEF Verified
    <2> QED BY <2>1, <2>3, <2>4
  <1>9. r.st \in AccountState
    BY <1>8 DEF Result
  <1>10. /\ Backs(prop.txs \o prep'.txs, prep'.laneCtx)
         /\ prep.lane = TOBLane /\ prep'.it.at # "end" => prep'.txs = <<>>
    <2>1. CASE prep'.txs = prep.txs /\ prep'.laneCtx = prep.laneCtx
      BY <1>3, <2>1
    <2>2. CASE prep.lane # TOBLane /\ ~Verified(tx).ok /\ prep'.txs = prep.txs /\ prep'.laneCtx = Verified(tx).st
      <3>1. Lower(r.st, prep.laneCtx)
        BY <1>2, <1>8, <2>2
      <3>2. Backs(all, r.st)
        BY <1>3, <1>4, <1>5, <1>9, <3>1, BacksLess
      <3> QED BY <1>5, <1>8, <2>2, <3>2
    <2>3. CASE /\ prep.lane # TOBLane /\ Belongs(tx) /\ Verified(tx).ok
               /\ prep'.txs = Append(prep.txs, tx) /\ prep'.laneCtx = Verified(tx).st
      <3>1. PICK ctx \in AccountState : ctx = prep.laneCtx
        BY <1>4
      <3>2. AnteVerifyAll(ctx, h, <<tx>>) = AnteVerifyTx(ctx, h, tx)
        BY <1>2, VerifyOne
      <3>3. PICK one : one = <<tx>>
        OBVIOUS
      <3>4. AnteVerifyAll(ctx, h, one) = r /\ r.ok /\ one \in Seq(Txs)
        <4>1. one \in Seq(Txs)
          BY <1>2, <3>3
        <4>2. AnteVerifyAll(ctx, h, one) = r
          BY <1>7, <3>1, <3>2, <3>3, Zenon
        <4>3. r.ok
          BY <1>8, <2>3, Zenon
        <4> QED BY <4>1, <4>2, <4>3
      <3>5. Backs(all \o one, r.st)
        BY <1>3, <1>5, <1>6, <3>1, <3>4, BacksMore
      <3>6. all \o one = prop.txs \o Append(prep.txs, tx)
        BY <1>2, <1>4, <1>5, <3>3, AppendConcat
      <3> QED BY <1>8, <2>3, <3>5, <3>6
    <2>4. CASE /\ prep.lane = TOBLane /\ tx.encodes /\ BidVerified(tx).ok /\ prep'.it = NoIterator
               /\ prep'.txs = <<tx>> \o Bundle(tx) /\ prep'.laneCtx = BidVerified(tx).st
      <3>1. PICK part : part = <<tx>> \o Bundle(tx)
        OBVIOUS
      <3>2. part \in Seq(Txs) /\ BidVerified(tx) = AnteVerifyAll(prep.laneCtx, h, part)
        <4>1. Bundle(tx) \in Seq(Txs)
          BY <1>2, ContentFacts
        <4>2. part \in Seq(Txs)
          BY <1>2, <3>1, <4>1
        <4> QED BY <1>6, <3>1, <4>2 DEF BidVerified, VerifyTx
      <3>3. all = prop.txs
        <4>1. PICK p \in Seq(Txs) : p = prop.txs
          BY <1>4
        <4>2. p \o <<>> = p
          OBVIOUS
        <4> QED BY <1>3, <1>5, <2>4, <4>1, <4>2
      <3>4. PICK ctx : ctx = prep.laneCtx
        OBVIOUS
      <3>5. Backs(all \o part, AnteVerifyAll(ctx, h, part).st)
        BY <1>3, <1>4, <1>5, <1>6, <2>4, <3>2, <3>4, BacksMore
      <3>6. prep'.it.at = "end"
        BY <2>4 DEF NoIterator
      <3> QED BY <2>4, <3>1, <3>2, <3>3, <3>4, <3>5, <3>6
    <2> QED BY <1>1, <2>1, <2>2, <2>3, <2>4 DEF LookOutcome
  <1>11. Backs(prop.txs, prep.ctx)' /\ Backs(prop.txs \o prep.txs, prep.laneCtx)'
    BY <1>1, <1>3, <1>10 DEF Backs
  <1> QED BY <1>1, <1>2, <1>10, <1>11 DEF PrepareInv

\* A finished lane's part goes into the proposal, or does not fit.
LEMMA FinishPrepares ==
    ASSUME TypeInv, PrepareInv, FinishLane
    PROVE  PrepareInv'
  <1>1. /\ TypeInv' /\ UNCHANGED <<check, state, height, phase, proc>>
        /\ phase = "prepare" /\ prep.lane \in Lanes /\ prop' = UpdateProposal(prop, prep.lane, prep.txs)
        /\ prep'.lane = prep.lane + 1 /\ prep'.txs = <<>> /\ prep'.laneCtx = prep'.ctx
        /\ prep'.ctx = IF UpdateError(prop, prep.lane, prep.txs) THEN prep.ctx ELSE prep.laneCtx
    BY FinishLaneFacts
  <1>2. /\ Backs(prop.txs, prep.ctx) /\ Backs(prop.txs \o prep.txs, prep.laneCtx)
        /\ prop.total = SumSize(prop.txs) /\ prop.cache = TxSet(prop.txs) /\ prop.total <= prop.max
    BY <1>1 DEF PrepareInv
  <1>3. /\ prop \in [txs: Seq(Txs), cache: SUBSET Txs, total: Nat, max: Nat]
        /\ prop.txs \in Seq(Txs) /\ prep.txs \in Seq(Txs) /\ prop'.txs \in Seq(Txs)
    BY <1>1 DEF TypeInv, PropInv, PrepInv
  <1>4. prep'.lane # TOBLane
    BY <1>1, LanesAssumption DEF Lanes, TOBLane
  <1>5. CASE UpdateError(prop, prep.lane, prep.txs)
    <2>1. prop' = prop /\ prep'.ctx = prep.ctx /\ prep'.laneCtx = prep.ctx
      BY <1>1, <1>5 DEF UpdateProposal
    <2>2. prop'.txs \o prep'.txs = prop.txs
      BY <1>1, <1>3, <2>1
    <2>3. Backs(prop.txs, prep.ctx)' /\ Backs(prop.txs \o prep.txs, prep.laneCtx)'
      BY <1>1, <1>2, <2>1, <2>2 DEF Backs
    <2> QED BY <1>1, <1>2, <1>4, <2>1, <2>3 DEF PrepareInv
  <1>6. CASE ~UpdateError(prop, prep.lane, prep.txs)
    <2>1. PICK all : all = prop.txs \o prep.txs
      OBVIOUS
    <2>2. /\ prop'.txs = all /\ prop'.cache = prop.cache \cup TxSet(prep.txs)
          /\ prop'.total = prop.total + SumSize(prep.txs) /\ prop'.max = prop.max
      BY <1>1, <1>3, <1>6, <2>1 DEF UpdateProposal
    <2>3. SumSize(prep.txs) \in Nat /\ SumSize(prop.txs) \in Nat /\ prop.max \in Nat
      BY <1>3, SumType
    <2>4. prop'.total <= prop'.max
      <3>1. CASE prep.txs = <<>>
        BY <1>2, <2>2, <2>3, <3>1, SumNone
      <3>2. CASE prep.txs # <<>>
        BY <1>2, <1>6, <2>2, <2>3, <3>2 DEF UpdateError
      <3> QED BY <3>1, <3>2
    <2>5. prop'.total = SumSize(all) /\ prop'.cache = TxSet(all)
      BY <1>2, <1>3, <2>1, <2>2, SumConcat, TxSetConcat
    <2>6. prop'.txs \o prep'.txs = all /\ prep'.ctx = prep.laneCtx /\ prep'.laneCtx = prep.laneCtx
      BY <1>1, <1>3, <1>6, <2>2
    <2>7. Backs(prop.txs, prep.ctx)' /\ Backs(prop.txs \o prep.txs, prep.laneCtx)'
      BY <1>1, <1>2, <2>1, <2>2, <2>6 DEF Backs
    <2> QED BY <1>1, <1>4, <2>2, <2>4, <2>5, <2>7 DEF PrepareInv
  <1> QED BY <1>5, <1>6

LEMMA PrepareInit == Init => PrepareInv
  <1>1. TxSet(<<>>) = {}
    BY DEF TxSet
  <1> QED BY <1>1, SumNone DEF Init, PrepareInv, NewProposal

LEMMA PrepareStep == TypeInv /\ PrepareInv /\ [Next]_vars => PrepareInv'
  <1> SUFFICES ASSUME TypeInv, PrepareInv, [Next]_vars PROVE PrepareInv'
    OBVIOUS
  <1>1. TxSet(<<>>) = {}
    BY DEF TxSet
  <1>2. ASSUME NEW m \in Nat PROVE NewProposal(m).total = SumSize(NewProposal(m).txs)
            /\ NewProposal(m).cache = TxSet(NewProposal(m).txs) /\ NewProposal(m).total <= NewProposal(m).max
    BY <1>1, SumNone DEF NewProposal
  <1>3. ASSUME phase # "prepare", phase' # "prepare", prop' = prop PROVE PrepareInv'
    BY <1>3 DEF PrepareInv
  <1>4. ASSUME NEW tx \in Submitted, CheckTx(tx) \/ RecheckTx(tx) \/ CheckBid(tx) PROVE PrepareInv'
    <2>1. phase = "idle" /\ phase' = phase /\ prop' = prop
      BY <1>4 DEF CheckTx, RecheckTx, CheckBid
    <2> QED BY <1>3, <2>1
  <1>5. ASSUME NEW max \in BlockSizes, PrepareProposal(max) PROVE PrepareInv'
    <2>1. /\ UNCHANGED <<check, state, height, proc>> /\ TypeInv'
          /\ phase = "idle" /\ phase' = "prepare" /\ prop' = NewProposal(max) /\ max \in Nat
          /\ prep'.lane = 1 /\ prep'.txs = <<>> /\ prep'.laneCtx = state /\ prep'.ctx = state
      BY <1>5, PrepareProposalFacts
    <2>2. prop'.txs = <<>> /\ prop'.txs \o prep'.txs = <<>>
      BY <2>1 DEF NewProposal
    <2>3. Backs(prop.txs, prep.ctx)' /\ Backs(prop.txs \o prep.txs, prep.laneCtx)'
      BY <2>1, <2>2, BacksNothing DEF Backs
    <2> QED BY <1>2, <2>1, <2>3 DEF PrepareInv
  <1>6. CASE Walk
    <2>1. /\ phase = "prepare" /\ prep.it.at # "end" /\ UNCHANGED <<state, height, phase, prop>>
          /\ prep' = [prep EXCEPT !.it = Advance(Pool, prep.it)]
      BY <1>6 DEF Walk, NothingElse, chain
    <2>2. PICK it : it = Advance(Pool, prep.it)
      OBVIOUS
    <2>3. prep' = [prep EXCEPT !.it = it]
      BY <2>1, <2>2
    <2>4. prep'.txs = prep.txs /\ prep'.laneCtx = prep.laneCtx /\ prep'.ctx = prep.ctx /\ prep'.lane = prep.lane
      BY <2>3 DEF TypeInv, PrepInv
    <2>5. Backs(prop.txs, prep.ctx)' /\ Backs(prop.txs \o prep.txs, prep.laneCtx)'
      BY <2>1, <2>4 DEF PrepareInv, Backs
    <2> QED BY <2>1, <2>4, <2>5 DEF PrepareInv
  <1>7. CASE LanePanics
    <2>1. /\ TypeInv' /\ UNCHANGED <<check, state, height, phase, prop, proc>>
          /\ phase = "prepare" /\ prep.lane \in Lanes
          /\ prep'.lane = prep.lane + 1 /\ prep'.txs = <<>> /\ prep'.laneCtx = prep.ctx /\ prep'.ctx = prep.ctx
      BY <1>7, LanePanicsFacts
    <2>2. prep'.lane # TOBLane /\ prop.txs \in Seq(Txs)
      BY <2>1, LanesAssumption DEF Lanes, TOBLane, TypeInv, PropInv
    <2>3. prop'.txs \o prep'.txs = prop.txs
      BY <2>1, <2>2
    <2>4. Backs(prop.txs, prep.ctx)' /\ Backs(prop.txs \o prep.txs, prep.laneCtx)'
      BY <2>1, <2>3 DEF PrepareInv, Backs
    <2> QED BY <2>1, <2>2, <2>4 DEF PrepareInv
  <1>8. CASE Propose
    <2>1. phase' = "process" /\ prop' = NewProposal(0)
      BY <1>8, ProposeFacts
    <2> QED BY <1>2, <2>1 DEF PrepareInv
  <1>9. CASE ReceiveProposal \/ ProcessLaneStep \/ ProcessPanics
    <2>1. phase # "prepare" /\ phase' # "prepare" /\ prop' = prop
      BY <1>9, ReceiveFacts, ProcessStepFacts, ProcessPanicsFacts DEF ProcessOutcome
    <2> QED BY <1>3, <2>1
  <1>10. CASE NextRound \/ Commit
    <2>1. phase # "prepare" /\ phase' # "prepare" /\ prop' = prop
      BY <1>10, NextRoundFacts, CommitFacts
    <2> QED BY <1>3, <2>1
  <1>11. CASE UNCHANGED vars
    <2>1. UNCHANGED <<phase, prop, prep, state, height>>
      BY <1>11 DEF vars
    <2> QED BY <2>1 DEF PrepareInv, Backs
  <1> QED BY <1>4, <1>5, <1>6, <1>7, <1>8, <1>9, <1>10, <1>11, LookPrepares, FinishPrepares DEF Next

\* Whatever lanes have failed, panicked, deducted fees for or rejected on the way,
\* what has been selected so far passes the ante handler in its order from the
\* committed state: ChainPrepareLanes never proposes a block that fails.
THEOREM Prepared == Spec => []ProposalVerified
  <1>1. PrepareInv => ProposalVerified
    BY DEF PrepareInv, Backs, ProposalVerified
  <1> QED BY <1>1, TypeInit, TypeStep, PrepareInit, PrepareStep, PTL DEF Spec

\* A proposal's total and cache are those of its transactions, none of which it
\* holds twice, and it never outgrows the block. No transaction is held twice
\* because none passes the ante handler twice.
THEOREM Consistent == Spec => []ProposalConsistent
  <1>1. TypeInv /\ PrepareInv => ProposalConsistent
    <2> SUFFICES ASSUME TypeInv, PrepareInv PROVE ProposalConsistent
      OBVIOUS
    <2>1. state \in AccountState /\ prop.txs \in Seq(Txs)
      BY DEF TypeInv, ChainInv, PropInv
    <2>2. AnteVerifyAll(state, height + 1, prop.txs).ok
      <3>1. CASE phase = "prepare"
        BY <3>1 DEF PrepareInv, Backs
      <3>2. CASE phase # "prepare"
        <4>1. prop.txs = <<>>
          BY <3>2 DEF PrepareInv, NewProposal
        <4> QED BY <4>1, BacksNothing DEF Backs
      <3> QED BY <3>1, <3>2
    <2>3. PICK txs \in Seq(Txs) : txs = prop.txs
      BY <2>1
    <2>4. Cardinality(TxSet(txs)) = Len(txs)
      BY <2>1, <2>2, <2>3, VerifyDistinct, DistinctCount
    <2> QED BY <2>3, <2>4 DEF PrepareInv, ProposalConsistent
  <1> QED BY <1>1, TypeInit, TypeStep, PrepareInit, PrepareStep, PTL DEF Spec

-----------------------------------------------------------------------------
(* The layout of a block. *)

\* The auction lane's share of a block, and its rules.
Share(txs) == IF txs # <<>> /\ IsBid(txs[1]) THEN Len(Bundle(txs[1])) + 1 ELSE 0
BidLaid(txs) ==
    /\ \A i \in 2..Len(txs) : ~IsBid(txs[i])
    /\ Share(txs) <= Len(txs)
    /\ \A i \in 2..Share(txs) : txs[i] = Bundle(txs[1])[i - 1]

\* Up to k the lanes stand one after the other, and their fees descend.
LanesOrdered(txs, k) ==
    \A i \in (Share(txs) + 2)..k : LaneOf(txs[i - 1]) <= LaneOf(txs[i])
FeesOrdered(txs, k) ==
    \A i \in (Share(txs) + 2)..k :
        LaneOf(txs[i - 1]) = LaneOf(txs[i]) => txs[i - 1].priority >= txs[i].priority

LEMMA ShareType ==
    ASSUME NEW txs \in Seq(Txs)
    PROVE  /\ Share(txs) \in Nat
           /\ txs # <<>> => txs[1] \in Txs /\ Bundle(txs[1]) \in Seq(Txs) /\ Len(Bundle(txs[1])) \in Nat
  <1>1. ASSUME txs # <<>> PROVE txs[1] \in Txs
    BY <1>1
  <1>2. ASSUME txs # <<>> PROVE Bundle(txs[1]) \in Seq(Txs)
    BY <1>1, <1>2, ContentFacts
  <1>3. ASSUME txs # <<>> PROVE Len(Bundle(txs[1])) \in Nat
    BY <1>2, <1>3
  <1>4. Share(txs) \in Nat
    BY <1>3 DEF Share
  <1> QED BY <1>1, <1>2, <1>3, <1>4

\* The transactions after the auction lane's share.
LEMMA AfterFacts ==
    ASSUME NEW txs \in Seq(Txs), Share(txs) <= Len(txs), NEW rest, rest = AfterAuction(txs)
    PROVE  /\ Len(rest) = Len(txs) - Share(txs)
           /\ \A i \in 1..Len(rest) : rest[i] = txs[Share(txs) + i]
  <1>1. CASE txs # <<>> /\ IsBid(txs[1])
    <2>1. PICK n : n = Len(Bundle(txs[1]))
      OBVIOUS
    <2>2. n \in Nat /\ Share(txs) = n + 1 /\ n + 1 <= Len(txs) /\ rest = SubSeq(txs, n + 2, Len(txs))
      BY <1>1, <2>1, ShareType DEF Share, AfterAuction
    <2>3. /\ Len(SubSeq(txs, (n + 1) + 1, Len(txs))) = Len(txs) - (n + 1)
          /\ \A i \in 1..(Len(txs) - (n + 1)) : SubSeq(txs, (n + 1) + 1, Len(txs))[i] = txs[(n + 1) + i]
      <3>1. PICK m \in Nat : m = n + 1
        BY <2>2
      <3>2. m <= Len(txs) /\ Len(txs) \in Nat
        BY <2>2, <3>1
      <3>3. /\ Len(SubSeq(txs, m + 1, Len(txs))) = Len(txs) - m
            /\ \A i \in 1..(Len(txs) - m) : SubSeq(txs, m + 1, Len(txs))[i] = txs[m + i]
        BY <3>2, SubSeqFacts
      <3> QED BY <3>1, <3>3
    <2>4. (n + 1) + 1 = n + 2
      BY <2>2
    <2> QED BY <2>2, <2>3, <2>4
  <1>2. CASE ~(txs # <<>> /\ IsBid(txs[1]))
    <2>1. Share(txs) = 0 /\ rest = txs
      BY <1>2 DEF Share, AfterAuction
    <2> QED BY <2>1
  <1> QED BY <1>1, <1>2

\* Positions after the share, and positions in the rest.
LEMMA AfterPairs ==
    ASSUME NEW s \in Nat, NEW len \in Nat, s <= len
    PROVE  /\ \A i \in 2..(len - s) : s + i \in (s + 2)..len /\ (s + i) - 1 = s + (i - 1) /\ i - 1 \in 1..(len - s) /\ i \in 1..(len - s)
           /\ \A j \in (s + 2)..len : /\ j - s \in 2..(len - s) /\ s + (j - s) = j /\ s + ((j - s) - 1) = j - 1
                                      /\ j - s \in 1..(len - s) /\ (j - s) - 1 \in 1..(len - s)
  OBVIOUS

\* LaidOut and FeesDescend, position by position.
LEMMA LayoutFacts ==
    ASSUME NEW txs \in Seq(Txs)
    PROVE  /\ LaidOut(txs) <=> BidLaid(txs) /\ LanesOrdered(txs, Len(txs))
           /\ BidLaid(txs) => (FeesDescend(txs) <=> FeesOrdered(txs, Len(txs)))
  <1>1. PICK s : s = Share(txs)
    OBVIOUS
  <1>2. PICK rest : rest = AfterAuction(txs)
    OBVIOUS
  <1>3. PICK n : n = Len(Bundle(txs[1]))
    OBVIOUS
  <1>4. PICK len : len = Len(txs)
    OBVIOUS
  <1>5. s \in Nat /\ len \in Nat
    BY <1>1, <1>4, ShareType
  <1>6. ASSUME s <= len
        PROVE  /\ (\A i \in 2..Len(rest) : LaneOf(rest[i - 1]) <= LaneOf(rest[i])) <=> LanesOrdered(txs, len)
               /\ FeesDescend(txs) <=> FeesOrdered(txs, len)
    <2>1. Len(rest) = len - s /\ \A i \in 1..(len - s) : rest[i] = txs[s + i]
      BY <1>1, <1>2, <1>4, <1>6, AfterFacts
    <2>2. /\ \A i \in 2..(len - s) : s + i \in (s + 2)..len /\ (s + i) - 1 = s + (i - 1) /\ i - 1 \in 1..(len - s) /\ i \in 1..(len - s)
          /\ \A j \in (s + 2)..len : /\ j - s \in 2..(len - s) /\ s + (j - s) = j /\ s + ((j - s) - 1) = j - 1
                                     /\ j - s \in 1..(len - s) /\ (j - s) - 1 \in 1..(len - s)
      BY <1>5, <1>6, AfterPairs
    <2>3. \A i \in 2..(len - s) : rest[i - 1] = txs[(s + i) - 1] /\ rest[i] = txs[s + i]
      BY <2>1, <2>2
    <2>4. \A j \in (s + 2)..len : rest[(j - s) - 1] = txs[j - 1] /\ rest[j - s] = txs[j]
      <3> SUFFICES ASSUME NEW j \in (s + 2)..len PROVE rest[(j - s) - 1] = txs[j - 1] /\ rest[j - s] = txs[j]
        OBVIOUS
      <3>1. rest[j - s] = txs[s + (j - s)] /\ rest[(j - s) - 1] = txs[s + ((j - s) - 1)]
        BY <2>1, <2>2
      <3>2. s + (j - s) = j /\ s + ((j - s) - 1) = j - 1
        BY <2>2
      <3> QED BY <3>1, <3>2
    <2>5. (\A i \in 2..Len(rest) : LaneOf(rest[i - 1]) <= LaneOf(rest[i])) <=> LanesOrdered(txs, len)
      <3>1. ASSUME \A i \in 2..Len(rest) : LaneOf(rest[i - 1]) <= LaneOf(rest[i]) PROVE LanesOrdered(txs, len)
        BY <1>1, <2>1, <2>2, <2>4, <3>1 DEF LanesOrdered
      <3>2. ASSUME LanesOrdered(txs, len) PROVE \A i \in 2..Len(rest) : LaneOf(rest[i - 1]) <= LaneOf(rest[i])
        BY <1>1, <2>1, <2>2, <2>3, <3>2 DEF LanesOrdered
      <3> QED BY <3>1, <3>2
    <2>6. FeesDescend(txs) <=> FeesOrdered(txs, len)
      <3>1. FeesDescend(txs) <=> \A i \in 2..Len(rest) :
                LaneOf(rest[i - 1]) = LaneOf(rest[i]) => rest[i - 1].priority >= rest[i].priority
        BY <1>2 DEF FeesDescend
      <3>2. ASSUME FeesDescend(txs) PROVE FeesOrdered(txs, len)
        <4>1. ASSUME NEW j \in (s + 2)..len
              PROVE  LaneOf(txs[j - 1]) = LaneOf(txs[j]) => txs[j - 1].priority >= txs[j].priority
          <5>1. j - s \in 2..Len(rest) /\ rest[(j - s) - 1] = txs[j - 1] /\ rest[j - s] = txs[j]
            BY <2>1, <2>2, <2>4, <4>1
          <5>2. PICK i \in 2..Len(rest) : i = j - s
            BY <5>1
          <5>3. LaneOf(rest[i - 1]) = LaneOf(rest[i]) => rest[i - 1].priority >= rest[i].priority
            BY <3>1, <3>2, <5>2
          <5>4. rest[i - 1] = txs[j - 1] /\ rest[i] = txs[j]
            BY <5>1, <5>2
          <5> QED BY <5>3, <5>4
        <4> QED BY <1>1, <4>1 DEF FeesOrdered
      <3>3. ASSUME FeesOrdered(txs, len) PROVE FeesDescend(txs)
        <4>1. ASSUME NEW i \in 2..Len(rest)
              PROVE  LaneOf(rest[i - 1]) = LaneOf(rest[i]) => rest[i - 1].priority >= rest[i].priority
          <5>1. s + i \in (s + 2)..len /\ rest[i - 1] = txs[(s + i) - 1] /\ rest[i] = txs[s + i]
            BY <2>1, <2>2, <2>3, <4>1
          <5>2. PICK j \in (s + 2)..len : j = s + i
            BY <5>1
          <5>3. LaneOf(txs[j - 1]) = LaneOf(txs[j]) => txs[j - 1].priority >= txs[j].priority
            BY <1>1, <3>3, <5>2 DEF FeesOrdered
          <5>4. rest[i - 1] = txs[j - 1] /\ rest[i] = txs[j]
            BY <5>1, <5>2
          <5> QED BY <5>3, <5>4
        <4> QED BY <3>1, <4>1
      <3> QED BY <3>2, <3>3
    <2> QED BY <2>5, <2>6
  <1>7. BidLaid(txs) => s <= len
    BY <1>1, <1>4 DEF BidLaid
  <1>8. CASE txs # <<>> /\ IsBid(txs[1])
    <2>1. s = n + 1 /\ n \in Nat /\ txs[1] \in Txs /\ Bundle(txs[1]) \in Seq(Txs)
      BY <1>1, <1>3, <1>8, ShareType DEF Share
    <2>2. LaidOut(txs) <=> /\ \A i \in 2..len : ~IsBid(txs[i])
                           /\ len > n /\ Bundle(txs[1]) = SubSeq(txs, 2, n + 1)
                           /\ \A i \in 2..Len(rest) : LaneOf(rest[i - 1]) <= LaneOf(rest[i])
      BY <1>2, <1>3, <1>4, <1>8 DEF LaidOut
    <2>3. len > n <=> s <= len
      BY <1>5, <2>1
    <2>4. ASSUME s <= len PROVE Bundle(txs[1]) = SubSeq(txs, 2, n + 1) <=> \A i \in 2..s : txs[i] = Bundle(txs[1])[i - 1]
      <3>1. PICK b \in Seq(Txs) : b = Bundle(txs[1])
        BY <2>1
      <3>2. PICK q : q = SubSeq(txs, 2, n + 1)
        OBVIOUS
      <3>3. q \in Seq(Txs) /\ Len(q) = n /\ \A i \in 1..n : q[i] = txs[1 + i]
        <4>1. 1 \in Nat /\ n + 1 \in Nat /\ 1 <= Len(txs) /\ n + 1 <= Len(txs) /\ 1 <= n + 1 /\ 1 + 1 = 2 /\ (n + 1) - 1 = n
          BY <1>4, <1>5, <2>1, <2>4
        <4>2. PICK m \in Nat : m = n + 1
          BY <4>1
        <4>3. /\ SubSeq(txs, 1 + 1, m) \in Seq(Txs) /\ Len(SubSeq(txs, 1 + 1, m)) = m - 1
              /\ \A i \in 1..(m - 1) : SubSeq(txs, 1 + 1, m)[i] = txs[1 + i]
          BY <4>1, <4>2, SubSeqFacts
        <4> QED BY <3>2, <4>1, <4>2, <4>3
      <3>4. Len(b) = n
        BY <1>3, <3>1
      <3>5. b = q <=> \A i \in 1..n : b[i] = txs[1 + i]
        BY <3>3, <3>4
      <3>6. (\A i \in 1..n : b[i] = txs[1 + i]) <=> \A i \in 2..s : txs[i] = b[i - 1]
        <4>1. \A i \in 1..n : 1 + i \in 2..s /\ (1 + i) - 1 = i
          BY <2>1
        <4>2. \A i \in 2..s : i - 1 \in 1..n /\ 1 + (i - 1) = i
          BY <2>1
        <4> QED BY <4>1, <4>2
      <3> QED BY <3>1, <3>2, <3>5, <3>6
    <2>5. BidLaid(txs) <=> (\A i \in 2..len : ~IsBid(txs[i])) /\ s <= len /\ \A i \in 2..s : txs[i] = Bundle(txs[1])[i - 1]
      BY <1>1, <1>4 DEF BidLaid
    <2> QED BY <1>4, <1>6, <1>7, <2>2, <2>3, <2>4, <2>5
  <1>9. CASE ~(txs # <<>> /\ IsBid(txs[1]))
    <2>1. s = 0 /\ s <= len
      BY <1>1, <1>5, <1>9 DEF Share
    <2>2. LaidOut(txs) <=> /\ \A i \in 2..len : ~IsBid(txs[i])
                           /\ \A i \in 2..Len(rest) : LaneOf(rest[i - 1]) <= LaneOf(rest[i])
      BY <1>2, <1>4, <1>9 DEF LaidOut
    <2>3. BidLaid(txs) <=> \A i \in 2..len : ~IsBid(txs[i])
      BY <1>1, <1>4, <2>1 DEF BidLaid
    <2> QED BY <1>4, <1>6, <2>1, <2>2, <2>3
  <1> QED BY <1>8, <1>9

\* Lanes that never go back never go back over several transactions.
LEMMA LanesMonotone ==
    ASSUME Mutex, EveryTxWanted, NEW txs \in Seq(Txs), LanesOrdered(txs, Len(txs)),
           NEW a \in Nat, a > Share(txs), NEW b \in Nat, a <= b, b <= Len(txs)
    PROVE  LaneOf(txs[a]) <= LaneOf(txs[b])
  <1>1. Share(txs) \in Nat /\ Len(txs) \in Nat
    BY ShareType
  <1>2. PICK n \in Nat : n = b - a
    OBVIOUS
  <1> DEFINE S == {d \in 0..n : LaneOf(txs[a]) <= LaneOf(txs[a + d])}
  <1>3. \A i \in a..b : txs[i] \in Txs /\ LaneOf(txs[i]) \in Nat
    <2>1. \A i \in a..b : txs[i] \in Txs
      BY <1>1
    <2> QED BY <2>1, LaneOfFacts, LanesAssumption DEF Lanes
  <1>4. 0 \in S
    <2>1. a + 0 = a /\ a \in a..b /\ 0 \in 0..n
      BY <1>2
    <2>2. LaneOf(txs[a]) <= LaneOf(txs[a])
      BY <1>3, <2>1
    <2> QED BY <2>1, <2>2
  <1>5. ASSUME NEW d \in 1..n, d - 1 \in S PROVE d \in S
    <2>1. /\ a + d \in (Share(txs) + 2)..Len(txs) /\ (a + d) - 1 = a + (d - 1) /\ d \in 0..n
          /\ a \in a..b /\ a + d \in a..b /\ a + (d - 1) \in a..b
      BY <1>1, <1>2
    <2>2. LaneOf(txs[a + (d - 1)]) <= LaneOf(txs[a + d])
      BY <2>1 DEF LanesOrdered
    <2>3. LaneOf(txs[a]) \in Nat /\ LaneOf(txs[a + d]) \in Nat /\ LaneOf(txs[a + (d - 1)]) \in Nat
      BY <1>3, <2>1
    <2>4. LaneOf(txs[a]) <= LaneOf(txs[a + (d - 1)])
      BY <1>5
    <2>5. LaneOf(txs[a]) <= LaneOf(txs[a + d])
      BY <2>2, <2>3, <2>4
    <2> QED BY <2>1, <2>5
  <1>6. \A d \in 0..n : d \in S
    <2> HIDE DEF S
    <2> QED BY <1>4, <1>5, IntervalInduction
  <1>7. n \in 0..n /\ a + n = b
    BY <1>2
  <1> QED BY <1>6, <1>7

\* What the lanes before l have found out about a block when the first k of its
\* transactions are theirs: it decodes, its first k are in order, and none of the
\* others is theirs.
Reached(txs, l, k) ==
    /\ \A i \in 1..Len(txs) : txs[i].encodes
    /\ BidLaid(txs) /\ Share(txs) <= k
    /\ LanesOrdered(txs, k) /\ FeesOrdered(txs, k)
    /\ \A i \in (Share(txs) + 1)..k : LaneOf(txs[i]) < l
    /\ \A i \in (k + 1)..Len(txs) : LaneOf(txs[i]) >= l

\* Prefixes and equality of lists.
LEMMA PrefixFacts ==
    ASSUME NEW txs \in Seq(Txs), NEW n \in 0..Len(txs), NEW p, p = SubSeq(txs, 1, n)
    PROVE  p \in Seq(Txs) /\ Len(p) = n /\ \A i \in 1..n : p[i] = txs[i]
  OBVIOUS

LEMMA SameSeq ==
    ASSUME NEW a \in Seq(Txs), NEW b \in Seq(Txs), Len(a) = Len(b), \A i \in 1..Len(a) : a[i] = b[i]
    PROVE  a = b
  OBVIOUS

\* A block, what is left of it after k transactions, and after n more.
LEMMA SplitFacts ==
    ASSUME NEW txs \in Seq(Txs), NEW k \in 0..Len(txs), NEW rest, rest = SubSeq(txs, k + 1, Len(txs))
    PROVE  /\ rest \in Seq(Txs) /\ Len(rest) = Len(txs) - k
           /\ \A i \in 1..Len(rest) : rest[i] = txs[k + i]
           /\ \A n \in 0..Len(rest) :
                 /\ k + n \in 0..Len(txs)
                 /\ SubSeq(rest, n + 1, Len(rest)) = SubSeq(txs, (k + n) + 1, Len(txs))
                 /\ SubSeq(txs, 1, k) \in Seq(Txs) /\ SubSeq(rest, 1, n) \in Seq(Txs)
                 /\ SubSeq(txs, 1, k) \o SubSeq(rest, 1, n) = SubSeq(txs, 1, k + n)
  <1>1. k \in Nat /\ Len(txs) \in Nat /\ k <= Len(txs)
    OBVIOUS
  <1>2. rest \in Seq(Txs) /\ Len(rest) = Len(txs) - k /\ \A i \in 1..Len(rest) : rest[i] = txs[k + i]
    BY <1>1, SubSeqFacts
  <1>3. ASSUME NEW n \in 0..Len(rest)
        PROVE  /\ k + n \in 0..Len(txs)
               /\ SubSeq(rest, n + 1, Len(rest)) = SubSeq(txs, (k + n) + 1, Len(txs))
               /\ SubSeq(txs, 1, k) \in Seq(Txs) /\ SubSeq(rest, 1, n) \in Seq(Txs)
               /\ SubSeq(txs, 1, k) \o SubSeq(rest, 1, n) = SubSeq(txs, 1, k + n)
    <2>1. n \in Nat /\ n <= Len(rest) /\ Len(rest) \in Nat /\ k + n \in Nat /\ k + n <= Len(txs)
      BY <1>1, <1>2
    <2>2. PICK m \in 0..Len(txs) : m = k + n
      BY <1>1, <2>1
    <2>3. SubSeq(rest, n + 1, Len(rest)) = SubSeq(txs, m + 1, Len(txs))
      <3>1. PICK a : a = SubSeq(rest, n + 1, Len(rest))
        OBVIOUS
      <3>2. PICK b : b = SubSeq(txs, m + 1, Len(txs))
        OBVIOUS
      <3>3. a \in Seq(Txs) /\ Len(a) = Len(rest) - n /\ \A i \in 1..(Len(rest) - n) : a[i] = rest[n + i]
        BY <1>2, <2>1, <3>1, SubSeqFacts
      <3>4. b \in Seq(Txs) /\ Len(b) = Len(txs) - m /\ \A i \in 1..(Len(txs) - m) : b[i] = txs[m + i]
        <4>1. m \in Nat /\ m <= Len(txs)
          BY <1>1
        <4> QED BY <1>1, <3>2, <4>1, SubSeqFacts
      <3>5. Len(a) = Len(b) /\ \A i \in 1..Len(a) : a[i] = b[i]
        <4>1. Len(rest) - n = Len(txs) - m
          BY <1>1, <1>2, <2>1, <2>2
        <4>2. ASSUME NEW i \in 1..Len(a) PROVE a[i] = b[i]
          <5>1. i \in 1..(Len(rest) - n) /\ i \in 1..(Len(txs) - m) /\ n + i \in 1..Len(rest) /\ k + (n + i) = m + i
            BY <1>1, <1>2, <2>1, <2>2, <3>3, <4>1
          <5>2. a[i] = rest[n + i] /\ b[i] = txs[m + i] /\ rest[n + i] = txs[k + (n + i)]
            BY <1>2, <3>3, <3>4, <5>1
          <5> QED BY <5>1, <5>2
        <4> QED BY <3>3, <3>4, <4>1, <4>2
      <3>6. a = b
        BY <3>3, <3>4, <3>5, SameSeq
      <3> QED BY <3>1, <3>2, <3>6
    <2>4. PICK a : a = SubSeq(txs, 1, k)
      OBVIOUS
    <2>5. PICK b : b = SubSeq(rest, 1, n)
      OBVIOUS
    <2>6. PICK c : c = SubSeq(txs, 1, m)
      OBVIOUS
    <2>7. a \in Seq(Txs) /\ Len(a) = k /\ \A i \in 1..k : a[i] = txs[i]
      BY <2>4, PrefixFacts
    <2>8. b \in Seq(Txs) /\ Len(b) = n /\ \A i \in 1..n : b[i] = rest[i]
      BY <1>2, <2>5, PrefixFacts
    <2>9. c \in Seq(Txs) /\ Len(c) = m /\ \A i \in 1..m : c[i] = txs[i]
      BY <2>6, PrefixFacts
    <2>10. PICK d : d = a \o b
      OBVIOUS
    <2>11. /\ d \in Seq(Txs) /\ Len(d) = k + n
           /\ \A i \in 1..k : d[i] = a[i]
           /\ \A i \in 1..n : d[k + i] = b[i]
      <3>1. Len(a) = k /\ Len(b) = n
        BY <2>7, <2>8
      <3>2. a \in Seq(Txs) /\ b \in Seq(Txs)
        BY <2>7, <2>8
      <3>3. /\ d \in Seq(Txs) /\ Len(d) = Len(a) + Len(b)
            /\ \A i \in 1..Len(a) : d[i] = a[i]
            /\ \A i \in 1..Len(b) : d[Len(a) + i] = b[i]
        BY <2>10, <3>2
      <3> QED BY <3>1, <3>3
    <2>12. \A i \in 1..m : d[i] = c[i]
      <3> SUFFICES ASSUME NEW i \in 1..m PROVE d[i] = c[i]
        OBVIOUS
      <3>1. c[i] = txs[i]
        BY <2>9
      <3>2. CASE i <= k
        <4>1. i \in 1..k
          BY <1>1, <2>1, <3>2
        <4> QED BY <2>7, <2>11, <3>1, <4>1
      <3>3. CASE i > k
        <4>1. PICK j \in 1..n : i = k + j
          <5>1. i - k \in 1..n /\ k + (i - k) = i
            BY <1>1, <2>1, <2>2, <3>3
          <5> QED BY <5>1
        <4>2. d[k + j] = b[j] /\ b[j] = rest[j] /\ rest[j] = txs[k + j]
          BY <1>2, <2>1, <2>8, <2>11, <4>1
        <4> QED BY <3>1, <4>1, <4>2
      <3> QED BY <1>1, <3>2, <3>3
    <2>13. d = c
      <3>1. Len(d) = m
        BY <2>2, <2>11
      <3> QED BY <2>9, <2>11, <2>12, <3>1, SameSeq
    <2>14. a \o b = c
      BY <2>10, <2>13
    <2> QED BY <2>2, <2>3, <2>4, <2>5, <2>6, <2>7, <2>8, <2>14
  <1> QED BY <1>2, <1>3
\* The auction lane finds in order just the blocks whose bid is laid out, and takes
\* its share of them.
LEMMA AuctionTurn ==
    ASSUME NEW txs \in Seq(Txs), txs # <<>>
    PROVE  /\ AuctionCheckOrder(txs) <=> BidLaid(txs)
           /\ LaneShare(TOBLane, txs) = Share(txs)
  <1>1. PICK n : n = Len(Bundle(txs[1]))
    OBVIOUS
  <1>2. PICK b : b = Bundle(txs[1])
    OBVIOUS
  <1>3. n \in Nat /\ Len(txs) \in Nat /\ Len(txs) >= 1 /\ \A i \in 1..Len(txs) : txs[i] \in Txs
    BY <1>1, ShareType
  <1>4. \A i \in 1..Len(txs) : Match(TOBLane, txs[i]) <=> IsBid(txs[i])
    BY <1>3, BidsMatch
  <1>5. Match(TOBLane, txs[1]) <=> IsBid(txs[1])
    BY <1>3, <1>4
  <1>6. CASE ~IsBid(txs[1])
    <2>1. Share(txs) = 0 /\ LaneShare(TOBLane, txs) = 0
      BY <1>5, <1>6 DEF Share, LaneShare
    <2>2. AuctionCheckOrder(txs) <=> \A i \in 2..Len(txs) : ~Match(TOBLane, txs[i])
      BY <1>5, <1>6 DEF AuctionCheckOrder
    <2>3. BidLaid(txs) <=> \A i \in 2..Len(txs) : ~IsBid(txs[i])
      BY <1>3, <2>1 DEF BidLaid
    <2>4. \A i \in 2..Len(txs) : Match(TOBLane, txs[i]) <=> IsBid(txs[i])
      BY <1>3, <1>4
    <2> QED BY <2>1, <2>2, <2>3, <2>4
  <1>7. CASE IsBid(txs[1])
    <2>1. Share(txs) = n + 1 /\ LaneShare(TOBLane, txs) = 1 + n
      BY <1>1, <1>5, <1>7 DEF Share, LaneShare
    <2>2. AuctionCheckOrder(txs) <=>
              /\ Len(txs) >= n + 1
              /\ \A i \in 1..n : ~Match(TOBLane, txs[i + 1]) /\ txs[i + 1] = b[i]
              /\ \A i \in (n + 2)..Len(txs) : ~Match(TOBLane, txs[i])
      BY <1>1, <1>2, <1>5, <1>7 DEF AuctionCheckOrder
    <2>3. BidLaid(txs) <=>
              /\ \A i \in 2..Len(txs) : ~IsBid(txs[i])
              /\ n + 1 <= Len(txs)
              /\ \A i \in 2..(n + 1) : txs[i] = b[i - 1]
      BY <1>2, <2>1 DEF BidLaid
    <2>4. ASSUME AuctionCheckOrder(txs) PROVE BidLaid(txs)
      <3>1. n + 1 <= Len(txs)
        BY <1>3, <2>2, <2>4
      <3>2. ASSUME NEW i \in 2..Len(txs) PROVE ~IsBid(txs[i])
        <4>1. CASE i <= n + 1
          <5>1. PICK j \in 1..n : i = j + 1
            <6>1. i - 1 \in 1..n /\ i = (i - 1) + 1
              BY <1>3, <4>1
            <6> QED BY <6>1
          <5>2. ~Match(TOBLane, txs[j + 1])
            BY <2>2, <2>4
          <5> QED BY <1>3, <1>4, <5>1, <5>2
        <4>2. CASE i > n + 1
          <5>1. i \in (n + 2)..Len(txs) /\ i \in 1..Len(txs)
            BY <1>3, <4>2
          <5> QED BY <1>4, <2>2, <2>4, <5>1
        <4> QED BY <1>3, <4>1, <4>2
      <3>3. ASSUME NEW i \in 2..(n + 1) PROVE txs[i] = b[i - 1]
        <4>1. i - 1 \in 1..n /\ (i - 1) + 1 = i
          BY <1>3
        <4>2. txs[(i - 1) + 1] = b[i - 1]
          BY <2>2, <2>4, <4>1
        <4> QED BY <4>1, <4>2
      <3> QED BY <2>3, <3>1, <3>2, <3>3
    <2>5. ASSUME BidLaid(txs) PROVE AuctionCheckOrder(txs)
      <3>1. Len(txs) >= n + 1
        BY <1>3, <2>3, <2>5
      <3>2. ASSUME NEW i \in 1..n PROVE ~Match(TOBLane, txs[i + 1]) /\ txs[i + 1] = b[i]
        <4>1. i + 1 \in 2..(n + 1) /\ (i + 1) - 1 = i /\ i + 1 \in 2..Len(txs) /\ i + 1 \in 1..Len(txs)
          BY <1>3, <3>1
        <4>2. ~IsBid(txs[i + 1]) /\ txs[i + 1] = b[(i + 1) - 1]
          BY <2>3, <2>5, <4>1
        <4> QED BY <1>4, <4>1, <4>2
      <3>3. ASSUME NEW i \in (n + 2)..Len(txs) PROVE ~Match(TOBLane, txs[i])
        <4>1. i \in 2..Len(txs) /\ i \in 1..Len(txs)
          BY <1>3
        <4> QED BY <1>4, <2>3, <2>5, <4>1
      <3> QED BY <2>2, <3>1, <3>2, <3>3
    <2>6. n + 1 = 1 + n
      BY <1>3
    <2> QED BY <2>1, <2>4, <2>5, <2>6
  <1> QED BY <1>6, <1>7

\* After the auction lane's turn.
LEMMA AuctionReached ==
    ASSUME Mutex, EveryTxWanted, NEW txs \in Seq(Txs), BidLaid(txs), \A i \in 1..Len(txs) : txs[i].encodes
    PROVE  Reached(txs, TOBLane + 1, Share(txs))
  <1>1. PICK s : s = Share(txs)
    OBVIOUS
  <1>2. s \in Nat /\ Len(txs) \in Nat /\ s <= Len(txs)
    BY <1>1, ShareType DEF BidLaid
  <1>3. LanesOrdered(txs, s) /\ FeesOrdered(txs, s)
    <2>1. (s + 2)..s = {}
      BY <1>2
    <2> QED BY <1>1, <2>1 DEF LanesOrdered, FeesOrdered
  <1>4. (s + 1)..s = {}
    BY <1>2
  <1>5. ASSUME NEW i \in (s + 1)..Len(txs) PROVE LaneOf(txs[i]) >= TOBLane + 1
    <2>1. i \in 1..Len(txs) /\ txs[i] \in Txs /\ txs # <<>>
      BY <1>2
    <2>2. ~IsBid(txs[i])
      <3>1. CASE i = 1
        <4>1. s = 0
          BY <1>2, <3>1
        <4>2. txs[1] \in Txs /\ Len(Bundle(txs[1])) \in Nat
          BY <2>1, ShareType
        <4> QED BY <1>1, <2>1, <3>1, <4>1, <4>2 DEF Share
      <3>2. CASE i # 1
        <4>1. i \in 2..Len(txs)
          BY <2>1, <3>2
        <4> QED BY <4>1 DEF BidLaid
      <3> QED BY <3>1, <3>2
    <2>3. ~Match(TOBLane, txs[i]) /\ TOBLane \in Lanes
      BY <2>1, <2>2, BidsMatch
    <2>4. LaneOf(txs[i]) # TOBLane /\ LaneOf(txs[i]) \in Lanes
      BY <2>1, <2>3, LaneOfFacts
    <2> QED BY <2>4, LanesAssumption DEF Lanes, TOBLane
  <1> QED BY <1>1, <1>2, <1>3, <1>4, <1>5 DEF Reached
\* After the turn of another lane that found the rest in order.
LEMMA LaneReached ==
    ASSUME Mutex, EveryTxWanted, NEW txs \in Seq(Txs), NEW l \in Lanes, l # TOBLane,
           NEW k \in 0..Len(txs), Reached(txs, l, k),
           NEW rest, rest = SubSeq(txs, k + 1, Len(txs)), DefaultCheckOrder(l, rest),
           NEW n, n = LaneShare(l, rest)
    PROVE  n \in 0..Len(rest) /\ Reached(txs, l + 1, k + n)
  <1>1. PICK s : s = Share(txs)
    OBVIOUS
  <1>2. s \in Nat /\ s <= k /\ k \in Nat /\ k <= Len(txs) /\ Len(txs) \in Nat /\ l \in Nat
    BY <1>1, ShareType, LanesAssumption DEF Reached, Lanes
  <1>3. rest \in Seq(Txs) /\ Len(rest) = Len(txs) - k /\ \A i \in 1..Len(rest) : rest[i] = txs[k + i]
    BY SplitFacts
  <1>4. /\ n \in 0..Len(rest) /\ \A i \in 1..n : Match(l, rest[i])
        /\ n < Len(rest) => ~Match(l, rest[n + 1])
    <2>1. PICK q \in Seq(Txs) : q = rest
      BY <1>3
    <2> QED BY <2>1, LaneShareTaken
  <1>5. n \in Nat /\ n <= Len(rest) /\ Len(rest) \in Nat /\ k + n \in Nat /\ k + n <= Len(txs)
    BY <1>2, <1>3, <1>4
  <1>6. \A i \in 1..Len(txs) : txs[i] \in Txs /\ LaneOf(txs[i]) \in Nat /\ (Match(l, txs[i]) <=> LaneOf(txs[i]) = l)
    <2>1. \A i \in 1..Len(txs) : txs[i] \in Txs
      OBVIOUS
    <2> QED BY <2>1, LaneOfFacts, LanesAssumption DEF Lanes
  <1>7. \A i \in 1..n : LaneOf(txs[k + i]) = l
    <2> SUFFICES ASSUME NEW i \in 1..n PROVE LaneOf(txs[k + i]) = l
      OBVIOUS
    <2>1. i \in 1..Len(rest) /\ k + i \in 1..Len(txs)
      BY <1>2, <1>5
    <2> QED BY <1>3, <1>4, <1>6, <2>1
  <1>8. \A i \in (k + 1)..(k + n) : LaneOf(txs[i]) = l
    <2> SUFFICES ASSUME NEW i \in (k + 1)..(k + n) PROVE LaneOf(txs[i]) = l
      OBVIOUS
    <2>1. i - k \in 1..n /\ k + (i - k) = i
      BY <1>2, <1>5
    <2> QED BY <1>7, <2>1
  <1>9. \A i \in (s + 1)..k : LaneOf(txs[i]) < l
    BY <1>1 DEF Reached
  <1>10. \A i \in (s + 1)..(k + n) : LaneOf(txs[i]) < l + 1
    <2> SUFFICES ASSUME NEW i \in (s + 1)..(k + n) PROVE LaneOf(txs[i]) < l + 1
      OBVIOUS
    <2>1. LaneOf(txs[i]) \in Nat
      BY <1>2, <1>5, <1>6
    <2>2. CASE i <= k
      <3>1. i \in (s + 1)..k
        BY <1>2, <2>2
      <3> QED BY <1>2, <1>9, <2>1, <3>1
    <2>3. CASE i > k
      <3>1. i \in (k + 1)..(k + n)
        BY <1>2, <2>3
      <3> QED BY <1>2, <1>8, <3>1
    <2> QED BY <1>2, <2>2, <2>3
  <1>11. \A i \in ((k + n) + 1)..Len(txs) : LaneOf(txs[i]) >= l + 1
    <2> SUFFICES ASSUME NEW i \in ((k + n) + 1)..Len(txs) PROVE LaneOf(txs[i]) >= l + 1
      OBVIOUS
    <2>1. PICK j : j = i - k
      OBVIOUS
    <2>2. j \in 1..Len(rest) /\ k + j = i /\ n + 1 \in 1..j /\ n + 1 \in 1..Len(rest) /\ n < Len(rest)
          /\ i \in (k + 1)..Len(txs) /\ i \in 1..Len(txs)
      BY <1>2, <1>3, <1>5, <2>1
    <2>3. ~Match(l, rest[j])
      <3>1. CASE j = n + 1
        BY <1>4, <2>2, <3>1
      <3>2. CASE j # n + 1
        <4>1. n + 1 \in 1..(j - 1)
          BY <1>5, <2>2, <3>2
        <4>2. j \in DOMAIN rest
          BY <1>3, <2>2
        <4> QED BY <1>4, <2>2, <4>1, <4>2 DEF DefaultCheckOrder
      <3> QED BY <3>1, <3>2
    <2>4. LaneOf(txs[i]) # l /\ LaneOf(txs[i]) \in Nat
      BY <1>3, <1>6, <2>2, <2>3
    <2>5. LaneOf(txs[i]) >= l
      BY <2>2 DEF Reached
    <2> QED BY <1>2, <2>4, <2>5
  <1>12. ASSUME NEW i \in (s + 2)..(k + n)
         PROVE  /\ LaneOf(txs[i - 1]) <= LaneOf(txs[i])
                /\ LaneOf(txs[i - 1]) = LaneOf(txs[i]) => txs[i - 1].priority >= txs[i].priority
    <2>1. i \in Nat /\ i \in 1..Len(txs) /\ i - 1 \in 1..Len(txs)
      BY <1>2, <1>5
    <2>2. CASE i <= k
      <3>1. i \in (s + 2)..k
        BY <1>2, <2>1, <2>2
      <3> QED BY <1>1, <3>1 DEF Reached, LanesOrdered, FeesOrdered
    <2>3. CASE i = k + 1
      <3>1. i - 1 \in (s + 1)..k /\ i \in (k + 1)..(k + n)
        BY <1>2, <2>3
      <3>2. LaneOf(txs[i - 1]) < l /\ LaneOf(txs[i]) = l
        BY <1>8, <1>9, <3>1
      <3>3. LaneOf(txs[i - 1]) \in Nat
        BY <1>6, <2>1
      <3> QED BY <1>2, <3>2, <3>3
    <2>4. CASE i > k + 1
      <3>1. i - 1 \in (k + 1)..(k + n) /\ i \in (k + 1)..(k + n)
        BY <1>2, <1>5, <2>1, <2>4
      <3>2. LaneOf(txs[i - 1]) = l /\ LaneOf(txs[i]) = l
        BY <1>8, <3>1
      <3>3. PICK j : j = i - k
        OBVIOUS
      <3>4. j \in 1..Len(rest) /\ j - 1 \in 1..Len(rest) /\ k + j = i /\ k + (j - 1) = i - 1 /\ j > 1 /\ j \in 1..n
        BY <1>2, <1>3, <1>5, <2>1, <2>4, <3>3
      <3>5. rest[j] = txs[k + j] /\ rest[j - 1] = txs[k + (j - 1)]
        BY <1>3, <3>4
      <3>6. rest[j] = txs[i] /\ rest[j - 1] = txs[i - 1]
        BY <3>4, <3>5
      <3>7. j \in DOMAIN rest /\ Match(l, rest[j])
        BY <1>3, <1>4, <3>4
      <3>8. rest[j - 1].priority >= rest[j].priority
        BY <3>4, <3>7 DEF DefaultCheckOrder
      <3>9. txs[i - 1].priority >= txs[i].priority
        BY <3>6, <3>8, Zenon
      <3>10. LaneOf(txs[i - 1]) <= LaneOf(txs[i])
        BY <1>2, <3>2
      <3> QED BY <3>9, <3>10
    <2> QED BY <1>2, <2>1, <2>2, <2>3, <2>4
  <1>13. LanesOrdered(txs, k + n) /\ FeesOrdered(txs, k + n)
    BY <1>1, <1>12 DEF LanesOrdered, FeesOrdered
  <1>14. Share(txs) <= k + n
    BY <1>1, <1>2, <1>5
  <1> QED BY <1>1, <1>4, <1>10, <1>11, <1>13, <1>14 DEF Reached

\* A lane finds out of order only a block that is not laid out or has a rising fee.
LEMMA LaneOrderNeeded ==
    ASSUME Mutex, EveryTxWanted, NEW txs \in Seq(Txs), NEW l \in Lanes, NEW k \in 0..Len(txs), Reached(txs, l, k),
           NEW rest, rest = SubSeq(txs, k + 1, Len(txs)),
           LanesOrdered(txs, Len(txs)), FeesOrdered(txs, Len(txs))
    PROVE  DefaultCheckOrder(l, rest)
  <1>1. PICK s : s = Share(txs)
    OBVIOUS
  <1>2. s \in Nat /\ s <= k /\ k \in Nat /\ k <= Len(txs) /\ Len(txs) \in Nat /\ l \in Nat
    BY <1>1, ShareType, LanesAssumption DEF Reached, Lanes
  <1>3. rest \in Seq(Txs) /\ Len(rest) = Len(txs) - k /\ \A i \in 1..Len(rest) : rest[i] = txs[k + i]
    BY SplitFacts
  <1>4. \A i \in 1..Len(txs) : txs[i] \in Txs /\ LaneOf(txs[i]) \in Nat /\ (Match(l, txs[i]) <=> LaneOf(txs[i]) = l)
    <2>1. \A i \in 1..Len(txs) : txs[i] \in Txs
      OBVIOUS
    <2> QED BY <2>1, LaneOfFacts, LanesAssumption DEF Lanes
  <1> SUFFICES ASSUME NEW i \in DOMAIN rest, Match(l, rest[i])
               PROVE  /\ \A j \in 1..(i - 1) : Match(l, rest[j])
                      /\ i > 1 => rest[i - 1].priority >= rest[i].priority
    BY DEF DefaultCheckOrder
  <1>5. i \in 1..Len(rest) /\ k + i \in 1..Len(txs)
    BY <1>2, <1>3
  <1>6. LaneOf(txs[k + i]) = l
    BY <1>3, <1>4, <1>5
  <1>7. ASSUME NEW j \in 1..(i - 1) PROVE Match(l, rest[j]) /\ LaneOf(txs[k + j]) = l
    <2>1. j \in 1..Len(rest) /\ k + j \in 1..Len(txs) /\ k + j \in (k + 1)..Len(txs)
      BY <1>2, <1>3, <1>5
    <2>2. LaneOf(txs[k + j]) >= l
      BY <2>1 DEF Reached
    <2>3. PICK a \in Nat : a = k + j
      BY <2>1
    <2>4. PICK b \in Nat : b = k + i
      BY <1>5
    <2>5. a > Share(txs) /\ a <= b /\ b <= Len(txs)
      BY <1>1, <1>2, <1>5, <2>3, <2>4
    <2>6. LaneOf(txs[a]) <= LaneOf(txs[b])
      BY <2>5, LanesMonotone
    <2>7. LaneOf(txs[k + j]) = l
      BY <1>2, <1>4, <1>6, <2>1, <2>2, <2>3, <2>4, <2>6
    <2> QED BY <1>3, <1>4, <2>1, <2>7
  <1>8. ASSUME i > 1 PROVE rest[i - 1].priority >= rest[i].priority
    <2>1. i - 1 \in 1..(i - 1) /\ i - 1 \in 1..Len(rest)
      BY <1>5, <1>8
    <2>2. LaneOf(txs[k + (i - 1)]) = l
      BY <1>7, <2>1
    <2>3. PICK m : m = k + i
      OBVIOUS
    <2>4. m \in (s + 2)..Len(txs) /\ m - 1 = k + (i - 1)
      BY <1>2, <1>5, <1>8, <2>3
    <2>5. LaneOf(txs[m - 1]) = LaneOf(txs[m])
      BY <1>6, <2>2, <2>3, <2>4
    <2>6. txs[m - 1].priority >= txs[m].priority
      BY <1>1, <2>4, <2>5 DEF FeesOrdered
    <2>7. rest[i - 1] = txs[m - 1] /\ rest[i] = txs[m]
      BY <1>3, <1>5, <2>1, <2>3, <2>4
    <2> QED BY <2>6, <2>7
  <1> QED BY <1>7, <1>8

\* After the last lane's turn nothing is left, and a block with nothing left is in
\* order.
LEMMA AllReached ==
    ASSUME Mutex, EveryTxWanted, NEW txs \in Seq(Txs), NEW l, NEW k \in 0..Len(txs), Reached(txs, l, k)
    PROVE  /\ l = NumLanes + 1 => k = Len(txs)
           /\ k = Len(txs) => LaidOut(txs) /\ FeesDescend(txs)
  <1>1. ASSUME l = NumLanes + 1, k # Len(txs) PROVE FALSE
    <2>1. k + 1 \in (k + 1)..Len(txs) /\ k + 1 \in 1..Len(txs)
      BY <1>1
    <2>2. txs[k + 1] \in Txs
      BY <2>1
    <2>3. LaneOf(txs[k + 1]) \in Lanes
      BY <2>2, LaneOfFacts
    <2>4. LaneOf(txs[k + 1]) >= NumLanes + 1
      BY <1>1, <2>1 DEF Reached
    <2> QED BY <2>3, <2>4, LanesAssumption DEF Lanes
  <1>2. ASSUME k = Len(txs) PROVE LaidOut(txs) /\ FeesDescend(txs)
    BY <1>2, LayoutFacts, SMTT(30) DEF Reached
  <1> QED BY <1>1, <1>2
-----------------------------------------------------------------------------
(* The decision on a proposal. *)

\* Where ChainProcessLanes is when it comes to lane l: the lanes before have taken,
\* verified and found in order all of the block but the rest.
Standing(st, h, txs, l, rest, ctx) ==
    \E k \in 0..Len(txs) :
        /\ rest = SubSeq(txs, k + 1, Len(txs))
        /\ AnteVerifyAll(st, h, SubSeq(txs, 1, k)) = Pass(ctx)
        /\ l = TOBLane => k = 0
        /\ l # TOBLane => Reached(txs, l, k)

\* All of a list is itself, none of it is empty, and a prefix goes on.
LEMMA WholeFacts ==
    ASSUME NEW txs \in Seq(Txs)
    PROVE  /\ SubSeq(txs, 1, Len(txs)) = txs /\ SubSeq(txs, 0 + 1, Len(txs)) = txs
           /\ SubSeq(txs, 1, 0) = <<>> /\ Len(txs) \in 0..Len(txs) /\ 0 \in 0..Len(txs)
           /\ \A m \in 0..Len(txs) : \E tail \in Seq(Txs) : SubSeq(txs, 1, m) \o tail = txs
  <1>1. Len(txs) \in Nat /\ Len(txs) \in 0..Len(txs) /\ 0 \in 0..Len(txs)
    OBVIOUS
  <1>2. SubSeq(txs, 1, Len(txs)) = txs
    <2>1. PICK p : p = SubSeq(txs, 1, Len(txs))
      OBVIOUS
    <2>2. p \in Seq(Txs) /\ Len(p) = Len(txs) /\ \A i \in 1..Len(txs) : p[i] = txs[i]
      BY <1>1, <2>1, PrefixFacts
    <2> QED BY <2>1, <2>2, SameSeq
  <1>3. SubSeq(txs, 1, 0) = <<>>
    OBVIOUS
  <1>4. ASSUME NEW m \in 0..Len(txs) PROVE \E tail \in Seq(Txs) : SubSeq(txs, 1, m) \o tail = txs
    <2>1. PICK rest : rest = SubSeq(txs, m + 1, Len(txs))
      OBVIOUS
    <2>2. rest \in Seq(Txs) /\ Len(rest) = Len(txs) - m
      BY <2>1, SplitFacts
    <2>3. PICK n \in 0..Len(rest) : n = Len(rest)
      <3>1. Len(rest) \in 0..Len(rest)
        BY <2>2
      <3> QED BY <3>1
    <2>4. SubSeq(rest, 1, n) \in Seq(Txs) /\ SubSeq(txs, 1, m) \o SubSeq(rest, 1, n) = SubSeq(txs, 1, m + n)
      BY <2>1, SplitFacts
    <2>5. m + n = Len(txs)
      BY <2>2, <2>3
    <2> QED BY <1>2, <2>4, <2>5
  <1>5. 0 + 1 = 1
    OBVIOUS
  <1> QED BY <1>1, <1>2, <1>3, <1>4, <1>5

LEMMA StandingStart ==
    ASSUME NEW st \in AccountState, NEW h, NEW txs \in Seq(Txs)
    PROVE  Standing(st, h, txs, TOBLane, txs, st)
  <1>1. SubSeq(txs, 0 + 1, Len(txs)) = txs /\ SubSeq(txs, 1, 0) = <<>> /\ 0 \in 0..Len(txs)
    BY WholeFacts
  <1>2. AnteVerifyAll(st, h, SubSeq(txs, 1, 0)) = Pass(st)
    BY <1>1, VerifyNone
  <1> QED BY <1>1, <1>2 DEF Standing

\* The lane's part is verified where the lanes before it stopped.
LEMMA VerifyAfter ==
    ASSUME NEW st \in AccountState, NEW h, NEW a \in Seq(Txs), NEW b \in Seq(Txs), NEW ctx \in AccountState,
           AnteVerifyAll(st, h, a) = Pass(ctx)
    PROVE  AnteVerifyAll(st, h, a \o b) = AnteVerifyAll(ctx, h, b)
  <1>1. Pass(ctx).ok /\ Pass(ctx).st = ctx
    BY DEF Pass
  <1>2. AnteVerifyAll(st, h, a \o b)
              = IF AnteVerifyAll(st, h, a).ok THEN AnteVerifyAll(AnteVerifyAll(st, h, a).st, h, b)
                ELSE AnteVerifyAll(st, h, a)
    BY VerifyConcat
  <1> QED BY <1>1, <1>2

\* A list that fails on a prefix fails.
LEMMA VerifyFails ==
    ASSUME NEW st \in AccountState, NEW h, NEW txs \in Seq(Txs), NEW m \in 0..Len(txs),
           ~AnteVerifyAll(st, h, SubSeq(txs, 1, m)).ok
    PROVE  ~AnteVerifyAll(st, h, txs).ok
  <1>1. PICK tail \in Seq(Txs) : SubSeq(txs, 1, m) \o tail = txs
    BY WholeFacts
  <1>2. PICK c : c = SubSeq(txs, 1, m)
    OBVIOUS
  <1>3. c \in Seq(Txs) /\ ~AnteVerifyAll(st, h, c).ok
    BY <1>2, PrefixFacts
  <1>4. AnteVerifyAll(st, h, c \o tail)
              = IF AnteVerifyAll(st, h, c).ok THEN AnteVerifyAll(AnteVerifyAll(st, h, c).st, h, tail)
                ELSE AnteVerifyAll(st, h, c)
    BY <1>3, VerifyConcat
  <1>5. AnteVerifyAll(st, h, c \o tail) = AnteVerifyAll(st, h, c)
    BY <1>3, <1>4
  <1> QED BY <1>1, <1>2, <1>3, <1>5

\* A lane that finds its part in order and valid hands on to the next one.
LEMMA StandingGo ==
    ASSUME Mutex, EveryTxWanted,
           NEW st \in AccountState, NEW h, NEW txs \in Seq(Txs), NEW l \in Lanes, NEW rest, NEW ctx \in AccountState,
           Standing(st, h, txs, l, rest, ctx), rest # <<>>, CheckOrder(l, rest),
           l = TOBLane => \A i \in 1..Len(txs) : txs[i].encodes,
           NEW n, n = LaneShare(l, rest), NEW v, v = AnteVerifyAll(ctx, h, SubSeq(rest, 1, n)), v.ok
    PROVE  Standing(st, h, txs, l + 1, SubSeq(rest, n + 1, Len(rest)), v.st)
  <1>1. PICK k \in 0..Len(txs) :
            /\ rest = SubSeq(txs, k + 1, Len(txs))
            /\ AnteVerifyAll(st, h, SubSeq(txs, 1, k)) = Pass(ctx)
            /\ l = TOBLane => k = 0
            /\ l # TOBLane => Reached(txs, l, k)
    BY DEF Standing
  <1>2. rest \in Seq(Txs)
    BY <1>1, SplitFacts
  <1>3. n \in 0..Len(rest) /\ Reached(txs, l + 1, k + n)
    <2>1. CASE l = TOBLane
      <3>1. k = 0 /\ rest = txs
        BY <1>1, <2>1, WholeFacts
      <3>2. n = Share(txs) /\ BidLaid(txs)
        BY <2>1, <3>1, AuctionTurn DEF CheckOrder
      <3>3. n \in 0..Len(txs) /\ k + n = n
        BY <3>1, <3>2, ShareType DEF BidLaid
      <3>4. Reached(txs, TOBLane + 1, Share(txs))
        BY <2>1, <3>2, AuctionReached
      <3> QED BY <2>1, <3>1, <3>2, <3>3, <3>4
    <2>2. CASE l # TOBLane
      <3>1. DefaultCheckOrder(l, rest)
        BY <2>2 DEF CheckOrder
      <3> QED BY <1>1, <2>2, <3>1, LaneReached
    <2> QED BY <2>1, <2>2
  <1>4. PICK m \in 0..Len(txs) : m = k + n
    BY <1>1, <1>3, SplitFacts
  <1>5. SubSeq(rest, n + 1, Len(rest)) = SubSeq(txs, m + 1, Len(txs))
    <2>1. \A i \in 0..Len(rest) : SubSeq(rest, i + 1, Len(rest)) = SubSeq(txs, (k + i) + 1, Len(txs))
      BY <1>1, SplitFacts
    <2>2. SubSeq(rest, n + 1, Len(rest)) = SubSeq(txs, (k + n) + 1, Len(txs))
      BY <1>3, <2>1
    <2> QED BY <1>4, <2>2
  <1>6. v \in Result /\ AnteVerifyAll(st, h, SubSeq(txs, 1, m)) = v
    <2>1. PICK a : a = SubSeq(txs, 1, k)
      OBVIOUS
    <2>2. PICK b : b = SubSeq(rest, 1, n)
      OBVIOUS
    <2>3. a \in Seq(Txs) /\ b \in Seq(Txs) /\ a \o b = SubSeq(txs, 1, k + n)
      <3>1. \A i \in 0..Len(rest) : /\ SubSeq(txs, 1, k) \in Seq(Txs) /\ SubSeq(rest, 1, i) \in Seq(Txs)
                                     /\ SubSeq(txs, 1, k) \o SubSeq(rest, 1, i) = SubSeq(txs, 1, k + i)
        BY <1>1, SplitFacts
      <3> QED BY <1>3, <2>1, <2>2, <3>1
    <2>4. AnteVerifyAll(st, h, a) = Pass(ctx) /\ v = AnteVerifyAll(ctx, h, b)
      BY <1>1, <2>1, <2>2
    <2>5. AnteVerifyAll(st, h, a \o b) = v
      <3>1. a \in Seq(Txs) /\ b \in Seq(Txs)
        BY <2>3
      <3>2. AnteVerifyAll(st, h, a) = Pass(ctx)
        BY <2>4
      <3>3. AnteVerifyAll(st, h, a \o b) = AnteVerifyAll(ctx, h, b)
        BY <3>1, <3>2, VerifyAfter
      <3> QED BY <2>4, <3>3
    <2>6. v \in Result
      BY <2>3, <2>4, VerifyType
    <2> QED BY <1>4, <2>3, <2>5, <2>6
  <1>7. v = Pass(v.st)
    BY <1>6 DEF Result, Pass
  <1>8. l + 1 # TOBLane
    BY LanesAssumption DEF Lanes, TOBLane
  <1>9. Reached(txs, l + 1, m)
    BY <1>3, <1>4
  <1> QED BY <1>5, <1>6, <1>7, <1>8, <1>9 DEF Standing

\* A block that no lane found fault with has none.
LEMMA StandingEnd ==
    ASSUME Mutex, EveryTxWanted,
           NEW st \in AccountState, NEW h, NEW txs \in Seq(Txs), NEW l, NEW rest, NEW ctx \in AccountState,
           Standing(st, h, txs, l, rest, ctx), rest = <<>> \/ l = NumLanes + 1,
           l = TOBLane => \A i \in 1..Len(txs) : txs[i].encodes
    PROVE  AnteVerifyAll(st, h, txs).ok /\ LaidOut(txs) /\ FeesDescend(txs)
  <1>1. PICK k \in 0..Len(txs) :
            /\ rest = SubSeq(txs, k + 1, Len(txs))
            /\ AnteVerifyAll(st, h, SubSeq(txs, 1, k)) = Pass(ctx)
            /\ l = TOBLane => k = 0
            /\ l # TOBLane => Reached(txs, l, k)
    BY DEF Standing
  <1>2. rest \in Seq(Txs) /\ Len(rest) = Len(txs) - k /\ Len(txs) \in Nat
    BY <1>1, SplitFacts
  <1>3. rest = <<>> => k = Len(txs)
    BY <1>2
  <1>4. NumLanes + 1 # TOBLane
    BY LanesAssumption DEF TOBLane
  <1>5. k = Len(txs)
    <2>1. CASE rest = <<>>
      BY <1>3, <2>1
    <2>2. CASE l = NumLanes + 1
      BY <1>1, <1>4, <2>2, AllReached
    <2> QED BY <2>1, <2>2
  <1>6. LaidOut(txs) /\ FeesDescend(txs)
    <2>1. CASE l # TOBLane
      BY <1>1, <1>5, <2>1, AllReached
    <2>2. CASE l = TOBLane
      <3>1. Len(txs) = 0 /\ txs = <<>>
        BY <1>1, <1>5, <2>2
      <3>2. Share(txs) = 0
        BY <3>1 DEF Share
      <3>3. BidLaid(txs) /\ LanesOrdered(txs, Len(txs)) /\ FeesOrdered(txs, Len(txs))
        BY <3>1, <3>2 DEF BidLaid, LanesOrdered, FeesOrdered
      <3> QED BY <3>3, LayoutFacts
    <2> QED BY <2>1, <2>2
  <1>7. AnteVerifyAll(st, h, txs) = Pass(ctx)
    BY <1>1, <1>5, WholeFacts
  <1> QED BY <1>6, <1>7 DEF Pass

\* A lane finds fault only with a block that has one.
LEMMA StandingFault ==
    ASSUME Mutex, EveryTxWanted,
           NEW st \in AccountState, NEW h, NEW txs \in Seq(Txs), NEW l \in Lanes, NEW rest, NEW ctx \in AccountState,
           Standing(st, h, txs, l, rest, ctx), rest # <<>>, ~CheckOrder(l, rest)
    PROVE  ~LaidOut(txs) \/ ~FeesDescend(txs)
  <1> SUFFICES ASSUME LaidOut(txs), FeesDescend(txs) PROVE FALSE
    OBVIOUS
  <1>1. PICK k \in 0..Len(txs) :
            /\ rest = SubSeq(txs, k + 1, Len(txs))
            /\ AnteVerifyAll(st, h, SubSeq(txs, 1, k)) = Pass(ctx)
            /\ l = TOBLane => k = 0
            /\ l # TOBLane => Reached(txs, l, k)
    BY DEF Standing
  <1>2. BidLaid(txs) /\ LanesOrdered(txs, Len(txs)) /\ FeesOrdered(txs, Len(txs))
    BY LayoutFacts
  <1>3. CASE l = TOBLane
    <2>1. rest = txs
      BY <1>1, <1>3, WholeFacts
    <2> QED BY <1>2, <1>3, <2>1, AuctionTurn DEF CheckOrder
  <1>4. CASE l # TOBLane
    <2>1. DefaultCheckOrder(l, rest)
      BY <1>1, <1>2, <1>4, LaneOrderNeeded
    <2> QED BY <1>4, <2>1 DEF CheckOrder
  <1> QED BY <1>3, <1>4
\* Transactions that fail in a lane's turn fail the block.
LEMMA StandingFails ==
    ASSUME NEW st \in AccountState, NEW h, NEW txs \in Seq(Txs), NEW l, NEW rest, NEW ctx \in AccountState,
           Standing(st, h, txs, l, rest, ctx), NEW n \in 0..Len(rest), ~AnteVerifyAll(ctx, h, SubSeq(rest, 1, n)).ok
    PROVE  ~AnteVerifyAll(st, h, txs).ok
  <1>1. PICK k \in 0..Len(txs) :
            /\ rest = SubSeq(txs, k + 1, Len(txs))
            /\ AnteVerifyAll(st, h, SubSeq(txs, 1, k)) = Pass(ctx)
    BY DEF Standing
  <1>2. PICK a : a = SubSeq(txs, 1, k)
    OBVIOUS
  <1>3. PICK b : b = SubSeq(rest, 1, n)
    OBVIOUS
  <1>4. /\ a \in Seq(Txs) /\ b \in Seq(Txs) /\ k + n \in 0..Len(txs)
        /\ a \o b = SubSeq(txs, 1, k + n)
    BY <1>1, <1>2, <1>3, SplitFacts, SMTT(30)
  <1>5. a \in Seq(Txs) /\ b \in Seq(Txs)
    BY <1>4
  <1>6. AnteVerifyAll(st, h, a) = Pass(ctx)
    BY <1>1, <1>2
  <1>7. AnteVerifyAll(st, h, a \o b) = AnteVerifyAll(ctx, h, b)
    BY <1>5, <1>6, VerifyAfter
  <1>8. PICK m \in 0..Len(txs) : m = k + n
    BY <1>4
  <1>9. ~AnteVerifyAll(st, h, SubSeq(txs, 1, m)).ok
    BY <1>3, <1>4, <1>7, <1>8
  <1> QED BY <1>9, VerifyFails

\* Where ChainProcessLanes is.
ProcessInv ==
    phase = "process" => Standing(state, height + 1, proc.txs, proc.lane, proc.rest, proc.ctx)

LEMMA ProcessTurn ==
    ASSUME Mutex, EveryTxWanted, TypeInv, ProcessInv, ProcessLaneStep
    PROVE  ProcessInv' /\ AcceptedSound' /\ RejectedForCause'
  <1>1. PICK st : st = state
    OBVIOUS
  <1>2. PICK h : h = height + 1
    OBVIOUS
  <1>3. PICK txs : txs = proc.txs
    OBVIOUS
  <1>4. PICK l : l = proc.lane
    OBVIOUS
  <1>5. PICK rest : rest = proc.rest
    OBVIOUS
  <1>6. PICK ctx : ctx = proc.ctx
    OBVIOUS
  <1>7. phase = "process" /\ UNCHANGED <<state, height>> /\ ProcessOutcome
    BY ProcessStepFacts
  <1>8. st \in AccountState /\ txs \in Seq(Txs) /\ rest \in Seq(Txs) /\ ctx \in AccountState
    BY <1>1, <1>3, <1>5, <1>6 DEF TypeInv, ChainInv, ProcInv
  <1>9. st \in AccountState /\ ctx \in AccountState
    BY <1>8
  <1>10. txs \in Seq(Txs)
    BY <1>8
  <1>11. Standing(st, h, txs, l, rest, ctx)
    BY <1>1, <1>2, <1>3, <1>4, <1>5, <1>6, <1>7 DEF ProcessInv
  <1>12. ~Undecodable => (l = TOBLane => \A i \in 1..Len(txs) : txs[i].encodes)
    <2>1. DOMAIN txs = 1..Len(txs)
      BY <1>10
    <2> QED BY <1>3, <1>4, <2>1 DEF Undecodable, TOBLane
  <1>13. state' = st /\ height' + 1 = h
    BY <1>1, <1>2, <1>7
  <1>14. CASE Undecodable /\ phase' = "rejected" /\ proc' = proc
    <2>1. \E i \in DOMAIN proc'.txs : ~proc'.txs[i].encodes
      BY <1>14 DEF Undecodable
    <2> QED BY <1>14, <2>1 DEF ProcessInv, AcceptedSound, RejectedForCause
  <1>15. CASE ~Undecodable /\ (proc.rest = <<>> \/ proc.lane = NumLanes + 1) /\ phase' = "accepted" /\ proc' = proc
    <2>1. rest = <<>> \/ l = NumLanes + 1
      BY <1>4, <1>5, <1>15
    <2>2. l = TOBLane => \A i \in 1..Len(txs) : txs[i].encodes
      BY <1>12, <1>15
    <2>3. AnteVerifyAll(st, h, txs).ok /\ LaidOut(txs) /\ FeesDescend(txs)
      BY <1>9, <1>10, <1>11, <2>1, <2>2, StandingEnd
    <2>4. proc'.txs = txs
      BY <1>3, <1>15
    <2> QED BY <1>13, <1>15, <2>3, <2>4 DEF ProcessInv, AcceptedSound, RejectedForCause
  <1>16. CASE Open /\ ~CheckOrder(proc.lane, proc.rest) /\ phase' = "rejected" /\ proc' = proc
    <2>1. l \in Lanes /\ rest # <<>> /\ ~CheckOrder(l, rest)
      BY <1>4, <1>5, <1>16 DEF Open
    <2>2. ~LaidOut(txs) \/ ~FeesDescend(txs)
      BY <1>9, <1>10, <1>11, <2>1, StandingFault
    <2>3. proc'.txs = txs
      BY <1>3, <1>16
    <2> QED BY <1>16, <2>2, <2>3 DEF ProcessInv, AcceptedSound, RejectedForCause
  <1>17. PICK n : n = LaneShare(l, rest)
    OBVIOUS
  <1>18. Checked(LaneShare(proc.lane, proc.rest)) = AnteVerifyAll(ctx, h, SubSeq(rest, 1, n))
    BY <1>2, <1>4, <1>5, <1>6, <1>17 DEF Checked
  <1>19. CASE /\ Open /\ CheckOrder(proc.lane, proc.rest) /\ phase' = "rejected" /\ proc' = proc
              /\ LaneShare(proc.lane, proc.rest) \in 0..Len(proc.rest)
              /\ ~Checked(LaneShare(proc.lane, proc.rest)).ok
    <2>1. n \in 0..Len(rest)
      BY <1>4, <1>5, <1>17, <1>19
    <2>2. ~AnteVerifyAll(ctx, h, SubSeq(rest, 1, n)).ok
      BY <1>18, <1>19
    <2>3. ~AnteVerifyAll(st, h, txs).ok
      BY <1>9, <1>10, <1>11, <2>1, <2>2, StandingFails
    <2>4. proc'.txs = txs
      BY <1>3, <1>19
    <2> QED BY <1>13, <1>19, <2>3, <2>4 DEF ProcessInv, AcceptedSound, RejectedForCause
  <1>20. CASE /\ Open /\ CheckOrder(proc.lane, proc.rest) /\ phase' = "process"
              /\ LaneShare(proc.lane, proc.rest) \in 0..Len(proc.rest)
              /\ Checked(LaneShare(proc.lane, proc.rest)).ok
              /\ proc'.own = proc.own /\ proc'.txs = proc.txs /\ proc'.lane = proc.lane + 1
              /\ proc'.rest = Rest(LaneShare(proc.lane, proc.rest))
              /\ proc'.ctx = Checked(LaneShare(proc.lane, proc.rest)).st
    <2>1. l \in Lanes /\ rest # <<>> /\ CheckOrder(l, rest) /\ ~Undecodable
      BY <1>4, <1>5, <1>20 DEF Open
    <2>2. l = TOBLane => \A i \in 1..Len(txs) : txs[i].encodes
      BY <1>12, <2>1
    <2>3. PICK v : v = AnteVerifyAll(ctx, h, SubSeq(rest, 1, n))
      OBVIOUS
    <2>4. v.ok
      BY <1>18, <1>20, <2>3
    <2>5. Standing(st, h, txs, l + 1, SubSeq(rest, n + 1, Len(rest)), v.st)
      BY <1>9, <1>10, <1>11, <1>17, <2>1, <2>2, <2>3, <2>4, StandingGo
    <2>6. proc'.txs = txs /\ proc'.lane = l + 1 /\ proc'.rest = SubSeq(rest, n + 1, Len(rest)) /\ proc'.ctx = v.st
      BY <1>3, <1>4, <1>5, <1>17, <1>18, <1>20, <2>3 DEF Rest
    <2>7. Standing(state', height' + 1, proc'.txs, proc'.lane, proc'.rest, proc'.ctx)
      BY <1>13, <2>5, <2>6
    <2> QED BY <1>20, <2>7 DEF ProcessInv, AcceptedSound, RejectedForCause
  <1> QED BY <1>7, <1>14, <1>15, <1>16, <1>19, <1>20 DEF ProcessOutcome

\* A proposal whose check begins.
LEMMA ProcessStart ==
    ASSUME TypeInv, Propose \/ ReceiveProposal
    PROVE  ProcessInv' /\ AcceptedSound' /\ RejectedForCause'
  <1>1. PICK own \in BOOLEAN : \E txs \in Seq(Txs) :
            proc' = [own |-> own, txs |-> txs, rest |-> txs, lane |-> 1, ctx |-> state]
    <2>1. CASE Propose
      <3>1. prop.txs \in Seq(Txs)
        BY DEF TypeInv, PropInv
      <3>2. proc' = [own |-> TRUE, txs |-> prop.txs, rest |-> prop.txs, lane |-> 1, ctx |-> state]
        BY <2>1, ProposeFacts
      <3> QED BY <3>1, <3>2
    <2>2. CASE ReceiveProposal
      BY <2>2, ReceiveFacts
    <2> QED BY <2>1, <2>2
  <1>2. PICK txs \in Seq(Txs) : proc' = [own |-> own, txs |-> txs, rest |-> txs, lane |-> 1, ctx |-> state]
    BY <1>1
  <1>3. phase' = "process" /\ UNCHANGED <<state, height>> /\ state \in AccountState
    BY ProposeFacts, ReceiveFacts DEF TypeInv, ChainInv
  <1>4. proc'.txs = txs /\ proc'.rest = txs /\ proc'.lane = TOBLane /\ proc'.ctx = state
    BY <1>2 DEF TOBLane
  <1>5. PICK h : h = height + 1
    OBVIOUS
  <1>6. Standing(state, h, txs, TOBLane, txs, state)
    BY <1>3, StandingStart
  <1>7. Standing(state', height' + 1, proc'.txs, proc'.lane, proc'.rest, proc'.ctx)
    BY <1>3, <1>4, <1>5, <1>6
  <1> QED BY <1>3, <1>7 DEF ProcessInv, AcceptedSound, RejectedForCause

\* The steps that neither check a proposal nor decide on one.
LEMMA DecidedStep ==
    ASSUME Mutex, EveryTxWanted, TypeInv, ProcessInv, AcceptedSound, RejectedForCause, [Next]_vars
    PROVE  ProcessInv' /\ AcceptedSound' /\ RejectedForCause'
  <1>1. ASSUME phase' \in {"idle", "prepare"} PROVE ProcessInv' /\ AcceptedSound' /\ RejectedForCause'
    BY <1>1 DEF ProcessInv, AcceptedSound, RejectedForCause
  <1>2. CASE \E tx \in Submitted : CheckTx(tx) \/ RecheckTx(tx) \/ CheckBid(tx)
    <2>1. phase' = "idle"
      BY <1>2 DEF CheckTx, RecheckTx, CheckBid
    <2> QED BY <1>1, <2>1
  <1>3. CASE \E max \in BlockSizes : PrepareProposal(max)
    <2>1. phase' = "prepare"
      BY <1>3, SMTT(30) DEF PrepareProposal
    <2> QED BY <1>1, <2>1
  <1>4. CASE Walk \/ (\E tx \in Submitted : Look(tx)) \/ FinishLane \/ LanePanics
    <2>1. phase' = "prepare"
      BY <1>4, ZenonT(30) DEF Walk, Look, RejectTx, SkipTx, LaneFull, SelectTx, SkipBid, RejectBid, SelectBid, LookingAtTx,
                  LookingAtBid, Looking, NothingElse, FinishLane, LanePanics
    <2> QED BY <1>1, <2>1
  <1>5. CASE ProcessPanics
    <2>1. phase' = "rejected" /\ proc'.lane = 0
      BY <1>5, ProcessPanicsFacts
    <2> QED BY <2>1 DEF ProcessInv, AcceptedSound, RejectedForCause
  <1>6. CASE NextRound \/ Commit
    <2>1. phase' = "idle"
      BY <1>6 DEF NextRound, Commit
    <2> QED BY <1>1, <2>1
  <1>7. CASE UNCHANGED vars
    <2>1. UNCHANGED <<phase, proc, state, height>>
      BY <1>7 DEF vars
    <2> QED BY <2>1 DEF ProcessInv, AcceptedSound, RejectedForCause
  <1> QED BY <1>2, <1>3, <1>4, <1>5, <1>6, <1>7, ProcessStart, ProcessTurn DEF Next

LEMMA DecidedInit == Init => ProcessInv /\ AcceptedSound /\ RejectedForCause
  BY DEF Init, ProcessInv, AcceptedSound, RejectedForCause

\* With mutually exclusive lanes of which one wants any transaction, ChainProcessLanes
\* accepts no block, whoever proposed it, unless all of its transactions pass the
\* ante handler in order, it is laid out and its fees descend: no lane's order check
\* overlooks what the lanes before it have taken away.
THEOREM Accepted ==
    ASSUME Mutex, EveryTxWanted
    PROVE  Spec => []AcceptedSound
  BY TypeInit, TypeStep, DecidedInit, DecidedStep, PTL DEF Spec

\* And nothing else is held against a block: one that a lane rejects, without a
\* panic, does not decode, does not pass, is not laid out or has a rising fee.
THEOREM Rejected ==
    ASSUME Mutex, EveryTxWanted
    PROVE  Spec => []RejectedForCause
  BY TypeInit, TypeStep, DecidedInit, DecidedStep, PTL DEF Spec
-----------------------------------------------------------------------------
(* A node's own proposal. *)

\* A list the lanes before l may have left: it decodes and is laid out.
LaidBefore(txs, l) ==
    /\ \A i \in 1..Len(txs) : txs[i].encodes
    /\ BidLaid(txs)
    /\ LanesOrdered(txs, Len(txs))
    /\ \A i \in (Share(txs) + 1)..Len(txs) : LaneOf(txs[i]) < l

\* The lane's part under construction. The auction lane has nothing or a bid with
\* its bundle, every other lane its own transactions.
PartOf(l, txs) ==
    /\ l = TOBLane /\ txs # <<>> => LaidBefore(txs, TOBLane + 1)
    /\ l # TOBLane => \A i \in 1..Len(txs) : txs[i].encodes /\ LaneOf(txs[i]) = l

OwnInv ==
    /\ phase = "prepare" =>
          /\ LaidBefore(prop.txs, prep.lane)
          /\ prep.lane = TOBLane => prop.txs = <<>>
          /\ PartOf(prep.lane, prep.txs)
    /\ phase \in {"process", "accepted", "rejected"} /\ proc.own =>
          /\ \A i \in 1..Len(proc.txs) : proc.txs[i].encodes
          /\ AnteVerifyAll(state, height + 1, proc.txs).ok
          /\ LaidOut(proc.txs)

LEMMA LaidNothing ==
    ASSUME NEW l
    PROVE  LaidBefore(<<>>, l) /\ PartOf(l, <<>>)
  <1>1. Share(<<>>) = 0 /\ Len(<<>>) = 0
    BY DEF Share
  <1>2. 1..0 = {} /\ 2..0 = {} /\ (0 + 1)..0 = {} /\ (0 + 2)..0 = {}
    OBVIOUS
  <1> QED BY <1>1, <1>2 DEF LaidBefore, BidLaid, LanesOrdered, PartOf

LEMMA LaidLater ==
    ASSUME Mutex, EveryTxWanted, NEW txs \in Seq(Txs), NEW l \in Nat, LaidBefore(txs, l)
    PROVE  LaidBefore(txs, l + 1)
  <1>1. ASSUME NEW i \in (Share(txs) + 1)..Len(txs) PROVE LaneOf(txs[i]) < l + 1
    <2>1. i \in 1..Len(txs) /\ Share(txs) \in Nat
      BY ShareType
    <2>2. txs[i] \in Txs
      BY <2>1
    <2>3. LaneOf(txs[i]) \in Nat
      BY <2>2, LaneOfFacts, LanesAssumption DEF Lanes
    <2>4. LaneOf(txs[i]) < l
      BY DEF LaidBefore
    <2> QED BY <2>3, <2>4
  <1> QED BY <1>1 DEF LaidBefore

\* A bid and its bundle.
LEMMA LaidBid ==
    ASSUME NEW bid \in Txs, bid.encodes, IsBid(bid), \A i \in DOMAIN Bundle(bid) : ~IsBid(Bundle(bid)[i])
    PROVE  LaidBefore(<<bid>> \o Bundle(bid), TOBLane + 1)
  <1>1. PICK b : b = Bundle(bid)
    OBVIOUS
  <1>2. PICK txs : txs = <<bid>> \o b
    OBVIOUS
  <1>3. b \in Seq(Txs)
    BY <1>1, ContentFacts
  <1>4. /\ txs \in Seq(Txs) /\ Len(txs) = 1 + Len(b) /\ Len(b) \in Nat /\ txs[1] = bid /\ txs # <<>>
        /\ \A i \in 2..(1 + Len(b)) : txs[i] = b[i - 1]
    BY <1>2, <1>3
  <1>5. Share(txs) = Len(txs)
    <2>1. Share(txs) = Len(b) + 1
      BY <1>1, <1>4 DEF Share
    <2> QED BY <1>4, <2>1
  <1>6. \A i \in 1..Len(b) : b[i].encodes /\ ~IsBid(b[i])
    <2>1. DOMAIN b = 1..Len(b)
      BY <1>3
    <2> QED BY <1>1, <2>1, ContentAssumption DEF Bundle
  <1>7. \A i \in 2..Len(txs) : txs[i].encodes /\ ~IsBid(txs[i])
    <2> SUFFICES ASSUME NEW i \in 2..Len(txs) PROVE txs[i].encodes /\ ~IsBid(txs[i])
      OBVIOUS
    <2>1. i - 1 \in 1..Len(b) /\ i \in 2..(1 + Len(b))
      BY <1>4
    <2>2. txs[i] = b[i - 1]
      BY <1>4, <2>1
    <2> QED BY <1>6, <2>1, <2>2
  <1>8. \A i \in 1..Len(txs) : txs[i].encodes
    <2> SUFFICES ASSUME NEW i \in 1..Len(txs) PROVE txs[i].encodes
      OBVIOUS
    <2>1. CASE i = 1
      BY <1>4, <2>1
    <2>2. CASE i # 1
      <3>1. i \in 2..Len(txs)
        BY <2>2
      <3> QED BY <1>7, <3>1
    <2> QED BY <2>1, <2>2
  <1>9. BidLaid(txs)
    <2>1. \A i \in 2..Share(txs) : txs[i] = Bundle(txs[1])[i - 1]
      BY <1>1, <1>4, <1>5
    <2>2. Share(txs) <= Len(txs)
      BY <1>4, <1>5
    <2> QED BY <1>7, <2>1, <2>2 DEF BidLaid
  <1>10. LanesOrdered(txs, Len(txs)) /\ \A i \in (Share(txs) + 1)..Len(txs) : LaneOf(txs[i]) < TOBLane + 1
    <2>1. (Share(txs) + 2)..Len(txs) = {} /\ (Share(txs) + 1)..Len(txs) = {}
      BY <1>4, <1>5
    <2> QED BY <2>1 DEF LanesOrdered
  <1> QED BY <1>1, <1>2, <1>8, <1>9, <1>10 DEF LaidBefore

\* A lane's own transactions after what the lanes before it left.
LEMMA LaidMore ==
    ASSUME Mutex, EveryTxWanted, NEW l \in Lanes, l # TOBLane, NEW a \in Seq(Txs), NEW b \in Seq(Txs),
           LaidBefore(a, l), PartOf(l, b), NEW c, c = a \o b
    PROVE  LaidBefore(c, l + 1)
  <1>1. PICK s : s = Share(a)
    OBVIOUS
  <1>2. s \in Nat /\ s <= Len(a) /\ Len(a) \in Nat /\ Len(b) \in Nat /\ l \in Nat
    BY <1>1, ShareType, LanesAssumption DEF LaidBefore, BidLaid, Lanes
  <1>3. /\ c \in Seq(Txs) /\ Len(c) = Len(a) + Len(b)
        /\ \A i \in 1..Len(a) : c[i] = a[i]
        /\ \A i \in 1..Len(b) : c[Len(a) + i] = b[i]
    OBVIOUS
  <1>4. \A i \in 1..Len(b) : b[i] \in Txs /\ b[i].encodes /\ LaneOf(b[i]) = l /\ ~IsBid(b[i])
    <2> SUFFICES ASSUME NEW i \in 1..Len(b) PROVE b[i] \in Txs /\ b[i].encodes /\ LaneOf(b[i]) = l /\ ~IsBid(b[i])
      OBVIOUS
    <2>1. b[i] \in Txs /\ b[i].encodes /\ LaneOf(b[i]) = l
      BY DEF PartOf
    <2>2. ~Match(TOBLane, b[i])
      BY <2>1, LaneOfFacts, BidsMatch
    <2> QED BY <2>1, <2>2, BidsMatch
  <1>5. \A i \in (Len(a) + 1)..Len(c) : c[i] \in Txs /\ c[i].encodes /\ LaneOf(c[i]) = l /\ ~IsBid(c[i])
    <2> SUFFICES ASSUME NEW i \in (Len(a) + 1)..Len(c)
                 PROVE  c[i] \in Txs /\ c[i].encodes /\ LaneOf(c[i]) = l /\ ~IsBid(c[i])
      OBVIOUS
    <2>1. PICK j \in 1..Len(b) : i = Len(a) + j
      <3>1. i - Len(a) \in 1..Len(b) /\ i = Len(a) + (i - Len(a))
        BY <1>2, <1>3
      <3> QED BY <3>1
    <2>2. c[i] = b[j]
      BY <1>3, <2>1
    <2> QED BY <1>4, <2>2
  <1>6. Share(c) = s
    <2>1. CASE a = <<>>
      <3>1. s = 0 /\ Len(a) = 0
        BY <1>1, <2>1 DEF Share
      <3>2. ASSUME c # <<>> PROVE ~IsBid(c[1])
        <4>1. 1 \in (Len(a) + 1)..Len(c)
          BY <1>3, <3>1, <3>2
        <4> QED BY <1>5, <4>1
      <3> QED BY <3>1, <3>2 DEF Share
    <2>2. CASE a # <<>>
      <3>1. 1 \in 1..Len(a) /\ c # <<>>
        BY <1>2, <1>3, <2>2
      <3>2. c[1] = a[1]
        BY <1>3, <3>1
      <3> QED BY <1>1, <2>2, <3>1, <3>2 DEF Share
    <2> QED BY <2>1, <2>2
  <1>7. \A i \in 1..Len(c) : c[i].encodes
    <2> SUFFICES ASSUME NEW i \in 1..Len(c) PROVE c[i].encodes
      OBVIOUS
    <2>1. CASE i <= Len(a)
      <3>1. i \in 1..Len(a)
        BY <1>2, <2>1
      <3>2. c[i] = a[i] /\ a[i].encodes
        BY <1>3, <3>1 DEF LaidBefore
      <3> QED BY <3>2
    <2>2. CASE i > Len(a)
      <3>1. i \in (Len(a) + 1)..Len(c)
        BY <1>2, <1>3, <2>2
      <3> QED BY <1>5, <3>1
    <2> QED BY <1>2, <2>1, <2>2
  <1>8. BidLaid(c)
    <2>1. ASSUME NEW i \in 2..Len(c) PROVE ~IsBid(c[i])
      <3>1. CASE i <= Len(a)
        <4>1. i \in 1..Len(a) /\ i \in 2..Len(a)
          BY <1>2, <3>1
        <4>2. c[i] = a[i] /\ ~IsBid(a[i])
          BY <1>3, <4>1 DEF LaidBefore, BidLaid
        <4> QED BY <4>2
      <3>2. CASE i > Len(a)
        <4>1. i \in (Len(a) + 1)..Len(c)
          BY <1>2, <1>3, <3>2
        <4> QED BY <1>5, <4>1
      <3> QED BY <1>2, <3>1, <3>2
    <2>2. Share(c) <= Len(c)
      BY <1>2, <1>3, <1>6
    <2>3. ASSUME NEW i \in 2..Share(c) PROVE c[i] = Bundle(c[1])[i - 1]
      <3>1. i \in 2..s /\ i \in 1..Len(a) /\ 1 \in 1..Len(a)
        BY <1>2, <1>6
      <3>2. c[i] = a[i] /\ c[1] = a[1]
        BY <1>3, <3>1
      <3>3. a[i] = Bundle(a[1])[i - 1]
        BY <1>1, <3>1 DEF LaidBefore, BidLaid
      <3> QED BY <3>2, <3>3
    <2> QED BY <2>1, <2>2, <2>3 DEF BidLaid
  <1>9. ASSUME NEW i \in (s + 1)..Len(c)
        PROVE  /\ LaneOf(c[i]) \in Nat /\ LaneOf(c[i]) < l + 1
               /\ i <= Len(a) => LaneOf(c[i]) < l
    <2>1. CASE i <= Len(a)
      <3>1. i \in 1..Len(a) /\ i \in (s + 1)..Len(a)
        BY <1>2, <2>1
      <3>2. c[i] = a[i] /\ a[i] \in Txs
        BY <1>3, <3>1
      <3>3. LaneOf(a[i]) < l
        BY <1>1, <3>1 DEF LaidBefore
      <3>4. LaneOf(a[i]) \in Nat
        BY <3>2, LaneOfFacts, LanesAssumption DEF Lanes
      <3> QED BY <1>2, <3>2, <3>3, <3>4
    <2>2. CASE i > Len(a)
      <3>1. i \in (Len(a) + 1)..Len(c)
        BY <1>2, <1>3, <2>2
      <3>2. LaneOf(c[i]) = l
        BY <1>5, <3>1
      <3> QED BY <1>2, <2>2, <3>2
    <2> QED BY <1>2, <2>1, <2>2
  <1>10. LanesOrdered(c, Len(c))
    <2> SUFFICES ASSUME NEW i \in (s + 2)..Len(c) PROVE LaneOf(c[i - 1]) <= LaneOf(c[i])
      BY <1>6 DEF LanesOrdered
    <2>1. i \in (s + 1)..Len(c) /\ i - 1 \in (s + 1)..Len(c) /\ Len(c) \in Nat
      BY <1>2, <1>3
    <2>2. CASE i <= Len(a)
      <3>1. i \in 1..Len(a) /\ i - 1 \in 1..Len(a) /\ i \in (s + 2)..Len(a)
        BY <1>2, <2>2
      <3>2. c[i] = a[i] /\ c[i - 1] = a[i - 1]
        BY <1>3, <3>1
      <3>3. LaneOf(a[i - 1]) <= LaneOf(a[i])
        BY <1>1, <3>1 DEF LaidBefore, LanesOrdered
      <3> QED BY <3>2, <3>3
    <2>3. CASE i > Len(a)
      <3>1. i \in (Len(a) + 1)..Len(c)
        BY <1>2, <1>3, <2>3
      <3>2. LaneOf(c[i]) = l
        BY <1>5, <3>1
      <3>3. LaneOf(c[i - 1]) \in Nat /\ LaneOf(c[i - 1]) < l + 1
        BY <1>9, <2>1
      <3> QED BY <1>2, <3>2, <3>3
    <2> QED BY <1>2, <2>1, <2>2, <2>3
  <1>11. \A i \in (Share(c) + 1)..Len(c) : LaneOf(c[i]) < l + 1
    BY <1>6, <1>9
  <1> QED BY <1>7, <1>8, <1>10, <1>11 DEF LaidBefore
\* A look at a transaction adds one of the lane's own, or a bid with its bundle.
LEMMA LookOwn ==
    ASSUME Mutex, EveryTxWanted, TypeInv, OwnInv, NEW tx \in Submitted, Look(tx)
    PROVE  OwnInv'
  <1>1. /\ prep'.lane = prep.lane /\ UNCHANGED <<state, height, phase, prop, proc>>
        /\ Looking /\ tx = Current(prep.it) /\ LookOutcome(tx)
    BY LookType
  <1>2. phase = "prepare" /\ prep.lane \in Lanes /\ tx \in TxsOf(lanes[prep.lane].index)
    BY <1>1, LookingFacts
  <1>3. tx \in Txs
    BY SubmittedAssumption
  <1>4. LaidBefore(prop.txs, prep.lane) /\ (prep.lane = TOBLane => prop.txs = <<>>) /\ PartOf(prep.lane, prep.txs)
    BY <1>2 DEF OwnInv
  <1>5. PICK part : part = prep.txs
    OBVIOUS
  <1>6. part \in Seq(Txs)
    BY <1>5 DEF TypeInv, PrepInv
  <1>7. PartOf(prep.lane, prep'.txs)
    <2>1. CASE prep'.txs = prep.txs
      BY <1>4, <2>1
    <2>2. CASE prep.lane # TOBLane /\ Belongs(tx) /\ prep'.txs = Append(prep.txs, tx)
      <3>1. tx.encodes /\ LaneOf(tx) = prep.lane
        BY <1>2, <1>3, <2>2, LaneOfFacts DEF Belongs
      <3>2. \A i \in 1..Len(part) : part[i].encodes /\ LaneOf(part[i]) = prep.lane
        BY <1>4, <1>5, <2>2 DEF PartOf
      <3>3. PICK new : new = Append(part, tx)
        OBVIOUS
      <3>4. Len(new) = Len(part) + 1 /\ new[Len(part) + 1] = tx /\ \A i \in 1..Len(part) : new[i] = part[i]
        BY <1>3, <1>6, <3>3
      <3>5. ASSUME NEW i \in 1..Len(new) PROVE new[i].encodes /\ LaneOf(new[i]) = prep.lane
        <4>1. i \in 1..Len(part) \/ i = Len(part) + 1
          BY <1>6, <3>4
        <4> QED BY <3>1, <3>2, <3>4, <4>1
      <3> QED BY <1>5, <2>2, <3>3, <3>5 DEF PartOf
    <2>3. CASE prep.lane = TOBLane /\ tx.encodes /\ prep'.txs = <<tx>> \o Bundle(tx)
      <3>1. IsBid(tx) /\ \A i \in DOMAIN Bundle(tx) : ~IsBid(Bundle(tx)[i])
        BY <1>2, <2>3 DEF TypeInv, LanesInv, LanesOK
      <3>2. LaidBefore(<<tx>> \o Bundle(tx), TOBLane + 1)
        BY <1>3, <2>3, <3>1, LaidBid
      <3> QED BY <2>3, <3>2 DEF PartOf
    <2> QED BY <1>1, <2>1, <2>2, <2>3 DEF LookOutcome
  <1>8. (LaidBefore(prop.txs, prep.lane) /\ (prep.lane = TOBLane => prop.txs = <<>>) /\ PartOf(prep.lane, prep.txs))'
    BY <1>1, <1>4, <1>7
  <1> QED BY <1>1, <1>2, <1>8 DEF OwnInv

\* The next lane goes on with a proposal that is laid out.
LEMMA EnterOwn ==
    ASSUME phase' = "prepare", prep'.lane # TOBLane, prep'.txs = <<>>, LaidBefore(prop'.txs, prep'.lane)
    PROVE  OwnInv'
  <1>1. PICK l : l = prep'.lane
    OBVIOUS
  <1>2. PartOf(l, <<>>)
    BY LaidNothing
  <1>3. PartOf(prep.lane, prep.txs)'
    BY <1>1, <1>2
  <1>4. LaidBefore(prop.txs, prep.lane)'
    OBVIOUS
  <1> QED BY <1>3, <1>4 DEF OwnInv

LEMMA FinishOwn ==
    ASSUME Mutex, EveryTxWanted, TypeInv, OwnInv, FinishLane \/ LanePanics
    PROVE  OwnInv'
  <1>1. /\ UNCHANGED phase /\ phase = "prepare" /\ prep.lane \in Lanes /\ prep'.lane = prep.lane + 1 /\ prep'.txs = <<>>
        /\ prop' = prop \/ prop' = UpdateProposal(prop, prep.lane, prep.txs)
    BY FinishLaneFacts, LanePanicsFacts
  <1>2. PICK l : l = prep.lane
    OBVIOUS
  <1>3. PICK a : a = prop.txs
    OBVIOUS
  <1>4. PICK b : b = prep.txs
    OBVIOUS
  <1>5. PICK c : c = a \o b
    OBVIOUS
  <1>6. l \in Lanes /\ l \in Nat /\ l + 1 # TOBLane
    BY <1>1, <1>2, LanesAssumption DEF Lanes, TOBLane
  <1>7. a \in Seq(Txs) /\ b \in Seq(Txs)
    BY <1>3, <1>4 DEF TypeInv, PropInv, PrepInv
  <1>8. LaidBefore(a, l) /\ (l = TOBLane => a = <<>>) /\ PartOf(l, b)
    BY <1>1, <1>2, <1>3, <1>4 DEF OwnInv
  <1>9. prop'.txs = a \/ prop'.txs = c
    BY <1>1, <1>3, <1>4, <1>5 DEF UpdateProposal, TypeInv, PropInv
  <1>10. LaidBefore(a, l + 1)
    BY <1>6, <1>7, <1>8, LaidLater
  <1>11. LaidBefore(c, l + 1)
    <2>1. CASE l # TOBLane
      BY <1>5, <1>6, <1>7, <1>8, <2>1, LaidMore
    <2>2. CASE l = TOBLane
      <3>1. c = b
        BY <1>5, <1>7, <1>8, <2>2
      <3>2. CASE b = <<>>
        BY <3>1, <3>2, LaidNothing
      <3>3. CASE b # <<>>
        BY <1>8, <2>2, <3>1, <3>3 DEF PartOf
      <3> QED BY <3>2, <3>3
    <2> QED BY <2>1, <2>2
  <1>12. LaidBefore(prop'.txs, prep'.lane)
    BY <1>1, <1>2, <1>9, <1>10, <1>11
  <1>13. phase' = "prepare" /\ prep'.lane # TOBLane /\ prep'.txs = <<>>
    BY <1>1, <1>2, <1>6
  <1> QED BY <1>12, <1>13, EnterOwn

\* What a node proposes decodes, passes and is laid out.
LEMMA ProposeOwn ==
    ASSUME Mutex, EveryTxWanted, TypeInv, PrepareInv, OwnInv, Propose
    PROVE  OwnInv'
  <1>1. /\ phase = "prepare" /\ phase' = "process" /\ UNCHANGED <<state, height>>
        /\ proc' = [own |-> TRUE, txs |-> prop.txs, rest |-> prop.txs, lane |-> 1, ctx |-> state]
    BY ProposeFacts
  <1>2. PICK txs : txs = prop.txs
    OBVIOUS
  <1>3. txs \in Seq(Txs)
    BY <1>2 DEF TypeInv, PropInv
  <1>4. proc'.txs = txs
    BY <1>1, <1>2
  <1>5. LaidBefore(txs, prep.lane)
    BY <1>1, <1>2 DEF OwnInv
  <1>6. LaidOut(txs) /\ \A i \in 1..Len(txs) : txs[i].encodes
    BY <1>3, <1>5, LayoutFacts DEF LaidBefore
  <1>7. AnteVerifyAll(state, height + 1, txs).ok
    BY <1>1, <1>2 DEF PrepareInv, Backs
  <1>8. ((\A i \in 1..Len(proc.txs) : proc.txs[i].encodes) /\ AnteVerifyAll(state, height + 1, proc.txs).ok
         /\ LaidOut(proc.txs))'
    BY <1>1, <1>4, <1>6, <1>7
  <1> QED BY <1>1, <1>8 DEF OwnInv

LEMMA OwnStep ==
    ASSUME Mutex, EveryTxWanted, TypeInv, PrepareInv, OwnInv, [Next]_vars
    PROVE  OwnInv'
  <1>1. ASSUME phase' = "idle" PROVE OwnInv'
    BY <1>1 DEF OwnInv
  <1>2. CASE \E tx \in Submitted : CheckTx(tx) \/ RecheckTx(tx) \/ CheckBid(tx)
    <2>1. phase' = "idle"
      BY <1>2 DEF CheckTx, RecheckTx, CheckBid
    <2> QED BY <1>1, <2>1
  <1>3. ASSUME NEW max \in BlockSizes, PrepareProposal(max) PROVE OwnInv'
    <2>1. phase' = "prepare" /\ prop' = NewProposal(max) /\ prep'.txs = <<>>
      BY <1>3, PrepareProposalFacts
    <2>2. prop'.txs = <<>>
      BY <2>1 DEF NewProposal
    <2>3. PICK l : l = prep'.lane
      OBVIOUS
    <2>4. LaidBefore(<<>>, l) /\ PartOf(l, <<>>)
      BY LaidNothing
    <2>5. (LaidBefore(prop.txs, prep.lane) /\ PartOf(prep.lane, prep.txs))'
      BY <2>1, <2>2, <2>3, <2>4
    <2> QED BY <2>1, <2>2, <2>5 DEF OwnInv
  <1>4. CASE Walk
    <2>1. /\ phase = "prepare" /\ UNCHANGED <<state, height, phase, prop, proc>>
          /\ prep' = [prep EXCEPT !.it = Advance(Pool, prep.it)]
      BY <1>4 DEF Walk, NothingElse, chain
    <2>2. PICK it : it = Advance(Pool, prep.it)
      OBVIOUS
    <2>3. prep' = [prep EXCEPT !.it = it]
      BY <2>1, <2>2
    <2>4. prep'.txs = prep.txs /\ prep'.lane = prep.lane
      BY <2>3 DEF TypeInv, PrepInv
    <2>5. (LaidBefore(prop.txs, prep.lane) /\ (prep.lane = TOBLane => prop.txs = <<>>) /\ PartOf(prep.lane, prep.txs))'
      BY <2>1, <2>4 DEF OwnInv
    <2> QED BY <2>1, <2>5 DEF OwnInv
  <1>5. CASE ReceiveProposal
    <2>1. PICK txs \in Seq(Txs) : proc' = [own |-> FALSE, txs |-> txs, rest |-> txs, lane |-> 1, ctx |-> state]
      BY <1>5, ReceiveFacts
    <2>2. phase' = "process" /\ proc'.own = FALSE
      BY <1>5, <2>1, ReceiveFacts
    <2> QED BY <2>2 DEF OwnInv
  <1>6. CASE ProcessLaneStep \/ ProcessPanics
    <2>1. /\ phase = "process" /\ phase' \in {"process", "accepted", "rejected"} /\ UNCHANGED <<state, height>>
          /\ proc'.own = proc.own /\ proc'.txs = proc.txs
      BY <1>6, ProcessStepFacts, ProcessPanicsFacts DEF ProcessOutcome
    <2>2. PICK own : own = proc.own
      OBVIOUS
    <2>3. PICK txs : txs = proc.txs
      OBVIOUS
    <2>4. own => (\A i \in 1..Len(txs) : txs[i].encodes) /\ AnteVerifyAll(state, height + 1, txs).ok /\ LaidOut(txs)
      BY <2>1, <2>2, <2>3 DEF OwnInv
    <2>5. (proc.own => (\A i \in 1..Len(proc.txs) : proc.txs[i].encodes)
                       /\ AnteVerifyAll(state, height + 1, proc.txs).ok /\ LaidOut(proc.txs))'
      BY <2>1, <2>2, <2>3, <2>4
    <2> QED BY <2>1, <2>5 DEF OwnInv
  <1>7. CASE NextRound \/ Commit
    <2>1. phase' = "idle"
      BY <1>7 DEF NextRound, Commit
    <2> QED BY <1>1, <2>1
  <1>8. CASE UNCHANGED vars
    <2>1. UNCHANGED <<phase, prop, prep, proc, state, height>>
      BY <1>8 DEF vars
    <2> QED BY <2>1 DEF OwnInv
  <1> QED BY <1>2, <1>3, <1>4, <1>5, <1>6, <1>7, <1>8, LookOwn, FinishOwn, ProposeOwn DEF Next

\* A node that prepares a block and checks it on the same state has at most one
\* thing against it: a fee that rises within a lane. The layout PrepareLane produces
\* is the one ProcessLane expects, and what passed while it was prepared passes
\* when it is checked.
THEOREM OwnRejected ==
    ASSUME Mutex, EveryTxWanted
    PROVE  Spec => []OwnRejectedForFees
  <1>1. Init => OwnInv
    BY DEF Init, OwnInv
  <1>2. TypeInv /\ OwnInv /\ RejectedForCause => OwnRejectedForFees
    <2> SUFFICES ASSUME TypeInv, OwnInv, RejectedForCause, RejectsOwn PROVE ~FeesDescend(proc.txs)
      BY DEF OwnRejectedForFees
    <2>1. phase = "rejected" /\ proc.own /\ proc.lane # 0
      BY DEF RejectsOwn
    <2>2. DOMAIN proc.txs = 1..Len(proc.txs)
      BY DEF TypeInv, ProcInv
    <2> QED BY <2>1, <2>2 DEF OwnInv, RejectedForCause
  <1> QED BY <1>1, <1>2, TypeInit, TypeStep, PrepareInit, PrepareStep, OwnStep, DecidedInit, DecidedStep, PTL DEF Spec

-----------------------------------------------------------------------------
(* The auction. *)

\* The auction lane while it looks for a bid: every bid it has looked at was too large
\* or rejected, and what it rejected it has looked at.
LookedAt(it, t) ==
    \E i \in 1..Len(it.out) : it.out[i] = t /\ (it.at = "Tx" => i # Len(it.out))
Settled(it, remove, lim) ==
    \A t \in Txs : /\ LookedAt(it, t) => ~(TxSize(t) <= lim) \/ t \in remove
                   /\ t \in remove => LookedAt(it, t)
Seeking(mp, it, remove, lim) ==
    CursorsOK(mp, it) /\ LeadOK(mp, it) /\ TopInv(mp, it) /\ Settled(it, remove, lim)

\* The auction lane once it has a winner w: a bid that is worth more was too large or
\* rejected, or an earlier bid of its bidder holds it up.
HeldUp(mp, remove, b) ==
    \E c \in TxsOf(mp) : c.sender = b.sender /\ c.nonce < b.nonce /\ c \notin remove
Beats(mp, remove, lim, w, b) ==
    b.priority <= w.priority \/ ~(TxSize(b) <= lim) \/ b \in remove \/ HeldUp(mp, remove, b)
Chosen(mp, w, remove, lim) ==
    /\ w \in TxsOf(mp) /\ w \notin remove
    /\ \A b \in TxsOf(mp) : FreshAt(mp, b.sender, b.nonce) /\ FreshAt(mp, w.sender, w.nonce)
                               => Beats(mp, remove, lim, w, b)

LEMMA SeekStart ==
    ASSUME NEW mp, NEW it, it = NewIterator \/ it = NoIterator, NEW lim
    PROVE  Seeking(mp, it, {}, lim)
  <1>1. it.out = <<>> /\ it.at # "Tx"
    BY DEF NewIterator, NoIterator
  <1>2. TopInv(mp, it) /\ Settled(it, {}, lim)
    BY <1>1 DEF TopInv, Settled, LookedAt
  <1> QED BY <1>2, LeadStart DEF Seeking

\* The iterator looks for the next bid.
LEMMA SeekWalk ==
    ASSUME NEW mp, PoolOK(mp), NEW it \in LookIterators(mp), it.at \in {"iteratePriority", "Next"},
           NEW remove, NEW lim, Seeking(mp, it, remove, lim)
    PROVE  Seeking(mp, Advance(mp, it), remove, lim)
  <1>1. it \in GoodIterators(mp) /\ CursorsOK(mp, it) /\ LeadOK(mp, it) /\ Settled(it, remove, lim)
    BY DEF LookIterators, Seeking
  <1>2. it \in Iterators(mp) /\ it.out \in Seq(TxsOf(mp))
    BY <1>1 DEF GoodIterators, Iterators
  <1>3. ASSUME NEW nit, nit.out = it.out, nit.at # "Tx" PROVE Settled(nit, remove, lim) /\ TopInv(mp, nit)
    BY <1>1, <1>3 DEF Settled, LookedAt, TopInv
  <1>4. CASE it.at = "iteratePriority"
    <2>1. PICK nit : nit = IteratePriority(mp, it)
      OBVIOUS
    <2>2. CursorsOK(mp, nit) /\ LeadOK(mp, nit)
      BY <1>1, <1>4, <2>1, LeadIterate
    <2>3. nit.out = it.out /\ nit.at # "Tx"
      BY <1>2, <2>1 DEF IteratePriority, Iterators
    <2>4. Advance(mp, it) = nit
      BY <1>4, <2>1 DEF Advance
    <2> QED BY <1>3, <2>2, <2>3, <2>4 DEF Seeking
  <1>5. CASE it.at = "Next"
    <2>1. PICK nit : nit = IteratorNext(mp, it)
      OBVIOUS
    <2>2. CursorsOK(mp, nit) /\ LeadOK(mp, nit) /\ TopInv(mp, nit)
      BY <1>1, <1>5, <2>1, LeadNext, NextOnTop
    <2>3. Advance(mp, it) = nit
      BY <1>5, <2>1 DEF Advance
    <2>4. Settled(nit, remove, lim)
      <3>1. CASE nit = [it EXCEPT !.at = "iteratePriority"]
        <4>1. nit.out = it.out /\ nit.at # "Tx"
          BY <1>2, <3>1 DEF Iterators
        <4> QED BY <1>3, <4>1
      <3>2. CASE nit.at = "Tx" /\ \E tx \in TxsOf(mp) : nit.out = Append(it.out, tx)
        <4>1. Len(nit.out) = Len(it.out) + 1 /\ \A i \in 1..Len(it.out) : nit.out[i] = it.out[i]
          BY <1>2, <3>2
        <4>2. Len(it.out) \in Nat
          BY <1>2
        <4>3. \A t \in Txs : LookedAt(nit, t) <=> LookedAt(it, t)
          BY <1>5, <3>2, <4>1, <4>2 DEF LookedAt
        <4> QED BY <1>1, <4>3 DEF Settled
      <3> QED BY <1>1, <1>5, <2>1, <3>1, <3>2, IteratorNextCases
    <2> QED BY <2>2, <2>3, <2>4 DEF Seeking
  <1> QED BY <1>4, <1>5

\* The lane goes on after a bid that is too large, or that it rejects.
LEMMA SeekMore ==
    ASSUME NEW mp, PoolOK(mp), NEW it \in LookIterators(mp), it.at = "Tx",
           NEW remove \in SUBSET Txs, NEW more \in SUBSET Txs, NEW lim, Seeking(mp, it, remove, lim),
           \/ more = remove /\ ~(TxSize(Current(it)) <= lim)
           \/ more = remove \cup {Current(it)}
    PROVE  Seeking(mp, [it EXCEPT !.at = "Next"], more, lim)
  <1>1. it \in GoodIterators(mp) /\ CursorsOK(mp, it) /\ LeadOK(mp, it) /\ Settled(it, remove, lim)
    BY DEF LookIterators, Seeking
  <1>2. it \in Iterators(mp) /\ it.out \in Seq(TxsOf(mp)) /\ it.out # <<>>
    BY <1>1 DEF LookIterators, GoodIterators, Iterators
  <1>3. PICK nit : nit = [it EXCEPT !.at = "Next"]
    OBVIOUS
  <1>4. nit.out = it.out /\ nit.at = "Next"
    BY <1>2, <1>3 DEF Iterators
  <1>5. CursorsOK(mp, nit) /\ LeadOK(mp, nit)
    BY <1>1, <1>3, LeadMore
  <1>6. TopInv(mp, nit)
    BY <1>4 DEF TopInv
  <1>7. ASSUME NEW t \in Txs PROVE LookedAt(nit, t) <=> LookedAt(it, t) \/ t = Current(it)
    <2>1. Len(it.out) \in 1..Len(it.out)
      BY <1>2
    <2> QED BY <1>4, <2>1 DEF LookedAt, Current
  <1>8. Settled(nit, more, lim)
    BY <1>1, <1>7 DEF Settled
  <1> QED BY <1>3, <1>5, <1>6, <1>8 DEF Seeking

\* The bid the lane looks at beats every other one.
LEMMA SeekChosen ==
    ASSUME NEW mp, PoolOK(mp), NEW it \in LookIterators(mp), it.at = "Tx",
           NEW remove \in SUBSET Txs, NEW lim, Seeking(mp, it, remove, lim)
    PROVE  Chosen(mp, Current(it), remove, lim)
  <1>1. it \in GoodIterators(mp) /\ CursorsOK(mp, it) /\ LeadOK(mp, it) /\ TopInv(mp, it) /\ Settled(it, remove, lim)
    BY DEF LookIterators, Seeking
  <1>2. it \in Iterators(mp) /\ it.out \in Seq(TxsOf(mp)) /\ it.out # <<>>
    BY <1>1 DEF LookIterators, GoodIterators, Iterators
  <1>3. PICK w : w = Current(it)
    OBVIOUS
  <1>4. PICK last \in DOMAIN it.out : last = Len(it.out) /\ DOMAIN it.out = 1..last
    BY <1>2
  <1>5. w \in TxsOf(mp) /\ it.out[last] = w
    BY <1>2, <1>3, <1>4 DEF Current
  <1>6. TxsOf(mp) \subseteq Txs /\ \A t \in TxsOf(mp) : t.nonce \in Nat /\ t.priority \in Int
    <2>1. TxsOf(mp) \subseteq Txs
      BY DEF TxsOf, PoolOK, PoolType
    <2> QED BY <2>1, TxAssumption, NonceAssumption, PriorityAssumption DEF Tx
  <1>7. w \notin remove
    <2>1. SUFFICES ASSUME w \in remove PROVE FALSE
      OBVIOUS
    <2>2. LookedAt(it, w)
      BY <1>1, <2>1 DEF Settled
    <2>3. PICK i \in 1..Len(it.out) : it.out[i] = w /\ i # Len(it.out)
      BY <2>2 DEF LookedAt
    <2>4. i \in 1..(Len(it.out) - 1)
      BY <1>2, <2>3
    <2> QED BY <1>1, <1>3, <2>3, <2>4 DEF TopInv
  <1>8. ASSUME NEW b \in TxsOf(mp), FreshAt(mp, b.sender, b.nonce), FreshAt(mp, w.sender, w.nonce)
        PROVE  Beats(mp, remove, lim, w, b)
    <2>1. CASE \E i \in DOMAIN it.out : it.out[i] = b
      <3>1. CASE LookedAt(it, b)
        BY <1>1, <1>6, <3>1 DEF Settled, Beats
      <3>2. CASE ~LookedAt(it, b)
        <4>1. b = w
          BY <1>4, <1>5, <2>1, <3>2 DEF LookedAt
        <4> QED BY <1>6, <4>1 DEF Beats
      <3> QED BY <3>1, <3>2
    <2>2. CASE \A i \in DOMAIN it.out : it.out[i] # b
      <3> DEFINE waits == {o \in TxsOf(mp) : (\A i \in DOMAIN it.out : it.out[i] # o) /\ o.sender = b.sender}
      <3>1. ASSUME NEW o \in waits PROVE o \notin remove
        <4>1. ~LookedAt(it, o)
          BY <1>4 DEF LookedAt
        <4> QED BY <1>1, <1>6, <4>1 DEF Settled
      <3>2. CASE \E o \in waits : o.nonce < b.nonce
        BY <3>1, <3>2 DEF Beats, HeldUp
      <3>3. CASE \A o \in waits : ~(o.nonce < b.nonce)
        <4>1. \A o \in TxsOf(mp) : (\A i \in DOMAIN it.out : it.out[i] # o) /\ o.sender = b.sender
                                      => b.nonce <= o.nonce
          BY <1>6, <3>3
        <4>2. b.sender \in Senders /\ b.nonce \in Nonces /\ IsHead(mp, it, b.sender, b.nonce)
          BY <1>1, <2>2, <4>1, HeadsAreNext
        <4>3. b = mp.senderIndices[b.sender][b.nonce].tx /\ w = mp.senderIndices[w.sender][w.nonce].tx
          BY <1>1, <1>5, LeftAhead
        <4>4. CASE b.sender # w.sender
          <5>1. b.priority <= mp.senderIndices[w.sender][w.nonce].priority
            <6>1. mp.senderIndices[b.sender][b.nonce].tx.priority <= mp.senderIndices[w.sender][w.nonce].priority
              BY <1>1, <1>3, <1>8, <4>2, <4>4 DEF TopInv
            <6> QED BY <4>3, <6>1
          <5>2. mp.senderIndices[w.sender][w.nonce].priority = w.priority
            BY <1>8, <4>3 DEF FreshAt
          <5> QED BY <5>1, <5>2 DEF Beats
        <4>5. CASE b.sender = w.sender
          <5>1. w.sender \in DOMAIN it.cursors /\ w.nonce <= it.cursors[w.sender]
            BY <1>1, <1>5 DEF CursorsOK
          <5>2. b.nonce > it.cursors[w.sender]
            BY <4>2, <4>5, <5>1 DEF IsHead, IsAhead
          <5>3. it.cursors[w.sender] \in Nat
            <6>1. PICK D \in SUBSET Senders : it.cursors \in [D -> Nonces]
              BY <1>2 DEF Iterators
            <6> QED BY <5>1, <6>1, NonceAssumption
          <5>4. w.nonce < b.nonce
            BY <1>5, <1>6, <5>1, <5>2, <5>3
          <5> QED BY <1>5, <1>7, <4>5, <5>4 DEF Beats, HeldUp
        <4> QED BY <4>4, <4>5
      <3> QED BY <3>2, <3>3
    <2> QED BY <2>1, <2>2
  <1> QED BY <1>3, <1>5, <1>7, <1>8 DEF Chosen

\* The highest bid wins, said of a lane and a proposal.
Wins(mp, txs, max) ==
    (\A s \in DOMAIN mp.senderIndices : \A n \in DOMAIN mp.senderIndices[s] : FreshAt(mp, s, n))
    /\ txs # <<>> /\ IsBid(txs[1])
      => \A b \in TxsOf(mp) :
            (\A c \in TxsOf(mp) : c.sender = b.sender => c.nonce >= b.nonce) /\ b.priority > txs[1].priority
               => TxSize(b) > LaneMax(NewProposal(max), TOBLane)

\* Once what the lane rejected has left, no open bid is worth more than the winner and
\* fits.
LEMMA ChosenWins ==
    ASSUME NEW cm, LaneOK(cm), NEW remove \in Seq(Txs), TxSet(remove) \subseteq TxsOf(cm.index),
           NEW new, new = RemoveTxsFromLane(cm, remove), NEW txs \in Seq(Txs), NEW max \in Nat,
           Chosen(cm.index, txs[1], TxSet(remove), LaneMax(NewProposal(max), TOBLane))
    PROVE  Wins(new.index, txs, max)
  <1> DEFINE lim == LaneMax(NewProposal(max), TOBLane)
             old == cm.index
             mp == new.index
             gone == {ScoreKey(remove[i]) : i \in 1..Len(remove)}
             w == txs[1]
  <1>1. lim \in Int
    <2>1. PICK a \in Nat : a = MaxBlockSpace[TOBLane][1]
      BY BlockSpaceAssumption, LanesAssumption DEF Lanes, TOBLane
    <2>2. PICK d \in Nat \ {0} : d = MaxBlockSpace[TOBLane][2]
      BY BlockSpaceAssumption, LanesAssumption DEF Lanes, TOBLane
    <2>3. PICK q \in Int : q = a * max
      OBVIOUS
    <2>4. q \div d \in Int
      OBVIOUS
    <2>5. lim = IF a = 0 THEN (IF max < 0 THEN 0 ELSE max - 0) ELSE q \div d
      BY <2>1, <2>2, <2>3 DEF LaneMax, GetMaxTxBytesForLane, NewProposal
    <2> QED BY <2>4, <2>5
  <1>2. LaneOK(new) /\ PoolOK(old) /\ PoolOK(mp)
    BY RemoveTxsOK DEF LaneOK
  <1>3. TxsOf(old) \subseteq Txs /\ \A t \in TxsOf(old) : t.nonce \in Nat /\ t.priority \in Int /\ t.signed
    <2>1. TxsOf(old) \subseteq Txs /\ \A t \in TxsOf(old) : t.signed
      BY <1>2 DEF TxsOf, PoolOK, PoolType, LaneOK, Removable
    <2> QED BY <2>1, TxAssumption, NonceAssumption, PriorityAssumption DEF Tx
  <1>4. DOMAIN remove = 1..Len(remove) /\ \A i \in 1..Len(remove) : remove[i] \in TxsOf(old)
    BY DEF TxSet
  <1>5. LeftOf(cm, new, gone)
    BY <1>3, <1>4, RemoveTxsLeaves
  <1>6. \A t \in TxsOf(old) : t \in TxsOf(mp) <=> t \notin TxSet(remove)
    <2>1. \A t \in TxsOf(old) : ScoreKey(t) \in gone <=> t \in TxSet(remove)
      <3> TAKE t \in TxsOf(old)
      <3>1. ASSUME NEW i \in 1..Len(remove), ScoreKey(t) = ScoreKey(remove[i]) PROVE t = remove[i]
        BY <1>2, <1>4, <3>1, OnePerKey
      <3> QED BY <1>4, <3>1 DEF TxSet
    <2> HIDE DEF gone
    <2> QED BY <1>5, <2>1 DEF LeftOf
  <1>7. /\ TxsOf(mp) \subseteq TxsOf(old)
        /\ \A t \in TxsOf(mp) : mp.senderIndices[t.sender][t.nonce] = old.senderIndices[t.sender][t.nonce]
    <2> HIDE DEF gone
    <2> QED BY <1>5 DEF LeftOf
  <1>8. ASSUME NEW t \in TxsOf(mp)
        PROVE  t.sender \in DOMAIN mp.senderIndices /\ t.nonce \in DOMAIN mp.senderIndices[t.sender]
    <2>1. NewIterator \in GoodIterators(mp) /\ CursorsOK(mp, NewIterator)
      BY FreshIteratorGood, LeadStart
    <2> QED BY <1>2, <2>1, LeftAhead
  <1> HIDE DEF lim, gone, old, mp
  <1>9. w \in TxsOf(mp)
    BY <1>6 DEF Chosen, old
  <1>10. ASSUME \A s \in DOMAIN mp.senderIndices : \A n \in DOMAIN mp.senderIndices[s] : FreshAt(mp, s, n),
                NEW b \in TxsOf(mp), \A c \in TxsOf(mp) : c.sender = b.sender => c.nonce >= b.nonce,
                b.priority > w.priority
         PROVE  TxSize(b) > lim
    <2>1. FreshAt(mp, b.sender, b.nonce) /\ FreshAt(mp, w.sender, w.nonce)
      BY <1>8, <1>9, <1>10
    <2>2. FreshAt(old, b.sender, b.nonce) /\ FreshAt(old, w.sender, w.nonce)
      BY <1>7, <1>9, <2>1 DEF FreshAt
    <2>3. Beats(old, TxSet(remove), lim, w, b)
      BY <1>7, <2>2 DEF Chosen, old, lim
    <2>4. ~(b.priority <= w.priority)
      BY <1>3, <1>7, <1>9, <1>10
    <2>5. b \notin TxSet(remove)
      BY <1>6, <1>7
    <2>6. ~HeldUp(old, TxSet(remove), b)
      <3>1. SUFFICES ASSUME NEW c \in TxsOf(old), c.sender = b.sender, c.nonce < b.nonce, c \notin TxSet(remove)
                     PROVE  FALSE
        BY DEF HeldUp
      <3>2. c \in TxsOf(mp)
        BY <1>6, <3>1
      <3> QED BY <1>3, <1>7, <1>10, <3>1, <3>2
    <2>7. ~(TxSize(b) <= lim)
      BY <2>3, <2>4, <2>5, <2>6 DEF Beats
    <2>8. TxSize(b) \in Nat
      BY <1>3, <1>7, ContentFacts
    <2> QED BY <1>1, <2>7, <2>8
  <1> QED BY <1>10 DEF Wins, mp, lim

\* What holds of the auction while a proposal is prepared: the auction lane, the first
\* one, looks for a bid or has chosen one; afterwards the highest one has won, and no
\* other lane selects bids.
Tob == lanes[TOBLane].index
AuctionLane ==
    /\ prop = NewProposal(prop.max)
    /\ TxSet(prep.remove) \subseteq TxsOf(Tob)
    /\ prep.txs = <<>> => Seeking(Tob, prep.it, TxSet(prep.remove), LaneMax(prop, TOBLane))
    /\ prep.txs # <<>> => /\ prep.it = NoIterator
                          /\ Chosen(Tob, prep.txs[1], TxSet(prep.remove), LaneMax(prop, TOBLane))
AuctionDone ==
    /\ \A i \in 1..Len(prep.txs) : ~IsBid(prep.txs[i])
    /\ Wins(Tob, prop.txs, prop.max)
AuctionInv ==
    phase = "prepare" => /\ prep.lane = TOBLane => AuctionLane
                         /\ prep.lane # TOBLane => AuctionDone

\* A lane that is entered leaves the mempools of the others alone.
LEMMA EnterOthers ==
    ASSUME NEW pools, pools = [l \in Lanes |-> pools[l]], NEW l \in Nat, l # TOBLane, NEW ctx,
           EnterLane(pools, l, ctx)
    PROVE  lanes'[TOBLane] = pools[TOBLane]
  <1>1. TOBLane \in Lanes
    BY LanesAssumption DEF Lanes, TOBLane
  <1>2. CASE l > NumLanes
    BY <1>2 DEF EnterLane
  <1>3. CASE ~(l > NumLanes)
    <2>1. PICK cm : lanes' = [pools EXCEPT ![l] = cm]
      BY <1>3 DEF EnterLane
    <2> QED BY <1>1, <2>1
  <1> QED BY <1>2, <1>3

\* Of a proposal without transactions nobody is the winner.
LEMMA NobodyWins ==
    ASSUME NEW mp, NEW txs, NEW max, txs = <<>> \/ ~IsBid(txs[1])
    PROVE  Wins(mp, txs, max)
  BY DEF Wins

\* The auction lane begins with a proposal that holds nothing.
LEMMA AuctionStart ==
    ASSUME TypeInv, NEW max \in BlockSizes, PrepareProposal(max)
    PROVE  AuctionInv'
  <1>1. /\ phase' = "prepare" /\ prop' = NewProposal(max) /\ prep'.lane = 1 /\ prep'.txs = <<>>
        /\ EnterLane(lanes, 1, state)
    BY PrepareProposalFacts DEF PrepareProposal
  <1>2. TOBLane = 1 /\ ~(1 > NumLanes)
    BY LanesAssumption DEF TOBLane
  <1>3. PICK cm : prep' = [lane |-> 1, ctx |-> state, laneCtx |-> state, it |-> SelectIterator(cm.index),
                           txs |-> <<>>, remove |-> <<>>]
    BY <1>1, <1>2 DEF EnterLane
  <1>4. prep'.remove = <<>> /\ (prep'.it = NewIterator \/ prep'.it = NoIterator)
    BY <1>3 DEF SelectIterator
  <1>5. TxSet(<<>>) = {} /\ prop' = NewProposal(prop'.max)
    BY <1>1 DEF TxSet, NewProposal
  <1>6. Seeking(Tob', prep'.it, {}, LaneMax(prop', TOBLane))
    BY <1>4, SeekStart
  <1>7. AuctionLane'
    BY <1>1, <1>4, <1>5, <1>6 DEF AuctionLane
  <1> QED BY <1>1, <1>2, <1>7 DEF AuctionInv

LEMMA AuctionWalk ==
    ASSUME TypeInv, AuctionInv, Walk
    PROVE  AuctionInv'
  <1>1. /\ phase = "prepare" /\ prep.it.at \in {"iteratePriority", "Next"}
        /\ UNCHANGED <<lanes, phase, prop>> /\ prep' = [prep EXCEPT !.it = Advance(Pool, prep.it)]
    BY DEF Walk, NothingElse, mempool
  <1>2. PICK it : it = Advance(Pool, prep.it)
    OBVIOUS
  <1>3. /\ prep'.txs = prep.txs /\ prep'.lane = prep.lane /\ prep'.remove = prep.remove /\ prep'.it = it
    BY <1>1, <1>2 DEF TypeInv, PrepInv
  <1>4. CASE prep.lane # TOBLane
    <2>1. AuctionDone'
      BY <1>1, <1>3, <1>4 DEF AuctionInv, AuctionDone, Tob
    <2> QED BY <1>3, <1>4, <2>1 DEF AuctionInv
  <1>5. CASE prep.lane = TOBLane
    <2>1. AuctionLane /\ prep.txs = <<>>
      BY <1>1, <1>5 DEF AuctionInv, AuctionLane, NoIterator
    <2>2. prep.lane \in Lanes /\ Pool = Tob
      BY <1>5, LanesAssumption DEF Lanes, TOBLane, Pool, Tob
    <2>3. prep.it \in LookIterators(Tob) /\ PoolOK(Tob)
      BY <1>1, <1>5, <2>2 DEF TypeInv, PrepInv, LanesInv, LanesOK, LaneOK, Tob
    <2>4. PICK remove : remove = TxSet(prep.remove)
      OBVIOUS
    <2>5. PICK lim : lim = LaneMax(prop, TOBLane)
      OBVIOUS
    <2>6. Seeking(Tob, prep.it, remove, lim)
      BY <2>1, <2>4, <2>5 DEF AuctionLane
    <2>7. Seeking(Tob, it, remove, lim)
      BY <1>1, <1>2, <2>2, <2>3, <2>6, SeekWalk
    <2>8. TxSet(prep'.remove) = remove /\ LaneMax(prop', TOBLane) = lim /\ Tob' = Tob
      BY <1>1, <1>3, <2>4, <2>5 DEF Tob
    <2>9. AuctionLane'
      BY <1>1, <1>3, <2>1, <2>4, <2>7, <2>8 DEF AuctionLane
    <2> QED BY <1>3, <1>5, <2>9 DEF AuctionInv
  <1> QED BY <1>4, <1>5

\* The auction lane looks at a bid. Nothing is in the proposal yet, so that the lane
\* skips it only if it is too large.
LEMMA AuctionLook ==
    ASSUME TypeInv, AuctionInv, NEW tx \in Submitted, Look(tx), prep.lane = TOBLane
    PROVE  AuctionLane'
  <1>1. /\ UNCHANGED <<lanes, phase, prop>> /\ Looking /\ tx = Current(prep.it)
    BY LookType
  <1>2. /\ phase = "prepare" /\ prep.it.at = "Tx" /\ prep.it \in LookIterators(Tob) /\ tx \in TxsOf(Tob) /\ PoolOK(Tob)
    BY <1>1, LookingFacts DEF Looking, Tob, TypeInv, LanesInv, LanesOK, LaneOK
  <1>3. AuctionLane /\ prep.txs = <<>>
    BY <1>2 DEF AuctionInv, AuctionLane, NoIterator
  <1>4. PICK remove : remove = TxSet(prep.remove)
    OBVIOUS
  <1>5. PICK lim : lim = LaneMax(prop, TOBLane)
    OBVIOUS
  <1>6. Seeking(Tob, prep.it, remove, lim) /\ prop = NewProposal(prop.max) /\ remove \subseteq TxsOf(Tob)
    BY <1>3, <1>4, <1>5 DEF AuctionLane
  <1>7. remove \in SUBSET Txs /\ tx \in Txs /\ prep.remove \in Seq(Txs)
    BY <1>4, SubmittedAssumption DEF TxSet, TypeInv, PrepInv
  <1>8. prop.cache = {} /\ LaneMax(prop', TOBLane) = lim /\ Tob' = Tob
    BY <1>1, <1>5, <1>6 DEF NewProposal, Tob
  <1>9. prep = [lane |-> prep.lane, ctx |-> prep.ctx, laneCtx |-> prep.laneCtx, it |-> prep.it,
                txs |-> prep.txs, remove |-> prep.remove]
    BY DEF TypeInv, PrepInv
  <1>10. CASE SkipBid(tx)
    <2>1. ~(TxSize(tx) <= lim) /\ prep' = [prep EXCEPT !.it = NextTx]
      BY <1>5, <1>8, <1>10 DEF SkipBid, BidFits, BundleInProposal
    <2>2. PICK nit : nit = [prep.it EXCEPT !.at = "Next"]
      OBVIOUS
    <2>3. prep'.it = nit /\ prep'.txs = <<>> /\ prep'.remove = prep.remove
      BY <1>3, <1>9, <2>1, <2>2 DEF NextTx
    <2>4. Seeking(Tob, nit, remove, lim)
      BY <1>1, <1>2, <1>6, <1>7, <2>1, <2>2, SeekMore
    <2> QED BY <1>1, <1>4, <1>6, <1>8, <2>3, <2>4 DEF AuctionLane
  <1>11. CASE RejectBid(tx)
    <2>1. prep' = [prep EXCEPT !.it = NextTx, !.remove = Append(prep.remove, tx)]
      BY <1>11 DEF RejectBid
    <2>2. PICK nit : nit = [prep.it EXCEPT !.at = "Next"]
      OBVIOUS
    <2>3. PICK rejected : rejected = Append(prep.remove, tx)
      OBVIOUS
    <2>4. prep'.it = nit /\ prep'.txs = <<>> /\ prep'.remove = rejected
      BY <1>3, <1>9, <2>1, <2>2, <2>3 DEF NextTx
    <2>5. TxSet(rejected) = remove \cup {tx}
      <3>1. DOMAIN rejected = DOMAIN prep.remove \cup {Len(prep.remove) + 1}
        BY <1>7, <2>3
      <3>2. rejected[Len(prep.remove) + 1] = tx /\ \A i \in DOMAIN prep.remove : rejected[i] = prep.remove[i]
        BY <1>7, <2>3
      <3> QED BY <1>4, <3>1, <3>2 DEF TxSet
    <2>6. PICK more \in SUBSET Txs : more = remove \cup {tx}
      BY <1>7
    <2>7. Seeking(Tob, nit, more, lim)
      BY <1>1, <1>2, <1>6, <1>7, <2>2, <2>6, SeekMore
    <2>8. TxSet(prep'.remove) = more /\ more \subseteq TxsOf(Tob)
      BY <1>2, <1>6, <2>4, <2>5, <2>6
    <2> QED BY <1>1, <1>6, <1>8, <2>4, <2>7, <2>8 DEF AuctionLane
  <1>12. CASE SelectBid(tx)
    <2>1. prep' = [prep EXCEPT !.it = NoIterator, !.txs = <<tx>> \o Bundle(tx), !.laneCtx = BidVerified(tx).st]
      BY <1>12 DEF SelectBid
    <2>2. PICK part : part = <<tx>> \o Bundle(tx)
      OBVIOUS
    <2>3. Bundle(tx) \in Seq(Txs)
      BY <1>7, ContentFacts
    <2>4. part # <<>> /\ part[1] = tx
      BY <1>7, <2>2, <2>3
    <2>5. prep'.it = NoIterator /\ prep'.txs = part /\ prep'.remove = prep.remove
      BY <1>9, <2>1, <2>2
    <2>6. Chosen(Tob, tx, remove, lim)
      BY <1>1, <1>2, <1>6, <1>7, SeekChosen
    <2> QED BY <1>1, <1>4, <1>6, <1>8, <2>4, <2>5, <2>6 DEF AuctionLane
  <1> QED BY <1>10, <1>11, <1>12 DEF Look, RejectTx, SkipTx, LaneFull, SelectTx, LookingAtTx

\* Every other lane looks at transactions that are not bids.
LEMMA OtherLook ==
    ASSUME TypeInv, AuctionInv, NEW tx \in Submitted, Look(tx), prep.lane # TOBLane
    PROVE  AuctionDone'
  <1>1. /\ UNCHANGED <<lanes, phase, prop>> /\ Looking /\ tx = Current(prep.it) /\ LookOutcome(tx)
    BY LookType
  <1>2. phase = "prepare" /\ prep.lane \in Lanes /\ tx \in TxsOf(lanes[prep.lane].index) /\ tx \in Txs
    BY <1>1, LookingFacts, SubmittedAssumption
  <1>3. ~IsBid(tx)
    BY <1>2 DEF TypeInv, LanesInv, LanesOK, IsBid
  <1>4. AuctionDone
    BY <1>2 DEF AuctionInv
  <1>5. PICK part : part = prep.txs
    OBVIOUS
  <1>6. part \in Seq(Txs) /\ \A i \in 1..Len(part) : ~IsBid(part[i])
    BY <1>4, <1>5 DEF TypeInv, PrepInv, AuctionDone
  <1>7. prep'.txs = part \/ prep'.txs = Append(part, tx)
    BY <1>1, <1>5 DEF LookOutcome
  <1>8. PICK new : new = Append(part, tx)
    OBVIOUS
  <1>9. Len(new) = Len(part) + 1 /\ new[Len(part) + 1] = tx /\ \A i \in 1..Len(part) : new[i] = part[i]
    BY <1>2, <1>6, <1>8
  <1>10. \A i \in 1..Len(new) : ~IsBid(new[i])
    <2> TAKE i \in 1..Len(new)
    <2>1. i \in 1..Len(part) \/ i = Len(part) + 1
      BY <1>6, <1>9
    <2> QED BY <1>3, <1>6, <1>9, <2>1
  <1>11. \A i \in 1..Len(prep'.txs) : ~IsBid(prep'.txs[i])
    BY <1>6, <1>7, <1>8, <1>10
  <1>12. Wins(Tob', prop'.txs, prop'.max)
    BY <1>1, <1>4 DEF AuctionDone, Tob
  <1> QED BY <1>11, <1>12 DEF AuctionDone

\* What another lane adds to the proposal leaves the winner in front and makes no other.
LEMMA WinsOn ==
    ASSUME NEW mp, NEW a \in Seq(Txs), NEW b \in Seq(Txs), NEW max, Wins(mp, a, max),
           \A i \in 1..Len(b) : ~IsBid(b[i])
    PROVE  Wins(mp, a \o b, max)
  <1>1. CASE a = <<>>
    <2>1. a \o b = b
      BY <1>1
    <2>2. b # <<>> => 1 \in 1..Len(b)
      OBVIOUS
    <2> QED BY <2>1, <2>2, NobodyWins
  <1>2. CASE a # <<>>
    <2>1. (a \o b)[1] = a[1]
      BY <1>2
    <2> QED BY <1>2, <2>1 DEF Wins
  <1> QED BY <1>1, <1>2

\* A lane's turn ends.
LEMMA AuctionFinish ==
    ASSUME TypeInv, AuctionInv, FinishLane
    PROVE  AuctionInv'
  <1>1. /\ TypeInv' /\ UNCHANGED phase /\ phase = "prepare" /\ prep.lane \in Lanes
        /\ prop' = UpdateProposal(prop, prep.lane, prep.txs) /\ prep'.lane = prep.lane + 1 /\ prep'.txs = <<>>
    BY FinishLaneFacts
  <1>2. PICK l : l = prep.lane
    OBVIOUS
  <1>3. l \in Lanes /\ l \in Nat /\ l + 1 \in Nat /\ l + 1 # TOBLane /\ TOBLane \in Lanes
    BY <1>1, <1>2, LanesAssumption DEF Lanes, TOBLane
  <1>4. PICK cm : cm = RemoveTxsFromLane(lanes[l], prep.remove)
    OBVIOUS
  <1>5. PICK pools : pools = [lanes EXCEPT ![l] = cm]
    OBVIOUS
  <1>6. PICK ctx : EnterLane(pools, l + 1, ctx)
    BY <1>2, <1>4, <1>5 DEF FinishLane
  <1>7. lanes = [k \in Lanes |-> lanes[k]] /\ LaneOK(lanes[TOBLane])
    BY <1>3 DEF TypeInv, LanesInv, LanesOK
  <1>8. pools = [k \in Lanes |-> pools[k]] /\ pools[TOBLane] = IF l = TOBLane THEN cm ELSE lanes[TOBLane]
    BY <1>3, <1>5, <1>7
  <1>9. lanes'[TOBLane] = IF l = TOBLane THEN cm ELSE lanes[TOBLane]
    BY <1>3, <1>6, <1>8, EnterOthers
  <1>10. PICK a \in Seq(Txs) : a = prop.txs
    BY DEF TypeInv, PropInv
  <1>11. PICK b \in Seq(Txs) : b = prep.txs
    BY DEF TypeInv, PrepInv
  <1>12. PICK max \in Nat : max = prop.max
    BY DEF TypeInv, PropInv
  <1>13. (prop'.txs = a \/ prop'.txs = a \o b) /\ prop'.max = max
    BY <1>1, <1>10, <1>11, <1>12 DEF UpdateProposal, TypeInv, PropInv
  <1>14. Wins(Tob', prop'.txs, max)
    <2>1. CASE l # TOBLane
      <3>1. Wins(Tob, a, max) /\ \A i \in 1..Len(b) : ~IsBid(b[i])
        BY <1>1, <1>2, <1>10, <1>11, <1>12, <2>1 DEF AuctionInv, AuctionDone
      <3>2. Tob' = Tob
        BY <1>9, <2>1 DEF Tob
      <3> QED BY <1>13, <3>1, <3>2, WinsOn
    <2>2. CASE l = TOBLane
      <3>1. AuctionLane
        BY <1>1, <1>2, <2>2 DEF AuctionInv
      <3>2. prop = NewProposal(max) /\ a = <<>>
        BY <1>10, <1>12, <3>1 DEF AuctionLane, NewProposal
      <3>3. prop'.txs = <<>> \/ prop'.txs = b
        BY <1>13, <3>2
      <3>4. CASE prop'.txs = <<>>
        BY <3>4, NobodyWins
      <3>5. CASE prop'.txs = b /\ b # <<>>
        <4>1. PICK remove \in Seq(Txs) : remove = prep.remove
          BY DEF TypeInv, PrepInv
        <4>2. PICK old : old = lanes[TOBLane]
          OBVIOUS
        <4>3. TxSet(remove) \subseteq TxsOf(old.index)
          BY <3>1, <4>1, <4>2 DEF AuctionLane, Tob
        <4>4. Chosen(old.index, b[1], TxSet(remove), LaneMax(NewProposal(max), TOBLane))
          BY <1>11, <3>1, <3>2, <3>5, <4>1, <4>2 DEF AuctionLane, Tob
        <4>5. LaneOK(old) /\ cm = RemoveTxsFromLane(old, remove)
          BY <1>4, <1>7, <2>2, <4>1, <4>2
        <4>6. Wins(cm.index, b, max)
          BY <4>3, <4>4, <4>5, ChosenWins
        <4>7. Tob' = cm.index
          BY <1>9, <2>2 DEF Tob
        <4> QED BY <3>5, <4>6, <4>7
      <3> QED BY <3>3, <3>4, <3>5
    <2> QED BY <2>1, <2>2
  <1>15. AuctionDone'
    BY <1>1, <1>13, <1>14 DEF AuctionDone
  <1> QED BY <1>1, <1>2, <1>3, <1>15 DEF AuctionInv

LEMMA AuctionPanics ==
    ASSUME TypeInv, AuctionInv, LanePanics
    PROVE  AuctionInv'
  <1>1. /\ UNCHANGED <<phase, prop>> /\ phase = "prepare" /\ prep.lane \in Lanes
        /\ prep'.lane = prep.lane + 1 /\ prep'.txs = <<>>
    BY LanePanicsFacts
  <1>2. PICK l : l = prep.lane + 1
    OBVIOUS
  <1>3. l \in Nat /\ l # TOBLane
    BY <1>1, <1>2, LanesAssumption DEF Lanes, TOBLane
  <1>4. PICK ctx : EnterLane(lanes, l, ctx)
    BY <1>2 DEF LanePanics
  <1>5. lanes = [k \in Lanes |-> lanes[k]]
    BY DEF TypeInv, LanesInv, LanesOK
  <1>6. PICK pools : pools = lanes
    OBVIOUS
  <1>7. lanes'[TOBLane] = pools[TOBLane]
    BY <1>3, <1>4, <1>5, <1>6, EnterOthers
  <1>8. Tob' = Tob
    BY <1>6, <1>7 DEF Tob
  <1>9. Wins(Tob, prop.txs, prop.max)
    <2>1. CASE prep.lane # TOBLane
      BY <1>1, <2>1 DEF AuctionInv, AuctionDone
    <2>2. CASE prep.lane = TOBLane
      <3>1. prop.txs = <<>>
        BY <1>1, <2>2 DEF AuctionInv, AuctionLane, NewProposal
      <3> QED BY <3>1, NobodyWins
    <2> QED BY <2>1, <2>2
  <1>10. AuctionDone'
    BY <1>1, <1>8, <1>9 DEF AuctionDone
  <1> QED BY <1>1, <1>2, <1>3, <1>10 DEF AuctionInv

LEMMA AuctionStep == TypeInv /\ AuctionInv /\ [Next]_vars => AuctionInv'
  <1> SUFFICES ASSUME TypeInv, AuctionInv, [Next]_vars PROVE AuctionInv'
    OBVIOUS
  <1>1. ASSUME phase' # "prepare" PROVE AuctionInv'
    BY <1>1 DEF AuctionInv
  <1>2. CASE \E tx \in Submitted : CheckTx(tx) \/ RecheckTx(tx) \/ CheckBid(tx)
    <2>1. phase' = "idle"
      BY <1>2 DEF CheckTx, RecheckTx, CheckBid
    <2> QED BY <1>1, <2>1
  <1>3. ASSUME NEW tx \in Submitted, Look(tx) PROVE AuctionInv'
    <2>1. prep'.lane = prep.lane
      BY <1>3, LookType
    <2>2. prep.lane = TOBLane => AuctionLane'
      BY <1>3, AuctionLook
    <2>3. prep.lane # TOBLane => AuctionDone'
      BY <1>3, OtherLook
    <2> QED BY <2>1, <2>2, <2>3 DEF AuctionInv
  <1>4. CASE Propose
    <2>1. phase' = "process"
      BY <1>4, ProposeFacts
    <2> QED BY <1>1, <2>1
  <1>5. CASE ReceiveProposal \/ ProcessLaneStep \/ ProcessPanics
    <2>1. phase' # "prepare"
      BY <1>5, ReceiveFacts, ProcessStepFacts, ProcessPanicsFacts DEF ProcessOutcome
    <2> QED BY <1>1, <2>1
  <1>6. CASE NextRound \/ Commit
    <2>1. phase' = "idle"
      BY <1>6 DEF NextRound, Commit
    <2> QED BY <1>1, <2>1
  <1>7. CASE UNCHANGED vars
    <2>1. UNCHANGED <<lanes, phase, prop, prep>>
      BY <1>7 DEF vars
    <2> QED BY <2>1 DEF AuctionInv, AuctionLane, AuctionDone, Tob
  <1> QED BY <1>2, <1>3, <1>4, <1>5, <1>6, <1>7, AuctionStart, AuctionWalk, AuctionFinish, AuctionPanics DEF Next

\* If no bid of the auction lane was replaced by one of another amount, the highest
\* bid wins: of the bids left in the lane that no earlier bid of their bidder holds up,
\* one that is worth more than the winner is too large for the lane. It does not matter
\* which bids the lane rejected or skipped on the way, whether their keys were up to
\* date, and which of the later lanes panicked.
THEOREM HighestWins == Spec => []HighestFreshBidWins
  <1>1. Init => AuctionInv
    BY DEF Init, AuctionInv
  <1>2. AuctionInv => HighestFreshBidWins
    <2> SUFFICES ASSUME AuctionInv, TOBKeysFresh, AuctionWon PROVE HighestBidWins
      BY DEF HighestFreshBidWins, HighestBidWins
    <2>1. phase = "prepare" /\ prep.lane > TOBLane /\ prop.txs # <<>> /\ IsBid(prop.txs[1])
      BY DEF AuctionWon, Winner
    <2>2. prep.lane # TOBLane
      BY <2>1 DEF TOBLane
    <2>3. Wins(Tob, prop.txs, prop.max)
      BY <2>1, <2>2 DEF AuctionInv, AuctionDone
    <2>4. \A s \in DOMAIN Tob.senderIndices : \A n \in DOMAIN Tob.senderIndices[s] : FreshAt(Tob, s, n)
      BY DEF TOBKeysFresh, FreshAt, Tob
    <2> QED BY <2>1, <2>3, <2>4 DEF Wins, HighestBidWins, OpenBids, Winner, Tob
  <1> QED BY <1>1, <1>2, TypeInit, TypeStep, AuctionStep, PTL DEF Spec

==============================================================================
