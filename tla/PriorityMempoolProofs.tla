------------------------ MODULE PriorityMempoolProofs ------------------------
(***************************************************************************)
(* Theorems about PriorityMempool, for every set of senders, nonces and    *)
(* priorities, every MaxTx and both behaviours of skiplist.Set.            *)
(***************************************************************************)
EXTENDS PriorityMempool, PriorityNonceProofs

-----------------------------------------------------------------------------
(* The pool. *)

\* The pool's part of the inductive invariant.
PoolInv == PoolOK(mp) /\ CapacityRespected

\* The pool stays consistent whatever is inserted, removed and selected.
LEMMA PoolInit == Init => PoolInv
  <1> SUFFICES ASSUME Init PROVE PoolOK(mp) /\ CapacityRespected
    BY DEF PoolInv
  <1>1. PoolOK(mp)
    BY NewPoolOK DEF Init
  <1>2. CountTx(mp) = 0
    BY FS_EmptySet DEF Init, CountTx, EmptyPool, EmptyList
  <1>3. MaxTx > 0 => CountTx(mp) <= MaxTx
    BY <1>2, MaxTxAssumption
  <1> QED BY <1>1, <1>3 DEF CapacityRespected

LEMMA PoolStep == PoolInv /\ [Next]_vars => PoolInv'
  <1> SUFFICES ASSUME PoolOK(mp), CapacityRespected, [Next]_vars
               PROVE  PoolOK(mp') /\ CapacityRespected'
    BY DEF PoolInv
  <1>1. CountTx(mp) \in Nat
    BY CountIsScores DEF PoolOK
  <1>2. ASSUME NEW tx \in Txs, InsertTx(tx) PROVE PoolOK(mp') /\ CapacityRespected'
    <2>1. mp' = Insert(mp, tx, MaxTx)
      BY <1>2 DEF InsertTx
    <2>2. PoolOK(mp')
      BY <2>1, InsertOK, MaxTxAssumption
    <2>3. MaxTx > 0 => CountTx(mp') <= MaxTx
      BY <2>1, InsertCount, MaxTxAssumption DEF CapacityRespected
    <2> QED BY <2>2, <2>3 DEF CapacityRespected
  <1>3. ASSUME NEW tx \in Txs, RemoveTx(tx) PROVE PoolOK(mp') /\ CapacityRespected'
    <2>1. mp' = Remove(mp, tx)
      BY <1>3 DEF RemoveTx
    <2>2. PoolOK(mp')
      BY <2>1, RemoveOK
    <2>3. CountTx(mp') <= CountTx(mp) /\ CountTx(mp') \in Nat
      BY <2>1, <2>2, RemoveCount, CountIsScores DEF PoolOK
    <2>4. MaxTx > 0 => CountTx(mp') <= MaxTx
      BY <1>1, <2>3, MaxTxAssumption DEF CapacityRespected
    <2> QED BY <2>2, <2>4 DEF CapacityRespected
  <1>4. CASE Select
    <2>1. mp' = SelectPool(mp)
      BY <1>4 DEF Select
    <2> QED BY <2>1, SelectOK DEF CapacityRespected
  <1>5. CASE StepPriority \/ StepNext \/ CallNext \/ Stop \/ UNCHANGED vars
    <2>1. mp' = mp
      BY <1>5 DEF StepPriority, StepNext, CallNext, Stop, vars
    <2> QED BY <2>1 DEF CapacityRespected
  <1> QED BY <1>2, <1>3, <1>4, <1>5 DEF Next

\* priorityIndex, senderIndices and scores always agree, so that every Insert and
\* Remove of priority_nonce.go takes out exactly the entry it means to.
THEOREM PoolConsistent == Spec => []IndicesAgree
  <1>1. PoolInv => IndicesAgree
    BY DEF PoolInv, PoolOK, IndicesAgree
  <1> QED BY <1>1, PoolInit, PoolStep, PTL DEF Spec

\* priorityCounts is exact, so that reorderPriorityTies weighs every tie.
THEOREM CountsCorrect == Spec => []CountsExact
  <1>1. PoolInv => CountsExact
    BY DEF PoolInv, PoolOK, CountsExact
  <1> QED BY <1>1, PoolInit, PoolStep, PTL DEF Spec

\* Insert's capacity check keeps the pool within a positive MaxTx.
THEOREM CapacityCorrect == Spec => []CapacityRespected
  <1>1. PoolInv => CapacityRespected
    BY DEF PoolInv
  <1> QED BY <1>1, PoolInit, PoolStep, PTL DEF Spec

-----------------------------------------------------------------------------
(* The walk. *)

\* Sender s holds a transaction at nonce n.
Listed(s, n) == s \in DOMAIN mp.senderIndices /\ n \in DOMAIN mp.senderIndices[s]

\* A walk's cursors stand on listed nonces, and what it has handed out is what
\* the lists hold up to the cursors.
CursorInv ==
    /\ \A s \in DOMAIN it.cursors : Listed(s, it.cursors[s])
    /\ \A i \in DOMAIN it.out :
          LET tx == it.out[i]
          IN  /\ tx.sender \in DOMAIN it.cursors
              /\ tx.nonce <= it.cursors[tx.sender]
    /\ \A s \in DOMAIN it.cursors : \A n \in DOMAIN mp.senderIndices[s] :
          n <= it.cursors[s] => \E i \in DOMAIN it.out : it.out[i] = mp.senderIndices[s][n].tx

NodeInv ==
    /\ it = [at |-> it.at, node |-> it.node, cursors |-> it.cursors, out |-> it.out]
    /\ it.at \in {"Next", "Tx"} => it.node \in DOMAIN mp.priorityIndex
    /\ it.at = "iteratePriority" => it.node = None \/ it.node \in DOMAIN mp.priorityIndex

WalkInv == IteratorTypeOK /\ NodeInv /\ CursorInv /\ NonceOrder

\* The pooled transactions are those the sender lists hold, each under its own
\* sender and nonce.
LEMMA PooledListed ==
    ASSUME PoolOK(mp)
    PROVE  /\ \A tx \in Pooled : /\ Listed(tx.sender, tx.nonce)
                                 /\ tx = mp.senderIndices[tx.sender][tx.nonce].tx
           /\ \A s \in Senders, n \in Nonces : Listed(s, n) =>
                 /\ mp.senderIndices[s][n].tx \in Pooled
                 /\ mp.senderIndices[s][n].tx.sender = s
                 /\ mp.senderIndices[s][n].tx.nonce = n
  <1>1. ASSUME NEW tx \in Pooled
        PROVE  Listed(tx.sender, tx.nonce) /\ tx = mp.senderIndices[tx.sender][tx.nonce].tx
    <2>1. PICK k \in DOMAIN mp.priorityIndex : tx = mp.priorityIndex[k]
      BY DEF Pooled, TxsOf
    <2>2. /\ tx = mp.senderIndices[k.sender][k.nonce].tx
          /\ tx.sender = k.sender /\ tx.nonce = k.nonce
      BY <2>1 DEF PoolOK, PoolAgrees, TxsFiled
    <2>3. <<k.sender, k.nonce>> \in DOMAIN mp.scores /\ k.sender \in Senders /\ k.nonce \in Nonces
      BY ScoredKey DEF PoolOK, PoolType, Key
    <2>4. Listed(k.sender, k.nonce)
      BY <2>3 DEF Listed, PoolOK, PoolAgrees, NoncesScored
    <2> QED BY <2>2, <2>4
  <1>2. ASSUME NEW s \in Senders, NEW n \in Nonces, Listed(s, n)
        PROVE  /\ mp.senderIndices[s][n].tx \in Pooled
               /\ mp.senderIndices[s][n].tx.sender = s
               /\ mp.senderIndices[s][n].tx.nonce = n
    <2> DEFINE sk == <<s, n>>
               k == KeyOf(sk, mp.scores[sk])
    <2>1. sk \in DOMAIN mp.scores
      BY <1>2 DEF Listed, PoolOK, PoolAgrees, NoncesScored
    <2>2. k \in DOMAIN mp.priorityIndex
      BY <2>1, ScoredKey DEF PoolOK
    <2>3. k.sender = s /\ k.nonce = n
      BY DEF KeyOf
    <2>4. /\ mp.priorityIndex[k] = mp.senderIndices[s][n].tx
          /\ mp.priorityIndex[k].sender = s /\ mp.priorityIndex[k].nonce = n
      BY <2>2, <2>3 DEF PoolOK, PoolAgrees, TxsFiled
    <2> QED BY <2>2, <2>4 DEF Pooled, TxsOf
  <1> QED BY <1>1, <1>2

\* A walk that has not handed anything out, and one that is over.
LEMMA FreshWalkInv ==
    ASSUME it' = NewIterator \/ it' = NoIterator
    PROVE  WalkInv'
  <1>1. it'.out = <<>> /\ DOMAIN it'.cursors = {} /\ it'.node = None
        /\ it'.at \in {"iteratePriority", "end"}
        /\ it' = [at |-> it'.at, node |-> it'.node, cursors |-> it'.cursors, out |-> it'.out]
    BY DEF NewIterator, NoIterator, EmptyList
  <1>2. DOMAIN it'.out = {} /\ it'.out \in Seq(Txs)
    BY <1>1
  <1>3. IteratorTypeOK'
    BY <1>1, <1>2 DEF IteratorTypeOK
  <1>4. NodeInv'
    BY <1>1 DEF NodeInv
  <1>5. CursorInv' /\ NonceOrder'
    BY <1>1, <1>2 DEF CursorInv, NonceOrder
  <1> QED BY <1>3, <1>4, <1>5 DEF WalkInv

\* A step that moves the iterator's node or its control only.
LEMMA SameHandsInv ==
    ASSUME WalkInv, mp' = mp, it'.out = it.out, it'.cursors = it.cursors
    PROVE  CursorInv' /\ NonceOrder'
  BY DEF WalkInv, CursorInv, NonceOrder, Pooled, Listed

LEMMA StepPriorityInv == PoolInv /\ WalkInv /\ StepPriority => WalkInv'
  <1> SUFFICES ASSUME PoolOK(mp), WalkInv, StepPriority PROVE WalkInv'
    BY DEF PoolInv
  <1> DEFINE rest == IF it.node = None THEN DOMAIN mp.priorityIndex ELSE KeysAfter(mp, it.node)
  <1>1. mp' = mp /\ it.at = "iteratePriority"
        /\ it' = IF rest = {} THEN [it EXCEPT !.at = "end"]
                 ELSE [it EXCEPT !.at = "Next", !.node = FrontKey(rest)]
    BY DEF StepPriority, IteratePriority
  <1>2. it = [at |-> it.at, node |-> it.node, cursors |-> it.cursors, out |-> it.out]
    BY DEF WalkInv, NodeInv
  <1>3. CursorInv' /\ NonceOrder'
    BY <1>1, <1>2, SameHandsInv
  <1>4. CASE rest = {}
    <2>1. /\ it'.at = "end" /\ it'.node = it.node /\ it'.cursors = it.cursors /\ it'.out = it.out
          /\ it' = [at |-> it'.at, node |-> it'.node, cursors |-> it'.cursors, out |-> it'.out]
      BY <1>1, <1>2, <1>4
    <2>2. IteratorTypeOK' /\ NodeInv'
      BY <2>1 DEF WalkInv, IteratorTypeOK, NodeInv
    <2> QED BY <1>3, <2>2 DEF WalkInv
  <1>5. CASE rest # {}
    <2>1. /\ it'.at = "Next" /\ it'.node = FrontKey(rest)
          /\ it'.cursors = it.cursors /\ it'.out = it.out
          /\ it' = [at |-> it'.at, node |-> it'.node, cursors |-> it'.cursors, out |-> it'.out]
      BY <1>1, <1>2, <1>5
    <2>2. rest \subseteq DOMAIN mp.priorityIndex
      BY DEF KeysAfter
    <2>3. IsFiniteSet(DOMAIN mp.priorityIndex) /\ DOMAIN mp.priorityIndex \subseteq Key
      BY KeysFinite DEF PoolOK, PoolType
    <2>4. FrontKey(rest) \in DOMAIN mp.priorityIndex /\ FrontKey(rest) \in Key
      <3>1. IsFiniteSet(rest)
        BY <2>2, <2>3, FS_Subset
      <3>2. FrontKey(rest) \in rest
        BY <1>5, <2>2, <2>3, <3>1, FrontIsKey
      <3> QED BY <2>2, <2>3, <3>2
    <2>5. FrontKey(rest) # None
      BY <2>4, KeyIsNotNone
    <2>6. IteratorTypeOK' /\ NodeInv'
      BY <1>1, <2>1, <2>4, <2>5 DEF WalkInv, IteratorTypeOK, NodeInv
    <2> QED BY <1>3, <2>6 DEF WalkInv
  <1> QED BY <1>4, <1>5

LEMMA CallNextInv == PoolInv /\ WalkInv /\ CallNext => WalkInv'
  <1> SUFFICES ASSUME WalkInv, CallNext PROVE WalkInv'
    OBVIOUS
  <1>1. it = [at |-> it.at, node |-> it.node, cursors |-> it.cursors, out |-> it.out]
    BY DEF WalkInv, NodeInv
  <1>2. /\ mp' = mp /\ it.at = "Tx" /\ it'.at = "Next"
        /\ it'.node = it.node /\ it'.cursors = it.cursors /\ it'.out = it.out
        /\ it' = [at |-> it'.at, node |-> it'.node, cursors |-> it'.cursors, out |-> it'.out]
    BY <1>1 DEF CallNext
  <1>3. CursorInv' /\ NonceOrder'
    BY <1>2, SameHandsInv
  <1>4. IteratorTypeOK' /\ NodeInv'
    BY <1>2 DEF WalkInv, IteratorTypeOK, NodeInv
  <1> QED BY <1>3, <1>4 DEF WalkInv

\* Handing out the least nonce ahead of the sender's cursor keeps nonce order
\* and leaves no gap behind the cursor.
LEMMA StepNextInv == PoolInv /\ WalkInv /\ StepNext => WalkInv'
  <1> SUFFICES ASSUME PoolOK(mp), WalkInv, StepNext PROVE WalkInv'
    BY DEF PoolInv
  <1> DEFINE s == it.node.sender
             list == mp.senderIndices[s]
             ahead == Ahead(mp, it)
             n == CHOOSE m \in ahead : \A o \in ahead : m <= o
             tx == list[n].tx
  <1>1. it = [at |-> it.at, node |-> it.node, cursors |-> it.cursors, out |-> it.out]
    BY DEF WalkInv, NodeInv
  <1>2. mp' = mp /\ it.at = "Next"
        /\ it' = IF ahead = {} \/ Outranked(mp, it, n) THEN [it EXCEPT !.at = "iteratePriority"]
                 ELSE [it EXCEPT !.at = "Tx", !.cursors = SkipSet(@, s, n), !.out = Append(@, tx)]
    BY DEF StepNext, IteratorNext
  <1>3. /\ it.node \in DOMAIN mp.priorityIndex /\ it.node \in Key
        /\ s \in Senders /\ s \in DOMAIN mp.senderIndices
    <2>1. it.node \in DOMAIN mp.priorityIndex
      BY <1>2 DEF WalkInv, NodeInv
    <2>2. <<it.node.sender, it.node.nonce>> \in DOMAIN mp.scores /\ it.node \in Key
      BY <2>1, ScoredKey DEF PoolOK, PoolType
    <2>3. s \in Senders /\ it.node.nonce \in Nonces
      BY <2>2 DEF Key
    <2> QED BY <2>1, <2>2, <2>3 DEF PoolOK, PoolAgrees, NoncesScored
  <1>4. CASE ahead = {} \/ Outranked(mp, it, n)
    <2>1. /\ it'.at = "iteratePriority" /\ it'.node = it.node
          /\ it'.cursors = it.cursors /\ it'.out = it.out
          /\ it' = [at |-> it'.at, node |-> it'.node, cursors |-> it'.cursors, out |-> it'.out]
      BY <1>1, <1>2, <1>4
    <2>2. CursorInv' /\ NonceOrder'
      BY <1>2, <2>1, SameHandsInv
    <2>3. IteratorTypeOK' /\ NodeInv'
      BY <1>2, <1>3, <2>1 DEF WalkInv, IteratorTypeOK, NodeInv
    <2> QED BY <2>2, <2>3 DEF WalkInv
  <1>5. CASE ~(ahead = {} \/ Outranked(mp, it, n))
    <2>1. /\ it'.at = "Tx" /\ it'.node = it.node
          /\ it'.cursors = SkipSet(it.cursors, s, n) /\ it'.out = Append(it.out, tx)
          /\ it' = [at |-> it'.at, node |-> it'.node, cursors |-> it'.cursors, out |-> it'.out]
      BY <1>1, <1>2, <1>5
    <2>2. DOMAIN list \subseteq Nonces /\ IsFiniteSet(DOMAIN list) /\ Nonces \subseteq Nat
      BY <1>3, SenderListFinite, NonceAssumption DEF PoolOK, PoolType
    <2>3. ahead \subseteq DOMAIN list /\ ahead \subseteq Nat /\ IsFiniteSet(ahead)
      BY <2>2, FS_Subset DEF Ahead
    <2>4. n \in ahead /\ \A o \in ahead : n <= o
      BY <1>5, <2>3, FiniteMin
    <2>5. /\ n \in DOMAIN list /\ n \in Nonces /\ n \in Nat /\ Listed(s, n)
          /\ s \in DOMAIN it.cursors => n > it.cursors[s]
      BY <1>3, <2>2, <2>3, <2>4 DEF Ahead, Listed
    <2>6. /\ tx \in Txs /\ tx \in Pooled /\ tx.sender = s /\ tx.nonce = n
      BY <1>3, <2>5, PooledListed, ZenonT(30) DEF PoolOK, PoolType
    <2>7. /\ it.out \in Seq(Txs) /\ Len(it.out) \in Nat /\ DOMAIN it.out = 1..Len(it.out)
          /\ DOMAIN it.cursors \subseteq Senders
          /\ \A x \in DOMAIN it.cursors : it.cursors[x] \in Nonces
      BY DEF WalkInv, IteratorTypeOK
    <2> HIDE DEF tx, n, s, ahead, list
    <2>8. /\ DOMAIN it'.out = DOMAIN it.out \cup {Len(it.out) + 1}
          /\ \A i \in DOMAIN it.out : it'.out[i] = it.out[i]
          /\ it'.out[Len(it.out) + 1] = tx
          /\ it'.out \in Seq(Txs)
          /\ \A i \in DOMAIN it.out : i < Len(it.out) + 1
      BY <2>1, <2>6, <2>7
    <2>9. /\ DOMAIN it'.cursors = DOMAIN it.cursors \cup {s} /\ it'.cursors[s] = n
          /\ \A x \in DOMAIN it.cursors : x # s => it'.cursors[x] = it.cursors[x]
      BY <2>1 DEF SkipSet
    <2>10. IteratorTypeOK'
      BY <1>3, <2>1, <2>5, <2>7, <2>8, <2>9, KeyIsNotNone DEF IteratorTypeOK
    <2>11. NodeInv'
      BY <1>2, <1>3, <2>1 DEF NodeInv
    <2>12. ASSUME NEW m \in DOMAIN list, m < n
           PROVE  \E i \in DOMAIN it.out : it.out[i] = list[m].tx
      <3>1. m \in Nat
        BY <2>2
      <3>2. m \notin ahead
        BY <2>4, <2>5, <2>12, <3>1
      <3>3. s \in DOMAIN it.cursors /\ ~(m > it.cursors[s])
        BY <3>2 DEF Ahead, ahead, list, s
      <3>4. it.cursors[s] \in Nat
        BY <2>2, <2>7, <3>3
      <3>5. m <= it.cursors[s]
        BY <3>1, <3>3, <3>4
      <3> QED BY <3>3, <3>5 DEF WalkInv, CursorInv, list
    <2>13. ASSUME NEW i \in DOMAIN it.out, it.out[i].sender = s
           PROVE  it.out[i].nonce < n
      <3>1. s \in DOMAIN it.cursors /\ it.out[i].nonce <= it.cursors[s]
        BY <2>13 DEF WalkInv, CursorInv
      <3>2. it.out[i] \in Txs
        BY <2>7
      <3>3. it.out[i].nonce \in Nat /\ it.cursors[s] \in Nat
        BY <2>2, <2>7, <3>1, <3>2, TxFacts
      <3> QED BY <2>5, <3>1, <3>3
    <2>14. CursorInv'
      <3>1. \A x \in DOMAIN it'.cursors : Listed(x, it'.cursors[x])
        BY <2>5, <2>9 DEF WalkInv, CursorInv
      <3>2. ASSUME NEW i \in DOMAIN it'.out
            PROVE  it'.out[i].sender \in DOMAIN it'.cursors
                   /\ it'.out[i].nonce <= it'.cursors[it'.out[i].sender]
        <4>1. CASE i = Len(it.out) + 1
          BY <2>5, <2>6, <2>8, <2>9, <4>1
        <4>2. CASE i \in DOMAIN it.out
          <5>a. it'.out[i] = it.out[i] /\ it.out[i] \in Txs
            BY <2>7, <2>8, <4>2
          <5>b. it.out[i].nonce \in Nat
            BY <2>2, <5>a, TxFacts
          <5>c. /\ it.out[i].sender \in DOMAIN it.cursors
                /\ it.out[i].nonce <= it.cursors[it.out[i].sender]
            BY <4>2 DEF WalkInv, CursorInv
          <5>1. /\ it'.out[i] = it.out[i] /\ it.out[i] \in Txs /\ it.out[i].nonce \in Nat
                /\ it.out[i].sender \in DOMAIN it.cursors
                /\ it.out[i].nonce <= it.cursors[it.out[i].sender]
            BY <5>a, <5>b, <5>c
          <5>2. CASE it.out[i].sender = s
            BY <2>5, <2>9, <2>13, <4>2, <5>1, <5>2
          <5>3. CASE it.out[i].sender # s
            BY <2>9, <5>1, <5>3
          <5> QED BY <5>2, <5>3
        <4> QED BY <2>8, <4>1, <4>2
      <3>3. ASSUME NEW x \in DOMAIN it'.cursors, NEW m \in DOMAIN mp.senderIndices[x],
                   m <= it'.cursors[x]
            PROVE  \E i \in DOMAIN it'.out : it'.out[i] = mp.senderIndices[x][m].tx
        <4>1. CASE x # s
          <5>1. x \in DOMAIN it.cursors /\ m <= it.cursors[x]
            BY <2>9, <3>3, <4>1
          <5>2. PICK i \in DOMAIN it.out : it.out[i] = mp.senderIndices[x][m].tx
            BY <5>1 DEF WalkInv, CursorInv
          <5> QED BY <2>8, <5>2
        <4>2. CASE x = s
          <5>1. m \in DOMAIN list /\ m \in Nat /\ m <= n
            BY <2>2, <2>9, <3>3, <4>2 DEF list
          <5>2. CASE m = n
            BY <2>8, <4>2, <5>2 DEF tx, list
          <5>3. CASE m < n
            <6>1. PICK i \in DOMAIN it.out : it.out[i] = list[m].tx
              BY <2>12, <5>1, <5>3
            <6> QED BY <2>8, <4>2, <6>1 DEF list
          <5> QED BY <2>5, <5>1, <5>2, <5>3
        <4> QED BY <4>1, <4>2
      <3> QED BY <1>2, <3>1, <3>2, <3>3 DEF CursorInv, Listed
    <2>15. NonceOrder'
      <3> SUFFICES ASSUME NEW i \in DOMAIN it'.out
                   PROVE  /\ it'.out[i] \in Pooled
                          /\ \A j \in DOMAIN it'.out :
                               j < i /\ it'.out[j].sender = it'.out[i].sender
                                  => it'.out[j].nonce < it'.out[i].nonce
                          /\ \A t \in Pooled :
                               t.sender = it'.out[i].sender /\ t.nonce < it'.out[i].nonce
                                  => \E j \in DOMAIN it'.out : j < i /\ it'.out[j] = t
        BY <1>2 DEF NonceOrder, Pooled
      <3>1. CASE i \in DOMAIN it.out
        <4>1. \A j \in DOMAIN it'.out : j < i => j \in DOMAIN it.out
          BY <2>7, <2>8, <3>1
        <4>2. /\ it.out[i] \in Pooled
              /\ \A j \in DOMAIN it.out :
                    j < i /\ it.out[j].sender = it.out[i].sender => it.out[j].nonce < it.out[i].nonce
              /\ \A t \in Pooled : t.sender = it.out[i].sender /\ t.nonce < it.out[i].nonce
                    => \E j \in DOMAIN it.out : j < i /\ it.out[j] = t
          BY <3>1 DEF WalkInv, NonceOrder
        <4> QED BY <2>8, <3>1, <4>1, <4>2
      <3>2. CASE i = Len(it.out) + 1
        <4>1. it'.out[i] = tx
          BY <2>8, <3>2
        <4>2. \A j \in DOMAIN it'.out : j < i => j \in DOMAIN it.out
          BY <2>7, <2>8, <3>2
        <4>3. ASSUME NEW j \in DOMAIN it'.out, j < i, it'.out[j].sender = s
              PROVE  it'.out[j].nonce < n
          BY <2>8, <2>13, <4>2, <4>3
        <4>4. ASSUME NEW t \in Pooled, t.sender = s, t.nonce < n
              PROVE  \E j \in DOMAIN it'.out : j < i /\ it'.out[j] = t
          <5>1. t.nonce \in DOMAIN list /\ t = list[t.nonce].tx
            BY <4>4, PooledListed DEF Listed, list
          <5>2. PICK j \in DOMAIN it.out : it.out[j] = t
            BY <2>12, <4>4, <5>1
          <5> QED BY <2>8, <3>2, <5>2
        <4> QED BY <2>6, <4>1, <4>3, <4>4
      <3> QED BY <2>8, <3>1, <3>2
    <2> QED BY <2>10, <2>11, <2>14, <2>15 DEF WalkInv
  <1> QED BY <1>4, <1>5

-----------------------------------------------------------------------------
(* The inductive invariant of the specification. *)

IInv == PoolInv /\ WalkInv

LEMMA WalkInit == Init => WalkInv
  <1> SUFFICES ASSUME Init PROVE WalkInv
    OBVIOUS
  <1>1. it.out = <<>> /\ DOMAIN it.cursors = {} /\ it.node = None /\ it.at = "end"
        /\ it = [at |-> it.at, node |-> it.node, cursors |-> it.cursors, out |-> it.out]
    BY DEF Init, NoIterator, EmptyList
  <1>2. DOMAIN it.out = {} /\ it.out \in Seq(Txs)
    BY <1>1
  <1> QED BY <1>1, <1>2 DEF WalkInv, IteratorTypeOK, NodeInv, CursorInv, NonceOrder

LEMMA WalkStep == IInv /\ [Next]_vars => WalkInv'
  <1> SUFFICES ASSUME PoolInv, WalkInv, [Next]_vars PROVE WalkInv'
    BY DEF IInv
  <1>1. ASSUME NEW tx \in Txs, InsertTx(tx) \/ RemoveTx(tx) PROVE WalkInv'
    BY <1>1, FreshWalkInv DEF InsertTx, RemoveTx
  <1>2. CASE Select
    BY <1>2, FreshWalkInv DEF Select, SelectIterator
  <1>3. CASE StepPriority
    BY <1>3, StepPriorityInv
  <1>4. CASE StepNext
    BY <1>4, StepNextInv
  <1>5. CASE CallNext
    BY <1>5, CallNextInv
  <1>6. CASE Stop
    BY <1>6, FreshWalkInv DEF Stop
  <1>7. CASE UNCHANGED vars
    BY <1>7 DEF vars, WalkInv, IteratorTypeOK, NodeInv, CursorInv, NonceOrder, Pooled, Listed
  <1> QED BY <1>1, <1>2, <1>3, <1>4, <1>5, <1>6, <1>7 DEF Next

\* The types of the pool and of the iterator are kept by every call.
THEOREM TypeCorrect == Spec => []TypeOK
  <1>1. Init => IInv
    BY PoolInit, WalkInit DEF IInv
  <1>2. IInv /\ [Next]_vars => IInv'
    BY PoolStep, WalkStep DEF IInv
  <1>3. IInv => TypeOK
    BY DEF IInv, PoolInv, PoolOK, WalkInv, TypeOK
  <1> QED BY <1>1, <1>2, <1>3, PTL DEF Spec

\* A lane that walks the pool sees each sender's transactions in nonce order,
\* none twice and none skipped.
THEOREM NonceOrderCorrect == Spec => []NonceOrder
  <1>1. Init => IInv
    BY PoolInit, WalkInit DEF IInv
  <1>2. IInv /\ [Next]_vars => IInv'
    BY PoolStep, WalkStep DEF IInv
  <1>3. IInv => NonceOrder
    BY DEF IInv, WalkInv
  <1> QED BY <1>1, <1>2, <1>3, PTL DEF Spec

-----------------------------------------------------------------------------
(* Completeness and greed of walks. *)

\* What the lanes' walks rest on: no sender's next transaction is left behind.
LeadInv == it \in GoodIterators(mp) /\ CursorsOK(mp, it) /\ LeadOK(mp, it)

LEMMA LeadFresh ==
    ASSUME it' = NewIterator \/ it' = NoIterator
    PROVE  LeadInv'
  <1>1. it' \in GoodIterators(mp')
    BY FreshIteratorGood
  <1>2. CursorsOK(mp', it') /\ LeadOK(mp', it')
    BY LeadStart
  <1> QED BY <1>1, <1>2 DEF LeadInv

LEMMA LeadStep == PoolInv /\ LeadInv /\ [Next]_vars => LeadInv'
  <1> SUFFICES ASSUME PoolOK(mp), LeadInv, [Next]_vars PROVE LeadInv'
    BY DEF PoolInv
  <1> USE DEF LeadInv
  <1>1. ASSUME NEW tx \in Txs, InsertTx(tx) \/ RemoveTx(tx) PROVE LeadInv'
    BY <1>1, LeadFresh DEF InsertTx, RemoveTx
  <1>2. CASE Select
    BY <1>2, LeadFresh DEF Select, SelectIterator
  <1>3. CASE StepPriority
    <2>1. mp' = mp /\ it.at = "iteratePriority" /\ it' = IteratePriority(mp, it)
      BY <1>3 DEF StepPriority
    <2>2. IteratePriority(mp, it) \in GoodIterators(mp)
      BY IteratePriorityGood
    <2>3. CursorsOK(mp, IteratePriority(mp, it)) /\ LeadOK(mp, IteratePriority(mp, it))
      BY <2>1, LeadIterate
    <2> QED BY <2>1, <2>2, <2>3
  <1>4. CASE StepNext
    <2>1. mp' = mp /\ it.at = "Next" /\ it' = IteratorNext(mp, it)
      BY <1>4 DEF StepNext
    <2>2. IteratorNext(mp, it) \in GoodIterators(mp)
      <3>1. Advance(mp, it) \in GoodIterators(mp)
        BY AdvanceGood
      <3> QED BY <2>1, <3>1 DEF Advance
    <2>3. CursorsOK(mp, IteratorNext(mp, it)) /\ LeadOK(mp, IteratorNext(mp, it))
      BY <2>1, LeadNext
    <2> QED BY <2>1, <2>2, <2>3
  <1>5. CASE CallNext
    <2>1. mp' = mp /\ it.at = "Tx" /\ it' = [it EXCEPT !.at = "Next"]
      BY <1>5 DEF CallNext
    <2>2. [it EXCEPT !.at = "Next"] \in GoodIterators(mp)
      BY <2>1 DEF GoodIterators, Iterators
    <2>3. CursorsOK(mp, [it EXCEPT !.at = "Next"]) /\ LeadOK(mp, [it EXCEPT !.at = "Next"])
      BY <2>1, LeadMore
    <2> QED BY <2>1, <2>2, <2>3
  <1>6. CASE Stop
    BY <1>6, LeadFresh DEF Stop
  <1>7. CASE UNCHANGED vars
    BY <1>7 DEF vars
  <1> QED BY <1>1, <1>2, <1>3, <1>4, <1>5, <1>6, <1>7 DEF Next

LEMMA LeadInit == Init => LeadInv
  <1> SUFFICES ASSUME Init PROVE LeadInv
    OBVIOUS
  <1>1. it \in GoodIterators(mp)
    BY FreshIteratorGood DEF Init
  <1>2. CursorsOK(mp, it) /\ LeadOK(mp, it)
    BY LeadStart DEF Init
  <1> QED BY <1>1, <1>2 DEF LeadInv

\* Whatever is ahead of a sender's cursor, something is next.
LEMMA SomeHead ==
    ASSUME PoolOK(mp), LeadInv, NEW s \in Senders, NEW n \in Nonces, IsAhead(mp, it, s, n)
    PROVE  \E m \in Nonces : IsHead(mp, it, s, m)
  <1> DEFINE A == {m \in DOMAIN mp.senderIndices[s] : IsAhead(mp, it, s, m)}
  <1>1. s \in DOMAIN mp.senderIndices /\ n \in A
    BY DEF IsAhead
  <1>2. DOMAIN mp.senderIndices[s] \subseteq Nonces /\ IsFiniteSet(DOMAIN mp.senderIndices[s])
        /\ Nonces \subseteq Nat
    BY <1>1, SenderListFinite, NonceAssumption DEF PoolOK, PoolType
  <1>3. A \subseteq Nat /\ IsFiniteSet(A) /\ A # {}
    BY <1>1, <1>2, FS_Subset
  <1>4. \A m \in Nonces : m \in A <=> IsAhead(mp, it, s, m)
    BY DEF IsAhead
  <1> HIDE DEF A
  <1>5. PICK m \in A : \A o \in A : m <= o
    BY <1>3, FiniteMin
  <1>6. m \in Nonces
    BY <1>2, <1>5 DEF A
  <1> QED BY <1>4, <1>5, <1>6 DEF IsHead

\* A walk over a pool with fresh keys ends with nothing left: the next transaction of
\* no sender can be behind the last node.
LEMMA EndsComplete == PoolInv /\ WalkInv /\ LeadInv => FreshWalkComplete
  <1> SUFFICES ASSUME PoolOK(mp), WalkInv, LeadInv, KeysFresh, it.at = "end", it.out # <<>>
               PROVE  HandedOut(Len(it.out)) = Pooled
    BY DEF PoolInv, FreshWalkComplete, WalkComplete
  <1>1. DOMAIN it.out = 1..Len(it.out)
    BY DEF WalkInv, IteratorTypeOK
  <1>2. HandedOut(Len(it.out)) \subseteq Pooled
    BY <1>1 DEF HandedOut, WalkInv, NonceOrder
  <1>3. ASSUME NEW tx \in Pooled, tx \notin HandedOut(Len(it.out)) PROVE FALSE
    <2>1. \A i \in DOMAIN it.out : it.out[i] # tx
      BY <1>1, <1>3 DEF HandedOut
    <2>2. tx.sender \in Senders /\ tx.nonce \in Nonces /\ IsAhead(mp, it, tx.sender, tx.nonce)
      BY <2>1, LeftAhead DEF LeadInv, Pooled
    <2>3. PICK m \in Nonces : IsHead(mp, it, tx.sender, m)
      BY <2>2, SomeHead
    <2>4. FreshAt(mp, tx.sender, m)
      BY <2>3 DEF FreshAt, KeysFresh, IsHead, IsAhead
    <2> QED BY <2>2, <2>3, <2>4 DEF LeadInv, LeadOK
  <1> QED BY <1>2, <1>3

\* Greed is kept by every step: a transaction handed out is worth no less than the next
\* one of any other sender.
LEMMA GreedyStep == PoolInv /\ LeadInv /\ FreshWalkGreedy /\ [Next]_vars => FreshWalkGreedy'
  <1> SUFFICES ASSUME PoolOK(mp), LeadInv, FreshWalkGreedy, [Next]_vars PROVE FreshWalkGreedy'
    BY DEF PoolInv
  <1>1. CASE it'.out = <<>>
    <2>1. DOMAIN it'.out = {}
      BY <1>1
    <2> QED BY <2>1 DEF FreshWalkGreedy, PriorityGreedy
  <1>2. CASE mp' = mp /\ it'.out = it.out
    BY <1>2 DEF FreshWalkGreedy, PriorityGreedy, KeysFresh, Heads, HandedOut, Pooled
  <1>3. CASE StepNext /\ it'.out # it.out
    <2> DEFINE s == it.node.sender
               ahead == Ahead(mp, it)
               n == CHOOSE m \in ahead : \A o \in ahead : m <= o
               tx == mp.senderIndices[s][n].tx
               last == Len(it.out) + 1
    <2>1. mp' = mp /\ it.at = "Next" /\ it \in GoodIterators(mp)
      BY <1>3 DEF StepNext, LeadInv
    <2>2. it.node \in DOMAIN mp.priorityIndex
      BY <2>1 DEF GoodIterators, Iterators
    <2>3. ahead # {} /\ ~Outranked(mp, it, n) /\ it'.out = Append(it.out, tx)
      BY <1>3, <2>1 DEF StepNext, IteratorNext, GoodIterators, Iterators
    <2>4. s \in Senders /\ n \in Nonces /\ IsHead(mp, it, s, n)
      <3>1. PICK m : m = n
        OBVIOUS
      <3>2. m = CHOOSE o \in Ahead(mp, it) : \A q \in Ahead(mp, it) : o <= q
        BY <3>1
      <3>3. Ahead(mp, it) # {}
        BY <2>3
      <3>4. it.node.sender \in Senders /\ m \in Nonces /\ IsHead(mp, it, it.node.sender, m)
        <4> HIDE DEF n
        <4> QED BY <2>1, <2>2, <3>2, <3>3, NextHead
      <3> QED BY <3>1, <3>4
    <2> HIDE DEF n, ahead
    <2>5. tx \in Pooled /\ tx.sender = s /\ tx.nonce = n
      BY <2>4, PooledListed DEF Listed, IsHead, IsAhead
    <2>6. it.out \in Seq(Pooled)
      BY <2>1 DEF GoodIterators, Iterators, Pooled
    <2>7. DOMAIN it.out = 1..Len(it.out) /\ Len(it.out) \in Nat
      BY <2>6
    <2> HIDE DEF tx
    <2>8. /\ DOMAIN it'.out = 1..last /\ it'.out[last] = tx
          /\ \A i \in DOMAIN it.out : it'.out[i] = it.out[i]
      BY <2>3, <2>5, <2>6
    <2>9. ASSUME KeysFresh, NEW i \in 1..last, NEW h \in Heads(i - 1)' PROVE h.priority <= it'.out[i].priority
      <3>1. HandedOut(i - 1)' = HandedOut(i - 1)
        <4>1. \A j \in 1..(i - 1) : it'.out[j] = it.out[j]
          BY <2>7, <2>8, <2>9
        <4> QED BY <4>1 DEF HandedOut
      <3>2. h \in Heads(i - 1)
        BY <2>1, <2>9, <3>1 DEF Heads, Pooled
      <3>3. CASE i # last
        <4>1. i \in DOMAIN it.out
          BY <2>7, <2>9, <3>3
        <4> QED BY <2>8, <2>9, <3>2, <4>1 DEF FreshWalkGreedy, PriorityGreedy
      <3>4. CASE i = last
        <4>1. HandedOut(i - 1) = {it.out[j] : j \in DOMAIN it.out}
          BY <2>7, <3>4 DEF HandedOut
        <4>2. h \in Pooled /\ \A j \in DOMAIN it.out : it.out[j] # h
          BY <3>2, <4>1 DEF Heads
        <4>3. ASSUME NEW o \in Pooled, \A j \in DOMAIN it.out : it.out[j] # o, o.sender = h.sender
              PROVE  h.nonce <= o.nonce
          BY <3>2, <4>1, <4>3 DEF Heads
        <4>4. h.sender \in Senders /\ h.nonce \in Nonces /\ IsHead(mp, it, h.sender, h.nonce)
          BY <4>2, <4>3, HeadsAreNext DEF LeadInv, Pooled
        <4>5. /\ Listed(h.sender, h.nonce) /\ h = mp.senderIndices[h.sender][h.nonce].tx
              /\ FreshAt(mp, h.sender, h.nonce)
          BY <2>9, <4>2, PooledListed DEF KeysFresh, Listed, FreshAt
        <4>6. mp.senderIndices[s][n].priority = tx.priority
          BY <2>4, <2>9 DEF KeysFresh, tx, IsHead, IsAhead
        <4>7. CASE h.sender # s
          <5>1. mp.senderIndices[h.sender][h.nonce].tx.priority <= mp.senderIndices[s][n].priority
            BY <2>1, <2>3, <2>4, <4>4, <4>5, <4>7, NextOutranksAll DEF LeadInv
          <5> QED BY <2>8, <3>4, <4>5, <4>6, <5>1
        <4>8. CASE h.sender = s
          <5>1. IsHead(mp, it, s, h.nonce)
            BY <4>4, <4>8
          <5>2. h.nonce = n
            <6>1. h.nonce <= n /\ n <= h.nonce /\ n \in Nat /\ h.nonce \in Nat
              BY <2>4, <4>4, <5>1, NonceAssumption DEF IsHead
            <6> QED BY <6>1
          <5>3. h = tx
            BY <4>5, <4>8, <5>2 DEF tx
          <5>4. tx.priority \in Int
            BY <2>5, TxAssumption, PriorityAssumption DEF Pooled, TxsOf, PoolOK, PoolType, Tx
          <5> QED BY <2>8, <3>4, <5>3, <5>4
        <4> QED BY <4>7, <4>8
      <3> QED BY <3>3, <3>4
    <2>10. KeysFresh' => KeysFresh
      BY <2>1 DEF KeysFresh
    <2> QED BY <2>8, <2>9, <2>10 DEF FreshWalkGreedy, PriorityGreedy
  <1>4. CASE \E tx \in Txs : InsertTx(tx) \/ RemoveTx(tx)
    <2>1. it'.out = <<>>
      BY <1>4 DEF InsertTx, RemoveTx, NoIterator
    <2> QED BY <1>1, <2>1
  <1>5. CASE Select \/ Stop
    <2>1. it'.out = <<>>
      BY <1>5 DEF Select, Stop, SelectIterator, NoIterator, NewIterator
    <2> QED BY <1>1, <2>1
  <1>6. CASE StepPriority \/ CallNext \/ UNCHANGED vars
    <2>1. mp' = mp /\ it'.out = it.out
      BY <1>6 DEF StepPriority, CallNext, vars, IteratePriority, LeadInv, GoodIterators, Iterators
    <2> QED BY <1>2, <2>1
  <1>7. CASE StepNext /\ it'.out = it.out
    BY <1>2, <1>7 DEF StepNext
  <1> QED BY <1>3, <1>4, <1>5, <1>6, <1>7 DEF Next

LEMMA GreedyInit == Init => FreshWalkGreedy
  <1> SUFFICES ASSUME Init PROVE FreshWalkGreedy
    OBVIOUS
  <1>1. DOMAIN it.out = {}
    BY DEF Init, NoIterator
  <1> QED BY <1>1 DEF FreshWalkGreedy, PriorityGreedy

\* A walk that Next ended has handed out every pooled transaction, in a pool where no
\* replacement left an old key in a sender's list.
THEOREM WalkCompleteCorrect == Spec => []FreshWalkComplete
  <1>1. Init => IInv /\ LeadInv
    BY PoolInit, WalkInit, LeadInit DEF IInv
  <1>2. IInv /\ LeadInv /\ [Next]_vars => (IInv /\ LeadInv)'
    BY PoolStep, WalkStep, LeadStep DEF IInv
  <1>3. IInv /\ LeadInv => FreshWalkComplete
    BY EndsComplete DEF IInv
  <1> QED BY <1>1, <1>2, <1>3, PTL DEF Spec

\* In such a pool Next never hands out a transaction while another sender's next one
\* has a higher priority.
THEOREM WalkGreedyCorrect == Spec => []FreshWalkGreedy
  <1>1. Init => PoolInv /\ LeadInv /\ FreshWalkGreedy
    BY PoolInit, LeadInit, GreedyInit
  <1>2. PoolInv /\ LeadInv /\ FreshWalkGreedy /\ [Next]_vars => (PoolInv /\ LeadInv /\ FreshWalkGreedy)'
    BY PoolStep, LeadStep, GreedyStep
  <1> QED BY <1>1, <1>2, PTL DEF Spec

-----------------------------------------------------------------------------
(* The pool as a map. *)

LEMMA MapDomain ==
    ASSUME PoolOK(mp), NEW sk \in DOMAIN mp.scores
    PROVE  /\ sk = <<sk[1], sk[2]>> /\ sk[1] \in Senders /\ sk[2] \in Nonces
           /\ Listed(sk[1], sk[2])
           /\ MapOf(mp)[sk] = mp.senderIndices[sk[1]][sk[2]].tx
           /\ MapOf(mp)[sk] \in Pooled /\ ScoreKey(MapOf(mp)[sk]) = sk
  <1>1. sk = <<sk[1], sk[2]>> /\ sk[1] \in Senders /\ sk[2] \in Nonces
    BY DEF PoolOK, PoolType
  <1>2. Listed(sk[1], sk[2])
    BY <1>1 DEF Listed, PoolOK, PoolAgrees, NoncesScored
  <1>3. MapOf(mp)[sk] = mp.senderIndices[sk[1]][sk[2]].tx
    BY DEF MapOf
  <1> QED BY <1>1, <1>2, <1>3, PooledListed DEF ScoreKey

LEMMA PooledMapped ==
    ASSUME PoolOK(mp), NEW tx \in Pooled
    PROVE  ScoreKey(tx) \in DOMAIN mp.scores /\ MapOf(mp)[ScoreKey(tx)] = tx
  <1>1. ScoreKey(tx) \in DOMAIN mp.scores
    BY ScoredTx DEF Pooled
  <1>2. tx = mp.senderIndices[tx.sender][tx.nonce].tx
    BY PooledListed
  <1> QED BY <1>1, <1>2 DEF MapOf, ScoreKey

\* Insert changes one entry of the map.
LEMMA IndexMap ==
    ASSUME PoolOK(mp), NEW tx \in Txs
    PROVE  MapOf(Index(mp, tx)) = [sk \in DOMAIN MapOf(mp) \cup {ScoreKey(tx)} |->
                                     IF sk = ScoreKey(tx) THEN tx ELSE MapOf(mp)[sk]]
  <1> DEFINE new == Index(mp, tx)
             k == ScoreKey(tx)
             D == DOMAIN mp.scores
  <1>1. DOMAIN new.scores = D \cup {k}
    BY DEF Index, SkipSet
  <1>2. DOMAIN MapOf(mp) = D
    BY DEF MapOf
  <1>3. ASSUME NEW sk \in D \cup {k}
        PROVE  new.senderIndices[sk[1]][sk[2]].tx = IF sk = k THEN tx ELSE MapOf(mp)[sk]
    <2>1. CASE sk = k
      <3>1. sk[1] = tx.sender /\ sk[2] = tx.nonce
        BY <2>1 DEF ScoreKey
      <3> QED BY <2>1, <3>1 DEF Index, SkipSet
    <2>2. CASE sk # k /\ sk[1] = tx.sender
      <3>1. /\ sk[2] # tx.nonce /\ Listed(sk[1], sk[2])
            /\ MapOf(mp)[sk] = mp.senderIndices[sk[1]][sk[2]].tx
        BY <2>2, MapDomain, SMTT(30) DEF ScoreKey
      <3> QED BY <2>2, <3>1 DEF Index, SkipSet, Listed
    <2>3. CASE sk # k /\ sk[1] # tx.sender
      <3>1. /\ Listed(sk[1], sk[2])
            /\ MapOf(mp)[sk] = mp.senderIndices[sk[1]][sk[2]].tx
        BY <2>3, MapDomain
      <3> QED BY <2>3, <3>1 DEF Index, SkipSet, Listed
    <2> QED BY <2>1, <2>2, <2>3
  <1> HIDE DEF new, k
  <1>4. MapOf(new) = [sk \in DOMAIN new.scores |-> new.senderIndices[sk[1]][sk[2]].tx]
    BY DEF MapOf
  <1>5. MapOf(new) = [sk \in D \cup {k} |-> IF sk = k THEN tx ELSE MapOf(mp)[sk]]
    BY <1>1, <1>3, <1>4
  <1> QED BY <1>2, <1>5 DEF new, k

\* Remove takes one entry out.
LEMMA UnindexMap ==
    ASSUME PoolOK(mp), NEW tx \in Txs, ScoreKey(tx) \in DOMAIN mp.scores
    PROVE  MapOf(Unindex(mp, tx)) = [sk \in DOMAIN MapOf(mp) \ {ScoreKey(tx)} |-> MapOf(mp)[sk]]
  <1> DEFINE new == Unindex(mp, tx)
             k == ScoreKey(tx)
             D == DOMAIN mp.scores
  <1>1. DOMAIN new.scores = D \ {k}
    BY DEF Unindex, SkipRemove
  <1>2. DOMAIN MapOf(mp) = D
    BY DEF MapOf
  <1>3. ASSUME NEW sk \in D \ {k}
        PROVE  new.senderIndices[sk[1]][sk[2]].tx = MapOf(mp)[sk]
    <2>1. /\ sk = <<sk[1], sk[2]>> /\ Listed(sk[1], sk[2])
          /\ MapOf(mp)[sk] = mp.senderIndices[sk[1]][sk[2]].tx
      BY MapDomain
    <2>2. CASE sk[1] = tx.sender
      <3>1. sk[2] # tx.nonce
        BY <2>1, <2>2 DEF ScoreKey
      <3> QED BY <2>1, <2>2, <3>1 DEF Unindex, SkipRemove, Listed
    <2>3. CASE sk[1] # tx.sender
      BY <2>1, <2>3 DEF Unindex, Listed
    <2> QED BY <2>2, <2>3
  <1> HIDE DEF new, k
  <1>4. MapOf(new) = [sk \in DOMAIN new.scores |-> new.senderIndices[sk[1]][sk[2]].tx]
    BY DEF MapOf
  <1>5. MapOf(new) = [sk \in D \ {k} |-> MapOf(mp)[sk]]
    BY <1>1, <1>3, <1>4
  <1> QED BY <1>2, <1>5 DEF new, k

\* Select changes none.
LEMMA SelectMap ==
    ASSUME PoolOK(mp)
    PROVE  MapOf(SelectPool(mp)) = MapOf(mp)
  <1>1. /\ DOMAIN ReorderPriorityTies(mp).scores = DOMAIN mp.scores
        /\ ReorderPriorityTies(mp).senderIndices = mp.senderIndices
    BY DEF ReorderPriorityTies
  <1> QED BY <1>1 DEF MapOf, SelectPool

-----------------------------------------------------------------------------
(* Refinement. *)

LEMMA AbstractInit == Init => Abstract!Init
  <1> SUFFICES ASSUME Init PROVE Abstract!Init
    OBVIOUS
  <1>1. DOMAIN mp.scores = {}
    BY DEF Init, EmptyPool, EmptyList
  <1>2. MapOf(mp) = [sk \in {} |-> sk]
    BY <1>1 DEF MapOf
  <1>3. it.at = "end" /\ it.out = <<>>
    BY DEF Init, NoIterator
  <1> QED BY <1>2, <1>3 DEF Abstract!Init

\* A call outside a walk that leaves the map alone.
LEMMA RefuseStep ==
    ASSUME Idle, it' = NoIterator, MapOf(mp)' = MapOf(mp)
    PROVE  Abstract!Next
  <1>1. Abstract!Refuse
    BY DEF Idle, NoIterator, Abstract!Refuse, Abstract!Forget
  <1> QED BY <1>1 DEF Abstract!Next

LEMMA InsertStep ==
    ASSUME PoolOK(mp), NEW tx \in Txs, InsertTx(tx)
    PROVE  Abstract!Next
  <1>1. Idle /\ it' = NoIterator /\ mp' = Insert(mp, tx, MaxTx)
    BY DEF InsertTx
  <1>2. CASE MaxTx < 0 \/ InsertError(mp, tx, MaxTx) # "none"
    BY <1>1, <1>2, RefuseStep DEF Insert
  <1>3. CASE ~(MaxTx < 0 \/ InsertError(mp, tx, MaxTx) # "none")
    <2>1. MaxTx >= 0 /\ tx.signed /\ ~(MaxTx > 0 /\ CountTx(mp) >= MaxTx)
      BY <1>3, MaxTxAssumption DEF InsertError
    <2>2. mp' = Index(mp, tx)
      BY <1>1, <1>3 DEF Insert
    <2>3. MapOf(mp)' = [sk \in DOMAIN MapOf(mp) \cup {Abstract!Slot(tx)} |->
                           IF sk = Abstract!Slot(tx) THEN tx ELSE MapOf(mp)[sk]]
      BY <2>2, IndexMap DEF Abstract!Slot, ScoreKey
    <2>4. CountTx(mp) \in Nat /\ CountTx(mp) = Cardinality(DOMAIN MapOf(mp))
      BY CountIsScores DEF PoolOK, MapOf
    <2>5. MaxTx > 0 => Cardinality(DOMAIN MapOf(mp)) < MaxTx
      BY <2>1, <2>4, MaxTxAssumption
    <2>6. Abstract!Insert(tx)
      <3>1. Abstract!Forget
        BY <1>1 DEF Abstract!Forget, Idle, NoIterator
      <3>2. tx.signed /\ MaxTx >= 0 /\ (MaxTx > 0 => Cardinality(DOMAIN MapOf(mp)) < MaxTx)
        BY <2>1, <2>5
      <3> QED BY <2>3, <3>1, <3>2 DEF Abstract!Insert, Abstract!Cardinality, Cardinality
    <2> QED BY <2>6 DEF Abstract!Next
  <1> QED BY <1>2, <1>3

LEMMA RemoveStep ==
    ASSUME PoolOK(mp), NEW tx \in Txs, RemoveTx(tx)
    PROVE  Abstract!Next
  <1>1. Idle /\ it' = NoIterator /\ mp' = Remove(mp, tx)
    BY DEF RemoveTx
  <1>2. CASE RemoveError(mp, tx) # "none"
    BY <1>1, <1>2, RefuseStep DEF Remove
  <1>3. CASE RemoveError(mp, tx) = "none"
    <2>1. tx.signed /\ ScoreKey(tx) \in DOMAIN mp.scores
      BY <1>3 DEF RemoveError
    <2>2. MapOf(mp)' = [sk \in DOMAIN MapOf(mp) \ {Abstract!Slot(tx)} |-> MapOf(mp)[sk]]
      BY <1>1, <1>3, <2>1, UnindexMap DEF Remove, Abstract!Slot, ScoreKey
    <2>3. Abstract!Remove(tx)
      BY <1>1, <2>1, <2>2 DEF Abstract!Remove, Abstract!Forget, Idle, NoIterator
    <2> QED BY <2>3 DEF Abstract!Next
  <1> QED BY <1>2, <1>3

LEMMA SelectStep ==
    ASSUME PoolOK(mp), Select
    PROVE  Abstract!Next
  <1>1. Idle /\ MapOf(mp)' = MapOf(mp) /\ it' = SelectIterator(mp)
    BY SelectMap DEF Select
  <1>2. CASE CountTx(mp) = 0
    BY <1>1, <1>2, RefuseStep DEF SelectIterator
  <1>3. CASE CountTx(mp) # 0
    <2>1. DOMAIN MapOf(mp) # {}
      BY <1>3, CountIsScores, FS_EmptySet DEF PoolOK, MapOf
    <2>2. Abstract!Start
      BY <1>1, <1>3, <2>1 DEF Abstract!Start, Idle, SelectIterator, NewIterator
    <2> QED BY <2>2 DEF Abstract!Next
  <1> QED BY <1>2, <1>3

\* Whatever Next hands out is, by the order of nonces, its sender's next.
LEMMA HandOutStep ==
    ASSUME PoolOK(mp), WalkInv, NonceOrder', it.at = "Next", it'.at = "Tx", mp' = mp,
           NEW tx, it'.out = Append(it.out, tx)
    PROVE  Abstract!Next
  <1> DEFINE n == Len(it.out) + 1
             sk == ScoreKey(tx)
             map == MapOf(mp)
  <1>1. it.out \in Seq(Txs) /\ Len(it.out) \in Nat /\ DOMAIN it.out = 1..Len(it.out)
    BY DEF WalkInv, IteratorTypeOK
  <1>2. /\ n \in DOMAIN it'.out /\ it'.out[n] = tx
        /\ \A j \in DOMAIN it'.out : j < n => j \in DOMAIN it.out /\ it.out[j] = it'.out[j]
        /\ \A j \in DOMAIN it.out : j < n /\ j \in DOMAIN it'.out /\ it.out[j] = it'.out[j]
    BY <1>1
  <1>3. /\ tx \in Pooled
        /\ \A j \in DOMAIN it.out : it.out[j].sender = tx.sender => it.out[j].nonce < tx.nonce
        /\ \A t \in Pooled : t.sender = tx.sender /\ t.nonce < tx.nonce
               => \E j \in DOMAIN it.out : it.out[j] = t
    <2> HIDE DEF n
    <2> QED BY <1>2 DEF NonceOrder, Pooled
  <1>4. sk \in DOMAIN map /\ map[sk] = tx /\ sk[1] = tx.sender /\ sk[2] = tx.nonce
    BY <1>3, PooledMapped DEF MapOf, ScoreKey
  <1>5. tx.nonce \in Nat
    BY <1>4, MapDomain, NonceAssumption DEF MapOf
  <1>6. \A i \in DOMAIN it.out : it.out[i] # tx
    BY <1>3, <1>5
  <1>7. ASSUME NEW other \in DOMAIN map, other[1] = sk[1], other[2] < sk[2]
        PROVE  \E j \in DOMAIN it.out : it.out[j] = map[other]
    <2>1. map[other] \in Pooled /\ ScoreKey(map[other]) = other
      BY MapDomain DEF MapOf
    <2>2. map[other].sender = other[1] /\ map[other].nonce = other[2]
      BY <2>1 DEF ScoreKey
    <2> QED BY <1>3, <1>4, <1>7, <2>1, <2>2
  <1> HIDE DEF sk, map
  <1>8. Abstract!HandOut(sk)
    BY <1>3, <1>4, <1>6, <1>7 DEF Abstract!HandOut, Abstract!Given, map
  <1> QED BY <1>4, <1>8 DEF Abstract!Next, map

LEMMA EndStep ==
    ASSUME mp' = mp, it.at # "end", it'.at = "end", it'.out \in {it.out, <<>>}
    PROVE  Abstract!Next
  <1>1. Abstract!End
    BY DEF Abstract!End
  <1> QED BY <1>1 DEF Abstract!Next

\* A step of the iterator that hands out nothing.
LEMMA SameStep ==
    ASSUME mp' = mp, it'.out = it.out, (it'.at = "end") = (it.at = "end")
    PROVE  UNCHANGED Abstract!vars
  BY DEF Abstract!vars

LEMMA AbstractStep == IInv /\ [Next]_vars => [Abstract!Next]_(Abstract!vars)
  <1> SUFFICES ASSUME PoolInv, WalkInv, PoolOK(mp), [Next]_vars
               PROVE  Abstract!Next \/ UNCHANGED Abstract!vars
    BY DEF IInv, PoolInv
  <1>1. ASSUME NEW tx \in Txs, InsertTx(tx) PROVE Abstract!Next
    BY <1>1, InsertStep
  <1>2. ASSUME NEW tx \in Txs, RemoveTx(tx) PROVE Abstract!Next
    BY <1>2, RemoveStep
  <1>3. CASE Select
    BY <1>3, SelectStep
  <1>r. it = [at |-> it.at, node |-> it.node, cursors |-> it.cursors, out |-> it.out]
    BY DEF WalkInv, NodeInv
  <1>4. CASE StepPriority
    <2>1. mp' = mp /\ it.at = "iteratePriority" /\ it'.out = it.out /\ it'.at \in {"Next", "end"}
      BY <1>4, <1>r DEF StepPriority, IteratePriority
    <2> QED BY <2>1, EndStep, SameStep
  <1>5. CASE StepNext
    <2>1. NonceOrder'
      BY <1>5, StepNextInv DEF WalkInv
    <2>2. /\ mp' = mp /\ it.at = "Next"
          /\ \/ it'.out = it.out /\ it'.at = "iteratePriority"
             \/ it'.at = "Tx" /\ \E tx : it'.out = Append(it.out, tx)
      BY <1>5, <1>r DEF StepNext, IteratorNext
    <2> QED BY <2>1, <2>2, HandOutStep, SameStep
  <1>6. CASE CallNext
    <2>1. mp' = mp /\ it.at = "Tx" /\ it'.out = it.out /\ it'.at = "Next"
      BY <1>6, <1>r DEF CallNext
    <2> QED BY <2>1, SameStep
  <1>7. CASE Stop
    <2>1. mp' = mp /\ it.at = "Tx" /\ it'.out = <<>> /\ it'.at = "end"
      BY <1>7 DEF Stop, NoIterator
    <2> QED BY <2>1, EndStep
  <1>8. CASE UNCHANGED vars
    BY <1>8, SameStep DEF vars
  <1> QED BY <1>1, <1>2, <1>3, <1>4, <1>5, <1>6, <1>7, <1>8 DEF Next

\* The mempool of priority_nonce.go is a map from sender and nonce to transaction
\* whose walks hand out each sender's transactions in order, without gap or repeat.
THEOREM Refinement == Spec => ImplementsTxPool
  <1>1. Init => IInv
    BY PoolInit, WalkInit DEF IInv
  <1>2. IInv /\ [Next]_vars => IInv'
    BY PoolStep, WalkStep DEF IInv
  <1> QED BY <1>1, <1>2, AbstractInit, AbstractStep, PTL DEF Spec, ImplementsTxPool, Abstract!Spec
=============================================================================
