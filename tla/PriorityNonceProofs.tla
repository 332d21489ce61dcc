------------------------- MODULE PriorityNonceProofs -------------------------
(***************************************************************************)
(* The indices of a PriorityNonceMempool stay consistent: facts about the  *)
(* operators of PriorityNonce and of the lane mempool that owns such a     *)
(* pool, for every pool and every transaction.                             *)
(***************************************************************************)
EXTENDS LaneMempool, SetInduction

-----------------------------------------------------------------------------
(* Keys. *)

\* A rebuilt key names its sender and nonce, so two scored transactions never
\* share a key.
LEMMA KeyOfFacts ==
    ASSUME NEW sk \in Senders \X Nonces, NEW sc \in Score
    PROVE  /\ KeyOf(sk, sc) \in Key
           /\ KeyOf(sk, sc).sender = sk[1] /\ KeyOf(sk, sc).nonce = sk[2]
           /\ KeyOf(sk, sc).priority = sc.priority /\ KeyOf(sk, sc).weight = sc.weight
  BY DEF KeyOf, Key, Score

LEMMA KeyOfInjective ==
    ASSUME NEW sk1 \in Senders \X Nonces, NEW sk2 \in Senders \X Nonces,
           NEW sc1 \in Score, NEW sc2 \in Score,
           KeyOf(sk1, sc1) = KeyOf(sk2, sc2)
    PROVE  sk1 = sk2
  BY KeyOfFacts

LEMMA TxFacts ==
    ASSUME NEW tx \in Txs
    PROVE  /\ tx.sender \in Senders /\ tx.nonce \in Nonces /\ tx.priority \in Priorities
           /\ ScoreKey(tx) \in Senders \X Nonces
           /\ ScoreKey(tx)[1] = tx.sender /\ ScoreKey(tx)[2] = tx.nonce
  BY TxAssumption DEF Tx, ScoreKey

LEMMA EmptyPoolOK == PoolType(EmptyPool) /\ PoolAgrees(EmptyPool)
  <1>1. IsFiniteSet({})
    BY FS_EmptySet
  <1>2. PoolType(EmptyPool)
    BY <1>1 DEF PoolType, EmptyPool, EmptyList
  <1>3. PoolAgrees(EmptyPool)
    BY DEF PoolAgrees, KeysScored, NoncesScored, TxsFiled, EmptyPool, EmptyList
  <1> QED BY <1>2, <1>3

-----------------------------------------------------------------------------
(* Remove. *)

\* Remove, for a transaction whose sender and nonce the pool knows, leaves
\* indices that agree.
LEMMA UnindexOK ==
    ASSUME NEW mp, PoolType(mp), PoolAgrees(mp), NEW tx \in Txs,
           ScoreKey(tx) \in DOMAIN mp.scores
    PROVE  PoolType(Unindex(mp, tx)) /\ PoolAgrees(Unindex(mp, tx))
  <1> DEFINE sk == ScoreKey(tx)
             old == mp.scores[sk]
             new == Unindex(mp, tx)
  <1>1. /\ sk = <<tx.sender, tx.nonce>> /\ tx.sender \in Senders /\ tx.nonce \in Nonces
        /\ sk \in Senders \X Nonces /\ old \in Score
    BY TxFacts DEF PoolType, ScoreKey
  <1>2. tx.sender \in DOMAIN mp.senderIndices /\ tx.nonce \in DOMAIN mp.senderIndices[tx.sender]
    BY <1>1 DEF PoolAgrees, NoncesScored
  <1>3. /\ new.priorityIndex = SkipRemove(mp.priorityIndex, KeyOf(sk, old))
        /\ new.priorityCounts = [mp.priorityCounts EXCEPT ![old.priority] = @ - 1]
        /\ new.senderIndices = [mp.senderIndices EXCEPT ![tx.sender] = SkipRemove(@, tx.nonce)]
        /\ new.scores = SkipRemove(mp.scores, sk)
        /\ new = [priorityIndex |-> new.priorityIndex, priorityCounts |-> new.priorityCounts,
                  senderIndices |-> new.senderIndices, scores |-> new.scores]
    BY DEF Unindex
  <1>4. /\ DOMAIN new.scores = DOMAIN mp.scores \ {sk}
        /\ \A x \in DOMAIN new.scores : new.scores[x] = mp.scores[x]
        /\ new.scores \in [DOMAIN new.scores -> Score]
    BY <1>3 DEF SkipRemove, PoolType
  <1>5. /\ DOMAIN new.priorityIndex = DOMAIN mp.priorityIndex \ {KeyOf(sk, old)}
        /\ \A k \in DOMAIN new.priorityIndex : new.priorityIndex[k] = mp.priorityIndex[k]
        /\ new.priorityIndex \in [DOMAIN new.priorityIndex -> Txs]
    BY <1>3 DEF SkipRemove, PoolType
  <1>6. /\ DOMAIN new.senderIndices = DOMAIN mp.senderIndices
        /\ \A s \in DOMAIN new.senderIndices : s # tx.sender =>
              new.senderIndices[s] = mp.senderIndices[s]
        /\ new.senderIndices[tx.sender] = SkipRemove(mp.senderIndices[tx.sender], tx.nonce)
        /\ new.senderIndices = [s \in DOMAIN new.senderIndices |-> new.senderIndices[s]]
    BY <1>2, <1>3 DEF PoolType
  <1>7. /\ DOMAIN new.senderIndices[tx.sender] = DOMAIN mp.senderIndices[tx.sender] \ {tx.nonce}
        /\ \A n \in DOMAIN new.senderIndices[tx.sender] :
              new.senderIndices[tx.sender][n] = mp.senderIndices[tx.sender][n]
        /\ new.senderIndices[tx.sender]
             \in [DOMAIN new.senderIndices[tx.sender] -> [priority: Priorities, tx: Txs]]
    BY <1>2, <1>6 DEF SkipRemove, PoolType
  <1>8. PoolType(new)
    <2>1. IsFiniteSet(DOMAIN new.scores)
      BY <1>4, FS_Difference, FS_Subset DEF PoolType
    <2>2. new.priorityCounts \in [Priorities -> Int]
      BY <1>1, <1>3 DEF PoolType, Score
    <2> QED BY <1>3, <1>4, <1>5, <1>6, <1>7, <2>1, <2>2 DEF PoolType
  <1>9. KeysScored(new)
    <2>1. ASSUME NEW x \in DOMAIN mp.scores, x # sk
          PROVE  KeyOf(x, mp.scores[x]) # KeyOf(sk, old)
      BY <1>1, <2>1, KeyOfInjective DEF PoolType
    <2> QED BY <1>4, <1>5, <2>1 DEF KeysScored, PoolAgrees
  <1>10. NoncesScored(new)
    <2> SUFFICES ASSUME NEW s \in Senders, NEW n \in Nonces
                 PROVE  <<s, n>> \in DOMAIN new.scores
                          <=> s \in DOMAIN new.senderIndices /\ n \in DOMAIN new.senderIndices[s]
      BY DEF NoncesScored
    <2>1. <<s, n>> \in DOMAIN mp.scores
            <=> s \in DOMAIN mp.senderIndices /\ n \in DOMAIN mp.senderIndices[s]
      BY DEF NoncesScored, PoolAgrees
    <2>2. CASE s = tx.sender
      BY <1>1, <1>2, <1>4, <1>6, <1>7, <2>1, <2>2
    <2>3. CASE s # tx.sender
      BY <1>1, <1>4, <1>6, <2>1, <2>3
    <2> QED BY <2>2, <2>3
  <1>11. TxsFiled(new)
    <2> SUFFICES ASSUME NEW k \in DOMAIN new.priorityIndex
                 PROVE  new.senderIndices[k.sender][k.nonce] = mp.senderIndices[k.sender][k.nonce]
      BY <1>5 DEF TxsFiled, PoolAgrees
    <2>1. PICK x \in DOMAIN mp.scores : k = KeyOf(x, mp.scores[x])
      BY <1>5 DEF KeysScored, PoolAgrees
    <2>2. x # sk
      BY <1>5, <2>1
    <2>3. x = <<k.sender, k.nonce>> /\ k.sender \in Senders /\ k.nonce \in Nonces
      BY <2>1, KeyOfFacts DEF PoolType
    <2>4. k.sender \in DOMAIN mp.senderIndices /\ k.nonce \in DOMAIN mp.senderIndices[k.sender]
      BY <2>1, <2>3 DEF NoncesScored, PoolAgrees
    <2> QED BY <1>1, <1>6, <1>7, <2>2, <2>3, <2>4
  <1> QED BY <1>8, <1>9, <1>10, <1>11 DEF PoolAgrees

-----------------------------------------------------------------------------
(* Insert. *)

\* Insert, whether it adds a transaction or replaces one with the same sender
\* and nonce, leaves indices that agree.
LEMMA IndexOK ==
    ASSUME NEW mp, PoolType(mp), PoolAgrees(mp), NEW tx \in Txs
    PROVE  PoolType(Index(mp, tx)) /\ PoolAgrees(Index(mp, tx))
  <1> DEFINE sk == ScoreKey(tx)
             sc == [priority |-> tx.priority, weight |-> ZeroValue]
             new == Index(mp, tx)
             isOld == sk \in DOMAIN mp.scores
             others == IF isOld THEN SkipRemove(mp.priorityIndex, KeyOf(sk, mp.scores[sk]))
                       ELSE mp.priorityIndex
             list == IF tx.sender \in DOMAIN mp.senderIndices
                     THEN mp.senderIndices[tx.sender] ELSE EmptyList
             elem == new.senderIndices[tx.sender][tx.nonce]
  <1>1. /\ sk = <<tx.sender, tx.nonce>> /\ tx.sender \in Senders /\ tx.nonce \in Nonces
        /\ sk \in Senders \X Nonces /\ sc \in Score /\ tx.priority \in Priorities
        /\ sc.priority = tx.priority
    BY TxFacts, PriorityAssumption DEF ScoreKey, Score
  <1>2. /\ new.priorityIndex = SkipSet(others, KeyOf(sk, sc), tx)
        /\ new.scores = SkipSet(mp.scores, sk, sc)
        /\ \E p : new.senderIndices = SkipSet(mp.senderIndices, tx.sender,
                     SkipSet(list, tx.nonce, [priority |-> p, tx |-> tx]))
                 /\ p = IF SetKeepsKey /\ tx.nonce \in DOMAIN list
                        THEN list[tx.nonce].priority ELSE tx.priority
        /\ new = [priorityIndex |-> new.priorityIndex, priorityCounts |-> new.priorityCounts,
                  senderIndices |-> new.senderIndices, scores |-> new.scores]
    BY DEF Index
  <1>3. /\ DOMAIN new.scores = DOMAIN mp.scores \cup {sk}
        /\ \A x \in DOMAIN new.scores : x # sk => new.scores[x] = mp.scores[x]
        /\ new.scores[sk] = sc
        /\ new.scores \in [DOMAIN new.scores -> Score]
    BY <1>1, <1>2 DEF SkipSet, PoolType
  <1>4. /\ DOMAIN others = DOMAIN mp.priorityIndex \ (IF isOld THEN {KeyOf(sk, mp.scores[sk])} ELSE {})
        /\ \A k \in DOMAIN others : others[k] = mp.priorityIndex[k]
    BY DEF SkipRemove
  <1>5. /\ DOMAIN new.priorityIndex = DOMAIN others \cup {KeyOf(sk, sc)}
        /\ \A k \in DOMAIN others : k # KeyOf(sk, sc) => new.priorityIndex[k] = mp.priorityIndex[k]
        /\ new.priorityIndex[KeyOf(sk, sc)] = tx
        /\ new.priorityIndex \in [DOMAIN new.priorityIndex -> Txs]
    BY <1>2, <1>4, SMTT(30) DEF SkipSet, PoolType
  <1>6. /\ DOMAIN list = IF tx.sender \in DOMAIN mp.senderIndices
                         THEN DOMAIN mp.senderIndices[tx.sender] ELSE {}
        /\ list \in [DOMAIN list -> [priority: Priorities, tx: Txs]]
        /\ DOMAIN list \subseteq Nonces
    BY DEF EmptyList, PoolType
  <1>7. /\ DOMAIN new.senderIndices = DOMAIN mp.senderIndices \cup {tx.sender}
        /\ \A s \in DOMAIN mp.senderIndices : s # tx.sender =>
              new.senderIndices[s] = mp.senderIndices[s]
        /\ new.senderIndices = [s \in DOMAIN new.senderIndices |-> new.senderIndices[s]]
        /\ DOMAIN new.senderIndices[tx.sender] = DOMAIN list \cup {tx.nonce}
        /\ \A n \in DOMAIN list : n # tx.nonce => new.senderIndices[tx.sender][n] = list[n]
        /\ new.senderIndices[tx.sender]
             \in [DOMAIN new.senderIndices[tx.sender] -> [priority: Priorities, tx: Txs]]
        /\ new.senderIndices[tx.sender][tx.nonce].tx = tx
    <2>1. PICK p : /\ new.senderIndices = SkipSet(mp.senderIndices, tx.sender,
                        SkipSet(list, tx.nonce, [priority |-> p, tx |-> tx]))
                   /\ p = IF SetKeepsKey /\ tx.nonce \in DOMAIN list
                          THEN list[tx.nonce].priority ELSE tx.priority
      BY <1>2
    <2>2. p \in Priorities
      BY <1>1, <1>6, <2>1, KeepAssumption
    <2>3. [priority |-> p, tx |-> tx] \in [priority: Priorities, tx: Txs]
      BY <2>2
    <2> QED BY <1>6, <2>1, <2>3 DEF SkipSet, PoolType
  <1>8. PoolType(new)
    <2>1. IsFiniteSet(DOMAIN new.scores)
      BY <1>3, FS_AddElement DEF PoolType
    <2>2. new.priorityCounts \in [Priorities -> Int]
      <3>1. ASSUME isOld PROVE mp.scores[sk].priority \in Priorities
        BY <3>1 DEF PoolType, Score
      <3> QED BY <3>1 DEF Index, PoolType
    <2>3. DOMAIN new.priorityIndex \subseteq Key
      BY <1>1, <1>4, <1>5, KeyOfFacts DEF PoolType
    <2>4. DOMAIN new.scores \subseteq Senders \X Nonces
      BY <1>1, <1>3 DEF PoolType
    <2>5. ASSUME NEW s \in DOMAIN new.senderIndices
          PROVE  /\ new.senderIndices[s]
                      \in [DOMAIN new.senderIndices[s] -> [priority: Priorities, tx: Txs]]
                 /\ DOMAIN new.senderIndices[s] \subseteq Nonces
      BY <1>1, <1>6, <1>7 DEF PoolType
    <2>6. DOMAIN new.senderIndices \subseteq Senders
      BY <1>1, <1>7 DEF PoolType
    <2> QED BY <1>2, <1>3, <1>5, <1>7, <2>1, <2>2, <2>3, <2>4, <2>5, <2>6 DEF PoolType
  <1>9. KeysScored(new)
    <2>1. ASSUME NEW x \in DOMAIN mp.scores, x # sk, isOld
          PROVE  KeyOf(x, mp.scores[x]) # KeyOf(sk, mp.scores[sk])
      BY <1>1, <2>1, KeyOfInjective DEF PoolType
    <2>2. DOMAIN others = {KeyOf(x, mp.scores[x]) : x \in DOMAIN mp.scores \ {sk}}
      BY <1>4, <2>1 DEF KeysScored, PoolAgrees
    <2> QED BY <1>3, <1>5, <2>2 DEF KeysScored
  <1>10. NoncesScored(new)
    <2> SUFFICES ASSUME NEW s \in Senders, NEW n \in Nonces
                 PROVE  <<s, n>> \in DOMAIN new.scores
                          <=> s \in DOMAIN new.senderIndices /\ n \in DOMAIN new.senderIndices[s]
      BY DEF NoncesScored
    <2>1. <<s, n>> \in DOMAIN mp.scores
            <=> s \in DOMAIN mp.senderIndices /\ n \in DOMAIN mp.senderIndices[s]
      BY DEF NoncesScored, PoolAgrees
    <2>2. CASE s = tx.sender
      BY <1>1, <1>3, <1>6, <1>7, <2>1, <2>2
    <2>3. CASE s # tx.sender
      BY <1>1, <1>3, <1>7, <2>1, <2>3
    <2> QED BY <2>2, <2>3
  <1>11. TxsFiled(new)
    <2> SUFFICES ASSUME NEW k \in DOMAIN new.priorityIndex
                 PROVE  /\ new.priorityIndex[k] = new.senderIndices[k.sender][k.nonce].tx
                        /\ new.priorityIndex[k].sender = k.sender
                        /\ new.priorityIndex[k].nonce = k.nonce
                        /\ new.priorityIndex[k].priority = k.priority
      BY DEF TxsFiled
    <2>1. CASE k = KeyOf(sk, sc)
      <3>1. k.sender = tx.sender /\ k.nonce = tx.nonce /\ k.priority = tx.priority
        BY <1>1, <2>1, KeyOfFacts
      <3> QED BY <1>5, <1>7, <2>1, <3>1
    <2>2. CASE k # KeyOf(sk, sc)
      <3>1. k \in DOMAIN others /\ k \in DOMAIN mp.priorityIndex
        BY <1>4, <1>5, <2>2
      <3>2. PICK x \in DOMAIN mp.scores : k = KeyOf(x, mp.scores[x])
        BY <3>1 DEF KeysScored, PoolAgrees
      <3>3. x # sk
        BY <1>4, <3>1, <3>2
      <3>4. x = <<k.sender, k.nonce>> /\ k.sender \in Senders /\ k.nonce \in Nonces
        BY <3>2, KeyOfFacts DEF PoolType
      <3>5. k.sender \in DOMAIN mp.senderIndices /\ k.nonce \in DOMAIN mp.senderIndices[k.sender]
        BY <3>2, <3>4 DEF NoncesScored, PoolAgrees
      <3>6. new.senderIndices[k.sender][k.nonce] = mp.senderIndices[k.sender][k.nonce]
        BY <1>1, <1>6, <1>7, <3>3, <3>4, <3>5
      <3> QED BY <1>5, <2>2, <3>1, <3>6 DEF TxsFiled, PoolAgrees
    <2> QED BY <2>1, <2>2
  <1> QED BY <1>8, <1>9, <1>10, <1>11 DEF PoolAgrees

-----------------------------------------------------------------------------
(* Select. *)

\* A finite, nonempty set of numbers has a greatest element: the one with the
\* smallest set of elements above it.
LEMMA FiniteMax ==
    ASSUME NEW F, IsFiniteSet(F), F \subseteq Nat, F # {}
    PROVE  \E n \in F : \A m \in F : n >= m
  <1> DEFINE Above(n) == {m \in F : m > n}
             T == {Above(n) : n \in F}
  <1>1. IsWellFoundedOn(StrictSubsetOrdering(F), SUBSET F)
    BY FS_StrictSubsetOrderingWellFounded, FS_FiniteSubsetsOfFinite
  <1>2. T \subseteq SUBSET F /\ T # {}
    OBVIOUS
  <1>3. PICK x \in T : \A y \in T : ~ (<<y, x>> \in StrictSubsetOrdering(F))
    BY <1>1, <1>2, WFMin
  <1>4. PICK n \in F : x = Above(n)
    OBVIOUS
  <1>5. ASSUME NEW m \in F, m > n PROVE FALSE
    <2>a. n \in Nat /\ m \in Nat /\ ~(m > m)
      OBVIOUS
    <2>b. ASSUME NEW q \in F, q > m PROVE q > n
      <3> q \in Nat
        OBVIOUS
      <3> QED BY <1>5, <2>a, <2>b
    <2>1. Above(m) \subseteq Above(n) /\ m \in Above(n) /\ m \notin Above(m)
      BY <1>5, <2>a, <2>b
    <2>2. <<Above(m), x>> \in StrictSubsetOrdering(F)
      BY <1>4, <2>1 DEF StrictSubsetOrdering
    <2> QED BY <1>3, <2>2
  <1> QED BY <1>5

\* A sender's list is finite, being as large as the sender's share of the scores.
LEMMA SenderListFinite ==
    ASSUME NEW mp, PoolType(mp), PoolAgrees(mp), NEW s \in DOMAIN mp.senderIndices
    PROVE  IsFiniteSet(DOMAIN mp.senderIndices[s])
  <1> DEFINE N == DOMAIN mp.senderIndices[s]
             f == [n \in N |-> <<s, n>>]
  <1>1. f \in Injection(N, DOMAIN mp.scores)
    <2>1. \A n \in N : <<s, n>> \in DOMAIN mp.scores
      BY DEF PoolType, PoolAgrees, NoncesScored
    <2> QED BY <2>1 DEF Injection, IsInjective
  <1> QED BY <1>1, FS_Injection DEF PoolType

\* The weight of an indexed key is the priority of some transaction key.
LEMMA SenderWeightType ==
    ASSUME NEW mp, PoolType(mp), PoolAgrees(mp),
           NEW k \in Key, <<k.sender, k.nonce>> \in DOMAIN mp.scores
    PROVE  SenderWeight(mp, k) \in Priorities
  <1> DEFINE list == mp.senderIndices[k.sender]
  <1>1. k.sender \in Senders /\ k.nonce \in Nonces
    BY DEF Key
  <1>2. k.sender \in DOMAIN mp.senderIndices /\ k.nonce \in DOMAIN list
    BY <1>1 DEF PoolAgrees, NoncesScored
  <1>3. IsFiniteSet(DOMAIN list)
    BY <1>2, SenderListFinite
  <1>4. DOMAIN list \subseteq Nat
    BY <1>2, NonceAssumption DEF PoolType
  <1>5. \E n \in DOMAIN list : \A m \in DOMAIN list : n >= m
    BY <1>2, <1>3, <1>4, FiniteMax
  <1>6. (CHOOSE n \in DOMAIN list : \A m \in DOMAIN list : n >= m) \in DOMAIN list
    BY <1>5
  <1>7. \A n \in DOMAIN list : list[n].priority \in Priorities
    BY <1>2 DEF PoolType
  <1> QED BY <1>2, <1>6, <1>7 DEF SenderWeight

\* Scored transactions and indexed keys correspond one to one.
LEMMA ScoredKey ==
    ASSUME NEW mp, PoolType(mp), PoolAgrees(mp)
    PROVE  /\ \A k \in DOMAIN mp.priorityIndex :
                /\ <<k.sender, k.nonce>> \in DOMAIN mp.scores
                /\ k = KeyOf(<<k.sender, k.nonce>>, mp.scores[<<k.sender, k.nonce>>])
           /\ \A sk \in DOMAIN mp.scores :
                /\ KeyOf(sk, mp.scores[sk]) \in DOMAIN mp.priorityIndex
                /\ sk = <<sk[1], sk[2]>>
           /\ \A j, k \in DOMAIN mp.priorityIndex :
                j.sender = k.sender /\ j.nonce = k.nonce => j = k
  <1>1. ASSUME NEW k \in DOMAIN mp.priorityIndex
        PROVE  /\ <<k.sender, k.nonce>> \in DOMAIN mp.scores
               /\ k = KeyOf(<<k.sender, k.nonce>>, mp.scores[<<k.sender, k.nonce>>])
    <2>1. PICK x \in DOMAIN mp.scores : k = KeyOf(x, mp.scores[x])
      BY DEF PoolAgrees, KeysScored
    <2>2. x = <<k.sender, k.nonce>>
      BY <2>1, KeyOfFacts DEF PoolType
    <2> QED BY <2>1, <2>2
  <1>2. ASSUME NEW sk \in DOMAIN mp.scores
        PROVE  /\ KeyOf(sk, mp.scores[sk]) \in DOMAIN mp.priorityIndex
               /\ sk = <<sk[1], sk[2]>>
    BY DEF PoolAgrees, KeysScored, PoolType
  <1> QED BY <1>1, <1>2

\* Reordering the ties changes weights only: the keys still match the scores.
LEMMA ReorderOK ==
    ASSUME NEW mp, PoolType(mp), PoolAgrees(mp)
    PROVE  LET new == ReorderPriorityTies(mp)
           IN  /\ PoolType(new) /\ PoolAgrees(new)
               /\ DOMAIN new.scores = DOMAIN mp.scores
               /\ \A sk \in DOMAIN mp.scores : new.scores[sk].priority = mp.scores[sk].priority
               /\ new.priorityCounts = mp.priorityCounts
  <1> DEFINE keys == DOMAIN mp.priorityIndex
             ScoreOf(k) == [priority |-> Reweigh(mp, k).priority, weight |-> Reweigh(mp, k).weight]
             new == ReorderPriorityTies(mp)
  <1>1. /\ new.priorityIndex = [j \in {Reweigh(mp, k) : k \in keys} |->
                                   mp.priorityIndex[KeyAt(mp, j.sender, j.nonce)]]
        /\ new.scores = [sk \in DOMAIN mp.scores |->
                            IF KeyAt(mp, sk[1], sk[2]) \in keys /\ Tied(mp, KeyAt(mp, sk[1], sk[2]))
                            THEN [priority |-> KeyAt(mp, sk[1], sk[2]).priority,
                                  weight |-> SenderWeight(mp, KeyAt(mp, sk[1], sk[2]))]
                            ELSE mp.scores[sk]]
        /\ new.priorityCounts = mp.priorityCounts
        /\ new.senderIndices = mp.senderIndices
        /\ new = [priorityIndex |-> new.priorityIndex, priorityCounts |-> new.priorityCounts,
                  senderIndices |-> new.senderIndices, scores |-> new.scores]
    BY DEF ReorderPriorityTies
  <1>2. ASSUME NEW k \in keys PROVE KeyAt(mp, k.sender, k.nonce) = k
    BY ScoredKey DEF KeyAt
  <1>3. ASSUME NEW k \in keys
        PROVE  /\ k \in Key /\ Reweigh(mp, k) \in Key
               /\ Reweigh(mp, k).sender = k.sender /\ Reweigh(mp, k).nonce = k.nonce
               /\ Reweigh(mp, k).priority = k.priority
    <2>1. k \in Key
      BY DEF PoolType
    <2>2. SenderWeight(mp, k) \in Priorities
      BY <2>1, ScoredKey, SenderWeightType
    <2> QED BY <2>1, <2>2 DEF Reweigh, Key
  <1>4. ASSUME NEW k \in keys
        PROVE  /\ ScoreOf(k) \in Score /\ ScoreOf(k).priority = k.priority
               /\ KeyOf(<<k.sender, k.nonce>>, ScoreOf(k)) = Reweigh(mp, k)
    <2> DEFINE j == Reweigh(mp, k)
    <2>1. j = [priority |-> j.priority, weight |-> j.weight, sender |-> j.sender, nonce |-> j.nonce]
          /\ j.priority \in Priorities /\ j.weight \in Priorities
      BY <1>3 DEF Key
    <2> QED BY <1>3, <2>1 DEF Score, KeyOf
  <1>5. ASSUME NEW sk \in DOMAIN mp.scores
        PROVE  \E k \in keys : /\ sk = <<k.sender, k.nonce>> /\ new.scores[sk] = ScoreOf(k)
                               /\ k.priority = mp.scores[sk].priority
    <2> DEFINE k == KeyOf(sk, mp.scores[sk])
    <2>1. /\ k \in keys /\ sk = <<k.sender, k.nonce>> /\ k.priority = mp.scores[sk].priority
          /\ k.sender = sk[1] /\ k.nonce = sk[2]
      BY ScoredKey, KeyOfFacts DEF PoolType
    <2>2. KeyAt(mp, sk[1], sk[2]) = k
      BY <1>2, <2>1
    <2>3. new.scores[sk] = ScoreOf(k)
      <3>1. k \in Key /\ mp.scores[sk] \in Score
        BY <1>3, <2>1 DEF PoolType
      <3>2. CASE Tied(mp, k)
        <4>1. Reweigh(mp, k).priority = k.priority /\ Reweigh(mp, k).weight = SenderWeight(mp, k)
          BY <3>1, <3>2 DEF Reweigh, Key
        <4> QED BY <1>1, <2>1, <2>2, <3>2, <4>1
      <3>3. CASE ~Tied(mp, k)
        <4>1. Reweigh(mp, k) = k
          BY <3>3 DEF Reweigh
        <4>2. new.scores[sk] = mp.scores[sk]
          BY <1>1, <2>2, <3>3
        <4>3. ScoreOf(k) = mp.scores[sk]
          BY <3>1, <4>1 DEF KeyOf, Score
        <4> QED BY <4>2, <4>3
      <3> QED BY <3>2, <3>3
    <2> QED BY <2>1, <2>3
  <1>6. DOMAIN new.scores = DOMAIN mp.scores
    BY <1>1
  <1>7. DOMAIN new.priorityIndex = {Reweigh(mp, k) : k \in keys}
    BY <1>1
  <1>8. ASSUME NEW k \in keys PROVE new.priorityIndex[Reweigh(mp, k)] = mp.priorityIndex[k]
    BY <1>1, <1>2, <1>3
  <1>9. /\ new.scores = [sk \in DOMAIN new.scores |-> new.scores[sk]]
        /\ new.priorityIndex = [j \in DOMAIN new.priorityIndex |-> new.priorityIndex[j]]
    BY <1>1
  <1> HIDE DEF ScoreOf, new
  <1>10. /\ new.scores \in [DOMAIN new.scores -> Score]
         /\ \A sk \in DOMAIN mp.scores : new.scores[sk].priority = mp.scores[sk].priority
    <2>1. ASSUME NEW sk \in DOMAIN mp.scores
          PROVE  new.scores[sk] \in Score /\ new.scores[sk].priority = mp.scores[sk].priority
      <3>1. PICK k \in keys : new.scores[sk] = ScoreOf(k) /\ k.priority = mp.scores[sk].priority
        BY <1>5
      <3> QED BY <1>4, <3>1
    <2> QED BY <1>6, <1>9, <2>1
  <1>11. PoolType(new)
    <2>1. new.priorityIndex \in [DOMAIN new.priorityIndex -> Txs]
      <3>1. \A j \in DOMAIN new.priorityIndex : new.priorityIndex[j] \in Txs
        BY <1>7, <1>8 DEF PoolType
      <3> QED BY <1>9, <3>1
    <2>2. DOMAIN new.priorityIndex \subseteq Key
      BY <1>3, <1>7
    <2> QED BY <1>1, <1>6, <1>10, <2>1, <2>2 DEF PoolType
  <1>12. KeysScored(new)
    <2>1. ASSUME NEW k \in keys
          PROVE  \E sk \in DOMAIN new.scores : Reweigh(mp, k) = KeyOf(sk, new.scores[sk])
      <3>1. <<k.sender, k.nonce>> \in DOMAIN mp.scores
        BY ScoredKey
      <3>2. PICK x \in keys : /\ <<k.sender, k.nonce>> = <<x.sender, x.nonce>>
                             /\ new.scores[<<k.sender, k.nonce>>] = ScoreOf(x)
        BY <1>5, <3>1
      <3>3. x = k
        BY <3>2, ScoredKey
      <3> QED BY <1>4, <1>6, <3>1, <3>2, <3>3
    <2>2. ASSUME NEW sk \in DOMAIN new.scores
          PROVE  \E k \in keys : Reweigh(mp, k) = KeyOf(sk, new.scores[sk])
      BY <1>4, <1>5, <1>6
    <2> QED BY <1>7, <2>1, <2>2 DEF KeysScored
  <1>13. NoncesScored(new)
    BY <1>1, <1>6 DEF NoncesScored, PoolAgrees
  <1>14. TxsFiled(new)
    <2> SUFFICES ASSUME NEW j \in DOMAIN new.priorityIndex
                 PROVE  /\ new.priorityIndex[j] = new.senderIndices[j.sender][j.nonce].tx
                        /\ new.priorityIndex[j].sender = j.sender
                        /\ new.priorityIndex[j].nonce = j.nonce
                        /\ new.priorityIndex[j].priority = j.priority
      BY DEF TxsFiled
    <2>1. PICK k \in keys : j = Reweigh(mp, k)
      BY <1>7
    <2>2. /\ mp.priorityIndex[k] = mp.senderIndices[k.sender][k.nonce].tx
          /\ mp.priorityIndex[k].sender = k.sender
          /\ mp.priorityIndex[k].nonce = k.nonce
          /\ mp.priorityIndex[k].priority = k.priority
      BY DEF TxsFiled, PoolAgrees
    <2>3. new.priorityIndex[j] = mp.priorityIndex[k] /\ new.senderIndices = mp.senderIndices
      BY <1>1, <1>8, <2>1
    <2>4. j.sender = k.sender /\ j.nonce = k.nonce /\ j.priority = k.priority
      BY <1>3, <2>1
    <2> QED BY <2>2, <2>3, <2>4
  <1>15. new.priorityCounts = mp.priorityCounts
    BY <1>1
  <1> QED BY <1>6, <1>10, <1>11, <1>12, <1>13, <1>14, <1>15 DEF PoolAgrees, new

-----------------------------------------------------------------------------
(* Counts. *)

LEMMA AtPriorityFinite ==
    ASSUME NEW mp, PoolType(mp), NEW p
    PROVE  IsFiniteSet(AtPriority(mp, p)) /\ Cardinality(AtPriority(mp, p)) \in Nat
  BY FS_Subset, FS_CardinalityType DEF PoolType, AtPriority

\* Insert counts the new transaction and discounts the one it replaces.
LEMMA IndexCounts ==
    ASSUME NEW mp, PoolType(mp), CountsRight(mp), NEW tx \in Txs
    PROVE  CountsRight(Index(mp, tx))
  <1> DEFINE sk == ScoreKey(tx)
             new == Index(mp, tx)
             isOld == sk \in DOMAIN mp.scores
  <1> SUFFICES ASSUME NEW p \in Priorities
               PROVE  new.priorityCounts[p] = Cardinality(AtPriority(new, p))
    BY DEF CountsRight
  <1> DEFINE S == AtPriority(mp, p)
             C == Cardinality(S)
  <1>1. IsFiniteSet(S) /\ C \in Nat /\ mp.priorityCounts[p] = C
    BY AtPriorityFinite DEF CountsRight
  <1>2. sk \in S <=> isOld /\ p = mp.scores[sk].priority
    BY DEF AtPriority
  <1>3. new.priorityCounts[p] = C + (IF p = tx.priority THEN 1 ELSE 0)
                                  - (IF sk \in S THEN 1 ELSE 0)
    BY <1>1, <1>2 DEF Index, KeyOf
  <1>4. new.scores = SkipSet(mp.scores, sk, [priority |-> tx.priority, weight |-> ZeroValue])
    BY DEF Index
  <1>5. /\ DOMAIN new.scores = DOMAIN mp.scores \cup {sk}
        /\ \A x \in DOMAIN new.scores : x # sk => new.scores[x] = mp.scores[x]
        /\ new.scores[sk].priority = tx.priority
    BY <1>4 DEF SkipSet
  <1>6. CASE p = tx.priority
    <2>1. AtPriority(new, p) = S \cup {sk}
      BY <1>5, <1>6 DEF AtPriority
    <2>2. Cardinality(S \cup {sk}) = IF sk \in S THEN C ELSE C + 1
      BY <1>1, FS_AddElement
    <2> QED BY <1>1, <1>3, <1>6, <2>1, <2>2
  <1>7. CASE p # tx.priority
    <2>1. AtPriority(new, p) = S \ {sk}
      BY <1>5, <1>7 DEF AtPriority
    <2>2. Cardinality(S \ {sk}) = IF sk \in S THEN C - 1 ELSE C
      BY <1>1, FS_RemoveElement
    <2> QED BY <1>1, <1>3, <1>7, <2>1, <2>2
  <1> QED BY <1>6, <1>7

LEMMA UnindexCounts ==
    ASSUME NEW mp, PoolType(mp), CountsRight(mp), NEW tx \in Txs,
           ScoreKey(tx) \in DOMAIN mp.scores
    PROVE  CountsRight(Unindex(mp, tx))
  <1> DEFINE sk == ScoreKey(tx)
             new == Unindex(mp, tx)
  <1> SUFFICES ASSUME NEW p \in Priorities
               PROVE  new.priorityCounts[p] = Cardinality(AtPriority(new, p))
    BY DEF CountsRight
  <1> DEFINE S == AtPriority(mp, p)
             C == Cardinality(S)
  <1>1. IsFiniteSet(S) /\ C \in Nat /\ mp.priorityCounts[p] = C
    BY AtPriorityFinite DEF CountsRight
  <1>2. sk \in S <=> p = mp.scores[sk].priority
    BY DEF AtPriority
  <1>3. new.priorityCounts[p] = IF sk \in S THEN C - 1 ELSE C
    BY <1>1, <1>2 DEF Unindex, PoolType
  <1>4. AtPriority(new, p) = S \ {sk}
    BY DEF AtPriority, Unindex, SkipRemove
  <1>5. Cardinality(S \ {sk}) = IF sk \in S THEN C - 1 ELSE C
    BY <1>1, FS_RemoveElement
  <1> QED BY <1>3, <1>4, <1>5

LEMMA ReorderCounts ==
    ASSUME NEW mp, PoolType(mp), PoolAgrees(mp), CountsRight(mp)
    PROVE  CountsRight(ReorderPriorityTies(mp))
  <1> DEFINE new == ReorderPriorityTies(mp)
  <1>1. /\ DOMAIN new.scores = DOMAIN mp.scores
        /\ \A sk \in DOMAIN mp.scores : new.scores[sk].priority = mp.scores[sk].priority
        /\ new.priorityCounts = mp.priorityCounts
    BY ReorderOK
  <1> HIDE DEF new
  <1> SUFFICES ASSUME NEW p \in Priorities
               PROVE  new.priorityCounts[p] = Cardinality(AtPriority(new, p))
    BY DEF CountsRight, new
  <1>2. AtPriority(new, p) = AtPriority(mp, p)
    BY <1>1 DEF AtPriority
  <1> QED BY <1>1, <1>2 DEF CountsRight

\* CountTx, the length of the priority index, is the number of scores.
LEMMA CountIsScores ==
    ASSUME NEW mp, PoolType(mp), PoolAgrees(mp)
    PROVE  CountTx(mp) = Cardinality(DOMAIN mp.scores) /\ CountTx(mp) \in Nat
  <1> DEFINE D == DOMAIN mp.scores
             K == DOMAIN mp.priorityIndex
             f == [sk \in D |-> KeyOf(sk, mp.scores[sk])]
  <1>1. f \in [D -> K] /\ \A k \in K : \E sk \in D : f[sk] = k
    BY DEF PoolAgrees, KeysScored
  <1>2. \A a, b \in D : f[a] = f[b] => a = b
    BY KeyOfInjective DEF PoolType
  <1>3. f \in Bijection(D, K)
    BY <1>1, <1>2 DEF Bijection, Injection, Surjection, IsInjective
  <1>4. ExistsBijection(D, K)
    BY <1>3 DEF ExistsBijection
  <1> QED BY <1>4, FS_Bijection, FS_CardinalityType DEF CountTx, PoolType

-----------------------------------------------------------------------------
(* The operations. *)

\* What holds of a pool between any two calls.
PoolOK(mp) == PoolType(mp) /\ PoolAgrees(mp) /\ CountsRight(mp)

LEMMA NewPoolOK == PoolOK(EmptyPool)
  <1>1. \A p \in Priorities : AtPriority(EmptyPool, p) = {}
    BY DEF AtPriority, EmptyPool, EmptyList
  <1>2. CountsRight(EmptyPool)
    BY <1>1, FS_EmptySet DEF CountsRight, EmptyPool
  <1> QED BY <1>2, EmptyPoolOK DEF PoolOK

LEMMA InsertOK ==
    ASSUME NEW mp, PoolOK(mp), NEW tx \in Txs, NEW maxTx \in Int
    PROVE  PoolOK(Insert(mp, tx, maxTx))
  BY IndexOK, IndexCounts DEF PoolOK, Insert

LEMMA RemoveOK ==
    ASSUME NEW mp, PoolOK(mp), NEW tx \in Txs
    PROVE  PoolOK(Remove(mp, tx))
  <1>1. RemoveError(mp, tx) = "none" => ScoreKey(tx) \in DOMAIN mp.scores
    BY DEF RemoveError
  <1> QED BY <1>1, UnindexOK, UnindexCounts DEF PoolOK, Remove

LEMMA SelectOK ==
    ASSUME NEW mp, PoolOK(mp)
    PROVE  PoolOK(SelectPool(mp)) /\ CountTx(SelectPool(mp)) = CountTx(mp)
  <1>1. PoolOK(ReorderPriorityTies(mp))
    BY ReorderOK, ReorderCounts DEF PoolOK
  <1>2. CountTx(ReorderPriorityTies(mp)) = CountTx(mp)
    BY <1>1, ReorderOK, CountIsScores DEF PoolOK
  <1> QED BY <1>1, <1>2 DEF SelectPool

\* An insertion adds at most one transaction, and none to a full pool; a
\* removal adds none.
LEMMA InsertCount ==
    ASSUME NEW mp, PoolOK(mp), NEW tx \in Txs, NEW maxTx \in Int,
           maxTx > 0, CountTx(mp) <= maxTx
    PROVE  CountTx(Insert(mp, tx, maxTx)) <= maxTx
  <1>1. CountTx(mp) \in Nat /\ CountTx(mp) = Cardinality(DOMAIN mp.scores)
    BY CountIsScores DEF PoolOK
  <1>2. CASE InsertError(mp, tx, maxTx) # "none"
    BY <1>2 DEF Insert
  <1>3. CASE InsertError(mp, tx, maxTx) = "none"
    <2>1. CountTx(mp) < maxTx
      BY <1>1, <1>3 DEF InsertError
    <2>2. Insert(mp, tx, maxTx) = Index(mp, tx)
      BY <1>3 DEF Insert
    <2>3. DOMAIN Index(mp, tx).scores = DOMAIN mp.scores \cup {ScoreKey(tx)}
      BY DEF Index, SkipSet
    <2> DEFINE D == DOMAIN mp.scores
    <2>a. IsFiniteSet(D)
      BY DEF PoolOK, PoolType
    <2>b. Cardinality(D \cup {ScoreKey(tx)})
            = IF ScoreKey(tx) \in D THEN Cardinality(D) ELSE Cardinality(D) + 1
      BY <2>a, FS_AddElement
    <2>4. Cardinality(D \cup {ScoreKey(tx)}) <= CountTx(mp) + 1
      BY <1>1, <2>b
    <2>5. CountTx(Index(mp, tx)) = Cardinality(DOMAIN Index(mp, tx).scores)
          /\ CountTx(Index(mp, tx)) \in Nat
      BY IndexOK, CountIsScores DEF PoolOK
    <2> QED BY <1>1, <2>1, <2>2, <2>3, <2>4, <2>5
  <1> QED BY <1>2, <1>3

LEMMA RemoveCount ==
    ASSUME NEW mp, PoolOK(mp), NEW tx \in Txs
    PROVE  CountTx(Remove(mp, tx)) <= CountTx(mp)
  <1>1. CountTx(mp) \in Nat /\ CountTx(mp) = Cardinality(DOMAIN mp.scores)
    BY CountIsScores DEF PoolOK
  <1>2. CASE RemoveError(mp, tx) # "none"
    BY <1>1, <1>2 DEF Remove
  <1>3. CASE RemoveError(mp, tx) = "none"
    <2>1. ScoreKey(tx) \in DOMAIN mp.scores /\ Remove(mp, tx) = Unindex(mp, tx)
      BY <1>3 DEF Remove, RemoveError
    <2>2. DOMAIN Unindex(mp, tx).scores = DOMAIN mp.scores \ {ScoreKey(tx)}
      BY DEF Unindex, SkipRemove
    <2> DEFINE D == DOMAIN mp.scores
    <2>a. IsFiniteSet(D)
      BY DEF PoolOK, PoolType
    <2>b. Cardinality(D \ {ScoreKey(tx)}) = Cardinality(D) - 1
      BY <2>1, <2>a, FS_RemoveElement
    <2>3. Cardinality(D \ {ScoreKey(tx)}) <= CountTx(mp)
      BY <1>1, <2>b
    <2>4. CountTx(Unindex(mp, tx)) = Cardinality(DOMAIN Unindex(mp, tx).scores)
      BY <2>1, UnindexOK, CountIsScores DEF PoolOK
    <2> QED BY <2>1, <2>2, <2>3, <2>4
  <1> QED BY <1>2, <1>3

-----------------------------------------------------------------------------
(* The order of the priority index. *)

\* The order of the priority index is a strict total order on keys.
LEMMA BeforeOrder ==
    /\ \A a \in Key : ~Before(a, a)
    /\ \A a, b, c \in Key : Before(a, b) /\ Before(b, c) => Before(a, c)
    /\ \A a, b \in Key : a # b => Before(a, b) \/ Before(b, a)
  <1>1. \A a \in Key : /\ a.priority \in Int /\ a.weight \in Int /\ a.sender \in Int /\ a.nonce \in Int
                       /\ a = [priority |-> a.priority, weight |-> a.weight,
                               sender |-> a.sender, nonce |-> a.nonce]
    <2> SUFFICES ASSUME NEW a \in Key
                 PROVE  /\ a.priority \in Int /\ a.weight \in Int /\ a.sender \in Int /\ a.nonce \in Int
                        /\ a = [priority |-> a.priority, weight |-> a.weight,
                                sender |-> a.sender, nonce |-> a.nonce]
      OBVIOUS
    <2>1. a.priority \in Int /\ a.weight \in Int
      BY PriorityAssumption DEF Key
    <2>2. a.sender \in Nat /\ a.nonce \in Nat
      BY SenderAssumption, NonceAssumption DEF Key
    <2>3. a = [priority |-> a.priority, weight |-> a.weight,
               sender |-> a.sender, nonce |-> a.nonce]
      BY DEF Key
    <2> QED BY <2>1, <2>2, <2>3
  <1>2. ASSUME NEW a \in Key PROVE ~Before(a, a)
    BY <1>1 DEF Before
  <1>3. ASSUME NEW a \in Key, NEW b \in Key, NEW c \in Key, Before(a, b), Before(b, c)
        PROVE  Before(a, c)
    BY <1>1, <1>3 DEF Before
  <1>4. ASSUME NEW a \in Key, NEW b \in Key, a # b PROVE Before(a, b) \/ Before(b, a)
    <2>1. \/ a.priority # b.priority \/ a.weight # b.weight
          \/ a.sender # b.sender \/ a.nonce # b.nonce
      BY <1>1, <1>4
    <2> QED BY <1>1, <2>1 DEF Before
  <1> QED BY <1>2, <1>3, <1>4

\* A nonempty finite set of keys has a front.
LEMMA FrontIsKey ==
    ASSUME NEW F, IsFiniteSet(F), F \subseteq Key, F # {}
    PROVE  FrontKey(F) \in F /\ \A j \in F \ {FrontKey(F)} : Before(FrontKey(F), j)
  <1> DEFINE Ahead1(k) == {j \in F : Before(j, k)}
             T == {Ahead1(k) : k \in F}
  <1>1. IsWellFoundedOn(StrictSubsetOrdering(F), SUBSET F)
    BY FS_StrictSubsetOrderingWellFounded, FS_FiniteSubsetsOfFinite
  <1>2. T \subseteq SUBSET F /\ T # {}
    OBVIOUS
  <1>3. PICK x \in T : \A y \in T : ~ (<<y, x>> \in StrictSubsetOrdering(F))
    BY <1>1, <1>2, WFMin
  <1>4. PICK k \in F : x = Ahead1(k)
    OBVIOUS
  <1>5. ASSUME NEW j \in F, Before(j, k) PROVE FALSE
    <2>1. Ahead1(j) \subseteq Ahead1(k) /\ j \in Ahead1(k) /\ j \notin Ahead1(j)
      BY <1>5, BeforeOrder
    <2>2. <<Ahead1(j), x>> \in StrictSubsetOrdering(F)
      BY <1>4, <2>1 DEF StrictSubsetOrdering
    <2> QED BY <1>3, <2>2
  <1>6. \A j \in F \ {k} : Before(k, j)
    BY <1>5, BeforeOrder
  <1> QED BY <1>6 DEF FrontKey

LEMMA KeyIsNotNone == \A k \in Key : k # None
  <1>1. \A k \in Key : DOMAIN k = {"priority", "weight", "sender", "nonce"}
    BY DEF Key
  <1>2. DOMAIN None = {"none"}
    BY DEF None
  <1> QED BY <1>1, <1>2

\* The priority index is finite, being the image of the scores.
LEMMA KeysFinite ==
    ASSUME NEW mp, PoolType(mp), PoolAgrees(mp)
    PROVE  IsFiniteSet(DOMAIN mp.priorityIndex)
  <1> DEFINE D == DOMAIN mp.scores
             K == DOMAIN mp.priorityIndex
             f == [sk \in D |-> KeyOf(sk, mp.scores[sk])]
  <1>1. f \in Surjection(D, K)
    BY DEF PoolAgrees, KeysScored, Surjection
  <1> QED BY <1>1, FS_Surjection DEF PoolType

\* A pooled transaction is scored under its own sender and nonce.
LEMMA ScoredTx ==
    ASSUME NEW mp, PoolOK(mp), NEW tx \in TxsOf(mp)
    PROVE  ScoreKey(tx) \in DOMAIN mp.scores
  <1>1. PICK k \in DOMAIN mp.priorityIndex : tx = mp.priorityIndex[k]
    BY DEF TxsOf
  <1>2. tx.sender = k.sender /\ tx.nonce = k.nonce
    BY <1>1 DEF PoolOK, PoolAgrees, TxsFiled
  <1>3. <<k.sender, k.nonce>> \in DOMAIN mp.scores
    BY ScoredKey DEF PoolOK
  <1> QED BY <1>2, <1>3 DEF ScoreKey

\* A pool holds one transaction of a sender and nonce.
LEMMA OnePerKey ==
    ASSUME NEW mp, PoolOK(mp), NEW t \in TxsOf(mp), NEW u \in TxsOf(mp), ScoreKey(t) = ScoreKey(u)
    PROVE  t = u
  <1>1. PICK j \in DOMAIN mp.priorityIndex : t = mp.priorityIndex[j]
    BY DEF TxsOf
  <1>2. PICK k \in DOMAIN mp.priorityIndex : u = mp.priorityIndex[k]
    BY DEF TxsOf
  <1>3. t.sender = j.sender /\ t.nonce = j.nonce /\ u.sender = k.sender /\ u.nonce = k.nonce
    BY <1>1, <1>2 DEF PoolOK, PoolAgrees, TxsFiled
  <1>4. j = k
    BY <1>3, ScoredKey DEF PoolOK, ScoreKey
  <1> QED BY <1>1, <1>2, <1>4

-----------------------------------------------------------------------------
(* Iterators. *)

\* The iterators of a pool, and those whose code has a node where it needs one.
Iterators(mp) ==
    [at: {"iteratePriority", "Next", "Tx", "end"}, node: DOMAIN mp.priorityIndex \cup {None},
     cursors: UNION {[D -> Nonces] : D \in SUBSET Senders}, out: Seq(TxsOf(mp))]
GoodIterators(mp) == {it \in Iterators(mp) : it.at \in {"Next", "Tx"} => it.node # None}

\* A sender's list holds pooled transactions.
LEMMA ListedPooled ==
    ASSUME NEW mp, PoolOK(mp), NEW s \in Senders, NEW n \in Nonces,
           s \in DOMAIN mp.senderIndices, n \in DOMAIN mp.senderIndices[s]
    PROVE  mp.senderIndices[s][n].tx \in TxsOf(mp)
  <1> DEFINE sk == <<s, n>>
             k == KeyOf(sk, mp.scores[sk])
  <1>1. sk \in DOMAIN mp.scores
    BY DEF PoolOK, PoolAgrees, NoncesScored
  <1>2. k \in DOMAIN mp.priorityIndex
    BY <1>1, ScoredKey DEF PoolOK
  <1>3. k.sender = s /\ k.nonce = n
    BY DEF KeyOf
  <1>4. mp.priorityIndex[k] = mp.senderIndices[s][n].tx
    BY <1>2, <1>3 DEF PoolOK, PoolAgrees, TxsFiled
  <1> QED BY <1>2, <1>4 DEF TxsOf

\* The keys behind a key are finitely many, and if there are any the front one
\* of them is next.
LEMMA RestFacts ==
    ASSUME NEW mp, PoolOK(mp), NEW rest \in SUBSET DOMAIN mp.priorityIndex, rest # {}
    PROVE  /\ IsFiniteSet(rest)
           /\ FrontKey(rest) \in rest
           /\ \A j \in rest \ {FrontKey(rest)} : Before(FrontKey(rest), j)
           /\ FrontKey(rest) # None
  <1>1. IsFiniteSet(DOMAIN mp.priorityIndex) /\ DOMAIN mp.priorityIndex \subseteq Key
    BY KeysFinite DEF PoolOK, PoolType
  <1>2. IsFiniteSet(rest) /\ rest \subseteq Key
    BY <1>1, FS_Subset
  <1> QED BY <1>2, FrontIsKey, KeyIsNotNone

\* What Next finds of a node's sender: a list that holds the node's nonce and has
\* a least nonce ahead, unless all of it was handed out.
LEMMA AheadFacts ==
    ASSUME NEW mp, PoolOK(mp), NEW it \in GoodIterators(mp), it.node \in DOMAIN mp.priorityIndex
    PROVE  LET s == it.node.sender
               ahead == Ahead(mp, it)
               n == CHOOSE m \in ahead : \A o \in ahead : m <= o
           IN  /\ s \in Senders /\ s \in DOMAIN mp.senderIndices
               /\ it.node.nonce \in DOMAIN mp.senderIndices[s]
               /\ ahead # {} => /\ n \in Nonces /\ n \in DOMAIN mp.senderIndices[s]
                                /\ mp.senderIndices[s][n].tx \in TxsOf(mp)
  <1> DEFINE s == it.node.sender
             ahead == Ahead(mp, it)
             n == CHOOSE m \in ahead : \A o \in ahead : m <= o
  <1>1. <<s, it.node.nonce>> \in DOMAIN mp.scores /\ it.node \in Key
    BY ScoredKey DEF PoolOK, PoolType
  <1>2. s \in Senders /\ it.node.nonce \in Nonces
    BY <1>1 DEF Key
  <1>3. s \in DOMAIN mp.senderIndices /\ it.node.nonce \in DOMAIN mp.senderIndices[s]
    BY <1>1, <1>2 DEF PoolOK, PoolAgrees, NoncesScored
  <1>4. ASSUME ahead # {} PROVE n \in Nonces /\ n \in DOMAIN mp.senderIndices[s]
    <2>1. DOMAIN mp.senderIndices[s] \subseteq Nonces /\ IsFiniteSet(DOMAIN mp.senderIndices[s])
          /\ Nonces \subseteq Nat
      BY <1>3, SenderListFinite, NonceAssumption DEF PoolOK, PoolType
    <2>2. ahead \subseteq DOMAIN mp.senderIndices[s] /\ ahead \subseteq Nat /\ IsFiniteSet(ahead)
      BY <2>1, FS_Subset DEF Ahead
    <2>3. n \in ahead
      BY <1>4, <2>2, FiniteMin
    <2> QED BY <2>1, <2>2, <2>3
  <1>5. ASSUME ahead # {} PROVE mp.senderIndices[s][n].tx \in TxsOf(mp)
    <2> HIDE DEF n
    <2> QED BY <1>2, <1>3, <1>4, <1>5, ListedPooled
  <1> QED BY <1>2, <1>3, <1>4, <1>5

LEMMA FreshIteratorGood ==
    ASSUME NEW mp
    PROVE  NewIterator \in GoodIterators(mp) /\ NoIterator \in GoodIterators(mp)
  <1> DEFINE E == EmptyList
  <1>1. E \in [{} -> Nonces] /\ {} \in SUBSET Senders
    BY DEF EmptyList
  <1>2. E \in UNION {[D -> Nonces] : D \in SUBSET Senders}
    <2> HIDE DEF E
    <2> QED BY <1>1
  <1>3. <<>> \in Seq(TxsOf(mp))
    OBVIOUS
  <1> QED BY <1>2, <1>3 DEF NewIterator, NoIterator, GoodIterators, Iterators

LEMMA SelectIteratorGood ==
    ASSUME NEW mp
    PROVE  SelectIterator(mp) \in GoodIterators(mp)
  BY FreshIteratorGood DEF SelectIterator

LEMMA IteratePriorityGood ==
    ASSUME NEW mp, PoolOK(mp), NEW it \in GoodIterators(mp)
    PROVE  IteratePriority(mp, it) \in GoodIterators(mp)
  <1> DEFINE rest == IF it.node = None THEN DOMAIN mp.priorityIndex ELSE KeysAfter(mp, it.node)
  <1>1. IteratePriority(mp, it) = IF rest = {} THEN [it EXCEPT !.at = "end"]
                                  ELSE [it EXCEPT !.at = "Next", !.node = FrontKey(rest)]
    BY DEF IteratePriority
  <1>2. rest \in SUBSET DOMAIN mp.priorityIndex
    BY DEF KeysAfter
  <1>3. rest # {} => FrontKey(rest) \in DOMAIN mp.priorityIndex /\ FrontKey(rest) # None
    <2> HIDE DEF rest
    <2> QED BY <1>2, RestFacts
  <1> HIDE DEF rest
  <1> QED BY <1>1, <1>3 DEF GoodIterators, Iterators

\* Next either stays with its cursors and what it has handed out, or hands out a
\* pooled transaction.
LEMMA IteratorNextCases ==
    ASSUME NEW mp, PoolOK(mp), NEW it \in GoodIterators(mp), it.at = "Next"
    PROVE  \/ /\ IteratorNext(mp, it) = [it EXCEPT !.at = "iteratePriority"]
              /\ Ahead(mp, it) = {} \/ KeysAfter(mp, it.node) # {}
           \/ /\ IteratorNext(mp, it).at = "Tx"
              /\ \E tx \in TxsOf(mp) : IteratorNext(mp, it).out = Append(it.out, tx)
              /\ IteratorNext(mp, it) \in GoodIterators(mp)
  <1> DEFINE s == it.node.sender
             ahead == Ahead(mp, it)
             n == CHOOSE m \in ahead : \A o \in ahead : m <= o
             tx == mp.senderIndices[s][n].tx
             stay == ahead = {} \/ Outranked(mp, it, n)
  <1>1. IteratorNext(mp, it) = IF stay THEN [it EXCEPT !.at = "iteratePriority"]
                               ELSE [it EXCEPT !.at = "Tx", !.cursors = SkipSet(@, s, n),
                                               !.out = Append(@, tx)]
    BY DEF IteratorNext
  <1>2. it.node \in DOMAIN mp.priorityIndex /\ it.node # None
    BY DEF GoodIterators, Iterators
  <1>3. CASE stay
    <2>1. ahead = {} \/ KeysAfter(mp, it.node) # {}
      BY <1>3 DEF Outranked
    <2> QED BY <1>1, <1>3, <2>1
  <1>4. CASE ~stay
    <2>1. s \in Senders /\ n \in Nonces /\ tx \in TxsOf(mp)
      BY <1>2, <1>4, AheadFacts
    <2> DEFINE cur == SkipSet(it.cursors, s, n)
    <2>2. cur \in UNION {[D -> Nonces] : D \in SUBSET Senders}
      <3>1. PICK D \in SUBSET Senders : it.cursors \in [D -> Nonces]
        BY DEF GoodIterators, Iterators
      <3> HIDE DEF s, n
      <3>2. cur \in [D \cup {s} -> Nonces] /\ D \cup {s} \in SUBSET Senders
        BY <2>1, <3>1 DEF SkipSet
      <3> HIDE DEF cur
      <3> QED BY <3>2
    <2>3. Append(it.out, tx) \in Seq(TxsOf(mp))
      <3> HIDE DEF tx
      <3> QED BY <2>1 DEF GoodIterators, Iterators
    <2> HIDE DEF s, n, tx, stay
    <2>4. IteratorNext(mp, it) = [it EXCEPT !.at = "Tx", !.cursors = cur, !.out = Append(@, tx)]
      BY <1>1, <1>4
    <2> HIDE DEF cur
    <2>5. IteratorNext(mp, it) \in GoodIterators(mp) /\ IteratorNext(mp, it).at = "Tx"
          /\ IteratorNext(mp, it).out = Append(it.out, tx)
      BY <1>2, <2>2, <2>3, <2>4 DEF GoodIterators, Iterators
    <2> QED BY <2>1, <2>5
  <1> QED BY <1>3, <1>4

LEMMA AdvanceGood ==
    ASSUME NEW mp, PoolOK(mp), NEW it \in GoodIterators(mp)
    PROVE  Advance(mp, it) \in GoodIterators(mp)
  <1>1. CASE it.at = "iteratePriority"
    BY <1>1, IteratePriorityGood DEF Advance
  <1>2. CASE it.at = "Next"
    <2>1. [it EXCEPT !.at = "iteratePriority"] \in GoodIterators(mp)
      BY DEF GoodIterators, Iterators
    <2> QED BY <1>2, <2>1, IteratorNextCases DEF Advance
  <1>3. CASE it.at \notin {"iteratePriority", "Next"}
    BY <1>3 DEF Advance
  <1> QED BY <1>1, <1>2, <1>3

\* The first i steps of a walk have not handed anything out, and it has not given
\* up either: it stands on a node with enough nodes behind it, or before the first.
FirstSteps(mp, it, i) ==
    LET left == 2 * Cardinality(KeysAfter(mp, it.node))
    IN  /\ it \in GoodIterators(mp)
        /\ \/ it.at = "Tx" /\ \E tx \in TxsOf(mp) : it.out = <<tx>>
           \/ /\ it.out = <<>> /\ DOMAIN it.cursors = {}
              /\ \/ it.at = "iteratePriority" /\ it.node = None /\ i = 0
                 \/ /\ it.at = "iteratePriority" /\ it.node # None
                    /\ KeysAfter(mp, it.node) # {} /\ left + i = 2 * CountTx(mp)
                 \/ it.at = "Next" /\ left + i + 1 = 2 * CountTx(mp)

LEMMA FirstStep ==
    ASSUME NEW mp, PoolOK(mp), DOMAIN mp.priorityIndex # {}, NEW i \in Nat \ {0},
           NEW it, FirstSteps(mp, it, i - 1)
    PROVE  FirstSteps(mp, Advance(mp, it), i)
  <1> SUFFICES ASSUME NEW new, new = Advance(mp, it)
               PROVE  FirstSteps(mp, new, i)
    OBVIOUS
  <1> DEFINE keys == DOMAIN mp.priorityIndex
             C == CountTx(mp)
  <1>1. it \in GoodIterators(mp) /\ new \in GoodIterators(mp)
    BY AdvanceGood DEF FirstSteps
  <1>2. IsFiniteSet(keys) /\ C = Cardinality(keys) /\ C \in Nat /\ keys \subseteq Key
    BY KeysFinite, FS_CardinalityType DEF PoolOK, PoolType, CountTx
  <1>3. \A k \in keys : Cardinality(KeysAfter(mp, k)) \in Nat
    <2>1. \A k \in keys : KeysAfter(mp, k) \in SUBSET keys
      BY DEF KeysAfter
    <2> QED BY <1>2, <2>1, FS_Subset, FS_CardinalityType
  <1>4. it = [at |-> it.at, node |-> it.node, cursors |-> it.cursors, out |-> it.out]
        /\ (it.node # None => it.node \in keys)
    BY <1>1 DEF GoodIterators, Iterators
  <1>5. CASE it.at = "Tx"
    BY <1>1, <1>5 DEF FirstSteps, Advance
  <1>6. CASE it.at = "iteratePriority"
    <2> DEFINE rest == IF it.node = None THEN keys ELSE KeysAfter(mp, it.node)
               f == FrontKey(rest)
    <2>1. rest \in SUBSET keys /\ rest # {}
      BY <1>6 DEF FirstSteps, KeysAfter
    <2>2. IsFiniteSet(rest) /\ f \in rest /\ (\A j \in rest \ {f} : Before(f, j)) /\ f # None
      <3> HIDE DEF rest
      <3> QED BY <2>1, RestFacts
    <2>3. new = [it EXCEPT !.at = "Next", !.node = f]
      BY <1>6, <2>1 DEF Advance, IteratePriority
    <2>4. KeysAfter(mp, f) = rest \ {f}
      <3>1. ASSUME NEW j \in keys, Before(f, j) PROVE j \in rest /\ j # f
        <4>1. j # f
          BY <1>2, <2>1, <2>2, <3>1, BeforeOrder
        <4>2. CASE it.node = None
          BY <4>1, <4>2
        <4>3. CASE it.node # None
          <5>1. it.node \in Key /\ f \in Key /\ j \in Key /\ Before(it.node, f)
            BY <1>2, <1>4, <2>1, <2>2, <4>3 DEF KeysAfter
          <5>2. Before(it.node, j)
            BY <3>1, <5>1, BeforeOrder
          <5> QED BY <4>1, <4>3, <5>2 DEF KeysAfter
        <4> QED BY <4>2, <4>3
      <3> HIDE DEF rest, f
      <3> QED BY <2>1, <2>2, <3>1 DEF KeysAfter
    <2>5. Cardinality(KeysAfter(mp, f)) = Cardinality(rest) - 1 /\ Cardinality(rest) \in Nat
      <3> HIDE DEF rest, f
      <3> QED BY <2>2, <2>4, FS_RemoveElement, FS_CardinalityType
    <2>6. 2 * Cardinality(rest) + i - 1 = 2 * C
      <3>1. CASE it.node = None
        <4>1. i - 1 = 0
          BY <1>4, <1>6, <3>1 DEF FirstSteps
        <4>2. rest = keys
          BY <3>1
        <4> HIDE DEF rest, C
        <4> QED BY <1>2, <4>1, <4>2
      <3>2. CASE it.node # None
        <4>1. rest = KeysAfter(mp, it.node)
          BY <3>2
        <4>2. 2 * Cardinality(KeysAfter(mp, it.node)) + (i - 1) = 2 * C
          BY <1>6, <3>2 DEF FirstSteps
        <4> HIDE DEF rest, C
        <4> QED BY <1>2, <2>5, <4>1, <4>2
      <3> QED BY <3>1, <3>2
    <2> HIDE DEF rest, f
    <2>7. new.at = "Next" /\ new.node = f /\ new.out = <<>> /\ DOMAIN new.cursors = {}
      BY <1>4, <1>6, <2>3 DEF FirstSteps
    <2>8. 2 * Cardinality(KeysAfter(mp, f)) + i + 1 = 2 * C
      <3> HIDE DEF C
      <3> QED BY <1>2, <2>5, <2>6
    <2> QED BY <1>1, <2>7, <2>8 DEF FirstSteps
  <1>7. CASE it.at = "Next"
    <2>1. new = IteratorNext(mp, it)
      BY <1>7 DEF Advance
    <2>2. it.out = <<>> /\ DOMAIN it.cursors = {} /\ it.node # None /\ it.node \in keys
      BY <1>1, <1>4, <1>7 DEF FirstSteps, GoodIterators
    <2>3. Ahead(mp, it) # {}
      <3>1. it.node.nonce \in DOMAIN mp.senderIndices[it.node.sender]
        BY <1>1, <2>2, AheadFacts
      <3> QED BY <2>2, <3>1 DEF Ahead
    <2>4. CASE new = [it EXCEPT !.at = "iteratePriority"] /\ KeysAfter(mp, it.node) # {}
      <3>1. new.at = "iteratePriority" /\ new.node = it.node /\ new.out = <<>> /\ DOMAIN new.cursors = {}
        BY <1>4, <2>2, <2>4
      <3>2. 2 * Cardinality(KeysAfter(mp, it.node)) + i = 2 * C
        <4>1. 2 * Cardinality(KeysAfter(mp, it.node)) + (i - 1) + 1 = 2 * C
          BY <1>7 DEF FirstSteps
        <4> HIDE DEF C
        <4> QED BY <1>2, <1>3, <2>2, <4>1
      <3> QED BY <1>1, <2>2, <2>4, <3>1, <3>2 DEF FirstSteps
    <2>5. CASE new.at = "Tx" /\ \E tx \in TxsOf(mp) : new.out = Append(it.out, tx)
      <3>1. PICK tx \in TxsOf(mp) : new.out = Append(<<>>, tx)
        BY <2>2, <2>5
      <3>2. new.out = <<tx>>
        <4> QED BY <3>1
      <3> QED BY <1>1, <2>5, <3>2 DEF FirstSteps
    <2> QED BY <1>1, <1>7, <2>1, <2>3, <2>4, <2>5, IteratorNextCases
  <1> QED BY <1>5, <1>6, <1>7 DEF FirstSteps

\* Select stands on a pooled transaction, or is nil when there is none.
LEMMA TopOf ==
    ASSUME NEW mp, PoolOK(mp)
    PROVE  /\ TxsOf(mp) = {} => FirstOf(mp).at = "end"
           /\ TxsOf(mp) # {} => FirstOf(mp).at # "end" /\ Current(FirstOf(mp)) \in TxsOf(mp)
  <1> DEFINE n == 2 * CountTx(mp)
             V == GoodIterators(mp)
             Next(w, i) == IF i = 0 THEN SelectIterator(mp)
                           ELSE CHOOSE it \in {Advance(mp, prev) : prev \in {w[i - 1]}} : TRUE
             Walks(w) == w = [i \in 0..n |-> Next(w, i)]
             w == CHOOSE w : Walks(w)
             keys == DOMAIN mp.priorityIndex
  <1>1. FirstOf(mp) = w[n]
    BY DEF FirstOf
  <1>2. IsFiniteSet(keys) /\ CountTx(mp) = Cardinality(keys) /\ CountTx(mp) \in Nat /\ n \in Nat
    BY KeysFinite, FS_CardinalityType DEF PoolOK, PoolType, CountTx
  <1>3. \E f : Walks(f)
    <2> DEFINE step == [i \in 1..n |-> [it \in V |-> Advance(mp, it)]]
    <2>1. SelectIterator(mp) \in V
      BY SelectIteratorGood
    <2>2. step \in Steps(n, V)
      BY AdvanceGood DEF Steps
    <2>3. PICK f : IsRun(f, n, V, SelectIterator(mp), step)
      <3> HIDE DEF step, V, n
      <3> QED BY <1>2, <2>1, <2>2, IntervalRecursion
    <2>4. ASSUME NEW i \in 1..n PROVE f[i] = Next(f, i)
      <3>1. i - 1 \in 0..n /\ i # 0
        BY <1>2
      <3>2. f[i] = Advance(mp, f[i - 1])
        BY <2>3, <3>1 DEF IsRun
      <3> QED BY <3>1, <3>2
    <2>5. f[0] = Next(f, 0) /\ f = [i \in 0..n |-> f[i]]
      BY <2>3 DEF IsRun
    <2>6. ASSUME NEW i \in 0..n PROVE f[i] = Next(f, i)
      <3>1. CASE i = 0
        BY <2>5, <3>1
      <3>2. CASE i # 0
        <4> i \in 1..n
          BY <1>2, <3>2
        <4> QED BY <2>4
      <3> QED BY <3>1, <3>2
    <2> HIDE DEF Next
    <2>7. Walks(f)
      BY <2>5, <2>6
    <2> QED BY <2>7
  <1>4. Walks(w)
    <2> HIDE DEF Walks
    <2> QED BY <1>3
  <1>5. w[0] = SelectIterator(mp) /\ \A i \in 1..n : w[i] = Advance(mp, w[i - 1])
    <2> HIDE DEF w, n
    <2>1. \A i \in 0..n : w[i] = Next(w, i)
      <3> HIDE DEF Next
      <3> QED BY <1>4
    <2>2. 0 \in 0..n /\ \A i \in 1..n : i \in 0..n /\ i # 0
      BY <1>2
    <2> QED BY <2>1, <2>2
  <1> HIDE DEF w, n
  <1>6. CASE TxsOf(mp) = {}
    <2>1. keys = {}
      BY <1>6 DEF TxsOf
    <2>2. CountTx(mp) = 0
      BY <1>2, <2>1, FS_EmptySet
    <2>3. n = 0
      BY <2>2 DEF n
    <2> QED BY <1>1, <1>5, <1>6, <2>2, <2>3 DEF SelectIterator, NoIterator
  <1>7. CASE TxsOf(mp) # {}
    <2>1. keys # {}
      BY <1>7 DEF TxsOf
    <2>2. CountTx(mp) # 0
      BY <1>2, <2>1, FS_EmptySet
    <2> DEFINE S == {i \in 0..n : FirstSteps(mp, w[i], i)}
    <2>3. 0 \in S
      <3>1. w[0] = NewIterator /\ w[0] \in GoodIterators(mp)
        BY <1>5, <2>2, SelectIteratorGood DEF SelectIterator
      <3>2. DOMAIN NewIterator.cursors = {}
        BY DEF NewIterator, EmptyList
      <3>3. FirstSteps(mp, w[0], 0)
        BY <3>1, <3>2 DEF FirstSteps, NewIterator
      <3> QED BY <1>2, <3>3
    <2>4. ASSUME NEW i \in 1..n, i - 1 \in S PROVE i \in S
      <3>1. i \in Nat \ {0} /\ i \in 0..n /\ w[i] = Advance(mp, w[i - 1]) /\ FirstSteps(mp, w[i - 1], i - 1)
        BY <1>2, <1>5, <2>4
      <3>2. FirstSteps(mp, w[i], i)
        BY <2>1, <3>1, FirstStep
      <3> QED BY <3>1, <3>2
    <2>5. n \in S
      <3>1. \A i \in 0..n : i \in S
        <4> HIDE DEF S
        <4> QED BY <1>2, <2>3, <2>4, IntervalInduction
      <3> QED BY <1>2, <3>1
    <2>6. FirstSteps(mp, w[n], n)
      BY <2>5
    <2>7. CASE w[n].at = "Tx" /\ \E tx \in TxsOf(mp) : w[n].out = <<tx>>
      BY <1>1, <1>7, <2>7 DEF Current
    <2>8. CASE ~(w[n].at = "Tx" /\ \E tx \in TxsOf(mp) : w[n].out = <<tx>>)
      <3> DEFINE after == KeysAfter(mp, w[n].node)
      <3>1. after \in SUBSET keys
        BY DEF KeysAfter
      <3>2. IsFiniteSet(after) /\ Cardinality(after) \in Nat /\ (Cardinality(after) = 0 <=> after = {})
        <4> HIDE DEF after, keys
        <4> QED BY <1>2, <3>1, FS_Subset, FS_CardinalityType, FS_EmptySet
      <3>3. n # 0
        BY <1>2, <2>2 DEF n
      <3> QED BY <1>2, <2>6, <2>8, <3>2, <3>3 DEF FirstSteps, n
    <2> QED BY <2>7, <2>8
  <1> QED BY <1>6, <1>7

-----------------------------------------------------------------------------
(* Which transactions a walk has yet to hand out, and where their keys are. *)

\* Sender s's transaction at nonce n is the next of its sender to be handed out.
IsAhead(mp, it, s, n) ==
    /\ s \in DOMAIN mp.senderIndices /\ n \in DOMAIN mp.senderIndices[s]
    /\ s \in DOMAIN it.cursors => n > it.cursors[s]
IsHead(mp, it, s, n) ==
    IsAhead(mp, it, s, n) /\ \A m \in Nonces : IsAhead(mp, it, s, m) => n <= m

\* The element of sender s's list at nonce n has its transaction's priority, as long as
\* no replacement changed that. Its key in the priority index.
FreshAt(mp, s, n) == mp.senderIndices[s][n].priority = mp.senderIndices[s][n].tx.priority
ScoredAs(mp, s, n) == KeyOf(<<s, n>>, mp.scores[<<s, n>>])

\* The walk has yet to come by that key.
IsBehind(mp, it, s, n) == it.node = None \/ Before(it.node, ScoredAs(mp, s, n))

\* What was handed out is what the lists hold up to the cursors.
CursorsOK(mp, it) ==
    /\ \A i \in DOMAIN it.out : /\ it.out[i].sender \in DOMAIN it.cursors
                                /\ it.out[i].nonce <= it.cursors[it.out[i].sender]
    /\ \A s \in DOMAIN it.cursors : \A n \in DOMAIN mp.senderIndices[s] :
          n <= it.cursors[s] => \E i \in DOMAIN it.out : it.out[i] = mp.senderIndices[s][n].tx

\* A walk leaves no sender's next transaction behind: it has yet to come by its key,
\* unless it is busy with the sender or the element's key is out of date.
LeadOK(mp, it) ==
    \A s \in Senders, n \in Nonces : IsHead(mp, it, s, n) /\ FreshAt(mp, s, n) =>
        /\ it.at = "iteratePriority" => IsBehind(mp, it, s, n)
        /\ it.at \in {"Next", "Tx"} /\ s # it.node.sender => IsBehind(mp, it, s, n)
        /\ it.at = "end" => it.out = <<>>

\* The key of a listed transaction is in the priority index; a fresh element has its
\* priority.
LEMMA ListedKey ==
    ASSUME NEW mp, PoolOK(mp), NEW s \in Senders, NEW n \in Nonces,
           s \in DOMAIN mp.senderIndices, n \in DOMAIN mp.senderIndices[s]
    PROVE  /\ ScoredAs(mp, s, n) \in DOMAIN mp.priorityIndex /\ ScoredAs(mp, s, n) \in Key
           /\ ScoredAs(mp, s, n).priority = mp.senderIndices[s][n].tx.priority
           /\ mp.senderIndices[s][n].tx.sender = s /\ mp.senderIndices[s][n].tx.nonce = n
  <1> DEFINE k == ScoredAs(mp, s, n)
  <1>1. <<s, n>> \in DOMAIN mp.scores
    BY DEF PoolOK, PoolAgrees, NoncesScored
  <1>2. k \in DOMAIN mp.priorityIndex /\ k \in Key
    BY <1>1, ScoredKey DEF PoolOK, PoolType, ScoredAs
  <1>3. k.sender = s /\ k.nonce = n /\ k.weight = mp.scores[<<s, n>>].weight
    BY DEF KeyOf, ScoredAs
  <1>4. /\ mp.priorityIndex[k] = mp.senderIndices[k.sender][k.nonce].tx
        /\ mp.priorityIndex[k].priority = k.priority
        /\ mp.priorityIndex[k].sender = k.sender /\ mp.priorityIndex[k].nonce = k.nonce
    BY <1>2 DEF PoolOK, PoolAgrees, TxsFiled
  <1> HIDE DEF k
  <1>5. k.priority = mp.senderIndices[s][n].tx.priority
        /\ mp.senderIndices[s][n].tx.sender = s /\ mp.senderIndices[s][n].tx.nonce = n
    BY <1>3, <1>4
  <1> QED BY <1>2, <1>3, <1>5 DEF k

\* A walk that has not begun.
LEMMA LeadStart ==
    ASSUME NEW mp, NEW it, it = NewIterator \/ it = NoIterator
    PROVE  CursorsOK(mp, it) /\ LeadOK(mp, it)
  <1>1. it.out = <<>> /\ it.node = None /\ it.at \in {"iteratePriority", "end"}
        /\ DOMAIN it.cursors = {} /\ DOMAIN it.out = {}
    BY DEF NewIterator, NoIterator, EmptyList
  <1> QED BY <1>1 DEF CursorsOK, LeadOK, IsBehind

\* A step that leaves the cursors alone leaves the heads alone.
LEMMA SameHeads ==
    ASSUME NEW mp, NEW it, NEW nit, nit.cursors = it.cursors, nit.out = it.out
    PROVE  /\ CursorsOK(mp, it) => CursorsOK(mp, nit)
           /\ \A s \in Senders, n \in Nonces : IsHead(mp, nit, s, n) <=> IsHead(mp, it, s, n)
  BY DEF CursorsOK, IsHead, IsAhead

\* The caller asks for more.
LEMMA LeadMore ==
    ASSUME NEW mp, NEW it \in GoodIterators(mp), CursorsOK(mp, it), LeadOK(mp, it), it.at = "Tx"
    PROVE  /\ CursorsOK(mp, [it EXCEPT !.at = "Next"])
           /\ LeadOK(mp, [it EXCEPT !.at = "Next"])
  <1> DEFINE nit == [it EXCEPT !.at = "Next"]
  <1>1. nit.cursors = it.cursors /\ nit.out = it.out /\ nit.node = it.node /\ nit.at = "Next"
    BY DEF GoodIterators, Iterators
  <1> HIDE DEF nit
  <1>2. CursorsOK(mp, nit) /\ \A s \in Senders, n \in Nonces : IsHead(mp, nit, s, n) => IsHead(mp, it, s, n)
    BY <1>1, SameHeads
  <1>3. LeadOK(mp, nit)
    BY <1>1, <1>2 DEF LeadOK, IsBehind
  <1> QED BY <1>2, <1>3 DEF nit

\* On to the next node: a key that was behind the old one is the new one or behind it.
LEMMA LeadIterate ==
    ASSUME NEW mp, PoolOK(mp), NEW it \in GoodIterators(mp), CursorsOK(mp, it), LeadOK(mp, it),
           it.at = "iteratePriority"
    PROVE  CursorsOK(mp, IteratePriority(mp, it)) /\ LeadOK(mp, IteratePriority(mp, it))
  <1> DEFINE rest == IF it.node = None THEN DOMAIN mp.priorityIndex ELSE KeysAfter(mp, it.node)
             nit == IteratePriority(mp, it)
  <1>1. /\ nit.cursors = it.cursors /\ nit.out = it.out
        /\ rest = {} => nit.at = "end"
        /\ rest # {} => nit.at = "Next" /\ nit.node = FrontKey(rest)
    BY DEF IteratePriority, GoodIterators, Iterators
  <1>2. rest \in SUBSET DOMAIN mp.priorityIndex
    BY DEF KeysAfter
  <1>3. ASSUME NEW s \in Senders, NEW n \in Nonces, IsHead(mp, it, s, n), FreshAt(mp, s, n)
        PROVE  ScoredAs(mp, s, n) \in rest
    <2>1. IsBehind(mp, it, s, n)
      BY <1>3 DEF LeadOK
    <2>2. ScoredAs(mp, s, n) \in DOMAIN mp.priorityIndex
      BY <1>3, ListedKey DEF IsHead, IsAhead
    <2> QED BY <2>1, <2>2 DEF IsBehind, KeysAfter
  <1> HIDE DEF rest, nit
  <1>4. CursorsOK(mp, nit) /\ \A s \in Senders, n \in Nonces : IsHead(mp, nit, s, n) => IsHead(mp, it, s, n)
    BY <1>1, SameHeads
  <1>5. ASSUME NEW s \in Senders, NEW n \in Nonces, IsHead(mp, nit, s, n), FreshAt(mp, s, n)
        PROVE  /\ nit.at = "Next"
               /\ s # nit.node.sender => IsBehind(mp, nit, s, n)
    <2>1. ScoredAs(mp, s, n) \in rest /\ rest # {}
      BY <1>3, <1>4, <1>5
    <2>2. ScoredAs(mp, s, n).sender = s
      BY DEF ScoredAs, KeyOf
    <2>3. \A j \in rest \ {FrontKey(rest)} : Before(FrontKey(rest), j)
      BY <1>2, <2>1, RestFacts
    <2>4. nit.at = "Next" /\ nit.node = FrontKey(rest)
      BY <1>1, <2>1
    <2>5. s # nit.node.sender => Before(nit.node, ScoredAs(mp, s, n))
      BY <2>1, <2>2, <2>3, <2>4
    <2> QED BY <2>4, <2>5 DEF IsBehind
  <1>6. LeadOK(mp, nit)
    BY <1>5 DEF LeadOK
  <1> QED BY <1>4, <1>6 DEF nit

\* What Next finds: the least nonce ahead of its node's sender is that sender's head.
LEMMA NextHead ==
    ASSUME NEW mp, PoolOK(mp), NEW it \in GoodIterators(mp), it.node \in DOMAIN mp.priorityIndex,
           NEW n, n = CHOOSE m \in Ahead(mp, it) : \A o \in Ahead(mp, it) : m <= o
    PROVE  /\ it.node.sender \in Senders
           /\ Ahead(mp, it) # {} => n \in Nonces /\ IsHead(mp, it, it.node.sender, n)
           /\ \A m \in Nonces : IsHead(mp, it, it.node.sender, m) => Ahead(mp, it) # {} /\ m = n
  <1> DEFINE s == it.node.sender
             ahead == Ahead(mp, it)
             list == mp.senderIndices[s]
  <1>1. s \in Senders /\ s \in DOMAIN mp.senderIndices
    BY AheadFacts
  <1>2. DOMAIN list \subseteq Nonces /\ IsFiniteSet(DOMAIN list) /\ Nonces \subseteq Nat
    BY <1>1, SenderListFinite, NonceAssumption DEF PoolOK, PoolType
  <1>3. ahead \subseteq DOMAIN list /\ ahead \subseteq Nat /\ IsFiniteSet(ahead)
    BY <1>2, FS_Subset DEF Ahead
  <1>4. \A m \in Nonces : m \in ahead <=> IsAhead(mp, it, s, m)
    BY <1>1, <1>2 DEF Ahead, IsAhead
  <1>5. ahead # {} => n \in ahead /\ \A o \in ahead : n <= o
    BY <1>3, FiniteMin
  <1> HIDE DEF s, ahead, list
  <1>6. ahead # {} => n \in Nonces /\ IsHead(mp, it, s, n)
    BY <1>2, <1>3, <1>4, <1>5 DEF IsHead
  <1>7. ASSUME NEW m \in Nonces, IsHead(mp, it, s, m) PROVE ahead # {} /\ m = n
    <2>1. m \in ahead /\ \A o \in Nonces : IsAhead(mp, it, s, o) => m <= o
      BY <1>4, <1>7 DEF IsHead
    <2>2. n \in ahead /\ n \in Nonces /\ n <= m
      BY <1>2, <1>3, <1>5, <2>1
    <2>3. m <= n /\ m \in Nat /\ n \in Nat
      BY <1>2, <1>4, <2>1, <2>2
    <2> QED BY <2>1, <2>2, <2>3
  <1> QED BY <1>1, <1>6, <1>7 DEF s, ahead

\* What Next hands out is worth no less than any other sender's next transaction: one
\* that has yet to come ranks no higher than the next node.
LEMMA NextOutranksAll ==
    ASSUME NEW mp, PoolOK(mp), NEW it \in GoodIterators(mp), LeadOK(mp, it), it.at = "Next",
           NEW n \in Nonces, IsHead(mp, it, it.node.sender, n), ~Outranked(mp, it, n),
           NEW t \in Senders, t # it.node.sender, NEW m \in Nonces, IsHead(mp, it, t, m), FreshAt(mp, t, m)
    PROVE  mp.senderIndices[t][m].tx.priority <= mp.senderIndices[it.node.sender][n].priority
  <1> DEFINE s == it.node.sender
             p == mp.senderIndices[s][n].priority
             rest == KeysAfter(mp, it.node)
             next == FrontKey(rest)
             k == ScoredAs(mp, t, m)
  <1>1. it.node \in DOMAIN mp.priorityIndex /\ it.node # None
    BY DEF GoodIterators, Iterators
  <1>2. s \in Senders /\ n \in DOMAIN mp.senderIndices[s] /\ s \in DOMAIN mp.senderIndices
        /\ t \in DOMAIN mp.senderIndices /\ m \in DOMAIN mp.senderIndices[t]
    BY <1>1, AheadFacts DEF IsHead, IsAhead
  <1>3. k \in DOMAIN mp.priorityIndex /\ k \in Key /\ k.priority = mp.senderIndices[t][m].tx.priority
    BY <1>2, ListedKey
  <1>4. IsBehind(mp, it, t, m)
    BY DEF LeadOK
  <1>5. k \in rest
    BY <1>1, <1>3, <1>4 DEF KeysAfter, IsBehind
  <1>6. rest \in SUBSET DOMAIN mp.priorityIndex /\ rest \subseteq Key
    BY DEF KeysAfter, PoolOK, PoolType
  <1>7. next \in rest /\ \A j \in rest \ {next} : Before(next, j)
    <2> HIDE DEF rest
    <2> QED BY <1>5, <1>6, RestFacts
  <1>8. ~(p < next.priority)
    BY <1>5 DEF Outranked
  <1>9. p \in Int
    BY <1>2, PriorityAssumption DEF PoolOK, PoolType
  <1> HIDE DEF p, rest, next, k
  <1>10. next.priority \in Int /\ k.priority \in Int
    BY <1>3, <1>6, <1>7, PriorityAssumption DEF Key
  <1>11. k.priority <= next.priority
    <2>1. CASE k = next
      BY <1>10, <2>1
    <2>2. CASE k # next
      BY <1>5, <1>7, <1>10, <2>2 DEF Before
    <2> QED BY <2>1, <2>2
  <1>12. k.priority <= p
    BY <1>8, <1>9, <1>10, <1>11
  <1> QED BY <1>3, <1>12 DEF p, s

\* Next leaves a sender only with nothing left of it or with its next transaction behind
\* the next node.
LEMMA LeadNext ==
    ASSUME NEW mp, PoolOK(mp), NEW it \in GoodIterators(mp), CursorsOK(mp, it), LeadOK(mp, it),
           it.at = "Next"
    PROVE  CursorsOK(mp, IteratorNext(mp, it)) /\ LeadOK(mp, IteratorNext(mp, it))
  <1> DEFINE s == it.node.sender
             ahead == Ahead(mp, it)
             n == CHOOSE m \in ahead : \A o \in ahead : m <= o
             tx == mp.senderIndices[s][n].tx
             nit == IteratorNext(mp, it)
  <1>1. it.node \in DOMAIN mp.priorityIndex /\ it.node # None /\ it.node \in Key
    BY DEF GoodIterators, Iterators, PoolOK, PoolType
  <1>2. /\ s \in Senders
        /\ ahead # {} => n \in Nonces /\ IsHead(mp, it, s, n)
        /\ \A m \in Nonces : IsHead(mp, it, s, m) => ahead # {} /\ m = n
    <2>1. PICK m : m = n
      OBVIOUS
    <2>2. m = CHOOSE o \in Ahead(mp, it) : \A q \in Ahead(mp, it) : o <= q
      BY <2>1
    <2> HIDE DEF n
    <2> QED BY <1>1, <2>1, <2>2, NextHead
  <1>3. nit = IF ahead = {} \/ Outranked(mp, it, n) THEN [it EXCEPT !.at = "iteratePriority"]
              ELSE [it EXCEPT !.at = "Tx", !.cursors = SkipSet(@, s, n), !.out = Append(@, tx)]
    BY DEF IteratorNext
  <1> HIDE DEF nit, n
  <1>4. CASE ahead = {} \/ Outranked(mp, it, n)
    <2>1. nit.cursors = it.cursors /\ nit.out = it.out /\ nit.at = "iteratePriority" /\ nit.node = it.node
      BY <1>3, <1>4 DEF GoodIterators, Iterators
    <2>2. CursorsOK(mp, nit) /\ \A t \in Senders, m \in Nonces : IsHead(mp, nit, t, m) => IsHead(mp, it, t, m)
      BY <2>1, SameHeads
    <2>3. ASSUME NEW t \in Senders, NEW m \in Nonces, IsHead(mp, it, t, m), FreshAt(mp, t, m)
          PROVE  IsBehind(mp, it, t, m)
      <3>1. CASE t # s
        BY <2>3, <3>1 DEF LeadOK
      <3>2. CASE t = s
        <4> DEFINE rest == KeysAfter(mp, it.node)
                   next == FrontKey(rest)
                   k == ScoredAs(mp, s, n)
        <4>1. m = n /\ Outranked(mp, it, n)
          BY <1>2, <1>4, <2>3, <3>2
        <4>2. s \in DOMAIN mp.senderIndices /\ n \in DOMAIN mp.senderIndices[s] /\ n \in Nonces
          BY <2>3, <3>2, <4>1 DEF IsHead, IsAhead
        <4>3. k \in Key /\ k.priority = mp.senderIndices[s][n].tx.priority
              /\ k.weight = mp.scores[<<s, n>>].weight
          <5>1. k.weight = mp.scores[<<s, n>>].weight
            BY DEF ScoredAs, KeyOf
          <5>2. s \in Senders /\ n \in Nonces
            BY <1>2, <4>2
          <5> HIDE DEF s
          <5> QED BY <4>2, <5>1, <5>2, ListedKey
        <4>4. mp.senderIndices[s][n].priority = k.priority
          BY <2>3, <3>2, <4>1, <4>3 DEF FreshAt
        <4>5. rest # {} /\ \/ k.priority < next.priority
                           \/ k.priority = next.priority /\ k.weight < next.weight
          BY <4>1, <4>3, <4>4 DEF Outranked
        <4>6. rest \in SUBSET DOMAIN mp.priorityIndex /\ rest \subseteq Key
              /\ \A j \in rest : Before(it.node, j)
          BY DEF KeysAfter, PoolOK, PoolType
        <4> HIDE DEF rest, k
        <4>7. next \in rest
          BY <4>5, <4>6, RestFacts
        <4> HIDE DEF next
        <4>8. next.priority \in Int /\ next.weight \in Int /\ k.priority \in Int /\ k.weight \in Int
          BY <4>3, <4>6, <4>7, PriorityAssumption DEF Key
        <4>9. Before(next, k)
          BY <4>5, <4>8 DEF Before
        <4>10. Before(it.node, k)
          BY <1>1, <4>3, <4>6, <4>7, <4>9, BeforeOrder
        <4> QED BY <3>2, <4>1, <4>10 DEF IsBehind, k
      <3> QED BY <3>1, <3>2
    <2>4. LeadOK(mp, nit)
      BY <2>1, <2>2, <2>3 DEF LeadOK, IsBehind
    <2> QED BY <2>2, <2>4 DEF nit
  <1>5. CASE ~(ahead = {} \/ Outranked(mp, it, n))
    <2>1. nit.cursors = SkipSet(it.cursors, s, n) /\ nit.out = Append(it.out, tx)
          /\ nit.at = "Tx" /\ nit.node = it.node
      BY <1>3, <1>5 DEF GoodIterators, Iterators
    <2>2. n \in Nonces /\ IsHead(mp, it, s, n) /\ n \in DOMAIN mp.senderIndices[s] /\ s \in DOMAIN mp.senderIndices
      BY <1>2, <1>5 DEF IsHead, IsAhead
    <2>3. /\ DOMAIN nit.cursors = DOMAIN it.cursors \cup {s} /\ nit.cursors[s] = n
          /\ \A t \in DOMAIN it.cursors : t # s => nit.cursors[t] = it.cursors[t]
      BY <2>1 DEF SkipSet
    <2>4. tx \in Txs /\ tx.sender = s /\ tx.nonce = n
      <3>1. tx.sender = s /\ tx.nonce = n
        <4>1. s \in Senders
          BY <1>2
        <4> HIDE DEF s
        <4> QED BY <2>2, <4>1, ListedKey
      <3>2. tx \in Txs
        BY <2>2 DEF PoolOK, PoolType
      <3> QED BY <3>1, <3>2
    <2>5. it.out \in Seq(Txs) /\ DOMAIN it.cursors \subseteq Senders
          /\ \A t \in DOMAIN it.cursors : it.cursors[t] \in Nonces
      <3>1. TxsOf(mp) \subseteq Txs
        BY DEF TxsOf, PoolOK, PoolType
      <3>2. it.out \in Seq(TxsOf(mp))
        BY DEF GoodIterators, Iterators
      <3>3. PICK D \in SUBSET Senders : it.cursors \in [D -> Nonces]
        BY DEF GoodIterators, Iterators
      <3>4. it.out \in Seq(Txs)
        BY <3>1, <3>2
      <3> QED BY <3>3, <3>4
    <2>6. \A t \in Senders, m \in Nonces : t # s => (IsHead(mp, nit, t, m) <=> IsHead(mp, it, t, m))
      BY <2>3 DEF IsHead, IsAhead
    <2>7. LeadOK(mp, nit)
      BY <2>1, <2>6 DEF LeadOK, IsBehind
    <2> HIDE DEF tx
    <2>8. /\ DOMAIN nit.out = DOMAIN it.out \cup {Len(it.out) + 1}
          /\ \A i \in DOMAIN it.out : nit.out[i] = it.out[i]
          /\ nit.out[Len(it.out) + 1] = tx
      BY <2>1, <2>4, <2>5
    <2>9. \A m \in Nonces : m \in Nat
      BY NonceAssumption
    <2>10. ASSUME NEW i \in DOMAIN nit.out
           PROVE  /\ nit.out[i].sender \in DOMAIN nit.cursors
                  /\ nit.out[i].nonce <= nit.cursors[nit.out[i].sender]
      <3>1. CASE i = Len(it.out) + 1
        <4>1. nit.out[i] = tx /\ n <= n
          BY <2>2, <2>8, <2>9, <3>1
        <4> QED BY <2>3, <2>4, <4>1
      <3>2. CASE i \in DOMAIN it.out
        <4>1. nit.out[i] = it.out[i] /\ it.out[i] \in Txs
          BY <2>5, <2>8, <3>2
        <4>2. it.out[i].sender \in DOMAIN it.cursors /\ it.out[i].nonce <= it.cursors[it.out[i].sender]
          BY <3>2 DEF CursorsOK
        <4>3. CASE it.out[i].sender # s
          BY <2>3, <4>1, <4>2, <4>3
        <4>4. CASE it.out[i].sender = s
          <5>1. it.cursors[s] < n
            BY <2>2, <4>2, <4>4 DEF IsHead, IsAhead
          <5>2. it.cursors[s] \in Nat /\ n \in Nat /\ it.out[i].nonce \in Nat
            BY <2>2, <2>5, <2>9, <4>1, <4>2, <4>4, TxFacts
          <5>3. it.out[i].nonce <= n
            BY <4>2, <4>4, <5>1, <5>2
          <5> QED BY <2>3, <4>1, <4>4, <5>3
        <4> QED BY <4>3, <4>4
      <3> QED BY <2>8, <3>1, <3>2
    <2>11. ASSUME NEW t \in DOMAIN nit.cursors, NEW m \in DOMAIN mp.senderIndices[t],
                  m <= nit.cursors[t]
           PROVE  \E i \in DOMAIN nit.out : nit.out[i] = mp.senderIndices[t][m].tx
      <3>1. CASE t \in DOMAIN it.cursors /\ m <= it.cursors[t]
        <4>1. PICK i \in DOMAIN it.out : it.out[i] = mp.senderIndices[t][m].tx
          BY <3>1 DEF CursorsOK
        <4> QED BY <2>8, <4>1
      <3>2. CASE ~(t \in DOMAIN it.cursors /\ m <= it.cursors[t])
        <4>1. t = s
          BY <2>3, <2>11, <3>2
        <4>2. m \in Nonces /\ n \in Nat /\ m \in Nat
          BY <2>2, <2>9, <4>1 DEF PoolOK, PoolType
        <4>3. IsAhead(mp, it, s, m)
          <5>1. s \in DOMAIN it.cursors => it.cursors[s] \in Nat
            BY <2>5, <2>9
          <5> QED BY <2>2, <3>2, <4>1, <4>2, <5>1 DEF IsAhead
        <4>4. n <= m /\ m <= n
          BY <2>2, <2>3, <2>11, <4>1, <4>2, <4>3 DEF IsHead
        <4>5. m = n
          BY <4>2, <4>4
        <4> QED BY <2>8, <4>1, <4>5 DEF tx
      <3> QED BY <3>1, <3>2
    <2>12. CursorsOK(mp, nit)
      BY <2>10, <2>11 DEF CursorsOK
    <2> QED BY <2>7, <2>12 DEF nit
  <1> QED BY <1>4, <1>5

\* A pooled transaction that was not handed out is ahead of its sender's cursor, and one
\* that was is not.
LEMMA LeftAhead ==
    ASSUME NEW mp, PoolOK(mp), NEW it \in GoodIterators(mp), CursorsOK(mp, it), NEW tx \in TxsOf(mp)
    PROVE  /\ tx.sender \in Senders /\ tx.nonce \in Nonces
           /\ tx.sender \in DOMAIN mp.senderIndices /\ tx.nonce \in DOMAIN mp.senderIndices[tx.sender]
           /\ tx = mp.senderIndices[tx.sender][tx.nonce].tx
           /\ (\A i \in DOMAIN it.out : it.out[i] # tx) <=> IsAhead(mp, it, tx.sender, tx.nonce)
  <1>1. PICK k \in DOMAIN mp.priorityIndex : tx = mp.priorityIndex[k]
    BY DEF TxsOf
  <1>2. tx \in Txs /\ tx.sender = k.sender /\ tx.nonce = k.nonce /\ tx = mp.senderIndices[k.sender][k.nonce].tx
    BY <1>1 DEF PoolOK, PoolType, PoolAgrees, TxsFiled
  <1>3. tx.sender \in Senders /\ tx.nonce \in Nonces
    BY <1>2, TxAssumption DEF Tx
  <1>4. tx.sender \in DOMAIN mp.senderIndices /\ tx.nonce \in DOMAIN mp.senderIndices[tx.sender]
        /\ tx = mp.senderIndices[tx.sender][tx.nonce].tx
    <2>1. <<k.sender, k.nonce>> \in DOMAIN mp.scores
      BY ScoredKey DEF PoolOK
    <2> QED BY <1>2, <1>3, <2>1 DEF PoolOK, PoolAgrees, NoncesScored
  <1>5. \A s \in DOMAIN it.cursors : it.cursors[s] \in Nat
    <2>1. PICK D \in SUBSET Senders : it.cursors \in [D -> Nonces]
      BY DEF GoodIterators, Iterators
    <2> QED BY <2>1, NonceAssumption
  <1>6. tx.nonce \in Nat
    BY <1>3, NonceAssumption
  <1>7. ASSUME \A i \in DOMAIN it.out : it.out[i] # tx PROVE IsAhead(mp, it, tx.sender, tx.nonce)
    <2>1. tx.sender \in DOMAIN it.cursors => ~(tx.nonce <= it.cursors[tx.sender])
      BY <1>4, <1>7 DEF CursorsOK
    <2> QED BY <1>4, <1>5, <1>6, <2>1 DEF IsAhead
  <1>8. ASSUME NEW i \in DOMAIN it.out, it.out[i] = tx PROVE ~IsAhead(mp, it, tx.sender, tx.nonce)
    <2>1. tx.sender \in DOMAIN it.cursors /\ tx.nonce <= it.cursors[tx.sender]
      BY <1>8 DEF CursorsOK
    <2> QED BY <1>5, <1>6, <2>1 DEF IsAhead
  <1> QED BY <1>3, <1>4, <1>7, <1>8

\* The transactions that no other of their sender precedes are the lists' next ones.
LEMMA HeadsAreNext ==
    ASSUME NEW mp, PoolOK(mp), NEW it \in GoodIterators(mp), CursorsOK(mp, it),
           NEW h \in TxsOf(mp), \A i \in DOMAIN it.out : it.out[i] # h,
           \A o \in TxsOf(mp) : (\A i \in DOMAIN it.out : it.out[i] # o) /\ o.sender = h.sender
                                   => h.nonce <= o.nonce
    PROVE  h.sender \in Senders /\ h.nonce \in Nonces /\ IsHead(mp, it, h.sender, h.nonce)
  <1>1. h.sender \in Senders /\ h.nonce \in Nonces /\ IsAhead(mp, it, h.sender, h.nonce)
    BY LeftAhead
  <1>2. ASSUME NEW m \in Nonces, IsAhead(mp, it, h.sender, m) PROVE h.nonce <= m
    <2> DEFINE o == mp.senderIndices[h.sender][m].tx
    <2>1. h.sender \in DOMAIN mp.senderIndices /\ m \in DOMAIN mp.senderIndices[h.sender]
      BY <1>2 DEF IsAhead
    <2>2. o \in TxsOf(mp)
      BY <1>1, <2>1, ListedPooled
    <2>3. PICK s \in Senders : s = h.sender
      BY <1>1
    <2>4. o.sender = h.sender /\ o.nonce = m
      BY <2>1, <2>3, ListedKey
    <2> HIDE DEF o
    <2>5. \A i \in DOMAIN it.out : it.out[i] # o
      BY <1>2, <2>2, <2>4, LeftAhead
    <2> QED BY <2>2, <2>4, <2>5
  <1> QED BY <1>1, <1>2 DEF IsHead

\* The transaction an iterator stands on was not handed out before, and its element ranks
\* no lower than any other sender's next one.
TopInv(mp, it) ==
    it.at = "Tx" =>
        /\ \A i \in 1..(Len(it.out) - 1) : it.out[i] # Current(it)
        /\ \A s \in Senders, n \in Nonces :
              s # Current(it).sender /\ IsHead(mp, it, s, n) /\ FreshAt(mp, s, n)
                 => mp.senderIndices[s][n].tx.priority
                       <= mp.senderIndices[Current(it).sender][Current(it).nonce].priority

LEMMA NextOnTop ==
    ASSUME NEW mp, PoolOK(mp), NEW it \in GoodIterators(mp), CursorsOK(mp, it), LeadOK(mp, it),
           it.at = "Next"
    PROVE  TopInv(mp, IteratorNext(mp, it))
  <1> DEFINE s == it.node.sender
             ahead == Ahead(mp, it)
             n == CHOOSE m \in ahead : \A o \in ahead : m <= o
             tx == mp.senderIndices[s][n].tx
  <1>1. PICK nit : nit = IteratorNext(mp, it)
    OBVIOUS
  <1>2. it.node \in DOMAIN mp.priorityIndex /\ it.node # None
    BY DEF GoodIterators, Iterators
  <1>3. /\ s \in Senders
        /\ ahead # {} => n \in Nonces /\ IsHead(mp, it, s, n)
    <2>1. PICK m : m = n
      OBVIOUS
    <2>2. m = CHOOSE o \in Ahead(mp, it) : \A q \in Ahead(mp, it) : o <= q
      BY <2>1
    <2> HIDE DEF n
    <2> QED BY <1>2, <2>1, <2>2, NextHead
  <1>4. nit = IF ahead = {} \/ Outranked(mp, it, n) THEN [it EXCEPT !.at = "iteratePriority"]
              ELSE [it EXCEPT !.at = "Tx", !.cursors = SkipSet(@, s, n), !.out = Append(@, tx)]
    BY <1>1 DEF IteratorNext
  <1> HIDE DEF n
  <1> SUFFICES ASSUME nit.at = "Tx" PROVE TopInv(mp, nit)
    BY <1>1 DEF TopInv
  <1>5. ~(ahead = {} \/ Outranked(mp, it, n))
    BY <1>4 DEF GoodIterators, Iterators
  <1>6. nit.cursors = SkipSet(it.cursors, s, n) /\ nit.out = Append(it.out, tx)
    BY <1>4, <1>5 DEF GoodIterators, Iterators
  <1>7. n \in Nonces /\ IsHead(mp, it, s, n) /\ s \in DOMAIN mp.senderIndices /\ n \in DOMAIN mp.senderIndices[s]
    BY <1>3, <1>5 DEF IsHead, IsAhead
  <1>8. tx \in TxsOf(mp) /\ tx.sender = s /\ tx.nonce = n
    <2>1. s \in Senders
      BY <1>3
    <2> HIDE DEF s
    <2> QED BY <1>7, <2>1, ListedKey, ListedPooled
  <1>9. it.out \in Seq(TxsOf(mp))
    BY DEF GoodIterators, Iterators
  <1>10. \A i \in DOMAIN it.out : it.out[i] # tx
    BY <1>7, <1>8, LeftAhead DEF IsHead
  <1> HIDE DEF tx
  <1>11. /\ Len(nit.out) = Len(it.out) + 1 /\ Current(nit) = tx /\ DOMAIN it.out = 1..Len(it.out)
         /\ Len(nit.out) - 1 = Len(it.out)
         /\ \A i \in 1..Len(it.out) : nit.out[i] = it.out[i]
    BY <1>6, <1>8, <1>9 DEF Current
  <1>12. \A i \in 1..(Len(nit.out) - 1) : nit.out[i] # Current(nit)
    BY <1>10, <1>11
  <1>13. \A t \in Senders, m \in Nonces : t # s => (IsHead(mp, nit, t, m) <=> IsHead(mp, it, t, m))
    <2>1. /\ DOMAIN nit.cursors = DOMAIN it.cursors \cup {s}
          /\ \A t \in DOMAIN it.cursors : t # s => nit.cursors[t] = it.cursors[t]
      BY <1>6 DEF SkipSet
    <2> QED BY <2>1 DEF IsHead, IsAhead
  <1>14. ASSUME NEW t \in Senders, NEW m \in Nonces, t # s, IsHead(mp, nit, t, m), FreshAt(mp, t, m)
         PROVE  mp.senderIndices[t][m].tx.priority <= mp.senderIndices[s][n].priority
    <2>1. IsHead(mp, it, t, m)
      BY <1>13, <1>14
    <2> QED BY <1>5, <1>7, <1>14, <2>1, NextOutranksAll
  <1> QED BY <1>8, <1>11, <1>12, <1>14 DEF TopInv

-----------------------------------------------------------------------------
(* The mempool of a lane. *)

LaneType(cm) == cm = [index |-> cm.index, txCache |-> cm.txCache] /\ cm.txCache \subseteq Txs

\* The transactions of a set that can be removed again.
Removable(txs) == {t \in txs : t.signed /\ t.encodes}

\* What holds of a lane's mempool between any two calls.
LaneOK(cm) == LaneType(cm) /\ PoolOK(cm.index) /\ TxsOf(cm.index) \subseteq Removable(cm.txCache)

\* An indexed transaction is pooled and, of the ones pooled before, only that
\* of the same sender and nonce is not any more.
LEMMA TxsAfterIndex ==
    ASSUME NEW mp, PoolOK(mp), NEW tx \in Txs
    PROVE  TxsOf(Index(mp, tx)) = {t \in TxsOf(mp) : ScoreKey(t) # ScoreKey(tx)} \cup {tx}
  <1> DEFINE sk == ScoreKey(tx)
             newKey == KeyOf(sk, [priority |-> tx.priority, weight |-> ZeroValue])
             old == KeyOf(sk, mp.scores[sk])
             keys == DOMAIN mp.priorityIndex
             others == IF sk \in DOMAIN mp.scores
                       THEN SkipRemove(mp.priorityIndex, old) ELSE mp.priorityIndex
             new == Index(mp, tx)
  <1>1. new.priorityIndex = SkipSet(others, newKey, tx)
    BY DEF Index
  <1>2. ASSUME NEW k \in keys
        PROVE  /\ ScoreKey(mp.priorityIndex[k]) = <<k.sender, k.nonce>>
               /\ k \in DOMAIN others <=> ScoreKey(mp.priorityIndex[k]) # sk
               /\ ScoreKey(mp.priorityIndex[k]) # sk => k # newKey
    <2>1. ScoreKey(mp.priorityIndex[k]) = <<k.sender, k.nonce>>
      BY DEF PoolOK, PoolAgrees, TxsFiled, ScoreKey
    <2>2. <<k.sender, k.nonce>> \in DOMAIN mp.scores
          /\ k = KeyOf(<<k.sender, k.nonce>>, mp.scores[<<k.sender, k.nonce>>])
      BY ScoredKey DEF PoolOK
    <2>3. newKey.sender = sk[1] /\ newKey.nonce = sk[2] /\ sk = <<sk[1], sk[2]>>
          /\ old.sender = sk[1] /\ old.nonce = sk[2]
      BY DEF KeyOf, ScoreKey
    <2>4. CASE sk \in DOMAIN mp.scores
      <3>1. DOMAIN others = keys \ {old}
        BY <2>4 DEF SkipRemove
      <3> HIDE DEF others, newKey, old
      <3>2. k = old <=> ScoreKey(mp.priorityIndex[k]) = sk
        BY <2>1, <2>2, <2>3, <2>4 DEF old
      <3> QED BY <2>1, <2>3, <3>1, <3>2
    <2>5. CASE sk \notin DOMAIN mp.scores
      <3>1. DOMAIN others = keys
        BY <2>5
      <3> HIDE DEF others, newKey, old
      <3> QED BY <2>1, <2>2, <2>3, <2>5, <3>1
    <2> QED BY <2>4, <2>5
  <1>3. DOMAIN others \subseteq keys /\ \A k \in DOMAIN others : others[k] = mp.priorityIndex[k]
    BY DEF SkipRemove
  <1> HIDE DEF others, newKey, old, sk
  <1>4. DOMAIN new.priorityIndex = DOMAIN others \cup {newKey}
        /\ \A k \in DOMAIN new.priorityIndex :
              new.priorityIndex[k] = IF k = newKey THEN tx ELSE mp.priorityIndex[k]
    BY <1>1, <1>3 DEF SkipSet
  <1> HIDE DEF new
  <1>5. ASSUME NEW t \in TxsOf(new) PROVE t = tx \/ (t \in TxsOf(mp) /\ ScoreKey(t) # sk)
    BY <1>2, <1>3, <1>4 DEF TxsOf
  <1>6. tx \in TxsOf(new)
    BY <1>4 DEF TxsOf
  <1>7. ASSUME NEW t \in TxsOf(mp), ScoreKey(t) # sk PROVE t \in TxsOf(new)
    <2>1. PICK k \in keys : t = mp.priorityIndex[k]
      BY DEF TxsOf
    <2>2. k \in DOMAIN others /\ k # newKey
      BY <1>2, <1>7, <2>1
    <2>3. k \in DOMAIN new.priorityIndex /\ t = new.priorityIndex[k]
      BY <1>4, <2>1, <2>2
    <2> QED BY <2>3 DEF TxsOf
  <1> QED BY <1>5, <1>6, <1>7 DEF new, sk

\* Unindexing a transaction takes out the one of its sender and nonce.
LEMMA TxsAfterUnindex ==
    ASSUME NEW mp, PoolOK(mp), NEW tx \in Txs, ScoreKey(tx) \in DOMAIN mp.scores
    PROVE  /\ TxsOf(Unindex(mp, tx)) \subseteq TxsOf(mp)
           /\ \A t \in TxsOf(Unindex(mp, tx)) : ScoreKey(t) # ScoreKey(tx)
  <1> DEFINE sk == ScoreKey(tx)
             old == KeyOf(sk, mp.scores[sk])
             new == Unindex(mp, tx)
  <1>1. new.priorityIndex = SkipRemove(mp.priorityIndex, old)
    BY DEF Unindex
  <1>2. DOMAIN new.priorityIndex = DOMAIN mp.priorityIndex \ {old}
        /\ \A k \in DOMAIN new.priorityIndex : new.priorityIndex[k] = mp.priorityIndex[k]
    BY <1>1 DEF SkipRemove
  <1>3. TxsOf(new) \subseteq TxsOf(mp)
    BY <1>2 DEF TxsOf
  <1>4. ASSUME NEW t \in TxsOf(new), ScoreKey(t) = sk PROVE FALSE
    <2>1. PICK k \in DOMAIN new.priorityIndex : t = new.priorityIndex[k]
      BY DEF TxsOf
    <2>2. k \in DOMAIN mp.priorityIndex /\ k # old /\ t = mp.priorityIndex[k]
      BY <1>2, <2>1
    <2>3. t.sender = k.sender /\ t.nonce = k.nonce
      BY <2>2 DEF PoolOK, PoolAgrees, TxsFiled
    <2>4. <<k.sender, k.nonce>> = sk
      BY <1>4, <2>3 DEF ScoreKey
    <2>5. k = KeyOf(sk, mp.scores[sk])
      BY <2>2, <2>4, ScoredKey DEF PoolOK
    <2> QED BY <2>2, <2>5
  <1> QED BY <1>3, <1>4

LEMMA TxsAfterReorder ==
    ASSUME NEW mp, PoolOK(mp)
    PROVE  TxsOf(ReorderPriorityTies(mp)) = TxsOf(mp)
  <1> DEFINE new == ReorderPriorityTies(mp)
             pi == new.priorityIndex
  <1>1. pi = [j \in {Reweigh(mp, k) : k \in DOMAIN mp.priorityIndex} |->
                 mp.priorityIndex[KeyAt(mp, j.sender, j.nonce)]]
    BY DEF ReorderPriorityTies
  <1>2. ASSUME NEW k \in DOMAIN mp.priorityIndex
        PROVE  pi[Reweigh(mp, k)] = mp.priorityIndex[k]
    <2>1. k \in Key
      BY DEF PoolOK, PoolType
    <2>2. Reweigh(mp, k).sender = k.sender /\ Reweigh(mp, k).nonce = k.nonce
      BY <2>1 DEF Reweigh, Key
    <2>3. KeyAt(mp, k.sender, k.nonce) = k
      BY ScoredKey DEF PoolOK, KeyAt
    <2> QED BY <1>1, <2>2, <2>3
  <1>3. DOMAIN pi = {Reweigh(mp, k) : k \in DOMAIN mp.priorityIndex}
    BY <1>1
  <1> HIDE DEF pi
  <1>4. \A j \in DOMAIN pi : pi[j] \in TxsOf(mp)
    BY <1>2, <1>3 DEF TxsOf
  <1>5. \A k \in DOMAIN mp.priorityIndex : \E j \in DOMAIN pi : pi[j] = mp.priorityIndex[k]
    BY <1>2, <1>3
  <1> QED BY <1>4, <1>5 DEF TxsOf, pi

LEMMA NewLaneOK == LaneOK(NewConstructorMempool)
  BY NewPoolOK DEF LaneOK, LaneType, Removable, NewConstructorMempool, TxsOf, EmptyPool, EmptyList

\* Lane.Remove takes out of the index and of the cache, and a transaction it
\* leaves in the index is still in the cache.
LEMMA LaneRemoveOK ==
    ASSUME NEW cm, LaneOK(cm), NEW tx \in Txs
    PROVE  LaneOK(LaneRemove(cm, tx))
  <1> DEFINE new == LaneRemove(cm, tx)
  <1>1. CASE RemoveError(cm.index, tx) = "no signer"
    BY <1>1 DEF LaneRemove
  <1>2. CASE RemoveError(cm.index, tx) # "no signer"
    <2>1. /\ new.index = Remove(cm.index, tx)
          /\ new.txCache = IF tx.encodes THEN cm.txCache \ {tx} ELSE cm.txCache
          /\ LaneType(new)
      BY <1>2 DEF LaneRemove, LaneOK, LaneType
    <2>2. PoolOK(new.index)
      BY <2>1, RemoveOK DEF LaneOK
    <2>3. CASE RemoveError(cm.index, tx) = "none"
      <3>1. new.index = Unindex(cm.index, tx) /\ ScoreKey(tx) \in DOMAIN cm.index.scores
        BY <2>1, <2>3 DEF Remove, RemoveError
      <3>2. TxsOf(new.index) \subseteq TxsOf(cm.index) /\ tx \notin TxsOf(new.index)
        BY <3>1, TxsAfterUnindex DEF LaneOK
      <3> QED BY <2>1, <2>2, <3>2 DEF LaneOK, Removable
    <2>4. CASE RemoveError(cm.index, tx) # "none"
      <3>1. new.index = cm.index /\ ScoreKey(tx) \notin DOMAIN cm.index.scores
        BY <1>2, <2>1, <2>4 DEF Remove, RemoveError
      <3>2. tx \notin TxsOf(cm.index)
        BY <3>1, ScoredTx DEF LaneOK
      <3> QED BY <2>1, <2>2, <3>1, <3>2 DEF LaneOK, Removable
    <2> QED BY <2>3, <2>4
  <1> QED BY <1>1, <1>2

LEMMA LaneInsertOK ==
    ASSUME NEW cm, LaneOK(cm), NEW tx \in Txs, NEW maxTx \in Int
    PROVE  LaneOK(LaneInsert(cm, tx, maxTx))
  <1> DEFINE indexed == [index |-> Insert(cm.index, tx, maxTx), txCache |-> cm.txCache]
             new == LaneInsert(cm, tx, maxTx)
  <1>1. PoolOK(indexed.index) /\ TxsOf(indexed.index) \subseteq TxsOf(cm.index) \cup {tx}
    BY InsertOK, TxsAfterIndex DEF LaneOK, Insert
  <1>2. CASE InsertError(cm.index, tx, maxTx) # "none"
    BY <1>2 DEF LaneInsert
  <1>3. CASE InsertError(cm.index, tx, maxTx) = "none" /\ tx.encodes
    <2>1. new = [indexed EXCEPT !.txCache = @ \cup {tx}]
      BY <1>3 DEF LaneInsert
    <2>2. new.index = indexed.index /\ new.txCache = cm.txCache \cup {tx} /\ LaneType(new)
      BY <2>1 DEF LaneOK, LaneType
    <2>3. CASE maxTx < 0
      <3>1. indexed.index = cm.index
        BY <2>3 DEF Insert
      <3> QED BY <1>1, <2>2, <3>1 DEF LaneOK, Removable
    <2>4. CASE ~(maxTx < 0)
      <3>1. tx.signed
        BY <1>3, <2>4 DEF InsertError
      <3> QED BY <1>1, <1>3, <2>2, <3>1 DEF LaneOK, Removable
    <2> QED BY <2>3, <2>4
  <1>4. CASE InsertError(cm.index, tx, maxTx) = "none" /\ ~tx.encodes
    <2>1. new = LaneRemove(indexed, tx)
      BY <1>4 DEF LaneInsert
    <2>2. CASE ~tx.signed
      <3>1. maxTx < 0
        BY <1>4, <2>2 DEF InsertError
      <3>2. indexed = cm
        BY <3>1 DEF Insert, LaneOK, LaneType
      <3> QED BY <2>1, <3>2, LaneRemoveOK
    <2>3. CASE tx.signed /\ maxTx < 0
      <3>1. indexed = cm
        BY <2>3 DEF Insert, LaneOK, LaneType
      <3> QED BY <2>1, <3>1, LaneRemoveOK
    <2>4. CASE tx.signed /\ ~(maxTx < 0)
      <3>1. indexed.index = Index(cm.index, tx)
        BY <1>4, <2>4 DEF Insert
      <3>2. ScoreKey(tx) \in DOMAIN indexed.index.scores
        BY <3>1 DEF Index, SkipSet
      <3>3. RemoveError(indexed.index, tx) = "none"
        BY <2>4, <3>2 DEF RemoveError
      <3>4. new = [index |-> Unindex(indexed.index, tx), txCache |-> cm.txCache]
        BY <1>4, <2>1, <3>3 DEF LaneRemove, Remove
      <3>5. PoolOK(new.index)
        BY <1>1, <3>2, <3>4, UnindexOK, UnindexCounts DEF PoolOK
      <3>6. /\ TxsOf(new.index) \subseteq TxsOf(indexed.index)
            /\ \A t \in TxsOf(new.index) : ScoreKey(t) # ScoreKey(tx)
        BY <1>1, <3>2, <3>4, TxsAfterUnindex
      <3>7. TxsOf(new.index) \subseteq Removable(cm.txCache)
        BY <1>1, <3>6 DEF LaneOK
      <3> QED BY <3>4, <3>5, <3>7 DEF LaneOK, LaneType
    <2> QED BY <2>2, <2>3, <2>4
  <1> QED BY <1>2, <1>3, <1>4

LEMMA LaneSelectOK ==
    ASSUME NEW cm, LaneOK(cm)
    PROVE  LaneOK(LaneSelect(cm))
  <1>1. LaneSelect(cm) = [index |-> SelectPool(cm.index), txCache |-> cm.txCache]
    BY DEF LaneSelect, LaneOK, LaneType
  <1>2. TxsOf(SelectPool(cm.index)) \subseteq TxsOf(cm.index)
    BY TxsAfterReorder DEF SelectPool, LaneOK
  <1> QED BY <1>1, <1>2, SelectOK DEF LaneOK, LaneType

\* Lane.Remove adds no transaction to the lane, and Select neither adds nor takes one.
LEMMA TxsAfterLaneRemove ==
    ASSUME NEW cm, LaneOK(cm), NEW tx \in Txs
    PROVE  TxsOf(LaneRemove(cm, tx).index) \subseteq TxsOf(cm.index)
  <1>1. CASE RemoveError(cm.index, tx) = "none"
    <2>1. LaneRemove(cm, tx).index = Unindex(cm.index, tx) /\ ScoreKey(tx) \in DOMAIN cm.index.scores
      BY <1>1 DEF LaneRemove, Remove, RemoveError
    <2> QED BY <2>1, TxsAfterUnindex DEF LaneOK
  <1>2. CASE RemoveError(cm.index, tx) # "none"
    BY <1>2 DEF LaneRemove, Remove
  <1> QED BY <1>1, <1>2

LEMMA TxsAfterLaneSelect ==
    ASSUME NEW cm, LaneOK(cm)
    PROVE  TxsOf(LaneSelect(cm).index) = TxsOf(cm.index)
  <1>1. LaneSelect(cm).index = SelectPool(cm.index)
    BY DEF LaneSelect, LaneOK, LaneType
  <1> QED BY <1>1, TxsAfterReorder DEF SelectPool, LaneOK

\* What LaneInsert pools that was not pooled before is the transaction itself.
LEMMA TxsAfterLaneInsert ==
    ASSUME NEW cm, LaneOK(cm), NEW tx \in Txs, NEW maxTx \in Int
    PROVE  TxsOf(LaneInsert(cm, tx, maxTx).index) \subseteq TxsOf(cm.index) \cup {tx}
  <1> DEFINE indexed == [index |-> Insert(cm.index, tx, maxTx), txCache |-> cm.txCache]
  <1>1. TxsOf(indexed.index) \subseteq TxsOf(cm.index) \cup {tx} /\ PoolOK(indexed.index)
    BY InsertOK, TxsAfterIndex DEF LaneOK, Insert
  <1>2. TxsOf(LaneRemove(indexed, tx).index) \subseteq TxsOf(indexed.index)
    <2>1. CASE RemoveError(indexed.index, tx) = "none"
      <3>1. LaneRemove(indexed, tx).index = Unindex(indexed.index, tx)
            /\ ScoreKey(tx) \in DOMAIN indexed.index.scores
        BY <2>1 DEF LaneRemove, Remove, RemoveError
      <3> QED BY <1>1, <3>1, TxsAfterUnindex
    <2>2. CASE RemoveError(indexed.index, tx) # "none"
      BY <2>2 DEF LaneRemove, Remove
    <2> QED BY <2>1, <2>2
  <1>3. LaneInsert(cm, tx, maxTx) = cm \/ LaneInsert(cm, tx, maxTx) = LaneRemove(indexed, tx)
        \/ LaneInsert(cm, tx, maxTx) = [indexed EXCEPT !.txCache = @ \cup {tx}]
    BY DEF LaneInsert
  <1> QED BY <1>1, <1>2, <1>3

\* A lane that pools a transaction admits to it and can take it out.
LEMMA LaneRemoved ==
    ASSUME NEW cm, LaneOK(cm), NEW tx \in TxsOf(cm.index)
    PROVE  LaneContains(cm, tx) /\ tx \notin TxsOf(LaneRemove(cm, tx).index)
  <1>1. tx \in Txs /\ tx \in cm.txCache /\ tx.signed /\ tx.encodes
    BY DEF LaneOK, LaneType, Removable
  <1>2. ScoreKey(tx) \in DOMAIN cm.index.scores
    BY ScoredTx DEF LaneOK
  <1>3. RemoveError(cm.index, tx) = "none"
    BY <1>1, <1>2 DEF RemoveError
  <1>4. LaneRemove(cm, tx).index = Unindex(cm.index, tx)
    BY <1>3 DEF LaneRemove, Remove
  <1> QED BY <1>1, <1>2, <1>4, TxsAfterUnindex DEF LaneOK, LaneContains

\* What a lane holds of another one's transactions, and their elements, after those of
\* some senders and nonces have left.
LeftOf(old, cm, gone) ==
    /\ TxsOf(cm.index) = {t \in TxsOf(old.index) : ScoreKey(t) \notin gone}
    /\ \A t \in TxsOf(cm.index) :
          cm.index.senderIndices[t.sender][t.nonce] = old.index.senderIndices[t.sender][t.nonce]

\* Removing a transaction takes out what has its sender and nonce, and nothing else.
LEMMA LaneRemoveLeaves ==
    ASSUME NEW cm, LaneOK(cm), NEW tx \in Txs, tx.signed
    PROVE  LeftOf(cm, LaneRemove(cm, tx), {ScoreKey(tx)})
  <1> DEFINE mp == cm.index
             new == LaneRemove(cm, tx).index
             sk == ScoreKey(tx)
  <1>1. PoolOK(mp)
    BY DEF LaneOK
  <1>2. CASE sk \notin DOMAIN mp.scores
    <2>1. new = mp
      BY <1>2 DEF LaneRemove, Remove, RemoveError
    <2>2. \A t \in TxsOf(mp) : ScoreKey(t) # sk
      BY <1>1, <1>2, ScoredTx
    <2>3. TxsOf(new) = {t \in TxsOf(mp) : ScoreKey(t) \notin {sk}}
      BY <2>1, <2>2
    <2> QED BY <2>1, <2>3 DEF LeftOf
  <1>3. CASE sk \in DOMAIN mp.scores
    <2> DEFINE old == KeyOf(sk, mp.scores[sk])
    <2>1. new = Unindex(mp, tx)
      BY <1>3 DEF LaneRemove, Remove, RemoveError
    <2>2. /\ new.priorityIndex = SkipRemove(mp.priorityIndex, old)
          /\ new.senderIndices = [mp.senderIndices EXCEPT ![tx.sender] = SkipRemove(@, tx.nonce)]
      BY <2>1 DEF Unindex
    <2>3. TxsOf(new) \subseteq TxsOf(mp) /\ \A t \in TxsOf(new) : ScoreKey(t) # sk
      BY <1>1, <1>3, <2>1, TxsAfterUnindex
    <2>4. ASSUME NEW t \in TxsOf(mp), ScoreKey(t) # sk PROVE t \in TxsOf(new)
      <3>1. PICK k \in DOMAIN mp.priorityIndex : t = mp.priorityIndex[k]
        BY DEF TxsOf
      <3>2. t.sender = k.sender /\ t.nonce = k.nonce
        BY <1>1, <3>1 DEF PoolOK, PoolAgrees, TxsFiled
      <3>3. <<old.sender, old.nonce>> = sk
        BY DEF KeyOf, ScoreKey
      <3>4. k # old
        BY <2>4, <3>2, <3>3 DEF ScoreKey
      <3> QED BY <2>2, <3>1, <3>4 DEF SkipRemove, TxsOf
    <2>5. ASSUME NEW t \in TxsOf(new)
          PROVE  new.senderIndices[t.sender][t.nonce] = mp.senderIndices[t.sender][t.nonce]
      <3>1. t \in TxsOf(mp) /\ ScoreKey(t) # sk
        BY <2>3
      <3>2. ScoreKey(t) \in DOMAIN mp.scores /\ t \in Txs
        BY <1>1, <3>1, ScoredTx DEF PoolOK, PoolType, TxsOf
      <3>3. t.sender \in DOMAIN mp.senderIndices /\ t.nonce \in DOMAIN mp.senderIndices[t.sender]
        BY <1>1, <3>2, TxAssumption DEF Tx, ScoreKey, PoolOK, PoolAgrees, NoncesScored
      <3>4. CASE t.sender # tx.sender
        BY <2>2, <3>3, <3>4
      <3>5. CASE t.sender = tx.sender
        <4>1. t.nonce # tx.nonce
          BY <3>1, <3>5 DEF ScoreKey
        <4>2. new.senderIndices[t.sender] = SkipRemove(mp.senderIndices[t.sender], tx.nonce)
          BY <2>2, <3>3, <3>5
        <4> QED BY <3>3, <4>1, <4>2 DEF SkipRemove
      <3> QED BY <3>4, <3>5
    <2> HIDE DEF new
    <2>6. TxsOf(new) = {t \in TxsOf(mp) : ScoreKey(t) \notin {sk}}
      BY <2>3, <2>4
    <2> QED BY <2>5, <2>6 DEF LeftOf, new
  <1> QED BY <1>2, <1>3

\* A lane that refuses a transaction does not pool it, although it indexes it
\* before it finds out that it cannot encode it.
LEMMA LaneRefuses ==
    ASSUME NEW cm, LaneOK(cm), NEW tx \in Txs, NEW maxTx \in Int,
           LaneInsertError(cm, tx, maxTx) # "none",
           tx \in TxsOf(LaneInsert(cm, tx, maxTx).index)
    PROVE  tx \in TxsOf(cm.index)
  <1> DEFINE indexed == [index |-> Insert(cm.index, tx, maxTx), txCache |-> cm.txCache]
  <1>1. CASE InsertError(cm.index, tx, maxTx) # "none"
    BY <1>1 DEF LaneInsert
  <1>2. CASE InsertError(cm.index, tx, maxTx) = "none"
    <2>1. LaneInsert(cm, tx, maxTx) = LaneRemove(indexed, tx)
      BY <1>2 DEF LaneInsertError, LaneInsert
    <2>2. CASE maxTx < 0
      <3>1. indexed = cm
        BY <2>2 DEF Insert, LaneOK, LaneType
      <3> QED BY <2>1, <3>1, TxsAfterLaneRemove
    <2>3. CASE ~(maxTx < 0)
      <3>1. tx.signed /\ indexed.index = Index(cm.index, tx)
        BY <1>2, <2>3, SMTT(30) DEF InsertError, Insert
      <3>2. ScoreKey(tx) \in DOMAIN indexed.index.scores /\ PoolOK(indexed.index)
        BY <3>1, InsertOK DEF Index, SkipSet, LaneOK
      <3>3. LaneRemove(indexed, tx).index = Unindex(indexed.index, tx)
        BY <3>1, <3>2 DEF LaneRemove, Remove, RemoveError
      <3> QED BY <2>1, <3>2, <3>3, TxsAfterUnindex
    <2> QED BY <2>2, <2>3
  <1> QED BY <1>1, <1>2

\* The lanes as a set: recursion over data needs one.
Partial(S, T) == UNION {[D -> T] : D \in SUBSET S}
PoolSet ==
    [priorityIndex: Partial(Key, Txs), priorityCounts: [Priorities -> Int],
     senderIndices: Partial(Senders, Partial(Nonces, [priority: Priorities, tx: Txs])),
     scores: Partial(Senders \X Nonces, Score)]
LaneSet == {cm \in [index: PoolSet, txCache: SUBSET Txs] : LaneOK(cm)}

LEMMA IsPartial ==
    ASSUME NEW S, NEW T, NEW f, DOMAIN f \subseteq S, f \in [DOMAIN f -> T]
    PROVE  f \in Partial(S, T)
  BY DEF Partial

LEMMA LaneInSet ==
    ASSUME NEW cm, LaneOK(cm)
    PROVE  cm \in LaneSet
  <1> DEFINE mp == cm.index
             E == [priority: Priorities, tx: Txs]
  <1>1. PoolType(mp)
    BY DEF LaneOK, PoolOK
  <1>2. mp.priorityIndex \in Partial(Key, Txs)
    BY <1>1, IsPartial DEF PoolType
  <1>3. mp.scores \in Partial(Senders \X Nonces, Score)
    BY <1>1, IsPartial DEF PoolType
  <1>4. mp.senderIndices \in Partial(Senders, Partial(Nonces, E))
    <2>1. \A s \in DOMAIN mp.senderIndices : mp.senderIndices[s] \in Partial(Nonces, E)
      <3> HIDE DEF E
      <3> QED BY <1>1, IsPartial DEF PoolType, E
    <2>2. mp.senderIndices = [s \in DOMAIN mp.senderIndices |-> mp.senderIndices[s]]
          /\ DOMAIN mp.senderIndices \subseteq Senders
      BY <1>1 DEF PoolType
    <2> DEFINE P == Partial(Nonces, E)
    <2>3. mp.senderIndices \in [DOMAIN mp.senderIndices -> P]
      <3> HIDE DEF P
      <3> QED BY <2>1, <2>2 DEF P
    <2> HIDE DEF P
    <2> QED BY <2>2, <2>3, IsPartial DEF P
  <1>5. mp \in PoolSet
    <2> HIDE DEF mp
    <2> QED BY <1>1, <1>2, <1>3, <1>4 DEF PoolType, PoolSet
  <1> HIDE DEF mp
  <1>6. cm \in [index: PoolSet, txCache: SUBSET Txs]
    BY <1>5 DEF LaneOK, LaneType, mp
  <1> QED BY <1>6 DEF LaneSet
=============================================================================
