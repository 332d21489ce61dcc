--------------------------- MODULE BBMempoolProofs ---------------------------
(***************************************************************************)
(* Theorems about BBMempool, for any number of lanes, any match handlers   *)
(* and capacities, with and without mutex.                                 *)
(***************************************************************************)
EXTENDS BBMempool, PriorityNonceProofs

-----------------------------------------------------------------------------
(* The registry. *)

LanesInv == lanes = [l \in Lanes |-> lanes[l]] /\ \A l \in Lanes : LaneOK(lanes[l])

LEMMA RegistryInit == Init => LanesInv
  BY NewLaneOK DEF Init, LanesInv

LEMMA RegistryStep == LanesInv /\ [Next]_vars => LanesInv'
  <1> SUFFICES ASSUME LanesInv, [Next]_vars PROVE LanesInv'
    OBVIOUS
  <1>1. ASSUME NEW tx \in Txs, InsertTx(tx) PROVE LanesInv'
    BY <1>1, LaneInsertOK, MaxTxsAssumption DEF InsertTx, LanesInv
  <1>2. ASSUME NEW tx \in Txs, InsertBid(tx) PROVE LanesInv'
    <2>1. TOBLane \in Lanes
      BY LanesAssumption DEF TOBLane, Lanes
    <2> QED BY <1>2, <2>1, LaneInsertOK, MaxTxsAssumption DEF InsertBid, LanesInv
  <1>3. ASSUME NEW tx \in Txs, RemoveTx(tx) PROVE LanesInv'
    BY <1>3, LaneRemoveOK DEF RemoveTx, LanesInv
  <1>4. ASSUME NEW l \in Lanes, SelectFrom(l) PROVE LanesInv'
    BY <1>4, LaneSelectOK DEF SelectFrom, LanesInv
  <1>5. ASSUME NEW l \in Lanes, NEW tx \in Txs, RemoveFromLane(l, tx) PROVE LanesInv'
    BY <1>5, LaneRemoveOK DEF RemoveFromLane, LanesInv
  <1>6. CASE UNCHANGED vars
    BY <1>6 DEF vars, LanesInv
  <1> QED BY <1>1, <1>2, <1>3, <1>4, <1>5, <1>6 DEF Next

\* Every lane's pool and cache keep their types.
THEOREM LanesTyped == Spec => []TypeOK
  <1>1. LanesInv => TypeOK
    BY DEF LanesInv, LaneOK, LaneType, PoolOK, TypeOK
  <1> QED BY <1>1, RegistryInit, RegistryStep, PTL DEF Spec

\* Every lane's indices agree, whichever of the callers touched them last.
THEOREM LanesAgree == Spec => []LanesConsistent
  <1>1. LanesInv => LanesConsistent
    BY DEF LanesInv, LaneOK, PoolOK, LanesConsistent
  <1> QED BY <1>1, RegistryInit, RegistryStep, PTL DEF Spec

\* A pooled transaction is always cached: Contains and Remove never miss one.
THEOREM CacheCovers == Spec => []IndexCached
  <1>1. LanesInv => IndexCached
    BY DEF LanesInv, LaneOK, Removable, IndexCached
  <1> QED BY <1>1, RegistryInit, RegistryStep, PTL DEF Spec

\* BBMempool.Remove leaves the transaction in no lane, so that no later proposal
\* offers it again.
THEOREM RemovalComplete == Spec => RemovedIsGone
  <1>1. LanesInv /\ [Next]_vars =>
          [\A tx \in Txs : RemoveTx(tx) => \A l \in Lanes : tx \notin TxsOf(lanes'[l].index)]_vars
    <2> SUFFICES ASSUME LanesInv, NEW tx \in Txs, RemoveTx(tx), NEW l \in Lanes
                 PROVE  tx \notin TxsOf(lanes'[l].index)
      OBVIOUS
    <2>1. lanes'[l] = IF LaneContains(lanes[l], tx) THEN LaneRemove(lanes[l], tx) ELSE lanes[l]
      BY DEF RemoveTx
    <2>2. LaneOK(lanes[l])
      BY DEF LanesInv
    <2>3. CASE tx \in TxsOf(lanes[l].index)
      BY <2>1, <2>2, <2>3, LaneRemoved
    <2>4. CASE tx \notin TxsOf(lanes[l].index)
      BY <2>1, <2>2, <2>4, TxsAfterLaneRemove
    <2> QED BY <2>3, <2>4
  <1> QED BY <1>1, RegistryInit, RegistryStep, PTL DEF Spec, RemovedIsGone

-----------------------------------------------------------------------------
(* Which lane pools a transaction. *)

\* With mutex a transaction that a lane matches is wanted by that lane and by no
\* lane before it.
LEMMA MatchIsFirst ==
    ASSUME Mutex, NEW tx \in Txs, NEW l \in Lanes, Match(l, tx)
    PROVE  tx \in MatchHandler[l] /\ \A j \in 1..(l - 1) : tx \notin MatchHandler[j]
  <1> DEFINE W == {i \in Lanes : tx \in MatchHandler[i]}
             Solves(m) == m = [i \in Lanes |-> tx \in MatchHandler[i] /\ \A j \in IgnoreList(i) : ~m[j]]
             match == CHOOSE m : Solves(m)
  <1>1. \A m : Solves(m) <=> FirstOnly(m, NumLanes, W)
    BY DEF FirstOnly, IgnoreList, Lanes
  <1>2. Solves(match)
    <2>1. \E m : FirstOnly(m, NumLanes, W)
      BY LanesAssumption, FirstOnlyExists
    <2> HIDE DEF Solves
    <2> QED BY <1>1, <2>1
  <1>3. match[l]
    BY DEF Match
  <1> HIDE DEF match
  <1>4. IsFirst(l, W)
    <2>1. FirstOnly(match, NumLanes, W)
      BY <1>1, <1>2
    <2> HIDE DEF W
    <2> QED BY <1>3, <2>1, LanesAssumption, FirstOnlyFacts DEF Lanes
  <1>5. \A j \in 1..(l - 1) : j \in Lanes
    BY LanesAssumption DEF Lanes
  <1> QED BY <1>4, <1>5 DEF IsFirst

\* A transaction is pooled in the first lane that wants it and in no other, if the
\* mempool was made with mutex: bids, which reach the auction lane around the
\* registry, included.
THEOREM FirstLaneOnly ==
    ASSUME Mutex
    PROVE  Spec => []InFirstMatchingLane
  <1>1. Init => InFirstMatchingLane
    BY DEF Init, InFirstMatchingLane, NewConstructorMempool, EmptyPool, EmptyList, TxsOf
  <1>2. LanesInv /\ InFirstMatchingLane /\ [Next]_vars => InFirstMatchingLane'
    <2> SUFFICES ASSUME LanesInv, InFirstMatchingLane, [Next]_vars
                 PROVE  InFirstMatchingLane'
      OBVIOUS
    <2> DEFINE First(l, tx) == tx \in MatchHandler[l] /\ \A j \in 1..(l - 1) : tx \notin MatchHandler[j]
               Grows(tx) == \A l \in Lanes : \/ TxsOf(lanes'[l].index) \subseteq TxsOf(lanes[l].index)
                                             \/ /\ First(l, tx)
                                                /\ TxsOf(lanes'[l].index) \subseteq TxsOf(lanes[l].index) \cup {tx}
    <2>1. ASSUME NEW tx, Grows(tx) PROVE InFirstMatchingLane'
      BY <2>1 DEF InFirstMatchingLane
    <2>2. ASSUME NEW tx \in Txs, InsertTx(tx) PROVE Grows(tx)
      <3> SUFFICES ASSUME NEW l \in Lanes
                   PROVE  \/ TxsOf(lanes'[l].index) \subseteq TxsOf(lanes[l].index)
                          \/ /\ First(l, tx)
                             /\ TxsOf(lanes'[l].index) \subseteq TxsOf(lanes[l].index) \cup {tx}
        OBVIOUS
      <3>1. lanes'[l] = IF Match(l, tx) THEN LaneInsert(lanes[l], tx, MaxTxs[l]) ELSE lanes[l]
        BY <2>2 DEF InsertTx
      <3>2. LaneOK(lanes[l]) /\ MaxTxs[l] \in Int
        BY MaxTxsAssumption DEF LanesInv
      <3>3. CASE Match(l, tx)
        BY <3>1, <3>2, <3>3, MatchIsFirst, TxsAfterLaneInsert
      <3>4. CASE ~Match(l, tx)
        BY <3>1, <3>4
      <3> QED BY <3>3, <3>4
    <2>3. ASSUME NEW tx \in Txs, InsertBid(tx) PROVE Grows(tx)
      <3>1. TOBLane \in Lanes /\ First(TOBLane, tx)
        BY <2>3, LanesAssumption DEF TOBLane, Lanes, InsertBid
      <3>2. LaneOK(lanes[TOBLane]) /\ MaxTxs[TOBLane] \in Int
        BY <3>1, MaxTxsAssumption DEF LanesInv
      <3>3. lanes'[TOBLane] = LaneInsert(lanes[TOBLane], tx, MaxTxs[TOBLane])
            /\ \A l \in Lanes \ {TOBLane} : lanes'[l] = lanes[l]
        BY <2>3, <3>1 DEF InsertBid, LanesInv
      <3> QED BY <3>1, <3>2, <3>3, TxsAfterLaneInsert
    <2>4. ASSUME NEW tx \in Txs, RemoveTx(tx) PROVE Grows(tx)
      BY <2>4, TxsAfterLaneRemove DEF RemoveTx, LanesInv
    <2>5. ASSUME NEW l \in Lanes, SelectFrom(l) PROVE Grows(l)
      BY <2>5, TxsAfterLaneSelect DEF SelectFrom, LanesInv
    <2>6. ASSUME NEW l \in Lanes, NEW tx \in Txs, RemoveFromLane(l, tx) PROVE Grows(tx)
      BY <2>6, TxsAfterLaneRemove DEF RemoveFromLane, LanesInv
    <2>7. CASE UNCHANGED vars
      BY <2>7 DEF vars, InFirstMatchingLane
    <2> HIDE DEF Grows
    <2> QED BY <2>1, <2>2, <2>3, <2>4, <2>5, <2>6, <2>7 DEF Next
  <1> QED BY <1>1, <1>2, RegistryInit, RegistryStep, PTL DEF Spec

\* An insertion that returns an error has added the transaction to no lane: with
\* mutex only one lane was asked, and that one refused.
THEOREM RefusalComplete ==
    ASSUME Mutex
    PROVE  Spec => RefusedIsOut
  <1>1. LanesInv /\ [Next]_vars =>
          [\A tx \in Txs : InsertTx(tx) /\ InsertErrors(tx) # {} =>
              \A l \in Lanes : tx \in TxsOf(lanes'[l].index) => tx \in TxsOf(lanes[l].index)]_vars
    <2> SUFFICES ASSUME LanesInv, NEW tx \in Txs, InsertTx(tx), InsertErrors(tx) # {},
                        NEW l \in Lanes, tx \in TxsOf(lanes'[l].index)
                 PROVE  tx \in TxsOf(lanes[l].index)
      OBVIOUS
    <2>1. lanes'[l] = IF Match(l, tx) THEN LaneInsert(lanes[l], tx, MaxTxs[l]) ELSE lanes[l]
      BY DEF InsertTx
    <2>2. LaneOK(lanes[l]) /\ MaxTxs[l] \in Int
      BY MaxTxsAssumption DEF LanesInv
    <2>3. PICK k \in Lanes : Match(k, tx) /\ LaneInsertError(lanes[k], tx, MaxTxs[k]) # "none"
      BY DEF InsertErrors
    <2>4. CASE Match(l, tx)
      <3>1. /\ tx \in MatchHandler[l] /\ \A j \in 1..(l - 1) : tx \notin MatchHandler[j]
            /\ tx \in MatchHandler[k] /\ \A j \in 1..(k - 1) : tx \notin MatchHandler[j]
        BY <2>3, <2>4, MatchIsFirst
      <3>2. k = l
        <4>1. k \in 1..(l - 1) \/ l \in 1..(k - 1) \/ k = l
          BY LanesAssumption DEF Lanes
        <4> QED BY <3>1, <4>1
      <3> QED BY <2>1, <2>2, <2>3, <2>4, <3>2, LaneRefuses
    <2>5. CASE ~Match(l, tx)
      BY <2>1, <2>5
    <2> QED BY <2>4, <2>5
  <1> QED BY <1>1, RegistryInit, RegistryStep, PTL DEF Spec, RefusedIsOut
=============================================================================
