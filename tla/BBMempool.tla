------------------------------ MODULE BBMempool ------------------------------
(***************************************************************************)
(* The application mempool (BBMempool, blockbuster/mempool.go): a registry *)
(* of lanes, highest priority first, each with a mempool of its own. The   *)
(* callers are BaseApp, which inserts a transaction that passed CheckTx    *)
(* and removes one that was delivered; the CheckTx handler of the auction  *)
(* lane, which inserts a bid into its lane without going through the       *)
(* registry; and PrepareLane, which selects from a lane and removes what   *)
(* it found invalid. ABCI calls are serialised, so every call is one step. *)
(***************************************************************************)
EXTENDS LaneRegistry

VARIABLE lanes    \* the mempool of every lane

vars == <<lanes>>

-----------------------------------------------------------------------------
(* Operations. *)

Init == lanes = [l \in Lanes |-> NewConstructorMempool]

\* BBMempool.Insert: every lane that matches is asked, whatever the others said.
InsertTx(tx) ==
    lanes' = [l \in Lanes |-> IF Match(l, tx) THEN LaneInsert(lanes[l], tx, MaxTxs[l])
                              ELSE lanes[l]]

\* The lanes whose error Insert reports.
InsertErrors(tx) == {l \in Lanes : Match(l, tx) /\ LaneInsertError(lanes[l], tx, MaxTxs[l]) # "none"}

\* CheckTxHandler: a bid goes straight to the auction lane.
InsertBid(tx) ==
    /\ tx \in MatchHandler[TOBLane]
    /\ lanes' = [lanes EXCEPT ![TOBLane] = LaneInsert(@, tx, MaxTxs[TOBLane])]

\* BBMempool.Remove: every lane whose cache knows the transaction.
RemoveTx(tx) ==
    lanes' = [l \in Lanes |-> IF LaneContains(lanes[l], tx) THEN LaneRemove(lanes[l], tx)
                              ELSE lanes[l]]

\* PrepareLane walks the lane's mempool (Select reorders it first) ...
SelectFrom(l) == lanes' = [lanes EXCEPT ![l] = LaneSelect(@)]

\* ... and removes transactions the walk handed out (RemoveTxsFromLane).
RemoveFromLane(l, tx) ==
    /\ tx \in TxsOf(lanes[l].index)
    /\ lanes' = [lanes EXCEPT ![l] = LaneRemove(@, tx)]

Next ==
    \/ \E tx \in Txs : InsertTx(tx) \/ InsertBid(tx) \/ RemoveTx(tx)
    \/ \E l \in Lanes : SelectFrom(l) \/ \E tx \in Txs : RemoveFromLane(l, tx)

Spec == Init /\ [][Next]_vars

\* BBMempool.Contains
Contains(tx) == \E l \in Lanes : LaneContains(lanes[l], tx)

-----------------------------------------------------------------------------
(* Properties. *)

\* Types: a well-formed pool and a set of known hashes per lane.
TypeOK ==
    /\ lanes = [l \in Lanes |-> [index |-> lanes[l].index, txCache |-> lanes[l].txCache]]
    /\ \A l \in Lanes : PoolType(lanes[l].index) /\ lanes[l].txCache \subseteq Txs

\* The indices of every lane's PriorityNonceMempool agree.
LanesConsistent ==
    \A l \in Lanes : PoolAgrees(lanes[l].index) /\ CountsRight(lanes[l].index)

\* Every pooled transaction is in its lane's cache: Contains admits to it, and
\* Remove, which asks the cache first, can take it out.
IndexCached == \A l \in Lanes : TxsOf(lanes[l].index) \subseteq lanes[l].txCache

\* A transaction is pooled in the first lane that matches it and in no other.
InFirstMatchingLane ==
    \A l \in Lanes : \A tx \in TxsOf(lanes[l].index) :
        tx \in MatchHandler[l] /\ \A j \in 1..(l - 1) : tx \notin MatchHandler[j]

\* After BaseApp removed a transaction, no lane offers it to a proposal.
RemovedIsGone ==
    [][\A tx \in Txs : RemoveTx(tx) => \A l \in Lanes : tx \notin TxsOf(lanes'[l].index)]_vars

\* An insertion the mempool refuses with an error adds the transaction nowhere.
RefusedIsOut ==
    [][\A tx \in Txs : InsertTx(tx) /\ InsertErrors(tx) # {} =>
          \A l \in Lanes : tx \in TxsOf(lanes'[l].index) => tx \in TxsOf(lanes[l].index)]_vars
=============================================================================
