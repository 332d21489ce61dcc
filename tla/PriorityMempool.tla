--------------------------- MODULE PriorityMempool ---------------------------
(***************************************************************************)
(* One PriorityNonceMempool and its users: transactions are inserted and   *)
(* removed in any order, and at any moment a lane may select, that is walk *)
(* the iterator to its end or stop early (a full block). A walk happens    *)
(* inside one ABCI call, so the pool does not change under it: the lanes   *)
(* collect the transactions they reject and remove them after the walk.    *)
(***************************************************************************)
EXTENDS PriorityNonce

CONSTANT MaxTx   \* PriorityNonceMempoolConfig.MaxTx

ASSUME MaxTxAssumption == MaxTx \in Int

VARIABLES
    mp,   \* the pool
    it    \* the iterator of the last Select

vars == <<mp, it>>

Init == mp = EmptyPool /\ it = NoIterator

\* The last walk is over and forgotten.
Idle == it.at = "end"

InsertTx(tx) == Idle /\ mp' = Insert(mp, tx, MaxTx) /\ it' = NoIterator

RemoveTx(tx) == Idle /\ mp' = Remove(mp, tx) /\ it' = NoIterator

Select == Idle /\ mp' = SelectPool(mp) /\ it' = SelectIterator(mp)

\* The steps of a walk: the two halves of the iterator's code, and the caller
\* asking for more or having enough.
StepPriority == it.at = "iteratePriority" /\ it' = IteratePriority(mp, it) /\ UNCHANGED mp

StepNext == it.at = "Next" /\ it' = IteratorNext(mp, it) /\ UNCHANGED mp

CallNext == it.at = "Tx" /\ it' = [it EXCEPT !.at = "Next"] /\ UNCHANGED mp

Stop == it.at = "Tx" /\ it' = NoIterator /\ UNCHANGED mp

Next ==
    \/ \E tx \in Txs : InsertTx(tx) \/ RemoveTx(tx)
    \/ Select
    \/ StepPriority
    \/ StepNext
    \/ CallNext
    \/ Stop

\* A walk is a loop of one goroutine: it goes on while the caller asks.
Fairness == WF_vars(StepPriority) /\ WF_vars(StepNext) /\ WF_vars(CallNext \/ Stop)

Spec == Init /\ [][Next]_vars

FairSpec == Spec /\ Fairness

-----------------------------------------------------------------------------
(* Properties. *)

Pooled == TxsOf(mp)

\* The first i transactions of the walk.
HandedOut(i) == {it.out[j] : j \in 1..i}

IteratorTypeOK ==
    /\ it.at \in {"iteratePriority", "Next", "Tx", "end"}
    /\ it.node = None \/ it.node \in Key
    /\ it.at \in {"Next", "Tx"} => it.node # None
    /\ DOMAIN it.cursors \subseteq Senders
    /\ \A s \in DOMAIN it.cursors : it.cursors[s] \in Nonces
    /\ it.out \in Seq(Txs)

\* Types of the pool and of the iterator.
TypeOK == PoolType(mp) /\ IteratorTypeOK

\* The four indices agree: the priority index holds exactly the keys that the
\* scores rebuild, so that Insert and Remove find the entry they have to take
\* out; the sender lists hold exactly the scored nonces; and both lists hold
\* the same transaction, filed under its own sender, nonce and priority.
IndicesAgree == PoolAgrees(mp)

\* priorityCounts, which decides whose weight Select recomputes, counts the
\* pooled transactions of each priority.
CountsExact == CountsRight(mp)

\* A pool with a positive MaxTx never holds more transactions.
CapacityRespected == MaxTx > 0 => CountTx(mp) <= MaxTx

\* No key of a sender list is out of date with the transaction stored under it.
KeysFresh ==
    \A s \in DOMAIN mp.senderIndices : \A n \in DOMAIN mp.senderIndices[s] :
        mp.senderIndices[s][n].priority = mp.senderIndices[s][n].tx.priority

\* What a walk has handed out is, for every sender, an initial segment of that
\* sender's pooled transactions, in nonce order, each handed out once.
NonceOrder ==
    \A i \in DOMAIN it.out :
        /\ it.out[i] \in Pooled
        /\ \A j \in DOMAIN it.out :
              j < i /\ it.out[j].sender = it.out[i].sender => it.out[j].nonce < it.out[i].nonce
        /\ \A tx \in Pooled :
              tx.sender = it.out[i].sender /\ tx.nonce < it.out[i].nonce
                 => \E j \in DOMAIN it.out : j < i /\ it.out[j] = tx

\* A walk that ran to its end has handed out every pooled transaction.
WalkComplete == it.at = "end" /\ it.out # <<>> => HandedOut(Len(it.out)) = Pooled

\* The transactions of the pool that no transaction of their sender still has to
\* precede after the first i hand-outs.
Heads(i) ==
    LET left == Pooled \ HandedOut(i)
    IN  {tx \in left : \A other \in left : other.sender = tx.sender => tx.nonce <= other.nonce}

\* The walk is greedy: whatever it hands out next, no other sender's next
\* transaction has a higher priority.
PriorityGreedy ==
    \A i \in DOMAIN it.out : \A h \in Heads(i - 1) : h.priority <= it.out[i].priority

\* Select and Next hand out every transaction of a pool in which no replacement
\* has left an old key in a sender's list.
FreshWalkComplete == KeysFresh => WalkComplete

\* Such a pool is walked greedily: iteratePriority and Next never pass over a
\* sender's next transaction for one of lower priority.
FreshWalkGreedy == KeysFresh => PriorityGreedy

\* Every walk whose caller keeps asking ends.
WalkEnds == (it.at # "end") ~> (it.at = "end")

Abstract == INSTANCE TxPool WITH Capacity <- MaxTx, pool <- MapOf(mp),
                                 walking <- it.at # "end", out <- it.out

\* The four indices and the iterator's two loops implement the map with its walks:
\* insertion, replacement and removal change one entry at most, reordering ties
\* none, and every transaction Next hands out is its sender's next. A full pool refuses
\* what comes and keeps what it has, whatever the priorities: there is no eviction,
\* although the comment of MaxTx says how transactions are chosen for it.
ImplementsTxPool == Abstract!Spec
=============================================================================
