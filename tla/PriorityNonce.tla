---------------------------- MODULE PriorityNonce ----------------------------
(***************************************************************************)
(* The data structure of blockbuster/priority_nonce.go: a pool of          *)
(* transactions kept in four indices that have to agree.                   *)
(*                                                                         *)
(*   priorityIndex   a skip list ordered by priority, weight, sender and   *)
(*                   nonce, highest first; here a function from the keys   *)
(*                   in the list to the transactions stored under them     *)
(*   priorityCounts  how many pooled transactions have each priority       *)
(*   senderIndices   per sender a skip list ordered by nonce, lowest first;*)
(*                   here a function from nonces to [priority, tx], the    *)
(*                   element's key and value                               *)
(*   scores          <<sender, nonce>> -> [priority, weight], from which   *)
(*                   the key in priorityIndex is rebuilt to remove it      *)
(*                                                                         *)
(* Every operation is an operator from a pool (a record of the four        *)
(* indices) to the pool it leaves, so that the lane mempools, which own    *)
(* one pool each, can use the same definitions.                            *)
(***************************************************************************)
EXTENDS Integers, FiniteSets, Sequences

CONSTANTS
    Senders,       \* sender addresses, ordered as strings: naturals here
    Nonces,        \* sequence numbers
    Priorities,    \* values of the priority type C, totally ordered by Compare
    MinValue,      \* TxPriority.MinValue
    ZeroValue,     \* Go's zero value of C: the weight of a fresh key
    Txs,           \* the transactions clients may submit
    SetKeepsKey    \* skiplist.Set on an element whose key compares equal:
                   \* TRUE: only its value is replaced; FALSE: its key as well

Tx == [sender: Senders, nonce: Nonces, priority: Priorities,
       body: Nat,            \* what else distinguishes two transactions
       signed: BOOLEAN,      \* GetSignaturesV2 yields at least one signature
       encodes: BOOLEAN]     \* the TxEncoder accepts it

ASSUME SenderAssumption   == Senders \subseteq Nat
ASSUME NonceAssumption    == Nonces \subseteq Nat
ASSUME PriorityAssumption == /\ Priorities \subseteq Int
                             /\ MinValue \in Priorities
                             /\ ZeroValue \in Priorities
                             /\ \A p \in Priorities : MinValue <= p
ASSUME TxAssumption       == Txs \subseteq Tx
ASSUME KeepAssumption     == SetKeepsKey \in BOOLEAN

-----------------------------------------------------------------------------
(* The skip lists (github.com/huandu/skiplist): sorted maps. *)

\* A list after Set(k, v) and after Remove(k).
SkipSet(list, k, v) == [x \in DOMAIN list \cup {k} |-> IF x = k THEN v ELSE list[x]]
SkipRemove(list, k) == [x \in DOMAIN list \ {k} |-> list[x]]
EmptyList == [x \in {} |-> x]

-----------------------------------------------------------------------------
(* Keys and their order. *)

Key   == [priority: Priorities, weight: Priorities, sender: Senders, nonce: Nonces]
Score == [priority: Priorities, weight: Priorities]

\* skiplistComparable: a stands before b, the greater key first, comparing
\* priority, then weight, then sender, then nonce.
Before(a, b) ==
    \/ a.priority > b.priority
    \/ /\ a.priority = b.priority
       /\ \/ a.weight > b.weight
          \/ /\ a.weight = b.weight
             /\ \/ a.sender > b.sender
                \/ a.sender = b.sender /\ a.nonce > b.nonce

\* The key under which the priority index holds sk = <<sender, nonce>> when its
\* score is sc.
KeyOf(sk, sc) ==
    [priority |-> sc.priority, weight |-> sc.weight, sender |-> sk[1], nonce |-> sk[2]]

FrontKey(keys) == CHOOSE k \in keys : \A j \in keys \ {k} : Before(k, j)
KeysAfter(mp, k) == {j \in DOMAIN mp.priorityIndex : Before(k, j)}

-----------------------------------------------------------------------------
(* Operations. *)

\* NewPriorityMempool
EmptyPool ==
    [priorityIndex  |-> EmptyList,
     priorityCounts |-> [p \in Priorities |-> 0],
     senderIndices  |-> EmptyList,
     scores         |-> EmptyList]

CountTx(mp) == Cardinality(DOMAIN mp.priorityIndex)

ScoreKey(tx) == <<tx.sender, tx.nonce>>

\* Mutant: a full pool still takes one more.
InsertErrorOffByOne(mp, tx, maxTx) ==
    CASE maxTx > 0 /\ CountTx(mp) > maxTx -> "capacity"
      [] maxTx >= 0 /\ ~(maxTx > 0 /\ CountTx(mp) > maxTx) /\ ~tx.signed -> "no signer"
      [] OTHER -> "none"

\* The error Insert returns, "none" when it returns nil. A negative MaxTx makes
\* Insert a no-op that reports success before it looks at the transaction.
InsertError(mp, tx, maxTx) ==
    CASE maxTx > 0 /\ CountTx(mp) >= maxTx -> "capacity"
      [] maxTx >= 0 /\ ~(maxTx > 0 /\ CountTx(mp) >= maxTx) /\ ~tx.signed -> "no signer"
      [] OTHER -> "none"

\* The part of Insert that changes the indices. No TxReplacement rule is
\* configured (NewConstructorMempool), so a transaction with a known sender and
\* nonce always takes the place of the old one.
Index(mp, tx) ==
    LET sk      == ScoreKey(tx)
        exists  == sk \in DOMAIN mp.scores
        oldKey  == KeyOf(sk, mp.scores[sk])
        newKey  == KeyOf(sk, [priority |-> tx.priority, weight |-> ZeroValue])
        others  == IF exists THEN SkipRemove(mp.priorityIndex, oldKey) ELSE mp.priorityIndex
        element == IF tx.sender \in DOMAIN mp.senderIndices
                   THEN mp.senderIndices[tx.sender] ELSE EmptyList
        keyPrio == IF SetKeepsKey /\ tx.nonce \in DOMAIN element
                   THEN element[tx.nonce].priority ELSE tx.priority
    IN  [priorityIndex  |-> SkipSet(others, newKey, tx),
         priorityCounts |->
            [p \in Priorities |-> mp.priorityCounts[p]
                                  + (IF p = tx.priority THEN 1 ELSE 0)
                                  - (IF exists /\ p = oldKey.priority THEN 1 ELSE 0)],
         senderIndices  |-> SkipSet(mp.senderIndices, tx.sender,
                                    SkipSet(element, tx.nonce, [priority |-> keyPrio, tx |-> tx])),
         scores         |-> SkipSet(mp.scores, sk, [priority |-> tx.priority, weight |-> ZeroValue])]

\* The part of Remove that changes the indices: it takes out whatever transaction
\* has tx's sender and nonce.
Unindex(mp, tx) ==
    LET sk  == ScoreKey(tx)
        old == mp.scores[sk]
    IN  [priorityIndex  |-> SkipRemove(mp.priorityIndex, KeyOf(sk, old)),
         priorityCounts |-> [mp.priorityCounts EXCEPT ![old.priority] = @ - 1],
         senderIndices  |-> [mp.senderIndices EXCEPT ![tx.sender] = SkipRemove(@, tx.nonce)],
         scores         |-> SkipRemove(mp.scores, sk)]

\* Mutant: a replacement does not uncount what it replaces.
InsertNotUncounting(mp, tx, maxTx) ==
    IF maxTx < 0 \/ InsertError(mp, tx, maxTx) # "none" THEN mp
    ELSE [Index(mp, tx) EXCEPT !.priorityCounts =
             [mp.priorityCounts EXCEPT ![tx.priority] = @ + 1]]

Insert(mp, tx, maxTx) ==
    IF maxTx < 0 \/ InsertError(mp, tx, maxTx) # "none" THEN mp ELSE Index(mp, tx)

RemoveError(mp, tx) ==
    CASE ~tx.signed -> "no signer"
      [] tx.signed /\ ScoreKey(tx) \notin DOMAIN mp.scores -> "not found"
      [] OTHER -> "none"

\* Mutant: the score outlives its transaction.
RemoveKeepingScore(mp, tx) ==
    IF RemoveError(mp, tx) # "none" THEN mp
    ELSE [Unindex(mp, tx) EXCEPT !.scores = mp.scores]

Remove(mp, tx) == IF RemoveError(mp, tx) # "none" THEN mp ELSE Unindex(mp, tx)

-----------------------------------------------------------------------------
(* Selection. *)

\* senderWeight: the loop assigns weight the priority of every element from k's
\* on that differs from the weight so far, so that after each round weight is
\* the priority of the element just visited; it ends on the last one.
SenderWeight(mp, k) ==
    LET list == mp.senderIndices[k.sender]
    IN  IF k.nonce \notin DOMAIN list THEN MinValue
        ELSE list[CHOOSE n \in DOMAIN list : \A m \in DOMAIN list : n >= m].priority

\* The pool counts more than one transaction with k's priority.
Tied(mp, k) == mp.priorityCounts[k.priority] > 1

\* The key reorderPriorityTies files k's transaction under.
Reweigh(mp, k) ==
    IF Tied(mp, k)
    THEN [k EXCEPT !.weight = SenderWeight(mp, k)] ELSE k

\* The key of the priority index that names a sender and a nonce.
KeyAt(mp, s, n) == CHOOSE k \in DOMAIN mp.priorityIndex : k.sender = s /\ k.nonce = n

\* reorderPriorityTies: every key that shares its priority is taken out and put
\* back with its weight recomputed, and the score of its transaction follows.
ReorderPriorityTies(mp) ==
    LET keys == DOMAIN mp.priorityIndex
    IN  [priorityIndex  |-> [j \in {Reweigh(mp, k) : k \in keys} |->
                                mp.priorityIndex[KeyAt(mp, j.sender, j.nonce)]],
         priorityCounts |-> mp.priorityCounts,
         senderIndices  |-> mp.senderIndices,
         scores         |-> [sk \in DOMAIN mp.scores |->
                                LET k == KeyAt(mp, sk[1], sk[2])
                                IN  IF k \in keys /\ Tied(mp, k)
                                    THEN [priority |-> k.priority, weight |-> SenderWeight(mp, k)]
                                    ELSE mp.scores[sk]]]

\* An iterator: where it is in its code (at), the node of the priority index it
\* stands on (None before the first), per sender the nonce last handed out, and
\* the transactions handed out so far. "Tx" is control back in the caller.
None == [none |-> TRUE]

\* Mutant: the walk starts before it has a node.
IteratorWithoutNode == [at |-> "Next", node |-> None, cursors |-> EmptyList, out |-> <<>>]

NewIterator == [at |-> "iteratePriority", node |-> None, cursors |-> EmptyList, out |-> <<>>]

NoIterator == [at |-> "end", node |-> None, cursors |-> EmptyList, out |-> <<>>]

\* What Select returns: nil for an empty pool.
SelectIterator(mp) == IF CountTx(mp) = 0 THEN NoIterator ELSE NewIterator

\* What Select leaves behind: it reorders the ties first.
SelectPool(mp) == IF CountTx(mp) = 0 THEN mp ELSE ReorderPriorityTies(mp)

\* Mutant: the iterator stays on its node.
IteratePriorityStuck(mp, it) ==
    LET rest == IF it.node = None THEN DOMAIN mp.priorityIndex
                ELSE {it.node} \cup KeysAfter(mp, it.node)
    IN  IF rest = {} THEN [it EXCEPT !.at = "end"]
        ELSE [it EXCEPT !.at = "Next", !.node = FrontKey(rest)]

\* iteratePriority: on to the next node of the priority index.
IteratePriority(mp, it) ==
    LET rest == IF it.node = None THEN DOMAIN mp.priorityIndex ELSE KeysAfter(mp, it.node)
    IN  IF rest = {} THEN [it EXCEPT !.at = "end"]
        ELSE [it EXCEPT !.at = "Next", !.node = FrontKey(rest)]

\* Mutant: a sender's list is entered at the node's own nonce.
AheadFromNode(mp, it) ==
    LET s == it.node.sender
    IN  {n \in DOMAIN mp.senderIndices[s] :
            n >= it.node.nonce /\ (s \in DOMAIN it.cursors => n > it.cursors[s])}

\* The nonces of node's sender that the iterator has yet to hand out.
Ahead(mp, it) ==
    LET s == it.node.sender
    IN  {n \in DOMAIN mp.senderIndices[s] : s \in DOMAIN it.cursors => n > it.cursors[s]}

\* Mutant: only ties are looked at.
OutrankedOnTies(mp, it, n) ==
    LET s    == it.node.sender
        rest == KeysAfter(mp, it.node)
        next == FrontKey(rest)
    IN  /\ rest # {}
        /\ mp.senderIndices[s][n].priority = next.priority
        /\ mp.scores[<<s, n>>].weight < next.weight

\* Mutant: the comparison is the wrong way round.
OutrankedReversed(mp, it, n) ==
    LET s    == it.node.sender
        p    == mp.senderIndices[s][n].priority
        rest == KeysAfter(mp, it.node)
        next == FrontKey(rest)
    IN  /\ rest # {}
        /\ \/ p > next.priority
           \/ p = next.priority /\ mp.scores[<<s, n>>].weight > next.weight

\* Sender s's element at nonce n ranks below the next node of the priority index.
Outranked(mp, it, n) ==
    LET s    == it.node.sender
        p    == mp.senderIndices[s][n].priority
        rest == KeysAfter(mp, it.node)
        next == FrontKey(rest)
    IN  /\ rest # {}
        /\ \/ p < next.priority
           \/ p = next.priority /\ mp.scores[<<s, n>>].weight < next.weight

\* Mutant: a sender without further transactions ends the walk.
IteratorNextGivingUp(mp, it) ==
    LET s     == it.node.sender
        ahead == Ahead(mp, it)
        n     == CHOOSE m \in ahead : \A o \in ahead : m <= o
    IN  IF ahead = {} THEN [it EXCEPT !.at = "end"]
        ELSE IF Outranked(mp, it, n) THEN [it EXCEPT !.at = "iteratePriority"]
        ELSE [it EXCEPT !.at = "Tx", !.cursors = SkipSet(@, s, n),
                        !.out = Append(@, mp.senderIndices[s][n].tx)]

\* Next: the sender's next transaction, unless it has none or it is outranked.
IteratorNext(mp, it) ==
    LET s     == it.node.sender
        ahead == Ahead(mp, it)
        n     == CHOOSE m \in ahead : \A o \in ahead : m <= o
    IN  IF ahead = {} \/ Outranked(mp, it, n) THEN [it EXCEPT !.at = "iteratePriority"]
        ELSE [it EXCEPT !.at = "Tx", !.cursors = SkipSet(@, s, n),
                        !.out = Append(@, mp.senderIndices[s][n].tx)]

\* The transaction an iterator stands on.
Current(it) == it.out[Len(it.out)]

\* One step of an iterator on its way to the next transaction or the end.
Advance(mp, it) ==
    CASE it.at = "iteratePriority" -> IteratePriority(mp, it)
      [] it.at = "Next"            -> IteratorNext(mp, it)
      [] OTHER                     -> it

\* Select as GetTopAuctionTx sees it: an iterator on the first transaction, or nil.
\* (CHOOSE from a singleton, so that every step of the walk is evaluated once.)
FirstOf(mp) ==
    LET steps == 2 * CountTx(mp)
        walk[i \in 0..steps] ==
            IF i = 0 THEN SelectIterator(mp)
            ELSE CHOOSE it \in {Advance(mp, prev) : prev \in {walk[i - 1]}} : TRUE
    IN  walk[steps]

-----------------------------------------------------------------------------
(* What a well-formed pool is. *)

PoolType(mp) ==
    /\ mp = [priorityIndex |-> mp.priorityIndex, priorityCounts |-> mp.priorityCounts,
             senderIndices |-> mp.senderIndices, scores |-> mp.scores]
    /\ mp.priorityIndex \in [DOMAIN mp.priorityIndex -> Txs]
    /\ DOMAIN mp.priorityIndex \subseteq Key
    /\ mp.priorityCounts \in [Priorities -> Int]
    /\ mp.senderIndices = [s \in DOMAIN mp.senderIndices |-> mp.senderIndices[s]]
    /\ DOMAIN mp.senderIndices \subseteq Senders
    /\ \A s \in DOMAIN mp.senderIndices :
          /\ mp.senderIndices[s] \in [DOMAIN mp.senderIndices[s] -> [priority: Priorities, tx: Txs]]
          /\ DOMAIN mp.senderIndices[s] \subseteq Nonces
    /\ mp.scores \in [DOMAIN mp.scores -> Score]
    /\ DOMAIN mp.scores \subseteq Senders \X Nonces
    /\ IsFiniteSet(DOMAIN mp.scores)

\* The priority index holds exactly the keys that the scores rebuild.
KeysScored(mp) ==
    DOMAIN mp.priorityIndex = {KeyOf(sk, mp.scores[sk]) : sk \in DOMAIN mp.scores}

\* The sender lists hold exactly the scored nonces.
NoncesScored(mp) ==
    \A s \in Senders, n \in Nonces :
        <<s, n>> \in DOMAIN mp.scores
           <=> s \in DOMAIN mp.senderIndices /\ n \in DOMAIN mp.senderIndices[s]

\* Both lists hold the same transaction, the priority index under the
\* transaction's own sender, nonce and priority.
TxsFiled(mp) ==
    \A k \in DOMAIN mp.priorityIndex :
        /\ mp.priorityIndex[k] = mp.senderIndices[k.sender][k.nonce].tx
        /\ mp.priorityIndex[k].sender = k.sender
        /\ mp.priorityIndex[k].nonce = k.nonce
        /\ mp.priorityIndex[k].priority = k.priority

PoolAgrees(mp) == KeysScored(mp) /\ NoncesScored(mp) /\ TxsFiled(mp)

\* The scored transactions of one priority.
AtPriority(mp, p) == {sk \in DOMAIN mp.scores : mp.scores[sk].priority = p}

\* Each count is the number of scored transactions of that priority.
CountsRight(mp) ==
    \A p \in Priorities : mp.priorityCounts[p] = Cardinality(AtPriority(mp, p))

\* The map from sender and nonce to transaction that the indices stand for.
MapOf(mp) == [sk \in DOMAIN mp.scores |-> mp.senderIndices[sk[1]][sk[2]].tx]

\* The transactions in the pool.
TxsOf(mp) == {mp.priorityIndex[k] : k \in DOMAIN mp.priorityIndex}
=============================================================================
