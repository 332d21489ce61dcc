-------------------------------- MODULE TxPool --------------------------------
(***************************************************************************)
(* What the lanes may expect of a PriorityNonceMempool, whatever indices   *)
(* it keeps: it is a map from a sender and a nonce to a transaction, and a *)
(* walk over it hands out, one by one, transactions of the map, those of a *)
(* sender in the order of their nonces and without a gap. In which order   *)
(* senders come, and when a walk ends, is not part of the promise.         *)
(***************************************************************************)
EXTENDS Integers, FiniteSets, Sequences

CONSTANTS Txs, Capacity

VARIABLES
    pool,      \* <<sender, nonce>> -> transaction
    walking,   \* a walk is going on
    out        \* what the last walk handed out

vars == <<pool, walking, out>>

Slot(tx) == <<tx.sender, tx.nonce>>

Init == pool = [sk \in {} |-> sk] /\ walking = FALSE /\ out = <<>>

Forget == ~walking /\ walking' = FALSE /\ out' = <<>>

\* A full pool takes nothing, not even a replacement: Insert returns an error before
\* it looks at the transaction. The comment of MaxTx speaks of transactions that are
\* evicted by priority and nonce, but the pool evicts none. One of negative capacity
\* takes nothing at all.
Insert(tx) ==
    /\ Forget
    /\ tx.signed
    /\ Capacity >= 0
    /\ Capacity > 0 => Cardinality(DOMAIN pool) < Capacity
    /\ pool' = [sk \in DOMAIN pool \cup {Slot(tx)} |-> IF sk = Slot(tx) THEN tx ELSE pool[sk]]

Remove(tx) ==
    /\ Forget
    /\ tx.signed
    /\ pool' = [sk \in DOMAIN pool \ {Slot(tx)} |-> pool[sk]]

Refuse == Forget /\ UNCHANGED pool

Start ==
    /\ ~walking
    /\ DOMAIN pool # {}
    /\ walking' = TRUE
    /\ out' = <<>>
    /\ UNCHANGED pool

\* The walk has handed out tx.
Given(tx) == \E i \in DOMAIN out : out[i] = tx

HandOut(sk) ==
    /\ walking
    /\ ~Given(pool[sk])
    /\ \A other \in DOMAIN pool : other[1] = sk[1] /\ other[2] < sk[2] => Given(pool[other])
    /\ \A i \in DOMAIN out : out[i].sender = sk[1] => out[i].nonce < sk[2]
    /\ out' = Append(out, pool[sk])
    /\ UNCHANGED <<pool, walking>>

\* A walk ends, or is given up and forgotten.
End == walking /\ walking' = FALSE /\ out' \in {out, <<>>} /\ UNCHANGED pool

Next ==
    \/ \E tx \in Txs : Insert(tx) \/ Remove(tx)
    \/ Refuse
    \/ Start
    \/ \E sk \in DOMAIN pool : HandOut(sk)
    \/ End

Spec == Init /\ [][Next]_vars
=============================================================================
