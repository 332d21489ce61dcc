----------------------------- MODULE LaneMempool -----------------------------
(***************************************************************************)
(* The mempool of one lane (ConstructorMempool, blockbuster/lane_mempool.go)*)
(* as operators on a record: a PriorityNonceMempool (index) and the set of *)
(* the hashes of the transactions it holds (txCache). Hashes do not        *)
(* collide, so a transaction stands for its hash.                          *)
(***************************************************************************)
EXTENDS PriorityNonce

NewConstructorMempool == [index |-> EmptyPool, txCache |-> {}]

\* Mutant: only the hash is forgotten.
LaneRemoveHashOnly(cm, tx) ==
    IF RemoveError(cm.index, tx) = "no signer" THEN cm
    ELSE [index   |-> cm.index,
          txCache |-> IF tx.encodes THEN cm.txCache \ {tx} ELSE cm.txCache]

\* Remove gives up on a transaction without signatures, ignores one the index
\* does not know, and can only forget the hash of one it can encode.
LaneRemove(cm, tx) ==
    IF RemoveError(cm.index, tx) = "no signer" THEN cm
    ELSE [index   |-> Remove(cm.index, tx),
          txCache |-> IF tx.encodes THEN cm.txCache \ {tx} ELSE cm.txCache]

LaneInsertError(cm, tx, maxTx) ==
    IF InsertError(cm.index, tx, maxTx) # "none" THEN InsertError(cm.index, tx, maxTx)
    ELSE IF ~tx.encodes THEN "encoding" ELSE "none"

\* Mutants: only the hash of a new sender and nonce is cached; what cannot be
\* encoded stays indexed; the hash is taken of the unsigned transaction.
LaneInsertCachingNew(cm, tx, maxTx) ==
    LET indexed == [index |-> Insert(cm.index, tx, maxTx), txCache |-> cm.txCache]
    IN  IF InsertError(cm.index, tx, maxTx) # "none" THEN cm
        ELSE IF ~tx.encodes THEN LaneRemove(indexed, tx)
        ELSE IF ScoreKey(tx) \in DOMAIN cm.index.scores THEN indexed
        ELSE [indexed EXCEPT !.txCache = @ \cup {tx}]

LaneInsertKeeping(cm, tx, maxTx) ==
    LET indexed == [index |-> Insert(cm.index, tx, maxTx), txCache |-> cm.txCache]
    IN  IF InsertError(cm.index, tx, maxTx) # "none" THEN cm
        ELSE IF ~tx.encodes THEN indexed
        ELSE [indexed EXCEPT !.txCache = @ \cup {tx}]

LaneInsertHashingUnsigned(cm, tx, maxTx) ==
    LET indexed == [index |-> Insert(cm.index, tx, maxTx), txCache |-> cm.txCache]
    IN  IF InsertError(cm.index, tx, maxTx) # "none" THEN cm
        ELSE IF ~tx.encodes THEN LaneRemove(indexed, tx)
        ELSE [indexed EXCEPT !.txCache = @ \cup {[tx EXCEPT !.signed = FALSE]}]

\* Insert indexes the transaction first and hashes it afterwards: one it cannot
\* encode is taken out again.
LaneInsert(cm, tx, maxTx) ==
    LET indexed == [index |-> Insert(cm.index, tx, maxTx), txCache |-> cm.txCache]
    IN  IF InsertError(cm.index, tx, maxTx) # "none" THEN cm
        ELSE IF ~tx.encodes THEN LaneRemove(indexed, tx)
        ELSE [indexed EXCEPT !.txCache = @ \cup {tx}]

LaneSelect(cm) == [cm EXCEPT !.index = SelectPool(@)]

\* Contains asks the cache, not the index.
LaneContains(cm, tx) == tx.encodes /\ tx \in cm.txCache
=============================================================================
