---------------------------- MODULE LaneRegistry ----------------------------
(***************************************************************************)
(* The lanes an application registers, highest priority first, and which   *)
(* transactions each of them matches (blockbuster/mempool.go NewMempool,   *)
(* blockbuster/lane_constructor.go Match).                                 *)
(***************************************************************************)
EXTENDS LaneMempool

CONSTANTS
    NumLanes,      \* the registry is lanes 1..NumLanes, lane 1 the auction lane
    MaxTxs,        \* LaneConfig.MaxTxs of every lane
    MatchHandler,  \* per lane the transactions its own match handler accepts
    Mutex          \* NewMempool's mutex argument

Lanes == 1..NumLanes
TOBLane == 1

ASSUME LanesAssumption == NumLanes \in Nat \ {0}
ASSUME MaxTxsAssumption == MaxTxs \in [Lanes -> Int]
ASSUME MatchAssumption == MatchHandler \in [Lanes -> SUBSET Txs]
ASSUME MutexAssumption == Mutex \in BOOLEAN

\* Mutant: the lane right before is left out.
IgnoreListShort(l) == IF Mutex THEN 1..(l - 2) ELSE {}

\* NewMempool: with mutex every lane ignores what the lanes before it match.
IgnoreList(l) == IF Mutex THEN 1..(l - 1) ELSE {}

\* LaneConstructor.Match: the lane's own handler, and no lane of its ignore list
\* (CheckIgnoreList, which asks their Match in turn).
Match(l, tx) ==
    LET match[i \in Lanes] == tx \in MatchHandler[i] /\ \A j \in IgnoreList(i) : ~match[j]
    IN  match[l]
=============================================================================
