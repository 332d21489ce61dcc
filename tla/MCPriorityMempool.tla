-------------------------- MODULE MCPriorityMempool --------------------------
(***************************************************************************)
(* Two senders, with three and two nonces, and three priorities, the      *)
(* lowest being the minimum (a transaction without fee): most nonces may   *)
(* carry any priority, so that replacements, ties and a sender whose      *)
(* later transaction pays more than its earlier one all occur.            *)
(***************************************************************************)
EXTENDS PriorityMempool

MkTxs(sender, nonces, priorities, signed) ==
    [sender: {sender}, nonce: nonces, priority: priorities, body: {0},
     signed: {signed}, encodes: {TRUE}]

MCTxs == MkTxs(1, {1, 2}, Priorities, TRUE) \cup MkTxs(1, {3}, {1, 2}, TRUE)
         \cup MkTxs(2, {1, 2}, {1, 2}, TRUE) \cup MkTxs(1, {1}, {0}, FALSE)
=============================================================================
