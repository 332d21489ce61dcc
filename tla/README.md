# A TLA+ verification of pob

pob (Protocol-Owned Builder) gives a Cosmos SDK chain a blockspace auction. Its
core is `blockbuster`, an application mempool divided into *lanes* that also
builds and checks block proposals lane by lane, and `x/builder`, the module that
holds the rules of the auction. This directory models that core, checks the
models on small instances with TLC, and proves its safety properties for all
instances with TLAPS: of the pools and their walks, the lanes, the proposals and the
auction held in them, the intake of bids, front-running protection and payments, and of
the two generated protobuf codecs through which every message passes.

## Inventory

| Part | Source | State | Operations | What makes it correct |
|---|---|---|---|---|
| priority-nonce pool | `blockbuster/priority_nonce.go` | four indices: a priority skip list, counts per priority, a nonce skip list per sender, scores | `Insert`, `Remove`, `Select`, iterator | the indices agree; a walk respects nonces, prefers priority, is complete and ends |
| lane mempool | `blockbuster/lane_mempool.go` | a pool and a cache of hashes | `Insert`, `Remove`, `Select`, `Contains` | the cache knows all that is pooled; a failed insertion leaves nothing behind |
| mempool, registry | `blockbuster/mempool.go`, `lane_constructor.go` | the lanes in order, their ignore lists | `Insert`, `Remove`, `Contains`, `Match` | one lane per transaction; a removed transaction is gone |
| proposal | `blockbuster/proposals.go`, `utils/utils.go` | transactions, hashes, bytes used, limit | `UpdateProposal`, `Contains` | totals exact, no duplicate, never over the limit |
| lane handlers | `blockbuster/lane_abci.go`, `lane_handlers.go` | the lane's context while it prepares | `PrepareLane`, `ProcessLane`, `CheckOrder` | what is selected is valid in order; what is rejected is invalid |
| auction lane | `blockbuster/lanes/auction/` | as any lane | prepare, process, order handlers, `GetTopAuctionTx` | the highest valid bid wins and comes first, with its whole bundle |
| CheckTx handler | `blockbuster/lanes/auction/check_tx.go` | none (reads committed state) | `CheckTx`, `ValidateBidTx` | only bids that would be valid now are pooled |
| ABCI handler | `blockbuster/abci/abci.go` | the chain of lanes | `PrepareProposal`, `ProcessProposal` | a failing lane is skipped cleanly; exactly the well-formed proposals are accepted; every call ends |
| ante handlers | `x/builder/ante`, `blockbuster/utils/ante.go`, `tests/app/ante.go` | accounts | `AnteHandle` | bids obey timeout, reserve fee, increment, balance, bundle rule |
| auction rules | `x/builder/keeper/auction.go` | parameters | `ValidateBidInfo`, `ValidateAuctionBid`, `ValidateAuctionBundle` | no bundle front-runs |
| messages, params, rewards | `x/builder/keeper/msg_server.go`, `keeper.go`, `types/`, `rewards/` | parameters, balances | `AuctionBid`, `UpdateParams`, genesis | shares add up; parameters stay valid |
| codec of the node | `x/builder/types/*.pb.go` | a position in the bytes, per nested message | `Marshal`, `Size`, `Unmarshal`, `skip` | no read out of range, sizes exact, messages survive |
| codec of clients | `api/pob/**/*.pulsar.go` | the same, and unknown fields | size, marshal, unmarshal methods | understands what the node understands |
| queries, CLI, test app | `x/builder/client`, `tests/` | none of their own | | |

Interactions: CometBFT calls the application through ABCI one call at a time.
`CheckTx` runs the ante handler and inserts; `PrepareProposal` calls the lanes in
registry order, each passing proposal and context to the next, each free to fail
or panic; `ProcessProposal` hands each lane the transactions the lanes before it
left over; executing a block removes its transactions from the mempool and
changes the accounts that all later checks read.

What is hard here is listed under `hazards` in `PROJECT.json`, at the line where
it bites. Most of it is state that several operations must keep in step over long
sequences of calls (indices, cache, counts), lanes that fail half-way, and two
pieces of code that must share a notion of order (preparing and checking). Bids
outlive the state they were checked against: CometBFT's mempool and the lane each
keep a copy, and a recheck after every block is all that brings them together. The
codecs take lengths, field numbers and nesting from the network.
Nothing is persisted by this code, so crash recovery does not arise: after a
restart the mempool is empty, which is the initial state.

## Modules

| Module | Models | Role |
|---|---|---|
| `PriorityNonce` | `priority_nonce.go` | the pool as operators on a record of the four indices; the iterator as a record with a program counter |
| `PriorityMempool` | the same, in use | state machine: insertions, removals, walks |
| `LaneMempool` | `lane_mempool.go` | operators on `[index, txCache]` |
| `LaneRegistry` | `mempool.go` NewMempool, `Match` | the lanes and what they match |
| `BBMempool` | `mempool.go` | state machine of the registry and its callers |
| `AuctionBundle` | `ValidateAuctionBundle` | the bundle rule as operators |
| `BundleCheck` | the same, as the loop it is, next to the rule its comment states | state machine: one transaction per step |
| `Ante` | the ante handler chain | operators on accounts |
| `Proposal` | `proposals.go`, the checking handlers | operators on a proposal |
| `ProposalHandler` | `abci.go`, preparing handlers, `check_tx.go`, block execution | state machine of a node |
| `Builder` | `msg_server.go`, `keeper.go`, `types/`, `rewards/` | state machine of `x/builder`'s messages and parameters |
| `TxPool` | | abstract specification: what a pool promises, a map with nonce-ordered walks |
| `BidIntake` | `check_tx.go` with rechecks, `ante.go`, `ValidateAuctionBid` under changing parameters | state machine of the auction lane while the chain moves on |
| `Wire` | the pieces both codecs are made of | operators on byte strings: varints, tags, lengths, skipping |
| `GogoCodec` | `x/builder/types/*.pb.go` | `Marshal`, `Size` and the cases of `Unmarshal` for eight messages |
| `PulsarCodec` | `api/pob/**/*.pulsar.go` | the same for eleven |
| `Codec` | the decoding loops of both | state machine: decode, a field a step, and encode again |
| `MCPriorityMempool`, `MCBBMempool`, `MCProposalHandler`, `MCBuilder`, `MCBidIntake`, `MCCodec` | | instances for TLC |
| `SetInduction`, `PriorityNonceProofs` | | lemmas: induction and recursion over numbers and finite sets; the operations of a pool |
| `PriorityMempoolProofs`, `BBMempoolProofs`, `ProposalHandlerProofs`, `BidIntakeProofs`, `BuilderProofs` (with the bundle rule), `CodecProofs` | | theorems |

`PriorityNonce` is extended by `LaneMempool`, that by `LaneRegistry`, that by
`BBMempool` on one side and `Ante`, `Proposal`, `ProposalHandler` on the other, so
every level uses the same definition of the one below. `Builder` stands by itself: it
details what `ProposalHandler` models as one payment, with parameters as state.
`BidIntake` extends `LaneMempool` and details what `ProposalHandler` keeps fixed: the
parameters, the denominations, CometBFT's mempool. `Codec` instantiates the two codecs,
which extend `Wire`. Definitions whose name ends
in a defect and whose comment starts with "Mutant" are variants of the definition
after them with a plausible bug; `PROJECT.json` says which property catches each.

### State and actions

**PriorityNonce / PriorityMempool.** A skip list is a function from keys to
values. `priorityIndex` maps `[priority, weight, sender, nonce]` to transactions
and `Before` is its order; `senderIndices[s]` maps nonces to the element's key
priority and value, which differ after a replacement, see below. `Insert` is
`InsertError` (capacity, signatures) and `Index`; `Remove` is `RemoveError` and
`Unindex`; `Select` is `SelectPool` (`reorderPriorityTies`) and an iterator. The
mutual recursion of `iteratePriority` and `Next` becomes the steps `StepPriority`
and `StepNext`; at `"Tx"` control is with the caller, who asks again (`CallNext`)
or has enough (`Stop`). A walk happens within one ABCI call and lanes remove what
they reject only after it, so the pool does not change under an iterator. A
transaction is its sender and nonce (of the first signature), its priority, and
whether it is signed and encodes.

`SetKeepsKey` says what `skiplist.Set` does to an element with an equal key. The
library (`github.com/huandu/skiplist`) replaces only the value, `TRUE`; all
configurations use that. The comment at `priority_nonce.go:258` expects the key
to be overwritten, `FALSE`; the proofs cover both.

**TxPool.** What the lanes may rely on, without skip lists, counts, scores or weights:
a map from sender and nonce to a transaction that refuses an insertion when full, and
walks that hand out a sender's transactions in nonce order and without gaps.
`PriorityMempool` implements it with `pool <- MapOf(mp)`, the map the sender lists
make up, `walking` true while the iterator is not at its end, and `out` what it has
handed out; a step of the iterator between two transactions is a stutter.

**LaneMempool / LaneRegistry / BBMempool.** A transaction stands for its hash.
`LaneInsert` indexes, then hashes, and undoes the first if the second fails.
`InsertTx` asks every matching lane; `InsertBid` is the CheckTx handler's direct
insertion into the auction lane; `RemoveTx` asks the cache of every lane;
`SelectFrom` and `RemoveFromLane` are what `PrepareLane` does to a lane.

**AuctionBundle / BundleCheck.** `scan` is the loop state of
`ValidateAuctionBundle`; every transaction is the set of its signers.

**Ante.** Accounts have a sequence number and a balance. A decorator passes or
fails, and on failure what was written before stays in the store, as in the SDK;
whether that matters depends on who cached the store. One denomination; a bid's
priority is its amount and any other transaction's its fee, as the two `TxPriority`
definitions have it. A bundled transaction may be any transaction.

**Proposal / ProposalHandler.** `prop` is the proposal; `prep` is where
`ChainPrepareLanes` is: the lane, the context it was given, its cached context, the
iterator, what it selected and rejected. `Walk` moves the iterator;
`RejectTx`, `SkipTx`, `LaneFull`, `SelectTx` are the outcomes of one round of
`DefaultPrepareLaneHandler`, `SkipBid`, `RejectBid`, `SelectBid` those of the
auction lane's; `FinishLane` is the rest of `PrepareLane` (removals, then
`UpdateProposal`, then the next lane, with the lane's context if the update
succeeded) and `LanePanics` the recover. `proc` is where `ChainProcessLanes` is;
`ProcessLaneStep` is a lane's order check and verification. A proposal is this
node's own (`Propose`) or any sequence of transactions (`ReceiveProposal`).
`Commit` executes an accepted block and removes its transactions; `NextRound` drops
it. `RecheckTx` is the recheck of a transaction that is no bid, which moves the check state
and nothing else; the rechecks of bids are `BidIntake`'s. Bundled transactions are bytes and so always encode, and a
lane's pool holds only signed transactions that encode, so the error paths of
`RemoveTxsFromLane` and of the bundle's re-encoding cannot be taken. Vote
extensions are always empty.

**Builder.** `params` is what `SetParams` stored, `bal` the bank's balances per
denomination, `rewards` the address the provider would return (`NoAddress`: its
error); with the fixed provider it never changes, with the proposer's it changes with
every block (`NewBlock`). `AuctionBid` is the whole handler: bundle size, share of the
proposer, two transfers; a handler that fails or panics is undone by the SDK and so is
no step. A fee is a fraction of `One`; multiplying an integer bid by it is exact at
the code's 18 decimals, so the only truncation that loses anything is the one to whole
coins, `\div`. The zero-fee branch is the general one with an empty first transfer.
Genesis may store invalid parameters, because `InitGenesis` does not validate; an
update has passed `ValidateBasic`. `Locked` are the coins of a vesting account, which
`GetBalance` counts and `SendCoins` does not release.

**BidIntake.** `lane` is the auction lane's mempool, `comet` the bids CometBFT holds and
`recheck` the one it is about to recheck; `held` are the transactions in the other lanes,
which bundles are made of; `params`, `acct` and `height` are committed
state; `winner` is the bid in this node's proposal. `CheckTx` and `RecheckTx` are the
CheckTx handler (`CheckBid`): the signature's sequence, for a recheck whether the lane's
cache knows the bid, the timeout as a signed number, the bid against parameters, top bid
and funds, then the bundle (`BundleOK`), whose transactions must come in sequence after the
bid and, on a recheck, must each be in some lane's mempool; then insertion, also of a
rechecked bid. `AdmitPlain` and `DropPlain` bring the other transactions to their lanes and
out of them, by a proposal that rejects them. `Prepare` is the auction lane's
`PrepareLane`: the first bid in the iterator's order that fits and is valid with its bundle
wins, those before it that fit and fail are removed. A block commits the winner or another
node's bid, with its bundle (`BlockWithBid`), a plain transaction, somebody's spending or
receiving, or an update of the parameters; it takes what
it executed out of both mempools and starts the rechecks. CometBFT's part is external
and modelled from the calls it makes.

**Wire / GogoCodec / PulsarCodec / Codec.** Every generated `Unmarshal` is the same loop
with another switch, so a message is a table of its cases (`UnmarshalParams` and the
like: field number, wire type, how the value is taken) and the loop is written once. A
decoder is a stack of frames, one per embedded message; one round of a loop is one step
(`ReadField`, `EnterMessage`, `SkipField`, `Fail`), and `LeaveMessage` is the return. A
map entry is read within the bytes of the message around it, as in the code, where its
loop checks neither wire types nor the end of the entry. The two codecs differ where
the code does: gogo always writes embedded messages and drops unknown fields, pulsar
has nil messages and keeps unknown fields unless told to discard them, and writes a map
in any order. `Marshal` fills its buffer from the end, which writes the fields in
ascending order. Numbers are the decimal texts that `cosmossdk.io/math` reads and
writes (external), as is the SDK's `Coin`.

## Runs

| Run | Question | Size |
|---|---|---|
| `PriorityKeptKeys` | Do the indices, counts and capacity hold, and do walks respect nonces and end, whatever is inserted, replaced and removed? Is a walk complete and greedy while no replacement changed a priority? Does the pool implement `TxPool`? | 627,032 states |
| `Lanes` | Do insertion, refusal, replacement and removal keep each lane's pool and cache in step and each transaction in its first matching lane? | 4,200 |
| `Proposals` | Are prepared proposals consistent and valid whatever lanes fail? When does a node reject its own? Who wins the auction? Are exactly the valid, well laid out proposals of other nodes accepted? Is every proposal decided? | 398,140 |
| `Builder` | Does every coin of a bid go where it belongs, and can a bid the ante handler lets through be paid, under parameters and proposers that change? Which bundles does the loop accept, and can one front-run? | 34,633 |
| `Codec` | Can bytes from the network lead a decoder out of its input or into a loop? Do the codecs understand the same, and does a message survive them? | 367,485 |
| `BidIntake` | Do bids stay comparable, timely and in step with CometBFT's mempool while state, parameters and height change under them? Does a round of rechecks put the lane in order, whatever bundled transactions the other lanes hold? Does a dead top bid go away? | 189,960 |
| `OwnRejected`, `RaisedBid`, `AuctionBlanked`, `ValidRejected`, `BundleRefused`, `RemainderStays` | Violations: see the next section | |

*Bounds.* `PriorityKeptKeys`: two senders, three and two nonces, three priorities
and room for four: replacement up and down, ties within and across senders, a
sender whose later transaction pays more, a full pool, an unsigned transaction.
`Lanes`: nine transactions in three lanes, the middle one capped, with replacement
within a lane, a sender and nonce used in two lanes, and a transaction that does
not encode in the place of one that does. `Proposals`: three accounts, six submitted transactions (a paying
pair with rising fee, a free one, a bid, its raise, a rival with a bundle of two),
three block sizes (too small, just enough for the smaller bundle, ample), the
auction lane limited to half of the block, two heights so that one bid expires.
Other nodes propose all sequences of up to four of nine transactions, bytes that do
not decode and a bid among other messages included, at both heights so that the accounts
have moved on. They are received while nothing is pooled (`MCNext`): the verdict on
another node's proposal depends on the committed state and not on the mempool, and the
node's own proposals are checked with the mempool they came from. `Builder`: three accounts, each
of which may bid while being proposer, escrow account, both or neither, one with
locked coins; fees in quarters from below zero to above one, so that both truncations
lose something; two denominations. The coins are conserved, which bounds the state. Bundles are of up to
four transactions by the same three accounts: bidder, victim and a third party, with a
change of hands and a change back. Payments and the check of a bundle share no state, so a
behaviour of this run has either the one or the other (`MCSpec`).
`Codec`: words of 16 bits, so that three bytes overflow a varint, a two-byte length is
negative and field numbers alias at 2^8 (`WordSize`; 64, ten bytes and 2^32 in the code);
up to three fields in a row, of every kind a message has, in any order and
repeated, with empty and absent values, and unknown, nested, cut-off and overflowing
ones; each message is encoded again twice (`MaxHops`), so that it passes from either codec to either.
`BidIntake`: two bidders, eight bids: three with one sequence number, rivals in between,
one in the other denomination, one after it, one whose timeout is negative as a signed
number and one too large for the lane; three plain transactions, a bidder's own next one
and the other bidder's, alone and together in bundles; timeouts below 8 (`TimeoutRange`, 2^64 in the
code); three blocks, enough to expire, spend, and change the denomination and back.
`MaxHeight`, `MaxBalance`, `MaxForeign` and `MaxHops`
are the only artificial bounds.

*Deadlock* is checked except in `Builder` and `BundleRefused`, where the loop over a bundle
ends; payments cannot stop, since a new block is always possible.

*Fairness.* `PriorityMempool` assumes weak fairness of the iterator's two steps and
of the caller doing something with what it is handed: one goroutine runs the walk.
`ProposalHandler` assumes weak fairness of the steps of a call that has begun and
of nothing else: no panic, no transaction, no block has to happen. `BidIntake` assumes
that CometBFT finishes the recheck it has begun (it blocks the mempool until then), that
a round ends, and that this node proposes again as long as it may (proposers take
turns); no block is assumed. `TopRevives` needs the last: on a node that never proposes
nothing removes a dead top bid.

## Where code and documentation disagree

- `OwnRejected`: preparing follows nonces, checking wants fees that never rise
  (`lane_handlers.go:137`), so a sender whose second transaction pays more makes the
  node build a block it rejects. `OwnRejectedForFees` shows this is the only cause.
- `RaisedBid`: a raised bid keeps its old key in the sender's list
  (`priority_nonce.go:260`), counts as outranked, and loses to a lower rival.
  `HighestFreshBidWins` shows that without a replacement the highest bid wins.
- `AuctionBlanked`: only the bid's own size is checked before it is selected
  (`lanes/auction/abci.go:52`); a bundle that does not fit fails the lane.
- `ValidRejected`: a failing transaction's fee stays deducted in the lane's context
  (`lane_handlers.go:74`), and a later valid transaction is thrown out.
- `BundleRefused`: the comment of `ValidateAuctionBundle` (`auction.go:97-100`) allows a
  bundle signed by {bidder, v}, {v}, {bidder}: v signed a first part and the bidder the
  rest. The code refuses it, because `seenBidder` is set when the bidder is among the
  first signers (`auction.go:114`). `VerdictRight` says exactly what is accepted: the
  comment's rule, less this case; `NotFrontRun` that what is accepted does no harm.
- `RemainderStays`: `msg_server.go:70` says of a decimal remainder that "it'll stay with the
  bidding account". The only truncation that cuts anything off is that of the proposer's
  share; the escrow account gets the bid less the truncated share, so the fraction goes
  to it and the bidder pays in full (`BidPaidInFull`).

Also read in the source, without a run of their own. The comments of `MaxTx`
(`priority_nonce.go:38-40`, `types.go:72-74`) say that a capped pool "will prioritize
transactions by their priority and sender-nonce (sequence number) when evicting
transactions", but there is no eviction: a full pool refuses whatever comes, also a
replacement and whatever its priority (`priority_nonce.go:198`); `TxPool` and
`ImplementsTxPool` state what the code does. `SPEC.md:279` says that bundled
transactions "may or may not exist in a node's application mempool"; a new bid is indeed
admitted without them, but at the first recheck the ante handler refuses every bundled
transaction that no lane holds (`ante.go:51-55`, called at `check_tx.go:226`), so CometBFT
drops the bid while the lane keeps it (`BundleOK`; `LatestPooled` and
`RecheckRestores` hold all the same, of the bids CometBFT has kept).

A replaced transaction stays in
`txCache` (`lane_mempool.go:109`), which is documented as the transactions in the
mempool, so that a recheck of it puts it back over the one that replaced it until that
one is rechecked too (`LatestPooled` and `RecheckRestores` show that the recheck of the rest
repairs it); a bid larger than
the lane's share is neither looked at nor removed by `PrepareLane` and can stay on top for
good (`TopRevives` excludes it); of a bidder's bids only the one with the lowest nonce is
compared, and one with a nonce already used hides its later bids until it is removed; a map
entry is read beyond its end (`auction.pulsar.go:1109`), within the message; `senderWeight` ends on the
priority of the sender's last transaction although its comment says the first that
differs; `NextSenderTx`, which nothing calls, dereferences nil for a sender whose
transactions were all removed; without `mutex`, `BBMempool.Insert` fills every
matching lane although its comment says the first; `Select` is documented as read-only and
reorders the index; `ValidateAuctionBid` counts locked coins as funds to
cover a bid, which the bank then refuses to send (`CoveredBidPaid` excludes them).

## Proofs

| Theorem | Property | Module |
|---|---|---|
| `PoolConsistent` | `IndicesAgree` | `PriorityMempoolProofs` |
| `CountsCorrect` | `CountsExact` | |
| `CapacityCorrect` | `CapacityRespected` (in the runs part of `ImplementsTxPool`) | |
| `TypeCorrect` | `TypeOK` | |
| `NonceOrderCorrect` | `NonceOrder` | |
| `WalkCompleteCorrect` | `FreshWalkComplete` | |
| `WalkGreedyCorrect` | `FreshWalkGreedy` | |
| `Refinement` | `ImplementsTxPool` | |
| `LanesTyped` | `TypeOK` | `BBMempoolProofs` |
| `LanesAgree` | `LanesConsistent` | |
| `CacheCovers` | `IndexCached` | |
| `RemovalComplete` | `RemovedIsGone` | |
| `RefusalComplete` | `RefusedIsOut` | |
| `FirstLaneOnly` | `InFirstMatchingLane` | |
| `Typed` | `TypeOK` | `ProposalHandlerProofs` |
| `Prepared` | `ProposalVerified` | |
| `Consistent` | `ProposalConsistent` | |
| `Accepted` | `AcceptedSound` | |
| `Rejected` | `RejectedForCause` | |
| `OwnRejected` | `OwnRejectedForFees` | |
| `HighestWins` | `HighestFreshBidWins` | |
| `Comparable` | `OneDenomination` | `BidIntakeProofs` |
| `Timely` | `WinnerTimely` | |
| `LatestWins` | `LatestPooled` | |
| `RecheckComplete` | `RecheckRestores` | |
| `BidPayable` | `CoveredBidPaid` | `BuilderProofs` |
| `BidPaidExactly` | `BidPaidInFull` | |
| `SharesCorrect` | `SharesRight` | |
| `NoneStranded` | `NothingStranded` | |
| `VerdictCorrect` | `VerdictRight` | |
| `FrontRunningCorrect` | `NotFrontRun` | |
| `CodecTypes` | the invariant `CodecInv` | `CodecProofs` |
| `DecodersInBounds` | `InBounds` | |
| `DecodersAdvance` | `Advances` | |
| `SizesExact` | `SizeExact` | |
| `CodecsUnderstandAlike` | `CodecsAgree` | |
| `FieldsReadBack` | the part of `RoundTrip` about one field | |

*Assumptions*: the `ASSUME`s of the modules. Senders and nonces are naturals, a
priority is an integer with a least value (so priorities are totally ordered, true
of one denomination), transactions come from a given set, `MaxTx` is any integer,
there is at least one lane, accounts are finite; for `Builder`, `One` is positive, the
nil address is no account, and parameters, messages and balances are typed; for `Codec`,
a word has 16, 32 or 64 bits and the inputs are byte strings no longer than an int can
say, of any number of hops. Five
theorems have hypotheses of their own: `FirstLaneOnly`, `RefusalComplete`, `Accepted`,
`Rejected` and `OwnRejected` assume `Mutex`, the flag the application passes to
`NewMempool`, without which a transaction goes to every lane that matches it; the last
three also `EveryTxWanted`, that some lane matches any transaction, as the default lane
does, without which a block may hold one that no lane checks. Both hold in the runs. No
other theorem needs either.

*Pool.* `PriorityNonceProofs` proves that each operation of a pool preserves
`PoolOK`: the types, `PoolAgrees` and `CountsRight`. Agreement alone is inductive
only with the types and with the finiteness of `scores`: `Insert` and `Remove`
delete the key they rebuild from a score, so the keys in the index must be exactly
the rebuilt ones; `reorderPriorityTies` keeps that because reweighing changes neither
sender nor nonce, which identify a key. Counting is by adding and removing one
element of a finite set.

*Walk.* `NonceOrder` needs `WalkInv`: what was handed out is, per sender, exactly the
pooled transactions up to the sender's cursor, in ascending order; a sender without
a cursor has handed out nothing. One lemma per step of the iterator; choosing the
least nonce ahead of the cursor is what extends the segment without a gap. That a walk
is complete and greedy needs `LeadOK` besides: a sender's next transaction, unless its
key is out of date, lies on or behind the node the iterator has reached, or the iterator
is busy with that sender. From it follows `TopInv`: what the iterator stands on is new and
ranks no lower than any other sender's next. Both are stated per sender, so that a
replaced transaction spoils the order for its own sender only; the auction uses them in
this form.

*Refinement.* `Refinement` uses the same invariants: `PoolOK` gives that `MapOf` of a pool
after `Index` or `Unindex` is the map with one entry set or taken away, and that
reordering leaves it alone, since it changes weights only; the count that is compared
with the capacity is the map's cardinality. `WalkInv` gives that the transaction the
iterator hands out is new and the sender's next, which is what `HandOut` asks.

*Registry.* `LanesInv` says every lane is `PoolOK` and its cache covers its pool. It
rests on lemmas on what `Index`, `Unindex` and reordering do to the set of pooled
transactions. `RemovalComplete` follows: a lane whose cache does not know the
transaction does not hold it, and one that does loses its sender and nonce.
`InFirstMatchingLane` is inductive once that much is known: with the ignore lists, `Match`
holds of the first lane whose handler matches and of no other (`MatchIsFirst`), and
only there does an insertion add anything. `RefusalComplete` is the same with a lane
that refuses: it was the only one asked.

*Bundle.* The loop is in one of three situations: one account has signed everything
and `prevSigners` is the set of such accounts; or the bidder, which did not sign the
first transaction, has taken over after some transaction and has signed all since; or the
verdict is no, and then no split of the bundle satisfies the rule (`Protected`, the rule
with the exception built in), now or later.

*Proposals.* `TypeInv` types the node: every lane is `LaneOK`, the auction lane pools
bids only and the others none. On it rest four invariants, each with a case per
action of the handler:
- `PrepareInv`: the transactions selected so far pass the ante handler from the committed
  state, and the lane's own context has the same sequences and at most the coins (`Lower`)
  of the result. Equality would not be inductive, since the fee of a rejected transaction
  stays deducted in the context; the ante handler is monotone in the coins, so a
  transaction that passes in the poorer context passes in the proposal. No transaction
  is in a proposal twice because none passes twice.
- `ProcessInv`: the lanes before the current one have taken a prefix of the block, which
  decodes, passes, is laid out lane by lane with descending fees, and left none of theirs
  in the rest. `Standing` and `Reached` are its two halves, and every cause of a rejection
  is the failure of one conjunct of them.
- `OwnInv`: what a node prepares is laid out (`LaidBefore`) up to its current lane, whose part
  holds either a bid with its bundle or transactions of that lane (`PartOf`); checking it on
  the same state reaches the same results, which leaves the fees.
- `AuctionInv`: while the auction lane looks for a bid (`Seeking`), every bid it has looked
  at was too large or rejected, and its iterator satisfies `LeadOK` and `TopInv`. Once it has
  one (`Chosen`), a bid worth more was too large or rejected or waits for an earlier
  one of its bidder. Removing the rejected bids makes that a statement on the lane (`Wins`),
  which later lanes keep: they select no bids and leave the auction lane alone, if they
  panic as well.

*Bid intake.* `IntakeInv` joins the types with four invariants. `OneDenomination` and
`WinnerTimely` are inductive with the types; the first is kept because the top bid, with
which `ValidateAuctionBid` compares, is itself one of the lane's. `LatestPooled` and what
`RecheckRestores` says of the end of a round are not: they are replaced by the same of the
bids rechecked so far (`LatestRechecked`, `RestoredRechecked`). A recheck that succeeds
inserts its bid and so makes it its key's, and what it replaces came before it; one that
fails, for the bid or for its bundle, takes the bid out of `comet` and leaves the lane's bids
alone, so that an earlier one of its key, rechecked before it, is the latest again.

*Recursion.* The loops over proposals, bundles and sets of transactions are recursive
functions or folds. `SetInduction` has what is needed of them, in a first-order form:
the existence of a function on `0..n` or on the subsets of a finite set that goes on by
given steps (`IntervalRecursion`, `SubsetRecursion`), and induction as a statement on the
set of numbers or subsets for which a fact holds (`IntervalInduction`, `SubsetInduction`).
Recursion along a measure, as that of `Skip` and of the varint writer, is
`DescentRecursion` and `DescentUnique`; sums over finite sets are `TotalExists` and
`SumSplit`.

*Payments.* That no balance becomes negative (`BuilderTyped`) is what the bank's
guard gives. `ShareBounds` says what truncation does to the proposer's share,
from division and cancellation in the integers; `PaymentEffect` gives every address's
gain as the sum of its roles (`Share`), which is what makes the cases in which bidder,
proposer and escrow account coincide no cases at all. The action properties follow
from that one equation.

*Codecs.* `CodecInv`: every frame of a decoder has a message of its type and a position
within its bytes, and is for a field of the frame below it. It rests on what one round of a
loop returns (`RoundType`): a length is taken only if its sum with the index is within the
bytes, and a sum that overflows is negative as an int and refused, which bounds what
`Skip` returns too, inside groups as well (`SkipType`). `Advances` follows with it: what a
round takes is at least a byte, and an embedded message has fewer bytes than the field that
holds it. `SizeExact` is a calculus of pieces (`Sized`: these bytes have this size as long
as they fit into a slice), closed under concatenation and delimiting; the length of a varint
is the number of its bits by sevens, and the sizes of a map's entries add up alike in
whatever order Go walks the map.

`CodecsAgree` is about two runs, one finished before the other begins. A step of a decoder
is written as a relation (`DecoderStep`), and `Leads` says that one decoder is reached from
another, as membership in every set closed under steps. The invariant (`AgreeInv`) says of
gogo and pulsar, and of pulsar and discard, that the second is in lockstep with a decoder
that leads to the first's: same bytes, same position at every depth, messages that say the
same. `LockstepSteps` keeps it through every case of the loop, from the tables of the
two codecs field by field; the one way out is that gogo finds no number in a text.

Of `RoundTrip`, `FieldsReadBack` proves what one round of a loop makes of one field that
`Marshal` wrote, for every codec, message, word size and whatever follows the field: bytes,
embedded messages and elements of repeated fields come back as they were, a varint as the
word it was made from, and the index is left right behind the field. Its core is
`VarintDigits`: the bytes of a varint carry the bits of its number, in no more bytes than the
reading loop looks at.

*Only model-checked.* Liveness (`WalkEnds`, `ProposalDecided`, `TopRevives`), out of the
prover's reach; and `RoundTrip` beyond a single field of those kinds: that the rounds of a
whole encoding add up to the message, the texts of numbers, map entries, and the unknown
fields that pulsar carries along.

## Not modelled

Gas, memo, signatures as such and the other SDK decorators; fees in several
denominations in the lanes other than the auction's, where `Compare` is not an order (in
the auction lane `OneDenomination` shows that it is one); signs, prefixes and underscores
in the texts of numbers, and the bit lengths to which `Int` and `LegacyDec` limit them; how
cosmos-proto's `options.Unmarshal` treats a message that is there (taken to merge into it); the events of handlers and the figures in their answers; of the
generated code the descriptors, reflection methods and getters, the gRPC stubs and the
query gateway; queries, CLI, the test network. Calls are serialised because CometBFT's local
client holds a lock over them; the code has no locks of its own.

## Plan

1. Done: pool, lane mempool, registry, bundle rule, ante handler, proposal, ABCI
   handler, the message server and parameters of `x/builder`, rechecks and the life of
   bids, both codecs; the abstract pool and the proof that the pool implements it; every
   safety property of the runs but `RoundTrip` as a theorem.
2. Next: `BBMempool` as one `TxPool` per lane; `Compare` over several denominations in
   the default lane; the parameters of `Ante` as state shared with `Builder`.
3. Then proofs: `RoundTrip` from `FieldsReadBack`; a refinement of `TxPool` by every lane of `BBMempool`;
   `RecheckRestores` with the other direction, which bids a round of rechecks leaves behind.
