----------------------------- MODULE PulsarCodec ----------------------------
(***************************************************************************)
(* The codec of api/pob, with which clients read and write the same         *)
(* messages, and three of its own: the size, marshal and unmarshal          *)
(* functions of each ProtoMethods.  It differs from the other codec in what *)
(* it can represent.  Embedded messages are pointers, <<>> for nil and      *)
(* <<m>> otherwise, and nil is not written.  Numbers are plain strings.     *)
(* Fields that are not known are kept, in the order they came, and written  *)
(* last, unless the caller asked to discard them.                           *)
(***************************************************************************)
EXTENDS Wire

(* `if x.Bid != nil` around an embedded message.                            *)
IfNotNil(tag, p, encoded) == IF p = <<>> THEN <<>> ELSE Delimited(tag, encoded)
IfNotNilSize(p, n) == IF p = <<>> THEN 0 ELSE DelimitedSize(n)

(*********************** cosmos-sdk's Coin (external) **********************)

MarshalCoin(x) == IfNotEmpty(10, x.denom) \o IfNotEmpty(18, x.amount) \o x.unknown
SizeCoin(x) == IfNotEmptySize(x.denom) + IfNotEmptySize(x.amount) + Len(x.unknown)
UnmarshalCoin == <<Bytes("denom"), Bytes("amount")>>

(******************************* genesis.pulsar.go *************************)

MarshalParams(x) ==
    IfNotZero(8, x.maxBundleSize)
    \o IfNotEmpty(18, x.escrowAccountAddress)
    \o IfNotNil(26, x.reserveFee, MarshalCoin(x.reserveFee[1]))
    \o IfNotNil(34, x.minBidIncrement, MarshalCoin(x.minBidIncrement[1]))
    \o IfTrue(40, x.frontRunningProtection)
    \o IfNotEmpty(50, x.proposerFee)
    \o x.unknown

SizeParams(x) ==
    IfNotZeroSize(x.maxBundleSize)
    + IfNotEmptySize(x.escrowAccountAddress)
    + IfNotNilSize(x.reserveFee, SizeCoin(x.reserveFee[1]))
    + IfNotNilSize(x.minBidIncrement, SizeCoin(x.minBidIncrement[1]))
    + IfTrueSize(x.frontRunningProtection)
    + IfNotEmptySize(x.proposerFee)
    + Len(x.unknown)

\* Mutant: the cases of the two coins are swapped.
UnmarshalParamsSwapped ==
    <<Varint("maxBundleSize", "uint32"), Bytes("escrowAccountAddress"),
      Embedded("minBidIncrement", "Coin"), Embedded("reserveFee", "Coin"),
      Varint("frontRunningProtection", "bool"), Bytes("proposerFee")>>

UnmarshalParams ==
    <<Varint("maxBundleSize", "uint32"), Bytes("escrowAccountAddress"),
      Embedded("reserveFee", "Coin"), Embedded("minBidIncrement", "Coin"),
      Varint("frontRunningProtection", "bool"), Bytes("proposerFee")>>

MarshalGenesisState(x) == IfNotNil(10, x.params, MarshalParams(x.params[1])) \o x.unknown
SizeGenesisState(x) == IfNotNilSize(x.params, SizeParams(x.params[1])) + Len(x.unknown)
UnmarshalGenesisState == <<Embedded("params", "Params")>>

(********************************* tx.pulsar.go ****************************)

MarshalMsgAuctionBid(x) ==
    IfNotEmpty(10, x.bidder)
    \o IfNotNil(18, x.bid, MarshalCoin(x.bid[1]))
    \o Each(26, x.transactions)
    \o x.unknown

SizeMsgAuctionBid(x) ==
    IfNotEmptySize(x.bidder)
    + IfNotNilSize(x.bid, SizeCoin(x.bid[1]))
    + EachSize(x.transactions)
    + Len(x.unknown)

UnmarshalMsgAuctionBid == <<Bytes("bidder"), Embedded("bid", "Coin"), Repeated("transactions")>>

MarshalMsgAuctionBidResponse(x) == x.unknown
SizeMsgAuctionBidResponse(x) == Len(x.unknown)
UnmarshalMsgAuctionBidResponse == NoFields

MarshalMsgUpdateParams(x) ==
    IfNotEmpty(10, x.authority) \o IfNotNil(18, x.params, MarshalParams(x.params[1])) \o x.unknown
SizeMsgUpdateParams(x) ==
    IfNotEmptySize(x.authority) + IfNotNilSize(x.params, SizeParams(x.params[1])) + Len(x.unknown)
UnmarshalMsgUpdateParams == <<Bytes("authority"), Embedded("params", "Params")>>

MarshalMsgUpdateParamsResponse(x) == x.unknown
SizeMsgUpdateParamsResponse(x) == Len(x.unknown)
UnmarshalMsgUpdateParamsResponse == NoFields

(******************************* query.pulsar.go ***************************)

MarshalQueryParamsRequest(x) == x.unknown
SizeQueryParamsRequest(x) == Len(x.unknown)
UnmarshalQueryParamsRequest == NoFields

MarshalQueryParamsResponse(x) == IfNotNil(10, x.params, MarshalParams(x.params[1])) \o x.unknown
SizeQueryParamsResponse(x) == IfNotNilSize(x.params, SizeParams(x.params[1])) + Len(x.unknown)
UnmarshalQueryParamsResponse == <<Embedded("params", "Params")>>

(************************ module.pulsar.go (field 2 only) ******************)

MarshalModule(x) == IfNotEmpty(18, x.authority) \o x.unknown
SizeModule(x) == IfNotEmptySize(x.authority) + Len(x.unknown)
UnmarshalModule == [n \in {2} |-> Bytes("authority")]

(******************************* auction.pulsar.go *************************)

\* Mutant: the tags of the two numbers are swapped.
MarshalAuctionInfoSwapped(x) ==
    IfNotEmpty(10, x.extendedCommitInfo)
    \o IfNotZero(24, Unsigned(x.maxTxBytes, WordSize))
    \o IfNotZero(16, x.numTxs)
    \o x.unknown

(* MaxTxBytes is an int64, written as the uint64 of the same bits.          *)
MarshalAuctionInfo(x) ==
    IfNotEmpty(10, x.extendedCommitInfo)
    \o IfNotZero(16, Unsigned(x.maxTxBytes, WordSize))
    \o IfNotZero(24, x.numTxs)
    \o x.unknown

SizeAuctionInfo(x) ==
    IfNotEmptySize(x.extendedCommitInfo)
    + IfNotZeroSize(Unsigned(x.maxTxBytes, WordSize))
    + IfNotZeroSize(x.numTxs)
    + Len(x.unknown)

UnmarshalAuctionInfo ==
    <<Bytes("extendedCommitInfo"), Varint("maxTxBytes", "int64"),
      Varint("numTxs", "uint64")>>

(* The registry is a map; its entries are written in the order `keys`: Go's *)
(* random map order, or sorted when the caller asks for determinism.  Key   *)
(* and value of an entry are always written.                                *)
MarshalVoteExtensionInfo(x, keys) ==
    LET entry(k) == Delimited(10, k) \o Delimited(18, x.registry[k])
    IN  FlattenSeq([i \in 1 .. Len(keys) |-> Delimited(18, entry(keys[i]))]) \o x.unknown

SizeVoteExtensionInfo(x) ==
    LET mapEntrySize(k) == DelimitedSize(Len(k)) + DelimitedSize(Len(x.registry[k]))
    IN  SumFunction([k \in DOMAIN x.registry |-> DelimitedSize(mapEntrySize(k))]) + Len(x.unknown)

(* An entry is read by a loop of its own, which does not look at the wire   *)
(* types of key and value.                                                  *)
UnmarshalVoteExtensionInfo == [n \in {2} |-> Embedded("registry", "RegistryEntry")]
UnmarshalRegistryEntry == <<Bytes("key"), Bytes("value")>>

(*************** the methods of a message, found by its type ***************)

Zero ==
    [Coin |-> [denom |-> <<>>, amount |-> <<>>, unknown |-> <<>>],
     Params |-> [maxBundleSize |-> 0, escrowAccountAddress |-> <<>>, reserveFee |-> <<>>,
                 minBidIncrement |-> <<>>, frontRunningProtection |-> FALSE,
                 proposerFee |-> <<>>, unknown |-> <<>>],
     GenesisState |-> [params |-> <<>>, unknown |-> <<>>],
     MsgAuctionBid |-> [bidder |-> <<>>, bid |-> <<>>, transactions |-> <<>>, unknown |-> <<>>],
     MsgAuctionBidResponse |-> [unknown |-> <<>>],
     MsgUpdateParams |-> [authority |-> <<>>, params |-> <<>>, unknown |-> <<>>],
     MsgUpdateParamsResponse |-> [unknown |-> <<>>],
     QueryParamsRequest |-> [unknown |-> <<>>],
     QueryParamsResponse |-> [params |-> <<>>, unknown |-> <<>>],
     Module |-> [authority |-> <<>>, unknown |-> <<>>],
     AuctionInfo |-> [extendedCommitInfo |-> <<>>, maxTxBytes |-> 0, numTxs |-> 0,
                      unknown |-> <<>>],
     VoteExtensionInfo |-> [registry |-> <<>>, unknown |-> <<>>],
     RegistryEntry |-> [key |-> <<>>, value |-> <<>>]]

(* The encodings of a message: one, except for a map's orders.              *)
Encodings(type, x) ==
    CASE type = "Params" -> {MarshalParams(x)}
      [] type = "GenesisState" -> {MarshalGenesisState(x)}
      [] type = "MsgAuctionBid" -> {MarshalMsgAuctionBid(x)}
      [] type = "MsgAuctionBidResponse" -> {MarshalMsgAuctionBidResponse(x)}
      [] type = "MsgUpdateParams" -> {MarshalMsgUpdateParams(x)}
      [] type = "MsgUpdateParamsResponse" -> {MarshalMsgUpdateParamsResponse(x)}
      [] type = "QueryParamsRequest" -> {MarshalQueryParamsRequest(x)}
      [] type = "QueryParamsResponse" -> {MarshalQueryParamsResponse(x)}
      [] type = "Module" -> {MarshalModule(x)}
      [] type = "AuctionInfo" -> {MarshalAuctionInfo(x)}
      [] type = "VoteExtensionInfo" ->
            {MarshalVoteExtensionInfo(x, keys) : keys \in SetToSeqs(DOMAIN x.registry)}

Size(type, x) ==
    CASE type = "Params" -> SizeParams(x)
      [] type = "GenesisState" -> SizeGenesisState(x)
      [] type = "MsgAuctionBid" -> SizeMsgAuctionBid(x)
      [] type = "MsgAuctionBidResponse" -> SizeMsgAuctionBidResponse(x)
      [] type = "MsgUpdateParams" -> SizeMsgUpdateParams(x)
      [] type = "MsgUpdateParamsResponse" -> SizeMsgUpdateParamsResponse(x)
      [] type = "QueryParamsRequest" -> SizeQueryParamsRequest(x)
      [] type = "QueryParamsResponse" -> SizeQueryParamsResponse(x)
      [] type = "Module" -> SizeModule(x)
      [] type = "AuctionInfo" -> SizeAuctionInfo(x)
      [] type = "VoteExtensionInfo" -> SizeVoteExtensionInfo(x)

Unmarshal ==
    [Coin |-> UnmarshalCoin, Params |-> UnmarshalParams,
     GenesisState |-> UnmarshalGenesisState,
     MsgAuctionBid |-> UnmarshalMsgAuctionBid,
     MsgAuctionBidResponse |-> UnmarshalMsgAuctionBidResponse,
     MsgUpdateParams |-> UnmarshalMsgUpdateParams,
     MsgUpdateParamsResponse |-> UnmarshalMsgUpdateParamsResponse,
     QueryParamsRequest |-> UnmarshalQueryParamsRequest,
     QueryParamsResponse |-> UnmarshalQueryParamsResponse,
     Module |-> UnmarshalModule, AuctionInfo |-> UnmarshalAuctionInfo,
     VoteExtensionInfo |-> UnmarshalVoteExtensionInfo,
     RegistryEntry |-> UnmarshalRegistryEntry]
=============================================================================
