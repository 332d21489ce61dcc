------------------------------ MODULE GogoCodec -----------------------------
(***************************************************************************)
(* The codec of x/builder/types/*.pb.go, with which a node reads and writes *)
(* the module's messages, genesis and stored parameters.  Three definitions *)
(* a message: what Marshal writes, what Size computes beforehand, and the   *)
(* cases of Unmarshal's switch.  Embedded messages are not nullable: they   *)
(* are always written, and absent ones are read as zero.  Fields that are   *)
(* not known are skipped and lost.                                          *)
(*                                                                         *)
(* Strings and bytes are byte strings.  An Int or a LegacyDec is the decimal *)
(* text of its big.Int, <<>> for nil; the two types share their encoding.   *)
(***************************************************************************)
EXTENDS Wire

(************* cosmossdk.io/math and cosmos-sdk's Coin (external) **********)

(* Int.Unmarshal, LegacyDec.Unmarshal: decimal text to a number; no text    *)
(* leaves the number as it was.  Signs, prefixes and underscores, which     *)
(* big.Int also reads, are not among the inputs, nor numbers of more bits   *)
(* than Int and LegacyDec allow.                                            *)
UnmarshalNumber(old, text) ==
    LET digits == \A i \in DOMAIN text : text[i] \in 48 .. 57
        first == CHOOSE i \in DOMAIN text : /\ text[i] # 48 \/ i = Len(text)
                                            /\ \A j \in 1 .. i - 1 : text[j] = 48
    IN  CASE text = <<>> -> [ok |-> TRUE, val |-> old]
          [] text # <<>> /\ digits -> [ok |-> TRUE, val |-> SubSeq(text, first, Len(text))]
          [] OTHER -> Failed

(* Int.Marshal, LegacyDec.Marshal: nil is written as zero.                  *)
MarshalNumber(v) == IF v = <<>> THEN <<48>> ELSE v

MarshalCoin(m) == IfNotEmpty(10, m.denom) \o Delimited(18, MarshalNumber(m.amount))
SizeCoin(m) == IfNotEmptySize(m.denom) + DelimitedSize(Len(MarshalNumber(m.amount)))
UnmarshalCoin == <<Bytes("denom"), Number("amount")>>
ZeroCoin == [denom |-> <<>>, amount |-> <<>>]

(********************************* genesis.pb.go ***************************)

ZeroParams ==
    [maxBundleSize |-> 0, escrowAccountAddress |-> <<>>, reserveFee |-> ZeroCoin,
     minBidIncrement |-> ZeroCoin, frontRunningProtection |-> FALSE, proposerFee |-> <<>>]

MarshalParams(m) ==
    IfNotZero(8, m.maxBundleSize)
    \o IfNotEmpty(18, m.escrowAccountAddress)
    \o Delimited(26, MarshalCoin(m.reserveFee))
    \o Delimited(34, MarshalCoin(m.minBidIncrement))
    \o IfTrue(40, m.frontRunningProtection)
    \o Delimited(50, MarshalNumber(m.proposerFee))

SizeParams(m) ==
    IfNotZeroSize(m.maxBundleSize)
    + IfNotEmptySize(m.escrowAccountAddress)
    + DelimitedSize(SizeCoin(m.reserveFee))
    + DelimitedSize(SizeCoin(m.minBidIncrement))
    + IfTrueSize(m.frontRunningProtection)
    + DelimitedSize(Len(MarshalNumber(m.proposerFee)))

UnmarshalParams ==
    <<Varint("maxBundleSize", "uint32"), Bytes("escrowAccountAddress"),
      Embedded("reserveFee", "Coin"), Embedded("minBidIncrement", "Coin"),
      Varint("frontRunningProtection", "bool"), Number("proposerFee")>>

MarshalGenesisState(m) == Delimited(10, MarshalParams(m.params))
SizeGenesisState(m) == DelimitedSize(SizeParams(m.params))
UnmarshalGenesisState == <<Embedded("params", "Params")>>

(*********************************** tx.pb.go ******************************)

MarshalMsgAuctionBid(m) ==
    IfNotEmpty(10, m.bidder) \o Delimited(18, MarshalCoin(m.bid)) \o Each(26, m.transactions)
SizeMsgAuctionBid(m) ==
    IfNotEmptySize(m.bidder) + DelimitedSize(SizeCoin(m.bid)) + EachSize(m.transactions)
UnmarshalMsgAuctionBid == <<Bytes("bidder"), Embedded("bid", "Coin"), Repeated("transactions")>>

MarshalMsgAuctionBidResponse(m) == <<>>
SizeMsgAuctionBidResponse(m) == 0
UnmarshalMsgAuctionBidResponse == NoFields

MarshalMsgUpdateParams(m) ==
    IfNotEmpty(10, m.authority) \o Delimited(18, MarshalParams(m.params))
SizeMsgUpdateParams(m) ==
    IfNotEmptySize(m.authority) + DelimitedSize(SizeParams(m.params))
UnmarshalMsgUpdateParams == <<Bytes("authority"), Embedded("params", "Params")>>

MarshalMsgUpdateParamsResponse(m) == <<>>
SizeMsgUpdateParamsResponse(m) == 0
UnmarshalMsgUpdateParamsResponse == NoFields

(********************************* query.pb.go *****************************)

MarshalQueryParamsRequest(m) == <<>>
SizeQueryParamsRequest(m) == 0
UnmarshalQueryParamsRequest == NoFields

MarshalQueryParamsResponse(m) == Delimited(10, MarshalParams(m.params))
SizeQueryParamsResponse(m) == DelimitedSize(SizeParams(m.params))
UnmarshalQueryParamsResponse == <<Embedded("params", "Params")>>

(*************** the methods of a message, found by its type ***************)

Zero ==
    [Coin |-> ZeroCoin, Params |-> ZeroParams,
     GenesisState |-> [params |-> ZeroParams],
     MsgAuctionBid |-> [bidder |-> <<>>, bid |-> ZeroCoin, transactions |-> <<>>],
     MsgAuctionBidResponse |-> NoFields,
     MsgUpdateParams |-> [authority |-> <<>>, params |-> ZeroParams],
     MsgUpdateParamsResponse |-> NoFields,
     QueryParamsRequest |-> NoFields,
     QueryParamsResponse |-> [params |-> ZeroParams]]

Marshal(type, m) ==
    CASE type = "Params" -> MarshalParams(m)
      [] type = "GenesisState" -> MarshalGenesisState(m)
      [] type = "MsgAuctionBid" -> MarshalMsgAuctionBid(m)
      [] type = "MsgAuctionBidResponse" -> MarshalMsgAuctionBidResponse(m)
      [] type = "MsgUpdateParams" -> MarshalMsgUpdateParams(m)
      [] type = "MsgUpdateParamsResponse" -> MarshalMsgUpdateParamsResponse(m)
      [] type = "QueryParamsRequest" -> MarshalQueryParamsRequest(m)
      [] type = "QueryParamsResponse" -> MarshalQueryParamsResponse(m)

Size(type, m) ==
    CASE type = "Params" -> SizeParams(m)
      [] type = "GenesisState" -> SizeGenesisState(m)
      [] type = "MsgAuctionBid" -> SizeMsgAuctionBid(m)
      [] type = "MsgAuctionBidResponse" -> SizeMsgAuctionBidResponse(m)
      [] type = "MsgUpdateParams" -> SizeMsgUpdateParams(m)
      [] type = "MsgUpdateParamsResponse" -> SizeMsgUpdateParamsResponse(m)
      [] type = "QueryParamsRequest" -> SizeQueryParamsRequest(m)
      [] type = "QueryParamsResponse" -> SizeQueryParamsResponse(m)

Unmarshal ==
    [Coin |-> UnmarshalCoin, Params |-> UnmarshalParams,
     GenesisState |-> UnmarshalGenesisState,
     MsgAuctionBid |-> UnmarshalMsgAuctionBid,
     MsgAuctionBidResponse |-> UnmarshalMsgAuctionBidResponse,
     MsgUpdateParams |-> UnmarshalMsgUpdateParams,
     MsgUpdateParamsResponse |-> UnmarshalMsgUpdateParamsResponse,
     QueryParamsRequest |-> UnmarshalQueryParamsRequest,
     QueryParamsResponse |-> UnmarshalQueryParamsResponse]
=============================================================================
