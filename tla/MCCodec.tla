------------------------------- MODULE MCCodec ------------------------------
(* Byte strings for Codec: up to two or three pieces in a row, each a field *)
(* of the message, a field it does not know, or broken bytes.  Words are of *)
(* 16 bits, so lengths from 32768 on are negative.                          *)
EXTENDS Codec

UnknownPieces ==
    {<<120, 5>>,                    \* field 15, varint
     <<74, 1, 7>>,                  \* field 9, length-delimited
     <<77, 1, 2, 3, 4>>,            \* field 9, fixed32
     <<75, 75, 8, 1, 76, 76>>}      \* field 9, a group in a group

BrokenPieces ==
    {<<2, 0>>,                      \* field 0
     <<130, 8, 0>>,                 \* a negative field number
     <<76>>, <<75, 8, 1>>,          \* a group that only ends, or only starts
     <<79>>, <<15>>,                \* wire type 7
     <<128>>, <<128, 128, 128, 0>>, \* a varint that is cut off, or too long
     <<73, 1>>,                     \* a fixed64 that is cut off
     <<74, 255, 255, 1>>,           \* length 32767: the index overflows
     <<74, 128, 128, 2>>}           \* length 32768: negative

(* The first field again, under a number that is congruent modulo 2^32      *)
(* (here 2^8).                                                              *)
AliasPiece == <<138, 16, 1, 99>>

CoinPieces ==
    {<<>>, <<10, 1, 97>>, <<18, 1, 49>>, <<18, 0>>, <<18, 2, 48, 49>>, <<18, 1, 120>>, <<74, 1, 7>>}

ParamsPieces ==
    {<<8, 5>>, <<8, 0>>, <<8, 200, 1>>, <<8, 129, 2>>, <<10, 1>>, <<18, 1, 9>>, <<40, 2>>, <<40, 0>>,
     <<50, 1, 49>>, <<50, 0>>, <<50, 1, 120>>, <<74, 1, 7>>}
    \cup {Delimited(tag, c) : tag \in {26, 34}, c \in CoinPieces}

Pieces ==
    [Params |-> ParamsPieces,
     GenesisState |-> {Delimited(10, c) : c \in ParamsPieces},
     MsgAuctionBid |-> {Delimited(18, c) : c \in CoinPieces}
                       \cup {<<10, 1, 97>>, <<10, 0>>, <<8, 1>>, <<26, 0>>, <<26, 1, 5>>, <<26, 3, 5>>, AliasPiece},
     MsgAuctionBidResponse |-> {<<10, 1, 97>>},
     MsgUpdateParams |-> {Delimited(18, c) : c \in ParamsPieces} \cup {<<10, 1, 97>>, <<10, 0>>},
     MsgUpdateParamsResponse |-> {<<10, 1, 97>>},
     QueryParamsRequest |-> {<<10, 1, 97>>},
     QueryParamsResponse |-> {Delimited(10, c) : c \in ParamsPieces},
     Module |-> {<<18, 1, 97>>, <<18, 0>>, <<10, 1, 97>>},
     AuctionInfo |-> {<<10, 1, 97>>, <<16, 255, 255, 3>>, <<16, 5>>, <<24, 255, 255, 3>>, <<24, 128, 1>>, <<18, 0>>},
     VoteExtensionInfo |-> {Delimited(18, c) :
                               c \in {<<>>, <<10, 1, 97>>, <<10, 1, 98, 18, 1, 5>>, <<18, 1, 6, 10, 1, 97>>,
                                      <<8, 1, 97>>, <<74, 1, 7>>, <<74, 2, 7>>, <<10, 3>>}}]

(* Up to two, and up to three pieces, one after the other.                  *)
Pairs(S) == S \cup {a \o b : a, b \in S}
Triples(S) == Pairs(S) \cup {a \o b : a \in Pairs(S), b \in S}

MCInputs ==
    [t \in DOMAIN Pieces |->
        (IF t \in {"MsgAuctionBid", "VoteExtensionInfo", "AuctionInfo"}
         THEN Triples(Pieces[t] \cup {<<>>}) ELSE Pairs(Pieces[t] \cup {<<>>}))
        \cup Pairs(UnknownPieces \cup BrokenPieces \cup {AliasPiece, CHOOSE p \in Pieces[t] : TRUE})]
=============================================================================
