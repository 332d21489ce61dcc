-------------------------------- MODULE Codec -------------------------------
(***************************************************************************)
(* Messages on the wire, decoded and encoded again by the two generated     *)
(* codecs.  A byte string arrives (from a peer, a client, the store); every *)
(* codec that knows the message decodes it, one field a step; then one of   *)
(* those that accepted it encodes what it understood, and that is decoded   *)
(* in turn.  The codecs are "gogo", "pulsar", and "discard": pulsar with    *)
(* the option DiscardUnknown.                                               *)
(*                                                                         *)
(* A decoder is a stack of frames, one for each embedded message that is    *)
(* being read.  The decoders do not share anything, so they run one after   *)
(* the other.                                                               *)
(***************************************************************************)
EXTENDS Wire

CONSTANTS
    Inputs,         \* the byte strings that may arrive, per message type
    MaxHops         \* how often a message is encoded again

G == INSTANCE GogoCodec
P == INSTANCE PulsarCodec

(* The messages that are sent by themselves: not coins and map entries.     *)
MessageTypes == DOMAIN P!Zero \ {"Coin", "RegistryEntry"}

ASSUME InputsAssumption ==
    /\ DOMAIN Inputs \subseteq MessageTypes
    /\ \A t \in DOMAIN Inputs : Inputs[t] \subseteq Seq(Byte) /\ \A b \in Inputs[t] : Len(b) <= MaxLen

VARIABLES
    type,       \* the type of the message
    wire,       \* its bytes
    dec,        \* the decoders: stack, and "reading", "ok" or "error"
    sent        \* the hops so far: who encoded, and what everyone had decoded

vars == <<type, wire, dec, sent>>

(* The three messages that only api/ has are not known to gogo.             *)
Codecs(t) == IF t \in DOMAIN G!Zero THEN {"gogo", "pulsar", "discard"} ELSE {"pulsar", "discard"}

Zero(c, t) == IF c = "gogo" THEN G!Zero[t] ELSE P!Zero[t]
Cases(c, t) == IF c = "gogo" THEN G!Unmarshal[t] ELSE P!Unmarshal[t]
(* The encodings that fit into a slice.                                     *)
Encodings(c, t, m) ==
    {b \in IF c = "gogo" THEN {G!Marshal(t, m)} ELSE P!Encodings(t, m) : Len(b) <= MaxLen}
Size(c, t, m) == IF c = "gogo" THEN G!Size(t, m) ELSE P!Size(t, m)

(* A frame: the bytes b, the position i in them, where the loop ends, the   *)
(* message so far, and the field of the frame below it is for.              *)
Frame(t, b, i, end, m, field) ==
    [type |-> t, b |-> b, i |-> i, end |-> end, m |-> m, field |-> field]
Start(c, t, b) == [stack |-> <<Frame(t, b, 0, Len(b), Zero(c, t), "none")>>, state |-> "reading"]

Message(d) == d.stack[1].m

Init ==
    /\ type \in DOMAIN Inputs
    /\ wire \in Inputs[type]
    /\ dec = [c \in Codecs(type) |-> Start(c, type, wire)]
    /\ sent = <<>>

-----------------------------------------------------------------------------
(* One round of Unmarshal's loop on frame f: the tag t and its checks, the  *)
(* case of the switch and the value it takes.  A map entry is read by a     *)
(* loop that has no such checks.                                            *)
IsEntry(f) == f.type = "RegistryEntry"

TagOK(f, t, cases) ==
    t.ok /\ \/ IsEntry(f)
            \/ /\ t.wireType # 4
               /\ t.fieldNum > 0
               /\ t.fieldNum \in DOMAIN cases => t.wireType = cases[t.fieldNum].wireType

(* What a round comes to: the case, iNdEx after it, and the value.          *)
Taken(case, next, val) == [ok |-> TRUE, case |-> case, next |-> next, val |-> val]

(* A known field: v is the varint, s the delimited bytes after its tag.     *)
VarintValue(case, v) ==
    IF ~v.ok THEN Failed
    ELSE Taken(case, v.next, CASE case.kind = "uint32" -> Unsigned(v.val, HalfWord)
                               [] case.kind = "uint64" -> v.val
                               [] case.kind = "int64" -> ToInt(v.val)
                               [] case.kind = "bool" -> v.val # 0)
DelimitedValue(f, case, s) ==
    LET bytes == Slice(f.b, s.from, s.to)
        number == G!UnmarshalNumber(f.m[case.name], bytes)
    IN  IF ~s.ok THEN Failed
        ELSE CASE case.kind \in {"bytes", "embedded"} -> Taken(case, s.to, bytes)
               [] case.kind = "repeated" -> Taken(case, s.to, Append(f.m[case.name], bytes))
               [] case.kind = "number" -> IF number.ok THEN Taken(case, s.to, number.val) ELSE Failed
Value(f, case, at) ==
    IF case.wireType = 0 THEN VarintValue(case, ReadVarint(f.b, at))
                         ELSE DelimitedValue(f, case, ReadDelimited(f.b, at))

Unknown == Case("none", 0, "unknown", "none")

\* Mutant: what is skipped is not compared with what is left of the input.
SkippedUnchecked(f, r) ==
    LET next == ToInt(f.i + r.n)
    IN  IF r.ok /\ next >= 0
        THEN Taken(Unknown, next, Slice(f.b, f.i, Min({next, Len(f.b)}))) ELSE Failed

(* A field that is not known: skipped from its tag on, r being what Skip    *)
(* says.  An entry must not be left by that, a message not be overrun.      *)
Skipped(f, r) ==
    LET next == ToInt(f.i + r.n)
    IN  IF r.ok /\ next >= 0 /\ next <= f.end
        THEN Taken(Unknown, next, Slice(f.b, f.i, next)) ELSE Failed

RoundWith(f, t, cases) ==
    IF ~TagOK(f, t, cases) THEN Failed
    ELSE IF t.fieldNum \in DOMAIN cases THEN Value(f, cases[t.fieldNum], t.next)
    ELSE Skipped(f, Skip(Slice(f.b, f.i, Len(f.b))))
Round(c, f) == RoundWith(f, ReadTag(f.b, f.i), Cases(c, f.type))

-----------------------------------------------------------------------------
Top(c) == Last(dec[c].stack)
SetTop(c, f) == [dec EXCEPT ![c].stack = Append(Front(@), f)]

(* Codec c has the turn; its innermost loop has bytes left.                 *)
Earlier == [gogo |-> {}, pulsar |-> {"gogo"}, discard |-> {"gogo", "pulsar"}]
Reads(c) ==
    /\ dec[c].state = "reading"
    /\ \A d \in Earlier[c] \cap Codecs(type) : dec[d].state # "reading"
InLoop(c) == Reads(c) /\ Top(c).i < Top(c).end

(* A scalar, bytes or repeated field: the last value wins, or is appended.  *)
ReadField(c) ==
    /\ InLoop(c)
    /\ \E f \in {Top(c)} : \E r \in {Round(c, f)} :
          /\ r.ok
          /\ r.case.kind \notin {"embedded", "unknown"}
          /\ dec' = SetTop(c, [f EXCEPT !.m[r.case.name] = r.val, !.i = r.next])
    /\ UNCHANGED <<type, wire, sent>>

(* What an embedded message is decoded into: the field's value m, a new one *)
(* where pulsar finds nil, and a new key and value for a map entry.  That   *)
(* pulsar's options.Unmarshal merges into a message that is there is up to  *)
(* cosmos-proto: the options come from runtime.UnmarshalInputToOptions,     *)
(* which sets Merge (external).                                             *)
Old(c, m, t) ==
    CASE t = "RegistryEntry" -> Zero(c, t)
      [] c = "gogo" -> m
      [] OTHER -> IF m = <<>> THEN Zero(c, t) ELSE m[1]

(* An embedded message: its own Unmarshal on the slice, or for a map entry  *)
(* a loop up to postIndex within the same bytes.                            *)
Inner(f, r, old) ==
    IF r.case.type = "RegistryEntry"
    THEN Frame(r.case.type, f.b, r.next - Len(r.val), r.next, old, r.case.name)
    ELSE Frame(r.case.type, r.val, 0, Len(r.val), old, r.case.name)

EnterMessage(c) ==
    /\ InLoop(c)
    /\ \E f \in {Top(c)} : \E r \in {Round(c, f)} :
          /\ r.ok
          /\ r.case.kind = "embedded"
          /\ dec' = [dec EXCEPT ![c].stack = Front(@) \o
                        <<[f EXCEPT !.i = r.next], Inner(f, r, Old(c, f.m[r.case.name], r.case.type))>>]
    /\ UNCHANGED <<type, wire, sent>>

\* Mutant: the index is not moved past the field that was skipped.
SkipFieldStays(c) ==
    /\ InLoop(c)
    /\ \E f \in {Top(c)} : \E r \in {Round(c, f)} :
          /\ r.ok
          /\ r.case.kind = "unknown"
          /\ dec' = SetTop(c, IF c = "pulsar" /\ ~IsEntry(f)
                              THEN [f EXCEPT !.m.unknown = @ \o r.val]
                              ELSE f)
    /\ UNCHANGED <<type, wire, sent>>

(* An unknown field: pulsar keeps its bytes, except within a map entry.     *)
SkipField(c) ==
    /\ InLoop(c)
    /\ \E f \in {Top(c)} : \E r \in {Round(c, f)} :
          /\ r.ok
          /\ r.case.kind = "unknown"
          /\ dec' = SetTop(c, IF c = "pulsar" /\ ~IsEntry(f)
                              THEN [f EXCEPT !.i = r.next, !.m.unknown = @ \o r.val]
                              ELSE [f EXCEPT !.i = r.next])
    /\ UNCHANGED <<type, wire, sent>>

(* Any error ends the decoding of the whole message.                        *)
Fail(c) ==
    /\ InLoop(c)
    /\ ~Round(c, Top(c)).ok
    /\ dec' = [dec EXCEPT ![c].state = "error"]
    /\ UNCHANGED <<type, wire, sent>>

(* x.Registry[mapkey] = mapvalue                                            *)
Assign(map, key, val) ==
    [k \in DOMAIN map \cup {key} |-> IF k = key THEN val ELSE map[k]]

(* The end of an embedded message, which the message around it takes, or of *)
(* the whole.                                                               *)
LeaveMessage(c) ==
    /\ Reads(c) /\ ~InLoop(c)
    /\ LET stack == dec[c].stack
           f == Top(c)
           below == stack[Len(stack) - 1]
           value == CASE IsEntry(f) -> Assign(below.m[f.field], f.m.key, f.m.value)
                      [] ~IsEntry(f) /\ c = "gogo" -> f.m
                      [] OTHER -> <<f.m>>
       IN  dec' = IF Len(stack) = 1 THEN [dec EXCEPT ![c].state = "ok"]
                  ELSE [dec EXCEPT ![c].stack =
                            Append(SubSeq(stack, 1, Len(stack) - 2),
                                   [below EXCEPT !.m[f.field] = value])]
    /\ UNCHANGED <<type, wire, sent>>

AllDone == \A c \in Codecs(type) : dec[c].state # "reading"

(* A codec that accepted the message encodes what it has understood.        *)
Encode(c) ==
    /\ AllDone
    /\ dec[c].state = "ok"
    /\ Len(sent) < MaxHops
    /\ sent' = Append(sent, [codec |-> c, state |-> [d \in Codecs(type) |-> dec[d].state],
                             m |-> Message(dec[c])])
    /\ \E b \in Encodings(c, type, Message(dec[c])) :
          /\ wire' = b
          /\ dec' = [d \in Codecs(type) |-> Start(d, type, b)]
    /\ UNCHANGED type

Decode(c) == ReadField(c) \/ EnterMessage(c) \/ SkipField(c) \/ Fail(c) \/ LeaveMessage(c)

(* The message has been decoded and encoded often enough.                   *)
Rest == AllDone /\ UNCHANGED vars

Next == (\E c \in Codecs(type) : Decode(c) \/ Encode(c)) \/ Rest

Spec == Init /\ [][Next]_vars

-----------------------------------------------------------------------------
(* No decoder gets past the bytes it was given: an index out of range would *)
(* be a panic on input from the network.  Only the loop of a map entry may  *)
(* read beyond the entry, and then not beyond the message.                  *)
InBounds ==
    \A c \in Codecs(type) : \A k \in DOMAIN dec[c].stack :
        LET f == dec[c].stack[k]
        IN  /\ 0 <= f.i /\ f.end <= Len(f.b)
            /\ f.i <= IF IsEntry(f) THEN Len(f.b) ELSE f.end

(* Size computes exactly the bytes that Marshal writes.  Marshal allocates  *)
(* Size bytes and fills them from the end: too few is a panic, too many a   *)
(* message with garbage in front.                                           *)
SizeExact ==
    \A c \in Codecs(type) : dec[c].state = "ok" =>
        \A b \in Encodings(c, type, Message(dec[c])) : Len(b) = Size(c, type, Message(dec[c]))

-----------------------------------------------------------------------------
WithParams == {"GenesisState", "MsgUpdateParams", "QueryParamsResponse"}

(* A gogo message and a pulsar message say the same: an absent embedded     *)
(* message is a zero one, and a number is what its text says, where pulsar  *)
(* has a text (an empty text after another leaves gogo's number alone).     *)
NumbersAgree(v, text) == text = <<>> \/ v = G!UnmarshalNumber(<<>>, text).val
CoinsAgree(m, p) ==
    LET x == IF p = <<>> THEN P!Zero.Coin ELSE p[1]
    IN  m.denom = x.denom /\ NumbersAgree(m.amount, x.amount)
ParamsAgree(m, p) ==
    LET x == IF p = <<>> THEN P!Zero.Params ELSE p[1]
    IN  /\ m.maxBundleSize = x.maxBundleSize
        /\ m.escrowAccountAddress = x.escrowAccountAddress
        /\ CoinsAgree(m.reserveFee, x.reserveFee)
        /\ CoinsAgree(m.minBidIncrement, x.minBidIncrement)
        /\ m.frontRunningProtection = x.frontRunningProtection
        /\ NumbersAgree(m.proposerFee, x.proposerFee)
MessagesAgree(t, m, x) ==
    CASE t = "Params" -> ParamsAgree(m, <<x>>)
      [] t = "MsgAuctionBid" -> /\ m.bidder = x.bidder /\ m.transactions = x.transactions
                                /\ CoinsAgree(m.bid, x.bid)
      [] t \in WithParams -> /\ t = "MsgUpdateParams" => m.authority = x.authority
                             /\ ParamsAgree(m.params, x.params)
      [] OTHER -> TRUE

(* Without the fields it does not know, recursively.                        *)
Stripped(t, x) ==
    LET coin(p) == IF p = <<>> THEN p ELSE <<[p[1] EXCEPT !.unknown = <<>>]>>
        params(y) == [y EXCEPT !.unknown = <<>>, !.reserveFee = coin(@), !.minBidIncrement = coin(@)]
    IN  CASE t = "Params" -> params(x)
          [] t = "MsgAuctionBid" -> [x EXCEPT !.unknown = <<>>, !.bid = coin(@)]
          [] t \in WithParams -> [x EXCEPT !.unknown = <<>>,
                                     !.params = IF @ = <<>> THEN @ ELSE <<params(@[1])>>]
          [] OTHER -> [x EXCEPT !.unknown = <<>>]

(* A node and a client that are given the same bytes understand the same:   *)
(* what gogo accepts pulsar accepts and reads alike, whatever the order and *)
(* repetition of fields; what pulsar accepts and gogo does not is a message *)
(* with a number in it.  And a client that discards unknown fields accepts  *)
(* the same messages, with the same values of known fields at every depth.  *)
CodecsAgree ==
    AllDone =>
        /\ "gogo" \in Codecs(type) =>
               IF dec["gogo"].state = "ok"
               THEN /\ dec["pulsar"].state = "ok"
                    /\ MessagesAgree(type, Message(dec["gogo"]), Message(dec["pulsar"]))
               ELSE dec["pulsar"].state = "ok" => type \in WithParams \cup {"Params", "MsgAuctionBid"}
        /\ dec["pulsar"].state = dec["discard"].state
        /\ dec["pulsar"].state = "ok" =>
               Message(dec["discard"]) = Stripped(type, Message(dec["pulsar"]))

-----------------------------------------------------------------------------
(* What encoding and decoding do to a message: gogo turns a nil number into *)
(* zero, nothing else changes.                                              *)
NormalCoin(m) == [m EXCEPT !.amount = G!MarshalNumber(@)]
NormalParams(m) ==
    [m EXCEPT !.reserveFee = NormalCoin(@), !.minBidIncrement = NormalCoin(@),
              !.proposerFee = G!MarshalNumber(@)]
Normal(c, t, m) ==
    CASE c # "gogo" -> m
      [] c = "gogo" /\ t = "Params" -> NormalParams(m)
      [] c = "gogo" /\ t = "MsgAuctionBid" -> [m EXCEPT !.bid = NormalCoin(@)]
      [] c = "gogo" /\ t \in WithParams -> [m EXCEPT !.params = NormalParams(@)]
      [] OTHER -> m

(* A codec that reads what it has written gets its message back, the fields *)
(* it does not know included if it keeps them, up to nil numbers, and a     *)
(* message that has been encoded again is accepted by whoever accepted it   *)
(* before.                                                                  *)
RoundTrip ==
    AllDone /\ sent # <<>> =>
        LET hop == Last(sent)
        IN  /\ Message(dec[hop.codec]) = Normal(hop.codec, type, hop.m)
            /\ \A c \in Codecs(type) : hop.state[c] = "ok" => dec[c].state = "ok"

(* What a decoder has left to do: the bytes of its loops, and the loops.    *)
Work(d) ==
    LET left(f) == IF f.i < f.end THEN f.end - f.i ELSE 0
    IN  IF d.state = "reading"
        THEN 2 * SumFunction([k \in DOMAIN d.stack |-> left(d.stack[k])]) + Len(d.stack)
        ELSE 0

(* Every byte string is decided: each round of each loop of Unmarshal gets  *)
(* on, whatever the lengths and groups in the input say, so that the work   *)
(* left shrinks with every step and no loop runs for ever.  (That a decoder *)
(* is never stuck before that is what checking for deadlock shows.)         *)
Advances ==
    [][\A c \in Codecs(type) : sent' = sent /\ dec'[c] # dec[c] => Work(dec'[c]) < Work(dec[c])]_vars
=============================================================================
