-------------------------------- MODULE Wire --------------------------------
(***************************************************************************)
(* The protobuf wire format as the generated code of this repository reads *)
(* and writes it: varints, length-delimited fields, and the skipping of    *)
(* fields that are not known.  Bytes are numbers, byte strings sequences   *)
(* of bytes; positions count from 0 as in the code, so byte i of b is      *)
(* b[i + 1].                                                               *)
(*                                                                         *)
(* The code works with words of 64 bits and half words of 32 (uint64, int, *)
(* uint32, int32).  WordSize is a parameter so that overflow is within     *)
(* reach of a model checker: a word of 16 bits takes three bytes of varint *)
(* where one of 64 takes ten, and otherwise behaves the same.              *)
(***************************************************************************)
EXTENDS Integers, Sequences, FiniteSetsExt, SequencesExt

CONSTANT WordSize

ASSUME WordSizeAssumption == WordSize \in {16, 32, 64}

HalfWord == WordSize \div 2
Byte == 0 .. 255

Pow2[n \in 0 .. WordSize] == IF n = 0 THEN 1 ELSE 2 * Pow2[n - 1]

(* The length of a slice is an int.                                         *)
MaxLen == Pow2[WordSize - 1] - 1

(* uint64 and int: the values of a word, without and with a sign.  ToSigned *)
(* is the conversion between them, and what an overflowing addition gives.  *)
Unsigned(v, bits) == v % Pow2[bits]
ToSigned(v, bits) ==
    LET u == Unsigned(v, bits) IN IF u >= Pow2[bits - 1] THEN u - Pow2[bits] ELSE u
ToInt(v) == ToSigned(v, WordSize)

Slice(b, from, to) == SubSeq(b, from + 1, to)

(* A case of the switch: the field of the message, the wire type it insists *)
(* on, and how the value is taken.  A message's cases are a sequence, or     *)
(* another function of the field number.                                    *)
Case(name, wireType, kind, type) ==
    [name |-> name, wireType |-> wireType, kind |-> kind, type |-> type]
Bytes(name) == Case(name, 2, "bytes", "none")
Repeated(name) == Case(name, 2, "repeated", "none")
Embedded(name, type) == Case(name, 2, "embedded", type)
Number(name) == Case(name, 2, "number", "none")
Varint(name, kind) == Case(name, 0, kind, "none")
NoFields == <<>>

(*********************************** writing *******************************)

(* math_bits.Len64(x | 1): the number of bits of x, at least one.           *)
BitLen(x) == CHOOSE n \in 1 .. WordSize : x < Pow2[n] /\ (n = 1 \/ x >= Pow2[n - 1])

\* Mutant: the rounding of the division is forgotten.
SovRoundsDown(x) == (BitLen(x) + 5) \div 7

(* sovTx: the bytes the varint of x takes.                                  *)
Sov(x) == (BitLen(x) + 6) \div 7

(* encodeVarintTx: seven bits a byte, the lowest first, the top bit set on  *)
(* all but the last.                                                        *)
EncodeVarint(v) ==
    LET rest[x \in Nat] == IF x >= 128 THEN <<(x % 128) + 128>> \o rest[x \div 128]
                                       ELSE <<x>>
    IN rest[v]

(* The pieces every Marshal and Size is made of: a length-delimited field,  *)
(* one that is left out when empty, a repeated one, a varint left out when  *)
(* zero.  A tag is its byte.                                                *)
Delimited(tag, s) == <<tag>> \o EncodeVarint(Len(s)) \o s
DelimitedSize(n) == 1 + n + Sov(n)

IfNotEmpty(tag, s) == IF s = <<>> THEN <<>> ELSE Delimited(tag, s)
IfNotEmptySize(s) == IF s = <<>> THEN 0 ELSE DelimitedSize(Len(s))

Each(tag, ss) == FlattenSeq([i \in 1 .. Len(ss) |-> Delimited(tag, ss[i])])
EachSize(ss) == SumFunction([i \in 1 .. Len(ss) |-> DelimitedSize(Len(ss[i]))])

IfNotZero(tag, v) == IF v = 0 THEN <<>> ELSE <<tag>> \o EncodeVarint(v)
IfNotZeroSize(v) == IF v = 0 THEN 0 ELSE 1 + Sov(v)

IfTrue(tag, v) == IF v THEN <<tag, 1>> ELSE <<>>
IfTrueSize(v) == IF v THEN 2 ELSE 0

(*********************************** reading *******************************)

Failed == [ok |-> FALSE]

(* The loop that reads a varint at position i: it ends with the first byte  *)
(* below 128, fails when the shift reaches the size of a word or the bytes  *)
(* end before that, and drops the bits that do not fit.  `next` is iNdEx    *)
(* after it.                                                                *)
ReadVarint(b, i) ==
    LET lasts == {k \in 0 .. (WordSize - 1) \div 7 : i + k < Len(b) /\ b[i + k + 1] < 128}
        bits(k) == (b[i + k + 1] % 128) * Pow2[7 * k]
        upTo(k) == Unsigned(SumFunction([j \in 0 .. k |-> bits(j)]), WordSize)
    IN  IF lasts = {} THEN Failed
        ELSE LET k == Min(lasts) IN [ok |-> TRUE, next |-> i + k + 1, val |-> upTo(k)]

(* The tag of a field, r being the varint it is in: fieldNum is cut to an   *)
(* int32, wireType is three bits.                                           *)
TagOf(r) ==
    IF r.ok THEN [ok |-> TRUE, next |-> r.next, wireType |-> r.val % 8,
                  fieldNum |-> ToSigned(r.val \div 8, HalfWord)]
            ELSE Failed
ReadTag(b, i) == TagOf(ReadVarint(b, i))

(* A length, r, and the check of postIndex: negative, overflowing and too   *)
(* long lengths fail.                                                       *)
DelimitedBy(b, r) ==
    LET postIndex == ToInt(r.next + ToInt(r.val))
    IN  IF r.ok /\ ToInt(r.val) >= 0 /\ postIndex >= 0 /\ postIndex <= Len(b)
        THEN [ok |-> TRUE, from |-> r.next, to |-> postIndex]
        ELSE Failed
ReadDelimited(b, i) == DelimitedBy(b, ReadVarint(b, i))

(* One round of skipTx's loop, at position i within `depth` groups: where   *)
(* the next one starts, and within how many groups.                         *)
SkipRound(s, i, depth) ==
    LET t == ReadTag(s, i)
        r == ReadVarint(s, t.next)
        to(n, d) == IF n < 0 THEN Failed ELSE [ok |-> TRUE, n |-> n, depth |-> d]
    IN  IF i >= Len(s) \/ ~t.ok THEN Failed
        ELSE CASE t.wireType = 0 -> IF r.ok THEN to(r.next, depth) ELSE Failed
               [] t.wireType = 1 -> to(t.next + 8, depth)
               [] t.wireType = 2 -> IF r.ok /\ ToInt(r.val) >= 0
                                    THEN to(ToInt(r.next + ToInt(r.val)), depth) ELSE Failed
               [] t.wireType = 3 -> to(t.next, depth + 1)
               [] t.wireType = 4 -> IF depth = 0 THEN Failed ELSE to(t.next, depth - 1)
               [] t.wireType = 5 -> to(t.next + 4, depth)
               [] OTHER -> Failed

(* skipTx: the length n of the field, or group of fields, that starts s.    *)
(* It may exceed the length of s, which the caller checks.                  *)
Skip(s) ==
    LET from[p \in Nat \X Nat] ==
            LET r == SkipRound(s, p[1], p[2])
            IN  IF ~r.ok \/ r.depth = 0 THEN r ELSE from[<<r.n, r.depth>>]
    IN from[<<0, 0>>]
=============================================================================
