---------------------------- MODULE CodecProofs -----------------------------
(***************************************************************************)
(* Proofs about Codec, for words of every size, every input and any number *)
(* of hops.                                                                *)
(***************************************************************************)
EXTENDS Codec, SequenceTheorems, SetInduction

-----------------------------------------------------------------------------
(* Words. *)

LEMMA WordFacts ==
    /\ WordSize \in Nat /\ WordSize >= 16 /\ HalfWord \in 8 .. WordSize - 8
    /\ WordSize - 1 \in 0 .. WordSize /\ HalfWord - 1 \in 0 .. WordSize /\ HalfWord \in 0 .. WordSize
  BY WordSizeAssumption DEF HalfWord

LEMMA VarintLength ==
    (WordSize - 1) \div 7 \in Nat /\ 7 * ((WordSize - 1) \div 7) <= WordSize - 1
  BY WordSizeAssumption

LEMMA Pow2Facts ==
    /\ \A n \in 0 .. WordSize : Pow2[n] \in Nat /\ Pow2[n] # 0
    /\ Pow2[0] = 1
    /\ \A n \in 1 .. WordSize : Pow2[n] = 2 * Pow2[n - 1]
  <1> DEFINE n == WordSize
             V == Nat \ {0}
             step == [i \in 1 .. n |-> [v \in V |-> 2 * v]]
             More(p, k) == IF k = 0 THEN 1 ELSE 2 * p[k - 1]
             Doubles(p) == p = [k \in 0 .. n |-> More(p, k)]
  <1>1. n \in Nat
    BY WordFacts
  <1>2. PICK f : IsRun(f, n, V, 1, step)
    <2>1. step \in Steps(n, V)
      <3>1. \A v \in V : 2 * v \in V
        OBVIOUS
      <3> HIDE DEF V
      <3> QED BY <3>1 DEF Steps
    <2>2. 1 \in V
      OBVIOUS
    <2> HIDE DEF step, V, n
    <2> QED BY <1>1, <2>1, <2>2, IntervalRecursion
  <1>3. f \in [0 .. n -> V] /\ f[0] = 1
    BY <1>2 DEF IsRun
  <1>4. ASSUME NEW i \in 1 .. n PROVE f[i] = 2 * f[i - 1]
    <2>1. f[i] = step[i][f[i - 1]] /\ f[i - 1] \in V
      BY <1>1, <1>2, <1>3 DEF IsRun
    <2> HIDE DEF V, n
    <2> QED BY <2>1
  <1>5. Doubles(f)
    <2>1. ASSUME NEW k \in 0 .. n PROVE f[k] = More(f, k)
      <3>1. k = 0 \/ k \in 1 .. n
        BY <1>1
      <3>2. 0 \notin 1 .. n
        BY <1>1
      <3> HIDE DEF V, n
      <3> QED BY <1>3, <1>4, <3>1, <3>2
    <2> HIDE DEF More, V, n
    <2> QED BY <1>3, <2>1
  <1>6. Pow2 = CHOOSE p : Doubles(p)
    BY DEF Pow2
  <1>7. Doubles(Pow2)
    <2> HIDE DEF Doubles
    <2> QED BY <1>5, <1>6
  <1>8. \A k \in 0 .. n : Pow2[k] = More(Pow2, k)
    BY <1>7
  <1>9. Pow2[0] = 1 /\ \A k \in 1 .. n : Pow2[k] = 2 * Pow2[k - 1]
    BY <1>1, <1>8
  <1> DEFINE S == {k \in 0 .. n : Pow2[k] \in V}
  <1>10. \A k \in 0 .. n : k \in S
    <2>1. 0 \in S
      BY <1>1, <1>9
    <2>2. \A k \in 1 .. n : k - 1 \in S => k \in S
      BY <1>1, <1>9
    <2> HIDE DEF S, n
    <2> QED BY <1>1, <2>1, <2>2, IntervalInduction
  <1> QED BY <1>9, <1>10

LEMMA Pow2Grows ==
    ASSUME NEW n \in 0 .. WordSize, NEW m \in 0 .. n
    PROVE  Pow2[m] <= Pow2[n]
  <1> DEFINE S == {k \in 0 .. n : m <= k => Pow2[m] <= Pow2[k]}
  <1>1. 0 \in S
    BY WordFacts, Pow2Facts
  <1>2. ASSUME NEW k \in 1 .. n, k - 1 \in S PROVE k \in S
    <2>1. Pow2[k] = 2 * Pow2[k - 1] /\ Pow2[k] \in Nat /\ Pow2[k - 1] \in Nat
      BY WordFacts, Pow2Facts
    <2> QED BY <1>2, <2>1, WordFacts, Pow2Facts
  <1>3. \A k \in 0 .. n : k \in S
    <2> HIDE DEF S
    <2> QED BY <1>1, <1>2, IntervalInduction, WordFacts
  <1> QED BY <1>3, WordFacts

LEMMA MaxLenFacts ==
    MaxLen \in Nat /\ MaxLen >= 127 /\ Pow2[WordSize] = 2 * (MaxLen + 1) /\ Pow2[WordSize - 1] = MaxLen + 1
  <1>1. Pow2[1] = 2 /\ Pow2[2] = 4 /\ Pow2[3] = 8 /\ Pow2[4] = 16 /\ Pow2[5] = 32 /\ Pow2[6] = 64 /\ Pow2[7] = 128
    BY WordFacts, Pow2Facts
  <1>2. Pow2[7] <= Pow2[WordSize - 1]
    BY WordFacts, Pow2Grows
  <1>3. Pow2[WordSize - 1] \in Nat /\ Pow2[WordSize] = 2 * Pow2[WordSize - 1]
    BY WordFacts, Pow2Facts
  <1> QED BY <1>1, <1>2, <1>3 DEF MaxLen

Half == 0 .. Pow2[HalfWord] - 1
Word == 0 .. Pow2[WordSize] - 1
SignedWord == -(MaxLen + 1) .. MaxLen

LEMMA UnsignedType ==
    ASSUME NEW v \in Int
    PROVE  Unsigned(v, WordSize) \in Word /\ Unsigned(v, HalfWord) \in Half
  <1>1. Pow2[WordSize] \in Nat \ {0} /\ Pow2[HalfWord] \in Nat \ {0}
    BY WordFacts, Pow2Facts
  <1> QED BY <1>1 DEF Unsigned, Word, Half

LEMMA SignedType ==
    ASSUME NEW v \in Int, NEW bits \in {HalfWord, WordSize}
    PROVE  ToSigned(v, bits) \in Int
  <1>1. Pow2[bits] \in Nat \ {0} /\ Pow2[bits - 1] \in Nat
    BY WordFacts, Pow2Facts
  <1>2. v % Pow2[bits] \in Int
    BY <1>1
  <1> QED BY <1>1, <1>2 DEF ToSigned, Unsigned

\* A word is an int of the same value, or negative.
LEMMA ToIntFacts ==
    /\ \A v \in Int : ToInt(v) \in SignedWord
    /\ \A v \in Word : ToInt(v) = IF v <= MaxLen THEN v ELSE v - 2 * (MaxLen + 1)
  <1> USE MaxLenFacts
  <1> DEFINE u(v) == v % Pow2[WordSize]
  <1>1. \A v \in Int : ToInt(v) = IF u(v) >= MaxLen + 1 THEN u(v) - Pow2[WordSize] ELSE u(v)
    BY DEF ToInt, ToSigned, Unsigned
  <1>2. \A v \in Int : u(v) \in Word
    BY DEF Word
  <1>3. \A v \in Word : u(v) = v
    BY DEF Word
  <1> HIDE DEF u
  <1>4. \A v \in Int : ToInt(v) \in SignedWord
    BY <1>1, <1>2 DEF Word, SignedWord
  <1>5. ASSUME NEW v \in Word PROVE ToInt(v) = IF v <= MaxLen THEN v ELSE v - 2 * (MaxLen + 1)
    <2>1. v \in Int /\ u(v) = v
      BY <1>3 DEF Word
    <2>2. ToInt(v) = IF v >= MaxLen + 1 THEN v - Pow2[WordSize] ELSE v
      BY <1>1, <2>1
    <2> QED BY <2>1, <2>2
  <1> QED BY <1>4, <1>5

LEMMA ToIntOf ==
    ASSUME NEW v \in Word
    PROVE  /\ ToInt(v) \in Int
           /\ ToInt(v) < 0 \/ ToInt(v) = v
           /\ ToInt(v) >= 0 => ToInt(v) = v /\ v \in 0 .. MaxLen
  BY ToIntFacts, MaxLenFacts DEF Word

-----------------------------------------------------------------------------
(* Reading. *)

\* Byte strings, and those that fit into a slice.
Str == Seq(Byte)
Slices == {b \in Str : Len(b) <= MaxLen}

\* A varint is read within the bytes, and it is a word.
LEMMA ReadVarintType ==
    ASSUME NEW b \in Str, NEW i \in Nat
    PROVE  ReadVarint(b, i) \in {Failed} \cup [ok : {TRUE}, next : i + 1 .. Len(b), val : Word]
  <1> DEFINE top == (WordSize - 1) \div 7
             lasts == {k \in 0 .. top : i + k < Len(b) /\ b[i + k + 1] < 128}
             bits(j) == (b[i + j + 1] % 128) * Pow2[7 * j]
             sum(k) == SumFunction([j \in 0 .. k |-> bits(j)])
             k == Min(lasts)
  <1>1. top \in Nat /\ 7 * top <= WordSize - 1
    BY VarintLength
  <1> HIDE DEF top
  <1>2. CASE lasts = {}
    BY <1>2 DEF ReadVarint, top
  <1>3. CASE lasts # {}
    <2>1. k \in lasts
      <3>1. IsFiniteSet(lasts)
        <4>1. IsFiniteSet(0 .. top)
          BY <1>1, FS_Interval
        <4> QED BY <4>1, FS_Subset
      <3>2. lasts \subseteq Nat
        BY <1>1
      <3> HIDE DEF lasts
      <3>3. \E n \in lasts : \A m \in lasts : n <= m
        BY <1>3, <3>1, <3>2, FiniteMin
      <3> QED BY <3>3 DEF Min
    <2>2. ReadVarint(b, i) = [ok |-> TRUE, next |-> i + k + 1, val |-> Unsigned(sum(k), WordSize)]
      BY <1>3 DEF ReadVarint, top
    <2>3. k \in 0 .. top /\ i + k < Len(b) /\ Len(b) \in Nat
      BY <2>1 DEF Str
    <2> HIDE DEF k
    <2>4. sum(k) \in Nat
      <3>1. ASSUME NEW j \in 0 .. k PROVE bits(j) \in Nat
        <4>1. i + j + 1 \in 1 .. Len(b) /\ j \in 0 .. top
          BY <1>1, <2>3
        <4>2. b[i + j + 1] \in Byte
          BY <4>1 DEF Str
        <4>3. b[i + j + 1] % 128 \in Nat
          BY <4>2 DEF Byte
        <4>4. 7 * j \in 0 .. WordSize
          BY <1>1, <4>1, WordFacts
        <4>5. Pow2[7 * j] \in Nat
          BY <4>4, Pow2Facts
        <4>6. \A x, y \in Nat : x * y \in Nat
          OBVIOUS
        <4> QED BY <4>3, <4>5, <4>6
      <3>2. IsFiniteSet(0 .. k)
        BY <2>3, FS_Interval
      <3> DEFINE w == [j \in 0 .. k |-> bits(j)]
      <3>3. w \in [0 .. k -> Nat]
        <4> HIDE DEF bits
        <4> QED BY <3>1
      <3>4. SumFunction(w) \in Nat
        <4> HIDE DEF w
        <4> QED BY <3>2, <3>3, TotalType
      <3> QED BY <3>4
    <2>5. Unsigned(sum(k), WordSize) \in Word
      <3> HIDE DEF sum
      <3> QED BY <2>4, UnsignedType
    <2> HIDE DEF sum
    <2>6. i + k + 1 \in i + 1 .. Len(b)
      BY <1>1, <2>3
    <2> QED BY <2>2, <2>5, <2>6
  <1> QED BY <1>2, <1>3

LEMMA ReadVarintOK ==
    ASSUME NEW b \in Str, NEW i \in Nat, ReadVarint(b, i).ok
    PROVE  ReadVarint(b, i).next \in i + 1 .. Len(b) /\ ReadVarint(b, i).val \in Word
  <1> DEFINE r == ReadVarint(b, i)
             R == [ok : {TRUE}, next : i + 1 .. Len(b), val : Word]
  <1>1. r \in {Failed} \cup R
    BY ReadVarintType
  <1>2. r # Failed
    BY DEF Failed
  <1>3. r \in R
    BY <1>1, <1>2
  <1> HIDE DEF r
  <1>4. r.next \in i + 1 .. Len(b) /\ r.val \in Word
    BY <1>3
  <1> QED BY <1>4 DEF r

LEMMA ReadTagType ==
    ASSUME NEW b \in Str, NEW i \in Nat
    PROVE  ReadTag(b, i) \in {Failed} \cup [ok : {TRUE}, next : i + 1 .. Len(b), wireType : 0 .. 7, fieldNum : Int]
  <1>1. CASE ReadVarint(b, i).ok
    <2> DEFINE r == ReadVarint(b, i)
    <2>1. r.next \in i + 1 .. Len(b) /\ r.val \in Word
      BY <1>1, ReadVarintOK
    <2> HIDE DEF r
    <2>2. r.val \in Int /\ r.val % 8 \in 0 .. 7 /\ r.val \div 8 \in Int
      BY <2>1 DEF Word
    <2>3. ToSigned(r.val \div 8, HalfWord) \in Int
      BY <2>2, SignedType
    <2>4. ReadTag(b, i) = [ok |-> TRUE, next |-> r.next, wireType |-> r.val % 8,
                           fieldNum |-> ToSigned(r.val \div 8, HalfWord)]
      BY <1>1 DEF ReadTag, TagOf, r
    <2> QED BY <2>1, <2>2, <2>3, <2>4
  <1>2. CASE ~ReadVarint(b, i).ok
    BY <1>2 DEF ReadTag, TagOf
  <1> QED BY <1>1, <1>2

\* Delimited bytes lie within the bytes, after the length; the sum of an index and
\* a length that overflows is negative.
LEMMA ReadDelimitedType ==
    ASSUME NEW b \in Slices, NEW i \in Nat
    PROVE  \/ ReadDelimited(b, i) = Failed
           \/ \E from, to \in i + 1 .. Len(b) :
                 /\ ReadDelimited(b, i) = [ok |-> TRUE, from |-> from, to |-> to]
                 /\ from <= to
  <1> DEFINE r == ReadVarint(b, i)
             post == ToInt(r.next + ToInt(r.val))
  <1>1. CASE r.ok /\ ToInt(r.val) >= 0 /\ post >= 0 /\ post <= Len(b)
    <2>1. Len(b) \in 0 .. MaxLen /\ b \in Str
      BY DEF Slices, Str
    <2>2. r.next \in i + 1 .. Len(b) /\ r.val \in Word
      BY <1>1, <2>1, ReadVarintOK
    <2>3. ReadDelimited(b, i) = [ok |-> TRUE, from |-> r.next, to |-> post]
      BY <1>1 DEF ReadDelimited, DelimitedBy
    <2> HIDE DEF r
    <2>4. ToInt(r.val) = r.val /\ r.val \in 0 .. MaxLen
      BY <1>1, <2>2, ToIntOf
    <2>5. r.next + r.val \in Word
      BY <2>1, <2>2, <2>4, MaxLenFacts DEF Word
    <2>6. post = r.next + r.val
      BY <1>1, <2>4, <2>5, ToIntOf
    <2>7. post \in i + 1 .. Len(b) /\ r.next <= post
      BY <1>1, <2>1, <2>2, <2>4, <2>6
    <2> HIDE DEF post
    <2> QED BY <2>2, <2>3, <2>7
  <1>2. CASE ~(r.ok /\ ToInt(r.val) >= 0 /\ post >= 0 /\ post <= Len(b))
    BY <1>2 DEF ReadDelimited, DelimitedBy
  <1> QED BY <1>1, <1>2

LEMMA SliceFacts ==
    ASSUME NEW b \in Slices, NEW from \in 0 .. Len(b), NEW to \in from .. Len(b)
    PROVE  Slice(b, from, to) \in Slices /\ Len(Slice(b, from, to)) = to - from
  <1>1. b \in Seq(Byte) /\ Len(b) \in Nat /\ Len(b) <= MaxLen
    BY DEF Slices, Str
  <1>2. \A i \in from + 1 .. to : b[i] \in Byte
    BY <1>1
  <1>3. /\ SubSeq(b, from + 1, to) \in Seq(Byte)
        /\ Len(SubSeq(b, from + 1, to)) = IF from + 1 <= to THEN to - (from + 1) + 1 ELSE 0
    <2>1. from + 1 \in Int /\ to \in Int
      BY <1>1
    <2> QED BY <1>2, <2>1, SubSeqProperties
  <1> QED BY <1>1, <1>3, MaxLenFacts DEF Slices, Str, Slice

\* Where a skipped field may end: not before its tag, and no further than a length
\* or a fixed-size value goes.
SkipEnds(s) == {n \in Nat : n >= 1 /\ (n <= MaxLen \/ n <= Len(s) + 8)}

LEMMA SkipRoundType ==
    ASSUME NEW s \in Slices, NEW i \in Nat, NEW depth \in Nat
    PROVE  \/ SkipRound(s, i, depth) = Failed
           \/ /\ SkipRound(s, i, depth) \in [ok : {TRUE}, n : SkipEnds(s), depth : Nat]
              /\ i < Len(s) /\ SkipRound(s, i, depth).n > i
  <1> DEFINE t == ReadTag(s, i)
             r == ReadVarint(s, t.next)
             to(n, d) == IF n < 0 THEN Failed ELSE [ok |-> TRUE, n |-> n, depth |-> d]
             q == SkipRound(s, i, depth)
             Good == q = Failed \/ /\ q \in [ok : {TRUE}, n : SkipEnds(s), depth : Nat]
                                   /\ i < Len(s) /\ q.n > i
  <1> SUFFICES Good
    OBVIOUS
  <1>1. s \in Str /\ Len(s) \in 0 .. MaxLen
    BY DEF Slices, Str
  <1>2. CASE i >= Len(s) \/ ~t.ok
    BY <1>2 DEF SkipRound
  <1>3. CASE ~(i >= Len(s) \/ ~t.ok)
    <2>1. t \in [ok : {TRUE}, next : i + 1 .. Len(s), wireType : 0 .. 7, fieldNum : Int]
      <3>1. t # Failed
        BY <1>3 DEF Failed
      <3> HIDE DEF Good
      <3> QED BY <1>1, <3>1, ReadTagType
    <2>2. q = CASE t.wireType = 0 -> IF r.ok THEN to(r.next, depth) ELSE Failed
                [] t.wireType = 1 -> to(t.next + 8, depth)
                [] t.wireType = 2 -> IF r.ok /\ ToInt(r.val) >= 0
                                     THEN to(ToInt(r.next + ToInt(r.val)), depth) ELSE Failed
                [] t.wireType = 3 -> to(t.next, depth + 1)
                [] t.wireType = 4 -> IF depth = 0 THEN Failed ELSE to(t.next, depth - 1)
                [] t.wireType = 5 -> to(t.next + 4, depth)
                [] OTHER -> Failed
      BY <1>3 DEF SkipRound
    <2> HIDE DEF q
    <2>3. t.next \in Nat /\ t.next >= i + 1 /\ t.next <= Len(s) /\ t.wireType \in 0 .. 7
      BY <2>1
    <2> HIDE DEF t
    <2>4. ASSUME r.ok PROVE r.next \in Nat /\ r.next > i /\ r.next <= Len(s) /\ r.val \in Word
      BY <1>1, <2>3, <2>4, ReadVarintOK
    <2> HIDE DEF r
    <2>5. ASSUME NEW n \in Int, NEW d \in Nat, q = to(n, d), n < 0 \/ (n > i /\ (n <= MaxLen \/ n <= Len(s) + 8))
          PROVE  Good
      <3>1. CASE n < 0
        BY <2>5, <3>1
      <3>2. CASE ~(n < 0)
        <4>1. n \in SkipEnds(s)
          BY <1>1, <2>5, <3>2 DEF SkipEnds
        <4>2. q = [ok |-> TRUE, n |-> n, depth |-> d]
          BY <2>5, <3>2
        <4>3. n > i /\ i < Len(s)
          BY <1>1, <1>3, <2>5, <3>2
        <4> QED BY <4>1, <4>2, <4>3
      <3> QED BY <3>1, <3>2
    <2> HIDE DEF to, Good
    <2>6. CASE q = Failed
      BY <2>6 DEF Good
    <2>7. CASE t.wireType = 0 /\ r.ok
      <3>1. q = to(r.next, depth)
        BY <2>2, <2>7
      <3> QED BY <1>1, <2>4, <2>5, <2>7, <3>1
    <2>8. CASE t.wireType \in {1, 5}
      <3>1. q = to(t.next + 8, depth) \/ q = to(t.next + 4, depth)
        BY <2>2, <2>8
      <3> QED BY <1>1, <2>3, <2>5, <3>1
    <2>9. CASE t.wireType = 2 /\ r.ok /\ ToInt(r.val) >= 0
      <3>1. q = to(ToInt(r.next + ToInt(r.val)), depth)
        BY <2>2, <2>9
      <3>2. r.next \in Nat /\ r.next > i /\ r.next <= Len(s) /\ r.val \in Word
        BY <2>4, <2>9
      <3>3. ToInt(r.val) = r.val /\ r.val \in 0 .. MaxLen
        BY <2>9, <3>2, ToIntOf
      <3>4. r.next + r.val \in Word
        BY <1>1, <3>2, <3>3, MaxLenFacts DEF Word
      <3> DEFINE e == r.next + r.val
      <3>5. e \in Int /\ e > i
        BY <3>2, <3>3
      <3>6. ToInt(e) \in Int /\ (ToInt(e) < 0 \/ (ToInt(e) = e /\ e <= MaxLen))
        <4> HIDE DEF e
        <4>1. e \in Word
          BY <3>4 DEF e
        <4> QED BY <3>5, <4>1, ToIntOf, MaxLenFacts
      <3>7. q = to(ToInt(e), depth)
        BY <3>1, <3>3
      <3> HIDE DEF e
      <3> QED BY <2>5, <3>5, <3>6, <3>7
    <2>10. CASE t.wireType = 3
      <3>1. q = to(t.next, depth + 1)
        BY <2>2, <2>10
      <3> QED BY <1>1, <2>3, <2>5, <3>1
    <2>11. CASE t.wireType = 4 /\ depth # 0
      <3>1. q = to(t.next, depth - 1) /\ depth - 1 \in Nat
        BY <2>2, <2>11
      <3> QED BY <1>1, <2>3, <2>5, <3>1
    <2>12. \/ q = Failed
           \/ t.wireType = 0 /\ r.ok
           \/ t.wireType \in {1, 5}
           \/ t.wireType = 2 /\ r.ok /\ ToInt(r.val) >= 0
           \/ t.wireType = 3
           \/ t.wireType = 4 /\ depth # 0
      BY <2>2, <2>3
    <2> QED BY <2>6, <2>7, <2>8, <2>9, <2>10, <2>11, <2>12
  <1> QED BY <1>2, <1>3

\* skipTx finds an end for every input: each round starts after the one before.
LEMMA SkipType ==
    ASSUME NEW s \in Slices
    PROVE  Skip(s) \in {Failed} \cup [ok : {TRUE}, n : SkipEnds(s), depth : Nat]
  <1> DEFINE D == Nat \X Nat
             V == {Failed} \cup [ok : {TRUE}, n : SkipEnds(s), depth : Nat]
             r(p) == SkipRound(s, p[1], p[2])
             stop == {p \in D : ~r(p).ok \/ r(p).depth = 0}
             base == [p \in D |-> r(p)]
             next == [p \in D |-> <<r(p).n, r(p).depth>>]
             step == [p \in D |-> [v \in V |-> v]]
             mu == [p \in D |-> IF p[1] < Len(s) THEN Len(s) - p[1] ELSE 0]
             More(f, p) == IF ~r(p).ok \/ r(p).depth = 0 THEN r(p) ELSE f[<<r(p).n, r(p).depth>>]
             Skips(f) == f = [p \in D |-> More(f, p)]
             from == CHOOSE f : Skips(f)
  <1>1. Skip(s) = from[<<0, 0>>]
    BY DEF Skip
  <1>2. Len(s) \in Nat
    BY DEF Slices, Str
  <1>3. ASSUME NEW p \in D
        PROVE  \/ r(p) = Failed
               \/ /\ r(p) \in [ok : {TRUE}, n : SkipEnds(s), depth : Nat]
                  /\ p[1] < Len(s) /\ r(p).n > p[1]
    BY SkipRoundType
  <1>4. ASSUME NEW p \in D \ stop
        PROVE  /\ r(p).n \in Nat /\ r(p).depth \in Nat
               /\ p[1] < Len(s) /\ r(p).n > p[1]
    <2>1. r(p) # Failed
      BY DEF Failed
    <2> HIDE DEF r
    <2>2. r(p) \in [ok : {TRUE}, n : SkipEnds(s), depth : Nat] /\ p[1] < Len(s) /\ r(p).n > p[1]
      BY <1>3, <2>1
    <2> QED BY <2>2 DEF SkipEnds
  <1>5. base \in [D -> V]
    <2> HIDE DEF r, D
    <2> QED BY <1>3
  <1>6. Descends(D, mu, stop, next)
    <2>1. mu \in [D -> Nat]
      <3>1. \A p \in D : p[1] \in Nat
        OBVIOUS
      <3> HIDE DEF D
      <3> QED BY <1>2, <3>1
    <2>2. ASSUME NEW p \in D \ stop PROVE next[p] \in D /\ mu[next[p]] < mu[p]
      <3>1. p \in D
        OBVIOUS
      <3> DEFINE n == r(p).n
                 d == r(p).depth
      <3>2. n \in Nat /\ d \in Nat /\ p[1] < Len(s) /\ n > p[1] /\ p[1] \in Nat
        BY <1>4
      <3>3. next[p] = <<n, d>>
        <4> HIDE DEF D, r, stop
        <4> QED BY <3>1
      <3>4. next[p] \in D
        <4> HIDE DEF next, n, d
        <4> QED BY <3>2, <3>3
      <3>5. mu[p] = Len(s) - p[1]
        <4> HIDE DEF D, r, stop
        <4> QED BY <3>1, <3>2
      <3>6. mu[next[p]] = IF n < Len(s) THEN Len(s) - n ELSE 0
        <4>1. next[p][1] = n
          <5> HIDE DEF next, n, d
          <5> QED BY <3>3
        <4> HIDE DEF D, r, stop, next, n, d
        <4> QED BY <3>4, <4>1
      <3> HIDE DEF D, n, d, stop, mu, next
      <3> QED BY <1>2, <3>2, <3>4, <3>5, <3>6
    <2> HIDE DEF mu, D, stop, next
    <2> QED BY <2>1, <2>2 DEF Descends
  <1>7. \A p \in D \ stop : step[p] \in [V -> V]
    <2> HIDE DEF V, D
    <2> QED OBVIOUS
  <1>8. ASSUME NEW f, NEW p \in D
        PROVE  More(f, p) = IF p \in stop THEN base[p] ELSE f[next[p]]
    <2> HIDE DEF r, D
    <2> QED OBVIOUS
  <1> HIDE DEF base, next, step, mu, stop, V
  <1>9. PICK f : IsDescent(f, D, V, stop, base, next, step)
    <2> HIDE DEF D
    <2> QED BY <1>5, <1>6, <1>7, DescentRecursion
  <1>10. f \in [D -> V]
    BY <1>9 DEF IsDescent
  <1>11. ASSUME NEW p \in D PROVE f[p] = IF p \in stop THEN base[p] ELSE f[next[p]]
    <2>1. f[p] = IF p \in stop THEN base[p] ELSE step[p][f[next[p]]]
      BY <1>9 DEF IsDescent
    <2>2. CASE p \notin stop
      <3>1. next[p] \in D
        BY <1>6, <2>2 DEF Descends
      <3>2. f[next[p]] \in V
        BY <1>10, <3>1
      <3>3. step[p][f[next[p]]] = f[next[p]]
        <4> HIDE DEF D
        <4> QED BY <3>2 DEF step
      <3> QED BY <2>1, <2>2, <3>3
    <2> HIDE DEF D
    <2> QED BY <2>1, <2>2
  <1>12. Skips(from)
    <2>1. \A p \in D : f[p] = More(f, p)
      <3> HIDE DEF More, D
      <3> QED BY <1>8, <1>11
    <2>2. Skips(f)
      <3> HIDE DEF More, D
      <3> QED BY <1>10, <2>1
    <2> HIDE DEF Skips
    <2> QED BY <2>2
  <1> HIDE DEF from
  <1>13. ASSUME NEW p \in D PROVE from[p] = IF p \in stop THEN base[p] ELSE from[next[p]]
    <2>1. from[p] = More(from, p)
      <3> HIDE DEF More, D
      <3> QED BY <1>12
    <2> HIDE DEF More, D
    <2> QED BY <1>8, <2>1
  <1>14. ASSUME NEW p \in D PROVE f[p] = from[p]
    <2> DEFINE W == {f[x] : x \in D} \cup {from[x] : x \in D}
               id == [x \in D |-> [v \in W |-> v]]
    <2>1. ASSUME NEW x \in D \ stop
          PROVE  id[x][f[next[x]]] = f[next[x]] /\ id[x][from[next[x]]] = from[next[x]]
      <3>1. next[x] \in D
        BY <1>6 DEF Descends
      <3>2. f[next[x]] \in W /\ from[next[x]] \in W
        BY <3>1
      <3> HIDE DEF W, D
      <3> QED BY <3>2
    <2> HIDE DEF id, D
    <2>2. GoesBack(f, D, stop, base, next, id)
      BY <1>11, <2>1 DEF GoesBack
    <2>3. GoesBack(from, D, stop, base, next, id)
      BY <1>13, <2>1 DEF GoesBack
    <2> QED BY <1>6, <2>2, <2>3, DescentUnique
  <1>15. <<0, 0>> \in D
    OBVIOUS
  <1>16. from[<<0, 0>>] \in V
    BY <1>10, <1>14, <1>15
  <1> QED BY <1>1, <1>16 DEF V


-----------------------------------------------------------------------------
(* The messages. *)

\* A pointer to an embedded message, and a map of byte strings.
Ptr(S) == {<<>>} \cup {<<m>> : m \in S}
Registries == UNION {[K -> Str] : K \in {K \in SUBSET Str : IsFiniteSet(K)}}

GogoCoins == [denom : Str, amount : Str]
GogoParams ==
    [maxBundleSize : Half, escrowAccountAddress : Str, reserveFee : GogoCoins,
     minBidIncrement : GogoCoins, frontRunningProtection : BOOLEAN, proposerFee : Str]
GogoMessages ==
    [Coin |-> GogoCoins, Params |-> GogoParams, GenesisState |-> [params : GogoParams],
     MsgAuctionBid |-> [bidder : Str, bid : GogoCoins, transactions : Seq(Str)],
     MsgAuctionBidResponse |-> {<<>>},
     MsgUpdateParams |-> [authority : Str, params : GogoParams],
     MsgUpdateParamsResponse |-> {<<>>}, QueryParamsRequest |-> {<<>>},
     QueryParamsResponse |-> [params : GogoParams]]

PulsarCoins == [denom : Str, amount : Str, unknown : Str]
PulsarParams ==
    [maxBundleSize : Half, escrowAccountAddress : Str, reserveFee : Ptr(PulsarCoins),
     minBidIncrement : Ptr(PulsarCoins), frontRunningProtection : BOOLEAN, proposerFee : Str,
     unknown : Str]
PulsarMessages ==
    [Coin |-> PulsarCoins, Params |-> PulsarParams,
     GenesisState |-> [params : Ptr(PulsarParams), unknown : Str],
     MsgAuctionBid |-> [bidder : Str, bid : Ptr(PulsarCoins), transactions : Seq(Str), unknown : Str],
     MsgAuctionBidResponse |-> [unknown : Str],
     MsgUpdateParams |-> [authority : Str, params : Ptr(PulsarParams), unknown : Str],
     MsgUpdateParamsResponse |-> [unknown : Str], QueryParamsRequest |-> [unknown : Str],
     QueryParamsResponse |-> [params : Ptr(PulsarParams), unknown : Str],
     Module |-> [authority : Str, unknown : Str],
     AuctionInfo |-> [extendedCommitInfo : Str, maxTxBytes : SignedWord, numTxs : Word, unknown : Str],
     VoteExtensionInfo |-> [registry : Registries, unknown : Str],
     RegistryEntry |-> [key : Str, value : Str]]

Types(c) == IF c = "gogo" THEN DOMAIN GogoMessages ELSE DOMAIN PulsarMessages
Messages(c, t) == IF c = "gogo" THEN GogoMessages[t] ELSE PulsarMessages[t]

\* The values of the field that a case of the switch assigns.
FieldSet(c, k) ==
    CASE k.kind = "uint32" -> Half
      [] k.kind = "uint64" -> Word
      [] k.kind = "int64" -> SignedWord
      [] k.kind = "bool" -> BOOLEAN
      [] k.kind \in {"bytes", "number"} -> Str
      [] k.kind = "repeated" -> Seq(Str)
      [] k.kind = "embedded" -> IF k.type = "RegistryEntry" THEN Registries
                                ELSE IF c = "gogo" THEN Messages(c, k.type) ELSE Ptr(Messages(c, k.type))

VarintKinds == {"uint32", "uint64", "int64", "bool"}
DelimitedKinds == {"bytes", "number", "repeated", "embedded"}

\* The messages M have a field with the values S.
Has(M, name, S) ==
    /\ \A m \in M : m[name] \in S
    /\ \A m \in M, v \in S : [m EXCEPT ![name] = v] \in M

\* The fields that are embedded messages.
Embeddings == {"reserveFee", "minBidIncrement", "bid", "params", "registry"}

\* The case k assigns to a field that the messages M have.
IsField(c, k, M) ==
    /\ k.wireType = 0 => k.kind \in VarintKinds
    /\ k.wireType # 0 => k.kind \in DelimitedKinds
    /\ k.kind = "embedded" => k.type \in Types(c) /\ k.name \in Embeddings
    /\ Has(M, k.name, FieldSet(c, k))

LEMMA CaseFields ==
    ASSUME NEW c, NEW M, NEW name
    PROVE  /\ Has(M, name, Str) => IsField(c, Bytes(name), M) /\ IsField(c, Number(name), M)
           /\ Has(M, name, Seq(Str)) => IsField(c, Repeated(name), M)
           /\ Has(M, name, Half) => IsField(c, Varint(name, "uint32"), M)
           /\ Has(M, name, Word) => IsField(c, Varint(name, "uint64"), M)
           /\ Has(M, name, SignedWord) => IsField(c, Varint(name, "int64"), M)
           /\ Has(M, name, BOOLEAN) => IsField(c, Varint(name, "bool"), M)
  <1> USE DEF IsField, FieldSet, Bytes, Number, Repeated, Varint, Case, VarintKinds, DelimitedKinds
  <1>1. Has(M, name, Str) => IsField(c, Bytes(name), M)
    OBVIOUS
  <1>2. Has(M, name, Str) => IsField(c, Number(name), M)
    OBVIOUS
  <1>3. Has(M, name, Seq(Str)) => IsField(c, Repeated(name), M)
    OBVIOUS
  <1>4. Has(M, name, Half) => IsField(c, Varint(name, "uint32"), M)
    OBVIOUS
  <1>5. Has(M, name, Word) => IsField(c, Varint(name, "uint64"), M)
    OBVIOUS
  <1>6. Has(M, name, SignedWord) => IsField(c, Varint(name, "int64"), M)
    OBVIOUS
  <1>7. Has(M, name, BOOLEAN) => IsField(c, Varint(name, "bool"), M)
    OBVIOUS
  <1> QED BY <1>1, <1>2, <1>3, <1>4, <1>5, <1>6, <1>7

LEMMA GogoCoinFields ==
    Has(GogoCoins, "denom", Str) /\ Has(GogoCoins, "amount", Str)
  BY DEF Has, GogoCoins

LEMMA GogoParamsFields ==
    /\ Has(GogoParams, "maxBundleSize", Half)
    /\ Has(GogoParams, "escrowAccountAddress", Str)
    /\ Has(GogoParams, "reserveFee", GogoCoins)
    /\ Has(GogoParams, "minBidIncrement", GogoCoins)
    /\ Has(GogoParams, "frontRunningProtection", BOOLEAN)
    /\ Has(GogoParams, "proposerFee", Str)
  BY DEF Has, GogoParams

LEMMA EmbeddedFields ==
    ASSUME NEW M, NEW name \in Embeddings
    PROVE  /\ \A t \in DOMAIN GogoMessages :
                 Has(M, name, GogoMessages[t]) => IsField("gogo", Embedded(name, t), M)
           /\ \A c \in {"pulsar", "discard"}, t \in DOMAIN PulsarMessages \ {"RegistryEntry"} :
                 Has(M, name, Ptr(PulsarMessages[t])) => IsField(c, Embedded(name, t), M)
           /\ \A c \in {"pulsar", "discard"} :
                 Has(M, name, Registries) => IsField(c, Embedded(name, "RegistryEntry"), M)
  <1> USE DEF IsField, FieldSet, Embedded, Case, VarintKinds, DelimitedKinds, Types, Messages
  <1>1. ASSUME NEW t \in DOMAIN GogoMessages, Has(M, name, GogoMessages[t])
        PROVE  IsField("gogo", Embedded(name, t), M)
    <2>1. t # "RegistryEntry"
      BY DEF GogoMessages
    <2> QED BY <1>1, <2>1
  <1>2. ASSUME NEW c \in {"pulsar", "discard"}, NEW t \in DOMAIN PulsarMessages, t # "RegistryEntry",
               Has(M, name, Ptr(PulsarMessages[t]))
        PROVE  IsField(c, Embedded(name, t), M)
    BY <1>2
  <1>3. ASSUME NEW c \in {"pulsar", "discard"}, Has(M, name, Registries)
        PROVE  IsField(c, Embedded(name, "RegistryEntry"), M)
    <2>1. "RegistryEntry" \in DOMAIN PulsarMessages
      BY DEF PulsarMessages
    <2> QED BY <1>3, <2>1
  <1> QED BY <1>1, <1>2, <1>3

\* Every case of a switch assigns to a field of the message.
IsTable(c, cases, M) == \A n \in DOMAIN cases : n \in Nat /\ IsField(c, cases[n], M)

LEMMA GogoTypes ==
    /\ DOMAIN GogoMessages =
          {"Coin", "Params", "GenesisState", "MsgAuctionBid", "MsgAuctionBidResponse", "MsgUpdateParams",
           "MsgUpdateParamsResponse", "QueryParamsRequest", "QueryParamsResponse"}
    /\ GogoMessages["Coin"] = GogoCoins /\ GogoMessages["Params"] = GogoParams
  BY DEF GogoMessages

LEMMA GogoTables ==
    ASSUME NEW t \in DOMAIN GogoMessages
    PROVE  IsTable("gogo", G!Unmarshal[t], GogoMessages[t])
  <1> USE DEF G!Bytes, Bytes, G!Number, Number, G!Repeated, Repeated, G!Varint, Varint,
              G!Embedded, Embedded, G!Case, Case, G!NoFields
  <1>1. CASE t = "Coin"
    <2>1. G!Unmarshal[t] = <<Bytes("denom"), Number("amount")>>
      BY <1>1 DEF G!Unmarshal, G!UnmarshalCoin
    <2>2. /\ IsField("gogo", Bytes("denom"), GogoCoins)
          /\ IsField("gogo", Number("amount"), GogoCoins)
      BY GogoCoinFields, CaseFields
    <2> HIDE DEF Bytes, Number
    <2> QED BY <1>1, <2>1, <2>2, GogoTypes DEF IsTable
  <1>2. CASE t = "Params"
    <2>1. G!Unmarshal[t] = <<Varint("maxBundleSize", "uint32"), Bytes("escrowAccountAddress"),
                             Embedded("reserveFee", "Coin"), Embedded("minBidIncrement", "Coin"),
                             Varint("frontRunningProtection", "bool"), Number("proposerFee")>>
      BY <1>2 DEF G!Unmarshal, G!UnmarshalParams
    <2>2. /\ IsField("gogo", Varint("maxBundleSize", "uint32"), GogoParams)
          /\ IsField("gogo", Bytes("escrowAccountAddress"), GogoParams)
          /\ IsField("gogo", Varint("frontRunningProtection", "bool"), GogoParams)
          /\ IsField("gogo", Number("proposerFee"), GogoParams)
      BY GogoParamsFields, CaseFields
    <2> HIDE DEF Bytes, Number, Varint, Embedded
    <2>3. /\ IsField("gogo", Embedded("reserveFee", "Coin"), GogoParams)
          /\ IsField("gogo", Embedded("minBidIncrement", "Coin"), GogoParams)
      BY GogoParamsFields, EmbeddedFields, GogoTypes DEF Embeddings
    <2> QED BY <1>2, <2>1, <2>2, <2>3, GogoTypes DEF IsTable
  <1>3. CASE t \in {"GenesisState", "QueryParamsResponse"}
    <2> DEFINE M == [params : GogoParams]
    <2>1. G!Unmarshal[t] = <<Embedded("params", "Params")>>
      BY <1>3 DEF G!Unmarshal, G!UnmarshalGenesisState, G!UnmarshalQueryParamsResponse
    <2> HIDE DEF Embedded
    <2>2. Has(M, "params", GogoParams)
      BY DEF Has
    <2>3. GogoMessages[t] = M
      <3>1. GogoMessages["GenesisState"] = M
        BY DEF GogoMessages
      <3>2. GogoMessages["QueryParamsResponse"] = M
        BY DEF GogoMessages
      <3> QED BY <1>3, <3>1, <3>2
    <2> HIDE DEF M
    <2>4. IsField("gogo", Embedded("params", "Params"), M)
      BY <2>2, EmbeddedFields, GogoTypes DEF Embeddings
    <2> QED BY <2>1, <2>3, <2>4 DEF IsTable
  <1>4. CASE t = "MsgAuctionBid"
    <2> DEFINE M == [bidder : Str, bid : GogoCoins, transactions : Seq(Str)]
    <2>1. G!Unmarshal[t] = <<Bytes("bidder"), Embedded("bid", "Coin"), Repeated("transactions")>>
      BY <1>4 DEF G!Unmarshal, G!UnmarshalMsgAuctionBid
    <2> HIDE DEF Bytes, Embedded, Repeated
    <2>2. Has(M, "bidder", Str) /\ Has(M, "bid", GogoCoins) /\ Has(M, "transactions", Seq(Str))
      BY DEF Has
    <2>3. GogoMessages[t] = M
      BY <1>4 DEF GogoMessages
    <2> HIDE DEF M
    <2>4. IsField("gogo", Bytes("bidder"), M) /\ IsField("gogo", Repeated("transactions"), M)
      BY <2>2, CaseFields
    <2>5. IsField("gogo", Embedded("bid", "Coin"), M)
      BY <2>2, EmbeddedFields, GogoTypes DEF Embeddings
    <2> QED BY <2>1, <2>3, <2>4, <2>5 DEF IsTable
  <1>5. CASE t = "MsgUpdateParams"
    <2> DEFINE M == [authority : Str, params : GogoParams]
    <2>1. G!Unmarshal[t] = <<Bytes("authority"), Embedded("params", "Params")>>
      BY <1>5 DEF G!Unmarshal, G!UnmarshalMsgUpdateParams
    <2> HIDE DEF Bytes, Embedded
    <2>2. Has(M, "authority", Str) /\ Has(M, "params", GogoParams)
      BY DEF Has
    <2>3. GogoMessages[t] = M
      BY <1>5 DEF GogoMessages
    <2> HIDE DEF M
    <2>4. IsField("gogo", Bytes("authority"), M) /\ IsField("gogo", Embedded("params", "Params"), M)
      BY <2>2, CaseFields, EmbeddedFields, GogoTypes DEF Embeddings
    <2> QED BY <2>1, <2>3, <2>4 DEF IsTable
  <1>6. CASE t \in {"MsgAuctionBidResponse", "MsgUpdateParamsResponse", "QueryParamsRequest"}
    <2>1. G!Unmarshal[t] = <<>>
      BY <1>6 DEF G!Unmarshal, G!UnmarshalMsgAuctionBidResponse, G!UnmarshalMsgUpdateParamsResponse,
                  G!UnmarshalQueryParamsRequest
    <2> QED BY <2>1 DEF IsTable
  <1> QED BY <1>1, <1>2, <1>3, <1>4, <1>5, <1>6, GogoTypes

LEMMA PulsarTypes ==
    /\ DOMAIN PulsarMessages =
          {"Coin", "Params", "GenesisState", "MsgAuctionBid", "MsgAuctionBidResponse", "MsgUpdateParams",
           "MsgUpdateParamsResponse", "QueryParamsRequest", "QueryParamsResponse", "Module", "AuctionInfo",
           "VoteExtensionInfo", "RegistryEntry"}
    /\ PulsarMessages["Coin"] = PulsarCoins /\ PulsarMessages["Params"] = PulsarParams
    /\ PulsarMessages["RegistryEntry"] = [key : Str, value : Str]
  BY DEF PulsarMessages

LEMMA PulsarCoinFields ==
    Has(PulsarCoins, "denom", Str) /\ Has(PulsarCoins, "amount", Str) /\ Has(PulsarCoins, "unknown", Str)
  BY DEF Has, PulsarCoins

LEMMA PulsarParamsFields ==
    /\ Has(PulsarParams, "maxBundleSize", Half)
    /\ Has(PulsarParams, "escrowAccountAddress", Str)
    /\ Has(PulsarParams, "reserveFee", Ptr(PulsarCoins))
    /\ Has(PulsarParams, "minBidIncrement", Ptr(PulsarCoins))
    /\ Has(PulsarParams, "frontRunningProtection", BOOLEAN)
    /\ Has(PulsarParams, "proposerFee", Str)
    /\ Has(PulsarParams, "unknown", Str)
  BY DEF Has, PulsarParams

\* The unknown fields are a field of every message, but not of a map entry.
KeepsUnknown(t) == t # "RegistryEntry" => Has(PulsarMessages[t], "unknown", Str)

LEMMA PulsarTables ==
    ASSUME NEW c \in {"pulsar", "discard"}, NEW t \in DOMAIN PulsarMessages
    PROVE  IsTable(c, P!Unmarshal[t], PulsarMessages[t]) /\ KeepsUnknown(t)
  <1> USE DEF P!Bytes, Bytes, P!Repeated, Repeated, P!Varint, Varint, P!Embedded, Embedded,
              P!Case, Case, P!NoFields, KeepsUnknown
  <1>1. CASE t = "Coin"
    <2>1. P!Unmarshal[t] = <<Bytes("denom"), Bytes("amount")>>
      BY <1>1 DEF P!Unmarshal, P!UnmarshalCoin
    <2>2. IsField(c, Bytes("denom"), PulsarCoins) /\ IsField(c, Bytes("amount"), PulsarCoins)
      BY PulsarCoinFields, CaseFields
    <2> HIDE DEF Bytes
    <2> QED BY <1>1, <2>1, <2>2, PulsarTypes, PulsarCoinFields DEF IsTable
  <1>2. CASE t = "Params"
    <2>1. P!Unmarshal[t] = <<Varint("maxBundleSize", "uint32"), Bytes("escrowAccountAddress"),
                             Embedded("reserveFee", "Coin"), Embedded("minBidIncrement", "Coin"),
                             Varint("frontRunningProtection", "bool"), Bytes("proposerFee")>>
      BY <1>2 DEF P!Unmarshal, P!UnmarshalParams
    <2>2. /\ IsField(c, Varint("maxBundleSize", "uint32"), PulsarParams)
          /\ IsField(c, Bytes("escrowAccountAddress"), PulsarParams)
          /\ IsField(c, Varint("frontRunningProtection", "bool"), PulsarParams)
          /\ IsField(c, Bytes("proposerFee"), PulsarParams)
      BY PulsarParamsFields, CaseFields
    <2> HIDE DEF Bytes, Varint, Embedded
    <2>3. /\ IsField(c, Embedded("reserveFee", "Coin"), PulsarParams)
          /\ IsField(c, Embedded("minBidIncrement", "Coin"), PulsarParams)
      BY PulsarParamsFields, EmbeddedFields, PulsarTypes DEF Embeddings
    <2> QED BY <1>2, <2>1, <2>2, <2>3, PulsarTypes, PulsarParamsFields DEF IsTable
  <1>3. CASE t \in {"GenesisState", "QueryParamsResponse"}
    <2> DEFINE M == [params : Ptr(PulsarParams), unknown : Str]
    <2>1. P!Unmarshal[t] = <<Embedded("params", "Params")>>
      BY <1>3 DEF P!Unmarshal, P!UnmarshalGenesisState, P!UnmarshalQueryParamsResponse
    <2> HIDE DEF Embedded
    <2>2. Has(M, "params", Ptr(PulsarParams)) /\ Has(M, "unknown", Str)
      BY DEF Has
    <2>3. PulsarMessages[t] = M
      <3>1. PulsarMessages["GenesisState"] = M
        BY DEF PulsarMessages
      <3>2. PulsarMessages["QueryParamsResponse"] = M
        BY DEF PulsarMessages
      <3> QED BY <1>3, <3>1, <3>2
    <2> HIDE DEF M
    <2>4. IsField(c, Embedded("params", "Params"), M)
      BY <2>2, EmbeddedFields, PulsarTypes DEF Embeddings
    <2> QED BY <2>1, <2>2, <2>3, <2>4 DEF IsTable
  <1>4. CASE t = "MsgAuctionBid"
    <2> DEFINE M == [bidder : Str, bid : Ptr(PulsarCoins), transactions : Seq(Str), unknown : Str]
    <2>1. P!Unmarshal[t] = <<Bytes("bidder"), Embedded("bid", "Coin"), Repeated("transactions")>>
      BY <1>4 DEF P!Unmarshal, P!UnmarshalMsgAuctionBid
    <2> HIDE DEF Bytes, Embedded, Repeated
    <2>2. /\ Has(M, "bidder", Str) /\ Has(M, "bid", Ptr(PulsarCoins))
          /\ Has(M, "transactions", Seq(Str)) /\ Has(M, "unknown", Str)
      BY DEF Has
    <2>3. PulsarMessages[t] = M
      BY <1>4 DEF PulsarMessages
    <2> HIDE DEF M
    <2>4. IsField(c, Bytes("bidder"), M) /\ IsField(c, Repeated("transactions"), M)
      BY <2>2, CaseFields
    <2>5. IsField(c, Embedded("bid", "Coin"), M)
      BY <2>2, EmbeddedFields, PulsarTypes DEF Embeddings
    <2> QED BY <2>1, <2>2, <2>3, <2>4, <2>5 DEF IsTable
  <1>5. CASE t = "MsgUpdateParams"
    <2> DEFINE M == [authority : Str, params : Ptr(PulsarParams), unknown : Str]
    <2>1. P!Unmarshal[t] = <<Bytes("authority"), Embedded("params", "Params")>>
      BY <1>5 DEF P!Unmarshal, P!UnmarshalMsgUpdateParams
    <2> HIDE DEF Bytes, Embedded
    <2>2. Has(M, "authority", Str) /\ Has(M, "params", Ptr(PulsarParams)) /\ Has(M, "unknown", Str)
      BY DEF Has
    <2>3. PulsarMessages[t] = M
      BY <1>5 DEF PulsarMessages
    <2> HIDE DEF M
    <2>4. IsField(c, Bytes("authority"), M) /\ IsField(c, Embedded("params", "Params"), M)
      BY <2>2, CaseFields, EmbeddedFields, PulsarTypes DEF Embeddings
    <2> QED BY <2>1, <2>2, <2>3, <2>4 DEF IsTable
  <1>6. CASE t \in {"MsgAuctionBidResponse", "MsgUpdateParamsResponse", "QueryParamsRequest"}
    <2> DEFINE M == [unknown : Str]
    <2>1. P!Unmarshal[t] = <<>>
      BY <1>6 DEF P!Unmarshal, P!UnmarshalMsgAuctionBidResponse, P!UnmarshalMsgUpdateParamsResponse,
                  P!UnmarshalQueryParamsRequest
    <2>2. Has(M, "unknown", Str)
      BY DEF Has
    <2>3. PulsarMessages[t] = M
      <3>1. PulsarMessages["MsgAuctionBidResponse"] = M
        BY DEF PulsarMessages
      <3>2. PulsarMessages["MsgUpdateParamsResponse"] = M
        BY DEF PulsarMessages
      <3>3. PulsarMessages["QueryParamsRequest"] = M
        BY DEF PulsarMessages
      <3> QED BY <1>6, <3>1, <3>2, <3>3
    <2> HIDE DEF M
    <2> QED BY <2>1, <2>2, <2>3 DEF IsTable
  <1>7. CASE t = "Module"
    <2> DEFINE M == [authority : Str, unknown : Str]
    <2>1. P!Unmarshal[t] = [n \in {2} |-> Bytes("authority")]
      BY <1>7 DEF P!Unmarshal, P!UnmarshalModule
    <2> HIDE DEF Bytes
    <2>2. Has(M, "authority", Str) /\ Has(M, "unknown", Str)
      BY DEF Has
    <2>3. PulsarMessages[t] = M
      BY <1>7 DEF PulsarMessages
    <2> HIDE DEF M
    <2>4. IsField(c, Bytes("authority"), M)
      BY <2>2, CaseFields
    <2> QED BY <2>1, <2>2, <2>3, <2>4 DEF IsTable
  <1>8. CASE t = "AuctionInfo"
    <2> DEFINE M == [extendedCommitInfo : Str, maxTxBytes : SignedWord, numTxs : Word, unknown : Str]
    <2>1. P!Unmarshal[t] = <<Bytes("extendedCommitInfo"), Varint("maxTxBytes", "int64"),
                             Varint("numTxs", "uint64")>>
      BY <1>8 DEF P!Unmarshal, P!UnmarshalAuctionInfo
    <2> HIDE DEF Bytes, Varint
    <2>2. /\ Has(M, "extendedCommitInfo", Str) /\ Has(M, "maxTxBytes", SignedWord)
          /\ Has(M, "numTxs", Word) /\ Has(M, "unknown", Str)
      BY DEF Has
    <2>3. PulsarMessages[t] = M
      BY <1>8 DEF PulsarMessages
    <2> HIDE DEF M
    <2>4. /\ IsField(c, Bytes("extendedCommitInfo"), M)
          /\ IsField(c, Varint("maxTxBytes", "int64"), M)
          /\ IsField(c, Varint("numTxs", "uint64"), M)
      BY <2>2, CaseFields
    <2> QED BY <2>1, <2>2, <2>3, <2>4 DEF IsTable
  <1>9. CASE t = "VoteExtensionInfo"
    <2> DEFINE M == [registry : Registries, unknown : Str]
    <2>1. P!Unmarshal[t] = [n \in {2} |-> Embedded("registry", "RegistryEntry")]
      BY <1>9 DEF P!Unmarshal, P!UnmarshalVoteExtensionInfo
    <2> HIDE DEF Embedded
    <2>2. Has(M, "registry", Registries) /\ Has(M, "unknown", Str)
      BY DEF Has
    <2>3. PulsarMessages[t] = M
      BY <1>9 DEF PulsarMessages
    <2> HIDE DEF M
    <2>4. IsField(c, Embedded("registry", "RegistryEntry"), M)
      BY <2>2, EmbeddedFields DEF Embeddings
    <2> QED BY <2>1, <2>2, <2>3, <2>4 DEF IsTable
  <1>10. CASE t = "RegistryEntry"
    <2> DEFINE M == [key : Str, value : Str]
    <2>1. P!Unmarshal[t] = <<Bytes("key"), Bytes("value")>>
      BY <1>10 DEF P!Unmarshal, P!UnmarshalRegistryEntry
    <2> HIDE DEF Bytes
    <2>2. Has(M, "key", Str) /\ Has(M, "value", Str)
      BY DEF Has
    <2>3. PulsarMessages[t] = M
      BY <1>10, PulsarTypes
    <2> HIDE DEF M
    <2>4. IsField(c, Bytes("key"), M) /\ IsField(c, Bytes("value"), M)
      BY <2>2, CaseFields
    <2> QED BY <1>10, <2>1, <2>3, <2>4 DEF IsTable
  <1> QED BY <1>1, <1>2, <1>3, <1>4, <1>5, <1>6, <1>7, <1>8, <1>9, <1>10, PulsarTypes

AllCodecs == {"gogo", "pulsar", "discard"}

LEMMA Tables ==
    ASSUME NEW c \in AllCodecs, NEW t \in Types(c)
    PROVE  /\ IsTable(c, Cases(c, t), Messages(c, t))
           /\ c # "gogo" /\ t # "RegistryEntry" => Has(Messages(c, t), "unknown", Str)
  <1>1. CASE c = "gogo"
    BY <1>1, GogoTables DEF Types, Cases, Messages
  <1>2. CASE c # "gogo"
    BY <1>2, PulsarTables DEF Types, Cases, Messages, KeepsUnknown, AllCodecs
  <1> QED BY <1>1, <1>2

LEMMA EmptyStr ==
    <<>> \in Str /\ <<>> \in Slices /\ <<>> \in Registries /\ \A S : <<>> \in Seq(S) /\ <<>> \in Ptr(S)
  <1>1. <<>> \in Str /\ \A S : <<>> \in Seq(S) /\ <<>> \in Ptr(S)
    BY DEF Str, Ptr
  <1>2. <<>> \in Slices
    BY <1>1, MaxLenFacts DEF Slices
  <1>3. <<>> \in [{} -> Str] /\ IsFiniteSet({})
    BY FS_EmptySet
  <1> QED BY <1>1, <1>2, <1>3 DEF Registries

LEMMA ZeroWords ==
    0 \in Half /\ 0 \in Word /\ 0 \in SignedWord
  <1>1. Pow2[HalfWord] \in Nat /\ Pow2[HalfWord] # 0 /\ Pow2[WordSize] \in Nat /\ Pow2[WordSize] # 0
    BY WordFacts, Pow2Facts
  <1> QED BY <1>1, MaxLenFacts DEF Half, Word, SignedWord

LEMMA GogoZero ==
    ASSUME NEW t \in DOMAIN GogoMessages
    PROVE  G!Zero[t] \in GogoMessages[t]
  <1>1. G!ZeroCoin \in GogoCoins
    BY EmptyStr DEF G!ZeroCoin, GogoCoins
  <1>2. G!ZeroParams \in GogoParams
    BY <1>1, EmptyStr, ZeroWords DEF G!ZeroParams, GogoParams
  <1>3. CASE t \in {"Coin", "Params"}
    BY <1>1, <1>2, <1>3, GogoTypes DEF G!Zero
  <1>4. CASE t = "GenesisState"
    BY <1>2, <1>4 DEF G!Zero, GogoMessages
  <1>5. CASE t = "QueryParamsResponse"
    BY <1>2, <1>5 DEF G!Zero, GogoMessages
  <1>6. CASE t = "MsgAuctionBid"
    BY <1>1, <1>6, EmptyStr DEF G!Zero, GogoMessages
  <1>7. CASE t = "MsgUpdateParams"
    BY <1>2, <1>7, EmptyStr DEF G!Zero, GogoMessages
  <1>8. CASE t = "MsgAuctionBidResponse"
    BY <1>8 DEF G!Zero, G!NoFields, GogoMessages
  <1>9. CASE t = "MsgUpdateParamsResponse"
    BY <1>9 DEF G!Zero, G!NoFields, GogoMessages
  <1>10. CASE t = "QueryParamsRequest"
    BY <1>10 DEF G!Zero, G!NoFields, GogoMessages
  <1> QED BY <1>3, <1>4, <1>5, <1>6, <1>7, <1>8, <1>9, <1>10, GogoTypes

LEMMA PulsarZero ==
    ASSUME NEW t \in DOMAIN PulsarMessages
    PROVE  P!Zero[t] \in PulsarMessages[t]
  <1>1. CASE t = "Coin"
    BY <1>1, EmptyStr, PulsarTypes DEF P!Zero, PulsarCoins
  <1>2. CASE t = "Params"
    BY <1>2, EmptyStr, ZeroWords, PulsarTypes DEF P!Zero, PulsarParams
  <1>3. CASE t = "GenesisState"
    BY <1>3, EmptyStr DEF P!Zero, PulsarMessages
  <1>4. CASE t = "QueryParamsResponse"
    BY <1>4, EmptyStr DEF P!Zero, PulsarMessages
  <1>5. CASE t = "MsgAuctionBid"
    BY <1>5, EmptyStr DEF P!Zero, PulsarMessages
  <1>6. CASE t = "MsgUpdateParams"
    BY <1>6, EmptyStr DEF P!Zero, PulsarMessages
  <1>7. CASE t = "MsgAuctionBidResponse"
    BY <1>7, EmptyStr DEF P!Zero, PulsarMessages
  <1>8. CASE t = "MsgUpdateParamsResponse"
    BY <1>8, EmptyStr DEF P!Zero, PulsarMessages
  <1>9. CASE t = "QueryParamsRequest"
    BY <1>9, EmptyStr DEF P!Zero, PulsarMessages
  <1>10. CASE t = "Module"
    BY <1>10, EmptyStr DEF P!Zero, PulsarMessages
  <1>11. CASE t = "AuctionInfo"
    BY <1>11, EmptyStr, ZeroWords DEF P!Zero, PulsarMessages
  <1>12. CASE t = "VoteExtensionInfo"
    BY <1>12, EmptyStr DEF P!Zero, PulsarMessages
  <1>13. CASE t = "RegistryEntry"
    BY <1>13, EmptyStr DEF P!Zero, PulsarMessages
  <1> QED BY <1>1, <1>2, <1>3, <1>4, <1>5, <1>6, <1>7, <1>8, <1>9, <1>10, <1>11, <1>12, <1>13, PulsarTypes

LEMMA ZeroType ==
    ASSUME NEW c \in AllCodecs, NEW t \in Types(c)
    PROVE  Zero(c, t) \in Messages(c, t)
  BY GogoZero, PulsarZero DEF Zero, Types, Messages

-----------------------------------------------------------------------------
(* A round of the loop. *)

AnyMessage(c) == UNION {Messages(c, t) : t \in Types(c)}

\* A frame within its bytes.  Only the loop of a map entry ends before they do.
Frames(c) ==
    {f \in [type : Types(c), b : Slices, i : Nat, end : Nat, m : AnyMessage(c), field : Embeddings \cup {"none"}] :
        /\ f.m \in Messages(c, f.type)
        /\ f.i <= Len(f.b) /\ f.end <= Len(f.b)
        /\ ~IsEntry(f) => f.end = Len(f.b)}

\* A number keeps its value or takes the digits it is given.
LEMMA UnmarshalNumberType ==
    ASSUME NEW old \in Str, NEW text \in Str, G!UnmarshalNumber(old, text).ok
    PROVE  G!UnmarshalNumber(old, text).val \in Str
  <1> DEFINE n == G!UnmarshalNumber(old, text)
             Last1(i) == /\ text[i] # 48 \/ i = Len(text)
                         /\ \A j \in 1 .. i - 1 : text[j] = 48
             first == CHOOSE i \in DOMAIN text : Last1(i)
  <1>1. CASE text = <<>>
    BY <1>1 DEF G!UnmarshalNumber
  <1>2. CASE text # <<>>
    <2>1. n = [ok |-> TRUE, val |-> SubSeq(text, first, Len(text))]
      BY <1>2 DEF G!UnmarshalNumber, G!Failed
    <2>2. text \in Seq(Byte) /\ Len(text) \in Nat /\ Len(text) >= 1 /\ DOMAIN text = 1 .. Len(text)
      BY <1>2 DEF Str
    <2>3. \E i \in DOMAIN text : Last1(i)
      <3> DEFINE W == {i \in DOMAIN text : text[i] # 48 \/ i = Len(text)}
      <3>1. Len(text) \in 1 .. Len(text) /\ Len(text) \in W
        BY <2>2
      <3>2. \E k \in 1 .. Len(text) : IsFirst(k, W)
        <4> HIDE DEF W
        <4> QED BY <2>2, <3>1, HasFirst
      <3>3. PICK k \in 1 .. Len(text) : k \in W /\ \A j \in 1 .. (k - 1) : j \notin W
        BY <3>2 DEF IsFirst
      <3>4. ASSUME NEW j \in 1 .. k - 1 PROVE text[j] = 48
        <4>1. j \in DOMAIN text /\ j \notin W
          <5> HIDE DEF W
          <5> QED BY <2>2, <3>3
        <4> QED BY <4>1
      <3> QED BY <2>2, <3>3, <3>4
    <2>4. first \in DOMAIN text
      <3> HIDE DEF Last1
      <3> QED BY <2>3
    <2> HIDE DEF first, n
    <2>5. SubSeq(text, first, Len(text)) \in Seq(Byte)
      <3>1. first \in Int /\ Len(text) \in Int /\ \A i \in first .. Len(text) : text[i] \in Byte
        BY <2>2, <2>4
      <3> QED BY <3>1, SubSeqProperties
    <2>6. n.val \in Str
      BY <2>1, <2>5 DEF Str
    <2> QED BY <2>6 DEF n
  <1> QED BY <1>1, <1>2

\* What a round may come to: it gets on within the bytes, and the value is one of
\* the field, or the bytes of an embedded message that lie after the old position.
RoundOK(c, f, r) ==
    /\ r.next \in f.i + 1 .. Len(f.b)
    /\ r.case.kind # "unknown" => IsField(c, r.case, Messages(c, f.type))
    /\ CASE r.case.kind = "unknown" -> r.val \in Str
         [] r.case.kind = "embedded" -> r.val \in Slices /\ Len(r.val) < r.next - f.i
         [] OTHER -> r.val \in FieldSet(c, r.case)

LEMMA VarintValueOK ==
    ASSUME NEW c \in AllCodecs, NEW f \in Frames(c), NEW k, IsField(c, k, Messages(c, f.type)),
           k.kind \in VarintKinds, NEW at \in f.i + 1 .. Len(f.b),
           VarintValue(k, ReadVarint(f.b, at)).ok
    PROVE  RoundOK(c, f, VarintValue(k, ReadVarint(f.b, at)))
  <1> DEFINE v == ReadVarint(f.b, at)
             r == VarintValue(k, v)
             x == CASE k.kind = "uint32" -> Unsigned(v.val, HalfWord)
                    [] k.kind = "uint64" -> v.val
                    [] k.kind = "int64" -> ToInt(v.val)
                    [] k.kind = "bool" -> v.val # 0
  <1>1. f.b \in Str /\ f.i \in Nat /\ Len(f.b) \in Nat
    BY DEF Frames, Slices, Str
  <1>2. v.ok
    BY DEF VarintValue, Failed
  <1>3. v.next \in at + 1 .. Len(f.b) /\ v.val \in Word
    BY <1>1, <1>2, ReadVarintOK
  <1>4. r = [ok |-> TRUE, case |-> k, next |-> v.next, val |-> x]
    BY <1>2 DEF VarintValue, Taken
  <1> HIDE DEF v
  <1>5. x \in FieldSet(c, k)
    <2>1. v.val \in Int
      BY <1>3 DEF Word
    <2>2. Unsigned(v.val, HalfWord) \in Half /\ ToInt(v.val) \in SignedWord
      BY <2>1, UnsignedType, ToIntFacts
    <2> QED BY <1>3, <2>2 DEF FieldSet, VarintKinds
  <1> HIDE DEF x, r
  <1>6. r.case = k /\ r.next = v.next /\ r.val = x
    BY <1>4
  <1>7. r.next \in f.i + 1 .. Len(f.b)
    BY <1>1, <1>3, <1>6
  <1>8. RoundOK(c, f, r)
    BY <1>5, <1>6, <1>7 DEF RoundOK, VarintKinds
  <1> QED BY <1>8 DEF r, v

LEMMA DelimitedValueOK ==
    ASSUME NEW c \in AllCodecs, NEW f \in Frames(c), NEW k, IsField(c, k, Messages(c, f.type)),
           k.kind \in DelimitedKinds, NEW at \in f.i + 1 .. Len(f.b),
           DelimitedValue(f, k, ReadDelimited(f.b, at)).ok
    PROVE  RoundOK(c, f, DelimitedValue(f, k, ReadDelimited(f.b, at)))
  <1> DEFINE s == ReadDelimited(f.b, at)
             bytes == Slice(f.b, s.from, s.to)
             old == f.m[k.name]
             number == G!UnmarshalNumber(old, bytes)
             r == DelimitedValue(f, k, s)
  <1>1. f.b \in Slices /\ f.i \in Nat /\ Len(f.b) \in Nat /\ f.m \in Messages(c, f.type)
    BY DEF Frames, Slices, Str
  <1>2. s.ok /\ s # Failed
    BY DEF DelimitedValue, Failed
  <1>3. at \in Nat
    BY <1>1
  <1>4. PICK from, to \in at + 1 .. Len(f.b) : s = [ok |-> TRUE, from |-> from, to |-> to] /\ from <= to
    BY <1>1, <1>2, <1>3, ReadDelimitedType
  <1>5. s.from = from /\ s.to = to
    BY <1>4
  <1>6. bytes \in Slices /\ Len(bytes) = to - from /\ bytes \in Str
    <2>1. from \in 0 .. Len(f.b) /\ to \in from .. Len(f.b)
      BY <1>1, <1>3, <1>4
    <2> QED BY <1>1, <1>5, <2>1, SliceFacts DEF Slices
  <1>7. old \in FieldSet(c, k)
    BY <1>1 DEF IsField, Has
  <1>8. r = CASE k.kind \in {"bytes", "embedded"} -> Taken(k, to, bytes)
              [] k.kind = "repeated" -> Taken(k, to, Append(old, bytes))
              [] k.kind = "number" -> IF number.ok THEN Taken(k, to, number.val) ELSE Failed
    BY <1>2, <1>5 DEF DelimitedValue
  <1>9. to \in f.i + 1 .. Len(f.b) /\ to - from < to - f.i
    BY <1>1, <1>3, <1>4
  <1>10. r.ok
    OBVIOUS
  <1> HIDE DEF s, bytes, old, number, r
  <1>11. CASE k.kind = "embedded"
    <2>1. r.case = k /\ r.next = to /\ r.val = bytes
      BY <1>8, <1>11 DEF Taken
    <2> QED BY <1>6, <1>9, <1>11, <2>1 DEF RoundOK, r, s
  <1>12. CASE k.kind = "bytes"
    <2>1. r.case = k /\ r.next = to /\ r.val = bytes
      BY <1>8, <1>12 DEF Taken
    <2>2. bytes \in FieldSet(c, k)
      BY <1>6, <1>12 DEF FieldSet
    <2> QED BY <1>9, <1>12, <2>1, <2>2 DEF RoundOK, r, s
  <1>13. CASE k.kind = "repeated"
    <2>1. r.case = k /\ r.next = to /\ r.val = Append(old, bytes)
      BY <1>8, <1>13 DEF Taken
    <2>2. FieldSet(c, k) = Seq(Str)
      BY <1>13 DEF FieldSet
    <2>3. Append(old, bytes) \in FieldSet(c, k)
      BY <1>6, <1>7, <2>2
    <2> QED BY <1>9, <1>13, <2>1, <2>3 DEF RoundOK, r, s
  <1>14. CASE k.kind = "number"
    <2>1. number.ok
      BY <1>8, <1>10, <1>14 DEF Failed
    <2>2. r.case = k /\ r.next = to /\ r.val = number.val
      BY <1>8, <1>14, <2>1 DEF Taken
    <2>3. FieldSet(c, k) = Str
      BY <1>14 DEF FieldSet
    <2>4. number.val \in FieldSet(c, k)
      BY <1>6, <1>7, <2>1, <2>3, UnmarshalNumberType DEF number
    <2> QED BY <1>9, <1>14, <2>2, <2>4 DEF RoundOK, r, s
  <1> QED BY <1>11, <1>12, <1>13, <1>14 DEF DelimitedKinds

LEMMA SkippedOK ==
    ASSUME NEW c \in AllCodecs, NEW f \in Frames(c), f.i < f.end,
           Skipped(f, Skip(Slice(f.b, f.i, Len(f.b)))).ok
    PROVE  RoundOK(c, f, Skipped(f, Skip(Slice(f.b, f.i, Len(f.b)))))
  <1> DEFINE s == Slice(f.b, f.i, Len(f.b))
             q == Skip(s)
             next == ToInt(f.i + q.n)
             r == Skipped(f, q)
  <1>1. f.b \in Slices /\ f.i \in Nat /\ f.end \in Nat /\ Len(f.b) \in 0 .. MaxLen /\ f.end <= Len(f.b)
    BY DEF Frames, Slices, Str
  <1>2. s \in Slices /\ Len(s) = Len(f.b) - f.i
    <2>1. f.i \in 0 .. Len(f.b) /\ Len(f.b) \in f.i .. Len(f.b)
      BY <1>1
    <2> QED BY <1>1, <2>1, SliceFacts
  <1>3. q.ok /\ next >= 0 /\ next <= f.end
    BY DEF Skipped, Failed
  <1>4. r = Taken(Unknown, next, Slice(f.b, f.i, next))
    BY <1>3 DEF Skipped
  <1> HIDE DEF s
  <1>5. q.n \in SkipEnds(s)
    <2>1. q # Failed
      BY <1>3 DEF Failed
    <2>2. q \in [ok : {TRUE}, n : SkipEnds(s), depth : Nat]
      BY <1>2, <2>1, SkipType
    <2> HIDE DEF q
    <2> QED BY <2>2
  <1> HIDE DEF q
  <1>6. q.n \in Nat /\ q.n >= 1 /\ (q.n <= MaxLen \/ q.n <= Len(f.b) - f.i + 8)
    BY <1>2, <1>5 DEF SkipEnds
  <1> DEFINE e == f.i + q.n
  <1>7. e \in Word /\ e > f.i /\ e \in Int
    BY <1>1, <1>6, MaxLenFacts, SMTT(60) DEF Word
  <1> HIDE DEF e
  <1>8. ToInt(e) >= 0 => ToInt(e) = e
    BY <1>7, ToIntOf
  <1>9. next = e
    BY <1>3, <1>8 DEF e
  <1> HIDE DEF next
  <1>10. next \in f.i + 1 .. Len(f.b)
    BY <1>1, <1>3, <1>7, <1>9
  <1>11. Slice(f.b, f.i, next) \in Str
    <2>1. f.i \in 0 .. Len(f.b) /\ next \in f.i .. Len(f.b)
      BY <1>1, <1>10
    <2> QED BY <1>1, <2>1, SliceFacts DEF Slices
  <1> HIDE DEF r
  <1>12. r.case.kind = "unknown" /\ r.next = next /\ r.val = Slice(f.b, f.i, next)
    BY <1>4 DEF Taken, Unknown, Case
  <1>13. RoundOK(c, f, r)
    BY <1>10, <1>11, <1>12 DEF RoundOK
  <1> QED BY <1>13 DEF r, q, s

\* Every round that does not fail gets on.
LEMMA RoundType ==
    ASSUME NEW c \in AllCodecs, NEW f \in Frames(c), f.i < f.end, Round(c, f).ok
    PROVE  RoundOK(c, f, Round(c, f))
  <1> DEFINE t == ReadTag(f.b, f.i)
             cases == Cases(c, f.type)
  <1>1. f.b \in Slices /\ f.i \in Nat /\ f.b \in Str /\ Len(f.b) \in Nat /\ f.type \in Types(c)
    BY DEF Frames, Slices, Str
  <1>2. t.ok /\ t # Failed
    BY DEF Round, RoundWith, TagOK, Failed
  <1>3. t.next \in f.i + 1 .. Len(f.b)
    <2>1. t \in [ok : {TRUE}, next : f.i + 1 .. Len(f.b), wireType : 0 .. 7, fieldNum : Int]
      BY <1>1, <1>2, ReadTagType
    <2> HIDE DEF t
    <2> QED BY <2>1
  <1>4. TagOK(f, t, cases)
    BY DEF Round, RoundWith, Failed
  <1>5. CASE t.fieldNum \in DOMAIN cases
    <2> DEFINE k == cases[t.fieldNum]
    <2>1. Round(c, f) = Value(f, k, t.next)
      BY <1>4, <1>5 DEF Round, RoundWith
    <2>2. IsField(c, k, Messages(c, f.type))
      BY <1>1, <1>5, Tables DEF IsTable
    <2> HIDE DEF k, t
    <2>3. CASE k.wireType = 0
      <3>1. Round(c, f) = VarintValue(k, ReadVarint(f.b, t.next)) /\ k.kind \in VarintKinds
        BY <2>1, <2>2, <2>3 DEF Value, IsField
      <3> QED BY <1>3, <2>2, <3>1, VarintValueOK
    <2>4. CASE k.wireType # 0
      <3>1. Round(c, f) = DelimitedValue(f, k, ReadDelimited(f.b, t.next)) /\ k.kind \in DelimitedKinds
        BY <2>1, <2>2, <2>4 DEF Value, IsField
      <3> QED BY <1>3, <2>2, <3>1, DelimitedValueOK
    <2> QED BY <2>3, <2>4
  <1>6. CASE t.fieldNum \notin DOMAIN cases
    <2>1. Round(c, f) = Skipped(f, Skip(Slice(f.b, f.i, Len(f.b))))
      BY <1>4, <1>6 DEF Round, RoundWith
    <2> QED BY <2>1, SkippedOK
  <1> QED BY <1>5, <1>6

-----------------------------------------------------------------------------
(* The stack of a decoder. *)

\* The values of a field of embedded messages of type t.
InnerValues(c, t) ==
    IF t = "RegistryEntry" THEN Registries ELSE IF c = "gogo" THEN Messages(c, t) ELSE Ptr(Messages(c, t))

\* The message of frame f is for a field of the frame below.
Links(c, below, f) == Has(Messages(c, below.type), f.field, InnerValues(c, f.type))

Stacks(c) ==
    {s \in Seq(Frames(c)) : Len(s) >= 1 /\ \A k \in 1 .. Len(s) - 1 : Links(c, s[k], s[k + 1])}

Decoders(c, t) ==
    {d \in [stack : Stacks(c), state : {"reading", "ok", "error"}] : d.stack[1].type = t}

LEMMA StackFacts ==
    ASSUME NEW c, NEW s \in Stacks(c)
    PROVE  /\ s \in Seq(Frames(c)) /\ Len(s) \in Nat /\ Len(s) >= 1 /\ DOMAIN s = 1 .. Len(s)
           /\ \A k \in 1 .. Len(s) : s[k] \in Frames(c)
           /\ Last(s) = s[Len(s)] /\ Last(s) \in Frames(c)
           /\ Front(s) = SubSeq(s, 1, Len(s) - 1)
           /\ \A k \in 1 .. Len(s) - 1 : Links(c, s[k], s[k + 1])
  BY DEF Stacks, Last, Front

\* Replacing a frame by one of the same message, and dropping the frames above it.
LEMMA ReplaceFrame ==
    ASSUME NEW c, NEW s \in Stacks(c), NEW n \in 0 .. Len(s) - 1, NEW f \in Frames(c),
           f.type = s[n + 1].type, f.field = s[n + 1].field
    PROVE  /\ Append(SubSeq(s, 1, n), f) \in Stacks(c)
           /\ Len(Append(SubSeq(s, 1, n), f)) = n + 1
           /\ \A k \in 1 .. n : Append(SubSeq(s, 1, n), f)[k] = s[k]
           /\ Append(SubSeq(s, 1, n), f)[n + 1] = f
           /\ Append(SubSeq(s, 1, n), f)[1].type = s[1].type
  <1> DEFINE p == SubSeq(s, 1, n)
             u == Append(p, f)
  <1>1. /\ s \in Seq(Frames(c)) /\ Len(s) \in Nat /\ Len(s) >= 1
        /\ \A k \in 1 .. Len(s) : s[k] \in Frames(c)
        /\ \A k \in 1 .. Len(s) - 1 : Links(c, s[k], s[k + 1])
    BY StackFacts
  <1>2. p \in Seq(Frames(c)) /\ Len(p) = n /\ \A k \in 1 .. n : p[k] = s[k]
    <2>1. n \in Int /\ 1 \in Int /\ \A k \in 1 .. n : s[k] \in Frames(c)
      BY <1>1
    <2>2. /\ p \in Seq(Frames(c)) /\ Len(p) = (IF 1 <= n THEN n - 1 + 1 ELSE 0)
          /\ \A i \in 1 .. n - 1 + 1 : p[i] = s[1 + i - 1]
      BY <2>1, SubSeqProperties
    <2> QED BY <1>1, <2>2
  <1> HIDE DEF p
  <1>3. u \in Seq(Frames(c)) /\ Len(u) = n + 1 /\ u[n + 1] = f /\ \A k \in 1 .. n : u[k] = s[k]
    BY <1>2
  <1> HIDE DEF u
  <1>4. ASSUME NEW k \in 1 .. Len(u) - 1 PROVE Links(c, u[k], u[k + 1])
    <2>1. k \in 1 .. n /\ k \in 1 .. Len(s) - 1
      BY <1>1, <1>3
    <2>1a. u[k] = s[k] /\ Links(c, s[k], s[k + 1])
      BY <1>1, <1>3, <2>1
    <2>2. CASE k < n
      <3>1. u[k + 1] = s[k + 1]
        BY <1>1, <1>3, <2>1, <2>2
      <3> QED BY <2>1a, <3>1
    <2>3. CASE k = n
      BY <1>3, <2>1a, <2>3 DEF Links
    <2> QED BY <1>1, <2>1, <2>2, <2>3
  <1>5. u \in Stacks(c)
    BY <1>3, <1>4 DEF Stacks
  <1>6. u[1].type = s[1].type
    <2>1. CASE n = 0
      BY <1>3, <2>1
    <2>2. CASE n # 0
      BY <1>1, <1>3, <2>2
    <2> QED BY <2>1, <2>2
  <1> QED BY <1>3, <1>5, <1>6 DEF u, p

LEMMA PushFrame ==
    ASSUME NEW c, NEW s \in Stacks(c), NEW f \in Frames(c), Links(c, s[Len(s)], f)
    PROVE  /\ Append(s, f) \in Stacks(c)
           /\ Len(Append(s, f)) = Len(s) + 1
           /\ \A k \in 1 .. Len(s) : Append(s, f)[k] = s[k]
           /\ Append(s, f)[Len(s) + 1] = f
  <1> DEFINE u == Append(s, f)
  <1>1. /\ s \in Seq(Frames(c)) /\ Len(s) \in Nat /\ Len(s) >= 1
        /\ \A k \in 1 .. Len(s) - 1 : Links(c, s[k], s[k + 1])
    BY StackFacts
  <1>2. u \in Seq(Frames(c)) /\ Len(u) = Len(s) + 1 /\ u[Len(s) + 1] = f /\ \A k \in 1 .. Len(s) : u[k] = s[k]
    BY <1>1
  <1> HIDE DEF u
  <1>3. ASSUME NEW k \in 1 .. Len(u) - 1 PROVE Links(c, u[k], u[k + 1])
    <2>1. CASE k < Len(s)
      <3>1. k \in 1 .. Len(s) - 1 /\ u[k] = s[k] /\ u[k + 1] = s[k + 1]
        BY <1>1, <1>2, <2>1
      <3> QED BY <1>1, <3>1
    <2>2. CASE k = Len(s)
      BY <1>1, <1>2, <2>2
    <2> QED BY <1>1, <1>2, <2>1, <2>2
  <1>4. u \in Stacks(c)
    BY <1>1, <1>2, <1>3 DEF Stacks
  <1> QED BY <1>2, <1>4 DEF u

\* The bytes a loop has left, and those of the loops up to n, and of all.
Left(f) == IF f.i < f.end THEN f.end - f.i ELSE 0
LeftTo(s, n) == SumFunction([k \in 1 .. n |-> Left(s[k])])

LEMMA LeftType ==
    ASSUME NEW c, NEW s \in Stacks(c), NEW k \in 1 .. Len(s)
    PROVE  Left(s[k]) \in Nat
  <1>1. s[k] \in Frames(c)
    BY StackFacts
  <1> QED BY <1>1 DEF Left, Frames

LEMMA LeftToTop ==
    ASSUME NEW c, NEW s \in Stacks(c), NEW n \in 0 .. Len(s)
    PROVE  /\ LeftTo(s, n) \in Nat
           /\ n > 0 => LeftTo(s, n) = Left(s[n]) + LeftTo(s, n - 1)
  <1> DEFINE w(j) == [k \in 1 .. j |-> Left(s[k])]
  <1>1. Len(s) \in Nat
    BY StackFacts
  <1>2. ASSUME NEW j \in 0 .. Len(s) PROVE w(j) \in [1 .. j -> Nat] /\ IsFiniteSet(1 .. j)
    <2>1. \A k \in 1 .. j : Left(s[k]) \in Nat
      BY <1>1, LeftType
    <2>2. IsFiniteSet(1 .. j)
      BY <1>1, FS_Interval
    <2> QED BY <2>1, <2>2
  <1>3. LeftTo(s, n) \in Nat
    <2> HIDE DEF w
    <2> QED BY <1>2, TotalType DEF LeftTo, w
  <1>4. ASSUME n > 0 PROVE LeftTo(s, n) = Left(s[n]) + LeftTo(s, n - 1)
    <2>1. n \in 1 .. n /\ (1 .. n) \ {n} = 1 .. n - 1 /\ n - 1 \in 0 .. Len(s)
      BY <1>1, <1>4
    <2>2. \A y \in 1 .. n - 1 : w(n - 1)[y] = w(n)[y]
      BY <1>1
    <2>3. w(n)[n] = Left(s[n])
      BY <2>1
    <2> HIDE DEF w
    <2>4. SumFunction(w(n)) = w(n)[n] + SumFunction(w(n - 1))
      <3> DEFINE all == w(n)
                 rest == w(n - 1)
                 D == 1 .. n
                 E == 1 .. n - 1
      <3>1. /\ all \in [D -> Nat] /\ IsFiniteSet(D) /\ n \in D /\ E = D \ {n}
            /\ rest \in [E -> Nat] /\ \A y \in E : rest[y] = all[y]
        BY <1>2, <2>1, <2>2
      <3> HIDE DEF D, E, all, rest
      <3>2. LessOne(D, all, n, E, rest)
        BY <3>1 DEF LessOne
      <3> QED BY <3>2, SumSplit DEF all, rest
    <2> QED BY <2>3, <2>4 DEF LeftTo, w
  <1> QED BY <1>3, <1>4

LEMMA LeftToSame ==
    ASSUME NEW s, NEW u, NEW n \in Nat, \A k \in 1 .. n : s[k] = u[k]
    PROVE  LeftTo(s, n) = LeftTo(u, n)
  <1>1. [k \in 1 .. n |-> Left(s[k])] = [k \in 1 .. n |-> Left(u[k])]
    OBVIOUS
  <1> QED BY <1>1 DEF LeftTo

LEMMA WorkFacts ==
    ASSUME NEW c, NEW t, NEW d \in Decoders(c, t)
    PROVE  /\ Work(d) = IF d.state = "reading" THEN 2 * LeftTo(d.stack, Len(d.stack)) + Len(d.stack) ELSE 0
           /\ Work(d) \in Nat
  <1>1. d.stack \in Stacks(c)
    BY DEF Decoders
  <1>2. DOMAIN d.stack = 1 .. Len(d.stack) /\ Len(d.stack) \in Nat
    BY <1>1, StackFacts
  <1>3. LeftTo(d.stack, Len(d.stack)) \in Nat
    <2>1. Len(d.stack) \in 0 .. Len(d.stack)
      BY <1>2
    <2> QED BY <1>1, <2>1, LeftToTop
  <1>4. Work(d) = IF d.state = "reading" THEN 2 * LeftTo(d.stack, Len(d.stack)) + Len(d.stack) ELSE 0
    BY <1>2 DEF Work, LeftTo, Left
  <1> QED BY <1>2, <1>3, <1>4

-----------------------------------------------------------------------------
(* Decoding. *)

States == {"reading", "ok", "error"}

\* What everyone had decoded when a message of type t was encoded again.
Hops(t) ==
    {h \in [codec : Codecs(t), state : [Codecs(t) -> States], m : UNION {AnyMessage(c) : c \in AllCodecs}] :
        h.m \in Messages(h.codec, t)}

\* The decoders are within their bytes, and every frame but the first is for a
\* field of the one below.
CodecInv ==
    /\ type \in MessageTypes
    /\ dec = [c \in Codecs(type) |-> dec[c]]
    /\ \A c \in Codecs(type) : dec[c] \in Decoders(c, type)
    /\ sent \in Seq(Hops(type))

LEMMA CodecFacts ==
    ASSUME NEW t \in MessageTypes, NEW c \in Codecs(t)
    PROVE  c \in AllCodecs /\ t \in Types(c) /\ t \notin {"Coin", "RegistryEntry"}
  <1>1. DOMAIN P!Zero = DOMAIN PulsarMessages
    BY DEF P!Zero, PulsarMessages
  <1>2. DOMAIN G!Zero = DOMAIN GogoMessages
    BY DEF G!Zero, GogoMessages
  <1> QED BY <1>1, <1>2 DEF MessageTypes, Codecs, AllCodecs, Types

LEMMA FrameType ==
    ASSUME NEW c, NEW t \in Types(c), NEW b \in Slices, NEW i \in Nat, NEW end \in Nat,
           NEW m \in Messages(c, t), NEW field \in Embeddings \cup {"none"},
           i <= Len(b), end <= Len(b), t # "RegistryEntry" => end = Len(b)
    PROVE  Frame(t, b, i, end, m, field) \in Frames(c)
  <1> DEFINE f == Frame(t, b, i, end, m, field)
  <1>1. m \in AnyMessage(c)
    BY DEF AnyMessage
  <1>2. f.type = t /\ f.b = b /\ f.i = i /\ f.end = end /\ f.m = m /\ f.field = field
    BY DEF Frame
  <1>3. f \in [type : Types(c), b : Slices, i : Nat, end : Nat, m : AnyMessage(c), field : Embeddings \cup {"none"}]
    BY <1>1 DEF Frame
  <1> HIDE DEF f
  <1>4. f \in Frames(c)
    BY <1>2, <1>3 DEF Frames, IsEntry
  <1> QED BY <1>4 DEF f

\* A frame that gets another message and another position.
Moved(f, m, i, g) == g = [f EXCEPT !.m = m, !.i = i]

LEMMA MoveFrame ==
    ASSUME NEW c, NEW f \in Frames(c), NEW m \in Messages(c, f.type), NEW i \in 0 .. Len(f.b),
           NEW g, Moved(f, m, i, g)
    PROVE  /\ g \in Frames(c)
           /\ g.type = f.type /\ g.b = f.b /\ g.i = i /\ g.end = f.end /\ g.m = m /\ g.field = f.field
  <1> DEFINE R == [type : Types(c), b : Slices, i : Nat, end : Nat, m : AnyMessage(c), field : Embeddings \cup {"none"}]
  <1>1. /\ f \in R
        /\ f.i <= Len(f.b) /\ f.end <= Len(f.b)
        /\ f.type # "RegistryEntry" => f.end = Len(f.b)
    BY DEF Frames, IsEntry
  <1>2. f.type \in Types(c) /\ Len(f.b) \in Nat
    BY <1>1 DEF Slices, Str
  <1>3. m \in AnyMessage(c) /\ i \in Nat /\ i <= Len(f.b)
    BY <1>2 DEF AnyMessage
  <1>4. /\ g \in R
        /\ g.type = f.type /\ g.b = f.b /\ g.i = i /\ g.end = f.end /\ g.m = m /\ g.field = f.field
    BY <1>1, <1>3 DEF Moved
  <1>5. g \in Frames(c)
    BY <1>1, <1>3, <1>4 DEF Frames, IsEntry
  <1> QED BY <1>4, <1>5

\* One decoder takes a step, and has less left to do.
Stepped(c) ==
    /\ dec' = [x \in Codecs(type) |-> dec'[x]]
    /\ \A x \in Codecs(type) \ {c} : dec'[x] = dec[x]
    /\ dec'[c] \in Decoders(c, type)
    /\ Work(dec'[c]) < Work(dec[c])

LEMMA SetStack ==
    ASSUME CodecInv, NEW c \in Codecs(type), dec[c].state = "reading", NEW u \in Stacks(c),
           u[1].type = type, dec' = [dec EXCEPT ![c].stack = u],
           2 * LeftTo(u, Len(u)) + Len(u) < 2 * LeftTo(dec[c].stack, Len(dec[c].stack)) + Len(dec[c].stack)
    PROVE  Stepped(c)
  <1>1. dec = [x \in Codecs(type) |-> dec[x]] /\ dec[c] \in Decoders(c, type)
    BY DEF CodecInv
  <1>2. dec' = [x \in Codecs(type) |-> dec'[x]] /\ \A x \in Codecs(type) \ {c} : dec'[x] = dec[x]
    BY <1>1
  <1>3. dec'[c] = [dec[c] EXCEPT !.stack = u]
    BY <1>1
  <1>4. dec'[c] \in Decoders(c, type) /\ dec'[c].stack = u /\ dec'[c].state = "reading"
    <2> DEFINE d == dec[c]
               e == [d EXCEPT !.stack = u]
    <2>1. d \in [stack : Stacks(c), state : {"reading", "ok", "error"}] /\ d.state = "reading"
      BY <1>1 DEF Decoders
    <2>2. e \in [stack : Stacks(c), state : {"reading", "ok", "error"}] /\ e.stack = u /\ e.state = "reading"
      <3> HIDE DEF d
      <3> QED BY <2>1
    <2>3. dec'[c] = e
      BY <1>3
    <2> HIDE DEF e
    <2> QED BY <2>2, <2>3 DEF Decoders
  <1>5. Work(dec[c]) = 2 * LeftTo(dec[c].stack, Len(dec[c].stack)) + Len(dec[c].stack)
    BY <1>1, WorkFacts
  <1>6. Work(dec'[c]) = 2 * LeftTo(u, Len(u)) + Len(u)
    <2> DEFINE e == dec'[c]
    <2> HIDE DEF e
    <2>1. Work(e) = IF e.state = "reading" THEN 2 * LeftTo(e.stack, Len(e.stack)) + Len(e.stack) ELSE 0
      BY <1>4, WorkFacts DEF e
    <2> QED BY <1>4, <2>1 DEF e
  <1> QED BY <1>2, <1>4, <1>5, <1>6 DEF Stepped

LEMMA SetState ==
    ASSUME CodecInv, NEW c \in Codecs(type), dec[c].state = "reading", NEW st \in {"ok", "error"},
           dec' = [dec EXCEPT ![c].state = st]
    PROVE  Stepped(c)
  <1>1. dec = [x \in Codecs(type) |-> dec[x]] /\ dec[c] \in Decoders(c, type)
    BY DEF CodecInv
  <1>2. dec' = [x \in Codecs(type) |-> dec'[x]] /\ \A x \in Codecs(type) \ {c} : dec'[x] = dec[x]
    BY <1>1
  <1>3. dec'[c] = [dec[c] EXCEPT !.state = st]
    BY <1>1
  <1>4. dec'[c] \in Decoders(c, type) /\ dec'[c].state = st
    <2> DEFINE d == dec[c]
               e == [d EXCEPT !.state = st]
    <2>1. d \in [stack : Stacks(c), state : {"reading", "ok", "error"}] /\ d.stack[1].type = type
      BY <1>1 DEF Decoders
    <2>2. e \in [stack : Stacks(c), state : {"reading", "ok", "error"}] /\ e.stack = d.stack /\ e.state = st
      <3> HIDE DEF d
      <3> QED BY <2>1
    <2>3. dec'[c] = e
      BY <1>3
    <2> HIDE DEF e, d
    <2> QED BY <2>1, <2>2, <2>3 DEF Decoders
  <1>5. Work(dec[c]) = 2 * LeftTo(dec[c].stack, Len(dec[c].stack)) + Len(dec[c].stack)
    BY <1>1, WorkFacts
  <1>6. Work(dec'[c]) = 0
    <2> DEFINE e == dec'[c]
    <2> HIDE DEF e
    <2>1. Work(e) = IF e.state = "reading" THEN 2 * LeftTo(e.stack, Len(e.stack)) + Len(e.stack) ELSE 0
      BY <1>4, WorkFacts DEF e
    <2> QED BY <1>4, <2>1 DEF e
  <1>7. Len(dec[c].stack) \in Nat /\ Len(dec[c].stack) >= 1
        /\ LeftTo(dec[c].stack, Len(dec[c].stack)) \in Nat
    <2>1. dec[c].stack \in Stacks(c)
      BY <1>1 DEF Decoders
    <2>2. Len(dec[c].stack) \in Nat /\ Len(dec[c].stack) >= 1
      BY <2>1, StackFacts
    <2>3. Len(dec[c].stack) \in 0 .. Len(dec[c].stack)
      BY <2>2
    <2> QED BY <2>1, <2>2, <2>3, LeftToTop
  <1> QED BY <1>2, <1>4, <1>5, <1>6, <1>7 DEF Stepped

LEMMA InLoopFacts ==
    ASSUME CodecInv, NEW c \in Codecs(type), Reads(c)
    PROVE  /\ c \in AllCodecs /\ dec[c].state = "reading" /\ dec[c].stack \in Stacks(c)
           /\ dec[c].stack[1].type = type
           /\ Top(c) = dec[c].stack[Len(dec[c].stack)] /\ Top(c) \in Frames(c)
           /\ Len(dec[c].stack) \in Nat /\ Len(dec[c].stack) >= 1
           /\ Top(c).i \in Nat /\ Top(c).end \in Nat /\ Len(Top(c).b) \in Nat
           /\ Top(c).m \in Messages(c, Top(c).type) /\ Top(c).end <= Len(Top(c).b)
  <1>1. c \in AllCodecs
    BY CodecFacts DEF CodecInv
  <1>2. dec[c].state = "reading" /\ dec[c].stack \in Stacks(c) /\ dec[c].stack[1].type = type
    BY DEF Reads, CodecInv, Decoders
  <1>3. /\ Top(c) = dec[c].stack[Len(dec[c].stack)] /\ Top(c) \in Frames(c)
        /\ Len(dec[c].stack) \in Nat /\ Len(dec[c].stack) >= 1
    BY <1>2, StackFacts DEF Top
  <1>4. /\ Top(c).i \in Nat /\ Top(c).end \in Nat /\ Len(Top(c).b) \in Nat
        /\ Top(c).m \in Messages(c, Top(c).type) /\ Top(c).end <= Len(Top(c).b)
    BY <1>3 DEF Frames, Slices, Str
  <1> QED BY <1>1, <1>2, <1>3, <1>4

\* The innermost loop gets on.
LEMMA TopMoves ==
    ASSUME CodecInv, NEW c \in Codecs(type), InLoop(c), NEW m \in Messages(c, Top(c).type),
           NEW i \in Top(c).i + 1 .. Len(Top(c).b),
           dec' = SetTop(c, [Top(c) EXCEPT !.m = m, !.i = i])
    PROVE  Stepped(c)
  <1> DEFINE s == dec[c].stack
             n == Len(s)
             f == Top(c)
             g == [f EXCEPT !.m = m, !.i = i]
             u == Append(SubSeq(s, 1, n - 1), g)
  <1>1. Reads(c) /\ f.i < f.end
    BY DEF InLoop
  <1>2. /\ c \in AllCodecs /\ dec[c].state = "reading" /\ s \in Stacks(c) /\ s[1].type = type
        /\ f = s[n] /\ f \in Frames(c) /\ n \in Nat /\ n >= 1
        /\ f.i \in Nat /\ f.end \in Nat /\ Len(f.b) \in Nat
    BY <1>1, InLoopFacts
  <1>3. /\ dec' = [dec EXCEPT ![c].stack = u]
    BY <1>2, StackFacts DEF SetTop
  <1>4. i \in 0 .. Len(f.b) /\ m \in Messages(c, f.type)
    BY <1>2
  <1> HIDE DEF f, s
  <1> HIDE DEF g
  <1>5. g \in Frames(c) /\ g.type = f.type /\ g.field = f.field /\ g.end = f.end /\ g.i = i
    <2>1. Moved(f, m, i, g)
      BY DEF g, Moved
    <2> QED BY <1>2, <1>4, <2>1, MoveFrame
  <1> HIDE DEF n
  <1>6. /\ u \in Stacks(c) /\ Len(u) = n /\ u[n] = g /\ u[1].type = type
        /\ \A k \in 1 .. n - 1 : u[k] = s[k]
    <2>1. n - 1 \in 0 .. Len(s) - 1 /\ (n - 1) + 1 = n
      BY <1>2 DEF n
    <2> QED BY <1>2, <1>5, <2>1, ReplaceFrame
  <1> HIDE DEF u
  <1>7. LeftTo(u, n) = Left(g) + LeftTo(u, n - 1) /\ LeftTo(s, n) = Left(f) + LeftTo(s, n - 1)
    <2>1. n \in 0 .. Len(u) /\ n \in 0 .. Len(s) /\ n > 0
      BY <1>2, <1>6 DEF n
    <2> QED BY <1>2, <1>6, <2>1, LeftToTop
  <1>8. LeftTo(u, n - 1) = LeftTo(s, n - 1) /\ LeftTo(s, n - 1) \in Nat
    <2>1. n - 1 \in Nat /\ n - 1 \in 0 .. Len(s)
      BY <1>2 DEF n
    <2> QED BY <1>2, <1>6, <2>1, LeftToSame, LeftToTop
  <1>9. Left(g) \in Nat /\ Left(f) \in Nat /\ Left(g) < Left(f)
    <2>1. Left(f) = f.end - f.i
      BY <1>1 DEF Left, f
    <2>2. Left(g) = IF i < f.end THEN f.end - i ELSE 0
      BY <1>5 DEF Left
    <2>3. i \in Nat /\ i > f.i /\ f.i < f.end
      BY <1>1, <1>2 DEF f
    <2> QED BY <1>2, <2>1, <2>2, <2>3
  <1>10. 2 * LeftTo(u, Len(u)) + Len(u) < 2 * LeftTo(s, Len(s)) + Len(s)
    <2>1. 2 * LeftTo(u, n) + n < 2 * LeftTo(s, n) + n
      BY <1>2, <1>7, <1>8, <1>9
    <2> QED BY <1>6, <2>1 DEF n
  <1> QED BY <1>2, <1>3, <1>6, <1>10, SetStack DEF s

LEMMA ReadFieldSteps ==
    ASSUME CodecInv, NEW c \in Codecs(type), ReadField(c)
    PROVE  Stepped(c)
  <1> DEFINE f == Top(c)
             r == Round(c, f)
             m == [f.m EXCEPT ![r.case.name] = r.val]
  <1>1. /\ InLoop(c) /\ Reads(c) /\ f.i < f.end /\ r.ok /\ r.case.kind \notin {"embedded", "unknown"}
        /\ dec' = SetTop(c, [f EXCEPT !.m[r.case.name] = r.val, !.i = r.next])
    BY DEF ReadField, InLoop
  <1>2. c \in AllCodecs /\ f \in Frames(c) /\ f.m \in Messages(c, f.type)
    BY <1>1, InLoopFacts
  <1>3. RoundOK(c, f, r)
    BY <1>1, <1>2, RoundType
  <1> HIDE DEF f, r
  <1>4. r.next \in f.i + 1 .. Len(f.b) /\ IsField(c, r.case, Messages(c, f.type)) /\ r.val \in FieldSet(c, r.case)
    BY <1>1, <1>3 DEF RoundOK
  <1>5. m \in Messages(c, f.type)
    BY <1>2, <1>4 DEF IsField, Has
  <1>6. [f EXCEPT !.m[r.case.name] = r.val, !.i = r.next] = [f EXCEPT !.m = m, !.i = r.next]
    BY <1>2 DEF Frames
  <1> HIDE DEF m
  <1>7. dec' = SetTop(c, [Top(c) EXCEPT !.m = m, !.i = r.next])
    BY <1>1, <1>6 DEF f
  <1> QED BY <1>1, <1>4, <1>5, <1>7, TopMoves DEF f

LEMMA SkipFieldSteps ==
    ASSUME CodecInv, NEW c \in Codecs(type), SkipField(c)
    PROVE  Stepped(c)
  <1> DEFINE f == Top(c)
             r == Round(c, f)
             kept == [f.m EXCEPT !.unknown = @ \o r.val]
  <1>1. /\ InLoop(c) /\ Reads(c) /\ f.i < f.end /\ r.ok /\ r.case.kind = "unknown"
        /\ dec' = SetTop(c, IF c = "pulsar" /\ ~IsEntry(f)
                            THEN [f EXCEPT !.i = r.next, !.m.unknown = @ \o r.val]
                            ELSE [f EXCEPT !.i = r.next])
    BY DEF SkipField, InLoop
  <1>2. c \in AllCodecs /\ f \in Frames(c) /\ f.m \in Messages(c, f.type)
    BY <1>1, InLoopFacts
  <1>3. RoundOK(c, f, r)
    BY <1>1, <1>2, RoundType
  <1> HIDE DEF f, r
  <1>4. r.next \in f.i + 1 .. Len(f.b) /\ r.val \in Str
    BY <1>1, <1>3 DEF RoundOK
  <1>5. CASE c = "pulsar" /\ ~IsEntry(f)
    <2>1. Has(Messages(c, f.type), "unknown", Str)
      <3>1. f.type \in Types(c) /\ f.type # "RegistryEntry" /\ c # "gogo"
        BY <1>2, <1>5 DEF Frames, IsEntry
      <3> QED BY <1>2, <3>1, Tables
    <2>2. f.m.unknown \o r.val \in Str
      <3>1. f.m.unknown \in Str
        BY <1>2, <2>1 DEF Has
      <3> QED BY <1>4, <3>1, ConcatProperties DEF Str
    <2>3. kept \in Messages(c, f.type)
      BY <1>2, <2>1, <2>2 DEF Has
    <2>4. [f EXCEPT !.i = r.next, !.m.unknown = @ \o r.val] = [f EXCEPT !.m = kept, !.i = r.next]
      BY <1>2 DEF Frames
    <2> HIDE DEF kept
    <2>5. dec' = SetTop(c, [Top(c) EXCEPT !.m = kept, !.i = r.next])
      BY <1>1, <1>5, <2>4 DEF f
    <2> QED BY <1>1, <1>4, <2>3, <2>5, TopMoves DEF f
  <1>6. CASE ~(c = "pulsar" /\ ~IsEntry(f))
    <2>1. [f EXCEPT !.i = r.next] = [f EXCEPT !.m = f.m, !.i = r.next]
      BY <1>2 DEF Frames
    <2>2. dec' = SetTop(c, [Top(c) EXCEPT !.m = f.m, !.i = r.next])
      BY <1>1, <1>6, <2>1 DEF f
    <2> QED BY <1>1, <1>2, <1>4, <2>2, TopMoves DEF f
  <1> QED BY <1>5, <1>6

LEMMA EntryRound ==
    ASSUME NEW c \in AllCodecs, NEW f \in Frames(c), IsEntry(f), Round(c, f).ok
    PROVE  Round(c, f).case.kind # "embedded"
  <1> DEFINE t == ReadTag(f.b, f.i)
             cases == Cases(c, f.type)
  <1>1. f.type \in Types(c) /\ f.type = "RegistryEntry"
    BY DEF Frames, IsEntry
  <1>2. c # "gogo"
    BY <1>1, GogoTypes DEF Types
  <1>3. cases = <<Bytes("key"), Bytes("value")>>
    BY <1>1, <1>2 DEF Cases, P!Unmarshal, P!UnmarshalRegistryEntry, P!Bytes, P!Case, Bytes, Case
  <1>4. TagOK(f, t, cases)
    BY DEF Round, RoundWith, Failed
  <1>5. CASE t.fieldNum \in DOMAIN cases
    <2> DEFINE k == cases[t.fieldNum]
               s == ReadDelimited(f.b, t.next)
    <2>1. Round(c, f) = Value(f, k, t.next)
      BY <1>4, <1>5 DEF Round, RoundWith
    <2>2. k = Bytes("key") \/ k = Bytes("value")
      <3> HIDE DEF cases
      <3> QED BY <1>3, <1>5
    <2>3. k.kind = "bytes" /\ k.wireType = 2
      BY <2>2 DEF Bytes, Case
    <2> HIDE DEF k
    <2>4. Round(c, f) = DelimitedValue(f, k, s)
      BY <2>1, <2>3 DEF Value
    <2>5. Round(c, f) = Taken(k, s.to, Slice(f.b, s.from, s.to))
      BY <2>3, <2>4 DEF DelimitedValue, Failed
    <2> QED BY <2>3, <2>5 DEF Taken
  <1>6. CASE t.fieldNum \notin DOMAIN cases
    <2> DEFINE q == Skip(Slice(f.b, f.i, Len(f.b)))
    <2>1. Round(c, f) = Skipped(f, q)
      BY <1>4, <1>6 DEF Round, RoundWith
    <2> HIDE DEF q
    <2>2. Round(c, f) = Taken(Unknown, ToInt(f.i + q.n), Slice(f.b, f.i, ToInt(f.i + q.n)))
      BY <2>1 DEF Skipped, Failed
    <2> QED BY <2>2 DEF Taken, Unknown, Case
  <1> QED BY <1>5, <1>6

LEMMA OldType ==
    ASSUME NEW c \in AllCodecs, NEW t \in Types(c), NEW m \in InnerValues(c, t)
    PROVE  Old(c, m, t) \in Messages(c, t)
  <1>1. Zero(c, t) \in Messages(c, t)
    BY ZeroType
  <1>2. CASE t = "RegistryEntry"
    <2>1. c # "gogo"
      BY <1>2, GogoTypes DEF Types
    <2> QED BY <1>1, <1>2, <2>1 DEF Old
  <1>3. CASE t # "RegistryEntry" /\ c = "gogo"
    BY <1>3 DEF Old, InnerValues
  <1>4. CASE t # "RegistryEntry" /\ c # "gogo"
    <2>1. Old(c, m, t) = IF m = <<>> THEN Zero(c, t) ELSE m[1]
      BY <1>4 DEF Old
    <2>2. m = <<>> \/ \E x \in Messages(c, t) : m = <<x>>
      BY <1>4 DEF InnerValues, Ptr
    <2> QED BY <1>1, <2>1, <2>2
  <1> QED BY <1>2, <1>3, <1>4

LEMMA EnterMessageSteps ==
    ASSUME CodecInv, NEW c \in Codecs(type), EnterMessage(c)
    PROVE  Stepped(c)
  <1> DEFINE s == dec[c].stack
             n == Len(s)
             f == Top(c)
             r == Round(c, f)
             k == r.case
             old == Old(c, f.m[k.name], k.type)
             g == [f EXCEPT !.i = r.next]
             h == Inner(f, r, old)
             v == Append(SubSeq(s, 1, n - 1), g)
             u == Append(v, h)
  <1>1. /\ Reads(c) /\ f.i < f.end /\ r.ok /\ r.case.kind = "embedded"
        /\ dec' = [dec EXCEPT ![c].stack = Front(s) \o <<g, h>>]
    BY DEF EnterMessage, InLoop
  <1>2. /\ c \in AllCodecs /\ dec[c].state = "reading" /\ s \in Stacks(c) /\ s[1].type = type
        /\ f = s[n] /\ f \in Frames(c) /\ n \in Nat /\ n >= 1 /\ Front(s) = SubSeq(s, 1, n - 1)
        /\ f.i \in Nat /\ f.end \in Nat /\ Len(f.b) \in Nat /\ f.m \in Messages(c, f.type)
    BY <1>1, InLoopFacts, StackFacts
  <1>3. RoundOK(c, f, r)
    BY <1>1, <1>2, RoundType
  <1>4. f.b \in Slices /\ f.end = Len(f.b)
    <2>1. ~IsEntry(f)
      BY <1>1, <1>2, EntryRound
    <2> QED BY <1>2, <2>1 DEF Frames
  <1> HIDE DEF f, r, s
  <1>5. /\ r.next \in f.i + 1 .. Len(f.b) /\ IsField(c, k, Messages(c, f.type))
        /\ r.val \in Slices /\ Len(r.val) < r.next - f.i /\ Len(r.val) \in Nat
    BY <1>1, <1>3 DEF RoundOK, Slices, Str
  <1>6. /\ k.type \in Types(c) /\ k.name \in Embeddings
        /\ Has(Messages(c, f.type), k.name, InnerValues(c, k.type))
    BY <1>1, <1>5 DEF IsField, FieldSet, InnerValues
  <1>7. old \in Messages(c, k.type)
    <2>1. f.m[k.name] \in InnerValues(c, k.type)
      BY <1>2, <1>6 DEF Has
    <2> QED BY <1>2, <1>6, <2>1, OldType
  <1> HIDE DEF old, g, h, n
  <1>8. g \in Frames(c) /\ g.type = f.type /\ g.field = f.field /\ g.end = f.end /\ g.i = r.next
    <2>1. Moved(f, f.m, r.next, g)
      BY <1>2 DEF g, Moved, Frames
    <2>2. r.next \in 0 .. Len(f.b)
      BY <1>2, <1>5
    <2> QED BY <1>2, <2>1, <2>2, MoveFrame
  <1>9. h \in Frames(c) /\ h.type = k.type /\ h.field = k.name /\ Left(h) = Len(r.val)
    <2>1. CASE k.type = "RegistryEntry"
      <3> DEFINE i == r.next - Len(r.val)
      <3>1. h = Frame(k.type, f.b, i, r.next, old, k.name)
        BY <2>1 DEF h, Inner
      <3>2. i \in Nat /\ r.next \in Nat /\ i <= Len(f.b) /\ r.next <= Len(f.b)
        BY <1>2, <1>5, SMTT(60)
      <3>3. Left(h) = IF i < r.next THEN r.next - i ELSE 0
        BY <3>1 DEF Left, Frame
      <3>4. Left(h) = Len(r.val)
        BY <1>5, <3>2, <3>3
      <3>5. h.type = k.type /\ h.field = k.name
        BY <3>1 DEF Frame
      <3> HIDE DEF i
      <3>6. h \in Frames(c)
        BY <1>4, <1>6, <1>7, <2>1, <3>1, <3>2, FrameType
      <3> QED BY <3>4, <3>5, <3>6
    <2>2. CASE k.type # "RegistryEntry"
      <3>1. h = Frame(k.type, r.val, 0, Len(r.val), old, k.name)
        BY <2>2 DEF h, Inner
      <3>2. Left(h) = Len(r.val) /\ h.type = k.type /\ h.field = k.name
        BY <1>5, <3>1 DEF Left, Frame
      <3>3. h \in Frames(c)
        BY <1>5, <1>6, <1>7, <3>1, FrameType
      <3> QED BY <3>2, <3>3
    <2> QED BY <2>1, <2>2
  <1>10. /\ v \in Stacks(c) /\ Len(v) = n /\ v[n] = g /\ v[1].type = type
         /\ \A j \in 1 .. n - 1 : v[j] = s[j]
    <2>1. n - 1 \in 0 .. Len(s) - 1 /\ (n - 1) + 1 = n
      BY <1>2 DEF n
    <2> QED BY <1>2, <1>8, <2>1, ReplaceFrame
  <1>11. Front(s) \o <<g, h>> = u
    <2> DEFINE p == SubSeq(s, 1, n - 1)
    <2>1. p \in Seq(Frames(c))
      <3>1. \A j \in 1 .. n - 1 : s[j] \in Frames(c)
        BY <1>2, StackFacts DEF n
      <3> QED BY <1>2, <3>1, SubSeqProperties DEF n
    <2> HIDE DEF p
    <2>2. p \o <<g, h>> = Append(Append(p, g), h)
      BY <1>8, <1>9, <2>1
    <2> QED BY <1>2, <2>2 DEF p, n
  <1> HIDE DEF v
  <1>12. /\ u \in Stacks(c) /\ Len(u) = n + 1 /\ u[n + 1] = h /\ u[1].type = type
         /\ \A j \in 1 .. n : u[j] = v[j]
    <2>1. Links(c, v[Len(v)], h)
      BY <1>6, <1>8, <1>9, <1>10 DEF Links
    <2> QED BY <1>2, <1>9, <1>10, <2>1, PushFrame
  <1> HIDE DEF u
  <1>13. /\ LeftTo(u, n + 1) = Left(h) + LeftTo(u, n)
         /\ LeftTo(u, n) = LeftTo(v, n)
         /\ LeftTo(v, n) = Left(g) + LeftTo(v, n - 1)
         /\ LeftTo(v, n - 1) = LeftTo(s, n - 1)
         /\ LeftTo(s, n) = Left(f) + LeftTo(s, n - 1)
         /\ LeftTo(s, n - 1) \in Nat
    <2>1. /\ n + 1 \in 0 .. Len(u) /\ (n + 1) - 1 = n /\ n \in 0 .. Len(v) /\ n \in 0 .. Len(s)
          /\ n - 1 \in 0 .. Len(s) /\ n > 0 /\ n + 1 > 0 /\ n - 1 \in Nat
      BY <1>2, <1>10, <1>12 DEF n
    <2>2. LeftTo(u, n + 1) = Left(h) + LeftTo(u, n)
      BY <1>12, <2>1, LeftToTop
    <2>3. LeftTo(v, n) = Left(g) + LeftTo(v, n - 1)
      BY <1>10, <2>1, LeftToTop
    <2>4. LeftTo(s, n) = Left(f) + LeftTo(s, n - 1) /\ LeftTo(s, n - 1) \in Nat
      BY <1>2, <2>1, LeftToTop DEF n
    <2>5. LeftTo(u, n) = LeftTo(v, n) /\ LeftTo(v, n - 1) = LeftTo(s, n - 1)
      BY <1>2, <1>10, <1>12, <2>1, LeftToSame
    <2> QED BY <2>2, <2>3, <2>4, <2>5
  <1>14. Left(f) = f.end - f.i /\ Left(g) = f.end - r.next
    <2>1. Left(f) = f.end - f.i
      BY <1>1 DEF Left, f
    <2>2. Left(g) = IF r.next < f.end THEN f.end - r.next ELSE 0
      BY <1>8 DEF Left
    <2> QED BY <1>2, <1>4, <1>5, <2>1, <2>2
  <1>15. 2 * LeftTo(u, Len(u)) + Len(u) < 2 * LeftTo(s, Len(s)) + Len(s)
    <2>1. r.next \in Nat
      BY <1>2, <1>5
    <2>2. 2 * LeftTo(u, n + 1) + (n + 1) < 2 * LeftTo(s, n) + n
      <3> DEFINE rest == LeftTo(s, n - 1)
                 len == Len(r.val)
      <3>1. LeftTo(u, n + 1) = len + ((f.end - r.next) + rest)
        BY <1>9, <1>13, <1>14
      <3>2. LeftTo(s, n) = (f.end - f.i) + rest
        BY <1>13, <1>14
      <3>3. rest \in Nat /\ len \in Nat /\ len < r.next - f.i
        BY <1>5, <1>13
      <3> HIDE DEF rest, len
      <3>4. LeftTo(u, n + 1) + 1 <= LeftTo(s, n) /\ LeftTo(u, n + 1) \in Int /\ LeftTo(s, n) \in Int
        <4>1. \A l, x, i, e, q \in Int :
                 /\ l + ((e - x) + q) \in Int /\ (e - i) + q \in Int
                 /\ l < x - i => (l + ((e - x) + q)) + 1 <= (e - i) + q
          OBVIOUS
        <4>2. f.end \in Int /\ f.i \in Int /\ r.next \in Int /\ rest \in Int /\ len \in Int
          BY <1>2, <2>1, <3>3
        <4> QED BY <3>1, <3>2, <3>3, <4>1, <4>2
      <3> QED BY <1>2, <3>4
    <2> QED BY <1>12, <2>2 DEF n
  <1> QED BY <1>1, <1>2, <1>11, <1>12, <1>15, SetStack DEF s

\* An entry that is added to a map, or replaces one.
LEMMA RegistryType ==
    ASSUME NEW key \in Str, NEW val \in Str, NEW r \in Registries
    PROVE  Assign(r, key, val) \in Registries
  <1>1. PICK K \in SUBSET Str : IsFiniteSet(K) /\ r \in [K -> Str]
    BY DEF Registries
  <1> DEFINE L == {key} \cup K
  <1>2. Assign(r, key, val) = [x \in L |-> IF x = key THEN val ELSE r[x]]
    BY <1>1 DEF Assign
  <1>3. L \in SUBSET Str /\ IsFiniteSet(L)
    <2>1. IsFiniteSet({key})
      BY FS_Singleton
    <2> QED BY <1>1, <2>1, FS_Union
  <1>4. [x \in L |-> IF x = key THEN val ELSE r[x]] \in [L -> Str]
    BY <1>1
  <1> HIDE DEF L
  <1> QED BY <1>2, <1>3, <1>4 DEF Registries

LEMMA FailSteps ==
    ASSUME CodecInv, NEW c \in Codecs(type), Fail(c)
    PROVE  Stepped(c)
  <1>1. dec[c].state = "reading" /\ dec' = [dec EXCEPT ![c].state = "error"]
    BY DEF Fail, InLoop, Reads
  <1> QED BY <1>1, SetState

LEMMA LeaveMessageSteps ==
    ASSUME CodecInv, NEW c \in Codecs(type), LeaveMessage(c)
    PROVE  Stepped(c)
  <1> DEFINE s == dec[c].stack
             n == Len(s)
             f == Top(c)
             below == s[n - 1]
             value == CASE IsEntry(f) -> Assign(below.m[f.field], f.m.key, f.m.value)
                        [] ~IsEntry(f) /\ c = "gogo" -> f.m
                        [] OTHER -> <<f.m>>
             m == [below.m EXCEPT ![f.field] = value]
             g == [below EXCEPT !.m[f.field] = value]
             u == Append(SubSeq(s, 1, n - 2), g)
  <1>1. Reads(c) /\ ~(f.i < f.end)
    BY DEF LeaveMessage, InLoop
  <1>2. dec' = IF n = 1 THEN [dec EXCEPT ![c].state = "ok"] ELSE [dec EXCEPT ![c].stack = u]
    BY DEF LeaveMessage
  <1>3. /\ c \in AllCodecs /\ dec[c].state = "reading" /\ s \in Stacks(c) /\ s[1].type = type
        /\ f = s[n] /\ f \in Frames(c) /\ n \in Nat /\ n >= 1
        /\ f.i \in Nat /\ f.end \in Nat /\ Len(f.b) \in Nat /\ f.m \in Messages(c, f.type)
    BY <1>1, InLoopFacts
  <1>4. CASE n = 1
    BY <1>2, <1>3, <1>4, SetState
  <1>5. CASE n # 1
    <2> HIDE DEF f, s
    <2> HIDE DEF n
    <2>1. /\ n - 1 \in 1 .. n - 1 /\ n - 1 \in 1 .. n /\ (n - 1) + 1 = n /\ n - 2 \in 0 .. n - 1
          /\ (n - 2) + 1 = n - 1
      BY <1>3, <1>5
    <2>2. below \in Frames(c) /\ Links(c, below, s[(n - 1) + 1])
      BY <1>3, <2>1, StackFacts DEF n
    <2>3. Links(c, below, f)
      BY <1>3, <2>1, <2>2
    <2> HIDE DEF below, value, g
    <2>4. /\ below.m \in Messages(c, below.type) /\ below.i \in Nat /\ below.i <= Len(below.b)
          /\ Len(below.b) \in Nat
      BY <2>2 DEF Frames, Slices, Str
    <2>5. Has(Messages(c, below.type), f.field, InnerValues(c, f.type))
      BY <2>3 DEF Links
    <2>6. value \in InnerValues(c, f.type)
      <3>1. CASE IsEntry(f)
        <4>1. f.type = "RegistryEntry" /\ f.type \in Types(c)
          BY <1>3, <3>1 DEF IsEntry, Frames
        <4>2. c # "gogo"
          BY <4>1, GogoTypes DEF Types
        <4>3. f.m \in [key : Str, value : Str]
          BY <1>3, <4>1, <4>2, PulsarTypes DEF Messages
        <4>4. below.m[f.field] \in Registries
          BY <2>4, <2>5, <4>1 DEF Has, InnerValues
        <4>5. value = Assign(below.m[f.field], f.m.key, f.m.value)
          BY <3>1, <4>2 DEF value
        <4>6. value \in Registries
          BY <4>3, <4>4, <4>5, RegistryType
        <4> QED BY <4>1, <4>6 DEF InnerValues
      <3>2. CASE ~IsEntry(f) /\ c = "gogo"
        BY <1>3, <3>2 DEF value, InnerValues, IsEntry
      <3>3. CASE ~IsEntry(f) /\ c # "gogo"
        <4>1. value = <<f.m>>
          BY <3>3 DEF value
        <4> QED BY <1>3, <3>3, <4>1 DEF InnerValues, IsEntry, Ptr
      <3> QED BY <3>1, <3>2, <3>3
    <2>7. m \in Messages(c, below.type)
      BY <2>4, <2>5, <2>6 DEF Has
    <2>8. Moved(below, m, below.i, g)
      BY <2>2 DEF g, Moved, Frames
    <2> HIDE DEF m
    <2>9. /\ g \in Frames(c) /\ g.type = below.type /\ g.field = below.field
          /\ g.i = below.i /\ g.end = below.end
      <3>1. below.i \in 0 .. Len(below.b)
        BY <2>4
      <3> QED BY <2>2, <2>7, <2>8, <3>1, MoveFrame
    <2>10. /\ u \in Stacks(c) /\ Len(u) = n - 1 /\ u[n - 1] = g /\ u[1].type = type
           /\ \A k \in 1 .. n - 2 : u[k] = s[k]
      <3> DEFINE j == n - 2
      <3>1. j \in 0 .. Len(s) - 1 /\ j + 1 = n - 1
        BY <1>3, <2>1 DEF n
      <3>2. g.type = s[j + 1].type /\ g.field = s[j + 1].field
        BY <2>9, <3>1 DEF below
      <3> HIDE DEF j
      <3> DEFINE v == Append(SubSeq(s, 1, j), g)
      <3>3. /\ v \in Stacks(c) /\ Len(v) = j + 1 /\ v[j + 1] = g /\ v[1].type = s[1].type
            /\ \A k \in 1 .. j : v[k] = s[k]
        BY <1>3, <2>9, <3>1, <3>2, ReplaceFrame
      <3> QED BY <1>3, <3>1, <3>3 DEF j
    <2> HIDE DEF u
    <2>11. LeftTo(s, n) = Left(f) + LeftTo(s, n - 1) /\ LeftTo(s, n - 1) \in Nat
      <3>1. n \in 0 .. Len(s) /\ n > 0 /\ n - 1 \in 0 .. Len(s)
        BY <1>3, <2>1 DEF n
      <3> QED BY <1>3, <3>1, LeftToTop
    <2>12. LeftTo(u, n - 1) = LeftTo(s, n - 1)
      <3>1. n - 1 \in 0 .. Len(s) /\ n - 1 > 0 /\ n - 1 \in 0 .. Len(u) /\ (n - 1) - 1 = n - 2 /\ n - 2 \in Nat
        BY <1>3, <2>1, <2>10 DEF n
      <3>2. LeftTo(s, n - 1) = Left(below) + LeftTo(s, n - 2)
        BY <1>3, <3>1, LeftToTop DEF below
      <3>3. LeftTo(u, n - 1) = Left(g) + LeftTo(u, n - 2)
        BY <2>10, <3>1, LeftToTop
      <3>4. LeftTo(u, n - 2) = LeftTo(s, n - 2)
        BY <2>10, <3>1, LeftToSame
      <3>5. Left(g) = Left(below)
        BY <2>9 DEF Left
      <3> QED BY <3>2, <3>3, <3>4, <3>5
    <2>13. Left(f) = 0
      BY <1>1 DEF Left, f
    <2>14. 2 * LeftTo(u, Len(u)) + Len(u) < 2 * LeftTo(s, Len(s)) + Len(s)
      <3>1. 2 * LeftTo(u, n - 1) + (n - 1) < 2 * LeftTo(s, n) + n
        BY <1>3, <2>11, <2>12, <2>13 DEF n
      <3> QED BY <2>10, <3>1 DEF n
    <2>15. dec' = [dec EXCEPT ![c].stack = u]
      BY <1>2, <1>5 DEF n
    <2> QED BY <1>3, <2>10, <2>14, <2>15, SetStack DEF s
  <1> QED BY <1>4, <1>5

\* Every step of a decoder keeps it within its bytes and leaves it less to do.
LEMMA DecodeSteps ==
    ASSUME CodecInv, NEW c \in Codecs(type), Decode(c)
    PROVE  Stepped(c) /\ UNCHANGED <<type, sent>>
  <1>1. CASE ReadField(c)
    BY <1>1, ReadFieldSteps DEF ReadField
  <1>2. CASE EnterMessage(c)
    BY <1>2, EnterMessageSteps DEF EnterMessage
  <1>3. CASE SkipField(c)
    BY <1>3, SkipFieldSteps DEF SkipField
  <1>4. CASE Fail(c)
    BY <1>4, FailSteps DEF Fail
  <1>5. CASE LeaveMessage(c)
    BY <1>5, LeaveMessageSteps DEF LeaveMessage
  <1> QED BY <1>1, <1>2, <1>3, <1>4, <1>5 DEF Decode

-----------------------------------------------------------------------------
(* Writing. *)

\* encodeVarintTx writes bytes, one for every seven bits.
LEMMA EncodeVarintFacts ==
    ASSUME NEW x \in Nat
    PROVE  /\ EncodeVarint(x) \in Str
           /\ x >= 128 => EncodeVarint(x) = <<(x % 128) + 128>> \o EncodeVarint(x \div 128)
           /\ x < 128 => EncodeVarint(x) = <<x>>
  <1> DEFINE stop == {n \in Nat : n < 128}
             byte(n) == (n % 128) + 128
             base == [n \in Nat |-> IF n < 128 THEN <<n>> ELSE <<>>]
             next == [n \in Nat |-> n \div 128]
             step == [n \in Nat |-> [v \in Str |-> <<byte(n)>> \o v]]
             mu == [n \in Nat |-> n]
             More(f, n) == IF n >= 128 THEN <<byte(n)>> \o f[n \div 128] ELSE <<n>>
             Writes(f) == f = [n \in Nat |-> More(f, n)]
             rest == CHOOSE f : Writes(f)
  <1>1. \A n \in Nat : EncodeVarint(n) = rest[n]
    BY DEF EncodeVarint
  <1>2. \A n \in Nat : byte(n) \in Int /\ n \div 128 \in Nat /\ (n >= 128 => byte(n) \in Byte /\ n \div 128 < n)
    BY DEF Byte
  <1> HIDE DEF byte
  <1>3. \A n \in Nat : base[n] \in Str
    <2>1. ASSUME NEW n \in Nat, n < 128 PROVE <<n>> \in Str
      <3>1. n \in Byte
        BY <2>1 DEF Byte
      <3> QED BY <3>1 DEF Str
    <2>2. <<>> \in Str
      BY EmptyStr
    <2> QED BY <2>1, <2>2
  <1>4. base \in [Nat -> Str]
    <2>1. base = [n \in Nat |-> base[n]]
      OBVIOUS
    <2> HIDE DEF base
    <2> QED BY <1>3, <2>1
  <1>5. Descends(Nat, mu, stop, next)
    BY <1>2 DEF Descends
  <1>6. ASSUME NEW n \in Nat \ stop, NEW v \in Str PROVE <<byte(n)>> \o v \in Str
    <2>1. byte(n) \in Byte
      BY <1>2
    <2> QED BY <2>1 DEF Str
  <1>7. \A n \in Nat \ stop : step[n] \in [Str -> Str]
    <2> HIDE DEF stop
    <2> QED BY <1>6
  <1>8. PICK f : IsDescent(f, Nat, Str, stop, base, next, step)
    <2> HIDE DEF mu, stop, base, next, step
    <2> QED BY <1>4, <1>5, <1>7, DescentRecursion
  <1>9. f \in [Nat -> Str] /\ \A n \in Nat : f[n] = IF n \in stop THEN base[n] ELSE step[n][f[next[n]]]
    <2> HIDE DEF stop, base, next, step
    <2> QED BY <1>8 DEF IsDescent
  <1>10. ASSUME NEW n \in Nat PROVE f[n] = More(f, n)
    <2>1. CASE n < 128
      <3>1. f[n] = base[n]
        <4> HIDE DEF base, step, next
        <4> QED BY <1>9, <2>1
      <3> QED BY <2>1, <3>1
    <2>2. CASE n >= 128
      <3>1. n \notin stop /\ next[n] = n \div 128 /\ n \div 128 \in Nat
        BY <1>2, <2>2
      <3>2. f[n] = step[n][f[n \div 128]] /\ f[n \div 128] \in Str
        <4> HIDE DEF base, step, next, stop
        <4> QED BY <1>9, <3>1
      <3>3. f[n] = <<byte(n)>> \o f[n \div 128]
        BY <3>2
      <3> QED BY <2>2, <3>3
    <2> QED BY <2>1, <2>2
  <1>11. Writes(f)
    <2>1. f = [n \in Nat |-> f[n]]
      BY <1>9
    <2> HIDE DEF More
    <2> QED BY <1>10, <2>1
  <1>12. Writes(rest)
    <2> HIDE DEF Writes
    <2> QED BY <1>11
  <1>13. \A n \in Nat : rest[n] = More(rest, n)
    <2> HIDE DEF rest, More
    <2> QED BY <1>12
  <1> HIDE DEF rest
  <1>14. ASSUME NEW n \in Nat PROVE f[n] = rest[n]
    <2> DEFINE W == {f[k] : k \in Nat} \cup {rest[k] : k \in Nat}
               one == [k \in Nat |-> <<k>>]
               add == [k \in Nat |-> [v \in W |-> <<byte(k)>> \o v]]
    <2>1. ASSUME NEW g, g \in {f, rest}, \A k \in Nat : g[k] = More(g, k)
          PROVE  GoesBack(g, Nat, stop, one, next, add)
      <3>1. ASSUME NEW k \in Nat PROVE g[k] = IF k \in stop THEN one[k] ELSE add[k][g[next[k]]]
        <4>1. CASE k < 128
          <5>1. g[k] = <<k>>
            <6>1. g[k] = More(g, k)
              BY <2>1
            <6>2. ~(k >= 128)
              BY <4>1
            <6> QED BY <6>1, <6>2
          <5> HIDE DEF add
          <5> QED BY <4>1, <5>1
        <4>2. CASE k >= 128
          <5>1. k \notin stop /\ next[k] = k \div 128 /\ k \div 128 \in Nat
            BY <1>2, <4>2
          <5>2. g[k \div 128] \in W
            <6> HIDE DEF More
            <6> QED BY <2>1, <5>1
          <5>3. add[k][g[k \div 128]] = <<byte(k)>> \o g[k \div 128]
            <6> HIDE DEF W
            <6> QED BY <5>2
          <5>4. g[k] = <<byte(k)>> \o g[k \div 128]
            BY <2>1, <4>2
          <5> HIDE DEF stop, add, one, next
          <5> QED BY <5>1, <5>3, <5>4
        <4> QED BY <4>1, <4>2
      <3> HIDE DEF stop, add, one, next
      <3> QED BY <3>1 DEF GoesBack
    <2>2. GoesBack(f, Nat, stop, one, next, add)
      <3> HIDE DEF stop, add, one, next, More
      <3> QED BY <1>10, <2>1
    <2>3. GoesBack(rest, Nat, stop, one, next, add)
      <3> HIDE DEF stop, add, one, next, More
      <3> QED BY <1>13, <2>1
    <2> HIDE DEF stop, add, one, next, mu
    <2> QED BY <1>5, <2>2, <2>3, DescentUnique
  <1>15. \A n \in Nat : EncodeVarint(n) = f[n]
    BY <1>1, <1>14
  <1>16. x \div 128 \in Nat
    BY <1>2
  <1>17. f[x] = More(f, x) /\ f[x] \in Str
    <2> HIDE DEF More
    <2> QED BY <1>9, <1>10
  <1>18. EncodeVarint(x) = f[x] /\ EncodeVarint(x \div 128) = f[x \div 128]
    BY <1>15, <1>16
  <1>19. byte(x) = (x % 128) + 128
    BY DEF byte
  <1>20. x < 128 => ~(x >= 128)
    OBVIOUS
  <1> QED BY <1>17, <1>18, <1>19, <1>20

\* n bits are enough for x, and n - 1 are not.
IsBitLen(x, n) == n \in 1 .. WordSize /\ x < Pow2[n] /\ (n = 1 \/ x >= Pow2[n - 1])

LEMMA BitLenUnique ==
    ASSUME NEW x \in Nat, NEW n, NEW m, IsBitLen(x, n), IsBitLen(x, m)
    PROVE  n = m
  <1>1. ASSUME NEW i, NEW j, IsBitLen(x, i), IsBitLen(x, j), i < j PROVE FALSE
    <2>1. i \in 1 .. WordSize /\ j \in 1 .. WordSize /\ x < Pow2[i]
      BY <1>1 DEF IsBitLen
    <2>2. x >= Pow2[j - 1]
      BY <1>1, <2>1, WordFacts DEF IsBitLen
    <2>3. j - 1 \in 0 .. WordSize /\ i \in 0 .. j - 1
      BY <1>1, <2>1, WordFacts
    <2>4. Pow2[i] <= Pow2[j - 1]
      BY <2>3, Pow2Grows
    <2>5. Pow2[i] \in Nat /\ Pow2[j - 1] \in Nat
      BY <2>1, <2>3, Pow2Facts, WordFacts
    <2> QED BY <2>1, <2>2, <2>4, <2>5
  <1>2. n \in Int /\ m \in Int
    BY WordFacts DEF IsBitLen
  <1> QED BY <1>1, <1>2

LEMMA BitLenExists ==
    ASSUME NEW x \in Word
    PROVE  \E n : IsBitLen(x, n)
  <1> DEFINE S == {k \in 0 .. WordSize : k >= 1 /\ x < Pow2[k] => \E n : IsBitLen(x, n)}
  <1>1. 0 \in S
    BY WordFacts
  <1>2. ASSUME NEW k \in 1 .. WordSize, k - 1 \in S PROVE k \in S
    <2>1. CASE k >= 1 /\ x < Pow2[k]
      <3>1. CASE k = 1 \/ x >= Pow2[k - 1]
        <4>1. IsBitLen(x, k)
          BY <2>1, <3>1 DEF IsBitLen
        <4> QED BY <4>1, WordFacts
      <3>2. CASE ~(k = 1 \/ x >= Pow2[k - 1])
        <4>1. k - 1 >= 1 /\ k - 1 \in 0 .. WordSize /\ k \in 0 .. WordSize
          BY <3>2, WordFacts
        <4>2. x < Pow2[k - 1]
          BY <3>2, <4>1, Pow2Facts, MaxLenFacts DEF Word
        <4> QED BY <1>2, <4>1, <4>2
      <3> QED BY <3>1, <3>2
    <2>2. k \in 0 .. WordSize
      BY WordFacts
    <2> QED BY <2>1, <2>2
  <1>3. \A k \in 0 .. WordSize : k \in S
    <2> HIDE DEF S
    <2> QED BY <1>1, <1>2, IntervalInduction, WordFacts
  <1>4. WordSize \in S
    BY <1>3, WordFacts
  <1> QED BY <1>4, WordFacts, MaxLenFacts DEF Word

LEMMA BitLenFacts ==
    ASSUME NEW x \in Word
    PROVE  IsBitLen(x, BitLen(x)) /\ BitLen(x) \in 1 .. WordSize
  <1>1. PICK n : IsBitLen(x, n)
    BY BitLenExists
  <1>2. n \in 1 .. WordSize
    BY <1>1 DEF IsBitLen
  <1>3. BitLen(x) = CHOOSE k \in 1 .. WordSize : x < Pow2[k] /\ (k = 1 \/ x >= Pow2[k - 1])
    BY DEF BitLen
  <1>4. IsBitLen(x, BitLen(x))
    BY <1>1, <1>2, <1>3 DEF IsBitLen
  <1> QED BY <1>4 DEF IsBitLen

\* Shifting a varint by one byte takes seven bits off.
LEMMA BitLenShift ==
    ASSUME NEW x \in Word, x >= 128
    PROVE  x \div 128 \in Word /\ BitLen(x) = 7 + BitLen(x \div 128)
  <1> DEFINE n == BitLen(x)
             y == x \div 128
  <1>1. IsBitLen(x, n) /\ n \in 1 .. WordSize /\ x \in Nat
    BY BitLenFacts, MaxLenFacts DEF Word
  <1> HIDE DEF n
  <1>2. y \in Nat /\ y <= x /\ 128 * y <= x /\ x < 128 * (y + 1)
    BY <1>1
  <1>3. y \in Word
    BY <1>2, MaxLenFacts DEF Word
  <1> HIDE DEF y
  <1>4. Pow2[7] = 128 /\ 7 \in 0 .. WordSize
    <2>1. Pow2[1] = 2 /\ Pow2[2] = 4 /\ Pow2[3] = 8 /\ Pow2[4] = 16 /\ Pow2[5] = 32 /\ Pow2[6] = 64 /\ Pow2[7] = 128
      BY WordFacts, Pow2Facts
    <2> QED BY <2>1, WordFacts
  <1>5. n >= 8
    <2> SUFFICES ASSUME n <= 7 PROVE FALSE
      BY <1>1, WordFacts
    <2>1. Pow2[n] <= Pow2[7]
      BY <1>1, <1>4, Pow2Grows
    <2> QED BY <1>1, <1>4, <2>1, WordFacts, Pow2Facts DEF IsBitLen
  <1>6. ASSUME NEW k \in 7 .. WordSize PROVE Pow2[k] = 128 * Pow2[k - 7] /\ Pow2[k - 7] \in Nat
    <2>1. /\ Pow2[k] = 2 * Pow2[k - 1] /\ Pow2[k - 1] = 2 * Pow2[k - 2]
          /\ Pow2[k - 2] = 2 * Pow2[k - 3] /\ Pow2[k - 3] = 2 * Pow2[k - 4]
          /\ Pow2[k - 4] = 2 * Pow2[k - 5] /\ Pow2[k - 5] = 2 * Pow2[k - 6]
          /\ Pow2[k - 6] = 2 * Pow2[k - 7] /\ Pow2[k - 7] \in Nat
      BY WordFacts, Pow2Facts
    <2> QED BY <2>1
  <1>7. x < Pow2[n] /\ x >= Pow2[n - 1] /\ n \in Int
    BY <1>1, <1>5 DEF IsBitLen
  <1>8. Pow2[n] = 128 * Pow2[n - 7] /\ Pow2[n - 7] \in Nat
    BY <1>1, <1>5, <1>6
  <1>9. Pow2[n - 1] = 128 * Pow2[n - 8] /\ Pow2[n - 8] \in Nat
    <2>1. n - 1 \in 7 .. WordSize /\ (n - 1) - 7 = n - 8
      BY <1>1, <1>5, <1>7, WordFacts
    <2> HIDE DEF n
    <2> QED BY <1>6, <2>1
  <1>10. y < Pow2[n - 7] /\ y >= Pow2[n - 8]
    BY <1>1, <1>2, <1>7, <1>8, <1>9
  <1>11. IsBitLen(y, n - 7)
    <2>1. n - 7 \in 1 .. WordSize /\ (n - 7) - 1 = n - 8
      BY <1>1, <1>5, <1>7, WordFacts
    <2> QED BY <1>10, <2>1 DEF IsBitLen
  <1>12. BitLen(y) = n - 7
    BY <1>2, <1>3, <1>11, BitLenFacts, BitLenUnique
  <1> QED BY <1>3, <1>7, <1>12 DEF n, y

\* sovTx is what encodeVarintTx writes.
LEMMA SovExact ==
    ASSUME NEW x \in Word
    PROVE  Len(EncodeVarint(x)) = Sov(x)
  <1> DEFINE Exact(y) == Len(EncodeVarint(y)) = Sov(y)
             S == {k \in 0 .. WordSize : \A y \in Word : BitLen(y) <= k => Exact(y)}
  <1>1. 0 \in S
    BY WordFacts, BitLenFacts
  <1>2. ASSUME NEW k \in 1 .. WordSize, k - 1 \in S PROVE k \in S
    <2>1. ASSUME NEW y \in Word, BitLen(y) <= k PROVE Exact(y)
      <3>1. y \in Nat /\ BitLen(y) \in 1 .. WordSize /\ IsBitLen(y, BitLen(y)) /\ BitLen(y) \in Int
        BY BitLenFacts, WordFacts, MaxLenFacts DEF Word
      <3>2. CASE y < 128
        <4>1. Len(EncodeVarint(y)) = 1
          <5>1. EncodeVarint(y) = <<y>>
            BY <3>1, <3>2, EncodeVarintFacts
          <5> QED BY <5>1
        <4>2. BitLen(y) <= 7
          <5> DEFINE n == BitLen(y)
          <5> SUFFICES ASSUME n >= 8 PROVE FALSE
            BY <3>1
          <5>1. y >= Pow2[n - 1] /\ n - 1 \in 0 .. WordSize /\ 7 \in 0 .. n - 1
            BY <3>1, WordFacts DEF IsBitLen
          <5>2. Pow2[7] <= Pow2[n - 1] /\ Pow2[n - 1] \in Nat
            <6> HIDE DEF n
            <6> QED BY <5>1, Pow2Grows, Pow2Facts
          <5>3. Pow2[1] = 2 /\ Pow2[2] = 4 /\ Pow2[3] = 8 /\ Pow2[4] = 16 /\ Pow2[5] = 32 /\ Pow2[6] = 64 /\ Pow2[7] = 128
            BY WordFacts, Pow2Facts
          <5> HIDE DEF n
          <5> QED BY <3>1, <3>2, <5>1, <5>2, <5>3
        <4>3. (BitLen(y) + 6) \div 7 = 1
          BY <3>1, <4>2
        <4> QED BY <4>1, <4>3 DEF Sov
      <3>3. CASE y >= 128
        <4> DEFINE z == y \div 128
                   byte == (y % 128) + 128
        <4>1. z \in Word /\ BitLen(y) = 7 + BitLen(z) /\ z \in Nat
          BY <3>1, <3>3, BitLenShift
        <4>2. EncodeVarint(y) = <<byte>> \o EncodeVarint(z)
          BY <3>1, <3>3, EncodeVarintFacts
        <4> HIDE DEF z
        <4>3. BitLen(z) \in 1 .. WordSize /\ BitLen(z) \in Int
          BY <4>1, BitLenFacts, WordFacts
        <4>4. BitLen(z) <= k - 1
          BY <2>1, <3>1, <4>1, <4>3
        <4>5. Exact(z)
          BY <1>2, <4>1, <4>4
        <4>6. Len(EncodeVarint(y)) = 1 + Len(EncodeVarint(z))
          <5>1. EncodeVarint(z) \in Str
            BY <4>1, EncodeVarintFacts
          <5> HIDE DEF byte
          <5> QED BY <4>2, <5>1 DEF Str
        <4>7. \A n \in Int : (7 + n + 6) \div 7 = 1 + (n + 6) \div 7
          OBVIOUS
        <4>8. Sov(y) = 1 + Sov(z)
          BY <4>1, <4>3, <4>7 DEF Sov
        <4> QED BY <4>5, <4>6, <4>8
      <3> QED BY <3>1, <3>2, <3>3
    <2>2. k \in 0 .. WordSize
      BY WordFacts
    <2> HIDE DEF Exact
    <2> QED BY <2>1, <2>2
  <1>3. \A k \in 0 .. WordSize : k \in S
    <2> HIDE DEF S
    <2> QED BY <1>1, <1>2, IntervalInduction, WordFacts
  <1> HIDE DEF Exact
  <1>4. WordSize \in 0 .. WordSize /\ BitLen(x) <= WordSize
    BY BitLenFacts, WordFacts
  <1>5. Exact(x)
    BY <1>3, <1>4
  <1> QED BY <1>5 DEF Exact

\* b is a byte string of n bytes, or too long for a slice.
Sized(b, n) == b \in Str /\ (Len(b) <= MaxLen => n = Len(b))

LEMMA StrFacts ==
    ASSUME NEW b \in Str
    PROVE  Len(b) \in Nat /\ Sized(b, Len(b)) /\ (b = <<>> <=> Len(b) = 0) /\ (Len(b) <= MaxLen => Len(b) \in Word)
  <1>1. Len(b) \in Nat /\ (b = <<>> <=> Len(b) = 0)
    BY DEF Str
  <1> QED BY <1>1, MaxLenFacts DEF Sized, Word

LEMMA SizedConcat ==
    ASSUME NEW a, NEW x, NEW b, NEW y, Sized(a, x), Sized(b, y)
    PROVE  Sized(a \o b, x + y)
  <1>1. a \in Str /\ b \in Str
    BY DEF Sized
  <1>2. a \o b \in Str /\ Len(a \o b) = Len(a) + Len(b) /\ Len(a) \in Nat /\ Len(b) \in Nat
    BY <1>1 DEF Str
  <1>3. ASSUME Len(a \o b) <= MaxLen PROVE x = Len(a) /\ y = Len(b)
    BY <1>2, <1>3, MaxLenFacts DEF Sized
  <1> QED BY <1>2, <1>3 DEF Sized

LEMMA SizedVarint ==
    ASSUME NEW v \in Word
    PROVE  Sized(EncodeVarint(v), Sov(v)) /\ Len(EncodeVarint(v)) >= 1
  <1>1. v \in Nat
    BY MaxLenFacts DEF Word
  <1>2. EncodeVarint(v) \in Str
    BY <1>1, EncodeVarintFacts
  <1>3. BitLen(v) \in Int /\ BitLen(v) >= 1
    BY BitLenFacts, WordFacts
  <1> QED BY <1>2, <1>3, SovExact DEF Sized, Sov

LEMMA SizedByte ==
    ASSUME NEW tag \in Byte
    PROVE  Sized(<<tag>>, 1)
  <1>1. <<tag>> \in Str /\ Len(<<tag>>) = 1
    BY DEF Str
  <1> QED BY <1>1 DEF Sized

\* The pieces that a message is written in.
LEMMA SizedDelimited ==
    ASSUME NEW tag \in Byte, NEW s, NEW n, Sized(s, n)
    PROVE  Sized(Delimited(tag, s), DelimitedSize(n))
  <1> DEFINE e == EncodeVarint(Len(s))
  <1>1. s \in Str /\ Len(s) \in Nat
    BY StrFacts DEF Sized
  <1>2. e \in Str /\ <<tag>> \in Str
    BY <1>1, EncodeVarintFacts, SizedByte DEF Sized
  <1> HIDE DEF e
  <1>3. /\ <<tag>> \o e \o s \in Str /\ Len(<<tag>> \o e \o s) = 1 + Len(e) + Len(s)
        /\ Len(e) \in Nat
    BY <1>1, <1>2 DEF Str
  <1>4. Delimited(tag, s) = <<tag>> \o e \o s
    BY DEF Delimited, e
  <1>5. ASSUME 1 + Len(e) + Len(s) <= MaxLen PROVE DelimitedSize(n) = 1 + Len(e) + Len(s)
    <2>1. Len(s) <= MaxLen /\ Len(s) \in Word
      BY <1>1, <1>3, <1>5, MaxLenFacts DEF Word
    <2>2. n = Len(s)
      BY <2>1 DEF Sized
    <2>3. Sov(n) = Len(e)
      BY <2>1, <2>2, SovExact DEF e
    <2> QED BY <1>1, <1>3, <2>2, <2>3 DEF DelimitedSize
  <1> QED BY <1>3, <1>4, <1>5 DEF Sized

LEMMA SizedEmpty ==
    Sized(<<>>, 0)
  BY EmptyStr DEF Sized

LEMMA SizedPieces ==
    ASSUME NEW tag \in Byte
    PROVE  /\ \A s \in Str : Sized(IfNotEmpty(tag, s), IfNotEmptySize(s))
           /\ \A v \in Word : Sized(IfNotZero(tag, v), IfNotZeroSize(v))
           /\ \A v \in BOOLEAN : Sized(IfTrue(tag, v), IfTrueSize(v))
  <1>1. ASSUME NEW s \in Str PROVE Sized(IfNotEmpty(tag, s), IfNotEmptySize(s))
    BY SizedEmpty, StrFacts, SizedDelimited DEF IfNotEmpty, IfNotEmptySize
  <1>2. ASSUME NEW v \in Word PROVE Sized(IfNotZero(tag, v), IfNotZeroSize(v))
    BY SizedEmpty, SizedByte, SizedVarint, SizedConcat DEF IfNotZero, IfNotZeroSize
  <1>3. ASSUME NEW v \in BOOLEAN PROVE Sized(IfTrue(tag, v), IfTrueSize(v))
    <2>1. <<tag, 1>> \in Str /\ Len(<<tag, 1>>) = 2
      BY DEF Str, Byte
    <2>2. Sized(<<tag, 1>>, 2)
      BY <2>1 DEF Sized
    <2> QED BY <2>2, SizedEmpty DEF IfTrue, IfTrueSize
  <1> QED BY <1>1, <1>2, <1>3

\* The pieces of a repeated field one after the other.
LEMMA FlattenFacts ==
    ASSUME NEW n \in Nat, NEW ss \in [1 .. n -> Str]
    PROVE  /\ FlattenSeq(ss) \in Str
           /\ Len(FlattenSeq(ss)) = SumFunction([k \in 1 .. n |-> Len(ss[k])])
           /\ \A k \in 1 .. n : Len(ss[k]) <= Len(FlattenSeq(ss))
  <1> DEFINE sum(i) == SumFunction([k \in 1 .. i |-> Len(ss[k])])
             step == [i \in 1 .. n |-> [v \in Str |-> v \o ss[i]]]
             More(g, i) == IF i = 1 THEN ss[i] ELSE g[i - 1] \o ss[i]
             Joins(g) == g = [i \in 1 .. n |-> More(g, i)]
             flatten == CHOOSE g : Joins(g)
  <1>1. ss \in Seq(Str) /\ Len(ss) = n
    <2>1. ss \in Seq(Str)
      OBVIOUS
    <2> QED BY <2>1
  <1>2. \A k \in 1 .. n : Len(ss[k]) \in Nat
    BY StrFacts
  <1>3. PICK f : IsRun(f, n, Str, <<>>, step)
    <2>1. ASSUME NEW i \in 1 .. n, NEW v \in Str PROVE v \o ss[i] \in Str
      BY DEF Str
    <2>2. step \in Steps(n, Str)
      BY <2>1 DEF Steps
    <2> HIDE DEF step
    <2> QED BY <2>2, EmptyStr, IntervalRecursion
  <1>4. f \in [0 .. n -> Str] /\ f[0] = <<>>
    BY <1>3 DEF IsRun
  <1>5. ASSUME NEW i \in 1 .. n PROVE f[i] = f[i - 1] \o ss[i] /\ f[i - 1] \in Str
    <2>1. i - 1 \in 0 .. n
      OBVIOUS
    <2>2. f[i - 1] \in Str
      BY <1>4, <2>1
    <2>3. f[i] = step[i][f[i - 1]]
      <3> HIDE DEF step
      <3> QED BY <1>3 DEF IsRun
    <2> QED BY <2>2, <2>3
  <1>6. sum(0) = 0
    <2> DEFINE v == [k \in 1 .. 0 |-> Len(ss[k])]
    <2>1. v \in [{} -> Nat]
      OBVIOUS
    <2> HIDE DEF v
    <2>2. SumFunction(v) = 0
      BY <2>1, SumOfNone
    <2> QED BY <2>2 DEF v
  <1>7. ASSUME NEW i \in 1 .. n PROVE sum(i) = Len(ss[i]) + sum(i - 1)
    <2> DEFINE D == 1 .. i
               E == 1 .. i - 1
               w == [k \in D |-> Len(ss[k])]
               v == [k \in E |-> Len(ss[k])]
    <2>1. LessOne(D, w, i, E, v)
      <3>1. E = D \ {i} /\ i \in D /\ E \subseteq D /\ D \subseteq 1 .. n
        OBVIOUS
      <3>2. IsFiniteSet(D)
        BY FS_Interval
      <3> HIDE DEF D, E
      <3>3. w \in [D -> Nat] /\ v \in [E -> Nat] /\ \A y \in E : v[y] = w[y]
        BY <1>2, <3>1
      <3> QED BY <3>1, <3>2, <3>3 DEF LessOne
    <2>2. w[i] = Len(ss[i])
      OBVIOUS
    <2> HIDE DEF D, E, w, v
    <2>3. SumFunction(w) = w[i] + SumFunction(v)
      BY <2>1, SumSplit
    <2> QED BY <2>2, <2>3 DEF D, E, w, v
  <1> DEFINE S == {i \in 0 .. n : /\ Len(f[i]) = sum(i)
                                  /\ \A k \in 1 .. i : Len(ss[k]) <= Len(f[i])}
  <1>8. \A i \in 0 .. n : i \in S
    <2>1. 0 \in S
      BY <1>4, <1>6
    <2>2. ASSUME NEW i \in 1 .. n, i - 1 \in S PROVE i \in S
      <3>1. Len(f[i]) = Len(f[i - 1]) + Len(ss[i]) /\ Len(f[i - 1]) \in Nat
        <4>1. f[i] = f[i - 1] \o ss[i] /\ f[i - 1] \in Str /\ ss[i] \in Str
          BY <1>5
        <4> QED BY <4>1 DEF Str
      <3>2. sum(i) = Len(ss[i]) + sum(i - 1) /\ Len(ss[i]) \in Nat
        BY <1>2, <1>7
      <3> HIDE DEF sum
      <3>3. Len(f[i]) = sum(i)
        BY <2>2, <3>1, <3>2
      <3>4. ASSUME NEW k \in 1 .. i PROVE Len(ss[k]) <= Len(f[i])
        <4>1. k \in 1 .. i - 1 \/ k = i
          OBVIOUS
        <4>2. Len(ss[k]) \in Nat
          BY <1>2
        <4> QED BY <2>2, <3>1, <3>2, <4>1, <4>2
      <3> QED BY <3>3, <3>4
    <2> HIDE DEF S
    <2> QED BY <2>1, <2>2, IntervalInduction
  <1>9. CASE n = 0
    <2>1. FlattenSeq(ss) = ss /\ ss = <<>>
      BY <1>1, <1>9 DEF FlattenSeq
    <2>2. 1 .. n = 1 .. 0
      BY <1>9
    <2>3. Len(FlattenSeq(ss)) = sum(n)
      BY <1>6, <1>9, <2>1
    <2> HIDE DEF sum
    <2> QED BY <1>9, <2>1, <2>3, EmptyStr DEF sum
  <1>10. CASE n # 0
    <2>1. FlattenSeq(ss) = flatten[n]
      BY <1>1, <1>10 DEF FlattenSeq
    <2> DEFINE g == [i \in 1 .. n |-> f[i]]
    <2>2. Joins(g)
      <3>1. ASSUME NEW i \in 1 .. n PROVE f[i] = More(g, i)
        <4>1. CASE i = 1
          <5>1. f[1] = <<>> \o ss[1] /\ ss[1] \in Seq(Byte)
            <6>1. f[i] = f[i - 1] \o ss[i] /\ i - 1 = 0 /\ ss[i] \in Str
              BY <1>5, <4>1
            <6> QED BY <1>4, <4>1, <6>1 DEF Str
          <5> QED BY <4>1, <5>1
        <4>2. CASE i # 1
          <5>1. g[i - 1] = f[i - 1]
            BY <4>2
          <5> HIDE DEF g
          <5> QED BY <1>5, <4>2, <5>1
        <4> QED BY <4>1, <4>2
      <3> HIDE DEF More
      <3> QED BY <3>1
    <2>3. Joins(flatten)
      <3> HIDE DEF Joins, g
      <3> QED BY <2>2
    <2>4. \A i \in 1 .. n : flatten[i] = More(flatten, i)
      <3> HIDE DEF flatten, More
      <3> QED BY <2>3
    <2> DEFINE T == {i \in 0 .. n : i >= 1 => flatten[i] = f[i]}
    <2>5. \A i \in 0 .. n : i \in T
      <3>1. 0 \in T
        OBVIOUS
      <3> HIDE DEF flatten
      <3>2. ASSUME NEW i \in 1 .. n, i - 1 \in T PROVE i \in T
        <4>1. f[i] = More(g, i)
          BY <2>2
        <4>2. flatten[i] = More(flatten, i)
          BY <2>4
        <4>3. CASE i = 1
          BY <4>1, <4>2, <4>3
        <4>4. CASE i # 1
          <5>1. g[i - 1] = f[i - 1] /\ flatten[i - 1] = f[i - 1]
            BY <3>2, <4>4
          <5> HIDE DEF g
          <5>2. flatten[i] = f[i]
            BY <4>1, <4>2, <4>4, <5>1
          <5>3. i \in 0 .. n
            OBVIOUS
          <5> QED BY <5>2, <5>3
        <4> QED BY <4>3, <4>4
      <3> HIDE DEF T
      <3> QED BY <3>1, <3>2, IntervalInduction
    <2>6. flatten[n] = f[n]
      <3> HIDE DEF flatten
      <3> QED BY <1>10, <2>5
    <2> HIDE DEF flatten, sum
    <2>7. n \in S /\ f[n] \in Str
      BY <1>4, <1>8
    <2> QED BY <2>1, <2>6, <2>7 DEF sum
  <1> QED BY <1>9, <1>10

LEMMA SizedFlatten ==
    ASSUME NEW n \in Nat, NEW ss, NEW w, ss = [k \in 1 .. n |-> ss[k]], w = [k \in 1 .. n |-> w[k]],
           \A k \in 1 .. n : Sized(ss[k], w[k])
    PROVE  Sized(FlattenSeq(ss), SumFunction(w))
  <1>1. \A k \in 1 .. n : ss[k] \in Str
    BY DEF Sized
  <1>2. ss \in [1 .. n -> Str]
    BY <1>1
  <1> DEFINE v == [k \in 1 .. n |-> Len(ss[k])]
  <1>3. /\ FlattenSeq(ss) \in Str /\ Len(FlattenSeq(ss)) = SumFunction(v)
        /\ \A k \in 1 .. n : Len(ss[k]) <= Len(FlattenSeq(ss))
    BY <1>2, FlattenFacts
  <1>4. ASSUME Len(FlattenSeq(ss)) <= MaxLen PROVE w = v
    <2>1. ASSUME NEW k \in 1 .. n PROVE w[k] = Len(ss[k])
      <3>1. Len(ss[k]) \in Nat /\ Len(FlattenSeq(ss)) \in Nat
        BY <1>1, <1>3, StrFacts
      <3>2. Len(ss[k]) <= MaxLen
        BY <1>3, <1>4, <3>1, MaxLenFacts
      <3> QED BY <3>2 DEF Sized
    <2> QED BY <2>1
  <1> HIDE DEF v
  <1> QED BY <1>3, <1>4 DEF Sized

LEMMA SizedEach ==
    ASSUME NEW tag \in Byte, NEW ss \in Seq(Str)
    PROVE  Sized(Each(tag, ss), EachSize(ss))
  <1> DEFINE n == Len(ss)
             bs == [i \in 1 .. n |-> Delimited(tag, ss[i])]
             w == [i \in 1 .. n |-> DelimitedSize(Len(ss[i]))]
  <1>1. n \in Nat
    OBVIOUS
  <1>2. ASSUME NEW i \in 1 .. n PROVE Sized(bs[i], w[i])
    <2>1. ss[i] \in Str
      OBVIOUS
    <2>2. Sized(Delimited(tag, ss[i]), DelimitedSize(Len(ss[i])))
      BY <2>1, StrFacts, SizedDelimited
    <2> QED BY <2>2
  <1>3. bs = [k \in 1 .. n |-> bs[k]] /\ w = [k \in 1 .. n |-> w[k]]
    OBVIOUS
  <1>4. Each(tag, ss) = FlattenSeq(bs) /\ EachSize(ss) = SumFunction(w)
    BY DEF Each, EachSize
  <1> HIDE DEF n, bs, w
  <1>5. Sized(FlattenSeq(bs), SumFunction(w))
    BY <1>1, <1>2, <1>3, SizedFlatten
  <1> QED BY <1>4, <1>5

\* An order of the keys has each of them.
LEMMA KeysOnto ==
    ASSUME NEW K, IsFiniteSet(K), NEW keys \in SetToSeqs(K)
    PROVE  /\ Cardinality(K) \in Nat /\ keys \in [1 .. Cardinality(K) -> K]
           /\ \A i, j \in 1 .. Cardinality(K) : i # j => keys[i] # keys[j]
           /\ \A k \in K : \E i \in 1 .. Cardinality(K) : keys[i] = k
  <1> DEFINE n == Cardinality(K)
             D == 1 .. n
  <1>1. n \in Nat
    BY FS_CardinalityType
  <1>2. keys \in [D -> K] /\ \A i, j \in D : i # j => keys[i] # keys[j]
    BY DEF SetToSeqs
  <1> HIDE DEF n
  <1>3. IsFiniteSet(D) /\ Cardinality(D) = n
    BY <1>1, FS_Interval
  <1>4. keys \in Injection(D, K)
    <2> HIDE DEF D
    <2> QED BY <1>2 DEF Injection, IsInjective
  <1>5. keys \in Surjection(D, K)
    <2> HIDE DEF D
    <2> QED BY <1>3, <1>4, FS_Injection DEF n
  <1> QED BY <1>1, <1>2, <1>5 DEF Surjection, n

\* The sum of the sizes of a map's entries does not depend on the order of the keys.
LEMMA SumOfKeys ==
    ASSUME NEW K, IsFiniteSet(K), NEW keys \in SetToSeqs(K), NEW w \in [K -> Nat]
    PROVE  SumFunction([i \in 1 .. Cardinality(K) |-> w[keys[i]]]) = SumFunction(w)
  <1> DEFINE n == Cardinality(K)
             D == 1 .. n
             v == [i \in D |-> w[keys[i]]]
             Img(i) == {keys[j] : j \in 1 .. i}
  <1>1. n \in Nat
    BY KeysOnto
  <1>2. /\ keys \in [D -> K] /\ \A i, j \in D : i # j => keys[i] # keys[j]
        /\ \A k \in K : \E i \in D : keys[i] = k
    BY KeysOnto
  <1> HIDE DEF n
  <1>3. IsFiniteSet(D) /\ Cardinality(D) = n
    BY <1>1, FS_Interval
  <1>4. v \in [D -> Nat]
    <2> HIDE DEF D
    <2> QED BY <1>2
  <1>5. PICK f : IsTotal(f, D, v) /\ SumFunction(v) = f[D]
    <2> HIDE DEF D, v
    <2> QED BY <1>3, <1>4, TotalExists
  <1>6. PICK g : IsTotal(g, K, w) /\ SumFunction(w) = g[K]
    BY TotalExists
  <1>7. Img(n) = K
    BY <1>2
  <1>8. \A i \in 0 .. n : Img(i) \in SUBSET K /\ 1 .. i \in SUBSET D
    BY <1>1, <1>2
  <1> DEFINE S == {i \in 0 .. n : f[1 .. i] = g[Img(i)]}
  <1>9. \A i \in 0 .. n : i \in S
    <2>1. 0 \in S
      <3>1. 1 .. 0 = {} /\ Img(0) = {}
        OBVIOUS
      <3>2. f[{}] = 0 /\ g[{}] = 0
        BY <1>5, <1>6 DEF IsTotal
      <3> QED BY <1>1, <3>1, <3>2
    <2>2. ASSUME NEW i \in 1 .. n, i - 1 \in S PROVE i \in S
      <3>1. i \in 0 .. n /\ i - 1 \in 0 .. n /\ i \in 1 .. i /\ i \in D
        BY <1>1
      <3>2. (1 .. i) \ {i} = 1 .. i - 1
        BY <1>1
      <3>3. Img(i) \ {keys[i]} = Img(i - 1) /\ keys[i] \in Img(i)
        <4>1. \A j \in 1 .. i : j \in D /\ (j = i \/ j \in 1 .. i - 1)
          BY <1>1
        <4>2. \A j \in 1 .. i - 1 : j \in 1 .. i /\ j \in D /\ j # i
          BY <1>1
        <4> HIDE DEF D
        <4> QED BY <1>2, <3>1, <4>1, <4>2
      <3>4. f[1 .. i] = v[i] + f[(1 .. i) \ {i}]
        <4> HIDE DEF D, v
        <4> QED BY <1>5, <1>8, <3>1 DEF IsTotal
      <3>5. g[Img(i)] = w[keys[i]] + g[Img(i) \ {keys[i]}]
        <4> HIDE DEF Img
        <4> QED BY <1>6, <1>8, <3>1, <3>3 DEF IsTotal
      <3>6. v[i] = w[keys[i]]
        <4> HIDE DEF D
        <4> QED BY <3>1
      <3> HIDE DEF v, Img
      <3> QED BY <2>2, <3>1, <3>2, <3>3, <3>4, <3>5, <3>6
    <2> HIDE DEF S
    <2> QED BY <1>1, <2>1, <2>2, IntervalInduction
  <1>10. f[D] = g[K]
    <2>1. n \in S
      BY <1>1, <1>9
    <2> HIDE DEF Img
    <2> QED BY <1>7, <2>1
  <1>11. SumFunction(v) = SumFunction(w)
    BY <1>5, <1>6, <1>10
  <1> QED BY <1>11 DEF n

\* Both codecs are made of the same pieces.
LEMMA GogoPieces ==
    ASSUME NEW tag, NEW s
    PROVE  /\ G!Delimited(tag, s) = Delimited(tag, s) /\ G!DelimitedSize(s) = DelimitedSize(s)
           /\ G!IfNotEmpty(tag, s) = IfNotEmpty(tag, s) /\ G!IfNotEmptySize(s) = IfNotEmptySize(s)
           /\ G!IfNotZero(tag, s) = IfNotZero(tag, s) /\ G!IfNotZeroSize(s) = IfNotZeroSize(s)
           /\ G!IfTrue(tag, s) = IfTrue(tag, s) /\ G!IfTrueSize(s) = IfTrueSize(s)
           /\ G!Each(tag, s) = Each(tag, s) /\ G!EachSize(s) = EachSize(s)
  <1>1. \A v : G!EncodeVarint(v) = EncodeVarint(v)
    BY DEF G!EncodeVarint, EncodeVarint
  <1>2. \A v : G!Sov(v) = Sov(v)
    BY DEF G!Sov, Sov, G!BitLen, BitLen, G!Pow2, Pow2
  <1>3. \A t, v : G!Delimited(t, v) = Delimited(t, v)
    BY <1>1 DEF G!Delimited, Delimited
  <1>4. \A v : G!DelimitedSize(v) = DelimitedSize(v)
    BY <1>2 DEF G!DelimitedSize, DelimitedSize
  <1>5. G!IfNotEmpty(tag, s) = IfNotEmpty(tag, s) /\ G!IfNotEmptySize(s) = IfNotEmptySize(s)
    BY <1>3, <1>4 DEF G!IfNotEmpty, IfNotEmpty, G!IfNotEmptySize, IfNotEmptySize
  <1>6. G!IfNotZero(tag, s) = IfNotZero(tag, s) /\ G!IfNotZeroSize(s) = IfNotZeroSize(s)
    BY <1>1, <1>2 DEF G!IfNotZero, IfNotZero, G!IfNotZeroSize, IfNotZeroSize
  <1>7. G!IfTrue(tag, s) = IfTrue(tag, s) /\ G!IfTrueSize(s) = IfTrueSize(s)
    BY DEF G!IfTrue, IfTrue, G!IfTrueSize, IfTrueSize
  <1>8. G!Each(tag, s) = Each(tag, s)
    <2>1. \A v : G!FlattenSeq(v) = FlattenSeq(v)
      BY DEF G!FlattenSeq, FlattenSeq
    <2> QED BY <1>3, <2>1 DEF G!Each, Each
  <1>9. G!EachSize(s) = EachSize(s)
    <2>1. \A v : G!SumFunction(v) = SumFunction(v)
      BY DEF SumFunction, SumFunctionOnSet, FoldFunctionOnSet, MapThenFoldSet, G!SumFunction,
             G!SumFunctionOnSet, G!FoldFunctionOnSet, G!MapThenFoldSet
    <2> QED BY <1>4, <2>1 DEF G!EachSize, EachSize
  <1> QED BY <1>3, <1>4, <1>5, <1>6, <1>7, <1>8, <1>9

LEMMA PulsarPieces ==
    ASSUME NEW tag, NEW s
    PROVE  /\ P!Delimited(tag, s) = Delimited(tag, s) /\ P!DelimitedSize(s) = DelimitedSize(s)
           /\ P!IfNotEmpty(tag, s) = IfNotEmpty(tag, s) /\ P!IfNotEmptySize(s) = IfNotEmptySize(s)
           /\ P!IfNotZero(tag, s) = IfNotZero(tag, s) /\ P!IfNotZeroSize(s) = IfNotZeroSize(s)
           /\ P!IfTrue(tag, s) = IfTrue(tag, s) /\ P!IfTrueSize(s) = IfTrueSize(s)
           /\ P!Each(tag, s) = Each(tag, s) /\ P!EachSize(s) = EachSize(s)
           /\ P!FlattenSeq(s) = FlattenSeq(s) /\ P!SumFunction(s) = SumFunction(s)
           /\ P!SetToSeqs(s) = SetToSeqs(s)
  <1>1. \A v : P!EncodeVarint(v) = EncodeVarint(v)
    BY DEF P!EncodeVarint, EncodeVarint
  <1>2. \A v : P!Sov(v) = Sov(v)
    BY DEF P!Sov, Sov, P!BitLen, BitLen, P!Pow2, Pow2
  <1>3. \A t, v : P!Delimited(t, v) = Delimited(t, v)
    BY <1>1 DEF P!Delimited, Delimited
  <1>4. \A v : P!DelimitedSize(v) = DelimitedSize(v)
    BY <1>2 DEF P!DelimitedSize, DelimitedSize
  <1>5. P!IfNotEmpty(tag, s) = IfNotEmpty(tag, s) /\ P!IfNotEmptySize(s) = IfNotEmptySize(s)
    BY <1>3, <1>4 DEF P!IfNotEmpty, IfNotEmpty, P!IfNotEmptySize, IfNotEmptySize
  <1>6. P!IfNotZero(tag, s) = IfNotZero(tag, s) /\ P!IfNotZeroSize(s) = IfNotZeroSize(s)
    BY <1>1, <1>2 DEF P!IfNotZero, IfNotZero, P!IfNotZeroSize, IfNotZeroSize
  <1>7. P!IfTrue(tag, s) = IfTrue(tag, s) /\ P!IfTrueSize(s) = IfTrueSize(s)
    BY DEF P!IfTrue, IfTrue, P!IfTrueSize, IfTrueSize
  <1>8. \A v : P!FlattenSeq(v) = FlattenSeq(v)
    BY DEF P!FlattenSeq, FlattenSeq
  <1>9. \A v : P!SumFunction(v) = SumFunction(v)
    BY DEF SumFunction, SumFunctionOnSet, FoldFunctionOnSet, MapThenFoldSet, P!SumFunction,
           P!SumFunctionOnSet, P!FoldFunctionOnSet, P!MapThenFoldSet
  <1>10. P!Each(tag, s) = Each(tag, s)
    BY <1>3, <1>8 DEF P!Each, Each
  <1>11. P!EachSize(s) = EachSize(s)
    BY <1>4, <1>9 DEF P!EachSize, EachSize
  <1>12. P!SetToSeqs(s) = SetToSeqs(s)
    <2>1. P!Cardinality(s) = Cardinality(s)
      BY DEF P!Cardinality, Cardinality
    <2> QED BY <2>1 DEF P!SetToSeqs, SetToSeqs
  <1> QED BY <1>3, <1>4, <1>5, <1>6, <1>7, <1>8, <1>9, <1>10, <1>11, <1>12

Tags == {8, 10, 16, 18, 24, 26, 34, 40, 50}

LEMMA TagBytes ==
    \A tag \in Tags : tag \in Byte
  BY DEF Tags, Byte

LEMMA GogoNumberSized ==
    ASSUME NEW v \in Str
    PROVE  G!MarshalNumber(v) \in Str /\ Sized(G!MarshalNumber(v), Len(G!MarshalNumber(v)))
  <1>1. <<48>> \in Str
    BY DEF Str, Byte
  <1>2. G!MarshalNumber(v) \in Str
    BY <1>1 DEF G!MarshalNumber
  <1> QED BY <1>2, StrFacts

LEMMA GogoCoinSized ==
    ASSUME NEW m \in GogoCoins
    PROVE  Sized(G!MarshalCoin(m), G!SizeCoin(m))
  <1> DEFINE a == G!MarshalNumber(m.amount)
  <1>1. m.denom \in Str /\ Sized(a, Len(a))
    BY GogoNumberSized DEF GogoCoins
  <1> HIDE DEF a
  <1>2. Sized(IfNotEmpty(10, m.denom), IfNotEmptySize(m.denom))
    BY <1>1, SizedPieces, TagBytes DEF Tags
  <1>3. Sized(Delimited(18, a), DelimitedSize(Len(a)))
    BY <1>1, SizedDelimited, TagBytes DEF Tags
  <1>4. /\ G!MarshalCoin(m) = IfNotEmpty(10, m.denom) \o Delimited(18, a)
        /\ G!SizeCoin(m) = IfNotEmptySize(m.denom) + DelimitedSize(Len(a))
    BY GogoPieces DEF G!MarshalCoin, G!SizeCoin, a
  <1> QED BY <1>2, <1>3, <1>4, SizedConcat

LEMMA HalfWords ==
    Half \subseteq Word
  <1>1. Pow2[HalfWord] <= Pow2[WordSize] /\ Pow2[HalfWord] \in Nat /\ Pow2[WordSize] \in Nat
    BY WordFacts, Pow2Grows, Pow2Facts
  <1> QED BY <1>1 DEF Half, Word

LEMMA GogoParamsSized ==
    ASSUME NEW m \in GogoParams
    PROVE  Sized(G!MarshalParams(m), G!SizeParams(m))
  <1> DEFINE b1 == IfNotZero(8, m.maxBundleSize)
             n1 == IfNotZeroSize(m.maxBundleSize)
             b2 == IfNotEmpty(18, m.escrowAccountAddress)
             n2 == IfNotEmptySize(m.escrowAccountAddress)
             b3 == Delimited(26, G!MarshalCoin(m.reserveFee))
             n3 == DelimitedSize(G!SizeCoin(m.reserveFee))
             b4 == Delimited(34, G!MarshalCoin(m.minBidIncrement))
             n4 == DelimitedSize(G!SizeCoin(m.minBidIncrement))
             b5 == IfTrue(40, m.frontRunningProtection)
             n5 == IfTrueSize(m.frontRunningProtection)
             b6 == Delimited(50, G!MarshalNumber(m.proposerFee))
             n6 == DelimitedSize(Len(G!MarshalNumber(m.proposerFee)))
  <1> USE TagBytes DEF Tags
  <1>1. /\ m.maxBundleSize \in Half /\ m.escrowAccountAddress \in Str /\ m.reserveFee \in GogoCoins
        /\ m.minBidIncrement \in GogoCoins /\ m.frontRunningProtection \in BOOLEAN /\ m.proposerFee \in Str
    BY DEF GogoParams
  <1>2. Sized(b1, n1)
    BY <1>1, HalfWords, SizedPieces
  <1>3. Sized(b2, n2)
    BY <1>1, SizedPieces
  <1>4. Sized(b3, n3)
    BY <1>1, GogoCoinSized, SizedDelimited
  <1>5. Sized(b4, n4)
    BY <1>1, GogoCoinSized, SizedDelimited
  <1>6. Sized(b5, n5)
    BY <1>1, SizedPieces
  <1>7. Sized(b6, n6)
    BY <1>1, GogoNumberSized, SizedDelimited
  <1>8. /\ G!MarshalParams(m) = b1 \o b2 \o b3 \o b4 \o b5 \o b6
        /\ G!SizeParams(m) = n1 + n2 + n3 + n4 + n5 + n6
    <2>1. G!MarshalParams(m) = b1 \o b2 \o b3 \o b4 \o b5 \o b6
      BY GogoPieces DEF G!MarshalParams
    <2>2. G!SizeParams(m) = n1 + n2 + n3 + n4 + n5 + n6
      <3>1. G!IfNotZeroSize(m.maxBundleSize) = n1 /\ G!IfNotEmptySize(m.escrowAccountAddress) = n2
        BY GogoPieces
      <3>2. /\ G!DelimitedSize(G!SizeCoin(m.reserveFee)) = n3
            /\ G!DelimitedSize(G!SizeCoin(m.minBidIncrement)) = n4
        BY GogoPieces
      <3>3. G!IfTrueSize(m.frontRunningProtection) = n5
        BY GogoPieces
      <3>4. G!DelimitedSize(Len(G!MarshalNumber(m.proposerFee))) = n6
        BY GogoPieces
      <3> HIDE DEF n1, n2, n3, n4, n5, n6
      <3> QED BY <3>1, <3>2, <3>3, <3>4 DEF G!SizeParams
    <2> QED BY <2>1, <2>2
  <1> HIDE DEF b1, b2, b3, b4, b5, b6, n1, n2, n3, n4, n5, n6
  <1>9. Sized(b1 \o b2 \o b3, n1 + n2 + n3)
    BY <1>2, <1>3, <1>4, SizedConcat
  <1>10. Sized(b1 \o b2 \o b3 \o b4 \o b5 \o b6, n1 + n2 + n3 + n4 + n5 + n6)
    BY <1>5, <1>6, <1>7, <1>9, SizedConcat
  <1> QED BY <1>8, <1>10

\* Marshal writes as many bytes as Size says, for every message that is sent.
LEMMA GogoSized ==
    ASSUME NEW t \in DOMAIN GogoMessages \ {"Coin"}, NEW m \in GogoMessages[t]
    PROVE  Sized(G!Marshal(t, m), G!Size(t, m))
  <1> USE TagBytes DEF Tags
  <1>1. CASE t = "Params"
    <2>1. m \in GogoParams /\ G!Marshal(t, m) = G!MarshalParams(m) /\ G!Size(t, m) = G!SizeParams(m)
      BY <1>1 DEF GogoMessages, G!Marshal, G!Size
    <2> QED BY <2>1, GogoParamsSized
  <1>2. CASE t \in {"GenesisState", "QueryParamsResponse"}
    <2> DEFINE b == G!MarshalParams(m.params)
               n == G!SizeParams(m.params)
    <2>1. m \in [params : GogoParams]
      <3>1. CASE t = "GenesisState"
        BY <3>1 DEF GogoMessages
      <3>2. CASE t = "QueryParamsResponse"
        BY <3>2 DEF GogoMessages
      <3> QED BY <1>2, <3>1, <3>2
    <2>2. Sized(b, n)
      BY <2>1, GogoParamsSized
    <2>3. G!Marshal(t, m) = Delimited(10, b) /\ G!Size(t, m) = DelimitedSize(n)
      BY <1>2, GogoPieces DEF G!Marshal, G!Size, G!MarshalGenesisState, G!SizeGenesisState,
         G!MarshalQueryParamsResponse, G!SizeQueryParamsResponse
    <2> HIDE DEF b, n
    <2> QED BY <2>2, <2>3, SizedDelimited
  <1>3. CASE t = "MsgAuctionBid"
    <2> DEFINE b1 == IfNotEmpty(10, m.bidder)
               n1 == IfNotEmptySize(m.bidder)
               b2 == Delimited(18, G!MarshalCoin(m.bid))
               n2 == DelimitedSize(G!SizeCoin(m.bid))
               b3 == Each(26, m.transactions)
               n3 == EachSize(m.transactions)
    <2>1. m.bidder \in Str /\ m.bid \in GogoCoins /\ m.transactions \in Seq(Str)
      BY <1>3 DEF GogoMessages
    <2>2. Sized(b1, n1)
      BY <2>1, SizedPieces
    <2>3. Sized(b2, n2)
      BY <2>1, GogoCoinSized, SizedDelimited
    <2>4. Sized(b3, n3)
      BY <2>1, SizedEach
    <2>5. G!Marshal(t, m) = b1 \o b2 \o b3
      BY <1>3, GogoPieces DEF G!Marshal, G!MarshalMsgAuctionBid
    <2>6. G!Size(t, m) = n1 + n2 + n3
      BY <1>3, GogoPieces DEF G!Size, G!SizeMsgAuctionBid
    <2> HIDE DEF b1, b2, b3, n1, n2, n3
    <2> QED BY <2>2, <2>3, <2>4, <2>5, <2>6, SizedConcat
  <1>4. CASE t = "MsgUpdateParams"
    <2> DEFINE b1 == IfNotEmpty(10, m.authority)
               n1 == IfNotEmptySize(m.authority)
               b2 == Delimited(18, G!MarshalParams(m.params))
               n2 == DelimitedSize(G!SizeParams(m.params))
    <2>1. m.authority \in Str /\ m.params \in GogoParams
      BY <1>4 DEF GogoMessages
    <2>2. Sized(b1, n1)
      BY <2>1, SizedPieces
    <2>3. Sized(b2, n2)
      BY <2>1, GogoParamsSized, SizedDelimited
    <2>4. G!Marshal(t, m) = b1 \o b2
      BY <1>4, GogoPieces DEF G!Marshal, G!MarshalMsgUpdateParams
    <2>5. G!Size(t, m) = n1 + n2
      BY <1>4, GogoPieces DEF G!Size, G!SizeMsgUpdateParams
    <2> HIDE DEF b1, b2, n1, n2
    <2> QED BY <2>2, <2>3, <2>4, <2>5, SizedConcat
  <1>5. CASE t \in {"MsgAuctionBidResponse", "MsgUpdateParamsResponse", "QueryParamsRequest"}
    <2>1. G!Marshal(t, m) = <<>> /\ G!Size(t, m) = 0
      BY <1>5 DEF G!Marshal, G!Size, G!MarshalMsgAuctionBidResponse, G!MarshalMsgUpdateParamsResponse,
         G!MarshalQueryParamsRequest, G!SizeMsgAuctionBidResponse, G!SizeMsgUpdateParamsResponse,
         G!SizeQueryParamsRequest
    <2> QED BY <2>1, SizedEmpty
  <1> QED BY <1>1, <1>2, <1>3, <1>4, <1>5, GogoTypes

LEMMA SizedIfNotNil ==
    ASSUME NEW tag \in Byte, NEW p, NEW b, NEW n, p # <<>> => Sized(b, n)
    PROVE  Sized(P!IfNotNil(tag, p, b), P!IfNotNilSize(p, n))
  BY SizedEmpty, SizedDelimited, PulsarPieces DEF P!IfNotNil, P!IfNotNilSize

LEMMA PtrFacts ==
    ASSUME NEW S, NEW p \in Ptr(S), p # <<>>
    PROVE  p[1] \in S
  BY DEF Ptr

LEMMA PulsarCoinSized ==
    ASSUME NEW x \in PulsarCoins
    PROVE  Sized(P!MarshalCoin(x), P!SizeCoin(x))
  <1> DEFINE b1 == IfNotEmpty(10, x.denom)
             n1 == IfNotEmptySize(x.denom)
             b2 == IfNotEmpty(18, x.amount)
             n2 == IfNotEmptySize(x.amount)
  <1> USE TagBytes DEF Tags
  <1>1. x.denom \in Str /\ x.amount \in Str /\ x.unknown \in Str
    BY DEF PulsarCoins
  <1>2. Sized(b1, n1) /\ Sized(b2, n2)
    BY <1>1, SizedPieces
  <1>3. Sized(x.unknown, Len(x.unknown))
    BY <1>1, StrFacts
  <1>4. P!MarshalCoin(x) = b1 \o b2 \o x.unknown
    BY PulsarPieces DEF P!MarshalCoin
  <1>5. P!SizeCoin(x) = n1 + n2 + Len(x.unknown)
    BY PulsarPieces DEF P!SizeCoin
  <1> HIDE DEF b1, b2, n1, n2
  <1> QED BY <1>2, <1>3, <1>4, <1>5, SizedConcat

LEMMA PulsarParamsSized ==
    ASSUME NEW x \in PulsarParams
    PROVE  Sized(P!MarshalParams(x), P!SizeParams(x))
  <1> DEFINE b1 == IfNotZero(8, x.maxBundleSize)
             n1 == IfNotZeroSize(x.maxBundleSize)
             b2 == IfNotEmpty(18, x.escrowAccountAddress)
             n2 == IfNotEmptySize(x.escrowAccountAddress)
             b3 == P!IfNotNil(26, x.reserveFee, P!MarshalCoin(x.reserveFee[1]))
             n3 == P!IfNotNilSize(x.reserveFee, P!SizeCoin(x.reserveFee[1]))
             b4 == P!IfNotNil(34, x.minBidIncrement, P!MarshalCoin(x.minBidIncrement[1]))
             n4 == P!IfNotNilSize(x.minBidIncrement, P!SizeCoin(x.minBidIncrement[1]))
             b5 == IfTrue(40, x.frontRunningProtection)
             n5 == IfTrueSize(x.frontRunningProtection)
             b6 == IfNotEmpty(50, x.proposerFee)
             n6 == IfNotEmptySize(x.proposerFee)
             b7 == x.unknown
             n7 == Len(x.unknown)
  <1> USE TagBytes DEF Tags
  <1>1. /\ x.maxBundleSize \in Half /\ x.escrowAccountAddress \in Str /\ x.reserveFee \in Ptr(PulsarCoins)
        /\ x.minBidIncrement \in Ptr(PulsarCoins) /\ x.frontRunningProtection \in BOOLEAN
        /\ x.proposerFee \in Str /\ x.unknown \in Str
    BY DEF PulsarParams
  <1>2. Sized(b1, n1)
    BY <1>1, HalfWords, SizedPieces
  <1>3. Sized(b2, n2) /\ Sized(b6, n6)
    BY <1>1, SizedPieces
  <1>4. Sized(b3, n3) /\ Sized(b4, n4)
    BY <1>1, PtrFacts, PulsarCoinSized, SizedIfNotNil
  <1>5. Sized(b5, n5)
    BY <1>1, SizedPieces
  <1>6. Sized(b7, n7)
    BY <1>1, StrFacts
  <1>7. P!MarshalParams(x) = b1 \o b2 \o b3 \o b4 \o b5 \o b6 \o b7
    BY PulsarPieces DEF P!MarshalParams
  <1>8. P!SizeParams(x) = n1 + n2 + n3 + n4 + n5 + n6 + n7
    <2>1. P!IfNotZeroSize(x.maxBundleSize) = n1 /\ P!IfNotEmptySize(x.escrowAccountAddress) = n2
      BY PulsarPieces
    <2>2. P!IfTrueSize(x.frontRunningProtection) = n5 /\ P!IfNotEmptySize(x.proposerFee) = n6
      BY PulsarPieces
    <2> HIDE DEF n1, n2, n5, n6
    <2> QED BY <2>1, <2>2 DEF P!SizeParams
  <1> HIDE DEF b1, b2, b3, b4, b5, b6, b7, n1, n2, n3, n4, n5, n6, n7
  <1>9. Sized(b1 \o b2 \o b3 \o b4, n1 + n2 + n3 + n4)
    BY <1>2, <1>3, <1>4, SizedConcat
  <1>10. Sized(b1 \o b2 \o b3 \o b4 \o b5 \o b6 \o b7, n1 + n2 + n3 + n4 + n5 + n6 + n7)
    BY <1>3, <1>5, <1>6, <1>9, SizedConcat
  <1> QED BY <1>7, <1>8, <1>10

\* The entries of a map, in any order of its keys.
LEMMA RegistrySized ==
    ASSUME NEW x \in [registry : Registries, unknown : Str], NEW keys \in SetToSeqs(DOMAIN x.registry)
    PROVE  Sized(P!MarshalVoteExtensionInfo(x, keys), P!SizeVoteExtensionInfo(x))
  <1> DEFINE K == DOMAIN x.registry
             n == Cardinality(K)
             entry(k) == Delimited(10, k) \o Delimited(18, x.registry[k])
             size(k) == DelimitedSize(Len(k)) + DelimitedSize(Len(x.registry[k]))
             w(k) == DelimitedSize(size(k))
             ss == [i \in 1 .. n |-> Delimited(18, entry(keys[i]))]
             v == [i \in 1 .. n |-> w(keys[i])]
  <1> USE TagBytes DEF Tags
  <1>1. IsFiniteSet(K) /\ K \subseteq Str /\ (\A k \in K : x.registry[k] \in Str) /\ x.unknown \in Str
    <2>1. PICK J \in {J \in SUBSET Str : IsFiniteSet(J)} : x.registry \in [J -> Str]
      BY DEF Registries
    <2> QED BY <2>1
  <1>2. /\ n \in Nat /\ keys \in [1 .. n -> K] /\ \A i \in 1 .. n : keys[i] \in K
        /\ \A k \in K : \E i \in 1 .. n : keys[i] = k
    <2> HIDE DEF K
    <2> QED BY <1>1, KeysOnto DEF K
  <1>3. Len(keys) = n
    <2> HIDE DEF K, n
    <2>1. keys \in Seq(K)
      BY <1>2
    <2> QED BY <1>2, <2>1
  <1>4. ASSUME NEW k \in K PROVE Sized(Delimited(18, entry(k)), w(k))
    <2>1. k \in Str /\ x.registry[k] \in Str
      BY <1>1
    <2>2. Sized(Delimited(10, k), DelimitedSize(Len(k)))
      BY <2>1, StrFacts, SizedDelimited
    <2>3. Sized(Delimited(18, x.registry[k]), DelimitedSize(Len(x.registry[k])))
      BY <2>1, StrFacts, SizedDelimited
    <2>4. Sized(entry(k), size(k))
      BY <2>2, <2>3, SizedConcat
    <2> HIDE DEF entry, size
    <2> QED BY <2>4, SizedDelimited
  <1>5. P!MarshalVoteExtensionInfo(x, keys) = FlattenSeq(ss) \o x.unknown
    <2>1. \A tag, s : P!Delimited(tag, s) = Delimited(tag, s) /\ P!FlattenSeq(s) = FlattenSeq(s)
      BY PulsarPieces
    <2> DEFINE u == [i \in 1 .. Len(keys) |->
                        P!Delimited(18, P!Delimited(10, keys[i]) \o P!Delimited(18, x.registry[keys[i]]))]
    <2>2. P!MarshalVoteExtensionInfo(x, keys) = P!FlattenSeq(u) \o x.unknown
      BY DEF P!MarshalVoteExtensionInfo
    <2>3. u = ss
      <3> HIDE DEF n
      <3> QED BY <1>3, <2>1
    <2> HIDE DEF u, ss
    <2> QED BY <2>1, <2>2, <2>3
  <1>6. P!SizeVoteExtensionInfo(x) = SumFunction([k \in K |-> w(k)]) + Len(x.unknown)
    BY PulsarPieces DEF P!SizeVoteExtensionInfo
  <1> HIDE DEF entry, w, K, n
  <1>7. \A i \in 1 .. n : Sized(ss[i], v[i])
    BY <1>2, <1>4
  <1>8. Sized(FlattenSeq(ss), SumFunction(v))
    <2>1. ss = [i \in 1 .. n |-> ss[i]] /\ v = [i \in 1 .. n |-> v[i]]
      OBVIOUS
    <2> HIDE DEF ss, v
    <2> QED BY <1>2, <1>7, <2>1, SizedFlatten
  <1> DEFINE W == [k \in K |-> w(k)]
  <1>9. ASSUME Len(FlattenSeq(ss)) <= MaxLen PROVE SumFunction(v) = SumFunction(W)
    <2>1. ss \in [1 .. n -> Str]
      BY <1>7 DEF Sized
    <2>2. ASSUME NEW i \in 1 .. n PROVE w(keys[i]) \in Nat
      <3>1. Sized(ss[i], v[i]) /\ v[i] = w(keys[i]) /\ ss[i] \in Str
        BY <1>7, <2>1
      <3> HIDE DEF ss, v
      <3>2. Len(ss[i]) \in Nat /\ Len(ss[i]) <= Len(FlattenSeq(ss)) /\ Len(FlattenSeq(ss)) \in Nat
        BY <1>2, <2>1, <3>1, FlattenFacts, StrFacts
      <3>3. Len(ss[i]) <= MaxLen
        BY <1>9, <3>2, MaxLenFacts
      <3> QED BY <3>1, <3>2, <3>3 DEF Sized
    <2>3. W \in [K -> Nat]
      BY <1>2, <2>2
    <2>4. v = [i \in 1 .. n |-> W[keys[i]]]
      BY <1>2
    <2> HIDE DEF v, W
    <2>5. SumFunction([i \in 1 .. Cardinality(K) |-> W[keys[i]]]) = SumFunction(W)
      BY <1>1, <2>3, SumOfKeys DEF K
    <2> QED BY <2>4, <2>5 DEF n
  <1> HIDE DEF ss, v, W
  <1>10. Sized(FlattenSeq(ss), SumFunction(W))
    BY <1>8, <1>9 DEF Sized
  <1>11. Sized(x.unknown, Len(x.unknown))
    BY <1>1, StrFacts
  <1> QED BY <1>5, <1>6, <1>10, <1>11, SizedConcat DEF W

LEMMA PulsarSized ==
    ASSUME NEW t \in DOMAIN PulsarMessages \ {"Coin", "RegistryEntry"}, NEW x \in PulsarMessages[t],
           NEW b \in P!Encodings(t, x)
    PROVE  Sized(b, P!Size(t, x))
  <1> USE TagBytes DEF Tags
  <1> DEFINE z == x.unknown
             n == Len(x.unknown)
  <1>1. z \in Str /\ Sized(z, n)
    <2>1. x.unknown \in Str
      <3>1. KeepsUnknown(t)
        BY PulsarTables
      <3> QED BY <3>1 DEF KeepsUnknown, Has
    <2> QED BY <2>1, StrFacts
  <1>2. CASE t = "Params"
    <2>1. x \in PulsarParams /\ b = P!MarshalParams(x) /\ P!Size(t, x) = P!SizeParams(x)
      BY <1>2 DEF PulsarMessages, P!Encodings, P!Size
    <2> QED BY <2>1, PulsarParamsSized
  <1>3. CASE t \in {"GenesisState", "QueryParamsResponse"}
    <2> DEFINE p == x.params
               b1 == P!IfNotNil(10, p, P!MarshalParams(p[1]))
               n1 == P!IfNotNilSize(p, P!SizeParams(p[1]))
    <2>1. x \in [params : Ptr(PulsarParams), unknown : Str]
      <3>1. CASE t = "GenesisState"
        BY <3>1 DEF PulsarMessages
      <3>2. CASE t = "QueryParamsResponse"
        BY <3>2 DEF PulsarMessages
      <3> QED BY <1>3, <3>1, <3>2
    <2>2. Sized(b1, n1)
      BY <2>1, PtrFacts, PulsarParamsSized, SizedIfNotNil
    <2>3. b = b1 \o z /\ P!Size(t, x) = n1 + n
      <3>1. CASE t = "GenesisState"
        BY <3>1 DEF P!Encodings, P!Size, P!MarshalGenesisState, P!SizeGenesisState
      <3>2. CASE t = "QueryParamsResponse"
        BY <3>2 DEF P!Encodings, P!Size, P!MarshalQueryParamsResponse, P!SizeQueryParamsResponse
      <3> QED BY <1>3, <3>1, <3>2
    <2> HIDE DEF b1, n1, z, n
    <2> QED BY <1>1, <2>2, <2>3, SizedConcat
  <1>4. CASE t = "MsgAuctionBid"
    <2> DEFINE b1 == IfNotEmpty(10, x.bidder)
               n1 == IfNotEmptySize(x.bidder)
               b2 == P!IfNotNil(18, x.bid, P!MarshalCoin(x.bid[1]))
               n2 == P!IfNotNilSize(x.bid, P!SizeCoin(x.bid[1]))
               b3 == Each(26, x.transactions)
               n3 == EachSize(x.transactions)
    <2>1. x.bidder \in Str /\ x.bid \in Ptr(PulsarCoins) /\ x.transactions \in Seq(Str)
      BY <1>4 DEF PulsarMessages
    <2>2. Sized(b1, n1)
      BY <2>1, SizedPieces
    <2>3. Sized(b2, n2)
      BY <2>1, PtrFacts, PulsarCoinSized, SizedIfNotNil
    <2>4. Sized(b3, n3)
      BY <2>1, SizedEach
    <2>5. b = b1 \o b2 \o b3 \o z
      BY <1>4, PulsarPieces DEF P!Encodings, P!MarshalMsgAuctionBid
    <2>6. P!Size(t, x) = n1 + n2 + n3 + n
      BY <1>4, PulsarPieces DEF P!Size, P!SizeMsgAuctionBid
    <2> HIDE DEF b1, b2, b3, n1, n2, n3, z, n
    <2> QED BY <1>1, <2>2, <2>3, <2>4, <2>5, <2>6, SizedConcat
  <1>5. CASE t = "MsgUpdateParams"
    <2> DEFINE p == x.params
               b1 == IfNotEmpty(10, x.authority)
               n1 == IfNotEmptySize(x.authority)
               b2 == P!IfNotNil(18, p, P!MarshalParams(p[1]))
               n2 == P!IfNotNilSize(p, P!SizeParams(p[1]))
    <2>1. x.authority \in Str /\ p \in Ptr(PulsarParams)
      BY <1>5 DEF PulsarMessages
    <2>2. Sized(b1, n1)
      BY <2>1, SizedPieces
    <2>3. Sized(b2, n2)
      BY <2>1, PtrFacts, PulsarParamsSized, SizedIfNotNil
    <2>4. b = b1 \o b2 \o z
      BY <1>5, PulsarPieces DEF P!Encodings, P!MarshalMsgUpdateParams
    <2>5. P!Size(t, x) = n1 + n2 + n
      BY <1>5, PulsarPieces DEF P!Size, P!SizeMsgUpdateParams
    <2> HIDE DEF b1, b2, n1, n2, z, n
    <2> QED BY <1>1, <2>2, <2>3, <2>4, <2>5, SizedConcat
  <1>6. CASE t \in {"MsgAuctionBidResponse", "MsgUpdateParamsResponse", "QueryParamsRequest"}
    <2>1. b = z /\ P!Size(t, x) = n
      BY <1>6 DEF P!Encodings, P!Size, P!MarshalMsgAuctionBidResponse, P!MarshalMsgUpdateParamsResponse,
         P!MarshalQueryParamsRequest, P!SizeMsgAuctionBidResponse, P!SizeMsgUpdateParamsResponse,
         P!SizeQueryParamsRequest
    <2> QED BY <1>1, <2>1
  <1>7. CASE t = "Module"
    <2> DEFINE b1 == IfNotEmpty(18, x.authority)
               n1 == IfNotEmptySize(x.authority)
    <2>1. x.authority \in Str
      BY <1>7 DEF PulsarMessages
    <2>2. Sized(b1, n1)
      BY <2>1, SizedPieces
    <2>3. b = b1 \o z
      BY <1>7, PulsarPieces DEF P!Encodings, P!MarshalModule
    <2>4. P!Size(t, x) = n1 + n
      BY <1>7, PulsarPieces DEF P!Size, P!SizeModule
    <2> HIDE DEF b1, n1, z, n
    <2> QED BY <1>1, <2>2, <2>3, <2>4, SizedConcat
  <1>8. CASE t = "AuctionInfo"
    <2> DEFINE u == Unsigned(x.maxTxBytes, WordSize)
               b1 == IfNotEmpty(10, x.extendedCommitInfo)
               n1 == IfNotEmptySize(x.extendedCommitInfo)
               b2 == IfNotZero(16, u)
               n2 == IfNotZeroSize(u)
               b3 == IfNotZero(24, x.numTxs)
               n3 == IfNotZeroSize(x.numTxs)
    <2>1. x.extendedCommitInfo \in Str /\ x.maxTxBytes \in SignedWord /\ x.numTxs \in Word
      BY <1>8 DEF PulsarMessages
    <2>2. u \in Word /\ P!Unsigned(x.maxTxBytes, WordSize) = u
      <3>1. x.maxTxBytes \in Int
        BY <2>1, MaxLenFacts DEF SignedWord
      <3> QED BY <3>1, UnsignedType DEF P!Unsigned, Unsigned, P!Pow2, Pow2
    <2> HIDE DEF u
    <2>3. Sized(b1, n1) /\ Sized(b2, n2) /\ Sized(b3, n3)
      BY <2>1, <2>2, SizedPieces
    <2>4. b = b1 \o b2 \o b3 \o z
      BY <1>8, <2>2, PulsarPieces DEF P!Encodings, P!MarshalAuctionInfo
    <2>5. P!Size(t, x) = n1 + n2 + n3 + n
      BY <1>8, <2>2, PulsarPieces, SMTT(60) DEF P!Size, P!SizeAuctionInfo
    <2> HIDE DEF b1, b2, b3, n1, n2, n3, z, n
    <2> QED BY <1>1, <2>3, <2>4, <2>5, SizedConcat
  <1>9. CASE t = "VoteExtensionInfo"
    <2>1. x \in [registry : Registries, unknown : Str] /\ P!Size(t, x) = P!SizeVoteExtensionInfo(x)
      BY <1>9 DEF PulsarMessages, P!Size
    <2>2. PICK keys \in SetToSeqs(DOMAIN x.registry) : b = P!MarshalVoteExtensionInfo(x, keys)
      BY <1>9, PulsarPieces DEF P!Encodings
    <2> QED BY <2>1, <2>2, RegistrySized
  <1> QED BY <1>2, <1>3, <1>4, <1>5, <1>6, <1>7, <1>8, <1>9, PulsarTypes

LEMMA EncodingsSized ==
    ASSUME NEW t \in MessageTypes, NEW c \in Codecs(t), NEW m \in Messages(c, t), NEW b \in Encodings(c, t, m)
    PROVE  b \in Slices /\ Len(b) = Size(c, t, m)
  <1>1. c \in AllCodecs /\ t \in Types(c) /\ t \notin {"Coin", "RegistryEntry"}
    BY CodecFacts
  <1>2. Len(b) <= MaxLen /\ b \in IF c = "gogo" THEN {G!Marshal(t, m)} ELSE P!Encodings(t, m)
    BY DEF Encodings
  <1>3. Sized(b, Size(c, t, m))
    <2>1. CASE c = "gogo"
      BY <1>1, <1>2, <2>1, GogoSized DEF Messages, Types, Size
    <2>2. CASE c # "gogo"
      BY <1>1, <1>2, <2>2, PulsarSized DEF Messages, Types, Size
    <2> QED BY <2>1, <2>2
  <1> QED BY <1>2, <1>3 DEF Sized, Slices

-----------------------------------------------------------------------------
(* The specification. *)

LEMMA StartType ==
    ASSUME NEW t \in MessageTypes, NEW c \in Codecs(t), NEW b \in Slices
    PROVE  Start(c, t, b) \in Decoders(c, t)
  <1> DEFINE f == Frame(t, b, 0, Len(b), Zero(c, t), "none")
             s == <<f>>
  <1>1. c \in AllCodecs /\ t \in Types(c)
    BY CodecFacts
  <1>2. Len(b) \in Nat
    BY DEF Slices, Str
  <1>3. Zero(c, t) \in Messages(c, t)
    BY <1>1, ZeroType
  <1>4. f \in Frames(c)
    BY <1>1, <1>2, <1>3, FrameType
  <1>5. f.type = t
    BY DEF Frame
  <1> HIDE DEF f
  <1>6. s \in Stacks(c) /\ s[1].type = t
    BY <1>4, <1>5 DEF Stacks
  <1>7. Start(c, t, b) = [stack |-> s, state |-> "reading"]
    BY DEF Start, f
  <1> HIDE DEF s
  <1> QED BY <1>6, <1>7 DEF Decoders

LEMMA InitCodec ==
    ASSUME Init
    PROVE  CodecInv
  <1>1. type \in MessageTypes /\ wire \in Slices
    BY InputsAssumption DEF Init, Slices, Str
  <1>2. \A c \in Codecs(type) : dec[c] = Start(c, type, wire)
    BY DEF Init
  <1>3. \A c \in Codecs(type) : dec[c] \in Decoders(c, type)
    BY <1>1, <1>2, StartType
  <1>4. dec = [c \in Codecs(type) |-> dec[c]]
    BY DEF Init
  <1>5. sent \in Seq(Hops(type))
    BY DEF Init
  <1> QED BY <1>1, <1>3, <1>4, <1>5 DEF CodecInv

LEMMA MessageType ==
    ASSUME CodecInv, NEW c \in Codecs(type)
    PROVE  Message(dec[c]) \in Messages(c, type)
  <1> DEFINE s == dec[c].stack
  <1>1. s \in Stacks(c) /\ s[1].type = type
    BY DEF CodecInv, Decoders
  <1> HIDE DEF s
  <1>2. 1 \in 1 .. Len(s)
    BY <1>1, StackFacts
  <1>3. s[1] \in Frames(c)
    BY <1>1, <1>2, StackFacts
  <1>4. s[1].m \in Messages(c, type)
    BY <1>1, <1>3 DEF Frames
  <1> QED BY <1>4 DEF Message, s

LEMMA EncodeKeeps ==
    ASSUME CodecInv, NEW c \in Codecs(type), Encode(c)
    PROVE  CodecInv' /\ sent' # sent
  <1> DEFINE m == Message(dec[c])
             states == [d \in Codecs(type) |-> dec[d].state]
             hop == [codec |-> c, state |-> states, m |-> m]
  <1>1. type \in MessageTypes /\ sent \in Seq(Hops(type)) /\ \A d \in Codecs(type) : dec[d] \in Decoders(d, type)
    BY DEF CodecInv
  <1>2. sent' = Append(sent, hop) /\ type' = type
    BY DEF Encode
  <1>3. c \in AllCodecs /\ type \in Types(c)
    BY <1>1, CodecFacts
  <1>4. m \in Messages(c, type)
    BY MessageType
  <1> HIDE DEF m
  <1>5. hop \in Hops(type)
    <2>1. m \in AnyMessage(c)
      BY <1>3, <1>4 DEF AnyMessage
    <2>2. m \in UNION {AnyMessage(d) : d \in AllCodecs}
      BY <1>3, <2>1
    <2>3. states \in [Codecs(type) -> States]
      BY <1>1 DEF Decoders, States
    <2> HIDE DEF states
    <2> QED BY <1>4, <2>2, <2>3 DEF Hops
  <1> HIDE DEF hop
  <1>6. sent' \in Seq(Hops(type)) /\ sent' # sent
    <2>1. Len(Append(sent, hop)) = Len(sent) + 1 /\ Len(sent) \in Nat /\ Append(sent, hop) \in Seq(Hops(type))
      BY <1>1, <1>5
    <2>2. Append(sent, hop) # sent
      BY <2>1
    <2> QED BY <1>2, <2>1, <2>2
  <1>7. PICK b \in Encodings(c, type, m) : dec' = [d \in Codecs(type) |-> Start(d, type, b)]
    BY DEF Encode, m
  <1>8. b \in Slices
    BY <1>1, <1>4, EncodingsSized
  <1>9. \A d \in Codecs(type) : dec'[d] \in Decoders(d, type)
    BY <1>1, <1>7, <1>8, StartType
  <1>10. dec' = [d \in Codecs(type) |-> dec'[d]]
    BY <1>7
  <1> QED BY <1>1, <1>2, <1>6, <1>9, <1>10 DEF CodecInv

LEMMA NextCodec ==
    ASSUME CodecInv, [Next]_vars
    PROVE  CodecInv'
  <1>1. ASSUME NEW c \in Codecs(type), Decode(c) PROVE CodecInv'
    <2>1. Stepped(c) /\ type' = type /\ sent' = sent
      BY <1>1, DecodeSteps
    <2>2. \A d \in Codecs(type) : dec'[d] \in Decoders(d, type)
      BY <2>1 DEF Stepped, CodecInv
    <2>3. dec' = [d \in Codecs(type) |-> dec'[d]]
      BY <2>1 DEF Stepped
    <2> QED BY <2>1, <2>2, <2>3 DEF CodecInv
  <1>2. ASSUME NEW c \in Codecs(type), Encode(c) PROVE CodecInv'
    BY <1>2, EncodeKeeps
  <1>3. ASSUME Rest \/ UNCHANGED vars PROVE CodecInv'
    BY <1>3 DEF Rest, vars, CodecInv
  <1> QED BY <1>1, <1>2, <1>3 DEF Next

\* The invariant that the others rest on: every frame of every decoder is a message
\* of its type within its bytes, and is for a field of the frame below it.
THEOREM CodecTypes == Spec => []CodecInv
  BY InitCodec, NextCodec, PTL DEF Spec

\* Of every input: no decoder reads past its bytes.
THEOREM DecodersInBounds == Spec => []InBounds
  <1>1. ASSUME CodecInv PROVE InBounds
    <2> SUFFICES ASSUME NEW c \in Codecs(type), NEW k \in DOMAIN dec[c].stack
                 PROVE  LET f == dec[c].stack[k]
                        IN  /\ 0 <= f.i /\ f.end <= Len(f.b)
                            /\ f.i <= IF IsEntry(f) THEN Len(f.b) ELSE f.end
      BY DEF InBounds
    <2>1. dec[c].stack \in Stacks(c)
      BY <1>1 DEF CodecInv, Decoders
    <2>2. dec[c].stack[k] \in Frames(c)
      BY <2>1, StackFacts
    <2> DEFINE f == dec[c].stack[k]
    <2> HIDE DEF f
    <2>3. f.i \in Nat /\ f.i <= Len(f.b) /\ f.end <= Len(f.b) /\ (~IsEntry(f) => f.end = Len(f.b))
      BY <2>2 DEF Frames, f
    <2>4. 0 <= f.i /\ f.end <= Len(f.b) /\ f.i <= IF IsEntry(f) THEN Len(f.b) ELSE f.end
      BY <2>3
    <2> QED BY <2>4 DEF f
  <1> QED BY <1>1, CodecTypes, PTL

\* Of every message a decoder accepts: Size is the length of what Marshal writes.
THEOREM SizesExact == Spec => []SizeExact
  <1>1. ASSUME CodecInv PROVE SizeExact
    <2> SUFFICES ASSUME NEW c \in Codecs(type), NEW b \in Encodings(c, type, Message(dec[c]))
                 PROVE  Len(b) = Size(c, type, Message(dec[c]))
      BY DEF SizeExact
    <2>1. type \in MessageTypes
      BY <1>1 DEF CodecInv
    <2>2. Message(dec[c]) \in Messages(c, type)
      BY <1>1, MessageType
    <2> QED BY <2>1, <2>2, EncodingsSized
  <1> QED BY <1>1, CodecTypes, PTL

\* Every step of a decoder leaves it less to do.
THEOREM DecodersAdvance == Spec => Advances
  <1> DEFINE A == \A c \in Codecs(type) : sent' = sent /\ dec'[c] # dec[c] => Work(dec'[c]) < Work(dec[c])
  <1>1. ASSUME CodecInv, Next PROVE A
    <2>1. ASSUME NEW d \in Codecs(type), Decode(d) PROVE A
      <3>1. Stepped(d)
        BY <1>1, <2>1, DecodeSteps
      <3> QED BY <3>1 DEF Stepped
    <2>2. ASSUME NEW d \in Codecs(type), Encode(d) PROVE A
      BY <1>1, <2>2, EncodeKeeps
    <2>3. ASSUME Rest PROVE A
      BY <2>3 DEF Rest, vars
    <2> QED BY <1>1, <2>1, <2>2, <2>3 DEF Next
  <1>2. ASSUME CodecInv, [Next]_vars PROVE [A]_vars
    <2> HIDE DEF A
    <2> QED BY <1>1, <1>2
  <1> QED BY <1>2, CodecTypes, PTL DEF Spec, Advances

-----------------------------------------------------------------------------
(* Two codecs on the same bytes: gogo and pulsar, pulsar and discard. *)

Other(a) == IF a = "gogo" THEN "pulsar" ELSE "discard"

\* The fields of each message that are messages, and the others.
EmbeddedIn ==
    {<<"Params", "reserveFee", "Coin">>, <<"Params", "minBidIncrement", "Coin">>,
     <<"GenesisState", "params", "Params">>, <<"MsgUpdateParams", "params", "Params">>,
     <<"QueryParamsResponse", "params", "Params">>, <<"MsgAuctionBid", "bid", "Coin">>,
     <<"VoteExtensionInfo", "registry", "RegistryEntry">>}
PlainIn ==
    {<<"Coin", "denom">>, <<"Coin", "amount">>,
     <<"Params", "maxBundleSize">>, <<"Params", "escrowAccountAddress">>,
     <<"Params", "frontRunningProtection">>, <<"Params", "proposerFee">>,
     <<"MsgAuctionBid", "bidder">>, <<"MsgAuctionBid", "transactions">>,
     <<"MsgUpdateParams", "authority">>, <<"Module", "authority">>,
     <<"AuctionInfo", "extendedCommitInfo">>, <<"AuctionInfo", "maxTxBytes">>, <<"AuctionInfo", "numTxs">>,
     <<"RegistryEntry", "key">>, <<"RegistryEntry", "value">>}

\* The fields that gogo takes as numbers.
IsNumber(a, t, name) ==
    a = "gogo" /\ \/ t = "Coin" /\ name = "amount"
                  \/ t = "Params" /\ name = "proposerFee"

\* The case k of codec a, and the other codec's case l of the same field number.
CasesAgree(a, t, k, l) ==
    /\ l.name = k.name /\ l.wireType = k.wireType /\ l.type = k.type
    /\ IF IsNumber(a, t, k.name) THEN k.kind = "number" /\ l.kind = "bytes"
                                 ELSE k.kind # "number" /\ l.kind = k.kind
    /\ IF k.kind = "embedded" THEN <<t, k.name, k.type>> \in EmbeddedIn ELSE <<t, k.name>> \in PlainIn
    /\ k.kind = "repeated" => t = "MsgAuctionBid" /\ k.name = "transactions"

TablesAgree(a, t, cases, others) ==
    /\ DOMAIN others = DOMAIN cases
    /\ \A n \in DOMAIN cases : CasesAgree(a, t, cases[n], others[n])

LEMMA PlainCasesAgree ==
    ASSUME NEW a, NEW t, NEW name, <<t, name>> \in PlainIn
    PROVE  /\ ~IsNumber(a, t, name) => CasesAgree(a, t, Bytes(name), Bytes(name))
           /\ IsNumber(a, t, name) => CasesAgree(a, t, Number(name), Bytes(name))
           /\ \A kind \in VarintKinds : ~IsNumber(a, t, name) => CasesAgree(a, t, Varint(name, kind), Varint(name, kind))
  <1> HIDE DEF PlainIn
  <1> QED BY DEF CasesAgree, Bytes, Number, Varint, Case, VarintKinds

LEMMA EmbeddedCasesAgree ==
    ASSUME NEW a, NEW t, NEW name, NEW u, <<t, name, u>> \in EmbeddedIn
    PROVE  CasesAgree(a, t, Embedded(name, u), Embedded(name, u))
  <1>1. ~IsNumber(a, t, name)
    BY DEF EmbeddedIn, IsNumber
  <1> QED BY <1>1 DEF CasesAgree, Embedded, Case

LEMMA RepeatedCasesAgree ==
    ASSUME NEW a
    PROVE  CasesAgree(a, "MsgAuctionBid", Repeated("transactions"), Repeated("transactions"))
  BY DEF CasesAgree, Repeated, Case, IsNumber, PlainIn

LEMMA GogoTablesAgree ==
    ASSUME NEW t \in DOMAIN GogoMessages
    PROVE  TablesAgree("gogo", t, G!Unmarshal[t], P!Unmarshal[t])
  <1> USE DEF G!Bytes, Bytes, G!Number, Number, G!Repeated, Repeated, G!Varint, Varint,
              G!Embedded, Embedded, G!Case, Case, G!NoFields, P!Bytes, P!Repeated, P!Varint, P!Embedded,
              P!Case, P!NoFields, NoFields
  <1>1. CASE t = "Coin"
    <2>1. /\ G!Unmarshal[t] = <<Bytes("denom"), Number("amount")>>
          /\ P!Unmarshal[t] = <<Bytes("denom"), Bytes("amount")>>
      BY <1>1 DEF G!Unmarshal, G!UnmarshalCoin, P!Unmarshal, P!UnmarshalCoin
    <2> HIDE DEF Bytes, Number, Repeated, Varint, Embedded
    <2>2. CasesAgree("gogo", t, Bytes("denom"), Bytes("denom"))
      BY <1>1, PlainCasesAgree DEF PlainIn, IsNumber
    <2>3. CasesAgree("gogo", t, Number("amount"), Bytes("amount"))
      BY <1>1, PlainCasesAgree DEF PlainIn, IsNumber
    <2> QED BY <2>1, <2>2, <2>3 DEF TablesAgree
  <1>2. CASE t = "Params"
    <2>1. /\ G!Unmarshal[t] = <<Varint("maxBundleSize", "uint32"), Bytes("escrowAccountAddress"), Embedded("reserveFee", "Coin"), Embedded("minBidIncrement", "Coin"), Varint("frontRunningProtection", "bool"), Number("proposerFee")>>
          /\ P!Unmarshal[t] = <<Varint("maxBundleSize", "uint32"), Bytes("escrowAccountAddress"), Embedded("reserveFee", "Coin"), Embedded("minBidIncrement", "Coin"), Varint("frontRunningProtection", "bool"), Bytes("proposerFee")>>
      BY <1>2 DEF G!Unmarshal, G!UnmarshalParams, P!Unmarshal, P!UnmarshalParams
    <2> HIDE DEF Bytes, Number, Repeated, Varint, Embedded
    <2>2. CasesAgree("gogo", t, Varint("maxBundleSize", "uint32"), Varint("maxBundleSize", "uint32"))
      BY <1>2, PlainCasesAgree DEF PlainIn, IsNumber, VarintKinds
    <2>3. CasesAgree("gogo", t, Bytes("escrowAccountAddress"), Bytes("escrowAccountAddress"))
      BY <1>2, PlainCasesAgree DEF PlainIn, IsNumber
    <2>4. CasesAgree("gogo", t, Embedded("reserveFee", "Coin"), Embedded("reserveFee", "Coin"))
      BY <1>2, EmbeddedCasesAgree DEF EmbeddedIn
    <2>5. CasesAgree("gogo", t, Embedded("minBidIncrement", "Coin"), Embedded("minBidIncrement", "Coin"))
      BY <1>2, EmbeddedCasesAgree DEF EmbeddedIn
    <2>6. CasesAgree("gogo", t, Varint("frontRunningProtection", "bool"), Varint("frontRunningProtection", "bool"))
      BY <1>2, PlainCasesAgree DEF PlainIn, IsNumber, VarintKinds
    <2>7. CasesAgree("gogo", t, Number("proposerFee"), Bytes("proposerFee"))
      BY <1>2, PlainCasesAgree DEF PlainIn, IsNumber
    <2> QED BY <2>1, <2>2, <2>3, <2>4, <2>5, <2>6, <2>7 DEF TablesAgree
  <1>3. CASE t = "GenesisState"
    <2>1. /\ G!Unmarshal[t] = <<Embedded("params", "Params")>>
          /\ P!Unmarshal[t] = <<Embedded("params", "Params")>>
      BY <1>3 DEF G!Unmarshal, G!UnmarshalGenesisState, P!Unmarshal, P!UnmarshalGenesisState
    <2> HIDE DEF Bytes, Number, Repeated, Varint, Embedded
    <2>2. CasesAgree("gogo", t, Embedded("params", "Params"), Embedded("params", "Params"))
      BY <1>3, EmbeddedCasesAgree DEF EmbeddedIn
    <2> QED BY <2>1, <2>2 DEF TablesAgree
  <1>4. CASE t = "MsgAuctionBid"
    <2>1. /\ G!Unmarshal[t] = <<Bytes("bidder"), Embedded("bid", "Coin"), Repeated("transactions")>>
          /\ P!Unmarshal[t] = <<Bytes("bidder"), Embedded("bid", "Coin"), Repeated("transactions")>>
      BY <1>4 DEF G!Unmarshal, G!UnmarshalMsgAuctionBid, P!Unmarshal, P!UnmarshalMsgAuctionBid
    <2> HIDE DEF Bytes, Number, Repeated, Varint, Embedded
    <2>2. CasesAgree("gogo", t, Bytes("bidder"), Bytes("bidder"))
      BY <1>4, PlainCasesAgree DEF PlainIn, IsNumber
    <2>3. CasesAgree("gogo", t, Embedded("bid", "Coin"), Embedded("bid", "Coin"))
      BY <1>4, EmbeddedCasesAgree DEF EmbeddedIn
    <2>4. CasesAgree("gogo", t, Repeated("transactions"), Repeated("transactions"))
      BY <1>4, RepeatedCasesAgree
    <2> QED BY <2>1, <2>2, <2>3, <2>4 DEF TablesAgree
  <1>5. CASE t = "MsgUpdateParams"
    <2>1. /\ G!Unmarshal[t] = <<Bytes("authority"), Embedded("params", "Params")>>
          /\ P!Unmarshal[t] = <<Bytes("authority"), Embedded("params", "Params")>>
      BY <1>5 DEF G!Unmarshal, G!UnmarshalMsgUpdateParams, P!Unmarshal, P!UnmarshalMsgUpdateParams
    <2> HIDE DEF Bytes, Number, Repeated, Varint, Embedded
    <2>2. CasesAgree("gogo", t, Bytes("authority"), Bytes("authority"))
      BY <1>5, PlainCasesAgree DEF PlainIn, IsNumber
    <2>3. CasesAgree("gogo", t, Embedded("params", "Params"), Embedded("params", "Params"))
      BY <1>5, EmbeddedCasesAgree DEF EmbeddedIn
    <2> QED BY <2>1, <2>2, <2>3 DEF TablesAgree
  <1>6. CASE t = "QueryParamsResponse"
    <2>1. /\ G!Unmarshal[t] = <<Embedded("params", "Params")>>
          /\ P!Unmarshal[t] = <<Embedded("params", "Params")>>
      BY <1>6 DEF G!Unmarshal, G!UnmarshalQueryParamsResponse, P!Unmarshal, P!UnmarshalQueryParamsResponse
    <2> HIDE DEF Bytes, Number, Repeated, Varint, Embedded
    <2>2. CasesAgree("gogo", t, Embedded("params", "Params"), Embedded("params", "Params"))
      BY <1>6, EmbeddedCasesAgree DEF EmbeddedIn
    <2> QED BY <2>1, <2>2 DEF TablesAgree
  <1>7. CASE t = "MsgAuctionBidResponse"
    BY <1>7 DEF TablesAgree, G!Unmarshal, G!UnmarshalMsgAuctionBidResponse, P!Unmarshal, P!UnmarshalMsgAuctionBidResponse
  <1>8. CASE t = "MsgUpdateParamsResponse"
    BY <1>8 DEF TablesAgree, G!Unmarshal, G!UnmarshalMsgUpdateParamsResponse, P!Unmarshal, P!UnmarshalMsgUpdateParamsResponse
  <1>9. CASE t = "QueryParamsRequest"
    BY <1>9 DEF TablesAgree, G!Unmarshal, G!UnmarshalQueryParamsRequest, P!Unmarshal, P!UnmarshalQueryParamsRequest
  <1> QED BY <1>1, <1>2, <1>3, <1>4, <1>5, <1>6, <1>7, <1>8, <1>9, GogoTypes

LEMMA PulsarTablesAgree ==
    ASSUME NEW t \in DOMAIN PulsarMessages
    PROVE  TablesAgree("pulsar", t, P!Unmarshal[t], P!Unmarshal[t])
  <1> USE DEF P!Bytes, Bytes, P!Repeated, Repeated, P!Varint, Varint, P!Embedded, Embedded,
              P!Case, Case, P!NoFields, NoFields
  <1>1. CASE t = "Coin"
    <2>1. P!Unmarshal[t] = <<Bytes("denom"), Bytes("amount")>>
      BY <1>1 DEF P!Unmarshal, P!UnmarshalCoin
    <2> HIDE DEF Bytes, Repeated, Varint, Embedded
    <2>2. CasesAgree("pulsar", t, Bytes("denom"), Bytes("denom"))
      BY <1>1, PlainCasesAgree DEF PlainIn, IsNumber
    <2>3. CasesAgree("pulsar", t, Bytes("amount"), Bytes("amount"))
      BY <1>1, PlainCasesAgree DEF PlainIn, IsNumber
    <2> QED BY <2>1, <2>2, <2>3 DEF TablesAgree
  <1>2. CASE t = "Params"
    <2>1. P!Unmarshal[t] = <<Varint("maxBundleSize", "uint32"), Bytes("escrowAccountAddress"), Embedded("reserveFee", "Coin"), Embedded("minBidIncrement", "Coin"), Varint("frontRunningProtection", "bool"), Bytes("proposerFee")>>
      BY <1>2 DEF P!Unmarshal, P!UnmarshalParams
    <2> HIDE DEF Bytes, Repeated, Varint, Embedded
    <2>2. CasesAgree("pulsar", t, Varint("maxBundleSize", "uint32"), Varint("maxBundleSize", "uint32"))
      BY <1>2, PlainCasesAgree DEF PlainIn, IsNumber, VarintKinds
    <2>3. CasesAgree("pulsar", t, Bytes("escrowAccountAddress"), Bytes("escrowAccountAddress"))
      BY <1>2, PlainCasesAgree DEF PlainIn, IsNumber
    <2>4. CasesAgree("pulsar", t, Embedded("reserveFee", "Coin"), Embedded("reserveFee", "Coin"))
      BY <1>2, EmbeddedCasesAgree DEF EmbeddedIn
    <2>5. CasesAgree("pulsar", t, Embedded("minBidIncrement", "Coin"), Embedded("minBidIncrement", "Coin"))
      BY <1>2, EmbeddedCasesAgree DEF EmbeddedIn
    <2>6. CasesAgree("pulsar", t, Varint("frontRunningProtection", "bool"), Varint("frontRunningProtection", "bool"))
      BY <1>2, PlainCasesAgree DEF PlainIn, IsNumber, VarintKinds
    <2>7. CasesAgree("pulsar", t, Bytes("proposerFee"), Bytes("proposerFee"))
      BY <1>2, PlainCasesAgree DEF PlainIn, IsNumber
    <2> QED BY <2>1, <2>2, <2>3, <2>4, <2>5, <2>6, <2>7 DEF TablesAgree
  <1>3. CASE t = "GenesisState"
    <2>1. P!Unmarshal[t] = <<Embedded("params", "Params")>>
      BY <1>3 DEF P!Unmarshal, P!UnmarshalGenesisState
    <2> HIDE DEF Bytes, Repeated, Varint, Embedded
    <2>2. CasesAgree("pulsar", t, Embedded("params", "Params"), Embedded("params", "Params"))
      BY <1>3, EmbeddedCasesAgree DEF EmbeddedIn
    <2> QED BY <2>1, <2>2 DEF TablesAgree
  <1>4. CASE t = "MsgAuctionBid"
    <2>1. P!Unmarshal[t] = <<Bytes("bidder"), Embedded("bid", "Coin"), Repeated("transactions")>>
      BY <1>4 DEF P!Unmarshal, P!UnmarshalMsgAuctionBid
    <2> HIDE DEF Bytes, Repeated, Varint, Embedded
    <2>2. CasesAgree("pulsar", t, Bytes("bidder"), Bytes("bidder"))
      BY <1>4, PlainCasesAgree DEF PlainIn, IsNumber
    <2>3. CasesAgree("pulsar", t, Embedded("bid", "Coin"), Embedded("bid", "Coin"))
      BY <1>4, EmbeddedCasesAgree DEF EmbeddedIn
    <2>4. CasesAgree("pulsar", t, Repeated("transactions"), Repeated("transactions"))
      BY <1>4, RepeatedCasesAgree
    <2> QED BY <2>1, <2>2, <2>3, <2>4 DEF TablesAgree
  <1>5. CASE t = "MsgUpdateParams"
    <2>1. P!Unmarshal[t] = <<Bytes("authority"), Embedded("params", "Params")>>
      BY <1>5 DEF P!Unmarshal, P!UnmarshalMsgUpdateParams
    <2> HIDE DEF Bytes, Repeated, Varint, Embedded
    <2>2. CasesAgree("pulsar", t, Bytes("authority"), Bytes("authority"))
      BY <1>5, PlainCasesAgree DEF PlainIn, IsNumber
    <2>3. CasesAgree("pulsar", t, Embedded("params", "Params"), Embedded("params", "Params"))
      BY <1>5, EmbeddedCasesAgree DEF EmbeddedIn
    <2> QED BY <2>1, <2>2, <2>3 DEF TablesAgree
  <1>6. CASE t = "QueryParamsResponse"
    <2>1. P!Unmarshal[t] = <<Embedded("params", "Params")>>
      BY <1>6 DEF P!Unmarshal, P!UnmarshalQueryParamsResponse
    <2> HIDE DEF Bytes, Repeated, Varint, Embedded
    <2>2. CasesAgree("pulsar", t, Embedded("params", "Params"), Embedded("params", "Params"))
      BY <1>6, EmbeddedCasesAgree DEF EmbeddedIn
    <2> QED BY <2>1, <2>2 DEF TablesAgree
  <1>7. CASE t = "AuctionInfo"
    <2>1. P!Unmarshal[t] = <<Bytes("extendedCommitInfo"), Varint("maxTxBytes", "int64"), Varint("numTxs", "uint64")>>
      BY <1>7 DEF P!Unmarshal, P!UnmarshalAuctionInfo
    <2> HIDE DEF Bytes, Repeated, Varint, Embedded
    <2>2. CasesAgree("pulsar", t, Bytes("extendedCommitInfo"), Bytes("extendedCommitInfo"))
      BY <1>7, PlainCasesAgree DEF PlainIn, IsNumber
    <2>3. CasesAgree("pulsar", t, Varint("maxTxBytes", "int64"), Varint("maxTxBytes", "int64"))
      BY <1>7, PlainCasesAgree DEF PlainIn, IsNumber, VarintKinds
    <2>4. CasesAgree("pulsar", t, Varint("numTxs", "uint64"), Varint("numTxs", "uint64"))
      BY <1>7, PlainCasesAgree DEF PlainIn, IsNumber, VarintKinds
    <2> QED BY <2>1, <2>2, <2>3, <2>4 DEF TablesAgree
  <1>8. CASE t = "RegistryEntry"
    <2>1. P!Unmarshal[t] = <<Bytes("key"), Bytes("value")>>
      BY <1>8 DEF P!Unmarshal, P!UnmarshalRegistryEntry
    <2> HIDE DEF Bytes, Repeated, Varint, Embedded
    <2>2. CasesAgree("pulsar", t, Bytes("key"), Bytes("key"))
      BY <1>8, PlainCasesAgree DEF PlainIn, IsNumber
    <2>3. CasesAgree("pulsar", t, Bytes("value"), Bytes("value"))
      BY <1>8, PlainCasesAgree DEF PlainIn, IsNumber
    <2> QED BY <2>1, <2>2, <2>3 DEF TablesAgree
  <1>9. CASE t = "MsgAuctionBidResponse"
    BY <1>9 DEF TablesAgree, P!Unmarshal, P!UnmarshalMsgAuctionBidResponse
  <1>10. CASE t = "MsgUpdateParamsResponse"
    BY <1>10 DEF TablesAgree, P!Unmarshal, P!UnmarshalMsgUpdateParamsResponse
  <1>11. CASE t = "QueryParamsRequest"
    BY <1>11 DEF TablesAgree, P!Unmarshal, P!UnmarshalQueryParamsRequest
  <1>12. CASE t = "Module"
    <2>1. P!Unmarshal[t] = [n \in {2} |-> Bytes("authority")]
      BY <1>12 DEF P!Unmarshal, P!UnmarshalModule
    <2> HIDE DEF Bytes, Embedded
    <2>2. CasesAgree("pulsar", t, Bytes("authority"), Bytes("authority"))
      BY <1>12, PlainCasesAgree DEF PlainIn, IsNumber
    <2> QED BY <2>1, <2>2 DEF TablesAgree
  <1>13. CASE t = "VoteExtensionInfo"
    <2>1. P!Unmarshal[t] = [n \in {2} |-> Embedded("registry", "RegistryEntry")]
      BY <1>13 DEF P!Unmarshal, P!UnmarshalVoteExtensionInfo
    <2> HIDE DEF Bytes, Embedded
    <2>2. CasesAgree("pulsar", t, Embedded("registry", "RegistryEntry"), Embedded("registry", "RegistryEntry"))
      BY <1>13, EmbeddedCasesAgree DEF EmbeddedIn
    <2> QED BY <2>1, <2>2 DEF TablesAgree
  <1> QED BY <1>1, <1>2, <1>3, <1>4, <1>5, <1>6, <1>7, <1>8, <1>9, <1>10, <1>11, <1>12, <1>13, PulsarTypes

LEMMA CasesOfBoth ==
    ASSUME NEW a \in {"gogo", "pulsar"}, NEW t \in Types(a)
    PROVE  TablesAgree(a, t, Cases(a, t), Cases(Other(a), t)) /\ t \in Types(Other(a))
  <1>1. CASE a = "gogo"
    BY <1>1, GogoTablesAgree, GogoTypes, PulsarTypes DEF Types, Cases, Other
  <1>2. CASE a = "pulsar"
    BY <1>2, PulsarTablesAgree DEF Types, Cases, Other
  <1> QED BY <1>1, <1>2

\* What gogo's message and pulsar's have in common, of coins too.
GogoAgrees(t, m, x) == IF t = "Coin" THEN CoinsAgree(m, <<x>>) ELSE MessagesAgree(t, m, x)

\* The message x is m without its unknown fields.
StrippedCoin(m, x) == x.denom = m.denom /\ x.amount = m.amount /\ x.unknown = <<>>
StrippedCoins(p, q) == IF p = <<>> THEN q = <<>> ELSE q # <<>> /\ StrippedCoin(p[1], q[1])
StrippedParams(m, x) ==
    /\ x.maxBundleSize = m.maxBundleSize /\ x.escrowAccountAddress = m.escrowAccountAddress
    /\ StrippedCoins(m.reserveFee, x.reserveFee) /\ StrippedCoins(m.minBidIncrement, x.minBidIncrement)
    /\ x.frontRunningProtection = m.frontRunningProtection /\ x.proposerFee = m.proposerFee
    /\ x.unknown = <<>>
StrippedParamsAt(p, q) == IF p = <<>> THEN q = <<>> ELSE q # <<>> /\ StrippedParams(p[1], q[1])
IsStripped(t, m, x) ==
    CASE t = "Coin" -> StrippedCoin(m, x)
      [] t = "Params" -> StrippedParams(m, x)
      [] t = "MsgAuctionBid" -> /\ x.bidder = m.bidder /\ StrippedCoins(m.bid, x.bid)
                                /\ x.transactions = m.transactions /\ x.unknown = <<>>
      [] t \in WithParams -> /\ t = "MsgUpdateParams" => x.authority = m.authority
                             /\ StrippedParamsAt(m.params, x.params) /\ x.unknown = <<>>
      [] t = "Module" -> x.authority = m.authority /\ x.unknown = <<>>
      [] t = "AuctionInfo" -> /\ x.extendedCommitInfo = m.extendedCommitInfo /\ x.maxTxBytes = m.maxTxBytes
                              /\ x.numTxs = m.numTxs /\ x.unknown = <<>>
      [] t = "VoteExtensionInfo" -> x.registry = m.registry /\ x.unknown = <<>>
      [] t = "RegistryEntry" -> x = m
      [] OTHER -> x.unknown = <<>>

\* What a has understood is what the other codec has.
Agrees(a, t, m, x) == IF a = "gogo" THEN GogoAgrees(t, m, x) ELSE IsStripped(t, m, x)

\* The values of a field that is not a message.
ValuesAgree(a, t, name, v, w) == IF IsNumber(a, t, name) THEN NumbersAgree(v, w) ELSE w = v

\* What agreeing means for each message that has fields.
LEMMA GogoAgreesOn ==
    ASSUME NEW m, NEW x
    PROVE  /\ GogoAgrees("Coin", m, x) <=> m.denom = x.denom /\ NumbersAgree(m.amount, x.amount)
           /\ GogoAgrees("Params", m, x) <=> ParamsAgree(m, <<x>>)
           /\ GogoAgrees("MsgAuctionBid", m, x) <=>
                 m.bidder = x.bidder /\ m.transactions = x.transactions /\ CoinsAgree(m.bid, x.bid)
           /\ GogoAgrees("MsgUpdateParams", m, x) <=> m.authority = x.authority /\ ParamsAgree(m.params, x.params)
           /\ GogoAgrees("GenesisState", m, x) <=> ParamsAgree(m.params, x.params)
           /\ GogoAgrees("QueryParamsResponse", m, x) <=> ParamsAgree(m.params, x.params)
  <1>1. GogoAgrees("Coin", m, x) <=> m.denom = x.denom /\ NumbersAgree(m.amount, x.amount)
    BY DEF GogoAgrees, CoinsAgree
  <1>2. GogoAgrees("Params", m, x) <=> ParamsAgree(m, <<x>>)
    BY DEF GogoAgrees, MessagesAgree, WithParams
  <1>3. GogoAgrees("MsgAuctionBid", m, x) <=>
           m.bidder = x.bidder /\ m.transactions = x.transactions /\ CoinsAgree(m.bid, x.bid)
    BY DEF GogoAgrees, MessagesAgree, WithParams
  <1>4. GogoAgrees("MsgUpdateParams", m, x) <=> m.authority = x.authority /\ ParamsAgree(m.params, x.params)
    BY DEF GogoAgrees, MessagesAgree, WithParams
  <1>5. GogoAgrees("GenesisState", m, x) <=> ParamsAgree(m.params, x.params)
    BY DEF GogoAgrees, MessagesAgree, WithParams
  <1>6. GogoAgrees("QueryParamsResponse", m, x) <=> ParamsAgree(m.params, x.params)
    BY DEF GogoAgrees, MessagesAgree, WithParams
  <1> QED BY <1>1, <1>2, <1>3, <1>4, <1>5, <1>6

LEMMA IsStrippedOn ==
    ASSUME NEW m, NEW x
    PROVE  /\ IsStripped("Coin", m, x) <=> StrippedCoin(m, x)
           /\ IsStripped("Params", m, x) <=> StrippedParams(m, x)
           /\ IsStripped("MsgAuctionBid", m, x) <=>
                 /\ x.bidder = m.bidder /\ StrippedCoins(m.bid, x.bid)
                 /\ x.transactions = m.transactions /\ x.unknown = <<>>
           /\ IsStripped("MsgUpdateParams", m, x) <=>
                 x.authority = m.authority /\ StrippedParamsAt(m.params, x.params) /\ x.unknown = <<>>
           /\ IsStripped("GenesisState", m, x) <=> StrippedParamsAt(m.params, x.params) /\ x.unknown = <<>>
           /\ IsStripped("QueryParamsResponse", m, x) <=> StrippedParamsAt(m.params, x.params) /\ x.unknown = <<>>
           /\ IsStripped("Module", m, x) <=> x.authority = m.authority /\ x.unknown = <<>>
           /\ IsStripped("AuctionInfo", m, x) <=>
                 /\ x.extendedCommitInfo = m.extendedCommitInfo /\ x.maxTxBytes = m.maxTxBytes
                 /\ x.numTxs = m.numTxs /\ x.unknown = <<>>
           /\ IsStripped("VoteExtensionInfo", m, x) <=> x.registry = m.registry /\ x.unknown = <<>>
           /\ IsStripped("RegistryEntry", m, x) <=> x = m
           /\ \A t \in {"MsgAuctionBidResponse", "MsgUpdateParamsResponse", "QueryParamsRequest"} :
                 IsStripped(t, m, x) <=> x.unknown = <<>>
  <1> USE DEF IsStripped, WithParams
  <1>1. IsStripped("Coin", m, x) <=> StrippedCoin(m, x)
    OBVIOUS
  <1>2. IsStripped("Params", m, x) <=> StrippedParams(m, x)
    OBVIOUS
  <1>3. IsStripped("MsgAuctionBid", m, x) <=>
           /\ x.bidder = m.bidder /\ StrippedCoins(m.bid, x.bid)
           /\ x.transactions = m.transactions /\ x.unknown = <<>>
    OBVIOUS
  <1>4. IsStripped("MsgUpdateParams", m, x) <=>
           x.authority = m.authority /\ StrippedParamsAt(m.params, x.params) /\ x.unknown = <<>>
    OBVIOUS
  <1>5. IsStripped("GenesisState", m, x) <=> StrippedParamsAt(m.params, x.params) /\ x.unknown = <<>>
    OBVIOUS
  <1>6. IsStripped("QueryParamsResponse", m, x) <=> StrippedParamsAt(m.params, x.params) /\ x.unknown = <<>>
    OBVIOUS
  <1>7. IsStripped("Module", m, x) <=> x.authority = m.authority /\ x.unknown = <<>>
    OBVIOUS
  <1>8. IsStripped("AuctionInfo", m, x) <=>
           /\ x.extendedCommitInfo = m.extendedCommitInfo /\ x.maxTxBytes = m.maxTxBytes
           /\ x.numTxs = m.numTxs /\ x.unknown = <<>>
    OBVIOUS
  <1>9. IsStripped("VoteExtensionInfo", m, x) <=> x.registry = m.registry /\ x.unknown = <<>>
    OBVIOUS
  <1>10. IsStripped("RegistryEntry", m, x) <=> x = m
    OBVIOUS
  <1>11. \A t \in {"MsgAuctionBidResponse", "MsgUpdateParamsResponse", "QueryParamsRequest"} :
            IsStripped(t, m, x) <=> x.unknown = <<>>
    OBVIOUS
  <1> HIDE DEF IsStripped, WithParams
  <1> QED BY <1>1, <1>2, <1>3, <1>4, <1>5, <1>6, <1>7, <1>8, <1>9, <1>10, <1>11

\* A field that is set to values that agree.
LEMMA GogoSet ==
    ASSUME NEW t \in DOMAIN GogoMessages, NEW m \in GogoMessages[t], NEW x \in PulsarMessages[t],
           NEW name, <<t, name>> \in PlainIn, NEW v, NEW w, ValuesAgree("gogo", t, name, v, w),
           GogoAgrees(t, m, x)
    PROVE  GogoAgrees(t, [m EXCEPT ![name] = v], [x EXCEPT ![name] = w])
  <1>1. CASE t = "Coin"
    <2>1. m \in GogoCoins /\ x \in PulsarCoins /\ name \in {"denom", "amount"}
      BY <1>1, GogoTypes, PulsarTypes DEF PlainIn
    <2>2. m.denom = x.denom /\ NumbersAgree(m.amount, x.amount)
      BY <1>1, GogoAgreesOn
    <2> DEFINE n == [m EXCEPT ![name] = v]
               y == [x EXCEPT ![name] = w]
    <2>3. n.denom = y.denom /\ NumbersAgree(n.amount, y.amount)
      <3>1. CASE name = "denom"
        BY <1>1, <2>1, <2>2, <3>1 DEF ValuesAgree, IsNumber, GogoCoins, PulsarCoins
      <3>2. CASE name = "amount"
        BY <1>1, <2>1, <2>2, <3>2 DEF ValuesAgree, IsNumber, GogoCoins, PulsarCoins
      <3> QED BY <2>1, <3>1, <3>2
    <2> HIDE DEF n, y
    <2>4. GogoAgrees(t, n, y)
      BY <1>1, <2>3, GogoAgreesOn
    <2> QED BY <2>4 DEF n, y
  <1>2. CASE t = "Params"
    <2>1. m \in GogoParams /\ x \in PulsarParams
          /\ name \in {"maxBundleSize", "escrowAccountAddress", "frontRunningProtection", "proposerFee"}
      BY <1>2, GogoTypes, PulsarTypes DEF PlainIn
    <2> DEFINE A(p, q) == /\ p.maxBundleSize = q.maxBundleSize
                          /\ p.escrowAccountAddress = q.escrowAccountAddress
                          /\ CoinsAgree(p.reserveFee, q.reserveFee)
                          /\ CoinsAgree(p.minBidIncrement, q.minBidIncrement)
                          /\ p.frontRunningProtection = q.frontRunningProtection
                          /\ NumbersAgree(p.proposerFee, q.proposerFee)
    <2>2. ASSUME NEW p, NEW q PROVE GogoAgrees(t, p, q) <=> A(p, q)
      BY <1>2, GogoAgreesOn DEF ParamsAgree
    <2> DEFINE n == [m EXCEPT ![name] = v]
               y == [x EXCEPT ![name] = w]
    <2>3. A(m, x)
      BY <2>2
    <2>4. A(n, y)
      <3>1. CASE name = "maxBundleSize"
        BY <1>2, <2>1, <2>3, <3>1 DEF ValuesAgree, IsNumber, GogoParams, PulsarParams
      <3>2. CASE name = "escrowAccountAddress"
        BY <1>2, <2>1, <2>3, <3>2 DEF ValuesAgree, IsNumber, GogoParams, PulsarParams
      <3>3. CASE name = "frontRunningProtection"
        BY <1>2, <2>1, <2>3, <3>3 DEF ValuesAgree, IsNumber, GogoParams, PulsarParams
      <3>4. CASE name = "proposerFee"
        BY <1>2, <2>1, <2>3, <3>4 DEF ValuesAgree, IsNumber, GogoParams, PulsarParams
      <3> QED BY <2>1, <3>1, <3>2, <3>3, <3>4
    <2> HIDE DEF n, y, A
    <2>5. GogoAgrees(t, n, y)
      BY <2>2, <2>4
    <2> QED BY <2>5 DEF n, y
  <1>3. CASE t = "MsgAuctionBid"
    <2>1. /\ m \in [bidder : Str, bid : GogoCoins, transactions : Seq(Str)]
          /\ x \in [bidder : Str, bid : Ptr(PulsarCoins), transactions : Seq(Str), unknown : Str]
          /\ name \in {"bidder", "transactions"}
      BY <1>3 DEF GogoMessages, PulsarMessages, PlainIn
    <2>2. ASSUME NEW p, NEW q
          PROVE  GogoAgrees(t, p, q) <=> /\ p.bidder = q.bidder /\ p.transactions = q.transactions
                                         /\ CoinsAgree(p.bid, q.bid)
      BY <1>3, GogoAgreesOn
    <2> DEFINE n == [m EXCEPT ![name] = v]
               y == [x EXCEPT ![name] = w]
    <2>3. m.bidder = x.bidder /\ m.transactions = x.transactions /\ CoinsAgree(m.bid, x.bid)
      BY <2>2
    <2>4. n.bidder = y.bidder /\ n.transactions = y.transactions /\ CoinsAgree(n.bid, y.bid)
      <3>1. CASE name = "bidder"
        BY <1>3, <2>1, <2>3, <3>1 DEF ValuesAgree, IsNumber
      <3>2. CASE name = "transactions"
        BY <1>3, <2>1, <2>3, <3>2 DEF ValuesAgree, IsNumber
      <3> QED BY <2>1, <3>1, <3>2
    <2> HIDE DEF n, y
    <2>5. GogoAgrees(t, n, y)
      BY <2>2, <2>4
    <2> QED BY <2>5 DEF n, y
  <1>4. CASE t = "MsgUpdateParams"
    <2>1. /\ m \in [authority : Str, params : GogoParams]
          /\ x \in [authority : Str, params : Ptr(PulsarParams), unknown : Str]
          /\ name = "authority"
      BY <1>4 DEF GogoMessages, PulsarMessages, PlainIn
    <2>2. ASSUME NEW p, NEW q
          PROVE  GogoAgrees(t, p, q) <=> p.authority = q.authority /\ ParamsAgree(p.params, q.params)
      BY <1>4, GogoAgreesOn
    <2> DEFINE n == [m EXCEPT ![name] = v]
               y == [x EXCEPT ![name] = w]
    <2>3. m.authority = x.authority /\ ParamsAgree(m.params, x.params)
      BY <2>2
    <2>4. n.authority = y.authority /\ ParamsAgree(n.params, y.params)
      BY <1>4, <2>1, <2>3 DEF ValuesAgree, IsNumber
    <2> HIDE DEF n, y
    <2>5. GogoAgrees(t, n, y)
      BY <2>2, <2>4
    <2> QED BY <2>5 DEF n, y
  <1> QED BY <1>1, <1>2, <1>3, <1>4, GogoTypes DEF PlainIn

LEMMA StrippedSet ==
    ASSUME NEW t \in DOMAIN PulsarMessages, NEW m \in PulsarMessages[t], NEW x \in PulsarMessages[t],
           NEW name, <<t, name>> \in PlainIn, NEW v, IsStripped(t, m, x)
    PROVE  IsStripped(t, [m EXCEPT ![name] = v], [x EXCEPT ![name] = v])
  <1> DEFINE n == [m EXCEPT ![name] = v]
             y == [x EXCEPT ![name] = v]
  <1>1. CASE t = "Coin"
    <2> DEFINE R(p, q) == StrippedCoin(p, q)
    <2>1. m \in PulsarCoins
          /\ x \in PulsarCoins
          /\ name \in {"denom", "amount"}
      BY <1>1, PulsarTypes DEF PlainIn
    <2>2. R(m, x)
      BY <1>1, IsStrippedOn
    <2>3. R(n, y)
      <3>1. CASE name = "denom"
        BY <2>1, <2>2, <3>1 DEF StrippedCoin, PulsarCoins
      <3>2. CASE name = "amount"
        BY <2>1, <2>2, <3>2 DEF StrippedCoin, PulsarCoins
      <3> QED BY <2>1, <3>1, <3>2
    <2> HIDE DEF n, y
    <2>4. IsStripped(t, n, y)
      BY <1>1, <2>3, IsStrippedOn
    <2> QED BY <2>4 DEF n, y
  <1>2. CASE t = "Params"
    <2> DEFINE R(p, q) == StrippedParams(p, q)
    <2>1. m \in PulsarParams
          /\ x \in PulsarParams
          /\ name \in {"maxBundleSize", "escrowAccountAddress", "frontRunningProtection", "proposerFee"}
      BY <1>2, PulsarTypes DEF PlainIn
    <2>2. R(m, x)
      BY <1>2, IsStrippedOn
    <2>3. R(n, y)
      <3>1. CASE name = "maxBundleSize"
        BY <2>1, <2>2, <3>1 DEF StrippedParams, PulsarParams
      <3>2. CASE name = "escrowAccountAddress"
        BY <2>1, <2>2, <3>2 DEF StrippedParams, PulsarParams
      <3>3. CASE name = "frontRunningProtection"
        BY <2>1, <2>2, <3>3 DEF StrippedParams, PulsarParams
      <3>4. CASE name = "proposerFee"
        BY <2>1, <2>2, <3>4 DEF StrippedParams, PulsarParams
      <3> QED BY <2>1, <3>1, <3>2, <3>3, <3>4
    <2> HIDE DEF n, y
    <2>4. IsStripped(t, n, y)
      BY <1>2, <2>3, IsStrippedOn
    <2> QED BY <2>4 DEF n, y
  <1>3. CASE t = "MsgAuctionBid"
    <2> DEFINE R(p, q) == /\ q.bidder = p.bidder /\ StrippedCoins(p.bid, q.bid)
                         /\ q.transactions = p.transactions /\ q.unknown = <<>>
    <2>1. m \in [bidder : Str, bid : Ptr(PulsarCoins), transactions : Seq(Str), unknown : Str]
          /\ x \in [bidder : Str, bid : Ptr(PulsarCoins), transactions : Seq(Str), unknown : Str]
          /\ name \in {"bidder", "transactions"}
      BY <1>3 DEF PulsarMessages, PlainIn
    <2>2. R(m, x)
      BY <1>3, IsStrippedOn
    <2>3. R(n, y)
      <3>1. CASE name = "bidder"
        BY <2>1, <2>2, <3>1
      <3>2. CASE name = "transactions"
        BY <2>1, <2>2, <3>2
      <3> QED BY <2>1, <3>1, <3>2
    <2> HIDE DEF n, y
    <2>4. IsStripped(t, n, y)
      BY <1>3, <2>3, IsStrippedOn
    <2> QED BY <2>4 DEF n, y
  <1>4. CASE t = "MsgUpdateParams"
    <2> DEFINE R(p, q) == q.authority = p.authority /\ StrippedParamsAt(p.params, q.params) /\ q.unknown = <<>>
    <2>1. m \in [authority : Str, params : Ptr(PulsarParams), unknown : Str]
          /\ x \in [authority : Str, params : Ptr(PulsarParams), unknown : Str]
          /\ name \in {"authority"}
      BY <1>4 DEF PulsarMessages, PlainIn
    <2>2. R(m, x)
      BY <1>4, IsStrippedOn
    <2>3. R(n, y)
      BY <2>1, <2>2
    <2> HIDE DEF n, y
    <2>4. IsStripped(t, n, y)
      BY <1>4, <2>3, IsStrippedOn
    <2> QED BY <2>4 DEF n, y
  <1>5. CASE t = "Module"
    <2> DEFINE R(p, q) == q.authority = p.authority /\ q.unknown = <<>>
    <2>1. m \in [authority : Str, unknown : Str]
          /\ x \in [authority : Str, unknown : Str]
          /\ name \in {"authority"}
      BY <1>5 DEF PulsarMessages, PlainIn
    <2>2. R(m, x)
      BY <1>5, IsStrippedOn
    <2>3. R(n, y)
      BY <2>1, <2>2
    <2> HIDE DEF n, y
    <2>4. IsStripped(t, n, y)
      BY <1>5, <2>3, IsStrippedOn
    <2> QED BY <2>4 DEF n, y
  <1>6. CASE t = "AuctionInfo"
    <2> DEFINE R(p, q) == /\ q.extendedCommitInfo = p.extendedCommitInfo /\ q.maxTxBytes = p.maxTxBytes
                         /\ q.numTxs = p.numTxs /\ q.unknown = <<>>
    <2>1. m \in [extendedCommitInfo : Str, maxTxBytes : SignedWord, numTxs : Word, unknown : Str]
          /\ x \in [extendedCommitInfo : Str, maxTxBytes : SignedWord, numTxs : Word, unknown : Str]
          /\ name \in {"extendedCommitInfo", "maxTxBytes", "numTxs"}
      BY <1>6 DEF PulsarMessages, PlainIn
    <2>2. R(m, x)
      BY <1>6, IsStrippedOn
    <2>3. R(n, y)
      <3>1. CASE name = "extendedCommitInfo"
        BY <2>1, <2>2, <3>1
      <3>2. CASE name = "maxTxBytes"
        BY <2>1, <2>2, <3>2
      <3>3. CASE name = "numTxs"
        BY <2>1, <2>2, <3>3
      <3> QED BY <2>1, <3>1, <3>2, <3>3
    <2> HIDE DEF n, y
    <2>4. IsStripped(t, n, y)
      BY <1>6, <2>3, IsStrippedOn
    <2> QED BY <2>4 DEF n, y
  <1>7. CASE t = "RegistryEntry"
    <2> DEFINE R(p, q) == q = p
    <2>1. m \in [key : Str, value : Str]
          /\ x \in [key : Str, value : Str]
          /\ name \in {"key", "value"}
      BY <1>7 DEF PulsarMessages, PlainIn
    <2>2. R(m, x)
      BY <1>7, IsStrippedOn
    <2>3. R(n, y)
      <3>1. CASE name = "key"
        BY <2>1, <2>2, <3>1
      <3>2. CASE name = "value"
        BY <2>1, <2>2, <3>2
      <3> QED BY <2>1, <3>1, <3>2
    <2> HIDE DEF n, y
    <2>4. IsStripped(t, n, y)
      BY <1>7, <2>3, IsStrippedOn
    <2> QED BY <2>4 DEF n, y
  <1> QED BY <1>1, <1>2, <1>3, <1>4, <1>5, <1>6, <1>7, PulsarTypes DEF PlainIn

LEMMA SetAgrees ==
    ASSUME NEW a \in {"gogo", "pulsar"}, NEW t \in Types(a), NEW m \in Messages(a, t),
           NEW x \in Messages(Other(a), t), NEW name, <<t, name>> \in PlainIn, NEW v, NEW w,
           ValuesAgree(a, t, name, v, w), Agrees(a, t, m, x)
    PROVE  Agrees(a, t, [m EXCEPT ![name] = v], [x EXCEPT ![name] = w])
  <1>1. CASE a = "gogo"
    <2>1. t \in DOMAIN GogoMessages /\ m \in GogoMessages[t] /\ x \in PulsarMessages[t] /\ GogoAgrees(t, m, x)
      BY <1>1 DEF Types, Messages, Other, Agrees
    <2>2. GogoAgrees(t, [m EXCEPT ![name] = v], [x EXCEPT ![name] = w])
      BY <1>1, <2>1, GogoSet
    <2> QED BY <1>1, <2>2 DEF Agrees
  <1>2. CASE a = "pulsar"
    <2>1. t \in DOMAIN PulsarMessages /\ m \in PulsarMessages[t] /\ x \in PulsarMessages[t] /\ IsStripped(t, m, x)
      BY <1>2 DEF Types, Messages, Other, Agrees
    <2>2. w = v
      BY <1>2 DEF ValuesAgree, IsNumber
    <2>3. IsStripped(t, [m EXCEPT ![name] = v], [x EXCEPT ![name] = v])
      BY <2>1, StrippedSet
    <2> QED BY <1>2, <2>2, <2>3 DEF Agrees
  <1> QED BY <1>1, <1>2

\* The unknown fields play no part in it.
LEMMA GogoUnknown ==
    ASSUME NEW t \in DOMAIN GogoMessages, NEW m, NEW x \in PulsarMessages[t], NEW z, GogoAgrees(t, m, x)
    PROVE  GogoAgrees(t, m, [x EXCEPT !.unknown = z])
  <1> DEFINE y == [x EXCEPT !.unknown = z]
  <1>1. CASE t = "Coin"
    <2>1. y.denom = x.denom /\ y.amount = x.amount
      BY <1>1, PulsarTypes DEF PulsarCoins
    <2> QED BY <1>1, <2>1, GogoAgreesOn
  <1>2. CASE t = "Params"
    <2>1. /\ y.maxBundleSize = x.maxBundleSize /\ y.escrowAccountAddress = x.escrowAccountAddress
          /\ y.reserveFee = x.reserveFee /\ y.minBidIncrement = x.minBidIncrement
          /\ y.frontRunningProtection = x.frontRunningProtection /\ y.proposerFee = x.proposerFee
      BY <1>2, PulsarTypes DEF PulsarParams
    <2> HIDE DEF y
    <2>2. ParamsAgree(m, <<x>>)
      BY <1>2, GogoAgreesOn
    <2>3. ParamsAgree(m, <<y>>)
      BY <2>1, <2>2 DEF ParamsAgree
    <2>4. GogoAgrees(t, m, y)
      BY <1>2, <2>3, GogoAgreesOn
    <2> QED BY <2>4 DEF y
  <1>3. CASE t = "MsgAuctionBid"
    <2>1. y.bidder = x.bidder /\ y.transactions = x.transactions /\ y.bid = x.bid
      BY <1>3 DEF PulsarMessages
    <2> QED BY <1>3, <2>1, GogoAgreesOn
  <1>4. CASE t = "MsgUpdateParams"
    <2>1. y.authority = x.authority /\ y.params = x.params
      BY <1>4 DEF PulsarMessages
    <2> QED BY <1>4, <2>1, GogoAgreesOn
  <1>5. CASE t = "GenesisState"
    <2>1. y.params = x.params
      BY <1>5 DEF PulsarMessages
    <2> QED BY <1>5, <2>1, GogoAgreesOn
  <1>6. CASE t = "QueryParamsResponse"
    <2>1. y.params = x.params
      BY <1>6 DEF PulsarMessages
    <2> QED BY <1>6, <2>1, GogoAgreesOn
  <1>7. CASE t \in {"MsgAuctionBidResponse", "MsgUpdateParamsResponse", "QueryParamsRequest"}
    BY <1>7 DEF GogoAgrees, MessagesAgree, WithParams
  <1> QED BY <1>1, <1>2, <1>3, <1>4, <1>5, <1>6, <1>7, GogoTypes

LEMMA StrippedUnknown ==
    ASSUME NEW t \in DOMAIN PulsarMessages, t # "RegistryEntry", NEW m \in PulsarMessages[t], NEW x, NEW z,
           IsStripped(t, m, x)
    PROVE  IsStripped(t, [m EXCEPT !.unknown = z], x)
  <1> DEFINE n == [m EXCEPT !.unknown = z]
  <1> SUFFICES IsStripped(t, n, x)
    OBVIOUS
  <1>1. CASE t = "Coin"
    <2>1. n.denom = m.denom /\ n.amount = m.amount
      BY <1>1, PulsarTypes DEF PulsarCoins
    <2> HIDE DEF n
    <2> QED BY <1>1, <2>1, IsStrippedOn DEF StrippedCoin
  <1>2. CASE t = "Params"
    <2>1. /\ n.maxBundleSize = m.maxBundleSize /\ n.escrowAccountAddress = m.escrowAccountAddress
          /\ n.reserveFee = m.reserveFee /\ n.minBidIncrement = m.minBidIncrement
          /\ n.frontRunningProtection = m.frontRunningProtection /\ n.proposerFee = m.proposerFee
      BY <1>2, PulsarTypes DEF PulsarParams
    <2> HIDE DEF n
    <2> QED BY <1>2, <2>1, IsStrippedOn DEF StrippedParams
  <1>3. CASE t = "MsgAuctionBid"
    <2>1. n.bidder = m.bidder /\ n.transactions = m.transactions /\ n.bid = m.bid
      BY <1>3 DEF PulsarMessages
    <2> HIDE DEF n
    <2> QED BY <1>3, <2>1, IsStrippedOn
  <1>4. CASE t = "MsgUpdateParams"
    <2>1. n.authority = m.authority /\ n.params = m.params
      BY <1>4 DEF PulsarMessages
    <2> HIDE DEF n
    <2> QED BY <1>4, <2>1, IsStrippedOn
  <1>5. CASE t = "GenesisState"
    <2>1. n.params = m.params
      BY <1>5 DEF PulsarMessages
    <2> HIDE DEF n
    <2> QED BY <1>5, <2>1, IsStrippedOn
  <1>6. CASE t = "QueryParamsResponse"
    <2>1. n.params = m.params
      BY <1>6 DEF PulsarMessages
    <2> HIDE DEF n
    <2> QED BY <1>6, <2>1, IsStrippedOn
  <1>7. CASE t = "Module"
    <2>1. n.authority = m.authority
      BY <1>7 DEF PulsarMessages
    <2> HIDE DEF n
    <2> QED BY <1>7, <2>1, IsStrippedOn
  <1>8. CASE t = "AuctionInfo"
    <2>1. n.extendedCommitInfo = m.extendedCommitInfo /\ n.maxTxBytes = m.maxTxBytes /\ n.numTxs = m.numTxs
      BY <1>8 DEF PulsarMessages
    <2> HIDE DEF n
    <2> QED BY <1>8, <2>1, IsStrippedOn
  <1>9. CASE t = "VoteExtensionInfo"
    <2>1. n.registry = m.registry
      BY <1>9 DEF PulsarMessages
    <2> HIDE DEF n
    <2> QED BY <1>9, <2>1, IsStrippedOn
  <1>10. CASE t \in {"MsgAuctionBidResponse", "MsgUpdateParamsResponse", "QueryParamsRequest"}
    BY <1>10, IsStrippedOn
  <1> QED BY <1>1, <1>2, <1>3, <1>4, <1>5, <1>6, <1>7, <1>8, <1>9, <1>10, PulsarTypes

\* New messages agree.
LEMMA ZeroAgrees ==
    ASSUME NEW a \in {"gogo", "pulsar"}, NEW t \in Types(a)
    PROVE  Agrees(a, t, Zero(a, t), Zero(Other(a), t))
  <1>1. CASE a = "gogo"
    <2> DEFINE m == G!Zero[t]
               x == P!Zero[t]
    <2>1. Zero(a, t) = m /\ Zero(Other(a), t) = x /\ t \in DOMAIN GogoMessages
      BY <1>1 DEF Zero, Other, Types
    <2> SUFFICES GogoAgrees(t, m, x)
      BY <1>1, <2>1 DEF Agrees
    <2>2. \A v : NumbersAgree(v, <<>>)
      BY DEF NumbersAgree
    <2>3. CoinsAgree(G!ZeroCoin, <<>>)
      BY <2>2 DEF CoinsAgree, G!ZeroCoin, P!Zero
    <2>4. ParamsAgree(G!ZeroParams, <<>>)
      <3>1. P!Zero.Params = P!Zero["Params"]
        OBVIOUS
      <3> QED BY <2>2, <2>3 DEF ParamsAgree, G!ZeroParams, P!Zero
    <2>5. CASE t = "Coin"
      <3>1. m.denom = x.denom /\ x.amount = <<>>
        BY <2>5 DEF G!Zero, G!ZeroCoin, P!Zero
      <3> HIDE DEF m, x
      <3> QED BY <2>2, <2>5, <3>1, GogoAgreesOn
    <2>6. CASE t = "Params"
      <3>1. m = G!ZeroParams /\ P!Zero.Params = x
        BY <2>6 DEF G!Zero
      <3> HIDE DEF x, m
      <3>2. ParamsAgree(m, <<x>>)
        BY <2>4, <3>1 DEF ParamsAgree
      <3> QED BY <2>6, <3>2, GogoAgreesOn DEF m, x
    <2>7. CASE t = "MsgAuctionBid"
      <3>1. m.bidder = x.bidder /\ m.transactions = x.transactions /\ m.bid = G!ZeroCoin /\ x.bid = <<>>
        BY <2>7 DEF G!Zero, P!Zero
      <3> HIDE DEF m, x
      <3> QED BY <2>3, <2>7, <3>1, GogoAgreesOn
    <2>8. CASE t = "MsgUpdateParams"
      <3>1. m.authority = x.authority /\ m.params = G!ZeroParams /\ x.params = <<>>
        BY <2>8 DEF G!Zero, P!Zero
      <3> HIDE DEF m, x
      <3> QED BY <2>4, <2>8, <3>1, GogoAgreesOn
    <2>9. CASE t = "GenesisState"
      BY <2>4, <2>9, GogoAgreesOn DEF G!Zero, P!Zero
    <2>10. CASE t = "QueryParamsResponse"
      BY <2>4, <2>10, GogoAgreesOn DEF G!Zero, P!Zero
    <2>11. CASE t \in {"MsgAuctionBidResponse", "MsgUpdateParamsResponse", "QueryParamsRequest"}
      BY <2>11 DEF GogoAgrees, MessagesAgree, WithParams
    <2> QED BY <2>1, <2>5, <2>6, <2>7, <2>8, <2>9, <2>10, <2>11, GogoTypes
  <1>2. CASE a = "pulsar"
    <2> DEFINE x == P!Zero[t]
    <2>1. Zero(a, t) = x /\ Zero(Other(a), t) = x /\ t \in DOMAIN PulsarMessages
      BY <1>2 DEF Zero, Other, Types
    <2>2. t # "RegistryEntry" => x.unknown = <<>>
      BY <2>1, PulsarTypes DEF P!Zero
    <2>3. StrippedCoins(<<>>, <<>>) /\ StrippedParamsAt(<<>>, <<>>)
      BY DEF StrippedCoins, StrippedParamsAt
    <2>4. t = "Params" => x.reserveFee = <<>> /\ x.minBidIncrement = <<>>
      BY DEF P!Zero
    <2>5. t \in WithParams => x.params = <<>>
      BY DEF P!Zero, WithParams
    <2>6. t = "MsgAuctionBid" => x.bid = <<>>
      BY DEF P!Zero
    <2> HIDE DEF x
    <2>7. IsStripped(t, x, x)
      <3>1. CASE t = "Coin"
        BY <2>2, <3>1, IsStrippedOn DEF StrippedCoin
      <3>2. CASE t = "Params"
        BY <2>2, <2>3, <2>4, <3>2, IsStrippedOn DEF StrippedParams
      <3>3. CASE t = "MsgAuctionBid"
        BY <2>2, <2>3, <2>6, <3>3, IsStrippedOn
      <3>4. CASE t \in WithParams
        BY <2>2, <2>3, <2>5, <3>4, IsStrippedOn DEF WithParams
      <3>5. CASE t \in {"Module", "AuctionInfo", "VoteExtensionInfo", "RegistryEntry",
                        "MsgAuctionBidResponse", "MsgUpdateParamsResponse", "QueryParamsRequest"}
        BY <2>2, <3>5, IsStrippedOn
      <3> QED BY <2>1, <3>1, <3>2, <3>3, <3>4, <3>5, PulsarTypes DEF WithParams
    <2> QED BY <1>2, <2>1, <2>7 DEF Agrees
  <1> QED BY <1>1, <1>2

\* What an embedded message is decoded into agrees.
LEMMA OldAgrees ==
    ASSUME NEW a \in {"gogo", "pulsar"}, NEW t \in Types(a), NEW m \in Messages(a, t),
           NEW x \in Messages(Other(a), t), NEW name, NEW u \in Types(a), <<t, name, u>> \in EmbeddedIn,
           Agrees(a, t, m, x)
    PROVE  Agrees(a, u, Old(a, m[name], u), Old(Other(a), x[name], u))
  <1>1. CASE u = "RegistryEntry"
    <2>1. a # "gogo" /\ Other(a) # "gogo"
      BY <1>1, GogoTypes DEF Types, Other
    <2>2. Old(a, m[name], u) = Zero(a, u) /\ Old(Other(a), x[name], u) = Zero(Other(a), u)
      BY <1>1, <2>1 DEF Old
    <2> QED BY <2>2, ZeroAgrees
  <1>2. CASE u # "RegistryEntry" /\ a = "gogo"
    <2> DEFINE p == x[name]
               y == IF p = <<>> THEN P!Zero[u] ELSE p[1]
    <2>1. Old(a, m[name], u) = m[name] /\ Old(Other(a), p, u) = y
      BY <1>2 DEF Old, Other, Zero
    <2>2. GogoAgrees(t, m, x)
      BY <1>2 DEF Agrees
    <2>3. CASE u = "Coin"
      <3>1. CoinsAgree(m[name], p)
        <4>1. CASE t = "Params" /\ name = "reserveFee"
          BY <2>2, <4>1, GogoAgreesOn DEF ParamsAgree
        <4>2. CASE t = "Params" /\ name = "minBidIncrement"
          BY <2>2, <4>2, GogoAgreesOn DEF ParamsAgree
        <4>3. CASE t = "MsgAuctionBid" /\ name = "bid"
          BY <2>2, <4>3, GogoAgreesOn
        <4> QED BY <2>3, <4>1, <4>2, <4>3 DEF EmbeddedIn
      <3> HIDE DEF p
      <3>2. GogoAgrees("Coin", m[name], y)
        BY <2>3, <3>1, GogoAgreesOn DEF CoinsAgree
      <3> QED BY <1>2, <2>1, <2>3, <3>2 DEF Agrees, p
    <2>4. CASE u = "Params"
      <3>1. ParamsAgree(m[name], p)
        <4>1. name = "params" /\ t \in {"GenesisState", "MsgUpdateParams", "QueryParamsResponse"}
          BY <2>4 DEF EmbeddedIn
        <4> QED BY <2>2, <4>1, GogoAgreesOn
      <3> HIDE DEF p
      <3>2. ParamsAgree(m[name], <<y>>)
        BY <2>4, <3>1 DEF ParamsAgree
      <3> HIDE DEF y
      <3>3. GogoAgrees("Params", m[name], y)
        BY <3>2, GogoAgreesOn
      <3> QED BY <1>2, <2>1, <2>4, <3>3 DEF Agrees, p
    <2> QED BY <1>2, <2>3, <2>4 DEF EmbeddedIn
  <1>3. CASE u # "RegistryEntry" /\ a = "pulsar"
    <2> DEFINE p == m[name]
               q == x[name]
    <2>1. /\ Old(a, p, u) = IF p = <<>> THEN Zero(a, u) ELSE p[1]
          /\ Old(Other(a), q, u) = IF q = <<>> THEN Zero(Other(a), u) ELSE q[1]
      BY <1>3 DEF Old, Other
    <2>2. IsStripped(t, m, x)
      BY <1>3 DEF Agrees
    <2>3. ((p = <<>>) <=> (q = <<>>)) /\ (p # <<>> => IsStripped(u, p[1], q[1]))
      <3>1. CASE u = "Coin"
        <4>1. StrippedCoins(p, q)
          <5>1. CASE t = "Params" /\ name = "reserveFee"
            BY <2>2, <5>1, IsStrippedOn DEF StrippedParams
          <5>2. CASE t = "Params" /\ name = "minBidIncrement"
            BY <2>2, <5>2, IsStrippedOn DEF StrippedParams
          <5>3. CASE t = "MsgAuctionBid" /\ name = "bid"
            BY <2>2, <5>3, IsStrippedOn
          <5> QED BY <3>1, <5>1, <5>2, <5>3 DEF EmbeddedIn
        <4> HIDE DEF p, q
        <4> QED BY <3>1, <4>1, IsStrippedOn DEF StrippedCoins
      <3>2. CASE u = "Params"
        <4>1. name = "params" /\ t \in {"GenesisState", "MsgUpdateParams", "QueryParamsResponse"}
          BY <3>2 DEF EmbeddedIn
        <4>2. StrippedParamsAt(p, q)
          BY <2>2, <4>1, IsStrippedOn
        <4> HIDE DEF p, q
        <4> QED BY <3>2, <4>2, IsStrippedOn DEF StrippedParamsAt
      <3> QED BY <1>3, <3>1, <3>2 DEF EmbeddedIn
    <2> HIDE DEF p, q
    <2>4. Agrees(a, u, Zero(a, u), Zero(Other(a), u))
      BY ZeroAgrees
    <2>5. Agrees(a, u, Old(a, p, u), Old(Other(a), q, u))
      BY <1>3, <2>1, <2>3, <2>4 DEF Agrees
    <2> QED BY <2>5 DEF p, q
  <1> QED BY <1>1, <1>2, <1>3

\* What a field becomes when an embedded message of type u is done.
TakenBy(c, old, u, y) ==
    CASE u = "RegistryEntry" -> Assign(old, y.key, y.value)
      [] u # "RegistryEntry" /\ c = "gogo" -> y
      [] OTHER -> <<y>>

LEMMA GogoEmbed ==
    ASSUME NEW t \in DOMAIN GogoMessages, NEW m \in GogoMessages[t], NEW x \in PulsarMessages[t],
           NEW name, NEW u, <<t, name, u>> \in EmbeddedIn, NEW y, NEW z,
           GogoAgrees(t, m, x), GogoAgrees(u, y, z)
    PROVE  GogoAgrees(t, [m EXCEPT ![name] = y], [x EXCEPT ![name] = <<z>>])
  <1> DEFINE n == [m EXCEPT ![name] = y]
             w == [x EXCEPT ![name] = <<z>>]
  <1> SUFFICES GogoAgrees(t, n, w)
    OBVIOUS
  <1>1. u = "Coin" => CoinsAgree(y, <<z>>)
    BY DEF GogoAgrees
  <1>2. u = "Params" => ParamsAgree(y, <<z>>)
    BY GogoAgreesOn
  <1>3. CASE t = "Params" /\ name = "reserveFee" /\ u = "Coin"
    <2>1. /\ n.reserveFee = y /\ w.reserveFee = <<z>>
          /\ n.maxBundleSize = m.maxBundleSize /\ w.maxBundleSize = x.maxBundleSize
          /\ n.escrowAccountAddress = m.escrowAccountAddress /\ w.escrowAccountAddress = x.escrowAccountAddress
          /\ n.minBidIncrement = m.minBidIncrement /\ w.minBidIncrement = x.minBidIncrement
          /\ n.frontRunningProtection = m.frontRunningProtection /\ w.frontRunningProtection = x.frontRunningProtection
          /\ n.proposerFee = m.proposerFee /\ w.proposerFee = x.proposerFee
      BY <1>3, GogoTypes, PulsarTypes DEF GogoParams, PulsarParams
    <2> HIDE DEF n, w
    <2>2. ParamsAgree(m, <<x>>)
      BY <1>3, GogoAgreesOn
    <2>3. ParamsAgree(n, <<w>>)
      BY <1>1, <1>3, <2>1, <2>2 DEF ParamsAgree
    <2> QED BY <1>3, <2>3, GogoAgreesOn
  <1>4. CASE t = "Params" /\ name = "minBidIncrement" /\ u = "Coin"
    <2>1. /\ n.minBidIncrement = y /\ w.minBidIncrement = <<z>>
          /\ n.maxBundleSize = m.maxBundleSize /\ w.maxBundleSize = x.maxBundleSize
          /\ n.escrowAccountAddress = m.escrowAccountAddress /\ w.escrowAccountAddress = x.escrowAccountAddress
          /\ n.reserveFee = m.reserveFee /\ w.reserveFee = x.reserveFee
          /\ n.frontRunningProtection = m.frontRunningProtection /\ w.frontRunningProtection = x.frontRunningProtection
          /\ n.proposerFee = m.proposerFee /\ w.proposerFee = x.proposerFee
      BY <1>4, GogoTypes, PulsarTypes DEF GogoParams, PulsarParams
    <2> HIDE DEF n, w
    <2>2. ParamsAgree(m, <<x>>)
      BY <1>4, GogoAgreesOn
    <2>3. ParamsAgree(n, <<w>>)
      BY <1>1, <1>4, <2>1, <2>2 DEF ParamsAgree
    <2> QED BY <1>4, <2>3, GogoAgreesOn
  <1>5. CASE t = "MsgAuctionBid" /\ name = "bid" /\ u = "Coin"
    <2>1. /\ n.bid = y /\ w.bid = <<z>>
          /\ n.bidder = m.bidder /\ w.bidder = x.bidder
          /\ n.transactions = m.transactions /\ w.transactions = x.transactions
      BY <1>5 DEF GogoMessages, PulsarMessages
    <2> HIDE DEF n, w
    <2>2. m.bidder = x.bidder /\ m.transactions = x.transactions
      BY <1>5, GogoAgreesOn
    <2>3. n.bidder = w.bidder /\ n.transactions = w.transactions /\ CoinsAgree(n.bid, w.bid)
      BY <1>1, <1>5, <2>1, <2>2
    <2> QED BY <1>5, <2>3, GogoAgreesOn
  <1>6. CASE t = "GenesisState" /\ name = "params" /\ u = "Params"
    <2>1. /\ n.params = y /\ w.params = <<z>>
      BY <1>6 DEF GogoMessages, PulsarMessages
    <2> HIDE DEF n, w
    <2> QED BY <1>1, <1>2, <1>6, <2>1, GogoAgreesOn
  <1>7. CASE t = "MsgUpdateParams" /\ name = "params" /\ u = "Params"
    <2>1. /\ n.params = y /\ w.params = <<z>>
          /\ n.authority = m.authority /\ w.authority = x.authority
      BY <1>7 DEF GogoMessages, PulsarMessages
    <2> HIDE DEF n, w
    <2>2. m.authority = x.authority
      BY <1>7, GogoAgreesOn
    <2>3. n.authority = w.authority /\ ParamsAgree(n.params, w.params)
      BY <1>2, <1>7, <2>1, <2>2
    <2> QED BY <1>7, <2>3, GogoAgreesOn
  <1>8. CASE t = "QueryParamsResponse" /\ name = "params" /\ u = "Params"
    <2>1. /\ n.params = y /\ w.params = <<z>>
      BY <1>8 DEF GogoMessages, PulsarMessages
    <2> HIDE DEF n, w
    <2> QED BY <1>1, <1>2, <1>8, <2>1, GogoAgreesOn
  <1> QED BY <1>3, <1>4, <1>5, <1>6, <1>7, <1>8, GogoTypes DEF EmbeddedIn

LEMMA StrippedEmbed ==
    ASSUME NEW t \in DOMAIN PulsarMessages, NEW m \in PulsarMessages[t], NEW x \in PulsarMessages[t],
           NEW name, NEW u, <<t, name, u>> \in EmbeddedIn, u # "RegistryEntry", NEW y, NEW z,
           IsStripped(t, m, x), IsStripped(u, y, z)
    PROVE  IsStripped(t, [m EXCEPT ![name] = <<y>>], [x EXCEPT ![name] = <<z>>])
  <1> DEFINE n == [m EXCEPT ![name] = <<y>>]
             w == [x EXCEPT ![name] = <<z>>]
  <1> SUFFICES IsStripped(t, n, w)
    OBVIOUS
  <1>1. u = "Coin" => StrippedCoins(<<y>>, <<z>>)
    BY IsStrippedOn DEF StrippedCoins
  <1>2. u = "Params" => StrippedParamsAt(<<y>>, <<z>>)
    BY IsStrippedOn DEF StrippedParamsAt
  <1>3. CASE t = "Params" /\ name = "reserveFee" /\ u = "Coin"
    <2>1. /\ n.reserveFee = <<y>> /\ w.reserveFee = <<z>>
          /\ n.maxBundleSize = m.maxBundleSize /\ w.maxBundleSize = x.maxBundleSize
          /\ n.escrowAccountAddress = m.escrowAccountAddress /\ w.escrowAccountAddress = x.escrowAccountAddress
          /\ n.minBidIncrement = m.minBidIncrement /\ w.minBidIncrement = x.minBidIncrement
          /\ n.frontRunningProtection = m.frontRunningProtection /\ w.frontRunningProtection = x.frontRunningProtection
          /\ n.proposerFee = m.proposerFee /\ w.proposerFee = x.proposerFee
          /\ n.unknown = m.unknown /\ w.unknown = x.unknown
      BY <1>3, PulsarTypes DEF PulsarParams
    <2> HIDE DEF n, w
    <2> QED BY <1>1, <1>2, <1>3, <2>1, IsStrippedOn DEF StrippedParams
  <1>4. CASE t = "Params" /\ name = "minBidIncrement" /\ u = "Coin"
    <2>1. /\ n.minBidIncrement = <<y>> /\ w.minBidIncrement = <<z>>
          /\ n.maxBundleSize = m.maxBundleSize /\ w.maxBundleSize = x.maxBundleSize
          /\ n.escrowAccountAddress = m.escrowAccountAddress /\ w.escrowAccountAddress = x.escrowAccountAddress
          /\ n.reserveFee = m.reserveFee /\ w.reserveFee = x.reserveFee
          /\ n.frontRunningProtection = m.frontRunningProtection /\ w.frontRunningProtection = x.frontRunningProtection
          /\ n.proposerFee = m.proposerFee /\ w.proposerFee = x.proposerFee
          /\ n.unknown = m.unknown /\ w.unknown = x.unknown
      BY <1>4, PulsarTypes DEF PulsarParams
    <2> HIDE DEF n, w
    <2> QED BY <1>1, <1>2, <1>4, <2>1, IsStrippedOn DEF StrippedParams
  <1>5. CASE t = "MsgAuctionBid" /\ name = "bid" /\ u = "Coin"
    <2>1. /\ n.bid = <<y>> /\ w.bid = <<z>>
          /\ n.bidder = m.bidder /\ w.bidder = x.bidder
          /\ n.transactions = m.transactions /\ w.transactions = x.transactions
          /\ n.unknown = m.unknown /\ w.unknown = x.unknown
      BY <1>5 DEF PulsarMessages
    <2> HIDE DEF n, w
    <2> QED BY <1>1, <1>2, <1>5, <2>1, IsStrippedOn
  <1>6. CASE t = "GenesisState" /\ name = "params" /\ u = "Params"
    <2>1. /\ n.params = <<y>> /\ w.params = <<z>>
          /\ n.unknown = m.unknown /\ w.unknown = x.unknown
      BY <1>6 DEF PulsarMessages
    <2> HIDE DEF n, w
    <2> QED BY <1>1, <1>2, <1>6, <2>1, IsStrippedOn
  <1>7. CASE t = "MsgUpdateParams" /\ name = "params" /\ u = "Params"
    <2>1. /\ n.params = <<y>> /\ w.params = <<z>>
          /\ n.authority = m.authority /\ w.authority = x.authority
          /\ n.unknown = m.unknown /\ w.unknown = x.unknown
      BY <1>7 DEF PulsarMessages
    <2> HIDE DEF n, w
    <2> QED BY <1>1, <1>2, <1>7, <2>1, IsStrippedOn
  <1>8. CASE t = "QueryParamsResponse" /\ name = "params" /\ u = "Params"
    <2>1. /\ n.params = <<y>> /\ w.params = <<z>>
          /\ n.unknown = m.unknown /\ w.unknown = x.unknown
      BY <1>8 DEF PulsarMessages
    <2> HIDE DEF n, w
    <2> QED BY <1>1, <1>2, <1>8, <2>1, IsStrippedOn
  <1> QED BY <1>3, <1>4, <1>5, <1>6, <1>7, <1>8, PulsarTypes DEF EmbeddedIn

LEMMA EmbedAgrees ==
    ASSUME NEW a \in {"gogo", "pulsar"}, NEW t \in Types(a), NEW m \in Messages(a, t),
           NEW x \in Messages(Other(a), t), NEW name, NEW u \in Types(a), <<t, name, u>> \in EmbeddedIn,
           NEW y, NEW z, Agrees(a, t, m, x), Agrees(a, u, y, z)
    PROVE  Agrees(a, t, [m EXCEPT ![name] = TakenBy(a, m[name], u, y)],
                        [x EXCEPT ![name] = TakenBy(Other(a), x[name], u, z)])
  <1>1. CASE u = "RegistryEntry"
    <2>1. a = "pulsar" /\ t = "VoteExtensionInfo" /\ name = "registry"
      BY <1>1, GogoTypes DEF Types, EmbeddedIn
    <2>2. z = y
      BY <1>1, <2>1, IsStrippedOn DEF Agrees
    <2>3. m \in [registry : Registries, unknown : Str] /\ x \in [registry : Registries, unknown : Str]
      BY <2>1 DEF Messages, Other, PulsarMessages
    <2>4. x.registry = m.registry /\ x.unknown = <<>>
      BY <2>1, IsStrippedOn DEF Agrees
    <2> DEFINE v == Assign(m.registry, y.key, y.value)
    <2>5. TakenBy(a, m[name], u, y) = v /\ TakenBy(Other(a), x[name], u, z) = v
      BY <1>1, <2>1, <2>2, <2>4 DEF TakenBy, Other
    <2> HIDE DEF v
    <2> DEFINE n == [m EXCEPT ![name] = v]
               w == [x EXCEPT ![name] = v]
    <2>6. n.registry = v /\ w.registry = v /\ w.unknown = <<>>
      BY <2>1, <2>3, <2>4
    <2> HIDE DEF n, w
    <2>7. Agrees(a, t, n, w)
      BY <2>1, <2>6, IsStrippedOn DEF Agrees
    <2> QED BY <2>5, <2>7 DEF n, w
  <1>2. CASE u # "RegistryEntry" /\ a = "gogo"
    <2>1. TakenBy(a, m[name], u, y) = y /\ TakenBy(Other(a), x[name], u, z) = <<z>>
      BY <1>2 DEF TakenBy, Other
    <2>2. /\ t \in DOMAIN GogoMessages /\ m \in GogoMessages[t] /\ x \in PulsarMessages[t]
          /\ GogoAgrees(t, m, x) /\ GogoAgrees(u, y, z)
      BY <1>2 DEF Types, Messages, Other, Agrees
    <2>3. GogoAgrees(t, [m EXCEPT ![name] = y], [x EXCEPT ![name] = <<z>>])
      BY <2>2, GogoEmbed
    <2> QED BY <1>2, <2>1, <2>3 DEF Agrees
  <1>3. CASE u # "RegistryEntry" /\ a = "pulsar"
    <2>1. TakenBy(a, m[name], u, y) = <<y>> /\ TakenBy(Other(a), x[name], u, z) = <<z>>
      BY <1>3 DEF TakenBy, Other
    <2>2. /\ t \in DOMAIN PulsarMessages /\ m \in PulsarMessages[t] /\ x \in PulsarMessages[t]
          /\ IsStripped(t, m, x) /\ IsStripped(u, y, z)
      BY <1>3 DEF Types, Messages, Other, Agrees
    <2>3. IsStripped(t, [m EXCEPT ![name] = <<y>>], [x EXCEPT ![name] = <<z>>])
      BY <1>3, <2>2, StrippedEmbed
    <2> QED BY <1>3, <2>1, <2>3 DEF Agrees
  <1> QED BY <1>1, <1>2, <1>3

-----------------------------------------------------------------------------
(* The same round of two codecs. *)

\* Frames of two codecs at the same point of the same bytes.
Alike(a, f, h) ==
    /\ h.type = f.type /\ h.b = f.b /\ h.i = f.i /\ h.end = f.end /\ h.field = f.field
    /\ Agrees(a, f.type, f.m, h.m)

\* What the rounds come to: both fail, or both take the same field from the same
\* bytes, or gogo alone finds no number in them.
RoundsAgree(a, f, h, r, q) ==
    \/ ~r.ok /\ ~q.ok
    \/ ~r.ok /\ a = "gogo" /\ f.type \in {"Coin", "Params"}
    \/ /\ r.ok /\ q.ok /\ q.next = r.next /\ q.case.name = r.case.name /\ q.case.type = r.case.type
       /\ \/ /\ r.case.kind \notin {"embedded", "unknown"} /\ q.case.kind \notin {"embedded", "unknown"}
             /\ <<f.type, r.case.name>> \in PlainIn
             /\ ValuesAgree(a, f.type, r.case.name, r.val, q.val)
          \/ /\ r.case.kind = "embedded" /\ q.case.kind = "embedded" /\ q.val = r.val
             /\ <<f.type, r.case.name, r.case.type>> \in EmbeddedIn
          \/ r.case.kind = "unknown" /\ q.case.kind = "unknown"

LEMMA VarintsAgree ==
    ASSUME NEW a, NEW f, NEW h, NEW k, NEW l, CasesAgree(a, f.type, k, l), k.kind \in VarintKinds, NEW v
    PROVE  RoundsAgree(a, f, h, VarintValue(k, v), VarintValue(l, v))
  <1> DEFINE x(c) == CASE c.kind = "uint32" -> Unsigned(v.val, HalfWord)
                       [] c.kind = "uint64" -> v.val
                       [] c.kind = "int64" -> ToInt(v.val)
                       [] c.kind = "bool" -> v.val # 0
             r == VarintValue(k, v)
             q == VarintValue(l, v)
  <1>1. CASE ~v.ok
    <2>1. ~r.ok /\ ~q.ok
      BY <1>1 DEF VarintValue, Failed
    <2> QED BY <2>1 DEF RoundsAgree
  <1>2. CASE v.ok
    <2>1. r = Taken(k, v.next, x(k)) /\ q = Taken(l, v.next, x(l))
      BY <1>2 DEF VarintValue
    <2>2. /\ l.kind = k.kind /\ l.name = k.name /\ l.type = k.type /\ ~IsNumber(a, f.type, k.name)
          /\ <<f.type, k.name>> \in PlainIn
      BY DEF CasesAgree, VarintKinds
    <2>3. x(l) = x(k)
      BY <2>2
    <2> HIDE DEF r, q, x
    <2>4. /\ r.ok /\ q.ok /\ r.case = k /\ q.case = l /\ r.next = v.next /\ q.next = v.next
          /\ r.val = x(k) /\ q.val = x(l)
      BY <2>1 DEF Taken
    <2>5. k.kind \notin {"embedded", "unknown"}
      BY DEF VarintKinds
    <2>6. ValuesAgree(a, f.type, k.name, r.val, q.val)
      BY <2>2, <2>3, <2>4 DEF ValuesAgree
    <2>7. RoundsAgree(a, f, h, r, q)
      BY <2>2, <2>4, <2>5, <2>6 DEF RoundsAgree
    <2> QED BY <2>7 DEF r, q
  <1> QED BY <1>1, <1>2

LEMMA NumberTaken ==
    ASSUME NEW old, NEW text, G!UnmarshalNumber(old, text).ok
    PROVE  NumbersAgree(G!UnmarshalNumber(old, text).val, text)
  <1>1. CASE text = <<>>
    BY <1>1 DEF NumbersAgree
  <1>2. CASE text # <<>>
    <2>1. G!UnmarshalNumber(old, text) = G!UnmarshalNumber(<<>>, text)
      BY <1>2 DEF G!UnmarshalNumber
    <2> QED BY <2>1 DEF NumbersAgree
  <1> QED BY <1>1, <1>2

LEMMA DelimitedAgree ==
    ASSUME NEW a \in {"gogo", "pulsar"}, NEW f, NEW h, Alike(a, f, h), NEW k, NEW l,
           CasesAgree(a, f.type, k, l), k.kind \in DelimitedKinds, NEW s
    PROVE  RoundsAgree(a, f, h, DelimitedValue(f, k, s), DelimitedValue(h, l, s))
  <1> DEFINE r == DelimitedValue(f, k, s)
             q == DelimitedValue(h, l, s)
             bytes == Slice(f.b, s.from, s.to)
             number == G!UnmarshalNumber(f.m[k.name], bytes)
  <1> SUFFICES RoundsAgree(a, f, h, r, q)
    OBVIOUS
  <1>1. CASE ~s.ok
    <2>1. ~r.ok /\ ~q.ok
      BY <1>1 DEF DelimitedValue, Failed
    <2> HIDE DEF r, q
    <2> QED BY <2>1 DEF RoundsAgree
  <1>2. CASE s.ok
    <2>1. h.b = f.b /\ h.type = f.type /\ Agrees(a, f.type, f.m, h.m)
      BY DEF Alike
    <2>2. l.name = k.name /\ l.type = k.type
      BY DEF CasesAgree
    <2>3. r = CASE k.kind \in {"bytes", "embedded"} -> Taken(k, s.to, bytes)
                [] k.kind = "repeated" -> Taken(k, s.to, Append(f.m[k.name], bytes))
                [] k.kind = "number" -> IF number.ok THEN Taken(k, s.to, number.val) ELSE Failed
      BY <1>2 DEF DelimitedValue
    <2>4. /\ l.kind \in {"bytes", "embedded"} => q = Taken(l, s.to, bytes)
          /\ l.kind = "repeated" => q = Taken(l, s.to, Append(h.m[l.name], bytes))
      BY <1>2, <2>1 DEF DelimitedValue
    <2> HIDE DEF r, q, bytes, number
    <2>5. CASE k.kind = "bytes"
      <3>1. l.kind = "bytes" /\ <<f.type, k.name>> \in PlainIn /\ ~IsNumber(a, f.type, k.name)
        BY <2>5 DEF CasesAgree
      <3>2. r = Taken(k, s.to, bytes) /\ q = Taken(l, s.to, bytes)
        BY <2>3, <2>4, <2>5, <3>1
      <3>3. /\ r.ok /\ q.ok /\ r.case = k /\ q.case = l /\ r.next = s.to /\ q.next = s.to
            /\ r.val = bytes /\ q.val = bytes
        BY <3>2 DEF Taken
      <3> QED BY <2>2, <2>5, <3>1, <3>3 DEF RoundsAgree, ValuesAgree
    <2>6. CASE k.kind = "embedded"
      <3>1. l.kind = "embedded" /\ <<f.type, k.name, k.type>> \in EmbeddedIn
        BY <2>6 DEF CasesAgree
      <3>2. r = Taken(k, s.to, bytes) /\ q = Taken(l, s.to, bytes)
        BY <2>3, <2>4, <2>6, <3>1
      <3>3. /\ r.ok /\ q.ok /\ r.case = k /\ q.case = l /\ r.next = s.to /\ q.next = s.to
            /\ r.val = bytes /\ q.val = bytes
        BY <3>2 DEF Taken
      <3> QED BY <2>2, <2>6, <3>1, <3>3 DEF RoundsAgree
    <2>7. CASE k.kind = "repeated"
      <3>1. /\ l.kind = "repeated" /\ <<f.type, k.name>> \in PlainIn /\ ~IsNumber(a, f.type, k.name)
            /\ f.type = "MsgAuctionBid" /\ k.name = "transactions"
        BY <2>7 DEF CasesAgree
      <3>2. h.m[l.name] = f.m[k.name]
        <4>1. h.m.transactions = f.m.transactions
          <5>1. Agrees(a, "MsgAuctionBid", f.m, h.m)
            BY <2>1, <3>1
          <5>2. CASE a = "gogo"
            BY <5>1, <5>2, GogoAgreesOn DEF Agrees
          <5>3. CASE a = "pulsar"
            BY <5>1, <5>3, IsStrippedOn DEF Agrees
          <5> QED BY <5>2, <5>3
        <4> QED BY <2>2, <3>1, <4>1
      <3> DEFINE v == Append(f.m[k.name], bytes)
      <3>3. r = Taken(k, s.to, v) /\ q = Taken(l, s.to, v)
        BY <2>3, <2>4, <2>7, <3>1, <3>2
      <3> HIDE DEF v
      <3>4. /\ r.ok /\ q.ok /\ r.case = k /\ q.case = l /\ r.next = s.to /\ q.next = s.to
            /\ r.val = v /\ q.val = v
        BY <3>3 DEF Taken
      <3> QED BY <2>2, <2>7, <3>1, <3>4 DEF RoundsAgree, ValuesAgree
    <2>8. CASE k.kind = "number"
      <3>1. l.kind = "bytes" /\ <<f.type, k.name>> \in PlainIn /\ IsNumber(a, f.type, k.name)
        BY <2>8 DEF CasesAgree
      <3>2. a = "gogo" /\ f.type \in {"Coin", "Params"}
        BY <3>1 DEF IsNumber
      <3>3. q = Taken(l, s.to, bytes)
        BY <2>4, <3>1
      <3>4. CASE ~number.ok
        <4>1. r = Failed
          BY <2>3, <2>8, <3>4
        <4>2. ~r.ok
          BY <4>1 DEF Failed
        <4> QED BY <3>2, <4>2 DEF RoundsAgree
      <3>5. CASE number.ok
        <4>1. r = Taken(k, s.to, number.val)
          BY <2>3, <2>8, <3>5
        <4>2. /\ r.ok /\ q.ok /\ r.case = k /\ q.case = l /\ r.next = s.to /\ q.next = s.to
              /\ r.val = number.val /\ q.val = bytes
          BY <3>3, <4>1 DEF Taken
        <4>3. NumbersAgree(number.val, bytes)
          BY <3>5, NumberTaken DEF number
        <4> QED BY <2>2, <2>8, <3>1, <4>2, <4>3 DEF RoundsAgree, ValuesAgree
      <3> QED BY <3>4, <3>5
    <2> QED BY <2>5, <2>6, <2>7, <2>8 DEF DelimitedKinds
  <1> QED BY <1>1, <1>2

\* Frames that are alike have rounds that agree.
LEMMA RoundsOfBoth ==
    ASSUME NEW a \in {"gogo", "pulsar"}, NEW f \in Frames(a), NEW h \in Frames(Other(a)), Alike(a, f, h)
    PROVE  RoundsAgree(a, f, h, Round(a, f), Round(Other(a), h))
  <1> DEFINE t == ReadTag(f.b, f.i)
             cases == Cases(a, f.type)
             others == Cases(Other(a), f.type)
             r == Round(a, f)
             q == Round(Other(a), h)
  <1> SUFFICES RoundsAgree(a, f, h, r, q)
    OBVIOUS
  <1>1. h.type = f.type /\ h.b = f.b /\ h.i = f.i /\ h.end = f.end
    BY DEF Alike
  <1>2. f.type \in Types(a) /\ a \in AllCodecs
    BY DEF Frames, AllCodecs
  <1>3. TablesAgree(a, f.type, cases, others)
    BY <1>2, CasesOfBoth
  <1>4. r = RoundWith(f, t, cases) /\ q = RoundWith(h, t, others)
    BY <1>1 DEF Round
  <1>5. DOMAIN others = DOMAIN cases /\ \A n \in DOMAIN cases : CasesAgree(a, f.type, cases[n], others[n])
    BY <1>3 DEF TablesAgree
  <1>6. TagOK(f, t, cases) <=> TagOK(h, t, others)
    <2> HIDE DEF t, cases, others
    <2>1. t.fieldNum \in DOMAIN cases => others[t.fieldNum].wireType = cases[t.fieldNum].wireType
      BY <1>5 DEF CasesAgree
    <2> QED BY <1>1, <1>5, <2>1 DEF TagOK, IsEntry
  <1>7. IsTable(a, cases, Messages(a, f.type))
    BY <1>2, Tables
  <1> HIDE DEF t, cases, others, r, q
  <1>8. CASE ~TagOK(f, t, cases)
    <2>1. ~r.ok /\ ~q.ok
      BY <1>4, <1>6, <1>8 DEF RoundWith, Failed
    <2> QED BY <2>1 DEF RoundsAgree
  <1>9. CASE TagOK(f, t, cases) /\ t.fieldNum \in DOMAIN cases
    <2> DEFINE k == cases[t.fieldNum]
               l == others[t.fieldNum]
    <2>1. r = Value(f, k, t.next) /\ q = Value(h, l, t.next)
      BY <1>4, <1>5, <1>6, <1>9 DEF RoundWith
    <2>2. CasesAgree(a, f.type, k, l) /\ IsField(a, k, Messages(a, f.type))
      BY <1>5, <1>7, <1>9 DEF IsTable
    <2> HIDE DEF k, l
    <2>3. l.wireType = k.wireType
      BY <2>2 DEF CasesAgree
    <2>4. CASE k.wireType = 0
      <3>1. r = VarintValue(k, ReadVarint(f.b, t.next)) /\ q = VarintValue(l, ReadVarint(f.b, t.next))
        BY <1>1, <2>1, <2>3, <2>4 DEF Value
      <3>2. k.kind \in VarintKinds
        BY <2>2, <2>4 DEF IsField
      <3> QED BY <2>2, <3>1, <3>2, VarintsAgree
    <2>5. CASE k.wireType # 0
      <3>1. r = DelimitedValue(f, k, ReadDelimited(f.b, t.next)) /\ q = DelimitedValue(h, l, ReadDelimited(f.b, t.next))
        BY <1>1, <2>1, <2>3, <2>5 DEF Value
      <3>2. k.kind \in DelimitedKinds
        BY <2>2, <2>5 DEF IsField
      <3> QED BY <2>2, <3>1, <3>2, DelimitedAgree
    <2> QED BY <2>4, <2>5
  <1>10. CASE TagOK(f, t, cases) /\ t.fieldNum \notin DOMAIN cases
    <2> DEFINE s == Skip(Slice(f.b, f.i, Len(f.b)))
               next == ToInt(f.i + s.n)
    <2>1. r = Skipped(f, s) /\ q = Skipped(h, s)
      BY <1>1, <1>4, <1>5, <1>6, <1>10 DEF RoundWith
    <2> HIDE DEF s
    <2>2. q = r
      BY <1>1, <2>1 DEF Skipped
    <2>3. CASE ~r.ok
      BY <2>2, <2>3 DEF RoundsAgree
    <2>4. CASE r.ok
      <3>1. r = Taken(Unknown, next, Slice(f.b, f.i, next))
        BY <2>1, <2>4 DEF Skipped, Failed
      <3>2. r.case.kind = "unknown"
        BY <3>1 DEF Taken, Unknown, Case
      <3> QED BY <2>2, <2>4, <3>2 DEF RoundsAgree
    <2> QED BY <2>3, <2>4
  <1> QED BY <1>8, <1>9, <1>10

-----------------------------------------------------------------------------
(* The same step of two codecs. *)

\* Frame g is frame f after a round that came to r.
Progress(c, f, r, g) ==
    \/ /\ r.case.kind \notin {"embedded", "unknown"}
       /\ Moved(f, [f.m EXCEPT ![r.case.name] = r.val], r.next, g)
    \/ /\ r.case.kind = "embedded"
       /\ Moved(f, f.m, r.next, g)
    \/ /\ r.case.kind = "unknown"
       /\ Moved(f, IF c = "pulsar" /\ ~IsEntry(f) THEN [f.m EXCEPT !.unknown = @ \o r.val] ELSE f.m, r.next, g)

\* The stacks are the same below frame n.
SameBelow(s, u, n) == \A k \in 1 .. n - 1 : u[k] = s[k]

\* What the actions of codec c do to its decoder.
Fails(c, d, e, n) ==
    /\ d.stack[n].i < d.stack[n].end /\ ~Round(c, d.stack[n]).ok
    /\ e.state = "error" /\ e.stack = d.stack
Goes(c, d, e, n) ==
    /\ d.stack[n].i < d.stack[n].end /\ Round(c, d.stack[n]).ok /\ Round(c, d.stack[n]).case.kind # "embedded"
    /\ e.state = "reading" /\ Len(e.stack) = n /\ SameBelow(d.stack, e.stack, n)
    /\ Progress(c, d.stack[n], Round(c, d.stack[n]), e.stack[n])
Enters(c, d, e, n) ==
    LET f == d.stack[n]
        r == Round(c, f)
    IN  /\ f.i < f.end /\ r.ok /\ r.case.kind = "embedded"
        /\ e.state = "reading" /\ Len(e.stack) = n + 1 /\ SameBelow(d.stack, e.stack, n)
        /\ Progress(c, f, r, e.stack[n])
        /\ e.stack[n + 1] = Inner(f, r, Old(c, f.m[r.case.name], r.case.type))
Ends(c, d, e, n) ==
    /\ ~(d.stack[n].i < d.stack[n].end) /\ n = 1
    /\ e.state = "ok" /\ e.stack = d.stack
TakesOver(c, below, f, g) ==
    Moved(below, [below.m EXCEPT ![f.field] = TakenBy(c, below.m[f.field], f.type, f.m)], below.i, g)
Leaves(c, d, e, n) ==
    /\ ~(d.stack[n].i < d.stack[n].end) /\ n # 1
    /\ e.state = "reading" /\ Len(e.stack) = n - 1 /\ SameBelow(d.stack, e.stack, n - 1)
    /\ TakesOver(c, d.stack[n - 1], d.stack[n], e.stack[n - 1])
DecoderStepAt(c, d, e, n) ==
    /\ d.state = "reading"
    /\ Fails(c, d, e, n) \/ Goes(c, d, e, n) \/ Enters(c, d, e, n) \/ Ends(c, d, e, n) \/ Leaves(c, d, e, n)
DecoderStep(c, d, e) == DecoderStepAt(c, d, e, Len(d.stack))

LEMMA SetStackOf ==
    ASSUME CodecInv, NEW c \in Codecs(type), NEW u, dec' = [dec EXCEPT ![c].stack = u]
    PROVE  dec'[c].stack = u /\ dec'[c].state = dec[c].state
  <1>1. dec = [x \in Codecs(type) |-> dec[x]] /\ dec[c] \in Decoders(c, type)
    BY DEF CodecInv
  <1>2. dec'[c] = [dec[c] EXCEPT !.stack = u]
    BY <1>1
  <1>3. dec[c] \in [stack : Stacks(c), state : {"reading", "ok", "error"}]
    BY <1>1 DEF Decoders
  <1> DEFINE d == dec[c]
             e == [d EXCEPT !.stack = u]
  <1> HIDE DEF d
  <1>4. e.stack = u /\ e.state = d.state
    BY <1>3 DEF d
  <1> QED BY <1>2, <1>4 DEF d

LEMMA SetStateOf ==
    ASSUME CodecInv, NEW c \in Codecs(type), NEW st, dec' = [dec EXCEPT ![c].state = st]
    PROVE  dec'[c].state = st /\ dec'[c].stack = dec[c].stack
  <1>1. dec = [x \in Codecs(type) |-> dec[x]] /\ dec[c] \in Decoders(c, type)
    BY DEF CodecInv
  <1>2. dec'[c] = [dec[c] EXCEPT !.state = st]
    BY <1>1
  <1>3. dec[c] \in [stack : Stacks(c), state : {"reading", "ok", "error"}]
    BY <1>1 DEF Decoders
  <1> DEFINE d == dec[c]
             e == [d EXCEPT !.state = st]
  <1> HIDE DEF d
  <1>4. e.state = st /\ e.stack = d.stack
    BY <1>3 DEF d
  <1> QED BY <1>2, <1>4 DEF d

\* Another frame on the first n of a stack.
LEMMA OnTop ==
    ASSUME NEW c, NEW s \in Stacks(c), NEW n \in 0 .. Len(s), NEW g
    PROVE  /\ Len(Append(SubSeq(s, 1, n), g)) = n + 1
           /\ Append(SubSeq(s, 1, n), g)[n + 1] = g
           /\ \A k \in 1 .. n : Append(SubSeq(s, 1, n), g)[k] = s[k]
           /\ SubSeq(s, 1, n) \in Seq(Frames(c))
  <1> DEFINE p == SubSeq(s, 1, n)
  <1>1. s \in Seq(Frames(c)) /\ Len(s) \in Nat /\ \A k \in 1 .. Len(s) : s[k] \in Frames(c)
    BY StackFacts
  <1>2. p \in Seq(Frames(c)) /\ Len(p) = n /\ \A k \in 1 .. n : p[k] = s[k]
    <2>1. n \in Int /\ 1 \in Int /\ \A k \in 1 .. n : s[k] \in Frames(c)
      BY <1>1
    <2>2. /\ p \in Seq(Frames(c)) /\ Len(p) = (IF 1 <= n THEN n - 1 + 1 ELSE 0)
          /\ \A i \in 1 .. n - 1 + 1 : p[i] = s[1 + i - 1]
      BY <2>1, SubSeqProperties
    <2> QED BY <1>1, <2>2
  <1> HIDE DEF p
  <1>3. p \in Seq(Frames(c) \cup {g}) /\ g \in Frames(c) \cup {g}
    BY <1>2
  <1>4. Len(Append(p, g)) = n + 1 /\ Append(p, g)[n + 1] = g /\ \A k \in 1 .. n : Append(p, g)[k] = p[k]
    BY <1>2, <1>3
  <1> QED BY <1>2, <1>4 DEF p

\* The actions are these steps.
LEMMA ReadFieldIs ==
    ASSUME CodecInv, NEW c \in Codecs(type), ReadField(c) \/ SkipField(c)
    PROVE  Goes(c, dec[c], dec'[c], Len(dec[c].stack))
  <1> DEFINE s == dec[c].stack
             n == Len(s)
             f == Top(c)
             r == Round(c, f)
             e == dec'[c]
  <1>1. Reads(c) /\ f.i < f.end /\ r.ok /\ r.case.kind # "embedded"
    BY DEF ReadField, SkipField, InLoop
  <1>2. /\ dec[c].state = "reading" /\ s \in Stacks(c) /\ f = s[n] /\ f \in Frames(c)
        /\ n \in Nat /\ n >= 1 /\ Front(s) = SubSeq(s, 1, n - 1)
    BY <1>1, InLoopFacts, StackFacts
  <1>3. PICK g : dec' = SetTop(c, g) /\ Progress(c, f, r, g)
    <2>1. CASE ReadField(c)
      <3> DEFINE g == [f EXCEPT !.m[r.case.name] = r.val, !.i = r.next]
                 m == [f.m EXCEPT ![r.case.name] = r.val]
      <3>1. dec' = SetTop(c, g) /\ r.case.kind \notin {"embedded", "unknown"}
        BY <2>1 DEF ReadField
      <3> HIDE DEF f, r
      <3>2. g = [f EXCEPT !.m = m, !.i = r.next]
        BY <1>2 DEF Frames
      <3> HIDE DEF g
      <3>3. Progress(c, f, r, g)
        BY <3>1, <3>2 DEF Progress, Moved
      <3> QED BY <3>1, <3>3
    <2>2. CASE SkipField(c)
      <3> DEFINE keeps == c = "pulsar" /\ ~IsEntry(f)
                 g == IF keeps THEN [f EXCEPT !.i = r.next, !.m.unknown = @ \o r.val] ELSE [f EXCEPT !.i = r.next]
                 m == IF keeps THEN [f.m EXCEPT !.unknown = @ \o r.val] ELSE f.m
      <3>1. dec' = SetTop(c, g) /\ r.case.kind = "unknown"
        BY <2>2 DEF SkipField
      <3> HIDE DEF f, r
      <3>2. g = [f EXCEPT !.m = m, !.i = r.next]
        <4> HIDE DEF keeps
        <4>1. CASE keeps
          BY <1>2, <4>1 DEF Frames
        <4>2. CASE ~keeps
          BY <1>2, <4>2 DEF Frames
        <4> QED BY <4>1, <4>2
      <3> HIDE DEF g
      <3>3. Progress(c, f, r, g)
        BY <3>1, <3>2 DEF Progress, Moved
      <3> QED BY <3>1, <3>3
    <2> QED BY <2>1, <2>2
  <1> DEFINE u == Append(SubSeq(s, 1, n - 1), g)
  <1>4. dec' = [dec EXCEPT ![c].stack = u]
    BY <1>2, <1>3 DEF SetTop
  <1>5. Len(u) = n /\ u[n] = g /\ SameBelow(s, u, n)
    <2> DEFINE j == n - 1
               w == Append(SubSeq(s, 1, j), g)
    <2>1. j \in 0 .. Len(s) /\ j + 1 = n
      BY <1>2
    <2> HIDE DEF j, s
    <2>2. Len(w) = j + 1 /\ w[j + 1] = g /\ \A k \in 1 .. j : w[k] = s[k]
      BY <1>2, <2>1, OnTop
    <2> QED BY <2>1, <2>2 DEF SameBelow, j
  <1> HIDE DEF u
  <1>6. e.stack = u /\ e.state = "reading"
    BY <1>2, <1>4, SetStackOf
  <1> HIDE DEF e
  <1>7. Goes(c, dec[c], e, n)
    <2>1. dec[c].stack[n] = f /\ Round(c, dec[c].stack[n]) = r
      BY <1>2
    <2> HIDE DEF f, r
    <2>2. SameBelow(dec[c].stack, e.stack, n) /\ e.stack[n] = g /\ Len(e.stack) = n
      BY <1>5, <1>6
    <2> HIDE DEF n, s
    <2>3. f.i < f.end /\ r.ok /\ r.case.kind # "embedded"
      BY <1>1 DEF r, f
    <2> QED BY <1>3, <1>6, <2>1, <2>2, <2>3 DEF Goes
  <1> QED BY <1>7 DEF e

LEMMA EnterMessageIs ==
    ASSUME CodecInv, NEW c \in Codecs(type), EnterMessage(c)
    PROVE  Enters(c, dec[c], dec'[c], Len(dec[c].stack))
  <1> DEFINE s == dec[c].stack
             n == Len(s)
             f == Top(c)
             r == Round(c, f)
             g == [f EXCEPT !.i = r.next]
             h == Inner(f, r, Old(c, f.m[r.case.name], r.case.type))
             p == SubSeq(s, 1, n - 1)
             u == Append(Append(p, g), h)
             e == dec'[c]
  <1>1. /\ Reads(c) /\ f.i < f.end /\ r.ok /\ r.case.kind = "embedded"
        /\ dec' = [dec EXCEPT ![c].stack = Front(s) \o <<g, h>>]
    BY DEF EnterMessage, InLoop
  <1>2. /\ dec[c].state = "reading" /\ s \in Stacks(c) /\ f = s[n] /\ f \in Frames(c)
        /\ n \in Nat /\ n >= 1 /\ Front(s) = SubSeq(s, 1, n - 1)
    BY <1>1, InLoopFacts, StackFacts
  <1> HIDE DEF h
  <1>3. Progress(c, f, r, g)
    <2> HIDE DEF f, r
    <2>1. Moved(f, f.m, r.next, g)
      BY <1>2 DEF Frames, Moved
    <2> HIDE DEF g
    <2> QED BY <1>1, <2>1 DEF Progress, f, r
  <1> HIDE DEF g
  <1>4. /\ p \in Seq(Frames(c)) /\ Len(Append(p, g)) = n /\ Append(p, g)[n] = g
        /\ \A k \in 1 .. n - 1 : Append(p, g)[k] = s[k]
    <2> DEFINE j == n - 1
               w == Append(SubSeq(s, 1, j), g)
    <2>1. j \in 0 .. Len(s) /\ j + 1 = n
      BY <1>2
    <2> HIDE DEF j, s
    <2>2. Len(w) = j + 1 /\ w[j + 1] = g /\ (\A k \in 1 .. j : w[k] = s[k]) /\ SubSeq(s, 1, j) \in Seq(Frames(c))
      BY <1>2, <2>1, OnTop, SMTT(60)
    <2> QED BY <2>1, <2>2 DEF j
  <1> HIDE DEF p
  <1>5. p \in Seq(Frames(c) \cup {g, h}) /\ g \in Frames(c) \cup {g, h} /\ h \in Frames(c) \cup {g, h}
    BY <1>4
  <1>6. p \o <<g, h>> = u
    <2> HIDE DEF n
    <2> QED BY <1>5
  <1> DEFINE v == Append(p, g)
  <1>7. v \in Seq(Frames(c) \cup {g, h})
    BY <1>5
  <1> HIDE DEF n
  <1>8. Len(v) = n /\ v[n] = g /\ \A k \in 1 .. n - 1 : v[k] = s[k]
    BY <1>4
  <1> HIDE DEF v
  <1>9. u = Append(v, h)
    BY DEF v
  <1>10. Len(u) = n + 1 /\ u[n + 1] = h /\ \A k \in 1 .. n : u[k] = v[k]
    BY <1>2, <1>5, <1>7, <1>8, <1>9
  <1> HIDE DEF u
  <1>11. u[n] = g /\ SameBelow(s, u, n)
    BY <1>2, <1>8, <1>10 DEF SameBelow
  <1>12. e.stack = u /\ e.state = "reading"
    <2>1. dec' = [dec EXCEPT ![c].stack = u]
      BY <1>1, <1>2, <1>6 DEF p, n
    <2> QED BY <1>2, <2>1, SetStackOf
  <1> HIDE DEF e
  <1>13. Enters(c, dec[c], e, n)
    <2>1. dec[c].stack[n] = f /\ Round(c, dec[c].stack[n]) = r
      BY <1>2 DEF n
    <2>2. h = Inner(f, r, Old(c, f.m[r.case.name], r.case.type))
      BY DEF h
    <2>3. f.i < f.end /\ r.ok /\ r.case.kind = "embedded"
      BY <1>1
    <2> HIDE DEF f, r
    <2>4. SameBelow(dec[c].stack, e.stack, n) /\ e.stack[n] = g /\ Len(e.stack) = n + 1 /\ e.stack[n + 1] = h
      BY <1>10, <1>11, <1>12
    <2> HIDE DEF s
    <2> QED BY <1>3, <1>12, <2>1, <2>2, <2>3, <2>4 DEF Enters
  <1> QED BY <1>13 DEF e, n

LEMMA FailIs ==
    ASSUME CodecInv, NEW c \in Codecs(type), Fail(c)
    PROVE  Fails(c, dec[c], dec'[c], Len(dec[c].stack))
  <1>1. /\ Reads(c) /\ Top(c).i < Top(c).end /\ ~Round(c, Top(c)).ok
        /\ dec' = [dec EXCEPT ![c].state = "error"]
    BY DEF Fail, InLoop
  <1>2. Top(c) = dec[c].stack[Len(dec[c].stack)]
    BY <1>1, InLoopFacts
  <1>3. dec'[c].state = "error" /\ dec'[c].stack = dec[c].stack
    BY <1>1, SetStateOf
  <1> QED BY <1>1, <1>2, <1>3 DEF Fails

LEMMA LeaveMessageIs ==
    ASSUME CodecInv, NEW c \in Codecs(type), LeaveMessage(c)
    PROVE  \/ Ends(c, dec[c], dec'[c], Len(dec[c].stack))
           \/ Leaves(c, dec[c], dec'[c], Len(dec[c].stack))
  <1> DEFINE s == dec[c].stack
             n == Len(s)
             f == Top(c)
             below == s[n - 1]
             value == CASE IsEntry(f) -> Assign(below.m[f.field], f.m.key, f.m.value)
                        [] ~IsEntry(f) /\ c = "gogo" -> f.m
                        [] OTHER -> <<f.m>>
             g == [below EXCEPT !.m[f.field] = value]
             u == Append(SubSeq(s, 1, n - 2), g)
             e == dec'[c]
  <1>1. Reads(c) /\ ~(f.i < f.end)
    BY DEF LeaveMessage, InLoop
  <1>2. dec' = IF n = 1 THEN [dec EXCEPT ![c].state = "ok"] ELSE [dec EXCEPT ![c].stack = u]
    BY DEF LeaveMessage
  <1>3. /\ dec[c].state = "reading" /\ s \in Stacks(c) /\ f = s[n] /\ f \in Frames(c)
        /\ n \in Nat /\ n >= 1
    BY <1>1, InLoopFacts
  <1>4. CASE n = 1
    <2>1. e.state = "ok" /\ e.stack = s
      BY <1>2, <1>4, SetStateOf
    <2>2. Ends(c, dec[c], e, n)
      BY <1>1, <1>3, <1>4, <2>1 DEF Ends
    <2> QED BY <2>2
  <1>5. CASE n # 1
    <2>1. n - 1 \in 1 .. Len(s) /\ n - 2 \in 0 .. Len(s) /\ (n - 2) + 1 = n - 1 /\ (n - 1) - 1 = n - 2
      <3>1. n \in Nat /\ n >= 1 /\ n # 1 /\ Len(s) = n
        BY <1>3, <1>5
      <3> HIDE DEF n
      <3> QED BY <3>1
    <2>2. below \in Frames(c)
      BY <1>3, <2>1, StackFacts
    <2>3. value = TakenBy(c, below.m[f.field], f.type, f.m)
      BY DEF TakenBy, IsEntry
    <2> DEFINE m == [below.m EXCEPT ![f.field] = TakenBy(c, below.m[f.field], f.type, f.m)]
    <2> HIDE DEF value, f, below
    <2>4. Moved(below, m, below.i, g)
      BY <2>2, <2>3 DEF Frames, Moved
    <2>5. e.stack = u /\ e.state = "reading"
      <3>1. dec' = [dec EXCEPT ![c].stack = u]
        BY <1>2, <1>5
      <3> HIDE DEF u
      <3> QED BY <1>3, <3>1, SetStackOf
    <2> HIDE DEF g, e, m
    <2>6. Len(u) = n - 1 /\ u[n - 1] = g /\ SameBelow(s, u, n - 1)
      <3> DEFINE j == n - 2
                 w == Append(SubSeq(s, 1, j), g)
      <3>1. j \in 0 .. Len(s) /\ j + 1 = n - 1 /\ (n - 1) - 1 = j
        BY <2>1
      <3> HIDE DEF j, s
      <3>2. Len(w) = j + 1 /\ w[j + 1] = g /\ \A k \in 1 .. j : w[k] = s[k]
        BY <1>3, <3>1, OnTop
      <3> QED BY <3>1, <3>2 DEF SameBelow, j
    <2> HIDE DEF u
    <2>7. Leaves(c, dec[c], e, n)
      <3>1. dec[c].stack[n] = f /\ dec[c].stack[n - 1] = below
        BY <1>3 DEF below
      <3>2. ~(f.i < f.end)
        BY <1>1 DEF f
      <3>3. TakesOver(c, below, f, g)
        BY <2>4 DEF m, TakesOver
      <3>4. SameBelow(dec[c].stack, e.stack, n - 1) /\ e.stack[n - 1] = g /\ Len(e.stack) = n - 1
        BY <2>5, <2>6
      <3> HIDE DEF n, s
      <3> QED BY <1>5, <2>5, <3>1, <3>2, <3>3, <3>4 DEF Leaves
    <2> QED BY <2>7 DEF e
  <1> QED BY <1>4, <1>5

LEMMA DecodeIs ==
    ASSUME CodecInv, NEW c \in Codecs(type), Decode(c)
    PROVE  DecoderStep(c, dec[c], dec'[c])
  <1>1. dec[c].state = "reading"
    BY DEF Decode, ReadField, EnterMessage, SkipField, Fail, LeaveMessage, InLoop, Reads
  <1> QED BY <1>1, ReadFieldIs, EnterMessageIs, FailIs, LeaveMessageIs DEF Decode, DecoderStep, DecoderStepAt

\* The first n frames of two stacks are alike, and linked by a field of a message.
LockTo(a, s, v, n) ==
    /\ \A k \in 1 .. n : Alike(a, s[k], v[k])
    /\ \A k \in 1 .. n - 1 : <<s[k].type, s[k + 1].field, s[k + 1].type>> \in EmbeddedIn

\* Two decoders of the same bytes that have come equally far.
Lockstep(a, g, p) ==
    p.state = g.state /\ Len(p.stack) = Len(g.stack) /\ LockTo(a, g.stack, p.stack, Len(g.stack))

LEMMA LockReplace ==
    ASSUME NEW a, NEW s, NEW v, NEW n \in Nat, LockTo(a, s, v, n), NEW k \in 1 .. n, NEW u, NEW w,
           SameBelow(s, u, k), SameBelow(v, w, k), Alike(a, u[k], w[k]),
           u[k].type = s[k].type, u[k].field = s[k].field
    PROVE  LockTo(a, u, w, k)
  <1>1. ASSUME NEW j \in 1 .. k PROVE Alike(a, u[j], w[j])
    <2>1. CASE j = k
      BY <2>1
    <2>2. CASE j # k
      <3>1. j \in 1 .. k - 1 /\ j \in 1 .. n
        BY <2>2
      <3>2. u[j] = s[j] /\ w[j] = v[j] /\ Alike(a, s[j], v[j])
        BY <3>1 DEF SameBelow, LockTo
      <3> QED BY <3>2
    <2> QED BY <2>1, <2>2
  <1>2. ASSUME NEW j \in 1 .. k - 1 PROVE <<u[j].type, u[j + 1].field, u[j + 1].type>> \in EmbeddedIn
    <2>1. j \in 1 .. n - 1 /\ u[j] = s[j]
      BY DEF SameBelow
    <2>2. u[j + 1].field = s[j + 1].field /\ u[j + 1].type = s[j + 1].type
      <3>1. CASE j + 1 = k
        BY <3>1
      <3>2. CASE j + 1 # k
        <4>1. j + 1 \in 1 .. k - 1
          BY <3>2
        <4> QED BY <4>1 DEF SameBelow
      <3> QED BY <3>1, <3>2
    <2> QED BY <2>1, <2>2 DEF LockTo
  <1> QED BY <1>1, <1>2 DEF LockTo

LEMMA LockPush ==
    ASSUME NEW a, NEW u, NEW w, NEW n \in Nat, n >= 1, LockTo(a, u, w, n), Alike(a, u[n + 1], w[n + 1]),
           <<u[n].type, u[n + 1].field, u[n + 1].type>> \in EmbeddedIn
    PROVE  LockTo(a, u, w, n + 1)
  <1>1. ASSUME NEW j \in 1 .. n + 1 PROVE Alike(a, u[j], w[j])
    <2>1. j \in 1 .. n \/ j = n + 1
      OBVIOUS
    <2> QED BY <2>1 DEF LockTo
  <1>2. ASSUME NEW j \in 1 .. (n + 1) - 1 PROVE <<u[j].type, u[j + 1].field, u[j + 1].type>> \in EmbeddedIn
    <2>1. j \in 1 .. n - 1 \/ j = n
      OBVIOUS
    <2> QED BY <2>1 DEF LockTo
  <1> QED BY <1>1, <1>2 DEF LockTo

LEMMA MovedFields ==
    ASSUME NEW c, NEW f \in Frames(c), NEW m, NEW i, NEW g, Moved(f, m, i, g)
    PROVE  g.type = f.type /\ g.b = f.b /\ g.i = i /\ g.end = f.end /\ g.m = m /\ g.field = f.field
  <1>1. f \in [type : Types(c), b : Slices, i : Nat, end : Nat, m : AnyMessage(c), field : Embeddings \cup {"none"}]
    BY DEF Frames
  <1> QED BY <1>1 DEF Moved

LEMMA AlikeMoved ==
    ASSUME NEW a, NEW f \in Frames(a), NEW h \in Frames(Other(a)), Alike(a, f, h), NEW m, NEW x, NEW i,
           NEW g, NEW w, Moved(f, m, i, g), Moved(h, x, i, w), Agrees(a, f.type, m, x)
    PROVE  Alike(a, g, w) /\ g.type = f.type /\ g.field = f.field
  <1>1. g.type = f.type /\ g.b = f.b /\ g.i = i /\ g.end = f.end /\ g.m = m /\ g.field = f.field
    BY MovedFields
  <1>2. w.type = h.type /\ w.b = h.b /\ w.i = i /\ w.end = h.end /\ w.m = x /\ w.field = h.field
    BY MovedFields
  <1> QED BY <1>1, <1>2 DEF Alike

\* A round that both get through leaves their frames alike.
LEMMA ProgressAgrees ==
    ASSUME NEW a \in {"gogo", "pulsar"}, NEW f \in Frames(a), NEW h \in Frames(Other(a)), Alike(a, f, h),
           NEW r, NEW q, RoundsAgree(a, f, h, r, q), r.ok, q.ok, NEW g, NEW w,
           Progress(a, f, r, g), Progress(Other(a), h, q, w)
    PROVE  Alike(a, g, w) /\ g.type = f.type /\ g.field = f.field
  <1>1. /\ f.type \in Types(a) /\ f.m \in Messages(a, f.type) /\ h.m \in Messages(Other(a), f.type)
        /\ h.type = f.type /\ Agrees(a, f.type, f.m, h.m)
    BY DEF Frames, Alike
  <1>2. q.next = r.next /\ q.case.name = r.case.name
    BY DEF RoundsAgree
  <1>3. CASE r.case.kind = "embedded"
    <2>1. q.case.kind = "embedded"
      BY <1>3 DEF RoundsAgree
    <2>2. Moved(f, f.m, r.next, g) /\ Moved(h, h.m, r.next, w)
      BY <1>2, <1>3, <2>1 DEF Progress
    <2> QED BY <1>1, <2>2, AlikeMoved
  <1>4. CASE r.case.kind = "unknown"
    <2>1. q.case.kind = "unknown"
      BY <1>4 DEF RoundsAgree
    <2> DEFINE m == IF a = "pulsar" /\ ~IsEntry(f) THEN [f.m EXCEPT !.unknown = @ \o r.val] ELSE f.m
               x == IF Other(a) = "pulsar" /\ ~IsEntry(h) THEN [h.m EXCEPT !.unknown = @ \o q.val] ELSE h.m
    <2>2. Moved(f, m, r.next, g) /\ Moved(h, x, r.next, w)
      BY <1>2, <1>4, <2>1 DEF Progress
    <2>3. Agrees(a, f.type, m, x)
      <3>1. CASE a = "gogo"
        <4>1. m = f.m /\ f.type \in DOMAIN GogoMessages /\ h.m \in PulsarMessages[f.type] /\ GogoAgrees(f.type, f.m, h.m)
          BY <1>1, <3>1 DEF Types, Messages, Other, Agrees
        <4>2. \A z : GogoAgrees(f.type, f.m, [h.m EXCEPT !.unknown = z])
          BY <4>1, GogoUnknown
        <4>3. x = h.m \/ \E z : x = [h.m EXCEPT !.unknown = z]
          OBVIOUS
        <4> HIDE DEF m, x
        <4> QED BY <3>1, <4>1, <4>2, <4>3 DEF Agrees
      <3>2. CASE a = "pulsar"
        <4>1. x = h.m /\ f.type \in DOMAIN PulsarMessages /\ f.m \in PulsarMessages[f.type] /\ IsStripped(f.type, f.m, h.m)
          BY <1>1, <3>2 DEF Types, Messages, Other, Agrees
        <4>2. f.type # "RegistryEntry" => \A z : IsStripped(f.type, [f.m EXCEPT !.unknown = z], h.m)
          BY <4>1, StrippedUnknown
        <4>3. m = f.m \/ (f.type # "RegistryEntry" /\ \E z : m = [f.m EXCEPT !.unknown = z])
          BY DEF IsEntry
        <4> HIDE DEF m, x
        <4> QED BY <3>2, <4>1, <4>2, <4>3 DEF Agrees
      <3> QED BY <3>1, <3>2
    <2> HIDE DEF m, x
    <2> QED BY <2>2, <2>3, AlikeMoved
  <1>5. CASE r.case.kind \notin {"embedded", "unknown"}
    <2> DEFINE m == [f.m EXCEPT ![r.case.name] = r.val]
               x == [h.m EXCEPT ![r.case.name] = q.val]
    <2>1. /\ q.case.kind \notin {"embedded", "unknown"} /\ <<f.type, r.case.name>> \in PlainIn
          /\ ValuesAgree(a, f.type, r.case.name, r.val, q.val)
      BY <1>5 DEF RoundsAgree
    <2>2. Moved(f, m, r.next, g) /\ Moved(h, x, r.next, w)
      BY <1>2, <1>5, <2>1 DEF Progress
    <2>3. Agrees(a, f.type, m, x)
      BY <1>1, <2>1, SetAgrees
    <2> HIDE DEF m, x
    <2> QED BY <2>2, <2>3, AlikeMoved
  <1> QED BY <1>3, <1>4, <1>5

\* The embedded messages that both begin to read are alike.
LEMMA InnerAgrees ==
    ASSUME NEW a \in {"gogo", "pulsar"}, NEW f \in Frames(a), NEW h \in Frames(Other(a)), Alike(a, f, h),
           NEW r, NEW q, r.ok, q.ok, r.case.kind = "embedded", RoundsAgree(a, f, h, r, q), r.case.type \in Types(a),
           NEW g, g = Inner(f, r, Old(a, f.m[r.case.name], r.case.type)),
           NEW w, w = Inner(h, q, Old(Other(a), h.m[q.case.name], q.case.type))
    PROVE  Alike(a, g, w) /\ <<f.type, g.field, g.type>> \in EmbeddedIn
  <1>1. /\ f.type \in Types(a) /\ f.m \in Messages(a, f.type) /\ h.m \in Messages(Other(a), f.type)
        /\ h.type = f.type /\ h.b = f.b /\ Agrees(a, f.type, f.m, h.m)
    BY DEF Frames, Alike
  <1>2. /\ q.next = r.next /\ q.case.name = r.case.name /\ q.case.type = r.case.type /\ q.val = r.val
        /\ <<f.type, r.case.name, r.case.type>> \in EmbeddedIn
    BY DEF RoundsAgree
  <1> DEFINE t == r.case.type
             m == Old(a, f.m[r.case.name], t)
             x == Old(Other(a), h.m[r.case.name], t)
  <1>3. Agrees(a, t, m, x)
    BY <1>1, <1>2, OldAgrees
  <1>4. g = Inner(f, r, m) /\ w = Inner(h, q, x)
    BY <1>2
  <1> HIDE DEF m, x
  <1>5. /\ g.type = t /\ g.field = r.case.name /\ g.m = m
        /\ w.type = t /\ w.field = r.case.name /\ w.m = x
        /\ w.b = g.b /\ w.i = g.i /\ w.end = g.end
    <2>1. CASE t = "RegistryEntry"
      BY <1>1, <1>2, <1>4, <2>1 DEF Inner, Frame
    <2>2. CASE t # "RegistryEntry"
      BY <1>1, <1>2, <1>4, <2>2 DEF Inner, Frame
    <2> QED BY <2>1, <2>2
  <1> QED BY <1>2, <1>3, <1>5 DEF Alike

\* The embedded messages that both are done with.
LEMMA LeavesAgree ==
    ASSUME NEW a \in {"gogo", "pulsar"}, NEW below \in Frames(a), NEW under \in Frames(Other(a)),
           Alike(a, below, under), NEW f \in Frames(a), NEW h \in Frames(Other(a)), Alike(a, f, h),
           <<below.type, f.field, f.type>> \in EmbeddedIn, NEW g, NEW w,
           TakesOver(a, below, f, g), TakesOver(Other(a), under, h, w)
    PROVE  Alike(a, g, w) /\ g.type = below.type /\ g.field = below.field
  <1>1. h.type = f.type /\ h.field = f.field /\ Agrees(a, f.type, f.m, h.m)
    BY DEF Alike
  <1>2. /\ under.type = below.type /\ under.i = below.i /\ Agrees(a, below.type, below.m, under.m)
        /\ below.type \in Types(a) /\ below.m \in Messages(a, below.type)
        /\ under.m \in Messages(Other(a), below.type) /\ f.type \in Types(a)
    BY DEF Alike, Frames
  <1> DEFINE m == [below.m EXCEPT ![f.field] = TakenBy(a, below.m[f.field], f.type, f.m)]
             x == [under.m EXCEPT ![f.field] = TakenBy(Other(a), under.m[f.field], f.type, h.m)]
  <1>3. Agrees(a, below.type, m, x)
    BY <1>1, <1>2, EmbedAgrees
  <1>4. Moved(below, m, below.i, g) /\ Moved(under, x, below.i, w)
    BY <1>1, <1>2 DEF TakesOver
  <1> HIDE DEF m, x
  <1> QED BY <1>3, <1>4, AlikeMoved

NumberTypes == WithParams \cup {"Params", "MsgAuctionBid"}

\* Two decoders in lockstep stay so, unless gogo finds no number where one should be.
LEMMA LockstepSteps ==
    ASSUME NEW a \in {"gogo", "pulsar"}, NEW t, t \notin {"Coin", "RegistryEntry"},
           NEW g \in Decoders(a, t), NEW p \in Decoders(Other(a), t), Lockstep(a, g, p),
           NEW g2, DecoderStep(a, g, g2), NEW p2, DecoderStep(Other(a), p, p2)
    PROVE  Lockstep(a, g2, p2) \/ (a = "gogo" /\ g2.state = "error" /\ t \in NumberTypes)
  <1> DEFINE b == Other(a)
             s == g.stack
             v == p.stack
             n == Len(s)
             f == s[n]
             h == v[n]
             r == Round(a, f)
             q == Round(b, h)
             u == g2.stack
             w == p2.stack
  <1>1. a \in AllCodecs /\ b \in AllCodecs
    BY DEF AllCodecs, Other
  <1>2. s \in Stacks(a) /\ v \in Stacks(b) /\ s[1].type = t
    BY DEF Decoders
  <1>3. Len(v) = n /\ LockTo(a, s, v, n) /\ n \in Nat /\ n >= 1
    BY <1>2, StackFacts DEF Lockstep
  <1>4. /\ \A k \in 1 .. n : s[k] \in Frames(a) /\ v[k] \in Frames(b) /\ Alike(a, s[k], v[k])
        /\ \A k \in 1 .. n - 1 : <<s[k].type, s[k + 1].field, s[k + 1].type>> \in EmbeddedIn
    <2>1. /\ \A k \in 1 .. Len(s) : s[k] \in Frames(a)
          /\ \A k \in 1 .. Len(v) : v[k] \in Frames(b)
      BY <1>2, StackFacts
    <2> QED BY <1>3, <2>1 DEF LockTo
  <1>5. f \in Frames(a) /\ h \in Frames(b) /\ Alike(a, f, h)
    BY <1>3, <1>4
  <1>6. RoundsAgree(a, f, h, r, q)
    BY <1>5, RoundsOfBoth
  <1>7. h.i = f.i /\ h.end = f.end
    BY <1>5 DEF Alike
  <1>8. DecoderStepAt(a, g, g2, n) /\ DecoderStepAt(b, p, p2, n)
    BY <1>3 DEF DecoderStep
  <1> HIDE DEF b, n
  <1>9. CASE f.i < f.end /\ ~r.ok /\ ~q.ok
    <2>1. Fails(a, g, g2, n) /\ Fails(b, p, p2, n)
      BY <1>7, <1>8, <1>9 DEF DecoderStepAt, Goes, Enters, Ends, Leaves
    <2>2. g2.state = "error" /\ p2.state = "error" /\ u = s /\ w = v
      BY <2>1 DEF Fails
    <2> QED BY <1>3, <2>2 DEF Lockstep, n
  <1>10. CASE f.i < f.end /\ ~r.ok /\ q.ok
    <2>1. a = "gogo" /\ f.type \in {"Coin", "Params"}
      BY <1>6, <1>10 DEF RoundsAgree
    <2>2. Fails(a, g, g2, n)
      BY <1>8, <1>10 DEF DecoderStepAt, Goes, Enters, Ends, Leaves
    <2>3. g2.state = "error"
      BY <2>2 DEF Fails
    <2>4. t \in NumberTypes
      <3>1. CASE n = 1
        BY <1>2, <2>1, <3>1 DEF NumberTypes
      <3>2. CASE n # 1
        <4>1. 1 \in 1 .. n - 1 /\ 1 \in 1 .. n
          BY <1>3, <3>2
        <4>2. <<t, s[1 + 1].field, s[1 + 1].type>> \in EmbeddedIn
          BY <1>2, <1>4, <4>1
        <4>3. t \in Types("gogo")
          BY <1>2, <1>4, <2>1, <4>1 DEF Frames
        <4> QED BY <4>2, <4>3, GogoTypes DEF EmbeddedIn, NumberTypes, WithParams, Types
      <3> QED BY <3>1, <3>2
    <2> QED BY <2>1, <2>3, <2>4
  <1>11. CASE f.i < f.end /\ r.ok /\ q.ok /\ r.case.kind # "embedded"
    <2>1. q.case.kind # "embedded"
      BY <1>6, <1>11 DEF RoundsAgree
    <2>2. Goes(a, g, g2, n) /\ Goes(b, p, p2, n)
      BY <1>7, <1>8, <1>11, <2>1 DEF DecoderStepAt, Fails, Enters, Ends, Leaves
    <2>3. /\ g2.state = "reading" /\ p2.state = "reading" /\ Len(u) = n /\ Len(w) = n
          /\ SameBelow(s, u, n) /\ SameBelow(v, w, n) /\ Progress(a, f, r, u[n]) /\ Progress(b, h, q, w[n])
      BY <2>2 DEF Goes
    <2>4. Alike(a, u[n], w[n]) /\ u[n].type = f.type /\ u[n].field = f.field
      <3> HIDE DEF r, q, f, h, u, w
      <3>1. ASSUME NEW x, NEW y, Progress(a, f, r, x), Progress(b, h, q, y)
            PROVE  Alike(a, x, y) /\ x.type = f.type /\ x.field = f.field
        BY <1>5, <1>6, <1>11, <3>1, ProgressAgrees DEF b
      <3> QED BY <2>3, <3>1
    <2>5. LockTo(a, u, w, n)
      <3>1. n \in 1 .. n
        BY <1>3
      <3> HIDE DEF s, v, u, w
      <3> QED BY <1>3, <2>3, <2>4, <3>1, LockReplace DEF f
    <2> QED BY <2>3, <2>5 DEF Lockstep
  <1>12. CASE f.i < f.end /\ r.ok /\ q.ok /\ r.case.kind = "embedded"
    <2>1. q.case.kind = "embedded"
      BY <1>6, <1>12 DEF RoundsAgree
    <2>2. Enters(a, g, g2, n) /\ Enters(b, p, p2, n)
      BY <1>7, <1>8, <1>12, <2>1 DEF DecoderStepAt, Fails, Goes, Ends, Leaves
    <2>3. /\ g2.state = "reading" /\ p2.state = "reading" /\ Len(u) = n + 1 /\ Len(w) = n + 1
          /\ SameBelow(s, u, n) /\ SameBelow(v, w, n) /\ Progress(a, f, r, u[n]) /\ Progress(b, h, q, w[n])
          /\ u[n + 1] = Inner(f, r, Old(a, f.m[r.case.name], r.case.type))
          /\ w[n + 1] = Inner(h, q, Old(b, h.m[q.case.name], q.case.type))
      BY <2>2 DEF Enters
    <2>4. Alike(a, u[n], w[n]) /\ u[n].type = f.type /\ u[n].field = f.field
      <3> HIDE DEF r, q, f, h, u, w
      <3>1. ASSUME NEW x, NEW y, Progress(a, f, r, x), Progress(b, h, q, y)
            PROVE  Alike(a, x, y) /\ x.type = f.type /\ x.field = f.field
        <4>1. r.ok /\ q.ok
          BY <1>12
        <4> QED BY <1>5, <1>6, <3>1, <4>1, ProgressAgrees DEF b
      <3> QED BY <2>3, <3>1
    <2>5. r.case.type \in Types(a)
      <3>1. RoundOK(a, f, r)
        BY <1>1, <1>5, <1>12, RoundType
      <3> HIDE DEF r, f
      <3> QED BY <1>12, <3>1 DEF RoundOK, IsField
    <2>6. Alike(a, u[n + 1], w[n + 1]) /\ <<f.type, u[n + 1].field, u[n + 1].type>> \in EmbeddedIn
      <3> HIDE DEF r, q, f, h
      <3> QED BY <1>5, <1>6, <1>12, <2>3, <2>5, InnerAgrees DEF b
    <2>7. LockTo(a, u, w, n + 1)
      <3>1. n \in 1 .. n
        BY <1>3
      <3> HIDE DEF s, v, u, w
      <3>2. LockTo(a, u, w, n)
        BY <1>3, <2>3, <2>4, <3>1, LockReplace DEF f
      <3> QED BY <1>3, <2>4, <2>6, <3>2, LockPush
    <2> QED BY <2>3, <2>7 DEF Lockstep
  <1>13. CASE ~(f.i < f.end) /\ n = 1
    <2>1. Ends(a, g, g2, n) /\ Ends(b, p, p2, n)
      BY <1>7, <1>8, <1>13 DEF DecoderStepAt, Fails, Goes, Enters, Leaves
    <2>2. g2.state = "ok" /\ p2.state = "ok" /\ u = s /\ w = v
      BY <2>1 DEF Ends
    <2> QED BY <1>3, <2>2 DEF Lockstep, n
  <1>14. CASE ~(f.i < f.end) /\ n # 1
    <2> DEFINE k == n - 1
    <2>1. k \in 1 .. n /\ k \in 1 .. n - 1 /\ k + 1 = n
      BY <1>3, <1>14
    <2>2. Leaves(a, g, g2, n) /\ Leaves(b, p, p2, n)
      BY <1>7, <1>8, <1>14 DEF DecoderStepAt, Fails, Goes, Enters, Ends
    <2>3. /\ g2.state = "reading" /\ p2.state = "reading" /\ Len(u) = k /\ Len(w) = k
          /\ SameBelow(s, u, k) /\ SameBelow(v, w, k)
          /\ TakesOver(a, s[k], f, u[k]) /\ TakesOver(b, v[k], h, w[k])
      BY <2>2 DEF Leaves
    <2>4. s[k] \in Frames(a) /\ v[k] \in Frames(b) /\ Alike(a, s[k], v[k]) /\ <<s[k].type, f.field, f.type>> \in EmbeddedIn
      BY <1>4, <2>1
    <2> HIDE DEF k, f, h
    <2>5. Alike(a, u[k], w[k]) /\ u[k].type = s[k].type /\ u[k].field = s[k].field
      <3> DEFINE below == s[k]
                 under == v[k]
      <3> HIDE DEF below, under
      <3>1. ASSUME NEW x, NEW y, TakesOver(a, below, f, x), TakesOver(b, under, h, y)
            PROVE  Alike(a, x, y) /\ x.type = below.type /\ x.field = below.field
        <4>1. below \in Frames(a) /\ under \in Frames(b) /\ Alike(a, below, under)
          BY <2>4 DEF below, under
        <4>2. <<below.type, f.field, f.type>> \in EmbeddedIn
          BY <2>4 DEF below
        <4> QED BY <1>5, <3>1, <4>1, <4>2, LeavesAgree DEF b
      <3> QED BY <2>3, <3>1 DEF below, under
    <2>6. LockTo(a, u, w, k)
      <3> HIDE DEF s, v, u, w
      <3> QED BY <1>3, <2>1, <2>3, <2>5, LockReplace
    <2> QED BY <2>3, <2>6 DEF Lockstep
  <1> QED BY <1>6, <1>9, <1>10, <1>11, <1>12, <1>13, <1>14 DEF RoundsAgree

-----------------------------------------------------------------------------
(* The codecs decode one after the other, so a decoder is in lockstep with  *)
(* one that another codec had before.                                       *)

\* From decoder d codec c gets to decoder e: d is in every set of decoders that
\* has e and whatever steps into it.
ClosedBack(c, t, S) == \A x, y \in Decoders(c, t) : DecoderStep(c, x, y) /\ y \in S => x \in S
Leads(c, t, d, e) == \A S \in SUBSET Decoders(c, t) : e \in S /\ ClosedBack(c, t, S) => d \in S

LEMMA LeadsSelf ==
    ASSUME NEW c, NEW t, NEW d
    PROVE  Leads(c, t, d, d)
  BY DEF Leads

LEMMA LeadsOn ==
    ASSUME NEW c, NEW t, NEW d, NEW e \in Decoders(c, t), NEW e2 \in Decoders(c, t),
           Leads(c, t, d, e), DecoderStep(c, e, e2)
    PROVE  Leads(c, t, d, e2)
  <1> SUFFICES ASSUME NEW S \in SUBSET Decoders(c, t), e2 \in S, ClosedBack(c, t, S)
               PROVE  d \in S
    BY DEF Leads
  <1>1. e \in S
    BY DEF ClosedBack
  <1> QED BY <1>1 DEF Leads

LEMMA LeadsFirst ==
    ASSUME NEW c, NEW t, NEW d, NEW e \in Decoders(c, t), Leads(c, t, d, e), d # e
    PROVE  \E x \in Decoders(c, t) : DecoderStep(c, d, x) /\ Leads(c, t, x, e)
  <1> DEFINE Goes1(x) == \E y \in Decoders(c, t) : DecoderStep(c, x, y) /\ Leads(c, t, y, e)
             S == {x \in Decoders(c, t) : x = e \/ Goes1(x)}
  <1>1. ASSUME NEW x \in Decoders(c, t), NEW y \in Decoders(c, t), DecoderStep(c, x, y), y \in S
        PROVE  x \in S
    <2>1. CASE y = e
      <3>1. Leads(c, t, y, e)
        BY <2>1, LeadsSelf
      <3> QED BY <1>1, <3>1
    <2>2. CASE y # e
      <3>1. PICK z \in Decoders(c, t) : DecoderStep(c, y, z) /\ Leads(c, t, z, e)
        BY <1>1, <2>2
      <3>2. Leads(c, t, y, e)
        <4> SUFFICES ASSUME NEW U \in SUBSET Decoders(c, t), e \in U, ClosedBack(c, t, U)
                     PROVE  y \in U
          BY DEF Leads
        <4>1. z \in U
          BY <3>1 DEF Leads
        <4> QED BY <3>1, <4>1 DEF ClosedBack
      <3> QED BY <1>1, <3>2
    <2> QED BY <2>1, <2>2
  <1> HIDE DEF Goes1
  <1>2. S \in SUBSET Decoders(c, t) /\ e \in S
    OBVIOUS
  <1>3. ClosedBack(c, t, S)
    <2> HIDE DEF S
    <2> QED BY <1>1 DEF ClosedBack
  <1>4. d \in S
    <2> HIDE DEF S
    <2> QED BY <1>2, <1>3 DEF Leads
  <1> QED BY <1>4 DEF Goes1

\* A decoder that does not read gets nowhere.
LEMMA LeadsNowhere ==
    ASSUME NEW c, NEW t, NEW d, NEW e \in Decoders(c, t), Leads(c, t, d, e), d.state # "reading"
    PROVE  d = e
  BY LeadsFirst DEF DecoderStep, DecoderStepAt

\* The decoder p of the other codec is in lockstep with one that leads to g, or gogo
\* has found no number where one should be.
Paired(a, t, g, p) ==
    \/ \E d \in Decoders(a, t) : Leads(a, t, d, g) /\ Lockstep(a, d, p)
    \/ a = "gogo" /\ g.state = "error" /\ t \in NumberTypes

AgreeInv == \A a \in {"gogo", "pulsar"} \cap Codecs(type) : Paired(a, type, dec[a], dec[Other(a)])

LEMMA OtherCodec ==
    ASSUME NEW t \in MessageTypes, NEW a \in {"gogo", "pulsar"} \cap Codecs(t)
    PROVE  /\ Other(a) \in Codecs(t) /\ Other(a) # a /\ a \in {"gogo", "pulsar"} /\ a \in AllCodecs
           /\ t \in Types(a) /\ t \notin {"Coin", "RegistryEntry"}
           /\ a \in Earlier[Other(a)] \cap Codecs(t)
  <1>1. a \in AllCodecs /\ t \in Types(a) /\ t \notin {"Coin", "RegistryEntry"}
    BY CodecFacts
  <1>2. Other(a) \in Codecs(t) /\ Other(a) # a /\ a \in Earlier[Other(a)]
    BY DEF Other, Codecs, Earlier
  <1> QED BY <1>1, <1>2

\* Decoders start paired.
LEMMA StartPaired ==
    ASSUME NEW t \in MessageTypes, NEW a \in {"gogo", "pulsar"} \cap Codecs(t), NEW b \in Slices
    PROVE  Paired(a, t, Start(a, t, b), Start(Other(a), t, b))
  <1>1. Other(a) \in Codecs(t) /\ t \in Types(a) /\ a \in {"gogo", "pulsar"}
    BY OtherCodec
  <1> DEFINE f == Frame(t, b, 0, Len(b), Zero(a, t), "none")
             h == Frame(t, b, 0, Len(b), Zero(Other(a), t), "none")
             g == Start(a, t, b)
             p == Start(Other(a), t, b)
  <1>2. Agrees(a, t, Zero(a, t), Zero(Other(a), t))
    BY <1>1, ZeroAgrees
  <1>3. Alike(a, f, h)
    BY <1>2 DEF Alike, Frame
  <1>4. g \in Decoders(a, t)
    BY StartType
  <1>5. g.stack = <<f>> /\ g.state = "reading" /\ p.stack = <<h>> /\ p.state = "reading"
    BY DEF Start
  <1> HIDE DEF f, h
  <1>6. LockTo(a, <<f>>, <<h>>, 1)
    BY <1>3 DEF LockTo
  <1> HIDE DEF g, p
  <1>7. Lockstep(a, g, p)
    BY <1>5, <1>6 DEF Lockstep
  <1> QED BY <1>4, <1>7, LeadsSelf DEF Paired, g, p

\* The first codec of a pair decodes.
LEMMA FirstPaired ==
    ASSUME NEW a, NEW t, NEW g \in Decoders(a, t), NEW p, Paired(a, t, g, p),
           NEW g2 \in Decoders(a, t), DecoderStep(a, g, g2)
    PROVE  Paired(a, t, g2, p)
  <1>1. g.state = "reading"
    BY DEF DecoderStep, DecoderStepAt
  <1>2. PICK d \in Decoders(a, t) : Leads(a, t, d, g) /\ Lockstep(a, d, p)
    BY <1>1 DEF Paired
  <1>3. Leads(a, t, d, g2)
    BY <1>2, LeadsOn
  <1> QED BY <1>2, <1>3 DEF Paired

\* The second one does, when the first is done.
LEMMA SecondPaired ==
    ASSUME NEW a \in {"gogo", "pulsar"}, NEW t, t \notin {"Coin", "RegistryEntry"},
           NEW g \in Decoders(a, t), NEW p \in Decoders(Other(a), t), Paired(a, t, g, p),
           g.state # "reading", NEW p2, DecoderStep(Other(a), p, p2)
    PROVE  Paired(a, t, g, p2)
  <1>1. CASE a = "gogo" /\ g.state = "error" /\ t \in NumberTypes
    BY <1>1 DEF Paired
  <1>2. CASE ~(a = "gogo" /\ g.state = "error" /\ t \in NumberTypes)
    <2>1. PICK d \in Decoders(a, t) : Leads(a, t, d, g) /\ Lockstep(a, d, p)
      BY <1>2 DEF Paired
    <2>2. d # g
      BY <2>1 DEF DecoderStep, DecoderStepAt, Lockstep
    <2>3. PICK d2 \in Decoders(a, t) : DecoderStep(a, d, d2) /\ Leads(a, t, d2, g)
      BY <2>1, <2>2, LeadsFirst
    <2>4. Lockstep(a, d2, p2) \/ (a = "gogo" /\ d2.state = "error" /\ t \in NumberTypes)
      BY <2>1, <2>3, LockstepSteps
    <2>5. CASE Lockstep(a, d2, p2)
      BY <2>3, <2>5 DEF Paired
    <2>6. CASE a = "gogo" /\ d2.state = "error" /\ t \in NumberTypes
      <3>1. d2 = g
        BY <2>3, <2>6, LeadsNowhere
      <3> QED BY <2>6, <3>1 DEF Paired
    <2> QED BY <2>4, <2>5, <2>6
  <1> QED BY <1>1, <1>2

LEMMA InitAgree ==
    ASSUME Init
    PROVE  AgreeInv
  <1>1. type \in MessageTypes /\ wire \in Slices
    BY InputsAssumption DEF Init, Slices, Str
  <1>2. \A c \in Codecs(type) : dec[c] = Start(c, type, wire)
    BY DEF Init
  <1> SUFFICES ASSUME NEW a \in {"gogo", "pulsar"} \cap Codecs(type)
               PROVE  Paired(a, type, dec[a], dec[Other(a)])
    BY DEF AgreeInv
  <1>3. dec[a] = Start(a, type, wire) /\ dec[Other(a)] = Start(Other(a), type, wire)
    BY <1>1, <1>2, OtherCodec
  <1> QED BY <1>1, <1>3, StartPaired

LEMMA DecodeAgrees ==
    ASSUME CodecInv, AgreeInv, NEW c \in Codecs(type), Decode(c)
    PROVE  AgreeInv'
  <1>1. /\ type' = type /\ dec'[c] \in Decoders(c, type)
        /\ \A x \in Codecs(type) \ {c} : dec'[x] = dec[x]
    BY DecodeSteps DEF Stepped
  <1>2. DecoderStep(c, dec[c], dec'[c])
    BY DecodeIs
  <1>3. type \in MessageTypes /\ \A x \in Codecs(type) : dec[x] \in Decoders(x, type)
    BY DEF CodecInv
  <1>4. Reads(c)
    BY DEF Decode, ReadField, EnterMessage, SkipField, Fail, LeaveMessage, InLoop
  <1>5. ASSUME NEW a \in {"gogo", "pulsar"} \cap Codecs(type)
        PROVE  Paired(a, type, dec'[a], dec'[Other(a)])
    <2> DEFINE b == Other(a)
    <2>1. /\ b \in Codecs(type) /\ b # a /\ a \in {"gogo", "pulsar"}
          /\ type \notin {"Coin", "RegistryEntry"} /\ a \in Earlier[b] \cap Codecs(type)
      BY <1>3, OtherCodec
    <2>2. Paired(a, type, dec[a], dec[b])
      BY DEF AgreeInv
    <2>3. dec[a] \in Decoders(a, type) /\ dec[b] \in Decoders(b, type)
      BY <1>3, <2>1
    <2>4. CASE c = a
      <3>1. dec'[b] = dec[b]
        BY <1>1, <2>1, <2>4
      <3> QED BY <1>1, <1>2, <2>2, <2>3, <2>4, <3>1, FirstPaired
    <2>5. CASE c = b
      <3>1. dec'[a] = dec[a] /\ dec[a].state # "reading"
        BY <1>1, <1>4, <2>1, <2>5 DEF Reads
      <3> QED BY <1>2, <2>1, <2>2, <2>3, <2>5, <3>1, SecondPaired
    <2>6. CASE c # a /\ c # b
      <3>1. dec'[a] = dec[a] /\ dec'[b] = dec[b]
        BY <1>1, <2>1, <2>6
      <3> QED BY <2>2, <3>1
    <2> QED BY <2>4, <2>5, <2>6
  <1> QED BY <1>1, <1>5 DEF AgreeInv

LEMMA EncodeAgrees ==
    ASSUME CodecInv, NEW c \in Codecs(type), Encode(c)
    PROVE  AgreeInv'
  <1> DEFINE m == Message(dec[c])
  <1>1. type \in MessageTypes /\ type' = type
    BY DEF CodecInv, Encode
  <1>2. m \in Messages(c, type)
    BY MessageType
  <1> HIDE DEF m
  <1>3. PICK b \in Encodings(c, type, m) : dec' = [d \in Codecs(type) |-> Start(d, type, b)]
    BY DEF Encode, m
  <1>4. b \in Slices
    BY <1>1, <1>2, EncodingsSized
  <1>5. ASSUME NEW a \in {"gogo", "pulsar"} \cap Codecs(type)
        PROVE  Paired(a, type, dec'[a], dec'[Other(a)])
    <2>1. dec'[a] = Start(a, type, b) /\ dec'[Other(a)] = Start(Other(a), type, b)
      BY <1>1, <1>3, OtherCodec
    <2> QED BY <1>1, <1>4, <2>1, StartPaired
  <1> QED BY <1>1, <1>5 DEF AgreeInv

LEMMA NextAgree ==
    ASSUME CodecInv, AgreeInv, [Next]_vars
    PROVE  AgreeInv'
  <1>1. ASSUME Rest \/ UNCHANGED vars PROVE AgreeInv'
    BY <1>1 DEF Rest, vars, AgreeInv
  <1> QED BY <1>1, DecodeAgrees, EncodeAgrees DEF Next

-----------------------------------------------------------------------------
(* A message without its unknown fields is the one that Stripped gives. *)

BareCoins(p) == IF p = <<>> THEN p ELSE <<[p[1] EXCEPT !.unknown = <<>>]>>
BareParams(y) ==
    [y EXCEPT !.unknown = <<>>, !.reserveFee = BareCoins(@), !.minBidIncrement = BareCoins(@)]
BareParamsAt(p) == IF p = <<>> THEN p ELSE <<BareParams(p[1])>>

LEMMA StrippedOn ==
    ASSUME NEW x
    PROVE  /\ Stripped("Params", x) = BareParams(x)
           /\ Stripped("MsgAuctionBid", x) = [x EXCEPT !.unknown = <<>>, !.bid = BareCoins(@)]
           /\ \A t \in WithParams : Stripped(t, x) = [x EXCEPT !.unknown = <<>>, !.params = BareParamsAt(@)]
           /\ \A t : t \notin WithParams \cup {"Params", "MsgAuctionBid"} =>
                 Stripped(t, x) = [x EXCEPT !.unknown = <<>>]
  BY DEF Stripped, BareParams, BareCoins, BareParamsAt, WithParams

LEMMA PtrCases ==
    ASSUME NEW S, NEW p \in Ptr(S), p # <<>>
    PROVE  p[1] \in S /\ p = <<p[1]>>
  BY DEF Ptr

LEMMA CoinStripped ==
    ASSUME NEW m \in PulsarCoins, NEW x \in PulsarCoins, StrippedCoin(m, x)
    PROVE  x = [m EXCEPT !.unknown = <<>>]
  BY DEF StrippedCoin, PulsarCoins

LEMMA CoinsStripped ==
    ASSUME NEW p \in Ptr(PulsarCoins), NEW q \in Ptr(PulsarCoins), StrippedCoins(p, q)
    PROVE  q = BareCoins(p)
  <1>1. CASE p = <<>>
    BY <1>1 DEF StrippedCoins, BareCoins
  <1>2. CASE p # <<>>
    <2>1. q # <<>> /\ StrippedCoin(p[1], q[1])
      BY <1>2 DEF StrippedCoins
    <2>2. p[1] \in PulsarCoins /\ q[1] \in PulsarCoins /\ q = <<q[1]>>
      BY <1>2, <2>1, PtrCases
    <2>3. q[1] = [p[1] EXCEPT !.unknown = <<>>]
      BY <2>1, <2>2, CoinStripped
    <2> QED BY <1>2, <2>2, <2>3 DEF BareCoins
  <1> QED BY <1>1, <1>2

LEMMA ParamsStripped ==
    ASSUME NEW m \in PulsarParams, NEW x \in PulsarParams, StrippedParams(m, x)
    PROVE  x = BareParams(m)
  <1>1. /\ m.reserveFee \in Ptr(PulsarCoins) /\ m.minBidIncrement \in Ptr(PulsarCoins)
        /\ x.reserveFee \in Ptr(PulsarCoins) /\ x.minBidIncrement \in Ptr(PulsarCoins)
    BY DEF PulsarParams
  <1>2. x.reserveFee = BareCoins(m.reserveFee) /\ x.minBidIncrement = BareCoins(m.minBidIncrement)
    BY <1>1, CoinsStripped DEF StrippedParams
  <1> QED BY <1>2 DEF StrippedParams, BareParams, PulsarParams

LEMMA ParamsAtStripped ==
    ASSUME NEW p \in Ptr(PulsarParams), NEW q \in Ptr(PulsarParams), StrippedParamsAt(p, q)
    PROVE  q = BareParamsAt(p)
  <1>1. CASE p = <<>>
    BY <1>1 DEF StrippedParamsAt, BareParamsAt
  <1>2. CASE p # <<>>
    <2>1. q # <<>> /\ StrippedParams(p[1], q[1])
      BY <1>2 DEF StrippedParamsAt
    <2>2. p[1] \in PulsarParams /\ q[1] \in PulsarParams /\ q = <<q[1]>>
      BY <1>2, <2>1, PtrCases
    <2>3. q[1] = BareParams(p[1])
      BY <2>1, <2>2, ParamsStripped
    <2> QED BY <1>2, <2>2, <2>3 DEF BareParamsAt
  <1> QED BY <1>1, <1>2

LEMMA IsStrippedIs ==
    ASSUME NEW t \in DOMAIN PulsarMessages, t \notin {"Coin", "RegistryEntry"},
           NEW m \in PulsarMessages[t], NEW x \in PulsarMessages[t], IsStripped(t, m, x)
    PROVE  x = Stripped(t, m)
  <1>1. CASE t = "Params"
    <2>1. m \in PulsarParams /\ x \in PulsarParams /\ StrippedParams(m, x)
      BY <1>1, PulsarTypes DEF IsStripped, WithParams
    <2> QED BY <1>1, <2>1, ParamsStripped, StrippedOn
  <1>2. CASE t = "MsgAuctionBid"
    <2> DEFINE S == [bidder : Str, bid : Ptr(PulsarCoins), transactions : Seq(Str), unknown : Str]
    <2>1. m \in S /\ x \in S
      BY <1>2 DEF PulsarMessages
    <2>2. x.bidder = m.bidder /\ StrippedCoins(m.bid, x.bid) /\ x.transactions = m.transactions /\ x.unknown = <<>>
      BY <1>2 DEF IsStripped, WithParams
    <2>3. x.bid = BareCoins(m.bid)
      BY <2>1, <2>2, CoinsStripped
    <2>4. x = [m EXCEPT !.unknown = <<>>, !.bid = BareCoins(@)]
      BY <2>1, <2>2, <2>3
    <2> QED BY <1>2, <2>4, StrippedOn
  <1>3. CASE t = "MsgUpdateParams"
    <2> DEFINE S == [authority : Str, params : Ptr(PulsarParams), unknown : Str]
    <2>1. m \in S /\ x \in S
      BY <1>3 DEF PulsarMessages
    <2>2. x.authority = m.authority /\ StrippedParamsAt(m.params, x.params) /\ x.unknown = <<>>
      BY <1>3 DEF IsStripped, WithParams
    <2>3. x.params = BareParamsAt(m.params)
      BY <2>1, <2>2, ParamsAtStripped
    <2>4. x = [m EXCEPT !.unknown = <<>>, !.params = BareParamsAt(@)]
      BY <2>1, <2>2, <2>3
    <2> QED BY <1>3, <2>4, StrippedOn DEF WithParams
  <1>4. CASE t \in {"GenesisState", "QueryParamsResponse"}
    <2> DEFINE S == [params : Ptr(PulsarParams), unknown : Str]
    <2>1. m \in S /\ x \in S
      <3>1. CASE t = "GenesisState"
        BY <3>1 DEF PulsarMessages
      <3>2. CASE t = "QueryParamsResponse"
        BY <3>2 DEF PulsarMessages
      <3> QED BY <1>4, <3>1, <3>2
    <2>2. StrippedParamsAt(m.params, x.params) /\ x.unknown = <<>>
      BY <1>4 DEF IsStripped, WithParams
    <2>3. x.params = BareParamsAt(m.params)
      BY <2>1, <2>2, ParamsAtStripped
    <2>4. x = [m EXCEPT !.unknown = <<>>, !.params = BareParamsAt(@)]
      BY <2>1, <2>2, <2>3
    <2> QED BY <1>4, <2>4, StrippedOn DEF WithParams
  <1>5. CASE t = "Module"
    <2> DEFINE S == [authority : Str, unknown : Str]
    <2>1. m \in S /\ x \in S
      BY <1>5 DEF PulsarMessages
    <2>2. x.authority = m.authority /\ x.unknown = <<>>
      BY <1>5 DEF IsStripped, WithParams
    <2>3. x = [m EXCEPT !.unknown = <<>>]
      BY <2>1, <2>2
    <2> QED BY <1>5, <2>3, StrippedOn DEF WithParams
  <1>6. CASE t = "AuctionInfo"
    <2> DEFINE S == [extendedCommitInfo : Str, maxTxBytes : SignedWord, numTxs : Word, unknown : Str]
    <2>1. m \in S /\ x \in S
      BY <1>6 DEF PulsarMessages
    <2>2. /\ x.extendedCommitInfo = m.extendedCommitInfo /\ x.maxTxBytes = m.maxTxBytes
          /\ x.numTxs = m.numTxs /\ x.unknown = <<>>
      BY <1>6 DEF IsStripped, WithParams
    <2>3. x = [m EXCEPT !.unknown = <<>>]
      BY <2>1, <2>2
    <2> QED BY <1>6, <2>3, StrippedOn DEF WithParams
  <1>7. CASE t = "VoteExtensionInfo"
    <2> DEFINE S == [registry : Registries, unknown : Str]
    <2>1. m \in S /\ x \in S
      BY <1>7 DEF PulsarMessages
    <2>2. x.registry = m.registry /\ x.unknown = <<>>
      BY <1>7 DEF IsStripped, WithParams
    <2>3. x = [m EXCEPT !.unknown = <<>>]
      BY <2>1, <2>2
    <2> QED BY <1>7, <2>3, StrippedOn DEF WithParams
  <1>8. CASE t \in {"MsgAuctionBidResponse", "MsgUpdateParamsResponse", "QueryParamsRequest"}
    <2> DEFINE S == [unknown : Str]
    <2>1. m \in S /\ x \in S
      <3>1. CASE t = "MsgAuctionBidResponse"
        BY <3>1 DEF PulsarMessages
      <3>2. CASE t = "MsgUpdateParamsResponse"
        BY <3>2 DEF PulsarMessages
      <3>3. CASE t = "QueryParamsRequest"
        BY <3>3 DEF PulsarMessages
      <3> QED BY <1>8, <3>1, <3>2, <3>3
    <2>2. x.unknown = <<>>
      BY <1>8 DEF IsStripped, WithParams
    <2>3. x = [m EXCEPT !.unknown = <<>>]
      BY <2>1, <2>2
    <2> QED BY <1>8, <2>3, StrippedOn DEF WithParams
  <1> QED BY <1>1, <1>2, <1>3, <1>4, <1>5, <1>6, <1>7, <1>8, PulsarTypes

\* What a pair of finished decoders comes to.
LEMMA PairDone ==
    ASSUME NEW a \in {"gogo", "pulsar"}, NEW t, NEW g \in Decoders(a, t), NEW p, Paired(a, t, g, p),
           p.state # "reading"
    PROVE  \/ p.state = g.state /\ Agrees(a, t, Message(g), Message(p))
           \/ a = "gogo" /\ g.state = "error" /\ t \in NumberTypes
  <1>1. CASE a = "gogo" /\ g.state = "error" /\ t \in NumberTypes
    BY <1>1
  <1>2. CASE ~(a = "gogo" /\ g.state = "error" /\ t \in NumberTypes)
    <2>1. PICK d \in Decoders(a, t) : Leads(a, t, d, g) /\ Lockstep(a, d, p)
      BY <1>2 DEF Paired
    <2>2. d = g
      BY <2>1, LeadsNowhere DEF Lockstep
    <2>3. g.stack \in Stacks(a) /\ g.stack[1].type = t
      BY DEF Decoders
    <2>4. 1 \in 1 .. Len(g.stack)
      BY <2>3, StackFacts
    <2>5. Alike(a, g.stack[1], p.stack[1]) /\ p.state = g.state
      BY <2>1, <2>2, <2>4 DEF Lockstep, LockTo
    <2> QED BY <2>3, <2>5 DEF Alike, Message
  <1> QED BY <1>1, <1>2

\* Of every input, whatever the order and repetition of its fields: what gogo accepts
\* pulsar accepts and reads alike, what only pulsar accepts has a number in it, and
\* a client that discards unknown fields accepts the same and differs only in those.
THEOREM CodecsUnderstandAlike == Spec => []CodecsAgree
  <1>1. ASSUME CodecInv, AgreeInv PROVE CodecsAgree
    <2> SUFFICES ASSUME AllDone
                 PROVE  /\ "gogo" \in Codecs(type) =>
                               IF dec["gogo"].state = "ok"
                               THEN /\ dec["pulsar"].state = "ok"
                                    /\ MessagesAgree(type, Message(dec["gogo"]), Message(dec["pulsar"]))
                               ELSE dec["pulsar"].state = "ok" => type \in WithParams \cup {"Params", "MsgAuctionBid"}
                        /\ dec["pulsar"].state = dec["discard"].state
                        /\ dec["pulsar"].state = "ok" =>
                               Message(dec["discard"]) = Stripped(type, Message(dec["pulsar"]))
      BY DEF CodecsAgree
    <2>1. type \in MessageTypes /\ \A c \in Codecs(type) : dec[c] \in Decoders(c, type)
      BY <1>1 DEF CodecInv
    <2>2. {"pulsar", "discard"} \subseteq Codecs(type)
      BY DEF Codecs
    <2>3. type \in DOMAIN PulsarMessages /\ type \notin {"Coin", "RegistryEntry"}
      BY <2>1, <2>2, CodecFacts DEF Types
    <2>4. \A c \in Codecs(type) : dec[c].state # "reading"
      BY DEF AllDone
    <2>5. ASSUME "gogo" \in Codecs(type)
          PROVE  IF dec["gogo"].state = "ok"
                 THEN /\ dec["pulsar"].state = "ok"
                      /\ MessagesAgree(type, Message(dec["gogo"]), Message(dec["pulsar"]))
                 ELSE dec["pulsar"].state = "ok" => type \in WithParams \cup {"Params", "MsgAuctionBid"}
      <3>1. Paired("gogo", type, dec["gogo"], dec["pulsar"])
        BY <1>1, <2>5 DEF AgreeInv, Other
      <3>2. \/ dec["pulsar"].state = dec["gogo"].state
               /\ Agrees("gogo", type, Message(dec["gogo"]), Message(dec["pulsar"]))
            \/ dec["gogo"].state = "error" /\ type \in NumberTypes
        BY <2>1, <2>2, <2>4, <2>5, <3>1, PairDone
      <3>3. Agrees("gogo", type, Message(dec["gogo"]), Message(dec["pulsar"])) =>
                MessagesAgree(type, Message(dec["gogo"]), Message(dec["pulsar"]))
        BY <2>3 DEF Agrees, GogoAgrees
      <3> QED BY <3>2, <3>3 DEF NumberTypes
    <2>6. Paired("pulsar", type, dec["pulsar"], dec["discard"])
      BY <1>1, <2>2 DEF AgreeInv, Other
    <2>7. /\ dec["discard"].state = dec["pulsar"].state
          /\ IsStripped(type, Message(dec["pulsar"]), Message(dec["discard"]))
      <3>1. /\ dec["discard"].state = dec["pulsar"].state
            /\ Agrees("pulsar", type, Message(dec["pulsar"]), Message(dec["discard"]))
        BY <2>1, <2>2, <2>4, <2>6, PairDone
      <3> QED BY <3>1 DEF Agrees
    <2>8. Message(dec["pulsar"]) \in PulsarMessages[type] /\ Message(dec["discard"]) \in PulsarMessages[type]
      BY <1>1, <2>2, MessageType DEF Messages
    <2>9. Message(dec["discard"]) = Stripped(type, Message(dec["pulsar"]))
      BY <2>3, <2>7, <2>8, IsStrippedIs
    <2> QED BY <2>5, <2>7, <2>9
  <1>2. Spec => []AgreeInv
    <2>1. Init => AgreeInv
      BY InitAgree
    <2>2. CodecInv /\ AgreeInv /\ [Next]_vars => AgreeInv'
      BY NextAgree
    <2> QED BY <2>1, <2>2, CodecTypes, PTL DEF Spec
  <1> QED BY <1>1, <1>2, CodecTypes, PTL

-----------------------------------------------------------------------------
(* What a decoder makes of bytes that an encoder has written. *)

\* The bytes s stand at position i of b.
Holds(b, i, s) == i + Len(s) <= Len(b) /\ \A j \in 1 .. Len(s) : b[i + j] = s[j]

LEMMA StrConcat ==
    ASSUME NEW s \in Str, NEW u \in Str
    PROVE  /\ s \o u \in Str /\ Len(s \o u) = Len(s) + Len(u) /\ Len(s) \in Nat /\ Len(u) \in Nat
           /\ \A j \in 1 .. Len(s) : (s \o u)[j] = s[j]
           /\ \A j \in 1 .. Len(u) : (s \o u)[Len(s) + j] = u[j]
  BY DEF Str

LEMMA HoldsParts ==
    ASSUME NEW b \in Str, NEW i \in Nat, NEW s \in Str, NEW u \in Str, Holds(b, i, s \o u)
    PROVE  Holds(b, i, s) /\ Holds(b, i + Len(s), u) /\ Len(s) \in Nat /\ Len(u) \in Nat
  <1>1. /\ Len(s \o u) = Len(s) + Len(u) /\ Len(s) \in Nat /\ Len(u) \in Nat /\ Len(b) \in Nat
        /\ \A j \in 1 .. Len(s) : (s \o u)[j] = s[j]
        /\ \A j \in 1 .. Len(u) : (s \o u)[Len(s) + j] = u[j]
    BY StrConcat DEF Str
  <1>2. i + (Len(s) + Len(u)) <= Len(b)
    BY <1>1 DEF Holds
  <1>3. ASSUME NEW j \in 1 .. Len(s) PROVE b[i + j] = s[j]
    <2>1. j \in 1 .. Len(s \o u)
      BY <1>1
    <2> QED BY <1>1, <2>1 DEF Holds
  <1>4. ASSUME NEW j \in 1 .. Len(u) PROVE b[(i + Len(s)) + j] = u[j]
    <2>1. Len(s) + j \in 1 .. Len(s \o u) /\ i + (Len(s) + j) = (i + Len(s)) + j
      BY <1>1
    <2> QED BY <1>1, <2>1 DEF Holds
  <1> QED BY <1>1, <1>2, <1>3, <1>4 DEF Holds

\* Shifting by seven bits.
LEMMA Pow2Shift ==
    ASSUME NEW n \in 0 .. WordSize - 7
    PROVE  Pow2[n + 7] = 128 * Pow2[n] /\ Pow2[n] \in Nat
  <1>1. \A k \in 1 .. WordSize : Pow2[k] = 2 * Pow2[k - 1]
    BY Pow2Facts
  <1>2. WordSize \in Nat /\ n \in Nat
    BY WordFacts
  <1>3. /\ Pow2[n + 1] = 2 * Pow2[n] /\ Pow2[n + 2] = 2 * Pow2[n + 1] /\ Pow2[n + 3] = 2 * Pow2[n + 2]
        /\ Pow2[n + 4] = 2 * Pow2[n + 3]
    BY <1>1, <1>2
  <1>4. /\ Pow2[n + 5] = 2 * Pow2[n + 4] /\ Pow2[n + 6] = 2 * Pow2[n + 5] /\ Pow2[n + 7] = 2 * Pow2[n + 6]
    BY <1>1, <1>2
  <1>5. Pow2[n] \in Nat
    BY <1>2, Pow2Facts
  <1> QED BY <1>3, <1>4, <1>5

\* The bits that the first k bytes of e carry.
Bits(e, j) == (e[j + 1] % 128) * Pow2[7 * j]
BitsTo(e, k) == SumFunction([j \in 0 .. k - 1 |-> Bits(e, j)])

LEMMA BitsType ==
    ASSUME NEW e \in Str, NEW j \in 0 .. Len(e) - 1, 7 * j <= WordSize
    PROVE  Bits(e, j) \in Nat
  <1>1. Len(e) \in Nat /\ j + 1 \in 1 .. Len(e) /\ j \in Nat
    BY DEF Str
  <1>2. e[j + 1] \in Byte
    BY <1>1 DEF Str
  <1>3. e[j + 1] % 128 \in Nat /\ 7 * j \in 0 .. WordSize
    <2>1. \A x \in Byte : x % 128 \in Nat
      BY DEF Byte
    <2>2. 7 * j \in 0 .. WordSize
      BY <1>1, WordFacts
    <2> QED BY <1>2, <2>1, <2>2
  <1>4. Pow2[7 * j] \in Nat
    BY <1>3, Pow2Facts
  <1>5. \A x, y \in Nat : x * y \in Nat
    OBVIOUS
  <1> QED BY <1>3, <1>4, <1>5 DEF Bits

LEMMA BitsMore ==
    ASSUME NEW e \in Str, NEW k \in 1 .. Len(e), 7 * (k - 1) <= WordSize
    PROVE  BitsTo(e, k) = Bits(e, k - 1) + BitsTo(e, k - 1) /\ BitsTo(e, k - 1) \in Nat
  <1> DEFINE D == 0 .. k - 1
             E == 0 .. (k - 1) - 1
             w == [j \in D |-> Bits(e, j)]
             v == [j \in E |-> Bits(e, j)]
  <1>1. Len(e) \in Nat /\ k \in Nat /\ WordSize \in Nat
    BY WordFacts DEF Str
  <1>2. \A j \in D : Bits(e, j) \in Nat
    <2> SUFFICES ASSUME NEW j \in D PROVE Bits(e, j) \in Nat
      OBVIOUS
    <2>1. j \in 0 .. Len(e) - 1 /\ 7 * j <= WordSize
      BY <1>1
    <2> QED BY <2>1, BitsType
  <1>3. E = D \ {k - 1} /\ k - 1 \in D /\ E \subseteq D
    BY <1>1
  <1>4. IsFiniteSet(D) /\ IsFiniteSet(E)
    <2>1. 0 \in Int /\ k - 1 \in Int /\ (k - 1) - 1 \in Int
      BY <1>1
    <2> QED BY <2>1, FS_Interval
  <1>5. w \in [D -> Nat] /\ v \in [E -> Nat] /\ w[k - 1] = Bits(e, k - 1) /\ \A y \in E : v[y] = w[y]
    <2> HIDE DEF D, E
    <2> QED BY <1>2, <1>3
  <1>6. SumFunction(w) = w[k - 1] + SumFunction(v) /\ SumFunction(v) \in Nat
    <2> HIDE DEF D, E, w, v
    <2>1. LessOne(D, w, k - 1, E, v)
      BY <1>3, <1>4, <1>5 DEF LessOne
    <2> QED BY <1>4, <1>5, <2>1, SumSplit, TotalType
  <1> QED BY <1>5, <1>6 DEF BitsTo

LEMMA BitsNone ==
    ASSUME NEW e
    PROVE  BitsTo(e, 0) = 0
  <1> DEFINE v == [j \in 0 .. 0 - 1 |-> Bits(e, j)]
  <1>1. 0 .. 0 - 1 = {}
    OBVIOUS
  <1>2. v \in [{} -> Nat]
    BY <1>1
  <1> HIDE DEF v
  <1>3. SumFunction(v) = 0
    BY <1>2, SumOfNone
  <1> QED BY <1>3 DEF BitsTo, v

LEMMA EncodeVarintLen ==
    ASSUME NEW x \in Nat
    PROVE  Len(EncodeVarint(x)) \in Nat /\ Len(EncodeVarint(x)) >= 1
  <1>1. CASE x < 128
    <2>1. EncodeVarint(x) = <<x>>
      BY <1>1, EncodeVarintFacts
    <2> QED BY <2>1
  <1>2. CASE x >= 128
    <2> DEFINE y == EncodeVarint(x \div 128)
               a == (x % 128) + 128
    <2>1. x \div 128 \in Nat /\ a \in Byte
      BY <1>2 DEF Byte
    <2>2. EncodeVarint(x) = <<a>> \o y /\ y \in Str
      BY <1>2, <2>1, EncodeVarintFacts
    <2> HIDE DEF y, a
    <2>3. <<a>> \in Str /\ Len(<<a>>) = 1
      BY <2>1 DEF Str
    <2>4. Len(<<a>> \o y) = 1 + Len(y) /\ Len(y) \in Nat
      BY <2>2, <2>3, StrConcat
    <2> QED BY <2>2, <2>4
  <1> QED BY <1>1, <1>2

\* The varint of v carries the bits of v, in no more bytes than a reader looks at.
LEMMA VarintDigits ==
    ASSUME NEW v \in Word, NEW e, e = EncodeVarint(v)
    PROVE  /\ e \in Str /\ Len(e) \in 1 .. (WordSize - 1) \div 7 + 1
           /\ \A j \in 1 .. Len(e) - 1 : e[j] >= 128
           /\ e[Len(e)] < 128
           /\ BitsTo(e, Len(e)) = v
  <1> DEFINE n == Len(e)
             top == (WordSize - 1) \div 7
             Rest1(k, w) ==
                 /\ Len(EncodeVarint(w)) = n - k
                 /\ \A j \in 1 .. n - k : e[k + j] = EncodeVarint(w)[j]
                 /\ v = BitsTo(e, k) + w * Pow2[7 * k]
                 /\ \A j \in 1 .. k : e[j] >= 128
             S == {k \in 0 .. n - 1 : \E w \in Nat : Rest1(k, w)}
  <1>1. v \in Nat
    BY MaxLenFacts DEF Word
  <1>2. e \in Str /\ n \in Nat /\ n >= 1 /\ n <= top + 1 /\ top \in Nat /\ 7 * top <= WordSize - 1
    <2>1. e \in Str /\ n \in Nat
      BY <1>1, EncodeVarintFacts, StrFacts
    <2>2. n = Sov(v) /\ BitLen(v) \in 1 .. WordSize
      BY SovExact, BitLenFacts
    <2>3. top \in Nat /\ 7 * top <= WordSize - 1
      BY VarintLength
    <2>4. (BitLen(v) + 6) \div 7 >= 1 /\ (BitLen(v) + 6) \div 7 <= top + 1
      <3> DEFINE x == BitLen(v)
      <3> HIDE DEF x
      <3>1. x \in 1 .. WordSize
        BY <2>2 DEF x
      <3> QED BY <3>1, WordSizeAssumption DEF x
    <2> QED BY <2>1, <2>2, <2>3, <2>4 DEF Sov
  <1> HIDE DEF top
  <1>3. 0 \in S
    <2>1. BitsTo(e, 0) = 0 /\ Pow2[7 * 0] = 1
      BY BitsNone, Pow2Facts
    <2>2. Rest1(0, v)
      BY <1>1, <1>2, <2>1
    <2> QED BY <1>1, <1>2, <2>2
  <1>4. ASSUME NEW k \in 1 .. n - 1, k - 1 \in S PROVE k \in S
    <2>1. PICK w \in Nat : Rest1(k - 1, w)
      BY <1>4
    <2> DEFINE z == EncodeVarint(w)
               p == Pow2[7 * (k - 1)]
               q == w \div 128
               y == EncodeVarint(q)
    <2>2. k \in Nat /\ Len(z) = n - k + 1 /\ n - k >= 1
      BY <1>2, <2>1
    <2>3. w >= 128
      <3> SUFFICES ASSUME w < 128 PROVE FALSE
        OBVIOUS
      <3>1. z = <<w>>
        BY EncodeVarintFacts
      <3>2. Len(z) = 1
        BY <3>1
      <3>3. n \in Int /\ k \in Int /\ n - k >= 1
        BY <1>2, <2>2
      <3>4. n - k + 1 # 1
        BY <3>3
      <3> QED BY <2>2, <3>2, <3>4
    <2>4. q \in Nat /\ w % 128 \in 0 .. 127 /\ w = (w % 128) + 128 * q
      OBVIOUS
    <2>5. z = <<(w % 128) + 128>> \o y /\ y \in Str
      BY <2>3, <2>4, EncodeVarintFacts
    <2>6. Len(y) \in Nat /\ Len(z) = Len(y) + 1 /\ z[1] = (w % 128) + 128 /\ \A j \in 1 .. Len(y) : z[j + 1] = y[j]
      <3> HIDE DEF y, z
      <3>1. (w % 128) + 128 \in Byte
        BY <2>4 DEF Byte
      <3> DEFINE a == (w % 128) + 128
      <3> HIDE DEF a
      <3>2. <<a>> \in Str /\ Len(<<a>>) = 1 /\ <<a>>[1] = a
        BY <3>1 DEF a, Str
      <3>3. Len(<<a>> \o y) = 1 + Len(y) /\ Len(y) \in Nat /\ (<<a>> \o y)[1] = a
            /\ \A j \in 1 .. Len(y) : (<<a>> \o y)[1 + j] = y[j]
        BY <2>5, <3>2, StrConcat
      <3> QED BY <2>5, <3>3 DEF a
    <2>7. e[k] = (w % 128) + 128 /\ \A j \in 1 .. n - k : e[k + j] = y[j]
      <3>1. \A j \in 1 .. n - (k - 1) : e[(k - 1) + j] = z[j]
        BY <2>1
      <3> HIDE DEF y, z, q
      <3>2. e[k] = z[1]
        <4>1. 1 \in 1 .. n - (k - 1) /\ (k - 1) + 1 = k
          BY <1>2, <2>2
        <4> QED BY <3>1, <4>1
      <3>3. ASSUME NEW j \in 1 .. n - k PROVE e[k + j] = y[j]
        <4>1. j + 1 \in 1 .. n - (k - 1) /\ (k - 1) + (j + 1) = k + j /\ j \in 1 .. Len(y)
          BY <1>2, <2>2, <2>6
        <4> QED BY <2>6, <3>1, <4>1
      <3> QED BY <2>6, <3>2, <3>3
    <2>8. Pow2[7 * k] = 128 * p /\ p \in Nat /\ 7 * (k - 1) <= WordSize
      <3>1. 7 * (k - 1) \in 0 .. WordSize - 7 /\ 7 * (k - 1) + 7 = 7 * k
        BY <1>2, <2>2, WordFacts
      <3> DEFINE x == 7 * (k - 1)
      <3>2. x \in 0 .. WordSize - 7 /\ x + 7 = 7 * k /\ x <= WordSize
        BY <3>1, WordFacts
      <3> HIDE DEF x
      <3>3. Pow2[x + 7] = 128 * Pow2[x] /\ Pow2[x] \in Nat
        BY <3>2, Pow2Shift
      <3> QED BY <3>2, <3>3 DEF x
    <2>9. BitsTo(e, k) = (w % 128) * p + BitsTo(e, k - 1) /\ BitsTo(e, k - 1) \in Nat
      <3>1. k \in 1 .. Len(e)
        BY <1>2
      <3>2. BitsTo(e, k) = Bits(e, k - 1) + BitsTo(e, k - 1) /\ BitsTo(e, k - 1) \in Nat
        BY <1>2, <2>8, <3>1, BitsMore
      <3>3. Bits(e, k - 1) = (w % 128) * p
        <4>1. (k - 1) + 1 = k
          BY <2>2
        <4>2. e[k] % 128 = w % 128
          BY <2>4, <2>7
        <4> QED BY <4>1, <4>2 DEF Bits
      <3> QED BY <3>2, <3>3
    <2>10. v = BitsTo(e, k) + q * Pow2[7 * k]
      <3>1. v = BitsTo(e, k - 1) + w * p
        BY <2>1
      <3> DEFINE r == w % 128
      <3>2. r \in Int /\ q \in Int /\ p \in Int /\ w = r + 128 * q
        BY <2>4, <2>8
      <3> HIDE DEF r, q, p
      <3>3. w * p = r * p + q * (128 * p)
        BY <3>2
      <3>4. r * p \in Int /\ q * (128 * p) \in Int
        BY <3>2
      <3> QED BY <2>8, <2>9, <3>1, <3>3, <3>4 DEF r
    <2>11. \A j \in 1 .. k : e[j] >= 128
      <3>1. e[k] >= 128
        BY <2>4, <2>7
      <3> QED BY <2>1, <2>2, <3>1
    <2>12. Rest1(k, q)
      BY <1>2, <2>2, <2>6, <2>7, <2>10, <2>11
    <2> QED BY <2>4, <2>12
  <1>5. \A k \in 0 .. n - 1 : k \in S
    <2>1. n - 1 \in Nat
      BY <1>2
    <2> HIDE DEF S, n
    <2> QED BY <1>3, <1>4, <2>1, IntervalInduction
  <1>6. PICK w \in Nat : Rest1(n - 1, w)
    <2>1. n - 1 \in 0 .. n - 1
      BY <1>2
    <2> QED BY <1>5, <2>1
  <1>7. w < 128 /\ e[n] = w
    <2>1. Len(EncodeVarint(w)) = 1 /\ e[n] = EncodeVarint(w)[1]
      <3>1. n - (n - 1) = 1 /\ (n - 1) + 1 = n /\ 1 \in 1 .. 1
        BY <1>2
      <3> QED BY <1>6, <3>1
    <2>2. ASSUME w >= 128 PROVE FALSE
      <3>1. w \div 128 \in Nat /\ (w % 128) + 128 \in Byte
        BY <2>2 DEF Byte
      <3> DEFINE y == EncodeVarint(w \div 128)
      <3>2. EncodeVarint(w) = <<(w % 128) + 128>> \o y
        BY <2>2, EncodeVarintFacts
      <3>3. y \in Str /\ Len(y) \in Nat
        BY <3>1, EncodeVarintFacts, StrFacts
      <3>4. Len(y) >= 1
        BY <3>1, <3>3, EncodeVarintLen
      <3> HIDE DEF y
      <3>5. Len(<<(w % 128) + 128>> \o y) = 1 + Len(y)
        BY <3>1, <3>3 DEF Str
      <3> QED BY <2>1, <3>2, <3>3, <3>4, <3>5
    <2>3. EncodeVarint(w) = <<w>>
      <3>1. w < 128
        BY <2>2
      <3> QED BY <3>1, EncodeVarintFacts
    <2> QED BY <2>1, <2>2, <2>3
  <1>8. BitsTo(e, n) = v
    <2>1. n \in 1 .. Len(e) /\ 7 * (n - 1) <= WordSize
      BY <1>2, WordFacts
    <2>2. BitsTo(e, n) = Bits(e, n - 1) + BitsTo(e, n - 1) /\ BitsTo(e, n - 1) \in Nat
      <3> HIDE DEF n
      <3> QED BY <1>2, <2>1, BitsMore
    <2>3. Bits(e, n - 1) = w * Pow2[7 * (n - 1)]
      <3>1. e[(n - 1) + 1] % 128 = w
        <4>1. (n - 1) + 1 = n
          BY <1>2
        <4> QED BY <1>7, <4>1
      <3> QED BY <3>1 DEF Bits
    <2>4. 7 * (n - 1) \in 0 .. WordSize
      BY <1>2, WordFacts
    <2>5. w * Pow2[7 * (n - 1)] \in Nat
      <3>1. Pow2[7 * (n - 1)] \in Nat
        BY <2>4, Pow2Facts
      <3>2. \A x, y \in Nat : x * y \in Nat
        OBVIOUS
      <3> QED BY <3>1, <3>2
    <2> QED BY <1>6, <2>2, <2>3, <2>5
  <1> QED BY <1>2, <1>6, <1>7, <1>8 DEF top

\* The varint at i ends with its byte k.
EndsAt(b, i, k) ==
    /\ k \in 0 .. (WordSize - 1) \div 7 /\ i + k < Len(b) /\ b[i + k + 1] < 128
    /\ \A j \in 0 .. k - 1 : ~(b[i + j + 1] < 128)
ValueTo(b, i, k) == Unsigned(SumFunction([j \in 0 .. k |-> (b[i + j + 1] % 128) * Pow2[7 * j]]), WordSize)

LEMMA ReadVarintIs ==
    ASSUME NEW b \in Str, NEW i \in Nat, NEW k, EndsAt(b, i, k)
    PROVE  ReadVarint(b, i) = [ok |-> TRUE, next |-> i + k + 1, val |-> ValueTo(b, i, k)]
  <1> DEFINE top == (WordSize - 1) \div 7
             lasts == {j \in 0 .. top : i + j < Len(b) /\ b[i + j + 1] < 128}
  <1>1. top \in Nat /\ Len(b) \in Nat
    BY VarintLength DEF Str
  <1>2. k \in lasts /\ k \in Nat /\ lasts # {}
    BY <1>1 DEF EndsAt
  <1>3. ASSUME NEW j \in lasts PROVE k <= j
    <2> SUFFICES ASSUME j < k PROVE FALSE
      BY <1>1, <1>2
    <2>1. j \in 0 .. k - 1
      BY <1>1, <1>2
    <2> QED BY <2>1 DEF EndsAt
  <1>4. Min(lasts) = k
    <2>1. lasts \subseteq Nat
      BY <1>1
    <2> HIDE DEF lasts
    <2>2. Min(lasts) = CHOOSE x \in lasts : \A y \in lasts : x <= y
      BY DEF Min
    <2>3. \A x \in lasts : (\A y \in lasts : x <= y) => x = k
      BY <1>2, <1>3, <2>1
    <2> QED BY <1>2, <1>3, <2>2, <2>3
  <1> HIDE DEF lasts
  <1>5. ReadVarint(b, i) =
            LET n == Min(lasts) IN [ok |-> TRUE, next |-> i + n + 1, val |-> ValueTo(b, i, n)]
    BY <1>2 DEF ReadVarint, ValueTo, lasts, top
  <1> QED BY <1>4, <1>5

\* What encodeVarintTx writes is read back.
LEMMA VarintRead ==
    ASSUME NEW b \in Str, NEW i \in Nat, NEW v \in Word, Holds(b, i, EncodeVarint(v))
    PROVE  /\ ReadVarint(b, i) = [ok |-> TRUE, next |-> i + Len(EncodeVarint(v)), val |-> v]
           /\ Len(EncodeVarint(v)) \in Nat /\ Len(EncodeVarint(v)) >= 1 /\ EncodeVarint(v) \in Str
  <1> DEFINE e == EncodeVarint(v)
             n == Len(e)
             k == n - 1
  <1>1. /\ e \in Str /\ n \in 1 .. (WordSize - 1) \div 7 + 1
        /\ \A j \in 1 .. n - 1 : e[j] >= 128
        /\ e[n] < 128
        /\ BitsTo(e, n) = v
    BY VarintDigits
  <1>2. n \in Nat /\ n >= 1 /\ k \in 0 .. (WordSize - 1) \div 7 /\ k \in Nat /\ k + 1 = n /\ Len(b) \in Nat
    BY <1>1, VarintLength DEF Str
  <1> HIDE DEF e, n, k
  <1>3. ASSUME NEW j \in 0 .. k PROVE b[i + j + 1] = e[j + 1] /\ e[j + 1] \in Nat
    <2>1. j + 1 \in 1 .. n /\ i + (j + 1) = i + j + 1
      BY <1>2
    <2>2. b[i + (j + 1)] = e[j + 1]
      BY <2>1 DEF Holds, e, n
    <2>3. e[j + 1] \in Byte
      BY <1>1, <2>1 DEF n, Str
    <2> QED BY <2>1, <2>2, <2>3 DEF Byte
  <1>4. EndsAt(b, i, k)
    <2>1. i + k < Len(b)
      BY <1>2 DEF Holds, e, n
    <2>2. b[i + k + 1] < 128
      <3>1. k \in 0 .. k
        BY <1>2
      <3>2. e[k + 1] < 128
        BY <1>1, <1>2
      <3> QED BY <1>3, <3>1, <3>2
    <2>3. ASSUME NEW j \in 0 .. k - 1 PROVE ~(b[i + j + 1] < 128)
      <3>1. j \in 0 .. k /\ j + 1 \in 1 .. n - 1
        BY <1>2
      <3>2. e[j + 1] >= 128 /\ e[j + 1] \in Nat
        BY <1>1, <1>3, <3>1
      <3> QED BY <1>3, <3>1, <3>2
    <2> QED BY <1>2, <2>1, <2>2, <2>3 DEF EndsAt
  <1>5. ValueTo(b, i, k) = v
    <2> DEFINE w == [j \in 0 .. k |-> (b[i + j + 1] % 128) * Pow2[7 * j]]
               u == [j \in 0 .. n - 1 |-> Bits(e, j)]
    <2>1. w = u
      <3>1. n - 1 = k
        BY <1>2
      <3> QED BY <1>3, <3>1 DEF Bits
    <2>2. SumFunction(w) = v
      <3> HIDE DEF w
      <3> QED BY <1>1, <2>1 DEF BitsTo
    <2>3. Unsigned(v, WordSize) = v
      <3>1. Pow2[WordSize] \in Nat /\ v \in 0 .. Pow2[WordSize] - 1
        BY WordFacts, Pow2Facts DEF Word
      <3> QED BY <3>1 DEF Unsigned
    <2> QED BY <2>2, <2>3 DEF ValueTo
  <1>6. ReadVarint(b, i) = [ok |-> TRUE, next |-> i + k + 1, val |-> ValueTo(b, i, k)]
    BY <1>4, ReadVarintIs
  <1>7. i + k + 1 = i + n
    BY <1>2
  <1> QED BY <1>1, <1>2, <1>5, <1>6, <1>7 DEF e, n

\* A tag of one byte is read back: its wire type and its field number.
LEMMA TagRead ==
    ASSUME NEW b \in Str, NEW i \in Nat, NEW tag \in 1 .. 127, Holds(b, i, <<tag>>)
    PROVE  ReadTag(b, i) = [ok |-> TRUE, next |-> i + 1, wireType |-> tag % 8, fieldNum |-> tag \div 8]
  <1>1. tag \in Word /\ tag \in Nat
    BY MaxLenFacts DEF Word
  <1>2. EncodeVarint(tag) = <<tag>>
    <2>1. tag < 128
      OBVIOUS
    <2> QED BY <1>1, <2>1, EncodeVarintFacts
  <1>3. Len(<<tag>>) = 1
    OBVIOUS
  <1>4. ReadVarint(b, i) = [ok |-> TRUE, next |-> i + 1, val |-> tag]
    BY <1>1, <1>2, <1>3, VarintRead
  <1>5. ToSigned(tag \div 8, HalfWord) = tag \div 8
    <2>1. HalfWord - 1 \in 7 .. WordSize /\ HalfWord \in 0 .. WordSize /\ HalfWord - 1 \in 0 .. WordSize
          /\ 7 \in 0 .. WordSize /\ HalfWord = (HalfWord - 1) + 1 /\ HalfWord \in 1 .. WordSize
      BY WordFacts
    <2>2. Pow2[7] = 128
      <3>1. Pow2[1] = 2 /\ Pow2[2] = 4 /\ Pow2[3] = 8 /\ Pow2[4] = 16 /\ Pow2[5] = 32 /\ Pow2[6] = 64 /\ Pow2[7] = 128
        BY WordFacts, Pow2Facts
      <3> QED BY <3>1
    <2>3. Pow2[7] <= Pow2[HalfWord - 1]
      BY <2>1, Pow2Grows
    <2>4. Pow2[HalfWord] = 2 * Pow2[HalfWord - 1] /\ Pow2[HalfWord - 1] \in Nat /\ Pow2[HalfWord] \in Nat
      BY <2>1, Pow2Facts
    <2>5. tag \div 8 \in 0 .. 15
      OBVIOUS
    <2> DEFINE x == tag \div 8
               h == Pow2[HalfWord - 1]
               p == Pow2[HalfWord]
    <2>6. x \in 0 .. 15 /\ h \in Nat /\ p \in Nat /\ h >= 128 /\ p = 2 * h
      BY <2>2, <2>3, <2>4, <2>5
    <2> HIDE DEF x, h, p
    <2>7. x % p = x /\ ~(x >= h)
      BY <2>6
    <2>8. ToSigned(x, HalfWord) = IF x % p >= h THEN (x % p) - p ELSE x % p
      BY DEF ToSigned, Unsigned, h, p
    <2> QED BY <2>7, <2>8 DEF x
  <1> DEFINE r == ReadVarint(b, i)
  <1>6. r.ok /\ r.next = i + 1 /\ r.val = tag
    BY <1>4
  <1> HIDE DEF r
  <1>7. TagOf(r) = [ok |-> TRUE, next |-> r.next, wireType |-> r.val % 8, fieldNum |-> ToSigned(r.val \div 8, HalfWord)]
    BY <1>6 DEF TagOf
  <1> QED BY <1>5, <1>6, <1>7 DEF ReadTag, r

\* The slice of the bytes where s stands is s.
LEMMA SliceHeld ==
    ASSUME NEW b \in Str, NEW i \in Nat, NEW s \in Str, Holds(b, i, s)
    PROVE  Slice(b, i, i + Len(s)) = s
  <1>1. Len(b) \in Nat /\ Len(s) \in Nat /\ i + Len(s) <= Len(b)
    BY DEF Holds, Str
  <1> DEFINE u == Slice(b, i, i + Len(s))
  <1>2. \A j \in i + 1 .. i + Len(s) : b[j] \in Byte
    BY <1>1 DEF Str
  <1>3. /\ u \in Seq(Byte)
        /\ Len(u) = IF i + 1 <= i + Len(s) THEN (i + Len(s)) - (i + 1) + 1 ELSE 0
        /\ \A j \in 1 .. (i + Len(s)) - (i + 1) + 1 : u[j] = b[(i + 1) + j - 1]
    <2>1. i + 1 \in Int /\ i + Len(s) \in Int
      BY <1>1
    <2> QED BY <1>2, <2>1, SubSeqProperties DEF Slice
  <1> HIDE DEF u
  <1>4. Len(u) = Len(s)
    BY <1>1, <1>3
  <1>5. ASSUME NEW j \in 1 .. Len(s) PROVE u[j] = s[j]
    <2>1. j \in 1 .. (i + Len(s)) - (i + 1) + 1 /\ (i + 1) + j - 1 = i + j
      BY <1>1
    <2>2. u[j] = b[i + j]
      BY <1>3, <2>1
    <2> QED BY <2>2 DEF Holds
  <1> QED BY <1>3, <1>4, <1>5, SeqEqual DEF Str, u

\* What Marshal writes as the length and the bytes s is read back as s.
LEMMA DelimitedRead ==
    ASSUME NEW b \in Slices, NEW i \in Nat, NEW s \in Str, Holds(b, i, EncodeVarint(Len(s)) \o s)
    PROVE  LET from == i + Len(EncodeVarint(Len(s)))
           IN  /\ ReadDelimited(b, i) = [ok |-> TRUE, from |-> from, to |-> from + Len(s)]
               /\ Slice(b, from, from + Len(s)) = s
  <1> DEFINE e == EncodeVarint(Len(s))
             from == i + Len(e)
             to == from + Len(s)
  <1>1. Len(s) \in Nat /\ Len(b) \in Nat /\ Len(b) <= MaxLen /\ b \in Str
    BY StrFacts DEF Slices
  <1>2. e \in Str
    BY <1>1, EncodeVarintFacts
  <1>3. Holds(b, i, e) /\ Holds(b, from, s) /\ Len(e) \in Nat
    BY <1>1, <1>2, HoldsParts
  <1>4. from \in Nat /\ to \in Nat /\ to <= Len(b)
    BY <1>1, <1>3 DEF Holds
  <1>5. Len(s) \in Word /\ to \in Word
    BY <1>1, <1>3, <1>4, MaxLenFacts DEF Word
  <1>6. ReadVarint(b, i) = [ok |-> TRUE, next |-> from, val |-> Len(s)]
    BY <1>1, <1>3, <1>5, VarintRead
  <1>7. ToInt(Len(s)) = Len(s) /\ ToInt(to) = to
    <2>1. Len(s) <= MaxLen /\ to <= MaxLen
      BY <1>1, <1>3, <1>4, MaxLenFacts
    <2> QED BY <1>5, <2>1, ToIntFacts
  <1>8. Slice(b, from, to) = s
    BY <1>1, <1>3, <1>4, SliceHeld
  <1> DEFINE r == ReadVarint(b, i)
  <1>9. r.ok /\ r.next = from /\ r.val = Len(s)
    BY <1>6
  <1> HIDE DEF r, from, e
  <1>10. ToInt(r.val) >= 0 /\ ToInt(r.next + ToInt(r.val)) = to /\ to >= 0
    BY <1>1, <1>4, <1>7, <1>9
  <1> HIDE DEF to
  <1>11. DelimitedBy(b, r) = [ok |-> TRUE, from |-> from, to |-> to]
    BY <1>4, <1>9, <1>10 DEF DelimitedBy
  <1> QED BY <1>8, <1>11 DEF ReadDelimited, r, from, e, to

\* The value of a varint field, as a known case takes it from the word v.
VarintOf(kind, v) ==
    CASE kind = "uint32" -> Unsigned(v, HalfWord)
      [] kind = "uint64" -> v
      [] kind = "int64" -> ToInt(v)
      [] kind = "bool" -> v # 0

\* What a round of Unmarshal's loop makes of a field that Marshal wrote, whatever
\* follows it: for every decoder, message and word size, the tag leads to the case
\* of its field; bytes, an embedded message and an element of a repeated field are
\* taken as they were written, and a varint as the word it was written from; and
\* iNdEx is left exactly behind the field.
THEOREM FieldsReadBack ==
    ASSUME NEW c, NEW f, f.b \in Slices, f.i \in Nat,
           NEW tag \in 8 .. 127, tag \div 8 \in DOMAIN Cases(c, f.type),
           NEW k, k = Cases(c, f.type)[tag \div 8], k.wireType = tag % 8
    PROVE  /\ \A s \in Str : k.wireType = 2 /\ Holds(f.b, f.i, Delimited(tag, s)) =>
                  LET end == f.i + Len(Delimited(tag, s)) IN
                  /\ k.kind \in {"bytes", "embedded"} => Round(c, f) = Taken(k, end, s)
                  /\ k.kind = "repeated" => Round(c, f) = Taken(k, end, Append(f.m[k.name], s))
           /\ \A v \in Word : k.wireType = 0 /\ Holds(f.b, f.i, <<tag>> \o EncodeVarint(v)) =>
                  Round(c, f) = Taken(k, f.i + Len(<<tag>> \o EncodeVarint(v)), VarintOf(k.kind, v))
  <1> DEFINE b == f.b
             i == f.i
             cases == Cases(c, f.type)
  <1>1. b \in Slices /\ b \in Str /\ i \in Nat /\ tag \in 1 .. 127
    BY DEF Slices
  <1>2. tag \div 8 \in 1 .. 15 /\ <<tag>> \in Str /\ Len(<<tag>>) = 1
    BY DEF Str, Byte
  <1>3. ASSUME Holds(b, i, <<tag>>), k.wireType # 4
        PROVE  Round(c, f) = Value(f, k, i + 1)
    <2> DEFINE t == ReadTag(b, i)
    <2>1. t = [ok |-> TRUE, next |-> i + 1, wireType |-> tag % 8, fieldNum |-> tag \div 8]
      BY <1>1, <1>3, TagRead
    <2>2. t.ok /\ t.next = i + 1 /\ t.wireType = tag % 8 /\ t.fieldNum = tag \div 8
      BY <2>1
    <2> HIDE DEF t
    <2>3. TagOK(f, t, cases)
      BY <1>2, <1>3, <2>2 DEF TagOK
    <2> HIDE DEF cases
    <2>4. RoundWith(f, t, cases) = Value(f, k, t.next)
      BY <2>2, <2>3 DEF RoundWith, cases
    <2> QED BY <2>2, <2>4 DEF Round, t, cases
  <1>4. ASSUME NEW s \in Str, k.wireType = 2, Holds(b, i, Delimited(tag, s))
        PROVE  LET end == i + Len(Delimited(tag, s)) IN
               /\ k.kind \in {"bytes", "embedded"} => Round(c, f) = Taken(k, end, s)
               /\ k.kind = "repeated" => Round(c, f) = Taken(k, end, Append(f.m[k.name], s))
    <2> DEFINE e == EncodeVarint(Len(s))
               from == (i + 1) + Len(e)
               d == ReadDelimited(b, i + 1)
               end == i + Len(Delimited(tag, s))
    <2>1. Len(s) \in Nat /\ e \in Str /\ i + 1 \in Nat
      <3>1. Len(s) \in Nat /\ i + 1 \in Nat
        BY <1>1, StrFacts
      <3> QED BY <3>1, EncodeVarintFacts
    <2>2. e \o s \in Str /\ Len(e \o s) = Len(e) + Len(s) /\ Len(e) \in Nat
      BY <2>1, StrConcat
    <2> HIDE DEF e
    <2>3. Delimited(tag, s) = <<tag>> \o (e \o s)
      BY <1>2, <2>1 DEF Delimited, Str, e
    <2>4. Holds(b, i, <<tag>>) /\ Holds(b, i + 1, e \o s)
      <3> DEFINE u == e \o s
      <3>1. u \in Str /\ Holds(b, i, <<tag>> \o u)
        BY <1>4, <2>2, <2>3
      <3> HIDE DEF u
      <3>2. Holds(b, i, <<tag>>) /\ Holds(b, i + Len(<<tag>>), u)
        BY <1>1, <1>2, <3>1, HoldsParts
      <3> QED BY <1>2, <3>2 DEF u
    <2>5. end = from + Len(s)
      <3> DEFINE u == e \o s
      <3>1. Len(<<tag>> \o u) = Len(<<tag>>) + Len(u)
        BY <1>2, <2>2, StrConcat
      <3> QED BY <1>1, <1>2, <2>1, <2>2, <2>3, <3>1
    <2>6. d = [ok |-> TRUE, from |-> from, to |-> from + Len(s)] /\ Slice(b, from, from + Len(s)) = s
      BY <1>1, <2>1, <2>4, DelimitedRead DEF e
    <2> HIDE DEF from, end
    <2>7. d.ok /\ d.from = from /\ d.to = end /\ Slice(b, d.from, d.to) = s
      BY <2>5, <2>6
    <2>8. Round(c, f) = DelimitedValue(f, k, d)
      BY <1>3, <1>4, <2>4 DEF Value
    <2> HIDE DEF d
    <2>9. /\ k.kind \in {"bytes", "embedded"} => DelimitedValue(f, k, d) = Taken(k, end, s)
          /\ k.kind = "repeated" => DelimitedValue(f, k, d) = Taken(k, end, Append(f.m[k.name], s))
      BY <2>7 DEF DelimitedValue
    <2> QED BY <2>8, <2>9 DEF end
  <1>5. ASSUME NEW v \in Word, k.wireType = 0, Holds(b, i, <<tag>> \o EncodeVarint(v))
        PROVE  Round(c, f) = Taken(k, i + Len(<<tag>> \o EncodeVarint(v)), VarintOf(k.kind, v))
    <2> DEFINE e == EncodeVarint(v)
               r == ReadVarint(b, i + 1)
               end == i + Len(<<tag>> \o e)
    <2>1. v \in Nat /\ e \in Str /\ i + 1 \in Nat
      <3>1. v \in Nat /\ i + 1 \in Nat
        BY <1>1, MaxLenFacts DEF Word
      <3> QED BY <3>1, EncodeVarintFacts
    <2>2. Holds(b, i, <<tag>>) /\ Holds(b, i + 1, e) /\ Len(e) \in Nat
      <3> HIDE DEF e
      <3>1. Holds(b, i, <<tag>>) /\ Holds(b, i + Len(<<tag>>), e) /\ Len(e) \in Nat
        BY <1>1, <1>2, <1>5, <2>1, HoldsParts DEF e
      <3> QED BY <1>2, <3>1
    <2>3. end = (i + 1) + Len(e)
      <3> HIDE DEF e
      <3>1. Len(<<tag>> \o e) = 1 + Len(e)
        BY <1>2, <2>1, StrConcat
      <3> QED BY <1>1, <2>2, <3>1
    <2>4. r = [ok |-> TRUE, next |-> (i + 1) + Len(e), val |-> v]
      BY <1>1, <2>1, <2>2, VarintRead
    <2> HIDE DEF end
    <2>5. r.ok /\ r.next = end /\ r.val = v
      BY <2>3, <2>4
    <2>6. Round(c, f) = VarintValue(k, r)
      BY <1>3, <1>5, <2>2 DEF Value
    <2> HIDE DEF r, e
    <2>7. VarintValue(k, r) = Taken(k, end, VarintOf(k.kind, v))
      BY <2>5 DEF VarintValue, VarintOf
    <2> QED BY <2>6, <2>7 DEF end, e
  <1> QED BY <1>4, <1>5
=============================================================================
