---------------------------- MODULE SetInduction -----------------------------
(***************************************************************************)
(* Induction and recursion over numbers and finite sets, on sets instead   *)
(* of predicates: {x : P(x)} takes the place of P. The loops of the code   *)
(* are recursive functions in the model; these lemmas say that such a      *)
(* function exists and what holds of all of its values.                    *)
(***************************************************************************)
EXTENDS Integers, FiniteSetTheorems, WellFoundedInduction, TLAPS

\* A nonempty finite set of numbers has a least element.
LEMMA FiniteMin ==
    ASSUME NEW F, IsFiniteSet(F), F \subseteq Nat, F # {}
    PROVE  \E n \in F : \A m \in F : n <= m
  <1> DEFINE Below(n) == {m \in F : m < n}
             T == {Below(n) : n \in F}
  <1>1. IsWellFoundedOn(StrictSubsetOrdering(F), SUBSET F)
    BY FS_StrictSubsetOrderingWellFounded, FS_FiniteSubsetsOfFinite
  <1>2. T \subseteq SUBSET F /\ T # {}
    OBVIOUS
  <1>3. PICK x \in T : \A y \in T : ~ (<<y, x>> \in StrictSubsetOrdering(F))
    BY <1>1, <1>2, WFMin
  <1>4. PICK n \in F : x = Below(n)
    OBVIOUS
  <1>5. ASSUME NEW m \in F, m < n PROVE FALSE
    <2>1. n \in Nat /\ m \in Nat /\ ~(m < m)
      OBVIOUS
    <2>2. ASSUME NEW q \in F, q < m PROVE q < n
      <3> q \in Nat
        OBVIOUS
      <3> QED BY <1>5, <2>1, <2>2
    <2>3. Below(m) \subseteq Below(n) /\ m \in Below(n) /\ m \notin Below(m)
      BY <1>5, <2>1, <2>2
    <2>4. <<Below(m), x>> \in StrictSubsetOrdering(F)
      BY <1>4, <2>3 DEF StrictSubsetOrdering
    <2> QED BY <1>3, <2>4
  <1> QED BY <1>5

\* Induction over an interval.
LEMMA IntervalInduction ==
    ASSUME NEW n \in Nat, NEW S, 0 \in S, \A i \in 1..n : i - 1 \in S => i \in S
    PROVE  \A i \in 0..n : i \in S
  <1> DEFINE F == (0..n) \ S
  <1>1. SUFFICES ASSUME F # {} PROVE FALSE
    OBVIOUS
  <1>2. IsFiniteSet(F) /\ F \subseteq Nat
    <2>1. IsFiniteSet(0..n) /\ F \in SUBSET (0..n)
      BY FS_Interval
    <2> QED BY <2>1, FS_Subset
  <1>3. PICK i \in F : \A j \in F : i <= j
    BY <1>1, <1>2, FiniteMin
  <1>4. i \in 1..n /\ i - 1 \in 0..n /\ ~(i <= i - 1)
    OBVIOUS
  <1> QED BY <1>3, <1>4

\* The function f on 0..n starts with c and goes on by step.
Steps(n, V) == [1..n -> [V -> V]]
IsRun(f, n, V, c, step) ==
    f \in [0..n -> V] /\ f[0] = c /\ \A i \in 1..n : f[i] = step[i][f[i - 1]]

\* Such a function exists.
LEMMA IntervalRecursion ==
    ASSUME NEW n \in Nat, NEW V, NEW c \in V, NEW step \in Steps(n, V)
    PROVE  \E f : IsRun(f, n, V, c, step)
  <1> DEFINE Solves(f, k) == f[0] = c /\ \A i \in 1..k : f[i] = step[i][f[i - 1]]
             S == {k \in 0..n : \E f \in [0..k -> V] : Solves(f, k)}
  <1>1. 0 \in S
    <2> DEFINE f == [i \in 0..0 |-> c]
    <2>1. f \in [0..0 -> V] /\ Solves(f, 0) /\ 0 \in 0..n
      OBVIOUS
    <2> HIDE DEF f
    <2> QED BY <2>1
  <1>2. ASSUME NEW k \in 1..n, k - 1 \in S PROVE k \in S
    <2>1. PICK f \in [0..(k - 1) -> V] : Solves(f, k - 1)
      BY <1>2
    <2> DEFINE g == [i \in 0..k |-> IF i = k THEN step[k][f[k - 1]] ELSE f[i]]
    <2>2. step[k][f[k - 1]] \in V
      BY DEF Steps
    <2>3. g \in [0..k -> V]
      BY <2>2
    <2>4. g[0] = c
      BY <2>1
    <2>5. ASSUME NEW i \in 1..k PROVE g[i] = step[i][g[i - 1]]
      <3>1. i - 1 \in 0..(k - 1) /\ i - 1 # k
        OBVIOUS
      <3>2. g[i - 1] = f[i - 1]
        BY <3>1
      <3>3. CASE i = k
        BY <3>2, <3>3
      <3>4. CASE i # k
        <4>1. i \in 1..(k - 1)
          BY <3>4
        <4> QED BY <2>1, <3>2, <4>1
      <3> QED BY <3>3, <3>4
    <2>6. Solves(g, k)
      BY <2>4, <2>5
    <2>7. k \in 0..n
      OBVIOUS
    <2> HIDE DEF g
    <2> QED BY <2>3, <2>6, <2>7
  <1>3. n \in S
    <2>1. \A i \in 0..n : i \in S
      <3> HIDE DEF S
      <3> QED BY <1>1, <1>2, IntervalInduction
    <2> QED BY <2>1
  <1> QED BY <1>3 DEF IsRun

\* The function f on the subsets of S starts with c and goes on by step.
StepsBy(step, S, V, pick) ==
    step \in [S -> [V -> V]] /\ \A s \in SUBSET S : s # {} => pick[s] \in s
IsFold(f, S, V, c, step, pick) ==
    /\ f \in [SUBSET S -> V]
    /\ \A s \in SUBSET S : f[s] = IF s = {} THEN c ELSE step[pick[s]][f[s \ {pick[s]}]]

\* A function on the subsets of a finite set that starts with c and goes on by
\* step, one chosen element at a time, exists: round k of the recursion over
\* numbers has it right on the subsets of at most k elements.
LEMMA SubsetRecursion ==
    ASSUME NEW S, IsFiniteSet(S), NEW V, NEW c \in V, NEW step, NEW pick, StepsBy(step, S, V, pick)
    PROVE  \E f : IsFold(f, S, V, c, step, pick)
  <1> USE DEF StepsBy
  <1> DEFINE n == Cardinality(S)
             W == [SUBSET S -> V]
             round == [i \in 1..n |-> [g \in W |->
                         [s \in SUBSET S |-> IF s = {} THEN c ELSE step[pick[s]][g[s \ {pick[s]}]]]]]
  <1>1. n \in Nat
    BY FS_CardinalityType
  <1>2. ASSUME NEW g \in W
        PROVE  [s \in SUBSET S |-> IF s = {} THEN c ELSE step[pick[s]][g[s \ {pick[s]}]]] \in W
    <2>1. \A s \in SUBSET S : s \ {pick[s]} \in SUBSET S /\ (s # {} => pick[s] \in S)
      OBVIOUS
    <2>2. \A s \in SUBSET S : s # {} => step[pick[s]][g[s \ {pick[s]}]] \in V
      BY <2>1
    <2> QED BY <2>2
  <1>3. round \in Steps(n, W)
    BY <1>2 DEF Steps
  <1> DEFINE start == [s \in SUBSET S |-> c]
  <1>4. start \in W
    OBVIOUS
  <1>5. PICK g \in [0..n -> W] : g[0] = start /\ \A i \in 1..n : g[i] = round[i][g[i - 1]]
    <2>1. \E g : IsRun(g, n, W, start, round)
      <3> HIDE DEF n, W, round, start
      <3> QED BY <1>1, <1>3, <1>4, IntervalRecursion
    <2> QED BY <2>1 DEF IsRun
  <1>6. ASSUME NEW i \in 1..n, NEW s \in SUBSET S
        PROVE  g[i][s] = IF s = {} THEN c ELSE step[pick[s]][g[i - 1][s \ {pick[s]}]]
    <2>1. g[i - 1] \in W
      <3>1. i - 1 \in 0..n
        BY <1>1
      <3> HIDE DEF n, W
      <3> QED BY <3>1
    <2>2. g[i] = [t \in SUBSET S |-> IF t = {} THEN c ELSE step[pick[t]][g[i - 1][t \ {pick[t]}]]]
      BY <1>5, <2>1
    <2> QED BY <2>2
  <1>7. ASSUME NEW i \in 0..n PROVE g[i][{}] = c
    <2>1. CASE i = 0
      BY <1>5, <2>1
    <2>2. CASE i # 0
      <3>1. i \in 1..n
        BY <1>1, <2>2
      <3> QED BY <1>6, <3>1
    <2> QED BY <2>1, <2>2
  <1>8. \A s \in SUBSET S : IsFiniteSet(s) /\ Cardinality(s) \in 0..n
    BY <1>1, FS_Subset, FS_CardinalityType
  <1> DEFINE f == [s \in SUBSET S |-> g[Cardinality(s)][s]]
  <1>9. f \in W
    BY <1>8
  <1>10. ASSUME NEW s \in SUBSET S PROVE f[s] = IF s = {} THEN c ELSE step[pick[s]][f[s \ {pick[s]}]]
    <2>1. CASE s = {}
      BY <1>7, <1>8, <2>1
    <2>2. CASE s # {}
      <3>1. pick[s] \in s /\ s \ {pick[s]} \in SUBSET S
        BY <2>2
      <3>2. Cardinality(s \ {pick[s]}) = Cardinality(s) - 1
        BY <1>8, <3>1, FS_RemoveElement
      <3>3. Cardinality(s) \in 1..n
        <4>1. Cardinality(s) # 0
          BY <1>8, <2>2, FS_EmptySet
        <4> QED BY <1>1, <1>8, <4>1
      <3>4. f[s] = step[pick[s]][g[Cardinality(s) - 1][s \ {pick[s]}]]
        BY <1>6, <2>2, <3>3
      <3>5. f[s \ {pick[s]}] = g[Cardinality(s) - 1][s \ {pick[s]}]
        BY <3>1, <3>2
      <3> QED BY <2>2, <3>4, <3>5
    <2> QED BY <2>1, <2>2
  <1> HIDE DEF f
  <1> QED BY <1>9, <1>10 DEF IsFold

\* Induction over the subsets of a finite set.
LEMMA SubsetInduction ==
    ASSUME NEW S, IsFiniteSet(S), NEW P,
           \A s \in SUBSET S : (\A t \in SUBSET s : t # s => t \in P) => s \in P
    PROVE  S \in P
  <1> DEFINE T == (SUBSET S) \ P
  <1>1. SUFFICES ASSUME T # {} PROVE FALSE
    OBVIOUS
  <1>2. IsWellFoundedOn(StrictSubsetOrdering(S), SUBSET S)
    BY FS_StrictSubsetOrderingWellFounded, FS_FiniteSubsetsOfFinite
  <1>3. T \subseteq SUBSET S
    OBVIOUS
  <1>4. PICK s \in T : \A t \in T : ~ (<<t, s>> \in StrictSubsetOrdering(S))
    <2> HIDE DEF T
    <2> QED BY <1>1, <1>2, <1>3, WFMin
  <1>5. ASSUME NEW t \in SUBSET s, t # s PROVE t \in P
    <2>1. t \in SUBSET S /\ <<t, s>> \in StrictSubsetOrdering(S)
      BY <1>5 DEF StrictSubsetOrdering
    <2> QED BY <1>4, <2>1
  <1> QED BY <1>5

\* Of the numbers in W, m holds of those before which it holds of none: of the
\* first one only.
IsFirst(i, W) == i \in W /\ \A j \in 1..(i - 1) : j \notin W
FirstOnly(m, n, W) == m = [i \in 1..n |-> i \in W /\ \A j \in 1..(i - 1) : ~m[j]]

\* Some number up to i that is in W is the first one.
LEMMA HasFirst ==
    ASSUME NEW W, NEW i \in Nat, NEW j \in 1..i, j \in W
    PROVE  \E k \in 1..i : IsFirst(k, W)
  <1> DEFINE F == (1..i) \cap W
  <1>1. IsFiniteSet(F) /\ F \subseteq Nat /\ F # {}
    <2>1. IsFiniteSet(1..i) /\ F \in SUBSET (1..i)
      BY FS_Interval
    <2> QED BY <2>1, FS_Subset
  <1>2. PICK k \in F : \A o \in F : k <= o
    <2> HIDE DEF F
    <2> QED BY <1>1, FiniteMin
  <1>3. \A o \in 1..(k - 1) : o \in 1..i /\ ~(k <= o)
    OBVIOUS
  <1> QED BY <1>2, <1>3 DEF IsFirst

LEMMA FirstOnlyExists ==
    ASSUME NEW n \in Nat, NEW W
    PROVE  \E m : FirstOnly(m, n, W)
  <1> DEFINE m == [i \in 1..n |-> IsFirst(i, W)]
  <1>1. ASSUME NEW i \in 1..n
        PROVE  IsFirst(i, W) <=> i \in W /\ \A j \in 1..(i - 1) : ~m[j]
    <2>1. \A j \in 1..(i - 1) : j \in 1..n
      OBVIOUS
    <2>2. \A j \in 1..(i - 1) : m[j] <=> IsFirst(j, W)
      BY <2>1
    <2> HIDE DEF m
    <2>3. (\A j \in 1..(i - 1) : j \notin W) <=> \A j \in 1..(i - 1) : ~IsFirst(j, W)
      <3>1. i - 1 \in Nat
        OBVIOUS
      <3> QED BY <3>1, HasFirst DEF IsFirst
    <2> QED BY <2>2, <2>3 DEF IsFirst
  <1>2. FirstOnly(m, n, W)
    <2> DEFINE r == [i \in 1..n |-> i \in W /\ \A j \in 1..(i - 1) : ~m[j]]
    <2>1. ASSUME NEW i \in 1..n PROVE m[i] = r[i]
      <3>1. m[i] = IsFirst(i, W)
        OBVIOUS
      <3>2. r[i] = (i \in W /\ \A j \in 1..(i - 1) : ~m[j])
        <4> HIDE DEF m
        <4> QED OBVIOUS
      <3> HIDE DEF m, r
      <3>3. IsFirst(i, W) = (i \in W /\ \A j \in 1..(i - 1) : ~m[j])
        BY <1>1 DEF IsFirst
      <3> QED BY <3>1, <3>2, <3>3
    <2>2. m = [i \in 1..n |-> m[i]] /\ r = [i \in 1..n |-> r[i]]
      OBVIOUS
    <2>3. m = r
      <3> HIDE DEF m, r
      <3> QED BY <2>1, <2>2
    <2> QED BY <2>3 DEF FirstOnly
  <1> HIDE DEF m
  <1> QED BY <1>2

LEMMA FirstOnlyFacts ==
    ASSUME NEW n \in Nat, NEW W, NEW m, FirstOnly(m, n, W), NEW i \in 1..n
    PROVE  m[i] <=> IsFirst(i, W)
  <1>1. \A k \in 1..n : m[k] <=> k \in W /\ \A j \in 1..(k - 1) : ~m[j]
    BY DEF FirstOnly
  <1>2. \A k \in 1..n : IsFirst(k, W) => m[k]
    <2> SUFFICES ASSUME NEW k \in 1..n, IsFirst(k, W) PROVE m[k]
      OBVIOUS
    <2>1. ASSUME NEW j \in 1..(k - 1) PROVE ~m[j]
      <3>1. j \in 1..n
        OBVIOUS
      <3> QED BY <1>1, <3>1 DEF IsFirst
    <2> QED BY <1>1, <2>1 DEF IsFirst
  <1>3. ASSUME m[i] PROVE IsFirst(i, W)
    <2> SUFFICES ASSUME NEW j \in 1..(i - 1), j \in W PROVE FALSE
      BY <1>1, <1>3 DEF IsFirst
    <2>1. PICK k \in 1..(i - 1) : IsFirst(k, W)
      <3>1. i - 1 \in Nat
        OBVIOUS
      <3> QED BY <3>1, HasFirst
    <2>2. k \in 1..n
      OBVIOUS
    <2> QED BY <1>1, <1>2, <1>3, <2>1, <2>2
  <1> QED BY <1>2, <1>3

-----------------------------------------------------------------------------
(* Recursion that descends. *)

\* Every x outside stop has a next one that measures less.
Descends(D, mu, stop, next) ==
    /\ mu \in [D -> Nat]
    /\ \A x \in D \ stop : next[x] \in D /\ mu[next[x]] < mu[x]

\* The function f on D has the values of base on stop, and elsewhere goes back to
\* the next one by step.
IsDescent(f, D, V, stop, base, next, step) ==
    /\ f \in [D -> V]
    /\ \A x \in D : f[x] = IF x \in stop THEN base[x] ELSE step[x][f[next[x]]]

\* Such a function exists: round n of the recursion over numbers has it right where
\* the measure is less than n, and the rounds agree there.
LEMMA DescentRecursion ==
    ASSUME NEW D, NEW V, NEW mu, NEW stop, NEW base \in [D -> V], NEW next, NEW step,
           Descends(D, mu, stop, next), \A x \in D \ stop : step[x] \in [V -> V]
    PROVE  \E f : IsDescent(f, D, V, stop, base, next, step)
  <1> DEFINE W == [D -> V]
             At(g, x) == IF x \in stop THEN base[x] ELSE step[x][g[next[x]]]
             Good(n, g) == \A x \in D : mu[x] < n => g[x] = At(g, x)
  <1>1. ASSUME NEW g \in W, NEW x \in D PROVE At(g, x) \in V
    BY DEF Descends
  <1>2. ASSUME NEW x \in D PROVE mu[x] \in Nat
    BY DEF Descends
  <1>3. ASSUME NEW x \in D, x \notin stop PROVE next[x] \in D /\ mu[next[x]] < mu[x]
    BY <1>3 DEF Descends
  <1>4. ASSUME NEW g, NEW h, NEW x \in D, x \in stop \/ g[next[x]] = h[next[x]] PROVE At(g, x) = At(h, x)
    BY <1>4
  <1>5. ASSUME NEW n \in Nat PROVE \E g \in W : Good(n, g)
    <2> DEFINE round == [i \in 1..n |-> [g \in W |-> [x \in D |-> At(g, x)]]]
    <2>1. round \in Steps(n, W) /\ base \in W
      <3>1. \A g \in W : [x \in D |-> At(g, x)] \in W
        BY <1>1
      <3> HIDE DEF At, W
      <3>2. round \in Steps(n, W)
        BY <3>1 DEF Steps
      <3>3. base \in W
        BY DEF W
      <3> QED BY <3>2, <3>3
    <2>2. PICK F : IsRun(F, n, W, base, round)
      <3> HIDE DEF W, round
      <3> QED BY <2>1, IntervalRecursion
    <2>3. \A i \in 0..n : F[i] \in W
      <3> HIDE DEF W, round
      <3> QED BY <2>2 DEF IsRun
    <2>4. ASSUME NEW i \in 1..n, NEW x \in D PROVE F[i][x] = At(F[i - 1], x)
      <3>1. i - 1 \in 0..n
        OBVIOUS
      <3>2. F[i] = round[i][F[i - 1]] /\ F[i - 1] \in W
        <4> HIDE DEF W, round
        <4> QED BY <2>2, <2>3, <3>1 DEF IsRun
      <3> HIDE DEF At, W
      <3>3. F[i] = [y \in D |-> At(F[i - 1], y)]
        BY <3>2
      <3> QED BY <3>3
    <2> DEFINE S == {k \in 0..n : Good(k, F[k])}
    <2>5. 0 \in S
      <3>1. \A x \in D : ~(mu[x] < 0)
        BY <1>2
      <3> QED BY <3>1
    <2>6. ASSUME NEW k \in 1..n, k - 1 \in S PROVE k \in S
      <3>1. Good(k - 1, F[k - 1])
        BY <2>6
      <3>2. ASSUME NEW x \in D, mu[x] < k PROVE F[k][x] = At(F[k], x)
        <4>1. F[k][x] = At(F[k - 1], x)
          BY <2>4
        <4>2. ASSUME x \notin stop PROVE F[k - 1][next[x]] = F[k][next[x]]
          <5>1. next[x] \in D /\ mu[next[x]] < k - 1
            BY <1>2, <1>3, <3>2, <4>2
          <5>2. F[k - 1][next[x]] = At(F[k - 1], next[x])
            <6> HIDE DEF At
            <6> QED BY <3>1, <5>1
          <5> HIDE DEF At
          <5> QED BY <2>4, <5>1, <5>2
        <4>3. At(F[k - 1], x) = At(F[k], x)
          BY <4>2
        <4> HIDE DEF At
        <4> QED BY <4>1, <4>3
      <3> HIDE DEF At
      <3>3. Good(k, F[k])
        BY <3>2
      <3> HIDE DEF Good
      <3> QED BY <3>3
    <2>7. n \in S
      <3> HIDE DEF S
      <3>1. \A k \in 0..n : k \in S
        BY <2>5, <2>6, IntervalInduction
      <3> QED BY <3>1
    <2> HIDE DEF Good, W
    <2> QED BY <2>3, <2>7
  <1>6. ASSUME NEW n \in Nat, NEW m \in Nat, NEW g, NEW h, Good(n, g), Good(m, h),
               NEW x \in D, mu[x] < n, mu[x] < m
        PROVE  g[x] = h[x]
    <2> DEFINE S == {k \in 0..n : \A y \in D : mu[y] < k /\ mu[y] < m => g[y] = h[y]}
    <2>1. 0 \in S
      BY <1>2
    <2>2. ASSUME NEW k \in 1..n, k - 1 \in S PROVE k \in S
      <3>1. \A y \in D : mu[y] < k - 1 /\ mu[y] < m => g[y] = h[y]
        BY <2>2
      <3>2. ASSUME NEW y \in D, mu[y] < k, mu[y] < m PROVE g[y] = h[y]
        <4>1. mu[y] < n
          BY <1>2, <3>2
        <4>2. g[y] = At(g, y) /\ h[y] = At(h, y)
          <5> HIDE DEF At
          <5> QED BY <1>6, <3>2, <4>1
        <4>3. ASSUME y \notin stop PROVE g[next[y]] = h[next[y]]
          <5>1. next[y] \in D /\ mu[next[y]] < k - 1 /\ mu[next[y]] < m
            BY <1>2, <1>3, <3>2, <4>3
          <5> QED BY <3>1, <5>1
        <4>4. At(g, y) = At(h, y)
          BY <4>3
        <4> HIDE DEF At
        <4> QED BY <4>2, <4>4
      <3> QED BY <3>2
    <2>3. n \in S
      <3> HIDE DEF S
      <3>1. \A k \in 0..n : k \in S
        BY <2>1, <2>2, IntervalInduction
      <3> QED BY <3>1
    <2> QED BY <1>6, <2>3
  <1> DEFINE Pick(n) == CHOOSE g \in W : Good(n, g)
             f == [x \in D |-> Pick(mu[x] + 1)[x]]
  <1>7. ASSUME NEW n \in Nat PROVE Pick(n) \in W /\ Good(n, Pick(n))
    <2> HIDE DEF W, Good
    <2> QED BY <1>5
  <1>8. ASSUME NEW x \in D PROVE mu[x] + 1 \in Nat /\ mu[x] < mu[x] + 1
    BY <1>2
  <1>9. f \in W
    <2> HIDE DEF Pick
    <2>1. \A x \in D : Pick(mu[x] + 1)[x] \in V
      BY <1>7, <1>8
    <2> QED BY <2>1
  <1>10. ASSUME NEW x \in D PROVE f[x] = At(f, x)
    <2> DEFINE g == Pick(mu[x] + 1)
    <2>1. g \in W /\ Good(mu[x] + 1, g) /\ f[x] = g[x]
      <3> HIDE DEF Pick, Good, W
      <3> QED BY <1>7, <1>8
    <2>2. g[x] = At(g, x)
      <3> HIDE DEF At, Pick, g
      <3> QED BY <1>8, <2>1
    <2>3. ASSUME x \notin stop PROVE g[next[x]] = f[next[x]]
      <3>1. next[x] \in D /\ mu[next[x]] < mu[x] + 1 /\ mu[next[x]] < mu[next[x]] + 1
        BY <1>2, <1>3, <2>3
      <3>2. f[next[x]] = Pick(mu[next[x]] + 1)[next[x]] /\ Good(mu[next[x]] + 1, Pick(mu[next[x]] + 1))
        <4> HIDE DEF Pick, Good, W
        <4> QED BY <1>7, <1>8, <3>1
      <3> HIDE DEF Pick, Good, W, g
      <3> QED BY <1>6, <1>8, <2>1, <3>1, <3>2
    <2> HIDE DEF Pick, f, g
    <2>4. At(g, x) = At(f, x)
      BY <2>3
    <2> HIDE DEF At
    <2> QED BY <2>1, <2>2, <2>4
  <1> HIDE DEF f
  <1> QED BY <1>9, <1>10 DEF IsDescent

\* Two functions that go back in this way are equal.
GoesBack(f, D, stop, base, next, step) ==
    \A x \in D : f[x] = IF x \in stop THEN base[x] ELSE step[x][f[next[x]]]

LEMMA DescentUnique ==
    ASSUME NEW D, NEW mu, NEW stop, NEW base, NEW next, NEW step, NEW f, NEW g,
           Descends(D, mu, stop, next),
           GoesBack(f, D, stop, base, next, step), GoesBack(g, D, stop, base, next, step), NEW a \in D
    PROVE  f[a] = g[a]
  <1> DEFINE n == mu[a] + 1
             S == {k \in 0 .. n : \A x \in D : mu[x] < k => f[x] = g[x]}
  <1>1. \A x \in D : mu[x] \in Nat
    BY DEF Descends
  <1>2. 0 \in S
    BY <1>1
  <1>3. ASSUME NEW k \in 1 .. n, k - 1 \in S PROVE k \in S
    <2>1. ASSUME NEW x \in D, mu[x] < k PROVE f[x] = g[x]
      <3>1. CASE x \in stop
        BY <3>1 DEF GoesBack
      <3>2. CASE x \notin stop
        <4>1. next[x] \in D /\ mu[next[x]] < mu[x]
          BY <3>2 DEF Descends
        <4>2. mu[next[x]] < k - 1
          BY <1>1, <2>1, <4>1
        <4>3. f[next[x]] = g[next[x]]
          BY <1>3, <4>1, <4>2
        <4> QED BY <3>2, <4>3 DEF GoesBack
      <3> QED BY <3>1, <3>2
    <2> QED BY <1>1, <2>1
  <1>4. \A k \in 0 .. n : k \in S
    <2>1. n \in Nat
      BY <1>1
    <2> HIDE DEF S, n
    <2> QED BY <1>2, <1>3, <2>1, IntervalInduction
  <1>5. n \in S
    <2>1. n \in 0 .. n
      BY <1>1
    <2> HIDE DEF S
    <2> QED BY <1>4, <2>1
  <1> QED BY <1>1, <1>5

-----------------------------------------------------------------------------
(* Sums. *)

\* The function f gives the sum of w over every subset of D.
IsTotal(f, D, w) ==
    /\ f \in [SUBSET D -> Nat]
    /\ f[{}] = 0
    /\ \A s \in SUBSET D : \A x \in s : f[s] = w[x] + f[s \ {x}]

\* Such a function exists, and SumFunction is its value at D: it does not matter in
\* which order the elements are chosen.
LEMMA TotalExists ==
    ASSUME NEW D, IsFiniteSet(D), NEW w \in [D -> Nat]
    PROVE  \E f : IsTotal(f, D, w) /\ SumFunction(w) = f[D]
  <1> DEFINE pick == [s \in SUBSET D |-> CHOOSE x \in s : TRUE]
             step == [x \in D |-> [v \in Nat |-> w[x] + v]]
             More(iter, s) == IF s = {} THEN 0
                              ELSE w[CHOOSE x \in s : TRUE] + iter[s \ {CHOOSE x \in s : TRUE}]
             Folds(iter) == iter = [s \in SUBSET D |-> More(iter, s)]
             f == CHOOSE iter : Folds(iter)
  <1>1. SumFunction(w) = f[D]
    BY DEF SumFunction, SumFunctionOnSet, FoldFunctionOnSet, MapThenFoldSet
  <1>2. \A s \in SUBSET D : s # {} => pick[s] \in s /\ pick[s] = CHOOSE x \in s : TRUE
    OBVIOUS
  <1>3. PICK g : IsFold(g, D, Nat, 0, step, pick)
    <2>1. StepsBy(step, D, Nat, pick)
      <3>1. step \in [D -> [Nat -> Nat]]
        OBVIOUS
      <3> HIDE DEF step, pick
      <3> QED BY <1>2, <3>1 DEF StepsBy
    <2> HIDE DEF step, pick
    <2> QED BY <2>1, SubsetRecursion
  <1>4. g \in [SUBSET D -> Nat]
    BY <1>3 DEF IsFold
  <1>5. ASSUME NEW s \in SUBSET D PROVE g[s] = More(g, s)
    <2>1. CASE s = {}
      BY <1>3, <2>1 DEF IsFold
    <2>2. CASE s # {}
      <3>1. pick[s] \in D /\ s \ {pick[s]} \in SUBSET D /\ pick[s] = CHOOSE x \in s : TRUE
        BY <1>2, <2>2
      <3> HIDE DEF pick
      <3>2. g[s] = step[pick[s]][g[s \ {pick[s]}]] /\ g[s \ {pick[s]}] \in Nat
        BY <1>3, <1>4, <2>2, <3>1 DEF IsFold
      <3>3. g[s] = w[pick[s]] + g[s \ {pick[s]}]
        BY <3>1, <3>2
      <3> QED BY <2>2, <3>1, <3>3
    <2> QED BY <2>1, <2>2
  <1>6. Folds(f)
    <2>1. Folds(g)
      <3> HIDE DEF More
      <3> QED BY <1>4, <1>5
    <2> HIDE DEF Folds
    <2> QED BY <2>1
  <1> HIDE DEF f
  <1>7. ASSUME NEW s \in SUBSET D PROVE f[s] = More(f, s)
    <2> HIDE DEF More
    <2> QED BY <1>6
  <1>8. f[{}] = 0
    BY <1>7
  <1>9. ASSUME NEW s \in SUBSET D, s # {}
        PROVE  \E x \in s : f[s] = w[x] + f[s \ {x}]
    <2>1. (CHOOSE x \in s : TRUE) \in s
      BY <1>9
    <2> QED BY <1>7, <1>9, <2>1
  <1> DEFINE P == {s \in SUBSET D : f[s] \in Nat /\ \A x \in s : f[s] = w[x] + f[s \ {x}]}
  <1>10. ASSUME NEW s \in SUBSET D, \A t \in SUBSET s : t # s => t \in P PROVE s \in P
    <2>1. CASE s = {}
      BY <1>8, <2>1
    <2>2. CASE s # {}
      <3>1. PICK p \in s : f[s] = w[p] + f[s \ {p}]
        BY <1>9, <2>2
      <3>2. \A x \in s : w[x] \in Nat /\ s \ {x} \in P /\ f[s \ {x}] \in Nat
        BY <1>10
      <3>3. ASSUME NEW x \in s, x # p PROVE f[s] = w[x] + f[s \ {x}]
        <4>1. f[s \ {p}] = w[x] + f[(s \ {p}) \ {x}] /\ f[s \ {x}] = w[p] + f[(s \ {x}) \ {p}]
          BY <3>2, <3>3
        <4>2. (s \ {p}) \ {x} = (s \ {x}) \ {p} /\ (s \ {p}) \ {x} \in P
          <5>1. (s \ {p}) \ {x} = (s \ {x}) \ {p}
            OBVIOUS
          <5>2. (s \ {p}) \ {x} \in SUBSET s /\ (s \ {p}) \ {x} # s
            OBVIOUS
          <5> HIDE DEF P
          <5> QED BY <1>10, <5>1, <5>2
        <4>3. f[(s \ {p}) \ {x}] \in Nat /\ w[x] \in Nat /\ w[p] \in Nat
          BY <3>2, <4>2
        <4>4. f[s] = w[p] + (w[x] + f[(s \ {p}) \ {x}])
          BY <3>1, <4>1
        <4>5. f[s \ {x}] = w[p] + f[(s \ {p}) \ {x}]
          BY <4>1, <4>2
        <4> QED BY <4>3, <4>4, <4>5
      <3>4. f[s] \in Nat
        <4>1. w[p] \in Nat /\ f[s \ {p}] \in Nat
          BY <3>2
        <4> HIDE DEF P
        <4> QED BY <3>1, <4>1
      <3> QED BY <3>1, <3>3, <3>4
    <2> QED BY <2>1, <2>2
  <1>11. ASSUME NEW s \in SUBSET D PROVE s \in P
    <2>1. IsFiniteSet(s)
      BY FS_Subset
    <2>2. \A t \in SUBSET s : (\A u \in SUBSET t : u # t => u \in P) => t \in P
      <3> HIDE DEF P
      <3> QED BY <1>10
    <2> HIDE DEF P
    <2> QED BY <2>1, <2>2, SubsetInduction
  <1>12. f \in [SUBSET D -> Nat]
    <2>1. \A s \in SUBSET D : f[s] \in Nat
      BY <1>11
    <2>2. f = [s \in SUBSET D |-> More(f, s)]
      <3> HIDE DEF More
      <3> QED BY <1>6
    <2>3. ASSUME NEW s \in SUBSET D PROVE More(f, s) \in Nat
      <3>1. f[s] = More(f, s)
        BY <1>7
      <3>2. f[s] \in Nat
        BY <2>1
      <3> HIDE DEF More
      <3> QED BY <3>1, <3>2
    <2> HIDE DEF More
    <2> QED BY <2>2, <2>3
  <1>13. IsTotal(f, D, w)
    BY <1>8, <1>11, <1>12 DEF IsTotal
  <1> QED BY <1>1, <1>13

\* Sums of equal weights over the same set are equal.
LEMMA TotalUnique ==
    ASSUME NEW D, NEW w, NEW f, IsTotal(f, D, w), NEW E, NEW v, NEW g, IsTotal(g, E, v),
           NEW S, IsFiniteSet(S), S \subseteq D, S \subseteq E, \A x \in S : w[x] = v[x]
    PROVE  f[S] = g[S]
  <1> DEFINE P == {s \in SUBSET S : f[s] = g[s]}
  <1>1. ASSUME NEW s \in SUBSET S, \A t \in SUBSET s : t # s => t \in P PROVE s \in P
    <2>1. CASE s = {}
      BY <2>1 DEF IsTotal
    <2>2. CASE s # {}
      <3>1. PICK x \in s : TRUE
        BY <2>2
      <3>2. f[s] = w[x] + f[s \ {x}] /\ g[s] = v[x] + g[s \ {x}] /\ w[x] = v[x]
        BY DEF IsTotal
      <3>3. s \ {x} \in P
        <4> HIDE DEF P
        <4> QED BY <1>1
      <3> QED BY <3>2, <3>3
    <2> QED BY <2>1, <2>2
  <1>2. S \in P
    <2> HIDE DEF P
    <2> QED BY <1>1, SubsetInduction
  <1> QED BY <1>2

LEMMA TotalType ==
    ASSUME NEW D, IsFiniteSet(D), NEW w \in [D -> Nat]
    PROVE  SumFunction(w) \in Nat
  <1>1. PICK f : IsTotal(f, D, w) /\ SumFunction(w) = f[D]
    BY TotalExists
  <1>2. f \in [SUBSET D -> Nat] /\ D \in SUBSET D
    BY <1>1 DEF IsTotal
  <1> QED BY <1>1, <1>2

LEMMA SumOfNone ==
    ASSUME NEW w \in [{} -> Nat]
    PROVE  SumFunction(w) = 0
  <1>1. IsFiniteSet({})
    BY FS_EmptySet
  <1>2. PICK f : IsTotal(f, {}, w) /\ SumFunction(w) = f[{}]
    BY <1>1, TotalExists
  <1> QED BY <1>2 DEF IsTotal

\* The weights v are those of w without that of x.
LessOne(D, w, x, E, v) ==
    /\ IsFiniteSet(D) /\ w \in [D -> Nat] /\ x \in D
    /\ E = D \ {x} /\ v \in [E -> Nat] /\ \A y \in E : v[y] = w[y]

\* The sum of w is one of its values and the sum of the others.
LEMMA SumSplit ==
    ASSUME NEW D, NEW w, NEW x, NEW E, NEW v, LessOne(D, w, x, E, v)
    PROVE  SumFunction(w) = w[x] + SumFunction(v)
  <1>0. /\ IsFiniteSet(D) /\ w \in [D -> Nat] /\ x \in D
        /\ E = D \ {x} /\ v \in [E -> Nat] /\ \A y \in E : v[y] = w[y]
    BY DEF LessOne
  <1>1. PICK f : IsTotal(f, D, w) /\ SumFunction(w) = f[D]
    BY <1>0, TotalExists
  <1>2. IsFiniteSet(E)
    BY <1>0, FS_Difference
  <1>3. PICK g : IsTotal(g, E, v) /\ SumFunction(v) = g[E]
    BY <1>0, <1>2, TotalExists
  <1>4. f[E] = g[E]
    <2>1. E \subseteq D /\ E \subseteq E
      BY <1>0
    <2> QED BY <1>0, <1>1, <1>2, <1>3, <2>1, TotalUnique
  <1>5. f[D] = w[x] + f[E]
    BY <1>0, <1>1 DEF IsTotal
  <1> QED BY <1>1, <1>3, <1>4, <1>5
==============================================================================
