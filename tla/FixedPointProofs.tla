-------------------------- MODULE FixedPointProofs --------------------------
(***************************************************************************)
(* Proofs about FixedPoint: for any numbers on the wire, any number of     *)
(* decimals and any largest integer, parsing is exact and printing is its  *)
(* inverse.                                                                *)
(***************************************************************************)
EXTENDS FixedPoint, SequenceTheorems, WellFoundedInduction, TLAPS

LEMMA LeastOf ==
    ASSUME NEW T \in SUBSET Nat, T # {}
    PROVE  \E m \in T : \A k \in T : m <= k
<1> DEFINE Less == OpToRel(<, Nat)
<1>1. PICK m \in T : \A k \in T : ~ (<<k, m>> \in Less)
  BY NatLessThanWellFounded, WFMin
<1>2. \A k \in T : m <= k
  <2> TAKE k \in T
  <2>1. k \in Nat /\ m \in Nat OBVIOUS
  <2>2. ~ (k < m) BY <1>1, <2>1 DEF OpToRel
  <2> QED BY <2>1, <2>2
<1> QED BY <1>2

(* What holds of the numbers in A but not of all of 0 .. n fails after a    *)
(* number of which it holds.                                               *)
LEMMA FirstMissing ==
    ASSUME NEW n \in Nat, NEW A, 0 \in A,
           \A i \in 1 .. n : i - 1 \in A => i \in A
    PROVE  0 .. n \subseteq A
<1> DEFINE T == {i \in 0 .. n : i \notin A}
<1> SUFFICES ASSUME T # {} PROVE FALSE OBVIOUS
<1>1. T \in SUBSET Nat OBVIOUS
<1>2. PICK m \in T : \A k \in T : m <= k BY <1>1, LeastOf
<1>3. m \in 1 .. n BY <1>2
<1>4. m - 1 \in 0 .. n /\ m - 1 \notin T BY <1>2, <1>3
<1> QED BY <1>3, <1>4

(* g takes the steps F from s, n of them; such a g there always is.         *)
Run(g, n, S, s, F) ==
    /\ g \in [0 .. n -> S] /\ g[0] = s
    /\ \A i \in 1 .. n : g[i] = F[i][g[i - 1]]

LEMMA Recursion ==
    ASSUME NEW n \in Nat, NEW S, NEW s \in S, NEW F \in [1 .. n -> [S -> S]]
    PROVE  \E g : Run(g, n, S, s, F)
<1> DEFINE A == {k \in 0 .. n : \E g : Run(g, k, S, s, F)}
<1>1. 0 \in A
  <2> DEFINE g == [i \in 0 .. 0 |-> s]
  <2>1. Run(g, 0, S, s, F) BY DEF Run
  <2>2. 0 \in 0 .. n OBVIOUS
  <2> HIDE DEF g
  <2> QED BY <2>1, <2>2, Zenon
<1>2. ASSUME NEW k \in 1 .. n, k - 1 \in A PROVE k \in A
  <2>1. PICK g : Run(g, k - 1, S, s, F) BY <1>2
  <2> DEFINE h == [i \in 0 .. k |-> IF i = k THEN F[k][g[k - 1]] ELSE g[i]]
  <2>2. g \in [0 .. k - 1 -> S] /\ F[k][g[k - 1]] \in S BY <2>1 DEF Run
  <2>3. h \in [0 .. k -> S] BY <2>2
  <2>4. h[0] = s BY <2>1 DEF Run
  <2>5. ASSUME NEW i \in 1 .. k PROVE h[i] = F[i][h[i - 1]]
    <3>1. h[i - 1] = g[i - 1] OBVIOUS
    <3>2. CASE i = k BY <3>1, <3>2
    <3>3. CASE i # k
      <4>1. i \in 1 .. k - 1 BY <3>3
      <4>2. h[i] = g[i] BY <4>1
      <4> QED BY <2>1, <3>1, <4>1, <4>2 DEF Run
    <3> QED BY <3>2, <3>3
  <2>6. k \in 0 .. n OBVIOUS
  <2> HIDE DEF h
  <2>7. Run(h, k, S, s, F) BY <2>3, <2>4, <2>5 DEF Run
  <2> QED BY <2>6, <2>7, Zenon
<1>3. n \in A
  <2> HIDE DEF A
  <2>1. 0 .. n \subseteq A BY <1>1, <1>2, FirstMissing
  <2> QED BY <2>1
<1> QED BY <1>3

-----------------------------------------------------------------------------
(* Powers of ten.                                                          *)
LEMMA PowIs ==
    ASSUME NEW n \in Nat, NEW g,
           g = [i \in 0 .. n |-> IF i = 0 THEN 1 ELSE 10 * g[i - 1]]
    PROVE  Pow10(n) = g[n]
<1> DEFINE Def(h) == [i \in 0 .. n |-> IF i = 0 THEN 1 ELSE 10 * h[i - 1]]
           p == CHOOSE h : h = Def(h)
<1>1. Pow10(n) = p[n] BY DEF Pow10
<1>2. p = Def(p) BY Zenon
<1> HIDE DEF p
<1> DEFINE A == {i \in 0 .. n : p[i] = g[i]}
<1>3. 0 \in A BY <1>2
<1>4. ASSUME NEW i \in 1 .. n, i - 1 \in A PROVE i \in A
  <2>1. p[i] = 10 * p[i - 1] BY <1>2
  <2>2. g[i] = 10 * g[i - 1] OBVIOUS
  <2> QED BY <1>4, <2>1, <2>2
<1>5. n \in A
  <2> HIDE DEF A
  <2>1. 0 .. n \subseteq A BY <1>3, <1>4, FirstMissing
  <2> QED BY <2>1
<1> QED BY <1>1, <1>5

LEMMA PowFunction ==
    ASSUME NEW n \in Nat
    PROVE  \E g \in [0 .. n -> Nat \ {0}] :
              /\ g = [i \in 0 .. n |-> IF i = 0 THEN 1 ELSE 10 * g[i - 1]]
              /\ \A i \in 0 .. n : Pow10(i) = g[i]
<1> DEFINE S == Nat \ {0}
           F == [i \in 1 .. n |-> [x \in S |-> 10 * x]]
<1>1. F \in [1 .. n -> [S -> S]] /\ 1 \in S OBVIOUS
<1>2. PICK g \in [0 .. n -> S] : g[0] = 1 /\ \A i \in 1 .. n : g[i] = F[i][g[i - 1]]
  <2> HIDE DEF F, S
  <2>1. PICK g : Run(g, n, S, 1, F) BY <1>1, Recursion, Zenon
  <2> QED BY <2>1, Zenon DEF Run
<1>3. \A i \in 1 .. n : g[i] = 10 * g[i - 1]
  <2> TAKE i \in 1 .. n
  <2>1. g[i - 1] \in S OBVIOUS
  <2> QED BY <1>2, <2>1
<1>4. g = [i \in 0 .. n |-> IF i = 0 THEN 1 ELSE 10 * g[i - 1]] BY <1>2, <1>3
<1>5. ASSUME NEW k \in 0 .. n PROVE Pow10(k) = g[k]
  <2> DEFINE h == [i \in 0 .. k |-> g[i]]
  <2>1. h = [i \in 0 .. k |-> IF i = 0 THEN 1 ELSE 10 * h[i - 1]] BY <1>2, <1>3
  <2>2. h[k] = g[k] /\ k \in Nat OBVIOUS
  <2> HIDE DEF h
  <2> QED BY <2>1, <2>2, PowIs
<1> QED BY <1>4, <1>5

LEMMA PowFacts ==
    /\ Pow10(0) = 1
    /\ \A n \in Nat : Pow10(n) \in Nat \ {0} /\ Pow10(n + 1) = 10 * Pow10(n)
<1>1. ASSUME NEW n \in Nat
      PROVE  Pow10(0) = 1 /\ Pow10(n) \in Nat \ {0} /\ Pow10(n + 1) = 10 * Pow10(n)
  <2>1. PICK g \in [0 .. n + 1 -> Nat \ {0}] :
          /\ g = [i \in 0 .. n + 1 |-> IF i = 0 THEN 1 ELSE 10 * g[i - 1]]
          /\ \A i \in 0 .. n + 1 : Pow10(i) = g[i]
    <3>1. n + 1 \in Nat OBVIOUS
    <3> QED BY <3>1, PowFunction, Zenon
  <2>2. 0 \in 0 .. n + 1 /\ n \in 0 .. n + 1 /\ n + 1 \in 0 .. n + 1 OBVIOUS
  <2>3. g[0] = 1 /\ g[n + 1] = 10 * g[n] BY <2>1, <2>2
  <2> QED BY <2>1, <2>2, <2>3
<1> QED BY <1>1

LEMMA PowAdds == \A a, b \in Nat : Pow10(a + b) = Pow10(a) * Pow10(b)
<1> SUFFICES ASSUME NEW a \in Nat, NEW b \in Nat PROVE Pow10(a + b) = Pow10(a) * Pow10(b)
  OBVIOUS
<1> DEFINE A == {i \in 0 .. b : Pow10(a + i) = Pow10(a) * Pow10(i)}
<1>1. 0 \in A BY PowFacts
<1>2. ASSUME NEW i \in 1 .. b, i - 1 \in A PROVE i \in A
  <2>1. i - 1 \in Nat /\ a + i - 1 \in Nat /\ i \in 0 .. b OBVIOUS
  <2>2. Pow10(i) = 10 * Pow10(i - 1)
    <3>1. Pow10((i - 1) + 1) = 10 * Pow10(i - 1) BY <2>1, PowFacts
    <3>2. (i - 1) + 1 = i OBVIOUS
    <3> QED BY <3>1, <3>2
  <2>3. Pow10(a + i) = 10 * Pow10(a + (i - 1))
    <3>1. a + (i - 1) \in Nat /\ (a + (i - 1)) + 1 = a + i OBVIOUS
    <3>2. Pow10((a + (i - 1)) + 1) = 10 * Pow10(a + (i - 1)) BY <3>1, PowFacts
    <3> QED BY <3>1, <3>2
  <2>4. Pow10(a + (i - 1)) = Pow10(a) * Pow10(i - 1) BY <1>2
  <2>5. \A x, y \in Nat : 10 * (x * y) = x * (10 * y) OBVIOUS
  <2>6. Pow10(a) \in Nat /\ Pow10(i - 1) \in Nat BY <2>1, PowFacts
  <2>7. Pow10(a + i) = Pow10(a) * Pow10(i) BY <2>2, <2>3, <2>4, <2>5, <2>6
  <2> QED BY <2>1, <2>7
<1>3. b \in A
  <2> HIDE DEF A
  <2>1. 0 .. b \subseteq A BY <1>1, <1>2, FirstMissing
  <2> QED BY <2>1
<1> QED BY <1>3

-----------------------------------------------------------------------------
(* The value of a sequence of digits.                                      *)
Reads(V, ds) == V[0] = 0 /\ \A i \in 1 .. Len(ds) : V[i] = 10 * V[i - 1] + ds[i]

LEMMA DigitsAre ==
    ASSUME NEW ds \in Seq(Digit)
    PROVE  Len(ds) \in Nat /\ \A i \in 1 .. Len(ds) : ds[i] \in 0 .. 9
<1>1. Len(ds) \in Nat BY LenProperties
<1>2. \A i \in 1 .. Len(ds) : ds[i] \in Digit BY ElementOfSeq
<1> QED BY <1>1, <1>2 DEF Digit

LEMMA ValueIs ==
    ASSUME NEW ds, Len(ds) \in Nat, NEW V, Reads(V, ds)
    PROVE  Value(ds) = V[Len(ds)]
<1> DEFINE n == Len(ds)
           Def(h) == [i \in 0 .. n |-> IF i = 0 THEN 0 ELSE 10 * h[i - 1] + ds[i]]
           v == CHOOSE h : h = Def(h)
           g == [i \in 0 .. n |-> V[i]]
<1>1. Value(ds) = v[n] BY DEF Value
<1>2. v = Def(v)
  <2>1. g = Def(g) BY DEF Reads
  <2> HIDE DEF g, Def
  <2> QED BY <2>1, Zenon
<1> HIDE DEF v
<1> DEFINE A == {i \in 0 .. n : v[i] = V[i]}
<1>3. 0 \in A BY <1>2 DEF Reads
<1>4. ASSUME NEW i \in 1 .. n, i - 1 \in A PROVE i \in A
  <2>1. v[i] = 10 * v[i - 1] + ds[i] BY <1>2
  <2>2. V[i] = 10 * V[i - 1] + ds[i] BY DEF Reads
  <2> QED BY <1>4, <2>1, <2>2
<1>5. n \in A
  <2> HIDE DEF A
  <2>1. 0 .. n \subseteq A BY <1>3, <1>4, FirstMissing
  <2> QED BY <2>1
<1> QED BY <1>1, <1>5

LEMMA ValueFunction ==
    ASSUME NEW ds \in Seq(Digit)
    PROVE  \E V \in [0 .. Len(ds) -> Nat] : Reads(V, ds) /\ Value(ds) = V[Len(ds)]
<1> DEFINE n == Len(ds)
           F == [i \in 1 .. n |-> [x \in Nat |-> 10 * x + ds[i]]]
<1>1. n \in Nat /\ \A i \in 1 .. n : ds[i] \in 0 .. 9 BY DigitsAre
<1>2. F \in [1 .. n -> [Nat -> Nat]]
  <2> HIDE DEF n
  <2> QED BY <1>1
<1>3. PICK V : Run(V, n, Nat, 0, F)
  <2> HIDE DEF n, F
  <2>1. 0 \in Nat OBVIOUS
  <2> QED BY <1>1, <1>2, <2>1, Recursion, Zenon
<1>4. V \in [0 .. n -> Nat] /\ V[0] = 0 BY <1>3 DEF Run
<1>5. \A i \in 1 .. n : V[i] = 10 * V[i - 1] + ds[i]
  <2> TAKE i \in 1 .. n
  <2>1. V[i] = F[i][V[i - 1]] BY <1>3 DEF Run
  <2>2. V[i - 1] \in Nat BY <1>1, <1>4
  <2> QED BY <2>1, <2>2
<1>6. Reads(V, ds) BY <1>4, <1>5 DEF Reads
<1>7. Value(ds) = V[n] BY <1>1, <1>6, ValueIs
<1> QED BY <1>4, <1>6, <1>7, Zenon

LEMMA ValueNat == \A ds \in Seq(Digit) : Value(ds) \in Nat
<1> TAKE ds \in Seq(Digit)
<1>1. PICK V \in [0 .. Len(ds) -> Nat] : Reads(V, ds) /\ Value(ds) = V[Len(ds)] BY ValueFunction
<1> QED BY <1>1, DigitsAre

(* The digits of b after those of a.                                       *)
LEMMA ValueConcat ==
    ASSUME NEW a \in Seq(Digit), NEW b \in Seq(Digit)
    PROVE  Value(a \o b) = Value(a) * Pow10(Len(b)) + Value(b)
<1> DEFINE m == Len(a)  n == Len(b)
<1>1. a \o b \in Seq(Digit) /\ Len(a \o b) = m + n /\ m \in Nat /\ n \in Nat
  BY ConcatProperties, LenProperties
<1>2. /\ \A i \in 1 .. m : (a \o b)[i] = a[i]
      /\ \A i \in 1 .. n : (a \o b)[m + i] = b[i] /\ b[i] \in 0 .. 9
  BY ConcatProperties, DigitsAre
<1> HIDE DEF m, n
<1>3. PICK W \in [0 .. m + n -> Nat] : Reads(W, a \o b) /\ Value(a \o b) = W[m + n]
  BY <1>1, ValueFunction, Zenon
<1>4. PICK V \in [0 .. n -> Nat] : Reads(V, b) /\ Value(b) = V[n] BY ValueFunction, Zenon DEF n
<1>5. Value(a) = W[m]
  <2>1. Reads(W, a) BY <1>1, <1>2, <1>3 DEF Reads, m
  <2> QED BY <1>1, <2>1, ValueIs DEF m
<1> DEFINE A == {i \in 0 .. n : W[m + i] = W[m] * Pow10(i) + V[i]}
<1>6. 0 \in A
  <2>1. W[m] \in Nat BY <1>1
  <2> QED BY <1>1, <1>4, <2>1, PowFacts DEF Reads
<1>7. ASSUME NEW i \in 1 .. n, i - 1 \in A PROVE i \in A
  <2>1. m + i \in 1 .. m + n /\ i - 1 \in Nat BY <1>1
  <2>2. W[m + i] = 10 * W[m + (i - 1)] + b[i]
    <3>1. W[m + i] = 10 * W[(m + i) - 1] + (a \o b)[m + i] BY <1>1, <1>3, <2>1 DEF Reads
    <3>2. (m + i) - 1 = m + (i - 1) BY <1>1
    <3> QED BY <1>2, <3>1, <3>2
  <2>3. V[i] = 10 * V[i - 1] + b[i] BY <1>4 DEF Reads, n
  <2>4. Pow10(i) = 10 * Pow10(i - 1)
    <3>1. Pow10((i - 1) + 1) = 10 * Pow10(i - 1) BY <2>1, PowFacts
    <3>2. (i - 1) + 1 = i OBVIOUS
    <3> QED BY <3>1, <3>2
  <2>5. W[m + (i - 1)] = W[m] * Pow10(i - 1) + V[i - 1] BY <1>7
  <2>6. W[m] \in Nat /\ V[i - 1] \in Nat
    <3>1. m \in 0 .. m + n /\ i - 1 \in 0 .. n BY <1>1
    <3> QED BY <1>3, <1>4, <3>1
  <2>7. b[i] \in 0 .. 9 BY <1>2
  <2>8. 10 * (W[m] * Pow10(i - 1) + V[i - 1]) + b[i]
          = W[m] * (10 * Pow10(i - 1)) + (10 * V[i - 1] + b[i])
    <3> DEFINE x == W[m]  y == Pow10(i - 1)  z == V[i - 1]  d == b[i]
    <3>1. x \in Nat /\ y \in Nat /\ z \in Nat /\ d \in 0 .. 9 BY <2>1, <2>6, <2>7, PowFacts
    <3> HIDE DEF x, y, z, d
    <3>2. 10 * (x * y + z) + d = x * (10 * y) + (10 * z + d) BY <3>1
    <3> QED BY <3>2 DEF x, y, z, d
  <2>9. W[m + i] = W[m] * Pow10(i) + V[i] BY <2>2, <2>3, <2>4, <2>5, <2>8, Zenon
  <2> QED BY <2>9
<1>8. n \in A
  <2> HIDE DEF A
  <2>1. 0 .. n \subseteq A BY <1>1, <1>6, <1>7, FirstMissing
  <2> QED BY <1>1, <2>1
<1> QED BY <1>1, <1>3, <1>4, <1>5, <1>8 DEF n

(* n digits are worth less than 10 ^ n, and nothing if they are zeros.      *)
LEMMA ValueBound ==
    ASSUME NEW ds \in Seq(Digit)
    PROVE  /\ Value(ds) < Pow10(Len(ds))
           /\ Value(ds) = 0 <=> \A i \in 1 .. Len(ds) : ds[i] = 0
<1> DEFINE n == Len(ds)
<1>1. n \in Nat /\ \A i \in 1 .. n : ds[i] \in 0 .. 9 BY DigitsAre
<1>2. PICK V \in [0 .. n -> Nat] : Reads(V, ds) /\ Value(ds) = V[n] BY ValueFunction
<1> DEFINE A == {k \in 0 .. n : /\ V[k] < Pow10(k)
                                /\ V[k] = 0 <=> \A i \in 1 .. k : ds[i] = 0}
<1>3. 0 \in A
  <2>1. 0 \in 0 .. n BY <1>1
  <2>2. V[0] = 0 /\ Pow10(0) = 1 BY <1>2, PowFacts DEF Reads
  <2>3. \A i \in 1 .. 0 : ds[i] = 0 OBVIOUS
  <2> HIDE DEF n
  <2> QED BY <2>1, <2>2, <2>3
<1>4. ASSUME NEW k \in 1 .. n, k - 1 \in A PROVE k \in A
  <2>1. V[k] = 10 * V[k - 1] + ds[k] BY <1>2 DEF Reads
  <2>2. V[k - 1] \in Nat /\ ds[k] \in 0 .. 9 /\ k - 1 \in Nat BY <1>1, <1>2
  <2>3. Pow10(k) = 10 * Pow10(k - 1) /\ Pow10(k - 1) \in Nat
    <3>1. Pow10((k - 1) + 1) = 10 * Pow10(k - 1) BY <2>2, PowFacts
    <3>2. (k - 1) + 1 = k OBVIOUS
    <3> QED BY <2>2, <3>1, <3>2, PowFacts
  <2>4. V[k - 1] < Pow10(k - 1) BY <1>4
  <2>5. V[k] < Pow10(k) BY <2>1, <2>2, <2>3, <2>4
  <2>6. V[k] = 0 <=> V[k - 1] = 0 /\ ds[k] = 0 BY <2>1, <2>2
  <2>7. V[k - 1] = 0 <=> \A i \in 1 .. k - 1 : ds[i] = 0 BY <1>4
  <2>8. 1 .. k = 1 .. k - 1 \union {k} OBVIOUS
  <2>9. V[k] = 0 <=> \A i \in 1 .. k : ds[i] = 0 BY <2>6, <2>7, <2>8
  <2> QED BY <2>5, <2>9
<1>5. n \in A
  <2> HIDE DEF A
  <2>1. 0 .. n \subseteq A BY <1>1, <1>3, <1>4, FirstMissing
  <2> QED BY <1>1, <2>1
<1> QED BY <1>2, <1>5

(* Reading with a look at MaxInt before each digit is reading, and a look   *)
(* at MaxInt at the end.                                                   *)
LEMMA ReadDigitsIs ==
    ASSUME NEW ds \in Seq(Digit)
    PROVE  ReadDigits(ds) = IF Value(ds) > MaxInt THEN Err ELSE Value(ds)
<1> DEFINE n == Len(ds)
<1>1. n \in Nat /\ \A i \in 1 .. n : ds[i] \in 0 .. 9 BY DigitsAre
<1>2. PICK V \in [0 .. n -> Nat] : Reads(V, ds) /\ Value(ds) = V[n] BY ValueFunction
<1> DEFINE R == [i \in 0 .. n |-> IF V[i] > MaxInt THEN Err ELSE V[i]]
           Step(v, d) == IF v = Err THEN Err
                         ELSE IF v > (MaxInt - d) \div 10 THEN Err ELSE v * 10 + d
           Def(h) == [i \in 0 .. n |-> IF i = 0 THEN 0 ELSE Step(h[i - 1], ds[i])]
           r == CHOOSE h : h = Def(h)
<1>3. ReadDigits(ds) = r[n] BY DEF ReadDigits
<1>4. MaxInt \in Nat /\ Err \notin Int BY NumberAssumption
<1>5. R[0] = 0 BY <1>1, <1>2, <1>4 DEF Reads
<1>6. ASSUME NEW i \in 1 .. n PROVE R[i] = Step(R[i - 1], ds[i])
  <2>1. /\ V[i] = 10 * V[i - 1] + ds[i] /\ V[i - 1] \in Nat /\ ds[i] \in 0 .. 9
        /\ i \in 0 .. n /\ i - 1 \in 0 .. n
    BY <1>1, <1>2 DEF Reads
  <2>2. \A v \in Nat, d \in 0 .. 9 : v > (MaxInt - d) \div 10 <=> 10 * v + d > MaxInt BY <1>4
  <2>3. CASE V[i - 1] > MaxInt
    <3>1. R[i - 1] = Err /\ R[i] = Err BY <1>4, <2>1, <2>3
    <3> QED BY <3>1
  <2>4. CASE ~(V[i - 1] > MaxInt)
    <3>1. R[i - 1] = V[i - 1] /\ R[i - 1] # Err BY <1>4, <2>1, <2>4
    <3>2. R[i - 1] > (MaxInt - ds[i]) \div 10 <=> V[i] > MaxInt BY <2>1, <2>2, <3>1
    <3>3. R[i] = IF V[i] > MaxInt THEN Err ELSE V[i] BY <2>1
    <3>4. V[i] = R[i - 1] * 10 + ds[i] BY <2>1, <3>1
    <3> HIDE DEF R
    <3> QED BY <3>1, <3>2, <3>3, <3>4
  <2> QED BY <2>3, <2>4
<1>7. r = Def(r)
  <2>1. R = Def(R)
    <3>1. \A i \in 0 .. n : R[i] = IF i = 0 THEN 0 ELSE Step(R[i - 1], ds[i])
      <4> HIDE DEF R, Step
      <4>1. \A i \in 0 .. n : i # 0 => i \in 1 .. n BY <1>1
      <4> QED BY <1>5, <1>6, <4>1
    <3>2. R = [i \in 0 .. n |-> R[i]] OBVIOUS
    <3> HIDE DEF R, Step
    <3> QED BY <3>1, <3>2
  <2> HIDE DEF R, Def
  <2> QED BY <2>1, Zenon
<1> DEFINE A == {i \in 0 .. n : r[i] = R[i]}
<1>8. 0 \in A
  <2> HIDE DEF r, R, Step
  <2> QED BY <1>1, <1>5, <1>7
<1>9. ASSUME NEW i \in 1 .. n, i - 1 \in A PROVE i \in A
  <2> HIDE DEF r, R, Step
  <2>1. r[i] = Step(r[i - 1], ds[i]) BY <1>1, <1>7
  <2> QED BY <1>6, <1>9, <2>1
<1>10. n \in A
  <2> HIDE DEF A
  <2>1. 0 .. n \subseteq A BY <1>1, <1>8, <1>9, FirstMissing
  <2> QED BY <1>1, <2>1
<1>11. R[n] = IF V[n] > MaxInt THEN Err ELSE V[n] BY <1>1
<1> HIDE DEF r, R
<1> QED BY <1>2, <1>3, <1>10, <1>11

-----------------------------------------------------------------------------
(* ParseFixed.                                                             *)
LEMMA ScalesUp ==
    ASSUME NEW x \in Int, NEW p \in Int, NEW c \in Nat \ {0}, x < p
    PROVE  x * c + c <= p * c
<1>1. PICK d \in Nat : p = x + 1 + d
  <2>1. p - x - 1 \in Nat /\ p = x + 1 + (p - x - 1) OBVIOUS
  <2> QED BY <2>1
<1>2. p * c = x * c + c + d * c BY <1>1
<1>3. d * c >= 0 OBVIOUS
<1>4. x * c \in Int /\ d * c \in Int OBVIOUS
<1> QED BY <1>2, <1>3, <1>4

LEMMA NoRemainder ==
    ASSUME NEW x \in Int, NEW p \in Int, NEW c \in Nat \ {0}, NEW t \in 0 .. c - 1
    PROVE  x * c + t = p * c <=> t = 0 /\ p = x
<1>1. x * c \in Int /\ p * c \in Int OBVIOUS
<1>2. CASE x < p
  <2>1. x * c + c <= p * c BY <1>2, ScalesUp
  <2> QED BY <1>1, <1>2, <2>1
<1>3. CASE p < x
  <2>1. p * c + c <= x * c BY <1>3, ScalesUp
  <2> QED BY <1>1, <1>3, <2>1
<1>4. CASE x = p BY <1>1, <1>4
<1> QED BY <1>2, <1>3, <1>4

LEMMA KeptIs ==
    ASSUME NEW w \in WireNumber
    PROVE  \E rest \in Seq(Digit) :
              /\ w.int \in Seq(Digit) /\ w.frac \in Seq(Digit)
              /\ Kept(w.frac) \in Seq(Digit)
              /\ w.int \o w.frac = (w.int \o Kept(w.frac)) \o rest
              /\ Len(Kept(w.frac)) \in 0 .. Decimals
              /\ Len(w.frac) = Len(Kept(w.frac)) + Len(rest)
              /\ Len(rest) > 0 => Len(Kept(w.frac)) = Decimals
              /\ Value(rest) = 0 <=> \A i \in Decimals + 1 .. Len(w.frac) : w.frac[i] = 0
<1> DEFINE f == w.frac
           n == Len(f)
           k == IF n > Decimals THEN Decimals ELSE n
           rest == SubSeq(f, k + 1, n)
<1>1. w.int \in Seq(Digit) /\ f \in Seq(Digit) BY DEF WireNumber
<1>2. n \in Nat /\ Decimals \in Nat BY <1>1, LenProperties, NumberAssumption
<1>3. Kept(f) = SubSeq(f, 1, k) BY DEF Kept
<1> HIDE DEF f
<1>4. k \in 0 .. n /\ k \in 0 .. Decimals BY <1>2
<1> HIDE DEF n, k
<1>5. \A i \in 1 .. n : f[i] \in Digit BY <1>1, ElementOfSeq DEF n
<1>6. Kept(f) \in Seq(Digit) /\ Len(Kept(f)) = k
  <2>1. SubSeq(f, 1, k) \in Seq(Digit)
    <3>1. \A i \in 1 .. k : f[i] \in Digit BY <1>2, <1>4, <1>5
    <3> QED BY <1>4, <3>1, SubSeqProperties
  <2>2. Len(SubSeq(f, 1, k)) = k BY <1>4, SubSeqProperties
  <2> QED BY <1>3, <2>1, <2>2
<1>7. rest \in Seq(Digit) /\ Len(rest) = n - k
      /\ \A i \in 1 .. n - k : rest[i] = f[k + i]
  <2>1. \A i \in k + 1 .. n : f[i] \in Digit BY <1>2, <1>4, <1>5
  <2>2. k + 1 \in Int /\ n \in Int BY <1>2, <1>4
  <2>3. rest \in Seq(Digit) BY <2>1, <2>2, SubSeqProperties
  <2>4. Len(rest) = n - k BY <1>2, <1>4, <2>2, SubSeqProperties
  <2>5. \A i \in 1 .. n - k : rest[i] = f[k + i] BY <1>2, <1>4, <2>2, <2>4, SubSeqProperties
  <2> QED BY <2>3, <2>4, <2>5
<1>8. f = Kept(f) \o rest
  <2>1. Kept(f) \o rest \in Seq(Digit) /\ Len(Kept(f) \o rest) = n
    BY <1>2, <1>4, <1>6, <1>7, ConcatProperties
  <2>2. \A i \in 1 .. k : Kept(f)[i] = f[i] BY <1>2, <1>3, <1>4, SubSeqProperties
  <2>3. ASSUME NEW i \in 1 .. n PROVE (Kept(f) \o rest)[i] = f[i]
    <3>1. (Kept(f) \o rest)[i] = IF i <= k THEN Kept(f)[i] ELSE rest[i - k]
      <4>1. i \in 1 .. Len(Kept(f)) + Len(rest) BY <1>2, <1>4, <1>6, <1>7
      <4> HIDE DEF rest
      <4> QED BY <1>6, <1>7, <4>1, ConcatProperties
    <3>2. CASE i <= k
      <4>1. i \in 1 .. k BY <1>2, <1>4, <3>2
      <4> QED BY <2>2, <3>1, <3>2, <4>1
    <3>3. CASE ~(i <= k)
      <4>1. i - k \in 1 .. n - k /\ k + (i - k) = i BY <1>2, <1>4, <3>3
      <4>2. rest[i - k] = f[k + (i - k)] BY <1>7, <4>1
      <4> HIDE DEF rest
      <4> QED BY <3>1, <3>3, <4>1, <4>2
    <3> QED BY <3>2, <3>3
  <2> HIDE DEF rest
  <2> QED BY <1>1, <2>1, <2>3, SeqEqual DEF n
<1> HIDE DEF rest
<1>9. w.int \o f = (w.int \o Kept(f)) \o rest
  <2>1. \A p, q, r \in Seq(Digit) : (p \o q) \o r = p \o (q \o r) BY ConcatAssociative
  <2>2. (w.int \o Kept(f)) \o rest = w.int \o (Kept(f) \o rest)
    BY <1>1, <1>6, <1>7, <2>1, Zenon
  <2> QED BY <1>8, <2>2, Zenon
<1>10. n - k > 0 => k = Decimals BY <1>2 DEF k
<1>11. Value(rest) = 0 <=> \A i \in Decimals + 1 .. n : f[i] = 0
  <2>1. Value(rest) = 0 <=> \A i \in 1 .. n - k : rest[i] = 0 BY <1>7, ValueBound
  <2>2. (\A i \in 1 .. n - k : rest[i] = 0) <=> \A i \in k + 1 .. n : f[i] = 0
    <3>1. \A i \in 1 .. n - k : k + i \in k + 1 .. n BY <1>2, <1>4
    <3>2. \A j \in k + 1 .. n : j - k \in 1 .. n - k /\ k + (j - k) = j BY <1>2, <1>4
    <3> QED BY <1>7, <3>1, <3>2
  <2>3. CASE n > Decimals
    <3>1. k = Decimals BY <2>3 DEF k
    <3> QED BY <2>1, <2>2, <3>1
  <2>4. CASE ~(n > Decimals)
    <3>1. k = n BY <2>4 DEF k
    <3>2. k + 1 .. n = {} /\ Decimals + 1 .. n = {} BY <1>2, <2>4, <3>1
    <3> QED BY <2>1, <2>2, <3>2
  <2> QED BY <2>3, <2>4
<1>12. n = Len(Kept(f)) + Len(rest) BY <1>2, <1>4, <1>6, <1>7
<1> QED BY <1>1, <1>4, <1>6, <1>7, <1>9, <1>10, <1>11, <1>12 DEF f, n

(* The only candidate: the kept digits, padded, if the others are zeros.    *)
Read(w) == Value(w.int \o Kept(w.frac))
Pad(w)  == Pow10(Decimals - Len(Kept(w.frac)))

NoneLost(w) == \A i \in Decimals + 1 .. Len(w.frac) : w.frac[i] = 0

LEMMA ReadNat ==
    ASSUME NEW w \in WireNumber
    PROVE  Read(w) \in Nat /\ Pad(w) \in Nat \ {0}
<1>1. w.int \in Seq(Digit) /\ Kept(w.frac) \in Seq(Digit) /\ Len(Kept(w.frac)) \in 0 .. Decimals
  BY KeptIs
<1>2. w.int \o Kept(w.frac) \in Seq(Digit) BY <1>1, ConcatProperties
<1>3. Decimals - Len(Kept(w.frac)) \in Nat BY <1>1, NumberAssumption
<1> QED BY <1>2, <1>3, ValueNat, PowFacts DEF Read, Pad

LEMMA ExactIs ==
    ASSUME NEW w \in WireNumber, NEW p \in Int
    PROVE  Exact(w, p) <=> NoneLost(w) /\ p = Signed(w, Read(w) * Pad(w))
<1>1. PICK rest \in Seq(Digit) :
        /\ w.int \in Seq(Digit) /\ w.frac \in Seq(Digit)
        /\ Kept(w.frac) \in Seq(Digit)
        /\ w.int \o w.frac = (w.int \o Kept(w.frac)) \o rest
        /\ Len(Kept(w.frac)) \in 0 .. Decimals
        /\ Len(w.frac) = Len(Kept(w.frac)) + Len(rest)
        /\ Len(rest) > 0 => Len(Kept(w.frac)) = Decimals
        /\ Value(rest) = 0 <=> NoneLost(w)
  BY KeptIs, Zenon DEF NoneLost
<1> DEFINE u == Read(w)
           t == Value(rest)
           k == Len(Kept(w.frac))
           R == Pow10(Len(rest))
           K == Pow10(k)
           P == Pad(w)
<1>2. Len(rest) \in Nat /\ k \in Nat /\ Decimals - k \in Nat /\ Decimals = (Decimals - k) + k
  BY <1>1, LenProperties, NumberAssumption
<1>3. u \in Nat /\ P \in Nat \ {0} BY ReadNat
<1>4. R \in Nat \ {0} /\ K \in Nat \ {0} BY <1>2, PowFacts
<1>5. t \in 0 .. R - 1
  <2>1. t \in Nat /\ t < R BY ValueNat, ValueBound
  <2> QED BY <1>4, <2>1
<1>6. Value(w.int \o w.frac) = u * R + t
  <2>1. w.int \o Kept(w.frac) \in Seq(Digit) BY <1>1, ConcatProperties
  <2>2. Value((w.int \o Kept(w.frac)) \o rest) = Value(w.int \o Kept(w.frac)) * R + t
    BY <2>1, ValueConcat
  <2> QED BY <1>1, <2>2 DEF Read
<1>7. Pow10(Decimals) = P * K
  <2>1. Pow10((Decimals - k) + k) = Pow10(Decimals - k) * Pow10(k) BY <1>2, PowAdds
  <2> QED BY <1>2, <2>1 DEF Pad
<1>8. Pow10(Len(w.frac)) = K * R BY <1>1, <1>2, PowAdds
<1>9. Exact(w, p) <=> Signed(w, u * R + t) * (P * K) = p * (K * R) BY <1>6, <1>7, <1>8 DEF Exact
<1>10. t = 0 <=> NoneLost(w) BY <1>1
<1>11. CASE Len(rest) = 0
  <2>1. R = 1 /\ t = 0 BY <1>5, <1>11, PowFacts
  <2>2. Exact(w, p) <=> Signed(w, u) * (P * K) = p * K
    <3>1. u * R + t = u /\ K * R = K BY <1>3, <1>4, <2>1
    <3> QED BY <1>9, <3>1
  <2>3. Signed(w, u) * (P * K) = Signed(w, u * P) * K
    <3> HIDE DEF u, P, K
    <3>1. CASE w.neg BY <1>3, <1>4, <3>1 DEF Signed
    <3>2. CASE ~w.neg BY <1>3, <1>4, <3>2 DEF Signed
    <3> QED BY <3>1, <3>2
  <2>4. Signed(w, u * P) \in Int
    <3> HIDE DEF u, P
    <3> QED BY <1>3 DEF Signed
  <2>5. Signed(w, u * P) * K + 0 = p * K <=> p = Signed(w, u * P)
    <3> HIDE DEF u, P, K
    <3>1. 0 \in 0 .. K - 1 BY <1>4
    <3> QED BY <1>4, <2>4, <3>1, NoRemainder
  <2>6. Signed(w, u * P) * K + 0 = Signed(w, u * P) * K
    <3> HIDE DEF u, P, K
    <3> QED BY <1>4, <2>4
  <2> QED BY <1>10, <2>1, <2>2, <2>3, <2>5, <2>6
<1>12. CASE Len(rest) > 0
  <2>1. P = 1
    <3>1. Decimals - k = 0 BY <1>1, <1>2, <1>12
    <3> QED BY <3>1, PowFacts DEF Pad
  <2> DEFINE s == Signed(w, u * R + t)
  <2>2. s \in Int
    <3> HIDE DEF u, R, t
    <3> QED BY <1>3, <1>4, <1>5 DEF Signed
  <2>3. Exact(w, p) <=> s = p * R
    <3> HIDE DEF u, R, t, K, s
    <3>1. P * K = K BY <1>4, <2>1
    <3>2. p * (K * R) = (p * R) * K /\ p * R \in Int BY <1>4
    <3>3. s * K + 0 = (p * R) * K <=> p * R = s
      <4>1. 0 \in 0 .. K - 1 BY <1>4
      <4> HIDE DEF P
      <4> QED BY <1>4, <2>2, <3>2, <4>1, NoRemainder
    <3>4. s * K + 0 = s * K BY <1>4, <2>2
    <3>5. Exact(w, p) <=> s * (P * K) = p * (K * R) BY <1>9 DEF s
    <3> QED BY <3>1, <3>2, <3>3, <3>4, <3>5
  <2>4. CASE ~w.neg
    <3>1. s = u * R + t BY <2>4 DEF Signed
    <3>2. u * R + t = p * R <=> t = 0 /\ p = u
      <4> HIDE DEF u, R, t
      <4> QED BY <1>3, <1>4, <1>5, NoRemainder
    <3>3. Signed(w, u * P) = u BY <1>3, <2>1, <2>4 DEF Signed
    <3> QED BY <1>10, <2>3, <3>1, <3>2, <3>3
  <2>5. CASE w.neg
    <3>1. s = -(u * R + t) BY <2>5 DEF Signed
    <3>2. u * R + t = (-p) * R <=> t = 0 /\ -p = u
      <4>1. -p \in Int OBVIOUS
      <4> HIDE DEF u, R, t
      <4> QED BY <1>3, <1>4, <1>5, <4>1, NoRemainder
    <3>3. -(u * R + t) = p * R <=> u * R + t = (-p) * R
      <4> HIDE DEF u, R, t
      <4>1. u * R \in Nat /\ p * R \in Int /\ (-p) * R = -(p * R) BY <1>3, <1>4
      <4> QED BY <1>5, <4>1
    <3>4. -p = u <=> p = -u BY <1>3
    <3>5. Signed(w, u * P) = -u BY <1>3, <2>1, <2>5 DEF Signed
    <3> QED BY <1>10, <2>3, <3>1, <3>2, <3>3, <3>4, <3>5
  <2> QED BY <2>4, <2>5
<1> QED BY <1>2, <1>11, <1>12

(* A number within the type is parsed exactly.                             *)
LEMMA ParseFixedIs ==
    ASSUME NEW w \in WireNumber
    PROVE  ParseFixed(w) =
             IF \/ w.int \o w.frac = <<>> \/ w.junk
                \/ ~NoneLost(w)
                \/ Read(w) * Pad(w) > MaxInt
             THEN Err ELSE Signed(w, Read(w) * Pad(w))
<1> DEFINE ds == w.int \o Kept(w.frac)
           u == Read(w)
           P == Pad(w)
<1>1. MaxInt \in Nat /\ Err \notin Int BY NumberAssumption
<1>2. u \in Nat /\ P \in Nat \ {0} BY ReadNat
<1>3. ReadDigits(ds) = IF u > MaxInt THEN Err ELSE u
  <2>1. w.int \in Seq(Digit) /\ Kept(w.frac) \in Seq(Digit) BY KeptIs
  <2>2. ds \in Seq(Digit) BY <2>1, ConcatProperties
  <2> QED BY <2>2, ReadDigitsIs DEF Read
<1>4. (\E i \in Decimals + 1 .. Len(w.frac) : w.frac[i] # 0) <=> ~NoneLost(w) BY DEF NoneLost
<1>5. ParseFixed(w) =
        IF \/ w.int \o w.frac = <<>> \/ w.junk \/ ~NoneLost(w) \/ ReadDigits(ds) = Err
        THEN Err
        ELSE IF Len(Kept(w.frac)) < Decimals /\ ReadDigits(ds) > MaxInt \div P THEN Err
        ELSE IF w.neg THEN -(ReadDigits(ds) * P) ELSE ReadDigits(ds) * P
  BY <1>4 DEF ParseFixed, Pad
<1>6. u > MaxInt => u * P > MaxInt
  <2> HIDE DEF u, P
  <2>1. ASSUME u > MaxInt PROVE u * P >= u
    <3>1. PICK q \in Nat : P = 1 + q
      <4>1. P - 1 \in Nat /\ P = 1 + (P - 1) BY <1>2
      <4> QED BY <4>1
    <3>2. u * P = u + u * q /\ u * q \in Nat BY <1>2, <3>1
    <3> QED BY <1>2, <3>2
  <2>2. u * P \in Nat BY <1>2
  <2> QED BY <1>1, <1>2, <2>1, <2>2
<1>7. u > MaxInt \div P <=> u * P > MaxInt
  <2> HIDE DEF u, P
  <2> DEFINE q == MaxInt \div P  m == MaxInt % P
  <2>1. q \in Nat /\ m \in 0 .. P - 1 /\ MaxInt = q * P + m BY <1>1, <1>2
  <2> HIDE DEF q, m
  <2>2. q * P \in Nat /\ u * P \in Nat BY <1>2, <2>1
  <2>3. CASE u > q
    <3>1. q * P + P <= u * P BY <1>2, <2>1, <2>3, ScalesUp
    <3> QED BY <1>2, <2>1, <2>2, <2>3, <3>1 DEF q
  <2>4. CASE u < q
    <3>1. u * P + P <= q * P BY <1>2, <2>1, <2>4, ScalesUp
    <3> QED BY <1>2, <2>1, <2>2, <2>4, <3>1 DEF q
  <2>5. CASE u = q BY <1>2, <2>1, <2>2, <2>5 DEF q
  <2> QED BY <1>2, <2>1, <2>3, <2>4, <2>5
<1> HIDE DEF ds, u, P
<1>8. CASE u > MaxInt
  <2>1. ReadDigits(ds) = Err /\ u * P > MaxInt BY <1>3, <1>6, <1>8
  <2> QED BY <1>5, <2>1 DEF u, P
<1>9. CASE ~(u > MaxInt)
  <2>1. ReadDigits(ds) = u /\ u # Err BY <1>1, <1>2, <1>3, <1>9
  <2>2. CASE Len(Kept(w.frac)) < Decimals BY <1>5, <1>7, <2>1, <2>2 DEF Signed, u, P
  <2>3. CASE ~(Len(Kept(w.frac)) < Decimals)
    <3>1. Len(Kept(w.frac)) \in 0 .. Decimals BY KeptIs
    <3>2. Decimals - Len(Kept(w.frac)) = 0 BY <2>3, <3>1, NumberAssumption
    <3>3. P = 1 BY <3>2, PowFacts DEF P, Pad
    <3>4. ~(u * P > MaxInt) BY <1>2, <1>9, <3>3
    <3> QED BY <1>5, <2>1, <2>3, <3>4 DEF Signed, u, P
  <2> QED BY <2>2, <2>3
<1> QED BY <1>8, <1>9

LEMMA ParsesExactly == \A w \in WireNumber : ParsedExactly(w)
<1> TAKE w \in WireNumber
<1> DEFINE x == Read(w) * Pad(w)
<1>1. MaxInt \in Nat /\ Err \notin Int BY NumberAssumption
<1>2. x \in Nat /\ Signed(w, x) \in {x, -x}
  <2>1. Read(w) \in Nat /\ Pad(w) \in Nat BY ReadNat
  <2> QED BY <2>1 DEF Signed
<1>3. ParseFixed(w) = IF w.int \o w.frac = <<>> \/ w.junk \/ ~NoneLost(w) \/ x > MaxInt
                      THEN Err ELSE Signed(w, x)
  BY ParseFixedIs
<1>4. \A p \in Int : Exact(w, p) <=> NoneLost(w) /\ p = Signed(w, x) BY ExactIs
<1> HIDE DEF x
<1>5. ParseFixed(w) = Err \/ ParseFixed(w) \in -MaxInt .. MaxInt BY <1>1, <1>2, <1>3
<1>6. ASSUME NEW p \in -MaxInt .. MaxInt
      PROVE  ParseFixed(w) = p <=> ~w.junk /\ w.int \o w.frac # <<>> /\ Exact(w, p)
  <2>1. p \in Int /\ p # Err BY <1>1
  <2>2. p = Signed(w, x) => ~(x > MaxInt) BY <1>1, <1>2
  <2>3. Exact(w, p) <=> NoneLost(w) /\ p = Signed(w, x) BY <1>4, <2>1
  <2> QED BY <1>3, <2>1, <2>2, <2>3
<1> QED BY <1>5, <1>6 DEF ParsedExactly

-----------------------------------------------------------------------------
(* FormatFixed.                                                            *)
LEMMA QuotientIs ==
    ASSUME NEW x \in Nat, NEW c \in Nat \ {0}, NEW q \in Int, NEW r \in 0 .. c - 1,
           x = q * c + r
    PROVE  x \div c = q
<1> DEFINE d == x \div c
           m == x % c
<1>1. d \in Nat /\ m \in 0 .. c - 1 /\ x = d * c + m OBVIOUS
<1> HIDE DEF d, m
<1>2. d * c \in Int /\ q * c \in Int BY <1>1
<1>3. CASE d < q
  <2>1. d * c + c <= q * c BY <1>1, <1>3, ScalesUp
  <2> QED BY <1>1, <1>2, <2>1
<1>4. CASE q < d
  <2>1. q * c + c <= d * c BY <1>1, <1>4, ScalesUp
  <2> QED BY <1>1, <1>2, <2>1
<1> QED BY <1>1, <1>3, <1>4 DEF d

LEMMA NextQuotient ==
    ASSUME NEW u \in Nat, NEW Q \in Nat \ {0}
    PROVE  u \div Q = 10 * (u \div (10 * Q)) + ((u \div Q) % 10)
<1> DEFINE a == u \div Q
           b == u % Q
           c == a \div 10
           d == a % 10
<1>1. a \in Nat /\ b \in 0 .. Q - 1 /\ u = a * Q + b OBVIOUS
<1>2. c \in Nat /\ d \in 0 .. 9 /\ a = 10 * c + d
  <2> HIDE DEF a
  <2> QED BY <1>1
<1>3. u \div (10 * Q) = c
  <2> HIDE DEF a, b, c, d
  <2>1. a * Q = c * (10 * Q) + d * Q BY <1>2
  <2>2. d * Q \in Nat /\ d * Q <= 9 * Q
    <3>1. \A e \in 0 .. 9 : e * Q \in Nat /\ e * Q <= 9 * Q OBVIOUS
    <3> QED BY <1>2, <3>1
  <2>3. c * (10 * Q) \in Nat /\ 10 * Q \in Nat \ {0} BY <1>2
  <2>4. d * Q + b \in 0 .. 10 * Q - 1 BY <1>1, <2>2
  <2>5. u = c * (10 * Q) + (d * Q + b) BY <1>1, <2>1, <2>2, <2>3
  <2> QED BY <1>2, <2>3, <2>4, <2>5, QuotientIs
<1>4. a = 10 * (u \div (10 * Q)) + d
  <2> HIDE DEF a, c, d
  <2> QED BY <1>2, <1>3
<1> HIDE DEF c
<1> QED BY <1>4, Zenon

LEMMA FunctionIsSeq == ASSUME NEW S, NEW k \in Nat, NEW f \in [1 .. k -> S] PROVE f \in Seq(S)
<1>1. [1 .. k -> S] \in {[1 .. n -> S] : n \in Nat} OBVIOUS
<1>2. f \in UNION {[1 .. n -> S] : n \in Nat} BY <1>1
<1>3. UNION {[1 .. n -> S] : n \in Nat} = Seq(S) BY SeqDef, Zenon
<1> QED BY <1>2, <1>3, Zenon

LEMMA PrintedIs ==
    ASSUME NEW u \in Nat, NEW k \in Nat, u < Pow10(k)
    PROVE  /\ Printed(u, k) \in Seq(Digit) /\ Len(Printed(u, k)) = k
           /\ Value(Printed(u, k)) = u
<1> DEFINE ds == Printed(u, k)
           V  == [i \in 0 .. k |-> u \div Pow10(k - i)]
<1>1. ASSUME NEW i \in 0 .. k
      PROVE  Pow10(k - i) \in Nat \ {0} /\ u \div Pow10(k - i) \in Nat
  <2>1. Pow10(k - i) \in Nat \ {0} BY PowFacts
  <2> DEFINE Q == Pow10(k - i)
  <2>2. u \div Q \in Nat
    <3> HIDE DEF Q
    <3>1. Q \in Nat \ {0} BY <2>1 DEF Q
    <3> QED BY <3>1
  <2> QED BY <2>1, <2>2
<1>2. ASSUME NEW i \in 1 .. k PROVE (u \div Pow10(k - i)) % 10 \in Digit
  <2> DEFINE q == u \div Pow10(k - i)
  <2>1. q \in Nat BY <1>1
  <2> HIDE DEF q
  <2>2. q % 10 \in 0 .. 9 BY <2>1
  <2> QED BY <2>2 DEF q, Digit
<1>3. ds \in Seq(Digit) /\ Len(ds) = k
  <2>1. ds = [i \in 1 .. k |-> (u \div Pow10(k - i)) % 10] BY DEF Printed
  <2>2. \A i \in 1 .. k : ds[i] \in Digit BY <1>2, <2>1
  <2> HIDE DEF ds
  <2>3. ds \in [1 .. k -> Digit] BY <2>1, <2>2
  <2> HIDE DEF V
  <2>4. ds \in Seq(Digit) BY <2>3, FunctionIsSeq
  <2>5. Len(ds) = k BY <2>3, <2>4, LenProperties
  <2> QED BY <2>4, <2>5
<1>4. V[0] = 0
  <2> DEFINE P == Pow10(k)
  <2>1. P \in Nat \ {0} /\ u < P BY PowFacts
  <2>2. u \div P = 0
    <3> HIDE DEF P
    <3>1. u = 0 * P + u /\ u \in 0 .. P - 1 BY <2>1
    <3> QED BY <2>1, <3>1, QuotientIs
  <2> QED BY <2>2
<1>5. ASSUME NEW i \in 1 .. k PROVE V[i] = 10 * V[i - 1] + ds[i]
  <2> DEFINE Q == Pow10(k - i)
  <2>1. Q \in Nat \ {0} /\ Pow10(k - (i - 1)) = 10 * Q
    <3>1. k - i \in Nat /\ (k - i) + 1 = k - (i - 1) OBVIOUS
    <3>2. Pow10((k - i) + 1) = 10 * Pow10(k - i) BY <3>1, PowFacts
    <3> QED BY <3>1, <3>2, PowFacts
  <2>2. V[i] = u \div Q /\ V[i - 1] = u \div (10 * Q)
    <3>1. i \in 0 .. k /\ i - 1 \in 0 .. k OBVIOUS
    <3> QED BY <2>1, <3>1
  <2>3. ds[i] = (u \div Q) % 10 BY DEF Printed
  <2> HIDE DEF V, ds, Q
  <2>4. u \div Q = 10 * (u \div (10 * Q)) + ((u \div Q) % 10) BY <2>1, NextQuotient
  <2> QED BY <2>2, <2>3, <2>4, Zenon
<1>6. V[k] = u
  <2>1. V[k] = u \div Pow10(k - k) OBVIOUS
  <2>2. Pow10(k - k) = 1 BY PowFacts
  <2> QED BY <2>1, <2>2
<1> HIDE DEF V, ds
<1>7. Reads(V, ds) BY <1>3, <1>4, <1>5 DEF Reads
<1>8. Value(ds) = V[k] BY <1>3, <1>7, ValueIs
<1> QED BY <1>3, <1>6, <1>8 DEF ds

LEMMA PowBeats == \A n \in Nat : n < Pow10(n)
<1> TAKE n \in Nat
<1> DEFINE A == {i \in 0 .. n : i < Pow10(i)}
<1>1. 0 \in A BY PowFacts
<1>2. ASSUME NEW i \in 1 .. n, i - 1 \in A PROVE i \in A
  <2>1. i - 1 \in Nat /\ (i - 1) + 1 = i OBVIOUS
  <2>2. Pow10((i - 1) + 1) = 10 * Pow10(i - 1) /\ Pow10(i - 1) \in Nat BY <2>1, PowFacts
  <2>3. i - 1 < Pow10(i - 1) BY <1>2
  <2>4. i < Pow10(i) BY <2>1, <2>2, <2>3
  <2> QED BY <2>4
<1>3. n \in A
  <2> HIDE DEF A
  <2>1. 0 .. n \subseteq A BY <1>1, <1>2, FirstMissing
  <2> QED BY <2>1
<1> QED BY <1>3

LEMMA WidthIs ==
    ASSUME NEW u \in Nat
    PROVE  Width(u) \in Nat \ {0} /\ u < Pow10(Width(u))
<1> DEFINE Wide(k) == u < Pow10(k) /\ \A j \in 1 .. k - 1 : Pow10(j) <= u
           T == {k \in 1 .. u + 1 : u < Pow10(k)}
<1>1. u + 1 \in T
  <2>1. u + 1 \in Nat /\ u + 1 \in 1 .. u + 1 OBVIOUS
  <2>2. u + 1 < Pow10(u + 1) /\ Pow10(u + 1) \in Nat BY <2>1, PowBeats, PowFacts
  <2>3. u < Pow10(u + 1) BY <2>2
  <2> QED BY <2>1, <2>3
<1>2. PICK m \in T : \A k \in T : m <= k
  <2>1. T \in SUBSET Nat /\ T # {} BY <1>1
  <2> HIDE DEF T
  <2> QED BY <2>1, LeastOf
<1>3. Wide(m)
  <2> SUFFICES ASSUME NEW j \in 1 .. m - 1 PROVE Pow10(j) <= u OBVIOUS
  <2>1. j \in 1 .. u + 1 /\ j \notin T BY <1>2
  <2>2. Pow10(j) \in Nat BY <2>1, PowFacts
  <2> QED BY <2>1, <2>2
<1>4. m \in 1 .. u + 1 OBVIOUS
<1>5. Width(u) = CHOOSE k \in 1 .. u + 1 : Wide(k) BY DEF Width
<1> HIDE DEF Wide
<1>6. Width(u) \in 1 .. u + 1 /\ Wide(Width(u)) BY <1>3, <1>4, <1>5, Zenon
<1> QED BY <1>6 DEF Wide

LEMMA RoundTrip == \A v \in -MaxInt .. MaxInt : ParseFixed(FormatFixed(v)) = v
<1> TAKE v \in -MaxInt .. MaxInt
<1> DEFINE w  == FormatFixed(v)
           uv == IF v < 0 THEN -v ELSE v
           S  == Pow10(Decimals)
           a  == uv \div S
           b  == uv % S
<1>1. MaxInt \in Nat /\ Decimals \in Nat BY NumberAssumption
<1>2. v \in Int /\ uv \in Nat BY <1>1
<1>3. S \in Nat \ {0} BY <1>1, PowFacts
<1>4. /\ w.neg \in BOOLEAN
      /\ w.neg <=> v < 0
      /\ w.junk = FALSE
      /\ w.int = Printed(a, Width(a)) /\ w.frac = Printed(b, Decimals)
      /\ w = [neg |-> w.neg, int |-> w.int, frac |-> w.frac, junk |-> w.junk]
  <2>1. /\ w.neg = (v < 0) /\ w.junk = FALSE
        /\ w.int = Printed(a, Width(a)) /\ w.frac = Printed(b, Decimals)
        /\ w = [neg |-> w.neg, int |-> w.int, frac |-> w.frac, junk |-> w.junk]
    BY DEF FormatFixed
  <2>2. w.neg \in BOOLEAN BY DEF FormatFixed
  <2> HIDE DEF w, uv, S, a, b
  <2>3. w.neg <=> v < 0 BY <2>1, Zenon
  <2> QED BY <2>1, <2>2, <2>3, Zenon
<1> HIDE DEF w, uv, S
<1>5. a \in Nat /\ b \in Nat /\ b < S /\ uv = a * S + b BY <1>2, <1>3
<1> HIDE DEF a, b
<1>6. Width(a) \in Nat \ {0} /\ a < Pow10(Width(a)) BY <1>5, WidthIs
<1>7. w.int \in Seq(Digit) /\ Len(w.int) = Width(a) /\ Value(w.int) = a
  BY <1>4, <1>5, <1>6, PrintedIs
<1>8. w.frac \in Seq(Digit) /\ Len(w.frac) = Decimals /\ Value(w.frac) = b
  BY <1>1, <1>4, <1>5, PrintedIs DEF S
<1>9. w \in WireNumber
  <2>1. w.junk \in BOOLEAN BY <1>4
  <2> QED BY <1>4, <1>7, <1>8, <2>1 DEF WireNumber
<1>10. w.int \o w.frac # <<>>
  <2>1. Len(w.int \o w.frac) = Len(w.int) + Len(w.frac) BY <1>7, <1>8, ConcatProperties
  <2>2. Len(w.int) + Len(w.frac) > 0 BY <1>1, <1>6, <1>7, <1>8
  <2> SUFFICES ASSUME w.int \o w.frac = <<>> PROVE FALSE OBVIOUS
  <2>3. Len(<<>>) = 0 BY EmptySeq
  <2>4. 0 > 0 BY <2>1, <2>2, <2>3, Zenon
  <2> QED BY <2>4
<1>11. Value(w.int \o w.frac) = uv
  <2>1. Value(w.int \o w.frac) = Value(w.int) * Pow10(Len(w.frac)) + Value(w.frac)
    BY <1>7, <1>8, ValueConcat
  <2> QED BY <1>5, <1>7, <1>8, <2>1 DEF S
<1>12. Exact(w, v)
  <2>1. Signed(w, uv) = v
    <3>1. v < 0 => -uv = v BY <1>2 DEF uv
    <3>2. ~(v < 0) => uv = v BY DEF uv
    <3> QED BY <1>4, <3>1, <3>2, Zenon DEF Signed
  <2> QED BY <1>8, <1>11, <2>1 DEF Exact
<1>13. ParsedExactly(w) BY <1>9, ParsesExactly
<1> QED BY <1>4, <1>10, <1>12, <1>13 DEF ParsedExactly, w

(* fixed.go:16-22, 91-93.  ParseFixed finds the exact value of every number *)
(* that has one in range, whatever its digits, and refuses all others;     *)
(* FormatFixed prints every integer in range so that it is read back.       *)
THEOREM NumbersExact == NumbersAreExact
<1>1. Numbers \subseteq WireNumber BY NumberAssumption
<1> QED BY <1>1, ParsesExactly, RoundTrip DEF NumbersAreExact
=============================================================================
