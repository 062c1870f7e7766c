--------------------------- MODULE BookFeedsProofs ---------------------------
(***************************************************************************)
(* Proofs about BookFeeds: for any venues, any prices on the two sides, any *)
(* window and any bounds.                                                  *)
(***************************************************************************)
EXTENDS BookFeeds, FiniteSetTheorems, SequenceTheorems, TLAPS

(* The connector's book and its numbering: what waits for a snapshot is not *)
(* newer than the last number given, and a book is synced once seeded.     *)
Entry     == [seq : Nat, level : Level, size : Size]
BookState == [levels : [Level -> Size], lastSeq : Nat, synced : BOOLEAN,
              pending : Seq(Entry), gaps : Nat]

BookOK ==
    /\ book \in BookState
    /\ \A i \in 1 .. Len(book.pending) : book.pending[i].seq <= seq
    /\ book.synced => book.lastSeq = seq
    /\ book.gaps = 0
    /\ seeded <=> book.synced

(* The snapshot owed: the venue's book, unless a frame was missed or came   *)
(* first; on OKX its seqId tells, on Coinbase the levels of such frames.   *)
TakenOK ==
    taken # None =>
        /\ ~seeded
        /\ View(taken.levels) = taken.levels
        /\ taken.seqID <= seqID
        /\ Whole => taken.levels = View(truth) /\ taken.seqID = seqID
        /\ venue = "okx" /\ taken.seqID = seqID => taken.levels = truth
        /\ venue = "coinbase" /\ complete =>
               \A l \in Level : taken.levels[l] # truth[l] => l \in ahead

(* Once it is in, a session that has handled every frame in order has the   *)
(* venue's book, and on OKX so has every session that has its seqId.       *)
InStep ==
    /\ Whole /\ taken = None => book.synced /\ book.levels = View(truth)
    /\ venue = "okx" /\ Whole /\ taken = None => lastSeqID = seqID
    /\ venue = "okx" /\ seeded /\ lastSeqID = seqID => book.levels = truth

KnownOK == known => venue = "kraken"

IInv == /\ TypeOK /\ BookOK /\ TakenOK /\ InStep /\ KnownOK
        /\ StoredReplays /\ ShownIsVenueBook /\ StaleWasOvertaken

-----------------------------------------------------------------------------
(* The least of a set of numbers.                                          *)
LEMMA LeastNumber ==
    ASSUME NEW T \in SUBSET Nat, T # {}
    PROVE  \E m \in T : \A k \in T : m <= k
<1> DEFINE Less == OpToRel(<, Nat)
<1>1. PICK m \in T : \A k \in T : ~ (<<k, m>> \in Less)
  BY NatLessThanWellFounded, WFMin
<1>2. \A k \in T : m <= k
  <2> TAKE k \in T
  <2>1. k \in Nat /\ m \in Nat OBVIOUS
  <2>2. ~ (k < m) BY <1>1, <2>1 DEF OpToRel
  <2> QED BY <2>1, <2>2
<1> QED BY <1>2

(* A replay is whatever starts with the book and takes Apply's steps.       *)
LEMMA ReplayIs ==
    ASSUME NEW b, NEW us, Len(us) \in Nat, NEW g,
           g = [i \in 0 .. Len(us) |-> IF i = 0 THEN b ELSE Apply(g[i - 1], us[i])]
    PROVE  Replay(b, us) = g[Len(us)]
<1> DEFINE N == Len(us)
<1> DEFINE Def(h) == [i \in 0 .. N |-> IF i = 0 THEN b ELSE Apply(h[i - 1], us[i])]
<1> DEFINE after == CHOOSE h : h = Def(h)
<1>1. Replay(b, us) = after[N] BY DEF Replay
<1>2. after = Def(after) BY Zenon
<1> HIDE DEF after
<1>3. SUFFICES ASSUME after[N] # g[N] PROVE FALSE BY <1>1
<1> DEFINE T == {i \in 0 .. N : after[i] # g[i]}
<1>4. T \in SUBSET Nat /\ T # {} BY <1>3
<1>5. PICK m \in T : \A k \in T : m <= k BY <1>4, LeastNumber
<1>6. CASE m = 0 BY <1>2, <1>6
<1>7. CASE m # 0
  <2>1. m - 1 \in 0 .. N /\ m - 1 \notin T BY <1>5, <1>7
  <2>2. after[m - 1] = g[m - 1] BY <2>1
  <2>3. after[m] = Apply(after[m - 1], us[m]) BY <1>2, <1>7
  <2>4. g[m] = Apply(g[m - 1], us[m]) BY <1>7
  <2> QED BY <2>2, <2>3, <2>4
<1> QED BY <1>6, <1>7

(* Nothing changes when every update is behind the book.                    *)
LEMMA ReplayBehind ==
    ASSUME NEW b \in BookState, b.synced, NEW us \in Seq(Entry),
           \A i \in 1 .. Len(us) : us[i].seq <= b.lastSeq
    PROVE  Replay(b, us) = b
<1> DEFINE g == [i \in 0 .. Len(us) |-> b]
<1>1. Len(us) \in Nat BY LenProperties
<1>2. ASSUME NEW i \in 1 .. Len(us) PROVE Apply(b, us[i]) = b
  <2>1. us[i] \in Entry BY ElementOfSeq
  <2>2. us[i].seq <= b.lastSeq OBVIOUS
  <2> QED BY <2>1, <2>2 DEF Apply, Entry, BookState
<1>3. g = [i \in 0 .. Len(us) |-> IF i = 0 THEN b ELSE Apply(g[i - 1], us[i])]
  BY <1>1, <1>2
<1>4. Replay(b, us) = g[Len(us)]
  <2> HIDE DEF g
  <2> QED BY <1>1, <1>3, ReplayIs
<1> QED BY <1>1, <1>4

(* A book that awaits its snapshot keeps the updates.                       *)
LEMMA ReplayBuffers ==
    ASSUME NEW b \in BookState, ~b.synced, NEW us \in Seq(Entry)
    PROVE  Replay(b, us) = [b EXCEPT !.pending = @ \o us]
<1> DEFINE With(q) == [b EXCEPT !.pending = q]
           g == [i \in 0 .. Len(us) |-> With(b.pending \o SubSeq(us, 1, i))]
<1>1. Len(us) \in Nat /\ b.pending \in Seq(Entry) BY LenProperties DEF BookState
<1>2. With(b.pending) = b BY DEF BookState
<1>3. \A q : \A u : Apply(With(q), u) = With(Append(q, u)) BY DEF Apply, BookState
<1>4. Replay(b, us) = With(b.pending \o us) => Replay(b, us) = [b EXCEPT !.pending = @ \o us]
  OBVIOUS
<1> HIDE DEF With
<1>5. g[0] = b
  <2>1. SubSeq(us, 1, 0) = <<>> BY SubSeqEmpty
  <2>2. b.pending \o <<>> = b.pending BY <1>1, ConcatEmptySeq
  <2>3. g[0] = With(b.pending \o SubSeq(us, 1, 0)) BY <1>1
  <2> HIDE DEF g
  <2> QED BY <1>2, <2>1, <2>2, <2>3, Zenon
<1>6. ASSUME NEW i \in 1 .. Len(us) PROVE g[i] = Apply(g[i - 1], us[i])
  <2> DEFINE s == SubSeq(us, 1, i - 1)
  <2>1. i \in 0 .. Len(us) /\ i - 1 \in 0 .. Len(us) BY <1>1
  <2>2. s \in Seq(Entry)
    <3>1. \A j \in 1 .. i - 1 : us[j] \in Entry BY <1>1, ElementOfSeq
    <3> QED BY <1>1, <3>1, SubSeqProperties
  <2>3. us[i] \in Entry /\ <<us[i]>> \in Seq(Entry) BY ElementOfSeq
  <2>4. SubSeq(us, 1, i) = s \o <<us[i]>>
    <3>1. 1 \in 1 .. Len(us) /\ i \in 1 .. Len(us) BY <1>1
    <3> QED BY <3>1, SubSeqRecursiveSecond
  <2>5. g[i - 1] = With(b.pending \o s) /\ g[i] = With(b.pending \o SubSeq(us, 1, i)) BY <2>1
  <2> HIDE DEF s
  <2>6. b.pending \o s \in Seq(Entry) BY <1>1, <2>2, ConcatProperties
  <2>7. b.pending \o (s \o <<us[i]>>) = (b.pending \o s) \o <<us[i]>>
    <3>1. \A p, q, r \in Seq(Entry) : (p \o q) \o r = p \o (q \o r) BY ConcatAssociative
    <3> QED BY <1>1, <2>2, <2>3, <3>1, Zenon
  <2>8. Append(b.pending \o s, us[i]) = (b.pending \o s) \o <<us[i]>>
    BY <2>3, <2>6, AppendIsConcat
  <2>9. Apply(With(b.pending \o s), us[i]) = With(Append(b.pending \o s, us[i])) BY <1>3
  <2> QED BY <2>4, <2>5, <2>7, <2>8, <2>9
<1>7. g = [i \in 0 .. Len(us) |-> IF i = 0 THEN b ELSE Apply(g[i - 1], us[i])]
  <2>1. \A i \in 0 .. Len(us) : i # 0 => i \in 1 .. Len(us) BY <1>1
  <2>2. \A i \in 0 .. Len(us) : g[i] = IF i = 0 THEN b ELSE Apply(g[i - 1], us[i])
    <3> HIDE DEF g
    <3> QED BY <1>5, <1>6, <2>1
  <2> QED BY <2>2
<1>8. Replay(b, us) = g[Len(us)]
  <2> HIDE DEF g
  <2> QED BY <1>1, <1>7, ReplayIs
<1>9. SubSeq(us, 1, Len(us)) = us BY SubSeqFull
<1>10. g[Len(us)] = With(b.pending \o SubSeq(us, 1, Len(us))) BY <1>1
<1> HIDE DEF g
<1> QED BY <1>4, <1>8, <1>9, <1>10, Zenon

(* A frame's levels each get one number, the next ones.                     *)
LEMMA SetToSeqIs ==
    ASSUME NEW S, IsFiniteSet(S)
    PROVE  /\ Cardinality(S) \in Nat
           /\ SetToSeq(S) \in [1 .. Cardinality(S) -> S]
           /\ Len(SetToSeq(S)) = Cardinality(S)
           /\ \A i, j \in 1 .. Cardinality(S) : SetToSeq(S)[i] = SetToSeq(S)[j] => i = j
           /\ \A x \in S : \E i \in 1 .. Cardinality(S) : SetToSeq(S)[i] = x
<1> DEFINE n == Cardinality(S)
           f == SetToSeq(S)
<1>1. n \in Nat /\ ExistsBijection(1 .. n, S) BY FS_CardinalityType
<1>2. PICK h \in [1 .. n -> S] : IsInjective(h)
  BY <1>1 DEF ExistsBijection, Bijection, Injection
<1>3. f \in [1 .. n -> S] /\ IsInjective(f) BY <1>2, Zenon DEF SetToSeq
<1> HIDE DEF f
<1>4. Len(f) = n BY <1>1, <1>3
<1>5. \A i, j \in 1 .. n : f[i] = f[j] => i = j BY <1>3 DEF IsInjective
<1>6. \A x \in S : \E i \in 1 .. n : f[i] = x
  <2>1. IsFiniteSet(1 .. n) /\ Cardinality(1 .. n) = n BY <1>1, FS_Interval
  <2>2. f \in Injection(1 .. n, S) BY <1>3 DEF Injection
  <2>3. f \in Surjection(1 .. n, S) BY <2>1, <2>2, FS_Injection
  <2> QED BY <2>3 DEF Surjection
<1> QED BY <1>1, <1>3, <1>4, <1>5, <1>6 DEF f

(* A book p with the levels L of V.                                        *)
Overlay(p, L, V) == [l \in Level |-> IF l \in L THEN V[l] ELSE p[l]]

With(b, p, k) == [b EXCEPT !.levels = p, !.lastSeq = k]

(* The n updates for the levels L of V, numbered from k + 1.                *)
InOrder(us, n, L, V, k) ==
    /\ us \in Seq(Entry) /\ n \in Nat /\ Len(us) = n
    /\ \A i \in 1 .. n : us[i].seq = k + i /\ us[i].size = V[us[i].level]
    /\ \A l \in Level : l \in L <=> \E i \in 1 .. n : us[i].level = l

LEMMA ReplayInOrder ==
    ASSUME NEW b \in BookState, b.synced, NEW V \in [Level -> Size],
           NEW us, NEW n, NEW L, InOrder(us, n, L, V, b.lastSeq)
    PROVE  Replay(b, us) = With(b, Overlay(b.levels, L, V), b.lastSeq + n)
<1> DEFINE P(i) == Overlay(b.levels, {us[j].level : j \in 1 .. i}, V)
           g == [i \in 0 .. n |-> With(b, P(i), b.lastSeq + i)]
<1>1. n \in Nat /\ us \in Seq(Entry) /\ Len(us) = n BY DEF InOrder
<1>2. /\ \A i \in 1 .. n : us[i].seq = b.lastSeq + i /\ us[i].size = V[us[i].level]
      /\ \A i \in 1 .. n : us[i] \in Entry
  <2>1. \A i \in 1 .. n : us[i] \in Entry BY <1>1, ElementOfSeq
  <2> QED BY <2>1 DEF InOrder
<1>3. \A i \in 1 .. n : us[i].level \in Level BY <1>2 DEF Entry
<1>4. b.levels \in [Level -> Size] /\ b.lastSeq \in Nat BY DEF BookState
<1>5. \A q \in [Level -> Size], k \in Nat : \A u \in Entry :
          u.seq = k + 1 => Apply(With(b, q, k), u) = With(b, [q EXCEPT ![u.level] = u.size], k + 1)
  <2> TAKE q \in [Level -> Size], k \in Nat
  <2> TAKE u \in Entry
  <2> HAVE u.seq = k + 1
  <2>1. /\ With(b, q, k).synced /\ With(b, q, k).lastSeq = k /\ With(b, q, k).levels = q
    BY DEF BookState, With
  <2>2. Apply(With(b, q, k), u) = [With(b, q, k) EXCEPT !.levels[u.level] = u.size, !.lastSeq = u.seq]
    BY <2>1 DEF Apply
  <2> QED BY <2>2 DEF BookState, With
<1>6. Overlay(b.levels, L, V) = P(n)
  <2>1. \A l \in Level : l \in L <=> l \in {us[j].level : j \in 1 .. n}
    <3>1. \A l \in Level : l \in L <=> \E j \in 1 .. n : us[j].level = l BY DEF InOrder
    <3> QED BY <3>1
  <2> DEFINE K == {us[j].level : j \in 1 .. n}
  <2> HIDE DEF K
  <2>2. Overlay(b.levels, L, V) = Overlay(b.levels, K, V) BY <2>1 DEF Overlay, K
  <2> QED BY <2>2 DEF K
<1>7. \A i \in 0 .. n : P(i) \in [Level -> Size] BY <1>4 DEF Overlay
<1>8. P(0) = b.levels BY <1>4 DEF Overlay
<1>9. ASSUME NEW i \in 1 .. n
      PROVE  P(i) = [P(i - 1) EXCEPT ![us[i].level] = us[i].size]
  <2>1. us[i].size = V[us[i].level] /\ us[i].level \in Level BY <1>2, <1>3
  <2>2. {us[j].level : j \in 1 .. i} = {us[j].level : j \in 1 .. i - 1} \union {us[i].level}
    <3>1. 1 .. i = 1 .. (i - 1) \union {i} BY <1>1
    <3> QED BY <3>1
  <2> QED BY <1>4, <2>1, <2>2 DEF Overlay
<1> HIDE DEF P
<1>10. g[0] = b
  <2>1. g[0] = With(b, P(0), b.lastSeq + 0) BY <1>1
  <2>2. b.lastSeq + 0 = b.lastSeq BY <1>4
  <2>3. With(b, b.levels, b.lastSeq) = b BY DEF BookState, With
  <2> HIDE DEF g
  <2> QED BY <1>8, <2>1, <2>2, <2>3
<1>11. ASSUME NEW i \in 1 .. n PROVE g[i] = Apply(g[i - 1], us[i])
  <2>1. i \in 0 .. n /\ i - 1 \in 0 .. n BY <1>1
  <2>2. g[i - 1] = With(b, P(i - 1), b.lastSeq + (i - 1)) /\ g[i] = With(b, P(i), b.lastSeq + i)
    BY <2>1
  <2>3. b.lastSeq + (i - 1) \in Nat /\ b.lastSeq + i = b.lastSeq + (i - 1) + 1
    <3>1. i \in Nat /\ i >= 1 BY <1>1
    <3>2. b.lastSeq \in Nat BY <1>4
    <3>3. PICK k \in Nat : k = b.lastSeq BY <3>2
    <3>4. k + (i - 1) \in Nat /\ k + i = k + (i - 1) + 1 BY <3>1
    <3> QED BY <3>3, <3>4
  <2>4. us[i] \in Entry /\ us[i].seq = b.lastSeq + (i - 1) + 1 BY <1>2, <2>3
  <2>5. P(i - 1) \in [Level -> Size] BY <1>7, <2>1
  <2>6. Apply(With(b, P(i - 1), b.lastSeq + (i - 1)), us[i])
            = With(b, [P(i - 1) EXCEPT ![us[i].level] = us[i].size], b.lastSeq + (i - 1) + 1)
    BY <1>5, <2>3, <2>4, <2>5
  <2> HIDE DEF g
  <2> QED BY <1>9, <2>2, <2>3, <2>6, Zenon
<1>12. g = [i \in 0 .. Len(us) |-> IF i = 0 THEN b ELSE Apply(g[i - 1], us[i])]
  <2>1. \A i \in 0 .. n : i # 0 => i \in 1 .. n BY <1>1
  <2>2. \A i \in 0 .. n : g[i] = IF i = 0 THEN b ELSE Apply(g[i - 1], us[i])
    <3> HIDE DEF g
    <3> QED BY <1>10, <1>11, <2>1
  <2> QED BY <1>1, <2>2
<1>13. g[n] = With(b, P(n), b.lastSeq + n) BY <1>1
<1>14. Replay(b, us) = g[n]
  <2> HIDE DEF g
  <2>1. Len(us) \in Nat BY <1>1
  <2>2. Replay(b, us) = g[Len(us)] BY <1>12, <2>1, ReplayIs
  <2> QED BY <1>1, <2>2
<1> HIDE DEF g
<1> QED BY <1>6, <1>13, <1>14, Zenon

(* What ApplyChanges does with a frame, and what it leaves in the buffer.   *)
LEMMA NumberedIs ==
    ASSUME seq \in Nat, IsFiniteSet(Level), NEW L \in SUBSET Level, NEW t, View(t) \in [Level -> Size]
    PROVE  InOrder(Numbered(L, t), Cardinality(L), L, View(t), seq)
<1> DEFINE n == Cardinality(L)
           s == SetToSeq(L)
           us == Numbered(L, t)
<1>1. IsFiniteSet(L) BY FS_Subset
<1>2. /\ n \in Nat /\ s \in [1 .. n -> L]
      /\ \A x \in L : \E i \in 1 .. n : s[i] = x
  BY <1>1, SetToSeqIs
<1>3. us = [i \in DOMAIN s |-> [seq |-> seq + i, level |-> s[i], size |-> View(t)[s[i]]]]
  BY DEF Numbered
<1> HIDE DEF us, s, n
<1>4. us = [i \in 1 .. n |-> [seq |-> seq + i, level |-> s[i], size |-> View(t)[s[i]]]]
  BY <1>2, <1>3
<1>5. \A i \in 1 .. n : [seq |-> seq + i, level |-> s[i], size |-> View(t)[s[i]]] \in Entry
  BY <1>2 DEF Entry
<1>6. us \in Seq(Entry) /\ Len(us) = n BY <1>2, <1>4, <1>5
<1>7. \A i \in 1 .. n : us[i].seq = seq + i /\ us[i].size = View(t)[us[i].level] BY <1>4
<1>8. \A l \in Level : l \in L <=> \E i \in 1 .. n : us[i].level = l
  <2>1. \A i \in 1 .. n : us[i].level = s[i] BY <1>4
  <2> QED BY <1>2, <2>1
<1>9. InOrder(us, n, L, View(t), seq) BY <1>2, <1>6, <1>7, <1>8 DEF InOrder
<1> QED BY <1>9 DEF us, n

-----------------------------------------------------------------------------
(* The levels ahead of a level: finitely many of its side, fewer for each of *)
(* them, and the more the bigger the book.                                 *)
LEMMA AheadFacts ==
    ASSUME NEW b \in [Level -> Nat], NEW l \in Level
    PROVE  /\ Ahead(b, l) \subseteq Level
           /\ IsFiniteSet(Ahead(b, l)) /\ Cardinality(Ahead(b, l)) \in Nat
           /\ \A m \in Ahead(b, l) : /\ b[m] > 0 /\ (m \in Bid <=> l \in Bid)
                                     /\ Ahead(b, m) \subseteq Ahead(b, l)
                                     /\ m \notin Ahead(b, m)
<1> USE LevelAssumption
<1>1. Ahead(b, l) \subseteq Level BY DEF Ahead, Level
<1>2. IsFiniteSet(Ahead(b, l)) BY <1>1, FS_Subset
<1>3. Cardinality(Ahead(b, l)) \in Nat BY <1>2, FS_CardinalityType
<1>4. ASSUME NEW m \in Ahead(b, l)
      PROVE  /\ b[m] > 0 /\ (m \in Bid <=> l \in Bid)
             /\ Ahead(b, m) \subseteq Ahead(b, l)
             /\ m \notin Ahead(b, m)
  <2>1. \A x \in Bid, y \in Ask : x \in Int /\ y \in Int /\ x < y BY DEF Level
  <2>2. \A x \in Bid : x \in Int /\ x \notin Ask
    <3> TAKE x \in Bid
    <3>1. x \in Int BY DEF Level
    <3>2. x \in Ask => x < x BY <2>1
    <3> QED BY <3>1, <3>2
  <2>3. \A y \in Ask : y \in Int BY DEF Level
  <2>4. CASE l \in Bid
    <3>1. m \in Bid /\ m > l /\ b[m] > 0 BY <2>4 DEF Ahead
    <3>2. l \in Int /\ m \in Int /\ \A x \in Bid : x \in Int BY <2>2, <2>4, <3>1
    <3>3. Ahead(b, m) = {x \in Bid : x > m /\ b[x] > 0} BY <3>1 DEF Ahead
    <3>4. Ahead(b, l) = {x \in Bid : x > l /\ b[x] > 0} BY <2>4 DEF Ahead
    <3>5. \A x \in Bid : x > m => x > l BY <3>1, <3>2
    <3>6. ~ (m > m) BY <3>2
    <3>7. Ahead(b, m) \subseteq Ahead(b, l) BY <3>3, <3>4, <3>5
    <3>8. m \notin Ahead(b, m) BY <3>3, <3>6
    <3> QED BY <2>4, <3>1, <3>2, <3>7, <3>8
  <2>5. CASE l \notin Bid
    <3>1. m \in Ask /\ m < l /\ b[m] > 0 BY <2>5 DEF Ahead
    <3>2. l \in Int /\ m \in Int /\ m \notin Bid /\ \A x \in Ask : x \in Int
      BY <2>2, <2>3, <2>5, <3>1 DEF Level
    <3>3. Ahead(b, m) = {x \in Ask : x < m /\ b[x] > 0} BY <3>2 DEF Ahead
    <3>4. Ahead(b, l) = {x \in Ask : x < l /\ b[x] > 0} BY <2>5 DEF Ahead
    <3>5. \A x \in Ask : x < m => x < l BY <3>1, <3>2
    <3>6. ~ (m < m) BY <3>2
    <3>7. Ahead(b, m) \subseteq Ahead(b, l) BY <3>3, <3>4, <3>5
    <3>8. m \notin Ahead(b, m) BY <3>3, <3>6
    <3> QED BY <2>5, <3>1, <3>2, <3>7, <3>8
  <2> QED BY <2>4, <2>5
<1> QED BY <1>1, <1>2, <1>3, <1>4

LEMMA AheadMonotonic ==
    ASSUME NEW b \in [Level -> Nat], NEW c \in [Level -> Nat], NEW l \in Level,
           \A m \in Ahead(b, l) : c[m] > 0
    PROVE  /\ Ahead(b, l) \subseteq Ahead(c, l)
           /\ Cardinality(Ahead(b, l)) <= Cardinality(Ahead(c, l))
<1>1. Ahead(b, l) \subseteq Ahead(c, l) BY DEF Ahead
<1> QED BY <1>1, AheadFacts, FS_Subset

LEMMA AheadFewer ==
    ASSUME NEW b \in [Level -> Nat], NEW l \in Level, NEW m \in Ahead(b, l)
    PROVE  Cardinality(Ahead(b, m)) < Cardinality(Ahead(b, l))
<1>1. m \in Level /\ Ahead(b, m) \subseteq Ahead(b, l) /\ m \notin Ahead(b, m)
  BY AheadFacts
<1>2. IsFiniteSet(Ahead(b, l)) /\ Cardinality(Ahead(b, l)) \in Nat /\ Cardinality(Ahead(b, m)) \in Nat
  BY <1>1, AheadFacts
<1>3. /\ Cardinality(Ahead(b, m)) <= Cardinality(Ahead(b, l))
      /\ Cardinality(Ahead(b, l)) = Cardinality(Ahead(b, m)) => Ahead(b, l) = Ahead(b, m)
  BY <1>1, <1>2, FS_Subset
<1> QED BY <1>1, <1>2, <1>3

(* The best levels of the best levels.                                     *)
LEMMA DepthFacts ==
    ASSUME NEW b \in [Level -> Nat], NEW n \in Nat
    PROVE  /\ Depth(b, n) \in [Level -> Nat]
           /\ \A l \in Level : /\ Depth(b, n)[l] > 0 =>
                                      Depth(b, n)[l] = b[l] /\ Cardinality(Ahead(b, l)) < n
                               /\ Cardinality(Ahead(b, l)) < n => Depth(b, n)[l] = b[l]
                               /\ Depth(b, n)[l] = 0 => b[l] = 0 \/ Cardinality(Ahead(b, l)) >= n
<1>1. \A l \in Level : Cardinality(Ahead(b, l)) \in Nat BY AheadFacts
<1> QED BY <1>1 DEF Depth

LEMMA DepthOfDepth ==
    ASSUME NEW b \in [Level -> Nat], NEW n \in Nat, NEW m \in Nat, n <= m
    PROVE  Depth(Depth(b, n), m) = Depth(b, n)
<1> DEFINE V == Depth(b, n)
<1>1. V \in [Level -> Nat] BY DepthFacts
<1>2. ASSUME NEW l \in Level PROVE Depth(V, m)[l] = V[l]
  <2>1. CASE V[l] = 0 BY <1>1, <2>1 DEF Depth
  <2>2. CASE V[l] > 0
    <3>1. Cardinality(Ahead(b, l)) < n BY <2>2, DepthFacts
    <3>2. \A k \in Ahead(V, l) : b[k] > 0
      <4> TAKE k \in Ahead(V, l)
      <4>1. k \in Level /\ V[k] > 0 BY <1>1, AheadFacts
      <4> QED BY <4>1, DepthFacts
    <3> HIDE DEF V
    <3>3. Cardinality(Ahead(V, l)) <= Cardinality(Ahead(b, l)) BY <1>1, <3>2, AheadMonotonic
    <3>4. Cardinality(Ahead(V, l)) \in Nat /\ Cardinality(Ahead(b, l)) \in Nat BY <1>1, AheadFacts
    <3>5. Cardinality(Ahead(V, l)) < m BY <3>1, <3>3, <3>4
    <3> QED BY <1>1, <3>5, DepthFacts
  <2> QED BY <1>1, <2>1, <2>2
<1>3. Depth(V, m) \in [Level -> Nat] BY <1>1, DepthFacts
<1> QED BY <1>1, <1>2, <1>3

(* A level with n levels ahead of it still has n in the window of n.       *)
LEMMA WindowFull ==
    ASSUME NEW b \in [Level -> Nat], NEW n \in Nat, NEW l \in Level,
           Cardinality(Ahead(b, l)) >= n
    PROVE  Cardinality(Ahead(Depth(b, n), l)) >= n
<1> DEFINE V == Depth(b, n)
           card(k) == Cardinality(Ahead(b, k))
           B == {k \in Level : card(k) >= n /\ Cardinality(Ahead(V, k)) < n}
<1>1. V \in [Level -> Nat] BY DepthFacts
<1>2. \A k \in Level : card(k) \in Nat /\ Cardinality(Ahead(V, k)) \in Nat
  <2> HIDE DEF V
  <2> QED BY <1>1, AheadFacts
<1>3. SUFFICES ASSUME B # {} PROVE FALSE BY <1>2
<1>4. PICK k \in B : \A m \in B : card(k) <= card(m)
  <2> DEFINE T == {card(m) : m \in B}
  <2>1. T \in SUBSET Nat /\ T # {} BY <1>2, <1>3
  <2>2. PICK c \in T : \A d \in T : c <= d
    <3> HIDE DEF T
    <3> QED BY <2>1, LeastNumber
  <2> QED BY <2>2
<1>5. k \in Level /\ card(k) >= n /\ Cardinality(Ahead(V, k)) < n OBVIOUS
<1>6. CASE \E m \in Ahead(b, k) : card(m) >= n
  <2>1. PICK m \in Ahead(b, k) : card(m) >= n BY <1>6
  <2>2. m \in Level /\ card(m) < card(k) BY <1>5, AheadFacts, AheadFewer
  <2>3. m \notin B BY <1>2, <1>4, <1>5, <2>2
  <2>4. Cardinality(Ahead(V, m)) >= n BY <1>2, <2>1, <2>2, <2>3
  <2>5. Ahead(V, m) \subseteq Ahead(V, k)
    <3>1. (m \in Bid <=> k \in Bid) /\ Ahead(b, m) \subseteq Ahead(b, k) BY <1>5, AheadFacts
    <3>2. \A x \in Ahead(V, m) : x \in Level /\ V[x] > 0 /\ b[x] > 0
      <4> TAKE x \in Ahead(V, m)
      <4>1. x \in Level /\ V[x] > 0
        <5> HIDE DEF V
        <5> QED BY <1>1, <2>2, AheadFacts
      <4> QED BY <4>1, DepthFacts
    <3> HIDE DEF V
    <3>3. \A x \in Ahead(V, m) : x \in Ahead(b, m) BY <3>2 DEF Ahead
    <3>4. \A x \in Ahead(V, m) : x \in Ahead(b, k) BY <3>1, <3>3
    <3> QED BY <3>2, <3>4 DEF Ahead
  <2>6. Cardinality(Ahead(V, m)) <= Cardinality(Ahead(V, k))
    <3>1. IsFiniteSet(Ahead(V, k))
      <4> HIDE DEF V
      <4> QED BY <1>1, <1>5, AheadFacts
    <3> HIDE DEF V
    <3> QED BY <2>5, <3>1, FS_Subset
  <2> QED BY <1>2, <1>5, <2>2, <2>4, <2>6
<1>7. CASE \A m \in Ahead(b, k) : card(m) < n
  <2>1. \A m \in Ahead(b, k) : V[m] > 0
    <3> TAKE m \in Ahead(b, k)
    <3>1. m \in Level /\ b[m] > 0 /\ card(m) < n BY <1>5, <1>7, AheadFacts
    <3> QED BY <3>1, DepthFacts
  <2>2. card(k) <= Cardinality(Ahead(V, k))
    <3> HIDE DEF V
    <3> QED BY <1>1, <1>5, <2>1, AheadMonotonic
  <2> QED BY <1>2, <1>5, <2>2
<1>8. \A m \in Ahead(b, k) : card(m) \in Nat
  <2>1. \A m \in Ahead(b, k) : m \in Level BY <1>5, AheadFacts
  <2> QED BY <1>2, <2>1
<1> QED BY <1>6, <1>7, <1>8

LEMMA BooksAre == \A b \in Books : b \in [Level -> Size] /\ b \in [Level -> Nat]
BY DEF Books, Size

(* A window has the best level of each side.                               *)
LEMMA DepthIsBook ==
    ASSUME NEW b \in Books, NEW n \in Nat \ {0}
    PROVE  Depth(b, n) \in Books
<1> DEFINE card(k) == Cardinality(Ahead(b, k))
<1>1. b \in [Level -> Size] /\ b \in [Level -> Nat] BY BooksAre
<1>2. Depth(b, n) \in [Level -> Size] BY <1>1 DEF Depth, Size
<1>3. ASSUME NEW side \in {Bid, Ask} PROVE \E l \in side : Depth(b, n)[l] > 0
  <2> DEFINE S == {l \in side : b[l] > 0}
             T == {card(l) : l \in S}
  <2>1. S # {} /\ S \subseteq Level BY DEF Books, Level
  <2>2. \A l \in Level : card(l) \in Nat BY <1>1, AheadFacts
  <2>3. T \in SUBSET Nat /\ T # {} BY <2>1, <2>2
  <2>4. PICK c \in T : \A d \in T : c <= d
    <3> HIDE DEF T
    <3> QED BY <2>3, LeastNumber
  <2>5. PICK l \in S : card(l) = c BY <2>4
  <2>6. l \in Level /\ b[l] > 0 BY <2>1, <2>5
  <2>7. Ahead(b, l) = {}
    <3> SUFFICES ASSUME NEW m \in Ahead(b, l) PROVE FALSE OBVIOUS
    <3>1. m \in side /\ b[m] > 0
      <4>1. (m \in Bid <=> l \in Bid) /\ m \in Level /\ b[m] > 0 BY <1>1, <2>6, AheadFacts
      <4>2. CASE side = Bid BY <2>5, <4>1, <4>2
      <4>3. CASE side = Ask
        <5>1. m \in Ask \/ m \in Bid BY <4>1 DEF Level
        <5>2. m \in Bid => l \in Bid /\ m \in Ahead(b, l) BY <4>1
        <5>3. l \in Ask BY <2>5, <4>3
        <5>4. l \notin Bid
          <6>1. l \in Int BY <2>6, LevelAssumption
          <6>2. l \in Bid => l < l BY <5>3, LevelAssumption
          <6> QED BY <6>1, <6>2
        <5> QED BY <4>1, <4>3, <5>1, <5>2, <5>4
      <4> QED BY <4>2, <4>3
    <3>2. card(m) < card(l) BY <1>1, <2>6, AheadFewer
    <3>3. m \in Level /\ card(m) \in T BY <2>1, <3>1
    <3> QED BY <2>2, <2>4, <2>5, <2>6, <3>2, <3>3
  <2>8. Cardinality(Ahead(b, l)) < n BY <2>7, FS_EmptySet
  <2>9. Depth(b, n)[l] = b[l] BY <1>1, <2>6, <2>8, DepthFacts
  <2> QED BY <2>5, <2>6, <2>9
<1> QED BY <1>2, <1>3 DEF Books

LEMMA ViewFacts ==
    ASSUME NEW t \in Books
    PROVE  View(t) \in Books /\ View(View(t)) = View(t)
<1>1. t \in [Level -> Nat] BY BooksAre
<1>2. BookDepth \in Nat \ {0} BY DepthAssumption
<1>3. Depth(t, BookDepth) \in Books BY <1>2, DepthIsBook
<1>4. Depth(Depth(t, BookDepth), BookDepth) = Depth(t, BookDepth)
  BY <1>1, <1>2, DepthOfDepth
<1> QED BY <1>3, <1>4 DEF View

(* A frame takes the window of one book to that of the next, once the       *)
(* levels that newcomers pushed out of it are trimmed.                     *)
LEMMA FrameBrings ==
    ASSUME truth \in Books, NEW t \in Books
    PROVE  View(Overlay(View(truth), Changed(t), View(t))) = View(t)
<1> DEFINE W == View(truth)
           V == View(t)
           X == Overlay(W, Changed(t), V)
           D == BookDepth
<1>0. SUFFICES View(X) = V OBVIOUS
<1>1. /\ W \in Books /\ W \in [Level -> Nat] /\ V \in Books /\ V \in [Level -> Nat]
      /\ t \in [Level -> Nat] /\ truth \in [Level -> Nat]
  BY ViewFacts, BooksAre
<1>2. X \in [Level -> Nat] BY <1>1 DEF Overlay
<1>3. \A l \in Level : V[l] > 0 => X[l] = V[l]
  <2> TAKE l \in Level
  <2>1. CASE l \in Changed(t) BY <2>1 DEF Overlay
  <2>2. CASE l \notin Changed(t)
    <3>1. X[l] = W[l] BY <2>2 DEF Overlay
    <3>2. V[l] = W[l] \/ V[l] = 0 BY <2>2 DEF Changed
    <3> HIDE DEF V, X, W
    <3> QED BY <1>1, <3>1, <3>2
  <2> QED BY <2>1, <2>2
<1>4. \A l \in Level : V[l] = 0 /\ X[l] # 0 => t[l] # 0
  <2> TAKE l \in Level
  <2>1. CASE l \in Changed(t) BY <2>1 DEF Overlay
  <2>2. CASE l \notin Changed(t)
    <3>1. X[l] = W[l] BY <2>2 DEF Overlay
    <3>2. V[l] = W[l] \/ (V[l] = 0 /\ t[l] # 0) BY <2>2 DEF Changed
    <3> HIDE DEF V, X, W
    <3> QED BY <1>1, <3>1, <3>2
  <2> QED BY <2>1, <2>2
<1>5. CASE venue # "kraken"
  <2>1. V = t /\ W = truth /\ View(X) = X BY <1>5 DEF View
  <2>2. \A l \in Level : V[l] = 0 => X[l] = 0 BY <1>4, <2>1
  <2> HIDE DEF V, X, W
  <2>3. \A l \in Level : V[l] = X[l] BY <1>1, <1>3, <2>2
  <2> QED BY <1>1, <1>2, <2>1, <2>3
<1>6. CASE venue = "kraken"
  <2>1. V = Depth(t, D) /\ View(X) = Depth(X, D) BY <1>6 DEF View
  <2>2. D \in Nat BY DepthAssumption
  <2> HIDE DEF V, X, W, D
  <2>3. \A l \in Level : X[l] > 0 => t[l] > 0
    <3> TAKE l \in Level
    <3>1. V[l] > 0 => V[l] = t[l] BY <1>1, <2>1, <2>2, DepthFacts
    <3>2. X[l] \in Nat /\ t[l] \in Nat /\ V[l] \in Nat BY <1>1, <1>2
    <3> QED BY <1>3, <1>4, <3>1, <3>2
  <2>4. ASSUME NEW l \in Level PROVE Depth(X, D)[l] = V[l]
    <3>1. /\ Cardinality(Ahead(X, l)) \in Nat /\ Cardinality(Ahead(t, l)) \in Nat
          /\ Cardinality(Ahead(V, l)) \in Nat /\ X[l] \in Nat /\ V[l] \in Nat /\ t[l] \in Nat
      BY <1>1, <1>2, AheadFacts
    <3>2. CASE V[l] > 0
      <4>1. Cardinality(Ahead(t, l)) < D BY <1>1, <2>1, <2>2, <3>2, DepthFacts
      <4>2. \A m \in Ahead(X, l) : t[m] > 0
        <5>1. \A m \in Ahead(X, l) : m \in Level /\ X[m] > 0 BY <1>2, AheadFacts
        <5> QED BY <2>3, <5>1
      <4>3. Cardinality(Ahead(X, l)) <= Cardinality(Ahead(t, l))
        BY <1>1, <1>2, <4>2, AheadMonotonic
      <4>4. Cardinality(Ahead(X, l)) < D BY <2>2, <3>1, <4>1, <4>3
      <4>5. Depth(X, D)[l] = X[l] BY <1>2, <2>2, <4>4, DepthFacts
      <4> QED BY <1>3, <3>2, <4>5
    <3>3. CASE V[l] = 0 /\ X[l] = 0 BY <3>3 DEF Depth
    <3>4. CASE V[l] = 0 /\ X[l] # 0
      <4>1. t[l] # 0 BY <1>4, <3>4
      <4>2. Cardinality(Ahead(t, l)) >= D
        BY <1>1, <2>1, <2>2, <3>4, <4>1, DepthFacts
      <4>3. Cardinality(Ahead(V, l)) >= D BY <1>1, <2>1, <2>2, <4>2, WindowFull
      <4>4. \A m \in Ahead(V, l) : X[m] > 0
        <5>1. \A m \in Ahead(V, l) : m \in Level /\ V[m] > 0 BY <1>1, AheadFacts
        <5> QED BY <1>3, <5>1
      <4>5. Cardinality(Ahead(V, l)) <= Cardinality(Ahead(X, l))
        BY <1>1, <1>2, <4>4, AheadMonotonic
      <4>6. ~ (Cardinality(Ahead(X, l)) < D) BY <2>2, <3>1, <4>3, <4>5
      <4> QED BY <3>4, <4>6 DEF Depth
    <3> QED BY <3>1, <3>2, <3>3, <3>4
  <2>5. Depth(X, D) \in [Level -> Nat] BY <1>2, <2>2, DepthFacts
  <2> QED BY <1>1, <2>1, <2>4, <2>5
<1> QED BY <1>5, <1>6

(* Without a frame the venue shows what it showed.                         *)
LEMMA NoFrame ==
    ASSUME truth \in Books, NEW t \in Books, Changed(t) = {}
    PROVE  /\ View(t) = View(truth)
           /\ venue # "kraken" => t = truth
<1>1. View(truth) \in [Level -> Nat] /\ View(View(truth)) = View(truth) BY ViewFacts, BooksAre
<1>2. Overlay(View(truth), Changed(t), View(t)) = View(truth) BY <1>1 DEF Overlay
<1>3. View(t) = View(truth)
  <2> HIDE DEF View, Overlay
  <2> QED BY <1>1, <1>2, FrameBrings
<1> QED BY <1>3 DEF View

-----------------------------------------------------------------------------
(* The book after a snapshot, which never fails its own checksum.           *)
LEMMA SnapshotBook ==
    ASSUME IInv, taken # None,
           NEW b, b = Trim(ApplySnapshot(book, taken.levels, seq + 1))
    PROVE  /\ b \in BookState
           /\ b.levels = taken.levels /\ b.lastSeq = seq + 1 /\ b.synced
           /\ b.pending = <<>> /\ b.gaps = 0
           /\ ~ Mismatch(b, taken.levels)
<1> DEFINE new == [book EXCEPT !.levels = taken.levels, !.lastSeq = seq + 1,
                               !.synced = TRUE, !.pending = <<>>]
<1>1. /\ book \in BookState /\ seq \in Nat /\ book.gaps = 0
      /\ book.pending \in Seq(Entry) /\ Len(book.pending) \in Nat
  <2>1. book \in BookState /\ seq \in Nat /\ book.gaps = 0 BY DEF IInv, BookOK, TypeOK
  <2>2. book.pending \in Seq(Entry) BY <2>1 DEF BookState
  <2> QED BY <2>1, <2>2, LenProperties
<1>2. taken.levels \in [Level -> Size] /\ View(taken.levels) = taken.levels
  BY BooksAre DEF IInv, TypeOK, TakenOK
<1>3. new \in BookState
  <2>1. <<>> \in Seq(Entry) /\ seq + 1 \in Nat BY <1>1, EmptySeq
  <2> QED BY <1>1, <1>2, <2>1 DEF BookState
<1>4. new.synced /\ new.lastSeq = seq + 1 /\ new.levels = taken.levels /\ new.gaps = 0 /\ new.pending = <<>>
  BY <1>1 DEF BookState
<1>5. \A i \in 1 .. Len(book.pending) : book.pending[i].seq <= seq + 1
  <2> TAKE i \in 1 .. Len(book.pending)
  <2>1. book.pending[i] \in Entry BY <1>1, ElementOfSeq
  <2>2. book.pending[i].seq \in Nat BY <2>1 DEF Entry
  <2>3. book.pending[i].seq <= seq BY DEF IInv, BookOK
  <2> QED BY <1>1, <2>2, <2>3
<1>6. ApplySnapshot(book, taken.levels, seq + 1) = Replay(new, book.pending)
  BY DEF ApplySnapshot
<1> HIDE DEF new
<1>7. Replay(new, book.pending) = new BY <1>1, <1>3, <1>4, <1>5, ReplayBehind
<1>8. b = Trim(new) BY <1>6, <1>7
<1>9. [new EXCEPT !.levels = new.levels] = new BY <1>3 DEF BookState
<1>10. Trim(new) = new BY <1>2, <1>4, <1>9 DEF Trim, View
<1>11. ~ Mismatch(new, taken.levels)
  <2>1. known => venue = "kraken" BY DEF IInv, KnownOK
  <2> QED BY <1>2, <1>4, <2>1 DEF Mismatch, View
<1> QED BY <1>3, <1>4, <1>8, <1>10, <1>11

(* The book after a frame.                                                 *)
LEMMA ChangesBook ==
    ASSUME IInv, NEW t \in Books,
           NEW b, b = ApplyChanges(Changed(t), t), NEW n, n = Cardinality(Changed(t))
    PROVE  /\ n \in Nat /\ b \in BookState /\ b.gaps = 0
           /\ b.synced = book.synced
           /\ b.lastSeq \in 0 .. seq + n
           /\ b.synced => b.lastSeq = seq + n
           /\ b.synced => b.levels = View(Overlay(book.levels, Changed(t), View(t)))
           /\ venue = "kraken" => Depth(b.levels, BookDepth) = b.levels
           /\ \A i \in 1 .. Len(b.pending) : b.pending[i].seq <= seq + n
<1> DEFINE us == Numbered(Changed(t), t)
           r == Replay(book, us)
<1>1. /\ book \in BookState /\ seq \in Nat /\ book.gaps = 0 /\ book.lastSeq \in 0 .. seq
      /\ book.synced => book.lastSeq = seq
      /\ \A i \in 1 .. Len(book.pending) : book.pending[i].seq <= seq
  BY DEF IInv, BookOK, TypeOK
<1>2. /\ book.pending \in Seq(Entry) /\ Len(book.pending) \in Nat
      /\ book.levels \in [Level -> Size] /\ book.lastSeq \in Nat /\ book.synced \in BOOLEAN
  <2>1. /\ book.pending \in Seq(Entry)
        /\ book.levels \in [Level -> Size] /\ book.lastSeq \in Nat /\ book.synced \in BOOLEAN
    BY <1>1 DEF BookState
  <2> QED BY <2>1, LenProperties
<1>3. View(t) \in [Level -> Size] /\ Changed(t) \in SUBSET Level /\ IsFiniteSet(Level)
  BY ViewFacts, BooksAre, LevelAssumption DEF Changed
<1>0. InOrder(us, n, Changed(t), View(t), seq) BY <1>1, <1>3, NumberedIs
<1>4. /\ n \in Nat /\ us \in Seq(Entry) /\ Len(us) = n
      /\ \A i \in 1 .. n : us[i].seq = seq + i /\ us[i].size = View(t)[us[i].level]
  BY <1>0 DEF InOrder
<1>5. b = Trim(r) BY DEF ApplyChanges
<1> HIDE DEF us
<1>6. CASE book.synced
  <2>1. r = With(book, Overlay(book.levels, Changed(t), View(t)), seq + n)
    <3>3. Replay(book, us) = With(book, Overlay(book.levels, Changed(t), View(t)), book.lastSeq + n)
      BY <1>0, <1>1, <1>3, <1>6, ReplayInOrder
    <3> QED BY <1>1, <1>6, <3>3
  <2> DEFINE X == Overlay(book.levels, Changed(t), View(t))
  <2>2. X \in [Level -> Size] BY <1>2, <1>3 DEF Overlay
  <2>3. /\ r \in BookState /\ r.levels = X /\ r.lastSeq = seq + n /\ r.synced /\ r.gaps = 0
        /\ r.pending = book.pending
    <3> HIDE DEF r, X
    <3>1. r = [book EXCEPT !.levels = X, !.lastSeq = seq + n] BY <2>1 DEF X, With
    <3>2. seq + n \in Nat BY <1>1, <1>4
    <3>3. r \in BookState BY <1>1, <2>2, <3>1, <3>2 DEF BookState
    <3>4. /\ r.levels = X /\ r.lastSeq = seq + n /\ r.synced = book.synced /\ r.gaps = book.gaps
          /\ r.pending = book.pending
      BY <1>1, <3>1 DEF BookState
    <3> QED BY <1>1, <1>6, <3>3, <3>4
  <2> HIDE DEF r, X
  <2>4. b = [r EXCEPT !.levels = View(X)]
    <3>1. [r EXCEPT !.levels = r.levels] = r BY <2>3 DEF BookState
    <3> QED BY <1>5, <2>3, <3>1 DEF Trim, View
  <2>5. X \in [Level -> Nat] /\ BookDepth \in Nat BY <2>2, DepthAssumption DEF Size
  <2>6. View(X) \in [Level -> Size] BY <2>2 DEF View, Depth, Size
  <2>7. venue = "kraken" => Depth(View(X), BookDepth) = View(X) BY <2>5, DepthOfDepth DEF View
  <2>8. /\ b \in BookState /\ b.levels = View(X) /\ b.lastSeq = seq + n /\ b.synced /\ b.gaps = 0
        /\ b.pending = book.pending
    <3> HIDE DEF View
    <3> QED BY <2>3, <2>4, <2>6 DEF BookState
  <2>9. \A i \in 1 .. Len(b.pending) : b.pending[i].seq <= seq + n
    <3> TAKE i \in 1 .. Len(b.pending)
    <3>1. i \in 1 .. Len(book.pending) /\ b.pending[i] = book.pending[i] BY <2>8
    <3>2. book.pending[i].seq \in Nat
      <4>1. book.pending[i] \in Entry BY <1>2, <3>1, ElementOfSeq
      <4> QED BY <4>1 DEF Entry
    <3>3. book.pending[i].seq <= seq BY <1>1, <3>1
    <3> QED BY <1>1, <1>4, <3>1, <3>2, <3>3
  <2>10. b.lastSeq \in 0 .. seq + n BY <1>1, <1>4, <2>8
  <2> QED BY <1>4, <1>6, <2>7, <2>8, <2>9, <2>10 DEF X
<1>7. CASE ~book.synced
  <2> DEFINE q == book.pending \o us
  <2>1. r = [book EXCEPT !.pending = q] BY <1>1, <1>4, <1>7, ReplayBuffers
  <2>2. /\ q \in Seq(Entry) /\ Len(q) = Len(book.pending) + n
        /\ \A i \in 1 .. Len(book.pending) + n :
               q[i] = IF i <= Len(book.pending) THEN book.pending[i] ELSE us[i - Len(book.pending)]
    <3>1. /\ q \in Seq(Entry) /\ Len(q) = Len(book.pending) + Len(us)
          /\ \A i \in 1 .. Len(book.pending) + Len(us) :
                 q[i] = IF i <= Len(book.pending) THEN book.pending[i] ELSE us[i - Len(book.pending)]
      BY <1>2, <1>4, ConcatProperties
    <3> HIDE DEF q
    <3> QED BY <1>4, <3>1
  <2>3. \A i \in 1 .. Len(q) : q[i].seq <= seq + n
    <3> TAKE i \in 1 .. Len(q)
    <3> DEFINE k == Len(book.pending)
    <3>1. i \in Nat /\ 1 <= i /\ i <= k + n /\ k \in Nat BY <1>2, <1>4, <2>2
    <3> HIDE DEF q, k
    <3>2. CASE i <= k
      <4>1. i \in 1 .. k /\ q[i] = book.pending[i] BY <2>2, <3>1, <3>2 DEF k
      <4>2. book.pending[i].seq \in Nat
        <5>1. book.pending[i] \in Entry BY <1>2, <4>1, ElementOfSeq DEF k
        <5> QED BY <5>1 DEF Entry
      <4>3. book.pending[i].seq <= seq BY <1>1, <4>1 DEF k
      <4> QED BY <1>1, <1>4, <4>1, <4>2, <4>3
    <3>3. CASE i > k
      <4>0. n \in Nat /\ i - k \in 1 .. n BY <1>4, <3>1, <3>3
      <4>1. i - k \in 1 .. n /\ q[i] = us[i - k] BY <2>2, <3>1, <3>3, <4>0 DEF k
      <4>2. q[i].seq = seq + (i - k) BY <1>4, <4>1
      <4> QED BY <1>1, <1>4, <4>1, <4>2
    <3> QED BY <3>1, <3>2, <3>3
  <2>4. /\ r \in BookState /\ r.levels = book.levels /\ r.lastSeq = book.lastSeq /\ r.synced = book.synced
        /\ r.gaps = 0 /\ r.pending = q
    <3> HIDE DEF r, q
    <3> QED BY <1>1, <2>1, <2>2 DEF BookState
  <2> HIDE DEF r, q
  <2>5. b = [r EXCEPT !.levels = View(book.levels)]
    <3>1. [r EXCEPT !.levels = r.levels] = r BY <2>4 DEF BookState
    <3> QED BY <1>5, <2>4, <3>1 DEF Trim, View
  <2>6. View(book.levels) \in [Level -> Size] BY <1>2 DEF View, Depth, Size
  <2>7. venue = "kraken" => Depth(View(book.levels), BookDepth) = View(book.levels)
    <3>1. book.levels \in [Level -> Nat] /\ BookDepth \in Nat BY <1>2, DepthAssumption DEF Size
    <3> QED BY <3>1, DepthOfDepth DEF View
  <2>8. /\ b \in BookState /\ b.levels = View(book.levels) /\ b.lastSeq = book.lastSeq
        /\ b.synced = book.synced /\ b.gaps = 0 /\ b.pending = q
    <3> HIDE DEF View
    <3> QED BY <2>4, <2>5, <2>6 DEF BookState
  <2>9. b.lastSeq \in 0 .. seq + n
    <3>1. book.lastSeq \in 0 .. seq /\ seq \in Nat /\ n \in Nat BY <1>1, <1>4
    <3>2. book.lastSeq \in 0 .. seq + n BY <3>1
    <3> QED BY <2>8, <3>2
  <2> QED BY <1>4, <1>7, <2>3, <2>7, <2>8, <2>9
<1> QED BY <1>2, <1>6, <1>7

-----------------------------------------------------------------------------
(* What the venue's moves keep.                                            *)
LEMMA MoveFacts ==
    ASSUME TypeOK, NEW t \in Books, VenueMoves(t)
    PROVE  /\ truth' \in Books /\ truth' = t
           /\ moves' \in 0 .. MaxMoves /\ moves <= moves' /\ seqID' \in 0 .. moves'
           /\ seqID \in Nat /\ seqID <= seqID'
           /\ venue = "okx" /\ t # truth => seqID' = seqID + 1
           /\ venue # "okx" \/ t = truth => seqID' = seqID
BY BoundsAssumption DEF TypeOK, VenueMoves

(* A frame leaves the snapshot still owed as good as it was, unless it is   *)
(* neither missed nor among those that came first.                         *)
LEMMA OvertakenOK ==
    ASSUME IInv, NEW t \in Books, VenueMoves(t), taken' = taken, venue' = venue,
           taken # None => seeded' = seeded,
           \/ complete' = FALSE
           \/ complete' = complete /\ Overtakes(t) /\ (taken # None => Changed(t) # {})
    PROVE  /\ taken' \in [levels : Books, seqID : 0 .. moves'] \union {None}
           /\ TakenOK'
<1>1. TypeOK /\ TakenOK BY DEF IInv
<1>2. /\ truth' = t /\ moves' \in Nat /\ moves <= moves'
      /\ seqID \in Nat /\ seqID <= seqID' /\ seqID' \in Nat
      /\ venue = "okx" /\ t # truth => seqID' = seqID + 1
      /\ venue # "okx" \/ t = truth => seqID' = seqID
  BY <1>1, MoveFacts, BoundsAssumption
<1>3. taken' \in [levels : Books, seqID : 0 .. moves'] \union {None}
  <2>1. 0 .. moves \subseteq 0 .. moves' BY <1>1, <1>2 DEF TypeOK
  <2> QED BY <1>1, <2>1 DEF TypeOK
<1>4. ASSUME taken # None
      PROVE  /\ ~seeded' /\ View(taken.levels) = taken.levels
             /\ taken.seqID <= seqID'
             /\ ~ Whole'
             /\ venue = "okx" /\ taken.seqID = seqID' => taken.levels = truth'
             /\ venue = "coinbase" /\ complete' =>
                    \A l \in Level : taken.levels[l] # truth'[l] => l \in ahead'
  <2>1. /\ ~seeded /\ View(taken.levels) = taken.levels /\ taken.seqID <= seqID
        /\ venue = "okx" /\ taken.seqID = seqID => taken.levels = truth
        /\ venue = "coinbase" /\ complete =>
               \A l \in Level : taken.levels[l] # truth[l] => l \in ahead
    BY <1>1, <1>4 DEF TakenOK
  <2>2. taken.seqID \in Nat BY <1>1, <1>4 DEF TypeOK
  <2>3. taken.seqID <= seqID' BY <1>2, <2>1, <2>2
  <2>4. ASSUME venue = "okx", taken.seqID = seqID' PROVE taken.levels = truth'
    <3>1. t = truth /\ taken.seqID = seqID BY <1>2, <2>1, <2>2, <2>4
    <3> QED BY <1>2, <2>1, <2>4, <3>1
  <2>5. ~ Whole' BY <1>4 DEF Whole, Overtakes
  <2>6. ASSUME venue = "coinbase", complete', NEW l \in Level, taken.levels[l] # truth'[l]
        PROVE  l \in ahead'
    <3>1. complete /\ ahead' = ahead \union Changed(t) BY <1>4, <2>6 DEF Overtakes
    <3>2. l \in Changed(t) \/ t[l] = truth[l] BY <2>6 DEF Changed, View
    <3> QED BY <1>2, <2>1, <2>6, <3>1, <3>2
  <2> QED BY <1>4, <2>1, <2>3, <2>4, <2>5, <2>6
<1>5. TakenOK' BY <1>4 DEF TakenOK, View
<1> QED BY <1>3, <1>5

(* The end of a session, whatever ended it.                                *)
LEMMA EndSessionInv ==
    ASSUME IInv, EndSession, venue' = venue, shown' = shown,
           truth' \in Books, moves' \in 0 .. MaxMoves, seqID' \in 0 .. moves',
           gaps' \in Nat, stored' \in [Level -> Size], faults' \in 0 .. MaxFaults
    PROVE  IInv'
<1>1. TypeOK /\ ShownIsVenueBook BY DEF IInv
<1>2. /\ up' = FALSE /\ taken' = None /\ book' = NewBook /\ seq' = 0
      /\ lastSeqID' = 0 /\ seeded' = FALSE /\ known' = FALSE /\ complete' = FALSE
      /\ ahead' = {}
  BY DEF EndSession
<1>3. /\ NewBook.levels \in [Level -> Size] /\ NewBook.synced = FALSE /\ NewBook.lastSeq = 0
      /\ NewBook.gaps = 0 /\ NewBook.pending = <<>> /\ NewBook \in BookState
  <2>1. <<>> \in Seq(Entry) BY EmptySeq
  <2> QED BY <2>1 DEF NewBook, Empty, Size, BookState
<1>4. seqID' \in Nat BY BoundsAssumption
<1>5. TypeOK'
  <2>1. venue' \in Venues /\ (shown' # None => {shown'.levels, shown'.view} \subseteq [Level -> Size])
    BY <1>1 DEF TypeOK
  <2>2. lastSeqID' \in 0 .. seqID' /\ book'.lastSeq \in 0 .. seq' /\ seq' \in Nat BY <1>2, <1>3, <1>4
  <2>3. book'.levels \in [Level -> Size] /\ book'.synced \in BOOLEAN BY <1>2, <1>3
  <2>4. up' \in BOOLEAN /\ {seeded', known', complete'} \subseteq BOOLEAN /\ ahead' \subseteq Level BY <1>2
  <2>5. taken' \in [levels : Books, seqID : 0 .. moves'] \union {None} BY <1>2
  <2>6. book' = NewBook /\ seq' = 0 /\ taken' = None /\ ~seeded' /\ ~known' /\ ~complete' BY <1>2
  <2> HIDE DEF NewBook
  <2> QED BY <2>1, <2>2, <2>3, <2>4, <2>5, <2>6 DEF TypeOK, NewBook, Empty
<1>6. BookOK'
  <2>1. \A i \in 1 .. Len(<<>>) : FALSE OBVIOUS
  <2> QED BY <1>2, <1>3, <2>1 DEF BookOK, BookState, Entry
<1>7. TakenOK' BY <1>2 DEF TakenOK
<1>8. InStep' BY <1>2 DEF InStep, Whole
<1>9. KnownOK' BY <1>2 DEF KnownOK
<1>10. StoredReplays' BY <1>2, <1>3 DEF StoredReplays, StreamReplays
<1>11. ShownIsVenueBook' BY <1>1 DEF ShownIsVenueBook
<1>12. StaleWasOvertaken' BY <1>2 DEF StaleWasOvertaken
<1> QED BY <1>5, <1>6, <1>7, <1>8, <1>9, <1>10, <1>11, <1>12 DEF IInv

-----------------------------------------------------------------------------
(* The invariant, action by action.                                        *)
LEMMA InitInv == Init => IInv
<1> SUFFICES ASSUME Init PROVE IInv OBVIOUS
<1>1. truth \in Books
  <2>1. Start \subseteq Level /\ Start \intersect Bid # {} /\ Start \intersect Ask # {}
    BY LevelAssumption
  <2>2. truth \in [Level -> Size] /\ \A l \in Start : truth[l] > 0 BY <2>1 DEF Init, Size
  <2> QED BY <2>1, <2>2 DEF Books
<1>2. /\ NewBook.levels \in [Level -> Size] /\ NewBook.synced = FALSE /\ NewBook.lastSeq = 0
      /\ NewBook.gaps = 0 /\ NewBook.pending = <<>> /\ NewBook \in BookState
  <2>1. <<>> \in Seq(Entry) BY EmptySeq
  <2> QED BY <2>1 DEF NewBook, Empty, Size, BookState
<1>3. Empty \in [Level -> Size] BY DEF Empty, Size
<1>4. TypeOK
  <2>1. venue \in Venues /\ seqID \in 0 .. moves /\ moves \in 0 .. MaxMoves /\ faults \in 0 .. MaxFaults
    BY BoundsAssumption DEF Init
  <2>2. /\ taken = None /\ up = FALSE /\ book = NewBook /\ seq = 0 /\ lastSeqID = 0
        /\ seeded = FALSE /\ known = FALSE /\ complete = FALSE /\ ahead = {} /\ gaps = 0
        /\ stored = Empty /\ shown = None /\ seqID = 0
    BY DEF Init
  <2>3. book.levels \in [Level -> Size] /\ book.synced \in BOOLEAN /\ book.lastSeq \in 0 .. seq
    <3>1. book.levels \in [Level -> Size] /\ book.synced = FALSE /\ book.lastSeq = 0 BY <1>2, <2>2
    <3>2. book.lastSeq \in 0 .. seq BY <2>2, <3>1
    <3>3. book.synced \in BOOLEAN BY <3>1, Zenon
    <3> QED BY <3>1, <3>2, <3>3
  <2>4. stored \in [Level -> Size] BY <1>3, <2>2
  <2>5. lastSeqID \in 0 .. seqID /\ seq \in Nat /\ gaps \in Nat BY <2>2
  <2> QED BY <1>1, <2>1, <2>2, <2>3, <2>4, <2>5, Zenon DEF TypeOK
<1>5. BookOK
  <2>1. \A i \in 1 .. Len(<<>>) : FALSE OBVIOUS
  <2> HIDE DEF NewBook
  <2> QED BY <1>2, <2>1 DEF Init, BookOK
<1>6. TakenOK /\ InStep /\ KnownOK BY DEF Init, TakenOK, InStep, Whole, KnownOK
<1>7. StoredReplays /\ ShownIsVenueBook /\ StaleWasOvertaken
  BY <1>2 DEF Init, StoredReplays, StreamReplays, ShownIsVenueBook, StaleWasOvertaken
<1> QED BY <1>4, <1>5, <1>6, <1>7 DEF IInv

LEMMA UnseenInv == ASSUME IInv, NEW t \in Books, Unseen(t) PROVE IInv'
<1>1. /\ TypeOK /\ BookOK /\ TakenOK /\ InStep /\ KnownOK /\ StoredReplays /\ ShownIsVenueBook
      /\ StaleWasOvertaken
      /\ truth \in Books
  BY DEF IInv, TypeOK
<1>2. /\ t # truth /\ VenueMoves(t) /\ (~up \/ Changed(t) = {})
      /\ venue' = venue /\ taken' = taken /\ up' = up /\ book' = book /\ seq' = seq
      /\ lastSeqID' = lastSeqID /\ seeded' = seeded /\ known' = known /\ complete' = complete
      /\ ahead' = ahead /\ gaps' = gaps /\ stored' = stored /\ shown' = shown /\ faults' = faults
  BY DEF Unseen, sessionVars
<1>3. /\ truth' \in Books /\ truth' = t
      /\ moves' \in 0 .. MaxMoves /\ moves <= moves' /\ seqID' \in 0 .. moves'
      /\ seqID \in Nat /\ seqID <= seqID' /\ (venue # "okx" => seqID' = seqID)
  BY <1>1, <1>2, MoveFacts
<1>4. moves \in Nat /\ moves' \in Nat /\ seqID' \in Nat BY <1>1, <1>3, BoundsAssumption DEF TypeOK
<1>5. TypeOK'
  <2>1. taken' \in [levels : Books, seqID : 0 .. moves'] \union {None}
    <3>1. 0 .. moves \subseteq 0 .. moves' BY <1>3, <1>4
    <3> QED BY <1>1, <1>2, <3>1 DEF TypeOK
  <2>2. lastSeqID' \in 0 .. seqID' BY <1>1, <1>2, <1>3, <1>4 DEF TypeOK
  <2> QED BY <1>1, <1>2, <1>3, <2>1, <2>2 DEF TypeOK, NewBook, Empty
<1>6. CASE ~up
  <2>1. taken = None /\ ~seeded /\ ~complete BY <1>1, <1>6 DEF TypeOK
  <2> QED BY <1>1, <1>2, <1>5, <2>1
          DEF IInv, BookOK, BookState, Entry, TakenOK, InStep, Whole, KnownOK, StoredReplays,
              StreamReplays, View, ShownIsVenueBook, StaleWasOvertaken
<1>7. CASE Changed(t) = {}
  <2>1. View(t) = View(truth) /\ venue = "kraken" BY <1>1, <1>2, <1>7, NoFrame
  <2>2. seqID' = seqID /\ View(truth)' = View(truth)
    BY <1>2, <1>3, <2>1 DEF View
  <2>3. TakenOK'
    BY <1>1, <1>2, <2>1, <2>2 DEF TakenOK, Whole, View
  <2>4. InStep' BY <1>1, <1>2, <2>1, <2>2 DEF InStep, Whole
  <2> QED BY <1>1, <1>2, <1>5, <2>1, <2>3, <2>4
          DEF IInv, BookOK, BookState, Entry, KnownOK, StoredReplays, StreamReplays,
              View, ShownIsVenueBook, StaleWasOvertaken
<1> QED BY <1>2, <1>6, <1>7

LEMMA MissedInv == ASSUME IInv, NEW t \in Books, Missed(t) PROVE IInv'
<1>1. /\ TypeOK /\ BookOK /\ TakenOK /\ InStep /\ KnownOK /\ StoredReplays /\ ShownIsVenueBook
      /\ StaleWasOvertaken
      /\ truth \in Books
  BY DEF IInv, TypeOK
<1>2. /\ VenueMoves(t) /\ Changed(t) # {} /\ complete' = FALSE /\ ahead' = ahead /\ taken' = taken
      /\ venue' = venue /\ up' = up /\ book' = book /\ seq' = seq /\ up
      /\ lastSeqID' = lastSeqID /\ seeded' = seeded /\ known' = known
      /\ gaps' = gaps /\ stored' = stored /\ shown' = shown
      /\ faults < MaxFaults /\ faults' = faults + 1
  BY DEF Missed, Frame, Fault
<1>3. /\ truth' \in Books /\ truth' = t
      /\ moves' \in 0 .. MaxMoves /\ moves <= moves' /\ seqID' \in 0 .. moves'
      /\ seqID \in Nat /\ seqID <= seqID'
      /\ venue = "okx" /\ t # truth => seqID' = seqID + 1
  BY <1>1, <1>2, MoveFacts
<1>4. /\ taken' \in [levels : Books, seqID : 0 .. moves'] \union {None}
      /\ TakenOK'
  BY <1>2, OvertakenOK
<1>5. moves' \in Nat /\ seqID' \in Nat /\ lastSeqID \in Nat /\ lastSeqID <= seqID
  BY <1>1, <1>3, BoundsAssumption DEF TypeOK
<1>6. TypeOK'
  <2>1. lastSeqID' \in 0 .. seqID' BY <1>2, <1>3, <1>5
  <2>2. faults' \in 0 .. MaxFaults BY <1>1, <1>2, BoundsAssumption DEF TypeOK
  <2> QED BY <1>1, <1>2, <1>3, <1>4, <2>1, <2>2 DEF TypeOK, NewBook, Empty
<1>7. BookOK' BY <1>1, <1>2 DEF BookOK, BookState, Entry
<1>8. InStep'
  <2> SUFFICES ASSUME venue = "okx", lastSeqID = seqID' PROVE FALSE BY <1>2 DEF InStep, Whole
  <2>1. t # truth BY <1>2 DEF Changed
  <2> QED BY <1>3, <1>5, <2>1
<1>9. StoredReplays' BY <1>1, <1>2 DEF StoredReplays, StreamReplays, View
<1> QED BY <1>1, <1>2, <1>4, <1>6, <1>7, <1>8, <1>9
        DEF IInv, KnownOK, ShownIsVenueBook, StaleWasOvertaken

LEMMA SubscribeInv == ASSUME IInv, Subscribe PROVE IInv'
<1>1. /\ TypeOK /\ BookOK /\ TakenOK /\ InStep /\ KnownOK /\ StoredReplays /\ ShownIsVenueBook
      /\ StaleWasOvertaken
      /\ truth \in Books
  BY DEF IInv, TypeOK
<1>2. /\ ~up /\ up' = TRUE /\ taken' = [levels |-> View(truth), seqID |-> seqID]
      /\ venue' = venue /\ truth' = truth /\ seqID' = seqID /\ moves' = moves
      /\ book' = book /\ seq' = seq
      /\ lastSeqID' = lastSeqID /\ seeded' = seeded /\ known' = known /\ complete' = TRUE
      /\ ahead' = ahead /\ gaps' = gaps /\ stored' = stored /\ shown' = shown /\ faults' = faults
  BY DEF Subscribe, venueVars
<1>3. View(truth) \in Books /\ View(View(truth)) = View(truth) BY <1>1, ViewFacts
<1>4. seqID \in 0 .. moves /\ seqID \in Nat BY <1>1, BoundsAssumption DEF TypeOK
<1>5. TypeOK'
  <2>1. taken' \in [levels : Books, seqID : 0 .. moves'] BY <1>2, <1>3, <1>4
  <2> QED BY <1>1, <1>2, <2>1 DEF TypeOK
<1>6. TakenOK'
  <2>3. ~seeded BY <1>1, <1>2 DEF TypeOK
  <2>1. taken'.levels = View(truth) /\ taken'.seqID = seqID BY <1>2
  <2>2. venue # "kraken" => View(truth) = truth BY DEF View
  <2> QED BY <1>2, <1>3, <1>4, <2>1, <2>2, <2>3 DEF TakenOK, View
<1>7. ~seeded /\ taken' # None /\ ~book.synced
  <2>1. ~seeded BY <1>1, <1>2 DEF TypeOK
  <2>2. taken' # None BY <1>2, <1>3, <1>4, BooksAre, NoneAssumption
  <2> QED BY <1>1, <2>1, <2>2 DEF BookOK
<1> QED BY <1>1, <1>2, <1>5, <1>6, <1>7
        DEF IInv, BookOK, BookState, Entry, InStep, KnownOK, StoredReplays, StreamReplays, View,
            ShownIsVenueBook, StaleWasOvertaken

LEMMA DisconnectInv == ASSUME IInv, Disconnect PROVE IInv'
<1>1. /\ EndSession /\ venue' = venue /\ shown' = shown /\ truth' = truth /\ moves' = moves
      /\ seqID' = seqID /\ gaps' = gaps /\ stored' = stored /\ faults' = faults
  BY DEF Disconnect, venueVars
<1>2. /\ truth \in Books /\ moves \in 0 .. MaxMoves /\ seqID \in 0 .. moves
      /\ gaps \in Nat /\ stored \in [Level -> Size] /\ faults \in 0 .. MaxFaults
  BY DEF IInv, TypeOK
<1> QED BY <1>1, <1>2, EndSessionInv

LEMMA InstrumentInv == ASSUME IInv, Instrument PROVE IInv'
<1>1. /\ TypeOK /\ BookOK /\ TakenOK /\ InStep /\ KnownOK /\ StoredReplays /\ ShownIsVenueBook
      /\ StaleWasOvertaken
  BY DEF IInv
<1>2. /\ up /\ venue = "kraken" /\ known' = TRUE
      /\ venue' = venue /\ truth' = truth /\ seqID' = seqID /\ moves' = moves
      /\ taken' = taken /\ up' = up /\ book' = book /\ seq' = seq
      /\ lastSeqID' = lastSeqID /\ seeded' = seeded /\ complete' = complete
      /\ ahead' = ahead /\ gaps' = gaps /\ stored' = stored /\ shown' = shown /\ faults' = faults
  BY DEF Instrument, venueVars
<1>3. TypeOK' BY <1>1, <1>2 DEF TypeOK
<1> QED BY <1>1, <1>2, <1>3
        DEF IInv, BookOK, BookState, Entry, TakenOK, InStep, Whole, KnownOK, StoredReplays,
            StreamReplays, View, ShownIsVenueBook, StaleWasOvertaken

LEMMA MissedSnapshotInv == ASSUME IInv, MissedSnapshot PROVE IInv'
<1>1. /\ TypeOK /\ BookOK /\ TakenOK /\ InStep /\ KnownOK /\ StoredReplays /\ ShownIsVenueBook
      /\ StaleWasOvertaken
  BY DEF IInv
<1>2. /\ taken # None /\ taken' = None
      /\ venue' = venue /\ truth' = truth /\ seqID' = seqID /\ moves' = moves
      /\ up' = up /\ book' = book /\ seq' = seq
      /\ lastSeqID' = lastSeqID /\ seeded' = seeded /\ known' = known /\ complete' = FALSE
      /\ ahead' = ahead /\ gaps' = gaps /\ stored' = stored /\ shown' = shown
      /\ faults < MaxFaults /\ faults' = faults + 1
  BY DEF MissedSnapshot, venueVars, Fault
<1>3. TypeOK'
  <2>1. faults' \in 0 .. MaxFaults BY <1>1, <1>2, BoundsAssumption DEF TypeOK
  <2> QED BY <1>1, <1>2, <2>1 DEF TypeOK, NewBook, Empty
<1> QED BY <1>1, <1>2, <1>3
        DEF IInv, BookOK, BookState, Entry, TakenOK, InStep, Whole, KnownOK, StoredReplays,
            StreamReplays, View, ShownIsVenueBook, StaleWasOvertaken

LEMMA BadSnapshotInv == ASSUME IInv, BadSnapshot PROVE IInv'
<1>1. /\ EndSession /\ venue' = venue /\ shown' = shown /\ truth' = truth /\ moves' = moves
      /\ seqID' = seqID /\ gaps' = gaps /\ stored' = stored
      /\ faults < MaxFaults /\ faults' = faults + 1
  BY DEF BadSnapshot, venueVars, Fault
<1>2. /\ truth \in Books /\ moves \in 0 .. MaxMoves /\ seqID \in 0 .. moves
      /\ gaps \in Nat /\ stored \in [Level -> Size] /\ faults \in 0 .. MaxFaults
  BY DEF IInv, TypeOK
<1>3. faults' \in 0 .. MaxFaults BY <1>1, <1>2, BoundsAssumption
<1> QED BY <1>1, <1>2, <1>3, EndSessionInv

LEMMA BadUpdateInv == ASSUME IInv, NEW t \in Books, BadUpdate(t) PROVE IInv'
<1>1. TypeOK BY DEF IInv
<1>2. /\ VenueMoves(t) /\ EndSession /\ venue' = venue /\ shown' = shown /\ gaps' = gaps
      /\ faults < MaxFaults /\ faults' = faults + 1
      /\ \E L \in BeforeTheBad(t) : Emit(L, t)
  BY DEF BadUpdate, Frame, Fault
<1>3. truth' \in Books /\ moves' \in 0 .. MaxMoves /\ seqID' \in 0 .. moves'
  BY <1>1, <1>2, MoveFacts
<1>4. gaps' \in Nat /\ faults' \in 0 .. MaxFaults
  BY <1>1, <1>2, BoundsAssumption DEF TypeOK
<1>5. stored' \in [Level -> Size]
  <2>1. View(t) \in [Level -> Size] /\ stored \in [Level -> Size]
    BY <1>1, ViewFacts, BooksAre DEF TypeOK
  <2> QED BY <1>2, <2>1 DEF Emit
<1> QED BY <1>2, <1>3, <1>4, <1>5, EndSessionInv

(* A frame of the snapshot: the book is the venue's, and what is shown.     *)
LEMMA SnapshotInv == ASSUME IInv, Snapshot PROVE IInv'
<1> DEFINE b == Trim(ApplySnapshot(book, taken.levels, seq + 1))
<1>1. /\ TypeOK /\ BookOK /\ TakenOK /\ InStep /\ KnownOK /\ StoredReplays /\ ShownIsVenueBook
      /\ StaleWasOvertaken
      /\ truth \in Books /\ seq \in Nat /\ moves \in 0 .. MaxMoves /\ seqID \in 0 .. moves
      /\ gaps \in Nat /\ faults \in 0 .. MaxFaults
  BY DEF IInv, TypeOK
<1>2. taken # None BY DEF Snapshot
<1>3. /\ b \in BookState /\ b.levels = taken.levels /\ b.lastSeq = seq + 1 /\ b.synced
      /\ b.pending = <<>> /\ b.gaps = 0 /\ ~ Mismatch(b, taken.levels)
  <2> HIDE DEF b
  <2> QED BY <1>2, SnapshotBook DEF b
<1>4. /\ stored' = taken.levels /\ taken' = None /\ seq' = seq + 1 /\ lastSeqID' = taken.seqID
      /\ seeded' = TRUE /\ complete' = complete /\ ahead' = ahead /\ Applied(b, taken.levels)
      /\ venue' = venue /\ truth' = truth /\ seqID' = seqID /\ moves' = moves /\ faults' = faults
  BY <1>3, Zenon DEF Snapshot, EmitSnapshot, venueVars
<1> HIDE DEF b
<1>5. /\ book' = b /\ up' = up /\ known' = known /\ gaps' = gaps
      /\ shown' = [levels |-> Depth(b.levels, ShowDepth), synced |-> b.synced,
                   view |-> Depth(taken.levels, ShowDepth), checked |-> known, whole |-> Whole']
  BY <1>4 DEF Applied, OnBook
<1>6. /\ taken.levels \in Books /\ taken.seqID \in Nat /\ up
      /\ View(taken.levels) = taken.levels /\ taken.seqID <= seqID
      /\ Whole => taken.levels = View(truth) /\ taken.seqID = seqID
      /\ venue = "okx" /\ taken.seqID = seqID => taken.levels = truth
      /\ venue = "coinbase" /\ complete => \A l \in Level : taken.levels[l] # truth[l] => l \in ahead
  BY <1>1, <1>2 DEF TypeOK, TakenOK
<1>7. taken.levels \in [Level -> Size] BY <1>6, BooksAre
<1>8. Depth(taken.levels, ShowDepth) \in [Level -> Size] BY <1>7 DEF Depth, Size
<1>9. TypeOK'
  <2>1. lastSeqID' \in 0 .. seqID'
    <3>1. seqID \in Nat BY <1>1, BoundsAssumption
    <3> QED BY <1>4, <1>6, <3>1
  <2>2. book'.lastSeq \in 0 .. seq' /\ seq' \in Nat BY <1>1, <1>3, <1>4, <1>5
  <2>3. book'.levels \in [Level -> Size] /\ book'.synced \in BOOLEAN BY <1>3, <1>5, <1>7
  <2>4. shown'.levels \in [Level -> Size] /\ shown'.view \in [Level -> Size] BY <1>3, <1>5, <1>8
  <2>5. {seeded', known', complete'} \subseteq BOOLEAN /\ ahead' \subseteq Level
    BY <1>1, <1>4, <1>5, <1>6 DEF TypeOK
  <2>6. venue' \in Venues /\ up' \in BOOLEAN BY <1>1, <1>4, <1>5 DEF TypeOK
  <2>7. stored' \in [Level -> Size] BY <1>4, <1>7
  <2> QED BY <1>1, <1>4, <1>5, <1>6, <2>1, <2>2, <2>3, <2>4, <2>5, <2>6, <2>7 DEF TypeOK
<1>10. BookOK'
  <2>1. \A i \in 1 .. Len(<<>>) : FALSE OBVIOUS
  <2> QED BY <1>3, <1>4, <1>5, <2>1 DEF BookOK, BookState, Entry
<1>11. TakenOK' BY <1>4 DEF TakenOK
<1>12. InStep' BY <1>3, <1>4, <1>5, <1>6 DEF InStep, Whole, View
<1>13. KnownOK' BY <1>1, <1>4, <1>5 DEF KnownOK
<1>14. StoredReplays' BY <1>3, <1>4, <1>5, <1>6 DEF StoredReplays, StreamReplays, View
<1>15. ShownIsVenueBook' BY <1>3, <1>5 DEF ShownIsVenueBook
<1>16. StaleWasOvertaken' BY <1>3, <1>4, <1>5, <1>6 DEF StaleWasOvertaken
<1> QED BY <1>9, <1>10, <1>11, <1>12, <1>13, <1>14, <1>15, <1>16 DEF IInv

(* What the book and the venue have in common when a frame is applied.      *)
LEMMA AppliedBook ==
    ASSUME IInv, NEW t \in Books, NEW b, b = ApplyChanges(Changed(t), t)
    PROVE  /\ Whole /\ taken = None => b.synced /\ b.levels = View(t)
           /\ venue = "okx" /\ Contiguous => b.synced /\ b.levels = t
           /\ known /\ ~ Mismatch(b, View(t)) => b.levels = View(t)
           /\ Whole /\ taken = None => ~ Mismatch(b, View(t))
<1>1. /\ TypeOK /\ BookOK /\ InStep /\ KnownOK /\ truth \in Books BY DEF IInv, TypeOK
<1>2. /\ b.synced = book.synced
      /\ b.synced => b.levels = View(Overlay(book.levels, Changed(t), View(t)))
      /\ venue = "kraken" => Depth(b.levels, BookDepth) = b.levels
  BY ChangesBook
<1>3. View(Overlay(View(truth), Changed(t), View(t))) = View(t) BY <1>1, FrameBrings
<1>4. Whole /\ taken = None => b.synced /\ b.levels = View(t) BY <1>1, <1>2, <1>3 DEF InStep
<1>5. ASSUME venue = "okx", Contiguous PROVE b.synced /\ b.levels = t
  <2>1. book.synced /\ book.levels = truth BY <1>1, <1>5 DEF Contiguous, BookOK, InStep
  <2>2. View(truth) = truth /\ View(t) = t BY <1>5 DEF View
  <2> QED BY <1>2, <1>3, <2>1, <2>2
<1>6. known => venue = "kraken" BY <1>1 DEF KnownOK
<1>7. known /\ ~ Mismatch(b, View(t)) => b.levels = View(t) BY <1>2, <1>6 DEF Mismatch
<1>8. Whole /\ taken = None => ~ Mismatch(b, View(t)) BY <1>2, <1>4, <1>6 DEF Mismatch
<1> QED BY <1>4, <1>5, <1>7, <1>8

LEMMA UpdateInv == ASSUME IInv, NEW t \in Books, Update(t) PROVE IInv'
<1> DEFINE b == ApplyChanges(Changed(t), t)
           n == Cardinality(Changed(t))
<1>1. /\ TypeOK /\ BookOK /\ TakenOK /\ InStep /\ KnownOK /\ StoredReplays /\ ShownIsVenueBook
      /\ StaleWasOvertaken
      /\ truth \in Books /\ seq \in Nat /\ gaps \in Nat /\ faults \in 0 .. MaxFaults
      /\ stored \in [Level -> Size]
  BY DEF IInv, TypeOK
<1>2. VenueMoves(t) /\ venue' = venue /\ faults' = faults /\ up BY DEF Update, Frame
<1>3. /\ truth' \in Books /\ truth' = t
      /\ moves' \in 0 .. MaxMoves /\ moves <= moves' /\ seqID' \in 0 .. moves'
      /\ seqID \in Nat /\ seqID <= seqID'
      /\ venue = "okx" /\ t # truth => seqID' = seqID + 1
  BY <1>1, <1>2, MoveFacts
<1>4. View(t) \in [Level -> Size] BY ViewFacts, BooksAre
<1>5. ASSUME Resync, stored' \in [Level -> Size] PROVE IInv'
  <2>1. EndSession /\ gaps' \in Nat /\ shown' = shown BY <1>1, <1>5 DEF Resync
  <2> QED BY <1>1, <1>2, <1>3, <1>5, <2>1, EndSessionInv
<1>6. Emit(Changed(t), t) => stored' \in [Level -> Size] BY <1>1, <1>4 DEF Emit
<1>7. ASSUME Emit(Changed(t), t), ~ Mismatch(b, View(t)), seq' = seq + n,
             lastSeqID' = IF venue = "okx" THEN seqID' ELSE lastSeqID,
             Overtakes(t), taken' = taken, seeded' = seeded, complete' = complete, Applied(b, View(t)),
             venue = "okx" => Contiguous
      PROVE  IInv'
  <2>0. taken # None => Changed(t) # {} /\ ~ Whole'
    <3> SUFFICES ASSUME taken # None PROVE Changed(t) # {} /\ ~ Whole' OBVIOUS
    <3>1. venue # "okx" BY <1>1, <1>7 DEF TakenOK, Contiguous
    <3>2. Changed(t) # {} BY <3>1 DEF Update, Frame
    <3> QED BY <1>7, <3>2 DEF Whole, Overtakes
  <2>1. /\ n \in Nat /\ b \in BookState /\ b.gaps = 0 /\ b.synced = book.synced
        /\ b.lastSeq \in 0 .. seq + n
        /\ b.synced => b.lastSeq = seq + n
        /\ b.synced => b.levels = View(Overlay(book.levels, Changed(t), View(t)))
        /\ \A i \in 1 .. Len(b.pending) : b.pending[i].seq <= seq + n
    <3> HIDE DEF b, n
    <3> QED BY ChangesBook DEF b, n
  <2>2. /\ Whole /\ taken = None => b.synced /\ b.levels = View(t)
        /\ venue = "okx" => b.synced /\ b.levels = t
        /\ known => b.levels = View(t)
    <3> HIDE DEF b
    <3> QED BY <1>7, AppliedBook DEF b
  <2> HIDE DEF b, n
  <2>3. /\ book' = b /\ up' = up /\ known' = known /\ gaps' = gaps
        /\ shown' = [levels |-> Depth(b.levels, ShowDepth), synced |-> b.synced,
                     view |-> Depth(View(t), ShowDepth), checked |-> known, whole |-> Whole']
    BY <1>7 DEF Applied, OnBook
  <2>4. /\ taken' \in [levels : Books, seqID : 0 .. moves'] \union {None}
        /\ TakenOK'
    BY <1>2, <1>7, <2>0, OvertakenOK
  <2>5. b.levels \in [Level -> Size] /\ b.synced \in BOOLEAN BY <2>1 DEF BookState
  <2>6. lastSeqID \in Nat /\ lastSeqID <= seqID /\ seqID' \in Nat
    BY <1>1, <1>3, BoundsAssumption DEF TypeOK
  <2>7. TypeOK'
    <3>1. lastSeqID' \in 0 .. seqID' BY <1>3, <1>7, <2>6
    <3>2. book'.lastSeq \in 0 .. seq' /\ seq' \in Nat BY <1>1, <1>7, <2>1, <2>3
    <3>3. book'.levels \in [Level -> Size] /\ book'.synced \in BOOLEAN BY <2>3, <2>5
    <3>4. shown'.levels \in [Level -> Size] /\ shown'.view \in [Level -> Size]
      <4>1. /\ Depth(b.levels, ShowDepth) \in [Level -> Size]
            /\ Depth(View(t), ShowDepth) \in [Level -> Size]
        BY <1>4, <2>5 DEF Depth, Size
      <4> QED BY <2>3, <4>1
    <3>5. {seeded', known', complete'} \subseteq BOOLEAN /\ ahead' \subseteq Level
      BY <1>1, <1>7, <2>3 DEF TypeOK, Overtakes, Changed
    <3>6. venue' \in Venues /\ up' \in BOOLEAN /\ up' BY <1>1, <1>2, <2>3 DEF TypeOK
    <3>7. gaps' \in Nat /\ faults' \in 0 .. MaxFaults BY <1>1, <1>2, <2>3
    <3>8. stored' \in [Level -> Size] BY <1>6, <1>7
    <3> QED BY <1>3, <2>4, <3>1, <3>2, <3>3, <3>4, <3>5, <3>6, <3>7, <3>8 DEF TypeOK
  <2>8. BookOK' BY <1>1, <1>7, <2>1, <2>3 DEF BookOK, BookState, Entry
  <2>9. InStep'
    <3>1. Whole' /\ taken' = None => book'.synced /\ book'.levels = View(truth)'
      BY <1>1, <1>2, <1>3, <1>7, <2>2, <2>3 DEF InStep, Whole, Overtakes, View
    <3>2. venue' = "okx" => book'.levels = truth' /\ lastSeqID' = seqID' BY <1>2, <1>3, <1>7, <2>2, <2>3
    <3> QED BY <1>2, <3>1, <3>2 DEF InStep
  <2>10. KnownOK' BY <1>1, <1>2, <2>3 DEF KnownOK
  <2>11. StoredReplays'
    <3> SUFFICES ASSUME venue # "kraken", book.synced PROVE stored' = b.levels
      BY <1>2, <1>7, <2>1, <2>3 DEF StoredReplays, StreamReplays, View
    <3>1. stored = book.levels BY <1>1 DEF StoredReplays, StreamReplays, View
    <3>2. b.levels = Overlay(book.levels, Changed(t), View(t)) BY <2>1 DEF View
    <3>3. stored' = Overlay(stored, Changed(t), View(t)) BY <1>7 DEF Emit, Overlay
    <3> QED BY <3>1, <3>2, <3>3
  <2>12. ShownIsVenueBook'
    <3>1. venue = "okx" => View(t) = t BY DEF View
    <3>2. Whole' => Whole /\ taken = None BY <1>7, <2>0 DEF Whole, Overtakes
    <3> QED BY <1>2, <1>7, <2>2, <2>3, <3>1, <3>2 DEF ShownIsVenueBook
  <2>13. StaleWasOvertaken'
    <3> SUFFICES ASSUME venue = "coinbase", complete, b.synced, NEW l \in Level,
                        b.levels[l] # t[l]
                 PROVE  l \in ahead'
      BY <1>2, <1>3, <1>7, <2>3 DEF StaleWasOvertaken
    <3>1. taken = None /\ book.synced BY <1>1, <2>1 DEF TakenOK, BookOK
    <3>2. b.levels = Overlay(book.levels, Changed(t), View(t)) BY <2>1 DEF View
    <3>3. b.levels[l] = IF l \in Changed(t) THEN t[l] ELSE book.levels[l]
      BY <3>2 DEF Overlay, View
    <3>4. l \notin Changed(t) => t[l] = truth[l] BY DEF Changed, View
    <3>5. book.levels[l] # truth[l] BY <3>3, <3>4
    <3> QED BY <1>1, <1>7, <3>1, <3>5 DEF StaleWasOvertaken, Overtakes
  <2> QED BY <2>4, <2>7, <2>8, <2>9, <2>10, <2>11, <2>12, <2>13 DEF IInv
<1>8. CASE venue = "okx" /\ ~Contiguous
  <2>1. Resync /\ stored' = stored BY <1>8 DEF Update
  <2> QED BY <1>1, <1>5, <2>1
<1>9. CASE ~ (venue = "okx" /\ ~Contiguous)
  <2>1. /\ Emit(Changed(t), t)
        /\ \/ /\ ~ Mismatch(b, View(t)) /\ seq' = seq + n
              /\ lastSeqID' = IF venue = "okx" THEN seqID' ELSE lastSeqID
              /\ Overtakes(t) /\ taken' = taken /\ seeded' = seeded /\ complete' = complete
              /\ Applied(b, View(t))
           \/ Resync
    BY <1>9, Zenon DEF Update
  <2> HIDE DEF b, n
  <2> QED BY <1>5, <1>6, <1>7, <1>9, <2>1
<1> QED BY <1>8, <1>9

-----------------------------------------------------------------------------
LEMMA NextInv == IInv /\ [Next]_vars => IInv'
<1> SUFFICES ASSUME IInv, [Next]_vars PROVE IInv' OBVIOUS
<1>1. \A t \in Near : t \in Books BY DEF Near
<1>2. CASE \E t \in Near : Unseen(t) BY <1>1, <1>2, UnseenInv
<1>3. CASE \E t \in Near : Missed(t) BY <1>1, <1>3, MissedInv
<1>4. CASE \E t \in Near : Update(t) BY <1>1, <1>4, UpdateInv
<1>5. CASE \E t \in Near : BadUpdate(t) BY <1>1, <1>5, BadUpdateInv
<1>6. CASE Subscribe BY <1>6, SubscribeInv
<1>7. CASE Disconnect BY <1>7, DisconnectInv
<1>8. CASE Instrument BY <1>8, InstrumentInv
<1>9. CASE Snapshot BY <1>9, SnapshotInv
<1>10. CASE MissedSnapshot BY <1>10, MissedSnapshotInv
<1>11. CASE BadSnapshot BY <1>11, BadSnapshotInv
<1>12. CASE UNCHANGED vars
  <2>1. /\ venue' = venue /\ truth' = truth /\ seqID' = seqID /\ moves' = moves
        /\ taken' = taken /\ up' = up /\ book' = book /\ seq' = seq
        /\ lastSeqID' = lastSeqID /\ seeded' = seeded /\ known' = known /\ complete' = complete
        /\ ahead' = ahead /\ gaps' = gaps /\ stored' = stored /\ shown' = shown /\ faults' = faults
    BY <1>12 DEF vars, venueVars, sessionVars
  <2> QED BY <2>1
          DEF IInv, TypeOK, BookOK, BookState, Entry, TakenOK, InStep, Whole, KnownOK, StoredReplays,
              StreamReplays, View, ShownIsVenueBook, StaleWasOvertaken, NewBook, Empty
<1> QED BY <1>2, <1>3, <1>4, <1>5, <1>6, <1>7, <1>8, <1>9, <1>10, <1>11, <1>12 DEF Next

LEMMA Invariance == Spec => []IInv
BY InitInv, NextInv, PTL DEF Spec

(* Types; a session that is not running has left nothing for the next one:  *)
(* New and the maps each session makes for itself.                         *)
THEOREM TypeCorrect == Spec => []TypeOK
<1>1. IInv => TypeOK BY DEF IInv
<1> QED BY <1>1, Invariance, PTL

(* A book shown as synced is the venue's: on OKX always, on Kraken whenever *)
(* the checksum could be compared, and everywhere while the session has    *)
(* missed no frame and none came before its snapshot.                      *)
THEOREM ShownBookIsTrue == Spec => []ShownIsVenueBook
<1>1. IInv => ShownIsVenueBook BY DEF IInv
<1> QED BY <1>1, Invariance, PTL

(* The frames that did come before it are not replayed over the snapshot,   *)
(* as coinbase/book.go:163-164 says they are: whatever the book buffered,  *)
(* a snapshot leaves it with just the levels of the snapshot (numbered     *)
(* after what was buffered, it makes the replay skip all of it) ...        *)
THEOREM SnapshotReplaysNothing ==
    Spec => [][Snapshot /\ book'.synced =>
                   book'.levels = taken.levels /\ book'.lastSeq = seq']_vars
<1>1. IInv /\ [Next]_vars
      => [Snapshot /\ book'.synced => book'.levels = taken.levels /\ book'.lastSeq = seq']_vars
  <2> SUFFICES ASSUME IInv, Snapshot PROVE book'.levels = taken.levels /\ book'.lastSeq = seq'
    OBVIOUS
  <2> DEFINE b == Trim(ApplySnapshot(book, taken.levels, seq + 1))
  <2>1. taken # None BY DEF Snapshot
  <2>2. b.levels = taken.levels /\ b.lastSeq = seq + 1 /\ ~ Mismatch(b, taken.levels)
    <3> HIDE DEF b
    <3> QED BY <2>1, SnapshotBook DEF b
  <2>3. book' = b /\ seq' = seq + 1 BY <2>2, Zenon DEF Snapshot, Applied
  <2> HIDE DEF b
  <2> QED BY <2>2, <2>3
<1> QED BY <1>1, Invariance, PTL DEF Spec

(* ... and on Coinbase, where a session goes on from there, what the book   *)
(* gets wrong is what those frames changed and nothing else.               *)
THEOREM OnlyTheOvertakenAreStale == Spec => []StaleWasOvertaken
<1>1. IInv => StaleWasOvertaken BY DEF IInv
<1> QED BY <1>1, Invariance, PTL

(* On Coinbase and OKX the persisted rows replay to the connector's book,   *)
(* and no connector's numbering looks like a gap to the engine.            *)
THEOREM StoredRowsReplay == Spec => []StoredReplays
<1>1. IInv => StoredReplays BY DEF IInv
<1> QED BY <1>1, Invariance, PTL

LEMMA NoFalseResyncStep ==
    IInv /\ [Next]_vars
    => [gaps' # gaps => ~Whole \/ (taken # None /\ moves' # moves)]_vars
<1> SUFFICES ASSUME IInv, [Next]_vars, gaps' # gaps, Whole, taken = None \/ moves' = moves
             PROVE  FALSE
  OBVIOUS
<1>1. \A t \in Near : t \in Books BY DEF Near
<1>2. ASSUME NEW t \in Near, Update(t) PROVE FALSE
  <2>1. /\ InStep /\ BookOK /\ t \in Books /\ moves \in Nat BY <1>1 DEF IInv, TypeOK
  <2>2. moves' = moves + 1 BY <1>2 DEF Update, Frame, VenueMoves
  <2>3. taken = None BY <2>1, <2>2
  <2>4. venue = "okx" => Contiguous BY <2>1, <2>3 DEF InStep, BookOK, Contiguous
  <2>5. ~ Mismatch(ApplyChanges(Changed(t), t), View(t)) BY <2>1, <2>3, AppliedBook
  <2>6. gaps' = gaps BY <1>2, <2>4, <2>5, Zenon DEF Update, Applied
  <2> QED BY <2>6
<1>3. ASSUME Snapshot PROVE FALSE
  <2>1. ~ Mismatch(Trim(ApplySnapshot(book, taken.levels, seq + 1)), taken.levels)
    BY <1>3, SnapshotBook DEF Snapshot
  <2>2. gaps' = gaps BY <1>3, <2>1, Zenon DEF Snapshot, Applied
  <2> QED BY <2>2
<1>4. CASE \E t \in Near : Unseen(t) \/ Missed(t) \/ BadUpdate(t)
  BY <1>4 DEF Unseen, Missed, BadUpdate
<1>5. CASE Subscribe \/ Disconnect \/ Instrument \/ MissedSnapshot \/ BadSnapshot
  BY <1>5 DEF Subscribe, Disconnect, Instrument, MissedSnapshot, BadSnapshot
<1>6. CASE UNCHANGED vars BY <1>6 DEF vars
<1> QED BY <1>2, <1>3, <1>4, <1>5, <1>6 DEF Next

(* Neither the checksum nor the seqId linkage gives up a session that has   *)
(* missed nothing and had its snapshot first.                              *)
THEOREM NoFalseAlarm == Spec => NoFalseResync
BY Invariance, NoFalseResyncStep, PTL DEF Spec, NoFalseResync
=============================================================================
