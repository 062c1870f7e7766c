-------------------------- MODULE BookEngineProofs --------------------------
(***************************************************************************)
(* Proofs about BookEngine: type correctness, that a seeded book is the    *)
(* venue's book as of lastSeq, that nothing is silently skipped, that      *)
(* resyncs pair with gaps, that a replay counts only real gaps, and that   *)
(* the engine implements BookReplica.                                      *)
(***************************************************************************)
EXTENDS BookEngine, TLAPS

(* The venue's successive books differ by exactly its numbered updates.    *)
TruthSteps ==
    \A n \in Seqs :
        truth[n + 1] = [truth[n] EXCEPT ![stream[n].key] = stream[n].size]

(* A book that was never seeded is still at sequence number 0.             *)
UnseededIsFresh == ~Seeded => lastSeq = 0

AtLeast(q, n) == \E i \in DOMAIN q : q[i] >= n

(* Only published updates can have been handed to Apply.                   *)
OnlyPublished == \A n \in 1 .. MaxUpdates : copies[n] > 0 => n <= Len(stream)

(* Where every update handed to Apply is reflected or waits: at or below   *)
(* lastSeq, or at or below one that is buffered or about to be replayed.   *)
Accounted ==
    dropped = 0 =>
        \A n \in Seqs : copies[n] > 0 =>
            \/ synced /\ n <= lastSeq
            \/ ~synced /\ AtLeast(pending, n)
            \/ AtLeast(todo, n)

IInv ==
    /\ TypeOK
    /\ TruthSteps
    /\ BookIsVenueBook
    /\ UnseededIsFresh
    /\ ResyncsPairWithGaps
    /\ Sorted(todo)
    /\ OnlyPublished
    /\ Accounted

USE SizeAssumption, PendingAssumption, BoundsAssumption

-----------------------------------------------------------------------------
(* The replay buffer only ever grows by the update that is buffered.       *)
LEMMA BufferFacts ==
    ASSUME NEW S, pending \in Seq(S), dropped \in Nat, NEW n \in S, Buffer(n)
    PROVE  /\ pending' \in Seq(S)
           /\ dropped' \in Nat
           /\ dropped' = 0 => dropped = 0 /\ pending' = Append(pending, n)
<1>1. CASE Len(pending) >= MaxPending
  <2>1. pending # <<>>
    BY <1>1
  <2>2. Tail(pending) \in Seq(S)
    BY <2>1
  <2>3. pending' = Append(Tail(pending), n) /\ dropped' = dropped + 1
    BY <1>1 DEF Buffer
  <2> QED
    BY <2>2, <2>3
<1>2. CASE ~(Len(pending) >= MaxPending)
  <2>1. pending' = Append(pending, n) /\ dropped' = dropped
    BY <1>2 DEF Buffer
  <2> QED
    BY <2>1
<1> QED
  BY <1>1, <1>2

(* What a buffer covers, once an update is appended to it.                 *)
LEMMA AtLeastAppend ==
    ASSUME NEW q \in Seq(Nat), NEW m \in Nat, NEW n \in Nat
    PROVE  /\ AtLeast(q, n) => AtLeast(Append(q, m), n)
           /\ m >= n => AtLeast(Append(q, m), n)
<1> DEFINE r == Append(q, m)
<1>1. /\ DOMAIN r = 1 .. Len(q) + 1
      /\ \A i \in 1 .. Len(q) : r[i] = q[i]
      /\ r[Len(q) + 1] = m
  OBVIOUS
<1>2. DOMAIN q = 1 .. Len(q) /\ Len(q) \in Nat
  OBVIOUS
<1> HIDE DEF r
<1>3. ASSUME AtLeast(q, n) PROVE AtLeast(r, n)
  BY <1>1, <1>2, <1>3 DEF AtLeast
<1>4. ASSUME m >= n PROVE AtLeast(r, n)
  <2>1. Len(q) + 1 \in DOMAIN r
    BY <1>1, <1>2
  <2> QED
    BY <1>1, <1>4, <2>1 DEF AtLeast
<1> QED
  BY <1>3, <1>4 DEF r

(* Sorting keeps the elements.                                             *)
LEMMA SortingFacts ==
    ASSUME NEW S, pending \in Seq(S), NEW q \in SortedPending
    PROVE  /\ q \in Seq(S)
           /\ Sorted(q)
           /\ \A n \in Nat : AtLeast(pending, n) => AtLeast(q, n)
<1>1. PICK f \in Surjection(DOMAIN pending, DOMAIN pending) :
          q = [i \in 1 .. Len(pending) |-> pending[f[i]]]
  BY DEF SortedPending
<1>2. /\ f \in [1 .. Len(pending) -> 1 .. Len(pending)]
      /\ \A w \in 1 .. Len(pending) : \E v \in 1 .. Len(pending) : f[v] = w
  <2>1. DOMAIN pending = 1 .. Len(pending)
    OBVIOUS
  <2> QED
    BY <1>1, <2>1 DEF Surjection
<1>3. q \in Seq(S) /\ DOMAIN q = 1 .. Len(pending)
  <2>1. \A i \in 1 .. Len(pending) : pending[f[i]] \in S
    BY <1>2
  <2>2. q \in [1 .. Len(pending) -> S] /\ Len(pending) \in Nat
    BY <1>1, <2>1
  <2> QED
    BY <2>2
<1>4. ASSUME NEW n \in Nat, AtLeast(pending, n) PROVE AtLeast(q, n)
  <2>1. PICK w \in 1 .. Len(pending) : pending[w] >= n
    BY <1>4 DEF AtLeast
  <2>2. PICK v \in 1 .. Len(pending) : f[v] = w
    BY <1>2
  <2>3. q[v] = pending[w]
    BY <1>1, <2>2
  <2> QED
    BY <1>3, <2>1, <2>3 DEF AtLeast
<1>5. Sorted(q)
  BY DEF SortedPending
<1> QED
  BY <1>3, <1>4, <1>5
-----------------------------------------------------------------------------
(* The initial states.                                                     *)
LEMMA InitEstablishes == Init => IInv
<1> SUFFICES ASSUME Init PROVE IInv
  OBVIOUS
<1>1. PICK book \in Books : truth = <<book>>
  BY DEF Init
<1>2. Seqs = {}
  BY DEF Init, Seqs
<1>3. TypeOK
  <2>1. levels \in Books
    BY DEF Init, Books
  <2>2. truth \in Seq(Books) /\ Len(truth) = 1
    BY <1>1
  <2>3. stream \in Seq(Update) /\ pending \in Seq(Seqs) /\ todo \in Seq(Seqs)
    BY DEF Init
  <2>4. stream = <<>> /\ Len(stream) = 0
    BY DEF Init
  <2>5. copies \in [1 .. MaxUpdates -> Nat]
    BY DEF Init
  <2>6. /\ lagging = 0 /\ lastSeq = 0 /\ synced = FALSE /\ gaps = 0
        /\ resyncs = 0 /\ dropped = 0 /\ request = FALSE
    BY DEF Init
  <2>7. /\ Len(truth) = Len(stream) + 1 /\ Len(stream) <= MaxUpdates
        /\ lagging \in 0 .. MaxLagging /\ lastSeq \in 0 .. Len(stream)
    BY <2>2, <2>4, <2>6
  <2>8. synced \in BOOLEAN /\ request \in BOOLEAN
    BY <2>6
  <2>9. gaps \in Nat /\ resyncs \in Nat /\ dropped \in Nat
    BY <2>6
  <2> QED
    BY <2>1, <2>2, <2>3, <2>5, <2>7, <2>8, <2>9 DEF TypeOK
<1>4. TruthSteps /\ Accounted /\ OnlyPublished
  BY <1>2 DEF Init, TruthSteps, Accounted, OnlyPublished
<1>5. BookIsVenueBook /\ UnseededIsFresh /\ ResyncsPairWithGaps /\ Sorted(todo)
  BY DEF Init, BookIsVenueBook, UnseededIsFresh, ResyncsPairWithGaps, Seeded, Sorted
<1> QED
  BY <1>3, <1>4, <1>5 DEF IInv

(* The venue moves on: what is already numbered keeps its meaning.         *)
LEMMA PublishPreserves ==
    ASSUME IInv, NEW k \in Key, NEW z \in Size, Publish(k, z)
    PROVE  IInv'
<1> DEFINE L == Len(stream)
<1>1. /\ L \in Nat /\ L < MaxUpdates /\ Len(truth) = L + 1
      /\ stream \in Seq(Update) /\ truth \in Seq(Books)
  BY DEF IInv, TypeOK, Publish
<1>2. /\ stream' = Append(stream, [key |-> k, size |-> z])
      /\ truth' = Append(truth, [truth[L + 1] EXCEPT ![k] = z])
  BY <1>1 DEF Publish
<1>3. /\ UNCHANGED <<copies, lagging, levels, lastSeq, synced>>
      /\ UNCHANGED <<pending, gaps, resyncs, dropped, todo, request>>
  BY DEF Publish, feedVars, engineVars
<1>4. truth[L + 1] \in Books /\ [truth[L + 1] EXCEPT ![k] = z] \in Books
  BY <1>1 DEF Books
<1>5. /\ stream' \in Seq(Update) /\ Len(stream') = L + 1
      /\ \A n \in 1 .. L : stream'[n] = stream[n]
      /\ stream'[L + 1] = [key |-> k, size |-> z]
  BY <1>1, <1>2 DEF Update
<1>6. /\ truth' \in Seq(Books) /\ Len(truth') = L + 2
      /\ \A n \in 1 .. L + 1 : truth'[n] = truth[n]
      /\ truth'[L + 2] = [truth[L + 1] EXCEPT ![k] = z]
  BY <1>1, <1>2, <1>4
<1>7. Seqs = 1 .. L /\ Seqs' = 1 .. L + 1 /\ Seqs \subseteq Seqs'
  BY <1>1, <1>5 DEF Seqs
<1>8. lastSeq \in 0 .. L
  BY DEF IInv, TypeOK
<1>9. TypeOK'
  <2>1. pending \in Seq(Seqs') /\ todo \in Seq(Seqs')
    BY <1>7 DEF IInv, TypeOK
  <2> QED
    BY <1>1, <1>3, <1>5, <1>6, <1>8, <2>1 DEF IInv, TypeOK
<1>10. TruthSteps'
  <2> SUFFICES ASSUME NEW n \in 1 .. L + 1
               PROVE  truth'[n + 1] =
                        [truth'[n] EXCEPT ![stream'[n].key] = stream'[n].size]
    BY <1>7 DEF TruthSteps
  <2>1. CASE n = L + 1
    <3>1. stream'[n].key = k /\ stream'[n].size = z
      BY <1>5, <2>1
    <3>2. truth'[n] = truth[L + 1]
      BY <1>1, <1>6, <2>1
    <3>3. truth'[n + 1] = [truth[L + 1] EXCEPT ![k] = z]
      BY <1>1, <1>6, <2>1
    <3> QED
      BY <3>1, <3>2, <3>3
  <2>2. CASE n \in 1 .. L
    <3>1. truth[n + 1] = [truth[n] EXCEPT ![stream[n].key] = stream[n].size]
      BY <1>7, <2>2 DEF IInv, TruthSteps
    <3>2. truth'[n + 1] = truth[n + 1] /\ truth'[n] = truth[n]
      BY <1>1, <1>6, <2>2
    <3> QED
      BY <1>5, <2>2, <3>1, <3>2
  <2> QED
    BY <1>1, <2>1, <2>2
<1>11. BookIsVenueBook' /\ UnseededIsFresh'
  BY <1>1, <1>3, <1>6, <1>8 DEF IInv, BookIsVenueBook, UnseededIsFresh, Seeded
<1>12. ResyncsPairWithGaps' /\ Sorted(todo)'
  BY <1>3 DEF IInv, ResyncsPairWithGaps, Sorted
<1>13. OnlyPublished'
  BY <1>1, <1>3, <1>5 DEF IInv, OnlyPublished
<1>14. Accounted'
  <2> SUFFICES ASSUME dropped' = 0, NEW n \in Seqs', copies'[n] > 0
               PROVE  \/ synced /\ n <= lastSeq
                      \/ ~synced /\ AtLeast(pending, n)
                      \/ AtLeast(todo, n)
    BY <1>3 DEF Accounted, AtLeast
  <2>1. n \in Seqs
    BY <1>1, <1>3, <1>7 DEF IInv, OnlyPublished
  <2> QED
    BY <1>3, <2>1 DEF IInv, Accounted
<1> QED
  BY <1>9, <1>10, <1>11, <1>12, <1>13, <1>14 DEF IInv
-----------------------------------------------------------------------------
(* One call of Apply, from Deliver or from the replay loop: everything the  *)
(* invariant says of the engine's own fields, and that whatever was at or   *)
(* below the update, or was accounted for before, is accounted for after.   *)
Reflected(m) == \/ synced /\ m <= lastSeq
                \/ ~synced /\ AtLeast(pending, m)

EngineTypeOK ==
    /\ levels \in Books
    /\ lastSeq \in 0 .. Len(stream)
    /\ synced \in BOOLEAN
    /\ pending \in Seq(Seqs)
    /\ gaps \in Nat
    /\ resyncs \in Nat
    /\ dropped \in Nat

EngineInv ==
    /\ EngineTypeOK
    /\ BookIsVenueBook
    /\ UnseededIsFresh
    /\ ResyncsPairWithGaps

LEMMA ApplyFacts ==
    ASSUME IInv, NEW n \in Seqs, Apply(n), UNCHANGED venueVars
    PROVE  /\ EngineInv'
           /\ dropped' = 0 =>
                /\ dropped = 0
                /\ \A m \in Seqs : m <= n \/ Reflected(m) => Reflected(m)'
<1> DEFINE L == Len(stream)
<1>1. /\ L \in Nat /\ Len(truth) = L + 1 /\ Seqs = 1 .. L /\ n \in 1 .. L
      /\ stream' = stream /\ truth' = truth /\ Seqs' = Seqs
      /\ stream \in Seq(Update) /\ truth \in Seq(Books)
  BY DEF IInv, TypeOK, Seqs, venueVars
<1>2. EngineInv /\ TruthSteps
  BY DEF IInv, TypeOK, EngineInv, EngineTypeOK
<1>3. /\ lastSeq \in 0 .. L /\ synced \in BOOLEAN /\ pending \in Seq(Nat)
      /\ gaps \in Nat /\ resyncs \in Nat /\ dropped \in Nat
  BY <1>1, <1>2 DEF EngineInv, EngineTypeOK
<1>4. ASSUME Buffer(n)
      PROVE  /\ pending' \in Seq(Seqs) /\ dropped' \in Nat
             /\ dropped' = 0 => dropped = 0
             /\ dropped' = 0 => \A m \in Seqs :
                  (m <= n \/ AtLeast(pending, m)) => AtLeast(pending', m)
  <2>1. /\ pending' \in Seq(Seqs) /\ dropped' \in Nat
        /\ dropped' = 0 => dropped = 0 /\ pending' = Append(pending, n)
    BY <1>2, <1>4, BufferFacts DEF EngineInv, EngineTypeOK
  <2>2. ASSUME dropped' = 0, NEW m \in Seqs, m <= n \/ AtLeast(pending, m)
        PROVE  AtLeast(pending', m)
    <3>1. m \in Nat /\ n \in Nat
      BY <1>1
    <3>2. \/ AtLeast(pending, m)
          \/ n >= m
      BY <2>2, <3>1
    <3>3. AtLeast(Append(pending, n), m)
      BY <1>3, <3>1, <3>2, AtLeastAppend
    <3> QED
      BY <2>1, <2>2, <3>3
  <2> QED
    BY <2>1, <2>2
<1>5. CASE ApplyUnsynced(n)
  <2>1. /\ ~synced /\ ~synced' /\ Buffer(n)
        /\ UNCHANGED <<levels, lastSeq, synced, gaps, resyncs>>
    BY <1>5 DEF ApplyUnsynced
  <2>2. EngineInv'
    BY <1>1, <1>2, <1>4, <2>1 DEF EngineInv, EngineTypeOK, BookIsVenueBook,
       UnseededIsFresh, ResyncsPairWithGaps, Seeded
  <2>3. \A m \in Seqs : Reflected(m) => AtLeast(pending, m)
    BY <2>1 DEF Reflected
  <2>4. \A m \in Seqs : AtLeast(pending', m) => Reflected(m)'
    BY <2>1 DEF Reflected, AtLeast
  <2> QED
    BY <1>4, <2>1, <2>2, <2>3, <2>4
<1>6. CASE ApplyStale(n)
  <2>1. synced /\ n <= lastSeq
    BY <1>1, <1>3, <1>6 DEF ApplyStale
  <2>2. UNCHANGED <<levels, lastSeq, synced, pending, gaps, resyncs, dropped>>
    BY <1>6 DEF ApplyStale, engineVars
  <2>3. EngineInv'
    BY <1>1, <1>2, <2>2 DEF EngineInv, EngineTypeOK, BookIsVenueBook,
       UnseededIsFresh, ResyncsPairWithGaps, Seeded
  <2>4. \A m \in Seqs : m <= n \/ Reflected(m) => Reflected(m)'
    BY <1>1, <1>3, <2>1, <2>2 DEF Reflected
  <2> QED
    BY <2>2, <2>3, <2>4
<1>7. CASE ApplyGap(n)
  <2>1. /\ synced /\ n > lastSeq + 1 /\ gaps' = gaps + 1 /\ synced' = FALSE
        /\ Buffer(n) /\ UNCHANGED <<levels, lastSeq, resyncs>>
    BY <1>7 DEF ApplyGap
  <2>2. EngineInv'
    <3>1. EngineTypeOK'
      <4>1. gaps' \in Nat /\ synced' \in BOOLEAN
        <5>1. gaps \in Nat /\ gaps' = gaps + 1
          BY <1>3, <2>1
        <5>2. gaps' \in Nat
          BY <5>1
        <5>3. synced' \in BOOLEAN
          BY <2>1
        <5> QED
          BY <5>2, <5>3
      <4>2. pending' \in Seq(Seqs') /\ dropped' \in Nat
        BY <1>1, <1>4, <2>1
      <4>3. levels' \in Books /\ lastSeq' \in 0 .. Len(stream') /\ resyncs' \in Nat
        BY <1>1, <1>2, <2>1 DEF EngineInv, EngineTypeOK
      <4> QED
        BY <4>1, <4>2, <4>3 DEF EngineTypeOK
    <3>2. BookIsVenueBook'
      BY <1>1, <1>2, <2>1 DEF EngineInv, BookIsVenueBook, Seeded
    <3>3. UnseededIsFresh'
      BY <1>3, <2>1 DEF UnseededIsFresh, Seeded
    <3>4. ResyncsPairWithGaps'
      BY <1>2, <1>3, <2>1 DEF EngineInv, ResyncsPairWithGaps
    <3> QED
      BY <3>1, <3>2, <3>3, <3>4 DEF EngineInv
  <2>3. \A m \in Seqs : Reflected(m) => m <= n
    BY <1>1, <1>3, <2>1 DEF Reflected
  <2>4. \A m \in Seqs : AtLeast(pending', m) => Reflected(m)'
    BY <2>1 DEF Reflected, AtLeast
  <2> QED
    BY <1>4, <2>1, <2>2, <2>3, <2>4
<1>8. CASE ApplyNext(n)
  <2>1. /\ synced /\ synced' /\ n = lastSeq + 1 /\ lastSeq' = n
        /\ levels' = [levels EXCEPT ![stream[n].key] = stream[n].size]
        /\ UNCHANGED <<synced, pending, gaps, resyncs, dropped>>
    BY <1>8 DEF ApplyNext, ApplyDelta
  <2>2. levels = truth[n] /\ levels \in Books
    BY <1>2, <1>3, <2>1 DEF EngineInv, EngineTypeOK, BookIsVenueBook, Seeded
  <2>3. levels' = truth[n + 1]
    BY <1>2, <2>1, <2>2 DEF TruthSteps
  <2>4. levels' \in Books
    BY <1>1, <2>3
  <2>5. EngineInv'
    BY <1>1, <1>2, <1>3, <2>1, <2>3, <2>4 DEF EngineInv, EngineTypeOK,
       BookIsVenueBook, UnseededIsFresh, ResyncsPairWithGaps, Seeded
  <2>6. \A m \in Seqs : m <= n \/ Reflected(m) => Reflected(m)'
    BY <1>1, <1>3, <2>1 DEF Reflected
  <2> QED
    BY <2>1, <2>5, <2>6
<1> QED
  BY <1>5, <1>6, <1>7, <1>8 DEF Apply

-----------------------------------------------------------------------------
(* The feed hands over an update.                                          *)
LEMMA DeliverPreserves ==
    ASSUME IInv, NEW n \in Seqs, Deliver(n)
    PROVE  IInv'
<1>1. /\ Idle /\ Apply(n) /\ UNCHANGED <<stream, truth, lagging, todo>>
      /\ copies' = [copies EXCEPT ![n] = @ + 1]
      /\ request' = (request \/ ~synced')
  BY DEF Deliver, venueVars
<1>2. /\ EngineInv'
      /\ dropped' = 0 =>
           /\ dropped = 0
           /\ \A m \in Seqs : m <= n \/ Reflected(m) => Reflected(m)'
  BY <1>1, ApplyFacts DEF venueVars
<1>3. /\ TypeOK /\ Len(stream) \in Nat /\ Seqs' = Seqs
      /\ Seqs = 1 .. Len(stream) /\ Seqs \subseteq 1 .. MaxUpdates
  BY <1>1 DEF IInv, TypeOK, Seqs
<1>4. copies' \in [1 .. MaxUpdates -> Nat]
  BY <1>1, <1>3 DEF TypeOK
<1>5. request' \in BOOLEAN
  BY <1>1, <1>2, <1>3 DEF TypeOK, EngineInv, EngineTypeOK
<1>6. TypeOK'
  BY <1>1, <1>2, <1>3, <1>4, <1>5 DEF TypeOK, EngineInv, EngineTypeOK
<1>7. TruthSteps' /\ Sorted(todo)'
  BY <1>1, <1>3 DEF IInv, TruthSteps, Sorted
<1>8. OnlyPublished'
  BY <1>1, <1>3 DEF IInv, TypeOK, OnlyPublished
<1>9. Accounted'
  <2> SUFFICES ASSUME dropped' = 0, NEW m \in Seqs, copies'[m] > 0
               PROVE  Reflected(m)'
    BY <1>1, <1>3 DEF Accounted, Reflected, AtLeast
  <2>1. m = n \/ copies[m] > 0
    BY <1>1, <1>3 DEF TypeOK
  <2>2. ~AtLeast(todo, m)
    BY <1>1 DEF Idle, AtLeast
  <2>3. CASE m = n
    BY <1>2, <1>3, <2>3
  <2>4. CASE copies[m] > 0
    BY <1>2, <2>2, <2>4 DEF IInv, Accounted, Reflected
  <2> QED
    BY <2>1, <2>3, <2>4
<1> QED
  BY <1>2, <1>6, <1>7, <1>8, <1>9 DEF IInv, EngineInv

(* One iteration of the replay loop.                                       *)
LEMMA ReplayPreserves ==
    ASSUME IInv, Replay
    PROVE  IInv'
<1> DEFINE n == Head(todo)
<1>1. /\ todo # <<>> /\ Apply(n) /\ todo' = Tail(todo)
      /\ UNCHANGED <<stream, truth, copies, lagging, request>>
  BY DEF Replay, Idle, venueVars, feedVars
<1>2. /\ TypeOK /\ Len(stream) \in Nat /\ Seqs' = Seqs
      /\ Seqs = 1 .. Len(stream) /\ todo \in Seq(Seqs)
  BY <1>1 DEF IInv, TypeOK, Seqs
<1>3. /\ n \in Seqs /\ todo' \in Seq(Seqs) /\ Len(todo) \in Nat \ {0}
      /\ n = todo[1] /\ DOMAIN todo = 1 .. Len(todo)
      /\ DOMAIN todo' = 1 .. Len(todo) - 1
      /\ \A i \in 1 .. Len(todo) - 1 : todo'[i] = todo[i + 1]
  BY <1>1, <1>2
<1> HIDE DEF n
<1>4. /\ EngineInv'
      /\ dropped' = 0 =>
           /\ dropped = 0
           /\ \A m \in Seqs : m <= n \/ Reflected(m) => Reflected(m)'
  BY <1>1, <1>3, ApplyFacts DEF venueVars
<1>5. TypeOK'
  BY <1>1, <1>2, <1>3, <1>4 DEF TypeOK, EngineInv, EngineTypeOK
<1>6. TruthSteps' /\ OnlyPublished'
  BY <1>1, <1>2 DEF IInv, TruthSteps, OnlyPublished
<1>7. Sorted(todo')
  BY <1>3 DEF IInv, Sorted
<1>8. Accounted'
  <2> SUFFICES ASSUME dropped' = 0, NEW m \in Seqs, copies[m] > 0
               PROVE  Reflected(m)' \/ AtLeast(todo', m)
    BY <1>1, <1>2 DEF Accounted, Reflected, AtLeast
  <2>1. Reflected(m) \/ AtLeast(todo, m)
    BY <1>4 DEF IInv, Accounted, Reflected
  <2>2. CASE Reflected(m)
    BY <1>4, <2>2
  <2>3. CASE AtLeast(todo, m)
    <3>1. PICK i \in 1 .. Len(todo) : todo[i] >= m
      BY <1>3, <2>3 DEF AtLeast
    <3>2. CASE i = 1
      BY <1>2, <1>3, <1>4, <3>1, <3>2
    <3>3. CASE i # 1
      <4>1. i - 1 \in 1 .. Len(todo) - 1 /\ todo'[i - 1] = todo[i]
        BY <1>3, <3>1, <3>3
      <4> QED
        BY <1>3, <3>1, <4>1 DEF AtLeast
    <3> QED
      BY <3>2, <3>3
  <2> QED
    BY <2>1, <2>2, <2>3
<1> QED
  BY <1>4, <1>5, <1>6, <1>7, <1>8 DEF IInv, EngineInv

(* A snapshot is applied; every buffered update is about to be replayed.   *)
LEMMA SnapshotPreserves ==
    ASSUME IInv, NEW s \in 0 .. Len(stream), ApplySnapshot(s),
           synced => s >= lastSeq, lagging' \in 0 .. MaxLagging
    PROVE  IInv'
<1>1. /\ Idle
      /\ resyncs' = IF ~synced /\ lastSeq # 0 THEN resyncs + 1 ELSE resyncs
      /\ levels' = truth[s + 1] /\ lastSeq' = s /\ synced' = TRUE
      /\ pending' = <<>> /\ request' = FALSE
      /\ todo' \in SortedPending
      /\ UNCHANGED <<stream, truth, copies, gaps, dropped>>
  BY DEF ApplySnapshot, LoadSnapshot, CountResync, venueVars
<1>2. /\ TypeOK /\ Len(stream) \in Nat /\ Seqs' = Seqs
      /\ Seqs = 1 .. Len(stream) /\ pending \in Seq(Seqs)
  BY <1>1 DEF IInv, TypeOK, Seqs
<1>3. /\ todo' \in Seq(Seqs) /\ Sorted(todo')
      /\ \A m \in Nat : AtLeast(pending, m) => AtLeast(todo', m)
  BY <1>1, <1>2, SortingFacts
<1>4. resyncs' \in Nat
  BY <1>1, <1>2 DEF TypeOK
<1>5. levels' \in Books
  BY <1>1, <1>2 DEF TypeOK
<1>6. pending' \in Seq(Seqs)
  BY <1>1
<1>7. TypeOK'
  BY <1>1, <1>2, <1>3, <1>4, <1>5, <1>6 DEF TypeOK
<1>8. BookIsVenueBook' /\ UnseededIsFresh'
  BY <1>1 DEF BookIsVenueBook, UnseededIsFresh, Seeded
<1>9. ResyncsPairWithGaps'
  BY <1>1, <1>2 DEF IInv, TypeOK, ResyncsPairWithGaps, UnseededIsFresh, Seeded
<1>10. TruthSteps' /\ OnlyPublished'
  BY <1>1, <1>2 DEF IInv, TruthSteps, OnlyPublished
<1>11. Accounted'
  <2> SUFFICES ASSUME dropped = 0, NEW m \in Seqs, copies[m] > 0
               PROVE  m <= s \/ AtLeast(todo', m)
    BY <1>1, <1>2 DEF Accounted, AtLeast
  <2>1. \/ synced /\ m <= lastSeq
        \/ AtLeast(pending, m)
    BY <1>1 DEF IInv, Accounted, Idle, AtLeast
  <2> QED
    BY <1>2, <1>3, <2>1 DEF TypeOK
<1> QED
  BY <1>3, <1>7, <1>8, <1>9, <1>10, <1>11 DEF IInv

LEMMA StepPreserves == IInv /\ [Next]_vars => IInv'
<1> SUFFICES ASSUME IInv, [Next]_vars PROVE IInv'
  OBVIOUS
<1>1. ASSUME NEW k \in Key, NEW z \in Size, Publish(k, z) PROVE IInv'
  BY <1>1, PublishPreserves
<1>2. ASSUME NEW n \in Seqs, Deliver(n) PROVE IInv'
  BY <1>2, DeliverPreserves
<1>3. CASE FreshSnapshot
  <2>1. /\ Len(stream) \in 0 .. Len(stream) /\ lastSeq <= Len(stream)
        /\ lagging' \in 0 .. MaxLagging
    BY <1>3 DEF FreshSnapshot, IInv, TypeOK
  <2> QED
    BY <1>3, <2>1, SnapshotPreserves DEF FreshSnapshot
<1>4. ASSUME NEW s \in 0 .. Len(stream), LaggingSnapshot(s) PROVE IInv'
  <2>1. /\ ApplySnapshot(s) /\ (synced => s >= lastSeq)
        /\ lagging' \in 0 .. MaxLagging
    BY <1>4 DEF LaggingSnapshot, IInv, TypeOK
  <2> QED
    BY <2>1, SnapshotPreserves
<1>5. CASE Replay
  BY <1>5, ReplayPreserves
<1>6. CASE UNCHANGED vars
  <2>1. /\ UNCHANGED <<stream, truth, copies, lagging, levels, lastSeq, synced>>
        /\ UNCHANGED <<pending, gaps, resyncs, dropped, todo, request>>
    BY <1>6 DEF vars, venueVars, feedVars, engineVars
  <2>2. TypeOK' /\ TruthSteps'
    BY <2>1 DEF IInv, TypeOK, TruthSteps, Seqs
  <2>3. BookIsVenueBook' /\ UnseededIsFresh' /\ ResyncsPairWithGaps'
    BY <2>1 DEF IInv, BookIsVenueBook, UnseededIsFresh, ResyncsPairWithGaps, Seeded
  <2>4. Sorted(todo)' /\ OnlyPublished' /\ Accounted'
    BY <2>1 DEF IInv, Sorted, OnlyPublished, Accounted, AtLeast, Seqs
  <2> QED
    BY <2>2, <2>3, <2>4 DEF IInv
<1> QED
  BY <1>1, <1>2, <1>3, <1>4, <1>5, <1>6 DEF Next

THEOREM Invariance == Spec => []IInv
<1>1. Init => IInv
  BY InitEstablishes
<1>2. IInv /\ [Next]_vars => IInv'
  BY StepPreserves
<1> QED
  BY <1>1, <1>2, PTL DEF Spec

-----------------------------------------------------------------------------
(* Every variable keeps its type (internal/book/book.go:22-37).            *)
THEOREM TypeCorrectness == Spec => []TypeOK
<1>1. IInv => TypeOK
  BY DEF IInv
<1> QED
  BY <1>1, Invariance, PTL

(* From its first snapshot on the book is the venue's book as of lastSeq,   *)
(* whatever the feed loses, repeats or reorders and however old the         *)
(* snapshots are (internal/book/book.go:54-105).                            *)
THEOREM BookIsAlwaysVenueBook == Spec => []BookIsVenueBook
<1>1. IInv => BookIsVenueBook
  BY DEF IInv
<1> QED
  BY <1>1, Invariance, PTL

(* A synced book has passed over no update it was handed, as long as the    *)
(* replay buffer did not overflow (internal/book/book.go:54-115).           *)
THEOREM NothingIsSkipped == Spec => []NothingSkipped
<1>1. IInv => NothingSkipped
  BY DEF IInv, Accounted, NothingSkipped, Idle, AtLeast
<1> QED
  BY <1>1, Invariance, PTL

(* Counted resyncs never outrun counted gaps (internal/book/book.go:79-81). *)
THEOREM ResyncsAlwaysPair == Spec => []ResyncsPairWithGaps
<1>1. IInv => ResyncsPairWithGaps
  BY DEF IInv
<1> QED
  BY <1>1, Invariance, PTL

(* The replay loop counts a gap only when the next update is really missing *)
(* from the buffer (internal/book/book.go:95-104).                          *)
THEOREM ReplayGapsAreReal == Spec => ReplayGapIsReal
<1> DEFINE Real == (~Idle /\ gaps' > gaps) => lastSeq + 1 \notin Range(todo)
<1>1. ASSUME IInv, [Next]_vars PROVE [Real]_vars
  <2> SUFFICES ASSUME Next, ~Idle, gaps' > gaps
               PROVE  lastSeq + 1 \notin Range(todo)
    BY <1>1
  <2>1. /\ todo \in Seq(Nat) /\ gaps \in Nat /\ lastSeq \in Nat
        /\ Sorted(todo) /\ todo # <<>>
    BY <1>1 DEF IInv, TypeOK, Seqs, Idle
  <2>2. Replay
    <3>1. ASSUME NEW k \in Key, NEW z \in Size, Publish(k, z) PROVE FALSE
      BY <2>1, <3>1 DEF Publish, engineVars
    <3>2. ASSUME NEW n \in Seqs, Deliver(n) PROVE FALSE
      BY <3>2 DEF Deliver
    <3>3. ASSUME NEW s \in 0 .. Len(stream), ApplySnapshot(s) PROVE FALSE
      BY <3>3 DEF ApplySnapshot, LoadSnapshot, CountResync
    <3>4. FreshSnapshot => FALSE
      BY DEF FreshSnapshot, ApplySnapshot, LoadSnapshot, CountResync
    <3> QED
      BY <3>1, <3>2, <3>3, <3>4 DEF Next, LaggingSnapshot
  <2>3. Head(todo) > lastSeq + 1
    <3>1. Apply(Head(todo))
      BY <2>2 DEF Replay
    <3>2. ApplyGap(Head(todo))
      BY <2>1, <3>1 DEF Apply, ApplyUnsynced, ApplyStale, ApplyNext, engineVars
    <3> QED
      BY <3>2 DEF ApplyGap
  <2>4. /\ Head(todo) = todo[1] /\ DOMAIN todo = 1 .. Len(todo)
        /\ Len(todo) \in Nat \ {0}
        /\ \A i \in 1 .. Len(todo) : todo[i] \in Nat
    BY <2>1
  <2>5. \A i \in 1 .. Len(todo) : todo[1] <= todo[i]
    BY <2>1, <2>4 DEF Sorted
  <2> QED
    BY <2>1, <2>3, <2>4, <2>5 DEF Range
<1> QED
  BY <1>1, Invariance, PTL DEF Spec, ReplayGapIsReal

-----------------------------------------------------------------------------
(* The engine implements BookReplica: what a reader sees is always a state  *)
(* the venue's book had, advancing one update at a time or reseeded.        *)
THEOREM EngineImplementsReplica == Spec => RefinesReplica
<1>1. Init => Replica!Init
  BY DEF Init, Replica!Init, Books, Seeded
<1>2. ASSUME IInv, [Next]_vars PROVE [Replica!Next]_(Replica!vars)
  <2> USE <1>2
  <2> DEFINE L == Len(stream)
  <2>1. /\ TypeOK /\ L \in Nat /\ Len(truth) = L + 1 /\ Seqs = 1 .. L
        /\ gaps \in Nat
    BY DEF IInv, TypeOK, Seqs
  <2>2. ASSUME NEW k \in Key, NEW z \in Size, Publish(k, z)
        PROVE  Replica!Next
    BY <2>2 DEF Publish, feedVars, engineVars, Replica!Next, Replica!VenueMoves,
       Seeded
  <2>3. ASSUME NEW n \in Seqs, Apply(n), UNCHANGED venueVars
        PROVE  Replica!Next \/ UNCHANGED Replica!vars
    <3>1. UNCHANGED truth
      BY <2>3 DEF venueVars
    <3>2. CASE ApplyUnsynced(n)
      BY <3>1, <3>2 DEF ApplyUnsynced, Seeded, Replica!vars
    <3>3. CASE ApplyStale(n)
      BY <3>1, <3>3 DEF ApplyStale, engineVars, Seeded, Replica!vars
    <3>4. CASE ApplyGap(n)
      BY <2>1, <3>1, <3>4 DEF ApplyGap, Seeded, Replica!vars
    <3>5. CASE ApplyNext(n)
      <4>1. /\ synced /\ synced' /\ n = lastSeq + 1 /\ lastSeq' = lastSeq + 1
            /\ gaps' = gaps
        BY <3>5 DEF ApplyNext
      <4>2. levels' = truth'[lastSeq' + 1]
        BY <2>3, <4>1, ApplyFacts DEF EngineInv, BookIsVenueBook, Seeded
      <4>3. lastSeq \in Nat /\ lastSeq + 1 < Len(truth)
        BY <2>1, <4>1 DEF TypeOK
      <4> QED
        BY <3>1, <4>1, <4>2, <4>3 DEF Replica!Next, Replica!Advance, Seeded
    <3> QED
      BY <2>3, <3>2, <3>3, <3>4, <3>5 DEF Apply
  <2>4. ASSUME NEW n \in Seqs, Deliver(n)
        PROVE  Replica!Next \/ UNCHANGED Replica!vars
    BY <2>3, <2>4 DEF Deliver
  <2>5. ASSUME NEW s \in 0 .. L, ApplySnapshot(s)
        PROVE  Replica!Next
    BY <2>1, <2>5 DEF ApplySnapshot, LoadSnapshot, CountResync, venueVars, Seeded, Replica!Next, Replica!Seed
  <2>6. CASE FreshSnapshot
    <3>1. L \in 0 .. L
      BY <2>1
    <3> QED
      BY <2>5, <2>6, <3>1 DEF FreshSnapshot
  <2>7. ASSUME NEW s \in 0 .. L, LaggingSnapshot(s)
        PROVE  Replica!Next
    BY <2>5, <2>7 DEF LaggingSnapshot
  <2>8. CASE Replay
    <3>1. Head(todo) \in Seqs
      BY <2>1, <2>8 DEF Replay, Idle, TypeOK
    <3> QED
      BY <2>3, <2>8, <3>1 DEF Replay
  <2>9. CASE UNCHANGED vars
    BY <2>9 DEF vars, venueVars, engineVars, Seeded, Replica!vars
  <2> QED
    BY <2>2, <2>4, <2>6, <2>7, <2>8, <2>9 DEF Next
<1> QED
  BY <1>1, <1>2, Invariance, PTL DEF Spec, RefinesReplica, Replica!Spec
=============================================================================
