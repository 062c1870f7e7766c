--------------------------- MODULE BatcherProofs ---------------------------
(***************************************************************************)
(* Proofs about Batcher: type correctness; that the path from Add to       *)
(* storage is one queue; that no accepted row vanishes; that only a        *)
(* deadline loses rows; what a Close without error guarantees; and that    *)
(* the batcher implements RowLog.                                          *)
(***************************************************************************)
EXTENDS Batcher, SequenceTheorems, TLAPS

USE ConfigAssumption, BoundAssumption

Flushing == loop \in {"insert", "backoff"}

(* The run loop is past its last look at the channel.                      *)
Exiting == loop = "exited" \/ (Flushing /\ after = "exited")

(* How the run loop, the stop channel and the caller of Close fit together. *)
Phases ==
    /\ stop <=> closer # "open"
    /\ opCanceled <=> closer \in {"late", "clean", "expired"}
    /\ closer \in {"clean", "expired"} => loop = "exited"
    /\ loop = "exited" => buf = <<>>
    /\ loop \in {"select", "drain"} => Len(buf) < MaxRows
    /\ loop \in {"drain", "exited"} \/ (Flushing /\ after # "select") => stop

(* What was accepted before Close is stored, dropped or in the last batch. *)
BeforeClose ==
    /\ marked <= Len(accepted)
    /\ Exiting =>
         \A i \in 1 .. marked :
             accepted[i] \in Range(stored) \union Range(buf) \union Range(givenUp)

Somewhere ==
    Range(accepted) \subseteq
        Range(stored) \union Range(buf) \union Range(in) \union Range(givenUp)

IInv ==
    /\ TypeOK
    /\ Phases
    /\ LossNeedsDeadline
    /\ ExactlyOnceInOrder
    /\ Somewhere
    /\ BeforeClose

-----------------------------------------------------------------------------
(* The head of the channel moves to the end of the buffer.                 *)
LEMMA MoveHead ==
    ASSUME NEW S, stored \in Seq(S), buf \in Seq(S), in \in Seq(S), in # <<>>
    PROVE  /\ Append(buf, Head(in)) \in Seq(S) /\ Tail(in) \in Seq(S)
           /\ Len(Append(buf, Head(in))) = Len(buf) + 1
           /\ Len(Tail(in)) = Len(in) - 1
           /\ Append(buf, Head(in)) \o Tail(in) = buf \o in
           /\ stored \o Append(buf, Head(in)) \o Tail(in) = stored \o buf \o in
           /\ Range(Append(buf, Head(in))) \union Range(Tail(in))
                = Range(buf) \union Range(in)
<1> DEFINE c == Append(buf, Head(in))
           t == Tail(in)
<1>1. /\ c \in Seq(S) /\ t \in Seq(S) /\ Len(c) = Len(buf) + 1
      /\ Len(t) = Len(in) - 1 /\ Len(in) \in Nat /\ Len(buf) \in Nat
  BY HeadTailProperties, AppendProperties, LenProperties
<1>2. /\ \A i \in 1 .. Len(buf) : c[i] = buf[i]
      /\ c[Len(buf) + 1] = in[1]
      /\ \A i \in 1 .. Len(in) - 1 : t[i] = in[i + 1]
  BY HeadTailProperties, AppendProperties, LenProperties
<1> HIDE DEF c, t
<1>3. c \o t = buf \o in
  <2>1. /\ c \o t \in Seq(S) /\ buf \o in \in Seq(S)
        /\ Len(c \o t) = Len(buf) + Len(in) /\ Len(buf \o in) = Len(buf) + Len(in)
    <3>1. c \o t \in Seq(S) /\ Len(c \o t) = Len(c) + Len(t)
      BY <1>1, ConcatProperties, Zenon
    <3>2. buf \o in \in Seq(S) /\ Len(buf \o in) = Len(buf) + Len(in)
      BY ConcatProperties, Zenon
    <3> QED
      BY <1>1, <3>1, <3>2
  <2>2. ASSUME NEW i \in 1 .. Len(buf) + Len(in) PROVE (c \o t)[i] = (buf \o in)[i]
    <3>1. (c \o t)[i] = IF i <= Len(buf) + 1 THEN c[i] ELSE t[i - (Len(buf) + 1)]
      BY <1>1, ConcatProperties
    <3>2. (buf \o in)[i] = IF i <= Len(buf) THEN buf[i] ELSE in[i - Len(buf)]
      BY <1>1, ConcatProperties
    <3>3. CASE i <= Len(buf)
      BY <1>1, <1>2, <3>1, <3>2, <3>3
    <3>4. CASE i = Len(buf) + 1
      BY <1>1, <1>2, <3>1, <3>2, <3>4
    <3>5. CASE i > Len(buf) + 1
      <4>1. i - (Len(buf) + 1) \in 1 .. Len(in) - 1
        BY <1>1, <3>5
      <4>2. t[i - (Len(buf) + 1)] = in[i - Len(buf)]
        BY <1>1, <1>2, <4>1
      <4> QED
        BY <1>1, <3>1, <3>2, <3>5, <4>2
    <3> QED
      BY <1>1, <3>3, <3>4, <3>5
  <2> QED
    BY <2>1, <2>2, SeqEqual
<1>4. Range(c) \union Range(t) = Range(buf) \union Range(in)
  <2>1. Range(c \o t) = Range(c) \union Range(t)
    BY <1>1, RangeConcatenation
  <2>2. Range(buf \o in) = Range(buf) \union Range(in)
    BY RangeConcatenation
  <2> QED
    BY <1>3, <2>1, <2>2
<1>5. (stored \o c) \o t = (stored \o buf) \o in
  <2>1. (stored \o c) \o t = stored \o (c \o t)
    BY <1>1
  <2>2. (stored \o buf) \o in = stored \o (buf \o in)
    BY ConcatAssociative
  <2> QED
    BY <1>3, <2>1, <2>2
<1> QED
  BY <1>1, <1>3, <1>4, <1>5 DEF c, t

(* A row appended to the channel comes after everything held before.       *)
LEMMA AppendLast ==
    ASSUME NEW S, stored \in Seq(S), buf \in Seq(S), in \in Seq(S),
           NEW e \in S
    PROVE  /\ Append(stored \o buf \o in, e) = stored \o buf \o Append(in, e)
           /\ Range(Append(in, e)) = Range(in) \union {e}
<1> DEFINE sb  == stored \o buf
           one == <<e>>
<1>1. sb \in Seq(S) /\ one \in Seq(S) /\ sb \o in \in Seq(S)
  BY ConcatProperties
<1>2. Append(in, e) = in \o one /\ Append(sb \o in, e) = (sb \o in) \o one
  BY <1>1, AppendIsConcat
<1>3. Range(one) = {e}
  BY DEF Range
<1> HIDE DEF sb, one
<1>4. (sb \o in) \o one = sb \o (in \o one)
  BY <1>1, ConcatAssociative
<1>5. Range(in \o one) = Range(in) \union Range(one)
  BY <1>1, RangeConcatenation
<1>6. Append(sb \o in, e) = sb \o Append(in, e)
  BY <1>2, <1>4
<1> QED
  BY <1>2, <1>3, <1>5, <1>6 DEF sb

(* A row appended to a sequence joins its elements.                        *)
LEMMA RangeAppend ==
    ASSUME NEW S, NEW q \in Seq(S), NEW e \in S
    PROVE  Range(Append(q, e)) = Range(q) \union {e}
<1> DEFINE one == <<e>>
<1>1. one \in Seq(S) /\ Append(q, e) = q \o one /\ Range(one) = {e}
  BY AppendIsConcat DEF Range
<1> HIDE DEF one
<1>2. Range(q \o one) = Range(q) \union Range(one)
  BY <1>1, RangeConcatenation
<1> QED
  BY <1>1, <1>2

(* The sequence that is empty has no elements.                             *)
LEMMA RangeEmpty == Range(<<>>) = {}
BY DEF Range

-----------------------------------------------------------------------------
LEMMA InitEstablishes == Init => IInv
<1> SUFFICES ASSUME Init PROVE IInv
  OBVIOUS
<1>1. /\ in = <<>> /\ buf = <<>> /\ accepted = <<>> /\ stored = <<>>
      /\ givenUp = <<>> /\ marked = 0 /\ adding = {} /\ lostReplies = 0
      /\ loop = "select" /\ after = "select" /\ closer = "open"
      /\ stop = FALSE /\ opCanceled = FALSE
      /\ offered = [p \in Producers |-> 0]
  BY DEF Init
<1>2. TypeOK
  <2>1. offered \in [Producers -> 0 .. MaxOffers]
    BY <1>1
  <2>2. Len(in) = 0 /\ Len(buf) = 0
    BY <1>1
  <2>3. /\ in \in Seq(Rows) /\ buf \in Seq(Rows) /\ accepted \in Seq(Rows)
        /\ stored \in Seq(Rows) /\ givenUp \in Seq(Rows)
    BY <1>1
  <2>4. Len(in) <= Buffer /\ Len(buf) <= MaxRows /\ lostReplies \in 0 .. MaxLostReplies
    BY <1>1, <2>2
  <2>5. marked \in Nat /\ adding \subseteq {p \in Producers : offered[p] > 0}
    BY <1>1
  <2> QED
    BY <1>1, <2>1, <2>3, <2>4, <2>5 DEF TypeOK
<1>3. Phases /\ LossNeedsDeadline
  BY <1>1 DEF Phases, LossNeedsDeadline, Flushing
<1>4. ExactlyOnceInOrder
  <2>1. <<>> \o <<>> \o <<>> = <<>>
    OBVIOUS
  <2> QED
    BY <1>1, <2>1 DEF ExactlyOnceInOrder
<1>5. Somewhere /\ BeforeClose
  BY <1>1, RangeEmpty DEF Somewhere, BeforeClose, Exiting, Flushing
<1> QED
  BY <1>2, <1>3, <1>4, <1>5 DEF IInv
-----------------------------------------------------------------------------
(* Producers.                                                              *)
LEMMA AddPreserves ==
    ASSUME IInv, NEW p \in Producers, Add(p)
    PROVE  IInv'
<1>1. /\ offered[p] < MaxOffers /\ adding' = adding \union {p}
      /\ offered' = [offered EXCEPT ![p] = @ + 1]
      /\ UNCHANGED <<in, buf, loop, after, opCanceled, stop, closer, marked>>
      /\ UNCHANGED <<accepted, stored, lostReplies, givenUp>>
  BY DEF Add, closeVars
<1>2. TypeOK'
  <2>1. offered' \in [Producers -> 0 .. MaxOffers] /\ offered'[p] > 0
        /\ \A q \in Producers : offered[q] > 0 => offered'[q] > 0
    BY <1>1 DEF IInv, TypeOK
  <2>2. adding' \subseteq {q \in Producers : offered'[q] > 0}
    BY <1>1, <2>1 DEF IInv, TypeOK
  <2> QED
    BY <1>1, <2>1, <2>2 DEF IInv, TypeOK
<1> QED
  BY <1>1, <1>2 DEF IInv, Phases, LossNeedsDeadline, ExactlyOnceInOrder,
     Somewhere, BeforeClose, Exiting, Flushing

LEMMA AddSendsPreserves ==
    ASSUME IInv, NEW p \in Producers, AddSends(p)
    PROVE  IInv'
<1> DEFINE r == Row(p)
<1>1. /\ p \in adding /\ Len(in) < Buffer /\ in' = Append(in, r)
      /\ accepted' = Append(accepted, r) /\ adding' = adding \ {p}
      /\ UNCHANGED <<offered, buf, loop, after, opCanceled, stop, closer, marked>>
      /\ UNCHANGED <<stored, lostReplies, givenUp>>
  BY DEF AddSends, closeVars
<1>2. /\ in \in Seq(Rows) /\ buf \in Seq(Rows) /\ stored \in Seq(Rows)
      /\ accepted \in Seq(Rows) /\ TypeOK
  BY DEF IInv, TypeOK
<1>3. r \in Rows
  BY <1>1, <1>2 DEF TypeOK, Row, Rows
<1> HIDE DEF r
<1>4. /\ in' \in Seq(Rows) /\ Len(in') = Len(in) + 1
      /\ accepted' \in Seq(Rows) /\ Len(accepted') = Len(accepted) + 1
      /\ \A i \in 1 .. Len(accepted) : accepted'[i] = accepted[i]
      /\ Len(in) \in Nat /\ Len(accepted) \in Nat
  BY <1>1, <1>2, <1>3, AppendProperties, LenProperties
<1>5. TypeOK'
  <2>1. Len(in') <= Buffer
    BY <1>1, <1>4
  <2> QED
    BY <1>1, <1>4, <2>1 DEF IInv, TypeOK
<1>6. ExactlyOnceInOrder'
  <2>1. Append(stored \o buf \o in, r) = stored \o buf \o Append(in, r)
    BY <1>2, <1>3, AppendLast
  <2> QED
    BY <1>1, <2>1 DEF IInv, ExactlyOnceInOrder
<1>7. Somewhere'
  <2>1. Range(in') = Range(in) \union {r}
    BY <1>1, <1>2, <1>3, RangeAppend
  <2>2. Range(accepted') = Range(accepted) \union {r}
    BY <1>1, <1>2, <1>3, RangeAppend
  <2> QED
    BY <1>1, <2>1, <2>2 DEF IInv, Somewhere
<1>8. BeforeClose'
  <2>1. marked <= Len(accepted) /\ marked \in Nat
    BY <1>2 DEF IInv, BeforeClose, TypeOK
  <2>2. \A i \in 1 .. marked : accepted'[i] = accepted[i]
    BY <1>4, <2>1
  <2> QED
    BY <1>1, <1>4, <2>1, <2>2 DEF IInv, BeforeClose, Exiting, Flushing
<1> QED
  BY <1>1, <1>5, <1>6, <1>7, <1>8 DEF IInv, Phases, LossNeedsDeadline, Flushing

LEMMA AddStopsPreserves ==
    ASSUME IInv, NEW p \in Producers, AddStops(p)
    PROVE  IInv'
<1>1. /\ adding' = adding \ {p}
      /\ UNCHANGED <<offered, in, buf, loop, after, opCanceled, stop, closer, marked>>
      /\ UNCHANGED <<accepted, stored, lostReplies, givenUp>>
  BY DEF AddStops, closeVars
<1>2. TypeOK'
  BY <1>1 DEF IInv, TypeOK
<1> QED
  BY <1>1, <1>2 DEF IInv, Phases, LossNeedsDeadline, ExactlyOnceInOrder,
     Somewhere, BeforeClose, Exiting, Flushing

-----------------------------------------------------------------------------
(* The run loop outside insertWithRetry.                                   *)
LEMMA ReceivePreserves ==
    ASSUME IInv, Receive
    PROVE  IInv'
<1>1. /\ loop \in {"select", "drain"} /\ in # <<>>
      /\ buf' = Append(buf, Head(in)) /\ in' = Tail(in)
      /\ \/ Len(buf) + 1 >= MaxRows /\ loop' = "insert" /\ after' = loop
         \/ Len(buf) + 1 < MaxRows /\ UNCHANGED <<loop, after>>
      /\ UNCHANGED <<offered, adding, opCanceled, stop, closer, marked>>
      /\ UNCHANGED <<accepted, stored, lostReplies, givenUp>>
  <2>1. MaxRows \in Nat /\ Len(buf) \in Nat
    BY DEF IInv, TypeOK
  <2> QED
    BY <2>1 DEF Receive, Flush, runUnchanged, producerVars, closeVars
<1>2. /\ in \in Seq(Rows) /\ buf \in Seq(Rows) /\ stored \in Seq(Rows) /\ TypeOK
  BY DEF IInv, TypeOK
<1>3. /\ buf' \in Seq(Rows) /\ in' \in Seq(Rows) /\ Len(buf') = Len(buf) + 1
      /\ Len(in') = Len(in) - 1
      /\ stored \o buf' \o in' = stored \o buf \o in
      /\ Range(buf') \union Range(in') = Range(buf) \union Range(in)
  <2> DEFINE c == Append(buf, Head(in))
             t == Tail(in)
  <2>1. /\ c \in Seq(Rows) /\ t \in Seq(Rows) /\ Len(c) = Len(buf) + 1
        /\ Len(t) = Len(in) - 1
        /\ stored \o c \o t = stored \o buf \o in
        /\ Range(c) \union Range(t) = Range(buf) \union Range(in)
    BY <1>1, <1>2, MoveHead
  <2>2. buf' = c /\ in' = t
    BY <1>1
  <2> HIDE DEF c, t
  <2> QED
    BY <2>1, <2>2
<1>4. /\ Len(buf) \in Nat /\ Len(in) \in Nat /\ Len(buf) < MaxRows
      /\ Len(in) <= Buffer
  BY <1>1, <1>2 DEF IInv, Phases, TypeOK
<1>5. TypeOK'
  <2>1. Len(buf') <= MaxRows /\ Len(in') <= Buffer
    BY <1>3, <1>4
  <2> QED
    BY <1>1, <1>2, <1>3, <2>1 DEF TypeOK
<1>6. Phases'
  <2>1. loop' \in {"select", "drain"} => Len(buf') < MaxRows
    BY <1>1, <1>3, <1>4
  <2> QED
    BY <1>1, <2>1 DEF IInv, Phases, Flushing
<1>7. ExactlyOnceInOrder'
  BY <1>1, <1>3 DEF IInv, ExactlyOnceInOrder
<1>8. Somewhere'
  BY <1>1, <1>3 DEF IInv, Somewhere
<1>9. BeforeClose'
  BY <1>1 DEF IInv, BeforeClose, Exiting, Flushing
<1> QED
  BY <1>1, <1>5, <1>6, <1>7, <1>8, <1>9 DEF IInv, LossNeedsDeadline

(* Steps of the run loop that move no row.                                 *)
LEMMA LoopMovesPreserves ==
    ASSUME IInv, Tick \/ SeeStop \/ DrainEnds \/ BackoffEnds
    PROVE  IInv'
<1>1. /\ UNCHANGED <<in, buf, offered, adding, opCanceled, stop, closer, marked>>
      /\ UNCHANGED <<accepted, stored, lostReplies, givenUp>>
      /\ loop' \in {"drain", "exited", "insert"}
      /\ after' \in {"select", "drain", "exited"}
  BY DEF IInv, TypeOK, Tick, SeeStop, DrainEnds, BackoffEnds, Flush,
     runUnchanged, producerVars, closeVars
<1>2. TypeOK'
  BY <1>1 DEF IInv, TypeOK
<1>3. Phases'
  BY <1>1 DEF IInv, Phases, Flushing, Tick, SeeStop, DrainEnds, BackoffEnds, Flush
<1>4. BeforeClose'
  <2>1. CASE ~Exiting'
    BY <1>1, <2>1 DEF IInv, BeforeClose
  <2>2. CASE Exiting /\ Exiting'
    BY <1>1, <2>2 DEF IInv, BeforeClose
  <2>3. CASE ~Exiting /\ Exiting'
    <3>1. in = <<>>
      BY <1>1, <2>3 DEF Exiting, Flushing, Tick, SeeStop, DrainEnds, BackoffEnds, Flush
    <3>2. Range(accepted) \subseteq
            Range(stored) \union Range(buf) \union Range(givenUp)
      BY <3>1, RangeEmpty DEF IInv, Somewhere
    <3>3. /\ marked \in Nat /\ marked <= Len(accepted) /\ Len(accepted) \in Nat
          /\ DOMAIN accepted = 1 .. Len(accepted)
      BY DEF IInv, TypeOK, BeforeClose
    <3>4. \A i \in 1 .. marked : accepted[i] \in Range(accepted)
      BY <3>3 DEF Range
    <3> QED
      BY <1>1, <3>2, <3>3, <3>4 DEF BeforeClose
  <2> QED
    BY <2>1, <2>2, <2>3
<1> QED
  BY <1>1, <1>2, <1>3, <1>4 DEF IInv, LossNeedsDeadline, ExactlyOnceInOrder, Somewhere
-----------------------------------------------------------------------------
(* insertWithRetry.                                                        *)

(* A batch that leaves the buffer for the end of another sequence.         *)
LEMMA BatchMoves ==
    ASSUME NEW S, NEW s \in Seq(S), NEW b \in Seq(S), NEW q \in Seq(S)
    PROVE  /\ s \o b \in Seq(S)
           /\ (s \o b) \o <<>> \o q = s \o b \o q
           /\ Range(s \o b) = Range(s) \union Range(b)
           /\ s \o b = <<>> => s = <<>> /\ b = <<>>
<1> DEFINE c == s \o b
<1>1. c \in Seq(S) /\ Range(c) = Range(s) \union Range(b)
  BY ConcatProperties, RangeConcatenation
<1>2. c = <<>> => s = <<>> /\ b = <<>>
  BY ConcatEqualIffEmpty
<1> HIDE DEF c
<1>3. c \o <<>> = c
  BY <1>1, ConcatEmptySeq
<1> QED
  BY <1>1, <1>2, <1>3 DEF c

(* A failed insert leaves storage alone or, its answer lost, commits.      *)
LEMMA StorageGrows ==
    ASSUME IInv,
           \/ UNCHANGED <<stored, lostReplies>>
           \/ /\ stored' = stored \o buf
              /\ lostReplies' = lostReplies + 1
              /\ lostReplies < MaxLostReplies
    PROVE  /\ stored' \in Seq(Rows) /\ Range(stored) \subseteq Range(stored')
           /\ lostReplies' \in 0 .. MaxLostReplies
<1>1. stored \in Seq(Rows) /\ buf \in Seq(Rows) /\ lostReplies \in 0 .. MaxLostReplies
  BY DEF IInv, TypeOK
<1>2. CASE UNCHANGED <<stored, lostReplies>>
  BY <1>1, <1>2
<1>3. CASE /\ stored' = stored \o buf
           /\ lostReplies' = lostReplies + 1
           /\ lostReplies < MaxLostReplies
  <2>1. stored \o buf \in Seq(Rows) /\ Range(stored) \subseteq Range(stored \o buf)
    BY <1>1, BatchMoves
  <2>2. lostReplies' \in 0 .. MaxLostReplies
    BY <1>1, <1>3
  <2> QED
    BY <1>3, <2>1, <2>2
<1> QED
  BY <1>2, <1>3

LEMMA InsertOKPreserves ==
    ASSUME IInv, InsertOK
    PROVE  IInv'
<1>1. /\ loop = "insert" /\ stored' = stored \o buf /\ buf' = <<>>
      /\ loop' = after /\ after' = after
      /\ UNCHANGED <<in, offered, adding, opCanceled, stop, closer, marked>>
      /\ UNCHANGED <<accepted, lostReplies, givenUp>>
  BY DEF InsertOK, Commit, FlushReturns, producerVars, closeVars
<1>2. /\ in \in Seq(Rows) /\ buf \in Seq(Rows) /\ stored \in Seq(Rows) /\ TypeOK
  BY DEF IInv, TypeOK
<1>3. /\ stored' \in Seq(Rows)
      /\ stored' \o <<>> \o in = stored \o buf \o in
      /\ Range(stored') = Range(stored) \union Range(buf)
  BY <1>1, <1>2, BatchMoves
<1>4. /\ buf' \in Seq(Rows) /\ Len(buf') = 0 /\ Range(buf') = {}
  BY <1>1, RangeEmpty
<1>5. TypeOK'
  <2>1. Len(buf') <= MaxRows
    BY <1>4
  <2> QED
    BY <1>1, <1>2, <1>3, <1>4, <2>1 DEF TypeOK
<1>6. Phases'
  <2>1. Len(buf') < MaxRows
    BY <1>4
  <2> QED
    BY <1>1, <1>2, <2>1 DEF IInv, Phases, Flushing, TypeOK
<1>7. ExactlyOnceInOrder'
  BY <1>1, <1>3 DEF IInv, ExactlyOnceInOrder
<1>8. Somewhere'
  BY <1>1, <1>3, <1>4 DEF IInv, Somewhere
<1>9. BeforeClose'
  <2>1. Exiting' => Exiting
    BY <1>1, <1>2 DEF Exiting, Flushing, TypeOK
  <2> QED
    BY <1>1, <1>3, <1>4, <2>1 DEF IInv, BeforeClose
<1> QED
  BY <1>1, <1>5, <1>6, <1>7, <1>8, <1>9 DEF IInv, LossNeedsDeadline

(* A batch is dropped, after an insert or a wait that the deadline ended.  *)
LEMMA DropPreserves ==
    ASSUME IInv, Flushing, opCanceled, DropBatch,
           UNCHANGED <<in, offered, adding, opCanceled, stop, closer, marked, accepted>>,
           \/ UNCHANGED <<stored, lostReplies>>
           \/ /\ stored' = stored \o buf
              /\ lostReplies' = lostReplies + 1
              /\ lostReplies < MaxLostReplies
    PROVE  IInv'
<1>1. /\ givenUp' = givenUp \o buf /\ buf' = <<>> /\ loop' = after /\ after' = after
  BY DEF DropBatch, FlushReturns
<1>2. /\ in \in Seq(Rows) /\ buf \in Seq(Rows) /\ stored \in Seq(Rows)
      /\ givenUp \in Seq(Rows) /\ TypeOK /\ lostReplies \in Nat
  BY DEF IInv, TypeOK
<1>3. /\ givenUp' \in Seq(Rows)
      /\ Range(givenUp') = Range(givenUp) \union Range(buf)
      /\ givenUp' = <<>> => givenUp = <<>> /\ buf = <<>>
  BY <1>1, <1>2, BatchMoves
<1>4. /\ buf' \in Seq(Rows) /\ Len(buf') = 0 /\ Range(buf') = {}
  BY <1>1, RangeEmpty
<1>5. /\ stored' \in Seq(Rows) /\ Range(stored) \subseteq Range(stored')
      /\ lostReplies' \in 0 .. MaxLostReplies
  BY StorageGrows
<1>6. TypeOK'
  <2>1. Len(buf') <= MaxRows
    BY <1>4
  <2> QED
    BY <1>1, <1>2, <1>3, <1>4, <1>5, <2>1 DEF TypeOK
<1>7. Phases'
  <2>1. Len(buf') < MaxRows
    BY <1>4
  <2> QED
    BY <1>1, <1>2, <2>1 DEF IInv, Phases, Flushing, TypeOK
<1>8. LossNeedsDeadline'
  BY DEF IInv, Phases, LossNeedsDeadline, Flushing
<1>9. ExactlyOnceInOrder'
  <2> SUFFICES ASSUME givenUp' = <<>>, lostReplies' = 0
               PROVE  accepted = stored' \o buf' \o in
    BY DEF ExactlyOnceInOrder
  <2>1. stored' = stored /\ lostReplies = 0
    BY <1>2
  <2>2. buf' = buf /\ givenUp = <<>>
    BY <1>1, <1>3
  <2> QED
    BY <2>1, <2>2 DEF IInv, ExactlyOnceInOrder
<1>10. Somewhere'
  BY <1>3, <1>4, <1>5 DEF IInv, Somewhere
<1>11. BeforeClose'
  <2>1. Exiting' => Exiting
    BY <1>1, <1>2 DEF Exiting, Flushing, TypeOK
  <2> QED
    BY <1>3, <1>4, <1>5, <2>1 DEF IInv, BeforeClose
<1> QED
  BY <1>6, <1>7, <1>8, <1>9, <1>10, <1>11 DEF IInv

LEMMA InsertFailsPreserves ==
    ASSUME IInv, InsertFails
    PROVE  IInv'
<1>1. /\ loop = "insert"
      /\ UNCHANGED <<in, offered, adding, opCanceled, stop, closer, marked, accepted>>
      /\ \/ UNCHANGED <<stored, lostReplies>>
         \/ /\ stored' = stored \o buf
            /\ lostReplies' = lostReplies + 1
            /\ lostReplies < MaxLostReplies
  BY DEF InsertFails, Commit, producerVars, closeVars
<1>2. CASE opCanceled
  BY <1>1, <1>2, DropPreserves DEF InsertFails, Flushing
<1>3. CASE ~opCanceled
  <2>1. loop' = "backoff" /\ UNCHANGED <<buf, after, givenUp>>
    BY <1>3 DEF InsertFails
  <2>2. /\ stored \in Seq(Rows) /\ buf \in Seq(Rows) /\ in \in Seq(Rows) /\ TypeOK
        /\ lostReplies \in Nat
    BY DEF IInv, TypeOK
  <2>3. /\ stored' \in Seq(Rows) /\ Range(stored) \subseteq Range(stored')
        /\ lostReplies' \in 0 .. MaxLostReplies
    BY <1>1, StorageGrows
  <2>4. TypeOK'
    BY <1>1, <2>1, <2>2, <2>3 DEF TypeOK
  <2>5. Phases' /\ LossNeedsDeadline'
    BY <1>1, <2>1 DEF IInv, Phases, LossNeedsDeadline, Flushing
  <2>6. ExactlyOnceInOrder'
    <3>1. lostReplies' = 0 => UNCHANGED <<stored, lostReplies>>
      BY <1>1, <2>2
    <3> QED
      BY <1>1, <2>1, <3>1 DEF IInv, ExactlyOnceInOrder
  <2>7. Somewhere'
    BY <1>1, <2>1, <2>3 DEF IInv, Somewhere
  <2>8. BeforeClose'
    BY <1>1, <2>1, <2>3 DEF IInv, BeforeClose, Exiting, Flushing
  <2> QED
    BY <2>4, <2>5, <2>6, <2>7, <2>8 DEF IInv
<1> QED
  BY <1>2, <1>3

LEMMA BackoffCanceledPreserves ==
    ASSUME IInv, BackoffCanceled
    PROVE  IInv'
BY DropPreserves DEF BackoffCanceled, Flushing, producerVars, closeVars
-----------------------------------------------------------------------------
(* Close.                                                                  *)
LEMMA ClosePreserves ==
    ASSUME IInv, Close
    PROVE  IInv'
<1>1. /\ closer = "open" /\ stop' = TRUE /\ closer' = "waiting"
      /\ marked' = Len(accepted)
      /\ UNCHANGED <<offered, adding, in, buf, loop, after, opCanceled>>
      /\ UNCHANGED <<accepted, stored, lostReplies, givenUp>>
  BY DEF Close, closeUnchanged, producerVars
<1>2. Len(accepted) \in Nat
  BY DEF IInv, TypeOK
<1>3. TypeOK'
  BY <1>1, <1>2 DEF IInv, TypeOK
<1>4. ~Exiting
  BY <1>1 DEF IInv, Phases, Exiting, Flushing
<1>5. BeforeClose'
  BY <1>1, <1>2, <1>4 DEF BeforeClose, Exiting, Flushing
<1>6. Phases' /\ LossNeedsDeadline'
  BY <1>1 DEF IInv, Phases, LossNeedsDeadline, Flushing
<1> QED
  BY <1>1, <1>3, <1>5, <1>6 DEF IInv, ExactlyOnceInOrder, Somewhere

LEMMA CloseEndsPreserves ==
    ASSUME IInv, CloseFlushed \/ CloseDeadline \/ CloseGivesUp
    PROVE  IInv'
<1>1. /\ UNCHANGED <<stop, marked, offered, adding, in, buf, loop, after>>
      /\ UNCHANGED <<accepted, stored, lostReplies, givenUp>>
      /\ opCanceled' = TRUE /\ closer' \in {"clean", "late", "expired"}
      /\ closer \in {"waiting", "late"}
      /\ closer' \in {"clean", "expired"} => loop = "exited"
      /\ closer = "late" => closer' = "expired"
  BY DEF CloseFlushed, CloseDeadline, CloseGivesUp, closeUnchanged, producerVars,
     IInv, Phases
<1>2. TypeOK'
  BY <1>1 DEF IInv, TypeOK
<1>3. Phases' /\ LossNeedsDeadline'
  BY <1>1 DEF IInv, Phases, LossNeedsDeadline, Flushing
<1> QED
  BY <1>1, <1>2, <1>3 DEF IInv, ExactlyOnceInOrder, Somewhere, BeforeClose,
     Exiting, Flushing

-----------------------------------------------------------------------------
LEMMA StepPreserves == IInv /\ [Next]_vars => IInv'
<1> SUFFICES ASSUME IInv, [Next]_vars PROVE IInv'
  OBVIOUS
<1>1. ASSUME NEW p \in Producers, Add(p) \/ AddSends(p) \/ AddStops(p) PROVE IInv'
  BY <1>1, AddPreserves, AddSendsPreserves, AddStopsPreserves
<1>2. CASE Run
  BY <1>2, ReceivePreserves, LoopMovesPreserves, BackoffCanceledPreserves DEF Run
<1>3. CASE SeeStop
  BY <1>3, LoopMovesPreserves
<1>4. CASE InsertOK
  BY <1>4, InsertOKPreserves
<1>5. CASE InsertFails
  BY <1>5, InsertFailsPreserves
<1>6. CASE Close
  BY <1>6, ClosePreserves
<1>7. CASE CloseFlushed \/ CloseDeadline \/ CloseGivesUp
  BY <1>7, CloseEndsPreserves
<1>8. CASE UNCHANGED vars
  <2>1. /\ UNCHANGED <<offered, adding, in, buf, loop, after, opCanceled>>
        /\ UNCHANGED <<stop, closer, marked, accepted, stored, lostReplies, givenUp>>
    BY <1>8 DEF vars, producerVars, closeVars
  <2>2. TypeOK'
    BY <2>1 DEF IInv, TypeOK
  <2> QED
    BY <2>1, <2>2 DEF IInv, Phases, LossNeedsDeadline, ExactlyOnceInOrder,
       Somewhere, BeforeClose, Exiting, Flushing
<1> QED
  BY <1>1, <1>2, <1>3, <1>4, <1>5, <1>6, <1>7, <1>8 DEF Next, Proceed

THEOREM Invariance == Spec => []IInv
<1>1. Init => IInv
  BY InitEstablishes
<1>2. IInv /\ [Next]_vars => IInv'
  BY StepPreserves
<1> QED
  BY <1>1, <1>2, PTL DEF Spec

-----------------------------------------------------------------------------
(* Every variable keeps its type; the channel never holds more than Buffer  *)
(* rows and the buffer never more than MaxRows (internal/sink/batcher.go).  *)
THEOREM TypeCorrectness == Spec => []TypeOK
<1>1. IInv => TypeOK
  BY DEF IInv
<1> QED
  BY <1>1, Invariance, PTL

(* Add, the channel, the buffer and storage form one queue as long as no    *)
(* batch was dropped and no reply lost (internal/sink/batcher.go:98-183).   *)
THEOREM OneQueue == Spec => []ExactlyOnceInOrder
<1>1. IInv => ExactlyOnceInOrder
  BY DEF IInv
<1> QED
  BY <1>1, Invariance, PTL

(* Rows are dropped only after Close ran into its deadline                  *)
(* (internal/sink/batcher.go:152-194).                                      *)
THEOREM OnlyDeadlineLoses == Spec => []LossNeedsDeadline
<1>1. IInv => LossNeedsDeadline
  BY DEF IInv
<1> QED
  BY <1>1, Invariance, PTL

(* No accepted row vanishes, and at the exit of the run loop each one       *)
(* accepted before Close is stored or was dropped (batcher.go:134-183).     *)
THEOREM RowsAreAccountedFor == Spec => []NoRowVanishes
<1>1. IInv => NoRowVanishes
  <2> SUFFICES ASSUME IInv PROVE NoRowVanishes
    OBVIOUS
  <2>1. loop = "exited" => Range(buf) = {} /\ Exiting
    BY RangeEmpty DEF IInv, Phases, Exiting
  <2> QED
    BY <2>1 DEF IInv, Somewhere, BeforeClose, NoRowVanishes
<1> QED
  BY <1>1, Invariance, PTL

(* A Close that returns nil has put every row accepted before it in storage *)
(* (internal/sink/batcher.go:134-145, 185-200).                             *)
THEOREM CleanCloseFlushes == Spec => []CleanCloseFlushed
<1>1. IInv => CleanCloseFlushed
  <2> SUFFICES ASSUME IInv, closer = "clean" PROVE CleanCloseFlushed
    BY DEF CleanCloseFlushed
  <2>1. Exiting /\ buf = <<>> /\ givenUp = <<>>
    BY DEF IInv, Phases, LossNeedsDeadline, Exiting
  <2>2. Range(buf) = {} /\ Range(givenUp) = {}
    BY <2>1, RangeEmpty
  <2> QED
    BY <2>1, <2>2 DEF IInv, BeforeClose, CleanCloseFlushed
<1> QED
  BY <1>1, Invariance, PTL

(* The inserter is closed only after the run loop is done with it           *)
(* (internal/sink/batcher.go:188-199).                                      *)
THEOREM InserterIsClosedLast == Spec => []InserterClosedLast
<1>1. IInv => InserterClosedLast
  BY DEF IInv, Phases, InserterClosedLast
<1> QED
  BY <1>1, Invariance, PTL
-----------------------------------------------------------------------------
(* The batcher implements RowLog.                                          *)
LEMMA WaitingSplits ==
    ASSUME NEW S, buf \in Seq(S), in \in Seq(S)
    PROVE  /\ Len(buf \o in) = Len(buf) + Len(in)
           /\ SubSeq(buf \o in, 1, Len(buf)) = buf
           /\ SubSeq(buf \o in, Len(buf) + 1, Len(buf \o in)) = in
           /\ <<>> \o in = in
<1>1. Len(buf) \in Nat /\ Len(in) \in Nat /\ Len(buf \o in) = Len(buf) + Len(in)
  BY ConcatProperties, LenProperties
<1>2. SubSeq(buf \o in, 1, Len(buf)) = buf
  BY <1>1, SubSeqOfConcat1, SubSeqFull
<1>3. SubSeq(buf \o in, Len(buf) + 1, Len(buf) + Len(in)) = in
  BY <1>1, SubSeqOfConcat2, SubSeqFull
<1>4. <<>> \o in = in
  BY ConcatEmptySeq
<1> QED
  BY <1>1, <1>2, <1>3, <1>4

LEMMA WaitingGrows ==
    ASSUME NEW S, buf \in Seq(S), in \in Seq(S), NEW e \in S
    PROVE  buf \o Append(in, e) = Append(buf \o in, e)
<1> DEFINE one == <<e>>
           w   == buf \o in
<1>1. one \in Seq(S) /\ w \in Seq(S)
  BY ConcatProperties
<1>2. Append(in, e) = in \o one /\ Append(w, e) = w \o one
  BY <1>1, AppendIsConcat
<1> HIDE DEF one
<1>3. buf \o (in \o one) = (buf \o in) \o one
  BY <1>1, ConcatAssociative
<1> QED
  BY <1>2, <1>3

(* Each step of the batcher is a step of the log, or none.                 *)
LEMMA StepIsLogStep ==
    ASSUME IInv, Next
    PROVE  Log!Next \/ UNCHANGED Log!vars
<1>1. /\ in \in Seq(Rows) /\ buf \in Seq(Rows) /\ TypeOK
  BY DEF IInv, TypeOK
<1>2. ASSUME NEW p \in Producers, Add(p) \/ AddStops(p) PROVE UNCHANGED Log!vars
  BY <1>2 DEF Add, AddStops, closeVars, Log!vars
<1>3. ASSUME NEW p \in Producers, AddSends(p) PROVE Log!Next
  <2> DEFINE r == Row(p)
  <2>1. /\ p \in adding /\ in' = Append(in, r) /\ accepted' = Append(accepted, r)
        /\ UNCHANGED <<buf, stored, givenUp, closer>>
    BY <1>3 DEF AddSends, closeVars
  <2>2. r \in Rows
    BY <1>1, <2>1 DEF TypeOK, Row, Rows
  <2> HIDE DEF r
  <2>3. buf \o Append(in, r) = Append(buf \o in, r)
    BY <1>1, <2>2, WaitingGrows
  <2>4. Log!Accept(r)
    BY <2>1, <2>3 DEF Log!Accept
  <2> QED
    BY <2>2, <2>4 DEF Log!Next
<1>4. ASSUME Receive PROVE UNCHANGED Log!vars
  <2>1. stored \in Seq(Rows) /\ in # <<>>
    BY <1>4 DEF IInv, TypeOK, Receive
  <2>2. Append(buf, Head(in)) \o Tail(in) = buf \o in
    BY <1>1, <2>1, MoveHead
  <2> QED
    BY <1>4, <2>2 DEF Receive, runUnchanged, closeVars, Log!vars
<1>5. ASSUME Tick \/ SeeStop \/ DrainEnds \/ BackoffEnds PROVE UNCHANGED Log!vars
  BY <1>5 DEF Tick, SeeStop, DrainEnds, BackoffEnds, runUnchanged, closeVars, Log!vars
<1> DEFINE w == buf \o in
           n == Len(buf)
<1>6. /\ SubSeq(w, 1, n) = buf /\ SubSeq(w, n + 1, Len(w)) = in /\ <<>> \o in = in
      /\ buf = <<>> => stored \o buf = stored /\ givenUp \o buf = givenUp
      /\ buf # <<>> => n \in 1 .. Len(w)
  <2>1. n \in Nat /\ Len(in) \in Nat /\ Len(w) = n + Len(in)
    BY <1>1, WaitingSplits, LenProperties
  <2>2. buf # <<>> => n # 0
    BY <1>1, EmptySeq
  <2>3. buf = <<>> => stored \o buf = stored /\ givenUp \o buf = givenUp
    BY ConcatEmptySeq DEF IInv, TypeOK
  <2> QED
    BY <1>1, <2>1, <2>2, <2>3, WaitingSplits
<1>7. ASSUME InsertOK PROVE Log!Next \/ UNCHANGED Log!vars
  <2>1. /\ stored' = stored \o buf /\ buf' = <<>>
        /\ UNCHANGED <<accepted, in, closer, givenUp>>
    BY <1>7 DEF InsertOK, Commit, FlushReturns, closeVars
  <2>2. CASE buf = <<>>
    BY <1>6, <2>1, <2>2 DEF Log!vars
  <2>3. CASE buf # <<>>
    <3>1. Log!Persist(n)
      BY <1>6, <2>1 DEF Log!Persist, Log!Commit, Log!Leave, Log!Group
    <3> QED
      BY <1>6, <2>3, <3>1 DEF Log!Next
  <2> QED
    BY <2>2, <2>3
<1>8. ASSUME UNCHANGED <<accepted, in, closer>>, opCanceled, Flushing,
             buf' = <<>>, givenUp' = givenUp \o buf,
             stored' = stored \/ stored' = stored \o buf
      PROVE  Log!Next \/ UNCHANGED Log!vars
  <2>1. closer \in {"late", "expired"}
    BY <1>8 DEF IInv, Phases, Flushing
  <2>2. CASE buf = <<>>
    BY <1>6, <1>8, <2>2 DEF Log!vars
  <2>3. CASE buf # <<>>
    <3>1. Log!GiveUp(n)
      BY <1>6, <1>8, <2>1 DEF Log!GiveUp, Log!Commit, Log!Leave, Log!Group
    <3> QED
      BY <1>6, <2>3, <3>1 DEF Log!Next
  <2> QED
    BY <2>2, <2>3
<1>9. ASSUME InsertFails PROVE Log!Next \/ UNCHANGED Log!vars
  <2>1. /\ UNCHANGED <<accepted, in, closer>> /\ Flushing
        /\ stored' = stored \/ stored' = stored \o buf
    BY <1>9 DEF InsertFails, Commit, closeVars, Flushing
  <2>2. CASE opCanceled
    BY <1>8, <1>9, <2>1, <2>2 DEF InsertFails, DropBatch, FlushReturns
  <2>3. CASE ~opCanceled
    <3>1. UNCHANGED <<buf, givenUp>>
      BY <1>9, <2>3 DEF InsertFails
    <3>2. CASE stored' = stored
      BY <2>1, <3>1, <3>2 DEF Log!vars
    <3>3. CASE stored' = stored \o buf /\ buf # <<>>
      <4>1. Log!Unconfirmed(n)
        BY <1>6, <2>1, <3>1, <3>3 DEF Log!Unconfirmed, Log!Commit, Log!Group
      <4> QED
        BY <1>6, <3>3, <4>1 DEF Log!Next
    <3> QED
      BY <1>6, <2>1, <3>2, <3>3
  <2> QED
    BY <2>2, <2>3
<1>12. ASSUME BackoffCanceled PROVE Log!Next \/ UNCHANGED Log!vars
  <2>1. /\ UNCHANGED <<accepted, in, closer, stored>> /\ opCanceled /\ Flushing
        /\ buf' = <<>> /\ givenUp' = givenUp \o buf
    BY <1>12 DEF BackoffCanceled, DropBatch, FlushReturns, closeVars, Flushing
  <2> QED
    BY <1>8, <2>1
<1>10. ASSUME Close \/ CloseFlushed \/ CloseGivesUp PROVE UNCHANGED Log!vars
  BY <1>10 DEF Close, CloseFlushed, CloseGivesUp, closeUnchanged, Log!vars
<1>11. ASSUME CloseDeadline PROVE Log!Next
  BY <1>11 DEF CloseDeadline, closeUnchanged, Log!Next, Log!Expire
<1> QED
  BY <1>2, <1>3, <1>4, <1>5, <1>7, <1>9, <1>10, <1>11, <1>12 DEF Next, Proceed, Run

(* The batcher is one log: rows become durable in the order accepted, at    *)
(* least once each, and only a deadline makes it give rows up               *)
(* (internal/sink/batcher.go).                                              *)
THEOREM BatcherImplementsRowLog == Spec => RefinesRowLog
<1>1. Init => Log!Init
  <2> SUFFICES ASSUME Init PROVE Log!Init
    OBVIOUS
  <2>1. <<>> \o <<>> = <<>>
    OBVIOUS
  <2> QED
    BY <2>1 DEF Init, Log!Init
<1>2. IInv /\ [Next]_vars => [Log!Next]_(Log!vars)
  <2> SUFFICES ASSUME IInv, [Next]_vars PROVE Log!Next \/ UNCHANGED Log!vars
    OBVIOUS
  <2>1. CASE Next
    BY <2>1, StepIsLogStep
  <2>2. CASE UNCHANGED vars
    BY <2>2 DEF vars, closeVars, Log!vars
  <2> QED
    BY <2>1, <2>2
<1> QED
  BY <1>1, <1>2, Invariance, PTL DEF Spec, RefinesRowLog, Log!Spec

-----------------------------------------------------------------------------
(* For those who use a batcher: what it does with the rows it is offered   *)
(* before Close, and once no producer is in Add.                           *)

(* Every row offered was accepted or is still in the hands of Add, and no   *)
(* other row was accepted.                                                  *)
Unrefused ==
    /\ \A p \in Producers, i \in 1 .. MaxOffers :
          i <= offered[p] =>
              <<p, i>> \in Range(accepted) \/ (p \in adding /\ i = offered[p])
    /\ \A r \in Range(accepted) : r[2] <= offered[r[1]]

LEMMA InitUnrefused == Init => Unrefused
<1> SUFFICES ASSUME Init PROVE Unrefused
  OBVIOUS
<1>1. accepted = <<>> /\ \A p \in Producers : offered[p] = 0
  BY DEF Init
<1> QED
  BY <1>1, RangeEmpty DEF Unrefused

(* Until the batcher is stopped, no row is refused.                        *)
LEMMA StepUnrefused ==
    ASSUME IInv, Unrefused, ~stop, Next
    PROVE  Unrefused'
<1>1. /\ TypeOK /\ offered \in [Producers -> 0 .. MaxOffers] /\ accepted \in Seq(Rows)
      /\ adding \subseteq Producers
  BY DEF IInv, TypeOK
<1>2. ASSUME NEW p \in Producers, Add(p) PROVE Unrefused'
  <2>1. /\ p \notin adding /\ adding' = adding \union {p} /\ accepted' = accepted
        /\ offered' = [offered EXCEPT ![p] = @ + 1]
    BY <1>2 DEF Add
  <2>2. ASSUME NEW q \in Producers, NEW i \in 1 .. MaxOffers, i <= offered'[q]
        PROVE  <<q, i>> \in Range(accepted) \/ (q \in adding' /\ i = offered'[q])
    BY <1>1, <2>1, <2>2 DEF Unrefused
  <2>3. ASSUME NEW r \in Range(accepted) PROVE r[2] <= offered'[r[1]]
    <3>1. r \in Rows
      BY <1>1, RangeOfSeq
    <3>2. r[1] \in Producers /\ r[2] \in 1 .. MaxOffers
      BY <3>1 DEF Rows
    <3>3. r[2] <= offered[r[1]]
      BY <2>3 DEF Unrefused
    <3> QED
      BY <1>1, <2>1, <3>2, <3>3
  <2> QED
    BY <2>1, <2>2, <2>3 DEF Unrefused
<1>3. ASSUME NEW p \in Producers, AddSends(p) PROVE Unrefused'
  <2> DEFINE r == <<p, offered[p]>>
  <2>1. /\ p \in adding /\ adding' = adding \ {p} /\ accepted' = Append(accepted, r)
        /\ offered' = offered
    BY <1>3 DEF AddSends, Row
  <2>2. r \in Rows
    BY <1>1, <2>1 DEF TypeOK, Rows
  <2>3. r[1] = p /\ r[2] = offered[p]
    OBVIOUS
  <2>4. \A q \in Producers, i \in 1 .. MaxOffers :
           q = p /\ i = offered[p] => <<q, i>> = r
    OBVIOUS
  <2>5. offered[p] <= offered[p]
    BY <1>1
  <2> HIDE DEF r
  <2>6. Range(accepted') = Range(accepted) \union {r}
    BY <1>1, <2>1, <2>2, RangeAppend
  <2>7. \A q \in Producers, i \in 1 .. MaxOffers : i <= offered'[q] =>
           <<q, i>> \in Range(accepted') \/ (q \in adding' /\ i = offered'[q])
    BY <2>1, <2>4, <2>6 DEF Unrefused
  <2>8. \A x \in Range(accepted') : x[2] <= offered'[x[1]]
    BY <2>1, <2>3, <2>5, <2>6 DEF Unrefused
  <2> QED
    BY <2>7, <2>8 DEF Unrefused
<1>4. ASSUME UNCHANGED <<accepted, offered, adding>> PROVE Unrefused'
  BY <1>4 DEF Unrefused
<1>5. ASSUME NEW p \in Producers, AddStops(p) PROVE FALSE
  BY <1>5 DEF AddStops
<1>6. CASE Close \/ CloseFlushed \/ CloseDeadline \/ CloseGivesUp
  BY <1>4, <1>6 DEF Close, CloseFlushed, CloseDeadline, CloseGivesUp,
     closeUnchanged, producerVars
<1>7. CASE Run \/ SeeStop \/ InsertOK \/ InsertFails
  BY <1>4, <1>7 DEF Run, SeeStop, InsertOK, InsertFails, Receive, Tick, DrainEnds,
     BackoffEnds, BackoffCanceled, runUnchanged, producerVars
<1> QED
  BY <1>2, <1>3, <1>5, <1>6, <1>7 DEF Next, Proceed

(* What no step but a call changes: nobody enters Add, Close is not called, *)
(* and once no producer is in Add the accepted rows stay as they are.       *)
LEMMA ProceedKeeps ==
    ASSUME Proceed
    PROVE  /\ adding' \subseteq adding
           /\ UNCHANGED <<offered, stop, marked>>
           /\ closer \in {"open", "clean", "expired"} => closer' = closer
           /\ adding = {} => accepted' = accepted
<1>1. ASSUME NEW p \in Producers, AddSends(p) \/ AddStops(p)
      PROVE  /\ p \in adding /\ adding' = adding \ {p}
             /\ UNCHANGED <<offered, stop, marked, closer>>
  BY <1>1 DEF AddSends, AddStops, closeVars
<1>2. CASE CloseFlushed \/ CloseDeadline \/ CloseGivesUp
  BY <1>2 DEF CloseFlushed, CloseDeadline, CloseGivesUp, closeUnchanged, producerVars
<1>3. CASE Run \/ SeeStop \/ InsertOK \/ InsertFails
  BY <1>3 DEF Run, SeeStop, InsertOK, InsertFails, Receive, Tick, DrainEnds,
     BackoffEnds, BackoffCanceled, runUnchanged, producerVars, closeVars
<1>4. CASE \E p \in Producers : AddSends(p) \/ AddStops(p)
  BY <1>1, <1>4
<1> QED
  BY <1>2, <1>3, <1>4 DEF Proceed

(* With no producer in Add, the rows accepted are the rows offered.         *)
OfferedRows == UNION {{<<p, i>> : i \in 1 .. offered[p]} : p \in Producers}

LEMMA AcceptedIsOffered ==
    ASSUME IInv, Unrefused, adding = {}
    PROVE  Range(accepted) = OfferedRows
<1>1. offered \in [Producers -> 0 .. MaxOffers] /\ accepted \in Seq(Rows)
  BY DEF IInv, TypeOK
<1>2. ASSUME NEW r \in Range(accepted) PROVE r \in OfferedRows
  <2>1. r \in Rows
    BY <1>1, RangeOfSeq
  <2>2. PICK p \in Producers, i \in 1 .. MaxOffers : r = <<p, i>>
    BY <2>1 DEF Rows
  <2>3. i <= offered[p]
    BY <1>2, <2>2 DEF Unrefused
  <2> QED
    BY <1>1, <2>2, <2>3 DEF OfferedRows
<1>3. ASSUME NEW p \in Producers, NEW i \in 1 .. offered[p]
      PROVE  <<p, i>> \in Range(accepted)
  BY <1>1 DEF Unrefused
<1> QED
  BY <1>2, <1>3 DEF OfferedRows

(* A Close that returned nil has stored exactly the rows it was given,      *)
(* nothing else, when no reply was lost and none came after it was called.  *)
LEMMA CleanStoresAccepted ==
    ASSUME IInv, closer = "clean", marked = Len(accepted), lostReplies = 0
    PROVE  Range(stored) = Range(accepted)
<1>1. Exiting /\ buf = <<>> /\ givenUp = <<>> /\ Range(buf) = {} /\ Range(givenUp) = {}
  BY RangeEmpty DEF IInv, Phases, LossNeedsDeadline, Exiting
<1>2. /\ accepted \in Seq(Rows) /\ stored \in Seq(Rows) /\ buf \in Seq(Rows)
      /\ in \in Seq(Rows)
  BY DEF IInv, TypeOK
<1>3. \A i \in 1 .. Len(accepted) : accepted[i] \in Range(stored)
  BY <1>1 DEF IInv, BeforeClose
<1>4. Range(accepted) \subseteq Range(stored)
  BY <1>2, <1>3 DEF Range
<1>5. accepted = (stored \o buf) \o in
  BY <1>1 DEF IInv, ExactlyOnceInOrder
<1>6. stored \o buf = stored
  BY <1>1, <1>2, ConcatEmptySeq
<1>7. Range(stored \o in) = Range(stored) \union Range(in)
  BY <1>2, RangeConcatenation
<1> QED
  BY <1>4, <1>5, <1>6, <1>7
=============================================================================
