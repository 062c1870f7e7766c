--------------------------- MODULE TickQueueProofs ---------------------------
(***************************************************************************)
(* Proofs about TickQueue: for any number of rows, poison messages, fetch  *)
(* and ack limits, crashes and lost answers.                               *)
(***************************************************************************)
EXTENDS TickQueue, FiniteSetTheorems, TLAPS

USE RowsAssumption, FetchAssumption, BoundsAssumption

(* A row on its way to the server is new to everybody else, and so is one   *)
(* that was not handed over yet.                                           *)
Fresh ==
    /\ \A r \in inflight : table[r] = 0 /\ r \notin stream \union batch
    /\ \A r \in Row : r > added => table[r] = 0

(* What the consumer holds at each of its steps.                           *)
Held ==
    /\ proc = "down" => step = "stopped"
    /\ step \in {"fetch", "stopped"} => batch = {}
    /\ step = "insert" => batch \subseteq stream \union expired
    /\ step = "ack" => \A r \in batch : table[r] > 0

(* A row that has one copy more than was lost cannot be inserted again: it  *)
(* left the stream, or is about to, in the hands of a running consumer.    *)
CopiesBound ==
    \A r \in Row :
        \/ table[r] <= lost + deaths
        \/ /\ proc = "running"
           /\ table[r] <= 1 + lost + deaths
           /\ \/ r \notin stream \union batch
              \/ step = "ack" /\ r \in batch

IInv == TypeOK /\ Fresh /\ Held /\ CopiesBound /\ EveryRowAccountedFor

-----------------------------------------------------------------------------
(* Cardinalities of sets of rows.                                          *)
LEMMA SmallerSet ==
    ASSUME NEW S \in SUBSET Row, NEW T \in SUBSET S
    PROVE  /\ Cardinality(S) \in Nat /\ Cardinality(T) \in Nat
           /\ Cardinality(T) <= Cardinality(S)
<1>1. IsFiniteSet(Row) BY FS_Interval DEF Row
<1>2. IsFiniteSet(S) BY <1>1, FS_Subset
<1>3. IsFiniteSet(T) BY <1>2, FS_Subset
<1> QED BY <1>2, <1>3, FS_Subset, FS_CardinalityType

(* Whatever becomes fewer stays within the ack limit.                      *)
LEMMA WithinLimit ==
    ASSUME TypeOK, NEW T \in SUBSET unanswered
    PROVE  Cardinality(T) <= MaxAckPending
<1>1. unanswered \in SUBSET Row BY DEF TypeOK, Row
<1>2. /\ Cardinality(T) <= Cardinality(unanswered)
      /\ Cardinality(T) \in Nat /\ Cardinality(unanswered) \in Nat
  BY <1>1, SmallerSet
<1> QED BY <1>2 DEF TypeOK

LEMMA InitIInv == Init => IInv
<1> SUFFICES ASSUME Init PROVE IInv OBVIOUS
<1>1. Cardinality({}) = 0 BY FS_EmptySet
<1>2. TypeOK BY <1>1 DEF Init, TypeOK, Row
<1>3. Fresh /\ Held /\ CopiesBound /\ EveryRowAccountedFor
  BY DEF Init, Fresh, Held, CopiesBound, EveryRowAccountedFor, Row
<1> QED BY <1>2, <1>3 DEF IInv

-----------------------------------------------------------------------------
(* TypeOK, step by step: the sets of rows, the server's ack limit, and the  *)
(* table, the process and the counters.                                    *)
RowsTyped ==
    /\ added \in 0 .. MaxRows
    /\ inflight \subseteq 1 .. added
    /\ dropped \subseteq 1 .. added
    /\ stream \subseteq 1 .. added
    /\ unanswered \subseteq stream
    /\ expired \subseteq 1 .. added
    /\ batch \subseteq (1 .. added) \ Poison

Limited == Cardinality(unanswered) <= MaxAckPending

ProcessTyped ==
    /\ table \in [Row -> Nat]
    /\ proc \in {"running", "cancelled", "closing", "down"}
    /\ step \in {"fetch", "insert", "ack", "nak", "stopped"}
    /\ deaths \in 0 .. MaxDeaths
    /\ lost \in 0 .. MaxLost

LEMMA TypeParts == TypeOK <=> RowsTyped /\ Limited /\ ProcessTyped
BY DEF TypeOK, RowsTyped, Limited, ProcessTyped

LEMMA StepRowsTyped == RowsTyped /\ [Next]_vars => RowsTyped'
<1> SUFFICES ASSUME RowsTyped, [Next]_vars PROVE RowsTyped' OBVIOUS
<1> USE DEF RowsTyped, Row, logVars, consVars
<1>1. CASE Add
  <2>1. added' \in 0 .. MaxRows BY <1>1 DEF Add
  <2>2. added' \in 1 .. added' /\ 1 .. added \subseteq 1 .. added' BY <1>1 DEF Add
  <2> QED BY <1>1, <2>1, <2>2 DEF Add
<1>2. CASE Written BY <1>2 DEF Written
<1>3. ASSUME NEW r \in Row, TooOld(r) \/ AckWait(r) PROVE RowsTyped'
  BY <1>3 DEF TooOld, AckWait
<1>4. ASSUME NEW S \in SUBSET Row, Fetch(S) PROVE RowsTyped'
  <2>1. S \subseteq stream /\ S \intersect unanswered = {} BY <1>4 DEF Fetch, MayFetch
  <2>2. unanswered' \subseteq stream' /\ stream' \subseteq stream BY <1>4, <2>1 DEF Fetch
  <2>3. batch' \subseteq (1 .. added) \ Poison BY <1>4, <2>1 DEF Fetch
  <2>4. UNCHANGED <<added, inflight, dropped, expired>> BY <1>4 DEF Fetch
  <2> QED BY <2>2, <2>3, <2>4
<1>5. CASE InsertOk \/ InsertFailed BY <1>5 DEF InsertOk, InsertFailed
<1>6. ASSUME NEW r \in Row, Ack(r) \/ Nak(r) \/ AnswerLost(r) PROVE RowsTyped'
  <2>1. batch' = batch \ {r} BY <1>6 DEF Ack, Nak, AnswerLost, NextAnswer
  <2>2. UNCHANGED <<added, inflight, dropped, expired>> BY <1>6 DEF Ack, Nak, AnswerLost
  <2>3. /\ stream' = stream \ {r} \/ stream' = stream
        /\ unanswered' \subseteq stream'
    BY <1>6 DEF Ack, Nak, AnswerLost
  <2> QED BY <2>1, <2>2, <2>3
<1>7. CASE ConsumeReturns \/ Cancel \/ FeedsDone \/ Start
  BY <1>7 DEF ConsumeReturns, Cancel, FeedsDone, Start
<1>8. CASE CloseBus \/ Crash
  <2>1. batch' = {} /\ inflight' = {} /\ dropped' = dropped \union inflight
    BY <1>8 DEF CloseBus, Crash, Gone
  <2>2. UNCHANGED <<added, stream, unanswered, expired>> BY <1>8 DEF CloseBus, Crash
  <2> QED BY <2>1, <2>2
<1>9. CASE UNCHANGED vars BY <1>9 DEF vars
<1> QED BY <1>1, <1>2, <1>3, <1>4, <1>5, <1>6, <1>7, <1>8, <1>9 DEF Next

LEMMA StepLimited == TypeOK /\ [Next]_vars => Limited'
<1> SUFFICES ASSUME TypeOK, [Next]_vars PROVE Limited' OBVIOUS
<1>1. ASSUME unanswered' \subseteq unanswered PROVE Limited'
  BY <1>1, WithinLimit DEF Limited
<1>2. ASSUME NEW S \in SUBSET Row, Fetch(S) PROVE Limited'
  <2>1. /\ unanswered \union S \in SUBSET Row
        /\ Cardinality(unanswered \union S) <= MaxAckPending
    BY <1>2 DEF Fetch, MayFetch, TypeOK, Row
  <2>2. unanswered' \subseteq unanswered \union S BY <1>2 DEF Fetch
  <2>3. /\ Cardinality(unanswered') \in Nat /\ Cardinality(unanswered \union S) \in Nat
        /\ Cardinality(unanswered') <= Cardinality(unanswered \union S)
    BY <2>1, <2>2, SmallerSet
  <2> QED BY <2>1, <2>3 DEF Limited
<1>3. CASE \E r \in Row : TooOld(r) \/ AckWait(r) \/ Ack(r) \/ Nak(r) \/ AnswerLost(r)
  BY <1>1, <1>3 DEF TooOld, AckWait, Ack, Nak, AnswerLost, logVars
<1>4. CASE Add \/ Written \/ InsertOk \/ InsertFailed \/ ConsumeReturns
  BY <1>1, <1>4 DEF Add, Written, InsertOk, InsertFailed, ConsumeReturns, logVars
<1>5. CASE Cancel \/ FeedsDone \/ CloseBus \/ Crash \/ Start
  BY <1>1, <1>5 DEF Cancel, FeedsDone, CloseBus, Crash, Start, logVars
<1>6. CASE UNCHANGED vars BY <1>1, <1>6 DEF vars, logVars
<1> QED BY <1>2, <1>3, <1>4, <1>5, <1>6 DEF Next

LEMMA StepProcessTyped == ProcessTyped /\ [Next]_vars => ProcessTyped'
<1> SUFFICES ASSUME ProcessTyped, [Next]_vars PROVE ProcessTyped' OBVIOUS
<1> USE DEF ProcessTyped, logVars, consVars
<1>1. ASSUME Received PROVE table' \in [Row -> Nat] BY <1>1 DEF Received
<1>2. CASE Add \/ Written \/ ConsumeReturns
  BY <1>2 DEF Add, Written, ConsumeReturns
<1>3. ASSUME NEW r \in Row, TooOld(r) \/ AckWait(r) PROVE ProcessTyped'
  BY <1>3 DEF TooOld, AckWait
<1>4. ASSUME NEW S \in SUBSET Row, Fetch(S) PROVE ProcessTyped'
  <2>1. lost' \in 0 .. MaxLost BY <1>4 DEF Fetch
  <2>2. step' \in {"fetch", "insert"} /\ UNCHANGED <<table, proc, deaths>>
    BY <1>4 DEF Fetch
  <2> QED BY <2>1, <2>2
<1>5. CASE InsertOk BY <1>1, <1>5 DEF InsertOk
<1>6. CASE InsertFailed
  <2>1. table' \in [Row -> Nat] BY <1>1, <1>6 DEF InsertFailed
  <2>2. lost' \in 0 .. MaxLost BY <1>6 DEF InsertFailed
  <2>3. step' = "nak" /\ UNCHANGED <<proc, deaths>> BY <1>6 DEF InsertFailed
  <2> QED BY <2>1, <2>2, <2>3
<1>7. ASSUME NEW r \in Row, Ack(r) \/ Nak(r) \/ AnswerLost(r) PROVE ProcessTyped'
  <2>1. lost' \in 0 .. MaxLost BY <1>7 DEF Ack, Nak, AnswerLost
  <2>2. step' \in {"fetch", step} BY <1>7 DEF Ack, Nak, AnswerLost, NextAnswer
  <2>3. UNCHANGED <<table, proc, deaths>> BY <1>7 DEF Ack, Nak, AnswerLost
  <2> QED BY <2>1, <2>2, <2>3
<1>8. CASE Cancel \/ Crash
  <2>1. deaths' \in 0 .. MaxDeaths BY <1>8 DEF Cancel, Crash
  <2>2. step' \in {step, "stopped"} /\ proc' \in {"cancelled", "down"}
    BY <1>8 DEF Cancel, Crash, Gone
  <2>3. UNCHANGED <<table, lost>> BY <1>8 DEF Cancel, Crash
  <2> QED BY <2>1, <2>2, <2>3
<1>9. CASE FeedsDone \/ Start BY <1>9 DEF FeedsDone, Start
<1>10. CASE CloseBus BY <1>10 DEF CloseBus, Gone
<1>11. CASE UNCHANGED vars BY <1>11 DEF vars
<1> QED BY <1>2, <1>3, <1>4, <1>5, <1>6, <1>7, <1>8, <1>9, <1>10, <1>11 DEF Next

LEMMA StepTypeOK == TypeOK /\ [Next]_vars => TypeOK'
<1>1. TypeOK' <=> RowsTyped' /\ Limited' /\ ProcessTyped'
  BY DEF TypeOK, RowsTyped, Limited, ProcessTyped
<1> QED BY <1>1, TypeParts, StepRowsTyped, StepLimited, StepProcessTyped

-----------------------------------------------------------------------------
LEMMA StepFresh == IInv /\ [Next]_vars => Fresh'
<1> SUFFICES ASSUME IInv, [Next]_vars PROVE Fresh' OBVIOUS
<1> USE DEF IInv, TypeOK, Fresh, Row, logVars, consVars
<1>1. CASE Add
  <2>1. added' = added + 1 /\ added' \in Row /\ added' \notin stream \union batch
    BY <1>1 DEF Add
  <2>2. table[added'] = 0 BY <2>1
  <2>3. inflight' \subseteq inflight \union {added'} /\ UNCHANGED <<stream, batch, table>>
    BY <1>1 DEF Add
  <2>4. \A r \in Row : r > added' => table'[r] = 0 BY <2>1, <2>3
  <2> QED BY <2>1, <2>2, <2>3, <2>4
<1>2. CASE Written BY <1>2 DEF Written
<1>3. ASSUME NEW r \in Row, TooOld(r) \/ AckWait(r) PROVE Fresh'
  BY <1>3 DEF TooOld, AckWait
<1>5. ASSUME NEW S \in SUBSET Row, Fetch(S) PROVE Fresh'
  BY <1>5 DEF Fetch, MayFetch
<1>6. CASE InsertOk BY <1>6 DEF InsertOk, Received
<1>7. CASE InsertFailed BY <1>7 DEF InsertFailed, Received
<1>8. ASSUME NEW r \in Row, Ack(r) \/ Nak(r) \/ AnswerLost(r) PROVE Fresh'
  BY <1>8 DEF Ack, Nak, AnswerLost, NextAnswer
<1>9. CASE ConsumeReturns \/ Cancel \/ FeedsDone \/ Start
  BY <1>9 DEF ConsumeReturns, Cancel, FeedsDone, Start
<1>10. CASE CloseBus \/ Crash BY <1>10 DEF CloseBus, Crash, Gone
<1>11. CASE UNCHANGED vars BY <1>11 DEF vars
<1> QED BY <1>1, <1>2, <1>3, <1>5, <1>6, <1>7, <1>8, <1>9, <1>10, <1>11 DEF Next

LEMMA StepHeld == IInv /\ [Next]_vars => Held'
<1> SUFFICES ASSUME IInv, [Next]_vars PROVE Held' OBVIOUS
<1> USE DEF IInv, TypeOK, Held, Row, logVars, consVars
<1>1. CASE Add BY <1>1 DEF Add
<1>2. CASE Written BY <1>2 DEF Written
<1>3. ASSUME NEW r \in Row, TooOld(r) \/ AckWait(r) PROVE Held'
  BY <1>3 DEF TooOld, AckWait
<1>5. ASSUME NEW S \in SUBSET Row, Fetch(S) PROVE Held'
  BY <1>5 DEF Fetch, MayFetch
<1>6. CASE InsertOk BY <1>6 DEF InsertOk, Received
<1>7. CASE InsertFailed BY <1>7 DEF InsertFailed, Received
<1>8. ASSUME NEW r \in Row, Ack(r) \/ Nak(r) \/ AnswerLost(r) PROVE Held'
  BY <1>8 DEF Ack, Nak, AnswerLost, NextAnswer
<1>9. CASE ConsumeReturns \/ Cancel \/ FeedsDone \/ Start
  BY <1>9 DEF ConsumeReturns, Cancel, FeedsDone, Start
<1>10. CASE CloseBus \/ Crash BY <1>10 DEF CloseBus, Crash, Gone
<1>11. CASE UNCHANGED vars BY <1>11 DEF vars
<1> QED BY <1>1, <1>2, <1>3, <1>5, <1>6, <1>7, <1>8, <1>9, <1>10, <1>11 DEF Next

LEMMA StepCopiesBound == IInv /\ [Next]_vars => CopiesBound'
<1> SUFFICES ASSUME IInv, [Next]_vars PROVE CopiesBound' OBVIOUS
<1> USE DEF IInv, TypeOK, Fresh, Held, CopiesBound, Row, logVars, consVars
<1>1. CASE Add BY <1>1 DEF Add
<1>2. CASE Written BY <1>2 DEF Written
<1>3. ASSUME NEW r \in Row, TooOld(r) \/ AckWait(r) PROVE CopiesBound'
  BY <1>3 DEF TooOld, AckWait
<1>5. ASSUME NEW S \in SUBSET Row, Fetch(S) PROVE CopiesBound'
  BY <1>5 DEF Fetch, MayFetch
<1>6. CASE InsertOk BY <1>6 DEF InsertOk, Received
<1>7. CASE InsertFailed BY <1>7 DEF InsertFailed, Received
<1>8. ASSUME NEW r \in Row, Ack(r) \/ Nak(r) \/ AnswerLost(r) PROVE CopiesBound'
  BY <1>8 DEF Ack, Nak, AnswerLost, NextAnswer
<1>9. CASE ConsumeReturns \/ Cancel \/ FeedsDone \/ Start
  BY <1>9 DEF ConsumeReturns, Cancel, FeedsDone, Start
<1>10. CASE CloseBus \/ Crash BY <1>10 DEF CloseBus, Crash, Gone
<1>11. CASE UNCHANGED vars BY <1>11 DEF vars
<1> QED BY <1>1, <1>2, <1>3, <1>5, <1>6, <1>7, <1>8, <1>9, <1>10, <1>11 DEF Next

LEMMA StepAccounted == IInv /\ [Next]_vars => EveryRowAccountedFor'
<1> SUFFICES ASSUME IInv, [Next]_vars PROVE EveryRowAccountedFor' OBVIOUS
<1> USE DEF IInv, TypeOK, Held, EveryRowAccountedFor, Row, logVars, consVars
<1>1. CASE Add BY <1>1 DEF Add
<1>2. CASE Written BY <1>2 DEF Written
<1>3. ASSUME NEW r \in Row, TooOld(r) \/ AckWait(r) PROVE EveryRowAccountedFor'
  BY <1>3 DEF TooOld, AckWait
<1>5. ASSUME NEW S \in SUBSET Row, Fetch(S) PROVE EveryRowAccountedFor'
  BY <1>5 DEF Fetch, MayFetch
<1>6. CASE InsertOk BY <1>6 DEF InsertOk, Received
<1>7. CASE InsertFailed BY <1>7 DEF InsertFailed, Received
<1>8. ASSUME NEW r \in Row, Ack(r) \/ Nak(r) \/ AnswerLost(r) PROVE EveryRowAccountedFor'
  BY <1>8 DEF Ack, Nak, AnswerLost, NextAnswer
<1>9. CASE ConsumeReturns \/ Cancel \/ FeedsDone \/ Start
  BY <1>9 DEF ConsumeReturns, Cancel, FeedsDone, Start
<1>10. CASE CloseBus \/ Crash BY <1>10 DEF CloseBus, Crash, Gone
<1>11. CASE UNCHANGED vars BY <1>11 DEF vars
<1> QED BY <1>1, <1>2, <1>3, <1>5, <1>6, <1>7, <1>8, <1>9, <1>10, <1>11 DEF Next

LEMMA StepIInv == IInv /\ [Next]_vars => IInv'
BY StepTypeOK, StepFresh, StepHeld, StepCopiesBound, StepAccounted DEF IInv

LEMMA Invariance == Spec => []IInv
BY InitIInv, StepIInv, PTL DEF Spec

-----------------------------------------------------------------------------
(* Every variable keeps its type, and the server's ack limit holds.        *)
THEOREM TypeCorrectness == Spec => []TypeOK
<1>1. IInv => TypeOK BY DEF IInv
<1> QED BY <1>1, Invariance, PTL

(* queue.go:103-104: further copies of a row are bounded by what was lost   *)
(* and how often the process ended.                                        *)
THEOREM CopiesAlwaysNeedCause == Spec => []CopiesNeedCause
<1>1. IInv => CopiesNeedCause
  BY DEF IInv, TypeOK, CopiesBound, CopiesNeedCause, Row
<1> QED BY <1>1, Invariance, PTL

(* queue.go:1-6: no row handed over is ever unaccounted for.               *)
THEOREM RowsAreAccountedFor == Spec => []EveryRowAccountedFor
<1>1. IInv => EveryRowAccountedFor BY DEF IInv
<1> QED BY <1>1, Invariance, PTL

-----------------------------------------------------------------------------
(* The consumer, the stream and the processes that come and go implement   *)
(* the durable log.                                                        *)
LEMMA StepRefines == IInv /\ [Next]_vars => [Log!Next]_(Log!vars)
<1> SUFFICES ASSUME IInv, [Next]_vars PROVE [Log!Next]_(Log!vars) OBVIOUS
<1> USE DEF IInv, TypeOK, Held, Row, logVars, consVars, Log!Next, Log!vars
<1>1. CASE Add \/ ConsumeReturns \/ Cancel \/ FeedsDone \/ Start
  BY <1>1 DEF Add, ConsumeReturns, Cancel, FeedsDone, Start
<1>2. CASE Written BY <1>2 DEF Written, Log!Take
<1>3. ASSUME NEW r \in Row, TooOld(r) PROVE Log!Next
  BY <1>3 DEF TooOld, Log!Expire
<1>4. ASSUME NEW r \in Row, AckWait(r) PROVE UNCHANGED Log!vars BY <1>4 DEF AckWait
<1>5. ASSUME NEW S \in SUBSET Row, Fetch(S) PROVE [Log!Next]_(Log!vars)
  <2>1. UNCHANGED <<table, expired>> BY <1>5 DEF Fetch
  <2>2. CASE UNCHANGED stream BY <2>1, <2>2
  <2>3. CASE stream' = stream \ (S \intersect Poison)
    <3> DEFINE G == S \intersect Poison
    <3>1. Log!LetGo(G) BY <1>5, <2>1, <2>3 DEF Fetch, MayFetch, Log!LetGo
    <3> QED BY <3>1
  <2> QED BY <1>5, <2>2, <2>3 DEF Fetch
<1>6. ASSUME Received, step = "insert", UNCHANGED logVars PROVE Log!Next
  <2>1. Log!Store(batch) BY <1>6 DEF Received, Log!Store
  <2> QED BY <2>1
<1>7. CASE InsertOk BY <1>6, <1>7 DEF InsertOk
<1>8. CASE InsertFailed
  <2>1. CASE Received BY <1>6, <1>8, <2>1 DEF InsertFailed
  <2>2. CASE UNCHANGED table BY <1>8, <2>2 DEF InsertFailed
  <2> QED BY <1>8, <2>1, <2>2 DEF InsertFailed
<1>9. ASSUME NEW r \in Row, Ack(r) PROVE [Log!Next]_(Log!vars)
  <2>1. CASE r \in stream
    <3>1. Log!LetGo({r}) BY <1>9, <2>1 DEF Ack, Log!LetGo
    <3> QED BY <3>1, <2>1
  <2>2. CASE r \notin stream BY <1>9, <2>2 DEF Ack
  <2> QED BY <2>1, <2>2
<1>10. ASSUME NEW r \in Row, Nak(r) \/ AnswerLost(r) PROVE UNCHANGED Log!vars
  BY <1>10 DEF Nak, AnswerLost
<1>11. CASE CloseBus \/ Crash BY <1>11 DEF CloseBus, Crash
<1>12. CASE UNCHANGED vars BY <1>12 DEF vars
<1> QED BY <1>1, <1>2, <1>3, <1>4, <1>5, <1>7, <1>8, <1>9, <1>10, <1>11, <1>12 DEF Next

(* queue.go:1-6, 103-106: a row in the log is owed until storage has it,    *)
(* nobody can read it, or it is too old.                                   *)
THEOREM QueueImplementsLog == Spec => RefinesDurableLog
<1>1. Init => Log!Init BY DEF Init, Log!Init
<1> QED BY <1>1, StepRefines, Invariance, PTL DEF Spec, RefinesDurableLog, Log!Spec
=============================================================================
