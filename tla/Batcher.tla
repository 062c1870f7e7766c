------------------------------ MODULE Batcher ------------------------------
(***************************************************************************)
(* The batching sink of internal/sink/batcher.go: producers hand rows to   *)
(* Add, one run goroutine collects them from a bounded channel and flushes *)
(* them to storage in groups, retrying until a batch lands, and Close      *)
(* drains what is queued under a deadline.                                 *)
(*                                                                         *)
(* Every goroutine takes one step at a time: producers (Add), the run      *)
(* loop, and the one caller of Close.  Storage is the environment: an      *)
(* Insert may succeed, fail, hang (never return while its context lives)   *)
(* or commit the batch and still return an error because the answer was    *)
(* lost, at most MaxLostReplies times.  Row <<p, i>> is the i-th row of    *)
(* producer p.  Time is abstract: the ticker, the backoff timer and the deadline    *)
(* may fire whenever they are armed.                                       *)
(*                                                                         *)
(* The definitions named Fault... are no part of the specification: each   *)
(* is the definition after it with one plausible mistake, kept to show     *)
(* that the properties below notice that mistake.                          *)
(***************************************************************************)
EXTENDS Integers, Sequences, Functions

CONSTANTS
    Producers,       \* goroutines that call Add
    MaxRows,         \* Config.MaxRows
    Buffer,          \* Config.Buffer, the channel's capacity
    MaxOffers,       \* bound: rows each producer offers
    MaxLostReplies   \* bound: batches storage commits while reporting an error

ASSUME ConfigAssumption == MaxRows \in Nat \ {0} /\ Buffer \in Nat \ {0}
ASSUME BoundAssumption  == MaxOffers \in Nat /\ MaxLostReplies \in Nat

VARIABLES
    offered,      \* rows each producer has called Add for
    adding,       \* producers inside Add
    in,           \* Batcher.in, the channel
    buf,          \* run's buffer
    loop,         \* where the run goroutine is
    after,        \* where it goes once the flush in progress is over
    stop,         \* Batcher.stop is closed
    opCanceled,   \* Batcher.opCtx is canceled
    closer,       \* where the caller of Close is
    accepted,     \* history: the rows sent on the channel, in order
    marked,       \* history: how many were accepted when Close was called
    stored,       \* storage: the rows committed, in order
    lostReplies,  \* storage: commits it reported as errors
    givenUp       \* history: the rows of the batches dropped at shutdown

producerVars == <<offered, adding>>
closeVars    == <<stop, closer, marked>>
vars == <<producerVars, in, buf, loop, after, opCanceled, closeVars, accepted,
          stored, lostReplies, givenUp>>

Rows  == Producers \X (1 .. MaxOffers)
Row(p) == <<p, offered[p]>>

Init ==
    /\ offered = [p \in Producers |-> 0]
    /\ adding = {}
    /\ in = <<>>
    /\ buf = <<>>
    /\ loop = "select"
    /\ after = "select"
    /\ stop = FALSE
    /\ opCanceled = FALSE
    /\ closer = "open"
    /\ accepted = <<>>
    /\ marked = 0
    /\ stored = <<>>
    /\ lostReplies = 0
    /\ givenUp = <<>>

-----------------------------------------------------------------------------
(* Add: a select between sending on the channel and Batcher.stop.          *)
Add(p) ==
    /\ p \notin adding
    /\ offered[p] < MaxOffers
    /\ adding' = adding \union {p}
    /\ offered' = [offered EXCEPT ![p] = @ + 1]
    /\ UNCHANGED <<in, buf, loop, after, opCanceled, closeVars, accepted,
                   stored, lostReplies, givenUp>>

FaultAddNeverBlocks(p) ==    \* a full channel loses the row
    /\ p \in adding
    /\ in' = IF Len(in) < Buffer THEN Append(in, Row(p)) ELSE in
    /\ accepted' = Append(accepted, Row(p))
    /\ adding' = adding \ {p}
    /\ UNCHANGED <<offered, buf, loop, after, opCanceled, closeVars, stored,
                   lostReplies, givenUp>>

AddSends(p) ==
    /\ p \in adding
    /\ Len(in) < Buffer
    /\ in' = Append(in, Row(p))
    /\ accepted' = Append(accepted, Row(p))
    /\ adding' = adding \ {p}
    /\ UNCHANGED <<offered, buf, loop, after, opCanceled, closeVars, stored,
                   lostReplies, givenUp>>

FaultAddIgnoresStop(p) == FALSE   \* Add only ever sends

AddStops(p) ==
    /\ p \in adding
    /\ stop
    /\ adding' = adding \ {p}
    /\ UNCHANGED <<offered, in, buf, loop, after, opCanceled, closeVars,
                   accepted, stored, lostReplies, givenUp>>

-----------------------------------------------------------------------------
(* run, in its select or in its drain loop.                                *)
runUnchanged == <<producerVars, opCanceled, closeVars, accepted, stored,
                  lostReplies, givenUp>>

(* The flush closure on a non-empty buffer: insertWithRetry begins.        *)
Flush(next) ==
    /\ loop' = "insert"
    /\ after' = next

FaultFlushLate ==            \* > where >= is meant
    /\ loop \in {"select", "drain"}
    /\ in # <<>>
    /\ buf' = Append(buf, Head(in))
    /\ in' = Tail(in)
    /\ IF Len(buf) + 1 > MaxRows
       THEN Flush(loop)
       ELSE UNCHANGED <<loop, after>>
    /\ UNCHANGED runUnchanged

Receive ==
    /\ loop \in {"select", "drain"}
    /\ in # <<>>
    /\ buf' = Append(buf, Head(in))
    /\ in' = Tail(in)
    /\ IF Len(buf) + 1 >= MaxRows
       THEN Flush(loop)
       ELSE UNCHANGED <<loop, after>>
    /\ UNCHANGED runUnchanged

FaultTickWaitsForMore ==     \* only full batches are flushed
    /\ loop = "select"
    /\ Len(buf) >= MaxRows
    /\ Flush("select")
    /\ UNCHANGED <<in, buf, runUnchanged>>

Tick ==
    /\ loop = "select"
    /\ buf # <<>>        \* flush returns at once on an empty buffer
    /\ Flush("select")
    /\ UNCHANGED <<in, buf, runUnchanged>>

FaultStopSkipsDrain ==       \* the buffer is flushed, the channel forgotten
    /\ loop = "select"
    /\ stop
    /\ IF buf = <<>>
       THEN loop' = "exited" /\ UNCHANGED after
       ELSE Flush("exited")
    /\ UNCHANGED <<in, buf, runUnchanged>>

SeeStop ==
    /\ loop = "select"
    /\ stop
    /\ loop' = "drain"
    /\ UNCHANGED <<in, buf, after, runUnchanged>>

DrainEnds ==
    /\ loop = "drain"
    /\ in = <<>>
    /\ IF buf = <<>>
       THEN loop' = "exited" /\ UNCHANGED after
       ELSE Flush("exited")
    /\ UNCHANGED <<in, buf, runUnchanged>>

-----------------------------------------------------------------------------
(* insertWithRetry.                                                        *)
FaultBufferKept ==           \* forgets to empty the buffer
    /\ loop' = after
    /\ UNCHANGED <<buf, after>>

FlushReturns ==
    /\ buf' = <<>>
    /\ loop' = after
    /\ UNCHANGED after

DropBatch ==
    /\ givenUp' = givenUp \o buf
    /\ FlushReturns

Commit == stored' = stored \o buf

InsertOK ==
    /\ loop = "insert"
    /\ Commit
    /\ FlushReturns
    /\ UNCHANGED <<producerVars, in, opCanceled, closeVars, accepted, lostReplies,
                   givenUp>>

FaultNoRetry ==              \* one failure drops the batch
    /\ loop = "insert"
    /\ DropBatch
    /\ UNCHANGED <<producerVars, in, opCanceled, closeVars, accepted, stored,
                   lostReplies>>

FaultErrorEndsRun ==         \* one failure ends the run goroutine
    /\ loop = "insert"
    /\ loop' = "exited"
    /\ UNCHANGED <<in, buf, after, runUnchanged>>

InsertFails ==
    /\ loop = "insert"
    /\ \/ UNCHANGED <<stored, lostReplies>>
       \/ /\ lostReplies < MaxLostReplies
          /\ lostReplies' = lostReplies + 1
          /\ Commit
    /\ IF opCanceled
       THEN DropBatch
       ELSE loop' = "backoff" /\ UNCHANGED <<buf, after, givenUp>>
    /\ UNCHANGED <<producerVars, in, opCanceled, closeVars, accepted>>

BackoffEnds ==
    /\ loop = "backoff"
    /\ loop' = "insert"
    /\ UNCHANGED <<in, buf, after, runUnchanged>>

BackoffCanceled ==
    /\ loop = "backoff"
    /\ opCanceled
    /\ DropBatch
    /\ UNCHANGED <<producerVars, in, opCanceled, closeVars, accepted, stored,
                   lostReplies>>

-----------------------------------------------------------------------------
(* Close.                                                                  *)
closeUnchanged == <<producerVars, in, buf, loop, after, accepted, stored,
                    lostReplies, givenUp>>

Close ==
    /\ closer = "open"
    /\ stop' = TRUE
    /\ closer' = "waiting"
    /\ marked' = Len(accepted)
    /\ UNCHANGED <<opCanceled, closeUnchanged>>

FaultCloseIgnoresRun ==      \* Close does not wait for the run loop
    /\ closer = "waiting"
    /\ opCanceled' = TRUE
    /\ closer' = "clean"
    /\ UNCHANGED <<stop, marked, closeUnchanged>>

CloseFlushed ==
    /\ closer = "waiting"
    /\ loop = "exited"
    /\ opCanceled' = TRUE
    /\ closer' = "clean"
    /\ UNCHANGED <<stop, marked, closeUnchanged>>

FaultDeadlineKeepsTrying ==  \* the deadline does not cancel opCtx
    /\ closer = "waiting"
    /\ closer' = "late"
    /\ UNCHANGED <<stop, marked, opCanceled, closeUnchanged>>

CloseDeadline ==
    /\ closer = "waiting"
    /\ opCanceled' = TRUE
    /\ closer' = "late"
    /\ UNCHANGED <<stop, marked, closeUnchanged>>

FaultGivesUpAtOnce ==        \* after the deadline the run loop is not awaited
    /\ closer = "late"
    /\ closer' = "expired"
    /\ UNCHANGED <<stop, marked, opCanceled, closeUnchanged>>

CloseGivesUp ==
    /\ closer = "late"
    /\ loop = "exited"
    /\ closer' = "expired"
    /\ UNCHANGED <<stop, marked, opCanceled, closeUnchanged>>

-----------------------------------------------------------------------------
Run == Receive \/ Tick \/ DrainEnds \/ BackoffEnds \/ BackoffCanceled

(* The steps that need no new call of Add or Close.                        *)
Proceed ==
    \/ \E p \in Producers : AddSends(p) \/ AddStops(p)
    \/ Run
    \/ SeeStop
    \/ InsertOK
    \/ InsertFails
    \/ CloseFlushed
    \/ CloseDeadline
    \/ CloseGivesUp

Next ==
    \/ \E p \in Producers : Add(p)
    \/ Close
    \/ Proceed

Spec == Init /\ [][Next]_vars

(* Goroutines that can step do.  A select picks among its ready cases at    *)
(* random, so a case that is ready again and again is taken in the end.     *)
(* The deadline is a timer.  An Insert whose context is canceled returns;   *)
(* nothing is assumed of one whose context is alive.                        *)
Scheduling ==
    /\ \A p \in Producers : SF_vars(AddSends(p)) /\ WF_vars(AddStops(p))
    /\ WF_vars(Run)
    /\ SF_vars(SeeStop)
    /\ WF_vars(opCanceled /\ (InsertOK \/ InsertFails))
    /\ WF_vars(CloseFlushed)
    /\ WF_vars(CloseDeadline)
    /\ WF_vars(CloseGivesUp)

(* An insert that is tried again and again succeeds in the end.            *)
StorageRecovers == SF_vars(InsertOK)

FairSpec == Spec /\ Scheduling

-----------------------------------------------------------------------------
TypeOK ==
    /\ offered \in [Producers -> 0 .. MaxOffers]
    /\ adding \subseteq {p \in Producers : offered[p] > 0}
    /\ in \in Seq(Rows) /\ Len(in) <= Buffer
    /\ buf \in Seq(Rows) /\ Len(buf) <= MaxRows
    /\ loop \in {"select", "drain", "insert", "backoff", "exited"}
    /\ after \in {"select", "drain", "exited"}
    /\ stop \in BOOLEAN
    /\ opCanceled \in BOOLEAN
    /\ closer \in {"open", "waiting", "late", "clean", "expired"}
    /\ accepted \in Seq(Rows)
    /\ marked \in Nat
    /\ stored \in Seq(Rows)
    /\ lostReplies \in 0 .. MaxLostReplies
    /\ givenUp \in Seq(Rows)

(* batcher.go:98-150.  The path from Add to storage is one queue: as long   *)
(* as no batch was dropped and no reply was lost, the accepted rows are     *)
(* exactly the stored ones, then the buffered ones, then the queued ones.   *)
ExactlyOnceInOrder ==
    givenUp = <<>> /\ lostReplies = 0 => accepted = stored \o buf \o in

(* batcher.go:134-183.  Even when replies are lost, an accepted row is in   *)
(* storage, still held, or in a batch that was dropped; once the run loop   *)
(* has exited, each row accepted before Close is stored or was dropped.     *)
NoRowVanishes ==
    /\ Range(accepted) \subseteq
           Range(stored) \union Range(buf) \union Range(in) \union Range(givenUp)
    /\ loop = "exited" =>
           \A i \in 1 .. marked : accepted[i] \in Range(stored) \union Range(givenUp)

(* batcher.go:152-154, 185-187.  Batches are dropped only once Close ran    *)
(* into its deadline, whatever storage does before.                         *)
LossNeedsDeadline == givenUp # <<>> => closer \in {"late", "expired"}

(* batcher.go:134-145, 185-200.  When Close returns nil every row accepted  *)
(* before it was called is in storage.                                      *)
CleanCloseFlushed ==
    closer = "clean" => \A i \in 1 .. marked : accepted[i] \in Range(stored)

(* batcher.go:193-199.  Close closes the inserter only after the run loop   *)
(* is done with it, with nothing left in the buffer.                        *)
InserterClosedLast ==
    closer \in {"clean", "expired"} => loop = "exited" /\ buf = <<>>

(* batcher.go:185-200.  Close returns whatever storage does.               *)
CloseReturns == closer = "waiting" ~> closer \in {"clean", "expired"}

(* batcher.go:98-106.  Close releases the producers blocked in Add.        *)
CloseReleasesProducers == \A p \in Producers : [](stop => <>(p \notin adding))

(* batcher.go:36-38, 131-132, 152-154.  If storage recovers, a row that was *)
(* accepted reaches it without waiting for more rows or for Close.          *)
RowsReachStorage ==
    StorageRecovers =>
        \A r \in Rows : r \in Range(accepted) ~> r \in Range(stored) \/ stop

-----------------------------------------------------------------------------
(* clickhouse.go:173-174 says of Insert: "a failed send leaves nothing      *)
(* half-applied and the Batcher can safely retry", as batcher.go:20-21      *)
(* demands: retrying stores no row a second time.                           *)
RetryIsSafe == \A i, j \in DOMAIN stored : stored[i] = stored[j] => i = j

-----------------------------------------------------------------------------
(* The promise of the sink: a log whose rows become durable in order.      *)
Log == INSTANCE RowLog WITH sent <- accepted, durable <- stored,
                            waiting <- buf \o in, given <- givenUp,
                            expired <- closer \in {"late", "expired"}

RefinesRowLog == Log!Spec
=============================================================================
