------------------------------ MODULE TickQueue ------------------------------
(***************************************************************************)
(* Persistence through the JetStream log: internal/queue and its wiring in *)
(* cmd/tickstore/main.go.  Publisher.Add publishes each row and forgets    *)
(* it; the server keeps it in a work-queue stream; Consume fetches batches, *)
(* inserts them into ClickHouse and acknowledges row by row.               *)
(*                                                                         *)
(* One subject with its consumer (trades and books are two such pairs that *)
(* share nothing).  The stream and the table survive the process, which    *)
(* may be cancelled, may crash and is started again.  The server is        *)
(* external: it is modelled from the options queue.go gives it - a message *)
(* leaves the stream when it is acknowledged or older than MaxAge, and one *)
(* delivered but not acknowledged is delivered again after a Nak or after  *)
(* the server's ack wait.                                                  *)
(***************************************************************************)
EXTENDS Integers, FiniteSets

CONSTANTS
    MaxRows,         \* bound: rows the feeds hand over
    Poison,          \* rows whose message does not unmarshal
    FetchMax,        \* rows one Fetch asks for (500)
    MaxAckPending,   \* deliveries the server leaves unanswered (20000)
    MaxDeaths,       \* bound: crashes and shutdowns
    MaxLost          \* bound: acks, naks and insert replies that get lost

Row == 1 .. MaxRows

ASSUME RowsAssumption   == MaxRows \in Nat /\ Poison \subseteq Row
ASSUME FetchAssumption  == FetchMax \in Nat \ {0} /\ MaxAckPending \in Nat \ {0}
ASSUME BoundsAssumption == MaxDeaths \in Nat /\ MaxLost \in Nat

VARIABLES
    added,      \* rows handed to Publisher.Add so far: rows 1 .. added
    inflight,   \* published, not yet written by the server
    dropped,    \* published and never written by the server
    stream,     \* messages in the stream
    unanswered, \* those of them delivered and neither acked nor naked
    expired,    \* removed from the stream by MaxAge
    table,      \* copies of each row in ClickHouse
    proc,       \* the process: running, cancelled, closing (feeds gone), down
    step,       \* Consume: fetch, insert, ack, nak, or stopped
    batch,      \* Consume: msgs not answered yet
    deaths, lost

logVars  == <<stream, unanswered, expired>>
consVars == <<step, batch>>
vars == <<added, inflight, dropped, logVars, table, proc, consVars, deaths, lost>>

Init ==
    /\ added = 0
    /\ inflight = {}
    /\ dropped = {}
    /\ stream = {}
    /\ unanswered = {}
    /\ expired = {}
    /\ table = [r \in Row |-> 0]
    /\ proc = "running"
    /\ step \in {"fetch", "stopped"}   \* stopped: the consumer was not created
    /\ batch = {}
    /\ deaths = 0
    /\ lost = 0

-----------------------------------------------------------------------------
(* Add: asynchronous, so it never waits; an error is logged and forgotten.  *)
Add ==
    /\ proc \in {"running", "cancelled"}
    /\ added < MaxRows
    /\ added' = added + 1
    /\ \/ inflight' = inflight \union {added'} /\ UNCHANGED dropped
       \/ dropped' = dropped \union {added'} /\ UNCHANGED inflight
    /\ UNCHANGED <<logVars, table, proc, consVars, deaths, lost>>

(* The server writes the oldest message on the connection to the stream.    *)
Written ==
    /\ \E r \in inflight :
         /\ \A s \in inflight : r <= s
         /\ inflight' = inflight \ {r}
         /\ stream' = stream \union {r}
    /\ UNCHANGED <<added, dropped, unanswered, expired, table, proc, consVars,
                   deaths, lost>>

(* MaxAge removes a message, delivered or not.                              *)
FaultTooOld(r) ==      \* its delivery goes on counting as unanswered
    /\ r \in stream
    /\ stream' = stream \ {r}
    /\ expired' = expired \union {r}
    /\ UNCHANGED <<added, inflight, dropped, unanswered, table, proc, consVars,
                   deaths, lost>>

TooOld(r) ==
    /\ r \in stream
    /\ stream' = stream \ {r}
    /\ unanswered' = unanswered \ {r}
    /\ expired' = expired \union {r}
    /\ UNCHANGED <<added, inflight, dropped, table, proc, consVars, deaths, lost>>

(* The server's ack wait: an unanswered message may be delivered again,     *)
(* even while the consumer still works on it.                               *)
AckWait(r) ==
    /\ r \in unanswered
    /\ unanswered' = unanswered \ {r}
    /\ UNCHANGED <<added, inflight, dropped, stream, expired, table, proc,
                   consVars, deaths, lost>>

-----------------------------------------------------------------------------
(* Consume.  Fetch returns what is there, at most FetchMax messages; those  *)
(* that do not unmarshal are acked on the spot (the error of that ack is    *)
(* ignored like that of the others below).                                  *)
MayFetch(S) ==
    /\ proc = "running" /\ step = "fetch"
    /\ S \subseteq stream \ unanswered
    /\ Cardinality(S) \in 1 .. FetchMax
    /\ Cardinality(unanswered \union S) <= MaxAckPending

FaultFetch(S) ==       \* messages that do not unmarshal are passed over
    /\ MayFetch(S)
    /\ unanswered' = unanswered \union S
    /\ batch' = S \ Poison
    /\ step' = IF batch' = {} THEN "fetch" ELSE "insert"
    /\ UNCHANGED <<added, inflight, dropped, stream, expired, table, proc, deaths, lost>>

Fetch(S) ==
    /\ MayFetch(S)
    /\ \/ /\ stream' = stream \ (S \intersect Poison)
          /\ unanswered' = unanswered \union (S \ Poison)
          /\ UNCHANGED lost
       \/ /\ S \intersect Poison # {} /\ lost < MaxLost
          /\ lost' = lost + 1
          /\ unanswered' = unanswered \union S
          /\ UNCHANGED stream
    /\ batch' = S \ Poison
    /\ step' = IF batch' = {} THEN "fetch" ELSE "insert"
    /\ UNCHANGED <<added, inflight, dropped, expired, table, proc, deaths>>

Received == table' = [r \in Row |-> IF r \in batch THEN table[r] + 1 ELSE table[r]]

(* Insert succeeds while the process is not being cancelled.                *)
FaultInsertOk ==       \* the batch is asked for again although it was inserted
    /\ proc = "running" /\ step = "insert"
    /\ Received
    /\ step' = "nak"
    /\ UNCHANGED <<added, inflight, dropped, logVars, proc, batch, deaths, lost>>

InsertOk ==
    /\ proc = "running" /\ step = "insert"
    /\ Received
    /\ step' = "ack"
    /\ UNCHANGED <<added, inflight, dropped, logVars, proc, batch, deaths, lost>>

(* Insert fails: ClickHouse got nothing, or got it and the reply was lost.  *)
FaultInsertFailed ==   \* gives the batch up as if it had been inserted
    /\ step = "insert"
    /\ lost < MaxLost \/ proc # "running"
    /\ step' = "ack"
    /\ lost' = IF proc = "running" THEN lost + 1 ELSE lost
    /\ UNCHANGED <<added, inflight, dropped, logVars, table, proc, batch, deaths>>

InsertFailed ==
    /\ step = "insert"
    /\ \/ proc # "running" /\ UNCHANGED <<table, lost>>
       \/ lost < MaxLost /\ lost' = lost + 1 /\ (Received \/ UNCHANGED table)
    /\ step' = "nak"
    /\ UNCHANGED <<added, inflight, dropped, logVars, proc, batch, deaths>>

(* One message of the batch has been answered; after the last one the loop  *)
(* looks at ctx again.                                                      *)
NextAnswer(r) ==
    /\ batch' = batch \ {r}
    /\ step' = IF batch' = {} THEN "fetch" ELSE step

Ack(r) ==
    /\ step = "ack" /\ r \in batch
    /\ NextAnswer(r)
    /\ stream' = stream \ {r}
    /\ unanswered' = unanswered \ {r}
    /\ UNCHANGED <<added, inflight, dropped, expired, table, proc, deaths, lost>>

Nak(r) ==
    /\ step = "nak" /\ r \in batch
    /\ NextAnswer(r)
    /\ unanswered' = unanswered \ {r}
    /\ UNCHANGED <<added, inflight, dropped, stream, expired, table, proc, deaths, lost>>

(* The error of Ack and of Nak is ignored: the answer may not get through.  *)
AnswerLost(r) ==
    /\ step \in {"ack", "nak"} /\ r \in batch
    /\ lost < MaxLost
    /\ lost' = lost + 1
    /\ NextAnswer(r)
    /\ UNCHANGED <<added, inflight, dropped, logVars, table, proc, deaths>>

(* The loop condition: Consume returns once ctx is done.                    *)
ConsumeReturns ==
    /\ proc # "running" /\ step = "fetch"
    /\ step' = "stopped"
    /\ UNCHANGED <<added, inflight, dropped, logVars, table, proc, batch, deaths, lost>>

-----------------------------------------------------------------------------
(* runConfig: a signal cancels ctx; wg.Wait returns when the feeds are gone *)
(* (the consumers are not waited for); bus.Close waits for the publishes or *)
(* for 5 seconds, and the process exits.                                    *)
Cancel ==
    /\ proc = "running"
    /\ deaths < MaxDeaths
    /\ deaths' = deaths + 1
    /\ proc' = "cancelled"
    /\ UNCHANGED <<added, inflight, dropped, logVars, table, consVars, lost>>

FeedsDone ==
    /\ proc = "cancelled"
    /\ proc' = "closing"
    /\ UNCHANGED <<added, inflight, dropped, logVars, table, consVars, deaths, lost>>

(* What a process leaves behind: its publishes and its batch are gone.      *)
Gone ==
    /\ proc' = "down"
    /\ inflight' = {}
    /\ dropped' = dropped \union inflight
    /\ step' = "stopped"
    /\ batch' = {}

CloseBus ==            \* publishes complete, or the 5 seconds are over
    /\ proc = "closing"
    /\ Gone
    /\ UNCHANGED <<added, logVars, table, deaths, lost>>

Crash ==
    /\ proc # "down"
    /\ deaths < MaxDeaths
    /\ deaths' = deaths + 1
    /\ Gone
    /\ UNCHANGED <<added, logVars, table, lost>>

(* The next start.  When the durable consumer cannot be created, its        *)
(* goroutine ends at once and the feeds go on publishing.                   *)
Start ==
    /\ proc = "down"
    /\ proc' = "running"
    /\ step' \in {"fetch", "stopped"}
    /\ UNCHANGED <<added, inflight, dropped, logVars, table, batch, deaths, lost>>

Next ==
    \/ Add \/ Written
    \/ \E r \in Row : TooOld(r) \/ AckWait(r)
    \/ \E S \in SUBSET Row : Fetch(S)
    \/ InsertOk \/ InsertFailed
    \/ \E r \in Row : Ack(r) \/ Nak(r) \/ AnswerLost(r)
    \/ ConsumeReturns
    \/ Cancel \/ FeedsDone \/ CloseBus \/ Crash \/ Start

Spec == Init /\ [][Next]_vars

(* The consumer's goroutine is scheduled, the server delivers again what    *)
(* nobody answered, and an insert that can succeed is not delayed for ever. *)
Fairness ==
    /\ WF_vars(\E S \in SUBSET Row : Fetch(S))
    /\ WF_vars(InsertOk \/ InsertFailed)
    /\ \A r \in Row : WF_vars(Ack(r) \/ Nak(r) \/ AnswerLost(r)) /\ WF_vars(AckWait(r))

FairSpec == Spec /\ Fairness

-----------------------------------------------------------------------------
TypeOK ==
    /\ added \in 0 .. MaxRows
    /\ inflight \subseteq 1 .. added
    /\ dropped \subseteq 1 .. added
    /\ stream \subseteq 1 .. added
    /\ unanswered \subseteq stream
    /\ Cardinality(unanswered) <= MaxAckPending
    /\ expired \subseteq 1 .. added
    /\ table \in [Row -> Nat]
    /\ proc \in {"running", "cancelled", "closing", "down"}
    /\ step \in {"fetch", "insert", "ack", "nak", "stopped"}
    /\ batch \subseteq (1 .. added) \ Poison
    /\ deaths \in 0 .. MaxDeaths
    /\ lost \in 0 .. MaxLost

(* queue.go:1-6, 103-106.  Whatever is lost, crashes or is delivered twice, *)
(* every row handed to Add is still on its way, was dropped before it       *)
(* reached the log, or is accounted for: in the stream, in ClickHouse,      *)
(* unreadable, or older than MaxAge.                                        *)
EveryRowAccountedFor ==
    \A r \in 1 .. added :
        \/ r \in inflight \union dropped \union stream \union expired \union Poison
        \/ table[r] > 0

(* queue.go:103-104, DECISIONS.md:729-732.  At least once is not any number *)
(* of times: each further copy of a row takes a lost answer, a lost insert  *)
(* reply or the end of a process.  A redelivery by the ack wait alone, while *)
(* the consumer still holds the batch, never doubles a row.                 *)
CopiesNeedCause == \A r \in Row : table[r] <= 1 + lost + deaths

(* queue.go:38-40, 103-106.  A consumer that keeps running empties the log: *)
(* failed inserts, poison messages and a full ack window hold nothing back  *)
(* for ever.                                                                *)
LogDrains == <>[](proc = "running" /\ step # "stopped") => []<>(stream = {})

(* Consume, the stream and a process that comes and goes are a durable log. *)
Log == INSTANCE DurableLog
         WITH Unreadable <- Poison, owed <- stream, copies <- table, tooOld <- expired

RefinesDurableLog == Log!Spec
=============================================================================
