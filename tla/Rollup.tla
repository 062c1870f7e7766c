------------------------------- MODULE Rollup -------------------------------
(***************************************************************************)
(* The per-minute rollup views of internal/sink/schema.sql, their backfill *)
(* (fillRollupGap in clickhouse.go, run by main.go in a goroutine beside   *)
(* the inserts) and the charts that read them (stats.go).                  *)
(*                                                                         *)
(* Time is counted in ticks, Minute of them to a minute.  A row is its     *)
(* ts_received and a name; seen[v][r] is how often view v has counted row  *)
(* r, under the minute the row belongs to.  The price and latency states a *)
(* view keeps beside its count are fed by the same inserts and left out.   *)
(* ClickHouse is external: each SQL statement is one step, a materialized  *)
(* view takes in what is inserted into its table from its creation on and  *)
(* nothing older, and an INSERT SELECT that is cut off may have stored     *)
(* some of its minutes.                                                    *)
(*                                                                         *)
(* The first start of the program that knows the views finds tables with   *)
(* any history (Init, where all tables have the same one: the views only   *)
(* share the order they are backfilled in); nothing expires within the     *)
(* bounds.                                                                 *)
(***************************************************************************)
EXTENDS Integers, Sequences

CONSTANTS
    Views,      \* the views in the order they are backfilled
    Minute,     \* ticks to a minute
    Lag,        \* "2 MINUTE", in ticks
    Ttl,        \* each view's "90 DAY" or "30 DAY", in ticks
    Name,       \* tells rows of one tick apart
    History,    \* rows there may be before the first start
    Today,      \* the tick of the first start
    MaxTick,    \* bound: the last tick
    MaxRows,    \* bound: rows inserted since
    MaxLate,    \* bound: ticks between a row's ts_received and its insert
    MaxScan,    \* bound: ticks between the two halves of one fillRollupGap
    MaxStops    \* bound: ends of the process

Tick  == 0 .. MaxTick
Row   == Tick \X Name
View  == {Views[i] : i \in DOMAIN Views}
Never == MaxTick + 1

ASSUME ViewsAssumption  == /\ Views \in Seq(View) /\ Views # <<>>
                           /\ \A i, j \in DOMAIN Views : Views[i] = Views[j] => i = j
ASSUME TimeAssumption   == /\ {Minute, Lag} \subseteq Nat \ {0}
                           /\ Ttl \in [View -> Nat \ {0}]
                           /\ MaxTick \in Nat /\ Today \in Tick
ASSUME RowsAssumption   == History \subseteq {r \in Row : r[1] <= Today}
ASSUME BoundsAssumption == {MaxRows, MaxLate, MaxScan, MaxStops} \subseteq Nat

VARIABLES
    now,        \* ClickHouse's clock
    raw,        \* the rows of each view's table
    seen,       \* how often each view has counted each row
    created,    \* when each view was created
    rows,       \* rows inserted so far
    proc,       \* the process: up or down
    backfill,   \* its backfill goroutine: none, count, gap, insert, done, failed
    next,       \* position in Views of the view it is at
    cnt,        \* whether SELECT count() found the view non-empty
    counted,    \* when it did
    cut,        \* the views that an INSERT SELECT was cut off from
    stops

bfVars == <<backfill, next, cnt, counted>>
vars   == <<now, raw, seen, created, rows, proc, bfVars, cut, stops>>

Init ==
    /\ now = Today
    /\ \E h \in SUBSET History : raw = [v \in View |-> h]
    /\ seen = [v \in View |-> [r \in Row |-> 0]]
    /\ created = [v \in View |-> Never]
    /\ rows = 0
    /\ proc = "down"
    /\ backfill = "none"
    /\ next = 1
    /\ cnt = FALSE
    /\ counted = Today
    /\ cut = {}
    /\ stops = 0

StartOfMinute(t) == t - (t % Minute)

-----------------------------------------------------------------------------
(* Time passes.  A fillRollupGap under way issues its insert soon.          *)
Pass ==
    /\ now < MaxTick
    /\ backfill \in {"gap", "insert"} => now < counted + MaxScan
    /\ now' = now + 1
    /\ UNCHANGED <<raw, seen, created, rows, proc, bfVars, cut, stops>>

(* A row of a batch reaches the table, and with it the view.               *)
Insert(v, r) ==
    /\ proc = "up"
    /\ rows < MaxRows
    /\ r \notin raw[v]
    /\ r[1] \in now - MaxLate .. now
    /\ rows' = rows + 1
    /\ raw' = [raw EXCEPT ![v] = @ \union {r}]
    /\ seen' = [seen EXCEPT ![v][r] = @ + 1]
    /\ UNCHANGED <<now, created, proc, bfVars, cut, stops>>

(* buildHandler: Migrate creates what does not exist, then the backfill is  *)
(* started.  A statement that fails ends the start.                         *)
Start ==
    /\ proc = "down"
    /\ proc' = "up"
    /\ created' = [v \in View |-> IF created[v] = Never THEN now ELSE created[v]]
    /\ backfill' = "count"
    /\ next' = 1
    /\ UNCHANGED <<now, raw, seen, rows, cnt, counted, cut, stops>>

FaultMigrateFails ==       \* the error does not end the start
    /\ proc = "down"
    /\ stops < MaxStops
    /\ stops' = stops + 1
    /\ proc' = "up"
    /\ \E n \in DOMAIN Views :
         created' = [v \in View |-> IF created[v] = Never /\ \E i \in 1 .. n - 1 : Views[i] = v
                                    THEN now ELSE created[v]]
    /\ UNCHANGED <<now, raw, seen, rows, bfVars, cut>>

MigrateFails ==
    /\ proc = "down"
    /\ stops < MaxStops
    /\ stops' = stops + 1
    /\ \E n \in DOMAIN Views :
         created' = [v \in View |-> IF created[v] = Never /\ \E i \in 1 .. n - 1 : Views[i] = v
                                    THEN now ELSE created[v]]
    /\ UNCHANGED <<now, raw, seen, rows, proc, bfVars, cut>>

-----------------------------------------------------------------------------
(* fillRollupGap, one step per statement; backfillRollups calls it for one  *)
(* view after the other and returns at the first error.                     *)
At == Views[next]

CountView ==
    /\ backfill = "count"
    /\ cnt' = (\E r \in Row : seen[At][r] > 0)
    /\ counted' = now
    /\ backfill' = "gap"
    /\ UNCHANGED <<now, raw, seen, created, rows, proc, next, cut, stops>>

Minutes(v)      == {StartOfMinute(r[1]) : r \in {q \in Row : seen[v][q] > 0}}
OldestMinute(v) == CHOOSE m \in Minutes(v) : \A k \in Minutes(v) : m <= k

FaultUpper == now - Lag    \* the view's own oldest minute is not looked up

Upper == IF cnt THEN OldestMinute(At) ELSE now - Lag

FaultGap ==                \* reaches back a fixed time, not to the retention
    {r \in raw[At] : Upper - Minute <= r[1] /\ r[1] < Upper}

(* The rows between the retention window's start and the upper bound.      *)
Gap == {r \in raw[At] : now - Ttl[At] < r[1] /\ r[1] < Upper}

NextView ==
    IF next = Len(Views)
    THEN backfill' = "done" /\ UNCHANGED next
    ELSE backfill' = "count" /\ next' = next + 1

CheckGap ==
    /\ backfill = "gap"
    /\ IF Gap # {} THEN backfill' = "insert" /\ UNCHANGED next ELSE NextView
    /\ UNCHANGED <<now, raw, seen, created, rows, proc, cnt, counted, cut, stops>>

(* INSERT SELECT of those rows of the gap that are of minutes M.            *)
Seed(M) == seen' = [seen EXCEPT ![At] =
               [r \in Row |-> IF r \in Gap /\ StartOfMinute(r[1]) \in M THEN @[r] + 1 ELSE @[r]]]

FillGap ==
    /\ backfill = "insert"
    /\ Seed({StartOfMinute(t) : t \in Tick})
    /\ NextView
    /\ UNCHANGED <<now, raw, created, rows, proc, cnt, counted, cut, stops>>

FillCutOff(M) ==
    /\ backfill = "insert"
    /\ Seed(M)
    /\ backfill' = "failed"
    /\ cut' = cut \union {At}
    /\ UNCHANGED <<now, raw, created, rows, proc, next, cnt, counted, stops>>

QueryFails ==
    /\ backfill \in {"count", "gap"}
    /\ backfill' = "failed"
    /\ UNCHANGED <<now, raw, seen, created, rows, proc, next, cnt, counted, cut, stops>>

Stop ==
    /\ proc = "up"
    /\ stops < MaxStops
    /\ stops' = stops + 1
    /\ proc' = "down"
    /\ backfill' = "none"
    /\ UNCHANGED <<now, raw, seen, created, rows, next, cnt, counted, cut>>

Next ==
    \/ Pass
    \/ \E v \in View, r \in Row : Insert(v, r)
    \/ Start \/ MigrateFails
    \/ CountView \/ CheckGap \/ FillGap
    \/ \E M \in SUBSET {StartOfMinute(t) : t \in Tick} : FillCutOff(M)
    \/ QueryFails
    \/ Stop

Spec == Init /\ [][Next]_vars

-----------------------------------------------------------------------------
(* ThroughputHistory (and with it the other two): how often each row is     *)
(* counted between two ticks.  Buckets of a minute and more read the view,  *)
(* the minutes that start in the window; shorter ones read the table.       *)
ReadsRollup(bucket) == bucket >= Minute

Chart(v, from, to, bucket) ==
    [r \in Row |-> IF ReadsRollup(bucket)
                   THEN IF from <= StartOfMinute(r[1]) /\ StartOfMinute(r[1]) <= to
                        THEN seen[v][r] ELSE 0
                   ELSE IF r \in raw[v] /\ from <= r[1] /\ r[1] <= to THEN 1 ELSE 0]

-----------------------------------------------------------------------------
(* Types; a view has counted only rows of its table, and none before it     *)
(* was created; rows are inserted only where Migrate created every view.    *)
TypeOK ==
    /\ now \in Tick
    /\ raw \in [View -> SUBSET Row]
    /\ seen \in [View -> [Row -> Nat]]
    /\ created \in [View -> Tick \union {Never}]
    /\ \A v \in View, r \in Row : seen[v][r] > 0 => r \in raw[v] /\ created[v] # Never
    /\ proc = "up" => \A v \in View : created[v] # Never
    /\ rows \in 0 .. MaxRows
    /\ proc \in {"up", "down"}
    /\ backfill \in {"none", "count", "gap", "insert", "done", "failed"}
    /\ next \in DOMAIN Views
    /\ cnt \in BOOLEAN
    /\ counted \in Tick
    /\ cut \subseteq View
    /\ stops \in 0 .. MaxStops

(* What the backfill takes for granted: rows are inserted, and its insert   *)
(* follows its count, before the two minutes it leaves alone are over.      *)
Prompt == MaxLate + MaxScan <= Lag

(* clickhouse.go:77-90, DECISIONS.md:659-661.  However often the process is *)
(* started, and wherever it or the backfill was interrupted, no view counts *)
(* a row twice: neither rows it took in live nor rows seeded before.        *)
NeverDoubleCounted == Prompt => \A v \in View, r \in Row : seen[v][r] <= 1

(* The backfill is past this view and was never cut off from it.            *)
Covered(v) ==
    /\ v \notin cut
    /\ \/ backfill = "done"
       \/ backfill # "none" /\ \E i \in 1 .. next - 1 : Views[i] = v

(* clickhouse.go:83-90.  Once the backfill is past a view, a chart read from *)
(* it shows the same rows as one read from the raw table, for all retained  *)
(* minutes that were over two minutes before the view was created - also    *)
(* when earlier processes ended before their backfill did.                  *)
SeededCharts ==
    Prompt => \A v \in View : Covered(v) =>
        \A from, to \in {StartOfMinute(t) : t \in Tick} :
            (from > now - Ttl[v] /\ to + Minute <= created[v] - Lag) =>
                Chart(v, from, to, Minute) = Chart(v, from, to + Minute - 1, 0)

-----------------------------------------------------------------------------
(* clickhouse.go:86-88 says of backfillRollups: "It fills the gap between   *)
(* the raw retention window and whatever the view already covers, so it     *)
(* seeds the full history once": then no retained row of a minute that is   *)
(* over, and that lies after the oldest the view has (where no later        *)
(* backfill looks), is missing from the view.                               *)
SeedsFullHistory ==
    Prompt => \A v \in View : Covered(v) =>
        \A r \in raw[v] :
            LET m == StartOfMinute(r[1]) IN
            (m > now - Ttl[v] /\ m + Minute <= now - Lag /\ \E k \in Minutes(v) : k <= m) =>
                seen[v][r] > 0
=============================================================================
