# tickstore: a TLA+ verification project

tickstore captures trades and level-2 order books from three exchanges
(Coinbase, Kraken, OKX), normalises them, keeps live order books in memory,
and writes every row to ClickHouse, directly through a batching sink or through
a NATS JetStream log. A dashboard reads the live state and the stored history.

This directory holds TLA+ models of the parts where order, failure and
shutdown matter, TLC configurations that check them on small instances, and
TLAPS proofs of the results that matter most. Line numbers refer to the Go
source in this repository.

## Inventory

| Component | State it keeps | Operations | Interacts with |
|---|---|---|---|
| Order book engine, `internal/book/book.go` | two price→size maps, `lastSeq`, `synced`, the replay buffer `pending`, counters | `Apply`, `ApplySnapshot`, `Trim` | called by a book connector on its read loop; read by observers |
| Batching sink, `internal/sink/batcher.go` | channel, buffer, stop and cancel signals | `Add`, the `run` goroutine, `insertWithRetry`, `Close` | connectors call `Add`; it calls `Inserter.Insert`; main calls `Close` |
| Lifecycle, `cmd/tickstore/main.go` | context, wait group | `runConfig`: start, wait, flush trades, flush books, close | everything |
| Reconnect loops, `internal/venue/reconnect.go` and Coinbase's copies | backoff | session, pause, session | websocket sessions, the context |
| Book connectors, `internal/venue/{kraken,okx,coinbase}/book.go` | per session: a book and a counter per symbol; OKX `lastSeqID`, Kraken precisions | `session`, `applyBook`/`dispatch`, `applyChanges` | book engine, book sink, observer |
| Trade connectors, `internal/venue/*/{kraken,okx,coinbase}.go` | none between messages | `session`, parsing | `Handler.OnTrade` |
| Durable queue, `internal/queue/queue.go` | the JetStream stream and consumer | `Publisher.Add`, `Consume`, `Bus.Close` | connectors publish; `Consume` inserts into ClickHouse |
| ClickHouse, `internal/sink/clickhouse.go` | tables and rollup views | `Insert`, `Migrate`, `BackfillRollups` | batcher, queue, dashboard |
| Live registry, `internal/live/registry.go` | latest book per market, latest trade, a ring of trades | `OnBook`, `OnTrade`, `TradesSince`, reads | connectors write, dashboard reads |
| Dashboard, `internal/dashboard/server.go` | a cursor per stream | `stream`, reads | registry, ClickHouse |
| Numbers, `internal/norm/fixed.go` | none | `ParseFixed`, `FormatFixed` | all parsers |
| Configuration, metrics | none that behaviour depends on | | |

What is hard, and what makes each part correct:

- **Book engine.** The feed may lose, repeat and reorder updates, and a
  snapshot may be older than updates already received. A book must at every
  moment be a state the venue's book really had, must not pass over an update
  while it claims to be synced, and must catch up again once the snapshot it asks
  for comes.
- **Batching sink.** Producers, the run goroutine, a retry loop, a deadline
  and a closer interleave freely; storage fails, hangs, or commits and loses
  its answer. Rows must reach storage in order, be lost only to the deadline,
  and nobody may stay blocked.
- **Lifecycle.** Who is stopped before whom decides whether received rows are
  turned away, whether a clean exit has stored everything, and whether the
  process exits at all.
- **Book connectors.** Each venue offers another means of noticing a missed
  update (a checksum, a linkage of numbers, none); what is shown must be what
  the venue shows, and what is persisted must replay to it.
- **Queue.** At-least-once delivery between insert and ack, redelivery out of
  order, an age limit, consumers that are not awaited at shutdown.
- **Registry.** A cursor over a ring that moves.
- **Rollup backfill.** A bound read by one statement and used by another
  while a live view writes.

`PROJECT.json` lists these as hazards, each at its line, with the properties
that cover it.

## Modules

| Module | Models | Lines it follows |
|---|---|---|
| `BookEngine` | the order book engine, its feed and its venue | `book.go:15-128` |
| `BookReplica` | what a book promises its readers (abstract) | `book.go:1-6` |
| `BookEngineProofs` | theorems about `BookEngine` | |
| `Batcher` | the batching sink | `batcher.go:67-200` |
| `RowLog` | what the sink promises its producers (abstract) | `batcher.go:98-100, 152-154` |
| `BatcherProofs` | theorems about `Batcher` | |
| `Lifecycle` | `runConfig` from start to exit, with two instances of `Batcher` | `main.go:155-301`, `reconnect.go:23-45` |
| `LifecycleProofs` | theorems about `Lifecycle` | |
| `BookFeeds` | the three book connectors with their sessions, books, persisted rows and the registry's entry | `venue/{kraken,okx,coinbase}/book.go`, `book.go:130-156`, `views.go:20-65`, `registry.go:71-90` |
| `BookFeedsProofs` | theorems about `BookFeeds` | |
| `FixedPoint` | numbers on the wire and as integers | `fixed.go` |
| `FixedPointProofs` | theorems about `FixedPoint` | |
| `TradeTape` | the registry's trades and a browser's stream | `registry.go:92-149`, `server.go:136-203` |
| `TradeFeeds` | the trade connectors, their reconnect loops and the sink they feed, above `FixedPoint` and `TradeTape` | `venue/*/parse.go`, `venue/*/{kraken,okx,coinbase}.go`, `reconnect.go`, `main.go:66-77` |
| `TradeFeedsProofs` | theorems about `TradeTape` and `TradeFeeds` | |
| `TickQueue` | publisher, JetStream stream, consumer and the process around them | `queue.go:38-156`, `main.go:181-301, 408-442` |
| `DurableLog` | what the log promises (abstract) | `queue.go:1-6, 103-106` |
| `TickQueueProofs` | theorems about `TickQueue` | |
| `Rollup` | the per-minute views, their backfill, the charts that read them | `clickhouse.go:61-144`, `schema.sql:56-89`, `stats.go:136-323` |
| `RollupProofs` | theorems about `Rollup` | |
| `MCBookEngine`, `MCBatcher`, `MCLifecycle`, `MCBookFeeds`, `MCTradeFeeds`, `MCTickQueue`, `MCRollup` | instances for TLC | |

`Lifecycle` composes two `Batcher`s with the connectors; `TradeFeeds` composes the
connectors with the number parser and the tape; `BookFeeds` composes a connector with the book it
drives, in the sequential form a connector uses (`Apply` and `ApplySnapshot` are
functions there, and `BookEngine` is where they are taken apart). `TickQueue` takes
the place of `Batcher` when a queue is configured.

Definitions named `Fault...` are not part of any specification. Each is the
definition that follows it with one plausible mistake (a dropped guard, an
off-by-one, a missing reset); put in that definition's place, it makes TLC
report the property it is listed with in `PROJECT.json`. They show that the
properties are able to fail.

### BookEngine

`levels`, `lastSeq`, `synced`, `pending`, `gaps`, `resyncs` and `dropped` are
the fields of `Book`. A key stands for one (side, price) slot, size 0 for an
absent one, so `levels` is both maps. `Apply` has one definition per return
statement. `ApplySnapshot` replays its sorted buffer one call of `Apply` per
step (`todo`, `Replay`) so that invariants are checked inside the replay too;
until it is done only the venue moves. `sort.Slice` is not stable, so
`SortedPending` is every sorted arrangement.

The venue is the environment: update `n` is `stream[n]` and `truth[n + 1]` is
its book after `n` updates. The feed hands over any published update, in any
order, never or up to `MaxCopies` times. A snapshot is a state of the venue's
book, the newest one or (at most `MaxLagging` times) an older one; a synced book
is never handed a snapshot behind it, because no caller asks for one.
`request` remembers that `Apply` asked for a snapshot and none has come since. A
snapshot may also come unasked (a new subscription brings one), but only one that
was asked for is assumed to come.

### Batcher

One step of a goroutine is one action: `Add` enters the select, `AddSends` and
`AddStops` are its two cases, `Receive`, `Tick` and `SeeStop` the three of
`run`, `DrainEnds` the default of the drain loop; the flush closure is
`Flush`, its return `FlushReturns`; `InsertOK`, `InsertFails`, `BackoffEnds`
and `BackoffCanceled` are `insertWithRetry`; `Close` and its two ways out are
the rest. `loop` and `after` say where the run goroutine is and where it goes
on after the flush in progress. A select whose cases are several ready takes
any of them. Storage may commit a batch and report an error, at most
`MaxLostReplies` times. Timers are abstract: the ticker, the backoff and the
deadline may fire whenever they are armed.

`accepted`, `marked` and `givenUp` are history variables: the rows sent on the
channel, how many of them when `Close` was called, and the rows dropped.

### Lifecycle

Two instances of `Batcher` (trades on the plain variables, books on the
`b`-variables), a reconnect loop per connector (`conn`), the context
(`canceled`) and the progress of `runConfig` (`main`). A connector whose
message was parsed is inside `Add` of its batcher and cannot see the context
there. `main` waits for all connectors, closes the trade batcher, then the book
batcher, each with its own deadline, and exits.

### BookFeeds

`Init` picks the venue. `book` is the session's `book.Book`, `seq` the counter of
`seqBook`, `lastSeqID` and `seeded` OKX's linkage, `known` whether Kraken's
precisions have arrived; `EndSession` forgets them all, as the maps local to
`session` are. `Snapshot` and `Update` are one call of `applyBook` (Coinbase:
`dispatch`) with everything it calls: the book, the rows to the sink, Trim, the
checksum, the observer. `BadSnapshot` and `BadUpdate` are the same calls with a
level that does not parse: the levels before it have been applied and persisted
when the session ends. `Missed` and `MissedSnapshot` are frames that never get
there: lost, or, as Coinbase does with every frame it cannot parse, logged and
skipped. `gaps` counts resyncs; `stored` is the book the persisted rows replay to; `shown`
is the registry's entry, kept over a disconnect as the registry keeps it.

Two history variables say what a session can know. `complete`: it has missed no
frame. `ahead`: the levels changed by updates it handled before its snapshot.
`Whole`, both together, is the condition of `ShownIsVenueBook` where neither a
checksum nor a linkage helps. The second half matters on Coinbase: `book.go:163-164`
there says that updates before the snapshot are buffered so that the engine
replays them, but the snapshot is given the number after theirs, so that the replay
drops them as stale. If an update that the snapshot does not contain came before
it, the book is wrong although no frame was missed. `StaleWasOvertaken` bounds the damage (only
levels that such an update changed can differ from the venue's), and
`SnapshotReplaysNothing` is the theorem that nothing is ever replayed.

`Replay` is the loop that hands updates to `Apply`, as a recursive function. The
levels of a frame are distinct, so the order in which they are numbered and applied
makes no difference; `Numbered` takes any one.

The venue is external. Kraken sends only the best `BookDepth` levels: a level that
comes into the window because another was removed is in the frame, one that
newcomers push out is not. The CRC is equality of the best levels: two books that
differ there are taken to have different checksums.

### FixedPoint

A number on the wire is a sign, digits, digits and whether something else is among
them. `ParseFixed` and `FormatFixed` are the whole functions, limits included, with
`MaxInt` for the largest `int64`; `ReadDigits` is the loop with its look at the limit
before each digit, `Printed` and `Width` are what `%d` and `%0*d` do. `Value` and
`Exact` say what a number is worth without any limit, which is what both are
held to.

### TradeTape and TradeFeeds

`recent`, `nextTradeID` and `trades` are fields of `Registry`; each of its methods
holds the lock and is one step. `Open` seeds a stream's cursor, `Push` is one round
of its loop, `Close` a client that went away before or after the round's
`TradesSince`. `got` and `missed` are history variables: what was sent, and the ids that had
left the ring when the stream looked; `told`, every trade the registry was told of.

A connector reads a frame (`Receive`, `Replay`) and calls `tradeSink.OnTrade` for one
trade at a time. That is two steps: the registry is told (`Tell`), and then the
sink takes the trade (`Keep`, into `kept` of its venue). In between the connector is in `Add`
(`inAdd`), which may block, while other connectors and the stream go on: the
registry can be ahead of the sink, and the order of ids need not be the order in
which the sink takes trades of different venues.
`Replay` stands for all that counts as data and is dropped, the trades
Coinbase and Kraken repeat after a reconnect included. `DialFails`, `SessionEnds`, `Pause` and
`Wake` are `RunWithReconnect`, which all venues share in behaviour.

### TickQueue

`Add` publishes without waiting: the row is in flight, or the publish failed and
the row is dropped. `Fetch`, `InsertOk`, `InsertFailed`, `Ack`, `Nak` are the steps of
`Consume`; `AnswerLost` is an ack or nak whose error the code ignores. A poison message
is acked inside `Fetch`. `Cancel`, `FeedsDone`, `CloseBus` are the interrupt, the
end of `wg.Wait` and `bus.Close`; the consumer goes on beside them, since nobody
waits for it. `Crash` may happen anywhere. The stream and the table survive.
The server (`Written`, `TooOld`, `AckWait`) is external, modelled from the options
`queue.go` gives it.

### Rollup

Time is in ticks, `Minute` of them to a minute; a row is the tick it was received and a
name, and `seen` says how often each view has counted it, under the minute it
belongs to. (The view keeps the sum of these per minute; keeping rows apart says more
of a double count, and is what the proofs are about.)
Each SQL statement of `fillRollupGap` is a step (`CountView`, `CheckGap`, `FillGap`) with
live inserts, time and the end of the process in between. `FillCutOff` is an INSERT
SELECT that stored some of its minutes only. `Migrate` may fail between its
statements, so that the views are created by different starts.

## Runs

| Run | Question | Result |
|---|---|---|
| `book` | is the book always a true, complete, honestly counted replica, and does it show the newest update if the snapshots it asks for come? | holds |
| `book_replay_gap` | does a replay that meets a gap ask for another snapshot (`book.go:75-77`)? | violated |
| `batcher` | are rows stored in order, lost only to the deadline, everybody released? | holds |
| `batcher_retry` | is a retry safe (`clickhouse.go:173-174`)? | violated |
| `lifecycle` | does shutdown keep every row, and does it end if storage recovers? | holds |
| `lifecycle_hang` | does an interrupt end the process whatever storage does (`main.go:34-35`)? | violated |
| `book_feeds` | is what is shown the venue's book, what can a session be wrong about that lost nothing, do the rows replay to the book, is no good session thrown away? | holds |
| `kraken_replay` | do Kraken's rows replay to its book (`docs/DECISIONS.md:561-562`)? | violated |
| `trade_feeds` | does every trade reach sink and registry once, in order, exact; does a stream skip only what left the ring? | holds |
| `tick_queue` | are rows of the log stored at least once, copied only with cause, and does the log drain? | holds |
| `rollup` | is no row counted twice, does a seeded chart show the raw rows? | holds |
| `rollup_hole` | does the backfill seed the full history (`clickhouse.go:86-88`)? | violated |

Bounds.

- `book`: two levels, sizes {0, 1}, three updates, each handed over at most
  twice, a buffer of two, one lagging snapshot. Three updates are the least
  that allow a gap with an update after it, a replay with a hole in it, and a
  buffer that overflows; two levels let a lost update be told from an applied one.
- `batcher`: two producers of two rows, a channel of one, batches of two, one
  lost reply. Four rows fill buffer and channel and leave a producer blocked.
- `lifecycle`: one trade connector with three rows, one book connector with
  one, batches and channel of one: the least with which a connector blocks in
  `Add` while an insert is in progress.
- `book_feeds`: three bids and two asks, a Kraken window of one level a side
  (the registry keeps two), three changes of the venue's book, at most one level of
  each side per change, two missed or damaged frames. Three changes are the
  least with which a level leaves the window, is removed outside it, and would
  be wrongly brought back; two faults hit a snapshot and an update, or two sessions.
- `kraken_replay`: the same with Kraken alone and no faults.
- `trade_feeds`: Coinbase and Kraken (they differ in side convention and frame
  size; OKX parses and reconnects like Kraken), two trades each in frames of up to
  two, a ring of two, messages of one, a backoff of 1 to 2. Four trades overrun
  the ring and fill messages. `ParseFixed` is checked on all numbers of up to two
  digits 0, 2, 9 before and after the point, either sign, with one decimal and `MaxInt` =
  227, so that every limit is met on both sides (22.2 is in range, 22.9 and 29 are not),
  `FormatFixed` on every integer in range.
- `tick_queue`: three rows, one of them poison, fetches of two, two unanswered
  deliveries, two ends of the process, two lost answers. A batch then mixes a
  poison message with a good one and the ack window fills.
- `rollup`, `rollup_hole`: both views, minutes of two ticks, a lag of one minute
  (the code leaves two: what matters is that it covers lateness and scan time,
  which are one tick each), retentions of six and five ticks, which are over before the run is,
  any history of at most one row a tick in the three ticks before the first start, one
  row after, and two stops or failed migrations (one in `rollup_hole`, which needs none).
  `SeededCharts` speaks of rows older than the lag before a view's creation and still
  retained: with these retentions both views have such rows when their backfill ends.
  The theorems hold for all of these numbers, two minutes of lag among them.

### What the violations show

- `lifecycle_hang`. Storage fails (or hangs) forever. The run goroutine
  retries its batch, the channel is full, a connector is in `Add`. The
  interrupt cancels the context; `Add` does not watch it. `wg.Wait` (`main.go:281`)
  waits for the connector, the connector for the channel, and `stop` is closed
  only by the flush that comes after `wg.Wait`. `shutdownTimeout`, which
  "bounds the final sink flush so a wedged ClickHouse can't hang exit forever",
  never starts.
- `book_replay_gap`. Update 3 arrives before a snapshot, then a snapshot that
  covers update 1. The replay meets the gap, sets `synced = false`, and discards
  `Apply`'s result. The caller learns of it only if another update arrives.
- `batcher_retry`. `Insert` commits, its answer is lost, the batch is inserted
  again: its rows are stored twice.
- `kraken_replay`. A better level pushes another out of the window; `Trim` takes it
  from the book without a row, and the venue, which no longer shows it, never says
  that it is gone. Once the better levels are removed, the rows still hold it and a
  replay ranks it above the live ones.
- `rollup_hole`. Rows received in the last two minutes before the views were created
  are neither seen by the views nor seeded: an empty view is filled up to
  `now() - 2 MINUTE` only. With an older minute in the view, later backfills
  stop below that minute.

## Fairness

- Book: the replay loop runs to its end; a book that has asked for a snapshot
  eventually gets a fresh one (the contract of `Apply`, `book.go:50-53`). A book that
  is unsynced and has not asked, as after a replay that met a gap, is owed nothing, and
  `NewestUpdateShows` excepts it. Nothing is assumed of the feed: updates may never
  arrive.
- Batcher: goroutines that can step do. A select that finds a case ready again
  and again takes it in the end, since Go chooses among ready cases at random:
  strong fairness for `AddSends` and `SeeStop`. The deadline is a timer. An insert
  whose context is canceled returns. Nothing is assumed of an insert whose
  context is alive; the properties that need storage to recover say so
  (`StorageRecovers => ...`).
- Lifecycle: both batchers' fairness; once the context is canceled a session
  ends (dial and read take contexts derived from it). Nothing is assumed of venues
  or of the interrupt.
- Trade feeds: an open stream's ticker ticks. Nothing is assumed of venues,
  connectors or the sink.
- Queue: the consumer's goroutine is scheduled, an insert returns, the server
  delivers again what nobody answered. That inserts succeed needs no
  assumption of its own: failures are at most `MaxLost`, which is a bound. `LogDrains`
  asks for a consumer that keeps running.
- Rollup and book feeds: none; only safety is checked.

## Proofs

`BookEngineProofs` proves for every set of levels and sizes, every cap and
every bound: `TypeOK`, `BookIsVenueBook`, `NothingSkipped`,
`ResyncsPairWithGaps`, `ReplayGapIsReal` and that `BookEngine` implements
`BookReplica`. The invariant adds to the properties: how `truth` follows from
`stream`; that every update handed over is covered by `lastSeq`, waiting in
`pending` or `todo`, or was dropped; and that `todo` is sorted. The last is why
a gap met in a replay is real.

`BatcherProofs` proves `TypeOK`, `ExactlyOnceInOrder`, `NoRowVanishes`,
`LossNeedsDeadline`, `CleanCloseFlushed`, `InserterClosedLast` and that `Batcher`
implements `RowLog`, for every set of producers and all sizes. None of the
shutdown properties is inductive: what a clean `Close` guarantees rests on where
the run loop was when it last looked at the channel. `Phases` relates the run loop,
the stop signal and the closer; `BeforeClose` says that once the run loop is
past its last look at the channel, every row accepted before `Close` is
stored, dropped, or in the last batch; `Somewhere` places every other row.

`LifecycleProofs` proves `TypeOK`, `NoRowRefused`, `CleanExitStoresAll` and
`ConnectionClosedLast` for any number of connectors. It instantiates
`BatcherProofs` twice, as `T` for the trade batcher and `B` for the book
batcher, and never looks inside a batcher again: a batcher keeps its own
invariant whatever step is taken, accepts every row it is offered while it is
not stopped (`Unrefused`), and accepts nothing once no connector is in `Add`
(`ProceedKeeps`). What is left to prove is the order of `runConfig`:
`ConnectorsFirst` says that a connector in `Add` is reading and that none is left
once `main` flushes, `Order` which batchers have been closed and have ended when
`main` is at a given place, `NoLateRows` that what a batcher had accepted when it
was closed is all it ever accepts.

`TickQueueProofs` proves `TypeOK`, `CopiesNeedCause`, `EveryRowAccountedFor` (every row
handed to `Add` is on its way, dropped, in the stream, expired, poison or in the
table) and that `TickQueue` implements `DurableLog`, for any number of rows, any poison
messages and all limits. `CopiesNeedCause` is not inductive: `CopiesBound` adds that a
row whose copies have used up all causes is out of the stream, or about to be acked
by a consumer that still runs; `Held` says what the consumer has at each of its
steps (an insert only of rows in the stream or expired, acks only of rows in the table),
which is also what the refinement needs; `Fresh` that a row on its way to the
server is nowhere else yet.

`FixedPointProofs` proves `NumbersAreExact` for numbers of any length, any number of
decimals and any largest integer. Recursive functions over digits are handled by two
lemmas: `Recursion` (steps can be taken from any start, so the function exists) and
`FirstMissing` (a set that has 0 and is closed under the next number up to n has all of
0 .. n: induction over a set, which the provers can instantiate). From them follow the
powers of ten, the value of a concatenation (`ValueConcat`) and that reading with a
look at the limit before each digit is reading with one look at the end
(`ReadDigitsIs`). `ExactIs` then names the one integer a number can stand for: the
digits kept, padded, if those dropped are zeros.

`TradeFeedsProofs` proves `TypeOK`, `StreamSkipsNothing` and `TradesAreTrue` (with
`NumbersExact` of `FixedPointProofs`) for any venues, prices, ring,
message and frame sizes, backoff bounds and number of trades. `Ring` says that the
ring is the end of the sequence of all trades with consecutive ids; `Stream` that what
was sent, together with what was missed, is the interval from the first cursor to
the present one; `PushFacts` is the heart: what `TradesSince` returns is the run of
ids from the least unseen one, so a push extends that interval with no hole but the
ids that had left the ring. `Feeds` is the connectors' part of `TypeOK`. `TradesInv` is
why no trade is kept twice or out of order: what waits in a frame is `Genuine`, in order
and newer than all that the sink has of its venue (`Waiting`); the trades in `Add` are
the only ones the registry has and the sink has not (`ToldReached`).

`RollupProofs` proves `TypeOK`, `NeverDoubleCounted` and `SeededCharts` for any list of
views, retentions, history and bounds. A minute is any positive number of ticks:
`MinuteFacts`, `MinuteOrder` and `WholeMinutes` are the arithmetic of `StartOfMinute`.
`CountHolds` says what the answer of SELECT count() is worth by the time the insert is
issued: a view found non-empty still is, a view found empty has since taken in only
rows that came less than `MaxLate` before the count. So no row of the gap was
counted before (`GapUnseen`): it is older than the view's oldest minute, or than
anything live. `Whole` says of a view that no statement was cut off from that it was
only fed live so far (`Live`) or has all that is due (`Full`); in either case what it
lacks lies in the gap (`GapCloses`). Both rest on `Prompt`, lateness plus scan time
within the lag, which is a hypothesis of the properties and which the code takes for granted.

`BookFeedsProofs` proves `TypeOK`, `ShownIsVenueBook`, `StaleWasOvertaken`, `StoredReplays`, the
action property `NoFalseResync`, and that no snapshot replays anything
(`SnapshotReplaysNothing`), for any prices on either side, any window and depth, and all
bounds. A replay is whatever starts with the book and takes `Apply`'s steps
(`ReplayIs`, by its least counterexample), so updates behind a book change nothing, a
book that waits keeps them all, and numbered in order they lay their levels over it
(`ReplayBehind`, `ReplayBuffers`, `ReplayInOrder`). The invariant adds what a session
knows: `BookOK` (nothing waiting is newer than the last number given; a seeded book is
synced at that number), `TakenOK` (the snapshot owed is the venue's book while the
session is whole; on Coinbase it is wrong about levels in `ahead` only; on OKX its `seqId`
tells it apart), `InStep` (a whole session has the venue's book, and on OKX so has
every one whose `lastSeqID` is the venue's). The heart is
`FrameBrings`: applied to one window of Kraken's book, a frame gives the next window
once trimmed. It needs that a window short of `BookDepth` levels is the whole side
(`WindowFull`), and is why no checksum fails without cause.

Every invariant and every action property of a passing run is stated by a theorem. The
proofs assume only what the modules assume of their constants. Liveness
(`FlushesEnd`, `InterruptEnds`, `CloseReturns`, `CloseReleasesProducers`,
`RowsReachStorage`, `NewestUpdateShows`, `LogDrains`, `EverythingIsPushed`) is model-checked only: it is out of the prover's
reach, as is whatever depends on ENABLED.

## Plan

Done: the book engine, the batching sink, the lifecycle, the connectors, the numbers,
the queue, the tape and the rollups, with the proofs above. What is left, in order:

1. That `Apply`, `ApplySnapshot` and `Replay` of `BookFeeds`, which are functions, are the
   actions of `BookEngine` run to their end.
2. The polled tape (`RecentTrades`, `/api/tape`), whose cursor is a timestamp: rows past
   the limit and rows that share the cursor's timestamp are never returned.
3. The choice of a chart's bucket (`bucketFor`) above `Rollup`'s `Chart`, and the first and
   last buckets of a range that are only partly covered.
4. `Quotes` and the ladder above `BookFeeds`; the digits under Kraken's checksum.

## Not modelled

- Decoding of JSON frames beyond what it lets through: a frame decodes, or it is
  missed. Formatting, HTTP, configuration and metrics: none changes the state the
  properties speak of.
- `TableStats` and the latency and price columns of the charts: reads. The
  states a view keeps for them are fed by the inserts its count is fed by.
- The values of sizes, timestamps and trade ids: parsed like prices, or copied.
- Expiry of raw rows and of views (TTL), which the bounds of `Rollup` do not reach.
- Several symbols of one venue: a connector keeps a book and a counter for each,
  and a session that ends takes all of them with it. `BookFeeds` follows one.
- `book.go` counts in `uint64`; the counters do not wrap in the life of a process
  and are naturals here. The ladder's running total is an `int64` sum of at most
  twelve sizes.
