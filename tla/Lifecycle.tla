----------------------------- MODULE Lifecycle -----------------------------
(***************************************************************************)
(* The life of a capture process, runConfig of cmd/tickstore/main.go, when *)
(* it persists trades and books straight to ClickHouse: a trade connector  *)
(* and a book connector per venue, each in its reconnect loop, feed two    *)
(* batchers; an interrupt cancels the context; main waits for every        *)
(* connector, flushes the trade batcher, then the book batcher, each under *)
(* its own deadline, and closes the connection they share.                 *)
(*                                                                         *)
(* The two batchers are instances of Batcher: Trades, with its own         *)
(* variables, and Books, with the b-variables.  A connector is stuck in    *)
(* Add as long as it is in that batcher's `adding`; nothing but the        *)
(* batcher can release it, the context is not watched there.               *)
(*                                                                         *)
(* The definitions named Fault... are no part of the specification: each   *)
(* is the definition after it with one plausible mistake, kept to show     *)
(* that the properties below notice that mistake.                          *)
(***************************************************************************)
EXTENDS Integers, Sequences, Functions

CONSTANTS
    TradeFeeds,      \* trade connectors
    BookFeeds,       \* book connectors
    MaxRows,         \* Config.MaxRows, shared by the two batchers
    Buffer,          \* Config.Buffer, shared by the two batchers
    MaxTrades,       \* bound: trades each trade connector receives
    MaxChanges       \* bound: level changes each book connector receives

ASSUME FeedAssumption   == TradeFeeds \intersect BookFeeds = {}
ASSUME ConfigAssumption == MaxRows \in Nat \ {0} /\ Buffer \in Nat \ {0}
ASSUME BoundAssumption  == MaxTrades \in Nat /\ MaxChanges \in Nat

VARIABLES
    offered, adding, in, buf, loop, after, stop, opCanceled, closer,
    accepted, marked, stored, lostReplies, givenUp,              \* trade batcher
    bOffered, bAdding, bIn, bBuf, bLoop, bAfter, bStop, bOpCanceled, bCloser,
    bAccepted, bMarked, bStored, bLostReplies, bGivenUp,         \* book batcher
    conn,          \* where each connector's reconnect loop is
    canceled,      \* ctx is canceled
    main           \* where runConfig is

Feeds == TradeFeeds \union BookFeeds

Trades == INSTANCE Batcher WITH Producers <- TradeFeeds, MaxOffers <- MaxTrades,
                                MaxLostReplies <- 0

Books  == INSTANCE Batcher WITH Producers <- BookFeeds, MaxOffers <- MaxChanges,
            MaxLostReplies <- 0,
            offered <- bOffered, adding <- bAdding, in <- bIn, buf <- bBuf,
            loop <- bLoop, after <- bAfter, stop <- bStop,
            opCanceled <- bOpCanceled, closer <- bCloser,
            accepted <- bAccepted, marked <- bMarked, stored <- bStored,
            lostReplies <- bLostReplies, givenUp <- bGivenUp

tradeVars == <<offered, adding, in, buf, loop, after, stop, opCanceled, closer,
               accepted, marked, stored, lostReplies, givenUp>>
bookVars  == <<bOffered, bAdding, bIn, bBuf, bLoop, bAfter, bStop, bOpCanceled,
               bCloser, bAccepted, bMarked, bStored, bLostReplies, bGivenUp>>
ownVars   == <<conn, canceled, main>>
vars      == <<tradeVars, bookVars, ownVars>>

Init ==
    /\ Trades!Init
    /\ Books!Init
    /\ conn = [c \in Feeds |-> "dialing"]
    /\ canceled = FALSE
    /\ main = "running"

-----------------------------------------------------------------------------
(* Connectors: a session, then a pause, then another session, until the     *)
(* context is canceled.                                                    *)
Connected(c) ==
    /\ conn[c] = "dialing"
    /\ conn' = [conn EXCEPT ![c] = "reading"]
    /\ UNCHANGED <<tradeVars, bookVars, canceled, main>>

(* A message is parsed on the read loop, which calls Add for its rows.      *)
Message(c) ==
    /\ conn[c] = "reading"
    /\ \/ c \in TradeFeeds /\ Trades!Add(c) /\ UNCHANGED bookVars
       \/ c \in BookFeeds  /\ Books!Add(c)  /\ UNCHANGED tradeVars
    /\ UNCHANGED ownVars

(* The dial or a read fails, or returns because ctx is canceled.            *)
SessionEnds(c) ==
    /\ conn[c] \in {"dialing", "reading"}
    /\ c \notin adding \union bAdding
    /\ conn' = [conn EXCEPT ![c] = IF canceled THEN "returned" ELSE "backoff"]
    /\ UNCHANGED <<tradeVars, bookVars, canceled, main>>

BackoffTimer(c) ==
    /\ conn[c] = "backoff"
    /\ conn' = [conn EXCEPT ![c] = "dialing"]
    /\ UNCHANGED <<tradeVars, bookVars, canceled, main>>

BackoffCanceled(c) ==
    /\ conn[c] = "backoff"
    /\ canceled
    /\ conn' = [conn EXCEPT ![c] = "returned"]
    /\ UNCHANGED <<tradeVars, bookVars, canceled, main>>

-----------------------------------------------------------------------------
(* The two batchers at work.                                               *)
TradeSink == Trades!Proceed /\ UNCHANGED <<bookVars, ownVars>>
BookSink  == Books!Proceed  /\ UNCHANGED <<tradeVars, ownVars>>

-----------------------------------------------------------------------------
(* The interrupt, and main after it.                                       *)
Interrupt ==
    /\ ~canceled
    /\ canceled' = TRUE
    /\ UNCHANGED <<tradeVars, bookVars, conn, main>>

(* wg.Wait returns and onShutdown calls Close on the trade batcher.         *)
FaultFlushOnCancel ==        \* the sinks are closed without wg.Wait
    /\ main = "running"
    /\ canceled
    /\ Trades!Close
    /\ main' = "flushTrades"
    /\ UNCHANGED <<bookVars, conn, canceled>>

AllReturned ==
    /\ main = "running"
    /\ \A c \in Feeds : conn[c] = "returned"
    /\ Trades!Close
    /\ main' = "flushTrades"
    /\ UNCHANGED <<bookVars, conn, canceled>>

(* That Close returns, with or without error, and flushBooks begins.        *)
TradesClosed ==
    /\ main = "flushTrades"
    /\ closer \in {"clean", "expired"}
    /\ Books!Close
    /\ main' = "flushBooks"
    /\ UNCHANGED <<tradeVars, conn, canceled>>

(* That one returns too; ch.Close, and runConfig ends.                      *)
FaultBooksNotAwaited ==      \* ch.Close without waiting for flushBooks
    /\ main = "flushBooks"
    /\ main' = "exited"
    /\ UNCHANGED <<tradeVars, bookVars, conn, canceled>>

BooksClosed ==
    /\ main = "flushBooks"
    /\ bCloser \in {"clean", "expired"}
    /\ main' = "exited"
    /\ UNCHANGED <<tradeVars, bookVars, conn, canceled>>

Next ==
    \/ \E c \in Feeds : \/ Connected(c)
                        \/ Message(c)
                        \/ SessionEnds(c)
                        \/ BackoffTimer(c)
                        \/ BackoffCanceled(c)
    \/ TradeSink
    \/ BookSink
    \/ Interrupt
    \/ AllReturned
    \/ TradesClosed
    \/ BooksClosed

Spec == Init /\ [][Next]_vars

(* Dials are bounded by a timeout and reads by the context, so once it is   *)
(* canceled a session ends; main's own steps are its goroutine's.  Nothing  *)
(* is assumed of the venues, of the interrupt, or of storage.               *)
Scheduling ==
    /\ Trades!Scheduling
    /\ Books!Scheduling
    /\ \A c \in Feeds : /\ SF_vars(canceled /\ SessionEnds(c))
                        /\ WF_vars(BackoffTimer(c))
                        /\ SF_vars(BackoffCanceled(c))
    /\ WF_vars(AllReturned)
    /\ WF_vars(TradesClosed)
    /\ WF_vars(BooksClosed)

FairSpec == Spec /\ Scheduling

StorageRecovers == Trades!StorageRecovers /\ Books!StorageRecovers

-----------------------------------------------------------------------------
TypeOK ==
    /\ Trades!TypeOK
    /\ Books!TypeOK
    /\ conn \in [Feeds -> {"dialing", "reading", "backoff", "returned"}]
    /\ canceled \in BOOLEAN
    /\ main \in {"running", "flushTrades", "flushBooks", "exited"}

Rows(feeds, calls) == UNION {{<<c, i>> : i \in 1 .. calls[c]} : c \in feeds}

(* main.go:281-291, batcher.go:98-106.  Because the sinks are closed only   *)
(* after every connector has returned, Add never turns a row away: once a   *)
(* sink is closing, every row its connectors received was accepted.         *)
NoRowRefused ==
    main # "running" =>
        /\ Range(accepted)  = Rows(TradeFeeds, offered)
        /\ Range(bAccepted) = Rows(BookFeeds, bOffered)

(* main.go:283-299.  If both flushes succeed, the program ends with every   *)
(* row any connector ever received in storage.                              *)
CleanExitStoresAll ==
    (main = "exited" /\ closer = "clean" /\ bCloser = "clean") =>
        /\ Range(stored)  = Rows(TradeFeeds, offered)
        /\ Range(bStored) = Rows(BookFeeds, bOffered)

(* main.go:283-299: the shared connection is closed after every     *)
(* batcher on it has finished: nobody can still insert.                     *)
ConnectionClosedLast ==
    main = "exited" => loop = "exited" /\ bLoop = "exited" /\ adding \union bAdding = {}

(* main.go:34-36, 283-299.  Once the connectors have returned, the process  *)
(* ends whatever storage does: each flush is bounded by its own deadline.   *)
FlushesEnd == main # "running" ~> main = "exited"

(* main.go:187-188, 255-301.  If storage recovers, an interrupt ends the    *)
(* process, whatever the venues do.                                         *)
InterruptEnds == StorageRecovers => (canceled ~> main = "exited")

-----------------------------------------------------------------------------
(* main.go:34-35 says of shutdownTimeout that it "bounds the final sink     *)
(* flush so a wedged ClickHouse can't hang exit forever": an interrupt ends *)
(* the process whatever storage does.  It does not: a connector blocked in  *)
(* Add keeps main in wg.Wait, before any flush and its deadline begin.      *)
ExitNeverHangs == canceled ~> main = "exited"
=============================================================================
