-------------------------- MODULE LifecycleProofs --------------------------
(***************************************************************************)
(* Proofs about Lifecycle, built on what BatcherProofs proves of each of   *)
(* its two batchers: T and B are those proofs, for the trade batcher and   *)
(* for the book batcher.                                                   *)
(***************************************************************************)
EXTENDS Lifecycle, TLAPS

USE FeedAssumption, ConfigAssumption, BoundAssumption

T == INSTANCE BatcherProofs WITH Producers <- TradeFeeds, MaxOffers <- MaxTrades,
                                 MaxLostReplies <- 0

B == INSTANCE BatcherProofs WITH Producers <- BookFeeds, MaxOffers <- MaxChanges,
       MaxLostReplies <- 0,
       offered <- bOffered, adding <- bAdding, in <- bIn, buf <- bBuf,
       loop <- bLoop, after <- bAfter, stop <- bStop,
       opCanceled <- bOpCanceled, closer <- bCloser,
       accepted <- bAccepted, marked <- bMarked, stored <- bStored,
       lostReplies <- bLostReplies, givenUp <- bGivenUp

-----------------------------------------------------------------------------
(* T and B describe the same steps as the instances Lifecycle is made of.   *)
LEMMA TradeInit == Trades!Init <=> T!Init
BY DEF Trades!Init, T!Init

LEMMA TradeAdd == ASSUME NEW c, Trades!Add(c) PROVE T!Add(c)
BY DEF Trades!Add, T!Add, Trades!closeVars, T!closeVars

LEMMA TradeClose == Trades!Close <=> T!Close
BY DEF Trades!Close, T!Close, Trades!closeUnchanged, T!closeUnchanged,
   Trades!producerVars, T!producerVars

LEMMA TradeProceed == Trades!Proceed <=> T!Proceed
BY DEF Trades!Proceed, T!Proceed, Trades!AddSends, T!AddSends,
   Trades!AddStops, T!AddStops, Trades!Row, T!Row, Trades!closeVars,
   T!closeVars, Trades!producerVars, T!producerVars, Trades!Run, T!Run,
   Trades!Receive, T!Receive, Trades!Tick, T!Tick, Trades!DrainEnds,
   T!DrainEnds, Trades!BackoffEnds, T!BackoffEnds, Trades!BackoffCanceled,
   T!BackoffCanceled, Trades!SeeStop, T!SeeStop, Trades!InsertOK,
   T!InsertOK, Trades!InsertFails, T!InsertFails, Trades!CloseFlushed,
   T!CloseFlushed, Trades!CloseDeadline, T!CloseDeadline,
   Trades!CloseGivesUp, T!CloseGivesUp, Trades!runUnchanged, T!runUnchanged,
   Trades!closeUnchanged, T!closeUnchanged, Trades!Flush, T!Flush,
   Trades!FlushReturns, T!FlushReturns, Trades!DropBatch, T!DropBatch,
   Trades!Commit, T!Commit

LEMMA TradeTypeOK == Trades!TypeOK <=> T!TypeOK
BY DEF Trades!TypeOK, T!TypeOK, Trades!Rows, T!Rows

LEMMA BookInit == Books!Init <=> B!Init
BY DEF Books!Init, B!Init

LEMMA BookAdd == ASSUME NEW c, Books!Add(c) PROVE B!Add(c)
BY DEF Books!Add, B!Add, Books!closeVars, B!closeVars

LEMMA BookClose == Books!Close <=> B!Close
BY DEF Books!Close, B!Close, Books!closeUnchanged, B!closeUnchanged,
   Books!producerVars, B!producerVars

LEMMA BookProceed == Books!Proceed <=> B!Proceed
BY DEF Books!Proceed, B!Proceed, Books!AddSends, B!AddSends, Books!AddStops,
   B!AddStops, Books!Row, B!Row, Books!closeVars, B!closeVars,
   Books!producerVars, B!producerVars, Books!Run, B!Run, Books!Receive,
   B!Receive, Books!Tick, B!Tick, Books!DrainEnds, B!DrainEnds,
   Books!BackoffEnds, B!BackoffEnds, Books!BackoffCanceled,
   B!BackoffCanceled, Books!SeeStop, B!SeeStop, Books!InsertOK, B!InsertOK,
   Books!InsertFails, B!InsertFails, Books!CloseFlushed, B!CloseFlushed,
   Books!CloseDeadline, B!CloseDeadline, Books!CloseGivesUp, B!CloseGivesUp,
   Books!runUnchanged, B!runUnchanged, Books!closeUnchanged,
   B!closeUnchanged, Books!Flush, B!Flush, Books!FlushReturns,
   B!FlushReturns, Books!DropBatch, B!DropBatch, Books!Commit, B!Commit

LEMMA BookTypeOK == Books!TypeOK <=> B!TypeOK
BY DEF Books!TypeOK, B!TypeOK, Books!Rows, B!Rows

-----------------------------------------------------------------------------
(* What main, the connectors and the two batchers each contribute.          *)
TradeGood == T!IInv /\ T!Unrefused

LEMMA TradeInitGood == T!Init => TradeGood
BY T!InitEstablishes, T!InitUnrefused DEF TradeGood

(* The steps of the other parts.                                            *)
LEMMA TradeUntouched ==
    ASSUME TradeGood, UNCHANGED tradeVars
    PROVE  TradeGood'
<1>1. UNCHANGED T!vars
  BY DEF tradeVars, T!vars, T!producerVars, T!closeVars
<1>2. T!IInv'
  BY <1>1, T!StepPreserves DEF TradeGood
<1>3. T!Unrefused'
  BY DEF TradeGood, T!Unrefused, tradeVars
<1> QED
  BY <1>2, <1>3 DEF TradeGood

(* A connector calls Add.                                                   *)
LEMMA TradeOffer ==
    ASSUME TradeGood, ~stop, NEW c \in TradeFeeds, T!Add(c)
    PROVE  TradeGood' /\ adding' = adding \union {c} /\ stop' = stop
<1>1. T!Next
  BY DEF T!Next
<1>2. T!IInv' /\ T!Unrefused'
  BY <1>1, T!StepPreserves, T!StepUnrefused DEF TradeGood
<1> QED
  BY <1>2 DEF TradeGood, T!Add, T!closeVars

(* main calls Close.                                                        *)
LEMMA TradeStop ==
    ASSUME TradeGood, ~stop, T!Close
    PROVE  /\ TradeGood' /\ stop' /\ marked' = Len(accepted')
           /\ adding' = adding
<1>1. T!Next
  BY DEF T!Next
<1>2. T!IInv' /\ T!Unrefused'
  BY <1>1, T!StepPreserves, T!StepUnrefused DEF TradeGood
<1> QED
  BY <1>2 DEF TradeGood, T!Close, T!closeUnchanged, T!producerVars

(* The batcher moves on its own, before Close or with nobody in Add.        *)
LEMMA TradeWork ==
    ASSUME TradeGood, T!Proceed, ~stop \/ adding = {}
    PROVE  /\ TradeGood' /\ stop' = stop /\ marked' = marked
           /\ adding' \subseteq adding
           /\ adding = {} => accepted' = accepted
           /\ closer \in {"clean", "expired"} => closer' = closer
<1>1. T!Next
  BY DEF T!Next
<1>2. T!IInv'
  BY <1>1, T!StepPreserves DEF TradeGood
<1>3. /\ adding' \subseteq adding
      /\ UNCHANGED <<offered, stop, marked>>
      /\ closer \in {"open", "clean", "expired"} => closer' = closer
      /\ adding = {} => accepted' = accepted
  BY T!ProceedKeeps
<1>4. T!Unrefused'
  <2>1. CASE ~stop
    BY <1>1, <2>1, T!StepUnrefused DEF TradeGood
  <2>2. CASE adding = {}
    BY <1>3, <2>2 DEF TradeGood, T!Unrefused
  <2> QED
    BY <2>1, <2>2
<1> QED
  BY <1>2, <1>3, <1>4 DEF TradeGood

(* With nobody in Add, the rows accepted are the rows offered.              *)
LEMMA TradeAccepted ==
    ASSUME TradeGood, adding = {}
    PROVE  Range(accepted) = T!OfferedRows
BY T!AcceptedIsOffered DEF TradeGood, Range, T!Range

BookGood == B!IInv /\ B!Unrefused

LEMMA BookInitGood == B!Init => BookGood
BY B!InitEstablishes, B!InitUnrefused DEF BookGood

(* The steps of the other parts.                                            *)
LEMMA BookUntouched ==
    ASSUME BookGood, UNCHANGED bookVars
    PROVE  BookGood'
<1>1. UNCHANGED B!vars
  BY DEF bookVars, B!vars, B!producerVars, B!closeVars
<1>2. B!IInv'
  BY <1>1, B!StepPreserves DEF BookGood
<1>3. B!Unrefused'
  BY DEF BookGood, B!Unrefused, bookVars
<1> QED
  BY <1>2, <1>3 DEF BookGood

(* A connector calls Add.                                                   *)
LEMMA BookOffer ==
    ASSUME BookGood, ~bStop, NEW c \in BookFeeds, B!Add(c)
    PROVE  BookGood' /\ bAdding' = bAdding \union {c} /\ bStop' = bStop
<1>1. B!Next
  BY DEF B!Next
<1>2. B!IInv' /\ B!Unrefused'
  BY <1>1, B!StepPreserves, B!StepUnrefused DEF BookGood
<1> QED
  BY <1>2 DEF BookGood, B!Add, B!closeVars

(* main calls Close.                                                        *)
LEMMA BookStop ==
    ASSUME BookGood, ~bStop, B!Close
    PROVE  /\ BookGood' /\ bStop' /\ bMarked' = Len(bAccepted')
           /\ bAdding' = bAdding
<1>1. B!Next
  BY DEF B!Next
<1>2. B!IInv' /\ B!Unrefused'
  BY <1>1, B!StepPreserves, B!StepUnrefused DEF BookGood
<1> QED
  BY <1>2 DEF BookGood, B!Close, B!closeUnchanged, B!producerVars

(* The batcher moves on its own, before Close or with nobody in Add.        *)
LEMMA BookWork ==
    ASSUME BookGood, B!Proceed, ~bStop \/ bAdding = {}
    PROVE  /\ BookGood' /\ bStop' = bStop /\ bMarked' = bMarked
           /\ bAdding' \subseteq bAdding
           /\ bAdding = {} => bAccepted' = bAccepted
           /\ bCloser \in {"clean", "expired"} => bCloser' = bCloser
<1>1. B!Next
  BY DEF B!Next
<1>2. B!IInv'
  BY <1>1, B!StepPreserves DEF BookGood
<1>3. /\ bAdding' \subseteq bAdding
      /\ UNCHANGED <<bOffered, bStop, bMarked>>
      /\ bCloser \in {"open", "clean", "expired"} => bCloser' = bCloser
      /\ bAdding = {} => bAccepted' = bAccepted
  BY B!ProceedKeeps
<1>4. B!Unrefused'
  <2>1. CASE ~bStop
    BY <1>1, <2>1, B!StepUnrefused DEF BookGood
  <2>2. CASE bAdding = {}
    BY <1>3, <2>2 DEF BookGood, B!Unrefused
  <2> QED
    BY <2>1, <2>2
<1> QED
  BY <1>2, <1>3, <1>4 DEF BookGood

(* With nobody in Add, the rows accepted are the rows offered.              *)
LEMMA BookAccepted ==
    ASSUME BookGood, bAdding = {}
    PROVE  Range(bAccepted) = B!OfferedRows
BY B!AcceptedIsOffered DEF BookGood, Range, B!Range

-----------------------------------------------------------------------------
OwnTypes ==
    /\ conn \in [Feeds -> {"dialing", "reading", "backoff", "returned"}]
    /\ canceled \in BOOLEAN
    /\ main \in {"running", "flushTrades", "flushBooks", "exited"}

(* A connector is in Add only while it reads, and gone once main flushes.   *)
ConnectorsFirst ==
    /\ \A c \in adding \union bAdding : c \in Feeds /\ conn[c] = "reading"
    /\ main # "running" => \A c \in Feeds : conn[c] = "returned"

(* How far main is tells which batchers it has closed.                      *)
Order ==
    /\ stop <=> main # "running"
    /\ bStop <=> main \in {"flushBooks", "exited"}
    /\ main \in {"flushBooks", "exited"} => closer \in {"clean", "expired"}
    /\ main = "exited" => bCloser \in {"clean", "expired"}

(* Nothing was accepted after a batcher was closed.                         *)
NoLateRows ==
    /\ stop => marked = Len(accepted)
    /\ bStop => bMarked = Len(bAccepted)

LInv ==
    /\ TradeGood
    /\ BookGood
    /\ OwnTypes
    /\ ConnectorsFirst
    /\ Order
    /\ NoLateRows

LEMMA LInvInit == Init => LInv
<1> SUFFICES ASSUME Init PROVE LInv
  OBVIOUS
<1>1. T!Init /\ B!Init
  BY TradeInit, BookInit DEF Init
<1>2. TradeGood /\ BookGood
  BY <1>1, TradeInitGood, BookInitGood
<1>3. ~stop /\ ~bStop /\ adding = {} /\ bAdding = {}
  BY <1>1 DEF T!Init, B!Init
<1>4. main = "running" /\ OwnTypes
  BY DEF Init, OwnTypes
<1> QED
  BY <1>2, <1>3, <1>4 DEF LInv, ConnectorsFirst, Order, NoLateRows

(* Once main has left the loop no connector is in Add.                      *)
LEMMA NobodyAdds == ASSUME LInv, main # "running" PROVE adding = {} /\ bAdding = {}
BY DEF LInv, ConnectorsFirst

(* The connectors' own steps leave the batchers and main alone.             *)
LEMMA ConnectorPreserves ==
    ASSUME LInv, NEW c \in Feeds,
           Connected(c) \/ SessionEnds(c) \/ BackoffTimer(c) \/ BackoffCanceled(c)
    PROVE  LInv'
<1>1. /\ UNCHANGED tradeVars /\ UNCHANGED bookVars /\ UNCHANGED <<canceled, main>>
      /\ conn[c] # "returned" /\ c \notin adding \union bAdding
      /\ \E s \in {"dialing", "reading", "backoff", "returned"} :
            conn' = [conn EXCEPT ![c] = s]
  <2>1. conn[c] # "reading" => c \notin adding \union bAdding
    BY DEF LInv, ConnectorsFirst
  <2> QED
    BY <2>1 DEF Connected, SessionEnds, BackoffTimer, BackoffCanceled
<1>2. TradeGood' /\ BookGood'
  BY <1>1, TradeUntouched, BookUntouched DEF LInv
<1>3. OwnTypes'
  BY <1>1 DEF LInv, OwnTypes
<1>4. ConnectorsFirst'
  BY <1>1 DEF LInv, OwnTypes, ConnectorsFirst, tradeVars, bookVars
<1>5. Order' /\ NoLateRows'
  BY <1>1 DEF LInv, Order, NoLateRows, tradeVars, bookVars
<1> QED
  BY <1>2, <1>3, <1>4, <1>5 DEF LInv

LEMMA MessagePreserves ==
    ASSUME LInv, NEW c \in Feeds, Message(c)
    PROVE  LInv'
<1>1. conn[c] = "reading" /\ UNCHANGED <<conn, canceled, main>>
  BY DEF Message, ownVars
<1>2. main = "running" /\ ~stop /\ ~bStop
  BY <1>1 DEF LInv, ConnectorsFirst, Order, OwnTypes
<1>3. OwnTypes'
  BY <1>1 DEF LInv, OwnTypes
<1>4. CASE c \in TradeFeeds /\ Trades!Add(c) /\ UNCHANGED bookVars
  <2>1. TradeGood' /\ adding' = adding \union {c} /\ stop' = stop
    BY <1>2, <1>4, TradeAdd, TradeOffer DEF LInv
  <2>2. BookGood'
    BY <1>4, BookUntouched DEF LInv
  <2>3. ConnectorsFirst'
    BY <1>1, <1>2, <1>4, <2>1 DEF LInv, ConnectorsFirst, bookVars
  <2>4. Order' /\ NoLateRows'
    BY <1>1, <1>2, <1>4, <2>1 DEF LInv, Order, NoLateRows, bookVars
  <2> QED
    BY <1>3, <2>1, <2>2, <2>3, <2>4 DEF LInv
<1>5. CASE c \in BookFeeds /\ Books!Add(c) /\ UNCHANGED tradeVars
  <2>1. BookGood' /\ bAdding' = bAdding \union {c} /\ bStop' = bStop
    BY <1>2, <1>5, BookAdd, BookOffer DEF LInv
  <2>2. TradeGood'
    BY <1>5, TradeUntouched DEF LInv
  <2>3. ConnectorsFirst'
    BY <1>1, <1>2, <1>5, <2>1 DEF LInv, ConnectorsFirst, tradeVars
  <2>4. Order' /\ NoLateRows'
    BY <1>1, <1>2, <1>5, <2>1 DEF LInv, Order, NoLateRows, tradeVars
  <2> QED
    BY <1>3, <2>1, <2>2, <2>3, <2>4 DEF LInv
<1> QED
  BY <1>4, <1>5 DEF Message

LEMMA SinkPreserves ==
    ASSUME LInv, TradeSink \/ BookSink
    PROVE  LInv'
<1>1. UNCHANGED <<conn, canceled, main>> /\ OwnTypes'
  BY DEF TradeSink, BookSink, ownVars, LInv, OwnTypes
<1>2. /\ ~stop \/ adding = {}
      /\ ~bStop \/ bAdding = {}
  BY NobodyAdds DEF LInv, Order
<1>3. CASE TradeSink
  <2>1. T!Proceed /\ UNCHANGED bookVars
    BY <1>3, TradeProceed DEF TradeSink
  <2>2. /\ TradeGood' /\ stop' = stop /\ marked' = marked /\ adding' \subseteq adding
        /\ adding = {} => accepted' = accepted
        /\ closer \in {"clean", "expired"} => closer' = closer
    BY <1>2, <2>1, TradeWork DEF LInv
  <2>3. BookGood'
    BY <2>1, BookUntouched DEF LInv
  <2>4. ConnectorsFirst'
    BY <1>1, <2>1, <2>2 DEF LInv, ConnectorsFirst, bookVars
  <2>5. Order' /\ NoLateRows'
    BY <1>1, <1>2, <2>1, <2>2 DEF LInv, Order, NoLateRows, bookVars
  <2> QED
    BY <1>1, <2>2, <2>3, <2>4, <2>5 DEF LInv
<1>4. CASE BookSink
  <2>1. B!Proceed /\ UNCHANGED tradeVars
    BY <1>4, BookProceed DEF BookSink
  <2>2. /\ BookGood' /\ bStop' = bStop /\ bMarked' = bMarked /\ bAdding' \subseteq bAdding
        /\ bAdding = {} => bAccepted' = bAccepted
        /\ bCloser \in {"clean", "expired"} => bCloser' = bCloser
    BY <1>2, <2>1, BookWork DEF LInv
  <2>3. TradeGood'
    BY <2>1, TradeUntouched DEF LInv
  <2>4. ConnectorsFirst'
    BY <1>1, <2>1, <2>2 DEF LInv, ConnectorsFirst, tradeVars
  <2>5. Order' /\ NoLateRows'
    BY <1>1, <1>2, <2>1, <2>2 DEF LInv, Order, NoLateRows, tradeVars
  <2> QED
    BY <1>1, <2>2, <2>3, <2>4, <2>5 DEF LInv
<1> QED
  BY <1>3, <1>4

LEMMA InterruptPreserves ==
    ASSUME LInv, Interrupt \/ BooksClosed
    PROVE  LInv'
<1>1. UNCHANGED tradeVars /\ UNCHANGED bookVars /\ conn' = conn
  BY DEF Interrupt, BooksClosed
<1>2. TradeGood' /\ BookGood'
  BY <1>1, TradeUntouched, BookUntouched DEF LInv
<1>3. OwnTypes'
  BY <1>1 DEF LInv, OwnTypes, Interrupt, BooksClosed
<1>4. ConnectorsFirst' /\ Order' /\ NoLateRows'
  BY <1>1 DEF LInv, ConnectorsFirst, Order, NoLateRows, Interrupt, BooksClosed,
     tradeVars, bookVars
<1> QED
  BY <1>2, <1>3, <1>4 DEF LInv

LEMMA AllReturnedPreserves ==
    ASSUME LInv, AllReturned
    PROVE  LInv'
<1>1. /\ T!Close /\ UNCHANGED bookVars /\ UNCHANGED <<conn, canceled>>
      /\ main = "running" /\ main' = "flushTrades" /\ \A c \in Feeds : conn[c] = "returned"
  BY TradeClose DEF AllReturned
<1>2. TradeGood' /\ stop' /\ marked' = Len(accepted') /\ adding' = adding
  BY <1>1, TradeStop DEF LInv, Order
<1>3. BookGood' /\ OwnTypes'
  BY <1>1, BookUntouched DEF LInv, OwnTypes
<1>4. ConnectorsFirst' /\ Order' /\ NoLateRows'
  BY <1>1, <1>2 DEF LInv, ConnectorsFirst, Order, NoLateRows, bookVars
<1> QED
  BY <1>2, <1>3, <1>4 DEF LInv

LEMMA TradesClosedPreserves ==
    ASSUME LInv, TradesClosed
    PROVE  LInv'
<1>1. /\ B!Close /\ UNCHANGED tradeVars /\ UNCHANGED <<conn, canceled>>
      /\ main = "flushTrades" /\ main' = "flushBooks"
      /\ closer \in {"clean", "expired"}
  BY BookClose DEF TradesClosed
<1>2. BookGood' /\ bStop' /\ bMarked' = Len(bAccepted') /\ bAdding' = bAdding
  BY <1>1, BookStop DEF LInv, Order
<1>3. TradeGood' /\ OwnTypes'
  BY <1>1, TradeUntouched DEF LInv, OwnTypes
<1>4. ConnectorsFirst' /\ Order' /\ NoLateRows'
  BY <1>1, <1>2 DEF LInv, ConnectorsFirst, Order, NoLateRows, tradeVars
<1> QED
  BY <1>2, <1>3, <1>4 DEF LInv

LEMMA LInvStep == LInv /\ [Next]_vars => LInv'
<1> SUFFICES ASSUME LInv, [Next]_vars PROVE LInv'
  OBVIOUS
<1>1. CASE \E c \in Feeds : \/ Connected(c) \/ Message(c) \/ SessionEnds(c)
                            \/ BackoffTimer(c) \/ BackoffCanceled(c)
  BY <1>1, ConnectorPreserves, MessagePreserves
<1>2. CASE TradeSink \/ BookSink
  BY <1>2, SinkPreserves
<1>3. CASE Interrupt \/ BooksClosed
  BY <1>3, InterruptPreserves
<1>4. CASE AllReturned
  BY <1>4, AllReturnedPreserves
<1>5. CASE TradesClosed
  BY <1>5, TradesClosedPreserves
<1>6. CASE UNCHANGED vars
  <2>1. UNCHANGED tradeVars /\ UNCHANGED bookVars /\ UNCHANGED ownVars
    BY <1>6 DEF vars
  <2>2. TradeGood' /\ BookGood'
    BY <2>1, TradeUntouched, BookUntouched DEF LInv
  <2> QED
    BY <2>1, <2>2 DEF LInv, OwnTypes, ConnectorsFirst, Order, NoLateRows,
       tradeVars, bookVars, ownVars
<1> QED
  BY <1>1, <1>2, <1>3, <1>4, <1>5, <1>6 DEF Next

THEOREM LifecycleInvariance == Spec => []LInv
<1> QED
  BY LInvInit, LInvStep, PTL DEF Spec

-----------------------------------------------------------------------------
(* Every state is made of the values Lifecycle declares for it.             *)
THEOREM LifecycleTypes == Spec => []TypeOK
<1>1. LInv => TypeOK
  BY TradeTypeOK, BookTypeOK
     DEF LInv, TradeGood, BookGood, OwnTypes, TypeOK, T!IInv, B!IInv
<1> QED
  BY <1>1, LifecycleInvariance, PTL

(* main.go:281-291, batcher.go:98-106.  However many connectors there are   *)
(* and wherever the interrupt finds them, no sink turns a row away.         *)
THEOREM NoRowIsRefused == Spec => []NoRowRefused
<1>1. LInv => NoRowRefused
  <2> SUFFICES ASSUME LInv, main # "running"
               PROVE  /\ Range(accepted)  = Rows(TradeFeeds, offered)
                      /\ Range(bAccepted) = Rows(BookFeeds, bOffered)
    BY DEF NoRowRefused
  <2>1. adding = {} /\ bAdding = {}
    BY NobodyAdds
  <2>2. Range(accepted) = T!OfferedRows /\ Range(bAccepted) = B!OfferedRows
    BY <2>1, TradeAccepted, BookAccepted DEF LInv
  <2> QED
    BY <2>2 DEF T!OfferedRows, B!OfferedRows, Rows
<1> QED
  BY <1>1, LifecycleInvariance, PTL

(* main.go:283-299.  A process that ends with both flushes successful has   *)
(* stored the rows it ever received, and only those.                        *)
THEOREM CleanExitIsComplete == Spec => []CleanExitStoresAll
<1>1. LInv => CleanExitStoresAll
  <2> SUFFICES ASSUME LInv, main = "exited", closer = "clean", bCloser = "clean"
               PROVE  /\ Range(stored)  = Rows(TradeFeeds, offered)
                      /\ Range(bStored) = Rows(BookFeeds, bOffered)
    BY DEF CleanExitStoresAll
  <2>1. adding = {} /\ bAdding = {}
    BY NobodyAdds
  <2>2. marked = Len(accepted) /\ bMarked = Len(bAccepted)
    BY DEF LInv, Order, NoLateRows
  <2>3. T!IInv /\ T!Unrefused /\ B!IInv /\ B!Unrefused
    BY DEF LInv, TradeGood, BookGood
  <2>4. lostReplies = 0 /\ bLostReplies = 0
    BY <2>3 DEF T!IInv, T!TypeOK, B!IInv, B!TypeOK
  <2>5. Range(stored) = Range(accepted) /\ Range(bStored) = Range(bAccepted)
    BY <2>2, <2>3, <2>4, T!CleanStoresAccepted, B!CleanStoresAccepted
       DEF Range, T!Range, B!Range
  <2>6. Range(accepted) = T!OfferedRows /\ Range(bAccepted) = B!OfferedRows
    BY <2>1, TradeAccepted, BookAccepted DEF LInv
  <2> QED
    BY <2>5, <2>6 DEF T!OfferedRows, B!OfferedRows, Rows
<1> QED
  BY <1>1, LifecycleInvariance, PTL

(* main.go:283-299.  Nobody is left to use the connection main closes.      *)
THEOREM ConnectionIsClosedLast == Spec => []ConnectionClosedLast
<1>1. LInv => ConnectionClosedLast
  <2> SUFFICES ASSUME LInv, main = "exited"
               PROVE  loop = "exited" /\ bLoop = "exited" /\ adding \union bAdding = {}
    BY DEF ConnectionClosedLast
  <2>1. adding = {} /\ bAdding = {}
    BY NobodyAdds
  <2>2. loop = "exited" /\ bLoop = "exited"
    BY DEF LInv, Order, TradeGood, BookGood, T!IInv, B!IInv, T!Phases, B!Phases
  <2> QED
    BY <2>1, <2>2
<1> QED
  BY <1>1, LifecycleInvariance, PTL
=============================================================================
