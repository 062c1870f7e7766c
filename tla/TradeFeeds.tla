----------------------------- MODULE TradeFeeds -----------------------------
(***************************************************************************)
(* The trade connectors (internal/venue/{coinbase,kraken,okx}), their      *)
(* reconnect loops, above the parsing of their numbers, the tape they feed *)
(* and the sink that persists the trades (tradeSink in main.go).           *)
(*                                                                         *)
(* A venue numbers its trades 1, 2, ..; quoted[v][n] is the price of trade *)
(* n as it goes over the wire (the size is parsed by the same rules and    *)
(* left out).  Takers alternate between buying and selling.  A connector   *)
(* reads one frame and handles all of it before the next; other goroutines *)
(* run between the trades of one frame, and between the two calls made for *)
(* one of them: the sink's Add may block.  The context is not canceled     *)
(* (module Lifecycle is about that, and about what becomes of the rows).   *)
(***************************************************************************)
EXTENDS TradeTape, FixedPoint, FiniteSets

CONSTANTS
    Prices,      \* the numbers the venues send
    FrameMax,    \* bound: trades in a frame of Kraken or OKX
    BackoffMin, BackoffMax,
    MaxMade      \* bound: trades a venue makes

ASSUME PriceAssumption   == Prices \subseteq Numbers
ASSUME BackoffAssumption == /\ BackoffMin \in Nat \ {0} /\ BackoffMax \in Nat
                            /\ BackoffMin <= BackoffMax
ASSUME BoundsAssumption  == FrameMax \in Nat \ {0} /\ MaxMade \in Nat

VARIABLES
    quoted,   \* venue: the prices of the trades it has made
    conn,     \* the connector: dial, up, sleep
    gotData,  \* its session has received something
    backoff,
    sleep,    \* how long it sleeps
    frame,    \* trades of the last frame that are not done with
    inAdd,    \* the first of them is in the sink's Add
    kept      \* the trades the sink has taken, in order

connVars == <<conn, gotData, backoff, sleep>>
sinkVars == <<frame, inAdd, kept>>
vars     == <<tapeVars, quoted, connVars, sinkVars>>

Init ==
    /\ TapeInit
    /\ quoted = [v \in Venues |-> <<>>]
    /\ conn = [v \in Venues |-> "dial"]
    /\ gotData = [v \in Venues |-> FALSE]
    /\ backoff = [v \in Venues |-> BackoffMin]
    /\ sleep = [v \in Venues |-> 0]
    /\ frame = [v \in Venues |-> <<>>]
    /\ inAdd = [v \in Venues |-> FALSE]
    /\ kept = [v \in Venues |-> <<>>]

-----------------------------------------------------------------------------
Taker(n)  == IF n % 2 = 1 THEN "buy" ELSE "sell"
Opposite  == [buy |-> "sell", sell |-> "buy"]

(* The side field of trade n: Coinbase names the maker's side.             *)
WireSide(v, n) == IF v = "coinbase" THEN Opposite[Taker(n)] ELSE Taker(n)

(* normalize, normalizeTrade: Coinbase's side is flipped back.             *)
Normalize(v, n, w) ==
    [venue |-> v, n |-> n, price |-> ParseFixed(w),
     side |-> IF v = "coinbase" THEN Opposite[WireSide(v, n)] ELSE WireSide(v, n)]

Parses(w) == IF ParseFixed(w) = Err THEN FALSE ELSE ParseFixed(w) > 0

-----------------------------------------------------------------------------
(* A trade nobody is told of: the feed is down.                            *)
Trade(v, w) ==
    /\ conn[v] # "up"
    /\ Len(quoted[v]) < MaxMade
    /\ quoted' = [quoted EXCEPT ![v] = Append(@, w)]
    /\ UNCHANGED <<tapeVars, connVars, sinkVars>>

Reading(v) == conn[v] = "up" /\ frame[v] = <<>>

FramesOf(v) == UNION {[1 .. k -> Prices] : k \in 1 .. IF v = "coinbase" THEN 1 ELSE FrameMax}

(* A frame of new trades.  One row that does not parse loses the frame.    *)
Receive(v, ws) ==
    /\ Reading(v)
    /\ Len(quoted[v]) + Len(ws) <= MaxMade
    /\ quoted' = [quoted EXCEPT ![v] = @ \o ws]
    /\ IF \A i \in DOMAIN ws : Parses(ws[i])
       THEN /\ frame' = [frame EXCEPT ![v] =
                  [i \in DOMAIN ws |-> Normalize(v, Len(quoted[v]) + i, ws[i])]]
            /\ gotData' = [gotData EXCEPT ![v] = TRUE]
       ELSE UNCHANGED <<frame, gotData>>
    /\ UNCHANGED <<tapeVars, conn, backoff, sleep, inAdd, kept>>

(* Acks, heartbeats, pongs, and the trades from before the subscription    *)
(* that Coinbase (last_match) and Kraken (a snapshot, though asked not to) *)
(* may repeat: they count as data and are dropped.                         *)
FaultReplay(v) ==            \* a repeated trade is taken for a new one
    LET n == Len(quoted[v]) IN
    /\ Reading(v)
    /\ n > 0 /\ Parses(quoted[v][n])
    /\ frame' = [frame EXCEPT ![v] = <<Normalize(v, n, quoted[v][n])>>]
    /\ gotData' = [gotData EXCEPT ![v] = TRUE]
    /\ UNCHANGED <<tapeVars, quoted, conn, backoff, sleep, inAdd, kept>>

Replay(v) ==
    /\ Reading(v)
    /\ gotData' = [gotData EXCEPT ![v] = TRUE]
    /\ UNCHANGED <<tapeVars, quoted, conn, backoff, sleep, sinkVars>>

(* The loop over the parsed trades of a frame calls tradeSink.OnTrade: the  *)
(* registry is told ...                                                    *)
Tell(v) ==
    /\ frame[v] # <<>> /\ ~inAdd[v]
    /\ OnTrade(Head(frame[v]))
    /\ inAdd' = [inAdd EXCEPT ![v] = TRUE]
    /\ UNCHANGED <<quoted, connVars, frame, kept>>

(* ... and then the sink takes the trade.                                  *)
Keep(v) ==
    /\ inAdd[v]
    /\ kept' = [kept EXCEPT ![v] = Append(@, Head(frame[v]))]
    /\ frame' = [frame EXCEPT ![v] = Tail(@)]
    /\ inAdd' = [inAdd EXCEPT ![v] = FALSE]
    /\ UNCHANGED <<tapeVars, quoted, connVars>>

-----------------------------------------------------------------------------
(* RunWithReconnect, and Coinbase's Run.                                   *)
Subscribe(v) ==
    /\ conn[v] = "dial"
    /\ conn' = [conn EXCEPT ![v] = "up"]
    /\ gotData' = [gotData EXCEPT ![v] = FALSE]
    /\ UNCHANGED <<tapeVars, quoted, backoff, sleep, sinkVars>>

Pause(v, data) ==
    /\ conn' = [conn EXCEPT ![v] = "sleep"]
    /\ gotData' = [gotData EXCEPT ![v] = data]
    /\ backoff' = [backoff EXCEPT ![v] = IF data THEN BackoffMin ELSE @]
    /\ \E s \in 0 .. backoff'[v] - 1 : sleep' = [sleep EXCEPT ![v] = s]
    /\ UNCHANGED <<tapeVars, quoted, sinkVars>>

DialFails(v)  == conn[v] = "dial" /\ Pause(v, FALSE)
SessionEnds(v) == Reading(v) /\ Pause(v, gotData[v])

FaultDoubled(b) == 2 * b      \* not capped

Doubled(b) == IF 2 * b > BackoffMax THEN BackoffMax ELSE 2 * b

Wake(v) ==
    /\ conn[v] = "sleep"
    /\ conn' = [conn EXCEPT ![v] = "dial"]
    /\ backoff' = [backoff EXCEPT ![v] = Doubled(@)]
    /\ sleep' = [sleep EXCEPT ![v] = 0]
    /\ UNCHANGED <<tapeVars, quoted, gotData, sinkVars>>

Browser == (Open \/ Push \/ Close) /\ UNCHANGED <<quoted, connVars, sinkVars>>

Next ==
    \/ \E v \in Venues : \/ \E w \in Prices : Trade(v, w)
                         \/ \E ws \in FramesOf(v) : Receive(v, ws)
                         \/ Replay(v) \/ Tell(v) \/ Keep(v)
                         \/ Subscribe(v) \/ DialFails(v) \/ SessionEnds(v) \/ Wake(v)
    \/ Browser

Spec == Init /\ [][Next]_vars

(* The stream's ticker ticks.                                              *)
FairSpec == Spec /\ WF_vars(Push /\ UNCHANGED <<quoted, connVars, sinkVars>>)

-----------------------------------------------------------------------------
(* Types.  reconnect.go:20-22: the backoff stays within its bounds, and a   *)
(* session that received data is followed by a short pause.                *)
TypeOK ==
    /\ nextTradeID = Len(told)
    /\ Len(recent) <= MaxRecent
    /\ \A i \in DOMAIN recent : recent[i].id = nextTradeID - Len(recent) + i
    /\ cursor \in first .. nextTradeID
    /\ \A v \in Venues :
         /\ quoted[v] \in Seq(Prices) /\ Len(quoted[v]) <= MaxMade
         /\ conn[v] \in {"dial", "up", "sleep"}
         /\ frame[v] # <<>> => conn[v] = "up"
         /\ inAdd[v] \in BOOLEAN /\ (inAdd[v] => frame[v] # <<>>)
         /\ gotData[v] \in BOOLEAN
         /\ backoff[v] \in BackoffMin .. BackoffMax
         /\ sleep[v] \in 0 .. backoff[v] - 1
         /\ conn[v] = "sleep" /\ gotData[v] => sleep[v] < BackoffMin

(* fixed.go:16-22, coinbase/parse.go:42-56, main.go:69-77, DECISIONS.md D2  *)
(* and D11.  Over reconnects, repeated and dropped frames, no trade reaches *)
(* the sink or the registry twice or after a later one of its venue, and   *)
(* each has its exact price and the taker's side; what the registry was    *)
(* told is what the sink has taken, but for trades still in Add, and it    *)
(* knows the latest of each venue.                                         *)
TradesAreTrue ==
    /\ NumbersAreExact
    /\ \A v \in Venues :
         /\ \A i \in DOMAIN kept[v] :
              /\ kept[v][i].venue = v
              /\ kept[v][i].side = Taker(kept[v][i].n)
              /\ kept[v][i].price = ParseFixed(quoted[v][kept[v][i].n])
              /\ kept[v][i].price > 0
         /\ \A i, j \in DOMAIN kept[v] : i < j => kept[v][i].n < kept[v][j].n
         /\ trades[v] = IF inAdd[v] THEN Head(frame[v])
                        ELSE IF kept[v] = <<>> THEN None ELSE kept[v][Len(kept[v])]
    /\ \A i, j \in DOMAIN told : i < j /\ told[i].venue = told[j].venue => told[i].n < told[j].n
    /\ Range(told) = (UNION {Range(kept[v]) : v \in Venues})
                     \union {Head(frame[v]) : v \in {u \in Venues : inAdd[u]}}

(* server.go:132-135, 160-168.  A trade that reached the registry is pushed *)
(* to, or passed over by, every stream that stays open: full messages do   *)
(* not hold it back for ever.                                              *)
EverythingIsPushed ==
    \A n \in 1 .. MaxMade * Cardinality(Venues) :
        (open /\ nextTradeID >= n) ~> (~open \/ cursor >= n)
=============================================================================
