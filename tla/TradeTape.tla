------------------------------ MODULE TradeTape ------------------------------
(***************************************************************************)
(* The dashboard's tape: the trades of the live registry                   *)
(* (internal/live/registry.go) and the stream the dashboard pushes to a    *)
(* browser (internal/dashboard/server.go).  Who calls OnTrade is left to   *)
(* the module that extends this one.                                       *)
(*                                                                         *)
(* One market a venue and one browser, which may come back: streams share  *)
(* nothing but the registry.  Every method of the registry holds its lock, *)
(* so it is one step.  Quotes and ladders, which each push repeats whole,  *)
(* have no history to lose and are left out.                               *)
(***************************************************************************)
EXTENDS Integers, Sequences, SequencesExt

CONSTANTS
    Venues,     \* venues with a trade feed
    MaxRecent,  \* trades the ring holds (maxRecentTrades, 500)
    Limit,      \* trades in one message (100)
    Seed,       \* trades a new stream starts with (25)
    None        \* no trade yet

ASSUME TapeAssumption == MaxRecent \in Nat \ {0} /\ Limit \in Nat \ {0} /\ Seed \in Nat

VARIABLES
    told,         \* trades the registry was told of, in order
    trades,       \* Registry.trades: the latest of each market
    recent,       \* Registry.recent
    nextTradeID,  \* Registry.nextTradeID
    open,         \* the browser's stream is open
    cursor,       \* its cursor
    first,        \* the cursor it started with
    got,          \* what the browser was sent on it
    missed        \* ids past its cursor that had left the ring when it looked

registryVars == <<trades, recent, nextTradeID>>
streamVars   == <<open, cursor, first, got, missed>>
tapeVars     == <<told, registryVars, streamVars>>

TapeInit ==
    /\ told = <<>>
    /\ trades = [v \in Venues |-> None]
    /\ recent = <<>>
    /\ nextTradeID = 0
    /\ open = FALSE
    /\ cursor = 0 /\ first = 0
    /\ got = <<>>
    /\ missed = {}

(* What stays of a ring that has grown past MaxRecent.                     *)
Newest(r) == IF Len(r) > MaxRecent THEN SubSeq(r, Len(r) - MaxRecent + 1, Len(r)) ELSE r

(* Registry.OnTrade.                                                       *)
OnTrade(t) ==
    /\ trades' = [trades EXCEPT ![t.venue] = t]
    /\ nextTradeID' = nextTradeID + 1
    /\ recent' = Newest(Append(recent, [id |-> nextTradeID + 1, trade |-> t]))
    /\ told' = Append(told, t)
    /\ UNCHANGED streamVars

(* A browser connects: LatestTradeID, less Seed.                           *)
Open ==
    /\ ~open
    /\ open' = TRUE
    /\ cursor' = IF nextTradeID > Seed THEN nextTradeID - Seed ELSE 0
    /\ first' = cursor'
    /\ got' = <<>> /\ missed' = {}
    /\ UNCHANGED <<told, registryVars>>

(* Where the loop of TradesSince stops skipping.  The ids of the ring are   *)
(* consecutive (TypeOK), so it skips nothing after that.                   *)
Unseen == {i \in DOMAIN recent : recent[i].id > cursor}
From   == CHOOSE i \in Unseen : \A j \in Unseen : i <= j

FaultTradesSince ==      \* the newest ones when there are too many
    IF Unseen = {} THEN <<>>
    ELSE SubSeq(recent, IF Len(recent) - Limit + 1 > From THEN Len(recent) - Limit + 1
                        ELSE From, Len(recent))

FaultTradesSinceFull ==  \* a message is full one trade early
    IF Unseen = {} THEN <<>>
    ELSE SubSeq(recent, From, IF From + Limit - 2 < Len(recent) THEN From + Limit - 2
                              ELSE Len(recent))

(* TradesSince: the oldest Limit entries past the cursor ...               *)
TradesSince ==
    IF Unseen = {} THEN <<>>
    ELSE SubSeq(recent, From, IF From + Limit - 1 < Len(recent) THEN From + Limit - 1
                              ELSE Len(recent))

(* ... and the id of the last of them.                                     *)
NextCursor(out) == IF out = <<>> THEN cursor ELSE out[Len(out)].id

(* A tick of the stream.  A write that fails ends it.                      *)
Push ==
    /\ open
    /\ cursor' = NextCursor(TradesSince)
    /\ got' = got \o TradesSince
    /\ missed' = missed \union
                 {i \in cursor + 1 .. cursor' : \A k \in DOMAIN recent : i < recent[k].id}
    /\ UNCHANGED <<told, registryVars, open, first>>

Close ==
    /\ open
    /\ open' = FALSE
    /\ cursor' \in {cursor, NextCursor(TradesSince)}
    /\ UNCHANGED <<told, registryVars, first, got, missed>>

-----------------------------------------------------------------------------
(* registry.go:127-128, server.go:151-168.  While a stream is open, the     *)
(* browser was sent, in order and once, every trade between the cursor the *)
(* stream began with and its cursor now, but those that had left the ring; *)
(* and what it was sent under an id is the trade that got that id.         *)
StreamSkipsNothing ==
    open =>
        /\ \A i \in DOMAIN got : got[i].id \in DOMAIN told /\ got[i].trade = told[got[i].id]
        /\ \A i, j \in DOMAIN got : i < j => got[i].id < got[j].id
        /\ {got[i].id : i \in DOMAIN got} \intersect missed = {}
        /\ {got[i].id : i \in DOMAIN got} \union missed = first + 1 .. cursor
=============================================================================
