------------------------------ MODULE BookFeeds ------------------------------
(***************************************************************************)
(* The three book connectors (internal/venue/{coinbase,kraken,okx}/book.go) *)
(* with the order book each of them drives (internal/book), the rows they  *)
(* persist (internal/venue/book.go) and the state the live registry shows  *)
(* (OnBook in internal/live/registry.go).  Init picks the venue; one       *)
(* symbol, session after session.                                          *)
(*                                                                         *)
(* A level is a price; the bids lie below the asks, so a book is one       *)
(* function from levels to sizes, 0 where there is no level.  The venue is *)
(* external: it owes every session one snapshot, taken when the connector  *)
(* subscribed, and sends a frame for every change of what it shows - all   *)
(* of its book, or on Kraken the best BookDepth levels a side.  A level    *)
(* that newcomers push out of that window is not in the frame (that is     *)
(* what Trim is for).  A frame is handled as it is sent, or is missed: lost *)
(* on the way, or skipped because it does not decode.                      *)
(***************************************************************************)
EXTENDS Integers, FiniteSets, Sequences, SequencesExt

CONSTANTS
    Venues,     \* the connectors to look at
    Bid, Ask,   \* prices of the two sides
    Start,      \* those the venue's book has at first
    BookDepth,  \* levels a side Kraken is asked for (10)
    ShowDepth,  \* levels a side the registry keeps (depthLevels, 12)
    None,       \* no snapshot owed; nothing shown yet
    MaxMoves,   \* bound: changes of the venue's book
    MaxFaults   \* bound: frames missed or damaged

Level == Bid \union Ask
Size  == 0 .. 1

ASSUME VenueAssumption  == Venues \subseteq {"coinbase", "kraken", "okx"}
ASSUME LevelAssumption  == Level \subseteq Int /\ IsFiniteSet(Level) /\ (\A b \in Bid, a \in Ask : b < a)
                           /\ Start \subseteq Level /\ Start \intersect Bid # {} /\ Start \intersect Ask # {}
ASSUME DepthAssumption  == BookDepth \in Nat \ {0} /\ ShowDepth \in Nat /\ ShowDepth >= BookDepth
ASSUME NoneAssumption   == None \notin [levels : [Level -> Size], seqID : Nat]
ASSUME BoundsAssumption == MaxMoves \in Nat /\ MaxFaults \in Nat

VARIABLES
    venue,      \* the connector this is about
    truth,      \* venue: its book
    seqID,      \* venue: OKX's seqId
    moves,
    taken,      \* venue: the snapshot it owes this session
    up,         \* a session is running
    book,       \* its book.Book
    seq,        \* its seqBook.seq (OKX: engineSeq)
    lastSeqID,  \* OKX: seqBook.lastSeqID
    seeded,     \* OKX: seqBook.seeded
    known,      \* Kraken: the pair's precisions have arrived
    complete,   \* the session has missed no frame
    ahead,      \* levels changed by the updates it handled before its snapshot
    gaps,       \* metrics.Gaps
    stored,     \* the book the persisted rows replay to
    shown,      \* the registry's entry, with what the venue showed just then
    faults

venueVars   == <<truth, seqID, moves>>
sessionVars == <<taken, up, book, seq, lastSeqID, seeded, known, complete, ahead>>
vars        == <<venue, venueVars, sessionVars, gaps, stored, shown, faults>>

Books   == {b \in [Level -> Size] : \A side \in {Bid, Ask} : \E l \in side : b[l] > 0}
Empty   == [l \in Level |-> 0]
NewBook == [levels |-> Empty, lastSeq |-> 0, synced |-> FALSE, pending |-> <<>>, gaps |-> 0]

Init ==
    /\ venue \in Venues
    /\ truth = [l \in Level |-> IF l \in Start THEN 1 ELSE 0]
    /\ seqID = 0 /\ moves = 0
    /\ taken = None /\ up = FALSE
    /\ book = NewBook /\ seq = 0
    /\ lastSeqID = 0 /\ seeded = FALSE
    /\ known = FALSE
    /\ complete = FALSE /\ ahead = {}
    /\ gaps = 0
    /\ stored = Empty
    /\ shown = None
    /\ faults = 0

-----------------------------------------------------------------------------
(* Package book.  Apply (updates come in sequence order, so the sort of the *)
(* replay buffer changes nothing, and its cap is out of reach) ...         *)
Apply(b, u) ==
    IF ~b.synced THEN [b EXCEPT !.pending = Append(@, u)]
    ELSE IF u.seq < b.lastSeq + 1 THEN b
    ELSE IF u.seq > b.lastSeq + 1
         THEN [b EXCEPT !.gaps = @ + 1, !.synced = FALSE, !.pending = Append(@, u)]
         ELSE [b EXCEPT !.levels[u.level] = u.size, !.lastSeq = u.seq]

(* (one update after the other) ...                                        *)
Replay(b, us) ==
    LET after[i \in 0 .. Len(us)] == IF i = 0 THEN b ELSE Apply(after[i - 1], us[i])
    IN  after[Len(us)]

ApplySnapshot(b, levels, n) ==
    Replay([b EXCEPT !.levels = levels, !.lastSeq = n, !.synced = TRUE, !.pending = <<>>],
           b.pending)

(* ... Depth: the best n levels of a side (highest bids, lowest asks) ...  *)
Ahead(b, l) == IF l \in Bid THEN {m \in Bid : m > l /\ b[m] > 0}
                            ELSE {m \in Ask : m < l /\ b[m] > 0}

Depth(b, n) == [l \in Level |-> IF Cardinality(Ahead(b, l)) < n THEN b[l] ELSE 0]

FaultTrim(b) == b              \* levels that left the window linger

(* ... and Trim, which only Kraken's connector calls.                      *)
Trim(b) == IF venue = "kraken" THEN [b EXCEPT !.levels = Depth(@, BookDepth)] ELSE b

-----------------------------------------------------------------------------
(* What the venue shows of a book t, and the levels in the frame that takes *)
(* it there.                                                               *)
View(t) == IF venue = "kraken" THEN Depth(t, BookDepth) ELSE t

Changed(t) == {l \in Level : /\ View(t)[l] # View(truth)[l]
                             /\ View(t)[l] = 0 => t[l] = 0}

(* At most one level of each side changes at a time.                       *)
Near == {t \in Books : \A side \in {Bid, Ask} : Cardinality({l \in side : t[l] # truth[l]}) <= 1}

VenueMoves(t) ==
    /\ moves < MaxMoves
    /\ moves' = moves + 1
    /\ truth' = t
    /\ seqID' = IF venue = "okx" /\ t # truth THEN seqID + 1 ELSE seqID

(* A frame for this change (OKX also sends frames that change nothing).    *)
Frame(t) == /\ up
            /\ VenueMoves(t)
            /\ Changed(t) # {} \/ venue = "okx"

(* No frame: nobody listens, or the change is outside the window.          *)
Unseen(t) ==
    /\ t # truth
    /\ VenueMoves(t)
    /\ ~up \/ Changed(t) = {}
    /\ UNCHANGED <<venue, sessionVars, gaps, stored, shown, faults>>

(* An update may come while the snapshot is still owed.                    *)
Overtakes(t) == ahead' = IF taken = None THEN ahead ELSE ahead \union Changed(t)

(* The session has handled every frame, the snapshot first.                *)
Whole == complete /\ ahead = {}

Fault == faults < MaxFaults /\ faults' = faults + 1

-----------------------------------------------------------------------------
(* Sessions.  A new one has new books; the registry keeps the last state.  *)
Subscribe ==
    /\ ~up
    /\ up' = TRUE
    /\ taken' = [levels |-> View(truth), seqID |-> seqID]
    /\ complete' = TRUE
    /\ UNCHANGED <<venue, venueVars, book, seq, lastSeqID, seeded, known, ahead,
                   gaps, stored, shown, faults>>

EndSession ==
    /\ up' = FALSE /\ taken' = None
    /\ book' = NewBook /\ seq' = 0
    /\ lastSeqID' = 0 /\ seeded' = FALSE
    /\ known' = FALSE /\ complete' = FALSE /\ ahead' = {}

FaultDisconnect ==             \* the next session goes on with this one's books
    /\ up
    /\ up' = FALSE /\ taken' = None
    /\ UNCHANGED <<venue, venueVars, book, seq, lastSeqID, seeded, known, complete, ahead,
                   gaps, stored, shown, faults>>

Disconnect ==                  \* a read, ping or venue error
    /\ up
    /\ EndSession
    /\ UNCHANGED <<venue, venueVars, gaps, stored, shown, faults>>

(* Kraken's instrument frame.                                              *)
Instrument ==
    /\ up /\ venue = "kraken" /\ ~known
    /\ known' = TRUE
    /\ UNCHANGED <<venue, venueVars, taken, up, book, seq, lastSeqID, seeded, complete, ahead,
                   gaps, stored, shown, faults>>

(* A frame that never reaches applyBook or dispatch.                       *)
Missed(t) ==
    /\ Frame(t) /\ Changed(t) # {}
    /\ Fault
    /\ complete' = FALSE
    /\ UNCHANGED <<venue, taken, up, book, seq, lastSeqID, seeded, known, ahead,
                   gaps, stored, shown>>

MissedSnapshot ==
    /\ taken # None
    /\ Fault
    /\ taken' = None
    /\ complete' = FALSE
    /\ UNCHANGED <<venue, venueVars, up, book, seq, lastSeqID, seeded, known, ahead,
                   gaps, stored, shown>>

-----------------------------------------------------------------------------
(* The end of applyBook and dispatch, given the frame's book: Kraken trims *)
(* and, once it knows the precisions, compares checksums; then the observer *)
(* is told.                                                                *)
Mismatch(b, view) == known /\ Depth(b.levels, BookDepth) # view

OnBook(b, view) ==
    shown' = [levels |-> Depth(b.levels, ShowDepth), synced |-> b.synced,
              view |-> Depth(view, ShowDepth), checked |-> known, whole |-> Whole']

Applied(b, view) ==
    /\ book' = b
    /\ OnBook(b, view)
    /\ UNCHANGED <<up, known, gaps>>

Resync ==
    /\ EndSession
    /\ gaps' = gaps + 1
    /\ UNCHANGED shown

EmitSnapshot == stored' = taken.levels

Snapshot ==
    LET b == Trim(ApplySnapshot(book, taken.levels, seq + 1)) IN
    /\ taken # None
    /\ EmitSnapshot
    /\ IF Mismatch(b, taken.levels)
       THEN Resync
       ELSE /\ taken' = None
            /\ seq' = seq + 1
            /\ lastSeqID' = taken.seqID
            /\ seeded' = TRUE
            /\ UNCHANGED <<complete, ahead>>
            /\ Applied(b, taken.levels)
    /\ UNCHANGED <<venue, venueVars, faults>>

(* A level of the snapshot does not parse: Coinbase skips the frame (that  *)
(* is MissedSnapshot), the others start over.                              *)
BadSnapshot ==
    /\ taken # None /\ venue # "coinbase"
    /\ Fault
    /\ EndSession
    /\ UNCHANGED <<venue, venueVars, gaps, stored, shown>>

(* The updates numbered for levels L of the frame (each a level of its own, *)
(* so their order does not matter), and what the book and the rows become. *)
FaultNumbered(L, t) ==         \* one number for the whole frame
    LET s == SetToSeq(L)
    IN  [i \in DOMAIN s |-> [seq |-> seq + 1, level |-> s[i], size |-> View(t)[s[i]]]]

Numbered(L, t) ==
    LET s == SetToSeq(L)
    IN  [i \in DOMAIN s |-> [seq |-> seq + i, level |-> s[i], size |-> View(t)[s[i]]]]

ApplyChanges(L, t) == Trim(Replay(book, Numbered(L, t)))

Emit(L, t) == stored' = [l \in Level |-> IF l \in L THEN View(t)[l] ELSE stored[l]]

FaultContiguous == seeded      \* prevSeqId is not looked at

(* OKX: prevSeqId, the venue's seqId before the frame, is the one we have. *)
Contiguous == seeded /\ seqID = lastSeqID

Update(t) ==
    LET b == ApplyChanges(Changed(t), t) IN
    /\ Frame(t)
    /\ IF venue = "okx" /\ ~Contiguous
       THEN Resync /\ UNCHANGED stored
       ELSE /\ Emit(Changed(t), t)
            /\ \/ /\ ~Mismatch(b, View(t))
                  /\ seq' = seq + Cardinality(Changed(t))
                  /\ lastSeqID' = IF venue = "okx" THEN seqID' ELSE lastSeqID
                  /\ Overtakes(t)
                  /\ UNCHANGED <<taken, seeded, complete>>
                  /\ Applied(b, View(t))
               \/ Mismatch(b, View(t)) /\ Resync
    /\ UNCHANGED <<venue, faults>>

(* A level of an update does not parse, again fatal but for Coinbase: the  *)
(* levels L before it (Kraken), or the side before its side (OKX), have    *)
(* been applied and persisted.                                             *)
BeforeTheBad(t) ==
    IF venue = "kraken"
    THEN {L \in SUBSET Changed(t) : /\ L # Changed(t)
                                    /\ L \intersect Ask # {} => Changed(t) \intersect Bid \subseteq L}
    ELSE {Changed(t) \intersect side : side \in {{}, Bid}} \ {Changed(t)}

BadUpdate(t) ==
    /\ Frame(t) /\ venue # "coinbase"
    /\ venue = "okx" => Contiguous
    /\ Fault
    /\ \E L \in BeforeTheBad(t) : Emit(L, t)
    /\ EndSession
    /\ UNCHANGED <<venue, gaps, shown>>

Next ==
    \/ \E t \in Near : Unseen(t) \/ Missed(t) \/ Update(t) \/ BadUpdate(t)
    \/ Subscribe \/ Disconnect \/ Instrument
    \/ Snapshot \/ MissedSnapshot \/ BadSnapshot

Spec == Init /\ [][Next]_vars

-----------------------------------------------------------------------------
(* Types; a session that is not running has left nothing for the next one. *)
TypeOK ==
    /\ venue \in Venues
    /\ truth \in Books
    /\ seqID \in 0 .. moves /\ moves \in 0 .. MaxMoves
    /\ taken \in [levels : Books, seqID : 0 .. moves] \union {None}
    /\ up \in BOOLEAN
    /\ book.levels \in [Level -> Size] /\ book.synced \in BOOLEAN
    /\ book.lastSeq \in 0 .. seq /\ seq \in Nat
    /\ lastSeqID \in 0 .. seqID
    /\ {seeded, known, complete} \subseteq BOOLEAN /\ ahead \subseteq Level
    /\ ~up => book = NewBook /\ seq = 0 /\ taken = None /\ ~seeded /\ ~known /\ ~complete
    /\ gaps \in Nat
    /\ stored \in [Level -> Size]
    /\ shown # None => {shown.levels, shown.view} \subseteq [Level -> Size]
    /\ faults \in 0 .. MaxFaults

(* okx/book.go:27-30, kraken/book.go:36-39, coinbase/book.go:31-34.  A book *)
(* shown as synced is the venue's: on OKX always, on Kraken whenever the    *)
(* checksum could be compared, and everywhere (on Coinbase that is all      *)
(* there is) while the session has missed no frame and none came before    *)
(* its snapshot - over sessions, damaged frames and a window that levels   *)
(* leave and come back to.                                                 *)
ShownIsVenueBook ==
    /\ shown # None
    /\ shown.synced
    /\ venue = "okx" \/ shown.checked \/ shown.whole
    => shown.levels = shown.view

(* coinbase/book.go:163-164 says of updates that come before the snapshot: *)
(* "buffer them so the engine replays them once the snapshot arrives".  It *)
(* does not: the snapshot is numbered after them, so they are dropped as    *)
(* stale.  Nothing else goes wrong: in a Coinbase session that has missed  *)
(* no frame, whatever the order they come in, each level that differs from *)
(* the venue's is one that such an update changed.                         *)
StaleWasOvertaken ==
    venue = "coinbase" /\ complete /\ book.synced =>
        \A l \in Level : book.levels[l] # truth[l] => l \in ahead

(* kraken/book.go:205-207, okx/book.go:72-74.  Integrity checks raise no    *)
(* false alarm: a session that has missed nothing is never given up for a  *)
(* mismatch or a gap, unless an update came before its snapshot (this very *)
(* frame, or an earlier one).                                              *)
NoFalseResync ==
    [][gaps' # gaps => ~Whole \/ (taken # None /\ moves' # moves)]_vars

(* The rows persisted so far replay to the very book the connector holds   *)
(* (of which Kraken's is the best BookDepth levels).                       *)
StreamReplays == book.synced => View(stored) = book.levels

(* coinbase/book.go:31-34, DECISIONS.md:561-562.  On Coinbase and OKX that  *)
(* is so after every frame, and no update the connector numbers looks like *)
(* a gap or a duplicate to the engine.                                     *)
StoredReplays ==
    /\ venue # "kraken" => StreamReplays
    /\ book.gaps = 0
    /\ book.synced => book.lastSeq = seq
=============================================================================
