----------------------------- MODULE BookEngine -----------------------------
(***************************************************************************)
(* The L2 order book of internal/book/book.go: one venue and one symbol,   *)
(* updates applied in sequence order, gaps found by sequence number, and   *)
(* recovery by a snapshot followed by a replay of the updates buffered     *)
(* since.                                                                  *)
(*                                                                         *)
(* A Key stands for one (side, price) slot of the two maps `bids` and      *)
(* `asks`; a book is a function from keys to sizes where size 0 means the  *)
(* price is absent from its map, as it does on the wire.  The venue is the *)
(* environment: update n is stream[n], and truth[n+1] is the venue's book  *)
(* after its first n updates.  The feed may lose, repeat and reorder       *)
(* updates, and a snapshot may be older than updates already received.     *)
(*                                                                         *)
(* A Book is driven by one goroutine, so its handlers never overlap.  The  *)
(* replay loop of ApplySnapshot is one step per iteration (each iteration  *)
(* is a call of Apply); while `todo` is non-empty the book does nothing    *)
(* else, only the venue moves on.                                          *)
(*                                                                         *)
(* The definitions named Fault... are no part of the specification: each   *)
(* is the definition after it with one plausible mistake, kept to show     *)
(* that the properties below notice that mistake.                          *)
(***************************************************************************)
EXTENDS Integers, Sequences, Functions

CONSTANTS
    Key,          \* (side, price) slots
    Size,         \* sizes an update may carry; 0 clears the slot
    MaxPending,   \* maxPending: cap of the replay buffer
    MaxUpdates,   \* bound: updates the venue publishes
    MaxCopies,    \* bound: times the feed may hand over one update
    MaxLagging    \* bound: snapshots older than the venue's newest update

ASSUME SizeAssumption    == 0 \in Size /\ Size \subseteq Nat
ASSUME PendingAssumption == MaxPending \in Nat \ {0}
ASSUME BoundsAssumption  == /\ MaxUpdates \in Nat
                            /\ MaxCopies \in Nat
                            /\ MaxLagging \in Nat

VARIABLES
    stream,      \* venue: the updates published so far
    truth,       \* venue: its book before any update and after each one
    copies,      \* feed: how often update n was handed to Apply
    lagging,     \* feed: how many lagging snapshots were served
    levels,      \* Book.bids and Book.asks
    lastSeq,     \* Book.lastSeq
    synced,      \* Book.synced
    pending,     \* Book.pending (the sequence numbers of the updates)
    gaps,        \* Book.gaps
    resyncs,     \* Book.resyncs
    dropped,     \* Book.dropped
    todo,        \* the part of ApplySnapshot's sorted buffer not replayed yet
    request      \* the last result of Apply its caller has not answered yet

venueVars  == <<stream, truth>>
feedVars   == <<copies, lagging>>
engineVars == <<levels, lastSeq, synced, pending, gaps, resyncs, dropped>>
vars       == <<venueVars, feedVars, engineVars, todo, request>>

Update  == [key : Key, size : Size]
Books   == [Key -> Size]
Seqs    == 1 .. Len(stream)     \* sequence numbers in use
Idle    == todo = <<>>          \* no ApplySnapshot in progress

Init ==
    /\ stream = <<>>
    /\ truth \in {<<book>> : book \in Books}
    /\ copies = [n \in 1 .. MaxUpdates |-> 0]
    /\ lagging = 0
    /\ levels = [k \in Key |-> 0]
    /\ lastSeq = 0
    /\ synced = FALSE
    /\ pending = <<>>
    /\ gaps = 0
    /\ resyncs = 0
    /\ dropped = 0
    /\ todo = <<>>
    /\ request = FALSE

-----------------------------------------------------------------------------
(* The venue changes one level of its book and numbers the change.         *)
Publish(k, z) ==
    /\ Len(stream) < MaxUpdates
    /\ stream' = Append(stream, [key |-> k, size |-> z])
    /\ truth' = Append(truth, [truth[Len(truth)] EXCEPT ![k] = z])
    /\ UNCHANGED <<feedVars, engineVars, todo, request>>

-----------------------------------------------------------------------------
(* buffer: append to the replay buffer, dropping the oldest at the cap.    *)
Buffer(n) ==
    IF Len(pending) >= MaxPending
    THEN /\ pending' = Append(Tail(pending), n)
         /\ dropped' = dropped + 1
    ELSE /\ pending' = Append(pending, n)
         /\ UNCHANGED dropped

(* applyDelta: set or clear one level.                                     *)
ApplyDelta(u) == levels' = [levels EXCEPT ![u.key] = u.size]

(* Apply, one definition per return statement.                             *)
FaultUnsyncedForgets(n) ==   \* an update that finds the book unsynced is not kept
    /\ ~synced
    /\ UNCHANGED engineVars

ApplyUnsynced(n) ==
    /\ ~synced
    /\ Buffer(n)
    /\ UNCHANGED <<levels, lastSeq, synced, gaps, resyncs>>

FaultStaleApplied(n) ==      \* a duplicate is written into the book again
    /\ synced
    /\ n < lastSeq + 1
    /\ ApplyDelta(stream[n])
    /\ UNCHANGED <<lastSeq, synced, pending, gaps, resyncs, dropped>>

ApplyStale(n) ==
    /\ synced
    /\ n < lastSeq + 1
    /\ UNCHANGED engineVars

FaultGapApplied(n) ==        \* the update after a gap is applied all the same
    /\ synced
    /\ n > lastSeq + 1
    /\ gaps' = gaps + 1
    /\ synced' = FALSE
    /\ ApplyDelta(stream[n])
    /\ Buffer(n)
    /\ UNCHANGED <<lastSeq, resyncs>>

FaultGapStaysSynced(n) ==    \* a gap is counted, the book goes on as if synced
    /\ synced
    /\ n > lastSeq + 1
    /\ gaps' = gaps + 1
    /\ Buffer(n)
    /\ UNCHANGED <<levels, lastSeq, synced, resyncs>>

ApplyGap(n) ==
    /\ synced
    /\ n > lastSeq + 1
    /\ gaps' = gaps + 1
    /\ synced' = FALSE
    /\ Buffer(n)
    /\ UNCHANGED <<levels, lastSeq, resyncs>>

FaultNextSeq(n) ==           \* lastSeq becomes the next number expected
    /\ synced
    /\ n = lastSeq + 1
    /\ ApplyDelta(stream[n])
    /\ lastSeq' = n + 1
    /\ UNCHANGED <<synced, pending, gaps, resyncs, dropped>>

ApplyNext(n) ==
    /\ synced
    /\ n = lastSeq + 1
    /\ ApplyDelta(stream[n])
    /\ lastSeq' = n
    /\ UNCHANGED <<synced, pending, gaps, resyncs, dropped>>

Apply(n) ==
    \/ ApplyUnsynced(n)
    \/ ApplyStale(n)
    \/ ApplyGap(n)
    \/ ApplyNext(n)

(* The feed hands update n to Apply.  The result, "needs a snapshot", is    *)
(* exactly whether the book is unsynced afterwards.                         *)
Deliver(n) ==
    /\ Idle
    /\ copies[n] < MaxCopies
    /\ copies' = [copies EXCEPT ![n] = @ + 1]
    /\ Apply(n)
    /\ request' = (request \/ ~synced')
    /\ UNCHANGED <<venueVars, lagging, todo>>

-----------------------------------------------------------------------------
(* sort.Slice is not stable: any order that is sorted by sequence number.  *)
Sorted(q) == \A i, j \in DOMAIN q : i < j => q[i] <= q[j]

FaultArrivalOrder == {pending}   \* the buffer is replayed as it arrived

SortedPending ==
    {q \in {[i \in 1 .. Len(pending) |-> pending[f[i]]] :
               f \in Surjection(DOMAIN pending, DOMAIN pending)} : Sorted(q)}

(* What a snapshot resets, and when it counts as a recovery.               *)
LoadSnapshot(s) ==
    /\ levels' = truth[s + 1]
    /\ lastSeq' = s
    /\ synced' = TRUE

FaultCountSeeding ==         \* forgets that a first snapshot recovers nothing
    resyncs' = IF ~synced THEN resyncs + 1 ELSE resyncs

CountResync == resyncs' = IF ~synced /\ lastSeq # 0 THEN resyncs + 1 ELSE resyncs

(* ApplySnapshot up to its replay loop, for a snapshot taken by the venue   *)
(* after its first s updates.                                               *)
ApplySnapshot(s) ==
    /\ Idle
    /\ CountResync
    /\ LoadSnapshot(s)
    /\ todo' \in SortedPending
    /\ pending' = <<>>
    /\ request' = FALSE
    /\ UNCHANGED <<venueVars, copies, gaps, dropped>>

(* One iteration of the replay loop; the result of Apply is discarded.     *)
Replay ==
    /\ ~Idle
    /\ Apply(Head(todo))
    /\ todo' = Tail(todo)
    /\ UNCHANGED <<venueVars, feedVars, request>>

(* A snapshot that is as new as the venue's newest update.                 *)
FreshSnapshot == ApplySnapshot(Len(stream)) /\ UNCHANGED lagging

(* A snapshot older than that.  A synced book is only ever handed one that  *)
(* is not behind it: no caller asks for a snapshot it does not need, and a  *)
(* venue sends its unsolicited snapshots in stream order.                   *)
LaggingSnapshot(s) ==
    /\ lagging < MaxLagging
    /\ lagging' = lagging + 1
    /\ s < Len(stream)
    /\ synced => s >= lastSeq
    /\ ApplySnapshot(s)

Next ==
    \/ \E k \in Key, z \in Size : Publish(k, z)
    \/ \E n \in Seqs : Deliver(n)
    \/ FreshSnapshot
    \/ \E s \in 0 .. Len(stream) : LaggingSnapshot(s)
    \/ Replay

Spec == Init /\ [][Next]_vars

(* ApplySnapshot's loop runs to its end, and a snapshot that was asked for  *)
(* comes: the contract of Apply (book.go:50-53).  Nothing brings one to a   *)
(* book that has not asked, nor does the feed hand anything over again.     *)
Fairness ==
    /\ WF_vars(Replay)
    /\ WF_vars(request /\ FreshSnapshot)

FairSpec == Spec /\ Fairness

-----------------------------------------------------------------------------
TypeOK ==
    /\ stream \in Seq(Update)
    /\ truth \in Seq(Books)
    /\ Len(truth) = Len(stream) + 1
    /\ Len(stream) <= MaxUpdates
    /\ copies \in [1 .. MaxUpdates -> Nat]
    /\ lagging \in 0 .. MaxLagging
    /\ levels \in Books
    /\ lastSeq \in 0 .. Len(stream)
    /\ synced \in BOOLEAN
    /\ pending \in Seq(Seqs)
    /\ todo \in Seq(Seqs)
    /\ gaps \in Nat
    /\ resyncs \in Nat
    /\ dropped \in Nat
    /\ request \in BOOLEAN

(* A snapshot has been applied at least once: an unsynced book that never   *)
(* counted a gap is still waiting for its first one.                        *)
Seeded == synced \/ gaps > 0

(* book.go:1-6, 50-93.  From its first snapshot on, the book is at every    *)
(* moment exactly the venue's book as of lastSeq, whatever the feed loses,  *)
(* repeats or reorders: also in the middle of a replay, and also while it   *)
(* waits, unsynced, for a snapshot (it then stays frozen at lastSeq).       *)
BookIsVenueBook == Seeded => levels = truth[lastSeq + 1]

(* book.go:50-73, 89-104.  A synced book has silently passed over nothing:  *)
(* unless the replay buffer overflowed, no update handed to Apply is newer  *)
(* than lastSeq once no snapshot is being applied.                          *)
NothingSkipped ==
    (synced /\ Idle /\ dropped = 0) =>
        \A n \in Seqs : copies[n] > 0 => n <= lastSeq

(* book.go:34-36, 78-81.  A resync is only counted when it ends a gap that  *)
(* was counted: between two resyncs there is a gap, and an outstanding gap  *)
(* has not been counted as recovered.                                       *)
ResyncsPairWithGaps ==
    IF ~synced /\ gaps > 0 THEN resyncs < gaps ELSE resyncs <= gaps

(* book.go:95-104.  Because the buffer is replayed in sequence order, a     *)
(* replay counts a gap only if the next update really is missing: it was    *)
(* not among the buffered ones that are still to be replayed.               *)
ReplayGapIsReal ==
    [][(~Idle /\ gaps' > gaps) => lastSeq + 1 \notin Range(todo)]_vars

-----------------------------------------------------------------------------
(* book.go:75-77 says of ApplySnapshot: "If that replay hits its own gap    *)
(* the book goes unsynced again and asks for another snapshot."             *)
ReplayGapAsks == (Idle /\ gaps > 0 /\ ~synced) => request

(* book.go:1-6, 50-53, 89-104.  Once the venue's newest update has been     *)
(* handed to the book, synced or not, the book comes to be in sync with the *)
(* venue, though nothing is handed over again, whichever earlier updates    *)
(* were lost and however old the snapshots it got - but for the two things  *)
(* that can stop it: a buffer that overflowed, and a gap met by a replay    *)
(* after which it has not asked for a snapshot (ReplayGapAsks fails).       *)
NewestUpdateShows ==
    (Len(stream) = MaxUpdates /\ copies[MaxUpdates] > 0)
        ~> \/ synced /\ levels = truth[Len(truth)]
           \/ dropped > 0
           \/ ~ReplayGapAsks

-----------------------------------------------------------------------------
(* The promise the book keeps: a replica of the venue's book.              *)
Replica == INSTANCE BookReplica
             WITH history <- truth, view <- levels, at <- lastSeq, seeded <- Seeded

RefinesReplica == Replica!Spec
=============================================================================
