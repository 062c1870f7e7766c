---------------------------- MODULE BookReplica ----------------------------
(***************************************************************************)
(* What an order book promises its readers, whatever happens on the feed:  *)
(* from its first snapshot on it shows a state the venue's book really     *)
(* had; it moves forward one venue update at a time and jumps only when it *)
(* is seeded again.                                                        *)
(***************************************************************************)
EXTENDS Integers, Sequences

CONSTANTS Key, Size

VARIABLES
    history,   \* the venue's successive books, history[n+1] after n updates
    view,      \* the book shown
    at,        \* how many of the venue's updates the view includes
    seeded     \* whether a snapshot was ever applied

vars == <<history, view, at, seeded>>

Init ==
    /\ history \in {<<book>> : book \in [Key -> Size]}
    /\ view = [k \in Key |-> 0]
    /\ at = 0
    /\ seeded = FALSE

VenueMoves ==
    /\ \E k \in Key, z \in Size :
           history' = Append(history, [history[Len(history)] EXCEPT ![k] = z])
    /\ UNCHANGED <<view, at, seeded>>

Seed(n) ==
    /\ view' = history[n + 1]
    /\ at' = n
    /\ seeded' = TRUE
    /\ UNCHANGED history

Advance ==
    /\ seeded
    /\ at + 1 < Len(history)
    /\ at' = at + 1
    /\ view' = history[at + 2]
    /\ UNCHANGED <<history, seeded>>

Next ==
    \/ VenueMoves
    \/ \E n \in 0 .. Len(history) - 1 : Seed(n)
    \/ Advance

Spec == Init /\ [][Next]_vars
=============================================================================
