----------------------------- MODULE DurableLog -----------------------------
(***************************************************************************)
(* What internal/queue promises (its package comment and Consume's): a row *)
(* the log has taken is owed to storage, and it stops being owed only once *)
(* storage has it - or because nobody can read it, or because it grew too  *)
(* old.  Storage may receive it more than once.                            *)
(***************************************************************************)
EXTENDS Naturals

CONSTANTS Row, Unreadable

VARIABLES
    owed,       \* rows taken and not yet let go
    copies,     \* how often storage has received each row
    tooOld      \* rows let go for their age

vars == <<owed, copies, tooOld>>

Init == owed = {} /\ copies = [r \in Row |-> 0] /\ tooOld = {}

Take(r) == /\ owed' = owed \union {r}
           /\ UNCHANGED <<copies, tooOld>>

(* Storage receives a batch; rows may have expired while it was on its way. *)
Store(S) == /\ S \subseteq owed \union tooOld
            /\ S \intersect Unreadable = {}
            /\ copies' = [r \in Row |-> IF r \in S THEN copies[r] + 1 ELSE copies[r]]
            /\ UNCHANGED <<owed, tooOld>>

LetGo(S) == /\ S \subseteq owed
            /\ \A r \in S : r \in Unreadable \/ copies[r] > 0
            /\ owed' = owed \ S
            /\ UNCHANGED <<copies, tooOld>>

Expire(r) == /\ r \in owed
             /\ owed' = owed \ {r}
             /\ tooOld' = tooOld \union {r}
             /\ UNCHANGED copies

Next == \/ \E r \in Row : Take(r) \/ Expire(r)
        \/ \E S \in SUBSET Row : Store(S) \/ LetGo(S)

Spec == Init /\ [][Next]_vars
=============================================================================
