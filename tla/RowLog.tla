------------------------------- MODULE RowLog -------------------------------
(***************************************************************************)
(* What the batching sink promises its producers: one log.  A row that is  *)
(* accepted waits at the end of the log; from its front, groups of rows    *)
(* become durable, in order and at least once, and only after a deadline   *)
(* may groups be given up instead.                                         *)
(***************************************************************************)
EXTENDS Integers, Sequences

CONSTANT Rows

VARIABLES
    sent,      \* every row accepted
    durable,   \* the rows in storage
    waiting,   \* accepted rows that are neither durable nor given up
    given,     \* the rows given up
    expired    \* the deadline has passed

vars == <<sent, durable, waiting, given, expired>>

Init ==
    /\ sent = <<>>
    /\ durable = <<>>
    /\ waiting = <<>>
    /\ given = <<>>
    /\ expired = FALSE

Accept(r) ==
    /\ sent' = Append(sent, r)
    /\ waiting' = Append(waiting, r)
    /\ UNCHANGED <<durable, given, expired>>

Group(n) == SubSeq(waiting, 1, n)

Commit(n) == durable' = durable \o Group(n)
Leave(n)  == waiting' = SubSeq(waiting, n + 1, Len(waiting))

Persist(n) ==
    /\ Commit(n)
    /\ Leave(n)
    /\ UNCHANGED <<sent, given, expired>>

(* A group becomes durable but nobody knows: it waits to be durable again.  *)
Unconfirmed(n) ==
    /\ Commit(n)
    /\ UNCHANGED <<sent, waiting, given, expired>>

GiveUp(n) ==
    /\ expired
    /\ given' = given \o Group(n)
    /\ Leave(n)
    /\ Commit(n) \/ UNCHANGED durable
    /\ UNCHANGED <<sent, expired>>

Expire ==
    /\ expired' = TRUE
    /\ UNCHANGED <<sent, durable, waiting, given>>

Next ==
    \/ \E r \in Rows : Accept(r)
    \/ \E n \in 1 .. Len(waiting) : Persist(n) \/ Unconfirmed(n) \/ GiveUp(n)
    \/ Expire

Spec == Init /\ [][Next]_vars
=============================================================================
