------------------------------ MODULE MCRollup ------------------------------
(* Rollup on small instances.                                               *)
EXTENDS Rollup

BothViews == <<"trades_1m", "book_1m">>
Retention == [trades_1m |-> 6, book_1m |-> 5]
OldRows   == {r \in Row : r[1] \in 1 .. Today}
=============================================================================
