---------------------------- MODULE MCTradeFeeds ----------------------------
(* TradeFeeds on small instances.                                           *)
EXTENDS TradeFeeds

Digits    == {<<>>} \union UNION {[1 .. k -> {0, 2, 9}] : k \in 1 .. 2}
AllNumbers == [neg : BOOLEAN, int : Digits, frac : Digits, junk : BOOLEAN]

Num(int, frac) == [neg |-> FALSE, int |-> int, frac |-> frac, junk |-> FALSE]

(* 2.90 and one with a digit too many, .29.                                 *)
SomePrices == {Num(<<2>>, <<9, 0>>), Num(<<>>, <<2, 9>>)}
=============================================================================
