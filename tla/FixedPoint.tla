----------------------------- MODULE FixedPoint -----------------------------
(***************************************************************************)
(* Prices and sizes as integers (internal/norm/fixed.go): ParseFixed and   *)
(* FormatFixed, with MaxInt for the largest int64.                         *)
(*                                                                         *)
(* A number on the wire is a sign, the digits before and after the point,  *)
(* and whether there is a character among them that is none.               *)
(***************************************************************************)
EXTENDS Integers, Sequences

CONSTANTS
    Numbers,     \* what may stand in a price field
    Decimals,    \* PriceDecimals (8)
    MaxInt,      \* 1<<63 - 1
    Err          \* not a number

Digit      == 0 .. 9
WireNumber == [neg : BOOLEAN, int : Seq(Digit), frac : Seq(Digit), junk : BOOLEAN]

ASSUME NumberAssumption ==
    /\ Numbers \subseteq WireNumber
    /\ Decimals \in 0 .. 18
    /\ MaxInt \in Nat
    /\ Err \notin Int

(* The table pow10.                                                        *)
Pow10(n) == LET p[i \in 0 .. n] == IF i = 0 THEN 1 ELSE 10 * p[i - 1] IN p[n]

(* Digits are read into one integer, with a look at MaxInt before each.    *)
ReadDigits(ds) ==
    LET v[i \in 0 .. Len(ds)] ==
          IF i = 0 THEN 0
          ELSE IF v[i - 1] = Err THEN Err
          ELSE IF v[i - 1] > (MaxInt - ds[i]) \div 10 THEN Err
          ELSE v[i - 1] * 10 + ds[i]
    IN  v[Len(ds)]

(* The digits after the point that are read.                               *)
Kept(frac) == SubSeq(frac, 1, IF Len(frac) > Decimals THEN Decimals ELSE Len(frac))

ParseFixed(w) ==
    LET v   == ReadDigits(w.int \o Kept(w.frac))
        pad == Pow10(Decimals - Len(Kept(w.frac)))
    IN  IF \/ w.int \o w.frac = <<>>
           \/ w.junk
           \/ \E i \in Decimals + 1 .. Len(w.frac) : w.frac[i] # 0
           \/ v = Err
        THEN Err
        ELSE IF Len(Kept(w.frac)) < Decimals /\ v > MaxInt \div pad THEN Err
        ELSE IF w.neg THEN -(v * pad) ELSE v * pad

(* u in k digits, and the number of digits that %d needs for it.           *)
Printed(u, k) == [i \in 1 .. k |-> (u \div Pow10(k - i)) % 10]

Width(u) == CHOOSE k \in 1 .. u + 1 : u < Pow10(k) /\ \A j \in 1 .. k - 1 : Pow10(j) <= u

FormatFixed(v) ==
    LET uv    == IF v < 0 THEN -v ELSE v
        scale == Pow10(Decimals)
    IN  [neg |-> v < 0, int |-> Printed(uv \div scale, Width(uv \div scale)),
         frac |-> Printed(uv % scale, Decimals), junk |-> FALSE]

-----------------------------------------------------------------------------
(* What a number is worth: its digits as one integer, over 10 ^ Len(frac). *)
Value(ds) ==
    LET v[i \in 0 .. Len(ds)] == IF i = 0 THEN 0 ELSE 10 * v[i - 1] + ds[i] IN v[Len(ds)]

Signed(w, v) == IF w.neg THEN -v ELSE v

(* p, scaled by 10 ^ Decimals, is the number w.                            *)
Exact(w, p) == Signed(w, Value(w.int \o w.frac)) * Pow10(Decimals) = p * Pow10(Len(w.frac))

(* fixed.go:16-22.  A number is parsed to an integer exactly if it has a    *)
(* digit and no stray character and that integer, in range, is its value:   *)
(* nothing is rounded, nothing wraps, and nothing in range is refused.      *)
ParsedExactly(w) ==
    LET parsed == ParseFixed(w)
    IN  /\ parsed = Err \/ parsed \in -MaxInt .. MaxInt
        /\ \A p \in -MaxInt .. MaxInt :
             parsed = p <=> ~w.junk /\ w.int \o w.frac # <<>> /\ Exact(w, p)

(* fixed.go:16-22, 91-93.  Numbers are parsed exactly, and what is printed  *)
(* of an integer is parsed back to it.                                      *)
NumbersAreExact ==
    /\ \A w \in Numbers : ParsedExactly(w)
    /\ \A v \in -MaxInt .. MaxInt : ParseFixed(FormatFixed(v)) = v
=============================================================================
