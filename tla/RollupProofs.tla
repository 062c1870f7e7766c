---------------------------- MODULE RollupProofs ----------------------------
(***************************************************************************)
(* Proofs about Rollup: for any views, retention, history and bounds, and   *)
(* any length of a minute.                                                 *)
(***************************************************************************)
EXTENDS Rollup, WellFoundedInduction, SequenceTheorems, TLAPS

USE TimeAssumption, BoundsAssumption

(* The goroutine ends with its process, an insert follows its count soon,   *)
(* and no view was created in the future.                                  *)
Clocks ==
    /\ proc = "down" => backfill = "none"
    /\ backfill \in {"gap", "insert"} => counted <= now /\ now <= counted + MaxScan
    /\ \A v \in View : created[v] # Never => created[v] <= now

(* What SELECT count() still tells by the time the insert is issued.        *)
CountHolds ==
    backfill \in {"gap", "insert"} =>
        IF cnt THEN \E r \in Row : seen[At][r] > 0
               ELSE \A r \in Row : seen[At][r] > 0 => r[1] >= counted - MaxLate

Once == \A v \in View, r \in Row : seen[v][r] <= 1

(* A view was either only fed live so far, or it has all the rows that are  *)
(* due: so the rows older than its oldest minute are all that it may lack.  *)
Live(v) == \A r \in Row : seen[v][r] > 0 => r[1] >= created[v] - MaxLate
Due(v)  == {r \in raw[v] : now - Ttl[v] < r[1] /\ StartOfMinute(r[1]) + Minute <= created[v] - Lag}
Full(v) == \A r \in Due(v) : seen[v][r] > 0

Whole ==
    /\ \A v \in View \ cut : Live(v) \/ Full(v)
    /\ \A v \in View : Covered(v) => Full(v)

IInv == TypeOK /\ Clocks /\ CountHolds /\ (Prompt => Once /\ Whole)

-----------------------------------------------------------------------------
(* Minutes.                                                                *)
LEMMA MinuteFacts ==
    ASSUME NEW t \in Tick
    PROVE  /\ StartOfMinute(t) \in Nat
           /\ StartOfMinute(t) <= t /\ t < StartOfMinute(t) + Minute
           /\ \E k \in Nat : StartOfMinute(t) = Minute * k
<1>1. t \in Nat /\ Minute \in Nat /\ Minute > 0 BY DEF Tick
<1>2. t % Minute \in 0 .. Minute - 1 BY <1>1
<1>3. t = Minute * (t \div Minute) + (t % Minute) /\ t \div Minute \in Int BY <1>1
<1>4. PICK d \in Int, e \in 0 .. Minute - 1 : t = Minute * d + e /\ e = t % Minute
  BY <1>2, <1>3
<1>5. d \in Nat
  <2> SUFFICES ASSUME d < 0 PROVE FALSE OBVIOUS
  <2>1. 0 - 1 - d \in Nat OBVIOUS
  <2>2. Minute * (0 - 1 - d) \in Nat BY <1>1, <2>1
  <2>3. Minute * (0 - 1 - d) = 0 - Minute - Minute * d BY <1>1
  <2>4. PICK p \in Int : p = Minute * d BY <1>1
  <2>5. t = p + e /\ 0 - Minute - p \in Nat BY <1>4, <2>2, <2>3, <2>4
  <2> QED BY <1>1, <2>5
<1>6. Minute * d \in Nat BY <1>1, <1>5
<1>7. StartOfMinute(t) = Minute * d BY <1>1, <1>4, <1>6 DEF StartOfMinute
<1>8. PICK p \in Nat : p = Minute * d BY <1>6
<1>9. t = p + e /\ StartOfMinute(t) = p BY <1>4, <1>7, <1>8
<1>10. StartOfMinute(t) <= t /\ t < StartOfMinute(t) + Minute BY <1>1, <1>9
<1> QED BY <1>5, <1>6, <1>7, <1>10

(* A minute that starts before the end of another starts no later than it.  *)
LEMMA MinuteOrder ==
    ASSUME NEW s \in Tick, NEW t \in Tick, StartOfMinute(s) < StartOfMinute(t) + Minute
    PROVE  StartOfMinute(s) <= StartOfMinute(t)
<1>1. Minute \in Nat /\ Minute > 0 OBVIOUS
<1>2. PICK j \in Nat : StartOfMinute(s) = Minute * j BY MinuteFacts
<1>3. PICK k \in Nat : StartOfMinute(t) = Minute * k BY MinuteFacts
<1>4. SUFFICES ASSUME j > k PROVE FALSE
  <2>1. CASE j = k BY <1>2, <1>3, <2>1, MinuteFacts
  <2>2. CASE j < k
    <3>1. k - j \in Nat BY <2>2
    <3>2. Minute * (k - j) \in Nat BY <1>1, <3>1
    <3>3. Minute * k = Minute * j + Minute * (k - j) BY <1>1, <3>1
    <3> QED BY <1>1, <1>2, <1>3, <3>2, <3>3
  <2> QED BY <1>4, <2>1, <2>2
<1>5. j - k - 1 \in Nat BY <1>4
<1>6. Minute * (j - k - 1) \in Nat BY <1>1, <1>5
<1>7. Minute * j = Minute * k + Minute + Minute * (j - k - 1) BY <1>1, <1>5
<1>8. Minute * k \in Nat BY <1>1
<1> QED BY <1>1, <1>2, <1>3, <1>6, <1>7, <1>8

(* What lies after the end of a minute belongs to a later one.              *)
LEMMA MinuteBefore ==
    ASSUME NEW s \in Tick, NEW t \in Tick, StartOfMinute(s) + Minute <= t
    PROVE  s < StartOfMinute(t)
<1>1. /\ StartOfMinute(s) \in Int /\ s < StartOfMinute(s) + Minute
      /\ StartOfMinute(t) \in Int /\ t < StartOfMinute(t) + Minute
      /\ {s, t, Minute} \subseteq Int
  BY MinuteFacts DEF Tick
<1>2. SUFFICES ASSUME StartOfMinute(t) <= s PROVE FALSE BY <1>1
<1>3. StartOfMinute(t) < StartOfMinute(s) + Minute BY <1>1, <1>2
<1>4. StartOfMinute(t) <= StartOfMinute(s) BY <1>3, MinuteOrder
<1>5. StartOfMinute(s) < StartOfMinute(t) BY <1>1
<1> QED BY <1>1, <1>4, <1>5

LEMMA TickMinute ==
    \A t \in Tick : /\ t \in Int /\ StartOfMinute(t) \in Int
                    /\ StartOfMinute(t) <= t /\ t < StartOfMinute(t) + Minute
<1> TAKE t \in Tick
<1>1. StartOfMinute(t) \in Nat /\ StartOfMinute(t) <= t /\ t < StartOfMinute(t) + Minute
  BY MinuteFacts
<1>2. t \in Int BY DEF Tick
<1> QED BY <1>1, <1>2

LEMMA RowMinute ==
    \A r \in Row : /\ r[1] \in Tick
                   /\ StartOfMinute(r[1]) \in Int
                   /\ StartOfMinute(r[1]) <= r[1] /\ r[1] < StartOfMinute(r[1]) + Minute
BY TickMinute DEF Row

LEMMA RowTick == \A r \in Row : r[1] \in Tick
BY DEF Row

LEMMA AtView == next \in DOMAIN Views => At \in View
BY DEF At, View

(* A view that counted a row has an oldest minute.                         *)
LEMMA OldestMinuteFacts ==
    ASSUME TypeOK, NEW v \in View, NEW q \in Row, seen[v][q] > 0
    PROVE  /\ OldestMinute(v) \in Minutes(v)
           /\ \A k \in Minutes(v) : OldestMinute(v) <= k
<1> DEFINE Less == OpToRel(<, Nat)
<1>1. Minutes(v) \subseteq Nat BY MinuteFacts, RowTick DEF Minutes
<1>2. Minutes(v) # {} BY DEF Minutes
<1>3. PICK m \in Minutes(v) : \A k \in Minutes(v) : ~ (<<k, m>> \in Less)
  BY <1>1, <1>2, NatLessThanWellFounded, WFMin
<1>4. \A k \in Minutes(v) : m <= k
  <2> TAKE k \in Minutes(v)
  <2>1. k \in Nat /\ m \in Nat BY <1>1
  <2>2. ~ (k < m) BY <1>3, <2>1 DEF OpToRel
  <2> QED BY <2>1, <2>2
<1> QED BY <1>4 DEF OldestMinute
-----------------------------------------------------------------------------
(* What the upper bound of the backfill's statements is worth.             *)
LEMMA UpperFacts ==
    ASSUME TypeOK, CountHolds, backfill \in {"gap", "insert"}
    PROVE  /\ ~ cnt => Upper = now - Lag
           /\ cnt => /\ Upper \in Minutes(At)
                     /\ \A k \in Minutes(At) : Upper <= k
           /\ Upper \in Int
<1>1. At \in View BY AtView DEF TypeOK
<1>2. now \in Int /\ Lag \in Int BY DEF TypeOK, Tick
<1>3. CASE ~ cnt BY <1>2, <1>3 DEF Upper
<1>4. CASE cnt
  <2>1. PICK q \in Row : seen[At][q] > 0 BY <1>4 DEF CountHolds
  <2>2. Upper \in Minutes(At) /\ \A k \in Minutes(At) : Upper <= k
    BY <1>1, <1>4, <2>1, OldestMinuteFacts DEF Upper
  <2>3. Minutes(At) \subseteq Int BY MinuteFacts, RowTick DEF Minutes
  <2> QED BY <1>4, <2>2, <2>3
<1> QED BY <1>3, <1>4 DEF TypeOK

(* No row in the gap was counted before: an older view's minutes are above  *)
(* it, and an empty view has only taken in late rows since.                *)
LEMMA GapUnseen ==
    ASSUME TypeOK, Clocks, CountHolds, Prompt, backfill \in {"gap", "insert"},
           NEW r \in Gap
    PROVE  seen[At][r] = 0
<1>1. At \in View BY AtView DEF TypeOK
<1>2. r \in Row /\ r \in raw[At] /\ r[1] < Upper BY <1>1 DEF Gap, TypeOK
<1>3. r[1] \in Tick /\ r[1] \in Int BY <1>2, RowTick DEF Tick
<1>4. seen[At][r] \in Nat BY <1>1, <1>2 DEF TypeOK
<1>5. SUFFICES ASSUME seen[At][r] > 0 PROVE FALSE BY <1>4
<1>6. CASE cnt
  <2>1. StartOfMinute(r[1]) \in Minutes(At) BY <1>2, <1>5 DEF Minutes
  <2>2. Upper <= StartOfMinute(r[1]) BY <1>6, <2>1, UpperFacts
  <2>3. StartOfMinute(r[1]) <= r[1] /\ StartOfMinute(r[1]) \in Int BY <1>2, RowMinute
  <2> QED BY <1>2, <1>3, <2>2, <2>3, UpperFacts
<1>7. CASE ~ cnt
  <2>1. r[1] >= counted - MaxLate BY <1>2, <1>5, <1>7 DEF CountHolds
  <2>2. now <= counted + MaxScan /\ MaxLate + MaxScan <= Lag BY DEF Clocks, Prompt
  <2>3. {now, counted, MaxLate, MaxScan, Lag} \subseteq Int BY DEF TypeOK, Tick
  <2> QED BY <1>2, <1>3, <1>7, <2>1, <2>2, <2>3, UpperFacts
<1> QED BY <1>6, <1>7

(* What INSERT SELECT does to the view, the minutes it got through.         *)
LEMMA SeedFacts ==
    ASSUME TypeOK, NEW M, Seed(M)
    PROVE  /\ seen' \in [View -> [Row -> Nat]]
           /\ \A v \in View : v # At => seen'[v] = seen[v]
           /\ \A r \in Row :
                IF r \in Gap /\ StartOfMinute(r[1]) \in M
                THEN seen'[At][r] = seen[At][r] + 1
                ELSE seen'[At][r] = seen[At][r]
<1>1. At \in View BY AtView DEF TypeOK
<1>2. seen \in [View -> [Row -> Nat]] BY DEF TypeOK
<1> DEFINE One == [r \in Row |-> IF r \in Gap /\ StartOfMinute(r[1]) \in M
                                 THEN seen[At][r] + 1 ELSE seen[At][r]]
<1>3. seen' = [seen EXCEPT ![At] = One] BY DEF Seed
<1>4. One \in [Row -> Nat] BY <1>1, <1>2
<1>5. seen' \in [View -> [Row -> Nat]] /\ seen'[At] = One
    /\ \A v \in View : v # At => seen'[v] = seen[v]
  <2> HIDE DEF One
  <2> QED BY <1>1, <1>2, <1>3, <1>4
<1> QED BY <1>5

LEMMA GapRows == TypeOK => Gap \subseteq raw[At] /\ raw[At] \subseteq Row
BY AtView DEF TypeOK, Gap

(* The list of views is not empty, and ends where its length says.          *)
LEMMA Positions == DOMAIN Views = 1 .. Len(Views) /\ Len(Views) \in Nat \ {0}
BY ViewsAssumption, LenProperties, EmptySeq

LEMMA NextViewFacts ==
    ASSUME next \in DOMAIN Views, NextView
    PROVE  /\ next' \in DOMAIN Views
           /\ backfill' \in {"count", "done"}
           /\ backfill' = "count" => next' = next + 1
           /\ backfill' = "done" => next = Len(Views) /\ next' = next
BY Positions DEF NextView

-----------------------------------------------------------------------------
LEMMA InitIInv == Init => IInv
<1> SUFFICES ASSUME Init PROVE IInv OBVIOUS
<1>1. 1 \in DOMAIN Views BY Positions
<1>2. TypeOK
  <2>1. \A h \in SUBSET History : h \in SUBSET Row BY RowsAssumption
  <2>2. raw \in [View -> SUBSET Row] BY <2>1 DEF Init
  <2>3. /\ now \in Tick /\ counted \in Tick
        /\ rows \in 0 .. MaxRows /\ stops \in 0 .. MaxStops
    BY DEF Init
  <2>4. /\ seen \in [View -> [Row -> Nat]]
        /\ \A v \in View, r \in Row : ~ (seen[v][r] > 0)
    BY DEF Init
  <2>5. created \in [View -> Tick \union {Never}] BY DEF Init
  <2>6. proc = "down" /\ backfill = "none" /\ cnt = FALSE /\ cut = {} /\ next = 1
    BY DEF Init
  <2> QED BY <1>1, <2>2, <2>3, <2>4, <2>5, <2>6 DEF TypeOK
<1>3. Clocks /\ CountHolds /\ Once BY DEF Init, Clocks, CountHolds, Once
<1>4. Whole
  <2>1. \A v \in View : Live(v) BY DEF Init, Live
  <2>2. \A v \in View : ~ Covered(v) BY DEF Init, Covered
  <2> QED BY <2>1, <2>2 DEF Whole
<1> QED BY <1>2, <1>3, <1>4 DEF IInv

-----------------------------------------------------------------------------
LEMMA StepTypeOK == TypeOK /\ Clocks /\ [Next]_vars => TypeOK'
<1> SUFFICES ASSUME TypeOK, Clocks, [Next]_vars PROVE TypeOK' OBVIOUS
<1> USE DEF TypeOK, bfVars
<1>1. CASE Pass
  <2>1. now' \in Tick BY <1>1 DEF Pass, Tick
  <2>2. UNCHANGED <<raw, seen, created, rows, proc, backfill, next, cnt, counted, cut, stops>>
    BY <1>1 DEF Pass
  <2> QED BY <2>1, <2>2
<1>2. ASSUME NEW v \in View, NEW r \in Row, Insert(v, r) PROVE TypeOK'
  <2>1. \A w \in View : created[w] # Never BY <1>2 DEF Insert
  <2>2. raw' \in [View -> SUBSET Row] BY <1>2 DEF Insert
  <2>3. seen' \in [View -> [Row -> Nat]]
    <3>1. seen' = [seen EXCEPT ![v] = [seen[v] EXCEPT ![r] = seen[v][r] + 1]]
      BY <1>2 DEF Insert
    <3>2. seen[v] \in [Row -> Nat] /\ seen[v][r] + 1 \in Nat OBVIOUS
    <3>3. [seen[v] EXCEPT ![r] = seen[v][r] + 1] \in [Row -> Nat] BY <3>2
    <3> QED BY <3>1, <3>3
  <2>4. rows' \in 0 .. MaxRows BY <1>2 DEF Insert
  <2>5. ASSUME NEW w \in View, NEW q \in Row, seen'[w][q] > 0
        PROVE  q \in raw'[w]
    <3>1. raw[w] \subseteq raw'[w] /\ (w = v /\ q = r => q \in raw'[w])
      BY <1>2 DEF Insert
    <3>2. w # v \/ q # r => seen'[w][q] = seen[w][q] BY <1>2 DEF Insert
    <3> QED BY <2>5, <3>1, <3>2
  <2>6. UNCHANGED <<now, created, proc, backfill, next, cnt, counted, cut, stops>>
    BY <1>2 DEF Insert
  <2> QED BY <2>1, <2>2, <2>3, <2>4, <2>5, <2>6
<1>3. CASE Start
  <2>1. created' \in [View -> Tick \union {Never}]
    BY <1>3 DEF Start
  <2>2. \A v \in View : created'[v] # Never BY <1>3 DEF Start, Tick, Never
  <2>3. next' \in DOMAIN Views BY <1>3, Positions DEF Start
  <2> QED BY <1>3, <2>1, <2>2, <2>3 DEF Start
<1>4. CASE MigrateFails
  <2>1. created' \in [View -> Tick \union {Never}] BY <1>4 DEF MigrateFails
  <2>2. \A v \in View : created[v] # Never => created'[v] # Never
    BY <1>4 DEF MigrateFails
  <2>3. stops' \in 0 .. MaxStops /\ proc' = "down" BY <1>4 DEF MigrateFails
  <2> QED BY <1>4, <2>1, <2>2, <2>3 DEF MigrateFails
<1>5. CASE CountView BY <1>5 DEF CountView
<1>6. CASE CheckGap
  <2>1. /\ next' \in DOMAIN Views /\ backfill' \in {"count", "insert", "done"}
    BY <1>6, NextViewFacts DEF CheckGap
  <2> QED BY <1>6, <2>1 DEF CheckGap
<1>7. ASSUME NEW M, Seed(M), UNCHANGED <<raw, created>>, backfill = "insert"
      PROVE  /\ seen' \in [View -> [Row -> Nat]]
             /\ \A v \in View, r \in Row :
                  seen'[v][r] > 0 => r \in raw'[v] /\ created'[v] # Never
  <2>1. seen' \in [View -> [Row -> Nat]] BY <1>7, SeedFacts
  <2>2. created[At] # Never BY <1>7, AtView DEF Clocks
  <2>3. ASSUME NEW v \in View, NEW r \in Row, seen'[v][r] > 0
        PROVE  seen[v][r] > 0 \/ (v = At /\ r \in raw[v])
    <3>1. CASE v # At BY <1>7, <2>3, <3>1, SeedFacts
    <3>2. CASE v = At /\ r \in Gap BY <3>2, GapRows
    <3>3. CASE v = At /\ r \notin Gap
      <4>1. seen'[At][r] = seen[At][r] BY <1>7, <3>3, SeedFacts
      <4> QED BY <2>3, <3>3, <4>1
    <3> QED BY <3>1, <3>2, <3>3
  <2> QED BY <1>7, <2>1, <2>2, <2>3
<1>8. CASE FillGap
  <2>1. next' \in DOMAIN Views /\ backfill' \in {"count", "done"}
    BY <1>8, NextViewFacts DEF FillGap
  <2>2. Seed({StartOfMinute(t) : t \in Tick}) /\ backfill = "insert"
    BY <1>8 DEF FillGap
  <2>3. UNCHANGED <<now, raw, created, rows, proc, cnt, counted, cut, stops>>
    BY <1>8 DEF FillGap
  <2> QED BY <1>7, <2>1, <2>2, <2>3
<1>9. ASSUME NEW M, FillCutOff(M) PROVE TypeOK'
  <2>1. Seed(M) /\ backfill = "insert" /\ backfill' = "failed" BY <1>9 DEF FillCutOff
  <2>2. cut' \subseteq View BY <1>9, AtView DEF FillCutOff
  <2>3. UNCHANGED <<now, raw, created, rows, proc, next, cnt, counted, stops>>
    BY <1>9 DEF FillCutOff
  <2> QED BY <1>7, <2>1, <2>2, <2>3
<1>10. CASE QueryFails BY <1>10 DEF QueryFails
<1>11. CASE Stop BY <1>11 DEF Stop
<1>12. CASE UNCHANGED vars BY <1>12 DEF vars
<1> QED BY <1>1, <1>2, <1>3, <1>4, <1>5, <1>6, <1>8, <1>9, <1>10, <1>11, <1>12 DEF Next

-----------------------------------------------------------------------------
LEMMA StepClocks == TypeOK /\ Clocks /\ [Next]_vars => Clocks'
<1> SUFFICES ASSUME TypeOK, Clocks, [Next]_vars PROVE Clocks' OBVIOUS
<1>0. /\ now \in Int /\ counted \in Int /\ MaxScan \in Nat
      /\ \A v \in View : created[v] \in Int
  BY DEF TypeOK, Tick, Never
<1> USE DEF Clocks, bfVars
<1>1. CASE Pass BY <1>0, <1>1 DEF Pass
<1>2. CASE \E v \in View, r \in Row : Insert(v, r) BY <1>2 DEF Insert
<1>3. CASE Start BY <1>0, <1>3 DEF Start
<1>4. CASE MigrateFails BY <1>0, <1>4 DEF MigrateFails
<1>5. CASE CountView BY <1>0, <1>5 DEF CountView
<1>6. CASE CheckGap BY <1>6, NextViewFacts DEF CheckGap, TypeOK
<1>7. CASE FillGap BY <1>7, NextViewFacts DEF FillGap, TypeOK
<1>8. CASE \E M \in SUBSET {StartOfMinute(t) : t \in Tick} : FillCutOff(M)
  BY <1>8 DEF FillCutOff
<1>9. CASE QueryFails \/ Stop BY <1>9 DEF QueryFails, Stop
<1>10. CASE UNCHANGED vars BY <1>10 DEF vars
<1> QED BY <1>1, <1>2, <1>3, <1>4, <1>5, <1>6, <1>7, <1>8, <1>9, <1>10 DEF Next

LEMMA StepCountHolds == TypeOK /\ Clocks /\ CountHolds /\ [Next]_vars => CountHolds'
<1> SUFFICES ASSUME TypeOK, Clocks, CountHolds, [Next]_vars PROVE CountHolds' OBVIOUS
<1> USE DEF CountHolds, At, bfVars
<1>1. CASE Pass BY <1>1 DEF Pass
<1>2. ASSUME NEW v \in View, NEW r \in Row, Insert(v, r) PROVE CountHolds'
  <2>1. SUFFICES ASSUME backfill \in {"gap", "insert"} PROVE CountHolds' BY <1>2 DEF Insert
  <2>2. UNCHANGED <<backfill, next, cnt, counted>> BY <1>2 DEF Insert
  <2>3. At \in View BY AtView DEF TypeOK
  <2>4. \A q \in Row : /\ seen'[At][q] # seen[At][q] => q = r
                       /\ seen[At][q] > 0 => seen'[At][q] > 0
    BY <1>2, <2>3 DEF Insert, TypeOK
  <2>5. r[1] >= counted - MaxLate
    BY <1>2, <2>1 DEF Insert, Clocks, TypeOK, Tick
  <2> QED BY <2>1, <2>2, <2>4, <2>5
<1>3. CASE Start \/ MigrateFails BY <1>3 DEF Start, MigrateFails
<1>4. CASE CountView BY <1>4 DEF CountView
<1>5. CASE CheckGap BY <1>5, NextViewFacts DEF CheckGap, TypeOK
<1>6. CASE FillGap BY <1>6, NextViewFacts DEF FillGap, TypeOK
<1>7. CASE \E M \in SUBSET {StartOfMinute(t) : t \in Tick} : FillCutOff(M)
  BY <1>7 DEF FillCutOff
<1>8. CASE QueryFails \/ Stop BY <1>8 DEF QueryFails, Stop
<1>9. CASE UNCHANGED vars BY <1>9 DEF vars
<1> QED BY <1>1, <1>2, <1>3, <1>4, <1>5, <1>6, <1>7, <1>8, <1>9 DEF Next

LEMMA StepOnce ==
    TypeOK /\ Clocks /\ CountHolds /\ Prompt /\ Once /\ [Next]_vars => Once'
<1> SUFFICES ASSUME TypeOK, Clocks, CountHolds, Prompt, Once, [Next]_vars PROVE Once'
  OBVIOUS
<1> USE DEF Once
<1>1. CASE UNCHANGED seen BY <1>1
<1>2. ASSUME NEW v \in View, NEW r \in Row, Insert(v, r) PROVE Once'
  <2>1. seen[v][r] = 0 BY <1>2 DEF Insert, TypeOK
  <2> QED BY <1>2, <2>1 DEF Insert, TypeOK
<1>3. ASSUME NEW M, Seed(M), backfill = "insert" PROVE Once'
  <2> SUFFICES ASSUME NEW v \in View, NEW r \in Row PROVE seen'[v][r] <= 1 OBVIOUS
  <2>1. CASE v # At BY <1>3, <2>1, SeedFacts
  <2>2. CASE v = At /\ r \in Gap
    <3>1. seen[At][r] = 0 BY <1>3, <2>2, GapUnseen
    <3>2. seen'[At][r] \in {0, 1} BY <1>3, <3>1, SeedFacts
    <3> QED BY <2>2, <3>2
  <2>3. CASE v = At /\ r \notin Gap BY <1>3, <2>3, SeedFacts
  <2> QED BY <2>1, <2>2, <2>3
<1>4. CASE FillGap \/ \E M \in SUBSET {StartOfMinute(t) : t \in Tick} : FillCutOff(M)
  BY <1>3, <1>4 DEF FillGap, FillCutOff
<1> QED BY <1>1, <1>2, <1>4
    DEF Next, vars, Pass, Start, MigrateFails, CountView, CheckGap, QueryFails, Stop

-----------------------------------------------------------------------------
(* The rows that are due and that a view lacks are in the gap: they are     *)
(* older than the oldest row it took in live.                              *)
LEMMA GapCloses ==
    ASSUME TypeOK, Clocks, CountHolds, Whole, Prompt, backfill \in {"gap", "insert"},
           At \notin cut, NEW r \in Due(At)
    PROVE  r \in Gap \/ seen[At][r] > 0
<1>1. At \in View BY AtView DEF TypeOK
<1>2. /\ r \in raw[At] /\ now - Ttl[At] < r[1]
      /\ StartOfMinute(r[1]) + Minute <= created[At] - Lag
  BY DEF Due
<1>3. r \in Row BY <1>1, <1>2 DEF TypeOK
<1>4. /\ r[1] \in Tick /\ StartOfMinute(r[1]) \in Int /\ Minute \in Int /\ Lag \in Int
      /\ r[1] \in Int /\ r[1] < StartOfMinute(r[1]) + Minute
  BY <1>3, RowMinute DEF Tick
<1>5. /\ created[At] \in Int /\ created[At] <= now /\ now \in Int
  BY <1>1 DEF TypeOK, Clocks, Tick, Never
<1>6. SUFFICES r[1] < Upper \/ seen[At][r] > 0 BY <1>2 DEF Gap
<1>7. CASE ~ cnt BY <1>2, <1>4, <1>5, <1>7, UpperFacts
<1>8. CASE cnt
  <2>1. CASE Full(At) BY <2>1 DEF Full
  <2>2. CASE Live(At)
    <3>1. PICK q \in Row : seen[At][q] > 0 /\ Upper = StartOfMinute(q[1])
      BY <1>8, UpperFacts DEF Minutes
    <3>2. q[1] >= created[At] - MaxLate BY <2>2, <3>1 DEF Live
    <3>3. q[1] \in Tick /\ q[1] \in Int /\ q[1] < Upper + Minute /\ Upper \in Int
      BY <3>1, RowMinute DEF Tick
    <3>4. MaxLate <= Lag /\ MaxLate \in Int BY DEF Prompt
    <3>5. StartOfMinute(r[1]) + Minute <= q[1] BY <1>2, <1>4, <1>5, <3>2, <3>3, <3>4
    <3>6. r[1] < Upper
      BY <1>4, <3>1, <3>3, <3>5, MinuteBefore
    <3> QED BY <3>6
  <2> QED BY <1>1, <2>1, <2>2 DEF Whole
<1> QED BY <1>7, <1>8

(* A step that leaves a view and its table alone, while time may pass.      *)
LEMMA LeftAlone ==
    ASSUME TypeOK, NEW v \in View,
           raw'[v] = raw[v], seen'[v] = seen[v], created'[v] = created[v],
           now' \in Int, now <= now'
    PROVE  (Live(v) => Live(v)') /\ (Full(v) => Full(v)')
<1>1. Live(v) => Live(v)' BY DEF Live
<1>2. Due(v)' \subseteq Due(v)
  <2> SUFFICES ASSUME NEW r \in Due(v)' PROVE r \in Due(v) OBVIOUS
  <2>1. /\ r \in raw[v] /\ now' - Ttl[v] < r[1]
        /\ StartOfMinute(r[1]) + Minute <= created[v] - Lag
    BY DEF Due
  <2>2. r[1] \in Int /\ now \in Int /\ Ttl[v] \in Int
    BY <2>1, RowTick DEF TypeOK, Tick
  <2>3. now - Ttl[v] < r[1] BY <2>1, <2>2
  <2> QED BY <2>1, <2>3 DEF Due
<1> QED BY <1>1, <1>2 DEF Full

(* The backfill moves on: what it is past of now, it was past of before, or *)
(* was at.                                                                 *)
LEMMA NextCovered ==
    ASSUME TypeOK, NextView, backfill \in {"gap", "insert"}, cut' = cut,
           NEW v \in View, Covered(v)'
    PROVE  v \notin cut /\ (v = At \/ Covered(v))
<1>1. v \notin cut BY DEF Covered
<1>2. next \in 1 .. Len(Views) /\ Len(Views) \in Nat /\ next \in Int
  BY Positions DEF TypeOK
<1>3. ASSUME NEW i \in 1 .. next, Views[i] = v PROVE v = At \/ Covered(v)
  BY <1>1, <1>2, <1>3 DEF Covered, At
<1>4. CASE backfill' = "done"
  <2>1. next = Len(Views) BY <1>4, NextViewFacts DEF TypeOK
  <2>2. PICK i \in DOMAIN Views : Views[i] = v BY DEF View
  <2> QED BY <1>1, <1>3, <2>1, <2>2, Positions
<1>5. CASE backfill' = "count"
  <2>1. next' = next + 1 BY <1>5, NextViewFacts DEF TypeOK
  <2>2. PICK i \in 1 .. next' - 1 : Views[i] = v BY <1>5 DEF Covered
  <2> QED BY <1>1, <1>2, <1>3, <2>1, <2>2
<1> QED BY <1>4, <1>5, NextViewFacts DEF TypeOK

LEMMA StepWhole ==
    ASSUME TypeOK, TypeOK', Clocks, CountHolds, Prompt, Whole, [Next]_vars
    PROVE  Whole'
<1> USE DEF bfVars
<1>0. now \in Int /\ now' \in Int BY DEF TypeOK, Tick
<1>1. ASSUME NEW v \in View, Covered(v)', backfill' = backfill, next' = next, cut' = cut
      PROVE  Covered(v)
  BY <1>1 DEF Covered
<1>2. CASE Pass
  <2>1. /\ UNCHANGED <<raw, seen, created, backfill, next, cut>>
        /\ now <= now'
    BY <1>0, <1>2 DEF Pass
  <2>2. \A v \in View : (Live(v) => Live(v)') /\ (Full(v) => Full(v)')
    BY <1>0, <2>1, LeftAlone
  <2> QED BY <1>1, <2>1, <2>2 DEF Whole
<1>3. ASSUME NEW w \in View, NEW r \in Row, Insert(w, r) PROVE Whole'
  <2>1. UNCHANGED <<now, created, backfill, next, cut>> BY <1>3 DEF Insert
  <2>2. ASSUME NEW v \in View, v # w PROVE (Live(v) => Live(v)') /\ (Full(v) => Full(v)')
    <3>1. raw'[v] = raw[v] /\ seen'[v] = seen[v] BY <1>3, <2>2 DEF Insert, TypeOK
    <3> QED BY <1>0, <2>1, <3>1, LeftAlone
  <2>3. /\ raw'[w] = raw[w] \union {r}
        /\ seen'[w][r] = seen[w][r] + 1
        /\ \A q \in Row : q # r => seen'[w][q] = seen[w][q]
    BY <1>3 DEF Insert, TypeOK
  <2>4. seen[w] \in [Row -> Nat] /\ raw[w] \subseteq Row BY DEF TypeOK
  <2>5. Live(w) => Live(w)'
    <3>1. created[w] \in Int /\ created[w] <= now
      BY <1>3 DEF Insert, TypeOK, Clocks, Tick, Never
    <3>2. r[1] >= created[w] - MaxLate
      BY <1>0, <1>3, <3>1, RowTick DEF Insert, Tick
    <3> QED BY <2>1, <2>3, <3>2 DEF Live
  <2>6. Full(w) => Full(w)'
    <3>1. Due(w)' \subseteq Due(w) \union {r} BY <2>1, <2>3 DEF Due
    <3>2. \A q \in Due(w) : q # r => q \in Row /\ seen'[w][q] = seen[w][q]
      BY <2>3, <2>4 DEF Due
    <3>3. seen'[w][r] > 0 BY <2>3, <2>4
    <3> QED BY <3>1, <3>2, <3>3 DEF Full
  <2>7. \A v \in View : (Live(v) => Live(v)') /\ (Full(v) => Full(v)')
    BY <2>2, <2>5, <2>6
  <2> QED BY <1>1, <2>1, <2>7 DEF Whole
<1>4. CASE Start \/ MigrateFails
  <2>1. /\ UNCHANGED <<now, raw, seen, cut>>
        /\ \A v \in View : created[v] # Never => created'[v] = created[v]
    BY <1>4 DEF Start, MigrateFails
  <2>2. \A v \in View : ~ Covered(v)'
    <3>1. CASE Start
      <4>1. backfill' = "count" /\ next' = 1 BY <3>1 DEF Start
      <4> QED BY <4>1 DEF Covered
    <3>2. CASE MigrateFails
      <4>1. backfill' = "none" BY <3>2 DEF MigrateFails, Clocks
      <4> QED BY <4>1 DEF Covered
    <3> QED BY <1>4, <3>1, <3>2
  <2>3. ASSUME NEW v \in View \ cut' PROVE Live(v)' \/ Full(v)'
    <3>1. CASE created[v] = Never
      <4>1. \A r \in Row : ~ (seen[v][r] > 0) BY <3>1 DEF TypeOK
      <4> QED BY <2>1, <4>1 DEF Live
    <3>2. CASE created[v] # Never
      BY <1>0, <2>1, <2>3, <3>2, LeftAlone DEF Whole
    <3> QED BY <3>1, <3>2
  <2> QED BY <2>2, <2>3 DEF Whole
<1>5. CASE CountView \/ QueryFails \/ Stop
  <2>1. UNCHANGED <<now, raw, seen, created, next, cut>>
    BY <1>5 DEF CountView, QueryFails, Stop
  <2>2. \A v \in View : (Live(v) => Live(v)') /\ (Full(v) => Full(v)')
    BY <1>0, <2>1, LeftAlone
  <2>3. backfill' \in {"gap", "failed", "none"} /\ (backfill' # "none" => backfill # "none")
    BY <1>5 DEF CountView, QueryFails, Stop
  <2>4. \A v \in View : Covered(v)' => Covered(v) BY <2>1, <2>3 DEF Covered
  <2> QED BY <2>1, <2>2, <2>4 DEF Whole
<1>6. CASE CheckGap
  <2>1. UNCHANGED <<now, raw, seen, created, cut>> /\ backfill = "gap" BY <1>6 DEF CheckGap
  <2>2. \A v \in View : (Live(v) => Live(v)') /\ (Full(v) => Full(v)')
    BY <1>0, <2>1, LeftAlone
  <2>3. CASE Gap # {}
    <3>1. backfill' = "insert" /\ next' = next BY <1>6, <2>3 DEF CheckGap
    <3>2. \A v \in View : Covered(v)' => Covered(v) BY <2>1, <3>1 DEF Covered
    <3> QED BY <2>1, <2>2, <3>2 DEF Whole
  <2>4. CASE Gap = {}
    <3>1. NextView BY <1>6, <2>4 DEF CheckGap
    <3>2. At \notin cut => Full(At) BY <2>1, <2>4, GapCloses DEF Full
    <3>3. \A v \in View : Covered(v)' => Full(v)'
      BY <2>1, <2>2, <3>1, <3>2, NextCovered DEF Whole
    <3> QED BY <2>1, <2>2, <3>3 DEF Whole
  <2> QED BY <2>3, <2>4
<1>7. ASSUME NEW M, Seed(M), UNCHANGED <<now, raw, created>>
      PROVE  \A v \in View : v # At => (Live(v) => Live(v)') /\ (Full(v) => Full(v)')
  BY <1>0, <1>7, SeedFacts, LeftAlone
<1>8. CASE FillGap
  <2> DEFINE All == {StartOfMinute(t) : t \in Tick}
  <2>1. /\ Seed(All) /\ NextView /\ backfill = "insert"
        /\ UNCHANGED <<now, raw, created, cut>>
    BY <1>8 DEF FillGap
  <2>2. At \in View /\ raw[At] \subseteq Row BY AtView DEF TypeOK
  <2>3. ASSUME At \notin cut PROVE \A r \in Due(At) : seen'[At][r] > 0
    <3> TAKE r \in Due(At)
    <3>1. r \in Row BY <2>2 DEF Due
    <3>2. StartOfMinute(r[1]) \in All BY <3>1, RowTick
    <3>3. seen[At][r] \in Nat BY <2>2, <3>1 DEF TypeOK
    <3>4. r \in Gap \/ seen[At][r] > 0 BY <2>1, <2>3, GapCloses
    <3>5. IF r \in Gap THEN seen'[At][r] = seen[At][r] + 1 ELSE seen'[At][r] = seen[At][r]
      <4> HIDE DEF All
      <4> QED BY <2>1, <3>1, <3>2, SeedFacts
    <3> QED BY <3>3, <3>4, <3>5
  <2>4. ASSUME NEW v \in View, v = At, v \notin cut PROVE Full(v)'
    BY <2>1, <2>3, <2>4 DEF Full, Due
  <2>5. \A v \in View : Covered(v)' => Full(v)'
    BY <1>7, <2>1, <2>4, NextCovered DEF Whole
  <2> QED BY <1>7, <2>1, <2>4, <2>5 DEF Whole
<1>9. ASSUME NEW M, FillCutOff(M) PROVE Whole'
  <2>1. /\ Seed(M) /\ backfill = "insert" /\ backfill' = "failed"
        /\ cut' = cut \union {At}
        /\ UNCHANGED <<now, raw, created, next>>
    BY <1>9 DEF FillCutOff
  <2>2. \A v \in View : Covered(v)' => v # At /\ Covered(v) BY <2>1 DEF Covered
  <2> QED BY <1>7, <2>1, <2>2 DEF Whole
<1>10. CASE UNCHANGED vars
  <2>1. UNCHANGED <<now, raw, seen, created, backfill, next, cut>> BY <1>10 DEF vars
  <2>2. \A v \in View : (Live(v) => Live(v)') /\ (Full(v) => Full(v)')
    BY <1>0, <2>1, LeftAlone
  <2> QED BY <1>1, <2>1, <2>2 DEF Whole
<1> QED BY <1>2, <1>3, <1>4, <1>5, <1>6, <1>8, <1>9, <1>10 DEF Next

-----------------------------------------------------------------------------
LEMMA StepIInv == IInv /\ [Next]_vars => IInv'
<1> SUFFICES ASSUME IInv, [Next]_vars PROVE IInv' OBVIOUS
<1>1. TypeOK /\ Clocks /\ CountHolds /\ (Prompt => Once /\ Whole) BY DEF IInv
<1>2. TypeOK' BY <1>1, StepTypeOK
<1>3. Clocks' /\ CountHolds' BY <1>1, StepClocks, StepCountHolds
<1>4. Prompt => Once' /\ Whole' BY <1>1, <1>2, StepOnce, StepWhole
<1>5. Prompt' <=> Prompt BY DEF Prompt
<1> QED BY <1>2, <1>3, <1>4, <1>5 DEF IInv

LEMMA SpecIInv == Spec => []IInv
BY InitIInv, StepIInv, PTL DEF Spec

(* The state stays one of the program's and the server's, and no view has  *)
(* counted a row that its table does not hold.                             *)
THEOREM TypesHold == Spec => []TypeOK
<1>1. IInv => TypeOK BY DEF IInv
<1> QED BY <1>1, SpecIInv, PTL

(* If rows are inserted, and the backfill's insert follows its count, while *)
(* the two minutes that it leaves to the live view last, then no view counts *)
(* a row twice, wherever processes and statements were cut off.             *)
THEOREM NoRowCountedTwice == Spec => []NeverDoubleCounted
<1>1. IInv => NeverDoubleCounted BY DEF IInv, Once, NeverDoubleCounted
<1> QED BY <1>1, SpecIInv, PTL

-----------------------------------------------------------------------------
(* The minutes that start in a window of whole minutes are those whose      *)
(* ticks lie in it.                                                        *)
LEMMA WholeMinutes ==
    ASSUME NEW f \in Tick, NEW u \in Tick, NEW t \in Tick
    PROVE  StartOfMinute(f) <= StartOfMinute(t) /\ StartOfMinute(t) <= StartOfMinute(u)
           <=> StartOfMinute(f) <= t /\ t <= StartOfMinute(u) + Minute - 1
<1>1. /\ StartOfMinute(f) \in Int /\ StartOfMinute(t) \in Int /\ StartOfMinute(u) \in Int
      /\ StartOfMinute(t) <= t /\ t < StartOfMinute(t) + Minute
      /\ t \in Int /\ Minute \in Int /\ Minute > 0
  BY TickMinute
<1>2. ASSUME StartOfMinute(f) <= t PROVE StartOfMinute(f) <= StartOfMinute(t)
  <2>1. StartOfMinute(f) < StartOfMinute(t) + Minute BY <1>1, <1>2
  <2> QED BY <2>1, MinuteOrder
<1>3. ASSUME t <= StartOfMinute(u) + Minute - 1 PROVE StartOfMinute(t) <= StartOfMinute(u)
  <2>1. StartOfMinute(t) < StartOfMinute(u) + Minute BY <1>1, <1>3
  <2> QED BY <2>1, MinuteOrder
<1>4. ASSUME StartOfMinute(t) <= StartOfMinute(u) PROVE t <= StartOfMinute(u) + Minute - 1
  <2>1. t < StartOfMinute(u) + Minute BY <1>1, <1>4
  <2> QED BY <1>1, <2>1
<1>5. StartOfMinute(f) <= StartOfMinute(t) => StartOfMinute(f) <= t BY <1>1
<1> QED BY <1>2, <1>3, <1>4, <1>5

(* Under the same condition, a chart read from a view that the backfill is  *)
(* past shows what one read from the raw rows does.                        *)
THEOREM ChartsSeeded == Spec => []SeededCharts
<1>1. IInv => SeededCharts
  <2> SUFFICES ASSUME IInv, Prompt, NEW v \in View, Covered(v),
                      NEW f \in Tick, NEW u \in Tick,
                      StartOfMinute(f) > now - Ttl[v],
                      StartOfMinute(u) + Minute <= created[v] - Lag
               PROVE  Chart(v, StartOfMinute(f), StartOfMinute(u), Minute)
                    = Chart(v, StartOfMinute(f), StartOfMinute(u) + Minute - 1, 0)
    BY DEF SeededCharts
  <2>1. TypeOK /\ Once /\ Full(v) BY DEF IInv, Whole
  <2>2. ReadsRollup(Minute) /\ ~ ReadsRollup(0) BY DEF ReadsRollup
  <2> DEFINE In(r) == StartOfMinute(f) <= StartOfMinute(r[1])
                      /\ StartOfMinute(r[1]) <= StartOfMinute(u)
  <2>3. \A r \in Row :
          In(r) <=> StartOfMinute(f) <= r[1] /\ r[1] <= StartOfMinute(u) + Minute - 1
    BY RowTick, WholeMinutes
  <2>4. ASSUME NEW r \in Row, In(r)
        PROVE  seen[v][r] = IF r \in raw[v] THEN 1 ELSE 0
    <3>1. seen[v][r] \in Nat /\ seen[v][r] <= 1 /\ (seen[v][r] > 0 => r \in raw[v])
      BY <2>1 DEF TypeOK, Once
    <3>2. ASSUME r \in raw[v] PROVE seen[v][r] > 0
      <4>1. /\ now \in Int /\ Ttl[v] \in Int /\ Lag \in Int /\ Minute \in Int
            /\ created[v] \in Int
        BY <2>1 DEF TypeOK, Tick, Never
      <4>2. /\ StartOfMinute(r[1]) \in Int /\ StartOfMinute(r[1]) <= r[1] /\ r[1] \in Int
            /\ StartOfMinute(f) \in Int /\ StartOfMinute(u) \in Int
        BY RowMinute, TickMinute
      <4>3. now - Ttl[v] < r[1] BY <2>4, <4>1, <4>2
      <4>4. StartOfMinute(r[1]) + Minute <= created[v] - Lag BY <2>4, <4>1, <4>2
      <4> QED BY <2>1, <3>2, <4>3, <4>4 DEF Full, Due
    <3> QED BY <3>1, <3>2
  <2>5. Chart(v, StartOfMinute(f), StartOfMinute(u), Minute)
        = [r \in Row |-> IF In(r) THEN seen[v][r] ELSE 0]
    BY <2>2 DEF Chart
  <2>6. Chart(v, StartOfMinute(f), StartOfMinute(u) + Minute - 1, 0)
        = [r \in Row |-> IF In(r) /\ r \in raw[v] THEN 1 ELSE 0]
    BY <2>2, <2>3 DEF Chart
  <2>7. \A r \in Row : (IF In(r) THEN seen[v][r] ELSE 0)
                     = (IF In(r) /\ r \in raw[v] THEN 1 ELSE 0)
    BY <2>4
  <2> QED
    <3> HIDE DEF In
    <3> QED BY <2>5, <2>6, <2>7
<1> QED BY <1>1, SpecIInv, PTL
=============================================================================
