-------------------------- MODULE TradeFeedsProofs --------------------------
(***************************************************************************)
(* Proofs about the tape and the feeds above it: for any venues, prices,   *)
(* ring, message and frame sizes and any number of trades.                 *)
(***************************************************************************)
EXTENDS TradeFeeds, FixedPointProofs, SequenceTheorems, TLAPS

USE TapeAssumption

(* The ring is the end of what it was told.                          *)
Ring ==
    /\ told \in Seq(Range(told)) /\ recent \in Seq(Range(recent))
    /\ nextTradeID = Len(told)
    /\ Len(recent) <= MaxRecent /\ Len(recent) <= nextTradeID
    /\ nextTradeID > 0 => recent # <<>>
    /\ \A i \in 1 .. Len(recent) :
         /\ recent[i].id = nextTradeID - Len(recent) + i
         /\ recent[i].trade = told[nextTradeID - Len(recent) + i]

(* What the browser was sent, while its stream is open.                    *)
Stream ==
    /\ got \in Seq(Range(got))
    /\ first \in Nat /\ cursor \in first .. nextTradeID
    /\ StreamSkipsNothing

TapeInv == Ring /\ Stream

-----------------------------------------------------------------------------
(* Sequences of whatever is in them.                                       *)
LEMMA AppendFacts ==
    ASSUME NEW s, s \in Seq(Range(s)), NEW e
    PROVE  /\ Append(s, e) \in Seq(Range(Append(s, e)))
           /\ Len(Append(s, e)) = Len(s) + 1
           /\ Append(s, e)[Len(s) + 1] = e
           /\ \A i \in 1 .. Len(s) : Append(s, e)[i] = s[i]
<1>1. s \in Seq(Range(s) \union {e}) OBVIOUS
<1>2. Append(s, e) \in Seq(Range(s) \union {e}) BY <1>1
<1>3. Append(s, e) \in Seq(Range(Append(s, e))) BY <1>2, SeqOfRange
<1> QED BY <1>1, <1>3

LEMMA SubSeqFacts ==
    ASSUME NEW s, s \in Seq(Range(s)), NEW m \in 1 .. Len(s), NEW n \in m .. Len(s)
    PROVE  /\ SubSeq(s, m, n) \in Seq(Range(SubSeq(s, m, n)))
           /\ Len(SubSeq(s, m, n)) = n - m + 1
           /\ \A i \in 1 .. n - m + 1 : SubSeq(s, m, n)[i] = s[m + i - 1]
<1>1. SubSeq(s, m, n) \in Seq(Range(s)) OBVIOUS
<1>2. SubSeq(s, m, n) \in Seq(Range(SubSeq(s, m, n))) BY <1>1, SeqOfRange
<1> QED BY <1>2

LEMMA ConcatFacts ==
    ASSUME NEW s, s \in Seq(Range(s)), NEW t, t \in Seq(Range(t))
    PROVE  /\ s \o t \in Seq(Range(s \o t))
           /\ Len(s \o t) = Len(s) + Len(t)
           /\ \A i \in 1 .. Len(s) : (s \o t)[i] = s[i]
           /\ \A i \in 1 .. Len(t) : (s \o t)[Len(s) + i] = t[i]
<1>1. s \in Seq(Range(s) \union Range(t)) /\ t \in Seq(Range(s) \union Range(t)) OBVIOUS
<1>2. s \o t \in Seq(Range(s) \union Range(t)) BY <1>1
<1>3. s \o t \in Seq(Range(s \o t)) BY <1>2, SeqOfRange
<1> QED BY <1>1, <1>3

-----------------------------------------------------------------------------
(* The tape, operation by operation.                                       *)
LEMMA InitTape == TapeInit => TapeInv
<1> SUFFICES ASSUME TapeInit PROVE TapeInv OBVIOUS
<1>1. <<>> \in Seq(Range(<<>>)) BY EmptySeq, SeqOfRange
<1>2. Ring BY <1>1 DEF TapeInit, Ring
<1>3. Stream BY <1>1 DEF TapeInit, Stream, StreamSkipsNothing
<1> QED BY <1>2, <1>3 DEF TapeInv

(* Newest keeps the end of a sequence.                                     *)
LEMMA NewestFacts ==
    ASSUME NEW r, r \in Seq(Range(r)), r # <<>>
    PROVE  /\ Newest(r) \in Seq(Range(Newest(r)))
           /\ Len(Newest(r)) \in 1 .. MaxRecent /\ Len(Newest(r)) <= Len(r)
           /\ \A i \in 1 .. Len(Newest(r)) : Newest(r)[i] = r[Len(r) - Len(Newest(r)) + i]
<1>1. Len(r) \in Nat \ {0} OBVIOUS
<1>2. CASE Len(r) > MaxRecent
  <2> DEFINE m == Len(r) - MaxRecent + 1
  <2>1. m \in 1 .. Len(r) /\ Len(r) \in m .. Len(r) BY <1>1, <1>2
  <2>2. Newest(r) = SubSeq(r, m, Len(r)) BY <1>2 DEF Newest
  <2>3. /\ Newest(r) \in Seq(Range(Newest(r)))
        /\ Len(Newest(r)) = Len(r) - m + 1
        /\ \A i \in 1 .. Len(r) - m + 1 : Newest(r)[i] = r[m + i - 1]
    <3> HIDE DEF m
    <3> DEFINE q == SubSeq(r, m, Len(r))
    <3>1. /\ q \in Seq(Range(q)) /\ Len(q) = Len(r) - m + 1
          /\ \A i \in 1 .. Len(r) - m + 1 : q[i] = r[m + i - 1]
      BY <2>1, SubSeqFacts
    <3> QED BY <2>2, <3>1
  <2>4. Len(r) - m + 1 = MaxRecent BY <1>1
  <2>5. \A i \in 1 .. MaxRecent : m + i - 1 = Len(r) - MaxRecent + i BY <1>1
  <2> QED BY <1>1, <1>2, <2>3, <2>4, <2>5
<1>3. CASE ~(Len(r) > MaxRecent)
  <2>1. Newest(r) = r BY <1>3 DEF Newest
  <2> QED BY <1>1, <1>3, <2>1
<1> QED BY <1>2, <1>3

LEMMA StepOnTrade == ASSUME TapeInv, NEW t, OnTrade(t) PROVE TapeInv'
<1> DEFINE e == [id |-> nextTradeID + 1, trade |-> t]
           r == Append(recent, e)
<1>1. /\ told \in Seq(Range(told)) /\ recent \in Seq(Range(recent))
      /\ Len(told) \in Nat /\ Len(recent) \in Nat
      /\ nextTradeID = Len(told) /\ Len(recent) <= nextTradeID
  BY DEF TapeInv, Ring
<1>2. /\ told' = Append(told, t) /\ recent' = Newest(r)
      /\ nextTradeID' = nextTradeID + 1
  BY DEF OnTrade
<1>3. /\ told' \in Seq(Range(told')) /\ Len(told') = nextTradeID'
      /\ told'[nextTradeID'] = t
      /\ \A i \in 1 .. nextTradeID : told'[i] = told[i]
  BY <1>1, <1>2, AppendFacts
<1>4. /\ r \in Seq(Range(r)) /\ Len(r) = Len(recent) + 1
      /\ r[Len(recent) + 1] = e
      /\ \A i \in 1 .. Len(recent) : r[i] = recent[i]
  BY <1>1, AppendFacts
<1>5. \A i \in 1 .. Len(r) : /\ r[i].id = nextTradeID' - Len(r) + i
                            /\ r[i].trade = told'[nextTradeID' - Len(r) + i]
  <2> TAKE i \in 1 .. Len(r)
  <2>1. CASE i = Len(recent) + 1
    <3>1. nextTradeID' - Len(r) + i = nextTradeID + 1 BY <1>1, <1>2, <1>4, <2>1
    <3> QED BY <1>2, <1>3, <1>4, <2>1, <3>1
  <2>2. CASE i \in 1 .. Len(recent)
    <3> DEFINE k == nextTradeID - Len(recent) + i
    <3>1. k \in 1 .. nextTradeID /\ nextTradeID' - Len(r) + i = k
      BY <1>1, <1>2, <1>4, <2>2
    <3>2. recent[i].id = k /\ recent[i].trade = told[k] BY <2>2 DEF TapeInv, Ring
    <3> QED BY <1>3, <1>4, <2>2, <3>1, <3>2
  <2> QED BY <1>1, <1>4, <2>1, <2>2
<1> HIDE DEF r, e
<1>6. r # <<>> BY <1>1, <1>4
<1>7. /\ recent' \in Seq(Range(recent'))
      /\ Len(recent') \in 1 .. MaxRecent /\ Len(recent') <= Len(r)
      /\ \A i \in 1 .. Len(recent') : recent'[i] = r[Len(r) - Len(recent') + i]
  BY <1>2, <1>4, <1>6, NewestFacts
<1>8. \A i \in 1 .. Len(recent') :
         /\ recent'[i].id = nextTradeID' - Len(recent') + i
         /\ recent'[i].trade = told'[nextTradeID' - Len(recent') + i]
  <2> TAKE i \in 1 .. Len(recent')
  <2> DEFINE j == Len(r) - Len(recent') + i
  <2>1. j \in 1 .. Len(r) BY <1>1, <1>4, <1>7
  <2>2. nextTradeID' - Len(r) + j = nextTradeID' - Len(recent') + i
    BY <1>1, <1>2, <1>4, <1>7
  <2> HIDE DEF j
  <2>3. r[j].id = nextTradeID' - Len(r) + j /\ r[j].trade = told'[nextTradeID' - Len(r) + j]
    BY <1>5, <2>1
  <2>4. recent'[i] = r[j] BY <1>7 DEF j
  <2> QED BY <2>2, <2>3, <2>4
<1>9. Len(recent') <= nextTradeID' /\ recent' # <<>> BY <1>1, <1>2, <1>4, <1>7
<1>10. Ring' BY <1>2, <1>3, <1>7, <1>8, <1>9 DEF Ring
<1>11. UNCHANGED <<open, cursor, first, got, missed>> BY DEF OnTrade, streamVars
<1>12. DOMAIN told \subseteq DOMAIN told' /\ DOMAIN told = 1 .. nextTradeID
  BY <1>1, <1>2, <1>3
<1>13. StreamSkipsNothing'
  BY <1>3, <1>11, <1>12 DEF TapeInv, Stream, StreamSkipsNothing
<1>14. cursor' \in first' .. nextTradeID' BY <1>1, <1>2, <1>11 DEF TapeInv, Stream
<1> QED BY <1>10, <1>11, <1>13, <1>14 DEF TapeInv, Stream

LEMMA EmptyInterval == ASSUME NEW a \in Nat PROVE a + 1 .. a = {}
OBVIOUS

LEMMA StepOpen == TapeInv /\ Open => TapeInv'
<1> SUFFICES ASSUME TapeInv, Open PROVE TapeInv' OBVIOUS
<1>1. UNCHANGED <<told, trades, recent, nextTradeID>> BY DEF Open, registryVars
<1>2. nextTradeID \in Nat BY DEF TapeInv, Ring
<1>3. Ring' BY <1>1 DEF TapeInv, Ring
<1>4. first' \in Nat /\ cursor' = first' /\ cursor' <= nextTradeID
  BY <1>2 DEF Open
<1>5. got' = <<>> /\ missed' = {} BY DEF Open
<1>6. got' \in Seq(Range(got')) BY <1>5, EmptySeq, SeqOfRange
<1>7. first' + 1 .. cursor' = {} BY <1>4, EmptyInterval
<1>8. StreamSkipsNothing' BY <1>5, <1>7 DEF StreamSkipsNothing
<1> QED BY <1>1, <1>2, <1>3, <1>4, <1>6, <1>8 DEF TapeInv, Stream

(* What one push sends: the ids right after those that left the ring.      *)
LEMMA PushFacts ==
    ASSUME TapeInv
    PROVE  /\ TradesSince \in Seq(Range(TradesSince))
           /\ NextCursor(TradesSince) \in cursor .. nextTradeID
           /\ \E gone \in cursor .. NextCursor(TradesSince) :
                /\ Len(TradesSince) = NextCursor(TradesSince) - gone
                /\ \A i \in 1 .. Len(TradesSince) :
                     /\ TradesSince[i].id = gone + i
                     /\ TradesSince[i].trade = told[gone + i]
                /\ cursor + 1 .. gone =
                     {i \in cursor + 1 .. NextCursor(TradesSince) :
                        \A k \in DOMAIN recent : i < recent[k].id}
<1> DEFINE out == TradesSince
           n == Len(recent)
           base == nextTradeID - n
<1>1. /\ recent \in Seq(Range(recent)) /\ n \in Nat /\ base \in Nat
      /\ DOMAIN recent = 1 .. n
      /\ \A i \in 1 .. n : recent[i].id = base + i /\ recent[i].trade = told[base + i]
      /\ nextTradeID = base + n /\ nextTradeID \in Nat
  BY DEF TapeInv, Ring
<1>2. cursor \in Nat /\ cursor <= nextTradeID BY <1>1 DEF TapeInv, Stream
<1>3. CASE Unseen = {}
  <2>1. out = <<>> /\ NextCursor(out) = cursor BY <1>3 DEF TradesSince, NextCursor
  <2>2. cursor + 1 .. cursor = {} BY <1>2
  <2>3. out \in Seq(Range(out)) /\ Len(out) = cursor - cursor
    BY <1>2, <2>1, EmptySeq, SeqOfRange
  <2> QED BY <1>1, <1>2, <2>1, <2>2, <2>3
<1>4. CASE Unseen # {}
  <2> DEFINE f == IF cursor >= base THEN cursor - base + 1 ELSE 1
             l == IF f + Limit - 1 < n THEN f + Limit - 1 ELSE n
             gone == base + f - 1
  <2>1. \A i \in 1 .. n : i \in Unseen <=> base + i > cursor BY <1>1 DEF Unseen
  <2>2. \E i \in 1 .. n : base + i > cursor BY <1>1, <1>4, <2>1 DEF Unseen
  <2>3. f \in 1 .. n BY <1>1, <1>2, <2>2
  <2>4. f \in Unseen /\ \A j \in Unseen : f <= j
    <3>1. base + f > cursor BY <1>1, <1>2
    <3>2. \A j \in 1 .. n : base + j > cursor => f <= j BY <1>1, <1>2
    <3> QED BY <1>1, <2>1, <2>3, <3>1, <3>2 DEF Unseen
  <2>5. From = f
    <3>1. From \in Unseen /\ \A j \in Unseen : From <= j BY <2>4 DEF From
    <3>2. From \in 1 .. n BY <1>1, <3>1 DEF Unseen
    <3>3. From <= f /\ f <= From BY <2>4, <3>1
    <3> QED BY <2>3, <3>2, <3>3
  <2>6. l \in f .. n BY <1>1, <2>3
  <2>7. gone \in cursor .. nextTradeID /\ (cursor < base => gone = base)
        /\ (cursor >= base => gone = cursor)
    BY <1>1, <1>2, <2>3
  <2>8. out = SubSeq(recent, f, l) BY <1>4, <2>5 DEF TradesSince
  <2> HIDE DEF f, l
  <2>9. /\ out \in Seq(Range(out)) /\ Len(out) = l - f + 1
        /\ \A i \in 1 .. l - f + 1 : out[i] = recent[f + i - 1]
    <3> DEFINE q == SubSeq(recent, f, l)
    <3>1. /\ q \in Seq(Range(q)) /\ Len(q) = l - f + 1
          /\ \A i \in 1 .. l - f + 1 : q[i] = recent[f + i - 1]
      <4>1. f \in 1 .. Len(recent) /\ l \in f .. Len(recent) BY <2>3, <2>6
      <4>2. recent \in Seq(Range(recent)) BY <1>1
      <4> QED BY ONLY <4>1, <4>2, SubSeqFacts
    <3> HIDE DEF q, out
    <3> QED BY <2>8, <3>1 DEF q
  <2>10. \A i \in 1 .. l - f + 1 : out[i].id = gone + i /\ out[i].trade = told[gone + i]
    <3> TAKE i \in 1 .. l - f + 1
    <3>1. f + i - 1 \in 1 .. n /\ base + (f + i - 1) = gone + i
      BY <1>1, <2>3, <2>6
    <3> QED BY <1>1, <2>9, <3>1
  <2>11. NextCursor(out) = base + l
    <3>1. out # <<>> /\ NextCursor(out) = out[Len(out)].id
      BY <1>1, <2>3, <2>6, <2>9 DEF NextCursor
    <3>2. Len(out) \in 1 .. l - f + 1 /\ gone + Len(out) = base + l
      BY <1>1, <2>3, <2>6, <2>9
    <3> QED BY <2>10, <3>1, <3>2
  <2>12. base + l \in cursor .. nextTradeID /\ gone <= base + l
    BY <1>1, <1>2, <2>3, <2>6, <2>7
  <2>13. cursor + 1 .. gone =
           {i \in cursor + 1 .. base + l : \A k \in DOMAIN recent : i < recent[k].id}
    <3>1. \A i \in cursor + 1 .. base + l :
             (\A k \in DOMAIN recent : i < recent[k].id) <=> i < base + 1
      <4> TAKE i \in cursor + 1 .. base + l
      <4>1. 1 \in DOMAIN recent /\ recent[1].id = base + 1 BY <1>1, <2>3
      <4>2. \A k \in DOMAIN recent : recent[k].id \in Int /\ recent[k].id >= base + 1
        BY <1>1
      <4>3. i \in Int BY <1>2
      <4>4. base \in Int BY <1>1
      <4>5. i < base + 1 => \A k \in DOMAIN recent : i < recent[k].id
        <5> SUFFICES ASSUME i < base + 1, NEW k \in DOMAIN recent PROVE i < recent[k].id OBVIOUS
        <5>1. recent[k].id \in Int /\ recent[k].id >= base + 1 BY <4>2
        <5> HIDE DEF base
        <5> QED BY <4>3, <4>4, <5>1
      <4> HIDE DEF base
      <4> QED BY ONLY <4>1, <4>5
    <3>2. \A i \in Int : i \in cursor + 1 .. gone <=> i \in cursor + 1 .. base + l /\ i < base + 1
      BY <1>1, <1>2, <2>7, <2>12, <2>3, <2>6
    <3> HIDE DEF gone
    <3> QED BY <3>1, <3>2
  <2>14. Len(out) = NextCursor(out) - gone BY <1>1, <2>3, <2>6, <2>9, <2>11
  <2> HIDE DEF out, gone
  <2>15. gone \in cursor .. NextCursor(out) BY <1>1, <1>2, <2>3, <2>6, <2>7, <2>11, <2>12
  <2> QED BY <2>9, <2>10, <2>11, <2>12, <2>13, <2>14, <2>15 DEF out
<1> QED BY <1>3, <1>4

LEMMA StepPush == TapeInv /\ Push => TapeInv'
<1> SUFFICES ASSUME TapeInv, Push PROVE TapeInv' OBVIOUS
<1> DEFINE out == TradesSince
           next == NextCursor(out)
<1>1. PICK gone \in cursor .. next :
         /\ Len(out) = next - gone
         /\ \A i \in 1 .. Len(out) : out[i].id = gone + i /\ out[i].trade = told[gone + i]
         /\ cursor + 1 .. gone =
              {i \in cursor + 1 .. next : \A k \in DOMAIN recent : i < recent[k].id}
  BY PushFacts
<1>2. out \in Seq(Range(out)) /\ next \in cursor .. nextTradeID BY PushFacts
<1>3. /\ cursor' = next /\ got' = got \o out
      /\ missed' = missed \union
           {i \in cursor + 1 .. next : \A k \in DOMAIN recent : i < recent[k].id}
      /\ UNCHANGED <<told, trades, recent, nextTradeID, open, first>> /\ open
  BY DEF Push, registryVars
<1> HIDE DEF out, next
<1>4. missed' = missed \union (cursor + 1 .. gone) BY <1>1, <1>3
<1>5. /\ got \in Seq(Range(got)) /\ Len(got) \in Nat /\ DOMAIN got = 1 .. Len(got)
      /\ first \in Nat /\ cursor \in first .. nextTradeID /\ nextTradeID \in Nat
      /\ DOMAIN told = 1 .. nextTradeID
  BY DEF TapeInv, Stream, Ring
<1>6. /\ \A i \in 1 .. Len(got) : got[i].id \in DOMAIN told /\ got[i].trade = told[got[i].id]
      /\ \A i, j \in 1 .. Len(got) : i < j => got[i].id < got[j].id
      /\ {got[i].id : i \in 1 .. Len(got)} \intersect missed = {}
      /\ {got[i].id : i \in 1 .. Len(got)} \union missed = first + 1 .. cursor
  BY <1>3, <1>5 DEF TapeInv, Stream, StreamSkipsNothing
<1>7. /\ got' \in Seq(Range(got')) /\ Len(got') = Len(got) + Len(out)
      /\ \A i \in 1 .. Len(got) : got'[i] = got[i]
      /\ \A i \in 1 .. Len(out) : got'[Len(got) + i] = out[i]
  BY <1>2, <1>3, <1>5, ConcatFacts
<1>8. Len(out) \in Nat /\ gone \in Nat /\ next \in Nat /\ DOMAIN got' = 1 .. Len(got) + Len(out)
  BY <1>1, <1>2, <1>5, <1>7
<1> DEFINE Old == {got[i].id : i \in 1 .. Len(got)}
<1>9. \A i \in 1 .. Len(got') : \/ /\ i \in 1 .. Len(got) /\ got'[i] = got[i]
                                \/ /\ i - Len(got) \in 1 .. Len(out)
                                   /\ got'[i] = out[i - Len(got)]
  <2> TAKE i \in 1 .. Len(got')
  <2>1. CASE i <= Len(got) BY <1>5, <1>7, <2>1
  <2>2. CASE ~(i <= Len(got))
    <3>1. i - Len(got) \in 1 .. Len(out) /\ Len(got) + (i - Len(got)) = i
      BY <1>5, <1>7, <1>8, <2>2
    <3> QED BY <1>7, <3>1
  <2> QED BY <2>1, <2>2
<1>10. \A i \in DOMAIN got' : got'[i].id \in DOMAIN told /\ got'[i].trade = told[got'[i].id]
  <2> TAKE i \in DOMAIN got'
  <2>1. CASE i \in 1 .. Len(got) /\ got'[i] = got[i] BY <1>6, <2>1
  <2>2. CASE i - Len(got) \in 1 .. Len(out) /\ got'[i] = out[i - Len(got)]
    <3>1. gone + (i - Len(got)) \in 1 .. nextTradeID
      BY <1>1, <1>2, <1>5, <1>8, <2>2
    <3> QED BY <1>1, <1>5, <2>2, <3>1
  <2> QED BY <1>7, <1>8, <1>9, <2>1, <2>2
<1>11. \A i, j \in DOMAIN got' : i < j => got'[i].id < got'[j].id
  <2> SUFFICES ASSUME NEW i \in DOMAIN got', NEW j \in DOMAIN got', i < j
               PROVE  got'[i].id < got'[j].id
    OBVIOUS
  <2>1. i \in Int /\ j \in Int BY <1>8
  <2>2. CASE j \in 1 .. Len(got) /\ got'[j] = got[j]
    <3>1. i \in 1 .. Len(got) BY <1>5, <1>8, <2>1, <2>2
    <3> QED BY <1>6, <1>7, <2>2, <3>1
  <2>3. CASE j - Len(got) \in 1 .. Len(out) /\ got'[j] = out[j - Len(got)]
    <3>1. got'[j].id = gone + (j - Len(got)) BY <1>1, <2>3
    <3>2. CASE i \in 1 .. Len(got) /\ got'[i] = got[i]
      <4>1. got[i].id \in first + 1 .. cursor BY <1>6, <3>2
      <4>2. got'[i].id \in first + 1 .. cursor BY <3>2, <4>1
      <4> QED BY <1>1, <1>5, <1>8, <2>1, <2>3, <3>1, <4>2
    <3>3. CASE i - Len(got) \in 1 .. Len(out) /\ got'[i] = out[i - Len(got)]
      <4>1. got'[i].id = gone + (i - Len(got)) BY <1>1, <3>3
      <4> QED BY <1>5, <1>8, <2>1, <3>1, <4>1
    <3> QED BY <1>7, <1>8, <1>9, <3>2, <3>3
  <2> QED BY <1>7, <1>8, <1>9, <2>2, <2>3
<1>12. {got'[i].id : i \in DOMAIN got'} = Old \union (gone + 1 .. next)
  <2>1. \A i \in DOMAIN got' : got'[i].id \in Old \union (gone + 1 .. next)
    <3> TAKE i \in DOMAIN got'
    <3>1. CASE i \in 1 .. Len(got) /\ got'[i] = got[i] BY <3>1
    <3>2. CASE i - Len(got) \in 1 .. Len(out) /\ got'[i] = out[i - Len(got)]
      <4>1. got'[i].id = gone + (i - Len(got)) BY <1>1, <3>2
      <4> QED BY <1>1, <1>5, <1>8, <3>2, <4>1
    <3> QED BY <1>7, <1>8, <1>9, <3>1, <3>2
  <2>2. \A x \in Old : \E i \in DOMAIN got' : x = got'[i].id
    BY <1>5, <1>7, <1>8
  <2>3. \A x \in gone + 1 .. next : \E i \in DOMAIN got' : x = got'[i].id
    <3> TAKE x \in gone + 1 .. next
    <3>1. x - gone \in 1 .. Len(out) /\ gone + (x - gone) = x BY <1>1, <1>8
    <3>2. Len(got) + (x - gone) \in DOMAIN got' BY <1>5, <1>8, <3>1
    <3>3. got'[Len(got) + (x - gone)].id = x BY <1>1, <1>7, <3>1
    <3> QED BY <3>2, <3>3
  <2> HIDE DEF Old
  <2> QED BY <2>1, <2>2, <2>3
<1>13. Old \intersect missed = {} /\ Old \union missed = first + 1 .. cursor BY <1>6
<1> HIDE DEF Old
<1>14. (Old \union (gone + 1 .. next)) \intersect (missed \union (cursor + 1 .. gone)) = {}
  BY <1>1, <1>5, <1>8, <1>13
<1>15. (Old \union (gone + 1 .. next)) \union (missed \union (cursor + 1 .. gone))
         = first + 1 .. next
  <2>1. (first + 1 .. cursor) \union (cursor + 1 .. gone) \union (gone + 1 .. next)
          = first + 1 .. next
    BY <1>1, <1>2, <1>5, <1>8
  <2> QED BY <1>13, <2>1
<1>16. StreamSkipsNothing'
  BY <1>3, <1>4, <1>10, <1>11, <1>12, <1>14, <1>15 DEF StreamSkipsNothing
<1>17. Ring' BY <1>3 DEF TapeInv, Ring
<1>18. first' \in Nat /\ cursor' \in first' .. nextTradeID' BY <1>2, <1>3, <1>5
<1> QED BY <1>7, <1>16, <1>17, <1>18 DEF TapeInv, Stream

LEMMA StepClose == TapeInv /\ Close => TapeInv'
<1> SUFFICES ASSUME TapeInv, Close PROVE TapeInv' OBVIOUS
<1>1. UNCHANGED <<told, trades, recent, nextTradeID, first, got, missed>> /\ ~open'
  BY DEF Close, registryVars
<1>2. Ring' BY <1>1 DEF TapeInv, Ring
<1>3. /\ got \in Seq(Range(got)) /\ first \in Nat /\ cursor \in first .. nextTradeID
      /\ nextTradeID \in Nat
  BY DEF TapeInv, Stream, Ring
<1>4. cursor' \in cursor .. nextTradeID BY <1>3, PushFacts DEF Close
<1>5. cursor' \in first' .. nextTradeID' BY <1>1, <1>3, <1>4
<1> QED BY <1>1, <1>2, <1>3, <1>5 DEF TapeInv, Stream, StreamSkipsNothing

LEMMA SameTape == TapeInv /\ UNCHANGED tapeVars => TapeInv'
BY DEF TapeInv, Ring, Stream, StreamSkipsNothing, tapeVars, registryVars, streamVars

-----------------------------------------------------------------------------
(* The feeds above the tape, venue by venue.                               *)
FeedOK(v) ==
    /\ Len(quoted[v]) <= MaxMade
    /\ frame[v] # <<>> => conn[v] = "up"
    /\ inAdd[v] => frame[v] # <<>>
    /\ sleep[v] \in 0 .. backoff[v] - 1
    /\ conn[v] = "sleep" /\ gotData[v] => sleep[v] < BackoffMin

Feeds ==
    /\ quoted \in [Venues -> Seq(Prices)]
    /\ conn \in [Venues -> {"dial", "up", "sleep"}]
    /\ gotData \in [Venues -> BOOLEAN]
    /\ backoff \in [Venues -> BackoffMin .. BackoffMax]
    /\ sleep \in [Venues -> Nat]
    /\ frame = [v \in Venues |-> frame[v]]
    /\ inAdd \in [Venues -> BOOLEAN]
    /\ \A v \in Venues : FeedOK(v)

IInv == TapeInv /\ Feeds

LEMMA InitIInv == Init => IInv
<1> SUFFICES ASSUME Init PROVE IInv OBVIOUS
<1>1. TapeInv BY InitTape DEF Init
<1>2. \A v \in Venues : quoted[v] = <<>> /\ Len(<<>>) = 0 BY DEF Init
<1>3. Feeds BY <1>2, BackoffAssumption, BoundsAssumption DEF Init, Feeds, FeedOK
<1> QED BY <1>1, <1>3 DEF IInv

(* What a venue's step does to its own feed decides: the others' stay.     *)
LEMMA StepFeeds == Feeds /\ [Next]_vars => Feeds'
<1> SUFFICES ASSUME Feeds, [Next]_vars PROVE Feeds' OBVIOUS
<1> USE BackoffAssumption, BoundsAssumption DEF Feeds, FeedOK, connVars, sinkVars
<1>1. ASSUME NEW v \in Venues, NEW w \in Prices, Trade(v, w) PROVE Feeds'
  <2>1. quoted' \in [Venues -> Seq(Prices)] /\ Len(quoted'[v]) <= MaxMade
    BY <1>1 DEF Trade
  <2> QED BY <1>1, <2>1 DEF Trade
<1>2. ASSUME NEW v \in Venues, NEW ws \in FramesOf(v), Receive(v, ws) PROVE Feeds'
  <2>1. ws \in Seq(Prices)
    <3>1. \E k \in Nat : ws \in [1 .. k -> Prices] BY ONLY ws \in FramesOf(v) DEF FramesOf
    <3> QED BY ONLY <3>1, FunctionIsSeq
  <2>2. /\ quoted[v] \in Seq(Prices) /\ conn[v] = "up"
        /\ Len(quoted[v]) + Len(ws) <= MaxMade
        /\ quoted' = [quoted EXCEPT ![v] = quoted[v] \o ws]
    BY <1>2 DEF Receive, Reading
  <2>3. /\ quoted[v] \o ws \in Seq(Prices)
        /\ Len(quoted[v] \o ws) = Len(quoted[v]) + Len(ws)
    BY <2>1, <2>2, ConcatProperties
  <2>4. quoted' \in [Venues -> Seq(Prices)] /\ Len(quoted'[v]) <= MaxMade
    BY <2>2, <2>3
  <2>5. /\ gotData' \in [Venues -> BOOLEAN]
        /\ frame' = [u \in Venues |-> frame'[u]]
        /\ \A u \in Venues \ {v} : gotData'[u] = gotData[u] /\ frame'[u] = frame[u]
    BY <1>2, Zenon DEF Receive
  <2>6. UNCHANGED <<conn, backoff, sleep, inAdd>> /\ ~inAdd[v] BY <1>2 DEF Receive, Reading
  <2>7. \A u \in Venues \ {v} : quoted'[u] = quoted[u] BY <2>2
  <2>8. FeedOK(v)' BY <2>2, <2>4, <2>6
  <2>9. \A u \in Venues \ {v} : FeedOK(u)' BY <2>5, <2>6, <2>7
  <2> QED BY <2>4, <2>5, <2>6, <2>8, <2>9
<1>3. ASSUME NEW v \in Venues, Replay(v) PROVE Feeds'
  <2>1. /\ gotData' \in [Venues -> BOOLEAN]
        /\ \A u \in Venues \ {v} : gotData'[u] = gotData[u]
    BY <1>3, Zenon DEF Replay
  <2>2. conn[v] = "up" /\ UNCHANGED <<quoted, conn, backoff, sleep, frame, inAdd>>
    BY <1>3 DEF Replay, Reading
  <2>3. FeedOK(v)' BY <2>2
  <2>4. \A u \in Venues \ {v} : FeedOK(u)' BY <2>1, <2>2
  <2> QED BY <2>1, <2>2, <2>3, <2>4
<1>4. ASSUME NEW v \in Venues, Tell(v) PROVE Feeds' BY <1>4 DEF Tell
<1>12. ASSUME NEW v \in Venues, Keep(v) PROVE Feeds' BY <1>12 DEF Keep
<1>5. ASSUME NEW v \in Venues, Subscribe(v) PROVE Feeds'
  <2>1. /\ gotData' \in [Venues -> BOOLEAN]
        /\ \A u \in Venues \ {v} : gotData'[u] = gotData[u]
    BY <1>5, Zenon DEF Subscribe
  <2>2. conn' = [conn EXCEPT ![v] = "up"] /\ UNCHANGED <<quoted, backoff, sleep, frame, inAdd>>
    BY <1>5 DEF Subscribe
  <2>3. FeedOK(v)' BY <2>2
  <2>4. \A u \in Venues \ {v} : FeedOK(u)' BY <2>1, <2>2
  <2> QED BY <2>1, <2>2, <2>3, <2>4
<1>6. ASSUME NEW v \in Venues, NEW data \in BOOLEAN, frame[v] = <<>>, Pause(v, data)
      PROVE Feeds'
  <2>1. /\ conn' = [conn EXCEPT ![v] = "sleep"]
        /\ gotData' = [gotData EXCEPT ![v] = data]
        /\ backoff' = [backoff EXCEPT ![v] = IF data THEN BackoffMin ELSE backoff[v]]
        /\ UNCHANGED <<quoted, frame, inAdd>>
    BY <1>6 DEF Pause
  <2>2. PICK s \in 0 .. backoff'[v] - 1 : sleep' = [sleep EXCEPT ![v] = s]
    BY <1>6 DEF Pause
  <2>3. /\ backoff' \in [Venues -> BackoffMin .. BackoffMax]
        /\ data => backoff'[v] = BackoffMin
        /\ s \in Nat /\ s < backoff'[v]
    BY <2>1, <2>2
  <2> QED BY <1>6, <2>1, <2>2, <2>3
<1>7. ASSUME NEW v \in Venues, DialFails(v) PROVE Feeds'
  <2>1. frame[v] = <<>> BY <1>7 DEF DialFails
  <2> QED BY <1>6, <1>7, <2>1 DEF DialFails
<1>8. ASSUME NEW v \in Venues, SessionEnds(v) PROVE Feeds'
  BY <1>6, <1>8 DEF SessionEnds, Reading
<1>9. ASSUME NEW v \in Venues, Wake(v) PROVE Feeds'
  <2>1. Doubled(backoff[v]) \in BackoffMin .. BackoffMax BY DEF Doubled
  <2> QED BY <1>9, <2>1 DEF Wake
<1>10. CASE Browser BY <1>10 DEF Browser
<1>11. CASE UNCHANGED vars BY <1>11 DEF vars
<1> QED BY <1>1, <1>2, <1>3, <1>4, <1>5, <1>7, <1>8, <1>9, <1>10, <1>11, <1>12 DEF Next

LEMMA StepTape == TapeInv /\ [Next]_vars => TapeInv'
<1> SUFFICES ASSUME TapeInv, [Next]_vars PROVE TapeInv' OBVIOUS
<1>1. ASSUME NEW v \in Venues, Tell(v) PROVE TapeInv'
  BY <1>1, StepOnTrade DEF Tell
<1>2. CASE Browser BY <1>2, StepOpen, StepPush, StepClose DEF Browser
<1>3. CASE UNCHANGED tapeVars BY <1>3, SameTape
<1> QED BY <1>1, <1>2, <1>3 DEF Next, vars, Trade, Receive, Replay, Keep, Subscribe, DialFails,
           SessionEnds, Pause, Wake

LEMMA Invariance == Spec => []IInv
<1>1. IInv /\ [Next]_vars => IInv' BY StepFeeds, StepTape DEF IInv
<1> QED BY <1>1, InitIInv, PTL DEF Spec

-----------------------------------------------------------------------------
(* One of the trades made, at its parsed price and of the taker's side.     *)
Genuine(t, made) ==
    /\ t.venue \in Venues
    /\ t.n \in 1 .. Len(made[t.venue])
    /\ t.side = Taker(t.n)
    /\ t.price = ParseFixed(made[t.venue][t.n])
    /\ t.price > 0

(* What the sink has of a venue, and what a frame still holds: later ones.   *)
SinkHas(v) ==
    /\ kept[v] \in Seq(Range(kept[v]))
    /\ \A i \in DOMAIN kept[v] : Genuine(kept[v][i], quoted) /\ kept[v][i].venue = v
    /\ \A i, j \in DOMAIN kept[v] : i < j => kept[v][i].n < kept[v][j].n

Waiting(v) ==
    /\ frame[v] \in Seq(Range(frame[v]))
    /\ \A i \in DOMAIN frame[v] : Genuine(frame[v][i], quoted) /\ frame[v][i].venue = v
    /\ \A i, j \in DOMAIN frame[v] : i < j => frame[v][i].n < frame[v][j].n
    /\ \A i \in DOMAIN kept[v], j \in DOMAIN frame[v] : kept[v][i].n < frame[v][j].n

(* The registry was told of what the sink has and what is in Add.           *)
Adding(v)  == IF inAdd[v] THEN {Head(frame[v])} ELSE {}
Reached(v) == Range(kept[v]) \union Adding(v)

Latest(v) ==
    trades[v] = IF inAdd[v] THEN Head(frame[v])
                ELSE IF kept[v] = <<>> THEN None ELSE kept[v][Len(kept[v])]

ToldInOrder ==
    \A i, j \in DOMAIN told : i < j /\ told[i].venue = told[j].venue => told[i].n < told[j].n

ToldReached == Range(told) = UNION {Reached(v) : v \in Venues}

TradesInv ==
    /\ trades = [v \in Venues |-> trades[v]]
    /\ kept = [v \in Venues |-> kept[v]]
    /\ \A v \in Venues : SinkHas(v) /\ Waiting(v) /\ Latest(v)
    /\ ToldInOrder
    /\ ToldReached

(* A venue that makes more trades changes none it has made.                *)
LEMMA StillGenuine ==
    ASSUME NEW t, Genuine(t, quoted),
           \A v \in Venues : /\ Len(quoted[v]) \in Nat /\ Len(quoted'[v]) \in Nat
                             /\ Len(quoted[v]) <= Len(quoted'[v])
                             /\ \A n \in 1 .. Len(quoted[v]) : quoted'[v][n] = quoted[v][n]
    PROVE  Genuine(t, quoted')
BY DEF Genuine

LEMMA StillTrue ==
    ASSUME TradesInv, UNCHANGED <<told, trades, frame, inAdd, kept>>,
           \A v \in Venues : /\ Len(quoted[v]) \in Nat /\ Len(quoted'[v]) \in Nat
                             /\ Len(quoted[v]) <= Len(quoted'[v])
                             /\ \A n \in 1 .. Len(quoted[v]) : quoted'[v][n] = quoted[v][n]
    PROVE  TradesInv'
<1>1. \A t : Genuine(t, quoted) => Genuine(t, quoted') BY StillGenuine
<1>2. ToldInOrder' /\ \A v \in Venues : Latest(v)' BY DEF TradesInv, ToldInOrder, Latest
<1>3. \A v \in Venues : SinkHas(v)' /\ Waiting(v)' BY <1>1 DEF TradesInv, SinkHas, Waiting
<1>4. ToldReached' BY DEF TradesInv, ToldReached, Reached, Adding
<1> QED BY <1>1, <1>2, <1>3, <1>4 DEF TradesInv

(* Coinbase's side is turned twice.                                        *)
LEMMA NormalizeFacts ==
    ASSUME NEW v, NEW n, NEW w, Parses(w)
    PROVE  /\ Normalize(v, n, w).venue = v /\ Normalize(v, n, w).n = n
           /\ Normalize(v, n, w).side = Taker(n)
           /\ Normalize(v, n, w).price = ParseFixed(w)
           /\ ParseFixed(w) > 0
<1>1. Taker(n) \in {"buy", "sell"} BY DEF Taker
<1>2. Opposite["buy"] = "sell" /\ Opposite["sell"] = "buy" BY DEF Opposite
<1>3. Opposite[Opposite[Taker(n)]] = Taker(n) BY <1>1, <1>2
<1>4. ParseFixed(w) > 0 BY DEF Parses
<1> QED BY <1>3, <1>4 DEF Normalize, WireSide

LEMMA MoreQuoted ==
    ASSUME Feeds, NEW v \in Venues, NEW ws \in Seq(Prices),
           quoted' = [quoted EXCEPT ![v] = quoted[v] \o ws]
    PROVE  /\ \A u \in Venues : /\ Len(quoted[u]) \in Nat /\ Len(quoted'[u]) \in Nat
                                /\ Len(quoted[u]) <= Len(quoted'[u])
                                /\ \A n \in 1 .. Len(quoted[u]) : quoted'[u][n] = quoted[u][n]
           /\ Len(quoted'[v]) = Len(quoted[v]) + Len(ws)
           /\ \A i \in 1 .. Len(ws) : quoted'[v][Len(quoted[v]) + i] = ws[i]
<1>1. \A u \in Venues : quoted[u] \in Seq(Prices) BY DEF Feeds
<1>2. /\ quoted'[v] = quoted[v] \o ws
      /\ \A u \in Venues \ {v} : quoted'[u] = quoted[u]
  BY DEF Feeds
<1> DEFINE q == quoted[v] \o ws
<1>3. /\ Len(q) = Len(quoted[v]) + Len(ws)
      /\ \A i \in 1 .. Len(quoted[v]) : q[i] = quoted[v][i]
      /\ \A i \in 1 .. Len(ws) : q[Len(quoted[v]) + i] = ws[i]
  BY <1>1
<1>4. Len(ws) \in Nat /\ \A u \in Venues : Len(quoted[u]) \in Nat BY <1>1
<1> HIDE DEF q
<1>5. quoted'[v] = q BY <1>2 DEF q
<1>6. \A n \in 1 .. Len(quoted[v]) : quoted'[v][n] = quoted[v][n] BY <1>3, <1>5
<1>7. Len(quoted'[v]) = Len(quoted[v]) + Len(ws) BY <1>3, <1>5
<1>8. \A i \in 1 .. Len(ws) : quoted'[v][Len(quoted[v]) + i] = ws[i] BY <1>3, <1>5
<1>9. \A u \in Venues : /\ Len(quoted'[u]) \in Nat
                        /\ Len(quoted[u]) <= Len(quoted'[u])
                        /\ \A n \in 1 .. Len(quoted[u]) : quoted'[u][n] = quoted[u][n]
  <2> TAKE u \in Venues
  <2>1. CASE u = v BY <1>4, <1>6, <1>7, <2>1
  <2>2. CASE u # v BY <1>2, <1>4, <2>2
  <2> QED BY <2>1, <2>2
<1> QED BY <1>4, <1>7, <1>8, <1>9

LEMMA ReceiveTrades ==
    ASSUME TapeInv, Feeds, TradesInv, NEW v \in Venues, NEW ws \in FramesOf(v), Receive(v, ws)
    PROVE  TradesInv'
<1>1. PICK k \in Nat : ws \in [1 .. k -> Prices] BY DEF FramesOf
<1>2. ws \in Seq(Prices) BY <1>1, FunctionIsSeq
<1>3. /\ quoted' = [quoted EXCEPT ![v] = quoted[v] \o ws]
      /\ UNCHANGED <<told, trades, kept, inAdd>> /\ ~inAdd[v]
  BY DEF Receive, Reading, tapeVars, registryVars, Feeds, FeedOK
<1>4. /\ \A u \in Venues : /\ Len(quoted[u]) \in Nat /\ Len(quoted'[u]) \in Nat
                           /\ Len(quoted[u]) <= Len(quoted'[u])
                           /\ \A n \in 1 .. Len(quoted[u]) : quoted'[u][n] = quoted[u][n]
      /\ Len(quoted'[v]) = Len(quoted[v]) + Len(ws)
      /\ \A i \in 1 .. Len(ws) : quoted'[v][Len(quoted[v]) + i] = ws[i]
  BY <1>2, <1>3, MoreQuoted
<1>5. CASE UNCHANGED frame BY <1>3, <1>4, <1>5, StillTrue
<1>6. CASE \A i \in DOMAIN ws : Parses(ws[i])
  <2> DEFINE base == Len(quoted[v])
             f == [i \in DOMAIN ws |-> Normalize(v, base + i, ws[i])]
  <2>1. frame' = [frame EXCEPT ![v] = f] BY <1>6 DEF Receive
  <2>2. frame'[v] = f /\ \A u \in Venues \ {v} : frame'[u] = frame[u]
    BY <2>1 DEF Feeds
  <2>3. DOMAIN ws = 1 .. Len(ws) /\ Len(ws) \in Nat /\ base \in Nat BY <1>2, <1>4
  <2>4. \A i \in 1 .. Len(ws) :
           /\ f[i].venue = v /\ f[i].n = base + i
           /\ f[i].side = Taker(base + i)
           /\ f[i].price = ParseFixed(ws[i]) /\ ParseFixed(ws[i]) > 0
    BY <1>6, <2>3, NormalizeFacts
  <2>5. f \in Seq(Range(f)) /\ DOMAIN f = 1 .. Len(ws)
    <3>1. f \in [1 .. Len(ws) -> Range(f)] BY <2>3 DEF Range
    <3> HIDE DEF f
    <3>2. f \in Seq(Range(f)) BY <2>3, <3>1, FunctionIsSeq
    <3> QED BY <3>1, <3>2
  <2> HIDE DEF f
  <2>6. \A t : Genuine(t, quoted) => Genuine(t, quoted') BY <1>4, StillGenuine
  <2>7. ASSUME NEW i \in 1 .. Len(ws) PROVE Genuine(f[i], quoted')
    <3>1. base + i \in 1 .. Len(quoted'[v]) /\ quoted'[v][base + i] = ws[i]
      BY <1>4, <2>3
    <3> HIDE DEF base
    <3> QED BY <2>4, <3>1 DEF Genuine
  <2>8. ASSUME NEW i \in DOMAIN kept[v], NEW j \in 1 .. Len(ws)
        PROVE  kept[v][i].n < f[j].n
    <3>1. kept[v][i].n \in 1 .. base BY <2>8 DEF TradesInv, SinkHas, Genuine
    <3> QED BY <2>3, <2>4, <3>1
  <2>9. \A i, j \in 1 .. Len(ws) : i < j => f[i].n < f[j].n BY <2>3, <2>4
  <2>10. Waiting(v)'
    <3> HIDE DEF base
    <3> QED BY <1>3, <2>2, <2>4, <2>5, <2>7, <2>8, <2>9 DEF Waiting
  <2>11. \A u \in Venues \ {v} : Waiting(u)'
    BY <1>3, <2>2, <2>6 DEF TradesInv, Waiting
  <2>12. ToldInOrder' BY <1>3 DEF TradesInv, ToldInOrder
  <2>13. \A u \in Venues : SinkHas(u)' BY <1>3, <2>6 DEF TradesInv, SinkHas
  <2>14. \A u \in Venues : inAdd[u] => Head(frame'[u]) = Head(frame[u]) BY <1>3, <2>2
  <2>15. \A u \in Venues : Latest(u)' BY <1>3, <2>14 DEF TradesInv, Latest
  <2>16. \A u \in Venues : Reached(u)' = Reached(u) BY <1>3, <2>14 DEF Reached, Adding
  <2>17. ToldReached' BY <1>3, <2>16 DEF TradesInv, ToldReached
  <2> QED BY <1>3, <2>10, <2>11, <2>12, <2>13, <2>15, <2>17 DEF TradesInv
<1> QED BY <1>5, <1>6 DEF Receive

LEMMA TellTrades ==
    ASSUME TapeInv, Feeds, TradesInv, NEW v \in Venues, Tell(v)
    PROVE  TradesInv'
<1> DEFINE t == Head(frame[v])
<1>1. /\ told' = Append(told, t) /\ trades' = [trades EXCEPT ![t.venue] = t]
      /\ inAdd' = [inAdd EXCEPT ![v] = TRUE] /\ ~inAdd[v]
      /\ UNCHANGED <<quoted, frame, kept>>
  BY DEF Tell, OnTrade
<1>2. 1 \in DOMAIN frame[v] /\ t = frame[v][1] BY DEF TradesInv, Waiting, Tell
<1>3. t.venue = v /\ \A i \in DOMAIN kept[v] : kept[v][i].n < t.n
  BY <1>2 DEF TradesInv, Waiting
<1> HIDE DEF t
<1>4. /\ Len(told) \in Nat /\ DOMAIN told = 1 .. Len(told)
      /\ DOMAIN told' = 1 .. Len(told) + 1
      /\ told'[Len(told) + 1] = t
      /\ \A i \in DOMAIN told : told'[i] = told[i]
  BY <1>1, AppendFacts DEF TapeInv, Ring
<1>5. /\ trades' = [u \in Venues |-> trades'[u]]
      /\ trades'[v] = t /\ \A u \in Venues \ {v} : trades'[u] = trades[u]
  BY <1>1, <1>3 DEF TradesInv
<1>6. inAdd'[v] = TRUE /\ \A u \in Venues \ {v} : inAdd'[u] = inAdd[u] BY <1>1 DEF Feeds
<1>7. \A u \in Venues : SinkHas(u)' /\ Waiting(u)'
  BY <1>1 DEF TradesInv, SinkHas, Waiting, Genuine
<1>8. ASSUME NEW u \in Venues PROVE Latest(u)'
  <2>1. CASE u = v BY <1>1, <1>5, <1>6, <2>1 DEF Latest, t
  <2>2. CASE u # v BY <1>1, <1>5, <1>6, <2>2 DEF TradesInv, Latest
  <2> QED BY <2>1, <2>2
(* None of that venue was told of later.                                   *)
<1>9. ASSUME NEW i \in DOMAIN told, told[i].venue = v PROVE told[i].n < t.n
  <2>1. PICK u \in Venues : told[i] \in Reached(u)
    <3>1. told[i] \in Range(told) BY DEF Range
    <3> QED BY <3>1 DEF TradesInv, ToldReached
  <2>2. \A x \in Reached(u) : x.venue = u
    <3>1. \A x \in Range(kept[u]) : x.venue = u
      <4>1. \A i2 \in DOMAIN kept[u] : kept[u][i2].venue = u BY DEF TradesInv, SinkHas
      <4> QED BY <4>1 DEF Range
    <3>2. inAdd[u] => Head(frame[u]).venue = u
      <4> SUFFICES ASSUME inAdd[u] PROVE Head(frame[u]).venue = u OBVIOUS
      <4>1. frame[u] # <<>> /\ frame[u] \in Seq(Range(frame[u]))
        BY DEF Feeds, FeedOK, TradesInv, Waiting
      <4>2. Head(frame[u]) = frame[u][1] /\ 1 \in DOMAIN frame[u] BY <4>1
      <4> QED BY <4>2 DEF TradesInv, Waiting
    <3> QED BY <3>1, <3>2 DEF Reached, Adding
  <2>3. u = v BY <1>9, <2>1, <2>2
  <2>4. told[i] \in Range(kept[v]) BY <1>1, <2>1, <2>3 DEF Reached, Adding
  <2> QED BY <1>3, <2>4 DEF Range
<1>10. ToldInOrder'
  <2> SUFFICES ASSUME NEW i \in DOMAIN told', NEW j \in DOMAIN told', i < j,
                      told'[i].venue = told'[j].venue
               PROVE  told'[i].n < told'[j].n
    BY DEF ToldInOrder
  <2>1. i \in DOMAIN told /\ told'[i] = told[i] BY <1>4
  <2>2. CASE j \in DOMAIN told BY <1>4, <2>1, <2>2 DEF TradesInv, ToldInOrder
  <2>3. CASE j = Len(told) + 1 BY <1>3, <1>4, <1>9, <2>1, <2>3
  <2> QED BY <1>4, <2>2, <2>3
<1>11. ToldReached'
  <2>1. Range(told') = Range(told) \union {t}
    <3>1. DOMAIN told' = DOMAIN told \union {Len(told) + 1} BY <1>4
    <3> QED BY <1>4, <3>1 DEF Range
  <2>2. Reached(v)' = Reached(v) \union {t} BY <1>1, <1>6 DEF Reached, Adding, t
  <2>3. \A u \in Venues \ {v} : Reached(u)' = Reached(u) BY <1>1, <1>6 DEF Reached, Adding
  <2>4. UNION {Reached(u)' : u \in Venues} = (UNION {Reached(u) : u \in Venues}) \union {t}
    BY ONLY <2>2, <2>3, v \in Venues
  <2> QED BY <2>1, <2>4 DEF TradesInv, ToldReached
<1>12. kept' = [u \in Venues |-> kept'[u]] BY <1>1 DEF TradesInv
<1> QED BY <1>5, <1>7, <1>8, <1>10, <1>11, <1>12 DEF TradesInv

LEMMA KeepTrades ==
    ASSUME TapeInv, Feeds, TradesInv, NEW v \in Venues, Keep(v)
    PROVE  TradesInv'
<1> DEFINE t == Head(frame[v])
           f == Tail(frame[v])
           k == Append(kept[v], t)
<1>1. /\ kept' = [kept EXCEPT ![v] = k] /\ frame' = [frame EXCEPT ![v] = f]
      /\ inAdd' = [inAdd EXCEPT ![v] = FALSE] /\ inAdd[v]
      /\ UNCHANGED <<told, trades, quoted>>
  BY DEF Keep, tapeVars, registryVars
<1>2. /\ frame[v] \in Seq(Range(frame[v])) /\ frame[v] # <<>>
      /\ 1 \in DOMAIN frame[v] /\ t = frame[v][1]
      /\ DOMAIN frame[v] = 1 .. Len(frame[v]) /\ Len(frame[v]) \in Nat
  <2>1. frame[v] # <<>> /\ frame[v] \in Seq(Range(frame[v]))
    BY <1>1 DEF Feeds, FeedOK, TradesInv, Waiting
  <2> QED BY <2>1
<1>3. /\ f \in Seq(Range(f)) /\ DOMAIN f = 1 .. Len(frame[v]) - 1
      /\ \A i \in DOMAIN f : i + 1 \in DOMAIN frame[v] /\ f[i] = frame[v][i + 1]
  <2>1. f \in Seq(Range(frame[v])) BY <1>2, HeadTailProperties
  <2>2. f \in Seq(Range(f)) BY <2>1, SeqOfRange
  <2>3. /\ Len(f) = Len(frame[v]) - 1
        /\ \A i \in 1 .. Len(f) : f[i] = frame[v][i + 1]
    BY <1>2
  <2>4. DOMAIN f = 1 .. Len(f) BY <2>1
  <2> QED BY <1>2, <2>2, <2>3, <2>4
<1>4. Genuine(t, quoted) /\ t.venue = v BY <1>2 DEF TradesInv, Waiting
<1>5. /\ kept[v] \in Seq(Range(kept[v])) /\ Len(kept[v]) \in Nat
      /\ DOMAIN kept[v] = 1 .. Len(kept[v])
  <2>1. kept[v] \in Seq(Range(kept[v])) BY DEF TradesInv, SinkHas
  <2> QED BY <2>1
<1>6. /\ k \in Seq(Range(k)) /\ DOMAIN k = 1 .. Len(kept[v]) + 1
      /\ Len(k) = Len(kept[v]) + 1 /\ k # <<>>
      /\ k[Len(kept[v]) + 1] = t
      /\ \A i \in DOMAIN kept[v] : k[i] = kept[v][i]
  <2>1. /\ k \in Seq(Range(k)) /\ Len(k) = Len(kept[v]) + 1
        /\ k[Len(kept[v]) + 1] = t
        /\ \A i \in 1 .. Len(kept[v]) : k[i] = kept[v][i]
    BY <1>5, AppendFacts
  <2> HIDE DEF k
  <2>2. DOMAIN k = 1 .. Len(k) BY <2>1
  <2> QED BY <1>5, <2>1, <2>2
<1>7. /\ \A i \in DOMAIN kept[v] : kept[v][i].n < t.n
      /\ \A i \in DOMAIN f : Genuine(f[i], quoted) /\ f[i].venue = v
      /\ \A i, j \in DOMAIN f : i < j => f[i].n < f[j].n
      /\ \A i \in DOMAIN f : t.n < f[i].n
      /\ \A i \in DOMAIN kept[v], j \in DOMAIN f : kept[v][i].n < f[j].n
  <2> HIDE DEF t, f
  <2>1. /\ \A i \in DOMAIN frame[v] : Genuine(frame[v][i], quoted) /\ frame[v][i].venue = v
        /\ \A i, j \in DOMAIN frame[v] : i < j => frame[v][i].n < frame[v][j].n
        /\ \A i \in DOMAIN kept[v], j \in DOMAIN frame[v] : kept[v][i].n < frame[v][j].n
    BY DEF TradesInv, Waiting
  <2>2. \A i \in DOMAIN f : i \in Int /\ 1 < i + 1 BY <1>2, <1>3
  <2>3. ASSUME NEW i \in DOMAIN f, NEW j \in DOMAIN f, i < j PROVE f[i].n < f[j].n
    <3>1. i + 1 < j + 1 BY <2>2, <2>3
    <3> QED BY <1>3, <2>1, <3>1
  <2>4. ASSUME NEW i \in DOMAIN f PROVE t.n < f[i].n BY <1>2, <1>3, <2>1, <2>2
  <2>5. \A i \in DOMAIN kept[v] : kept[v][i].n < t.n BY <1>2, <2>1
  <2>6. \A i \in DOMAIN f : Genuine(f[i], quoted) /\ f[i].venue = v BY <1>3, <2>1
  <2>7. \A i \in DOMAIN kept[v], j \in DOMAIN f : kept[v][i].n < f[j].n BY <1>3, <2>1
  <2> QED BY <2>3, <2>4, <2>5, <2>6, <2>7
<1> HIDE DEF f, k
<1>8. /\ kept'[v] = k /\ frame'[v] = f /\ inAdd'[v] = FALSE
      /\ \A u \in Venues \ {v} : /\ kept'[u] = kept[u] /\ frame'[u] = frame[u]
                                 /\ inAdd'[u] = inAdd[u]
      /\ kept' = [u \in Venues |-> kept'[u]]
  BY <1>1 DEF Feeds, TradesInv
<1>9. trades[v] = t BY <1>1 DEF TradesInv, Latest
<1>10. Reached(v)' = Reached(v)
  <2>1. Range(k) = Range(kept[v]) \union {t}
    <3>1. DOMAIN k = DOMAIN kept[v] \union {Len(kept[v]) + 1} BY <1>5, <1>6
    <3> HIDE DEF t
    <3> QED BY <1>6, <3>1 DEF Range
  <2> QED BY <1>1, <1>8, <2>1 DEF Reached, Adding
<1> HIDE DEF t
<1>11. \A i \in DOMAIN k : \/ i \in DOMAIN kept[v] /\ k[i] = kept[v][i]
                           \/ i = Len(kept[v]) + 1 /\ k[i] = t
  BY <1>5, <1>6
<1>12. SinkHas(v)'
  <2>1. \A i \in DOMAIN k : Genuine(k[i], quoted) /\ k[i].venue = v
    BY <1>4, <1>11 DEF TradesInv, SinkHas
  <2>2. ASSUME NEW i \in DOMAIN k, NEW j \in DOMAIN k, i < j PROVE k[i].n < k[j].n
    <3>1. i \in DOMAIN kept[v] /\ k[i] = kept[v][i] BY <1>5, <1>6, <2>2
    <3>2. CASE j \in DOMAIN kept[v] BY <1>6, <2>2, <3>1, <3>2 DEF TradesInv, SinkHas
    <3>3. CASE j = Len(kept[v]) + 1 BY <1>6, <1>7, <3>1, <3>3
    <3> QED BY <1>11, <3>2, <3>3
  <2> QED BY <1>1, <1>6, <1>8, <2>1, <2>2 DEF SinkHas, Genuine
<1>13. Waiting(v)'
  <2>1. \A i \in DOMAIN k, j \in DOMAIN f : k[i].n < f[j].n BY <1>7, <1>11
  <2> QED BY <1>1, <1>3, <1>7, <1>8, <2>1 DEF Waiting, Genuine
<1>14. Latest(v)' BY <1>1, <1>6, <1>8, <1>9 DEF Latest
<1>15. ASSUME NEW u \in Venues, u # v
       PROVE  SinkHas(u)' /\ Waiting(u)' /\ Latest(u)' /\ Reached(u)' = Reached(u)
  <2>1. kept'[u] = kept[u] /\ frame'[u] = frame[u] /\ inAdd'[u] = inAdd[u] BY <1>8, <1>15
  <2>2. SinkHas(u)'
    <3>1. \A x : Genuine(x, quoted) => Genuine(x, quoted') BY <1>1 DEF Genuine
    <3> QED BY <2>1, <3>1 DEF TradesInv, SinkHas
  <2>3. Waiting(u)' BY <1>1, <2>1 DEF TradesInv, Waiting, Genuine
  <2>4. Latest(u)' BY <1>1, <2>1 DEF TradesInv, Latest
  <2>5. Reached(u)' = Reached(u) BY <2>1 DEF Reached, Adding
  <2> QED BY <2>2, <2>3, <2>4, <2>5
<1>16. ToldInOrder' BY <1>1 DEF TradesInv, ToldInOrder
<1>17. ToldReached'
  <2>1. \A u \in Venues : Reached(u)' = Reached(u) BY <1>10, <1>15
  <2> QED BY <1>1, <2>1 DEF TradesInv, ToldReached
<1>18. \A u \in Venues : SinkHas(u)' /\ Waiting(u)' /\ Latest(u)'
  BY <1>12, <1>13, <1>14, <1>15
<1> QED BY <1>1, <1>8, <1>16, <1>17, <1>18 DEF TradesInv

LEMMA StepTrades ==
    TapeInv /\ Feeds /\ TradesInv /\ [Next]_vars => TradesInv'
<1> SUFFICES ASSUME TapeInv, Feeds, TradesInv, [Next]_vars PROVE TradesInv' OBVIOUS
<1>1. ASSUME NEW v \in Venues, NEW w \in Prices, Trade(v, w) PROVE TradesInv'
  <2>1. quoted[v] \in Seq(Prices) /\ <<w>> \in Seq(Prices) BY DEF Feeds
  <2>2. Append(quoted[v], w) = quoted[v] \o <<w>> BY <2>1
  <2>3. quoted' = [quoted EXCEPT ![v] = quoted[v] \o <<w>>] BY <1>1, <2>2 DEF Trade
  <2>4. UNCHANGED <<told, trades, frame, inAdd, kept>>
    BY <1>1 DEF Trade, tapeVars, registryVars, sinkVars
  <2> QED BY <2>1, <2>3, <2>4, MoreQuoted, StillTrue
<1>2. CASE UNCHANGED <<told, trades, frame, inAdd, kept, quoted>>
  <2>1. \A v \in Venues : Len(quoted[v]) \in Nat BY DEF Feeds
  <2> QED BY <1>2, <2>1, StillTrue
<1> QED BY <1>1, <1>2, ReceiveTrades, TellTrades, KeepTrades
    DEF Next, vars, tapeVars, sinkVars, registryVars, Replay, Subscribe, DialFails, SessionEnds,
        Pause, Wake, Browser, Open, Push, Close

LEMMA TradesInvariance == Spec => [](IInv /\ TradesInv)
<1>1. Init => TradesInv
  <2> SUFFICES ASSUME Init PROVE TradesInv OBVIOUS
  <2>1. /\ told = <<>> /\ trades = [v \in Venues |-> None]
        /\ frame = [v \in Venues |-> <<>>] /\ kept = [v \in Venues |-> <<>>]
        /\ inAdd = [v \in Venues |-> FALSE]
    BY DEF Init, TapeInit
  <2>2. <<>> \in Seq(Range(<<>>)) BY EmptySeq, SeqOfRange
  <2>3. \A v \in Venues : SinkHas(v) /\ Waiting(v) /\ Latest(v)
    BY <2>1, <2>2 DEF SinkHas, Waiting, Latest
  <2>4. ToldReached BY <2>1 DEF ToldReached, Reached, Adding, Range
  <2> QED BY <2>1, <2>3, <2>4 DEF TradesInv, ToldInOrder
<1>2. TradesInv /\ IInv /\ [Next]_vars => TradesInv' BY StepTrades DEF IInv
<1> QED BY <1>1, <1>2, Invariance, PTL DEF Spec

-----------------------------------------------------------------------------
(* Types: the ring is the end of what the registry was told, the backoff    *)
(* stays within its bounds, and after a session with data the pause is short.           *)
THEOREM TypeCorrectness == Spec => []TypeOK
<1>1. IInv => TypeOK
  <2> SUFFICES ASSUME IInv PROVE TypeOK OBVIOUS
  <2>1. DOMAIN recent = 1 .. Len(recent) BY DEF IInv, TapeInv, Ring
  <2>2. \A v \in Venues : FeedOK(v) /\ quoted[v] \in Seq(Prices) BY DEF IInv, Feeds
  <2> QED BY <2>1, <2>2 DEF IInv, TapeInv, Ring, Stream, Feeds, FeedOK, TypeOK
<1> QED BY <1>1, Invariance, PTL

(* registry.go:127-128, server.go:151-168: a stream is sent every trade     *)
(* from its first cursor on, in order and once, but those that left the    *)
(* ring before it looked.                                                  *)
THEOREM StreamsSkipNothing == Spec => []StreamSkipsNothing
<1>1. IInv => StreamSkipsNothing BY DEF IInv, TapeInv, Stream
<1> QED BY <1>1, Invariance, PTL

(* fixed.go:16-22, coinbase/parse.go:42-56, main.go:69-77, DECISIONS.md D2  *)
(* and D11: every trade the sink has is one of its venue, once, in order, at *)
(* its exact price and with the taker's side, over any reconnects and lost *)
(* or repeated frames and however long Add blocks; the registry was told   *)
(* of those and of the ones in Add, in order too, and knows the latest.    *)
THEOREM TradesStayTrue == Spec => []TradesAreTrue
<1>1. TradesInv => TradesAreTrue
  <2> SUFFICES ASSUME TradesInv PROVE TradesAreTrue OBVIOUS
  <2>1. UNION {Adding(v) : v \in Venues} = {Head(frame[v]) : v \in {u \in Venues : inAdd[u]}}
    BY DEF Adding
  <2>2. UNION {Reached(v) : v \in Venues}
          = (UNION {Range(kept[v]) : v \in Venues}) \union (UNION {Adding(v) : v \in Venues})
    BY DEF Reached
  <2>3. Range(told) = (UNION {Range(kept[v]) : v \in Venues})
                      \union {Head(frame[v]) : v \in {u \in Venues : inAdd[u]}}
    BY <2>1, <2>2 DEF TradesInv, ToldReached
  <2> QED BY <2>3, NumbersExact DEF TradesInv, SinkHas, Genuine, ToldInOrder, Latest, TradesAreTrue
<1> QED BY <1>1, TradesInvariance, PTL
=============================================================================
