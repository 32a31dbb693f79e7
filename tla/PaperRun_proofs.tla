-------------------------- MODULE PaperRun_proofs ---------------------------
(***************************************************************************)
(* What a run keeps of its promises, for every value of the constants.     *)
(* First what each handler does to the run, in terms of BookOps; then the  *)
(* invariants that hold whatever is killed and whatever write fails; then  *)
(* those of a run whose process only ends between two handlers.  Then its  *)
(* trades, in its books, in state.json and in trades.jsonl: that none is   *)
(* recorded twice, and what is exact between two handlers.  Last the       *)
(* advisor of a rule-based run: that each verdict is followed by the fill  *)
(* of the entry it was about, and that nothing but a verdict makes the     *)
(* book and its shadow differ.                                             *)
(***************************************************************************)
EXTENDS PaperRun, BookOps_proofs

BookNames == {"main", "shadow"}
TradeLines == [book: BookNames, trade: Trades]
Destinations == {"state.json", "fills.jsonl", "trades.jsonl", "removal", "runs",
                 "decider", "advisor", "stopper"}
Writes == [to: Destinations, lines: Seq(TradeLines)]

(* A quote of a stream that has got as far as newest. *)
Quoted(q, newest) ==
  q # None => \E t \in Times, s \in BarShapes, sides \in Quotes \cup {None} :
                /\ q = [time |-> t, last |-> s.close, sides |-> sides]
                /\ newest # None /\ t <= newest

TypeOK ==
  /\ run \in Runs
  /\ disk \in [state: Runs \cup {None}, history: Seq(TradeLines)]
  /\ writes \in Seq(Writes)
  /\ copies = [settle |-> copies.settle, act |-> copies.act]
  /\ Quoted(quote, feed) /\ Quoted(copies.settle, feed) /\ Quoted(copies.act, feed)
  /\ feed \in Level

-----------------------------------------------------------------------------
(* The writes of the handlers, spelled out. *)
Item(name, t) == [to |-> "trades.jsonl", lines |-> <<[book |-> name, trade |-> t]>>]
NoneOrOne(trades) == trades = << >> \/ \E t \in Trades : trades = <<t>>

LEMMA PlainWrites ==
  /\ {SaveState, Row, RemoveState, Insert} \subseteq Writes
  /\ \A what \in Destinations : Answer(what) \in Writes
  /\ SaveState.to = "state.json" /\ Row.to = "fills.jsonl" /\ RemoveState.to = "removal"
  /\ Insert.to = "runs" /\ \A what : Answer(what).to = what
  /\ \A name \in BookNames, t \in Trades : Item(name, t) \in Writes
<1>1. << >> \in Seq(TradeLines)
  BY EmptySeq
<1>2. \A name \in BookNames, t \in Trades : <<[book |-> name, trade |-> t]>> \in Seq(TradeLines)
  BY DEF TradeLines
<1> QED BY <1>1, <1>2
     DEF SaveState, Row, RemoveState, Insert, Answer, Item, Writes, Destinations

LEMMA LinesOf ==
  ASSUME NEW name \in BookNames, NEW trades, NoneOrOne(trades)
  PROVE  /\ trades = << >> => Lines(name, trades) = << >>
         /\ \A t \in Trades : trades = <<t>> => Lines(name, trades) = <<Item(name, t)>>
<1>1. trades = << >> => Lines(name, trades) = << >>
  BY DEF Lines
<1>2. ASSUME NEW t \in Trades, trades = <<t>>
      PROVE  Lines(name, trades) = <<Item(name, t)>>
  <2>1. DOMAIN trades = 1..1 /\ trades[1] = t /\ trades # << >>
    BY <1>2
  <2>2. [i \in DOMAIN trades |-> [book |-> name, trade |-> trades[i]]]
          = <<[book |-> name, trade |-> t]>>
    BY <2>1
  <2> QED BY <2>1, <2>2 DEF Lines, Item
<1> QED BY <1>1, <1>2

LEMMA ConcatOne ==
  ASSUME NEW S, NEW s \in Seq(S), NEW x \in S
  PROVE  /\ s \o <<x>> \in Seq(S) /\ Len(s \o <<x>>) = Len(s) + 1
         /\ \A i \in 1..Len(s) : (s \o <<x>>)[i] = s[i]
         /\ (s \o <<x>>)[Len(s) + 1] = x
         /\ s \o << >> = s /\ s \o <<x>> = Append(s, x)
<1>1. s \o <<x>> = Append(s, x)
  BY AppendIsConcat
<1>2. s \o << >> = s
  BY ConcatEmptySeq
<1> QED BY <1>1, <1>2, AppendProperties

(* A bar's writes: the state, a row, then a line for each book that closed a
   trade. *)
LEMMA BarWritesOf ==
  ASSUME NEW main, NEW shadow, NoneOrOne(main), NoneOrOne(shadow)
  PROVE  LET w == BarWrites(main, shadow)
         IN  /\ w \in Seq(Writes) /\ Len(w) \in 2..4 /\ w[1] = SaveState /\ w[2] = Row
             /\ \A i \in 3..Len(w) :
                  \/ main # << >> /\ main[1] \in Trades /\ w[i] = Item("main", main[1]) /\ i = 3
                  \/ /\ shadow # << >> /\ shadow[1] \in Trades
                     /\ w[i] = Item("shadow", shadow[1]) /\ i = Len(w)
             /\ main # << >> => Len(w) >= 3 /\ w[3] = Item("main", main[1])
             /\ shadow # << >> => Len(w) >= 3 /\ w[Len(w)] = Item("shadow", shadow[1])
<1> DEFINE a == Item("main", main[1])
           b == Item("shadow", shadow[1])
           m == Lines("main", main)
           s == Lines("shadow", shadow)
           w2 == <<SaveState, Row>>
           w3 == w2 \o m
           w == w3 \o s
<1>1. /\ SaveState \in Writes /\ Row \in Writes
      /\ \A name \in BookNames, t \in Trades : Item(name, t) \in Writes
  BY PlainWrites
<1>2. IF main = << >> THEN m = << >> ELSE main[1] \in Trades /\ m = <<a>> /\ a \in Writes
  <2>1. CASE main = << >>
    BY <2>1, LinesOf DEF BookNames
  <2>2. ASSUME NEW t \in Trades, main = <<t>>  PROVE <1>2
    <3>1. main[1] = t /\ main # << >>
      BY <2>2
    <3>2. m = <<Item("main", t)>> /\ Item("main", t) \in Writes
      BY <1>1, <2>2, LinesOf DEF BookNames, NoneOrOne
    <3> QED BY <3>1, <3>2
  <2> QED BY <2>1, <2>2 DEF NoneOrOne
<1>3. IF shadow = << >> THEN s = << >> ELSE shadow[1] \in Trades /\ s = <<b>> /\ b \in Writes
  <2>1. CASE shadow = << >>
    BY <2>1, LinesOf DEF BookNames
  <2>2. ASSUME NEW t \in Trades, shadow = <<t>>  PROVE <1>3
    <3>1. shadow[1] = t /\ shadow # << >>
      BY <2>2
    <3>2. s = <<Item("shadow", t)>> /\ Item("shadow", t) \in Writes
      BY <1>1, <2>2, LinesOf DEF BookNames, NoneOrOne
    <3> QED BY <3>1, <3>2
  <2> QED BY <2>1, <2>2 DEF NoneOrOne
<1>4. BarWrites(main, shadow) = w
  BY DEF BarWrites
<1>5. w2 \in Seq(Writes) /\ Len(w2) = 2 /\ w2[1] = SaveState /\ w2[2] = Row
  BY <1>1
<1> HIDE DEF a, b, m, s, w2
<1>6. /\ w3 \in Seq(Writes) /\ w3[1] = SaveState /\ w3[2] = Row
      /\ IF main = << >> THEN Len(w3) = 2 ELSE Len(w3) = 3 /\ w3[3] = a
  <2>1. CASE main = << >>
    <3>1. w3 = w2
      BY <1>2, <1>5, <2>1, ConcatEmptySeq
    <3> QED BY <1>5, <2>1, <3>1
  <2>2. CASE main # << >>
    <3>1. w3 = w2 \o <<a>> /\ a \in Writes
      BY <1>2, <2>2
    <3>0. w2 \in Seq(Writes)
      BY <1>5
    <3> HIDE DEF w3
    <3>2. /\ w3 \in Seq(Writes) /\ Len(w3) = Len(w2) + 1
          /\ \A i \in 1..Len(w2) : w3[i] = w2[i]
          /\ w3[Len(w2) + 1] = a
      BY <3>0, <3>1, ConcatOne
    <3> QED BY <1>5, <2>2, <3>2
  <2> QED BY <2>1, <2>2
<1>7. /\ w \in Seq(Writes) /\ \A i \in 1..Len(w3) : w[i] = w3[i]
      /\ IF shadow = << >> THEN Len(w) = Len(w3)
         ELSE Len(w) = Len(w3) + 1 /\ w[Len(w3) + 1] = b
  <2> HIDE DEF w3
  <2>1. CASE shadow = << >>
    <3>1. w = w3
      BY <1>3, <1>6, <2>1, ConcatEmptySeq
    <3> QED BY <1>6, <2>1, <3>1
  <2>2. CASE shadow # << >>
    <3>1. w = w3 \o <<b>> /\ b \in Writes
      BY <1>3, <2>2
    <3> HIDE DEF w
    <3>2. /\ w \in Seq(Writes) /\ Len(w) = Len(w3) + 1
          /\ \A i \in 1..Len(w3) : w[i] = w3[i]
          /\ w[Len(w3) + 1] = b
      BY <1>6, <3>1, ConcatOne
    <3> QED BY <2>2, <3>2
  <2> QED BY <2>1, <2>2
<1> HIDE DEF w3, w
<1>8. /\ Len(w3) \in 2..3 /\ Len(w) \in 2..4
      /\ Len(w) >= Len(w3) /\ Len(w) <= Len(w3) + 1
  <2>1. Len(w3) = 2 \/ Len(w3) = 3
    BY <1>6
  <2>2. Len(w) = Len(w3) \/ Len(w) = Len(w3) + 1
    BY <1>7
  <2>3. Len(w3) \in Nat /\ Len(w) \in Nat
    BY <1>6, <1>7, LenProperties
  <2>4. \A k, n \in Nat : (k = 2 \/ k = 3) /\ (n = k \/ n = k + 1)
                         => k \in 2..3 /\ n \in 2..4 /\ n >= k /\ n <= k + 1
    OBVIOUS
  <2> QED BY <2>1, <2>2, <2>3, <2>4, Zenon
<1>9. w[1] = SaveState /\ w[2] = Row
  BY <1>6, <1>7, <1>8
<1>10. main # << >> => Len(w) >= 3 /\ w[3] = a
  BY <1>6, <1>7, <1>8
<1>11. shadow # << >> => Len(w) >= 3 /\ w[Len(w)] = b
  BY <1>6, <1>7, <1>8
<1>12. ASSUME NEW i \in 3..Len(w)
       PROVE  \/ main # << >> /\ main[1] \in Trades /\ w[i] = a /\ i = 3
              \/ shadow # << >> /\ shadow[1] \in Trades /\ w[i] = b /\ i = Len(w)
  <2>1. CASE i <= Len(w3)
    BY <1>2, <1>6, <1>7, <1>8, <2>1
  <2>2. CASE i > Len(w3)
    BY <1>3, <1>7, <1>8, <2>2
  <2> QED BY <1>8, <2>1, <2>2
<1> QED BY <1>4, <1>7, <1>8, <1>9, <1>10, <1>11, <1>12 DEF a, b

-----------------------------------------------------------------------------
(* restore_history: TradesOf as the selection its definition builds. *)
Selection(f, b, h, n) ==
  f = [i \in 0..n |-> IF i = 0 THEN << >>
                      ELSE IF h[i].book = b THEN Append(f[i - 1], h[i].trade)
                      ELSE f[i - 1]]

LEMMA SelectionExists ==
  ASSUME NEW b, NEW h, NEW n \in Nat
  PROVE  \E f : Selection(f, b, h, n)
<1> DEFINE T == {k \in Nat : ~\E f : Selection(f, b, h, k)}
<1> SUFFICES ASSUME T # {} PROVE FALSE
  OBVIOUS
<1>1. PICK k \in T : \A j \in T : k <= j
  <2>1. T \subseteq Nat
    OBVIOUS
  <2> HIDE DEF T
  <2> QED BY <2>1, FirstOf
<1>2. k # 0
  <2>1. Selection([i \in 0..0 |-> << >>], b, h, 0)
    BY DEF Selection
  <2> QED BY <1>1, <2>1
<1>3. PICK f : Selection(f, b, h, k - 1)
  BY <1>1, <1>2
<1> DEFINE last == IF h[k].book = b THEN Append(f[k - 1], h[k].trade) ELSE f[k - 1]
           g == [i \in 0..k |-> IF i = k THEN last ELSE f[i]]
<1>4. Selection(g, b, h, k)
  <2>1. \A i \in 0..(k - 1) : g[i] = f[i]
    BY <1>1, <1>2
  <2>2. \A i \in 0..(k - 1) :
          f[i] = IF i = 0 THEN << >> ELSE IF h[i].book = b THEN Append(f[i - 1], h[i].trade)
                 ELSE f[i - 1]
    BY <1>3 DEF Selection
  <2>3. g = [i \in 0..k |-> g[i]]
    OBVIOUS
  <2>4. \A i \in 0..k :
          g[i] = IF i = 0 THEN << >> ELSE IF h[i].book = b THEN Append(g[i - 1], h[i].trade)
                 ELSE g[i - 1]
    <3> TAKE i \in 0..k
    <3>1. CASE i = k
      <4>1. g[i] = last /\ g[k - 1] = f[k - 1] /\ i # 0
        BY <1>1, <1>2, <2>1, <3>1
      <4> HIDE DEF g
      <4> QED BY <3>1, <4>1
    <3>2. CASE i # k
      <4>1. i \in 0..(k - 1) /\ (i # 0 => i - 1 \in 0..(k - 1))
        BY <1>1, <3>2
      <4> HIDE DEF g
      <4> QED BY <2>1, <2>2, <4>1
    <3> QED BY <3>1, <3>2
  <2> HIDE DEF g
  <2> QED BY <2>3, <2>4 DEF Selection
<1> QED BY <1>1, <1>4

LEMMA TradesOfIsASelection ==
  ASSUME NEW b, NEW h, Len(h) \in Nat
  PROVE  \E f : Selection(f, b, h, Len(h)) /\ TradesOf(b, h) = f[Len(h)]
<1> DEFINE g == CHOOSE f : Selection(f, b, h, Len(h))
<1>1. Selection(g, b, h, Len(h))
  BY SelectionExists
<1>2. TradesOf(b, h) = g[Len(h)]
  BY DEF TradesOf, Selection
<1> QED BY <1>1, <1>2

LEMMA TradesOfNothing ==
  ASSUME NEW b
  PROVE  TradesOf(b, << >>) = << >>
<1>1. Len(<< >>) = 0
  OBVIOUS
<1>2. PICK f : Selection(f, b, << >>, 0) /\ TradesOf(b, << >>) = f[0]
  BY <1>1, TradesOfIsASelection
<1> QED BY <1>2 DEF Selection

LEMMA TradesOfType ==
  ASSUME NEW b, NEW h \in Seq(TradeLines)
  PROVE  TradesOf(b, h) \in Seq(Trades)
<1> DEFINE n == Len(h)
<1>1. n \in Nat /\ \A i \in 1..n : h[i].trade \in Trades
  <2>1. n \in Nat /\ \A i \in 1..n : h[i] \in TradeLines
    OBVIOUS
  <2> QED BY <2>1 DEF TradeLines
<1>2. PICK f : Selection(f, b, h, n) /\ TradesOf(b, h) = f[n]
  BY <1>1, TradesOfIsASelection
<1> HIDE DEF n
<1> DEFINE T == {k \in 0..n : f[k] \notin Seq(Trades)}
<1>3. T = {}
  <2> SUFFICES ASSUME T # {} PROVE FALSE
    OBVIOUS
  <2>1. PICK k \in T : \A j \in T : k <= j
    <3>1. T \subseteq Nat
      BY <1>1
    <3> HIDE DEF T
    <3> QED BY <3>1, FirstOf
  <2>2. f[k] = IF k = 0 THEN << >> ELSE IF h[k].book = b THEN Append(f[k - 1], h[k].trade)
               ELSE f[k - 1]
    BY <1>2, <2>1 DEF Selection
  <2>3. CASE k = 0
    <3>1. << >> \in Seq(Trades)
      OBVIOUS
    <3> QED BY <2>1, <2>2, <2>3, <3>1
  <2>4. CASE k # 0
    <3>1. k - 1 \in 0..n /\ ~(k <= k - 1) /\ k \in 1..n
      BY <1>1, <2>1, <2>4
    <3>2. f[k - 1] \in Seq(Trades)
      BY <2>1, <3>1
    <3>3. Append(f[k - 1], h[k].trade) \in Seq(Trades)
      BY <1>1, <3>1, <3>2, AppendProperties
    <3> QED BY <2>1, <2>2, <2>4, <3>2, <3>3
  <2> QED BY <2>3, <2>4
<1> QED BY <1>1, <1>2, <1>3

(* One more line is one more trade of its own book, and none of the other. *)
LEMMA TradesOfAppend ==
  ASSUME NEW b, NEW h \in Seq(TradeLines), NEW x \in TradeLines
  PROVE  TradesOf(b, Append(h, x))
           = IF x.book = b THEN Append(TradesOf(b, h), x.trade) ELSE TradesOf(b, h)
<1> DEFINE n == Len(h)
           u == Append(h, x)
<1>1. n \in Nat /\ Len(u) = n + 1 /\ u[n + 1] = x /\ \A i \in 1..n : u[i] = h[i]
  BY AppendProperties
<1>2. PICK f : Selection(f, b, h, n) /\ TradesOf(b, h) = f[n]
  BY <1>1, TradesOfIsASelection
<1> HIDE DEF n, u
<1>3. PICK g : Selection(g, b, u, n + 1) /\ TradesOf(b, u) = g[n + 1]
  <2>1. Len(u) \in Nat
    BY <1>1
  <2> QED BY <1>1, <2>1, TradesOfIsASelection
<1> DEFINE T == {k \in 0..n : g[k] # f[k]}
<1>4. T = {}
  <2> SUFFICES ASSUME T # {} PROVE FALSE
    OBVIOUS
  <2>1. PICK k \in T : \A j \in T : k <= j
    <3>1. T \subseteq Nat
      BY <1>1
    <3> HIDE DEF T
    <3> QED BY <3>1, FirstOf
  <2>2. /\ f[k] = IF k = 0 THEN << >> ELSE IF h[k].book = b THEN Append(f[k - 1], h[k].trade)
                  ELSE f[k - 1]
        /\ g[k] = IF k = 0 THEN << >> ELSE IF u[k].book = b THEN Append(g[k - 1], u[k].trade)
                  ELSE g[k - 1]
    <3>1. k \in 0..n /\ k \in 0..(n + 1)
      BY <1>1, <2>1
    <3> HIDE DEF T
    <3> QED BY <1>2, <1>3, <3>1 DEF Selection
  <2>3. CASE k = 0
    BY <2>1, <2>2, <2>3
  <2>4. CASE k # 0
    <3>1. k - 1 \in 0..n /\ ~(k <= k - 1) /\ k \in 1..n
      BY <1>1, <2>1, <2>4
    <3>2. g[k - 1] = f[k - 1]
      BY <2>1, <3>1
    <3> QED BY <1>1, <2>1, <2>2, <2>4, <3>1, <3>2
  <2> QED BY <2>3, <2>4
<1>5. g[n] = f[n]
  BY <1>1, <1>4
<1>6. g[n + 1] = IF x.book = b THEN Append(g[n], x.trade) ELSE g[n]
  <2>1. n + 1 \in 0..(n + 1) /\ n + 1 # 0 /\ (n + 1) - 1 = n
    BY <1>1
  <2>2. g[n + 1] = IF n + 1 = 0 THEN << >>
                   ELSE IF u[n + 1].book = b THEN Append(g[(n + 1) - 1], u[n + 1].trade)
                   ELSE g[(n + 1) - 1]
    BY <1>3, <2>1 DEF Selection
  <2> QED BY <1>1, <2>1, <2>2
<1> QED BY <1>2, <1>3, <1>5, <1>6 DEF u

-----------------------------------------------------------------------------
(* The functions PaperBook is built from are those this module is built from:
   its instance defines each again, and these say that it is the same one. *)
LEMMA SameSide == Book!Side = Side
BY DEF Side, Book!Side
LEMMA SameLevel == Book!Level = Level
BY DEF Level, Book!Level
LEMMA SameEnter == Book!Enter = Enter
BY SameSide, SameLevel DEF Enter, Book!Enter
LEMMA SameExit == Book!Exit = Exit
BY DEF Exit, Book!Exit
LEMMA SameAtOrWorse == \A side, x, y : Book!AtOrWorse(side, x, y) = AtOrWorse(side, x, y)
BY DEF AtOrWorse, Book!AtOrWorse
LEMMA SameWorse ==
  \A side, x, distance : Book!Worse(side, x, distance)
    = Worse(side, x, distance)
BY DEF Worse, Book!Worse
LEMMA SameGain == \A side, from, to : Book!Gain(side, from, to) = Gain(side, from, to)
BY DEF Gain, Book!Gain
LEMMA SameWorst == \A side, bar : Book!Worst(side, bar) = Worst(side, bar)
BY DEF Worst, Book!Worst
LEMMA SameBest == \A side, bar : Book!Best(side, bar) = Best(side, bar)
BY DEF Best, Book!Best
LEMMA SameOther == \A side : Book!Other(side) = Other(side)
BY DEF Other, Book!Other
LEMMA SameAbs == \A x : Book!Abs(x) = Abs(x)
BY DEF Abs, Book!Abs
LEMMA SameLarger == \A x, y : Book!Larger(x, y) = Larger(x, y)
BY DEF Larger, Book!Larger
LEMMA SameSmaller == \A x, y : Book!Smaller(x, y) = Smaller(x, y)
BY DEF Smaller, Book!Smaller
LEMMA SameApplyCosts ==
  \A price, side, entering : Book!ApplyCosts(price, side, entering)
    = ApplyCosts(price, side, entering)
BY DEF ApplyCosts, Book!ApplyCosts
LEMMA SamePrunedDay ==
  \A closed, now : Book!PrunedDay(closed, now)
    = PrunedDay(closed, now)
BY DEF PrunedDay, Book!PrunedDay
LEMMA SameDayPnl == \A closed : Book!DayPnl(closed) = DayPnl(closed)
BY DEF DayPnl, Book!DayPnl
LEMMA SameCoolingDown ==
  \A lastEntry, now : Book!CoolingDown(lastEntry, now)
    = CoolingDown(lastEntry, now)
BY DEF CoolingDown, Book!CoolingDown
LEMMA SameMemoryRefusal ==
  \A closed, lastEntry, now : Book!MemoryRefusal(closed, lastEntry, now)
    = MemoryRefusal(closed, lastEntry, now)
BY SameDayPnl, SameCoolingDown DEF MemoryRefusal, Book!MemoryRefusal
LEMMA SameCalendarRefusal ==
  \A signal, fill : Book!CalendarRefusal(signal, fill)
    = CalendarRefusal(signal, fill)
BY DEF CalendarRefusal, Book!CalendarRefusal
LEMMA SameEntryStop ==
  \A intent, entry, warm : Book!EntryStop(intent, entry, warm)
    = EntryStop(intent, entry, warm)
BY SameWorse DEF EntryStop, Book!EntryStop
LEMMA SameEntryRisk ==
  \A stop, entry, warm : Book!EntryRisk(stop, entry, warm)
    = EntryRisk(stop, entry, warm)
BY SameAbs DEF EntryRisk, Book!EntryRisk
LEMMA SameEntryTarget ==
  \A intent, entry, stop, risk : Book!EntryTarget(intent, entry, stop, risk)
    = EntryTarget(intent, entry, stop, risk)
BY SameWorse, SameOther DEF EntryTarget, Book!EntryTarget
LEMMA SameTooSmall == \A lots : Book!TooSmall(lots) = TooSmall(lots)
BY DEF TooSmall, Book!TooSmall
LEMMA SameSizedLots ==
  \A risk, equity : Book!SizedLots(risk, equity)
    = SizedLots(risk, equity)
BY SameLarger DEF SizedLots, Book!SizedLots
LEMMA SameCappedLots ==
  \A lots, entry, equity : Book!CappedLots(lots, entry, equity)
    = CappedLots(lots, entry, equity)
BY DEF CappedLots, Book!CappedLots

LEMMA SameOpened ==
  ASSUME NEW intent, NEW time, NEW price, NEW warm, NEW equity PROVE Book!Opened(intent, time, price, warm, equity)
                   = Opened(intent, time, price, warm, equity)
<1> DEFINE entry == ApplyCosts(price, intent.side, TRUE)
           stop == EntryStop(intent, entry, warm)
           risk == EntryRisk(stop, entry, warm)
<1>1. Book!ApplyCosts(price, intent.side, TRUE) = entry BY SameApplyCosts
<1>2. Book!EntryStop(intent, entry, warm) = stop BY SameEntryStop
<1>3. Book!EntryRisk(stop, entry, warm) = risk BY SameEntryRisk
<1>4. Book!EntryTarget(intent, entry, stop, risk) = EntryTarget(intent, entry, stop, risk) BY SameEntryTarget
<1>5. Book!CappedLots(Book!SizedLots(risk, equity), entry, equity) = CappedLots(SizedLots(risk, equity), entry, equity)
  BY SameSizedLots, SameCappedLots
<1> HIDE DEF entry, stop, risk
<1> QED BY <1>1, <1>2, <1>3, <1>4, <1>5 DEF Opened, Book!Opened, entry, stop, risk
LEMMA SameFillAt ==
  \A side, bar, level : Book!FillAt(side, bar, level)
    = FillAt(side, bar, level)
BY SameAtOrWorse DEF FillAt, Book!FillAt
LEMMA SameTargetAt ==
  \A side, bar, level : Book!TargetAt(side, bar, level)
    = TargetAt(side, bar, level)
BY SameOther, SameFillAt DEF TargetAt, Book!TargetAt
LEMMA SameLeave == \A p, price, kind : Book!Leave(p, price, kind) = Leave(p, price, kind)
BY SameApplyCosts DEF Leave, Book!Leave
LEMMA SameCheckExit == \A p, bar : Book!CheckExit(p, bar) = CheckExit(p, bar)
BY SameAtOrWorse, SameWorst, SameBest, SameOther, SameFillAt, SameTargetAt, SameLeave
   DEF CheckExit, Book!CheckExit
LEMMA SameGuardExit == \A p, bar : Book!GuardExit(p, bar) = GuardExit(p, bar)
BY SameAtOrWorse, SameWorse, SameWorst, SameFillAt, SameLeave DEF GuardExit,
   Book!GuardExit
LEMMA SameBarExit == \A p, bar : Book!BarExit(p, bar) = BarExit(p, bar)
BY SameCheckExit, SameGuardExit DEF BarExit, Book!BarExit
LEMMA SameTrailStop == \A p, bar : Book!TrailStop(p, bar) = TrailStop(p, bar)
BY SameWorse, SameGain, SameLarger, SameSmaller DEF TrailStop, Book!TrailStop
LEMMA SameClosed ==
  \A p, price, time, kind : Book!Closed(p, price, time, kind)
    = Closed(p, price, time, kind)
BY SameGain DEF Closed, Book!Closed
LEMMA SameCuts == Book!Cuts = Cuts
BY DEF Cuts, Book!Cuts
LEMMA SameNoAdvice == Book!NoAdvice = NoAdvice
BY DEF NoAdvice, Book!NoAdvice
LEMMA SameNewBook == Book!NewBook = NewBook
BY DEF NewBook, Book!NewBook
LEMMA SameQuiet == \A b : Book!Quiet(b) = Quiet(b)
BY DEF Quiet, Book!Quiet
LEMMA SameRefused == \A b, why : Book!Refused(b, why) = Refused(b, why)
BY SameQuiet DEF Refused, Book!Refused

LEMMA SameBooked ==
  ASSUME NEW b, NEW price, NEW time, NEW kind PROVE Book!Booked(b, price, time, kind) = Booked(b, price, time, kind)
<1>1. Book!Closed(b.position, price, time, kind) = Closed(b.position, price, time, kind)
  BY SameClosed
<1> DEFINE t == Closed(b.position, price, time, kind)
     c == [b EXCEPT !.position = None, !.equity = @ + t.pnl,
                       !.trades = Append(@, t),
                       !.closed = Append(@, [time |-> time, pnl |-> t.pnl])]
<1>2. Booked(b, price, time, kind) = [Quiet(c) EXCEPT !.trades = <<t>>]
  BY DEF Booked
<1>3. Book!Booked(b, price, time, kind) = [Book!Quiet(c) EXCEPT !.trades = <<t>>]
  BY <1>1, Zenon DEF Book!Booked
<1> HIDE DEF c, t
<1> QED BY <1>2, <1>3, SameQuiet
LEMMA SameEntryRefusal == \A b, time : Book!EntryRefusal(b, time) = EntryRefusal(b, time)
BY SameMemoryRefusal, SameCalendarRefusal DEF EntryRefusal, Book!EntryRefusal
LEMMA SameJudging == \A b, time : Book!Judging(b, time) = Judging(b, time)
BY SamePrunedDay DEF Judging, Book!Judging
LEMMA SameAdvisedLots ==
  \A lots, cut : Book!AdvisedLots(lots, cut)
    = AdvisedLots(lots, cut)
BY DEF AdvisedLots, Book!AdvisedLots

LEMMA SameEnterPending ==
  ASSUME NEW b, NEW time, NEW price, NEW warm, NEW cut
  PROVE  Book!EnterPending(b, time, price, warm, cut) = EnterPending(b, time, price, warm, cut)
<1> DEFINE c == Judging(b, time)
           p == Opened(b.pending, time, price, warm, b.equity)
           lots == AdvisedLots(p.lots, cut)
           entered == IF b.lastEntry = None THEN time ELSE Larger(b.lastEntry, time)
           full == [c EXCEPT !.position = [p EXCEPT !.lots = lots], !.lastEntry = entered]
<1>1. Book!Judging(b, time) = c
  BY SameJudging
<1>2. Book!Opened(b.pending, time, price, warm, b.equity) = p
  BY SameOpened
<1>3. Book!AdvisedLots(p.lots, cut) = lots
  BY SameAdvisedLots
<1>4. Book!Larger(b.lastEntry, time) = Larger(b.lastEntry, time)
  BY SameLarger
<1>5. Book!Quiet(full) = Quiet(full)
  BY SameQuiet
<1>6. Book!EntryRefusal(c, time) = EntryRefusal(c, time) /\ Book!TooSmall(p.lots) = TooSmall(p.lots) /\ Book!TooSmall(lots) = TooSmall(lots)
  BY SameEntryRefusal, SameTooSmall
<1>7. \A why : Book!Refused(c, why) = Refused(c, why)
  BY SameRefused
<1> HIDE DEF c, p, lots, entered
<1>8. [Book!Quiet(full) EXCEPT !.opened = TRUE] = [Quiet(full) EXCEPT !.opened = TRUE]
  BY <1>5
<1> HIDE DEF full
<1> QED BY <1>1, <1>2, <1>3, <1>4, <1>6, <1>7, <1>8, Zenon DEF EnterPending, Book!EnterPending, c, p, lots, entered, full
LEMMA SameFillPending ==
  \A b, time, price, warm, cut : Book!FillPending(b, time, price, warm, cut)
    = FillPending(b, time, price, warm, cut)
BY SameEnter, SameExit, SameApplyCosts, SameQuiet, SameBooked, SameEnterPending DEF
   FillPending, Book!FillPending
LEMMA SameFillOpen ==
  \A b, time, price, warm, cut : Book!FillOpen(b, time, price, warm, cut)
    = FillOpen(b, time, price, warm, cut)
BY SameQuiet, SameFillPending DEF FillOpen, Book!FillOpen
LEMMA SameLived == \A range, bar : Book!Lived(range, bar) = Lived(range, bar)
BY SameLarger, SameSmaller DEF Lived, Book!Lived
LEMMA SameManagedBar ==
  \A since, bar : Book!ManagedBar(since, bar)
    = ManagedBar(since, bar)
BY SameLived DEF ManagedBar, Book!ManagedBar

LEMMA SameManagedAfter ==
  ASSUME NEW fill, NEW bar
  PROVE  Book!ManagedAfter(fill, bar) = ManagedAfter(fill, bar)
<1> DEFINE p == fill.book.position
           managed == ManagedBar(fill.book.since, bar)
           seen == [fill.book EXCEPT !.since = IF managed = None THEN @ ELSE None, !.lastBar = bar]
           exit == BarExit(p, managed)
           left == Booked(seen, exit.price, bar.time, exit.kind)
<1>1. Book!ManagedBar(fill.book.since, bar) = managed
  BY SameManagedBar
<1>2. Book!BarExit(p, managed) = exit
  BY SameBarExit
<1>3. Book!Booked(seen, exit.price, bar.time, exit.kind) = left
  BY SameBooked
<1>4. Book!TrailStop(p, managed) = TrailStop(p, managed)
  BY SameTrailStop
<1> HIDE DEF p, managed, exit, left, seen
<1> QED BY <1>1, <1>2, <1>3, <1>4, Zenon DEF ManagedAfter, Book!ManagedAfter, p, managed, seen, exit, left
LEMMA SameAdvance ==
  \A b, bar, warm, cut : Book!Advance(b, bar, warm, cut)
    = Advance(b, bar, warm, cut)
BY SameFillPending, SameManagedAfter DEF Advance, Book!Advance
LEMMA SameDecide == \A b, intent : Book!Decide(b, intent) = Decide(b, intent)
BY DEF Decide, Book!Decide
LEMMA SameStep ==
  \A b, bar, warm, cut, decision : Book!Step(b, bar, warm, cut, decision)
    = Step(b, bar, warm, cut, decision)
BY SameAdvance, SameDecide DEF Step, Book!Step
LEMMA SamePlaceOrder == \A b, order : Book!PlaceOrder(b, order) = PlaceOrder(b, order)
BY DEF PlaceOrder, Book!PlaceOrder
LEMMA SameCancelOrder == \A b : Book!CancelOrder(b) = CancelOrder(b)
BY DEF CancelOrder, Book!CancelOrder
LEMMA SameOrderSawBarClose == \A b : Book!OrderSawBarClose(b) = OrderSawBarClose(b)
BY SameCancelOrder DEF OrderSawBarClose, Book!OrderSawBarClose
LEMMA SameObserveTick ==
  \A b, time, last : Book!ObserveTick(b, time, last)
    = ObserveTick(b, time, last)
BY SameLarger, SameSmaller DEF ObserveTick, Book!ObserveTick
LEMMA SameTriggerSide ==
  \A order, sides : Book!TriggerSide(order, sides)
    = TriggerSide(order, sides)
BY DEF TriggerSide, Book!TriggerSide
LEMMA SameTouched == \A order, sides : Book!Touched(order, sides) = Touched(order, sides)
BY SameAtOrWorse, SameOther, SameTriggerSide DEF Touched, Book!Touched
LEMMA SameInvalidatedBy ==
  \A order, sides : Book!InvalidatedBy(order, sides)
    = InvalidatedBy(order, sides)
BY DEF InvalidatedBy, Book!InvalidatedBy
LEMMA SameFillOrder ==
  \A b, time, price, last, warm, cut : Book!FillOrder(b, time, price, last, warm, cut)
    = FillOrder(b, time, price, last, warm, cut)
BY SameEnter, SameQuiet, SameFillPending DEF FillOrder, Book!FillOrder
LEMMA SameStopBook == \A b : Book!StopBook(b) = StopBook(b)
BY SameApplyCosts, SameQuiet, SameBooked DEF StopBook, Book!StopBook

-----------------------------------------------------------------------------
(* The inputs of the handlers have their types. *)
LEMMA RunFields ==
  ASSUME run \in Runs
  PROVE  /\ run.book \in Books /\ run.shadow \in Books \cup {None}
         /\ run.advice \in Verdicts \cup {None}
         /\ run.paused \in BOOLEAN /\ run.live \in BOOLEAN
         /\ Counterfactual \in Books
         /\ \A id : CutFor(id) \in Cuts
<1>1. /\ run.book \in Books /\ run.shadow \in Books \cup {None}
      /\ run.advice \in Verdicts \cup {None}
      /\ run.paused \in BOOLEAN /\ run.live \in BOOLEAN
  BY DEF Runs
<1>2. Counterfactual \in Books
  BY <1>1 DEF Counterfactual
<1>3. NoAdvice \in Cuts
  BY CutAssumption DEF NoAdvice, Cuts, CutAssumption
<1>4. \A id : CutFor(id) \in Cuts
  BY <1>1, <1>3 DEF CutFor, Verdicts
<1> QED BY <1>1, <1>2, <1>4

LEMMA BarInputs ==
  ASSUME NEW t \in Times, NEW s \in BarShapes
  PROVE  /\ Book!BarAt(t, s) \in Bars /\ Book!BarAt(t, s).time = t
         /\ t \in Int /\ s.open \in Price /\ s.close \in Price
<1>1. s \in [open: Price, high: Price, low: Price, close: Price] /\ t \in Int
  BY PaperRunAssumption DEF PaperRunAssumption
<1> QED BY <1>1 DEF Book!BarAt, Bars

LEMMA DecisionsType ==
  ASSUME NEW t \in Int
  PROVE  /\ Book!Decisions(t) \subseteq Intents \cup {None}
         /\ \A d \in Book!Decisions(t) : d # None => /\ ~External
                                                     /\ d.kind = "Exit" => MayExit
                                                     /\ d.kind \in {"Enter", "Exit"}
                                                     /\ d.decided = t
<1>1. \A f \in EntryForms : Book!EnterAt(f, t) \in Enter
  <2>1. \A f \in EntryForms : f \in [side: Side, stop: Level, target: Level]
    BY PaperRunAssumption DEF PaperRunAssumption
  <2> QED BY <2>1 DEF Book!EnterAt, Enter
<1>2. Book!ExitAt(t) \in Exit
  BY DEF Book!ExitAt, Exit
<1>3. \A f \in EntryForms : Book!EnterAt(f, t).kind = "Enter" /\ Book!EnterAt(f, t).decided = t
  BY DEF Book!EnterAt
<1>4. Book!ExitAt(t).kind = "Exit" /\ Book!ExitAt(t).decided = t
  BY DEF Book!ExitAt
<1>5. ASSUME NEW d \in Book!Decisions(t), d # None
      PROVE  ~External /\ ((\E f \in EntryForms : d = Book!EnterAt(f, t))
                           \/ (MayExit /\ d = Book!ExitAt(t)))
  BY <1>5 DEF Book!Decisions
<1> QED BY <1>1, <1>2, <1>3, <1>4, <1>5, Zenon DEF Intents

LEMMA NewestType ==
  ASSUME run.book \in Books
  PROVE  /\ PendingId \in Level
         /\ Book!HasBar <=> PendingId \in Int
         /\ run.book.lastBar # None
              => Book!HasBar /\ PendingId = run.book.lastBar.time
                 /\ run.book.lastBar.time \in Int
         /\ ~Book!HasBar => run.book.lastBar = None /\ Warmup = None
         /\ \A t : Book!Newer(t) /\ Book!HasBar => t > PendingId
<1>1. run.book.lastBar # None => run.book.lastBar.time \in Int
  BY DEF Books, Bars
<1>2. None \notin Int /\ Warmup \in Int \cup {None}
  BY EngineAssumption, PaperRunAssumption DEF EngineAssumption, PaperRunAssumption, Level
<1> QED BY <1>1, <1>2 DEF PendingId, Book!Newest, Book!HasBar, Book!Newer, Level

LEMMA FeedGrows ==
  ASSUME NEW t \in Int, feed \in Level, Posted(t)
  PROVE  /\ feed' \in Int /\ feed' # None /\ t <= feed'
         /\ feed # None => feed <= feed'
         /\ InOrder /\ feed # None => feed <= t
<1>1. feed \in Int \/ feed = None
  BY DEF Level
<1>2. None \notin Int
  BY EngineAssumption DEF EngineAssumption
<1> QED BY <1>1, <1>2 DEF Posted, Book!Posted, Book!Larger

LEMMA QuotedLasts ==
  ASSUME NEW f \in Level, NEW g \in Int, f # None => f <= g, NEW q, Quoted(q, f)
  PROVE  Quoted(q, g)
<1> SUFFICES ASSUME q # None
             PROVE  \E t \in Times, s \in BarShapes, sides \in Quotes \cup {None} :
                      /\ q = [time |-> t, last |-> s.close, sides |-> sides]
                      /\ g # None /\ t <= g
  BY DEF Quoted
<1>1. PICK t \in Times, s \in BarShapes, sides \in Quotes \cup {None} :
             q = [time |-> t, last |-> s.close, sides |-> sides] /\ f # None /\ t <= f
  BY DEF Quoted
<1>2. t \in Int /\ f \in Int /\ g # None
  BY <1>1, PaperRunAssumption, EngineAssumption
     DEF PaperRunAssumption, EngineAssumption, Level
<1>3. t <= g
  BY <1>1, <1>2
<1> QED BY <1>1, <1>2, <1>3

-----------------------------------------------------------------------------
(* What a handler does.  It disturbs nothing; or it changes a run that stays
   live, by the close of a bar or otherwise; or it is stop or start. *)
Undisturbed == UNCHANGED <<run, disk, writes, told, stopped>>

Alters ==
  /\ Idle /\ run' \in Runs /\ run'.live /\ writes' \in Seq(Writes)
  /\ UNCHANGED <<disk, stopped>>
  /\ \/ Waiting(run'.book) = Waiting(run.book) /\ UNCHANGED told
     \/ promised' = None /\ verdict' = NoAdvice

(* One of the two books over a bar that closed at t, and what the bar closed. *)
OverBar(b, c, trades, t) ==
  /\ b \in Books /\ c \in Books /\ NoneOrOne(trades)
  /\ Tallied(b, [book |-> c, trades |-> trades], t)
  /\ c.lastBar # None /\ c.lastBar.time = t

ClosesBar ==
  /\ Alters
  /\ \E t, main, shadow :
       /\ t \in Times
       /\ Book!Newer(t) /\ feed' \in Int /\ t <= feed'
       /\ InOrder /\ feed # None => feed <= t
       /\ writes' = BarWrites(main, shadow)
       /\ OverBar(run.book, run'.book, main, t)
       /\ run'.shadow # None /\ OverBar(Counterfactual, run'.shadow, shadow, t)
       /\ run'.book.pending \in Book!Decisions(t)
       /\ run'.book.position # None /\ run.book.position = None
            => run'.book.position.entryTime = t

Nudges ==
  /\ Alters
  /\ run'.book.lastBar = run.book.lastBar
  /\ \/ writes' = <<SaveState>> \/ writes' = IntentWrites
     \/ writes' = <<SaveState, Answer("advisor")>> /\ run'.advice # None
     \/ /\ writes' = << >> /\ run'.book = run.book
        /\ \/ run' = run
           \/ /\ run.book.lastBar = None /\ (MayOpen \/ Warmup = None)
              /\ run.book.pending # None \/ run.book.order # None
  /\ run'.shadow \in {run.shadow, Counterfactual}
  /\ (MayOpen /\ run.book.pending # None => run.book.pending.kind = "Enter")
       => run'.book.trades = run.book.trades /\ run'.book.equity = run.book.equity
  /\ \/ run'.book.pending \in {None, run.book.pending}
     \/ run'.book.pending.kind = "Enter"
  /\ run.book.lastBar = None =>
       \/ run'.book.position = run.book.position /\ run'.book.pending = run.book.pending
          /\ run'.book.order = run.book.order
       \/ Warmup # None /\ External
       \/ run.book.order # None
  /\ run.book.position = None /\ run'.book.position # None /\ run.book.lastBar # None
       => run'.book.position.entryTime > run.book.lastBar.time

LEMMA ShortWrites ==
  /\ << >> \in Seq(Writes) /\ <<SaveState>> \in Seq(Writes)
  /\ <<SaveState, Answer("advisor")>> \in Seq(Writes)
  /\ IntentWrites \in Seq(Writes) /\ StopWrites \in Seq(Writes)
  /\ <<SaveState, Row, Insert>> \in Seq(Writes)
<1>1. /\ SaveState \in Writes /\ Row \in Writes /\ RemoveState \in Writes
      /\ Insert \in Writes /\ Answer("advisor") \in Writes
      /\ Answer("decider") \in Writes /\ Answer("stopper") \in Writes
  BY PlainWrites DEF Destinations
<1> QED BY <1>1 DEF IntentWrites, StopWrites

LEMMA BarClosesDoes ==
  ASSUME TypeOK, NEW t \in Times, NEW s \in BarShapes,
         NEW decision \in Answers(t), NEW alone \in Answers(t),
         BarCloses(t, s, decision, alone)
  PROVE  ClosesBar
<1> DEFINE bar == Book!BarAt(t, s)
           cut == CutFor(PendingId)
           main == Step(run.book, bar, Warm, cut, decision)
           shadow == Step(Counterfactual, bar, Warm, NoAdvice, alone)
           over == Advance(run.book, bar, Warm, cut)
           beside == Advance(Counterfactual, bar, Warm, NoAdvice)
           book == OrderSawBarClose(main.book)
<1>1. /\ bar \in Bars /\ bar.time = t /\ t \in Int /\ cut \in Cuts /\ NoAdvice \in Cuts
      /\ Warm \in BOOLEAN /\ run.book \in Books /\ Counterfactual \in Books
  <2>1. run \in Runs
    BY DEF TypeOK
  <2>2. NoAdvice \in Cuts
    BY CutAssumption DEF NoAdvice, Cuts, CutAssumption
  <2> QED BY <2>1, <2>2, BarInputs, RunFields DEF Warm
<1>2. decision \in Book!Decisions(t) /\ alone \in Book!Decisions(t)
  BY DEF Answers
<1>3. decision \in Intents \cup {None} /\ alone \in Intents \cup {None}
  BY <1>1, <1>2, DecisionsType
<1>4. main = [over EXCEPT !.book = Decide(over.book, decision)]
      /\ shadow = [beside EXCEPT !.book = Decide(beside.book, alone)]
  BY DEF Step
<1>5. /\ run' = [run EXCEPT !.book = book, !.shadow = shadow.book, !.advice = None]
      /\ writes' = BarWrites(main.trades, shadow.trades) /\ Tell(book)
      /\ Idle /\ Book!Newer(t) /\ Posted(t) /\ UNCHANGED <<disk, stopped>>
  BY DEF BarCloses, Stepped, PostedAt
<1> HIDE DEF bar, cut, main, shadow, book
<1>6. /\ Tallied(run.book, over, t) /\ over.book \in Books /\ over.book.lastBar = bar
      /\ Tallied(Counterfactual, beside, t) /\ beside.book \in Books
      /\ beside.book.lastBar = bar
      /\ run.book.position = None /\ over.book.position # None
           => over.book.position.entryTime = t
  BY <1>1, AdvanceTally, AdvanceEnters
<1>7. /\ main.book = Decide(over.book, decision) /\ main.trades = over.trades
      /\ shadow.book = Decide(beside.book, alone) /\ shadow.trades = beside.trades
  <2>1. DOMAIN over = {"book", "trades", "opened", "refused"}
        /\ DOMAIN beside = {"book", "trades", "opened", "refused"}
    BY AdvanceReports
  <2> HIDE DEF over, beside
  <2> QED BY <1>4, <2>1
<1> HIDE DEF over, beside
<1>8. /\ Kept(over.book, main.book) /\ main.book.pending = decision
      /\ Kept(beside.book, shadow.book)
  BY <1>3, <1>6, <1>7, DecideKeeps
<1>9. Kept(main.book, book) /\ book.pending = decision
  <2>1. main.book \in Books
    BY <1>8 DEF Kept
  <2> QED BY <1>8, <2>1, OrderSawBarCloseKeeps DEF book
<1>10. run'.book = book /\ run'.shadow = shadow.book /\ run' \in Runs /\ run'.live
  <2>1. run \in Runs /\ run.live /\ book \in Books /\ shadow.book \in Books
    BY <1>5, <1>8, <1>9 DEF Kept, TypeOK, Idle
  <2>2. None \in Verdicts \cup {None}
    OBVIOUS
  <2> QED BY <1>5, <2>1, <2>2 DEF Runs
<1>11. NoneOrOne(main.trades) /\ NoneOrOne(shadow.trades)
  BY <1>6, <1>7 DEF Tallied, NoneOrOne
<1>12. Alters
  <2>1. writes' \in Seq(Writes)
    BY <1>5, <1>11, BarWritesOf
  <2> QED BY <1>5, <1>10, <2>1 DEF Alters, Tell, told
<1>13. bar # None /\ bar.time = t
  BY <1>1, NoOrderAssumption DEF NoOrderAssumption
<1>14. OverBar(run.book, book, main.trades, t)
  BY <1>1, <1>6, <1>7, <1>8, <1>9, <1>11, <1>13 DEF OverBar, Kept, Tallied
<1>15. OverBar(Counterfactual, shadow.book, shadow.trades, t) /\ shadow.book # None
  <2>1. shadow.book # None
    BY <1>8, PaperRunAssumption DEF Kept, PaperRunAssumption
  <2> QED BY <1>1, <1>6, <1>7, <1>8, <1>11, <1>13, <2>1 DEF OverBar, Kept, Tallied
<1>16. feed' \in Int /\ t <= feed' /\ (InOrder /\ feed # None => feed <= t)
  BY <1>1, <1>5, FeedGrows DEF TypeOK
<1>17. run.book.position = None /\ book.position # None => book.position.entryTime = t
  BY <1>6, <1>8, <1>9 DEF Kept
<1> HIDE DEF Alters
<1> QED BY <1>2, <1>5, <1>9, <1>10, <1>12, <1>14, <1>15, <1>16, <1>17 DEF ClosesBar

LEMMA BarOpensDoes ==
  ASSUME TypeOK, NEW t \in Times, NEW s \in BarShapes, BarOpens(t, s.open)
  PROVE  Nudges
<1> DEFINE cut == CutFor(PendingId)
           filled == FillOpen(run.book, t, s.open, Warm, cut).book
<1>1. /\ run \in Runs /\ run.book \in Books /\ Counterfactual \in Books
      /\ t \in Int /\ s.open \in Price /\ cut \in Cuts /\ Warm \in BOOLEAN
  BY RunFields, BarInputs DEF TypeOK, Warm
<1>2. /\ filled \in Books /\ filled.lastBar = run.book.lastBar
      /\ filled.order = run.book.order /\ filled.pending \in {None, run.book.pending}
      /\ run.book.lastBar = None => filled = run.book
      /\ (run.book.pending # None => run.book.pending.kind = "Enter")
           => filled.trades = run.book.trades /\ filled.equity = run.book.equity
      /\ run.book.position = None /\ filled.position # None
           => filled.position.entryTime = t /\ run.book.lastBar # None
              /\ t > run.book.lastBar.time
  BY <1>1, FillOpenKeeps
<1>3. /\ run' = [run EXCEPT !.book = filled, !.shadow = Counterfactual, !.advice = None]
      /\ writes' = IF run.book.lastBar = None THEN << >> ELSE <<SaveState>>
      /\ Tell(filled) /\ MayOpen /\ Idle /\ run.book.pending # None
      /\ UNCHANGED <<disk, stopped>>
  BY DEF BarOpens
<1> HIDE DEF filled, cut
<1>4. run' \in Runs /\ run'.live /\ run'.book = filled /\ run'.shadow = Counterfactual
  BY <1>1, <1>2, <1>3 DEF Runs, Idle
<1>5. Alters
  BY <1>3, <1>4, ShortWrites DEF Alters, Tell, told
<1> HIDE DEF Alters
<1> QED BY <1>2, <1>3, <1>4, <1>5 DEF Nudges

LEMMA TouchedType ==
  ASSUME NEW order \in Orders, NEW sides \in Quotes \cup {None}
  PROVE  /\ Touched(order, sides) # None => Touched(order, sides) \in Price
         /\ sides # None => TriggerSide(order, sides) \in Price
<1>1. sides # None => sides.bid \in Price /\ sides.ask \in Price
  <2>1. Quotes \subseteq [bid: Price, ask: Price]
    BY PaperRunAssumption DEF PaperRunAssumption
  <2> QED BY <2>1
<1>2. sides # None => TriggerSide(order, sides) \in Price
  BY <1>1 DEF TriggerSide
<1>3. order.price \in Price
  BY DEF Orders
<1> QED BY <1>2, <1>3 DEF Touched

LEMMA TickSettledDoes ==
  ASSUME TypeOK, TickSettled
  PROVE  Nudges
<1> DEFINE tick == copies.settle
           b == run.book
           seen == ObserveTick(b, tick.time, tick.last)
           filling == OrderFilled(seen, tick)
           cut == CutFor(CurrentId)
           after == Book!SettledByTick(seen, tick.time, tick.last, tick.sides, Warm, cut)
           price == Touched(seen.order, tick.sides)
           filled == FillOrder(seen, tick.time, price, tick.last, Warm, cut).book
<1>1. /\ run \in Runs /\ b \in Books /\ Counterfactual \in Books /\ cut \in Cuts
      /\ Warm \in BOOLEAN
  BY RunFields DEF TypeOK, Warm
<1>2. tick.time \in Int /\ tick.last \in Price /\ tick.sides \in Quotes \cup {None}
  <2>1. PICK t \in Times, s \in BarShapes, sides \in Quotes \cup {None} :
               tick = [time |-> t, last |-> s.close, sides |-> sides]
    BY DEF TypeOK, Quoted, TickSettled
  <2> QED BY <2>1, BarInputs
<1>3. Kept(b, seen) /\ seen.pending = b.pending /\ seen.order = b.order
  BY <1>1, <1>2, ObserveTickKeeps
<1>4. /\ run' = IF filling THEN [run EXCEPT !.book = after, !.shadow = Counterfactual,
                                            !.advice = None]
                ELSE [run EXCEPT !.book = after]
      /\ writes' = (IF after = b THEN << >> ELSE <<SaveState>>)
      /\ Tell(after) /\ Idle /\ UNCHANGED <<disk, stopped>>
  BY DEF TickSettled
<1>5. /\ Book!CancelOrder(seen) = CancelOrder(seen)
      /\ Book!InvalidatedBy(seen.order, tick.sides) = InvalidatedBy(seen.order, tick.sides)
      /\ Book!Touched(seen.order, tick.sides) = price
      /\ Book!FillOrder(seen, tick.time, price, tick.last, Warm, cut).book = filled
  BY SameCancelOrder, SameInvalidatedBy, SameTouched, SameFillOrder
<1>6. \/ after = seen /\ (filling => ~Book!HasBar)
      \/ after = CancelOrder(seen) /\ ~filling /\ b.order # None
      \/ /\ after = filled /\ filling /\ b.order # None /\ seen.position = None
         /\ price # None /\ Book!HasBar /\ Book!Newer(tick.time)
  BY <1>3, <1>5 DEF Book!SettledByTick, OrderFilled
<1> HIDE DEF tick, seen, filling, cut, after, price, filled
<1>7. CASE after = seen /\ (filling => ~Book!HasBar)
  <2>1. after \in Books /\ after.order = b.order /\ after.pending = b.pending
        /\ after.position = b.position /\ after.trades = b.trades
        /\ after.equity = b.equity /\ after.lastBar = b.lastBar
    BY <1>3, <1>7 DEF Kept
  <2>2. /\ run' \in Runs /\ run'.live /\ run'.book = after
        /\ run'.shadow \in {run.shadow, Counterfactual}
        /\ ~filling => run' = [run EXCEPT !.book = after]
    BY <1>1, <1>4, <2>1 DEF Runs, Idle
  <2>3. Alters
    BY <1>4, <2>2, ShortWrites DEF Alters, Tell, told
  <2>4. ~filling /\ after = b => run' = run
    BY <1>1, <2>2 DEF Runs
  <2>5. filling => b.lastBar = None /\ Warmup = None /\ b.order # None
    BY <1>1, <1>3, <1>7, NewestType DEF filling, OrderFilled
  <2> HIDE DEF Alters
  <2> QED BY <1>4, <2>1, <2>2, <2>3, <2>4, <2>5 DEF Nudges
<1>8. CASE after = CancelOrder(seen) /\ ~filling /\ b.order # None
  <2>1. Kept(seen, after) /\ after.order = None /\ after.pending = b.pending
    BY <1>3, <1>8, CancelOrderKeeps DEF Kept
  <2>2. run' \in Runs /\ run'.live /\ run'.book = after /\ run'.shadow = run.shadow
    BY <1>1, <1>4, <1>8, <2>1 DEF Runs, Idle, Kept
  <2>3. Alters
    BY <1>4, <2>2, ShortWrites DEF Alters, Tell, told
  <2>4. after # b
    BY <1>8, <2>1
  <2> HIDE DEF Alters
  <2> QED BY <1>3, <1>4, <1>8, <2>1, <2>2, <2>3, <2>4 DEF Nudges, Kept
<1>9. CASE /\ after = filled /\ filling /\ b.order # None /\ seen.position = None
           /\ price # None /\ Book!HasBar /\ Book!Newer(tick.time)
  <2>1. price \in Price /\ seen \in Books
    <3>1. seen \in Books /\ seen.order \in Orders
      BY <1>3, <1>9 DEF Kept, Books
    <3> QED BY <1>2, <1>9, <3>1, TouchedType DEF price
  <2>2. /\ filled \in Books /\ filled.trades = seen.trades /\ filled.equity = seen.equity
        /\ filled.lastBar = seen.lastBar /\ filled.order = None /\ filled.pending = None
        /\ filled.position # None => filled.position.entryTime = tick.time
    BY <1>1, <1>2, <1>3, <1>9, <2>1, FillOrderKeeps DEF filled
  <2>3. /\ run' \in Runs /\ run'.live /\ run'.book = filled
        /\ run'.shadow = Counterfactual
    BY <1>1, <1>4, <1>9, <2>2 DEF Runs, Idle
  <2>4. Alters
    BY <1>4, <1>9, <2>3, ShortWrites DEF Alters, Tell, told
  <2>5. after # b
    BY <1>9, <2>2
  <2>6. b.lastBar # None => tick.time > b.lastBar.time
    BY <1>1, <1>9, NewestType
  <2> HIDE DEF Alters
  <2> QED BY <1>3, <1>4, <1>9, <2>2, <2>3, <2>4, <2>5, <2>6 DEF Nudges, Kept
<1> QED BY <1>6, <1>7, <1>8, <1>9

LEMMA PostDoes ==
  ASSUME TypeOK, NEW c \in Books, Kept(run.book, c), Post(c),
         c.pending = None \/ c.pending.kind = "Enter"
  PROVE  Nudges
<1>1. /\ run' = [run EXCEPT !.book = c] /\ writes' = IntentWrites
      /\ promised' = None /\ verdict' = NoAdvice /\ Idle /\ External /\ Book!HasBar
      /\ UNCHANGED <<disk, stopped>>
  BY DEF Post
<1>2. run \in Runs /\ run.book \in Books
  BY RunFields DEF TypeOK
<1>3. run' \in Runs /\ run'.live /\ run'.book = c /\ run'.shadow = run.shadow
  BY <1>1, <1>2 DEF Runs, Idle
<1>4. Alters
  BY <1>1, <1>3, ShortWrites DEF Alters
<1>5. run.book.lastBar = None => Warmup # None
  BY <1>1 DEF Book!HasBar, Book!Newest
<1> HIDE DEF Alters
<1> QED BY <1>1, <1>3, <1>4, <1>5 DEF Nudges, Kept

LEMMA PostIntentDoes ==
  ASSUME TypeOK, NEW f \in EntryForms, PostIntent(f)
  PROVE  Nudges
<1> DEFINE c == CancelOrder(run.book)
           e == Book!EnterAt(f, PendingId)
<1>1. run.book \in Books /\ Post(Decide(c, e)) /\ PendingId \in Int
  <2>1. run.book \in Books
    BY RunFields DEF TypeOK
  <2>2. Post(Decide(c, e))
    BY Zenon DEF PostIntent
  <2>3. Book!HasBar
    BY <2>2 DEF Post
  <2> QED BY <2>1, <2>2, <2>3, NewestType
<1>2. e \in Intents /\ e.kind = "Enter"
  <2>1. f \in [side: Side, stop: Level, target: Level]
    BY PaperRunAssumption DEF PaperRunAssumption
  <2>2. e \in Enter
    BY <1>1, <2>1 DEF Book!EnterAt, Enter
  <2> QED BY <2>2 DEF Intents, Book!EnterAt
<1> HIDE DEF e
<1>3. Kept(run.book, c) /\ c \in Books
  BY <1>1, CancelOrderKeeps DEF Kept
<1>4. Kept(c, Decide(c, e)) /\ Decide(c, e).pending = e
  BY <1>2, <1>3, DecideKeeps
<1>5. Kept(run.book, Decide(c, e)) /\ Decide(c, e) \in Books
  BY <1>3, <1>4 DEF Kept
<1> QED BY <1>1, <1>2, <1>4, <1>5, PostDoes

LEMMA PostOrderDoes ==
  ASSUME TypeOK, NEW f \in OrderForms, PostOrder(f)
  PROVE  Nudges
<1> DEFINE o == Book!OrderAt(f, PendingId)
           c == PlaceOrder(run.book, o)
<1>1. run.book \in Books /\ Post(c) /\ PendingId \in Int
  <2>1. run.book \in Books
    BY RunFields DEF TypeOK
  <2>2. Post(c)
    BY Zenon DEF PostOrder
  <2>3. Book!HasBar
    BY <2>2 DEF Post
  <2> QED BY <2>1, <2>2, <2>3, NewestType
<1>2. o \in Orders
  <2>1. f \in [type: {"Limit", "Stop"}, price: Price, side: Side, stop: Int,
               target: Level, validBars: Nat \ {0}, above: Level, below: Level]
    BY PaperRunAssumption DEF PaperRunAssumption
  <2>2. f.stop \in Level /\ f.validBars \in Nat /\ 0 \in Nat
    BY <2>1 DEF Level
  <2> QED BY <1>1, <2>1, <2>2 DEF Book!OrderAt, Orders
<1> HIDE DEF o
<1>3. Kept(run.book, c) /\ c.pending = None
  BY <1>1, <1>2, PlaceOrderKeeps
<1> QED BY <1>1, <1>3, PostDoes DEF Kept

LEMMA PostAdviceDoes ==
  ASSUME TypeOK, NEW cut \in Cuts, PostAdvice(cut)
  PROVE  Nudges
<1> DEFINE a == [about |-> CurrentId, cut |-> cut]
<1>1. run \in Runs /\ run.book \in Books /\ PendingId \in Level
  <2>1. run \in Runs /\ run.book \in Books
    BY RunFields DEF TypeOK
  <2> QED BY <2>1, NewestType
<1>2. CurrentId \in Level
  <2>1. run.book.order # None => run.book.order.decided \in Level
    BY <1>1 DEF Books, Orders, Level
  <2> QED BY <1>1, <2>1 DEF CurrentId
<1>3. a \in Verdicts /\ a # None
  BY <1>2, PaperRunAssumption DEF Verdicts, PaperRunAssumption
<1>4. /\ run' = [run EXCEPT !.advice = a] /\ writes' = <<SaveState, Answer("advisor")>>
      /\ Idle /\ UNCHANGED <<disk, stopped, told>>
  BY DEF PostAdvice
<1> HIDE DEF a
<1>5. /\ run' \in Runs /\ run'.live /\ run'.book = run.book /\ run'.shadow = run.shadow
      /\ run'.advice # None
  BY <1>1, <1>3, <1>4 DEF Runs, Idle
<1>6. Alters
  BY <1>4, <1>5, ShortWrites DEF Alters
<1> HIDE DEF Alters
<1> QED BY <1>4, <1>5, <1>6 DEF Nudges

LEMMA ActTriggerDoes ==
  ASSUME TypeOK, NEW aged \in BOOLEAN, ActTrigger(aged)
  PROVE  Undisturbed \/ Nudges
<1> DEFINE tick == copies.act
           b == run.book
           cut == CutFor(CurrentId)
           price == TriggerSide(b.order, tick.sides)
           filled == FillOrder(b, tick.time, price, tick.last, Warm, cut).book
<1>1. CASE aged \/ Refuses(tick)
  BY <1>1 DEF ActTrigger, Undisturbed
<1>2. CASE ~(aged \/ Refuses(tick))
  <2>1. /\ run \in Runs /\ b \in Books /\ Counterfactual \in Books /\ cut \in Cuts
        /\ Warm \in BOOLEAN
    BY RunFields DEF TypeOK, Warm
  <2>2. tick.time \in Int /\ tick.last \in Price /\ tick.sides \in Quotes \cup {None}
    <3>1. PICK t \in Times, s \in BarShapes, sides \in Quotes \cup {None} :
                 tick = [time |-> t, last |-> s.close, sides |-> sides]
      BY DEF TypeOK, Quoted, ActTrigger
    <3> QED BY <3>1, BarInputs
  <2>3. /\ b.order # None /\ b.position = None /\ tick.sides # None
        /\ Book!HasBar /\ Book!Newer(tick.time)
    BY <1>2 DEF Refuses
  <2>4. /\ run' = [run EXCEPT !.book = filled, !.shadow = Counterfactual, !.advice = None]
        /\ writes' = <<SaveState>> /\ Tell(filled) /\ Idle /\ UNCHANGED <<disk, stopped>>
    BY <1>2 DEF ActTrigger
  <2>5. price \in Price
    <3>1. b.order \in Orders
      BY <2>1, <2>3 DEF Books
    <3> QED BY <2>2, <2>3, <3>1, TouchedType
  <2> HIDE DEF tick, cut, price
  <2>6. /\ filled \in Books /\ filled.trades = b.trades /\ filled.equity = b.equity
        /\ filled.lastBar = b.lastBar /\ filled.order = None /\ filled.pending = None
        /\ filled.position # None => filled.position.entryTime = tick.time
    BY <2>1, <2>2, <2>3, <2>5, FillOrderKeeps
  <2> HIDE DEF filled
  <2>7. run' \in Runs /\ run'.live /\ run'.book = filled /\ run'.shadow = Counterfactual
    BY <2>1, <2>4, <2>6 DEF Runs, Idle
  <2>8. Alters
    BY <2>4, <2>7, ShortWrites DEF Alters, Tell, told
  <2>9. b.lastBar # None => tick.time > b.lastBar.time
    BY <2>1, <2>3, NewestType
  <2> HIDE DEF Alters
  <2> QED BY <2>3, <2>4, <2>6, <2>7, <2>8, <2>9 DEF Nudges
<1> QED BY <1>1, <1>2

LEMMA ActCancelDoes ==
  ASSUME TypeOK, ActCancel
  PROVE  Nudges
<1> DEFINE c == CancelOrder(run.book)
<1>1. run \in Runs /\ run.book \in Books
  BY RunFields DEF TypeOK
<1>2. Kept(run.book, c) /\ c.pending = run.book.pending
  BY <1>1, CancelOrderKeeps
<1>3. /\ run' = [run EXCEPT !.book = c] /\ writes' = <<SaveState>> /\ Tell(c) /\ Idle
      /\ run.book.order # None /\ UNCHANGED <<disk, stopped>>
  BY DEF ActCancel
<1> HIDE DEF c
<1>4. run' \in Runs /\ run'.live /\ run'.book = c /\ run'.shadow = run.shadow
  BY <1>1, <1>2, <1>3 DEF Runs, Idle, Kept
<1>5. Alters
  BY <1>3, <1>4, ShortWrites DEF Alters, Tell, told
<1> HIDE DEF Alters
<1> QED BY <1>2, <1>3, <1>4, <1>5 DEF Nudges, Kept

LEMMA PauseDoes ==
  ASSUME TypeOK, NEW on \in BOOLEAN, Pause(on)
  PROVE  Nudges
<1>1. run \in Runs
  BY DEF TypeOK
<1>2. /\ run' = [run EXCEPT !.paused = on] /\ writes' = <<SaveState>> /\ Idle
      /\ UNCHANGED <<disk, stopped, told>>
  BY DEF Pause
<1>3. run' \in Runs /\ run'.live /\ run'.book = run.book /\ run'.shadow = run.shadow
  BY <1>1, <1>2 DEF Runs, Idle
<1>4. Alters
  BY <1>2, <1>3, ShortWrites DEF Alters
<1> HIDE DEF Alters
<1> QED BY <1>2, <1>3, <1>4 DEF Nudges

LEMMA HandlesDoes ==
  ASSUME TypeOK, Handles
  PROVE  Undisturbed \/ ClosesBar \/ Nudges \/ Stop \/ Start
<1>1. ASSUME NEW t \in Times, NEW s \in BarShapes, NEW q \in Quotes \cup {None},
             TickStored(t, s, q)
      PROVE  Undisturbed
  BY <1>1 DEF TickStored, Undisturbed
<1>2. ActReads => Undisturbed
  BY DEF ActReads, Undisturbed
<1> QED BY <1>1, <1>2, BarClosesDoes, BarOpensDoes, TickSettledDoes, PostIntentDoes,
           PostOrderDoes, PostAdviceDoes, ActTriggerDoes, ActCancelDoes, PauseDoes
        DEF Handles

-----------------------------------------------------------------------------
(* What is written of a run and read back. *)
Unlisted(b) == [b EXCEPT !.trades = << >>]

LEMMA UnlistedKeeps ==
  ASSUME NEW b \in Books, NEW trades \in Seq(Trades)
  PROVE  LET c == [b EXCEPT !.trades = trades]
         IN  /\ c \in Books /\ c.trades = trades /\ c.lastBar = b.lastBar
             /\ c.position = b.position /\ c.pending = b.pending /\ c.order = b.order
             /\ c.equity = b.equity /\ Waiting(c) = Waiting(b)
<1> DEFINE c == [b EXCEPT !.trades = trades]
<1>1. /\ c \in Books /\ c.trades = trades /\ c.lastBar = b.lastBar
      /\ c.position = b.position /\ c.pending = b.pending /\ c.order = b.order
      /\ c.equity = b.equity
  BY DEF Books
<1> HIDE DEF c
<1>2. Waiting(c) = Waiting(b)
  BY <1>1 DEF Waiting
<1> QED BY <1>1, <1>2 DEF c

LEMMA SavedType ==
  ASSUME NEW r \in Runs
  PROVE  /\ Saved(r) \in Runs /\ Saved(r).live /\ Saved(r) # None
         /\ Saved(r).book = Unlisted(r.book)
         /\ Saved(r).shadow = IF r.shadow = None THEN None ELSE Unlisted(r.shadow)
         /\ Saved(r).advice = r.advice /\ Saved(r).paused = r.paused
         /\ Waiting(Saved(r).book) = Waiting(r.book)
<1> DEFINE b == Unlisted(r.book)
           s == IF r.shadow = None THEN None ELSE Unlisted(r.shadow)
<1>1. b \in Books /\ s \in Books \cup {None}
  <2>1. << >> \in Seq(Trades)
    OBVIOUS
  <2>2. r.book \in Books /\ r.shadow \in Books \cup {None}
    BY DEF Runs
  <2> QED BY <2>1, <2>2, UnlistedKeeps DEF Unlisted
<1>2. Saved(r) = [r EXCEPT !.live = TRUE, !.book = b, !.shadow = s]
  BY DEF Saved, Unlisted, Runs
<1> HIDE DEF b, s
<1>3. /\ Saved(r) \in Runs /\ Saved(r).live /\ Saved(r).book = b /\ Saved(r).shadow = s
      /\ Saved(r).advice = r.advice /\ Saved(r).paused = r.paused
  BY <1>1, <1>2 DEF Runs
<1>4. Saved(r) # None
  BY <1>3, PaperRunAssumption DEF PaperRunAssumption
<1>5. Waiting(Unlisted(r.book)) = Waiting(r.book)
  <2>1. << >> \in Seq(Trades) /\ r.book \in Books
    BY DEF Runs
  <2> QED BY <2>1, UnlistedKeeps DEF Unlisted
<1> QED BY <1>3, <1>4, <1>5 DEF b, s

LEMMA ReloadedType ==
  ASSUME TypeOK
  PROVE  /\ Reloaded \in Runs
         /\ disk.state = None => /\ Reloaded.live = FALSE /\ Reloaded.book = run.book
                                 /\ Reloaded.shadow = run.shadow
         /\ disk.state # None =>
              /\ Reloaded.live = disk.state.live
              /\ Reloaded.book = [disk.state.book EXCEPT !.trades = TradesOf("main", disk.history)]
              /\ Reloaded.shadow = IF disk.state.shadow = None THEN None
                                   ELSE [disk.state.shadow EXCEPT
                                           !.trades = TradesOf("shadow", disk.history)]
              /\ Reloaded.advice = disk.state.advice /\ Reloaded.paused = disk.state.paused
<1> DEFINE r == disk.state
           b == [r.book EXCEPT !.trades = TradesOf("main", disk.history)]
           s == IF r.shadow = None THEN None
                ELSE [r.shadow EXCEPT !.trades = TradesOf("shadow", disk.history)]
<1>1. run \in Runs /\ r \in Runs \cup {None} /\ disk.history \in Seq(TradeLines)
  BY DEF TypeOK
<1>2. CASE r = None
  <2>1. Reloaded = [run EXCEPT !.live = FALSE]
    BY <1>2 DEF Reloaded
  <2> QED BY <1>1, <1>2, <2>1 DEF Runs
<1>3. CASE r # None
  <2>1. b \in Books /\ s \in Books \cup {None}
    <3>1. /\ TradesOf("main", disk.history) \in Seq(Trades)
          /\ TradesOf("shadow", disk.history) \in Seq(Trades)
      BY <1>1, TradesOfType
    <3>2. r.book \in Books /\ r.shadow \in Books \cup {None}
      BY <1>1, <1>3 DEF Runs
    <3> QED BY <3>1, <3>2, UnlistedKeeps
  <2>2. Reloaded = [r EXCEPT !.book = b, !.shadow = s]
    BY <1>1, <1>3 DEF Reloaded, Runs
  <2> HIDE DEF b, s
  <2>3. /\ Reloaded \in Runs /\ Reloaded.book = b /\ Reloaded.shadow = s
        /\ Reloaded.live = r.live /\ Reloaded.advice = r.advice
        /\ Reloaded.paused = r.paused
    BY <1>1, <1>3, <2>1, <2>2 DEF Runs
  <2> QED BY <1>3, <2>3 DEF b, s
<1> QED BY <1>2, <1>3

LEMMA NewRunType ==
  /\ NewBook \in Books /\ NewRun \in Runs /\ [NewRun EXCEPT !.live = FALSE] \in Runs
  /\ NewRun.book = NewBook /\ NewRun.live /\ NewRun.shadow = None
<1>1. NewBook \in Books
  <2>1. << >> \in Seq(Trades) /\ << >> \in Seq(Realised) /\ StartingEquity \in Int
    BY EngineAssumption DEF EngineAssumption
  <2> QED BY <2>1 DEF NewBook, Books, Level
<1> QED BY <1>1 DEF NewRun, Runs

-----------------------------------------------------------------------------
(* The types, action by action. *)
LEMMA QuotesStayQuoted ==
  ASSUME TypeOK, Next
  PROVE  /\ copies' = [settle |-> copies'.settle, act |-> copies'.act]
         /\ Quoted(quote', feed') /\ Quoted(copies'.settle, feed')
         /\ Quoted(copies'.act, feed')
         /\ feed' \in Level
<1> DEFINE Goal == /\ copies' = [settle |-> copies'.settle, act |-> copies'.act]
                   /\ Quoted(quote', feed') /\ Quoted(copies'.settle, feed')
                   /\ Quoted(copies'.act, feed')
                   /\ feed' \in Level
<1>1. /\ Quoted(quote, feed) /\ Quoted(copies.settle, feed) /\ Quoted(copies.act, feed)
      /\ feed \in Level /\ copies = [settle |-> copies.settle, act |-> copies.act]
  BY DEF TypeOK
<1>2. CASE UNCHANGED <<quote, copies, feed>>
  BY <1>1, <1>2
<1>3. ASSUME NEW t \in Times, Posted(t)
      PROVE  /\ feed' \in Int /\ feed' \in Level /\ t <= feed' /\ feed' # None
             /\ \A q : Quoted(q, feed) => Quoted(q, feed')
  <2>1. t \in Int
    BY PaperRunAssumption DEF PaperRunAssumption
  <2>2. feed' \in Int /\ t <= feed' /\ feed' # None /\ (feed # None => feed <= feed')
    BY <1>1, <1>3, <2>1, FeedGrows
  <2> QED BY <1>1, <2>2, QuotedLasts DEF Level
<1>4. ASSUME NEW t \in Times, Posted(t), UNCHANGED <<quote, copies>>
      PROVE  Goal
  BY <1>1, <1>3, <1>4
<1>5. ASSUME NEW t \in Times, NEW s \in BarShapes, NEW q \in Quotes \cup {None},
             TickStored(t, s, q)
      PROVE  Goal
  <2>1. /\ quote' = [time |-> t, last |-> s.close, sides |-> q]
        /\ copies' = [copies EXCEPT !.settle = quote'] /\ Posted(t)
    BY <1>5 DEF TickStored
  <2>2. Quoted(quote', feed') /\ feed' \in Level /\ Quoted(copies.act, feed')
    BY <1>1, <1>3, <2>1 DEF Quoted
  <2>3. copies' = [settle |-> quote', act |-> copies.act]
    BY <1>1, <2>1
  <2> QED BY <2>2, <2>3
<1>6. CASE TickSettled \/ \E aged \in BOOLEAN : ActTrigger(aged)
  <2>1. /\ UNCHANGED <<quote, feed>>
        /\ \/ copies' = [copies EXCEPT !.settle = None]
           \/ copies' = [copies EXCEPT !.act = None]
    BY <1>6 DEF TickSettled, ActTrigger
  <2>2. \/ copies' = [settle |-> None, act |-> copies.act]
        \/ copies' = [settle |-> copies.settle, act |-> None]
    BY <1>1, <2>1
  <2> QED BY <1>1, <2>1, <2>2 DEF Quoted
<1>7. CASE ActReads
  <2>1. copies' = [settle |-> copies.settle, act |-> quote] /\ UNCHANGED <<quote, feed>>
    BY <1>1, <1>7 DEF ActReads
  <2> QED BY <1>1, <2>1
<1>8. CASE Restart
  <2>1. quote' = None /\ copies' = [settle |-> None, act |-> None] /\ UNCHANGED feed
    BY <1>8 DEF Restart, NoCopies
  <2> QED BY <1>1, <2>1 DEF Quoted
<1>9. ASSUME NEW t \in Times, NEW s \in BarShapes,
             (\E decision, alone \in Answers(t) : BarCloses(t, s, decision, alone))
               \/ BarOpens(t, s.open)
      PROVE  Goal
  <2>1. Posted(t) /\ UNCHANGED <<quote, copies>>
    BY <1>9 DEF BarCloses, BarOpens, PostedAt
  <2> QED BY <1>4, <2>1
<1>10. CASE \/ \E f \in EntryForms : PostIntent(f)
            \/ \E f \in OrderForms : PostOrder(f)
            \/ \E cut \in Cuts : PostAdvice(cut)
            \/ ActCancel \/ Stop \/ Start \/ Proceeds \/ WriteFails
            \/ \E on \in BOOLEAN : Pause(on)
  <2>1. UNCHANGED <<quote, copies, feed>>
    BY <1>10 DEF PostIntent, PostOrder, Post, PostAdvice, ActCancel, Stop, Start, Proceeds,
                 WriteFails, Pause
  <2> QED BY <1>2, <2>1
<1> QED BY <1>5, <1>6, <1>7, <1>8, <1>9, <1>10 DEF Next, Handles

(* The writes left once the first is done. *)
LEMMA WritesLeft ==
  ASSUME TypeOK, writes # << >>
  PROVE  /\ Tail(writes) \in Seq(Writes) /\ Write \in Writes /\ 1 \in DOMAIN writes
         /\ Len(writes) \in Nat /\ DOMAIN writes = 1..Len(writes)
         /\ Len(Tail(writes)) = Len(writes) - 1
         /\ DOMAIN Tail(writes) = 1..(Len(writes) - 1)
         /\ \A i \in DOMAIN Tail(writes) : /\ i + 1 \in DOMAIN writes
                                          /\ Tail(writes)[i] = writes[i + 1]
<1>1. writes \in Seq(Writes)
  BY DEF TypeOK
<1>2. Len(writes) \in Nat /\ Len(writes) # 0 /\ DOMAIN writes = 1..Len(writes)
  BY <1>1, EmptySeq, LenProperties
<1>3. /\ Tail(writes) \in Seq(Writes) /\ Len(Tail(writes)) = Len(writes) - 1
      /\ \A i \in 1..Len(Tail(writes)) : Tail(writes)[i] = writes[i + 1]
  BY <1>1, HeadTailProperties
<1>4. DOMAIN Tail(writes) = 1..(Len(writes) - 1)
  BY <1>3, LenProperties
<1>5. 1 \in DOMAIN writes /\ Write \in Writes
  BY <1>1, <1>2 DEF Write
<1>6. \A i \in 1..(Len(writes) - 1) : i + 1 \in 1..Len(writes)
  BY <1>2
<1> QED BY <1>2, <1>3, <1>4, <1>5, <1>6

LEMMA TypeStep ==
  ASSUME TypeOK, [Next]_vars
  PROVE  TypeOK'
<1>1. /\ run \in Runs /\ disk \in [state: Runs \cup {None}, history: Seq(TradeLines)]
      /\ writes \in Seq(Writes)
  BY DEF TypeOK
<1> SUFFICES ASSUME Next
             PROVE  /\ run' \in Runs
                    /\ disk' \in [state: Runs \cup {None}, history: Seq(TradeLines)]
                    /\ writes' \in Seq(Writes)
  BY QuotesStayQuoted DEF TypeOK, vars
<1>2. CASE UNCHANGED <<run, disk, writes>>
  BY <1>1, <1>2
<1>3. CASE ClosesBar \/ Nudges
  BY <1>1, <1>3 DEF ClosesBar, Nudges, Alters
<1>4. CASE Stop
  <2>1. StopBook(run.book).book \in Books
    BY <1>1, StopBookType DEF Runs
  <2>2. /\ run' = [run EXCEPT !.book = StopBook(run.book).book, !.live = FALSE]
        /\ writes' = StopWrites /\ UNCHANGED disk
    BY <1>4 DEF Stop
  <2> QED BY <1>1, <2>1, <2>2, ShortWrites DEF Runs
<1>5. CASE Start
  BY <1>1, <1>5, NewRunType, ShortWrites DEF Start
<1>6. CASE Proceeds
  <2>1. writes # << >> /\ writes' = Tail(writes)
    BY <1>6 DEF Proceeds
  <2>2. writes' \in Seq(Writes) /\ Write.lines \in Seq(TradeLines)
    BY <2>1, WritesLeft DEF Writes
  <2>3. CASE WriteState
    BY <1>1, <2>2, <2>3, SavedType DEF WriteState
  <2>4. CASE RemoveFile
    BY <1>1, <2>2, <2>4 DEF RemoveFile
  <2>5. CASE AppendHistory
    <3>1. disk.history \o Write.lines \in Seq(TradeLines)
      BY <1>1, <2>2, ConcatProperties
    <3> QED BY <1>1, <2>2, <2>5, <3>1 DEF AppendHistory
  <2>6. CASE InsertRun
    BY <1>1, <2>2, <2>6 DEF InsertRun, Runs
  <2>7. CASE WriteRow \/ AnswerDecider \/ AnswerAdvisor \/ AnswerStopper
    BY <1>1, <2>2, <2>7 DEF WriteRow, AnswerDecider, AnswerAdvisor, AnswerStopper
  <2> QED BY <1>6, <2>3, <2>4, <2>5, <2>6, <2>7 DEF Proceeds
<1>7. CASE WriteFails
  <2>1. writes' = Tail(writes) \/ writes' = << >>
    BY <1>7 DEF WriteFails
  <2>2. writes # << >> /\ UNCHANGED <<run, disk>>
    BY <1>7 DEF WriteFails
  <2> QED BY <1>1, <2>1, <2>2, WritesLeft, ShortWrites
<1>8. CASE Restart
  BY <1>1, <1>8, ReloadedType, ShortWrites DEF Restart
<1>9. CASE Handles
  BY <1>2, <1>3, <1>4, <1>5, <1>9, HandlesDoes DEF Undisturbed
<1> QED BY <1>6, <1>7, <1>8, <1>9 DEF Next

LEMMA TypeInit == Init => TypeOK
<1> SUFFICES ASSUME Init PROVE TypeOK
  OBVIOUS
<1>1. NewRun \in Runs /\ Saved(NewRun) \in Runs /\ << >> \in Seq(TradeLines)
  BY NewRunType, SavedType
<1> QED BY <1>1, ShortWrites DEF Init, TypeOK, Quoted, NoCopies, Level

-----------------------------------------------------------------------------
(* Whatever is killed and whatever write fails.                             *)
To(i) == writes[i].to

(* What was answered: a promise is the entry that waits, in memory and on
   disk, and a stopped run has no file left. *)
Answered ==
  /\ disk.state # None => disk.state.live
  /\ promised # None => /\ run.live /\ disk.state # None
                        /\ Waiting(run.book) = promised
                        /\ Waiting(disk.state.book) = promised
  /\ stopped => writes = << >> /\ ~run.live /\ disk.state = None

(* What the handler in progress may still answer.  A stopper is answered after
   the removal and nothing puts the file back; a decider after the state was
   written, with the entry still waiting. *)
Removing(i) ==
  To(i) \in {"removal", "stopper"} =>
    /\ ~run.live
    /\ \A j \in DOMAIN writes : To(j) \in {"fills.jsonl", "removal", "stopper"}
Stopping(i) ==
  To(i) = "stopper" => /\ i = Len(writes)
                       /\ IF i = 1 THEN disk.state = None ELSE To(i - 1) = "removal"
Promising(i) ==
  To(i) = "decider" =>
    /\ run.live
    /\ IF i = 1 THEN disk.state # None /\ Waiting(disk.state.book) = Waiting(run.book)
       ELSE To(i - 1) = "state.json"
Advising(i) == To(i) = "advisor" => run.advice # None
Handing == \A i \in DOMAIN writes :
             Removing(i) /\ Stopping(i) /\ Promising(i) /\ Advising(i)

Faithful == TypeOK /\ Answered /\ Handing

LEMMA PlainWritesHand ==
  ASSUME writes' \in Seq(Writes),
         \A i \in DOMAIN writes' : writes'[i].to \in {"state.json", "fills.jsonl", "trades.jsonl", "runs"}
  PROVE  Handing'
BY DEF Handing, Removing, Stopping, Promising, Advising, To

LEMMA BarWritesArePlain ==
  ASSUME NEW main, NEW shadow, NoneOrOne(main), NoneOrOne(shadow),
         writes' = BarWrites(main, shadow)
  PROVE  Handing'
<1>1. /\ writes' \in Seq(Writes) /\ Len(writes') \in 2..4
      /\ writes'[1] = SaveState /\ writes'[2] = Row
      /\ \A i \in 3..Len(writes') :
           \/ writes'[i] = Item("main", main[1])
           \/ writes'[i] = Item("shadow", shadow[1])
  BY BarWritesOf
<1>2. \A i \in DOMAIN writes' :
        writes'[i].to \in {"state.json", "fills.jsonl", "trades.jsonl", "runs"}
  <2> TAKE i \in DOMAIN writes'
  <2>1. i \in 1..Len(writes')
    BY <1>1, LenProperties
  <2>2. i = 1 \/ i = 2 \/ i \in 3..Len(writes')
    BY <1>1, <2>1
  <2>3. \A name, t : Item(name, t).to = "trades.jsonl"
    BY DEF Item
  <2> QED BY <1>1, <2>2, <2>3, PlainWrites
<1> QED BY <1>1, <1>2, PlainWritesHand

LEMMA AltersFaithfully ==
  ASSUME TypeOK, Answered, Alters
  PROVE  Answered'
BY DEF Answered, Alters, Idle, told

LEMMA NudgesHand ==
  ASSUME TypeOK, Nudges
  PROVE  Handing'
<1>1. writes' \in Seq(Writes) /\ run'.live
  BY DEF Nudges, Alters
<1>2. CASE writes' = << >>
  <2>1. DOMAIN writes' = {}
    BY <1>2
  <2> QED BY <2>1 DEF Handing
<1>3. CASE writes' = <<SaveState>>
  <2>1. DOMAIN writes' = {1} /\ writes'[1] = SaveState
    BY <1>3
  <2> QED BY <1>1, <2>1, PlainWrites, PlainWritesHand
<1>4. CASE writes' = <<SaveState, Answer("advisor")>> /\ run'.advice # None
  <2>1. DOMAIN writes' = {1, 2} /\ writes'[1].to = "state.json" /\ writes'[2].to = "advisor"
    BY <1>4 DEF SaveState, Answer
  <2> QED BY <1>4, <2>1 DEF Handing, Removing, Stopping, Promising, Advising, To
<1>5. CASE writes' = IntentWrites
  <2>1. /\ DOMAIN writes' = {1, 2, 3} /\ writes'[1].to = "fills.jsonl"
        /\ writes'[2].to = "state.json" /\ writes'[3].to = "decider"
    BY <1>5 DEF IntentWrites, Row, SaveState, Answer
  <2> QED BY <1>1, <2>1 DEF Handing, Removing, Stopping, Promising, Advising, To
<1> QED BY <1>2, <1>3, <1>4, <1>5 DEF Nudges

LEMMA StopFaithfully ==
  ASSUME TypeOK, Answered, Stop
  PROVE  Answered' /\ Handing'
<1>1. /\ run' = [run EXCEPT !.book = StopBook(run.book).book, !.live = FALSE]
      /\ writes' = StopWrites /\ promised' = None /\ run.live
      /\ UNCHANGED <<disk, stopped>>
  BY DEF Stop, Idle
<1>2. ~run'.live
  BY <1>1 DEF TypeOK, Runs
<1>3. /\ DOMAIN writes' = {1, 2, 3} /\ writes'[1].to = "fills.jsonl" /\ Len(writes') = 3
      /\ writes'[2].to = "removal" /\ writes'[3].to = "stopper"
  BY <1>1 DEF StopWrites, Row, RemoveState, Answer
<1>4. Handing'
  BY <1>2, <1>3 DEF Handing, Removing, Stopping, Promising, Advising, To
<1> QED BY <1>1, <1>4 DEF Answered

LEMMA StartFaithfully ==
  ASSUME TypeOK, Answered, Start
  PROVE  Answered' /\ Handing'
<1>1. /\ ~run.live /\ writes' = <<SaveState, Row, Insert>> /\ stopped' = FALSE
      /\ UNCHANGED <<disk, promised>>
  BY DEF Start, told
<1>2. /\ DOMAIN writes' = {1, 2, 3} /\ writes'[1] = SaveState
      /\ writes'[2] = Row /\ writes'[3] = Insert
  BY <1>1
<1>3. Handing'
  BY <1>1, <1>2, PlainWrites, ShortWrites, PlainWritesHand
<1> QED BY <1>1, <1>3 DEF Answered

(* Once the first write is done or given up, the rest may still be answered:
   what it was to bring about is there. *)
LEMMA WritesHand ==
  ASSUME TypeOK, Handing, writes # << >>, writes' = Tail(writes),
         run.live => run'.live, Write.to # "runs" => run'.live = run.live,
         run'.advice = run.advice, run'.book = run.book,
         Write.to = "removal" => disk'.state = None,
         Write.to = "state.json"
           => disk'.state # None /\ Waiting(disk'.state.book) = Waiting(run.book)
  PROVE  Handing'
<1>1. /\ 1 \in DOMAIN writes /\ To(1) = Write.to /\ Len(writes) \in Nat
      /\ DOMAIN writes = 1..Len(writes) /\ Len(writes') = Len(writes) - 1
      /\ DOMAIN writes' = 1..(Len(writes) - 1)
      /\ \A i \in DOMAIN writes' : i + 1 \in DOMAIN writes /\ To(i)' = To(i + 1)
  BY WritesLeft DEF To, Write
<1> SUFFICES ASSUME NEW i \in DOMAIN writes'
             PROVE  Removing(i)' /\ Stopping(i)' /\ Promising(i)' /\ Advising(i)'
  BY DEF Handing
<1>2. /\ i \in Nat /\ i >= 1 /\ i + 1 \in DOMAIN writes /\ i + 1 # 1 /\ (i + 1) - 1 = i
      /\ To(i)' = To(i + 1) /\ (i # 1 => i - 1 \in DOMAIN writes' /\ To(i - 1)' = To(i))
  <2>1. i \in Nat /\ i >= 1 /\ (i # 1 => i - 1 \in 1..(Len(writes) - 1) /\ (i - 1) + 1 = i)
    BY <1>1
  <2> QED BY <1>1, <2>1
<1>3. Removing(i + 1) /\ Stopping(i + 1) /\ Promising(i + 1) /\ Advising(i + 1)
  BY <1>2 DEF Handing
<1>4. Removing(i)'
  <2> SUFFICES ASSUME To(i + 1) \in {"removal", "stopper"}
               PROVE  ~run'.live /\ \A j \in DOMAIN writes' :
                                       To(j)' \in {"fills.jsonl", "removal", "stopper"}
    BY <1>2 DEF Removing
  <2>1. ~run.live /\ \A j \in DOMAIN writes : To(j) \in {"fills.jsonl", "removal", "stopper"}
    BY <1>3 DEF Removing
  <2>2. Write.to # "runs"
    BY <1>1, <2>1
  <2> QED BY <1>1, <2>1, <2>2
<1>5. Stopping(i)'
  <2> SUFFICES ASSUME To(i + 1) = "stopper"
               PROVE  /\ i = Len(writes')
                      /\ IF i = 1 THEN disk'.state = None ELSE To(i - 1)' = "removal"
    BY <1>2 DEF Stopping
  <2>1. i + 1 = Len(writes) /\ To(i) = "removal"
    BY <1>2, <1>3 DEF Stopping
  <2>2. i = Len(writes')
    BY <1>1, <1>2, <2>1
  <2> QED BY <1>1, <1>2, <2>1, <2>2
<1>6. Promising(i)'
  <2> SUFFICES ASSUME To(i + 1) = "decider"
               PROVE  /\ run'.live
                      /\ IF i = 1
                         THEN disk'.state # None
                              /\ Waiting(disk'.state.book) = Waiting(run'.book)
                         ELSE To(i - 1)' = "state.json"
    BY <1>2 DEF Promising
  <2>1. run.live /\ To(i) = "state.json"
    BY <1>2, <1>3 DEF Promising
  <2> QED BY <1>1, <1>2, <2>1
<1>7. Advising(i)'
  BY <1>2, <1>3 DEF Advising
<1> QED BY <1>4, <1>5, <1>6, <1>7

LEMMA ProceedsFaithfully ==
  ASSUME TypeOK, Answered, Handing, Proceeds
  PROVE  Answered' /\ Handing'
<1>1. /\ writes # << >> /\ writes' = Tail(writes) /\ run \in Runs /\ 1 \in DOMAIN writes
      /\ To(1) = Write.to /\ ~stopped
  BY WritesLeft DEF Proceeds, TypeOK, To, Write, Answered
<1>2. Removing(1) /\ Stopping(1) /\ Promising(1) /\ Advising(1)
  BY <1>1 DEF Handing
<1>3. CASE WriteState
  <2>1. /\ disk'.state = Saved(run) /\ Write.to = "state.json"
        /\ UNCHANGED <<run, promised, stopped>>
    BY <1>3 DEF WriteState, TypeOK, told
  <2>2. Saved(run) # None /\ Saved(run).live /\ Waiting(Saved(run).book) = Waiting(run.book)
    BY <1>1, SavedType
  <2>3. Handing'
    BY <1>1, <2>1, <2>2, WritesHand
  <2> QED BY <1>1, <2>1, <2>2, <2>3 DEF Answered
<1>4. CASE RemoveFile
  <2>1. /\ disk'.state = None /\ Write.to = "removal" /\ UNCHANGED <<run, promised, stopped>>
    BY <1>4 DEF RemoveFile, TypeOK, told
  <2>2. ~run.live
    BY <1>1, <1>2, <2>1 DEF Removing
  <2>3. Handing'
    BY <1>1, <2>1, WritesHand
  <2> QED BY <1>1, <2>1, <2>2, <2>3 DEF Answered
<1>5. CASE AppendHistory \/ WriteRow
  <2>1. /\ disk'.state = disk.state /\ Write.to \in {"trades.jsonl", "fills.jsonl"}
        /\ UNCHANGED <<run, promised, stopped>>
    BY <1>5 DEF AppendHistory, WriteRow, TypeOK, told
  <2>2. Handing'
    BY <1>1, <2>1, WritesHand
  <2> QED BY <1>1, <2>1, <2>2 DEF Answered
<1>6. CASE InsertRun
  <2>1. /\ run' = [run EXCEPT !.live = TRUE] /\ Write.to = "runs"
        /\ UNCHANGED <<disk, promised, stopped>>
    BY <1>6 DEF InsertRun, told
  <2>2. run'.live /\ run'.book = run.book /\ run'.advice = run.advice
    BY <1>1, <2>1 DEF Runs
  <2>3. Handing'
    BY <1>1, <2>1, <2>2, WritesHand
  <2> QED BY <1>1, <2>1, <2>2, <2>3 DEF Answered
<1>7. CASE AnswerDecider
  <2>1. /\ promised' = Waiting(run.book) /\ Write.to = "decider"
        /\ UNCHANGED <<run, disk, stopped>>
    BY <1>7 DEF AnswerDecider
  <2>2. run.live /\ disk.state # None /\ Waiting(disk.state.book) = Waiting(run.book)
    BY <1>1, <1>2, <2>1 DEF Promising
  <2>3. Handing'
    BY <1>1, <2>1, WritesHand
  <2> QED BY <1>1, <2>1, <2>2, <2>3 DEF Answered
<1>8. CASE AnswerAdvisor
  <2>1. Write.to = "advisor" /\ UNCHANGED <<run, disk, promised, stopped>>
    BY <1>8 DEF AnswerAdvisor
  <2>2. Handing'
    BY <1>1, <2>1, WritesHand
  <2> QED BY <1>1, <2>1, <2>2 DEF Answered
<1>9. CASE AnswerStopper
  <2>1. Write.to = "stopper" /\ stopped' /\ UNCHANGED <<run, disk, promised>>
    BY <1>9 DEF AnswerStopper, told
  <2>2. ~run.live /\ disk.state = None /\ Len(writes) = 1
    BY <1>1, <1>2, <2>1 DEF Removing, Stopping
  <2>3. writes' = << >>
    <3>1. writes' \in Seq(Writes) /\ Len(writes') = 0
      BY <1>1, <2>2, WritesLeft
    <3> QED BY <3>1, EmptySeq
  <2>4. Handing'
    BY <1>1, <2>1, WritesHand
  <2> QED BY <1>1, <2>1, <2>2, <2>3, <2>4 DEF Answered
<1> QED BY <1>3, <1>4, <1>5, <1>6, <1>7, <1>8, <1>9 DEF Proceeds

LEMMA NothingLeftHands ==
  ASSUME writes' = << >>
  PROVE  Handing'
<1>1. DOMAIN writes' = {}
  OBVIOUS
<1> QED BY <1>1 DEF Handing

LEMMA WriteFailsFaithfully ==
  ASSUME TypeOK, Answered, Handing, WriteFails
  PROVE  Answered' /\ Handing'
<1>1. /\ writes # << >> /\ UNCHANGED <<run, disk, promised, stopped>> /\ ~stopped
      /\ writes' = IF Write.to = "trades.jsonl" THEN Tail(writes) ELSE << >>
  BY DEF WriteFails, told, Answered
<1>2. Handing'
  <2>1. CASE Write.to = "trades.jsonl"
    BY <1>1, <2>1, WritesHand
  <2>2. CASE Write.to # "trades.jsonl"
    BY <1>1, <2>2, NothingLeftHands
  <2> QED BY <2>1, <2>2
<1> QED BY <1>1, <1>2 DEF Answered

LEMMA RestartFaithfully ==
  ASSUME TypeOK, Answered, Restart
  PROVE  Answered' /\ Handing'
<1>1. /\ run' = Reloaded /\ writes' = << >> /\ UNCHANGED <<disk, promised, stopped>>
  BY DEF Restart, told
<1>2. CASE disk.state = None
  <2>1. run'.live = FALSE /\ run'.book = run.book
    BY <1>1, <1>2, ReloadedType
  <2> QED BY <1>1, <1>2, <2>1, NothingLeftHands DEF Answered
<1>3. CASE disk.state # None
  <2>1. /\ run'.live = disk.state.live
        /\ run'.book = [disk.state.book EXCEPT !.trades = TradesOf("main", disk.history)]
    BY <1>1, <1>3, ReloadedType
  <2>2. Waiting(run'.book) = Waiting(disk.state.book)
    <3>1. disk.state.book \in Books /\ TradesOf("main", disk.history) \in Seq(Trades)
      BY <1>3, TradesOfType DEF TypeOK, Runs
    <3> QED BY <2>1, <3>1, UnlistedKeeps
  <2> QED BY <1>1, <1>3, <2>1, <2>2, NothingLeftHands DEF Answered
<1> QED BY <1>2, <1>3

LEMMA FaithfulStep ==
  ASSUME Faithful, [Next]_vars
  PROVE  Faithful'
<1>1. TypeOK /\ Answered /\ Handing /\ TypeOK'
  BY TypeStep DEF Faithful
<1>2. CASE UNCHANGED <<run, disk, writes, promised, stopped>>
  BY <1>1, <1>2 DEF Faithful, Answered, Handing, Removing, Stopping, Promising, Advising, To
<1>3. ASSUME ClosesBar PROVE Answered' /\ Handing'
  BY <1>1, <1>3, AltersFaithfully, BarWritesArePlain DEF ClosesBar, OverBar
<1>4. ASSUME Nudges PROVE Answered' /\ Handing'
  BY <1>1, <1>4, AltersFaithfully, NudgesHand DEF Nudges
<1>5. CASE Handles
  BY <1>1, <1>2, <1>3, <1>4, <1>5, HandlesDoes, StopFaithfully, StartFaithfully
     DEF Undisturbed, told, Faithful
<1>6. CASE Proceeds \/ WriteFails \/ Restart
  BY <1>1, <1>6, ProceedsFaithfully, WriteFailsFaithfully, RestartFaithfully DEF Faithful
<1> QED BY <1>2, <1>5, <1>6 DEF Next, vars, told

LEMMA FaithfulInit == Init => Faithful
<1> SUFFICES ASSUME Init PROVE Faithful
  OBVIOUS
<1>1. Saved(NewRun).live
  BY NewRunType, SavedType
<1>2. DOMAIN writes = {}
  BY DEF Init
<1> QED BY <1>1, <1>2, TypeInit DEF Init, Faithful, Answered, Handing

(* Every state of a run has its types, whatever is killed or fails to be
   written, and every answer given or still owed is backed by a file. *)
THEOREM FaithfulAlways == Spec => []Faithful
BY FaithfulInit, FaithfulStep, PTL DEF Spec

(* An entry whose caller was told it was accepted still waits after any kill
   and any failed write (intent, reload). *)
THEOREM PromiseAlwaysSurvives == Spec => []PromiseSurvives
<1>1. Faithful => PromiseSurvives
  BY DEF Faithful, Answered, PromiseSurvives
<1> QED BY <1>1, FaithfulAlways, PTL

(* A run whose caller was told it is stopped is not brought back by a restart
   (stop, reload). *)
THEOREM StoppedAlwaysStays == Spec => []StoppedStaysStopped
<1>1. Faithful => StoppedStaysStopped
  BY DEF Faithful, Answered, StoppedStaysStopped
<1> QED BY <1>1, FaithfulAlways, PTL

-----------------------------------------------------------------------------
(***************************************************************************)
(* The trades of a run and the record of them.                             *)
(***************************************************************************)

(* A restarted id begins with no bar at all, and its feed is in order: the two
   things that keep the trades of its second life apart from its first. *)
RestartsInOrder == MayRestartId => InOrder /\ Warmup = None

-----------------------------------------------------------------------------
(* The record: exits in order, none beyond the feed, and each behind every book
   that may still close a trade.  A book that saw no bar yet has none to close. *)
Recorded == TradesOf("main", disk.history)

Increasing(main) ==
  \A j, k \in DOMAIN main : j < k => main[j].exitTime < main[k].exitTime
Within(main, newest) ==
  \A k \in DOMAIN main : newest # None /\ main[k].exitTime <= newest
Behind(b, main, newest) ==
  /\ b.lastBar # None => newest # None /\ b.lastBar.time <= newest
  /\ \A k \in DOMAIN main :
       IF b.lastBar = None THEN MayRestartId ELSE main[k].exitTime <= b.lastBar.time
Fresh(b) ==
  b.lastBar = None /\ (Warmup = None \/ ~External)
    => b.position = None /\ b.pending = None /\ b.order = None

InRecord ==
  /\ Increasing(Recorded) /\ Within(Recorded, feed)
  /\ Behind(run.book, Recorded, feed) /\ Fresh(run.book)
  /\ disk.state # None => Behind(disk.state.book, Recorded, feed) /\ Fresh(disk.state.book)

(* A line still to be appended is the trade of the run's last bar, and the
   state was on disk, or will be, before it. *)
IsLine(w, i, name) == w[i].to = "trades.jsonl" /\ w[i].lines[1].book = name
StateOwed == \E i \in DOMAIN writes : writes[i].to = "state.json"

Single(w, i) ==
  w[i].to = "trades.jsonl" =>
    /\ w[i].lines = <<w[i].lines[1]>> /\ w[i].lines[1] \in TradeLines
    /\ \A j \in DOMAIN w : w[j].to = "state.json" => j = 1
    /\ \A j \in DOMAIN w : IsLine(w, j, w[i].lines[1].book) => j = i
Latest(i, main) ==
  writes[i].to = "trades.jsonl" =>
    /\ run.live
    /\ IsLine(writes, i, "main") =>
         /\ run.book.lastBar # None
         /\ writes[i].lines[1].trade.exitTime = run.book.lastBar.time
         /\ \A k \in DOMAIN main : main[k].exitTime < writes[i].lines[1].trade.exitTime
         /\ StateOwed \/ (disk.state # None /\ disk.state.book.lastBar = run.book.lastBar)
Owed == \A i \in DOMAIN writes : Single(writes, i) /\ Latest(i, Recorded)

Recording == Faithful /\ InRecord /\ Owed

-----------------------------------------------------------------------------
LEMMA RecordedType == ASSUME TypeOK PROVE Recorded \in Seq(Trades)
BY TradesOfType DEF TypeOK, Recorded

(* One more trade, later than all recorded, keeps the record in order. *)
LEMMA RecordGrows ==
  ASSUME NEW main \in Seq(Trades), NEW t \in Trades, Increasing(main),
         \A k \in DOMAIN main : main[k].exitTime < t.exitTime
  PROVE  /\ Increasing(Append(main, t))
         /\ \A k \in DOMAIN Append(main, t) :
              \/ k \in DOMAIN main /\ Append(main, t)[k] = main[k]
              \/ Append(main, t)[k] = t
<1> DEFINE n == Len(main)
           u == Append(main, t)
<1>1. /\ n \in Nat /\ DOMAIN main = 1..n /\ Len(u) = n + 1 /\ DOMAIN u = 1..Len(u)
      /\ u[n + 1] = t /\ \A k \in 1..n : u[k] = main[k]
  <2>1. u \in Seq(Trades)
    BY AppendProperties
  <2>2. n \in Nat /\ DOMAIN main = 1..n /\ DOMAIN u = 1..Len(u)
    BY <2>1, LenProperties
  <2> QED BY <2>2, AppendProperties
<1> HIDE DEF n, u
<1>2. \A k \in DOMAIN u : k \in 1..n \/ k = n + 1
  BY <1>1
<1>3. \A j, k \in DOMAIN u : j < k => u[j].exitTime < u[k].exitTime
  <2> SUFFICES ASSUME NEW j \in DOMAIN u, NEW k \in DOMAIN u, j < k
               PROVE  u[j].exitTime < u[k].exitTime
    OBVIOUS
  <2>1. j \in 1..n
    BY <1>1
  <2>2. CASE k \in 1..n
    BY <1>1, <2>1, <2>2 DEF Increasing
  <2>3. CASE k = n + 1
    BY <1>1, <2>1, <2>3
  <2> QED BY <1>2, <2>2, <2>3
<1> QED BY <1>1, <1>2, <1>3 DEF Increasing, u

LEMMA FeedNeverFalls ==
  ASSUME TypeOK, [Next]_vars
  PROVE  feed # None => feed' # None /\ feed <= feed'
<1>1. feed \in Level /\ (feed # None => feed <= feed)
  <2>1. feed # None => feed \in Int
    BY DEF TypeOK, Level
  <2> QED BY <2>1 DEF TypeOK
<1>2. ASSUME NEW t \in Times, Posted(t)
      PROVE  feed # None => feed' # None /\ feed <= feed'
  <2>1. t \in Int
    BY PaperRunAssumption DEF PaperRunAssumption
  <2> QED BY <1>1, <1>2, <2>1, FeedGrows
<1>3. ASSUME Next PROVE UNCHANGED feed \/ \E t \in Times : Posted(t)
  BY <1>3 DEF Next, Handles, BarCloses, BarOpens, PostedAt, TickStored, TickSettled, PostIntent,
              PostOrder, Post, PostAdvice, ActReads, ActTrigger, ActCancel, Pause, Stop,
              Start, Proceeds, WriteFails, Restart
<1> QED BY <1>1, <1>2, <1>3 DEF vars

(* What holds up to now holds from now on. *)
LEMMA StillBehind ==
  ASSUME TypeOK, [Next]_vars, NEW b \in Books, NEW main \in Seq(Trades)
  PROVE  /\ Within(main, feed) => Within(main, feed')
         /\ Behind(b, main, feed) => Behind(b, main, feed')
<1>1. feed # None => feed' # None /\ feed <= feed'
  BY FeedNeverFalls
<1>2. feed \in Level /\ feed' \in Level
  BY TypeStep DEF TypeOK
<1>3. \A x \in Int : feed # None /\ x <= feed => feed' # None /\ x <= feed'
  BY <1>1, <1>2 DEF Level
<1>4. \A k \in DOMAIN main : main[k].exitTime \in Int
  <2>1. \A k \in DOMAIN main : main[k] \in Trades
    BY LenProperties
  <2> QED BY <2>1 DEF Trades
<1>5. b.lastBar # None => b.lastBar.time \in Int
  BY DEF Books, Bars
<1> QED BY <1>3, <1>4, <1>5 DEF Within, Behind

(* Writes none of which is a line of trades.jsonl owe nothing. *)
LEMMA NoLineOwed ==
  ASSUME \A i \in DOMAIN writes' : writes'[i].to # "trades.jsonl"
  PROVE  Owed'
BY DEF Owed, Single, Latest

LEMMA NudgesOwesNothing ==
  ASSUME Nudges \/ Stop \/ Start
  PROVE  \A i \in DOMAIN writes' : writes'[i].to # "trades.jsonl"
<1>1. writes' \in {<< >>, <<SaveState>>, IntentWrites, <<SaveState, Answer("advisor")>>,
                   StopWrites, <<SaveState, Row, Insert>>}
  BY DEF Nudges, Stop, Start
<1>2. /\ SaveState.to # "trades.jsonl" /\ Row.to # "trades.jsonl"
      /\ RemoveState.to # "trades.jsonl" /\ Insert.to # "trades.jsonl"
      /\ Answer("advisor").to # "trades.jsonl" /\ Answer("decider").to # "trades.jsonl"
      /\ Answer("stopper").to # "trades.jsonl"
  BY DEF SaveState, Row, RemoveState, Insert, Answer
<1>3. \A x, y, z : /\ DOMAIN <<x>> = {1} /\ <<x>>[1] = x
                   /\ DOMAIN <<x, y>> = {1, 2} /\ <<x, y>>[1] = x /\ <<x, y>>[2] = y
                   /\ DOMAIN <<x, y, z>> = {1, 2, 3} /\ <<x, y, z>>[1] = x
                   /\ <<x, y, z>>[2] = y /\ <<x, y, z>>[3] = z
  OBVIOUS
<1>4. DOMAIN << >> = {}
  OBVIOUS
<1> QED BY <1>1, <1>2, <1>3, <1>4 DEF IntentWrites, StopWrites

(* The writes of a bar owe the line of each trade it closed, and no other. *)
LEMMA BarWritesOwe ==
  ASSUME NEW main, NEW shadow, NoneOrOne(main), NoneOrOne(shadow)
  PROVE  LET w == BarWrites(main, shadow)
         IN  /\ w \in Seq(Writes) /\ 1 \in DOMAIN w /\ w[1].to = "state.json"
             /\ \A i \in DOMAIN w : w[i].to \in {"state.json", "fills.jsonl", "trades.jsonl"}
             /\ \A i \in DOMAIN w : Single(w, i)
             /\ \A i \in DOMAIN w : IsLine(w, i, "main")
                                      => main # << >> /\ w[i].lines[1].trade = main[1]
             /\ \A i \in DOMAIN w : IsLine(w, i, "shadow")
                                      => shadow # << >> /\ w[i].lines[1].trade = shadow[1]
             /\ main # << >> => \E i \in DOMAIN w : IsLine(w, i, "main")
             /\ shadow # << >> => \E i \in DOMAIN w : IsLine(w, i, "shadow")
<1> DEFINE w == BarWrites(main, shadow)
           n == Len(w)
           a == Item("main", main[1])
           b == Item("shadow", shadow[1])
<1>1. /\ w \in Seq(Writes) /\ n \in 2..4 /\ w[1] = SaveState /\ w[2] = Row
      /\ \A i \in 3..n : \/ main # << >> /\ main[1] \in Trades /\ w[i] = a /\ i = 3
                         \/ shadow # << >> /\ shadow[1] \in Trades /\ w[i] = b /\ i = n
      /\ main # << >> => n >= 3 /\ w[3] = a
      /\ shadow # << >> => n >= 3 /\ w[n] = b
  BY BarWritesOf
<1>2. /\ SaveState.to = "state.json" /\ Row.to = "fills.jsonl"
      /\ a.to = "trades.jsonl" /\ a.lines = <<a.lines[1]>> /\ a.lines[1].book = "main"
      /\ a.lines[1].trade = main[1]
      /\ b.to = "trades.jsonl" /\ b.lines = <<b.lines[1]>> /\ b.lines[1].book = "shadow"
      /\ b.lines[1].trade = shadow[1]
      /\ main[1] \in Trades => a.lines[1] \in TradeLines
      /\ shadow[1] \in Trades => b.lines[1] \in TradeLines
  BY DEF SaveState, Row, Item, TradeLines, BookNames
<1>3. DOMAIN w = 1..n
  BY <1>1, LenProperties
<1> HIDE DEF w, n, a, b
<1>4. \A i \in DOMAIN w :
        \/ i = 1 /\ w[i].to = "state.json"
        \/ i = 2 /\ w[i].to = "fills.jsonl"
        \/ main # << >> /\ main[1] \in Trades /\ w[i] = a /\ i = 3
        \/ shadow # << >> /\ shadow[1] \in Trades /\ w[i] = b /\ i = n
  BY <1>1, <1>2, <1>3
<1>5. \A i, j \in DOMAIN w : /\ IsLine(w, i, "main") /\ IsLine(w, j, "main") => i = j
                             /\ IsLine(w, i, "shadow") /\ IsLine(w, j, "shadow") => i = j
  BY <1>2, <1>4 DEF IsLine
<1>6. \A i \in DOMAIN w : Single(w, i)
  <2> SUFFICES ASSUME NEW i \in DOMAIN w, w[i].to = "trades.jsonl" PROVE Single(w, i)
    BY DEF Single
  <2>1. /\ w[i].lines = <<w[i].lines[1]>> /\ w[i].lines[1] \in TradeLines
        /\ w[i].lines[1].book = "main" \/ w[i].lines[1].book = "shadow"
    BY <1>2, <1>4
  <2>2. \A j \in DOMAIN w : w[j].to = "state.json" => j = 1
    BY <1>2, <1>4
  <2>3. \A j \in DOMAIN w : IsLine(w, j, w[i].lines[1].book) => j = i
    <3>1. IsLine(w, i, w[i].lines[1].book)
      BY DEF IsLine
    <3> QED BY <1>5, <2>1, <3>1
  <2> QED BY <2>1, <2>2, <2>3 DEF Single
<1>7. /\ main # << >> => 3 \in DOMAIN w /\ IsLine(w, 3, "main")
      /\ shadow # << >> => n \in DOMAIN w /\ IsLine(w, n, "shadow")
  BY <1>1, <1>2, <1>3 DEF IsLine
<1>8. \A i \in DOMAIN w : IsLine(w, i, "main") => main # << >> /\ w[i].lines[1].trade = main[1]
  BY <1>2, <1>4 DEF IsLine
<1>9. \A i \in DOMAIN w : IsLine(w, i, "shadow") => shadow # << >> /\ w[i].lines[1].trade = shadow[1]
  BY <1>2, <1>4 DEF IsLine
<1>10. \A i \in DOMAIN w : w[i].to \in {"state.json", "fills.jsonl", "trades.jsonl"}
  BY <1>2, <1>4
<1>11. 1 \in DOMAIN w /\ w[1].to = "state.json" /\ w \in Seq(Writes)
  BY <1>1, <1>2, <1>3
<1> QED BY <1>6, <1>7, <1>8, <1>9, <1>10, <1>11 DEF w

LEMMA StopBookKeeps ==
  ASSUME NEW b \in Books
  PROVE  LET c == StopBook(b).book
         IN  /\ c.lastBar = b.lastBar /\ c.pending = None /\ c.order = None
             /\ b.lastBar = None => c.position = b.position
             /\ b.position = None => c.position = None
<1> DEFINE c == [b EXCEPT !.pending = None, !.order = None, !.since = None]
           price == ApplyCosts(b.lastBar.close, b.position.side, FALSE)
<1>1. /\ c \in Books /\ c.position = b.position /\ c.lastBar = b.lastBar
      /\ c.pending = None /\ c.order = None
  BY DEF Books
<1>2. CASE b.lastBar = None \/ b.position = None
  BY <1>1, <1>2 DEF StopBook, Quiet
<1>3. CASE b.lastBar # None /\ b.position # None
  <2>1. StopBook(b).book.lastBar = c.lastBar /\ StopBook(b).book.pending = c.pending
        /\ StopBook(b).book.order = c.order
    BY <1>1, <1>3 DEF StopBook, Booked, Quiet, Books
  <2> QED BY <1>1, <1>3, <2>1
<1> QED BY <1>2, <1>3

(* A bar: what it closes is later than the record, and the record of a book
   that saw no bar is of a run before it, whose every exit the feed has reached
   and which left nothing to close. *)
LEMMA BarIsRecorded ==
  ASSUME RestartsInOrder, Recording, ClosesBar, [Next]_vars
  PROVE  InRecord' /\ Owed'
<1>1. TypeOK /\ TypeOK' /\ InRecord
  BY TypeStep DEF Recording, Faithful
<1>2. PICK t, main, shadow :
        /\ t \in Times
        /\ Book!Newer(t) /\ feed' \in Int /\ t <= feed'
        /\ InOrder /\ feed # None => feed <= t
        /\ writes' = BarWrites(main, shadow)
        /\ OverBar(run.book, run'.book, main, t)
        /\ OverBar(Counterfactual, run'.shadow, shadow, t)
  BY DEF ClosesBar
<1>3. /\ run.book \in Books /\ run'.book \in Books /\ t \in Int /\ feed \in Level
      /\ run'.live /\ UNCHANGED disk /\ Recorded \in Seq(Trades)
      /\ \A k \in DOMAIN Recorded : Recorded[k].exitTime \in Int
  <2>1. Recorded \in Seq(Trades)
    BY <1>1, RecordedType
  <2>2. \A k \in DOMAIN Recorded : Recorded[k] \in Trades
    BY <2>1, LenProperties
  <2>3. UNCHANGED disk /\ run'.live
    BY DEF ClosesBar, Alters
  <2> QED BY <1>1, <1>2, <2>1, <2>2, <2>3, PaperRunAssumption
          DEF PaperRunAssumption, TypeOK, Runs, OverBar, Trades
<1>4. Recorded' = Recorded
  BY <1>3 DEF Recorded
<1>5. run.book.lastBar # None => run.book.lastBar.time \in Int /\ t > run.book.lastBar.time
  BY <1>2, <1>3, NewestType
<1>6. /\ run'.book.lastBar # None /\ run'.book.lastBar.time = t
      /\ main # << >> => /\ run.book.position # None \/ run.book.pending # None
                         /\ main[1] \in Trades /\ main[1].exitTime = t
      /\ shadow # << >> => shadow[1] \in Trades
      /\ NoneOrOne(main) /\ NoneOrOne(shadow)
  <2>1. \A u \in Trades : <<u>>[1] = u
    OBVIOUS
  <2> QED BY <1>2, <2>1 DEF OverBar, Tallied, NoneOrOne
<1>7. \A k \in DOMAIN Recorded : Recorded[k].exitTime <= t
  <2>1. CASE run.book.lastBar # None
    BY <1>1, <1>3, <1>5, <2>1 DEF InRecord, Behind
  <2>2. ASSUME NEW k \in DOMAIN Recorded, run.book.lastBar = None
        PROVE  Recorded[k].exitTime <= t
    <3>1. MayRestartId /\ feed # None /\ Recorded[k].exitTime <= feed
      BY <1>1, <2>2 DEF InRecord, Behind, Within
    <3>2. feed <= t /\ feed \in Int
      BY <1>2, <1>3, <3>1 DEF RestartsInOrder, Level
    <3> QED BY <1>3, <3>1, <3>2
  <2> QED BY <2>1, <2>2
<1>8. main # << >> => \A k \in DOMAIN Recorded : Recorded[k].exitTime < t
  <2>1. CASE run.book.lastBar # None
    BY <1>1, <1>3, <1>5, <2>1 DEF InRecord, Behind
  <2>2. ASSUME NEW k \in DOMAIN Recorded, run.book.lastBar = None, main # << >>
        PROVE  FALSE
    <3>1. MayRestartId
      BY <1>1, <2>2 DEF InRecord, Behind
    <3>2. run.book.position = None /\ run.book.pending = None
      BY <1>1, <2>2, <3>1 DEF InRecord, Fresh, RestartsInOrder
    <3> QED BY <1>6, <2>2, <3>2
  <2> QED BY <2>1, <2>2
<1>9. InRecord'
  <2>1. Within(Recorded, feed') /\ Increasing(Recorded)
    BY <1>1, <1>3, StillBehind DEF InRecord
  <2>2. Behind(run'.book, Recorded, feed')
    <3>1. feed' # None
      BY <1>2, EngineAssumption DEF EngineAssumption
    <3> QED BY <1>2, <1>6, <1>7, <3>1 DEF Behind
  <2>3. Fresh(run'.book)
    BY <1>6 DEF Fresh
  <2>4. disk.state # None => Behind(disk.state.book, Recorded, feed') /\ Fresh(disk.state.book)
    <3>1. disk.state # None => disk.state.book \in Books
      BY <1>1 DEF TypeOK, Runs
    <3> QED BY <1>1, <1>3, <3>1, StillBehind DEF InRecord
  <2> QED BY <1>3, <1>4, <2>1, <2>2, <2>3, <2>4 DEF InRecord
<1>10. Owed'
  <2>1. /\ 1 \in DOMAIN writes' /\ writes'[1].to = "state.json"
        /\ \A i \in DOMAIN writes' : Single(writes', i)
        /\ \A i \in DOMAIN writes' : IsLine(writes', i, "main")
             => main # << >> /\ writes'[i].lines[1].trade = main[1]
    BY <1>2, <1>6, BarWritesOwe
  <2>2. StateOwed'
    BY <2>1 DEF StateOwed
  <2>3. \A i \in DOMAIN writes' : Latest(i, Recorded)'
    BY <1>3, <1>4, <1>6, <1>8, <2>1, <2>2 DEF Latest, IsLine
  <2> QED BY <2>1, <2>3 DEF Owed, Single, IsLine
<1> QED BY <1>9, <1>10

(* The handlers that change neither the record nor the last bar. *)
LEMMA OthersAreRecorded ==
  ASSUME RestartsInOrder, Recording, Nudges \/ Stop \/ Start, [Next]_vars
  PROVE  InRecord' /\ Owed'
<1>1. TypeOK /\ InRecord /\ run \in Runs /\ run.book \in Books
  BY DEF Recording, Faithful, TypeOK, Runs
<1>2. UNCHANGED disk
  BY DEF Nudges, Alters, Stop, Start
<1>3. Recorded' = Recorded /\ Recorded \in Seq(Trades)
  BY <1>1, <1>2, RecordedType DEF Recorded
<1>4. Behind(run'.book, Recorded, feed) /\ Fresh(run'.book) /\ run'.book \in Books
  <2>1. CASE Nudges
    <3>1. run'.book \in Books /\ run'.book.lastBar = run.book.lastBar
      BY <2>1 DEF Nudges, Alters, Runs
    <3>2. Behind(run'.book, Recorded, feed)
      BY <1>1, <3>1 DEF InRecord, Behind
    <3>3. Fresh(run'.book)
      BY <1>1, <2>1, <3>1 DEF InRecord, Fresh, Nudges
    <3> QED BY <3>1, <3>2, <3>3
  <2>2. CASE Stop
    <3>1. run'.book = StopBook(run.book).book
      BY <1>1, <2>2 DEF Stop, Runs
    <3>2. /\ run'.book \in Books /\ run'.book.lastBar = run.book.lastBar
          /\ run'.book.pending = None /\ run'.book.order = None
          /\ run.book.lastBar = None => run'.book.position = run.book.position
      BY <1>1, <3>1, StopBookType, StopBookKeeps
    <3>3. Behind(run'.book, Recorded, feed)
      BY <1>1, <3>2 DEF InRecord, Behind
    <3> QED BY <1>1, <3>2, <3>3 DEF InRecord, Fresh
  <2>3. CASE Start
    <3>1. run'.book = NewBook /\ MayRestartId
      BY <2>3, NewRunType DEF Start, Runs
    <3>2. NewBook.lastBar = None /\ NewBook.position = None /\ NewBook.pending = None
          /\ NewBook.order = None
      BY DEF NewBook
    <3> QED BY <3>1, <3>2, NewRunType DEF Behind, Fresh
  <2> QED BY <2>1, <2>2, <2>3
<1>5. InRecord'
  <2>1. Within(Recorded, feed') /\ Increasing(Recorded)
    BY <1>1, <1>3, StillBehind DEF InRecord
  <2>2. Behind(run'.book, Recorded, feed')
    BY <1>1, <1>3, <1>4, StillBehind
  <2>3. disk.state # None => Behind(disk.state.book, Recorded, feed') /\ Fresh(disk.state.book)
    <3>1. disk.state # None => disk.state.book \in Books
      BY <1>1 DEF TypeOK, Runs
    <3> QED BY <1>1, <1>3, <3>1, StillBehind DEF InRecord
  <2> QED BY <1>2, <1>3, <1>4, <2>1, <2>2, <2>3 DEF InRecord
<1>6. Owed'
  BY NudgesOwesNothing, NoLineOwed
<1> QED BY <1>5, <1>6

(* What is left of the writes once the first is done or given up. *)
LEMMA SingleOfTail ==
  ASSUME TypeOK, writes # << >>, \A i \in DOMAIN writes : Single(writes, i)
  PROVE  /\ \A i \in DOMAIN Tail(writes) :
              /\ Single(Tail(writes), i)
              /\ i + 1 \in DOMAIN writes /\ Tail(writes)[i] = writes[i + 1]
         /\ \A i \in DOMAIN Tail(writes), name \in BookNames :
              IsLine(writes, 1, name) => ~IsLine(Tail(writes), i, name)
         /\ \A i, j \in DOMAIN Tail(writes) :
              Tail(writes)[i].to = "trades.jsonl" => Tail(writes)[j].to # "state.json"
<1> DEFINE w == Tail(writes)
<1>1. /\ 1 \in DOMAIN writes /\ Len(writes) \in Nat
      /\ DOMAIN writes = 1..Len(writes) /\ DOMAIN w = 1..(Len(writes) - 1)
      /\ \A i \in DOMAIN w : i + 1 \in DOMAIN writes /\ w[i] = writes[i + 1]
  BY WritesLeft
<1>2. \A i \in DOMAIN w : i \in Nat /\ i + 1 # 1
  BY <1>1
<1> HIDE DEF w
<1>3. \A i, j \in DOMAIN w : w[i].to = "trades.jsonl" => w[j].to # "state.json"
  <2> SUFFICES ASSUME NEW i \in DOMAIN w, NEW j \in DOMAIN w,
                      w[i].to = "trades.jsonl", w[j].to = "state.json"
               PROVE  FALSE
    OBVIOUS
  <2>1. Single(writes, i + 1)
    BY <1>1
  <2>2. writes[i + 1].to = "trades.jsonl" /\ writes[j + 1].to = "state.json"
        /\ j + 1 \in DOMAIN writes
    BY <1>1
  <2> QED BY <1>2, <2>1, <2>2 DEF Single
<1>4. ASSUME NEW i \in DOMAIN w, w[i].to = "trades.jsonl" PROVE Single(w, i)
  <2>1. Single(writes, i + 1) /\ writes[i + 1].to = "trades.jsonl" /\ w[i] = writes[i + 1]
    BY <1>1, <1>4
  <2>2. \A j \in DOMAIN w : IsLine(w, j, w[i].lines[1].book) => j = i
    <3> SUFFICES ASSUME NEW j \in DOMAIN w, IsLine(w, j, w[i].lines[1].book) PROVE j = i
      OBVIOUS
    <3>1. IsLine(writes, j + 1, writes[i + 1].lines[1].book) /\ j + 1 \in DOMAIN writes
      BY <1>1, <2>1 DEF IsLine
    <3>2. j + 1 = i + 1
      BY <2>1, <3>1 DEF Single
    <3> QED BY <1>2, <3>2
  <2>3. \A j \in DOMAIN w : w[j].to = "state.json" => j = 1
    BY <1>3, <1>4
  <2> QED BY <2>1, <2>2, <2>3 DEF Single
<1>5. ASSUME NEW i \in DOMAIN w, NEW name \in BookNames, IsLine(writes, 1, name),
             IsLine(w, i, name)
      PROVE  FALSE
  <2>1. Single(writes, 1) /\ IsLine(writes, i + 1, name) /\ i + 1 \in DOMAIN writes
    BY <1>1, <1>5 DEF IsLine
  <2>2. i + 1 = 1
    BY <1>5, <2>1 DEF Single, IsLine
  <2> QED BY <1>2, <2>2
<1>6. \A i \in DOMAIN w : Single(w, i)
  BY <1>4 DEF Single
<1> QED BY <1>1, <1>3, <1>5, <1>6 DEF w

LEMMA ProceedsRecords ==
  ASSUME Recording, Proceeds, [Next]_vars
  PROVE  InRecord' /\ Owed'
<1>1. /\ TypeOK /\ InRecord /\ run \in Runs /\ run.book \in Books /\ UNCHANGED feed
      /\ writes # << >> /\ writes' = Tail(writes) /\ 1 \in DOMAIN writes
      /\ Recorded \in Seq(Trades) /\ Write = writes[1]
  BY WritesLeft, RecordedType DEF Recording, Faithful, TypeOK, Runs, Proceeds, Write
<1>2. Single(writes, 1) /\ Latest(1, Recorded) /\ Handing
  BY <1>1 DEF Recording, Owed, Faithful
<1>3. /\ \A i \in DOMAIN writes' :
           /\ Single(writes', i) /\ i + 1 \in DOMAIN writes /\ writes'[i] = writes[i + 1]
      /\ \A i \in DOMAIN writes', name \in BookNames :
           IsLine(writes, 1, name) => ~IsLine(writes', i, name)
      /\ \A i, j \in DOMAIN writes' : writes'[i].to = "trades.jsonl" => writes'[j].to # "state.json"
  BY <1>1, SingleOfTail DEF Recording, Owed
<1>4. \A i \in DOMAIN writes' :
        /\ Latest(i + 1, Recorded)
        /\ writes'[i].to = "trades.jsonl" => ~StateOwed'
        /\ StateOwed /\ writes'[i].to = "trades.jsonl" => writes[1].to = "state.json"
  <2> SUFFICES ASSUME NEW i \in DOMAIN writes'
               PROVE  /\ Latest(i + 1, Recorded)
                      /\ writes'[i].to = "trades.jsonl" => ~StateOwed'
                      /\ StateOwed /\ writes'[i].to = "trades.jsonl" => writes[1].to = "state.json"
    OBVIOUS
  <2>1. Latest(i + 1, Recorded) /\ Single(writes, i + 1)
    BY <1>3 DEF Recording, Owed
  <2>2. writes'[i].to = "trades.jsonl" => ~StateOwed'
    BY <1>3 DEF StateOwed
  <2>3. StateOwed /\ writes'[i].to = "trades.jsonl" => writes[1].to = "state.json"
    BY <1>3, <2>1 DEF StateOwed, Single
  <2> QED BY <2>1, <2>2, <2>3
(* A line appended is later than the record, and the other lines owed are not
   of its book. *)
<1>5. CASE AppendHistory
  <2>1. /\ writes[1].to = "trades.jsonl" /\ writes[1].lines = <<writes[1].lines[1]>>
        /\ writes[1].lines[1] \in TradeLines /\ UNCHANGED run
        /\ disk' = [disk EXCEPT !.history = @ \o writes[1].lines]
    BY <1>1, <1>2, <1>5 DEF AppendHistory, Single
  <2> DEFINE x == writes[1].lines[1]
  <2>2. /\ disk'.state = disk.state /\ disk'.history = Append(disk.history, x)
    <3>1. disk.history \in Seq(TradeLines)
      BY <1>1 DEF TypeOK
    <3>2. disk.history \o <<x>> = Append(disk.history, x)
      BY <2>1, <3>1, ConcatOne
    <3> QED BY <1>1, <2>1, <3>2 DEF TypeOK
  <2>3. Recorded' = IF x.book = "main" THEN Append(Recorded, x.trade) ELSE Recorded
    <3>1. disk.history \in Seq(TradeLines) /\ x \in TradeLines
      BY <1>1, <2>1 DEF TypeOK
    <3>2. TradesOf("main", Append(disk.history, x))
            = IF x.book = "main" THEN Append(TradesOf("main", disk.history), x.trade)
              ELSE TradesOf("main", disk.history)
      BY <3>1, TradesOfAppend
    <3> QED BY <2>2, <3>2 DEF Recorded
  <2>4. x.trade \in Trades /\ x.trade.exitTime \in Int /\ x.book \in BookNames
    BY <2>1 DEF TradeLines, Trades
  <2>5. CASE x.book # "main"
    <3>1. Recorded' = Recorded /\ UNCHANGED <<run, feed>>
      BY <1>1, <2>1, <2>3, <2>5
    <3>2. InRecord'
      BY <1>1, <2>2, <3>1 DEF InRecord
    <3>3. \A i \in DOMAIN writes' : Latest(i, Recorded)'
      BY <1>3, <1>4, <2>1, <2>2, <3>1 DEF Latest, IsLine
    <3> QED BY <1>3, <3>2, <3>3 DEF Owed, Single, IsLine
  <2>6. CASE x.book = "main"
    <3>1. /\ run.book.lastBar # None /\ x.trade.exitTime = run.book.lastBar.time
          /\ \A k \in DOMAIN Recorded : Recorded[k].exitTime < x.trade.exitTime
          /\ disk.state # None /\ disk.state.book.lastBar = run.book.lastBar
      <4>1. ~StateOwed
        BY <1>2, <2>1 DEF StateOwed, Single
      <4> QED BY <1>2, <2>1, <2>6, <4>1 DEF Latest, IsLine
    <3>2. Recorded' = Append(Recorded, x.trade)
      BY <2>3, <2>6
    <3>3. /\ Increasing(Recorded')
          /\ \A k \in DOMAIN Recorded' : \/ k \in DOMAIN Recorded /\ Recorded'[k] = Recorded[k]
                                         \/ Recorded'[k] = x.trade
      BY <1>1, <2>4, <3>1, <3>2, RecordGrows DEF InRecord
    <3>4. feed # None /\ x.trade.exitTime <= feed /\ x.trade.exitTime <= run.book.lastBar.time
      BY <1>1, <2>4, <3>1 DEF InRecord, Behind
    <3>5. Within(Recorded', feed')
      BY <1>1, <3>3, <3>4 DEF InRecord, Within
    <3>6. Behind(run.book, Recorded', feed')
      BY <1>1, <3>1, <3>3, <3>4 DEF InRecord, Behind
    <3>7. Behind(disk.state.book, Recorded', feed')
      BY <1>1, <3>1, <3>3, <3>4 DEF InRecord, Behind
    <3>8. InRecord'
      BY <1>1, <2>1, <2>2, <3>3, <3>5, <3>6, <3>7 DEF InRecord
    <3>9. \A i \in DOMAIN writes' : ~IsLine(writes', i, "main")
      BY <1>3, <2>1, <2>6 DEF IsLine, BookNames
    <3>10. \A i \in DOMAIN writes' : Latest(i, Recorded)'
      BY <1>3, <1>4, <2>1, <3>9 DEF Latest, IsLine
    <3> QED BY <1>3, <3>8, <3>10 DEF Owed, Single, IsLine
  <2> QED BY <2>5, <2>6
(* The state written is that of the run. *)
<1>6. CASE WriteState
  <2>1. /\ disk'.state = Saved(run) /\ disk'.history = disk.history /\ UNCHANGED run
        /\ Recorded' = Recorded
    BY <1>1, <1>6 DEF WriteState, TypeOK, Recorded
  <2>2. /\ Saved(run).book.lastBar = run.book.lastBar
        /\ Saved(run).book.position = run.book.position
        /\ Saved(run).book.pending = run.book.pending
        /\ Saved(run).book.order = run.book.order /\ Saved(run) # None
    <3>1. Saved(run).book = Unlisted(run.book) /\ Saved(run) # None
      BY <1>1, SavedType
    <3>2. << >> \in Seq(Trades)
      OBVIOUS
    <3> QED BY <1>1, <3>1, <3>2, UnlistedKeeps DEF Unlisted
  <2>3. InRecord'
    BY <1>1, <2>1, <2>2 DEF InRecord, Behind, Fresh
  <2>4. \A i \in DOMAIN writes' : Latest(i, Recorded)'
    BY <1>3, <1>4, <2>1, <2>2 DEF Latest, IsLine
  <2> QED BY <1>3, <2>3, <2>4 DEF Owed, Single, IsLine
<1>7. CASE RemoveFile
  <2>1. /\ disk'.state = None /\ disk'.history = disk.history /\ UNCHANGED run
        /\ Recorded' = Recorded /\ writes[1].to = "removal"
    BY <1>1, <1>7 DEF RemoveFile, TypeOK, Recorded
  <2>2. ~run.live
    BY <1>1, <1>2, <2>1 DEF Handing, Removing, To
  <2>3. InRecord'
    BY <1>1, <2>1 DEF InRecord
  <2>4. \A i \in DOMAIN writes' : writes'[i].to # "trades.jsonl"
    BY <1>3, <1>4, <2>2 DEF Latest
  <2> QED BY <2>3, <2>4, NoLineOwed
<1>8. CASE WriteRow \/ InsertRun \/ AnswerDecider \/ AnswerAdvisor \/ AnswerStopper
  <2>1. /\ UNCHANGED disk /\ run'.book = run.book /\ (run.live => run'.live)
        /\ Recorded' = Recorded
        /\ writes[1].to # "state.json"
    BY <1>1, <1>8 DEF WriteRow, InsertRun, AnswerDecider, AnswerAdvisor, AnswerStopper,
                      Runs, Recorded
  <2>2. InRecord'
    BY <1>1, <2>1 DEF InRecord
  <2>3. \A i \in DOMAIN writes' : Latest(i, Recorded)'
    BY <1>3, <1>4, <2>1 DEF Latest, IsLine
  <2> QED BY <1>3, <2>2, <2>3 DEF Owed, Single, IsLine
<1> QED BY <1>5, <1>6, <1>7, <1>8 DEF Proceeds

LEMMA WriteFailsRecords ==
  ASSUME Recording, WriteFails
  PROVE  InRecord' /\ Owed'
<1>1. /\ TypeOK /\ InRecord /\ UNCHANGED <<run, disk, feed>> /\ writes # << >>
      /\ writes' = IF Write.to = "trades.jsonl" THEN Tail(writes) ELSE << >>
      /\ Write = writes[1] /\ 1 \in DOMAIN writes
  BY WritesLeft DEF WriteFails, Recording, Faithful, Write
<1>2. InRecord' /\ Recorded' = Recorded
  BY <1>1 DEF InRecord, Recorded
<1>3. CASE writes[1].to = "trades.jsonl"
  <2>1. /\ writes' = Tail(writes)
        /\ \A i \in DOMAIN writes' :
             /\ Single(writes', i) /\ i + 1 \in DOMAIN writes /\ writes'[i] = writes[i + 1]
        /\ \A i, j \in DOMAIN writes' :
             writes'[i].to = "trades.jsonl" => writes'[j].to # "state.json"
    BY <1>1, <1>3, SingleOfTail DEF Recording, Owed
  <2>2. ~StateOwed \/ \A i \in DOMAIN writes' : writes'[i].to # "trades.jsonl"
    <3> SUFFICES ASSUME NEW j \in DOMAIN writes, writes[j].to = "state.json" PROVE FALSE
      BY DEF StateOwed
    <3>1. Single(writes, 1)
      BY <1>1 DEF Recording, Owed
    <3>2. j = 1
      BY <1>3, <3>1 DEF Single
    <3> QED BY <1>3, <3>2
  <2>3. \A i \in DOMAIN writes' : Latest(i, Recorded)'
    <3>1. \A i \in DOMAIN writes' : Latest(i + 1, Recorded)
      BY <2>1 DEF Recording, Owed
    <3> QED BY <1>1, <1>2, <2>1, <2>2, <3>1 DEF Latest, IsLine
  <2> QED BY <1>2, <2>1, <2>3 DEF Owed, Single, IsLine
<1>4. CASE writes[1].to # "trades.jsonl"
  <2>1. DOMAIN writes' = {}
    BY <1>1, <1>4
  <2> QED BY <1>2, <2>1 DEF Owed
<1> QED BY <1>3, <1>4

LEMMA RestartRecords ==
  ASSUME Recording, Restart
  PROVE  InRecord' /\ Owed'
<1>1. /\ TypeOK /\ InRecord /\ UNCHANGED <<disk, feed>> /\ writes' = << >> /\ run' = Reloaded
      /\ Recorded' = Recorded
  BY DEF Restart, Recording, Faithful, Recorded
<1>2. DOMAIN writes' = {}
  BY <1>1
<1>3. CASE disk.state = None
  <2>1. run'.book = run.book
    BY <1>1, <1>3, ReloadedType
  <2> QED BY <1>1, <1>2, <2>1 DEF Owed, InRecord
<1>4. CASE disk.state # None
  <2>1. run'.book = [disk.state.book EXCEPT !.trades = TradesOf("main", disk.history)]
    BY <1>1, <1>4, ReloadedType
  <2>2. disk.state.book \in Books /\ TradesOf("main", disk.history) \in Seq(Trades)
    BY <1>1, <1>4, TradesOfType DEF TypeOK, Runs
  <2>3. /\ run'.book.lastBar = disk.state.book.lastBar
        /\ run'.book.position = disk.state.book.position
        /\ run'.book.pending = disk.state.book.pending
        /\ run'.book.order = disk.state.book.order
    BY <2>1, <2>2, UnlistedKeeps
  <2> QED BY <1>1, <1>2, <1>4, <2>3 DEF Owed, InRecord, Behind, Fresh
<1> QED BY <1>3, <1>4

LEMMA RecordingStep ==
  ASSUME RestartsInOrder, Recording, [Next]_vars
  PROVE  Recording'
<1>1. Faithful' /\ TypeOK /\ InRecord /\ Owed
  BY FaithfulStep DEF Recording, Faithful
<1>2. CASE UNCHANGED <<run, disk, writes>>
  <2>1. Recorded' = Recorded /\ Recorded \in Seq(Trades) /\ run.book \in Books
        /\ (disk.state # None => disk.state.book \in Books)
    BY <1>1, <1>2, RecordedType DEF Recorded, TypeOK, Runs
  <2>2. /\ Within(Recorded, feed') /\ Behind(run.book, Recorded, feed')
        /\ disk.state # None => Behind(disk.state.book, Recorded, feed')
    BY <1>1, <2>1, StillBehind DEF InRecord
  <2>3. InRecord'
    BY <1>1, <1>2, <2>1, <2>2 DEF InRecord
  <2>4. Owed'
    BY <1>1, <1>2, <2>1 DEF Owed, Single, Latest, IsLine, StateOwed
  <2> QED BY <1>1, <2>3, <2>4 DEF Recording
<1>3. CASE Handles
  BY <1>1, <1>2, <1>3, HandlesDoes, BarIsRecorded, OthersAreRecorded DEF Undisturbed, Recording
<1>4. CASE Proceeds \/ WriteFails \/ Restart
  BY <1>1, <1>4, ProceedsRecords, WriteFailsRecords, RestartRecords DEF Recording
<1> QED BY <1>2, <1>3, <1>4 DEF Next, vars

LEMMA RecordingInit == Init => Recording
<1> SUFFICES ASSUME Init PROVE Recording
  OBVIOUS
<1>1. /\ run = NewRun /\ disk.state = Saved(NewRun) /\ disk.history = << >> /\ writes = << >>
  BY DEF Init
<1>2. Faithful
  BY FaithfulInit
<1>3. Recorded = << >> /\ DOMAIN << >> = {}
  BY <1>1, TradesOfNothing DEF Recorded
<1>4. \A b \in {run.book, disk.state.book} : /\ b.lastBar = None /\ b.position = None
                                            /\ b.pending = None /\ b.order = None
  <2>1. NewRun.book = NewBook /\ NewRun \in Runs
    BY NewRunType
  <2>2. Saved(NewRun).book = [NewBook EXCEPT !.trades = << >>]
    BY <2>1, SavedType DEF Unlisted
  <2> QED BY <1>1, <2>1, <2>2 DEF NewBook
<1> QED BY <1>1, <1>2, <1>3, <1>4
        DEF Recording, InRecord, Owed, Increasing, Within, Behind, Fresh

(* No trade of the book is recorded twice, whatever is killed or fails to be
   written and however often a bar is posted again (feed_run persists the state
   before append_history).  Only of an id that is started again must the feed
   be in order and begin with no stored bar: its book has none to be newer
   than, and the record it finds is that of the run before. *)
THEOREM RecordedOnceAlways ==
  ASSUME RestartsInOrder
  PROVE  Spec => []RecordedOnce
<1>1. Recording => RecordedOnce
  <2> SUFFICES ASSUME Recording, NEW i \in DOMAIN Recorded, NEW j \in DOMAIN Recorded,
                      Recorded[i] = Recorded[j]
               PROVE  i = j
    BY DEF RecordedOnce, Recorded
  <2>1. Recorded \in Seq(Trades) /\ Increasing(Recorded)
    BY RecordedType DEF Recording, Faithful, InRecord
  <2>2. i \in Nat /\ j \in Nat /\ Recorded[i].exitTime \in Int
    <3>1. Recorded[i] \in Trades
      BY <2>1, LenProperties
    <3> QED BY <2>1, <3>1, LenProperties DEF Trades
  <2>3. ~(i < j) /\ ~(j < i)
    BY <2>1, <2>2 DEF Increasing
  <2> QED BY <2>2, <2>3
<1>2. Recording /\ [Next]_vars => Recording'
  BY RecordingStep
<1> QED BY <1>1, <1>2, RecordingInit, PTL DEF Spec

-----------------------------------------------------------------------------
(***************************************************************************)
(* A run whose process ends only between two handlers, and whose id is not *)
(* used again: what a kill, a failed write or a predecessor's trades take  *)
(* apart is whole.                                                         *)
(***************************************************************************)
Orderly == Faults = {} /\ ~MayRestartId

(* state.json is the run's own, or owed; a stopped run's is gone, or owed to
   be removed. *)
Backed ==
  /\ \A i \in DOMAIN writes : /\ writes[i].to # "runs"
                              /\ writes[i].to = "state.json" => run.live
  /\ ~run.live /\ disk.state # None => \E i \in DOMAIN writes : writes[i].to = "removal"
  /\ run.live => /\ disk.state # None
                 /\ ~StateOwed => disk.state.book = Unlisted(run.book)

(* The record is the trades of a book, but for the one still owed. *)
Complete(trades, name, w, history) ==
  /\ (\A i \in DOMAIN w : ~IsLine(w, i, name)) => trades = TradesOf(name, history)
  /\ \A i \in DOMAIN w : IsLine(w, i, name)
       => trades = Append(TradesOf(name, history), w[i].lines[1].trade)

(* An exit that fills at the open of a bar closes a trade outside any bar's
   handler, and is not recorded: here no exit does. *)
NoExitAtOpens == MayOpen => External \/ ~MayExit

Exact ==
  run.live =>
    /\ Complete(run.book.trades, "main", writes, disk.history)
    /\ MayOpen /\ run.book.pending # None => run.book.pending.kind = "Enter"
    /\ run.book.equity = StartingEquity + DayPnl(run.book.trades)

Ordered == Recording /\ Backed

LEMMA NoneIsNoTrade == \A t \in Trades : <<t>> # << >> /\ <<t>>[1] = t
OBVIOUS

LEMMA BarIsBacked ==
  ASSUME Ordered, ClosesBar
  PROVE  Backed'
<1>1. PICK t, main, shadow :
        /\ t \in Times
        /\ writes' = BarWrites(main, shadow)
        /\ OverBar(run.book, run'.book, main, t)
        /\ OverBar(Counterfactual, run'.shadow, shadow, t)
  BY DEF ClosesBar
<1>2. run.live /\ run'.live /\ UNCHANGED disk /\ disk.state # None
  BY DEF ClosesBar, Alters, Idle, Ordered, Backed
<1>3. /\ 1 \in DOMAIN writes' /\ writes'[1].to = "state.json"
      /\ \A i \in DOMAIN writes' : writes'[i].to \in {"state.json", "fills.jsonl", "trades.jsonl"}
  BY <1>1, BarWritesOwe DEF OverBar
<1> QED BY <1>2, <1>3 DEF Backed, StateOwed

LEMMA NudgeIsBacked ==
  ASSUME Ordered, Nudges
  PROVE  Backed'
<1>1. /\ run.live /\ run'.live /\ UNCHANGED disk /\ disk.state # None
      /\ ~StateOwed /\ disk.state.book = Unlisted(run.book)
  <2>1. run.live /\ run'.live /\ UNCHANGED disk /\ writes = << >>
    BY DEF Nudges, Alters, Idle
  <2>2. ~StateOwed
    BY <2>1 DEF StateOwed
  <2> QED BY <2>1, <2>2 DEF Ordered, Backed
<1>2. \/ writes' = << >> /\ run'.book = run.book
      \/ writes' \in {<<SaveState>>, IntentWrites, <<SaveState, Answer("advisor")>>}
  BY DEF Nudges
<1>3. CASE writes' = << >> /\ run'.book = run.book
  <2>1. DOMAIN writes' = {}
    BY <1>3
  <2> QED BY <1>1, <1>3, <2>1 DEF Backed
<1>4. CASE writes' \in {<<SaveState>>, IntentWrites, <<SaveState, Answer("advisor")>>}
  <2>1. /\ \E i \in DOMAIN writes' : writes'[i].to = "state.json"
        /\ \A i \in DOMAIN writes' : writes'[i].to # "runs"
    <3>1. CASE writes' = <<SaveState>>
      <4>1. DOMAIN writes' = {1} /\ writes'[1].to = "state.json"
        BY <3>1 DEF SaveState
      <4> QED BY <4>1
    <3>2. CASE writes' = IntentWrites
      <4>1. /\ DOMAIN writes' = {1, 2, 3} /\ writes'[1].to = "fills.jsonl"
            /\ writes'[2].to = "state.json" /\ writes'[3].to = "decider"
        BY <3>2 DEF IntentWrites, Row, SaveState, Answer
      <4> QED BY <4>1
    <3>3. CASE writes' = <<SaveState, Answer("advisor")>>
      <4>1. /\ DOMAIN writes' = {1, 2} /\ writes'[1].to = "state.json"
            /\ writes'[2].to = "advisor"
        BY <3>3 DEF SaveState, Answer
      <4> QED BY <4>1
    <3> QED BY <1>4, <3>1, <3>2, <3>3
  <2> QED BY <1>1, <2>1 DEF Backed, StateOwed
<1> QED BY <1>2, <1>3, <1>4

LEMMA StopIsBacked ==
  ASSUME Ordered, Stop
  PROVE  Backed'
<1>1. ~run'.live /\ writes' = StopWrites
  BY DEF Stop, Ordered, Recording, Faithful, TypeOK, Runs
<1>2. /\ DOMAIN writes' = {1, 2, 3} /\ writes'[1].to = "fills.jsonl"
      /\ writes'[2].to = "removal" /\ writes'[3].to = "stopper"
  BY <1>1 DEF StopWrites, Row, RemoveState, Answer
<1> QED BY <1>1, <1>2 DEF Backed

LEMMA ProceedsBacked ==
  ASSUME Ordered, Proceeds
  PROVE  Backed' /\ run'.book = run.book /\ run'.live = run.live /\ UNCHANGED feed
<1>1. /\ TypeOK /\ run \in Runs /\ writes # << >> /\ writes' = Tail(writes)
      /\ 1 \in DOMAIN writes /\ Write = writes[1] /\ Handing /\ Backed /\ UNCHANGED feed
      /\ \A i \in DOMAIN writes' : i + 1 \in DOMAIN writes /\ writes'[i] = writes[i + 1]
      /\ \A i \in DOMAIN writes : i # 1 => /\ i - 1 \in DOMAIN writes'
                                           /\ writes'[i - 1] = writes[i]
  <2>1. /\ TypeOK /\ run \in Runs /\ writes # << >> /\ writes' = Tail(writes)
        /\ Handing /\ Backed /\ UNCHANGED feed
    BY DEF Ordered, Recording, Faithful, TypeOK, Proceeds
  <2>2. /\ 1 \in DOMAIN writes /\ Len(writes) \in Nat /\ DOMAIN writes = 1..Len(writes)
        /\ DOMAIN writes' = 1..(Len(writes) - 1)
        /\ \A i \in DOMAIN writes' : i + 1 \in DOMAIN writes /\ writes'[i] = writes[i + 1]
    BY <2>1, WritesLeft
  <2>3. \A i \in DOMAIN writes : i # 1 => i - 1 \in DOMAIN writes' /\ (i - 1) + 1 = i
    BY <2>2
  <2> QED BY <2>1, <2>2, <2>3 DEF Write
<1>2. /\ writes[1].to # "runs" /\ (writes[1].to = "state.json" => run.live)
      /\ \A i \in DOMAIN writes' : /\ writes'[i].to # "runs"
                                   /\ writes'[i].to = "state.json" => run.live
      /\ writes[1].to # "state.json" /\ StateOwed => StateOwed'
  <2>1. \A i \in DOMAIN writes : /\ writes[i].to # "runs"
                                 /\ writes[i].to = "state.json" => run.live
    BY <1>1 DEF Backed
  <2>2. \A i \in DOMAIN writes' : /\ writes'[i].to # "runs"
                                  /\ writes'[i].to = "state.json" => run.live
    BY <1>1, <2>1
  <2>3. writes[1].to # "state.json" /\ StateOwed => StateOwed'
    BY <1>1 DEF StateOwed
  <2> QED BY <1>1, <2>1, <2>2, <2>3
<1>3. UNCHANGED run
  BY <1>1, <1>2 DEF Proceeds, WriteState, RemoveFile, AppendHistory, WriteRow, InsertRun,
                    AnswerDecider, AnswerAdvisor, AnswerStopper
<1>4. CASE WriteState
  <2>1. disk'.state = Saved(run) /\ writes[1].to = "state.json"
    BY <1>1, <1>4 DEF WriteState, TypeOK
  <2>2. Saved(run).book = Unlisted(run.book) /\ Saved(run) # None
    BY <1>1, SavedType
  <2> QED BY <1>1, <1>2, <1>3, <2>1, <2>2 DEF Backed
<1>5. CASE RemoveFile
  <2>1. disk'.state = None /\ writes[1].to = "removal"
    BY <1>1, <1>5 DEF RemoveFile, TypeOK
  <2>2. ~run.live
    BY <1>1, <2>1 DEF Handing, Removing, To
  <2> QED BY <1>1, <1>2, <1>3, <2>1, <2>2 DEF Backed
<1>6. CASE writes[1].to \notin {"state.json", "removal"}
  <2>1. disk'.state = disk.state
    BY <1>1, <1>2, <1>6 DEF Proceeds, WriteState, RemoveFile, AppendHistory, WriteRow,
                            InsertRun, AnswerDecider, AnswerAdvisor, AnswerStopper, TypeOK
  <2>2. (\E i \in DOMAIN writes : writes[i].to = "removal")
          => \E i \in DOMAIN writes' : writes'[i].to = "removal"
    BY <1>1, <1>6
  <2> QED BY <1>1, <1>2, <1>3, <1>6, <2>1, <2>2 DEF Backed
<1> QED BY <1>1, <1>3, <1>4, <1>5, <1>6
        DEF Proceeds, WriteState, RemoveFile, AppendHistory, WriteRow, InsertRun,
            AnswerDecider, AnswerAdvisor, AnswerStopper

(* A restart between two handlers finds the book it left, but for the trades. *)
LEMMA RestartIsBacked ==
  ASSUME Orderly, Ordered, Restart
  PROVE  /\ Backed' /\ run'.live = run.live /\ UNCHANGED disk /\ writes = << >>
         /\ ~run.live => run'.book = run.book
         /\ run.live =>
              /\ run'.book = [run.book EXCEPT !.trades = TradesOf("main", disk.history)]
              /\ disk.state # None
<1>1. /\ TypeOK /\ run \in Runs /\ run' = Reloaded /\ writes = << >> /\ writes' = << >>
      /\ UNCHANGED disk /\ Backed /\ DOMAIN writes = {} /\ Answered
      /\ disk.history \in Seq(TradeLines)
  BY DEF Orderly, Restart, Ordered, Recording, Faithful, TypeOK
<1>2. CASE ~run.live
  <2>1. disk.state = None
    BY <1>1, <1>2 DEF Backed
  <2>2. run'.live = FALSE /\ run'.book = run.book
    BY <1>1, <2>1, ReloadedType
  <2>3. run.live = FALSE
    BY <1>1, <1>2, RunFields
  <2>4. DOMAIN writes' = {}
    BY <1>1
  <2> QED BY <1>1, <1>2, <2>1, <2>2, <2>3, <2>4 DEF Backed
<1>3. CASE run.live
  <2>1. disk.state # None /\ disk.state.book = Unlisted(run.book) /\ disk.state.live
    BY <1>1, <1>3 DEF Backed, StateOwed, Answered
  <2>2. /\ run'.live = disk.state.live
        /\ run'.book = [disk.state.book EXCEPT !.trades = TradesOf("main", disk.history)]
    BY <1>1, <2>1, ReloadedType
  <2>3. run.book \in Books
    BY <1>1, RunFields
  <2>4. run'.book = [run.book EXCEPT !.trades = TradesOf("main", disk.history)]
    BY <2>1, <2>2, <2>3 DEF Unlisted, Books
  <2>5. Unlisted(run'.book) = Unlisted(run.book)
    BY <2>3, <2>4 DEF Unlisted, Books
  <2>6. run.live = TRUE /\ disk.state.live = TRUE
    <3>1. disk.state \in Runs
      BY <1>1, <2>1 DEF TypeOK
    <3> QED BY <1>1, <1>3, <2>1, <3>1 DEF Runs
  <2>7. DOMAIN writes' = {}
    BY <1>1
  <2> QED BY <1>1, <1>3, <2>1, <2>2, <2>4, <2>5, <2>6, <2>7 DEF Backed
<1> QED BY <1>2, <1>3

LEMMA OrderedStep ==
  ASSUME Orderly, Ordered, [Next]_vars
  PROVE  Ordered'
<1>1. Recording' /\ ~Start /\ ~WriteFails
  BY RecordingStep DEF Ordered, Orderly, RestartsInOrder, Start, WriteFails
<1>2. CASE UNCHANGED <<run, disk, writes>>
  BY <1>1, <1>2 DEF Ordered, Backed, StateOwed
<1>3. CASE Handles
  BY <1>1, <1>2, <1>3, HandlesDoes, BarIsBacked, NudgeIsBacked, StopIsBacked
     DEF Undisturbed, Ordered, Recording, Faithful
<1>4. CASE Proceeds \/ Restart
  BY <1>1, <1>4, ProceedsBacked, RestartIsBacked DEF Ordered
<1> QED BY <1>1, <1>2, <1>3, <1>4 DEF Next, vars

LEMMA OrderedInit == Init => Ordered
<1> SUFFICES ASSUME Init PROVE Ordered
  OBVIOUS
<1>1. DOMAIN writes = {} /\ run = NewRun /\ disk.state = Saved(run)
  BY DEF Init
<1>2. run \in Runs /\ run.live
  BY <1>1, NewRunType
<1>3. disk.state # None /\ disk.state.book = Unlisted(run.book)
  BY <1>1, <1>2, SavedType
<1> QED BY <1>1, <1>2, <1>3, RecordingInit DEF Ordered, Backed

-----------------------------------------------------------------------------
(* A bar adds what it closed to a book, and owes its line. *)
LEMMA BarCompletes ==
  ASSUME NEW b \in Books, NEW c, NEW name \in BookNames, NEW trades, NEW time,
         NEW w, NEW history, OverBar(b, c, trades, time),
         b.trades = TradesOf(name, history),
         trades # << >> => \E i \in DOMAIN w : IsLine(w, i, name),
         \A i \in DOMAIN w : IsLine(w, i, name)
                               => trades # << >> /\ w[i].lines[1].trade = trades[1]
  PROVE  /\ Complete(c.trades, name, w, history)
         /\ b.equity = StartingEquity + DayPnl(b.trades)
              => c.equity = StartingEquity + DayPnl(c.trades)
<1>1. \/ trades = << >> /\ c.trades = b.trades /\ c.equity = b.equity
      \/ \E t \in Trades : trades = <<t>> /\ c.trades = Append(b.trades, t)
                           /\ c.equity = b.equity + t.pnl
  BY DEF OverBar, Tallied
<1>2. CASE trades = << >> /\ c.trades = b.trades /\ c.equity = b.equity
  BY <1>2 DEF Complete
<1>3. ASSUME NEW t \in Trades, trades = <<t>>, c.trades = Append(b.trades, t),
             c.equity = b.equity + t.pnl
      PROVE  /\ Complete(c.trades, name, w, history)
             /\ b.equity = StartingEquity + DayPnl(b.trades)
                  => c.equity = StartingEquity + DayPnl(c.trades)
  <2>1. trades # << >> /\ trades[1] = t
    BY <1>3
  <2>2. Complete(c.trades, name, w, history)
    BY <1>3, <2>1 DEF Complete
  <2>3. b.trades \in Seq(Trades) /\ b.equity \in Int /\ StartingEquity \in Int /\ t.pnl \in Int
    BY EngineAssumption DEF Books, Trades, EngineAssumption
  <2>4. DayPnl(c.trades) = DayPnl(b.trades) + t.pnl
    BY <1>3, <2>3, DayPnlOfAppend
  <2>5. b.equity = StartingEquity + DayPnl(b.trades) => DayPnl(b.trades) = b.equity - StartingEquity
    <3>1. DayPnl(b.trades) \in Int
      BY <2>3, DayPnlType
    <3> QED BY <2>3, <3>1
  <2> QED BY <1>3, <2>2, <2>3, <2>4, <2>5
<1> QED BY <1>1, <1>2, <1>3

(* Writes with no line leave a record complete that was. *)
LEMMA NoLineCompletes ==
  ASSUME NEW trades, NEW name, NEW w, NEW history, trades = TradesOf(name, history),
         \A i \in DOMAIN w : w[i].to # "trades.jsonl"
  PROVE  Complete(trades, name, w, history)
BY DEF Complete, IsLine

LEMMA ProceedsCompletes ==
  ASSUME Recording, Proceeds, NEW trades, NEW name \in BookNames,
         Complete(trades, name, writes, disk.history)
  PROVE  Complete(trades, name, writes', disk'.history)
<1>1. /\ TypeOK /\ writes # << >> /\ writes' = Tail(writes) /\ 1 \in DOMAIN writes
      /\ Write = writes[1]
  BY WritesLeft DEF Recording, Faithful, Proceeds, Write
<1>2. /\ \A i \in DOMAIN writes' : i + 1 \in DOMAIN writes /\ writes'[i] = writes[i + 1]
      /\ \A i \in DOMAIN writes : i # 1 => i - 1 \in DOMAIN writes' /\ writes'[i - 1] = writes[i]
      /\ \A i \in DOMAIN writes' : IsLine(writes, 1, name) => ~IsLine(writes', i, name)
  <2>1. /\ Len(writes) \in Nat /\ DOMAIN writes = 1..Len(writes)
        /\ DOMAIN writes' = 1..(Len(writes) - 1)
        /\ \A i \in DOMAIN writes' : i + 1 \in DOMAIN writes /\ writes'[i] = writes[i + 1]
    BY <1>1, WritesLeft
  <2>2. \A i \in DOMAIN writes : i # 1 => i - 1 \in DOMAIN writes' /\ (i - 1) + 1 = i
    BY <2>1
  <2>3. \A i \in DOMAIN writes' : IsLine(writes, 1, name) => ~IsLine(writes', i, name)
    BY <1>1, SingleOfTail DEF Recording, Owed
  <2> QED BY <2>1, <2>2, <2>3
<1>3. CASE writes[1].to # "trades.jsonl"
  <2>1. disk'.history = disk.history
    BY <1>1, <1>3 DEF Proceeds, WriteState, RemoveFile, AppendHistory, WriteRow, InsertRun,
                      AnswerDecider, AnswerAdvisor, AnswerStopper, TypeOK
  <2>2. (\A i \in DOMAIN writes' : ~IsLine(writes', i, name))
          => \A i \in DOMAIN writes : ~IsLine(writes, i, name)
    BY <1>2, <1>3 DEF IsLine
  <2>3. \A i \in DOMAIN writes' : IsLine(writes', i, name) => IsLine(writes, i + 1, name)
    BY <1>2 DEF IsLine
  <2> QED BY <1>2, <2>1, <2>2, <2>3 DEF Complete
<1>4. CASE writes[1].to = "trades.jsonl"
  <2> DEFINE x == writes[1].lines[1]
  <2>1. /\ writes[1].lines = <<x>> /\ x \in TradeLines
        /\ disk' = [disk EXCEPT !.history = @ \o writes[1].lines]
    <3>1. Single(writes, 1)
      BY <1>1 DEF Recording, Owed
    <3> QED BY <1>1, <1>4, <3>1 DEF Single, Proceeds, WriteState, RemoveFile, AppendHistory,
               WriteRow, InsertRun, AnswerDecider, AnswerAdvisor, AnswerStopper
  <2>2. disk'.history = Append(disk.history, x) /\ disk.history \in Seq(TradeLines)
    <3>1. disk.history \in Seq(TradeLines)
      BY <1>1 DEF TypeOK
    <3>2. disk.history \o <<x>> = Append(disk.history, x)
      BY <2>1, <3>1, ConcatOne
    <3> QED BY <1>1, <2>1, <3>1, <3>2 DEF TypeOK
  <2>3. TradesOf(name, disk'.history)
          = IF x.book = name THEN Append(TradesOf(name, disk.history), x.trade)
            ELSE TradesOf(name, disk.history)
    <3>1. TradesOf(name, Append(disk.history, x))
            = IF x.book = name THEN Append(TradesOf(name, disk.history), x.trade)
              ELSE TradesOf(name, disk.history)
      BY <2>1, <2>2, TradesOfAppend
    <3> QED BY <2>2, <3>1
  <2>4. CASE x.book = name
    <3>1. IsLine(writes, 1, name)
      BY <1>4, <2>4 DEF IsLine
    <3>2. trades = Append(TradesOf(name, disk.history), x.trade)
      BY <1>1, <3>1 DEF Complete
    <3> QED BY <1>2, <2>3, <2>4, <3>1, <3>2 DEF Complete
  <2>5. CASE x.book # name
    <3>1. ~IsLine(writes, 1, name)
      BY <2>5 DEF IsLine
    <3>2. (\A i \in DOMAIN writes' : ~IsLine(writes', i, name))
            => \A i \in DOMAIN writes : ~IsLine(writes, i, name)
      BY <1>2, <3>1 DEF IsLine
    <3>3. \A i \in DOMAIN writes' : IsLine(writes', i, name) => IsLine(writes, i + 1, name)
      BY <1>2 DEF IsLine
    <3> QED BY <1>2, <2>3, <2>5, <3>2, <3>3 DEF Complete
  <2> QED BY <2>4, <2>5
<1> QED BY <1>3, <1>4

LEMMA BarIsExact ==
  ASSUME NoExitAtOpens, Ordered, Exact, ClosesBar
  PROVE  Exact'
<1>1. PICK t, main, shadow :
        /\ t \in Times
        /\ writes' = BarWrites(main, shadow)
        /\ OverBar(run.book, run'.book, main, t)
        /\ OverBar(Counterfactual, run'.shadow, shadow, t)
        /\ run'.book.pending \in Book!Decisions(t)
  BY DEF ClosesBar
<1>2. /\ writes = << >> /\ run.live /\ UNCHANGED disk /\ run.book \in Books /\ t \in Int
      /\ DOMAIN writes = {}
  <2>1. t \in Int
    BY <1>1, PaperRunAssumption DEF PaperRunAssumption
  <2>2. Alters /\ run \in Runs
    BY DEF ClosesBar, Ordered, Recording, Faithful, TypeOK
  <2> QED BY <2>1, <2>2 DEF Alters, Idle, Runs
<1>3. run.book.trades = TradesOf("main", disk.history)
      /\ run.book.equity = StartingEquity + DayPnl(run.book.trades)
  BY <1>2 DEF Exact, Complete
<1>4. /\ \A i \in DOMAIN writes' : IsLine(writes', i, "main")
            => main # << >> /\ writes'[i].lines[1].trade = main[1]
      /\ main # << >> => \E i \in DOMAIN writes' : IsLine(writes', i, "main")
  BY <1>1, BarWritesOwe DEF OverBar
<1>5. /\ Complete(run'.book.trades, "main", writes', disk'.history)
      /\ run'.book.equity = StartingEquity + DayPnl(run'.book.trades)
  <2>1. "main" \in BookNames
    BY DEF BookNames
  <2>2. /\ Complete(run'.book.trades, "main", writes', disk.history)
        /\ run'.book.equity = StartingEquity + DayPnl(run'.book.trades)
    BY <1>1, <1>2, <1>3, <1>4, <2>1, BarCompletes
  <2> QED BY <1>2, <2>2
<1>6. MayOpen /\ run'.book.pending # None => run'.book.pending.kind = "Enter"
  BY <1>1, <1>2, DecisionsType DEF NoExitAtOpens
<1> QED BY <1>5, <1>6 DEF Exact, Complete, IsLine

LEMMA NudgeIsExact ==
  ASSUME Ordered, Exact, Nudges
  PROVE  Exact'
<1>1. /\ writes = << >> /\ run.live /\ UNCHANGED disk /\ DOMAIN writes = {}
  BY DEF Nudges, Alters, Idle
<1>2. /\ run.book.trades = TradesOf("main", disk.history)
      /\ run.book.equity = StartingEquity + DayPnl(run.book.trades)
      /\ MayOpen /\ run.book.pending # None => run.book.pending.kind = "Enter"
  BY <1>1 DEF Exact, Complete
<1>3. /\ run'.book.trades = run.book.trades /\ run'.book.equity = run.book.equity
      /\ run'.book.pending \in {None, run.book.pending} \/ run'.book.pending.kind = "Enter"
  BY <1>2 DEF Nudges
<1>4. \A i \in DOMAIN writes' : writes'[i].to # "trades.jsonl"
  BY NudgesOwesNothing
<1>5. Complete(run'.book.trades, "main", writes', disk'.history)
  BY <1>1, <1>2, <1>3, <1>4, NoLineCompletes
<1> QED BY <1>1, <1>2, <1>3, <1>5 DEF Exact, Complete, IsLine

(* Nothing of a book changes when its process is started again. *)
LEMMA RestartKeepsBook ==
  ASSUME Orderly, Ordered, Exact, Restart
  PROVE  run'.book = run.book /\ run'.live = run.live
<1>1. run'.live = run.live /\ (~run.live => run'.book = run.book) /\ writes = << >>
  BY RestartIsBacked
<1>2. CASE run.live
  <2>1. run'.book = [run.book EXCEPT !.trades = TradesOf("main", disk.history)]
        /\ DOMAIN writes = {} /\ run.book \in Books
    BY <1>1, <1>2, RestartIsBacked DEF Ordered, Recording, Faithful, TypeOK, Runs
  <2>2. run.book.trades = TradesOf("main", disk.history)
    BY <1>2, <2>1 DEF Exact, Complete
  <2> QED BY <1>1, <2>1, <2>2 DEF Books
<1> QED BY <1>1, <1>2

LEMMA ExactStep ==
  ASSUME Orderly, NoExitAtOpens, Ordered, Exact, [Next]_vars
  PROVE  Exact'
<1>1. ~Start /\ ~WriteFails
  BY DEF Orderly, Start, WriteFails
<1>2. CASE UNCHANGED <<run, disk, writes>>
  BY <1>2 DEF Exact, Complete, IsLine
<1>3. CASE Stop
  BY <1>3 DEF Stop, Exact, Ordered, Recording, Faithful, TypeOK, Runs
<1>4. CASE Handles
  BY <1>1, <1>2, <1>3, <1>4, HandlesDoes, BarIsExact, NudgeIsExact
     DEF Undisturbed, Ordered, Recording, Faithful
<1>5. CASE Proceeds
  <2>1. run'.book = run.book /\ run'.live = run.live
    BY <1>5, ProceedsBacked
  <2>2. run.live => Complete(run.book.trades, "main", writes', disk'.history)
    BY <1>5, ProceedsCompletes DEF Exact, Ordered, BookNames
  <2> QED BY <2>1, <2>2 DEF Exact, Complete, IsLine
<1>6. CASE Restart
  <2>1. run'.book = run.book /\ run'.live = run.live /\ UNCHANGED disk /\ writes' = writes
    BY <1>6, RestartKeepsBook, RestartIsBacked DEF Restart
  <2> QED BY <2>1 DEF Exact, Complete, IsLine
<1> QED BY <1>1, <1>2, <1>4, <1>5, <1>6 DEF Next, vars

LEMMA ExactInit == Init => Exact
<1> SUFFICES ASSUME Init PROVE Exact
  OBVIOUS
<1>1. /\ run.book = NewBook /\ disk.history = << >> /\ DOMAIN writes = {}
  BY NewRunType DEF Init
<1>2. /\ NewBook.trades = << >> /\ NewBook.equity = StartingEquity /\ NewBook.pending = None
      /\ StartingEquity \in Int
  BY EngineAssumption DEF NewBook, EngineAssumption
<1> QED BY <1>1, <1>2, TradesOfNothing, DayPnlOfNothing DEF Exact, Complete

(* The two files never drift apart: between two handlers a run's equity is its
   starting equity and the trades of its record (feed_run, reload). *)
THEOREM EquityAlwaysTheRecord ==
  ASSUME Orderly, NoExitAtOpens
  PROVE  Spec => []EquityIsTheRecord
<1>1. Ordered /\ Exact => EquityIsTheRecord
  BY DEF Exact, EquityIsTheRecord, Idle
<1>2. Ordered /\ Exact /\ [Next]_vars => (Ordered /\ Exact)'
  BY OrderedStep, ExactStep
<1>3. Init => Ordered /\ Exact
  BY OrderedInit, ExactInit
<1> QED BY <1>1, <1>2, <1>3, PTL DEF Spec

(* No entry is made in a bar the run has closed over, whichever quote, copied
   under which mutex and held for how long, fills it (act,
   settle_orders_on_tick, feed_open). *)
THEOREM EntriesInUnclosedBars ==
  ASSUME Orderly
  PROVE  Spec => EntersUnclosedBar
<1> DEFINE Entry == run.book.position = None /\ run'.book.position # None
                      /\ run.book.lastBar # None
                    => run'.book.position.entryTime > run.book.lastBar.time
<1>1. ASSUME Ordered, [Next]_vars PROVE Entry
  <2>1. run \in Runs /\ run.book \in Books /\ TypeOK
    BY <1>1 DEF Ordered, Recording, Faithful, TypeOK, Runs
  <2>2. ASSUME ClosesBar PROVE Entry
    <3>1. PICK t \in Times : /\ Book!Newer(t)
                             /\ run'.book.position # None /\ run.book.position = None
                                  => run'.book.position.entryTime = t
      BY <2>2 DEF ClosesBar
    <3>2. t \in Int
      BY PaperRunAssumption DEF PaperRunAssumption
    <3>3. run.book.lastBar # None => run.book.lastBar.time \in Int /\ t > run.book.lastBar.time
      BY <2>1, <3>1, <3>2, NewestType
    <3> QED BY <3>1, <3>3
  <2>3. ASSUME Nudges PROVE Entry
    BY <2>3 DEF Nudges
  <2>4. ASSUME Stop PROVE Entry
    <3>1. run'.book = StopBook(run.book).book
      BY <2>1, <2>4 DEF Stop, Runs
    <3> QED BY <2>1, <3>1, StopBookKeeps
  <2>5. CASE Handles
    BY <1>1, <2>1, <2>2, <2>3, <2>4, <2>5, HandlesDoes DEF Undisturbed, Orderly, Start
  <2>6. CASE Proceeds
    BY <1>1, <2>6, ProceedsBacked
  <2>7. CASE Restart
    <3>1. \/ run'.book = run.book
          \/ run'.book = [run.book EXCEPT !.trades = TradesOf("main", disk.history)]
      BY <1>1, <2>7, RestartIsBacked
    <3>2. run'.book.position = run.book.position
      BY <2>1, <3>1 DEF Books
    <3> QED BY <3>2
  <2>8. CASE WriteFails \/ UNCHANGED vars
    BY <2>8 DEF WriteFails, vars
  <2> QED BY <1>1, <2>5, <2>6, <2>7, <2>8 DEF Next
<1>2. Ordered /\ [Next]_vars => Ordered'
  BY OrderedStep
<1>3. Ordered /\ [Next]_vars => [Entry]_vars
  BY <1>1
<1>4. Spec => [][Entry]_vars
  BY <1>2, <1>3, OrderedInit, PTL DEF Spec
<1> QED BY <1>4 DEF EntersUnclosedBar

-----------------------------------------------------------------------------
(* The handlers of a run, as those of its book. *)
LEMMA TickIsABookTick ==
  ASSUME TypeOK, TickSettled
  PROVE  \E t \in Times, s \in BarShapes, q \in Quotes \cup {None}, warm \in BOOLEAN,
            cut \in Cuts : Book!Tick(t, s.close, q, warm, cut)
<1> DEFINE tick == copies.settle
           seen == ObserveTick(run.book, tick.time, tick.last)
           cut == CutFor(CurrentId)
           after == Book!SettledByTick(seen, tick.time, tick.last, tick.sides, Warm, cut)
<1>1. PICK t \in Times, s \in BarShapes, q \in Quotes \cup {None} :
        tick = [time |-> t, last |-> s.close, sides |-> q] /\ feed # None /\ t <= feed
  BY DEF TypeOK, Quoted, TickSettled
<1>2. cut \in Cuts /\ Warm \in BOOLEAN /\ run \in Runs
  BY RunFields DEF TypeOK, Warm
<1>3. /\ run' = [run EXCEPT !.book = after, !.shadow = run'.shadow, !.advice = run'.advice]
      /\ UNCHANGED feed
  BY <1>2 DEF TickSettled, Runs
<1>4. run'.book = after /\ run'.live = run.live
  BY <1>2, <1>3 DEF Runs
<1>5. seen = Book!ObserveTick(run.book, t, s.close) /\ tick.time = t /\ tick.last = s.close
      /\ tick.sides = q
  BY <1>1, SameObserveTick
<1> HIDE DEF seen, cut, tick
<1>6. Book!Tick(t, s.close, q, Warm, cut)
  BY <1>1, <1>3, <1>4, <1>5 DEF Book!Tick
<1> QED BY <1>2, <1>6

LEMMA ActIsABookAct ==
  ASSUME TypeOK, NEW aged \in BOOLEAN, ActTrigger(aged)
  PROVE  \/ UNCHANGED <<run, feed>>
         \/ \E t \in Times, s \in BarShapes, q \in Quotes, warm \in BOOLEAN, cut \in Cuts :
              Book!ActTrigger(t, s.close, q, warm, cut)
<1> DEFINE tick == copies.act
           b == run.book
           cut == CutFor(CurrentId)
           filled == FillOrder(b, tick.time, TriggerSide(b.order, tick.sides), tick.last,
                               Warm, cut).book
<1>1. CASE aged \/ Refuses(tick)
  BY <1>1 DEF ActTrigger
<1>2. CASE ~(aged \/ Refuses(tick))
  <2>1. PICK t \in Times, s \in BarShapes, q \in Quotes \cup {None} :
          tick = [time |-> t, last |-> s.close, sides |-> q] /\ feed # None /\ t <= feed
    BY DEF TypeOK, Quoted, ActTrigger
  <2>2. cut \in Cuts /\ Warm \in BOOLEAN /\ run \in Runs /\ feed \in Level
    BY RunFields DEF TypeOK, Warm
  <2>3. tick.time = t /\ tick.last = s.close /\ tick.sides = q
    BY <2>1
  <2>4. /\ b.order # None /\ b.position = None /\ q # None
        /\ Book!HasBar /\ Book!Newer(t)
    BY <1>2, <2>3 DEF Refuses
  <2>5. /\ run' = [run EXCEPT !.book = filled, !.shadow = Counterfactual, !.advice = None]
        /\ UNCHANGED feed
    BY <1>2 DEF ActTrigger
  <2>6. run'.book = filled /\ run'.live = run.live
    BY <2>2, <2>5 DEF Runs
  <2>7. filled = Book!FillOrder(b, t, Book!TriggerSide(b.order, q), s.close, Warm, cut).book
    BY <2>3, SameFillOrder, SameTriggerSide
  <2>8. feed >= t
    <3>1. t \in Int /\ feed \in Int
      BY <2>1, <2>2, PaperRunAssumption DEF PaperRunAssumption, Level
    <3> QED BY <2>1, <3>1
  <2> HIDE DEF filled, cut, tick
  <2>9. Book!ActTrigger(t, s.close, q, Warm, cut)
    BY <2>1, <2>4, <2>5, <2>6, <2>7, <2>8 DEF Book!ActTrigger
  <2> QED BY <2>2, <2>4, <2>9
<1> QED BY <1>1, <1>2

LEMMA BarIsABookBar ==
  ASSUME TypeOK, NEW t \in Times, NEW s \in BarShapes, NEW decision \in Answers(t),
         NEW alone \in Answers(t), BarCloses(t, s, decision, alone)
  PROVE  \E warm \in BOOLEAN, cut \in Cuts : \E d \in Book!Decisions(t) :
           Book!BarCloses(t, s, warm, cut, d)
<1> DEFINE bar == Book!BarAt(t, s)
           cut == CutFor(PendingId)
           book == OrderSawBarClose(Step(run.book, bar, Warm, cut, decision).book)
           shadow == Step(Counterfactual, bar, Warm, NoAdvice, alone).book
<1>1. cut \in Cuts /\ Warm \in BOOLEAN /\ run \in Runs /\ decision \in Book!Decisions(t)
  BY RunFields DEF TypeOK, Warm, Answers
<1>2. /\ run' = [run EXCEPT !.book = book, !.shadow = shadow, !.advice = None]
      /\ Book!Newer(t) /\ Book!Posted(t)
  BY DEF BarCloses, Stepped, PostedAt, Posted
<1>3. run'.book = book /\ run'.live = run.live
  BY <1>1, <1>2 DEF Runs
<1>4. book = Book!OrderSawBarClose(Book!Step(run.book, bar, Warm, cut, decision).book)
  BY SameOrderSawBarClose, SameStep
<1> HIDE DEF book, cut
<1>5. Book!BarCloses(t, s, Warm, cut, decision)
  BY <1>2, <1>3, <1>4 DEF Book!BarCloses
<1> QED BY <1>1, <1>5

LEMMA OpenIsABookOpen ==
  ASSUME TypeOK, NEW t \in Times, NEW s \in BarShapes, BarOpens(t, s.open)
  PROVE  \E warm \in BOOLEAN, cut \in Cuts : Book!BarOpens(t, s.open, warm, cut)
<1> DEFINE cut == CutFor(PendingId)
           filled == FillOpen(run.book, t, s.open, Warm, cut).book
<1>1. cut \in Cuts /\ Warm \in BOOLEAN /\ run \in Runs
  BY RunFields DEF TypeOK, Warm
<1>2. /\ run' = [run EXCEPT !.book = filled, !.shadow = Counterfactual, !.advice = None]
      /\ Book!HasBar /\ Book!Newer(t) /\ Book!Posted(t) /\ run.book.pending # None
  BY DEF BarOpens, PostedAt, Posted
<1>3. run'.book = filled /\ run'.live = run.live
  BY <1>1, <1>2 DEF Runs
<1>4. filled = Book!FillOpen(run.book, t, s.open, Warm, cut).book
  BY SameFillOpen
<1> HIDE DEF filled, cut
<1>5. Book!BarOpens(t, s.open, Warm, cut)
  BY <1>2, <1>3, <1>4 DEF Book!BarOpens
<1> QED BY <1>1, <1>5

(* The rest of the handlers change the book as their namesakes do, or not. *)
LEMMA PostsAreBookPosts ==
  ASSUME TypeOK
  PROVE  /\ \A f \in EntryForms : PostIntent(f) => Book!PostIntent(f)
         /\ \A f \in OrderForms : PostOrder(f) => Book!PostOrder(f)
         /\ ActCancel => Book!ActCancel
         /\ Stop => Book!Stop
<1>1. run \in Runs
  BY DEF TypeOK
<1>2. ASSUME NEW f \in EntryForms, PostIntent(f)
      PROVE  Book!PostIntent(f)
  <2> DEFINE c == Decide(CancelOrder(run.book), Book!EnterAt(f, PendingId))
  <2>1. Post(c)
    BY <1>2, Zenon DEF PostIntent
  <2>2. c = Book!Decide(Book!CancelOrder(run.book), Book!EnterAt(f, PendingId))
    BY SameDecide, SameCancelOrder
  <2> HIDE DEF c
  <2>3. run'.book = c /\ run'.live = run.live /\ External /\ Book!HasBar /\ UNCHANGED feed
    BY <1>1, <2>1 DEF Post, Runs
  <2> QED BY <2>2, <2>3 DEF Book!PostIntent, PendingId
<1>3. ASSUME NEW f \in OrderForms, PostOrder(f)
      PROVE  Book!PostOrder(f)
  <2> DEFINE c == PlaceOrder(run.book, Book!OrderAt(f, PendingId))
  <2>1. Post(c) /\ run.book.position = None /\ Book!ValidOrder(f)
    BY <1>3, Zenon DEF PostOrder
  <2>2. c = Book!PlaceOrder(run.book, Book!OrderAt(f, PendingId))
    BY SamePlaceOrder
  <2> HIDE DEF c
  <2>3. run'.book = c /\ run'.live = run.live /\ External /\ Book!HasBar /\ UNCHANGED feed
    BY <1>1, <2>1 DEF Post, Runs
  <2> QED BY <2>1, <2>2, <2>3 DEF Book!PostOrder, PendingId
<1>4. ASSUME ActCancel PROVE Book!ActCancel
  <2>1. /\ run' = [run EXCEPT !.book = CancelOrder(run.book)] /\ UNCHANGED feed
        /\ run.book.order # None
    BY <1>4 DEF ActCancel
  <2>2. run'.book = CancelOrder(run.book) /\ run'.live = run.live
    BY <1>1, <2>1 DEF Runs
  <2> QED BY <2>1, <2>2, SameCancelOrder DEF Book!ActCancel
<1>5. ASSUME Stop PROVE Book!Stop
  <2>1. /\ run' = [run EXCEPT !.book = StopBook(run.book).book, !.live = FALSE]
        /\ UNCHANGED feed
    BY <1>5 DEF Stop
  <2>2. run'.book = StopBook(run.book).book /\ run'.live = FALSE
    BY <1>1, <2>1 DEF Runs
  <2> QED BY <2>1, <2>2, SameStopBook DEF Book!Stop
<1> QED BY <1>2, <1>3, <1>4, <1>5

LEMMA HandlerIsABookStep ==
  ASSUME TypeOK, Handles, ~Start
  PROVE  [Book!Next]_(Book!vars)
<1> DEFINE Idles == UNCHANGED <<run, feed>> \/ UNCHANGED <<run.book, run.live, feed>>
<1>0. run \in Runs
  BY DEF TypeOK
<1>1. ASSUME NEW t \in Times, NEW s \in BarShapes, NEW q \in Quotes \cup {None},
             TickStored(t, s, q)
      PROVE  Book!TickArrives(t) /\ run.live
  BY <1>1 DEF TickStored, Posted, Book!TickArrives
<1>2. ActReads \/ (\E cut \in Cuts : PostAdvice(cut)) \/ (\E on \in BOOLEAN : Pause(on)) => Idles
  BY <1>0 DEF ActReads, PostAdvice, Pause, Runs
<1>3. \/ ActReads \/ ActCancel \/ Stop \/ TickSettled
      \/ \E f \in EntryForms : PostIntent(f)
      \/ \E f \in OrderForms : PostOrder(f)
      \/ \E cut \in Cuts : PostAdvice(cut)
      \/ \E aged \in BOOLEAN : ActTrigger(aged)
      \/ \E on \in BOOLEAN : Pause(on)
      \/ \E t \in Times, s \in BarShapes :
           \/ \E decision, alone \in Answers(t) : BarCloses(t, s, decision, alone)
           \/ BarOpens(t, s.open)
           \/ \E q \in Quotes \cup {None} : TickStored(t, s, q)
  BY DEF Handles
<1>4. Idles => UNCHANGED Book!vars
  BY DEF Book!vars
<1>5. CASE ActReads \/ (\E cut \in Cuts : PostAdvice(cut)) \/ (\E on \in BOOLEAN : Pause(on))
  BY <1>2, <1>4, <1>5
<1>6. CASE ActCancel \/ Stop \/ (\E f \in EntryForms : PostIntent(f))
             \/ (\E f \in OrderForms : PostOrder(f))
  <2>1. run.live
    BY <1>6 DEF ActCancel, Stop, PostIntent, PostOrder, Post, Idle
  <2> QED BY <1>6, <2>1, PostsAreBookPosts DEF Book!Next
<1>7. CASE TickSettled
  <2>1. run.live
    BY <1>7 DEF TickSettled, Idle
  <2> QED BY <1>7, <2>1, SameCuts, TickIsABookTick DEF Book!Next
<1>8. ASSUME NEW aged \in BOOLEAN, ActTrigger(aged)
      PROVE  [Book!Next]_(Book!vars)
  <2>1. run.live
    BY <1>8 DEF ActTrigger, Idle
  <2> QED BY <1>4, <1>8, <2>1, SameCuts, ActIsABookAct DEF Book!Next
<1>9. ASSUME NEW t \in Times, NEW s \in BarShapes,
             \/ \E decision, alone \in Answers(t) : BarCloses(t, s, decision, alone)
             \/ BarOpens(t, s.open)
             \/ \E q \in Quotes \cup {None} : TickStored(t, s, q)
      PROVE  [Book!Next]_(Book!vars)
  <2>1. run.live
    BY <1>9 DEF BarCloses, BarOpens, TickStored, Idle
  <2> QED BY <1>1, <1>9, <2>1, SameCuts, BarIsABookBar, OpenIsABookOpen DEF Book!Next
<1> QED BY <1>3, <1>5, <1>6, <1>7, <1>8, <1>9

(* A run's book goes through the steps of a PaperBook and no others, and its
   files, its shadow, its advice and the restarts of its process are no event
   in that book's life: what is proved of a PaperBook holds of a run's. *)
THEOREM RunRefinesBook ==
  ASSUME Orderly, NoExitAtOpens
  PROVE  Spec => RefinesPaperBook
<1>1. Init => Book!Init
  <2>1. Book!NewBook = NewBook
    BY DEF NewBook, Book!NewBook
  <2> QED BY <2>1, NewRunType DEF Init, Book!Init, NewRun
<1>2. ASSUME Ordered, Exact, [Next]_vars PROVE [Book!Next]_(Book!vars)
  <2>1. CASE Handles
    BY <1>2, <2>1, HandlerIsABookStep DEF Orderly, Start, Ordered, Recording, Faithful
  <2>2. CASE Proceeds
    BY <1>2, <2>2, ProceedsBacked DEF Book!vars
  <2>3. CASE Restart
    BY <1>2, <2>3, RestartKeepsBook DEF Book!vars, Restart
  <2>4. CASE WriteFails \/ UNCHANGED vars
    BY <2>4 DEF WriteFails, vars, Book!vars
  <2> QED BY <1>2, <2>1, <2>2, <2>3, <2>4 DEF Next
<1>3. Ordered /\ Exact /\ [Next]_vars => (Ordered /\ Exact)'
  BY OrderedStep, ExactStep
<1>4. Spec => Book!Init /\ [][Book!Next]_(Book!vars)
  BY <1>1, <1>2, <1>3, OrderedInit, ExactInit, PTL DEF Spec
<1> QED BY <1>4 DEF RefinesPaperBook, Book!Spec

-----------------------------------------------------------------------------
(***************************************************************************)
(* The whole of a run, and not its book alone, is in its files.            *)
(***************************************************************************)
(* A book that was never advanced over a bar fills nothing at an open, but its
   advice is taken and its shadow seeded, and neither is written: here such a
   book has no entry waiting when a bar opens. *)
OpensOnlyAfterBars == MayOpen => Warmup = None \/ ~External

Whole ==
  run.live => /\ ~StateOwed => disk.state = Saved(run)
              /\ Complete(Counterfactual.trades, "shadow", writes, disk.history)

Sound == Ordered /\ Exact /\ Whole

LEMMA RelistedIsWhole ==
  ASSUME NEW b \in Books
  PROVE  [Unlisted(b) EXCEPT !.trades = b.trades] = b
BY DEF Unlisted, Books

LEMMA SameFieldsSameRun ==
  ASSUME NEW r \in Runs, NEW q \in Runs, r.book = q.book, r.shadow = q.shadow,
         r.advice = q.advice, r.paused = q.paused, r.live = q.live
  PROVE  r = q
<1>1. /\ r = [book |-> r.book, shadow |-> r.shadow, advice |-> r.advice,
              paused |-> r.paused, live |-> r.live]
      /\ q = [book |-> q.book, shadow |-> q.shadow, advice |-> q.advice,
              paused |-> q.paused, live |-> q.live]
  BY DEF Runs
<1> QED BY <1>1

LEMMA WholeReloads ==
  ASSUME Sound, Idle
  PROVE  Reloaded = run
<1>1. /\ TypeOK /\ run \in Runs /\ run.live /\ DOMAIN writes = {} /\ disk.state # None
      /\ disk.state = Saved(run) /\ Exact /\ Whole
      /\ Reloaded \in Runs
  <2>1. /\ TypeOK /\ run.live /\ DOMAIN writes = {} /\ Backed /\ Exact /\ Whole
    BY DEF Sound, Ordered, Recording, Faithful, Idle
  <2> QED BY <2>1, ReloadedType DEF TypeOK, Backed, Whole, StateOwed
<1>2. /\ run.book.trades = TradesOf("main", disk.history)
      /\ Counterfactual.trades = TradesOf("shadow", disk.history)
  BY <1>1 DEF Exact, Whole, Complete
<1>3. /\ disk.state.live = TRUE /\ run.live = TRUE /\ disk.state.book = Unlisted(run.book)
      /\ disk.state.shadow = (IF run.shadow = None THEN None ELSE Unlisted(run.shadow))
      /\ disk.state.advice = run.advice /\ disk.state.paused = run.paused
  <2>1. Saved(run) \in Runs /\ Saved(run).live
    BY <1>1, SavedType
  <2>2. Saved(run).live = TRUE /\ run.live = TRUE
    BY <1>1, <2>1 DEF Runs
  <2> QED BY <1>1, <2>2, SavedType
<1>4. Reloaded.book = run.book
  <2>1. Reloaded.book = [disk.state.book EXCEPT !.trades = TradesOf("main", disk.history)]
        /\ run.book \in Books
    BY <1>1, RunFields, ReloadedType
  <2>2. [Unlisted(run.book) EXCEPT !.trades = run.book.trades] = run.book
    BY <2>1, RelistedIsWhole
  <2> QED BY <1>2, <1>3, <2>1, <2>2
<1>5. Reloaded.shadow = run.shadow
  <2>1. Reloaded.shadow = IF disk.state.shadow = None THEN None
                          ELSE [disk.state.shadow EXCEPT !.trades = TradesOf("shadow", disk.history)]
    BY <1>1, ReloadedType
  <2>2. run.shadow \in Books \cup {None}
    BY <1>1, RunFields
  <2>3. CASE run.shadow = None
    BY <1>3, <2>1, <2>3
  <2>4. CASE run.shadow # None
    <3>1. Unlisted(run.shadow) # None
      <4>1. << >> \in Seq(Trades) /\ run.shadow \in Books
        BY <2>2, <2>4
      <4> QED BY <4>1, UnlistedKeeps, PaperRunAssumption DEF Unlisted, PaperRunAssumption
    <3>2. run.shadow.trades = TradesOf("shadow", disk.history)
      BY <1>2, <2>4 DEF Counterfactual
    <3>3. [Unlisted(run.shadow) EXCEPT !.trades = run.shadow.trades] = run.shadow
      BY <2>2, <2>4, RelistedIsWhole
    <3>4. disk.state.shadow = Unlisted(run.shadow)
      BY <1>3, <2>4
    <3> QED BY <2>1, <3>1, <3>2, <3>3, <3>4
  <2> QED BY <2>3, <2>4
<1>6. Reloaded.live = run.live /\ Reloaded.advice = run.advice /\ Reloaded.paused = run.paused
  BY <1>1, <1>3, ReloadedType
<1> QED BY <1>1, <1>4, <1>5, <1>6, SameFieldsSameRun

LEMMA BarIsWhole ==
  ASSUME Sound, ClosesBar
  PROVE  Whole'
<1>1. PICK t, main, shadow :
        /\ t \in Times
        /\ writes' = BarWrites(main, shadow)
        /\ OverBar(run.book, run'.book, main, t)
        /\ run'.shadow # None /\ OverBar(Counterfactual, run'.shadow, shadow, t)
  BY DEF ClosesBar
<1>2. /\ run.live /\ UNCHANGED disk /\ DOMAIN writes = {} /\ Counterfactual \in Books
      /\ Counterfactual' = run'.shadow
  <2>1. run.live /\ UNCHANGED disk /\ DOMAIN writes = {} /\ run \in Runs
    BY DEF ClosesBar, Alters, Idle, Sound, Ordered, Recording, Faithful, TypeOK
  <2> QED BY <1>1, <2>1, RunFields DEF Counterfactual
<1>3. Counterfactual.trades = TradesOf("shadow", disk.history)
  BY <1>2 DEF Sound, Whole, Complete
<1>4. /\ \A i \in DOMAIN writes' : IsLine(writes', i, "shadow")
            => shadow # << >> /\ writes'[i].lines[1].trade = shadow[1]
      /\ shadow # << >> => \E i \in DOMAIN writes' : IsLine(writes', i, "shadow")
      /\ 1 \in DOMAIN writes' /\ writes'[1].to = "state.json"
  BY <1>1, BarWritesOwe DEF OverBar
<1>5. Complete(run'.shadow.trades, "shadow", writes', disk.history)
  BY <1>1, <1>2, <1>3, <1>4, BarCompletes DEF BookNames
<1>6. StateOwed'
  BY <1>4 DEF StateOwed
<1> QED BY <1>2, <1>5, <1>6 DEF Whole, Complete, IsLine

LEMMA NudgeIsWhole ==
  ASSUME OpensOnlyAfterBars, Sound, Nudges
  PROVE  Whole'
<1>1. /\ run.live /\ UNCHANGED disk /\ DOMAIN writes = {} /\ run \in Runs
      /\ run.book \in Books /\ Fresh(run.book) /\ Whole /\ Exact
  BY DEF Nudges, Alters, Idle, Sound, Ordered, Recording, Faithful, TypeOK, InRecord, Runs
<1>2. /\ disk.state = Saved(run) /\ Counterfactual.trades = TradesOf("shadow", disk.history)
      /\ MayOpen /\ run.book.pending # None => run.book.pending.kind = "Enter"
  BY <1>1 DEF Whole, Exact, Complete, StateOwed
<1>3. run'.book.trades = run.book.trades /\ run'.shadow \in {run.shadow, Counterfactual}
  BY <1>2 DEF Nudges
<1>4. Counterfactual'.trades = Counterfactual.trades
  <2>1. run.shadow = None => Counterfactual = run.book
    BY DEF Counterfactual
  <2>2. run.shadow # None => Counterfactual = run.shadow /\ run'.shadow = run.shadow
    BY <1>3 DEF Counterfactual
  <2>3. Counterfactual' = IF run'.shadow = None THEN run'.book ELSE run'.shadow
    BY DEF Counterfactual
  <2> QED BY <1>3, <2>1, <2>2, <2>3
<1>5. \A i \in DOMAIN writes' : writes'[i].to # "trades.jsonl"
  BY NudgesOwesNothing
<1>6. Complete(Counterfactual'.trades, "shadow", writes', disk'.history)
  BY <1>1, <1>2, <1>4, <1>5, NoLineCompletes
<1>7. run' = run \/ StateOwed'
  <2>1. \/ writes' \in {<<SaveState>>, IntentWrites, <<SaveState, Answer("advisor")>>}
        \/ run' = run
        \/ /\ run.book.lastBar = None /\ (MayOpen \/ Warmup = None)
           /\ run.book.pending # None \/ run.book.order # None
    BY DEF Nudges
  <2>2. ~(/\ run.book.lastBar = None /\ (MayOpen \/ Warmup = None)
          /\ run.book.pending # None \/ run.book.order # None)
    BY <1>1 DEF Fresh, OpensOnlyAfterBars
  <2>3. writes' \in {<<SaveState>>, IntentWrites, <<SaveState, Answer("advisor")>>} => StateOwed'
    <3>1. ASSUME writes' = <<SaveState>> \/ writes' = <<SaveState, Answer("advisor")>>
          PROVE  1 \in DOMAIN writes' /\ writes'[1].to = "state.json"
      BY <3>1 DEF SaveState
    <3>2. ASSUME writes' = IntentWrites
          PROVE  2 \in DOMAIN writes' /\ writes'[2].to = "state.json"
      BY <3>2 DEF IntentWrites, SaveState
    <3> QED BY <3>1, <3>2 DEF StateOwed
  <2> QED BY <2>1, <2>2, <2>3
<1> QED BY <1>1, <1>2, <1>6, <1>7 DEF Whole, Complete, IsLine

LEMMA ProceedsWhole ==
  ASSUME Sound, Proceeds
  PROVE  Whole'
<1>1. /\ run.live = run'.live /\ run'.book = run.book /\ TypeOK /\ run \in Runs
      /\ writes # << >> /\ Write = writes[1] /\ writes' = Tail(writes) /\ 1 \in DOMAIN writes
      /\ writes[1].to # "runs" /\ Recording
  BY ProceedsBacked, WritesLeft DEF Sound, Ordered, Recording, Faithful, TypeOK, Proceeds,
                                    Write, Backed
<1>2. UNCHANGED run
  BY <1>1 DEF Proceeds, WriteState, RemoveFile, AppendHistory, WriteRow, InsertRun,
              AnswerDecider, AnswerAdvisor, AnswerStopper
<1> SUFFICES ASSUME run.live PROVE Whole'
  BY <1>2 DEF Whole
<1>3. Complete(Counterfactual'.trades, "shadow", writes', disk'.history)
  <2>1. Counterfactual' = Counterfactual
    BY <1>2 DEF Counterfactual
  <2>2. Complete(Counterfactual.trades, "shadow", writes, disk.history)
    BY DEF Sound, Whole
  <2> QED BY <1>1, <2>1, <2>2, ProceedsCompletes DEF BookNames
<1>4. ~StateOwed' => disk'.state = Saved(run)
  <2>1. CASE WriteState
    BY <1>1, <2>1 DEF WriteState, TypeOK
  <2>2. CASE ~WriteState
    <3>1. writes[1].to # "state.json" /\ disk'.state = disk.state
      <4>1. writes[1].to # "removal"
        <5>1. Handing
          BY <1>1 DEF Recording, Faithful
        <5> QED BY <1>1, <5>1 DEF Handing, Removing, To
      <4> QED BY <1>1, <2>2, <4>1 DEF Proceeds, WriteState, RemoveFile, AppendHistory, WriteRow,
                 InsertRun, AnswerDecider, AnswerAdvisor, AnswerStopper, TypeOK
    <3>2. \A i \in DOMAIN writes : i # 1 => i - 1 \in DOMAIN writes' /\ writes'[i - 1] = writes[i]
      <4>1. /\ Len(writes) \in Nat /\ DOMAIN writes = 1..Len(writes)
            /\ DOMAIN writes' = 1..(Len(writes) - 1)
            /\ \A i \in DOMAIN writes' : writes'[i] = writes[i + 1]
        BY <1>1, WritesLeft
      <4>2. \A i \in DOMAIN writes : i # 1 => i - 1 \in DOMAIN writes' /\ (i - 1) + 1 = i
        BY <4>1
      <4> QED BY <4>1, <4>2
    <3>3. StateOwed => StateOwed'
      BY <3>1, <3>2 DEF StateOwed
    <3> QED BY <3>1, <3>3 DEF Sound, Whole
  <2> QED BY <2>1, <2>2
<1> QED BY <1>2, <1>3, <1>4 DEF Whole, Complete, IsLine

LEMMA SoundStep ==
  ASSUME Orderly, NoExitAtOpens, OpensOnlyAfterBars, Sound, [Next]_vars
  PROVE  Sound'
<1>1. Ordered' /\ Exact' /\ ~Start /\ ~WriteFails
  BY OrderedStep, ExactStep DEF Sound, Orderly, Start, WriteFails
<1>2. CASE UNCHANGED <<run, disk, writes>>
  BY <1>1, <1>2 DEF Sound, Whole, Complete, IsLine, StateOwed, Counterfactual
<1>3. CASE Stop
  BY <1>1, <1>3 DEF Stop, Sound, Whole, Ordered, Recording, Faithful, TypeOK, Runs
<1>4. CASE Handles
  BY <1>1, <1>2, <1>3, <1>4, HandlesDoes, BarIsWhole, NudgeIsWhole
     DEF Undisturbed, Sound, Ordered, Recording, Faithful
<1>5. CASE Proceeds
  BY <1>1, <1>5, ProceedsWhole DEF Sound
<1>6. CASE Restart
  <2>1. run'.live = run.live /\ UNCHANGED disk /\ writes = << >> /\ writes' = << >>
    BY <1>6, RestartIsBacked DEF Sound, Restart
  <2>2. run.live => run' = run
    BY <1>6, <2>1, WholeReloads DEF Restart, Idle
  <2> QED BY <1>1, <2>1, <2>2 DEF Sound, Whole, Complete, IsLine, StateOwed, Counterfactual
<1> QED BY <1>1, <1>2, <1>4, <1>5, <1>6 DEF Next, vars

LEMMA SoundInit == Init => Sound
<1> SUFFICES ASSUME Init PROVE Whole
  BY OrderedInit, ExactInit DEF Sound
<1>1. run = NewRun /\ disk = [state |-> Saved(NewRun), history |-> << >>] /\ DOMAIN writes = {}
  BY DEF Init
<1>2. Counterfactual.trades = << >>
  BY <1>1, NewRunType DEF Counterfactual, NewBook
<1> QED BY <1>1, <1>2, TradesOfNothing DEF Whole, Complete

(* Between two handlers a restart of the process changes nothing of a run: not
   an accepted entry, a verdict, the pause, a shadow or a trade of either book
   (persist, reload, restore_history). *)
THEOREM RestartsChangeNothing ==
  ASSUME Orderly, NoExitAtOpens, OpensOnlyAfterBars
  PROVE  Spec => []RestartChangesNothing
<1>1. Sound => RestartChangesNothing
  BY WholeReloads DEF RestartChangesNothing
<1>2. Sound /\ [Next]_vars => Sound'
  BY SoundStep
<1> QED BY <1>1, <1>2, SoundInit, PTL DEF Spec

-----------------------------------------------------------------------------
(* A fill has the lots its cut leaves, and a vetoed one is none. *)
LEMMA FillHeeds ==
  ASSUME NEW b \in Books, NEW time \in Int, NEW price \in Price,
         NEW warm \in BOOLEAN, NEW cut \in Cuts, b.position = None,
         FillPending(b, time, price, warm, cut).book.position # None
  PROVE  LET p == FillPending(b, time, price, warm, cut).book.position
         IN  /\ b.pending # None /\ b.pending.kind = "Enter"
             /\ cut # 0 /\ p.lots = AdvisedLots(FullLots(p, b.equity), cut)
<1> DEFINE s == FillPending(b, time, price, warm, cut)
           c == Judging(b, time)
           o == Opened(b.pending, time, price, warm, b.equity)
           lots == AdvisedLots(o.lots, cut)
           entered == IF b.lastEntry = None THEN time ELSE Larger(b.lastEntry, time)
<1>1. b.pending # None /\ b.pending.kind = "Enter" /\ s = EnterPending(b, time, price, warm, cut)
  <2>1. OpenedFrom(b, s.book, time)
    <3>1. Consumed(b, s.book) => s.book.position = None
      BY DEF Consumed, Books
    <3>2. ~ClosedFrom(b, s.book, time)
      BY DEF ClosedFrom
    <3> QED BY <3>1, <3>2, FillPendingCases
  <2> QED BY <2>1 DEF OpenedFrom, FillPending
<1>2. c.position = None
  BY DEF Judging, Books
<1>3. o = [side |-> o.side, entryTime |-> o.entryTime, entryPrice |-> o.entryPrice,
           stop |-> o.stop, target |-> o.target, lots |-> o.lots, risk |-> o.risk,
           decided |-> o.decided]
      /\ (o.risk # 0 => o.lots = FullLots(o, b.equity))
  BY DEF Opened, FullLots
<1>4. c = [b EXCEPT !.pending = None, !.closed = c.closed]
  BY DEF Judging, Books
<1> HIDE DEF c, o, lots, entered
<1>5. cut # 0 /\ o.risk # 0
      /\ s.book = [c EXCEPT !.position = [o EXCEPT !.lots = lots], !.lastEntry = entered]
  BY <1>1, <1>2 DEF EnterPending, Refused, Quiet, c, o, lots, entered
<1>6. s.book.position = [o EXCEPT !.lots = lots]
  BY <1>4, <1>5 DEF Books
<1>7. FullLots(s.book.position, b.equity) = o.lots /\ s.book.position.lots = lots
  BY <1>3, <1>5, <1>6 DEF FullLots
<1> QED BY <1>1, <1>5, <1>7 DEF lots

LEMMA AdvanceHeeds ==
  ASSUME NEW b \in Books, NEW bar \in Bars, NEW warm \in BOOLEAN, NEW cut \in Cuts,
         b.position = None, Advance(b, bar, warm, cut).book.position # None
  PROVE  LET p == Advance(b, bar, warm, cut).book.position
         IN  /\ b.pending # None /\ b.pending.kind = "Enter"
             /\ cut # 0 /\ p.lots = AdvisedLots(FullLots(p, b.equity), cut)
<1> DEFINE f == FillPending(b, bar.time, bar.open, warm, cut).book
           c == Advance(b, bar, warm, cut).book
<1>1. c \in Books /\ Managed(f, c, bar) /\ bar.time \in Int /\ bar.open \in Price
  BY AdvanceCases DEF Bars
<1>2. f \in Books
  BY <1>1, FillPendingCases
<1>3. f.position # None
        => /\ b.pending # None /\ b.pending.kind = "Enter" /\ cut # 0
           /\ f.position.lots = AdvisedLots(FullLots(f.position, b.equity), cut)
  BY <1>1, FillHeeds
<1> HIDE DEF f, c
<1> SUFFICES ASSUME c.position # None
             PROVE  /\ f.position # None /\ c.position.lots = f.position.lots
                    /\ FullLots(c.position, b.equity) = FullLots(f.position, b.equity)
  BY <1>3 DEF c
<1>4. CASE Untouched(f, c, bar)
  BY <1>2, <1>4, SeenType DEF Untouched
<1>5. CASE HeldOver(f, c, bar)
  <2>1. PICK q : Tightened(f.position, q) /\ c = [Seen(f, bar) EXCEPT !.position = q]
    BY <1>5 DEF HeldOver
  <2>2. c.position = q /\ f.position # None /\ f.position \in Positions
    BY <1>2, <1>5, <2>1, SeenType DEF HeldOver, Books
  <2>3. q.lots = f.position.lots /\ q.risk = f.position.risk
        /\ q.entryPrice = f.position.entryPrice
    BY <2>1, <2>2 DEF Tightened, Positions
  <2> QED BY <2>2, <2>3 DEF FullLots
<1>6. CASE LeftOn(f, c, bar)
  <2>1. c.position = None
    BY <1>2, <1>6, SeenType DEF LeftOn, Exited, Books
  <2> QED BY <2>1
<1> QED BY <1>1, <1>4, <1>5, <1>6 DEF Managed

-----------------------------------------------------------------------------
(* A rule-based run rests no order, and what it waits to fill was decided at
   the close of its last bar.  The cut an advisor was told is the cut that will
   be heard; between the verdict and its answer it is about what waits. *)
Advised(w) == \E i \in DOMAIN w : w[i].to = "advisor"
Heeded ==
  run.live =>
    /\ run.book.order = None
    /\ run.book.pending # None => /\ run.book.lastBar # None
                                  /\ run.book.pending.decided = run.book.lastBar.time
    /\ IF Advised(writes) THEN /\ Waiting(run.book) # None /\ run.advice # None
                               /\ run.advice.about = PendingId
       ELSE IF Waiting(run.book) = None THEN verdict = NoAdvice
       ELSE CutFor(PendingId) = verdict

RuleBased == Orderly /\ NoExitAtOpens /\ ~External
Attended == Sound /\ Heeded

LEMMA AttendedTypes ==
  ASSUME Attended
  PROVE  /\ TypeOK /\ run \in Runs /\ run.book \in Books /\ run.live \in BOOLEAN
         /\ run.book.pending \in Intents \cup {None} /\ Counterfactual \in Books
         /\ Fresh(run.book) /\ Warm \in BOOLEAN /\ \A id : CutFor(id) \in Cuts
         /\ Handing
BY RunFields DEF Attended, Sound, Ordered, Recording, Faithful, InRecord, TypeOK, Books, Warm

(* The handlers that leave the run as it is, or its book as it stands: what
   waits is the same, and the cut for it. *)
Same(r, q) == /\ r.live = q.live /\ r.book.order = q.book.order /\ r.advice = q.advice
              /\ r.book.pending = q.book.pending /\ r.book.lastBar = q.book.lastBar

LEMMA SameIsHeeded ==
  ASSUME Attended, Same(run, run'), UNCHANGED verdict, Advised(writes') <=> Advised(writes)
  PROVE  Heeded'
<1>1. Waiting(run'.book) = Waiting(run.book)
  BY DEF Same, Waiting
<1>2. PendingId' = PendingId
  BY DEF PendingId, Book!Newest, Same
<1>3. CutFor(PendingId)' = CutFor(PendingId)
  BY <1>2 DEF CutFor, Same
<1> QED BY <1>1, <1>2, <1>3 DEF Attended, Heeded, Same

LEMMA PlainWritesAdviseNone ==
  /\ ~Advised(<< >>) /\ ~Advised(<<SaveState>>)
  /\ \A main, shadow : NoneOrOne(main) /\ NoneOrOne(shadow) => ~Advised(BarWrites(main, shadow))
<1>1. ~Advised(<< >>) /\ ~Advised(<<SaveState>>)
  BY DEF Advised, SaveState
<1>2. ASSUME NEW main, NEW shadow, NoneOrOne(main), NoneOrOne(shadow)
      PROVE  ~Advised(BarWrites(main, shadow))
  <2> DEFINE w == BarWrites(main, shadow)
  <2>1. /\ w \in Seq(Writes) /\ Len(w) \in 2..4 /\ w[1] = SaveState /\ w[2] = Row
        /\ \A i \in 3..Len(w) : w[i] = Item("main", main[1]) \/ w[i] = Item("shadow", shadow[1])
    BY <1>2, BarWritesOf
  <2> HIDE DEF w
  <2> SUFFICES ASSUME NEW i \in DOMAIN w PROVE w[i].to # "advisor"
    BY DEF Advised, w
  <2>2. i = 1 \/ i = 2 \/ i \in 3..Len(w)
    BY <2>1, LenProperties
  <2>3. /\ SaveState.to # "advisor" /\ Row.to # "advisor"
        /\ \A name, t : Item(name, t).to # "advisor"
    BY DEF SaveState, Row, Item
  <2> QED BY <2>1, <2>2, <2>3
<1> QED BY <1>1, <1>2
LEMMA BarIsHeeded ==
  ASSUME RuleBased, Attended, NEW t \in Times, NEW s \in BarShapes,
         NEW decision \in Answers(t), NEW alone \in Answers(t),
         BarCloses(t, s, decision, alone)
  PROVE  /\ Heeded'
         /\ run.book.position = None /\ run'.book.position # None =>
              /\ verdict # 0
              /\ run'.book.position.lots
                   = AdvisedLots(FullLots(run'.book.position, run.book.equity), verdict)
<1> DEFINE bar == Book!BarAt(t, s)
           cut == CutFor(PendingId)
           main == Step(run.book, bar, Warm, cut, decision)
           shadow == Step(Counterfactual, bar, Warm, NoAdvice, alone)
           over == Advance(run.book, bar, Warm, cut).book
           beside == Advance(Counterfactual, bar, Warm, NoAdvice)
<1>1. /\ run \in Runs /\ run.book \in Books /\ Counterfactual \in Books /\ cut \in Cuts
      /\ bar \in Bars /\ bar.time = t /\ t \in Int /\ Warm \in BOOLEAN /\ NoAdvice \in Cuts
      /\ run.book.pending \in Intents \cup {None}
  BY AttendedTypes, BarInputs, CutAssumption DEF NoAdvice, Cuts, CutAssumption
<1>2. /\ run.live /\ ~Advised(writes) /\ run.book.order = None /\ Book!Newer(t)
      /\ run.book.pending # None => run.book.lastBar # None
                                    /\ run.book.pending.decided = run.book.lastBar.time
      /\ IF Waiting(run.book) = None THEN verdict = NoAdvice ELSE cut = verdict
  BY PlainWritesAdviseNone DEF BarCloses, Idle, Attended, Heeded
<1>3. decision \in Intents \cup {None} /\ (decision # None => decision.decided = t)
  <2>1. decision \in Book!Decisions(t)
    BY DEF Answers
  <2> QED BY <1>1, <2>1, DecisionsType
<1>4. /\ over \in Books /\ over.lastBar = bar /\ over.order = None
      /\ NoneOrOne(main.trades) /\ NoneOrOne(shadow.trades)
  <2>1. /\ over \in Books /\ over.lastBar = bar /\ over.order = None
        /\ Tallied(run.book, Advance(run.book, bar, Warm, cut), t)
        /\ Tallied(Counterfactual, beside, t)
    BY <1>1, <1>2, AdvanceTally
  <2>2. main.trades = Advance(run.book, bar, Warm, cut).trades /\ shadow.trades = beside.trades
    BY AdvanceReports DEF Step
  <2> QED BY <2>1, <2>2 DEF Tallied, NoneOrOne
<1>5. main.book = [over EXCEPT !.pending = decision]
  BY AdvanceReports DEF Step, Decide
<1>6. run.book.position = None /\ over.position # None
        => /\ run.book.pending # None /\ run.book.pending.kind = "Enter" /\ cut # 0
           /\ over.position.lots = AdvisedLots(FullLots(over.position, run.book.equity), cut)
  BY <1>1, AdvanceHeeds
<1>7. /\ run' = [run EXCEPT !.book = OrderSawBarClose(main.book), !.shadow = shadow.book,
                             !.advice = None]
      /\ writes' = BarWrites(main.trades, shadow.trades)
      /\ Tell(OrderSawBarClose(main.book))
  BY DEF BarCloses, Stepped
<1> HIDE DEF bar, cut, main, shadow, over, beside
<1>8. /\ OrderSawBarClose(main.book) = main.book /\ main.book.order = None
      /\ main.book.pending = decision /\ main.book.lastBar = bar
      /\ main.book.position = over.position
  BY <1>4, <1>5 DEF OrderSawBarClose, Books
<1>9. run'.book = main.book /\ run'.advice = None
  BY <1>1, <1>7, <1>8 DEF Runs
<1>10. Waiting(run'.book) # None => Waiting(run'.book) = decision /\ decision # None
  BY <1>8, <1>9 DEF Waiting
<1>11. Waiting(run.book) # None => Waiting(run.book) = run.book.pending /\ run.book.pending # None
  BY <1>2 DEF Waiting
<1>12. Waiting(run'.book) = Waiting(run.book) => Waiting(run'.book) = None
  <2>1. run.book.lastBar # None => run.book.lastBar.time \in Int /\ t > run.book.lastBar.time
    BY <1>1, <1>2, NewestType
  <2> QED BY <1>1, <1>2, <1>3, <1>10, <1>11, <2>1
<1>13. verdict' = NoAdvice
  BY <1>2, <1>7, <1>8, <1>9, <1>12 DEF Tell, told
<1>14. ~Advised(writes') /\ CutFor(PendingId)' = NoAdvice
  <2>1. ~Advised(writes')
    BY <1>4, <1>7, PlainWritesAdviseNone
  <2> QED BY <2>1, <1>9 DEF CutFor
<1>15. Heeded'
  <2>1. bar # None
    BY <1>1, NoOrderAssumption DEF Bars, NoOrderAssumption
  <2>2. /\ run'.book.order = None /\ run'.book.lastBar = bar
        /\ run'.book.pending # None => run'.book.pending.decided = run'.book.lastBar.time
    BY <1>1, <1>3, <1>8, <1>9
  <2> QED BY <1>13, <1>14, <2>1, <2>2 DEF Heeded
<1>16. run.book.pending # None /\ run.book.pending.kind = "Enter" => cut = verdict
  <2>1. run.book.pending # None /\ run.book.pending.kind = "Enter" => Waiting(run.book) # None
    BY <1>2 DEF Waiting
  <2> QED BY <1>2, <2>1
<1> QED BY <1>6, <1>8, <1>9, <1>15, <1>16

LEMMA OpenIsHeeded ==
  ASSUME RuleBased, Attended, NEW t \in Times, NEW s \in BarShapes, BarOpens(t, s.open)
  PROVE  /\ Heeded'
         /\ run.book.position = None /\ run'.book.position # None =>
              /\ verdict # 0
              /\ run'.book.position.lots
                   = AdvisedLots(FullLots(run'.book.position, run.book.equity), verdict)
<1> DEFINE cut == CutFor(PendingId)
           filled == FillOpen(run.book, t, s.open, Warm, cut).book
<1>1. /\ run \in Runs /\ run.book \in Books /\ cut \in Cuts /\ Warm \in BOOLEAN
      /\ t \in Int /\ s.open \in Price /\ Fresh(run.book)
  BY AttendedTypes, BarInputs
<1>2. /\ run.live /\ ~Advised(writes) /\ run.book.order = None /\ run.book.pending # None
      /\ Book!Newer(t) /\ IF Waiting(run.book) = None THEN verdict = NoAdvice ELSE cut = verdict
  BY PlainWritesAdviseNone DEF BarOpens, Idle, Attended, Heeded
<1>3. run.book.lastBar # None /\ t > run.book.lastBar.time /\ run.book.lastBar.time \in Int
  BY <1>1, <1>2, NewestType DEF Fresh, RuleBased
<1>4. FillOpen(run.book, t, s.open, Warm, cut) = FillPending(run.book, t, s.open, Warm, cut)
  BY <1>1, <1>3 DEF FillOpen
<1>5. filled \in Books /\ filled.order = None /\ filled.pending = None
  <2>1. filled \in Books /\ filled.order = None
    BY <1>1, <1>2, FillOpenKeeps
  <2> QED BY <1>1, <1>4, <2>1, FillConsumes
<1>6. run.book.position = None /\ filled.position # None
        => /\ run.book.pending # None /\ run.book.pending.kind = "Enter" /\ cut # 0
           /\ filled.position.lots = AdvisedLots(FullLots(filled.position, run.book.equity), cut)
  BY <1>1, <1>4, FillHeeds
<1>7. /\ run' = [run EXCEPT !.book = filled, !.shadow = Counterfactual, !.advice = None]
      /\ writes' = <<SaveState>> /\ Tell(filled)
  BY <1>3 DEF BarOpens
<1> HIDE DEF cut, filled
<1>8. run'.book = filled /\ Waiting(filled) = None
  BY <1>1, <1>5, <1>7 DEF Runs, Waiting
<1>9. verdict' = NoAdvice
  BY <1>2, <1>7, <1>8 DEF Tell, told
<1>10. Heeded'
  BY <1>5, <1>7, <1>8, <1>9, PlainWritesAdviseNone DEF Heeded
<1>11. run.book.pending.kind = "Enter" => cut = verdict
  <2>1. run.book.pending.kind = "Enter" => Waiting(run.book) # None
    BY <1>2 DEF Waiting
  <2> QED BY <1>2, <2>1
<1> QED BY <1>6, <1>8, <1>10, <1>11
-----------------------------------------------------------------------------
(* The handlers that fill nothing in a rule-based run, and the writes. *)
Unentered == run.book.position = None => run'.book.position = None

LEMMA TickIsHeeded ==
  ASSUME Attended, TickSettled
  PROVE  Heeded' /\ Unentered
<1> DEFINE tick == copies.settle
           seen == ObserveTick(run.book, tick.time, tick.last)
<1>1. /\ run \in Runs /\ run.book \in Books /\ run.book.order = None /\ ~Advised(writes)
  BY AttendedTypes, PlainWritesAdviseNone DEF TickSettled, Idle, Attended, Heeded
<1>2. /\ seen.order = None /\ seen.pending = run.book.pending
      /\ seen.lastBar = run.book.lastBar /\ seen.position = run.book.position
  BY <1>1 DEF ObserveTick, Books
<1>3. ~OrderFilled(seen, tick) /\ Waiting(seen) = Waiting(run.book)
  BY <1>1, <1>2 DEF OrderFilled, Waiting
<1> HIDE DEF seen
<1>4. Book!SettledByTick(seen, tick.time, tick.last, tick.sides, Warm, CutFor(CurrentId)) = seen
  BY <1>2 DEF Book!SettledByTick
<1>5. /\ run' = [run EXCEPT !.book = seen] /\ UNCHANGED told
      /\ writes' = << >> \/ writes' = <<SaveState>>
  BY <1>3, <1>4 DEF TickSettled, Tell, seen, tick
<1>6. Same(run, run') /\ run'.book = seen
  BY <1>1, <1>2, <1>5 DEF Same, Runs
<1>7. ~Advised(writes') /\ UNCHANGED verdict
  BY <1>5, PlainWritesAdviseNone DEF told
<1> QED BY <1>1, <1>2, <1>6, <1>7, SameIsHeeded DEF Unentered

LEMMA AdviceIsHeeded ==
  ASSUME Attended, NEW cut \in Cuts, PostAdvice(cut)
  PROVE  Heeded' /\ Unentered
<1> DEFINE given == [about |-> CurrentId, cut |-> cut]
<1>1. /\ run \in Runs /\ run.live /\ run.book.order = None /\ Waiting(run.book) # None
      /\ run' = [run EXCEPT !.advice = given]
      /\ writes' = <<SaveState, Answer("advisor")>>
      /\ PendingId \in Level
  BY AttendedTypes, NewestType DEF PostAdvice, Idle, Attended, Heeded
<1>2. given \in Verdicts /\ given # None /\ given.about = PendingId
  BY <1>1, PaperRunAssumption DEF Verdicts, PaperRunAssumption, CurrentId
<1>3. run'.book = run.book /\ run'.advice = given /\ run'.live = run.live
  BY <1>1 DEF Runs
<1>4. PendingId' = PendingId
  BY <1>3 DEF PendingId, Book!Newest
<1>5. Advised(writes')
  <2>1. 2 \in DOMAIN writes' /\ writes'[2].to = "advisor"
    BY <1>1 DEF Answer
  <2> QED BY <2>1 DEF Advised
<1> QED BY <1>1, <1>2, <1>3, <1>4, <1>5 DEF Heeded, Unentered, Attended

LEMMA PauseIsHeeded ==
  ASSUME Attended, NEW on \in BOOLEAN, Pause(on)
  PROVE  Heeded' /\ Unentered
<1>1. run \in Runs /\ run' = [run EXCEPT !.paused = on] /\ UNCHANGED verdict
      /\ ~Advised(writes) /\ ~Advised(writes')
  BY AttendedTypes, PlainWritesAdviseNone DEF Pause, Idle, told
<1>2. Same(run, run') /\ run'.book = run.book
  BY <1>1 DEF Same, Runs
<1> QED BY <1>1, <1>2, SameIsHeeded DEF Unentered

LEMMA ProceedsHeeds ==
  ASSUME Attended, Proceeds
  PROVE  Heeded' /\ Unentered
<1>1. /\ TypeOK /\ writes # << >> /\ writes' = Tail(writes) /\ 1 \in DOMAIN writes
      /\ Write = writes[1] /\ writes[1].to # "runs"
      /\ \A i \in DOMAIN writes' : i + 1 \in DOMAIN writes /\ writes'[i] = writes[i + 1]
      /\ \A i \in DOMAIN writes : i # 1 => i - 1 \in DOMAIN writes'
                                           /\ writes'[i - 1] = writes[i]
  <2>1. /\ TypeOK /\ writes # << >> /\ writes' = Tail(writes) /\ Backed
    BY AttendedTypes DEF Proceeds, Attended, Sound, Ordered
  <2>2. /\ 1 \in DOMAIN writes /\ DOMAIN writes = 1..Len(writes) /\ Len(writes) \in Nat
        /\ DOMAIN writes' = 1..(Len(writes) - 1)
        /\ \A i \in DOMAIN writes' : i + 1 \in DOMAIN writes /\ writes'[i] = writes[i + 1]
    BY <2>1, WritesLeft
  <2>3. \A k, n \in Nat : k \in 1..n /\ k # 1 => k - 1 \in 1..(n - 1) /\ k - 1 + 1 = k
    OBVIOUS
  <2>4. \A i \in DOMAIN writes : i # 1 => i - 1 \in DOMAIN writes'
                                           /\ writes'[i - 1] = writes[i]
    <3> SUFFICES ASSUME NEW i \in DOMAIN writes, i # 1
                 PROVE  i - 1 \in DOMAIN writes' /\ writes'[i - 1] = writes[i]
      OBVIOUS
    <3>1. i \in Nat /\ i \in 1..Len(writes)
      BY <2>2
    <3>2. i - 1 \in 1..(Len(writes) - 1) /\ i - 1 + 1 = i
      BY <2>2, <2>3, <3>1, Zenon
    <3> QED BY <2>2, <3>2, Zenon
  <2> QED BY <2>1, <2>2, <2>4 DEF Write, Backed
<1>2. CASE AnswerAdvisor
  <2>1. /\ writes[1].to = "advisor" /\ verdict' = run.advice.cut /\ UNCHANGED run
    BY <1>1, <1>2 DEF AnswerAdvisor
  <2>2. /\ Advised(writes) /\ PendingId' = PendingId
    BY <1>1, <2>1 DEF Advised, PendingId, Book!Newest
  <2>3. /\ run.live => /\ Waiting(run.book) # None /\ run.advice # None
                       /\ run.advice.about = PendingId
    BY <2>2 DEF Attended, Heeded
  <2>4. run.live => CutFor(PendingId)' = verdict'
    BY <2>1, <2>2, <2>3 DEF CutFor
  <2> QED BY <2>1, <2>2, <2>3, <2>4 DEF Heeded, Unentered, Attended
<1>3. CASE ~AnswerAdvisor
  <2>1. UNCHANGED run /\ UNCHANGED verdict /\ writes[1].to # "advisor"
    BY <1>1, <1>3 DEF Proceeds, WriteState, RemoveFile, AppendHistory, WriteRow, InsertRun,
                      AnswerDecider, AnswerAdvisor, AnswerStopper, told
  <2>2. Advised(writes') <=> Advised(writes)
    BY <1>1, <2>1 DEF Advised
  <2> QED BY <2>1, <2>2, SameIsHeeded DEF Same, Unentered
<1> QED BY <1>2, <1>3

LEMMA RestartIsHeeded ==
  ASSUME Orderly, Attended, Restart
  PROVE  Heeded' /\ Unentered
<1>1. /\ run'.live = run.live /\ writes = << >> /\ writes' = << >> /\ UNCHANGED verdict
      /\ ~run.live => run'.book = run.book
  BY RestartIsBacked DEF Attended, Sound, Restart, told
<1>2. CASE run.live
  <2>1. run' = run
    BY <1>1, <1>2, WholeReloads DEF Attended, Restart, Idle
  <2> QED BY <1>1, <2>1, SameIsHeeded DEF Same, Unentered
<1>3. CASE ~run.live
  BY <1>1, <1>3 DEF Heeded, Unentered
<1> QED BY <1>2, <1>3

LEMMA StopIsHeeded ==
  ASSUME Attended, Stop
  PROVE  Heeded' /\ Unentered
<1>1. run.book \in Books /\ run' = [run EXCEPT !.book = StopBook(run.book).book, !.live = FALSE]
      /\ run \in Runs
  BY AttendedTypes DEF Stop
<1>2. run'.book = StopBook(run.book).book /\ ~run'.live
  BY <1>1 DEF Runs
<1> QED BY <1>1, <1>2, StopBookKeeps DEF Heeded, Unentered

(* What VerdictFollowed says of a step. *)
Follows ==
  run.book.position = None /\ run'.book.position # None =>
    LET p == run'.book.position
    IN  /\ verdict # 0
        /\ p.lots = AdvisedLots(FullLots(p, run.book.equity), verdict)

LEMMA AttendedStep ==
  ASSUME RuleBased, Attended, [Next]_vars
  PROVE  Attended' /\ Follows
<1>1. Sound'
  BY SoundStep DEF RuleBased, Attended, OpensOnlyAfterBars
<1>2. ASSUME Heeded', Unentered PROVE Attended' /\ Follows
  BY <1>1, <1>2 DEF Attended, Unentered, Follows
<1>3. CASE UNCHANGED <<run, writes, told>>
  BY <1>2, <1>3, SameIsHeeded DEF Same, Unentered, told
<1>4. ASSUME NEW t \in Times, NEW s \in BarShapes, NEW decision \in Answers(t),
             NEW alone \in Answers(t), BarCloses(t, s, decision, alone)
      PROVE  Attended' /\ Follows
  BY <1>1, <1>4, BarIsHeeded DEF Attended, Follows
<1>5. ASSUME NEW t \in Times, NEW s \in BarShapes, BarOpens(t, s.open)
      PROVE  Attended' /\ Follows
  BY <1>1, <1>5, OpenIsHeeded DEF Attended, Follows
<1>6. CASE TickSettled
  BY <1>2, <1>6, TickIsHeeded
<1>7. ASSUME NEW cut \in Cuts, PostAdvice(cut) PROVE Attended' /\ Follows
  BY <1>2, <1>7, AdviceIsHeeded
<1>8. ASSUME NEW aged \in BOOLEAN, ActTrigger(aged) PROVE Attended' /\ Follows
  BY <1>3, <1>8 DEF ActTrigger, Refuses, Attended, Heeded, Idle
<1>9. ASSUME NEW on \in BOOLEAN, Pause(on) PROVE Attended' /\ Follows
  BY <1>2, <1>9, PauseIsHeeded
<1>10. ~ActCancel /\ ~Start /\ ~WriteFails
  BY DEF ActCancel, Start, WriteFails, RuleBased, Orderly, Attended, Heeded, Idle
<1>11. /\ \A f \in EntryForms : ~PostIntent(f)
       /\ \A f \in OrderForms : ~PostOrder(f)
  BY DEF PostIntent, PostOrder, Post, RuleBased
<1>12. \A t \in Times, s \in BarShapes, q \in Quotes \cup {None} :
         TickStored(t, s, q) => UNCHANGED <<run, writes, told>>
  BY DEF TickStored
<1>13. CASE Handles
  BY <1>3, <1>4, <1>5, <1>6, <1>7, <1>8, <1>9, <1>10, <1>11, <1>12, <1>13, <1>2,
     StopIsHeeded DEF Handles, ActReads
<1>14. CASE Proceeds \/ Restart
  BY <1>2, <1>14, ProceedsHeeds, RestartIsHeeded DEF RuleBased
<1> QED BY <1>3, <1>10, <1>13, <1>14 DEF Next, vars

LEMMA AttendedInit == RuleBased /\ Init => Attended
<1> SUFFICES ASSUME RuleBased, Init PROVE Heeded
  BY SoundInit DEF Attended
<1>1. run.book.pending = None /\ run.book.order = None /\ ~Advised(writes)
  BY NewRunType, PlainWritesAdviseNone DEF Init, NewRun, NewBook
<1>2. Waiting(run.book) = None /\ verdict = NoAdvice
  BY <1>1 DEF Waiting, Init
<1> QED BY <1>1, <1>2 DEF Heeded

(* The position an entry becomes has the lots its own verdict leaves, and a
   vetoed entry becomes none, in every run whose entries are the strategy's:
   no verdict is lost on its way to the fill, over a restart, or heard by an
   entry it was not about (PaperRun::advice, feed_run, feed_open). *)
THEOREM VerdictsAreFollowed ==
  ASSUME RuleBased
  PROVE  Spec => VerdictFollowed
<1>1. Attended /\ [Next]_vars => Attended' /\ [Follows]_vars
  BY AttendedStep
<1>2. Init => Attended
  BY AttendedInit
<1>3. Spec => [][Follows]_vars
  BY <1>1, <1>2, PTL DEF Spec
<1> QED BY <1>3 DEF VerdictFollowed, Follows
-----------------------------------------------------------------------------
(* Two books that differ in their lists of trades only.  Nothing a book does
   reads that list: over the same bars, with the same advice and the same
   decisions, such books stay such books. *)
Twins(b, s) ==
  /\ s.equity = b.equity /\ s.position = b.position /\ s.pending = b.pending
  /\ s.order = b.order /\ s.since = b.since /\ s.closed = b.closed
  /\ s.lastEntry = b.lastEntry /\ s.lastBar = b.lastBar

LEMMA JudgedTwins ==
  ASSUME NEW b \in Books, NEW s \in Books, Twins(b, s), NEW time
  PROVE  LET c == Judging(b, time)
             d == Judging(s, time)
         IN  /\ Twins(c, d) /\ DOMAIN c = DOMAIN NewBook /\ DOMAIN d = DOMAIN NewBook
             /\ EntryRefusal(c, time) = EntryRefusal(d, time)
<1> DEFINE c == Judging(b, time)
           d == Judging(s, time)
<1>1. /\ Twins(c, d) /\ DOMAIN c = DOMAIN NewBook /\ DOMAIN d = DOMAIN NewBook
  BY DEF Judging, Twins, Books, NewBook
<1> HIDE DEF c, d
<1>2. EntryRefusal(c, time) = EntryRefusal(d, time)
  BY <1>1 DEF EntryRefusal, Twins
<1> QED BY <1>1, <1>2 DEF c, d

LEMMA BookedTwins ==
  ASSUME NEW b \in Books, NEW s \in Books, Twins(b, s), NEW price, NEW time, NEW kind
  PROVE  Twins(Booked(b, price, time, kind).book, Booked(s, price, time, kind).book)
<1> DEFINE t == Closed(b.position, price, time, kind)
           e == [time |-> time, pnl |-> t.pnl]
<1>1. t = Closed(s.position, price, time, kind)
  BY DEF Twins
<1> HIDE DEF t
<1>2. /\ Booked(b, price, time, kind).book
           = [b EXCEPT !.position = None, !.equity = b.equity + t.pnl,
                       !.trades = Append(b.trades, t), !.closed = Append(b.closed, e)]
      /\ Booked(s, price, time, kind).book
           = [s EXCEPT !.position = None, !.equity = s.equity + t.pnl,
                       !.trades = Append(s.trades, t), !.closed = Append(s.closed, e)]
  BY <1>1 DEF Booked, Quiet, t
<1> HIDE DEF e
<1> QED BY <1>2 DEF Twins, Books

LEMMA FillTwins ==
  ASSUME NEW b \in Books, NEW s \in Books, Twins(b, s), NEW time, NEW price, NEW warm, NEW cut
  PROVE  Twins(FillPending(b, time, price, warm, cut).book,
               FillPending(s, time, price, warm, cut).book)
<1> DEFINE f == FillPending(b, time, price, warm, cut).book
           g == FillPending(s, time, price, warm, cut).book
<1>1. CASE b.pending = None
  BY <1>1 DEF FillPending, Quiet, Twins
<1>2. CASE b.pending # None /\ b.pending.kind = "Enter" /\ b.position = None
  <2> DEFINE c == Judging(b, time)
             d == Judging(s, time)
             o == Opened(b.pending, time, price, warm, b.equity)
             lots == AdvisedLots(o.lots, cut)
             entered == IF b.lastEntry = None THEN time ELSE Larger(b.lastEntry, time)
             p == [o EXCEPT !.lots = lots]
  <2>1. /\ f = EnterPending(b, time, price, warm, cut).book
        /\ g = EnterPending(s, time, price, warm, cut).book
    BY <1>2 DEF FillPending, Twins
  <2>2. /\ o = Opened(s.pending, time, price, warm, s.equity)
        /\ entered = IF s.lastEntry = None THEN time ELSE Larger(s.lastEntry, time)
    BY DEF Twins
  <2>3. Twins(c, d) /\ EntryRefusal(c, time) = EntryRefusal(d, time)
        /\ DOMAIN c = DOMAIN NewBook /\ DOMAIN d = DOMAIN NewBook
    BY JudgedTwins
  <2> HIDE DEF c, d, o, entered
  <2>4. \/ f = c /\ g = d
        \/ f = [c EXCEPT !.position = p, !.lastEntry = entered]
           /\ g = [d EXCEPT !.position = p, !.lastEntry = entered]
    <3>1. /\ cut = 0 \/ EntryRefusal(c, time) # None \/ o.risk = 0
                \/ TooSmall(o.lots) \/ TooSmall(lots) => f = c /\ g = d
          /\ ~(cut = 0 \/ EntryRefusal(c, time) # None \/ o.risk = 0
                \/ TooSmall(o.lots) \/ TooSmall(lots))
             => f = [c EXCEPT !.position = p, !.lastEntry = entered]
                /\ g = [d EXCEPT !.position = p, !.lastEntry = entered]
      BY <2>1, <2>2, <2>3 DEF EnterPending, Refused, Quiet, c, d, o, entered
    <3> QED BY <3>1
  <2> HIDE DEF f, g, p
  <2>5. Twins(f, g)
    BY <2>3, <2>4 DEF Twins, NewBook
  <2> QED BY <2>5 DEF f, g
<1>3. CASE b.pending # None /\ b.pending.kind = "Exit" /\ b.position # None
  <2> DEFINE c == [b EXCEPT !.pending = None]
             d == [s EXCEPT !.pending = None]
             out == ApplyCosts(price, b.position.side, FALSE)
  <2>1. c \in Books /\ d \in Books /\ Twins(c, d)
    BY DEF Books, Twins
  <2>2. f = Booked(c, out, time, "SIGNAL").book /\ g = Booked(d, out, time, "SIGNAL").book
    BY <1>3 DEF FillPending, Twins
  <2> HIDE DEF c, d, f, g, out
  <2>3. Twins(f, g)
    BY <2>1, <2>2, BookedTwins
  <2> QED BY <2>3 DEF f, g
<1>4. CASE /\ b.pending # None
           /\ ~(b.pending.kind = "Enter" /\ b.position = None)
           /\ ~(b.pending.kind = "Exit" /\ b.position # None)
  <2>1. f = [b EXCEPT !.pending = None] /\ g = [s EXCEPT !.pending = None]
    BY <1>4 DEF FillPending, Quiet, Twins
  <2> QED BY <2>1 DEF Twins, Books
<1> QED BY <1>1, <1>2, <1>3, <1>4

LEMMA FillReports ==
  ASSUME NEW b, NEW time, NEW price, NEW warm, NEW cut
  PROVE  {"book", "trades"} \subseteq DOMAIN FillPending(b, time, price, warm, cut)
<1>1. \A c : {"book", "trades"} \subseteq DOMAIN Quiet(c)
  BY DEF Quiet
<1>2. \A c, why : {"book", "trades"} \subseteq DOMAIN Refused(c, why)
  BY <1>1 DEF Refused
<1>3. \A c, out, t, kind : {"book", "trades"} \subseteq DOMAIN Booked(c, out, t, kind)
  BY <1>1 DEF Booked
<1>4. {"book", "trades"} \subseteq DOMAIN EnterPending(b, time, price, warm, cut)
  BY <1>1, <1>2 DEF EnterPending
<1> QED BY <1>1, <1>3, <1>4 DEF FillPending

LEMMA AdvanceTwins ==
  ASSUME NEW b \in Books, NEW s \in Books, Twins(b, s), NEW bar \in Bars,
         NEW warm \in BOOLEAN, NEW cut \in Cuts
  PROVE  Twins(Advance(b, bar, warm, cut).book, Advance(s, bar, warm, cut).book)
<1> DEFINE f == FillPending(b, bar.time, bar.open, warm, cut)
           g == FillPending(s, bar.time, bar.open, warm, cut)
           p == f.book.position
           managed == ManagedBar(f.book.since, bar)
           seen(x) == [x EXCEPT !.since = IF managed = None THEN @ ELSE None, !.lastBar = bar]
           exit == BarExit(p, managed)
           c == Advance(b, bar, warm, cut).book
           d == Advance(s, bar, warm, cut).book
<1>1. f.book \in Books /\ g.book \in Books /\ Twins(f.book, g.book)
  <2>1. bar.time \in Int /\ bar.open \in Price
    BY DEF Bars
  <2> QED BY <2>1, FillTwins, FillPendingCases
<1>2. /\ c = ManagedAfter(f, bar).book /\ d = ManagedAfter(g, bar).book
      /\ {"book", "trades"} \subseteq DOMAIN f /\ {"book", "trades"} \subseteq DOMAIN g
  BY AdvanceReports, FillReports DEF Advance
<1> HIDE DEF f, g, c, d
<1>3. seen(f.book) \in Books /\ seen(g.book) \in Books /\ Twins(seen(f.book), seen(g.book))
  <2> DEFINE kept == IF managed = None THEN f.book.since ELSE None
             x == f.book
             y == g.book
  <2>1. x \in Books /\ y \in Books /\ Twins(x, y)
    BY <1>1
  <2>2. kept \in Ranges \cup {None}
    BY <2>1 DEF Books
  <2>3. seen(x) = [x EXCEPT !.since = kept, !.lastBar = bar]
        /\ seen(y) = [y EXCEPT !.since = kept, !.lastBar = bar]
    BY <2>1 DEF Twins
  <2> HIDE DEF kept, x, y, managed
  <2>4. [x EXCEPT !.since = kept, !.lastBar = bar] \in Books
        /\ [y EXCEPT !.since = kept, !.lastBar = bar] \in Books
    BY <2>1, <2>2 DEF Books
  <2>5. Twins([x EXCEPT !.since = kept, !.lastBar = bar], [y EXCEPT !.since = kept, !.lastBar = bar])
    BY <2>1 DEF Twins, Books
  <2> QED BY <2>3, <2>4, <2>5, Zenon DEF x, y
<1>4. p = g.book.position /\ managed = ManagedBar(g.book.since, bar)
  BY <1>1 DEF Twins
<1>5. CASE p = None \/ managed = None
  <2>1. c = seen(f.book) /\ d = seen(g.book)
    BY <1>2, <1>4, <1>5 DEF ManagedAfter
  <2> QED BY <1>3, <2>1 DEF c, d
<1>6. CASE p # None /\ managed # None /\ exit = None
  <2>1. /\ c = [seen(f.book) EXCEPT !.position = TrailStop(p, managed)]
        /\ d = [seen(g.book) EXCEPT !.position = TrailStop(p, managed)]
    BY <1>2, <1>4, <1>6 DEF ManagedAfter
  <2> DEFINE trailed == TrailStop(p, managed)
             x == seen(f.book)
             y == seen(g.book)
  <2> HIDE DEF trailed, x, y
  <2>2. c = [x EXCEPT !.position = trailed] /\ d = [y EXCEPT !.position = trailed]
    BY <2>1 DEF trailed, x, y
  <2>3. x \in Books /\ y \in Books /\ Twins(x, y)
    BY <1>3 DEF x, y
  <2>4. Twins(c, d)
    BY <2>2, <2>3 DEF Twins, Books
  <2> QED BY <2>4 DEF c, d
<1>7. CASE p # None /\ managed # None /\ exit # None
  <2>1. /\ c = Booked(seen(f.book), exit.price, bar.time, exit.kind).book
        /\ d = Booked(seen(g.book), exit.price, bar.time, exit.kind).book
    BY <1>2, <1>4, <1>7 DEF ManagedAfter
  <2>2. Twins(c, d)
    BY <1>3, <2>1, BookedTwins
  <2> QED BY <2>2 DEF c, d
<1> QED BY <1>5, <1>6, <1>7
-----------------------------------------------------------------------------
(* Until a cut is heard the shadow is its run's twin; or the run has filled its
   entry at the open of the bar that is forming, and the shadow will when that
   bar closes, at the same open. *)
Due(s, time) == FillPending(s, time, OpenOf[time], s.lastBar.time \in AtrBars, NoAdvice).book
Ahead(b, s, newest) ==
  /\ s.lastBar # None /\ s.pending # None /\ s.pending.kind = "Enter"
  /\ newest \in Times /\ newest > s.lastBar.time
  /\ Twins(b, Due(s, newest))
Matching(b, s, newest) == Twins(b, s) \/ (MayOpen /\ WholeFeed /\ Ahead(b, s, newest))
Matched ==
  run.live => /\ run.book.since = None
              /\ ~heard => Matching(run.book, Counterfactual, feed)
Paired == Attended /\ Matched

LEMMA OwnTwin == \A b : Twins(b, b)
BY DEF Twins

(* The fill that is due is none, or opens the position of the forming bar. *)
LEMMA DueFill ==
  ASSUME NEW b \in Books, NEW s \in Books, NEW newest, Ahead(b, s, newest)
  PROVE  /\ newest \in Int /\ OpenOf[newest] \in Price /\ Due(s, newest) \in Books
         /\ b.pending = None /\ b.lastBar = s.lastBar /\ b.since = s.since
         /\ s.lastBar.time \in Int /\ newest > s.lastBar.time
         /\ \/ /\ b.position = s.position /\ b.equity = s.equity
               /\ b.lastEntry = s.lastEntry
            \/ b.position # None /\ b.position.entryTime = newest
<1> DEFINE c == Due(s, newest)
<1>1. newest \in Int /\ OpenOf[newest] \in Price
  <2>1. newest \in Times /\ Times \subseteq Int /\ OpenOf \in [Times -> Price]
    BY PaperRunAssumption DEF PaperRunAssumption, Ahead
  <2> QED BY <2>1
<1>2. /\ s.lastBar # None /\ s.pending # None /\ s.pending.kind = "Enter"
      /\ newest > s.lastBar.time /\ Twins(b, c)
  BY DEF Ahead
<1>3. s.lastBar.time \in Int
  BY <1>2 DEF Books, Bars
<1>4. /\ c \in Books /\ c.pending = None
      /\ Consumed(s, c) \/ OpenedFrom(s, c, newest) \/ ClosedFrom(s, c, newest)
  <2>1. (s.lastBar.time \in AtrBars) \in BOOLEAN /\ NoAdvice \in Cuts
    BY CutAssumption DEF NoAdvice, Cuts, CutAssumption
  <2> QED BY <1>1, <2>1, FillPendingCases, FillConsumes DEF Due
<1> HIDE DEF c
<1>5. CASE Consumed(s, c)
  <2>1. /\ c.position = s.position /\ c.equity = s.equity /\ c.lastEntry = s.lastEntry
        /\ c.lastBar = s.lastBar /\ c.since = s.since
    BY <1>5 DEF Consumed, Books
  <2> QED BY <1>1, <1>2, <1>3, <1>4, <2>1 DEF Twins, c
<1>6. CASE OpenedFrom(s, c, newest)
  <2>1. /\ c.position \in Positions /\ c.position.entryTime = newest
        /\ c.lastBar = s.lastBar /\ c.since = s.since
    BY <1>6 DEF OpenedFrom, Books
  <2>2. c.position # None
    BY <2>1, NoneAssumption DEF NoneAssumption
  <2> QED BY <1>1, <1>2, <1>3, <1>4, <2>1, <2>2 DEF Twins, c
<1>7. ~ClosedFrom(s, c, newest)
  BY <1>2 DEF ClosedFrom
<1> QED BY <1>4, <1>5, <1>6, <1>7

(* Over a bar with no advice, matching books become twins. *)
LEMMA MatchingAdvances ==
  ASSUME NEW b \in Books, NEW s \in Books, NEW bar \in Bars, Matching(b, s, feed),
         b.since = None,
         NEW warm \in BOOLEAN, b.lastBar # None => warm = (b.lastBar.time \in AtrBars),
         b.lastBar # None => bar.time > b.lastBar.time,
         WholeFeed /\ b.lastBar # None => bar.time = feed \/ feed <= b.lastBar.time,
         WholeFeed => bar.open = OpenOf[bar.time]
  PROVE  Twins(Advance(b, bar, warm, NoAdvice).book, Advance(s, bar, warm, NoAdvice).book)
<1>0. NoAdvice \in Cuts
  BY CutAssumption DEF NoAdvice, Cuts, CutAssumption
<1>1. CASE Twins(b, s)
  BY <1>0, <1>1, AdvanceTwins
<1>2. CASE WholeFeed /\ Ahead(b, s, feed)
  <2>1. /\ feed \in Int /\ Due(s, feed) \in Books /\ b.lastBar = s.lastBar /\ b.lastBar # None
        /\ s.lastBar.time \in Int /\ feed > s.lastBar.time /\ Twins(b, Due(s, feed))
    BY <1>2, DueFill DEF Ahead
  <2>2. bar.time = feed /\ bar.open = OpenOf[feed] /\ warm = (s.lastBar.time \in AtrBars)
    BY <1>2, <2>1
  <2>3. Due(s, feed) = FillOpen(s, bar.time, bar.open, warm, NoAdvice).book
    BY <2>1, <2>2 DEF Due, FillOpen
  <2>4. Advance(Due(s, feed), bar, warm, NoAdvice).book = Advance(s, bar, warm, NoAdvice).book
    <3>1. s.lastBar # None /\ s.lastBar.time < bar.time
      BY <2>1, <2>2
    <3>2. Advance(FillOpen(s, bar.time, bar.open, warm, NoAdvice).book, bar, warm, NoAdvice).book
            = Advance(s, bar, warm, NoAdvice).book
      BY <1>0, <3>1, OpenThenClose
    <3> QED BY <2>3, <3>2
  <2>5. Twins(Advance(b, bar, warm, NoAdvice).book,
              Advance(Due(s, feed), bar, warm, NoAdvice).book)
    BY <1>0, <2>1, AdvanceTwins
  <2> QED BY <2>4, <2>5
<1> QED BY <1>1, <1>2 DEF Matching

(* What a rule-based book holds never came of a tick. *)
LEMMA AdvanceSinceless ==
  ASSUME NEW b \in Books, b.since = None, NEW bar \in Bars, NEW warm \in BOOLEAN,
         NEW cut \in Cuts
  PROVE  Advance(b, bar, warm, cut).book.since = None
<1> DEFINE f == FillPending(b, bar.time, bar.open, warm, cut).book
           c == Advance(b, bar, warm, cut).book
<1>1. c \in Books /\ Managed(f, c, bar) /\ bar.time \in Int /\ bar.open \in Price
  BY AdvanceCases DEF Bars
<1>2. /\ f \in Books
      /\ Consumed(b, f) \/ OpenedFrom(b, f, bar.time) \/ ClosedFrom(b, f, bar.time)
  BY <1>1, FillPendingCases
<1> HIDE DEF f, c
<1>3. f.since = None
  BY <1>2 DEF Consumed, OpenedFrom, ClosedFrom, Exited, Books
<1>4. Seen(f, bar) \in Books /\ Seen(f, bar).since = None
  <2>1. Seen(f, bar) \in Books
    BY <1>2, SeenType
  <2>2. Seen(f, bar).since = None
    BY <1>2, <1>3 DEF Seen, Books
  <2> QED BY <2>1, <2>2
<1> HIDE DEF Seen
<1>5. c.since = None
  BY <1>1, <1>4 DEF Managed, Untouched, HeldOver, LeftOn, Exited, Books
<1> QED BY <1>5 DEF c
LEMMA PairedTypes ==
  ASSUME Paired
  PROVE  /\ TypeOK /\ run \in Runs /\ run.book \in Books /\ Counterfactual \in Books
         /\ Warm \in BOOLEAN /\ \A id : CutFor(id) \in Cuts /\ NoAdvice \in Cuts
         /\ Fresh(run.book) /\ run.live \in BOOLEAN
BY AttendedTypes, CutAssumption DEF Paired, NoAdvice, Cuts, CutAssumption

LEMMA BarIsMatched ==
  ASSUME RuleBased, Paired, NEW t \in Times, NEW s \in BarShapes,
         NEW decision \in Answers(t), NEW alone \in Answers(t),
         BarCloses(t, s, decision, alone)
  PROVE  Matched'
<1> DEFINE bar == Book!BarAt(t, s)
           cut == CutFor(PendingId)
           main == Step(run.book, bar, Warm, cut, decision)
           shadow == Step(Counterfactual, bar, Warm, NoAdvice, alone)
           over == Advance(run.book, bar, Warm, cut).book
           beside == Advance(Counterfactual, bar, Warm, NoAdvice).book
<1>1. /\ run \in Runs /\ run.book \in Books /\ Counterfactual \in Books /\ cut \in Cuts
      /\ bar \in Bars /\ bar.time = t /\ bar.open = s.open /\ Warm \in BOOLEAN
      /\ NoAdvice \in Cuts /\ t \in Int
  BY PairedTypes, BarInputs DEF Book!BarAt
<1>2. /\ run.live /\ run.book.order = None /\ run.book.since = None /\ Book!Newer(t)
      /\ ~heard => Matching(run.book, Counterfactual, feed)
  BY DEF BarCloses, Idle, Paired, Attended, Heeded, Matched
<1>3. /\ over \in Books /\ over.lastBar = bar /\ over.order = None /\ over.since = None
      /\ beside \in Books
  <2>1. over \in Books /\ over.lastBar = bar /\ over.order = None /\ beside \in Books
    BY <1>1, <1>2, AdvanceTally
  <2> QED BY <1>1, <1>2, <2>1, AdvanceSinceless
<1>4. main.book = [over EXCEPT !.pending = decision]
      /\ shadow.book = [beside EXCEPT !.pending = alone]
  BY AdvanceReports DEF Step, Decide
<1>5. /\ run' = [run EXCEPT !.book = OrderSawBarClose(main.book), !.shadow = shadow.book,
                             !.advice = None]
      /\ heard' = (heard \/ cut # NoAdvice)
      /\ View(run'.book.position) = View(run'.shadow.position) => decision = alone
  BY DEF BarCloses, Stepped, Hears
<1>6. ~heard' => Twins(over, beside)
  <2> SUFFICES ASSUME ~heard' PROVE Twins(over, beside)
    OBVIOUS
  <2>1. cut = NoAdvice /\ Matching(run.book, Counterfactual, feed)
    BY <1>2, <1>5
  <2>2. /\ run.book.lastBar # None => t > run.book.lastBar.time
        /\ run.book.lastBar # None => Warm = (run.book.lastBar.time \in AtrBars)
        /\ WholeFeed /\ run.book.lastBar # None => t = feed \/ feed <= run.book.lastBar.time \/ feed = None
        /\ WholeFeed => s.open = OpenOf[t]
    BY <1>1, <1>2, NewestType DEF BarCloses, PostedAt, Posted, Warm, PendingId
  <2>3. CASE feed = None
    <3>1. ~Ahead(run.book, Counterfactual, feed)
      BY <2>3, PaperRunAssumption, EngineAssumption
         DEF Ahead, PaperRunAssumption, EngineAssumption
    <3>2. Twins(run.book, Counterfactual)
      BY <2>1, <3>1 DEF Matching
    <3> QED BY <1>1, <2>1, <3>2, AdvanceTwins
  <2>4. CASE feed # None
    <3> HIDE DEF bar
    <3>1. Twins(Advance(run.book, bar, Warm, NoAdvice).book,
                Advance(Counterfactual, bar, Warm, NoAdvice).book)
      BY <1>1, <1>2, <2>1, <2>2, <2>4, MatchingAdvances
    <3> QED BY <2>1, <3>1
  <2> QED BY <2>3, <2>4
<1> HIDE DEF bar, cut, main, shadow, over, beside
<1>7. OrderSawBarClose(main.book) = main.book
  BY <1>3, <1>4 DEF OrderSawBarClose, Books
<1>8. run'.book = main.book /\ run'.shadow = shadow.book
  BY <1>1, <1>5, <1>7 DEF Runs
<1>9. run'.book.since = None
  BY <1>3, <1>4, <1>8 DEF Books
<1>10. run'.shadow # None
  <2>1. shadow.book = [beside EXCEPT !.pending = alone]
    BY <1>4
  <2>2. alone \in Intents \cup {None}
    BY <1>1, DecisionsType DEF Answers
  <2>3. shadow.book \in Books
    BY <1>3, <2>1, <2>2, DecideKeeps DEF Decide, Kept
  <2> QED BY <1>8, <2>3, PaperRunAssumption DEF PaperRunAssumption
<1>11. ~heard' => Twins(run'.book, run'.shadow)
  <2> SUFFICES ASSUME ~heard' PROVE Twins(run'.book, run'.shadow)
    OBVIOUS
  <2>1. Twins(over, beside)
    BY <1>6
  <2>2. run'.book.position = over.position /\ run'.shadow.position = beside.position
    BY <1>3, <1>4, <1>8 DEF Books
  <2>3. run'.book.position = run'.shadow.position
    BY <2>1, <2>2 DEF Twins
  <2>4. decision = alone
    BY <1>5, <2>3, Zenon
  <2> QED BY <1>3, <1>4, <1>8, <2>1, <2>4 DEF Twins, Books
<1> QED BY <1>9, <1>10, <1>11 DEF Matched, Matching, Counterfactual

LEMMA OpenIsMatched ==
  ASSUME RuleBased, MayOpen => WholeFeed, Paired, NEW t \in Times, NEW s \in BarShapes,
         BarOpens(t, s.open)
  PROVE  Matched'
<1> DEFINE cut == CutFor(PendingId)
           filled == FillOpen(run.book, t, s.open, Warm, cut).book
<1>1. /\ run \in Runs /\ run.book \in Books /\ Counterfactual \in Books /\ cut \in Cuts
      /\ Warm \in BOOLEAN /\ NoAdvice \in Cuts /\ t \in Int /\ s.open \in Price
      /\ Fresh(run.book)
  BY PairedTypes, BarInputs
<1>2. /\ run.live /\ run.book.since = None /\ run.book.pending # None /\ Book!Newer(t)
      /\ ~heard => Matching(run.book, Counterfactual, feed)
      /\ run.book.pending.kind = "Enter" /\ MayOpen /\ WholeFeed
  BY DEF BarOpens, Idle, Paired, Attended, Sound, Exact, Matched
<1>3. /\ run.book.lastBar # None /\ t > run.book.lastBar.time
      /\ run.book.lastBar.time \in Int
      /\ Warm = (run.book.lastBar.time \in AtrBars)
  <2>1. run.book.lastBar # None
    BY <1>2 DEF Fresh, RuleBased, Paired, Attended, Sound, Ordered, Recording, InRecord
  <2> QED BY <1>1, <1>2, <2>1, NewestType DEF Warm, PendingId
<1>4. filled = FillPending(run.book, t, s.open, Warm, cut).book
  BY <1>1, <1>3 DEF FillOpen
<1>5. filled.since = None
  <2>1. \/ Consumed(run.book, filled) \/ OpenedFrom(run.book, filled, t)
        \/ ClosedFrom(run.book, filled, t)
    BY <1>1, <1>4, FillPendingCases
  <2> HIDE DEF filled
  <2> QED BY <1>1, <1>2, <2>1 DEF Consumed, OpenedFrom, ClosedFrom, Exited, Books
<1>6. /\ run' = [run EXCEPT !.book = filled, !.shadow = Counterfactual, !.advice = None]
      /\ heard' = (heard \/ cut # NoAdvice)
      /\ s.open = OpenOf[t] /\ feed' = t
  <2>1. /\ run' = [run EXCEPT !.book = filled, !.shadow = Counterfactual, !.advice = None]
        /\ heard' = (heard \/ cut # NoAdvice) /\ PostedAt(t, s.open)
    BY DEF BarOpens, Hears
  <2>2. feed # None => t = feed \/ feed <= run.book.lastBar.time
    BY <1>1, <1>2, <1>3, <2>1, NewestType DEF PostedAt, Posted
  <2>3. feed \in Int \/ feed = None
    BY PairedTypes DEF TypeOK, Level
  <2>4. feed # None => t >= feed
    BY <1>1, <1>3, <2>2, <2>3
  <2>5. s.open = OpenOf[t] /\ Book!Posted(t)
    BY <1>2, <2>1 DEF PostedAt, Posted
  <2>6. feed' = t
    BY <1>1, <2>3, <2>4, <2>5 DEF Book!Posted, Book!Larger
  <2> QED BY <2>1, <2>5, <2>6
<1> HIDE DEF filled, cut
<1>7. run'.book = filled /\ run'.shadow = Counterfactual
  BY <1>1, <1>6 DEF Runs
<1>8. Counterfactual' = Counterfactual
  <2>1. Counterfactual # None
    BY <1>1, PaperRunAssumption DEF PaperRunAssumption
  <2> QED BY <1>7, <2>1 DEF Counterfactual
<1>9. ~heard' => Ahead(filled, Counterfactual, t)
  <2> SUFFICES ASSUME ~heard' PROVE Ahead(filled, Counterfactual, t)
    OBVIOUS
  <2>1. cut = NoAdvice /\ Matching(run.book, Counterfactual, feed)
    BY <1>2, <1>6
  <2>2. Twins(run.book, Counterfactual)
    <3>1. Ahead(run.book, Counterfactual, feed) => run.book.pending = None
      BY <1>1, DueFill
    <3> QED BY <1>2, <2>1, <3>1 DEF Matching
  <2>3. Twins(FillPending(run.book, t, s.open, Warm, NoAdvice).book,
              FillPending(Counterfactual, t, s.open, Warm, NoAdvice).book)
    BY <1>1, <2>2, FillTwins
  <2>4. filled = FillPending(run.book, t, s.open, Warm, NoAdvice).book
    BY <1>4, <2>1
  <2>5. Counterfactual.lastBar = run.book.lastBar /\ Counterfactual.pending = run.book.pending
    BY <2>2 DEF Twins
  <2>6. Due(Counterfactual, t) = FillPending(Counterfactual, t, s.open, Warm, NoAdvice).book
    BY <1>3, <1>6, <2>5 DEF Due
  <2> QED BY <1>2, <1>3, <2>3, <2>4, <2>5, <2>6 DEF Ahead
<1> QED BY <1>2, <1>5, <1>6, <1>7, <1>8, <1>9 DEF Matched, Matching
(* Every other step leaves the two books as they are, or ends the run. *)
LEMMA StandingIsMatched ==
  ASSUME Paired, run'.live => run.live /\ run'.book = run.book,
         run'.live => run'.shadow \in {run.shadow, Counterfactual},
         UNCHANGED <<feed, heard>>
  PROVE  Matched'
<1> SUFFICES ASSUME run'.live PROVE Matched'
  BY DEF Matched
<1>1. Counterfactual' = Counterfactual
  BY DEF Counterfactual
<1> QED BY <1>1 DEF Paired, Matched

LEMMA TickStoredIsMatched ==
  ASSUME Paired, NEW t \in Times, NEW s \in BarShapes, NEW q, TickStored(t, s, q)
  PROVE  Matched'
<1>1. /\ run' = run /\ heard' = heard /\ Posted(t) /\ run.book \in Books
      /\ Counterfactual \in Books /\ t \in Int
  BY PairedTypes, BarInputs DEF TickStored
<1>2. Counterfactual' = Counterfactual
  BY <1>1 DEF Counterfactual
<1>3. WholeFeed /\ Ahead(run.book, Counterfactual, feed) => feed' = feed
  <2> SUFFICES ASSUME WholeFeed, Ahead(run.book, Counterfactual, feed) PROVE feed' = feed
    OBVIOUS
  <2>1. /\ feed \in Int /\ run.book.lastBar = Counterfactual.lastBar
        /\ Counterfactual.lastBar # None /\ feed > Counterfactual.lastBar.time
        /\ Counterfactual.lastBar.time \in Int
    BY <1>1, DueFill DEF Ahead
  <2>2. feed # None
    BY <2>1, EngineAssumption DEF EngineAssumption
  <2>3. t = feed
    BY <1>1, <2>1, <2>2, NewestType DEF Posted
  <2> QED BY <1>1, <2>1, <2>2, <2>3 DEF Posted, Book!Posted, Book!Larger
<1> QED BY <1>1, <1>2, <1>3 DEF Paired, Matched, Matching

LEMMA TickSettledIsMatched ==
  ASSUME Paired, TickSettled
  PROVE  Matched'
<1> DEFINE tick == copies.settle
<1>1. /\ run \in Runs /\ run.live /\ run.book.order = None /\ run.book.since = None
      /\ UNCHANGED feed
  BY PairedTypes DEF TickSettled, Idle, Paired, Attended, Heeded, Matched
<1>2. ObserveTick(run.book, tick.time, tick.last) = run.book /\ ~OrderFilled(run.book, tick)
  BY <1>1 DEF ObserveTick, OrderFilled
<1>3. Book!SettledByTick(run.book, tick.time, tick.last, tick.sides, Warm, CutFor(CurrentId))
        = run.book
  BY <1>1 DEF Book!SettledByTick
<1>4. run' = [run EXCEPT !.book = run.book] /\ UNCHANGED heard
  BY <1>2, <1>3 DEF TickSettled, tick
<1>5. run'.book = run.book /\ run'.live = run.live /\ run'.shadow = run.shadow
  BY <1>1, <1>4 DEF Runs
<1> QED BY <1>1, <1>4, <1>5, StandingIsMatched

LEMMA PairedStep ==
  ASSUME RuleBased, MayOpen => WholeFeed, Paired, [Next]_vars
  PROVE  Paired'
<1> SUFFICES Matched'
  BY AttendedStep DEF Paired
<1>1. run \in Runs
  BY PairedTypes
<1>2. CASE UNCHANGED <<run, feed, heard>>
  BY <1>2, StandingIsMatched
<1>3. ASSUME NEW cut \in Cuts, PostAdvice(cut) PROVE Matched'
  <2>1. run' = [run EXCEPT !.advice = [about |-> CurrentId, cut |-> cut]]
        /\ UNCHANGED <<feed, heard>>
    BY <1>3 DEF PostAdvice
  <2>2. run'.book = run.book /\ run'.live = run.live /\ run'.shadow = run.shadow
    BY <1>1, <2>1 DEF Runs
  <2> QED BY <2>1, <2>2, StandingIsMatched
<1>4. ASSUME NEW on \in BOOLEAN, Pause(on) PROVE Matched'
  <2>1. run' = [run EXCEPT !.paused = on] /\ UNCHANGED <<feed, heard>>
    BY <1>4 DEF Pause
  <2>2. run'.book = run.book /\ run'.live = run.live /\ run'.shadow = run.shadow
    BY <1>1, <2>1 DEF Runs
  <2> QED BY <2>1, <2>2, StandingIsMatched
<1>5. CASE Stop
  BY <1>1, <1>5 DEF Stop, Runs, Matched
<1>6. ~ActCancel /\ ~Start /\ ~WriteFails
  BY DEF ActCancel, Start, WriteFails, RuleBased, Orderly, Paired, Attended, Heeded, Idle
<1>7. /\ \A f \in EntryForms : ~PostIntent(f)
      /\ \A f \in OrderForms : ~PostOrder(f)
  BY DEF PostIntent, PostOrder, Post, RuleBased
<1>8. /\ ActReads => UNCHANGED <<run, feed, heard>>
      /\ \A aged \in BOOLEAN : ActTrigger(aged) => UNCHANGED <<run, feed, heard>>
  BY DEF ActReads, ActTrigger, Refuses, Paired, Attended, Heeded, Idle
<1>9. CASE Handles
  <2>1. CASE \E t \in Times, s \in BarShapes :
               \/ \E decision, alone \in Answers(t) : BarCloses(t, s, decision, alone)
               \/ BarOpens(t, s.open)
               \/ \E q \in Quotes \cup {None} : TickStored(t, s, q)
    BY <2>1, BarIsMatched, OpenIsMatched, TickStoredIsMatched
  <2> QED BY <1>2, <1>3, <1>4, <1>5, <1>6, <1>7, <1>8, <1>9, <2>1, TickSettledIsMatched
          DEF Handles
<1>10. CASE Proceeds
  <2>1. UNCHANGED <<feed, heard>> /\ (run' = run \/ InsertRun)
    BY <1>10 DEF Proceeds, WriteState, RemoveFile, AppendHistory, WriteRow, AnswerDecider,
                 AnswerAdvisor, AnswerStopper
  <2>2. run'.book = run.book /\ run'.live = run.live
    BY <1>10, ProceedsBacked DEF Paired, Attended, Sound
  <2>3. run'.shadow = run.shadow
    BY <1>1, <2>1 DEF InsertRun, Runs
  <2> QED BY <2>1, <2>2, <2>3, StandingIsMatched
<1>11. CASE Restart
  <2>1. run'.live = run.live /\ writes = << >> /\ UNCHANGED <<feed, heard>> /\ run' = Reloaded
    BY <1>11, RestartIsBacked DEF Paired, Attended, Sound, RuleBased, Restart
  <2>2. run.live => run' = run
    BY <2>1, WholeReloads DEF Paired, Attended, Idle
  <2> QED BY <2>1, <2>2, StandingIsMatched
<1> QED BY <1>2, <1>6, <1>9, <1>10, <1>11 DEF Next, vars

LEMMA PairedInit == RuleBased /\ Init => Paired
<1> SUFFICES ASSUME RuleBased, Init PROVE Matched
  BY AttendedInit DEF Paired
<1>1. run.book.since = None /\ Counterfactual = run.book
  BY DEF Init, NewRun, NewBook, Counterfactual
<1> QED BY <1>1, OwnTwin DEF Matched, Matching

(* "The difference between them from here on is caused by advice and by nothing
   else" (PaperRun::shadow): in a run whose entries are the strategy's, until a
   cut is heard the two books hold and have made the same whenever both are at
   the close of the last bar, although one fills at the open of a bar and the
   other when that bar has closed, and over restarts (feed_open, feed_run). *)
THEOREM ShadowsDifferByAdvice ==
  ASSUME RuleBased, MayOpen => WholeFeed
  PROVE  Spec => []ShadowDiffersByAdvice
<1>1. Paired => ShadowDiffersByAdvice
  <2> SUFFICES ASSUME Paired, run.live, ~heard, run.shadow # None,
                      run.book.lastBar # None, AtClose(run.book)
               PROVE  /\ run.shadow.position = run.book.position
                      /\ run.shadow.equity = run.book.equity
                      /\ run.shadow.lastEntry = run.book.lastEntry
    BY DEF ShadowDiffersByAdvice
  <2>1. /\ Counterfactual = run.shadow /\ Matching(run.book, run.shadow, feed)
        /\ run.book \in Books /\ run.shadow \in Books
    BY PairedTypes DEF Paired, Matched, Counterfactual
  <2>2. CASE Ahead(run.book, run.shadow, feed)
    <3>1. \/ run.shadow.position = run.book.position /\ run.shadow.equity = run.book.equity
             /\ run.shadow.lastEntry = run.book.lastEntry
          \/ /\ run.book.position # None /\ run.book.position.entryTime = feed
             /\ feed > run.book.lastBar.time /\ feed \in Int /\ run.book.lastBar.time \in Int
      BY <2>1, <2>2, DueFill
    <3> QED BY <3>1 DEF AtClose
  <2> QED BY <2>1, <2>2 DEF Matching, Twins
<1>2. Paired /\ [Next]_vars => Paired'
  BY PairedStep
<1> QED BY <1>1, <1>2, PairedInit, PTL DEF Spec
=============================================================================
