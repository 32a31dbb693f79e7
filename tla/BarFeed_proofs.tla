--------------------------- MODULE BarFeed_proofs ---------------------------
(***************************************************************************)
(* The live book is the backtest: one accepted bar does to a paper book    *)
(* what one iteration of the backtest loop does, and a book fed by the     *)
(* poller implements the backtest over the bars it accepted, for every     *)
(* tape, every set of decisions and every value of the engine's constants. *)
(***************************************************************************)
EXTENDS BarFeed, BookOps_proofs

(* A book without an order and without a lived range: a rule run's. *)
Plain(b) == b \in Books /\ b.order = None /\ b.since = None

LEMMA UnadvisedLots ==
  ASSUME NEW lots \in Int
  PROVE  AdvisedLots(lots, NoAdvice) = lots
BY CutAssumption DEF CutAssumption, AdvisedLots, NoAdvice

(* open_position's result with its lots written back is the same position. *)
LEMMA LotsWrittenBack ==
  ASSUME NEW intent, NEW time, NEW price, NEW warm, NEW equity
  PROVE  LET p == Opened(intent, time, price, warm, equity)
         IN  [p EXCEPT !.lots = p.lots] = p
BY DEF Opened

LEMMA SimFields ==
  ASSUME NEW b
  PROVE  /\ SimOf(b).equity = b.equity /\ SimOf(b).position = b.position
         /\ SimOf(b).trades = b.trades /\ SimOf(b).pending = b.pending
         /\ SimOf(b).closed = b.closed /\ SimOf(b).lastEntry = b.lastEntry
         /\ SimOf(b).last = b.lastBar /\ SimOf(b).over = FALSE
BY DEF SimOf

(* Backtest reads the engine through an instance; its copy is the engine. *)
LEMMA SameEngine ==
  /\ \A p, price, time, kind : Reference!Closed(p, price, time, kind) = Closed(p, price, time, kind)
  /\ \A price, side, entering : Reference!ApplyCosts(price, side, entering) = ApplyCosts(price, side, entering)
  /\ \A lots : Reference!TooSmall(lots) = TooSmall(lots)
  /\ \A closed, now : Reference!PrunedDay(closed, now) = PrunedDay(closed, now)
  /\ \A closed, lastEntry, now : Reference!MemoryRefusal(closed, lastEntry, now) = MemoryRefusal(closed, lastEntry, now)
  /\ \A signal, fill : Reference!CalendarRefusal(signal, fill) = CalendarRefusal(signal, fill)
  /\ \A intent, time, price, warm, equity : Reference!Opened(intent, time, price, warm, equity) = Opened(intent, time, price, warm, equity)
  /\ \A p, bar : Reference!BarExit(p, bar) = BarExit(p, bar)
  /\ \A p, bar : Reference!TrailStop(p, bar) = TrailStop(p, bar)
<1>1. \A p, price, time, kind : Reference!Closed(p, price, time, kind) = Closed(p, price, time, kind)
  BY DEF Closed, Gain, Reference!Closed, Reference!Gain
<1>2. \A price, side, entering : Reference!ApplyCosts(price, side, entering) = ApplyCosts(price, side, entering)
  BY DEF ApplyCosts, Reference!ApplyCosts
<1>3. \A lots : Reference!TooSmall(lots) = TooSmall(lots)
  BY DEF TooSmall, Reference!TooSmall
<1>4. \A closed, now : Reference!PrunedDay(closed, now) = PrunedDay(closed, now)
  BY DEF PrunedDay, Reference!PrunedDay
<1>5. \A closed, lastEntry, now : Reference!MemoryRefusal(closed, lastEntry, now) = MemoryRefusal(closed, lastEntry, now)
  BY DEF MemoryRefusal, DayPnl, CoolingDown, Reference!MemoryRefusal,
         Reference!DayPnl, Reference!CoolingDown
<1>6. \A signal, fill : Reference!CalendarRefusal(signal, fill) = CalendarRefusal(signal, fill)
  BY DEF CalendarRefusal, Reference!CalendarRefusal
<1>7. \A intent, time, price, warm, equity : Reference!Opened(intent, time, price, warm, equity) = Opened(intent, time, price, warm, equity)
  BY DEF Opened, ApplyCosts, EntryStop, EntryRisk, EntryTarget,
         CappedLots, SizedLots, Larger, Abs, Worse, Other, Reference!Opened,
         Reference!ApplyCosts, Reference!EntryStop, Reference!EntryRisk,
         Reference!EntryTarget, Reference!CappedLots, Reference!SizedLots,
         Reference!Larger, Reference!Abs, Reference!Worse, Reference!Other
<1>8. \A p, bar : Reference!BarExit(p, bar) = BarExit(p, bar)
  BY DEF BarExit, CheckExit, GuardExit, Leave, FillAt, TargetAt,
         ApplyCosts, AtOrWorse, Worst, Best, Other, Worse, Reference!BarExit,
         Reference!CheckExit, Reference!GuardExit, Reference!Leave,
         Reference!FillAt, Reference!TargetAt, Reference!ApplyCosts,
         Reference!AtOrWorse, Reference!Worst, Reference!Best, Reference!Other,
         Reference!Worse
<1>9. \A p, bar : Reference!TrailStop(p, bar) = TrailStop(p, bar)
  BY DEF TrailStop, Larger, Smaller, Worse, Gain, Reference!TrailStop,
         Reference!Larger, Reference!Smaller, Reference!Worse, Reference!Gain
<1> QED BY <1>1, <1>2, <1>3, <1>4, <1>5, <1>6, <1>7, <1>8, <1>9

(* Records of the loop's locals: equal when their fields are, and what replacing
   some fields makes of one.  Stated over any sets, which keeps the provers from
   the sets of the engine's types. *)
SimSet(E, P, T, I, C, L, B) ==
  [equity: E, position: P, trades: T, pending: I, closed: C, lastEntry: L, last: B,
   over: BOOLEAN]

SameFields(s, t) ==
  /\ s.equity = t.equity /\ s.position = t.position /\ s.trades = t.trades
  /\ s.pending = t.pending /\ s.closed = t.closed /\ s.lastEntry = t.lastEntry
  /\ s.last = t.last /\ s.over = t.over

LEMMA SimEqual ==
  ASSUME NEW E, NEW P, NEW T, NEW I, NEW C, NEW L, NEW B,
         NEW s \in SimSet(E, P, T, I, C, L, B), NEW t \in SimSet(E, P, T, I, C, L, B),
         SameFields(s, t)
  PROVE  s = t
BY DEF SimSet, SameFields

LEMMA SimReplaced ==
  ASSUME NEW E, NEW P, NEW T, NEW I, NEW C, NEW L, NEW B,
         NEW s \in SimSet(E, P, T, I, C, L, B)
  PROVE  /\ \A p \in P, e \in E, t \in T, c \in C :
              [s EXCEPT !.position = p, !.equity = e, !.trades = t, !.closed = c]
                \in SimSet(E, P, T, I, C, L, B)
         /\ \A p \in P, l \in L : [s EXCEPT !.position = p, !.lastEntry = l]
                                    \in SimSet(E, P, T, I, C, L, B)
         /\ \A p \in P : [s EXCEPT !.position = p] \in SimSet(E, P, T, I, C, L, B)
         /\ \A i \in I : [s EXCEPT !.pending = i] \in SimSet(E, P, T, I, C, L, B)
         /\ \A c \in C : [s EXCEPT !.closed = c] \in SimSet(E, P, T, I, C, L, B)
         /\ \A b \in B : [s EXCEPT !.last = b] \in SimSet(E, P, T, I, C, L, B)
BY DEF SimSet

SimType == SimSet(Int, Positions \cup {None}, Seq(Trades), Intents \cup {None},
                  Seq(Realised), Level, Bars \cup {None})

LEMMA SimOfType ==
  ASSUME NEW b \in Books
  PROVE  SimOf(b) \in SimType
BY DEF SimOf, SimType, SimSet, Books

(* A close is booked by the paper book as the backtest settles it. *)
LEMMA BookedIsSettled ==
  ASSUME NEW b \in Books, b.position # None, NEW price \in Int, NEW time \in Int,
         NEW kind \in ExitKinds
  PROVE  SimOf(Booked(b, price, time, kind).book)
           = Reference!Settle(SimOf(b), price, time, kind)
<1> DEFINE t == Closed(b.position, price, time, kind)
           e == Append(b.trades, t)
           m == Append(b.closed, [time |-> time, pnl |-> t.pnl])
           q == b.equity + t.pnl
           c == [b EXCEPT !.position = None, !.equity = q, !.trades = e, !.closed = m]
           s == [SimOf(b) EXCEPT !.position = None, !.equity = q, !.trades = e,
                                 !.closed = m]
<1>1. Booked(b, price, time, kind).book = c
  BY DEF Booked, Quiet, Books
<1>2. Reference!Settle(SimOf(b), price, time, kind) = s
  BY SimFields, SameEngine DEF Reference!Settle, SimOf
<1> DEFINE r == Booked(b, price, time, kind)
<1>3. r.book \in Books
  BY BookedType
<1> HIDE DEF t, r
<1> HIDE DEF e, m, q
<1>4. /\ c.equity = q /\ c.position = None /\ c.trades = e /\ c.closed = m
      /\ c.pending = b.pending /\ c.lastEntry = b.lastEntry /\ c.lastBar = b.lastBar
  BY DEF Books
<1> HIDE DEF c
<1>5. c \in Books
  BY <1>1, <1>3 DEF r
<1>6. q \in Int /\ e \in Seq(Trades) /\ m \in Seq(Realised)
  BY <1>4, <1>5 DEF Books
<1>7. SimOf(c) \in SimType /\ s \in SimType
  <2>1. SimOf(b) \in SimType /\ None \in Positions \cup {None}
    BY SimOfType
  <2> QED BY <1>5, <1>6, <2>1, SimOfType, SimReplaced DEF SimType
<1>8. SameFields(SimOf(c), s)
  BY <1>4 DEF SameFields, SimOf
<1>9. SimOf(c) = s
  BY <1>7, <1>8, SimEqual DEF SimType
<1> QED BY <1>1, <1>2, <1>9

LEMMA PendingTaken ==
  ASSUME NEW b \in Books, NEW i \in Intents \cup {None}
  PROVE  /\ [b EXCEPT !.pending = i] \in Books
         /\ SimOf([b EXCEPT !.pending = i]) = [SimOf(b) EXCEPT !.pending = i]
<1> DEFINE c == [b EXCEPT !.pending = i]
           s == [SimOf(b) EXCEPT !.pending = i]
<1>1. c \in Books
  BY DEF Books
<1>2. SimOf(c) \in SimType /\ SimOf(b) \in SimType
  BY <1>1, SimOfType
<1>3. s \in SimType
  BY <1>2, SimReplaced DEF SimType
<1>4. SameFields(SimOf(c), s)
  BY DEF SameFields, SimOf, Books
<1> QED BY <1>1, <1>2, <1>3, <1>4, SimEqual DEF SimType

(* fill_pending without an advisor is the backtest's first step. *)
LEMMA EnterIsEnters ==
  ASSUME NEW b \in Books, NEW bar \in Bars, b.pending # None, b.position = None,
         b.pending.kind = "Enter"
  PROVE  SimOf(EnterPending(b, bar.time, bar.open, AtrKnown(b), NoAdvice).book)
           = Reference!Enters([SimOf(b) EXCEPT !.pending = None], b.pending, bar)
<1> DEFINE time == bar.time
           closed == IF Guarded /\ MaxConcurrent > 0 THEN PrunedDay(b.closed, time)
                     ELSE b.closed
           p == Opened(b.pending, time, bar.open, AtrKnown(b), b.equity)
           last == IF b.lastEntry = None THEN time ELSE Larger(b.lastEntry, time)
           barred == /\ Guarded
                     /\ \/ MemoryRefusal(closed, b.lastEntry, time) # None
                        \/ b.lastBar # None /\ CalendarRefusal(b.lastBar.time, time) # None
           c == [b EXCEPT !.pending = None, !.closed = closed]
           d == [c EXCEPT !.position = p, !.lastEntry = last]
           r == EnterPending(b, time, bar.open, AtrKnown(b), NoAdvice)
           s == [SimOf(b) EXCEPT !.pending = None, !.closed = closed]
<1> HIDE DEF r
<1>1. Judging(b, time) = c
  BY DEF Judging, Books
<1>2. EntryRefusal(c, time) # None <=> barred
  BY DEF EntryRefusal, Books
<1>3. r.book = IF barred \/ p.risk = 0 \/ TooSmall(p.lots) THEN c ELSE d
  <2>1. b.pending \in Enter /\ b.equity \in Int /\ AtrKnown(b) \in BOOLEAN
        /\ time \in Int /\ bar.open \in Price
    BY DEF Books, Intents, Exit, AtrKnown, Bars
  <2>2. p.lots \in Int
    BY <2>1, OpenedType
  <2>3. AdvisedLots(p.lots, NoAdvice) = p.lots /\ NoAdvice # 0
    BY <2>2, UnadvisedLots, CutAssumption DEF NoAdvice, CutAssumption
  <2>4. [p EXCEPT !.lots = p.lots] = p
    BY LotsWrittenBack
  <2> HIDE DEF barred, c, p, last
  <2>5. r = IF EntryRefusal(c, time) # None THEN Refused(c, EntryRefusal(c, time))
            ELSE IF p.risk = 0 THEN Refused(c, "NO_RISK_UNIT")
            ELSE IF TooSmall(p.lots) THEN Refused(c, "NOTIONAL_CAP")
            ELSE [Quiet(d) EXCEPT !.opened = TRUE]
    BY <1>1, <2>3, <2>4 DEF r, EnterPending, p, last
  <2>6. Refused(c, EntryRefusal(c, time)).book = c /\ Refused(c, "NO_RISK_UNIT").book = c
        /\ Refused(c, "NOTIONAL_CAP").book = c
    BY DEF Refused, Quiet
  <2>7. [Quiet(d) EXCEPT !.opened = TRUE].book = d
    BY DEF Quiet
  <2> QED BY <1>2, <2>5, <2>6, <2>7
<1>4. closed \in Seq(Realised)
  <2>1. b.closed \in Seq(Realised) /\ time \in Int
    BY DEF Books, Bars
  <2> QED BY <2>1, PrunedDayType
<1>5. SimOf(c) = s /\ s \in SimType
  <2> HIDE DEF closed
  <2>1. c \in Books
    BY <1>4 DEF Books
  <2>2. SimOf(c) \in SimType /\ SimOf(b) \in SimType /\ None \in Intents \cup {None}
    BY <2>1, SimOfType
  <2>3. [SimOf(b) EXCEPT !.pending = None] \in SimType
    BY <2>2, SimReplaced DEF SimType
  <2>4. s = [[SimOf(b) EXCEPT !.pending = None] EXCEPT !.closed = closed]
    BY <2>2 DEF SimType, SimSet
  <2>5. s \in SimType
    BY <1>4, <2>3, <2>4, SimReplaced DEF SimType
  <2>6. SameFields(SimOf(c), s)
    BY DEF SameFields, SimOf, Books
  <2> QED BY <2>2, <2>5, <2>6, SimEqual DEF SimType
<1>6. Reference!Pruned([SimOf(b) EXCEPT !.pending = None], time) = s
  BY SameEngine, SimFields DEF Reference!Pruned, SimOf
<1>7. Reference!Barred(s, time) = barred
  <2>1. s.closed = closed /\ s.lastEntry = b.lastEntry /\ s.last = b.lastBar
    BY DEF SimOf
  <2> HIDE DEF s, closed
  <2> QED BY <2>1, SameEngine DEF Reference!Barred
<1>8. SimOf(d) = [s EXCEPT !.position = p, !.lastEntry = last] \/ barred
      \/ p.risk = 0 \/ TooSmall(p.lots)
  <2> SUFFICES ASSUME p.risk # 0, ~TooSmall(p.lots)
               PROVE  SimOf(d) = [s EXCEPT !.position = p, !.lastEntry = last]
    OBVIOUS
  <2>1. b.pending \in Enter /\ b.equity \in Int /\ AtrKnown(b) \in BOOLEAN
        /\ time \in Int /\ bar.open \in Price /\ b.lastEntry \in Level
    BY DEF Books, Intents, Exit, AtrKnown, Bars
  <2>2. p \in Positions
    BY <2>1, OpenedType
  <2>3. last \in Level
    BY <2>1 DEF Level, Larger
  <2> DEFINE u == [s EXCEPT !.position = p, !.lastEntry = last]
  <2>4. u \in SimType
    <3> HIDE DEF s, p, last
    <3> QED BY <1>5, <2>2, <2>3, SimReplaced DEF SimType
  <2>5. c \in Books
    BY <1>4 DEF Books
  <2>6. d \in Books
    <3> HIDE DEF c, p, last
    <3> QED BY <2>2, <2>3, <2>5 DEF Books
  <2>7. SimOf(d) \in SimType
    BY <2>6, SimOfType
  <2>8. SameFields(SimOf(d), u)
    <3> HIDE DEF p, last, closed
    <3> QED BY DEF SameFields, SimOf, Books
  <2> QED BY <2>4, <2>7, <2>8, SimEqual DEF SimType
<1>9. Reference!Enters([SimOf(b) EXCEPT !.pending = None], b.pending, bar)
        = IF barred \/ p.risk = 0 \/ TooSmall(p.lots) THEN s
          ELSE [s EXCEPT !.position = p, !.lastEntry = last]
  <2> DEFINE z == [SimOf(b) EXCEPT !.pending = None]
  <2>1. z.last = b.lastBar /\ z.equity = b.equity
    BY DEF SimOf
  <2>2. s.lastEntry = b.lastEntry
    BY DEF SimOf
  <2>3. s \in SimType
    BY <1>5
  <2> HIDE DEF z, s, barred
  <2>4. Reference!Pruned(z, time) = s
    BY <1>6 DEF z
  <2>5. [s EXCEPT !.position = p,
                  !.lastEntry = IF s.lastEntry = None THEN time
                                ELSE Reference!Larger(s.lastEntry, time)]
          = [s EXCEPT !.position = p, !.lastEntry = last]
    BY <2>2 DEF Reference!Larger, Larger
  <2>6. AtrKnown(b) = (z.last # None /\ z.last.time \in AtrBars)
    BY <2>1 DEF AtrKnown
  <2> QED BY <1>7, <2>1, <2>4, <2>5, <2>6, SameEngine DEF Reference!Enters, z
<1> QED
  <2> HIDE DEF s, c, d, barred, p
  <2> QED BY <1>3, <1>5, <1>8, <1>9 DEF r

LEMMA FillIsFilled ==
  ASSUME NEW b \in Books, NEW bar \in Bars
  PROVE  SimOf(FillPending(b, bar.time, bar.open, AtrKnown(b), NoAdvice).book)
           = Reference!Filled(SimOf(b), bar)
<1> DEFINE r == FillPending(b, bar.time, bar.open, AtrKnown(b), NoAdvice)
           s == SimOf(b)
           taken == [b EXCEPT !.pending = None]
           took == [s EXCEPT !.pending = None]
<1>1. s.pending = b.pending /\ s.position = b.position
  BY SimFields
<1>2. taken \in Books /\ SimOf(taken) = took /\ taken.position = b.position
  <2>1. taken.position = b.position
    BY DEF Books
  <2> QED BY <2>1, PendingTaken
<1>3. Reference!Tradable(bar.time)
  BY DEF Reference!Tradable
<1> HIDE DEF s, taken, took
<1>4. CASE b.pending = None
  BY <1>1, <1>3, <1>4 DEF FillPending, Quiet, Reference!Filled, s
<1>5. CASE b.pending # None /\ b.pending.kind = "Enter" /\ b.position = None
  BY <1>1, <1>3, <1>5, EnterIsEnters DEF FillPending, Reference!Filled, s
<1>6. CASE /\ b.pending # None /\ ~(b.pending.kind = "Enter" /\ b.position = None)
           /\ b.pending.kind = "Exit" /\ b.position # None
  <2> DEFINE price == ApplyCosts(bar.open, b.position.side, FALSE)
  <2>1. price \in Int /\ bar.time \in Int
    <3>1. b.position \in Positions /\ bar.open \in Price /\ bar.time \in Int
      BY <1>6 DEF Books, Bars
    <3>2. b.position.side \in Side
      BY <3>1 DEF Positions
    <3>3. price \in Nat \ {0}
      BY <3>1, <3>2, CostType
    <3> HIDE DEF price
    <3> QED BY <3>1, <3>3
  <2>2. r = Booked(taken, price, bar.time, "SIGNAL")
    BY <1>6 DEF FillPending, taken
  <2>3. SimOf(r.book) = Reference!Settle(took, price, bar.time, "SIGNAL")
    <3>1. "SIGNAL" \in ExitKinds
      BY DEF ExitKinds
    <3> HIDE DEF price, r
    <3> QED BY <1>2, <1>6, <2>1, <2>2, <3>1, BookedIsSettled
  <2>4. took.position = b.position
    BY <1>2, SimFields
  <2>5. Reference!Filled(s, bar) = Reference!Settle(took, price, bar.time, "SIGNAL")
    BY <1>1, <1>3, <1>6, <2>4, SameEngine DEF Reference!Filled, Reference!SettleAt, took
  <2> QED BY <2>3, <2>5 DEF s
<1>7. CASE /\ b.pending # None /\ ~(b.pending.kind = "Enter" /\ b.position = None)
           /\ ~(b.pending.kind = "Exit" /\ b.position # None)
  <2>1. r.book = taken
    BY <1>7 DEF FillPending, Quiet, taken
  <2>2. Reference!Filled(s, bar) = took
    BY <1>1, <1>3, <1>7 DEF Reference!Filled, took
  <2> QED BY <1>2, <2>1, <2>2 DEF s
<1> QED BY <1>4, <1>5, <1>6, <1>7

LEMMA FillKeepsPlain ==
  ASSUME NEW b, Plain(b), NEW time \in Int, NEW price \in Price, NEW warm \in BOOLEAN,
         NEW cut \in Cuts
  PROVE  LET c == FillPending(b, time, price, warm, cut).book
         IN  Plain(c) /\ c.lastBar = b.lastBar /\ c.pending = None
<1> DEFINE c == FillPending(b, time, price, warm, cut).book
<1> HIDE DEF c
<1>0. b \in Books
  BY DEF Plain
<1>1. c \in Books /\ (Consumed(b, c) \/ OpenedFrom(b, c, time) \/ ClosedFrom(b, c, time))
  BY <1>0, FillPendingCases DEF c
<1>2. c.pending = None
  BY <1>0, FillConsumes DEF c
<1>3. c.order = b.order /\ c.since = b.since /\ c.lastBar = b.lastBar
  <2>1. Consumed(b, c) => c.order = b.order /\ c.since = b.since /\ c.lastBar = b.lastBar
    BY <1>0 DEF Consumed, Books
  <2>2. OpenedFrom(b, c, time) => c.order = b.order /\ c.since = b.since /\ c.lastBar = b.lastBar
    BY <1>0 DEF OpenedFrom, Books
  <2>3. ClosedFrom(b, c, time) => c.order = b.order /\ c.since = b.since /\ c.lastBar = b.lastBar
    BY <1>0 DEF ClosedFrom, Exited, Books
  <2> QED BY <1>1, <2>1, <2>2, <2>3
<1> QED BY <1>1, <1>2, <1>3 DEF c, Plain

(* Managing the position and remembering the bar, on both sides. *)
LEMMA ManageIsManaged ==
  ASSUME NEW b, Plain(b), NEW bar \in Bars, b.pending = None
  PROVE  LET c == Advance(b, bar, AtrKnown(b), NoAdvice).book
         IN  /\ Plain(c) /\ c.lastBar = bar /\ c.pending = None
             /\ SimOf(c) = [Reference!Managed(SimOf(b), bar) EXCEPT !.last = bar]
<1> DEFINE c == Advance(b, bar, AtrKnown(b), NoAdvice).book
           seen == [b EXCEPT !.lastBar = bar]
           s == SimOf(b)
           u == [s EXCEPT !.last = bar]
           exit == BarExit(b.position, bar)
<1>0. b \in Books /\ b.since = None /\ b.order = None
  BY DEF Plain
<1> DEFINE fill == FillPending(b, bar.time, bar.open, AtrKnown(b), NoAdvice)
<1>1. fill = Quiet(b) /\ fill.book = b
  BY DEF FillPending, Quiet
<1>2. ManagedBar(b.since, bar) = bar /\ bar # None
  BY <1>0, NoOrderAssumption DEF ManagedBar, NoOrderAssumption
<1>3. seen = [b EXCEPT !.since = IF bar = None THEN @ ELSE None, !.lastBar = bar]
  BY <1>0, <1>2 DEF Books
<1>4. seen \in Books /\ seen.position = b.position /\ seen.pending = None
      /\ seen.since = None /\ seen.order = None /\ seen.lastBar = bar
  BY <1>0 DEF Books
<1>5. SimOf(seen) = u /\ u \in SimType
  <2>1. SimOf(seen) \in SimType /\ s \in SimType
    BY <1>0, <1>4, SimOfType
  <2>2. u \in SimType
    <3> HIDE DEF s
    <3> QED BY <2>1, SimReplaced DEF SimType
  <2>3. SameFields(SimOf(seen), u)
    BY <1>0 DEF SameFields, SimOf, Books
  <2> QED BY <2>1, <2>2, <2>3, SimEqual DEF SimType
<1>6. s.position = b.position /\ s.last = b.lastBar
  BY SimFields
<1> HIDE DEF seen
<1>7. c = IF b.position = None THEN seen
          ELSE IF exit = None THEN [seen EXCEPT !.position = TrailStop(b.position, bar)]
          ELSE Booked(seen, exit.price, bar.time, exit.kind).book
  <2>1. DOMAIN fill = {"book", "trades", "opened", "refused"}
    BY <1>1 DEF Quiet
  <2> HIDE DEF fill
  <2>2. CASE b.position = None
    BY <1>1, <1>2, <1>3, <2>1, <2>2 DEF Advance, ManagedAfter, fill
  <2>3. CASE b.position # None /\ exit = None
    BY <1>1, <1>2, <1>3, <2>1, <2>3 DEF Advance, ManagedAfter, fill
  <2>4. CASE b.position # None /\ exit # None
    BY <1>1, <1>2, <1>3, <2>1, <2>4 DEF Advance, ManagedAfter, fill
  <2> QED BY <2>2, <2>3, <2>4
<1> HIDE DEF c, s, exit
<1>8. CASE b.position = None
  <2>1. Reference!Managed(s, bar) = s
    BY <1>6, <1>8 DEF Reference!Managed
  <2> QED BY <1>4, <1>5, <1>7, <1>8, <2>1 DEF Plain, c, s
<1>9. CASE b.position # None /\ exit = None
  <2> DEFINE p == TrailStop(b.position, bar)
             d == [seen EXCEPT !.position = p]
             v == [s EXCEPT !.position = p]
  <2>1. b.position \in Positions
    BY <1>0, <1>9 DEF Books
  <2>2. p \in Positions
    BY <2>1, TrailStopTightens DEF Tightened
  <2> HIDE DEF p
  <2>3. d \in Books /\ d.pending = None /\ d.since = None /\ d.order = None
        /\ d.lastBar = bar
    BY <1>4, <2>2 DEF Books
  <2>4. Reference!Managed(s, bar) = v
    BY <1>6, <1>9, SameEngine DEF Reference!Managed, exit, p
  <2>5. SimOf(d) = [u EXCEPT !.position = p]
    <3>1. SimOf(d) \in SimType
      BY <2>3, SimOfType
    <3>2. [u EXCEPT !.position = p] \in SimType
      <4> HIDE DEF u
      <4> QED BY <1>5, <2>2, SimReplaced DEF SimType
    <3>3. SameFields(SimOf(d), [u EXCEPT !.position = p])
      <4>1. SameFields(SimOf(seen), u)
        BY <1>5 DEF SameFields
      <4> HIDE DEF u
      <4> QED BY <1>4, <1>5, <4>1 DEF SameFields, SimOf, Books, SimType, SimSet
    <3> QED BY <3>1, <3>2, <3>3, SimEqual DEF SimType
  <2>6. [u EXCEPT !.position = p] = [v EXCEPT !.last = bar]
    OBVIOUS
  <2>7. c = d
    BY <1>7, <1>9 DEF p
  <2> QED BY <2>3, <2>4, <2>5, <2>6, <2>7 DEF Plain, c, s
<1>10. CASE b.position # None /\ exit # None
  <2>1. b.position \in Positions
    BY <1>0, <1>10 DEF Books
  <2>2. exit.price \in Int /\ exit.kind \in ExitKinds /\ bar.time \in Int
    <3>1. exit \in Exits
      BY <1>10, <2>1, BarExitType DEF exit
    <3> QED BY <3>1 DEF Exits, Bars
  <2> DEFINE d == Booked(seen, exit.price, bar.time, exit.kind).book
  <2>3. d \in Books /\ Exited(seen, d, exit.price, bar.time, exit.kind)
    BY <1>4, <1>10, <2>2, BookedType
  <2>4. SimOf(d) = Reference!Settle(u, exit.price, bar.time, exit.kind)
    BY <1>4, <1>5, <1>10, <2>2, BookedIsSettled
  <2>5. Reference!Managed(s, bar) = Reference!Settle(s, exit.price, bar.time, exit.kind)
    BY <1>6, <1>10, SameEngine DEF Reference!Managed, exit
  <2>6. Reference!Settle(u, exit.price, bar.time, exit.kind)
          = [Reference!Settle(s, exit.price, bar.time, exit.kind) EXCEPT !.last = bar]
    <3>1. u.position = s.position /\ u.equity = s.equity /\ u.trades = s.trades
          /\ u.closed = s.closed
      BY DEF s, SimOf
    <3> DEFINE trade == Closed(s.position, exit.price, bar.time, exit.kind)
               q == s.equity + trade.pnl
               e == Append(s.trades, trade)
               m == Append(s.closed, [time |-> bar.time, pnl |-> trade.pnl])
    <3>2. Reference!Settle(u, exit.price, bar.time, exit.kind)
            = [u EXCEPT !.position = None, !.equity = q, !.trades = e, !.closed = m]
      BY <3>1, SameEngine DEF Reference!Settle
    <3>3. Reference!Settle(s, exit.price, bar.time, exit.kind)
            = [s EXCEPT !.position = None, !.equity = q, !.trades = e, !.closed = m]
      BY SameEngine DEF Reference!Settle
    <3> HIDE DEF q, e, m
    <3> QED BY <3>2, <3>3
  <2> HIDE DEF d
  <2>7. d.pending = None /\ d.since = None /\ d.order = None /\ d.lastBar = bar
    BY <1>4, <2>3 DEF Exited, Books
  <2>8. c = d
    BY <1>7, <1>10 DEF d
  <2> QED BY <2>3, <2>4, <2>5, <2>6, <2>7, <2>8 DEF Plain, c, s
<1> QED BY <1>8, <1>9, <1>10

(* One bar: stepping the live book over it and putting the answer down as the
   pending intent is one iteration of the backtest loop. *)
THEOREM LiveBarIsBacktestBar ==
  ASSUME NEW b, Plain(b), NEW bar \in Bars, Unseen(b, bar.time),
         NEW decision \in Intents \cup {None}
  PROVE  /\ Plain(BarFed(b, bar, decision))
         /\ BarFed(b, bar, decision).lastBar = bar
         /\ SimOf(BarFed(b, bar, decision)) = Reference!Iterated(SimOf(b), bar, decision)
<1> DEFINE f == FillPending(b, bar.time, bar.open, AtrKnown(b), NoAdvice).book
           c == Advance(b, bar, AtrKnown(b), NoAdvice).book
           d == [c EXCEPT !.pending = decision]
           filled == Reference!Filled(SimOf(b), bar)
           managed == Reference!Managed(filled, bar)
           last == [managed EXCEPT !.last = bar]
<1>1. b \in Books /\ bar.time \in Int /\ bar.open \in Price /\ AtrKnown(b) \in BOOLEAN
      /\ NoAdvice \in Cuts
  BY CutAssumption DEF Plain, Bars, AtrKnown, NoAdvice, Cuts, CutAssumption
<1>2. Plain(f) /\ f.lastBar = b.lastBar /\ f.pending = None
  BY <1>1, FillKeepsPlain
<1>3. SimOf(f) = filled
  BY <1>1, FillIsFilled
<1>4. c = Advance(f, bar, AtrKnown(f), NoAdvice).book
  <2>1. AtrKnown(f) = AtrKnown(b)
    BY <1>2 DEF AtrKnown
  <2> HIDE DEF f
  <2>2. FillPending(f, bar.time, bar.open, AtrKnown(f), NoAdvice) = Quiet(f)
    BY <1>2 DEF FillPending
  <2>3. Quiet(f).book = f
    BY DEF Quiet
  <2> QED BY <2>2, <2>3 DEF Advance, ManagedAfter, f
<1>5. /\ Plain(c) /\ c.lastBar = bar /\ c.pending = None
      /\ SimOf(c) = last
  <2> HIDE DEF f, c
  <2> QED BY <1>2, <1>3, <1>4, ManageIsManaged
<1> HIDE DEF f, c, filled
<1>6. BarFed(b, bar, decision) = d
  <2>1. Step(b, bar, AtrKnown(b), NoAdvice, decision).book = d
    BY DEF Step, Decide, c, Advance, ManagedAfter
  <2>2. d.order = None
    BY <1>5 DEF Plain, Books
  <2> QED BY <2>1, <2>2 DEF BarFed, OrderSawBarClose
<1>7. Plain(d) /\ d.lastBar = bar
  BY <1>5 DEF Plain, Books
<1>8. SimOf(d) = [last EXCEPT !.pending = decision]
  BY <1>5, PendingTaken DEF Plain
<1>9. Reference!Iterated(SimOf(b), bar, decision) = [last EXCEPT !.pending = decision]
  <2>1. Reference!WindowEnded(SimOf(b), bar) = SimOf(b)
    BY DEF Reference!WindowEnded, Reference!PastRange
  <2>2. Reference!Tradable(bar.time)
    BY DEF Reference!Tradable
  <2>3. Reference!Iterated(SimOf(b), bar, decision)
          = [Reference!Asked(managed, bar, decision) EXCEPT !.last = bar]
    BY <2>1 DEF Reference!Iterated, filled
  <2> HIDE DEF managed
  <2>4. CASE decision # None
    BY <2>2, <2>3, <2>4 DEF Reference!Asked
  <2>5. CASE decision = None
    <3>1. last.pending = None /\ last \in SimType
      <4> HIDE DEF last
      <4>1. c \in Books
        BY <1>5 DEF Plain
      <4> QED BY <1>5, <4>1, SimFields, SimOfType
    <3>2. [last EXCEPT !.pending = None] = last
      <4> HIDE DEF last
      <4> QED BY <3>1 DEF SimType, SimSet
    <3> QED BY <2>3, <2>5, <3>2 DEF Reference!Asked
  <2> QED BY <2>4, <2>5
<1> QED BY <1>6, <1>7, <1>8, <1>9

-----------------------------------------------------------------------------
(* The inductive invariant of a fed book: it is the settled one, or the settled
   one filled at the open of the first tape bar it has not been advanced over. *)
TapeBars == {BarAt(t, s) : t \in Times, s \in BarShapes}

TapeInOrder ==
  /\ tape \in Seq(TapeBars) /\ tape # << >>
  /\ \A i, j \in DOMAIN tape : i < j => tape[i].time < tape[j].time

RowsAreClosed ==
  /\ poller \in Pollers
  /\ \A k \in DOMAIN poller.rows :
       \E j \in 1..(Len(tape) - 1) : poller.rows[k] = tape[j]

LastBarIsClosed ==
  settled.lastBar # None => \E j \in 1..(Len(tape) - 1) : tape[j] = settled.lastBar

FewUnseen ==
  ShortOutages => \A j \in 1..(Len(tape) - 2) : ~Unseen(settled, tape[j].time)

OpenedAt(i) ==
  /\ Unseen(settled, tape[i].time)
  /\ \A j \in 1..(i - 1) : ~Unseen(settled, tape[j].time)
  /\ book = FillOpen(settled, tape[i].time, tape[i].open, AtrKnown(settled), NoAdvice).book

SettledOrEarly ==
  \/ book = settled
  \/ FillOnOpen /\ settled.lastBar # None /\ \E i \in DOMAIN tape : OpenedAt(i)

FeedInv ==
  /\ TapeInOrder /\ RowsAreClosed
  /\ Plain(book) /\ Plain(settled) /\ book.lastBar = settled.lastBar
  /\ LastBarIsClosed /\ FewUnseen /\ SettledOrEarly

Prompt == FillOnOpen => ClosedFirst /\ ShortOutages

LEMMA TapeBarsAreBars == TapeBars \subseteq Bars
BY BarFeedAssumption DEF BarFeedAssumption, TapeBars, BarAt, Bars

LEMMA DecisionsAreIntents ==
  ASSUME NEW t \in Int
  PROVE  Decisions(t) \subseteq Intents \cup {None}
BY BarFeedAssumption DEF BarFeedAssumption, Decisions, EnterAt, Intents, Enter, Exit

(* The row a turn delivers, when the book has not seen it, is the very bar an
   early fill was made for. *)
LEMMA FedAsSettled ==
  ASSUME FeedInv, Prompt, Sending, Unseen(book, Row.time), NEW decision
  PROVE  /\ Row \in TapeBars /\ Unseen(settled, Row.time)
         /\ \E j \in 1..(Len(tape) - 1) : Row = tape[j]
         /\ BarFed(book, Row, decision) = BarFed(settled, Row, decision)
<1>1. PICK j \in 1..(Len(tape) - 1) : Row = tape[j]
  <2>1. poller.rows \in Seq(Bars) /\ poller.rows # << >>
    BY DEF FeedInv, RowsAreClosed, Pollers, Sending
  <2>2. 1 \in DOMAIN poller.rows
    BY <2>1
  <2> QED BY <2>2 DEF FeedInv, RowsAreClosed, Row
<1>2. tape \in Seq(TapeBars) /\ Len(tape) \in Nat /\ j \in DOMAIN tape
  BY <1>1 DEF FeedInv, TapeInOrder
<1>3. Row \in TapeBars
  BY <1>1, <1>2
<1>4. Unseen(settled, Row.time)
  BY DEF FeedInv, Unseen
<1>5. CASE book = settled
  BY <1>1, <1>3, <1>4, <1>5
<1>6. CASE book # settled
  <2>1. PICK i \in DOMAIN tape : OpenedAt(i)
    BY <1>6 DEF FeedInv, SettledOrEarly
  <2>2. FillOnOpen /\ settled.lastBar # None /\ ShortOutages
    BY <1>6 DEF FeedInv, SettledOrEarly, Prompt
  <2>3. i = j
    <3>1. i \in Nat /\ j \in Nat /\ i >= 1
      BY <1>2
    <3>2. ~(j < i)
      BY <1>1, <1>4, <2>1, <3>1 DEF OpenedAt
    <3>3. ~(i <= Len(tape) - 2)
      BY <1>2, <2>1, <2>2, <3>1 DEF OpenedAt, FeedInv, FewUnseen
    <3> QED BY <1>1, <1>2, <3>1, <3>2, <3>3
  <2>4. book = FillOpen(settled, Row.time, Row.open, AtrKnown(settled), NoAdvice).book
    BY <1>1, <2>1, <2>3 DEF OpenedAt
  <2>5. AtrKnown(book) = AtrKnown(settled) /\ AtrKnown(settled) \in BOOLEAN
        /\ NoAdvice \in Cuts
    BY CutAssumption DEF FeedInv, AtrKnown, NoAdvice, Cuts, CutAssumption
  <2>6. settled \in Books /\ Row \in Bars /\ settled.lastBar.time < Row.time
    <3>1. settled \in Books /\ Row \in Bars
      BY <1>3, TapeBarsAreBars DEF FeedInv, Plain
    <3>2. settled.lastBar.time \in Int /\ Row.time \in Int
      BY <2>2, <3>1 DEF Books, Bars
    <3> QED BY <1>4, <2>2, <3>1, <3>2 DEF Unseen
  <2>7. Advance(book, Row, AtrKnown(book), NoAdvice).book
          = Advance(settled, Row, AtrKnown(settled), NoAdvice).book
    BY <2>2, <2>4, <2>5, <2>6, OpenThenClose
  <2>8. Step(book, Row, AtrKnown(book), NoAdvice, decision).book
          = Step(settled, Row, AtrKnown(settled), NoAdvice, decision).book
    BY <2>7 DEF Step, Advance, ManagedAfter
  <2>9. BarFed(book, Row, decision) = BarFed(settled, Row, decision)
    BY <1>4, <2>8 DEF BarFed
  <2> QED BY <1>1, <1>3, <1>4, <2>9
<1> QED BY <1>5, <1>6

LEMMA NewBookIsPlain == Plain(NewBook)
<1>1. << >> \in Seq(Trades) /\ << >> \in Seq(Realised)
  OBVIOUS
<1> QED BY <1>1, EngineAssumption DEF EngineAssumption, Plain, NewBook, Books, Level

LEMMA FeedInit == Init => FeedInv /\ Reference!Init
<1> SUFFICES ASSUME Init PROVE FeedInv /\ Reference!Init
  OBVIOUS
<1>1. PICK bar \in TapeBars : tape = <<bar>>
  BY DEF Init, TapeBars
<1>2. tape \in Seq(TapeBars) /\ Len(tape) = 1 /\ DOMAIN tape = {1}
  BY <1>1
<1>3. TapeInOrder
  BY <1>1, <1>2 DEF TapeInOrder
<1>4. RowsAreClosed
  BY DEF Init, RowsAreClosed, Pollers, Stamps
<1>5. Plain(book) /\ Plain(settled) /\ book.lastBar = settled.lastBar /\ book = settled
      /\ settled.lastBar = None
  BY NewBookIsPlain DEF Init, NewBook
<1>6. FewUnseen
  BY <1>2 DEF FewUnseen
<1>7. Reference!Init
  BY DEF Init, Reference!Init, Reference!NewSim, SimOf, NewBook
<1> QED BY <1>3, <1>4, <1>5, <1>6, <1>7 DEF FeedInv, LastBarIsClosed, SettledOrEarly

(* Rows read from the closed bars are closed bars. *)
LEMMA RowsRead ==
  ASSUME TapeInOrder, NEW n \in Nat \ {0}
  PROVE  /\ ClosedBars \in Seq(Bars) /\ LastOf(ClosedBars, n) \in Seq(Bars)
         /\ \A k \in DOMAIN ClosedBars :
              \E j \in 1..(Len(tape) - 1) : ClosedBars[k] = tape[j]
         /\ \A k \in DOMAIN LastOf(ClosedBars, n) :
              \E j \in 1..(Len(tape) - 1) : LastOf(ClosedBars, n)[k] = tape[j]
<1>1. tape \in Seq(Bars) /\ Len(tape) \in Nat /\ Len(tape) >= 1
  <2>1. tape \in Seq(TapeBars) /\ tape # << >>
    BY DEF TapeInOrder
  <2> QED BY <2>1, TapeBarsAreBars
<1>2. /\ ClosedBars \in Seq(Bars) /\ Len(ClosedBars) = Len(tape) - 1
      /\ \A k \in 1..(Len(tape) - 1) : ClosedBars[k] = tape[k]
  <2>1. \A i \in 1..(Len(tape) - 1) : tape[i] \in Bars
    BY <1>1
  <2>2. Len(tape) - 1 \in Int /\ 1 \in Int
    BY <1>1
  <2>3. /\ SubSeq(tape, 1, Len(tape) - 1) \in Seq(Bars)
        /\ Len(SubSeq(tape, 1, Len(tape) - 1))
             = IF 1 <= Len(tape) - 1 THEN (Len(tape) - 1) - 1 + 1 ELSE 0
        /\ \A i \in 1..((Len(tape) - 1) - 1 + 1) :
             SubSeq(tape, 1, Len(tape) - 1)[i] = tape[1 + i - 1]
    BY <2>1, <2>2, SubSeqProperties
  <2> DEFINE c == SubSeq(tape, 1, Len(tape) - 1)
  <2>4. c \in Seq(Bars)
    BY <2>3
  <2> HIDE DEF c
  <2>5. Len(c) = Len(tape) - 1
    <3>1. Len(c) = IF 1 <= Len(tape) - 1 THEN (Len(tape) - 1) - 1 + 1 ELSE 0
      BY <2>3 DEF c
    <3> DEFINE L == Len(tape)
    <3>2. L \in Nat /\ L >= 1
      BY <1>1
    <3> HIDE DEF L
    <3>3. CASE L = 1
      BY <3>1, <3>3 DEF L
    <3>4. CASE L >= 2
      BY <3>1, <3>2, <3>4 DEF L
    <3> QED BY <3>2, <3>3, <3>4
  <2>6. \A k \in 1..(Len(tape) - 1) : k \in 1..((Len(tape) - 1) - 1 + 1) /\ 1 + k - 1 = k
    BY <1>1
  <2>7. \A k \in 1..(Len(tape) - 1) : c[k] = tape[k]
    BY <2>3, <2>6 DEF c
  <2> QED BY <2>4, <2>5, <2>7 DEF ClosedBars, c
<1>5. \A k \in DOMAIN ClosedBars : \E j \in 1..(Len(tape) - 1) : ClosedBars[k] = tape[j]
  BY <1>2
<1>3. CASE Len(ClosedBars) <= n
  BY <1>2, <1>5, <1>3 DEF LastOf
<1>4. CASE ~(Len(ClosedBars) <= n)
  <2> DEFINE a == Len(ClosedBars) - n + 1
             c == SubSeq(ClosedBars, a, Len(ClosedBars))
  <2>1. a \in Nat /\ a >= 1 /\ a <= Len(ClosedBars) /\ Len(ClosedBars) \in Nat
    BY <1>1, <1>2, <1>4
  <2> HIDE DEF a
  <2>2. /\ c \in Seq(Bars) /\ Len(c) = Len(ClosedBars) - a + 1
        /\ \A k \in 1..(Len(ClosedBars) - a + 1) : c[k] = ClosedBars[a + k - 1]
    <3>1. \A i \in a..Len(ClosedBars) : ClosedBars[i] \in Bars
      BY <1>2, <2>1
    <3>2. a \in Int /\ Len(ClosedBars) \in Int
      BY <2>1
    <3> QED BY <2>1, <3>1, <3>2, SubSeqProperties
  <2> HIDE DEF c
  <2>3. \A k \in DOMAIN c : k \in 1..(Len(ClosedBars) - a + 1)
                            /\ a + k - 1 \in 1..(Len(tape) - 1)
    BY <1>1, <1>2, <2>1, <2>2
  <2>4. \A k \in DOMAIN c : c[k] = tape[a + k - 1]
    BY <1>2, <2>2, <2>3
  <2>5. LastOf(ClosedBars, n) = c
    BY <1>4 DEF LastOf, a, c
  <2>6. \A k \in DOMAIN c : \E j \in 1..(Len(tape) - 1) : c[k] = tape[j]
    BY <2>3, <2>4
  <2> QED BY <1>2, <1>5, <2>2, <2>5, <2>6
<1> QED BY <1>3, <1>4

LEMMA MarketStep ==
  ASSUME FeedInv, NEW t \in Times, NEW s \in BarShapes, BarBegins(t, s)
  PROVE  FeedInv' /\ settled' = settled
<1> DEFINE bar == BarAt(t, s)
           n == Len(tape)
<1>1. /\ t > Forming.time /\ tape' = Append(tape, bar)
      /\ book' = book /\ settled' = settled /\ poller' = poller
      /\ ShortOutages => CaughtUp
  BY DEF BarBegins
<1>2. tape \in Seq(TapeBars) /\ tape # << >>
      /\ \A i, j \in DOMAIN tape : i < j => tape[i].time < tape[j].time
  BY DEF FeedInv, TapeInOrder
<1>3. bar \in TapeBars /\ bar.time = t /\ n \in Nat /\ n >= 1
  <2>1. bar \in TapeBars
    BY DEF TapeBars
  <2>2. bar.time = t
    BY DEF BarAt
  <2> HIDE DEF bar
  <2> QED BY <1>2, <2>1, <2>2
<1>4. /\ tape' \in Seq(TapeBars) /\ tape' # << >> /\ Len(tape') = n + 1
      /\ \A i \in 1..n : tape'[i] = tape[i]
      /\ tape'[n + 1] = bar
  BY <1>1, <1>2, <1>3, AppendProperties
<1> HIDE DEF bar
<1>5. \A i \in DOMAIN tape : tape[i].time < t
  <2>1. \A i \in DOMAIN tape : tape[i].time \in Int
    BY <1>2, TapeBarsAreBars DEF Bars
  <2>2. t \in Int
    BY BarFeedAssumption DEF BarFeedAssumption
  <2> SUFFICES ASSUME NEW i \in DOMAIN tape PROVE tape[i].time < t
    OBVIOUS
  <2>3. i \in 1..n /\ n \in DOMAIN tape
    BY <1>2, <1>3
  <2>4. i = n \/ tape[i].time < tape[n].time
    BY <1>2, <1>3, <2>3
  <2> QED BY <1>1, <2>1, <2>2, <2>3, <2>4 DEF Forming
<1>6. TapeInOrder'
  <2>1. \A i, j \in DOMAIN tape' : i < j => tape'[i].time < tape'[j].time
    <3> SUFFICES ASSUME NEW i \in DOMAIN tape', NEW j \in DOMAIN tape', i < j
                 PROVE  tape'[i].time < tape'[j].time
      OBVIOUS
    <3>1. i \in 1..n /\ j \in 1..(n + 1)
      BY <1>3, <1>4
    <3>2. CASE j \in 1..n
      BY <1>2, <1>4, <3>1, <3>2
    <3>3. CASE j = n + 1
      BY <1>2, <1>3, <1>4, <1>5, <3>1, <3>3
    <3> QED BY <1>3, <3>1, <3>2, <3>3
  <2> QED BY <1>4, <2>1 DEF TapeInOrder
<1>7. RowsAreClosed'
  <2>1. \A k \in DOMAIN poller.rows : \E j \in 1..(n - 1) : poller.rows[k] = tape[j]
    BY DEF FeedInv, RowsAreClosed
  <2>2. \A j \in 1..(n - 1) : j \in 1..((n + 1) - 1) /\ tape'[j] = tape[j]
    BY <1>3, <1>4
  <2>3. \A k \in DOMAIN poller.rows : \E j \in 1..((n + 1) - 1) : poller.rows[k] = tape'[j]
    BY <2>1, <2>2
  <2> QED BY <1>1, <1>4, <2>3 DEF FeedInv, RowsAreClosed
<1>8. Plain(book)' /\ Plain(settled)' /\ (book.lastBar = settled.lastBar)'
  BY <1>1 DEF FeedInv, Plain
<1>9. LastBarIsClosed'
  <2>1. \A j \in 1..(n - 1) : j \in 1..((n + 1) - 1) /\ tape'[j] = tape[j]
    BY <1>3, <1>4
  <2> QED BY <1>1, <1>4, <2>1 DEF FeedInv, LastBarIsClosed
<1>10. FewUnseen'
  <2> SUFFICES ASSUME ShortOutages, NEW j \in 1..((n + 1) - 2)
               PROVE  ~Unseen(settled, tape'[j].time)
    BY <1>1, <1>4 DEF FewUnseen, Unseen
  <2>1. j \in 1..n /\ j <= n - 1 /\ n >= 2 /\ n - 1 \in DOMAIN tape /\ j \in DOMAIN tape
    BY <1>2, <1>3
  <2>2. settled.lastBar = tape[n - 1]
    BY <1>1, <2>1 DEF FeedInv, CaughtUp, LastClosed
  <2>3. j = n - 1 \/ tape[j].time < tape[n - 1].time
    BY <1>2, <2>1
  <2>4. tape[j].time \in Int /\ tape[n - 1].time \in Int /\ tape[n - 1] # None
    BY <1>2, <2>1, TapeBarsAreBars, NoOrderAssumption DEF Bars, NoOrderAssumption
  <2> QED BY <1>4, <2>1, <2>2, <2>3, <2>4 DEF Unseen
<1>11. SettledOrEarly'
  <2>1. CASE book = settled
    BY <1>1, <2>1 DEF SettledOrEarly
  <2>2. CASE book # settled
    <3>1. PICK i \in DOMAIN tape : OpenedAt(i)
      BY <2>2 DEF FeedInv, SettledOrEarly
    <3>2. i \in 1..n /\ i \in DOMAIN tape'
      BY <1>2, <1>3, <1>4
    <3>3. \A j \in 1..i : tape'[j] = tape[j]
      BY <1>3, <1>4, <3>2
    <3>4. OpenedAt(i)'
      BY <1>1, <3>1, <3>2, <3>3 DEF OpenedAt, Unseen, AtrKnown
    <3> QED BY <1>1, <2>2, <3>2, <3>4 DEF FeedInv, SettledOrEarly
  <2> QED BY <2>1, <2>2
<1> QED BY <1>1, <1>6, <1>7, <1>8, <1>9, <1>10, <1>11 DEF FeedInv

(* A turn of the poller that delivers nothing: only its rows matter. *)
LEMMA PollerStep ==
  ASSUME FeedInv, UNCHANGED <<tape, book, settled>>, poller' \in Pollers,
         \A k \in DOMAIN poller'.rows : \E j \in 1..(Len(tape) - 1) : poller'.rows[k] = tape[j]
  PROVE  FeedInv'
<1>1. RowsAreClosed'
  BY DEF RowsAreClosed
<1> QED BY <1>1 DEF FeedInv, TapeInOrder, Plain, LastBarIsClosed, FewUnseen,
                    SettledOrEarly, OpenedAt, Unseen, AtrKnown

LEMMA TailRows ==
  ASSUME FeedInv, poller.rows # << >>
  PROVE  /\ Tail(poller.rows) \in Seq(Bars) /\ Row.time \in Int
         /\ \A k \in DOMAIN Tail(poller.rows) :
              \E j \in 1..(Len(tape) - 1) : Tail(poller.rows)[k] = tape[j]
<1> DEFINE rows == poller.rows
           tail == Tail(rows)
<1>1. rows \in Seq(Bars) /\ rows # << >>
      /\ \A k \in DOMAIN rows : \E j \in 1..(Len(tape) - 1) : rows[k] = tape[j]
  BY DEF FeedInv, RowsAreClosed, Pollers
<1> HIDE DEF rows
<1>2. /\ tail \in Seq(Bars) /\ Len(tail) = Len(rows) - 1 /\ Len(rows) \in Nat
      /\ \A k \in 1..Len(tail) : tail[k] = rows[k + 1]
  BY <1>1, HeadTailProperties
<1> HIDE DEF tail
<1>3. \A k \in DOMAIN tail : k \in 1..Len(tail) /\ k + 1 \in DOMAIN rows
  BY <1>1, <1>2
<1>4. Row \in Bars
  BY <1>1 DEF Row, rows
<1>5. \A k \in DOMAIN tail : \E j \in 1..(Len(tape) - 1) : tail[k] = tape[j]
  BY <1>1, <1>2, <1>3
<1> QED BY <1>2, <1>4, <1>5 DEF tail, rows, Bars

LEMMA TurningStep ==
  ASSUME FeedInv, TurnSlow \/ TurnFast \/ SkipRow \/ LoseBar \/ BarsDone \/ NoOpen
                    \/ LoseOpen \/ Restart
  PROVE  FeedInv' /\ settled' = settled
<1>1. poller \in Pollers
      /\ \A k \in DOMAIN poller.rows : \E j \in 1..(Len(tape) - 1) : poller.rows[k] = tape[j]
  BY DEF FeedInv, RowsAreClosed
<1>2. TapeInOrder
  BY DEF FeedInv
<1>3. CASE TurnSlow
  <2>1. Recent \in Nat \ {0}
    BY BarFeedAssumption DEF BarFeedAssumption
  <2> DEFINE rows == LastOf(ClosedBars, Recent)
  <2>2. /\ rows \in Seq(Bars)
        /\ \A k \in DOMAIN rows : \E j \in 1..(Len(tape) - 1) : rows[k] = tape[j]
    BY <1>2, <2>1, RowsRead
  <2>3. poller' = [poller EXCEPT !.at = "bars", !.rows = rows]
        /\ UNCHANGED <<tape, book, settled>>
    BY <1>3 DEF TurnSlow
  <2> HIDE DEF rows
  <2>4. poller' \in Pollers /\ poller'.rows = rows
    BY <1>1, <2>2, <2>3 DEF Pollers
  <2> QED BY <2>2, <2>3, <2>4, PollerStep
<1>4. CASE Restart
  <2> DEFINE rows == ClosedBars
  <2>1. /\ rows \in Seq(Bars)
        /\ \A k \in DOMAIN rows : \E j \in 1..(Len(tape) - 1) : rows[k] = tape[j]
    BY <1>2, RowsRead
  <2>2. poller' = [at |-> "bars", rows |-> rows, sentUpto |-> None, openedFor |-> None]
        /\ UNCHANGED <<tape, book, settled>>
    BY <1>4 DEF Restart
  <2> HIDE DEF rows
  <2>3. poller' \in Pollers /\ poller'.rows = rows
    BY <2>1, <2>2 DEF Pollers, Stamps
  <2> QED BY <2>1, <2>2, <2>3, PollerStep
<1>5. CASE SkipRow \/ LoseBar
  <2>1. poller.rows # << >> /\ UNCHANGED <<tape, book, settled>>
        /\ poller' = [poller EXCEPT !.rows = Tail(poller.rows)]
    BY <1>1, <1>5 DEF SkipRow, LoseBar, Sending, NextRow, Unanswered
  <2>2. Tail(poller.rows) \in Seq(Bars)
        /\ \A k \in DOMAIN Tail(poller.rows) :
              \E j \in 1..(Len(tape) - 1) : Tail(poller.rows)[k] = tape[j]
    BY <2>1, TailRows
  <2>3. poller' \in Pollers /\ poller'.rows = Tail(poller.rows)
    BY <1>1, <2>1, <2>2 DEF Pollers
  <2> QED BY <2>1, <2>2, <2>3, PollerStep
<1>6. CASE TurnFast \/ BarsDone \/ NoOpen \/ LoseOpen
  <2>1. UNCHANGED <<tape, book, settled>> /\ poller' \in Pollers /\ poller'.rows = poller.rows
    BY <1>1, <1>6 DEF TurnFast, BarsDone, NoOpen, LoseOpen, Pollers
  <2> QED BY <1>1, <2>1, PollerStep
<1> QED BY <1>3, <1>4, <1>5, <1>6

(* An open that is applied: either it fills the settled book, or it finds the
   intent already taken. *)
LEMMA OpenStep ==
  ASSUME FeedInv, Prompt, PostOpen
  PROVE  FeedInv' /\ settled' = settled
<1>1. /\ FillOnOpen /\ CaughtUp
      /\ book' = OpenFed(book, Forming.time, Forming.open)
      /\ tape' = tape /\ settled' = settled
      /\ \E heard \in {Forming.time, poller.openedFor} :
           poller' = [poller EXCEPT !.at = "wait", !.openedFor = heard]
  BY DEF PostOpen, Opening, MayOpen, Prompt
<1>2. /\ tape \in Seq(TapeBars) /\ Len(tape) \in DOMAIN tape /\ Len(tape) \in Nat
      /\ \A i, j \in DOMAIN tape : i < j => tape[i].time < tape[j].time
      /\ \A j \in DOMAIN tape : tape[j] \in Bars /\ tape[j].time \in Int
      /\ DOMAIN tape = 1..Len(tape)
  BY TapeBarsAreBars DEF FeedInv, TapeInOrder, Bars
<1>3. Forming \in Bars /\ Forming.time \in Int /\ Forming.open \in Price
  BY <1>2 DEF Forming, Bars
<1>4. Plain(settled) /\ Plain(book) /\ book.lastBar = settled.lastBar
  BY DEF FeedInv
<1>5. RowsAreClosed'
  <2>1. poller' \in Pollers /\ poller'.rows = poller.rows
    <3>1. poller \in Pollers /\ Forming.time \in Stamps /\ poller.openedFor \in Stamps
      BY <1>3 DEF FeedInv, RowsAreClosed, Stamps, Pollers
    <3> QED BY <1>1, <3>1 DEF Pollers
  <2> QED BY <1>1, <2>1 DEF FeedInv, RowsAreClosed
<1>6. CASE book' = book
  BY <1>1, <1>5, <1>6 DEF FeedInv, TapeInOrder, Plain, LastBarIsClosed, FewUnseen,
                          SettledOrEarly, OpenedAt, Unseen, AtrKnown
<1>7. CASE book' # book
  <2>1. book.lastBar # None /\ Unseen(book, Forming.time) /\ book.pending # None
        /\ book' = FillOpen(book, Forming.time, Forming.open, AtrKnown(book), NoAdvice).book
    BY <1>1, <1>7 DEF OpenFed
  <2>2. AtrKnown(settled) \in BOOLEAN /\ NoAdvice \in Cuts
    BY CutAssumption DEF AtrKnown, NoAdvice, Cuts, CutAssumption
  <2>3. book = settled
    <3> SUFFICES ASSUME book # settled PROVE FALSE
      OBVIOUS
    <3>1. PICK i \in DOMAIN tape : OpenedAt(i)
      BY DEF FeedInv, SettledOrEarly
    <3>2. book = FillOpen(settled, tape[i].time, tape[i].open, AtrKnown(settled), NoAdvice).book
          /\ Unseen(settled, tape[i].time)
      BY <3>1 DEF OpenedAt
    <3>3. settled.lastBar \in Bars /\ settled.lastBar.time \in Int /\ settled \in Books
      BY <1>4, <2>1 DEF Plain, Books, Bars
    <3>4. book = FillPending(settled, tape[i].time, tape[i].open, AtrKnown(settled), NoAdvice).book
      BY <1>2, <1>4, <2>1, <3>2, <3>3 DEF FillOpen, Unseen
    <3>5. tape[i].time \in Int /\ tape[i].open \in Price
      BY <1>2, <3>1 DEF Bars
    <3> QED BY <2>1, <2>2, <3>3, <3>4, <3>5, FillConsumes
  <2>4. Plain(book)' /\ book'.lastBar = settled.lastBar
    <3>1. settled.lastBar \in Bars /\ settled.lastBar.time \in Int
      BY <1>4, <2>1 DEF Plain, Books, Bars
    <3>2. book' = FillPending(settled, Forming.time, Forming.open, AtrKnown(settled), NoAdvice).book
      BY <1>3, <1>4, <2>1, <2>3, <3>1 DEF FillOpen, Unseen
    <3> QED BY <1>3, <1>4, <2>2, <3>2, FillKeepsPlain DEF Plain
  <2>5. OpenedAt(Len(tape))'
    <3>1. \A j \in 1..(Len(tape) - 1) : ~Unseen(settled, tape[j].time)
      <4> SUFFICES ASSUME NEW j \in 1..(Len(tape) - 1)
                   PROVE  ~Unseen(settled, tape[j].time)
        OBVIOUS
      <4>1. Len(tape) >= 2 /\ j \in DOMAIN tape /\ Len(tape) - 1 \in DOMAIN tape
            /\ (j = Len(tape) - 1 \/ j < Len(tape) - 1)
        <5> DEFINE L == Len(tape)
        <5>1. L \in Nat /\ DOMAIN tape = 1..L /\ j \in 1..(L - 1)
          BY <1>2
        <5> HIDE DEF L
        <5>2. L >= 2 /\ j \in DOMAIN tape /\ L - 1 \in DOMAIN tape /\ (j = L - 1 \/ j < L - 1)
          BY <5>1
        <5> QED BY <5>2 DEF L
      <4>2. settled.lastBar = tape[Len(tape) - 1]
        BY <1>1, <1>4, <4>1 DEF CaughtUp, LastClosed
      <4>3. tape[j].time \in Int /\ tape[Len(tape) - 1].time \in Int
            /\ (j = Len(tape) - 1 \/ tape[j].time < tape[Len(tape) - 1].time)
        BY <1>2, <4>1
      <4> QED BY <1>4, <2>1, <4>2, <4>3 DEF Unseen
    <3> QED BY <1>1, <1>4, <2>1, <2>3, <3>1 DEF OpenedAt, Unseen, AtrKnown, Forming
  <2>6. SettledOrEarly'
    BY <1>1, <1>2, <1>4, <2>1, <2>5 DEF SettledOrEarly
  <2> QED BY <1>1, <1>5, <2>4, <2>6
     DEF FeedInv, TapeInOrder, Plain, LastBarIsClosed, FewUnseen, Unseen
<1> QED BY <1>1, <1>6, <1>7

(* A closed bar that is applied is a bar of the backtest, or was seen before. *)
LEMMA DeliverStep ==
  ASSUME FeedInv, Prompt, Sending, NEW decision \in Decisions(Row.time), Deliver(decision),
         poller' \in Pollers, poller'.rows = Tail(poller.rows)
  PROVE  /\ FeedInv'
         /\ \/ settled' = settled
            \/ /\ Row \in TapeBars /\ Unseen(settled, Row.time)
               /\ SimOf(settled') = Reference!Iterated(SimOf(settled), Row, decision)
<1>1. book' = BarFed(book, Row, decision) /\ tape' = tape
      /\ settled' = IF Unseen(book, Row.time) THEN book' ELSE settled
  BY DEF Deliver
<1>2. Row.time \in Int
      /\ \A k \in DOMAIN poller'.rows :
           \E j \in 1..(Len(tape) - 1) : poller'.rows[k] = tape[j]
  BY TailRows DEF Sending
<1>3. CASE ~Unseen(book, Row.time)
  <2>1. UNCHANGED <<tape, book, settled>>
    BY <1>1, <1>3 DEF BarFed
  <2> QED BY <1>2, <2>1, PollerStep
<1>4. CASE Unseen(book, Row.time)
  <2>1. /\ Row \in TapeBars /\ Unseen(settled, Row.time) /\ Plain(settled)
        /\ BarFed(book, Row, decision) = BarFed(settled, Row, decision)
    BY <1>4, FedAsSettled DEF FeedInv
  <2>2. PICK i \in 1..(Len(tape) - 1) : Row = tape[i]
    BY <1>4, FedAsSettled
  <2>3. Row \in Bars /\ decision \in Intents \cup {None}
    BY <1>2, <2>1, TapeBarsAreBars, DecisionsAreIntents
  <2>4. settled' = BarFed(settled, Row, decision) /\ book' = settled'
    BY <1>1, <1>4, <2>1
  <2>5. /\ Plain(settled') /\ settled'.lastBar = Row
        /\ SimOf(settled') = Reference!Iterated(SimOf(settled), Row, decision)
    BY <2>1, <2>3, <2>4, LiveBarIsBacktestBar
  <2>6. RowsAreClosed'
    BY <1>1, <1>2 DEF RowsAreClosed
  <2>7. LastBarIsClosed'
    BY <1>1, <2>2, <2>5 DEF LastBarIsClosed
  <2>8. FewUnseen'
    <3> SUFFICES ASSUME ShortOutages, NEW j \in 1..(Len(tape) - 2)
                 PROVE  ~(settled'.lastBar # None => tape[j].time > settled'.lastBar.time)
      BY <1>1 DEF FewUnseen, Unseen
    <3>1. ~Unseen(settled, tape[j].time)
      BY DEF FeedInv, FewUnseen
    <3>2. tape[j].time \in Int
      <4>1. tape \in Seq(TapeBars) /\ j \in DOMAIN tape
        <5>1. tape \in Seq(TapeBars) /\ Len(tape) \in Nat /\ DOMAIN tape = 1..Len(tape)
          BY DEF FeedInv, TapeInOrder
        <5> QED BY <5>1
      <4> QED BY <4>1, TapeBarsAreBars DEF Bars
    <3>3. settled.lastBar # None /\ settled.lastBar.time \in Int
      BY <2>1, <3>1 DEF Unseen, Plain, Books, Bars
    <3>4. tape[j].time < Row.time
      BY <1>2, <2>1, <3>1, <3>2, <3>3 DEF Unseen
    <3> QED BY <1>2, <2>3, <2>5, <3>2, <3>4, NoOrderAssumption DEF NoOrderAssumption
  <2>9. SettledOrEarly'
    BY <2>4 DEF SettledOrEarly
  <2> QED BY <1>1, <2>1, <2>4, <2>5, <2>6, <2>7, <2>8, <2>9
     DEF FeedInv, TapeInOrder, Plain
<1> QED BY <1>3, <1>4

(* A bar of the tape and a decision about it are a step of the backtest. *)
LEMMA IteratedIsAStep ==
  ASSUME NEW bar \in TapeBars, Unseen(settled, bar.time),
         NEW decision \in Decisions(bar.time),
         SimOf(settled') = Reference!Iterated(SimOf(settled), bar, decision)
  PROVE  Reference!Next
<1>1. PICK t \in Times, s \in BarShapes : bar = BarAt(t, s)
  BY DEF TapeBars
<1>2. bar.time = t /\ bar = Reference!BarAt(t, s)
  BY <1>1 DEF BarAt, Reference!BarAt
<1>3. decision \in Reference!Decisions(t)
  BY <1>2 DEF Decisions, EnterAt, Reference!Decisions, Reference!EnterAt
<1>4. Reference!Iterate(t, s, decision)
  BY <1>2, SimFields DEF Reference!Iterate, Unseen
<1> QED BY <1>3, <1>4 DEF Reference!Next

LEMMA FeedStep ==
  ASSUME FeedInv, Prompt, [Next]_vars
  PROVE  FeedInv' /\ [Reference!Next]_(Reference!vars)
<1>1. CASE UNCHANGED vars
  <2>1. poller' \in Pollers
        /\ \A k \in DOMAIN poller'.rows : \E j \in 1..(Len(tape) - 1) : poller'.rows[k] = tape[j]
    BY <1>1 DEF vars, FeedInv, RowsAreClosed
  <2>2. FeedInv'
    BY <1>1, <2>1, PollerStep DEF vars
  <2> QED BY <1>1, <2>2 DEF vars, Reference!vars
<1>2. CASE Market
  BY <1>2, MarketStep DEF Market, Reference!vars
<1>3. CASE Turning \/ Restart
  BY <1>3, TurningStep, OpenStep DEF Turning, Reference!vars
<1>4. ASSUME Sending, NEW decision \in Decisions(Row.time),
             PostBar(decision) \/ PostBarUnanswered(decision)
      PROVE  FeedInv' /\ [Reference!Next]_(Reference!vars)
  <2>1. Deliver(decision) /\ poller \in Pollers
    BY <1>4 DEF PostBar, PostBarUnanswered, FeedInv, RowsAreClosed
  <2>2. Tail(poller.rows) \in Seq(Bars) /\ Row.time \in Int
    BY <1>4, TailRows DEF Sending
  <2>3. poller' \in Pollers /\ poller'.rows = Tail(poller.rows)
    BY <1>4, <2>1, <2>2
       DEF PostBar, PostBarUnanswered, NextRow, Answered, Unanswered, Pollers, Stamps
  <2>4. /\ FeedInv'
        /\ \/ settled' = settled
           \/ /\ Row \in TapeBars /\ Unseen(settled, Row.time)
              /\ SimOf(settled') = Reference!Iterated(SimOf(settled), Row, decision)
    BY <1>4, <2>1, <2>3, DeliverStep
  <2>5. CASE settled' = settled
    BY <2>4, <2>5 DEF Reference!vars
  <2>6. CASE /\ Row \in TapeBars /\ Unseen(settled, Row.time)
             /\ SimOf(settled') = Reference!Iterated(SimOf(settled), Row, decision)
    BY <2>4, <2>6, IteratedIsAStep
  <2> QED BY <2>4, <2>5, <2>6
<1> QED BY <1>1, <1>2, <1>3, <1>4 DEF Next, Delivered

(* The book fed by the poller implements the backtest: for every tape, every
   decision, every loss, repeat and restart, provided that when opens are
   posted each is posted after the closed bars before it. *)
THEOREM LiveImplementsBacktest ==
  ASSUME Prompt
  PROVE  Spec => RefinesBacktest
<1>1. Init => FeedInv /\ Reference!Init
  BY FeedInit
<1>2. FeedInv /\ [Next]_vars => FeedInv' /\ [Reference!Next]_(Reference!vars)
  BY FeedStep
<1> QED BY <1>1, <1>2, PTL DEF Spec, RefinesBacktest, Reference!Spec

(* A fed book is always a well-formed book, and what the poller holds are bars. *)
THEOREM FeedTypeCorrect ==
  ASSUME Prompt
  PROVE  Spec => []TypeOK
<1>1. Init => FeedInv
  BY FeedInit
<1>2. FeedInv /\ [Next]_vars => FeedInv'
  BY FeedStep
<1>3. FeedInv => TypeOK
  <2> SUFFICES ASSUME FeedInv PROVE TypeOK
    OBVIOUS
  <2>1. tape \in Seq(TapeBars) /\ tape # << >>
    BY DEF FeedInv, TapeInOrder
  <2>2. tape \in Seq(Bars)
    BY <2>1, TapeBarsAreBars
  <2> QED BY <2>1, <2>2 DEF FeedInv, RowsAreClosed, Plain, TypeOK
<1> QED BY <1>1, <1>2, <1>3, PTL DEF Spec
-----------------------------------------------------------------------------
(* A book whose trades left no earlier than they entered, and whose position
   was entered by the last bar it has been advanced over. *)
InTime(trades) == \A i \in DOMAIN trades : trades[i].entryTime <= trades[i].exitTime
HeldSince(b) ==
  b.position # None => b.lastBar # None /\ b.position.entryTime <= b.lastBar.time
Timely(b) == InTime(b.trades) /\ HeldSince(b)

LEMMA ExitInTime ==
  ASSUME NEW b \in Books, NEW c, NEW price \in Int, NEW time \in Int, NEW kind,
         Exited(b, c, price, time, kind), InTime(b.trades), b.position # None,
         b.position.entryTime <= time
  PROVE  InTime(c.trades) /\ c.position = None
<1> DEFINE t == Closed(b.position, price, time, kind)
<1>1. t \in Trades /\ b.trades \in Seq(Trades)
      /\ c.trades = Append(b.trades, t) /\ c.position = None
  BY DEF Exited, Books
<1>2. t.entryTime <= t.exitTime
  BY DEF Closed
<1> HIDE DEF t
<1>3. \A i \in DOMAIN Append(b.trades, t) :
        \/ i \in DOMAIN b.trades /\ Append(b.trades, t)[i] = b.trades[i]
        \/ Append(b.trades, t)[i] = t
  BY <1>1
<1> QED BY <1>1, <1>2, <1>3 DEF InTime

(* A fill after everything the book has seen opens at its own time, and leaves
   no earlier than it. *)
LEMMA FillInTime ==
  ASSUME NEW b \in Books, Timely(b), NEW time \in Int, Unseen(b, time),
         NEW price \in Price, NEW warm \in BOOLEAN, NEW cut \in Cuts
  PROVE  LET c == FillPending(b, time, price, warm, cut).book
         IN  /\ InTime(c.trades)
             /\ c.position # None => c.position.entryTime <= time
<1> DEFINE c == FillPending(b, time, price, warm, cut).book
<1> SUFFICES InTime(c.trades) /\ (c.position # None => c.position.entryTime <= time)
  OBVIOUS
<1>1. c \in Books /\ (Consumed(b, c) \/ OpenedFrom(b, c, time) \/ ClosedFrom(b, c, time))
  BY FillPendingCases
<1> HIDE DEF c
<1>2. b.position # None => b.position.entryTime <= time
  <2> SUFFICES ASSUME b.position # None PROVE b.position.entryTime <= time
    OBVIOUS
  <2>1. b.position \in Positions /\ b.lastBar \in Bars
    BY DEF Books, Timely, HeldSince
  <2>2. b.position.entryTime \in Int /\ b.lastBar.time \in Int
        /\ b.position.entryTime <= b.lastBar.time /\ time > b.lastBar.time
    BY <2>1, NoOrderAssumption DEF Positions, Bars, Timely, HeldSince, Unseen, NoOrderAssumption
  <2> QED BY <2>2
<1>3. InTime(b.trades)
  BY DEF Timely
<1>4. CASE Consumed(b, c)
  <2>1. c.trades = b.trades /\ c.position = b.position
    BY <1>4 DEF Consumed, Books
  <2> QED BY <1>2, <1>3, <2>1
<1>5. CASE OpenedFrom(b, c, time)
  <2>1. c.trades = b.trades /\ c.position.entryTime = time
    BY <1>5 DEF OpenedFrom, Books
  <2> QED BY <1>3, <2>1
<1>6. CASE ClosedFrom(b, c, time)
  <2> DEFINE d == [b EXCEPT !.pending = None]
  <2>1. d \in Books /\ d.position = b.position /\ d.trades = b.trades
    BY DEF Books
  <2>2. PICK q \in Int : Exited(d, c, q, time, "SIGNAL")
    BY <1>6 DEF ClosedFrom
  <2>3. b.position # None
    BY <1>6 DEF ClosedFrom
  <2> HIDE DEF d
  <2> QED BY <1>2, <1>3, <2>1, <2>2, <2>3, ExitInTime
<1> QED BY <1>1, <1>4, <1>5, <1>6

LEMMA BarInTime ==
  ASSUME NEW b, Plain(b), Timely(b), NEW bar \in Bars, Unseen(b, bar.time),
         NEW warm \in BOOLEAN, NEW cut \in Cuts
  PROVE  Timely(Advance(b, bar, warm, cut).book)
<1> DEFINE f == FillPending(b, bar.time, bar.open, warm, cut).book
           c == Advance(b, bar, warm, cut).book
           seen == Seen(f, bar)
<1>1. b \in Books /\ bar.time \in Int /\ bar.open \in Price
  BY DEF Plain, Bars
<1>2. InTime(f.trades) /\ (f.position # None => f.position.entryTime <= bar.time)
  BY <1>1, FillInTime
<1>3. c \in Books /\ Managed(f, c, bar)
  BY <1>1, AdvanceCases
<1>4. f \in Books
  BY <1>1, FillPendingCases
<1> HIDE DEF f, c
<1>5. seen \in Books /\ seen.position = f.position
  BY <1>4, SeenType
<1>6. seen.trades = f.trades /\ seen.lastBar = bar /\ bar # None
  BY <1>4, NoOrderAssumption DEF Seen, Books, NoOrderAssumption
<1> HIDE DEF seen
<1>7. CASE Untouched(f, c, bar)
  <2>1. c = seen
    BY <1>7 DEF Untouched, seen
  <2> QED BY <1>2, <1>5, <1>6, <2>1 DEF c, Timely, HeldSince
<1>8. CASE HeldOver(f, c, bar)
  <2>1. PICK q : Tightened(f.position, q) /\ c = [seen EXCEPT !.position = q]
    BY <1>8 DEF HeldOver, seen
  <2>2. f.position # None /\ f.position \in Positions
    BY <1>4, <1>8 DEF HeldOver, Books
  <2>3. q.entryTime = f.position.entryTime
    BY <2>1, <2>2 DEF Tightened, Positions
  <2>4. c.trades = f.trades /\ c.lastBar = bar /\ c.position = q
    BY <1>5, <1>6, <2>1 DEF Books
  <2> QED BY <1>2, <1>6, <2>2, <2>3, <2>4 DEF c, Timely, HeldSince
<1>9. CASE LeftOn(f, c, bar)
  <2>1. f.position # None
    BY <1>9 DEF LeftOn
  <2>2. PICK price \in Int, kind \in ExitKinds : Exited(seen, c, price, bar.time, kind)
    BY <1>9 DEF LeftOn, seen
  <2>3. InTime(c.trades) /\ c.position = None
    BY <1>1, <1>2, <1>5, <1>6, <2>1, <2>2, ExitInTime
  <2> QED BY <2>3 DEF c, Timely, HeldSince
<1> QED BY <1>3, <1>7, <1>8, <1>9 DEF Managed

LEMMA FedInTime ==
  ASSUME NEW b, Plain(b), Timely(b), NEW bar \in Bars, Unseen(b, bar.time),
         NEW decision \in Intents \cup {None}
  PROVE  Timely(BarFed(b, bar, decision))
<1> DEFINE a == Advance(b, bar, AtrKnown(b), NoAdvice)
           d == Decide(a.book, decision)
<1>1. AtrKnown(b) \in BOOLEAN /\ NoAdvice \in Cuts /\ b \in Books
  BY CutAssumption DEF AtrKnown, NoAdvice, Cuts, CutAssumption, Plain
<1>2. Timely(a.book)
  BY <1>1, BarInTime
<1>3. a.book \in Books
  BY <1>1, AdvanceCases
<1>4. Step(b, bar, AtrKnown(b), NoAdvice, decision).book = d
  BY AdvanceReports DEF Step
<1>5. BarFed(b, bar, decision) = OrderSawBarClose(d)
  BY <1>4 DEF BarFed
<1> HIDE DEF a
<1>6. Kept(a.book, d)
  BY <1>3, DecideKeeps
<1>7. d \in Books
  BY <1>6 DEF Kept
<1> HIDE DEF d
<1>8. Kept(d, OrderSawBarClose(d))
  BY <1>7, OrderSawBarCloseKeeps
<1> QED BY <1>2, <1>5, <1>6, <1>8 DEF Kept, Timely, HeldSince

LEMMA TimelyStep ==
  ASSUME FeedInv, Prompt, Timely(settled), [Next]_vars
  PROVE  Timely(settled)'
<1>1. CASE UNCHANGED vars \/ Market \/ Turning \/ Restart
  <2>1. settled' = settled
    BY <1>1, MarketStep, TurningStep, OpenStep DEF vars, Market, Turning
  <2> QED BY <2>1
<1>2. ASSUME Sending, NEW decision \in Decisions(Row.time),
             PostBar(decision) \/ PostBarUnanswered(decision)
      PROVE  Timely(settled)'
  <2>1. /\ book' = BarFed(book, Row, decision)
        /\ settled' = IF Unseen(book, Row.time) THEN book' ELSE settled
    BY <1>2 DEF PostBar, PostBarUnanswered, Deliver
  <2>2. CASE ~Unseen(book, Row.time)
    BY <2>1, <2>2
  <2>3. CASE Unseen(book, Row.time)
    <3>1. /\ Row \in TapeBars /\ Unseen(settled, Row.time) /\ Plain(settled)
          /\ BarFed(book, Row, decision) = BarFed(settled, Row, decision)
      BY <1>2, <2>3, FedAsSettled DEF FeedInv
    <3>2. Row \in Bars
      BY <3>1, TapeBarsAreBars
    <3>3. decision \in Intents \cup {None}
      BY <1>2, <3>2, DecisionsAreIntents DEF Bars
    <3>4. Timely(BarFed(settled, Row, decision))
      BY <3>1, <3>2, <3>3, FedInTime
    <3> QED BY <2>1, <2>3, <3>1, <3>4
  <2> QED BY <2>2, <2>3
<1> QED BY <1>1, <1>2 DEF Next, Delivered

(* The book is the settled one, or that one filled at an open after it. *)
LEMMA TimelyBook ==
  ASSUME FeedInv, Timely(settled)
  PROVE  NoExitBeforeEntry
<1>1. CASE book = settled
  BY <1>1 DEF Timely, InTime, NoExitBeforeEntry
<1>2. CASE book # settled
  <2>1. PICK i \in DOMAIN tape : OpenedAt(i)
    BY <1>2 DEF FeedInv, SettledOrEarly
  <2>2. tape[i] \in Bars /\ settled \in Books
    BY TapeBarsAreBars DEF FeedInv, TapeInOrder, Plain
  <2> DEFINE time == tape[i].time
             price == tape[i].open
             c == FillPending(settled, time, price, AtrKnown(settled), NoAdvice).book
  <2>3. time \in Int /\ price \in Price /\ Unseen(settled, time)
        /\ AtrKnown(settled) \in BOOLEAN /\ NoAdvice \in Cuts
    BY <2>1, <2>2, CutAssumption DEF OpenedAt, Bars, AtrKnown, NoAdvice, Cuts, CutAssumption
  <2>4. InTime(c.trades)
    BY <2>2, <2>3, FillInTime
  <2>5. book = settled \/ book = c
    BY <2>1 DEF OpenedAt, FillOpen, Quiet
  <2> QED BY <1>2, <2>4, <2>5 DEF InTime, NoExitBeforeEntry
<1> QED BY <1>1, <1>2

(* No trade of the fed book leaves before it entered, though fills come at the
   opens posted ahead of the closed bars, and posts are lost and repeated: what
   advance's "a bar from before the fill's bucket" guards against cannot reach
   a rule run whose opens are posted in turn. *)
THEOREM NoTradeRunsBackwards ==
  ASSUME Prompt
  PROVE  Spec => []NoExitBeforeEntry
<1>1. Init => FeedInv /\ Timely(settled)
  <2>1. Init => FeedInv
    BY FeedInit
  <2>2. Init => Timely(settled)
    BY DEF Init, NewBook, Timely, InTime, HeldSince
  <2> QED BY <2>1, <2>2
<1>2. FeedInv /\ Timely(settled) /\ [Next]_vars => FeedInv' /\ Timely(settled)'
  BY FeedStep, TimelyStep
<1>3. FeedInv /\ Timely(settled) => NoExitBeforeEntry
  BY TimelyBook
<1> QED BY <1>1, <1>2, <1>3, PTL DEF Spec
=============================================================================
