--------------------------- MODULE BookOps_proofs ---------------------------
(***************************************************************************)
(* What the paper book's operations return, for every value of the         *)
(* constants: each keeps a book a book, a verdict can only shrink an entry, *)
(* and filling at the open and then closing the bar is closing the bar.    *)
(***************************************************************************)
EXTENDS BookOps, SequenceTheorems, WellFoundedInduction, TLAPS

LEMMA CostType ==
  ASSUME NEW price \in Price, NEW side \in Side
  PROVE  /\ ApplyCosts(price, side, TRUE) \in Nat \ {0}
         /\ ApplyCosts(price, side, FALSE) \in Nat \ {0}
BY EngineAssumption, SMT DEF EngineAssumption, ApplyCosts, Price, Side

LEMMA CappedLotsType ==
  ASSUME NEW lots \in Int, NEW entry \in Nat \ {0}, NEW equity \in Int
  PROVE  CappedLots(lots, entry, equity) \in Int
BY EngineAssumption, SMT DEF EngineAssumption, CappedLots

LEMMA SizedLotsType ==
  ASSUME NEW risk \in Nat \ {0}, NEW equity \in Int
  PROVE  SizedLots(risk, equity) \in Int
BY EngineAssumption, SMT DEF EngineAssumption, SizedLots, Larger

(* open_position: with a risk unit and lots that are not too small, what it
   opens is a position. *)
LEMMA OpenedType ==
  ASSUME NEW intent \in Enter, NEW time \in Int, NEW price \in Price,
         NEW warm \in BOOLEAN, NEW equity \in Int
  PROVE  LET p == Opened(intent, time, price, warm, equity)
         IN  /\ p.risk \in Nat
             /\ p.lots \in Int
             /\ p.risk # 0 /\ ~TooSmall(p.lots) => p \in Positions
             /\ \A lots \in Int : p.risk # 0 /\ ~TooSmall(lots)
                                    => [p EXCEPT !.lots = lots] \in Positions
<1> DEFINE entry == ApplyCosts(price, intent.side, TRUE)
           stop == EntryStop(intent, entry, warm)
           risk == EntryRisk(stop, entry, warm)
           target == EntryTarget(intent, entry, stop, risk)
           lots0 == IF risk = 0 THEN 0
                    ELSE CappedLots(SizedLots(risk, equity), entry, equity)
           p == Opened(intent, time, price, warm, equity)
<1> HIDE DEF entry, stop, risk, target, lots0, p
<1>1. intent.side \in Side /\ intent.stop \in Level /\ intent.target \in Level
      /\ intent.decided \in Int
  BY DEF Enter
<1>2. entry \in Nat \ {0}
  BY <1>1, CostType DEF entry
<1>3. stop \in Level
  BY <1>1, <1>2, EngineAssumption DEF EngineAssumption, EntryStop, Worse, Level, Side, stop
<1>4. risk \in Nat
  BY <1>2, <1>3, EngineAssumption DEF EngineAssumption, EntryRisk, Abs, Level, risk
<1>5. target \in Level
  BY <1>1, <1>2, <1>3, <1>4, EngineAssumption
     DEF EngineAssumption, EntryTarget, Worse, Other, Level, Side, target
<1>6. lots0 \in Int
  BY <1>2, <1>4, CappedLotsType, SizedLotsType DEF lots0
<1>7. p = [side |-> intent.side, entryTime |-> time, entryPrice |-> entry,
           stop |-> stop, target |-> target, lots |-> lots0, risk |-> risk,
           decided |-> intent.decided]
  BY DEF Opened, entry, stop, risk, target, lots0, p
<1>8. ASSUME NEW lots \in Int, p.risk # 0, ~TooSmall(lots)
      PROVE  [p EXCEPT !.lots = lots] \in Positions
  <2>1. lots \in Nat \ {0}
    BY <1>8, EngineAssumption DEF TooSmall, EngineAssumption
  <2>2. risk \in Nat \ {0}
    BY <1>8, <1>7, <1>4
  <2> QED BY <1>1, <1>2, <1>3, <1>5, <1>7, <2>1, <2>2 DEF Positions
<1>9. p.lots \in Int /\ p.risk \in Nat
  BY <1>4, <1>6, <1>7
<1>10. p = [p EXCEPT !.lots = p.lots]
  BY <1>7
<1> QED BY <1>8, <1>9, <1>10 DEF p

-----------------------------------------------------------------------------
(* A nonempty set of positions in a sequence has a first member. *)
LEMMA FirstOf ==
  ASSUME NEW T, T \subseteq Nat, T # {}
  PROVE  \E i \in T : \A j \in T : i <= j
<1>1. PICK i \in T : \A j \in T : ~(<<j, i>> \in OpToRel(<, Nat))
  BY NatLessThanWellFounded, WFMin
<1>2. i \in T /\ \A j \in T : ~(j < i)
  BY <1>1 DEF OpToRel
<1> QED BY <1>2

(* GuardState::refusal forgets closes from the front only. *)
LEMMA PrunedDayType ==
  ASSUME NEW closed \in Seq(Realised), NEW now \in Int
  PROVE  PrunedDay(closed, now) \in Seq(Realised)
<1> DEFINE young == {i \in DOMAIN closed : closed[i].time >= now - Day}
           front == CHOOSE i \in young : \A j \in young : i <= j
<1>1. CASE young = {}
  BY <1>1, EmptySeq DEF PrunedDay
<1>2. CASE young # {}
  <2>1. young \subseteq Nat /\ DOMAIN closed = 1..Len(closed) /\ Len(closed) \in Nat
    OBVIOUS
  <2>2. front \in young
    BY <1>2, <2>1, FirstOf
  <2>3. \A i \in front..Len(closed) : closed[i] \in Realised
    BY <2>1, <2>2
  <2>4. SubSeq(closed, front, Len(closed)) \in Seq(Realised)
    BY <2>1, <2>2, <2>3, SubSeqProperties
  <2> QED BY <1>2, <2>4 DEF PrunedDay
<1> QED BY <1>1, <1>2

(* close_position: a position becomes a trade. *)
LEMMA ClosedType ==
  ASSUME NEW p \in Positions, NEW price \in Int, NEW time \in Int, NEW kind \in ExitKinds
  PROVE  Closed(p, price, time, kind) \in Trades
BY DEF Closed, Trades, Positions, Gain

(* A record of nine fields with four of them replaced, over any sets: stated
   apart because the sets of Books would only burden the provers. *)
LEMMA FourFields ==
  ASSUME NEW E, NEW P, NEW T, NEW I, NEW O, NEW R, NEW C, NEW L, NEW B,
         NEW b \in [equity: E, position: P, trades: T, pending: I, order: O,
                    since: R, closed: C, lastEntry: L, lastBar: B],
         NEW p \in P, NEW e \in E, NEW t \in T, NEW c \in C
  PROVE  [b EXCEPT !.position = p, !.equity = e, !.trades = t, !.closed = c]
           \in [equity: E, position: P, trades: T, pending: I, order: O,
               since: R, closed: C, lastEntry: L, lastBar: B]
OBVIOUS

Exited(b, c, price, time, kind) ==
  LET t == Closed(b.position, price, time, kind)
  IN  /\ t \in Trades
      /\ c = [b EXCEPT !.position = None, !.equity = b.equity + t.pnl,
                       !.trades = Append(b.trades, t),
                       !.closed = Append(b.closed, [time |-> time, pnl |-> t.pnl])]

(* PaperBook::book: the position becomes the last trade, and of the book only
   what an exit may touch changes. *)
LEMMA BookedType ==
  ASSUME NEW b \in Books, b.position # None, NEW price \in Int, NEW time \in Int,
         NEW kind \in ExitKinds
  PROVE  /\ Booked(b, price, time, kind).book \in Books
         /\ Booked(b, price, time, kind).opened = FALSE
         /\ Exited(b, Booked(b, price, time, kind).book, price, time, kind)
<1> DEFINE t == Closed(b.position, price, time, kind)
           e == [time |-> time, pnl |-> t.pnl]
           c == [b EXCEPT !.position = None, !.equity = b.equity + t.pnl,
                          !.trades = Append(b.trades, t), !.closed = Append(b.closed, e)]
           r == Booked(b, price, time, kind)
<1>1. b.position \in Positions /\ b.equity \in Int /\ b.trades \in Seq(Trades)
      /\ b.closed \in Seq(Realised)
  BY DEF Books
<1>2. t \in Trades
  BY <1>1, ClosedType
<1> HIDE DEF t
<1>3. t.pnl \in Int
  BY <1>2 DEF Trades
<1>4. e \in Realised
  BY <1>3 DEF Realised
<1>5. Append(b.trades, t) \in Seq(Trades) /\ Append(b.closed, e) \in Seq(Realised)
  BY <1>1, <1>2, <1>4
<1> HIDE DEF e
<1>6. c \in Books
  <2>1. None \in Positions \cup {None} /\ b.equity + t.pnl \in Int
    BY <1>1, <1>3
  <2> QED BY <2>1, <1>5, FourFields DEF Books
<1>7. r.book = c /\ r.opened = FALSE
  BY DEF Booked, Quiet, t, e
<1> QED BY <1>2, <1>6, <1>7 DEF Exited, t, e

(* What fill_pending can do to a book: nothing but consume the intent and
   prune the memory, open a position the guards let through, or close one. *)
Consumed(b, c) ==
  /\ \E closed \in Seq(Realised) : c = [b EXCEPT !.pending = None, !.closed = closed]

OpenedFrom(b, c, time) ==
  /\ b.position = None /\ b.pending # None /\ b.pending.kind = "Enter"
  /\ \E p \in Positions, closed \in Seq(Realised), lastEntry \in Int :
       /\ p.entryTime = time
       /\ c = [b EXCEPT !.pending = None, !.closed = closed, !.position = p,
                        !.lastEntry = lastEntry]
       /\ lastEntry >= time
       /\ b.lastEntry # None => lastEntry >= b.lastEntry
  /\ Guarded /\ b.lastEntry # None => time - b.lastEntry >= Cooldown
  /\ Guarded /\ b.lastBar # None
       => {b.lastBar.time, time} \cap (WeekendBars \cup NewsBars) = {}

ClosedFrom(b, c, time) ==
  /\ b.position # None /\ b.pending # None /\ b.pending.kind = "Exit"
  /\ \E price \in Int : Exited([b EXCEPT !.pending = None], c, price, time, "SIGNAL")

(* fill_pending in those three cases, and its report says which. *)
LEMMA FillPendingCases ==
  ASSUME NEW b \in Books, NEW time \in Int, NEW price \in Price,
         NEW warm \in BOOLEAN, NEW cut \in Cuts
  PROVE  LET r == FillPending(b, time, price, warm, cut)
         IN  /\ r.book \in Books
             /\ r.opened \in BOOLEAN
             /\ \/ ~r.opened /\ Consumed(b, r.book)
                \/ r.opened /\ OpenedFrom(b, r.book, time)
                \/ ~r.opened /\ ClosedFrom(b, r.book, time)
<1> DEFINE r == FillPending(b, time, price, warm, cut)
<1> SUFFICES /\ r.book \in Books
             /\ r.opened \in BOOLEAN
             /\ \/ ~r.opened /\ Consumed(b, r.book)
                \/ r.opened /\ OpenedFrom(b, r.book, time)
                \/ ~r.opened /\ ClosedFrom(b, r.book, time)
  OBVIOUS
<1> HIDE DEF r
<1>1. b.position \in Positions \cup {None} /\ b.closed \in Seq(Realised)
      /\ b.pending \in Intents \cup {None} /\ b.lastEntry \in Level /\ b.equity \in Int
  BY DEF Books
<1>2. CASE b.pending = None
  <2>1. r = Quiet(b)
    BY <1>2 DEF FillPending, r
  <2>2. b = [b EXCEPT !.pending = None, !.closed = b.closed]
    BY <1>2 DEF Books
  <2> QED BY <1>1, <2>1, <2>2 DEF Quiet, Consumed
<1>3. CASE b.pending # None /\ ~(b.pending.kind = "Enter" /\ b.position = None)
           /\ ~(b.pending.kind = "Exit" /\ b.position # None)
  <2>1. r = Quiet([b EXCEPT !.pending = None])
    BY <1>3 DEF FillPending, r
  <2>2. [b EXCEPT !.pending = None] = [b EXCEPT !.pending = None, !.closed = b.closed]
    BY DEF Books
  <2>3. [b EXCEPT !.pending = None] \in Books
    BY DEF Books
  <2> QED BY <1>1, <2>1, <2>2, <2>3 DEF Quiet, Consumed
<1>4. CASE b.pending # None /\ b.pending.kind = "Exit" /\ b.position # None
  <2> DEFINE c == [b EXCEPT !.pending = None]
             exitPrice == ApplyCosts(price, b.position.side, FALSE)
  <2>1. r = Booked(c, exitPrice, time, "SIGNAL")
    BY <1>4 DEF FillPending, r
  <2>2. exitPrice \in Int
    <3>1. b.position.side \in Side
      BY <1>1, <1>4 DEF Positions
    <3>2. exitPrice \in Nat \ {0}
      BY <3>1, CostType
    <3> HIDE DEF exitPrice
    <3> QED BY <3>2
  <2>3. c \in Books /\ c.position # None
    BY <1>4 DEF Books
  <2>4. "SIGNAL" \in ExitKinds
    BY DEF ExitKinds
  <2> HIDE DEF c, exitPrice
  <2>5. r.book \in Books /\ r.opened = FALSE
    BY <2>1, <2>2, <2>3, <2>4, BookedType
  <2>6. ClosedFrom(b, r.book, time)
    <3>1. Exited(c, r.book, exitPrice, time, "SIGNAL")
      BY <2>1, <2>2, <2>3, <2>4, BookedType
    <3> QED BY <1>4, <2>2, <3>1 DEF ClosedFrom, c
  <2> QED BY <2>5, <2>6
<1>5. CASE b.pending # None /\ b.pending.kind = "Enter" /\ b.position = None
  <2>1. r = EnterPending(b, time, price, warm, cut)
    BY <1>5 DEF FillPending, r
  <2> DEFINE c == Judging(b, time)
             p == Opened(b.pending, time, price, warm, b.equity)
             lots == AdvisedLots(p.lots, cut)
             entered == IF b.lastEntry = None THEN time ELSE Larger(b.lastEntry, time)
             q == [p EXCEPT !.lots = lots]
             closed == IF Guarded /\ MaxConcurrent > 0 THEN PrunedDay(b.closed, time)
                       ELSE b.closed
             opens == /\ cut # 0 /\ EntryRefusal(c, time) = None
                      /\ p.risk # 0 /\ ~TooSmall(p.lots) /\ ~TooSmall(lots)
  <2>2. closed \in Seq(Realised)
    BY <1>1, PrunedDayType
  <2> HIDE DEF closed
  <2>3. c = [b EXCEPT !.pending = None, !.closed = closed]
    BY DEF Judging, closed
  <2>4. c \in Books
    BY <2>2, <2>3 DEF Books
  <2>5. b.pending \in Enter
    BY <1>1, <1>5 DEF Intents, Exit
  <2>6. p.lots \in Int /\ p.risk \in Nat
    BY <1>1, <2>5, OpenedType
  <2>7. lots \in Int
    BY <2>6, CutAssumption DEF AdvisedLots, CutAssumption, Cuts
  <2> HIDE DEF c, p, lots, entered
  <2>8. CASE ~opens
    <3>1. \E why : r = Refused(c, why)
      BY <2>1, <2>8 DEF EnterPending, c, p, lots, entered
    <3>2. r.book = c /\ r.opened = FALSE
      BY <3>1 DEF Refused, Quiet
    <3> QED BY <2>2, <2>3, <2>4, <3>2 DEF Consumed
  <2>9. CASE opens
    <3>1. r.book = [c EXCEPT !.position = q, !.lastEntry = entered] /\ r.opened = TRUE
      BY <2>1, <2>9 DEF EnterPending, Quiet, c, p, lots, entered
    <3>2. q \in Positions
      BY <1>1, <2>5, <2>7, <2>9, OpenedType DEF p
    <3>3. q.entryTime = time
      BY DEF p, Opened
    <3>4. /\ entered \in Int /\ entered >= time
          /\ b.lastEntry # None => entered >= b.lastEntry
      BY <1>1 DEF entered, Larger, Level
    <3> HIDE DEF q
    <3>5. r.book = [b EXCEPT !.pending = None, !.closed = closed, !.position = q,
                             !.lastEntry = entered]
      BY <2>3, <3>1 DEF Books
    <3>6. r.book \in Books
      BY <2>4, <3>1, <3>2, <3>4 DEF Books, Level
    <3>7. Guarded => /\ MemoryRefusal(c.closed, c.lastEntry, time) = None
                     /\ b.lastBar # None => CalendarRefusal(b.lastBar.time, time) = None
      <4>1. c.lastBar = b.lastBar
        BY <2>3 DEF Books
      <4> QED BY <2>9, <4>1 DEF EntryRefusal
    <3>8. Guarded /\ b.lastEntry # None => time - b.lastEntry >= Cooldown
      <4>1. c.lastEntry = b.lastEntry
        BY <2>3 DEF Books
      <4>2. Guarded => ~CoolingDown(c.lastEntry, time)
        BY <3>7, NoneAssumption DEF MemoryRefusal, NoneAssumption, Refusals
      <4>3. b.lastEntry # None => b.lastEntry \in Int
        BY <1>1 DEF Level
      <4> QED BY <4>1, <4>2, <4>3, EngineAssumption DEF CoolingDown, EngineAssumption
    <3>9. Guarded /\ b.lastBar # None
            => {b.lastBar.time, time} \cap (WeekendBars \cup NewsBars) = {}
      BY <3>7, NoneAssumption DEF CalendarRefusal, NoneAssumption, Refusals
    <3> QED BY <1>5, <2>2, <3>1, <3>2, <3>3, <3>4, <3>5, <3>6, <3>8, <3>9
            DEF OpenedFrom
  <2> QED BY <2>8, <2>9
<1> QED BY <1>2, <1>3, <1>4, <1>5

-----------------------------------------------------------------------------
(* A level fills at itself or at the open, and leaving costs a spread. *)
LEMMA LeaveType ==
  ASSUME NEW p \in Positions, NEW price \in Int, NEW kind \in ExitKinds
  PROVE  Leave(p, price, kind) \in Exits
<1>1. ApplyCosts(price, p.side, FALSE) \in Int
  BY EngineAssumption, SMT DEF EngineAssumption, ApplyCosts
<1> QED BY <1>1 DEF Leave, Exits

LEMMA FillAtType ==
  ASSUME NEW side, NEW bar \in Bars, NEW level \in Int
  PROVE  FillAt(side, bar, level) \in Int /\ TargetAt(side, bar, level) \in Int
BY DEF FillAt, TargetAt, Bars, Price

(* check_exit and guard_exit answer an exit or nothing. *)
LEMMA BarExitType ==
  ASSUME NEW p \in Positions, NEW bar \in Bars
  PROVE  /\ BarExit(p, bar) \in Exits \cup {None}
         /\ Guarded /\ BarExit(p, bar) = None => bar.time \notin WeekendBars \cup NewsBars
<1> DEFINE level == Worse(p.side, p.entryPrice, MaxOpenLoss * p.risk)
<1>1. bar.close \in Int /\ p.stop \in Level /\ p.target \in Level
  BY DEF Bars, Positions, Price
<1>2. {"STOP", "TARGET", "TIMEOUT", "OPEN_LOSS_CAP", "WEEKEND_FLAT", "NEWS_FLAT"}
        \subseteq ExitKinds
  BY DEF ExitKinds
<1>3. level \in Int
  BY EngineAssumption DEF EngineAssumption, Worse, Positions
<1> HIDE DEF level
<1>4. CheckExit(p, bar) \in Exits \cup {None}
  <2>1. p.stop # None => Leave(p, FillAt(p.side, bar, p.stop), "STOP") \in Exits
    BY <1>1, <1>2, FillAtType, LeaveType DEF Level
  <2>2. p.target # None => Leave(p, TargetAt(p.side, bar, p.target), "TARGET") \in Exits
    BY <1>1, <1>2, FillAtType, LeaveType DEF Level
  <2>3. Leave(p, bar.close, "TIMEOUT") \in Exits
    BY <1>1, <1>2, LeaveType
  <2> QED BY <2>1, <2>2, <2>3 DEF CheckExit
<1>5. /\ GuardExit(p, bar) \in Exits \cup {None}
      /\ GuardExit(p, bar) = None => bar.time \notin WeekendBars \cup NewsBars
  <2>1. Leave(p, FillAt(p.side, bar, level), "OPEN_LOSS_CAP") \in Exits
    BY <1>2, <1>3, FillAtType, LeaveType
  <2>2. /\ Leave(p, bar.close, "WEEKEND_FLAT") \in Exits
        /\ Leave(p, bar.close, "NEWS_FLAT") \in Exits
    BY <1>1, <1>2, LeaveType
  <2> QED BY <2>1, <2>2, NoneAssumption DEF GuardExit, level, NoneAssumption
<1> QED BY <1>4, <1>5 DEF BarExit

(* trail_stop moves the stop, only towards the trade, and nothing else. *)
Tightened(p, q) ==
  /\ q \in Positions
  /\ q = [p EXCEPT !.stop = q.stop]
  /\ p.stop = None <=> q.stop = None
  /\ p.stop # None => Gain(p.side, p.stop, q.stop) >= 0

LEMMA TrailStopTightens ==
  ASSUME NEW p \in Positions, NEW bar \in Bars
  PROVE  Tightened(p, TrailStop(p, bar))
<1> DEFINE best == IF p.side = "Long" THEN Larger(bar.high, p.entryPrice)
                   ELSE Smaller(bar.low, p.entryPrice)
           candidate == Worse(p.side, best, TrailDistance * p.risk)
           q == [p EXCEPT !.stop = candidate]
<1>1. best \in Int
  BY DEF Larger, Smaller, Bars, Positions, Price
<1>2. candidate \in Int
  BY <1>1, EngineAssumption DEF EngineAssumption, Worse, Positions
<1> HIDE DEF candidate
<1>3. Tightened(p, p)
  BY DEF Tightened, Positions, Gain, Level
<1>4. q \in Positions /\ q.stop = candidate /\ q = [p EXCEPT !.stop = q.stop]
  BY <1>2 DEF Positions, Level
<1>5. p.stop # None /\ Gain(p.side, p.stop, candidate) > 0 => Tightened(p, q)
  <2>1. candidate # None
    BY <1>2, EngineAssumption DEF EngineAssumption
  <2>2. p.stop # None => Gain(p.side, p.stop, candidate) \in Int
    BY <1>2 DEF Gain, Positions, Level
  <2> QED BY <1>4, <2>1, <2>2 DEF Tightened
<1>6. TrailStop(p, bar) = p \/ (TrailStop(p, bar) = q /\ p.stop # None
                                 /\ Gain(p.side, p.stop, candidate) > 0)
  BY DEF TrailStop, candidate
<1> QED BY <1>3, <1>5, <1>6

(* The bar a position is managed on is a bar of the same time, or none. *)
LEMMA ManagedBarType ==
  ASSUME NEW since \in Ranges \cup {None}, NEW bar \in Bars
  PROVE  LET m == ManagedBar(since, bar)
         IN  /\ m \in Bars \cup {None}
             /\ m # None => m.time = bar.time
             /\ m = None <=> since # None /\ since.barTime > bar.time
<1>1. since # None => Lived(since, bar) \in Bars /\ Lived(since, bar).time = bar.time
  BY DEF Lived, Bars, Ranges, Smaller, Larger, Price
<1>2. since # None => since.barTime \in Int
  BY DEF Ranges
<1>3. bar.time \in Int
  BY DEF Bars
<1> QED BY <1>1, <1>2, <1>3, NoOrderAssumption DEF ManagedBar, NoOrderAssumption

(* What closing a bar does to a book whose fill is settled: nothing to the
   position, a tighter stop, or an exit. *)
TooLate(b, bar) == b.since # None /\ b.since.barTime > bar.time
Seen(b, bar) == [b EXCEPT !.since = IF TooLate(b, bar) THEN b.since ELSE None,
                          !.lastBar = bar]
Untouched(b, c, bar) == (b.position = None \/ TooLate(b, bar)) /\ c = Seen(b, bar)
HeldOver(b, c, bar) ==
  /\ b.position # None /\ ~TooLate(b, bar)
  /\ Guarded => bar.time \notin WeekendBars \cup NewsBars
  /\ \E q : Tightened(b.position, q) /\ c = [Seen(b, bar) EXCEPT !.position = q]
LeftOn(b, c, bar) ==
  /\ b.position # None /\ ~TooLate(b, bar)
  /\ \E price \in Int, kind \in ExitKinds : Exited(Seen(b, bar), c, price, bar.time, kind)

Managed(b, c, bar) == Untouched(b, c, bar) \/ HeldOver(b, c, bar) \/ LeftOn(b, c, bar)

LEMMA SeenType ==
  ASSUME NEW b \in Books, NEW bar \in Bars
  PROVE  Seen(b, bar) \in Books /\ Seen(b, bar).position = b.position
BY DEF Seen, Books

LEMMA AdvanceCases ==
  ASSUME NEW b \in Books, NEW bar \in Bars, NEW warm \in BOOLEAN, NEW cut \in Cuts
  PROVE  LET f == FillPending(b, bar.time, bar.open, warm, cut).book
             c == Advance(b, bar, warm, cut).book
         IN  c \in Books /\ Managed(f, c, bar)
<1> DEFINE fill == FillPending(b, bar.time, bar.open, warm, cut)
           f == fill.book
           p == f.position
           m == ManagedBar(f.since, bar)
           seen == Seen(f, bar)
           c == Advance(b, bar, warm, cut).book
           exit == BarExit(p, m)
<1> SUFFICES c \in Books /\ Managed(f, c, bar)
  OBVIOUS
<1>1. bar.time \in Int /\ bar.open \in Price
  BY DEF Bars
<1>2. f \in Books
  BY <1>1, FillPendingCases
<1> HIDE DEF fill
<1>3. p \in Positions \cup {None} /\ f.since \in Ranges \cup {None}
  BY <1>2 DEF Books
<1>4. /\ m \in Bars \cup {None}
      /\ m # None => m.time = bar.time
      /\ m = None <=> TooLate(f, bar)
  BY <1>3, ManagedBarType DEF TooLate
<1> HIDE DEF m
<1>5. seen = [f EXCEPT !.since = IF m = None THEN @ ELSE None, !.lastBar = bar]
  BY <1>4 DEF Seen
<1>6. seen \in Books /\ seen.position = p
  BY <1>2, SeenType
<1> HIDE DEF seen
<1>7. CASE p = None \/ m = None
  <2>1. c = seen
    BY <1>5, <1>7 DEF Advance, ManagedAfter, fill, m
  <2>2. Untouched(f, c, bar)
    BY <1>4, <1>7, <2>1 DEF Untouched, seen
  <2> QED BY <1>6, <2>1, <2>2 DEF Managed
<1>8. CASE p # None /\ m # None /\ exit = None
  <2>1. c = [seen EXCEPT !.position = TrailStop(p, m)]
    BY <1>5, <1>8 DEF Advance, ManagedAfter, fill, m
  <2>2. Tightened(p, TrailStop(p, m))
    BY <1>3, <1>4, <1>8, TrailStopTightens
  <2>3. c \in Books
    BY <1>6, <2>1, <2>2 DEF Tightened, Books
  <2>4. Guarded => bar.time \notin WeekendBars \cup NewsBars
    BY <1>3, <1>4, <1>8, BarExitType
  <2>5. HeldOver(f, c, bar)
    BY <1>4, <1>8, <2>1, <2>2, <2>4 DEF HeldOver, seen
  <2> QED BY <2>3, <2>5 DEF Managed
<1>9. CASE p # None /\ m # None /\ exit # None
  <2>1. c = Booked(seen, exit.price, bar.time, exit.kind).book
    BY <1>5, <1>9 DEF Advance, ManagedAfter, fill, m
  <2>2. exit \in Exits
    BY <1>3, <1>4, <1>9, BarExitType
  <2>3. exit.price \in Int /\ exit.kind \in ExitKinds
    BY <2>2 DEF Exits
  <2> HIDE DEF exit
  <2>4. c \in Books /\ Exited(seen, c, exit.price, bar.time, exit.kind)
    BY <1>1, <1>6, <1>9, <2>1, <2>3, BookedType
  <2>5. LeftOn(f, c, bar)
    BY <1>4, <1>9, <2>3, <2>4 DEF LeftOn, seen
  <2> QED BY <2>4, <2>5 DEF Managed
<1> QED BY <1>7, <1>8, <1>9

-----------------------------------------------------------------------------
LEMMA FillConsumes ==
  ASSUME NEW b \in Books, NEW time \in Int, NEW price \in Price,
         NEW warm \in BOOLEAN, NEW cut \in Cuts
  PROVE  FillPending(b, time, price, warm, cut).book.pending = None
<1> DEFINE c == FillPending(b, time, price, warm, cut).book
<1>1. Consumed(b, c) => c.pending = None
  BY DEF Consumed, Books
<1>2. OpenedFrom(b, c, time) => c.pending = None
  BY DEF OpenedFrom, Books
<1>3. ClosedFrom(b, c, time) => c.pending = None
  BY DEF ClosedFrom, Exited, Books
<1> HIDE DEF c
<1>4. Consumed(b, c) \/ OpenedFrom(b, c, time) \/ ClosedFrom(b, c, time)
  BY FillPendingCases DEF c
<1> QED BY <1>1, <1>2, <1>3, <1>4 DEF c

(* fill_open's promise: filling when the bar opens and closing the bar later
   ends in exactly the book that closing the bar alone ends in - the same
   position, trades, equity and memory - whatever the ATR or the advisor say
   by the time the close arrives. *)
THEOREM OpenThenClose ==
  ASSUME NEW b \in Books, NEW bar \in Bars, b.lastBar # None, b.lastBar.time < bar.time,
         NEW warm \in BOOLEAN, NEW cut \in Cuts, NEW warmLater \in BOOLEAN, NEW cutLater \in Cuts
  PROVE  Advance(FillOpen(b, bar.time, bar.open, warm, cut).book, bar, warmLater, cutLater).book
           = Advance(b, bar, warm, cut).book
<1> DEFINE f == FillPending(b, bar.time, bar.open, warm, cut)
<1>1. bar.time \in Int /\ bar.open \in Price /\ b.lastBar.time \in Int
  BY DEF Bars, Books
<1>2. FillOpen(b, bar.time, bar.open, warm, cut) = f
  BY <1>1 DEF FillOpen
<1>3. f.book.pending = None
  BY <1>1, FillConsumes
<1> HIDE DEF f
<1>4. FillPending(f.book, bar.time, bar.open, warmLater, cutLater) = Quiet(f.book)
  BY <1>3 DEF FillPending
<1>5. Quiet(f.book).book = f.book
  BY DEF Quiet
<1>6. Advance(f.book, bar, warmLater, cutLater).book = Advance(b, bar, warm, cut).book
  BY <1>4, <1>5 DEF Advance, ManagedAfter, f
<1> QED BY <1>2, <1>6

LEMMA CutShrinks ==
  ASSUME NEW lots \in Nat, NEW cut \in Cuts
  PROVE  AdvisedLots(lots, cut) \in Nat /\ AdvisedLots(lots, cut) <= lots
<1>1. cut \in Nat /\ cut <= CutUnit /\ CutUnit \in Nat \ {0}
  BY CutAssumption DEF CutAssumption, Cuts
<1>2. lots * cut <= lots * CutUnit
  BY <1>1
<1>3. lots * cut \in Nat /\ lots * CutUnit \in Nat
  BY <1>1
<1>4. (lots * cut) \div CutUnit \in Nat /\ ((lots * cut) \div CutUnit) * CutUnit <= lots * cut
  BY <1>1, <1>3
<1>5. (lots * cut) \div CutUnit <= lots
  <2> DEFINE d == (lots * cut) \div CutUnit
  <2>1. d \in Nat
    BY <1>4
  <2>2. d * CutUnit <= lots * cut
    BY <1>4
  <2> HIDE DEF d
  <2>3. d * CutUnit \in Nat
    BY <1>1, <2>1
  <2>4. ~(d >= lots + 1)
    <3>1. SUFFICES ASSUME d >= lots + 1 PROVE FALSE
      OBVIOUS
    <3>2. d * CutUnit >= (lots + 1) * CutUnit
      BY <1>1, <2>1, <3>1
    <3>3. (lots + 1) * CutUnit = lots * CutUnit + CutUnit
      BY <1>1
    <3> QED BY <1>1, <1>2, <1>3, <2>2, <2>3, <3>2, <3>3
  <2>5. d <= lots
    BY <2>1, <2>4
  <2> QED BY <2>5 DEF d
<1> QED BY <1>1, <1>4, <1>5 DEF AdvisedLots

(* Advice: for every book, a verdict opens only what the unadvised fill would
   open, on the same terms and with no more lots. *)
LEMMA AdviceShrinks ==
  ASSUME NEW b \in Books, NEW time \in Int, NEW price \in Price,
         NEW warm \in BOOLEAN, NEW cut \in Cuts,
         FillPending(b, time, price, warm, cut).opened
  PROVE  LET p == FillPending(b, time, price, warm, cut).book.position
             r == FillPending(b, time, price, warm, NoAdvice)
         IN  /\ r.opened
             /\ p = [r.book.position EXCEPT !.lots = p.lots]
             /\ p.lots <= r.book.position.lots
<1> DEFINE r == FillPending(b, time, price, warm, NoAdvice)
           s == FillPending(b, time, price, warm, cut)
           c == Judging(b, time)
           o == Opened(b.pending, time, price, warm, b.equity)
           lots == AdvisedLots(o.lots, cut)
           entered == IF b.lastEntry = None THEN time ELSE Larger(b.lastEntry, time)
<1>1. NoAdvice \in Cuts /\ CutUnit \in Nat \ {0} /\ NoAdvice # 0 /\ cut \in Nat /\ cut <= CutUnit
  BY CutAssumption DEF CutAssumption, NoAdvice, Cuts
<1>2. b.pending \in Enter /\ b.position = None /\ b.pending # None /\ b.pending.kind = "Enter"
  <2>1. OpenedFrom(b, s.book, time)
    BY FillPendingCases
  <2>2. b.pending \in Intents \cup {None}
    BY DEF Books
  <2> QED BY <2>1, <2>2 DEF OpenedFrom, Intents, Exit
<1>3. /\ s = EnterPending(b, time, price, warm, cut)
      /\ r = EnterPending(b, time, price, warm, NoAdvice)
  BY <1>2 DEF FillPending
<1>4. b.equity \in Int
  BY DEF Books
<1>5. o.lots \in Int /\ o.risk \in Nat
  BY <1>2, <1>4, OpenedType
<1> HIDE DEF c, o, lots, entered
<1>6. /\ cut # 0 /\ EntryRefusal(c, time) = None /\ o.risk # 0
      /\ ~TooSmall(o.lots) /\ ~TooSmall(lots)
      /\ s.book = [c EXCEPT !.position = [o EXCEPT !.lots = lots], !.lastEntry = entered]
  BY <1>3 DEF EnterPending, Refused, Quiet, c, o, lots, entered
<1>7. o.lots \in Nat
  BY <1>5, <1>6, EngineAssumption DEF TooSmall, EngineAssumption
<1>8. AdvisedLots(o.lots, NoAdvice) = o.lots
  BY <1>1 DEF AdvisedLots, NoAdvice
<1>9. /\ r.opened = TRUE
      /\ r.book = [c EXCEPT !.position = [o EXCEPT !.lots = o.lots], !.lastEntry = entered]
  BY <1>1, <1>3, <1>6, <1>8 DEF EnterPending, Refused, Quiet, c, o, entered
<1>10. lots <= o.lots
  BY <1>7, CutShrinks DEF lots
<1>11. s.book.position = [o EXCEPT !.lots = lots] /\ r.book.position = [o EXCEPT !.lots = o.lots]
  <2>1. c = [b EXCEPT !.pending = None, !.closed = c.closed]
    BY DEF c, Judging, Books
  <2> QED BY <1>6, <1>9, <2>1 DEF Books
<1>12. o = [side |-> o.side, entryTime |-> o.entryTime, entryPrice |-> o.entryPrice,
            stop |-> o.stop, target |-> o.target, lots |-> o.lots, risk |-> o.risk,
            decided |-> o.decided]
  BY DEF o, Opened
<1>13. /\ s.book.position = [r.book.position EXCEPT !.lots = s.book.position.lots]
       /\ s.book.position.lots = lots /\ r.book.position.lots = o.lots
  BY <1>11, <1>12
<1> QED BY <1>9, <1>10, <1>13

-----------------------------------------------------------------------------
(* What a report says of the trades, and the book it comes with: nothing was
   closed, or one trade, which is the last of the book's and in its equity. *)
Tallied(b, r, time) ==
  \/ r.trades = << >> /\ r.book.trades = b.trades /\ r.book.equity = b.equity
  \/ /\ b.position # None \/ b.pending # None
     /\ \E t \in Trades : /\ t.exitTime = time /\ r.trades = <<t>>
                          /\ r.book.trades = Append(b.trades, t)
                          /\ r.book.equity = b.equity + t.pnl

LEMMA BookedTally ==
  ASSUME NEW b \in Books, b.position # None, NEW price \in Int, NEW time \in Int,
         NEW kind \in ExitKinds
  PROVE  /\ Tallied(b, Booked(b, price, time, kind), time)
         /\ Booked(b, price, time, kind).book.position = None
<1> DEFINE t == Closed(b.position, price, time, kind)
           r == Booked(b, price, time, kind)
<1>1. t \in Trades /\ t.exitTime = time
  <2>1. b.position \in Positions
    BY DEF Books
  <2> QED BY <2>1, ClosedType DEF Closed
<1>2. r.trades = <<t>> /\ Exited(b, r.book, price, time, kind)
  BY BookedType DEF Booked, Quiet
<1> HIDE DEF r
<1>3. r.book.trades = Append(b.trades, t) /\ r.book.equity = b.equity + t.pnl
      /\ r.book.position = None
  BY <1>2 DEF Exited, Books
<1> QED BY <1>1, <1>2, <1>3 DEF Tallied, r

(* fill_pending closes at most one trade, and only on an Exit. *)
LEMMA FillTally ==
  ASSUME NEW b \in Books, NEW time \in Int, NEW price \in Price,
         NEW warm \in BOOLEAN, NEW cut \in Cuts
  PROVE  LET r == FillPending(b, time, price, warm, cut)
         IN  /\ Tallied(b, r, time)
             /\ r.trades # << >> => r.book.position = None
             /\ b.pending # None /\ b.pending.kind = "Enter" => r.trades = << >>
<1> DEFINE r == FillPending(b, time, price, warm, cut)
<1> SUFFICES /\ Tallied(b, r, time)
             /\ r.trades # << >> => r.book.position = None
             /\ b.pending # None /\ b.pending.kind = "Enter" => r.trades = << >>
  OBVIOUS
<1>1. CASE b.pending # None /\ b.pending.kind = "Exit" /\ b.position # None
  <2> DEFINE c == [b EXCEPT !.pending = None]
             exitPrice == ApplyCosts(price, b.position.side, FALSE)
  <2>1. r = Booked(c, exitPrice, time, "SIGNAL")
    BY <1>1 DEF FillPending
  <2>2. exitPrice \in Int /\ "SIGNAL" \in ExitKinds
    <3>1. b.position.side \in Side
      BY <1>1 DEF Books, Positions
    <3>2. exitPrice \in Nat \ {0}
      BY <3>1, CostType
    <3> HIDE DEF exitPrice
    <3> QED BY <3>2 DEF ExitKinds
  <2>3. c \in Books /\ c.position # None /\ c.trades = b.trades /\ c.equity = b.equity
    BY <1>1 DEF Books
  <2> HIDE DEF c, exitPrice, r
  <2>4. Tallied(c, r, time) /\ r.book.position = None
    BY <2>1, <2>2, <2>3, BookedTally
  <2>5. Tallied(b, r, time)
    BY <1>1, <2>3, <2>4 DEF Tallied
  <2> QED BY <1>1, <2>4, <2>5
<1>2. CASE ~(b.pending # None /\ b.pending.kind = "Exit" /\ b.position # None)
  <2>1. r.trades = << >>
    BY <1>2 DEF FillPending, EnterPending, Refused, Quiet
  <2>2. Consumed(b, r.book) \/ OpenedFrom(b, r.book, time)
    <3>1. ~ClosedFrom(b, r.book, time)
      BY <1>2 DEF ClosedFrom
    <3> QED BY <3>1, FillPendingCases
  <2> HIDE DEF r
  <2>3. r.book.trades = b.trades /\ r.book.equity = b.equity
    BY <2>2 DEF Consumed, OpenedFrom, Books
  <2> QED BY <2>1, <2>3 DEF Tallied
<1> QED BY <1>1, <1>2

(* advance: a bar closes at most one trade, and none of a book with nothing to
   fill or hold. *)
LEMMA AdvanceTally ==
  ASSUME NEW b \in Books, NEW bar \in Bars, NEW warm \in BOOLEAN, NEW cut \in Cuts
  PROVE  /\ Tallied(b, Advance(b, bar, warm, cut), bar.time)
         /\ Advance(b, bar, warm, cut).book \in Books
         /\ Advance(b, bar, warm, cut).book.lastBar = bar
         /\ Advance(b, bar, warm, cut).book.order = b.order
<1> DEFINE fill == FillPending(b, bar.time, bar.open, warm, cut)
           f == fill.book
           p == f.position
           m == ManagedBar(f.since, bar)
           seen == [f EXCEPT !.since = IF m = None THEN @ ELSE None, !.lastBar = bar]
           r == Advance(b, bar, warm, cut)
           exit == BarExit(p, m)
<1> SUFFICES /\ Tallied(b, r, bar.time)
             /\ r.book \in Books /\ r.book.lastBar = bar /\ r.book.order = b.order
  OBVIOUS
<1>1. bar.time \in Int /\ bar.open \in Price
  BY DEF Bars
<1>2. /\ f \in Books /\ f.order = b.order /\ Tallied(b, fill, bar.time)
      /\ fill.trades # << >> => p = None
      /\ p # None => b.position # None \/ b.pending # None
  <2>1. f \in Books /\ Tallied(b, fill, bar.time) /\ (fill.trades # << >> => p = None)
        /\ (Consumed(b, f) \/ OpenedFrom(b, f, bar.time) \/ ClosedFrom(b, f, bar.time))
    BY <1>1, FillPendingCases, FillTally
  <2> HIDE DEF fill
  <2>2. Consumed(b, f) => f.order = b.order /\ p = b.position
    BY DEF Consumed, Books
  <2>3. OpenedFrom(b, f, bar.time) => f.order = b.order /\ b.pending # None
    BY DEF OpenedFrom, Books
  <2>4. ClosedFrom(b, f, bar.time) => f.order = b.order /\ p = None
    BY DEF ClosedFrom, Exited, Books
  <2> QED BY <2>1, <2>2, <2>3, <2>4
<1>3. r = IF p = None \/ m = None THEN [fill EXCEPT !.book = seen]
          ELSE IF exit = None THEN [fill EXCEPT !.book = [seen EXCEPT !.position = TrailStop(p, m)]]
          ELSE [fill EXCEPT !.book = Booked(seen, exit.price, bar.time, exit.kind).book,
                            !.trades = @ \o Booked(seen, exit.price, bar.time, exit.kind).trades]
  BY DEF Advance, ManagedAfter
<1>4. fill = [book |-> f, trades |-> fill.trades, opened |-> fill.opened, refused |-> fill.refused]
  BY DEF FillPending, EnterPending, Booked, Refused, Quiet
<1>5. r.book \in Books /\ Managed(f, r.book, bar)
  BY AdvanceCases
<1>6. p \in Positions \cup {None} /\ f.since \in Ranges \cup {None}
  BY <1>2 DEF Books
<1> HIDE DEF fill, r
<1>7. r.book.lastBar = bar /\ r.book.order = b.order
  <2>1. Seen(f, bar) \in Books
    BY <1>2, SeenType
  <2>2. Seen(f, bar).order = b.order /\ Seen(f, bar).lastBar = bar
    BY <1>2 DEF Seen, Books
  <2> QED BY <1>2, <1>5, <2>1, <2>2 DEF Managed, Untouched, HeldOver, LeftOn, Exited, Books
<1>8. CASE p = None \/ m = None \/ exit = None
  <2>1. r.trades = fill.trades /\ r.book.trades = f.trades /\ r.book.equity = f.equity
    <3>1. seen.trades = f.trades /\ seen.equity = f.equity
      BY <1>2 DEF Books
    <3>2. [seen EXCEPT !.position = TrailStop(p, m)].trades = f.trades
          /\ [seen EXCEPT !.position = TrailStop(p, m)].equity = f.equity
      BY <1>2 DEF Books
    <3> HIDE DEF seen
    <3> QED BY <1>3, <1>4, <1>8, <3>1, <3>2
  <2> QED BY <1>2, <1>5, <1>7, <2>1 DEF Tallied
<1>9. CASE ~(p = None \/ m = None \/ exit = None)
  <2> DEFINE left == Booked(seen, exit.price, bar.time, exit.kind)
  <2>1. fill.trades = << >>
    BY <1>2, <1>9
  <2>2. m \in Bars /\ m # None
    BY <1>6, <1>9, ManagedBarType
  <2> HIDE DEF m
  <2>3. exit \in Exits
    BY <1>6, <1>9, <2>2, BarExitType
  <2>4. exit.price \in Int /\ exit.kind \in ExitKinds
    BY <2>3 DEF Exits
  <2> HIDE DEF exit
  <2>5. seen \in Books /\ seen.position = p /\ seen.trades = f.trades /\ seen.equity = f.equity
    BY <1>2, <2>2 DEF Books
  <2>6. Tallied(seen, left, bar.time)
    BY <1>1, <1>9, <2>4, <2>5, BookedTally
  <2>7. \E t : left.trades = <<t>>
    BY DEF Booked
  <2> HIDE DEF left, seen
  <2>8. r.book = left.book /\ r.trades = << >> \o left.trades
    BY <1>3, <1>4, <1>9, <2>1 DEF left
  <2>9. r.trades = left.trades
    BY <2>7, <2>8
  <2>10. b.position # None \/ b.pending # None
    BY <1>2, <1>9
  <2>11. f.trades = b.trades /\ f.equity = b.equity
    BY <1>2, <2>1 DEF Tallied
  <2> QED BY <1>5, <1>7, <2>5, <2>6, <2>8, <2>9, <2>10, <2>11 DEF Tallied
<1> QED BY <1>8, <1>9

-----------------------------------------------------------------------------
(* The methods that leave position, trades and equity alone. *)
Kept(b, c) ==
  /\ c \in Books /\ c.position = b.position /\ c.trades = b.trades /\ c.equity = b.equity
  /\ c.closed = b.closed /\ c.lastEntry = b.lastEntry /\ c.lastBar = b.lastBar

LEMMA CancelOrderKeeps ==
  ASSUME NEW b \in Books
  PROVE  /\ Kept(b, CancelOrder(b)) /\ CancelOrder(b).order = None
         /\ CancelOrder(b).pending = b.pending /\ CancelOrder(b).since = b.since
BY DEF CancelOrder, Kept, Books

LEMMA DecideKeeps ==
  ASSUME NEW b \in Books, NEW d \in Intents \cup {None}
  PROVE  /\ Kept(b, Decide(b, d)) /\ Decide(b, d).pending = d
         /\ Decide(b, d).order = b.order /\ Decide(b, d).since = b.since
BY DEF Decide, Kept, Books

LEMMA PlaceOrderKeeps ==
  ASSUME NEW b \in Books, NEW o \in Orders
  PROVE  /\ Kept(b, PlaceOrder(b, o)) /\ PlaceOrder(b, o).pending = None
         /\ PlaceOrder(b, o).order = o /\ PlaceOrder(b, o).since = b.since
BY DEF PlaceOrder, Kept, Books

(* A resting order only counts the bar, or is given up. *)
LEMMA OrderSawBarCloseKeeps ==
  ASSUME NEW b \in Books
  PROVE  LET c == OrderSawBarClose(b)
         IN  /\ Kept(b, c) /\ c.pending = b.pending /\ c.since = b.since
             /\ \/ c.order = None
                \/ b.order # None /\ c.order = [b.order EXCEPT !.waited = b.order.waited + 1]
<1> DEFINE w == [b.order EXCEPT !.waited = b.order.waited + 1]
           c == OrderSawBarClose(b)
<1> SUFFICES /\ Kept(b, c) /\ c.pending = b.pending /\ c.since = b.since
             /\ c.order = None \/ (b.order # None /\ c.order = w)
  OBVIOUS
<1>1. b.order # None => w \in Orders
  <2>1. b.order # None => b.order \in Orders /\ b.order.waited + 1 \in Nat
    BY DEF Books, Orders
  <2> QED BY <2>1 DEF Orders
<1>2. \/ c = b /\ b.order = None
      \/ c = CancelOrder(b)
      \/ b.order # None /\ c = [b EXCEPT !.order = w]
  BY DEF OrderSawBarClose
<1> HIDE DEF w, c
<1>3. CASE c = CancelOrder(b)
  BY <1>3, CancelOrderKeeps
<1>4. CASE c = b /\ b.order = None
  BY <1>4 DEF Kept
<1>5. CASE b.order # None /\ c = [b EXCEPT !.order = w]
  BY <1>1, <1>5 DEF Kept, Books
<1> QED BY <1>2, <1>3, <1>4, <1>5

LEMMA ObserveTickKeeps ==
  ASSUME NEW b \in Books, NEW time \in Int, NEW last \in Price
  PROVE  LET c == ObserveTick(b, time, last)
         IN  Kept(b, c) /\ c.pending = b.pending /\ c.order = b.order
             /\ (b.since = None => c = b)
<1> DEFINE r == [b.since EXCEPT !.high = Larger(b.since.high, last), !.low = Smaller(b.since.low, last)]
           c == ObserveTick(b, time, last)
<1>1. b.since # None => r \in Ranges
  <2>1. b.since # None => b.since \in Ranges
    BY DEF Books
  <2> QED BY <2>1 DEF Ranges, Larger, Smaller, Price
<1>2. c = b \/ (b.since # None /\ c = [b EXCEPT !.since = r])
  BY DEF ObserveTick, Books
<1> HIDE DEF r, c
<1>3. Kept(b, c) /\ c.pending = b.pending /\ c.order = b.order /\ (b.since = None => c = b)
  BY <1>1, <1>2 DEF Kept, Books
<1> QED BY <1>3 DEF c

(* fill_order enters or not: it closes nothing, and the order is gone. *)
LEMMA FillOrderKeeps ==
  ASSUME NEW b \in Books, b.order # None, b.position = None,
         NEW time \in Int, NEW price \in Price, NEW last \in Price,
         NEW warm \in BOOLEAN, NEW cut \in Cuts
  PROVE  LET c == FillOrder(b, time, price, last, warm, cut).book
         IN  /\ c \in Books /\ c.trades = b.trades /\ c.equity = b.equity
             /\ c.lastBar = b.lastBar /\ c.order = None /\ c.pending = None
             /\ c.position # None => c.position.entryTime = time
<1> DEFINE o == b.order
           intent == [kind |-> "Enter", side |-> o.side, stop |-> o.stop,
                      target |-> o.target, decided |-> o.decided]
           e == [b EXCEPT !.order = None, !.pending = intent]
           r == FillPending(e, time, price, warm, cut)
           range == [barTime |-> time, open |-> last, high |-> last, low |-> last]
           c == FillOrder(b, time, price, last, warm, cut).book
<1>1. intent \in Intents /\ intent.kind = "Enter" /\ intent # None
  <2>1. o \in Orders
    BY DEF Books
  <2>2. intent \in Intents
    BY <2>1 DEF Orders, Intents, Enter
  <2> QED BY <2>2, NoneAssumption DEF NoneAssumption
<1>2. range \in Ranges
  BY DEF Ranges
<1>3. c = IF r.opened THEN [r.book EXCEPT !.since = range] ELSE r.book
  BY DEF FillOrder
<1> HIDE DEF intent, range, c
<1>4. /\ e \in Books /\ e.order = None /\ e.position = None /\ e.pending = intent
      /\ e.trades = b.trades /\ e.equity = b.equity /\ e.lastBar = b.lastBar
  BY <1>1 DEF Books
<1> HIDE DEF e
<1>5. /\ r.book \in Books /\ r.book.pending = None /\ Tallied(e, r, time) /\ r.trades = << >>
      /\ Consumed(e, r.book) \/ OpenedFrom(e, r.book, time)
  <2>1. ~ClosedFrom(e, r.book, time)
    BY <1>4 DEF ClosedFrom
  <2>2. r.book \in Books /\ (Consumed(e, r.book) \/ OpenedFrom(e, r.book, time))
    BY <1>4, <2>1, FillPendingCases
  <2>3. Tallied(e, r, time) /\ r.trades = << >>
    BY <1>1, <1>4, FillTally
  <2>4. r.book.pending = None
    BY <1>4, FillConsumes
  <2> HIDE DEF r
  <2> QED BY <2>2, <2>3, <2>4
<1> HIDE DEF r
<1>6. /\ r.book.order = None /\ r.book.lastBar = b.lastBar
      /\ r.book.position # None => r.book.position.entryTime = time
  BY <1>4, <1>5 DEF Consumed, OpenedFrom, Books
<1>7. r.book.trades = b.trades /\ r.book.equity = b.equity
  BY <1>4, <1>5 DEF Tallied
<1>8. /\ c \in Books /\ c.trades = r.book.trades /\ c.equity = r.book.equity
      /\ c.lastBar = r.book.lastBar /\ c.order = r.book.order /\ c.pending = r.book.pending
      /\ c.position = r.book.position
  BY <1>2, <1>3, <1>5 DEF Books
<1> QED BY <1>5, <1>6, <1>7, <1>8 DEF c

(* fill_open, over a book whose intent is an entry. *)
LEMMA FillOpenKeeps ==
  ASSUME NEW b \in Books, NEW time \in Int, NEW price \in Price,
         NEW warm \in BOOLEAN, NEW cut \in Cuts
  PROVE  LET c == FillOpen(b, time, price, warm, cut).book
         IN  /\ c \in Books /\ c.lastBar = b.lastBar /\ c.order = b.order
             /\ c.pending \in {None, b.pending}
             /\ b.lastBar = None => c = b
             /\ (b.pending # None => b.pending.kind = "Enter")
                  => c.trades = b.trades /\ c.equity = b.equity
             /\ b.position = None /\ c.position # None
                  => c.position.entryTime = time /\ b.lastBar # None /\ time > b.lastBar.time
<1> DEFINE r == FillPending(b, time, price, warm, cut)
           c == FillOpen(b, time, price, warm, cut).book
<1>1. /\ r.book \in Books /\ r.book.pending = None /\ Tallied(b, r, time)
      /\ b.pending # None /\ b.pending.kind = "Enter" => r.trades = << >>
      /\ Consumed(b, r.book) \/ OpenedFrom(b, r.book, time) \/ ClosedFrom(b, r.book, time)
  BY FillPendingCases, FillTally, FillConsumes
<1>2. b.pending = None => r.book = b
  BY DEF FillPending, Quiet
<1>3. \/ c = b
      \/ b.lastBar # None /\ ~(time <= b.lastBar.time) /\ c = r.book
  BY DEF FillOpen, Quiet
<1>4. b.lastBar = None => c = b
  BY DEF FillOpen, Quiet
<1>5. b.lastBar # None => b.lastBar.time \in Int
  BY DEF Books, Bars
<1> HIDE DEF r, c
<1>6. r.book.lastBar = b.lastBar /\ r.book.order = b.order
      /\ (b.position = None /\ r.book.position # None => r.book.position.entryTime = time)
  <2>1. CASE Consumed(b, r.book)
    BY <2>1 DEF Consumed, Books
  <2>2. CASE OpenedFrom(b, r.book, time)
    BY <2>2 DEF OpenedFrom, Books
  <2>3. CASE ClosedFrom(b, r.book, time)
    BY <2>3 DEF ClosedFrom, Exited, Books
  <2> QED BY <1>1, <2>1, <2>2, <2>3
<1>7. (b.pending # None => b.pending.kind = "Enter")
        => r.book.trades = b.trades /\ r.book.equity = b.equity
  <2>1. CASE b.pending = None
    BY <1>2, <2>1
  <2>2. CASE b.pending # None /\ b.pending.kind = "Enter"
    <3>1. r.trades = << >> /\ \A t : <<t>> # << >>
      BY <1>1, <2>2
    <3> QED BY <1>1, <3>1 DEF Tallied
  <2> QED BY <2>1, <2>2
<1>8. /\ c \in Books /\ c.lastBar = b.lastBar /\ c.order = b.order
      /\ c.pending \in {None, b.pending}
      /\ b.lastBar = None => c = b
      /\ (b.pending # None => b.pending.kind = "Enter")
           => c.trades = b.trades /\ c.equity = b.equity
      /\ b.position = None /\ c.position # None
           => c.position.entryTime = time /\ b.lastBar # None /\ time > b.lastBar.time
  BY <1>1, <1>3, <1>4, <1>5, <1>6, <1>7
<1> QED BY <1>8 DEF c

LEMMA StopBookType ==
  ASSUME NEW b \in Books
  PROVE  StopBook(b).book \in Books
<1> DEFINE c == [b EXCEPT !.pending = None, !.order = None, !.since = None]
           price == ApplyCosts(b.lastBar.close, b.position.side, FALSE)
<1>1. c \in Books /\ c.position = b.position
  BY DEF Books
<1>2. CASE b.lastBar = None \/ b.position = None
  BY <1>1, <1>2 DEF StopBook, Quiet
<1>3. CASE b.lastBar # None /\ b.position # None
  <2>1. b.lastBar.time \in Int /\ b.lastBar.close \in Price /\ b.position.side \in Side
    BY <1>3 DEF Books, Bars, Positions
  <2>2. price \in Nat \ {0}
    BY <2>1, CostType
  <2>3. StopBook(b) = Booked(c, price, b.lastBar.time, "STOPPED")
    BY <1>3 DEF StopBook
  <2> HIDE DEF c, price
  <2>4. price \in Int /\ "STOPPED" \in ExitKinds
    BY <2>2 DEF ExitKinds
  <2>5. Booked(c, price, b.lastBar.time, "STOPPED").book \in Books
    BY <1>1, <1>3, <2>1, <2>4, BookedType
  <2> QED BY <2>3, <2>5
<1> QED BY <1>2, <1>3

(* advance: a book that held nothing and holds a position after the bar entered
   it at the bar's open. *)
LEMMA AdvanceEnters ==
  ASSUME NEW b \in Books, NEW bar \in Bars, NEW warm \in BOOLEAN, NEW cut \in Cuts,
         b.position = None, Advance(b, bar, warm, cut).book.position # None
  PROVE  Advance(b, bar, warm, cut).book.position.entryTime = bar.time
<1> DEFINE f == FillPending(b, bar.time, bar.open, warm, cut).book
           c == Advance(b, bar, warm, cut).book
<1>1. c \in Books /\ Managed(f, c, bar)
  BY AdvanceCases
<1>2. f \in Books /\ (Consumed(b, f) \/ OpenedFrom(b, f, bar.time) \/ ClosedFrom(b, f, bar.time))
  <2>1. bar.time \in Int /\ bar.open \in Price
    BY DEF Bars
  <2> QED BY <2>1, FillPendingCases
<1> HIDE DEF f, c
<1> SUFFICES ASSUME c.position # None PROVE c.position.entryTime = bar.time
  BY DEF c
<1>3. f.position # None /\ c.position.entryTime = f.position.entryTime
  <2>1. CASE Untouched(f, c, bar)
    <3>1. c.position = f.position
      BY <1>2, <2>1, SeenType DEF Untouched
    <3> QED BY <3>1
  <2>2. CASE HeldOver(f, c, bar)
    <3>1. PICK q : Tightened(f.position, q) /\ c = [Seen(f, bar) EXCEPT !.position = q]
      BY <2>2 DEF HeldOver
    <3>2. c.position = q
      BY <1>2, <3>1, SeenType DEF Books
    <3>3. f.position # None /\ f.position \in Positions
      BY <1>2, <2>2 DEF HeldOver, Books
    <3>4. q.entryTime = f.position.entryTime
      BY <3>1, <3>3 DEF Tightened, Positions
    <3> QED BY <3>2, <3>3, <3>4
  <2>3. CASE LeftOn(f, c, bar)
    <3>1. c.position = None
      BY <1>2, <2>3, SeenType DEF LeftOn, Exited, Books
    <3> QED BY <3>1
  <2> QED BY <1>1, <2>1, <2>2, <2>3 DEF Managed
<1>4. OpenedFrom(b, f, bar.time)
  BY <1>2, <1>3 DEF Consumed, ClosedFrom, Books
<1> QED BY <1>3, <1>4 DEF OpenedFrom, Books

(* What the methods return is a report. *)
LEMMA AdvanceReports ==
  ASSUME NEW b, NEW bar, NEW warm, NEW cut
  PROVE  DOMAIN Advance(b, bar, warm, cut) = {"book", "trades", "opened", "refused"}
<1> DEFINE fields == {"book", "trades", "opened", "refused"}
           fill == FillPending(b, bar.time, bar.open, warm, cut)
<1>1. \A c : DOMAIN Quiet(c) = fields
  BY DEF Quiet
<1>2. \A c, why : DOMAIN Refused(c, why) = fields
  BY <1>1 DEF Refused
<1>3. \A c, price, time, kind : DOMAIN Booked(c, price, time, kind) = fields
  BY <1>1 DEF Booked
<1>4. DOMAIN EnterPending(b, bar.time, bar.open, warm, cut) = fields
  BY <1>1, <1>2 DEF EnterPending
<1>5. DOMAIN fill = fields
  BY <1>1, <1>3, <1>4 DEF FillPending
<1> HIDE DEF fill
<1>6. \A bar2 : DOMAIN ManagedAfter(fill, bar2) = fields
  BY <1>5 DEF ManagedAfter
<1> QED BY <1>6 DEF Advance, fill

-----------------------------------------------------------------------------
(* DayPnl as the running sum its definition builds. *)
RunningSum(f, s, n) == f = [i \in 0..n |-> IF i = 0 THEN 0 ELSE f[i - 1] + s[i].pnl]

LEMMA RunningSumExists ==
  ASSUME NEW s, NEW n \in Nat
  PROVE  \E f : RunningSum(f, s, n)
<1> DEFINE T == {k \in Nat : ~\E f : RunningSum(f, s, k)}
<1> SUFFICES ASSUME T # {} PROVE FALSE
  OBVIOUS
<1>1. PICK k \in T : \A j \in T : k <= j
  <2>1. T \subseteq Nat
    OBVIOUS
  <2> HIDE DEF T
  <2> QED BY <2>1, FirstOf
<1>2. k # 0
  <2>1. RunningSum([i \in 0..0 |-> 0], s, 0)
    BY DEF RunningSum
  <2> QED BY <1>1, <2>1
<1>3. PICK f : RunningSum(f, s, k - 1)
  BY <1>1, <1>2
<1> DEFINE g == [i \in 0..k |-> IF i = k THEN f[k - 1] + s[k].pnl ELSE f[i]]
<1>4. RunningSum(g, s, k)
  <2>1. \A i \in 0..(k - 1) : g[i] = f[i]
    BY <1>1, <1>2
  <2>2. \A i \in 0..(k - 1) : f[i] = IF i = 0 THEN 0 ELSE f[i - 1] + s[i].pnl
    BY <1>3 DEF RunningSum
  <2>3. g = [i \in 0..k |-> g[i]]
    OBVIOUS
  <2>4. \A i \in 0..k : g[i] = IF i = 0 THEN 0 ELSE g[i - 1] + s[i].pnl
    <3> SUFFICES ASSUME NEW i \in 0..k PROVE g[i] = IF i = 0 THEN 0 ELSE g[i - 1] + s[i].pnl
      OBVIOUS
    <3>1. CASE i = k
      <4>1. g[i] = f[k - 1] + s[k].pnl /\ g[k - 1] = f[k - 1] /\ i # 0
        BY <1>1, <1>2, <2>1, <3>1
      <4> HIDE DEF g
      <4> QED BY <3>1, <4>1
    <3>2. CASE i # k
      <4>1. i \in 0..(k - 1) /\ (i # 0 => i - 1 \in 0..(k - 1))
        BY <1>1, <3>2
      <4> HIDE DEF g
      <4> QED BY <2>1, <2>2, <4>1
    <3> QED BY <3>1, <3>2
  <2> HIDE DEF g
  <2> QED BY <2>3, <2>4 DEF RunningSum
<1> QED BY <1>1, <1>4

LEMMA DayPnlIsASum ==
  ASSUME NEW s
  PROVE  Len(s) \in Nat => \E f : RunningSum(f, s, Len(s)) /\ DayPnl(s) = f[Len(s)]
<1> SUFFICES ASSUME Len(s) \in Nat
             PROVE  \E f : RunningSum(f, s, Len(s)) /\ DayPnl(s) = f[Len(s)]
  OBVIOUS
<1> DEFINE g == CHOOSE f : RunningSum(f, s, Len(s))
<1>1. RunningSum(g, s, Len(s))
  BY RunningSumExists
<1>2. DayPnl(s) = g[Len(s)]
  BY DEF DayPnl, RunningSum
<1> QED BY <1>1, <1>2

LEMMA DayPnlOfNothing == DayPnl(<< >>) = 0
<1>1. Len(<< >>) = 0
  OBVIOUS
<1>2. PICK f : RunningSum(f, << >>, 0) /\ DayPnl(<< >>) = f[0]
  BY <1>1, DayPnlIsASum
<1> QED BY <1>2 DEF RunningSum

(* One more close adds its profit. *)
LEMMA DayPnlOfAppend ==
  ASSUME NEW S, NEW s \in Seq(S), NEW t \in S
  PROVE  DayPnl(Append(s, t)) = DayPnl(s) + t.pnl
<1> DEFINE n == Len(s)
           u == Append(s, t)
<1>1. n \in Nat /\ Len(u) = n + 1 /\ u[n + 1] = t /\ \A i \in 1..n : u[i] = s[i]
  BY AppendProperties
<1>2. PICK f : RunningSum(f, s, n) /\ DayPnl(s) = f[n]
  BY <1>1, DayPnlIsASum
<1> HIDE DEF n, u
<1>3. PICK g : RunningSum(g, u, n + 1) /\ DayPnl(u) = g[n + 1]
  <2>1. Len(u) \in Nat
    BY <1>1
  <2> QED BY <1>1, <2>1, DayPnlIsASum
<1> DEFINE T == {k \in 0..n : g[k] # f[k]}
<1>4. T = {}
  <2> SUFFICES ASSUME T # {} PROVE FALSE
    OBVIOUS
  <2>1. PICK k \in T : \A j \in T : k <= j
    <3>1. T \subseteq Nat
      BY <1>1
    <3> HIDE DEF T
    <3> QED BY <3>1, FirstOf
  <2>2. f[k] = (IF k = 0 THEN 0 ELSE f[k - 1] + s[k].pnl) /\ g[k] = (IF k = 0 THEN 0 ELSE g[k - 1] + u[k].pnl)
    BY <1>1, <1>2, <1>3, <2>1 DEF RunningSum
  <2>3. CASE k = 0
    BY <2>1, <2>2, <2>3
  <2>4. CASE k # 0
    <3>1. k - 1 \in 0..n /\ ~(k <= k - 1) /\ k \in 1..n
      BY <1>1, <2>1, <2>4
    <3>2. g[k - 1] = f[k - 1]
      BY <2>1, <3>1
    <3> QED BY <1>1, <2>1, <2>2, <2>4, <3>1, <3>2
  <2> QED BY <2>3, <2>4
<1>5. g[n] = f[n]
  BY <1>1, <1>4
<1>6. g[n + 1] = g[n] + u[n + 1].pnl
  <2>1. n + 1 \in 0..(n + 1) /\ n + 1 # 0 /\ (n + 1) - 1 = n
    BY <1>1
  <2>2. g[n + 1] = IF n + 1 = 0 THEN 0 ELSE g[(n + 1) - 1] + u[n + 1].pnl
    BY <1>3, <2>1 DEF RunningSum
  <2> QED BY <2>1, <2>2
<1> QED BY <1>1, <1>2, <1>3, <1>5, <1>6 DEF u

LEMMA DayPnlIsInt ==
  ASSUME NEW s, NEW n \in Nat, Len(s) = n, \A i \in 1..n : s[i].pnl \in Int
  PROVE  DayPnl(s) \in Int
<1>1. PICK f : RunningSum(f, s, n) /\ DayPnl(s) = f[n]
  BY DayPnlIsASum
<1> DEFINE T == {k \in 0..n : f[k] \notin Int}
<1>2. T = {}
  <2> SUFFICES ASSUME T # {} PROVE FALSE
    OBVIOUS
  <2>1. PICK k \in T : \A j \in T : k <= j
    <3>1. T \subseteq Nat
      OBVIOUS
    <3> HIDE DEF T
    <3> QED BY <3>1, FirstOf
  <2>2. f[k] = IF k = 0 THEN 0 ELSE f[k - 1] + s[k].pnl
    BY <1>1, <2>1 DEF RunningSum
  <2>3. k # 0 => k - 1 \in 0..n /\ ~(k <= k - 1) /\ k \in 1..n
    BY <2>1
  <2>4. k # 0 => f[k - 1] \in Int
    BY <2>1, <2>3
  <2> QED BY <2>1, <2>2, <2>3, <2>4
<1> QED BY <1>1, <1>2

LEMMA DayPnlType ==
  ASSUME NEW s \in Seq(Trades)
  PROVE  DayPnl(s) \in Int
<1>1. Len(s) \in Nat /\ \A i \in 1..Len(s) : s[i] \in Trades
  BY LenProperties
<1>2. \A i \in 1..Len(s) : s[i].pnl \in Int
  BY <1>1 DEF Trades
<1> QED BY <1>1, <1>2, DayPnlIsInt

LEMMA MemoryPnlType ==
  ASSUME NEW s \in Seq(Realised)
  PROVE  DayPnl(s) \in Int
<1>1. Len(s) \in Nat /\ \A i \in 1..Len(s) : s[i] \in Realised
  BY LenProperties
<1>2. \A i \in 1..Len(s) : s[i].pnl \in Int
  BY <1>1 DEF Realised
<1> QED BY <1>1, <1>2, DayPnlIsInt
=============================================================================
