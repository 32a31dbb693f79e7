------------------------------ MODULE BookOps -------------------------------
(***************************************************************************)
(* PaperBook (fd-backtest/src/paper.rs): the engine's state between two    *)
(* bars, as a record, and its methods as operators on that record.  A      *)
(* method that reports what it did returns a Report with the new book.     *)
(* The counters of refusals are left out; a report names the refusal.      *)
(***************************************************************************)
EXTENDS Engine

CONSTANT CutUnit   \* an advisor's size_factor is cut/CutUnit, cut in 0..CutUnit

ASSUME CutAssumption == CutUnit \in Nat \ {0}

Cuts == 0..CutUnit
NoAdvice == CutUnit          \* advice.map_or(1.0, ..)

(* PendingOrder: a Limit or Stop entry waiting for a price. *)
Orders == [type: {"Limit", "Stop"}, price: Price, side: Side, stop: Level,
           target: Level, validBars: Nat, waited: Nat, decided: Int,
           above: Level, below: Level]
(* SinceFill: the part of the fill bar a tick-filled position has lived. *)
Ranges == [barTime: Int, open: Price, high: Price, low: Price]
ASSUME NoOrderAssumption == None \notin Orders /\ None \notin Ranges /\ None \notin Bars

Books == [equity: Int, position: Positions \cup {None}, trades: Seq(Trades),
          pending: Intents \cup {None}, order: Orders \cup {None},
          since: Ranges \cup {None}, closed: Seq(Realised), lastEntry: Level,
          lastBar: Bars \cup {None}]

NewBook == [equity |-> StartingEquity, position |-> None, trades |-> << >>,
            pending |-> None, order |-> None, since |-> None, closed |-> << >>,
            lastEntry |-> None, lastBar |-> None]

Quiet(b) == [book |-> b, trades |-> << >>, opened |-> FALSE, refused |-> None]
Refused(b, why) == [Quiet(b) EXCEPT !.refused = why]

(* PaperBook::book: equity, the guards' memory and the list of trades. *)
Booked(b, price, time, kind) ==
  LET t == Closed(b.position, price, time, kind)
  IN  [Quiet([b EXCEPT !.position = None, !.equity = @ + t.pnl,
                       !.trades = Append(@, t),
                       !.closed = Append(@, [time |-> time, pnl |-> t.pnl])])
         EXCEPT !.trades = <<t>>]

(***************************************************************************)
(* fill_pending.  The intent is taken whatever becomes of it.              *)
(***************************************************************************)
EntryRefusal(b, time) ==
  IF ~Guarded THEN None
  ELSE IF MemoryRefusal(b.closed, b.lastEntry, time) # None
    THEN MemoryRefusal(b.closed, b.lastEntry, time)
  ELSE IF b.lastBar = None THEN None ELSE CalendarRefusal(b.lastBar.time, time)

(* The book as an entry is judged: the intent gone, the memory pruned. *)
Judging(b, time) ==
  [b EXCEPT !.pending = None,
            !.closed = IF Guarded /\ MaxConcurrent > 0 THEN PrunedDay(@, time) ELSE @]

BugAdvisedLots(lots, cut) == IF cut < CutUnit THEN (lots * CutUnit) \div cut ELSE lots
AdvisedLots(lots, cut) == IF cut < CutUnit THEN (lots * cut) \div CutUnit ELSE lots

EnterPending(b, time, price, warm, cut) ==
  LET c == Judging(b, time)
      p == Opened(b.pending, time, price, warm, b.equity)
      lots == AdvisedLots(p.lots, cut)
      entered == IF b.lastEntry = None THEN time ELSE Larger(b.lastEntry, time)
  IN  IF cut = 0 THEN Refused(c, "ADVISOR")
      ELSE IF EntryRefusal(c, time) # None THEN Refused(c, EntryRefusal(c, time))
      ELSE IF p.risk = 0 THEN Refused(c, "NO_RISK_UNIT")
      ELSE IF TooSmall(p.lots) THEN Refused(c, "NOTIONAL_CAP")
      ELSE IF TooSmall(lots) THEN Refused(c, "ADVISOR")
      ELSE [Quiet([c EXCEPT !.position = [p EXCEPT !.lots = lots],
                            !.lastEntry = entered])
              EXCEPT !.opened = TRUE]

FillPending(b, time, price, warm, cut) ==
  IF b.pending = None THEN Quiet(b)
  ELSE IF b.pending.kind = "Enter" /\ b.position = None
    THEN EnterPending(b, time, price, warm, cut)
  ELSE IF b.pending.kind = "Exit" /\ b.position # None
    THEN Booked([b EXCEPT !.pending = None],
                ApplyCosts(price, b.position.side, FALSE), time, "SIGNAL")
  ELSE Quiet([b EXCEPT !.pending = None])

BugFillOpen(b, time, price, warm, cut) ==
  IF b.lastBar = None THEN Quiet(b)
  ELSE IF time <= b.lastBar.time THEN Quiet(b)
  ELSE [FillPending(b, time, price, warm, cut) EXCEPT !.book.lastEntry = b.lastEntry]
(* fill_open: the same fill when its bar opens, never at or before the last
   bar advanced over. *)
FillOpen(b, time, price, warm, cut) ==
  IF b.lastBar = None THEN Quiet(b)
  ELSE IF time <= b.lastBar.time THEN Quiet(b)
  ELSE FillPending(b, time, price, warm, cut)

(***************************************************************************)
(* advance, decide and step.                                               *)
(***************************************************************************)
(* The fill bar of a tick-filled position, narrowed to what it lived. *)
Lived(range, bar) ==
  [bar EXCEPT !.open = range.open,
              !.high = Smaller(Larger(range.high, bar.close), bar.high),
              !.low = Larger(Smaller(range.low, bar.close), bar.low)]

BugManagedBar(since, bar) ==
  IF since = None THEN bar
  ELSE IF since.barTime = bar.time THEN Lived(since, bar)
  ELSE bar

ManagedBar(since, bar) ==
  IF since = None THEN bar
  ELSE IF since.barTime = bar.time THEN Lived(since, bar)
  ELSE IF since.barTime > bar.time THEN None
  ELSE bar

(* The part of advance after the fill: what is held is managed on the bar. *)
ManagedAfter(fill, bar) ==
  LET p == fill.book.position
      managed == ManagedBar(fill.book.since, bar)
      seen == [fill.book EXCEPT !.since = IF managed = None THEN @ ELSE None,
                                !.lastBar = bar]
      exit == BarExit(p, managed)
      left == Booked(seen, exit.price, bar.time, exit.kind)
  IN  IF p = None \/ managed = None THEN [fill EXCEPT !.book = seen]
      ELSE IF exit = None
        THEN [fill EXCEPT !.book = [seen EXCEPT !.position = TrailStop(p, managed)]]
      ELSE [fill EXCEPT !.book = left.book, !.trades = @ \o left.trades]

Advance(b, bar, warm, cut) ==
  ManagedAfter(FillPending(b, bar.time, bar.open, warm, cut), bar)

Decide(b, intent) == [b EXCEPT !.pending = intent]

Step(b, bar, warm, cut, decision) ==
  [Advance(b, bar, warm, cut) EXCEPT !.book = Decide(@, decision)]

(***************************************************************************)
(* Resting orders.                                                         *)
(***************************************************************************)
BugPlaceOrder(b, order) == [b EXCEPT !.order = order]
PlaceOrder(b, order) == [b EXCEPT !.pending = None, !.order = order]
CancelOrder(b) == [b EXCEPT !.order = None]

OrderSawBarClose(b) ==
  IF b.order = None THEN b
  ELSE IF b.order.waited + 1 >= b.order.validBars THEN CancelOrder(b)
  ELSE [b EXCEPT !.order.waited = @ + 1]

ObserveTick(b, time, last) ==
  IF b.since = None THEN b
  ELSE IF b.since.barTime # time THEN b
  ELSE [b EXCEPT !.since.high = Larger(@, last), !.since.low = Smaller(@, last)]

(* A quote is [bid, ask], or None when the tick carried none. *)
TriggerSide(order, quote) == IF order.side = "Long" THEN quote.ask ELSE quote.bid

Touched(order, quote) ==
  LET q == TriggerSide(order, quote)
  IN  IF quote = None THEN None
      ELSE IF order.type = "Limit"
        THEN IF AtOrWorse(order.side, q, order.price) THEN order.price ELSE None
      ELSE IF AtOrWorse(Other(order.side), q, order.price) THEN q ELSE None

InvalidatedBy(order, quote) ==
  /\ quote # None
  /\ \/ order.above # None /\ quote.ask > order.above
     \/ order.below # None /\ quote.bid < order.below

BugFillOrder(b, time, price, last, warm, cut) ==
  LET o == b.order
      intent == [kind |-> "Enter", side |-> o.side, stop |-> o.stop,
                 target |-> o.target, decided |-> o.decided]
      r == FillPending([b EXCEPT !.order = None, !.pending = intent],
                       time, price, warm, cut)
      range == [barTime |-> time, open |-> last, high |-> last, low |-> last]
  IN  [r EXCEPT !.book = [@ EXCEPT !.since = range]]

(* fill_order: through fill_pending, then the lived range is seeded. *)
FillOrder(b, time, price, last, warm, cut) ==
  LET o == b.order
      intent == [kind |-> "Enter", side |-> o.side, stop |-> o.stop,
                 target |-> o.target, decided |-> o.decided]
      r == FillPending([b EXCEPT !.order = None, !.pending = intent],
                       time, price, warm, cut)
      range == [barTime |-> time, open |-> last, high |-> last, low |-> last]
  IN  IF o = None \/ b.position # None THEN Quiet(b)
      ELSE IF r.opened THEN [r EXCEPT !.book = [@ EXCEPT !.since = range]]
      ELSE r

(* close_at_last_close, as a run's stop calls it. *)
StopBook(b) ==
  LET c == [b EXCEPT !.pending = None, !.order = None, !.since = None]
  IN  IF b.lastBar = None \/ b.position = None THEN Quiet(c)
      ELSE Booked(c, ApplyCosts(b.lastBar.close, b.position.side, FALSE),
                  b.lastBar.time, "STOPPED")
=============================================================================
