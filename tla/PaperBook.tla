----------------------------- MODULE PaperBook ------------------------------
(***************************************************************************)
(* One paper book under the desk's handlers: a closed bar, a bar's open, a *)
(* tick, a posted intent or order, an act on the resting order, a stop     *)
(* (fd-api/src/paper.rs feed_run, feed_open, settle_orders_on_tick,        *)
(* intent, act, stop).  Every handler runs under the one mutex of the runs *)
(* map, so each is one action.  What the handlers keep beside the book     *)
(* (advice, the shadow, files) is in PaperRun; here an advisor's verdict   *)
(* is any cut.                                                             *)
(***************************************************************************)
EXTENDS BookOps, FiniteSets

CONSTANTS
  External,    \* the run's strategy is `external`: entries are posted to it
  InOrder,     \* the feed never posts anything older than what it posted last
  Times,       \* bar stamps
  Warmup,      \* the newest stored bar a run starts with, or None
  BarShapes,   \* [open, high, low, close]
  Quotes,      \* [bid, ask]
  EntryForms,  \* [side, stop, target]
  OrderForms,  \* [type, price, side, stop, target, validBars, above, below]
  MayExit      \* the strategy issues exits of its own

ASSUME PaperBookAssumption ==
  /\ None \notin [bid: Price, ask: Price]
  /\ External \in BOOLEAN /\ InOrder \in BOOLEAN /\ MayExit \in BOOLEAN
  /\ Times \subseteq Int /\ Warmup \in Level
  /\ BarShapes \subseteq [open: Price, high: Price, low: Price, close: Price]
  /\ Quotes \subseteq [bid: Price, ask: Price]
  /\ EntryForms \subseteq [side: Side, stop: Level, target: Level]
  /\ OrderForms \subseteq [type: {"Limit", "Stop"}, price: Price, side: Side,
                           stop: Int, target: Level, validBars: Nat \ {0},
                           above: Level, below: Level]

VARIABLES
  book,     \* the run's PaperBook
  running,  \* FALSE once the run was stopped and left the runs map
  feed      \* history: the newest bar stamp the feed has posted, or None

vars == <<book, running, feed>>

Init ==
  /\ book = NewBook
  /\ running = TRUE
  /\ feed = None

-----------------------------------------------------------------------------
BarAt(t, s) == [time |-> t, open |-> s.open, high |-> s.high, low |-> s.low,
                close |-> s.close]
EnterAt(f, t) == [kind |-> "Enter", side |-> f.side, stop |-> f.stop,
                  target |-> f.target, decided |-> t]
ExitAt(t) == [kind |-> "Exit", decided |-> t]

(* What on_bar may answer: `external` is always None. *)
Decisions(t) ==
  IF External THEN {None}
  ELSE {None} \cup {EnterAt(f, t) : f \in EntryForms}
              \cup (IF MayExit THEN {ExitAt(t)} ELSE {})

(* The ordering rule every route applies: strictly newer than the last of the
   run's bars, which may be a stored one the book was never advanced over. *)
Newest == IF book.lastBar = None THEN Warmup ELSE book.lastBar.time
HasBar == Newest # None
Newer(t) == HasBar => t > Newest

Posted(t) ==
  /\ InOrder /\ feed # None => t >= feed
  /\ feed' = IF feed = None THEN t ELSE Larger(feed, t)

(* order_of: the stop on the losing side of the price, the target on the
   winning side. *)
OrderAt(f, t) == [type |-> f.type, price |-> f.price, side |-> f.side, stop |-> f.stop,
                  target |-> f.target, validBars |-> f.validBars, waited |-> 0,
                  decided |-> t, above |-> f.above, below |-> f.below]
ValidOrder(f) ==
  /\ Gain(f.side, f.stop, f.price) > 0
  /\ f.target # None => Gain(f.side, f.price, f.target) > 0

-----------------------------------------------------------------------------
(* POST /api/paper/bar: the step, then the resting order counts the bar. *)
BarCloses(t, s, warm, cut, decision) ==
  /\ Newer(t)
  /\ Posted(t)
  /\ book' = OrderSawBarClose(Step(book, BarAt(t, s), warm, cut, decision).book)
  /\ UNCHANGED running

(* POST /api/paper/open: fills the pending intent and decides nothing. *)
BarOpens(t, price, warm, cut) ==
  /\ HasBar /\ Newer(t) /\ book.pending # None
  /\ Posted(t)
  /\ book' = FillOpen(book, t, price, warm, cut).book
  /\ UNCHANGED running

(* POST /api/paper/tick: the quote is stored under a mutex of its own, and some
   time later, with bars and posts in between, the runs are locked and settled
   by it: the lived range is extended, then the order settled, invalidation
   before fill and never a fill over a position. *)
TickArrives(t) ==
  /\ Posted(t)
  /\ UNCHANGED <<book, running>>

SettledByTick(b, t, last, quote, warm, cut) ==
  IF b.order = None THEN b
  ELSE IF ~HasBar \/ ~Newer(t) THEN b
  ELSE IF InvalidatedBy(b.order, quote) THEN CancelOrder(b)
  ELSE IF Touched(b.order, quote) = None THEN b
  ELSE IF b.position # None THEN CancelOrder(b)
  ELSE FillOrder(b, t, Touched(b.order, quote), last, warm, cut).book

Tick(t, last, quote, warm, cut) ==
  /\ feed # None /\ t <= feed
  /\ book' = SettledByTick(ObserveTick(book, t, last), t, last, quote, warm, cut)
  /\ UNCHANGED <<running, feed>>

(* POST /api/paper/intent, a market entry: it replaces a resting order. *)
PostIntent(f) ==
  /\ External /\ HasBar
  /\ book' = Decide(CancelOrder(book), EnterAt(f, Newest))
  /\ UNCHANGED <<running, feed>>

(* POST /api/paper/intent, a limit or stop entry. *)
PostOrder(f) ==
  /\ External /\ HasBar /\ ValidOrder(f)
  /\ book.position = None
  /\ book' = PlaceOrder(book, OrderAt(f, Newest))
  /\ UNCHANGED <<running, feed>>

(* POST /api/paper/pending/act, trigger: fill now at the touched side of a
   stored quote, in a bucket the run has not closed over. *)
ActTrigger(t, last, quote, warm, cut) ==
  /\ book.order # None /\ book.position = None
  /\ HasBar /\ Newer(t)
  /\ feed # None /\ feed >= t
  /\ book' = FillOrder(book, t, TriggerSide(book.order, quote), last, warm, cut).book
  /\ UNCHANGED <<running, feed>>

(* POST /api/paper/pending/act, cancel. *)
ActCancel ==
  /\ book.order # None
  /\ book' = CancelOrder(book)
  /\ UNCHANGED <<running, feed>>

(* POST /api/paper/stop. *)
Stop ==
  /\ book' = StopBook(book).book
  /\ running' = FALSE
  /\ UNCHANGED feed

Next ==
  /\ running
  /\ \/ \E t \in Times, s \in BarShapes, warm \in BOOLEAN, cut \in Cuts :
          \E decision \in Decisions(t) : BarCloses(t, s, warm, cut, decision)
     \/ \E t \in Times, s \in BarShapes, warm \in BOOLEAN, cut \in Cuts :
          BarOpens(t, s.open, warm, cut)
     \/ \E t \in Times : TickArrives(t)
     \/ \E t \in Times, s \in BarShapes, quote \in Quotes \cup {None},
           warm \in BOOLEAN, cut \in Cuts : Tick(t, s.close, quote, warm, cut)
     \/ \E f \in EntryForms : PostIntent(f)
     \/ \E f \in OrderForms : PostOrder(f)
     \/ \E t \in Times, s \in BarShapes, quote \in Quotes, warm \in BOOLEAN,
           cut \in Cuts : ActTrigger(t, s.close, quote, warm, cut)
     \/ ActCancel
     \/ Stop

Spec == Init /\ [][Next]_vars

-----------------------------------------------------------------------------
TypeOK ==
  /\ book \in Books
  /\ running \in BOOLEAN
  /\ feed \in Level

(* A resting order is the run's only commitment: while it rests no intent
   waits for the next fill and no position is held, whatever the posts, fills
   and decisions in between (place_order, intent, fill_order). *)
OrderStandsAlone == book.order # None => book.pending = None /\ book.position = None

(* The lived range always belongs to the position now held, and to its fill
   bar: no exit, late bar or replacement leaves a range behind that would
   narrow some later position's bar (since_fill). *)
RangeIsOfPosition ==
  book.since # None => /\ book.position # None
                       /\ book.position.entryTime = book.since.barTime

(* weekend_flat: a guarded run holds nothing that was entered on a weekend
   bar, and holds nothing it already held when a weekend bar closed, over
   every order of opens, ticks and bars. *)
FlatAcrossWeekend ==
  Guarded /\ book.position # None =>
    /\ book.position.entryTime \notin WeekendBars
    /\ book.lastBar # None /\ book.lastBar.time \in WeekendBars
         => book.position.entryTime > book.lastBar.time

(* cooldown: the entry of an open position is at least the cooldown after the
   entry of every trade the run has made, however fills were timed. *)
CooldownHolds ==
  Guarded /\ book.position # None =>
    \A i \in DOMAIN book.trades :
      book.position.entryTime - book.trades[i].entryTime >= Cooldown

(* max_trades_per_day and daily_loss_limit, against the run's whole history
   and not the guards' pruned memory: when a position was entered, the trades
   closed within the day before it were fewer than the cap and had lost less
   than the limit.  Pruning never forgets a close that still counts, unless an
   entry was judged for a later bar before: this is said of an entry nothing
   newer was posted before. *)
Counts(trade, now) == trade.exitTime >= now - Day
TradesOfDay(trades, now) == Cardinality({i \in DOMAIN trades : Counts(trades[i], now)})
PnlOfDay(trades, now) ==
  DayPnl([i \in DOMAIN trades |->
            [pnl |-> IF Counts(trades[i], now) THEN trades[i].pnl ELSE 0]])
DayLimitsHold ==
  Guarded /\ book.position # None /\ feed = book.position.entryTime =>
    /\ TradesOfDay(book.trades, feed) < MaxTradesPerDay
    /\ PnlOfDay(book.trades, feed) > -DailyLossLimit

(* "The position did not exist during it, so there is nothing to manage it
   against" (advance): a bar that closed before a tick filled the position, and
   is delivered after it, does not end that position. *)
LateBarEndsNothing ==
  [][book.since # None /\ book.position # None /\ book'.position = None /\ running'
       => book'.lastBar.time >= book.since.barTime]_vars

(* trail_stop, over the life of a position: between its fill and its exit only
   the stop may change, it only moves towards the trade, and a position
   without a stop never grows one. *)
SamePosition(p, q) == p # None /\ q # None /\ p.entryTime = q.entryTime
StopOnlyTightens ==
  [][SamePosition(book.position, book'.position) =>
       LET p == book.position
           q == book'.position
       IN  /\ q = [p EXCEPT !.stop = q.stop]
           /\ p.stop = None <=> q.stop = None
           /\ p.stop # None => Gain(p.side, p.stop, q.stop) >= 0]_vars

(* Advice: in every reachable book a verdict can only shrink.  A cut opens a
   position only where the unadvised fill would, on the same side, price,
   stop, target and risk, with no more lots. *)
AdviceOnlyShrinks ==
  \A t \in Times, s \in BarShapes, warm \in BOOLEAN, cut \in Cuts :
    LET advised == FillPending(book, t, s.open, warm, cut)
        alone == FillPending(book, t, s.open, warm, NoAdvice)
        p == advised.book.position
        q == alone.book.position
    IN  advised.opened => /\ alone.opened
                          /\ p = [q EXCEPT !.lots = p.lots]
                          /\ p.lots <= q.lots
=============================================================================
