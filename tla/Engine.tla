------------------------------- MODULE Engine -------------------------------
(***************************************************************************)
(* The pure per-bar functions of the trading engine: how an entry is       *)
(* priced, sized and refused, how an open position leaves on a bar, and    *)
(* how a trailing stop ratchets (fd-backtest: engine.rs and guards.rs).    *)
(* The backtest loop and the live paper book are both built from these.    *)
(*                                                                         *)
(* Prices, times and lots are integers: a price in ticks, a time in bars,  *)
(* a lot in lot steps with a contract of one.  Commission, swap, rounding  *)
(* and the excursion statistics (mae, mfe) are left out.                   *)
(***************************************************************************)
EXTENDS Integers, Sequences

CONSTANTS
  None,             \* the empty Option
  HalfSpread,       \* half the spread, paid on every side
  StopDistance,     \* the ATR multiple a stop is derived from
  RewardRisk,       \* target distance in units of risk; 0 = no derived target
  MaxHold,          \* bars a position may be held; 0 = off
  TrailActivate,    \* R a trade must have gained before its stop trails
  TrailDistance,    \* R the stop trails behind the best price; 0 = off
  SelfManaged,      \* the strategy owns every exit (Exits::Strategy)
  MinLot, RiskDivisor, StartingEquity,
  Guarded,          \* the run consults the guards at all
  MaxConcurrent, MaxTradesPerDay, DailyLossLimit, Cooldown,
  MaxOpenLoss,      \* open-loss cap in R; 0 = off
  NotionalMultiple, \* cap on lots x price as a multiple of equity; 0 = off
  Day,              \* length of the guards' rolling day
  WeekendBars,      \* bars whose close is past the Friday cut-off
  NewsBars          \* bars inside a scheduled-news window

ASSUME EngineAssumption ==
  /\ None \notin Int
  /\ {HalfSpread, RewardRisk, MaxHold, TrailActivate, TrailDistance} \subseteq Nat
  /\ {MaxConcurrent, MaxTradesPerDay, DailyLossLimit, Cooldown} \subseteq Nat
  /\ {MaxOpenLoss, NotionalMultiple} \subseteq Nat
  /\ {StopDistance, MinLot, RiskDivisor, Day} \subseteq Nat \ {0}
  /\ StartingEquity \in Int
  /\ SelfManaged \in BOOLEAN /\ Guarded \in BOOLEAN
  /\ WeekendBars \subseteq Int /\ NewsBars \subseteq Int

Side == {"Long", "Short"}
Level == Int \cup {None}
(* A market quotes prices above its half spread, so that a cost never makes
   a price zero or negative. *)
Price == {p \in Nat : p > HalfSpread}
Bars == [time: Int, open: Price, high: Price, low: Price, close: Price]

(* registry.rs Intent.  "decided" is the bar whose close produced it, the
   stamp pending_id names it by. *)
Enter == [kind: {"Enter"}, side: Side, stop: Level, target: Level, decided: Int]
Exit == [kind: {"Exit"}, decided: Int]
Intents == Enter \cup Exit

Positions == [side: Side, entryTime: Int, entryPrice: Int, stop: Level,
              target: Level, lots: Nat \ {0}, risk: Nat \ {0}, decided: Int]
ExitKinds == {"STOP", "TARGET", "TIMEOUT", "OPEN_LOSS_CAP", "WEEKEND_FLAT",
              "NEWS_FLAT", "SIGNAL", "STOPPED", "END_OF_DATA"}
Trades == [entryTime: Int, exitTime: Int, exitPrice: Int, kind: ExitKinds,
           pnl: Int, decided: Int]
Exits == [price: Int, kind: ExitKinds]
Realised == [time: Int, pnl: Int]   \* what the guards remember of a close

(* guards.rs Refusal *)
Refusals == {"MAX_CONCURRENT", "DAILY_LOSS_LIMIT", "DAILY_TRADE_CAP", "COOLDOWN",
             "WEEKEND_FLAT", "NEWS_FLAT", "NOTIONAL_CAP"}

ASSUME NoneAssumption ==
  /\ None \notin Positions /\ None \notin Intents
  /\ None \notin Refusals /\ None \notin Exits

(***************************************************************************)
(* Sides.  The adverse direction of a Long is down, of a Short up.         *)
(***************************************************************************)
AtOrWorse(side, x, y) == IF side = "Long" THEN x <= y ELSE x >= y
Worse(side, x, distance) == IF side = "Long" THEN x - distance ELSE x + distance
Gain(side, from, to) == IF side = "Long" THEN to - from ELSE from - to
Worst(side, bar) == IF side = "Long" THEN bar.low ELSE bar.high
Best(side, bar) == IF side = "Long" THEN bar.high ELSE bar.low
Other(side) == IF side = "Long" THEN "Short" ELSE "Long"
Abs(x) == IF x < 0 THEN -x ELSE x
Larger(x, y) == IF x >= y THEN x ELSE y
Smaller(x, y) == IF x <= y THEN x ELSE y

(* apply_costs: half the spread against the trader, entering or leaving. *)
ApplyCosts(price, side, entering) ==
  IF entering = (side = "Long") THEN price + HalfSpread ELSE price - HalfSpread

(***************************************************************************)
(* The guards' memory and the entry guards.                                *)
(***************************************************************************)
(* Bugs: definitions named Bug... are plausible wrong versions of the definition
   that follows them, used to see each property fail. *)
BugPrunedDay(closed, now) == SelectSeq(closed, LAMBDA c : c.time > now - Day)

(* GuardState::refusal pops closes older than the rolling day off the FRONT
   of its deque, and stops at the first that is young enough. *)
PrunedDay(closed, now) ==
  LET young == {i \in DOMAIN closed : closed[i].time >= now - Day}
      front == CHOOSE i \in young : \A j \in young : i <= j
  IN  IF young = {} THEN << >> ELSE SubSeq(closed, front, Len(closed))

DayPnl(closed) ==
  LET sum[i \in 0..Len(closed)] == IF i = 0 THEN 0 ELSE sum[i - 1] + closed[i].pnl
  IN  sum[Len(closed)]

BugCoolingDown(lastEntry, now) == lastEntry # None /\ now - lastEntry < Cooldown - 1
CoolingDown(lastEntry, now) == lastEntry # None /\ now - lastEntry < Cooldown

(* GuardState::refusal, over the pruned memory. *)
MemoryRefusal(closed, lastEntry, now) ==
  IF MaxConcurrent = 0 THEN "MAX_CONCURRENT"
  ELSE IF DayPnl(closed) <= -DailyLossLimit THEN "DAILY_LOSS_LIMIT"
  ELSE IF Len(closed) >= MaxTradesPerDay THEN "DAILY_TRADE_CAP"
  ELSE IF CoolingDown(lastEntry, now) THEN "COOLDOWN"
  ELSE None

BugCalendarRefusal(signal, fill) ==
  IF signal \in WeekendBars THEN "WEEKEND_FLAT"
  ELSE IF signal \in NewsBars THEN "NEWS_FLAT"
  ELSE None

(* Guards::calendar_refusal: the signal bar and the fill bar are both read. *)
CalendarRefusal(signal, fill) ==
  IF {signal, fill} \cap WeekendBars # {} THEN "WEEKEND_FLAT"
  ELSE IF {signal, fill} \cap NewsBars # {} THEN "NEWS_FLAT"
  ELSE None

(***************************************************************************)
(* open_position.  A zero risk unit is the Refused::NoRisk of the code.    *)
(***************************************************************************)
EntryStop(intent, entry, warm) ==
  IF intent.stop # None THEN intent.stop
  ELSE IF SelfManaged \/ ~warm THEN None
  ELSE Worse(intent.side, entry, StopDistance)

EntryRisk(stop, entry, warm) ==
  IF stop # None THEN Abs(entry - stop) ELSE IF warm THEN StopDistance ELSE 0

EntryTarget(intent, entry, stop, risk) ==
  IF intent.target # None THEN intent.target
  ELSE IF SelfManaged \/ stop = None \/ RewardRisk = 0 THEN None
  ELSE Worse(Other(intent.side), entry, risk * RewardRisk)

TooSmall(lots) == lots < MinLot

SizedLots(risk, equity) == Larger(MinLot, (equity \div RiskDivisor) \div risk)

(* Guards::cap_lots; below MinLot the entry is refused. *)
CappedLots(lots, entry, equity) ==
  IF ~Guarded \/ NotionalMultiple = 0 \/ lots * entry <= NotionalMultiple * equity
  THEN lots
  ELSE (NotionalMultiple * equity) \div entry

Opened(intent, time, price, warm, equity) ==
  LET entry == ApplyCosts(price, intent.side, TRUE)
      stop == EntryStop(intent, entry, warm)
      risk == EntryRisk(stop, entry, warm)
  IN  [side |-> intent.side, entryTime |-> time, entryPrice |-> entry,
       stop |-> stop, target |-> EntryTarget(intent, entry, stop, risk),
       lots |-> IF risk = 0 THEN 0
                ELSE CappedLots(SizedLots(risk, equity), entry, equity),
       risk |-> risk, decided |-> intent.decided]

(***************************************************************************)
(* check_exit, then guard_exit: stop before target before clock, then the  *)
(* open-loss cap, the weekend and the news window.                         *)
(***************************************************************************)
(* A level fills at itself, or at the open when the bar gapped past it. *)
FillAt(side, bar, level) == IF AtOrWorse(side, bar.open, level) THEN bar.open ELSE level
TargetAt(side, bar, level) == FillAt(Other(side), bar, level)

Leave(p, price, kind) == [price |-> ApplyCosts(price, p.side, FALSE), kind |-> kind]

CheckExit(p, bar) ==
  IF SelfManaged THEN None
  ELSE IF p.stop # None /\ AtOrWorse(p.side, Worst(p.side, bar), p.stop)
    THEN Leave(p, FillAt(p.side, bar, p.stop), "STOP")
  ELSE IF p.target # None /\ AtOrWorse(Other(p.side), Best(p.side, bar), p.target)
    THEN Leave(p, TargetAt(p.side, bar, p.target), "TARGET")
  ELSE IF MaxHold > 0 /\ bar.time - p.entryTime > MaxHold
    THEN Leave(p, bar.close, "TIMEOUT")
  ELSE None

GuardExit(p, bar) ==
  LET level == Worse(p.side, p.entryPrice, MaxOpenLoss * p.risk)
  IN  IF MaxOpenLoss > 0 /\ AtOrWorse(p.side, Worst(p.side, bar), level)
        THEN Leave(p, FillAt(p.side, bar, level), "OPEN_LOSS_CAP")
      ELSE IF bar.time \in WeekendBars THEN Leave(p, bar.close, "WEEKEND_FLAT")
      ELSE IF bar.time \in NewsBars THEN Leave(p, bar.close, "NEWS_FLAT")
      ELSE None

BarExit(p, bar) ==
  IF CheckExit(p, bar) # None THEN CheckExit(p, bar)
  ELSE IF Guarded THEN GuardExit(p, bar) ELSE None

BugTrailStop(p, bar) ==
  LET candidate == Worse(p.side, Best(p.side, bar), TrailDistance * p.risk)
  IN  IF TrailDistance > 0 /\ p.stop # None THEN [p EXCEPT !.stop = candidate] ELSE p

(* trail_stop: after the exit check, from the bar just closed, and only
   ever towards the trade. *)
TrailStop(p, bar) ==
  LET best == IF p.side = "Long" THEN Larger(bar.high, p.entryPrice)
              ELSE Smaller(bar.low, p.entryPrice)
      candidate == Worse(p.side, best, TrailDistance * p.risk)
      moves == /\ TrailDistance > 0 /\ ~SelfManaged /\ p.stop # None
               /\ Gain(p.side, p.entryPrice, best) >= TrailActivate * p.risk
               /\ Gain(p.side, p.stop, candidate) > 0
  IN  IF moves THEN [p EXCEPT !.stop = candidate] ELSE p

(* close_position: the trade a position becomes. *)
Closed(p, price, time, kind) ==
  [entryTime |-> p.entryTime, exitTime |-> time, exitPrice |-> price, kind |-> kind,
   pnl |-> Gain(p.side, p.entryPrice, price) * p.lots, decided |-> p.decided]
=============================================================================
