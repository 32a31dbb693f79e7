------------------------------ MODULE OptionsFlow ------------------------------
(***************************************************************************)
(* What a tape of option prints says (fd-core/src/classify.rs, premium.rs;  *)
(* fd-engine/src/flow.rs, bigtrades.rs, maxpain.rs, profile.rs, whale.rs,   *)
(* breakeven.rs): functions from prints to premium flows, big prints and    *)
(* levels.  Ratios and quantiles are in percent; a print's contract is its  *)
(* symbol and strikes, prices and premia are whole numbers.                 *)
(***************************************************************************)
EXTENDS Clock, Sequences, SequencesExt, FiniteSetsExt

CONSTANT None

Sum(s, Of(_)) == FoldLeft(LAMBDA sum, v : sum + Of(v), 0, s)
Positive(v) == IF v > 0 THEN v ELSE 0
(* The strikes of a tape, lowest first. *)
Strikes(trades) == SetToSortSeq({trades[i].strike : i \in DOMAIN trades}, <)
AtStrike(trades, strike) == SelectSeq(trades, LAMBDA t : t.strike = strike)
OfType(trades, type) == SelectSeq(trades, LAMBDA t : t.type = type)
(* The distinct strikes in the order they first appear. *)
InOrder(trades) ==
  FoldLeft(LAMBDA s, t : IF t.strike \in ToSet(s) THEN s ELSE Append(s, t.strike), << >>, trades)
(* The first of a sequence that no later one beats, above nothing. *)
Best(s, Score(_)) ==
  FoldLeft(LAMBDA best, v : IF Score(v) > (IF best = None THEN 0 ELSE Score(best)) THEN v ELSE best,
           None, s)

-----------------------------------------------------------------------------
ClassifyFlow(type, side) ==
  CASE side = "Unknown" -> "UNKNOWN"
    [] side = "Buy" -> IF type = "Call" THEN "LC" ELSE "LP"
    [] side = "Sell" -> IF type = "Call" THEN "SC" ELSE "SP"
Class(trade) == ClassifyFlow(trade.type, trade.side)
IsBull(trade) == Class(trade) \in {"LC", "SP"}
IsBear(trade) == Class(trade) \in {"LP", "SC"}
PositionSign(trade) ==
  CASE Class(trade) \in {"LC", "LP"} -> 1 [] Class(trade) \in {"SC", "SP"} -> -1 [] OTHER -> 0

(* By the quote when there is one and it is not crossed, else by the tick. *)
InferAggressor(price, bid, ask, before) ==
  LET quoted == bid # None /\ ask # None /\ ask >= bid
      byQuote == IF price >= ask THEN "Buy" ELSE IF price <= bid THEN "Sell"
                 ELSE IF 2 * price > bid + ask THEN "Buy"
                 ELSE IF 2 * price < bid + ask THEN "Sell" ELSE "Unknown"
      byTick == IF before = None THEN "Unknown" ELSE IF price > before THEN "Buy"
                ELSE IF price < before THEN "Sell" ELSE "Unknown"
  IN  IF ~quoted THEN byTick ELSE IF byQuote = "Unknown" THEN byTick ELSE byQuote

PremiumUsd(price, contracts, multiplier) == price * contracts * multiplier

(* In percent; minutes stand for the fraction of a day. *)
ExpiryWeight(dte) ==
  IF 4 * dte <= DayMinutes THEN 150 ELSE IF dte <= DayMinutes THEN 130
  ELSE IF dte <= 3 * DayMinutes THEN 115 ELSE IF dte <= 7 * DayMinutes THEN 100 ELSE 80

-----------------------------------------------------------------------------
(* Prints whose aggressor is not known count in neither direction. *)
Summarize(trades) ==
  LET Of(class) == Sum(SelectSeq(trades, LAMBDA t : Class(t) = class), LAMBDA t : t.premium)
      bull == Of("LC") + Of("SP")
      bear == Of("LP") + Of("SC")
  IN  [bull |-> bull, bear |-> bear, net |-> bull - bear,
       ratio |-> IF bull + bear > 0 THEN (100 * bull) \div (bull + bear) ELSE 50,
       trades |-> Len(trades), contracts |-> Sum(trades, LAMBDA t : t.contracts)]

(* Read from the end back to the first print older than the window. *)
SummarizeWindow(trades, now, window) ==
  LET older == {k \in DOMAIN trades : trades[k].time < now - window}
      read == SubSeq(trades, Max({0} \cup older) + 1, Len(trades))
  IN  Summarize(SelectSeq(read, LAMBDA t : t.time <= now))

NetFlowVelocity(trades, now, window) ==
  SummarizeWindow(trades, now, window).net - SummarizeWindow(trades, now - window, window).net

BiasLabel(ratio, t) ==
  CASE ratio >= t.strongBull -> "STRONG_BULL"
    [] ratio < t.strongBull /\ ratio >= t.moderateBull -> "MODERATE_BULL"
    [] ratio < t.moderateBull /\ ratio <= t.strongBear -> "STRONG_BEAR"
    [] ratio < t.moderateBull /\ ratio > t.strongBear /\ ratio <= t.moderateBear -> "MODERATE_BEAR"
    [] OTHER -> "BALANCED"

-----------------------------------------------------------------------------
(* Linear between the two nearest ranks. *)
Quantile(sorted, q) ==
  LET pos == (Len(sorted) - 1) * q
      lo == pos \div 100 + 1
      hi == IF pos % 100 = 0 THEN lo ELSE lo + 1
  IN  IF sorted = << >> THEN None
      ELSE sorted[lo] + ((sorted[hi] - sorted[lo]) * (pos % 100)) \div 100

PercentileThreshold(trades, config) ==
  LET recent == SubSeq(trades, Max({1, Len(trades) - config.percentileWindow + 1}), Len(trades))
      premia == SortSeq([k \in DOMAIN recent |-> recent[k].premium], <)
  IN  IF config.percentile = None THEN None ELSE Quantile(premia, config.percentile)

IsBigTrade(trade, config, threshold) ==
  /\ config.minContracts # None => trade.contracts >= config.minContracts
  /\ \/ trade.premium >= config.minPremium
     \/ threshold # None /\ trade.premium >= threshold

(* The latest first, up to the limit. *)
SelectBigTrades(trades, config, limit) ==
  LET threshold == PercentileThreshold(trades, config)
      big == SelectSeq(Reverse(trades), LAMBDA t : IsBigTrade(t, config, threshold))
  IN  SubSeq(big, 1, Min({limit, Len(big)}))

Signed(trade) == CASE trade.side = "Buy" -> trade.contracts
                   [] trade.side = "Sell" -> -trade.contracts [] OTHER -> 0

(* The put strike at or below spot and the call strike at or above it that
   score most; the first found of equals. *)
LevelsBy(strikes, spot, Put(_), Call(_)) ==
  [support |-> Best(SelectSeq(strikes, LAMBDA k : k <= spot), Put),
   resistance |-> Best(SelectSeq(strikes, LAMBDA k : k >= spot), Call)]

WhaleLevels(model, trades, spot, config) ==
  LET big == SelectBigTrades(trades, config, Len(trades))
      Net(type) == [k \in ToSet(InOrder(big)) |-> Sum(OfType(AtStrike(big, k), type), Signed)]
      (* the earliest print found of the largest decides, not the earliest strike *)
      LargestOf(type) == Best(SelectSeq(big, LAMBDA t : /\ t.type = type
                                                    /\ IF type = "Put" THEN t.strike <= spot
                                                       ELSE t.strike >= spot),
                          LAMBDA t : t.premium)
      StrikeOf(t) == IF t = None THEN None ELSE t.strike
      All(type, k) == Sum(OfType(AtStrike(trades, k), type), LAMBDA t : t.premium)
  IN  CASE spot = None -> [support |-> None, resistance |-> None]
        [] spot # None /\ model = "net-long-whale" ->
             LevelsBy(InOrder(big), spot, LAMBDA k : Net("Put")[k], LAMBDA k : Net("Call")[k])
        [] spot # None /\ model = "largest-print" ->
             [support |-> StrikeOf(LargestOf("Put")), resistance |-> StrikeOf(LargestOf("Call"))]
        [] spot # None /\ model = "premium-concentration" ->
             LevelsBy(InOrder(trades), spot, LAMBDA k : All("Put", k), LAMBDA k : All("Call", k))

(* A level stands until the prints seen name another. *)
NewTracker == [seen |-> << >>, support |-> None, resistance |-> None]
TrackerUpdated(tracker, fresh, model, spot, config) ==
  LET seen == tracker.seen \o fresh
      next == WhaleLevels(model, seen, spot, config)
      Kept(old, new) == IF new = None THEN old ELSE new
  IN  [seen |-> seen, support |-> Kept(tracker.support, next.support),
       resistance |-> Kept(tracker.resistance, next.resistance)]

-----------------------------------------------------------------------------
Quantity(mode, trade) == IF mode = "Volume" THEN trade.contracts
                         ELSE PositionSign(trade) * trade.contracts
PositioningTable(trades, mode) ==
  [k \in ToSet(Strikes(trades)) |->
     LET Open(type) == Positive(Sum(OfType(AtStrike(trades, k), type),
                                    LAMBDA t : Quantity(mode, t)))
     IN  [call |-> Open("Call"), put |-> Open("Put")]]

PayoutAt(table, settlement) ==
  MapThenSumSet(LAMBDA k : Positive(settlement - k) * table[k].call
                             + Positive(k - settlement) * table[k].put, DOMAIN table)

(* Among the strikes, the lowest that pays least. *)
MaxPain(table) ==
  LET least == {k \in DOMAIN table : \A j \in DOMAIN table : PayoutAt(table, k) <= PayoutAt(table, j)}
  IN  IF DOMAIN table = {} THEN None ELSE Min(least)
FlowMaxPain(trades, mode) == MaxPain(PositioningTable(trades, mode))

Contribution(mode, t) ==
  CASE mode = "PREMIUM" -> t.premium
    [] mode = "VOLUME" -> t.contracts
    [] mode = "NET_PREMIUM" -> PositionSign(t) * t.premium
    [] mode = "ABS_NET_PREMIUM" -> Positive(PositionSign(t) * t.premium) + Positive(-PositionSign(t) * t.premium)
    [] mode = "OPEN_INTEREST" -> PositionSign(t) * t.contracts

(* Outward from the heaviest strike, the heavier neighbour first and the
   higher of equals, until the share is reached. *)
ValueArea(total, percent) ==
  LET n == Len(total)
      poc == Min({i \in 1..n : \A j \in 1..n : total[i] >= total[j]})
      target == Sum(total, LAMBDA v : v) * percent
      Grown(s, step) ==
        IF 100 * s.acc >= target \/ (s.lo = 1 /\ s.hi = n) THEN s
        ELSE IF s.hi < n /\ (s.lo = 1 \/ total[s.hi + 1] >= total[s.lo - 1])
          THEN [s EXCEPT !.hi = @ + 1, !.acc = @ + total[s.hi + 1]]
        ELSE [s EXCEPT !.lo = @ - 1, !.acc = @ + total[s.lo - 1]]
  IN  FoldLeft(Grown, [poc |-> poc, lo |-> poc, hi |-> poc, acc |-> total[poc]],
               [step \in 1..n |-> step])

(* The next local peak on one side of the heaviest, else the heaviest there,
   the one nearer to it of equals. *)
NextNode(total, poc, way) ==
  LET side == IF way > 0 THEN (poc + 1)..Len(total) ELSE 1..(poc - 1)
      Peak(i) == \A j \in {i - 1, i + 1} \cap DOMAIN total : total[i] >= total[j]
      peaks == {i \in side : Peak(i)}
      top == {i \in side : \A j \in side : total[i] >= total[j]}
      Nearest(J) == IF way > 0 THEN Min(J) ELSE Max(J)
  IN  IF side = {} THEN None ELSE Nearest(IF peaks # {} THEN peaks ELSE top)

NoProfile == [poc |-> None, vah |-> None, val |-> None, above |-> None, under |-> None]
ProfileOf(strikes, total, area) ==
  LET At(i) == IF i = None THEN None ELSE strikes[i]
  IN  [poc |-> At(area.poc), vah |-> At(area.hi), val |-> At(area.lo),
       above |-> At(NextNode(total, area.poc, 1)), under |-> At(NextNode(total, area.poc, -1))]
ProfileOver(strikes, total, percent) ==
  IF strikes = << >> THEN NoProfile ELSE ProfileOf(strikes, total, ValueArea(total, percent))

Heft(trades, strike, mode) ==
  LET Abs(v) == IF v < 0 THEN -v ELSE v
      Side(type) == Abs(Sum(OfType(AtStrike(trades, strike), type), LAMBDA t : Contribution(mode, t)))
  IN  Side("Call") + Side("Put")

BuildProfile(trades, mode, percent) ==
  LET Over(strikes) ==
        ProfileOver(strikes, [i \in DOMAIN strikes |-> Heft(trades, strikes[i], mode)], percent)
  IN  Over(Strikes(trades))

-----------------------------------------------------------------------------
WeightedMean(trades, Value(_), Weigh(_)) ==
  LET used == SelectSeq(trades, LAMBDA t : Weigh(t) > 0)
      weight == Sum(used, Weigh)
  IN  IF weight = 0 THEN None ELSE Sum(used, LAMBDA t : Value(t) * Weigh(t)) \div weight

(* The settlement at which the intrinsic value repays what was paid: the
   code halves the interval a hundred and twenty times. *)
AggregatePayoff(trades, sign, multiplier) ==
  LET cost == Sum(trades, LAMBDA t : t.premium) \div multiplier
      Payout(s) == Sum(trades, LAMBDA t : Positive(sign * (s - t.strike)) * t.contracts)
      strikes == {t.strike : t \in ToSet(trades)}
      repaid == IF sign > 0 THEN {s \in Min(strikes)..(3 * Max(strikes)) : Payout(s) >= cost}
                ELSE {s \in 0..Max(strikes) : Payout(s) <= cost}
  IN  IF trades = << >> THEN None ELSE IF repaid = {} THEN 3 * Max(strikes) ELSE Min(repaid)

(* Over the strikes held long on balance, by the contracts held. *)
NetPositioning(trades, sign) ==
  LET Qty(k) == Sum(AtStrike(trades, k), LAMBDA t : PositionSign(t) * t.contracts)
      Cost(k) == Sum(AtStrike(trades, k), LAMBDA t : PositionSign(t) * t.price * t.contracts)
      held == SelectSeq(Strikes(trades), LAMBDA k : Qty(k) > 0)
      contracts == Sum(held, Qty)
  IN  IF held = << >> THEN None
      ELSE Sum(held, LAMBDA k : k * Qty(k) + sign * Cost(k)) \div contracts

BreakEven(model, trades, type, multiplier) ==
  LET sign == IF type = "Call" THEN 1 ELSE -1
      chosen == OfType(trades, type)
      Even(t) == t.strike + sign * t.price
  IN  CASE model = "premium-weighted" -> WeightedMean(chosen, Even, LAMBDA t : t.premium)
        [] model = "premium-weighted-long" ->
             WeightedMean(SelectSeq(chosen, LAMBDA t : t.side = "Buy"), Even, LAMBDA t : t.premium)
        [] model = "size-weighted" -> WeightedMean(chosen, Even, LAMBDA t : t.contracts)
        [] model = "aggregate-payoff" -> AggregatePayoff(chosen, sign, multiplier)
        [] model = "net-positioning" -> NetPositioning(chosen, sign)
=============================================================================
