------------------------------ MODULE HtfFacts ------------------------------
(***************************************************************************)
(* The higher timeframes in a few facts (fd-api/src/htf.rs): the trend of   *)
(* the hours by one rule or the other, and the day and week before the      *)
(* newest daily bar.                                                        *)
(***************************************************************************)
EXTENDS PriceLevels

-----------------------------------------------------------------------------
FractalSwings(bars, n, high) == ConfirmedSwings(bars, n, n, high)

(* Net move over the path walked, in percent. *)
EfficiencyRatio(bars, period) ==
  LET n == Len(bars)
      path == Total([k \in 1..period |-> Size(bars[n - period + k].close - bars[n - period + k - 1].close)])
  IN  IF n < period + 1 THEN Nothing
      ELSE IF path = 0 THEN Nothing
      ELSE (100 * Size(bars[n].close - bars[n - period].close)) \div path

SlopeSign(series, span) ==
  LET n == Len(series)
  IN  IF n <= span THEN Nothing
      ELSE IF series[n] = Nothing \/ series[n - span] = Nothing THEN Nothing
      ELSE IF series[n] > series[n - span] THEN 1 ELSE IF series[n] < series[n - span] THEN -1 ELSE 0

LastKnown(series) ==
  LET known == {i \in DOMAIN series : series[i] # Nothing}
  IN  IF known = {} THEN Nothing ELSE series[Max(known)]

BarsSinceExtreme(bars, period, high) ==
  LET n == Len(bars)
  IN  IF n < period THEN Nothing ELSE n - ExtremeOf(bars, [from |-> n - period + 1, to |-> n], high).at

-----------------------------------------------------------------------------
(* What both rules tell: the last two swings of each side, the bar that
   confirmed the newest, and the price whose break is said to end it. *)
Structure(label, highs, lows) ==
  LET Price(swing) == IF swing = Nothing THEN Nothing ELSE swing.price
  IN  [label |-> label,
       lastHigh |-> Latest(highs, 1), priorHigh |-> Latest(highs, 2),
       lastLow |-> Latest(lows, 1), priorLow |-> Latest(lows, 2),
       confirmedAt |-> IF highs \cup lows = {} THEN Nothing ELSE Max({s.confirmedAt : s \in highs \cup lows}),
       breakLevel |-> CASE label = "Up" -> Price(Latest(lows, 1))
                        [] label = "Down" -> Price(Latest(highs, 1))
                        [] label = "Range" -> Nothing]

(* The leg in force: down once a high is confirmed, up once a low is. *)
StructureZigzag(bars, k, atr) ==
  LET pivots == ToSet(ZigzagPivots(bars, k, atr))
      Swings(high) == {[at |-> p.at, confirmedAt |-> p.confirmedAt, price |-> p.price] :
                         p \in {q \in pivots : q.high = high}}
      newest == Max({p.confirmedAt : p \in pivots})
  IN  Structure(IF pivots = {} THEN "Range"
                ELSE IF \E p \in pivots : p.confirmedAt = newest /\ p.high THEN "Down" ELSE "Up",
                Swings(TRUE), Swings(FALSE))

StructureFractal(bars, n) ==
  LET highs == FractalSwings(bars, n, TRUE)  lows == FractalSwings(bars, n, FALSE)
  IN  Structure(Compared(highs, lows), highs, lows)

StructureOf(bars, rule, atr) ==
  IF rule.kind = "Zigzag" THEN StructureZigzag(bars, rule.k, atr) ELSE StructureFractal(bars, rule.n)

-----------------------------------------------------------------------------
WeeksOf(bars) == RunsSplitByGap(bars, 2 * DayMinutes)

Newest(bars, n) == [i \in 1..Min({n, Len(bars)}) |-> bars[Len(bars) - Min({n, Len(bars)}) + i]]

(* The periods are scaled with the instance: p names each of them. *)
TrendFacts(all, rule, p) ==
  LET bars == Newest(all, p.trendBars)
      fast == Ema(Closes(bars), p.fast)  slow == Ema(Closes(bars), p.slow)
      atr == Atr(bars, p.atr)
      adx == Adx(bars, p.adx)
      channel == Donchian(bars, p.channel)
      middle == LastKnown(fast)  unit == LastKnown(atr)
  IN  [computedAt |-> Last(bars).time, close |-> Last(bars).close,
       structure |-> StructureOf(bars, rule, atr),
       fast |-> middle, slow |-> LastKnown(slow), atr |-> unit,
       fastSlope |-> SlopeSign(fast, p.slope), slowSlope |-> SlopeSign(slow, p.slope),
       distance |-> IF middle = Nothing \/ unit = Nothing THEN Nothing
                    ELSE IF unit <= 0 THEN Nothing ELSE (10 * (Last(bars).close - middle)) \div unit,
       adx |-> LastKnown(adx.adx), plusDi |-> LastKnown(adx.plusDi), minusDi |-> LastKnown(adx.minusDi),
       efficiency |-> EfficiencyRatio(bars, p.channel),
       upper |-> LastKnown(channel.upper), lower |-> LastKnown(channel.lower),
       sinceHigh |-> BarsSinceExtreme(bars, p.channel, TRUE),
       sinceLow |-> BarsSinceExtreme(bars, p.channel, FALSE)]

(* The bar before the newest, and the run before the newest run of the week. *)
D1Facts(all, p) ==
  LET bars == Newest(all, p.d1Bars)
      n == Len(bars)
      weeks == WeeksOf(bars)
      week == IF Len(weeks) < 2 THEN Nothing ELSE weeks[Len(weeks) - 1]
      high == ExtremeOf(bars, week, TRUE).price
      low == ExtremeOf(bars, week, FALSE).price
  IN  [computedAt |-> bars[n].time, close |-> bars[n].close,
       priorDay |-> IF n < 2 THEN Nothing ELSE [high |-> bars[n - 1].high, low |-> bars[n - 1].low],
       priorWeek |-> IF week = Nothing THEN Nothing
                     ELSE [high |-> high, low |-> low, middle |-> (high + low) \div 2,
                           start |-> bars[week.from].time,
                           place |-> IF high <= low THEN Nothing
                                     ELSE ((bars[n].close - low) * 100) \div (high - low)]]
=============================================================================
