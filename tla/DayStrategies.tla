---------------------------- MODULE DayStrategies ----------------------------
(***************************************************************************)
(* The rules that read the New York clock, whole days back, or the shape of *)
(* the last bars (fd-strategy/src).  They keep nothing between bars: that a *)
(* signal is the first of its day is found by reading the tape again.       *)
(***************************************************************************)
EXTENDS Strategies

Hhmm(v) == (v \div 100) * 60 + (v % 100)
InWindow(minute, from, to) ==
  IF from <= to THEN minute >= from /\ minute < to ELSE minute >= from \/ minute < to
AtrNeeds(p, warmup, exits) == Needs({AtrSpec(p)}, <<Key(AtrSpec(p), "")>>, warmup, exits)
NoSeries(p, warmup, exits) == Needs({AtrSpec(p)}, << >>, warmup, exits)

(* New York's calendar of every bar, read once into the context. *)
LocalTimes(bars) ==
  [j \in DOMAIN bars |-> [day |-> NewYorkDay(bars[j].time), minute |-> NewYorkMinute(bars[j].time),
                          session |-> SessionIndex(bars[j].time)]]
DayOf(c, j) == c.local[j].day
MinuteOf(c, j) == c.local[j].minute
(* The day of the whole tape, not of the slice that ends here. *)
BugToday(c) == {j \in DOMAIN c.bars : DayOf(c, j) = DayOf(c, c.i)}

Today(c) == {j \in 1..c.i : DayOf(c, j) = DayOf(c, c.i)}
HighOf(c, J) == Max({c.bars[j].high : j \in J})
LowOf(c, J) == Min({c.bars[j].low : j \in J})

-----------------------------------------------------------------------------
(* The first close outside the opening range, before `entryUntil`. *)
OrbNeeds(p) == AtrNeeds(p, p.atrPeriod + Slack, "Engine")

Broke(c, j, high, low) ==
  IF c.bars[j].close > high + c.p.buffer THEN "Long"
  ELSE IF c.bars[j].close < low - c.p.buffer THEN "Short" ELSE Nothing

BugOrb(c) ==
  LET start == Hhmm(c.p.rangeStart)
      end == start + c.p.rangeMinutes
      until == Hhmm(c.p.entryUntil)
      In(j, from, to) == MinuteOf(c, j) >= from /\ MinuteOf(c, j) < to
      range == {j \in Today(c) : In(j, start, end)}
      high == HighOf(c, range)  low == LowOf(c, range)
      side == Broke(c, c.i, high, low)
      justBroken == HasPrev(c) /\ Broke(c, c.i - 1, high, low) # Nothing
  IN  IF ~Flat(c) \/ ~In(c.i, end, until) \/ range = {} THEN Nothing
      ELSE IF high - low < c.p.minRange \/ justBroken \/ side = Nothing THEN Nothing
      ELSE EnterFor(side, Bar(c).close, IF side = "Long" THEN low ELSE high, c.p.riskReward)

Orb(c) ==
  LET start == Hhmm(c.p.rangeStart)
      end == start + c.p.rangeMinutes
      until == Hhmm(c.p.entryUntil)
      In(j, from, to) == MinuteOf(c, j) >= from /\ MinuteOf(c, j) < to
      range == {j \in Today(c) : In(j, start, end)}
      high == HighOf(c, range)  low == LowOf(c, range)
      broken == {j \in Today(c) \ {c.i} : In(j, end, until) /\ Broke(c, j, high, low) # Nothing}
      side == Broke(c, c.i, high, low)
      edge == IF c.p.stopAtMiddle THEN (high + low) \div 2 ELSE IF side = "Long" THEN low ELSE high
      tooWide == S(c, 1) # Nothing /\ 10 * (high - low) > c.p.maxRangeAtr * S(c, 1)
  IN  IF ~Flat(c) \/ ~In(c.i, end, until) \/ range = {} THEN Nothing
      ELSE IF high - low < c.p.minRange \/ tooWide \/ broken # {} \/ side = Nothing THEN Nothing
      ELSE EnterFor(side, Bar(c).close, edge, c.p.riskReward)

(* Yesterday's extremes: the last day on the tape that is not today. *)
PreviousDay(c) ==
  LET days == {DayOf(c, j) : j \in 1..c.i} \ {DayOf(c, c.i)}
  IN  IF days = {} THEN {} ELSE {j \in 1..c.i : DayOf(c, j) = Max(days)}

PdhlNeeds(p) == AtrNeeds(p, p.atrPeriod + Slack, "Engine")
Pdhl(c) ==
  LET day == PreviousDay(c)
      pdh == HighOf(c, day)  pdl == LowOf(c, day)
      At(side, level, stop) == [side |-> side, level |-> level, stop |-> stop]
      Signal(b) ==
        IF c.p.fade
        THEN Either(b.high > pdh /\ b.close < pdh, At("Short", pdh, b.high + c.p.buffer),
                    b.low < pdl /\ b.close > pdl, At("Long", pdl, b.low - c.p.buffer))
        ELSE Either(b.close > pdh, At("Long", pdh, pdh - c.p.buffer),
                    b.close < pdl, At("Short", pdl, pdl + c.p.buffer))
      now == Signal(Bar(c))
      taken == \E j \in Today(c) \ {c.i} :
                 LET s == Signal(c.bars[j]) IN IF s = Nothing THEN FALSE ELSE s.level = now.level
      tooFar == S(c, 1) # Nothing
                  /\ 10 * Size(Bar(c).close - now.stop) > c.p.maxRiskAtr * S(c, 1)
  IN  IF ~Flat(c) \/ day = {} THEN Nothing
      ELSE IF now = Nothing THEN Nothing
      ELSE IF taken \/ tooFar THEN Nothing
      ELSE EnterFor(now.side, Bar(c).close, now.stop, c.p.riskReward)

(* The first bar after a break in trading, against the gap it opened. *)
GapFadeNeeds(p) == AtrNeeds(p, p.atrPeriod + Slack, "Engine")
GapFade(c) ==
  LET atr == SBack(c, 1, 1)
      gap == Bar(c).open - Back(c, 1).close
      Scaled(percent) == (gap * percent) \div 100
  IN  IF ~Flat(c) \/ ~HasPrev(c) THEN Nothing
      ELSE IF Bar(c).time - Back(c, 1).time < c.p.minGapHours * Hour \/ atr = Nothing THEN Nothing
      ELSE IF atr <= 0 \/ 10 * Size(gap) < c.p.minGapAtr * atr THEN Nothing
      ELSE ToEnter(Side2(gap <= 0), Bar(c).open + Scaled(c.p.stopGap), Bar(c).open - Scaled(c.p.fillPct))

-----------------------------------------------------------------------------
(* The mean range of the last `days` full days: a day whose bars span less
   than half of the longest is a stub, and none is a day of its own. *)
AverageDayRange(c, days) ==
  LET past == {DayOf(c, j) : j \in 1..c.i} \ {DayOf(c, c.i)}
      want == days + days \div 5 + 2
      found == {d \in past : Cardinality({e \in past : e > d}) < want}
      Of(d) == {j \in 1..c.i : DayOf(c, j) = d}
      Span(d) == c.bars[Max(Of(d))].time - c.bars[Min(Of(d))].time
      longest == Max({Span(d) : d \in found})
      full == {d \in found : 2 * Span(d) >= longest}
      used == {d \in full : Cardinality({e \in full : e > d}) < days}
      sum == MapThenSumSet(LAMBDA d : HighOf(c, Of(d)) - LowOf(c, Of(d)), used)
  IN  IF Cardinality(used) < (IF days < 5 THEN days ELSE 5) \/ sum = 0 THEN Nothing
      ELSE sum \div Cardinality(used)

SizingStop(c, side, ranges, days) ==
  LET range == AverageDayRange(c, days)
  IN  IF range = Nothing THEN Nothing ELSE Away(side, Bar(c).close, (ranges * range) \div 10)
EnterSized(c, side, ranges, days) ==
  LET stop == SizingStop(c, side, ranges, days)
  IN  IF stop = Nothing THEN Nothing ELSE ToEnter(side, stop, Nothing)

(* From the first bar inside a window to the first outside it. *)
SessionHoldNeeds(p) == NoSeries(p, p.atrPeriod + Slack, "Strategy")
SessionHold(c) ==
  LET Inside(j) == InWindow(MinuteOf(c, j), Hhmm(c.p.from), Hhmm(c.p.to))
  IN  IF ~Flat(c) THEN IF Inside(c.i) THEN Nothing ELSE ToExit
      ELSE IF ~Inside(c.i) THEN Nothing
      ELSE IF HasPrev(c) /\ Inside(c.i - 1) THEN Nothing
      ELSE IF c.p.riskDailyRanges > 0
           THEN EnterSized(c, c.p.side, c.p.riskDailyRanges, c.p.rangeDays)
           ELSE ToEnter(c.p.side, Nothing, Nothing)

(* The day's first half hour, found backwards: the earliest bar at or after
   its start and the latest before its end. *)
Predictor(c, from, to) ==
  LET starts == {j \in Today(c) : MinuteOf(c, j) >= from}
      ends == {j \in Today(c) : MinuteOf(c, j) < to}
  IN  IF starts = {} \/ ends = {} THEN Nothing
      ELSE IF Min(starts) > Max(ends) THEN Nothing
      ELSE c.bars[Max(ends)].close - c.bars[Min(starts)].open

IntradayMomentumNeeds(p) == NoSeries(p, p.atrPeriod + Slack, "Strategy")
IntradayMomentum(c) ==
  LET from == Hhmm(c.p.from)  to == Hhmm(c.p.to)
      Inside(j) == InWindow(MinuteOf(c, j), from, to)
      sameWindow == HasPrev(c) /\ (from > to \/ DayOf(c, c.i - 1) = DayOf(c, c.i)) /\ Inside(c.i - 1)
      move == Predictor(c, Hhmm(c.p.firstFrom), Hhmm(c.p.firstTo))
      range == AverageDayRange(c, c.p.rangeDays)
      small == c.p.minMove > 0 /\ (range = Nothing \/ 10 * Size(move) < c.p.minMove * range)
  IN  IF ~Flat(c) THEN IF Inside(c.i) THEN Nothing ELSE ToExit
      ELSE IF ~Inside(c.i) \/ sameWindow \/ move = Nothing THEN Nothing
      ELSE IF move = 0 \/ small THEN Nothing
      ELSE EnterSized(c, Side2(move > 0), c.p.riskDailyRanges, c.p.rangeDays)

(* Rebalanced on the first bar at or after a minute of the day. *)
TsmomNeeds(p) == NoSeries(p, (p.lookbackDays + Slack) * BarsADay, "Strategy")
Tsmom(c) ==
  LET rebalance == Hhmm(c.p.rebalance)
      first == /\ MinuteOf(c, c.i) >= rebalance
               /\ HasPrev(c) => \/ DayOf(c, c.i - 1) # DayOf(c, c.i)
                               \/ MinuteOf(c, c.i - 1) < rebalance
      old == {j \in 1..c.i : DayOf(c, j) <= DayOf(c, c.i) - c.p.lookbackDays}
      gain == Bar(c).close - c.bars[Max(old)].close
      want == Side2(gain > 0)
  IN  IF ~first \/ old = {} THEN Nothing
      ELSE IF gain = 0 THEN Nothing
      ELSE IF ~Flat(c) THEN IF c.position.side = want THEN Nothing ELSE ToExit
      ELSE EnterSized(c, want, c.p.riskDailyRanges, c.p.rangeDays)

(* The sessions already closed, the last first: the oldest on the tape is
   never known whole, and a stub is no session. *)
SessionOf(c, j) == c.local[j].session
CompletedSessions(c, want) ==
  LET now == SessionOf(c, c.i)
      before == {SessionOf(c, j) : j \in 1..c.i} \ {now}
      whole == {s \in before : \E older \in before : older < s}
      found == {s \in whole : Cardinality({e \in whole : e > s}) < want + want \div 5 + 2}
      Of(s) == {j \in 1..c.i : SessionOf(c, j) = s}
      longest == Max({Cardinality(Of(s)) : s \in found})
      full == {s \in found : 2 * Cardinality(Of(s)) >= longest}
      kept == {s \in full : Cardinality({e \in full : e > s}) < want}
  IN  IF want = 0 \/ Cardinality(kept) < want THEN Nothing
      ELSE [n \in 1..want |->
              LET J == Of(Nth(kept, want + 1 - n))
              IN  [high |-> HighOf(c, J), low |-> LowOf(c, J), close |-> c.bars[Max(J)].close]]

SessionRange(sessions, j) ==
  Max({sessions[j].high, sessions[j + 1].close}) - Min({sessions[j].low, sessions[j + 1].close})

(* With the trailing return, while the sessions behind it were quiet ones. *)
QuietSwingNeeds(p) ==
  NoSeries(p, p.lookback + p.window + p.rangeDays + Slack, "Strategy")
QuietSwing(c) ==
  LET k == c.p.lookback  w == c.p.window
      now == SessionOf(c, c.i)
      sessions == CompletedSessions(c, k + w + 1)
      gain == sessions[1].close - sessions[k + 1].close
      side == Side2(gain > 0)
      Travelled(m) == Total([j \in 1..k |-> SessionRange(sessions, m + j)])
      quieter == {m \in 1..w : Travelled(m) < Travelled(0)}
  IN  IF HasPrev(c) /\ SessionOf(c, c.i - 1) = now THEN Nothing
      ELSE IF k = 0 \/ w = 0 \/ c.p.hold = 0 \/ sessions = Nothing THEN Nothing
      ELSE IF gain = 0 THEN Nothing
      ELSE IF ~Flat(c)
        THEN IF \/ now - SessionIndex(c.position.entryTime) >= c.p.hold
                \/ c.position.side # side THEN ToExit ELSE Nothing
      ELSE IF Travelled(0) <= 0 \/ 100 * Cardinality(quieter) >= c.p.quietPct * w THEN Nothing
      ELSE EnterSized(c, side, c.p.riskDailyRanges, c.p.rangeDays)

-----------------------------------------------------------------------------
VwapFadeNeeds(p) ==
  LET vwap == Spec1("vwap", p.session)
  IN  Needs({vwap, AtrSpec(p)}, <<Key(vwap, ""), Key(AtrSpec(p), "")>>, p.atrPeriod + Slack, "Engine")
VwapFade(c) ==
  LET vwap == S(c, 1)  atr == S(c, 2)  close == Bar(c).close
      Stretched(n, side) ==
        IF side = "Long"
        THEN 10 * Back(c, n).close <= 10 * SBack(c, 1, n) - c.p.stretchAtr * SBack(c, 2, n)
        ELSE 10 * Back(c, n).close >= 10 * SBack(c, 1, n) + c.p.stretchAtr * SBack(c, 2, n)
      known0 == HasPrev(c) /\ Finite({SBack(c, 1, 1), SBack(c, 2, 1)})
      Faded(side) == IF known0 /\ Stretched(1, side) THEN Nothing
                     ELSE ToEnter(side, AtrStop(side, close, atr, c.p.stopAtr), vwap)
  IN  IF ~Flat(c) \/ ~Finite({vwap, atr}) THEN Nothing
      ELSE IF atr <= 0 THEN Nothing
      ELSE Either(Stretched(0, "Long"), Faded("Long"), Stretched(0, "Short"), Faded("Short"))

DojiNeeds(p) == AtrNeeds(p, Larger2(p.atrPeriod, p.trendBars) + Slack, "Engine")
IsDoji(bar, p, atr) ==
  /\ 10 * (bar.high - bar.low) >= p.minRangeAtr * atr
  /\ 100 * Size(bar.close - bar.open) <= p.bodyMaxPct * (bar.high - bar.low)
Doji(c) ==
  LET atr == S(c, 1)
      move == IF c.i > c.p.trendBars THEN Back(c, 1).close - Back(c, c.p.trendBars).close ELSE 0
      side == Side2(move <= 0)
  IN  IF ~Flat(c) \/ atr = Nothing THEN Nothing
      ELSE IF atr <= 0 \/ 10 * Size(move) < c.p.trendAtr * atr \/ ~IsDoji(Bar(c), c.p, atr) THEN Nothing
      ELSE IF HasPrev(c) /\ IsDoji(Back(c, 1), c.p, atr) THEN Nothing
      ELSE EnterFor(side, Bar(c).close,
                    IF side = "Short" THEN Bar(c).high + c.p.buffer ELSE Bar(c).low - c.p.buffer,
                    c.p.riskReward)

TrendPullbackNeeds(p) ==
  LET fast == Spec1("ema", p.fast)  slow == Spec1("ema", p.slow)
  IN  Needs({fast, slow, AtrSpec(p)}, <<Key(fast, ""), Key(slow, ""), Key(AtrSpec(p), "")>>,
            p.slow + p.slopeBars + Slack, "Engine")
TrendPullback(c) ==
  LET fast == S(c, 1)  slow == S(c, 2)  slow0 == SBack(c, 2, c.p.slopeBars)  close == Bar(c).close
      (* against a value not known yet no comparison holds *)
      Ran(Beyond(_, _)) == \A n \in 1..c.p.runBars :
                             SBack(c, 1, n) # Nothing /\ Beyond(Back(c, n).close, SBack(c, 1, n))
      swing == (c.i + 1 - c.p.swingBars)..c.i
      up == /\ slow > slow0 /\ close > slow /\ close < fast
            /\ Ran(LAMBDA a, b : a > b)
            /\ close > LowOf(c, swing) - c.p.buffer
      down == /\ slow < slow0 /\ close < slow /\ close > fast
              /\ Ran(LAMBDA a, b : a < b)
              /\ close < HighOf(c, swing) + c.p.buffer
  IN  IF ~Flat(c) \/ ~Finite({fast, slow, slow0}) THEN Nothing
      ELSE IF c.i <= Larger2(c.p.runBars, c.p.swingBars) + 1 THEN Nothing
      ELSE Either(up, EnterFor("Long", close, LowOf(c, swing) - c.p.buffer, c.p.riskReward),
                  down, EnterFor("Short", close, HighOf(c, swing) + c.p.buffer, c.p.riskReward))

VolumeThrustNeeds(p) == AtrNeeds(p, Larger2(p.volBars, p.atrPeriod) + Slack, "Engine")
VolumeThrust(c) ==
  LET atr == S(c, 1)  bar == Bar(c)  range == bar.high - bar.low
      sum == Total([n \in 1..c.p.volBars |->
                      IF Back(c, n).volume = Nothing THEN 0 ELSE Back(c, n).volume])
      Heavy(b) == b.volume # Nothing /\ 10 * b.volume * c.p.volBars >= c.p.volMult * sum
      side == Either(100 * (bar.high - bar.close) <= range * c.p.closePct, "Long",
                     100 * (bar.close - bar.low) <= range * c.p.closePct, "Short")
      stop == IF side = "Long" THEN bar.low - c.p.buffer ELSE bar.high + c.p.buffer
  IN  IF ~Flat(c) \/ atr = Nothing \/ c.i <= c.p.volBars + 1 THEN Nothing
      ELSE IF atr <= 0 \/ sum <= 0 \/ ~Heavy(bar) \/ 10 * range < c.p.minRangeAtr * atr THEN Nothing
      ELSE IF side = Nothing \/ Heavy(Back(c, 1)) THEN Nothing
      ELSE ToEnter(side, stop, Toward(side, bar.close, (Size(bar.close - stop) * c.p.riskReward) \div 10))

(* A channel break whose stop is the far edge of that channel. *)
FarStopBreakNeeds(p) ==
  LET channel == Spec1("donchian", p.period)
  IN  Needs({channel, AtrSpec(p)},
            <<Key(channel, "upper"), Key(channel, "lower"), Key(AtrSpec(p), "atr")>>,
            Larger2(p.period, p.atrPeriod) + Slack, "Engine")
FarStopBreak(c) ==
  LET upper == S(c, 1)  lower == S(c, 2)  atr == S(c, 3)  close == Bar(c).close
      side == Either(close > upper, "Long", close < lower, "Short")
      stop == IF c.p.structural THEN IF side = "Long" THEN lower ELSE upper
              ELSE AtrStop(side, close, atr, c.p.stopAtr)
      risk == IF side = "Long" THEN close - stop ELSE stop - close
  IN  IF ~Flat(c) \/ ~Finite({upper, lower, atr}) THEN Nothing
      ELSE IF side = Nothing THEN Nothing
      ELSE IF risk <= 0 \/ risk < c.p.minStopPoints THEN Nothing
      ELSE EnterFor(side, close, stop, c.p.riskReward)

VolmanBoxNeeds(p) ==
  LET ema == Spec1("ema", p.emaPeriod)
  IN  Needs({ema, AtrSpec(p)}, <<Key(ema, ""), Key(AtrSpec(p), "")>>,
            p.boxBars + Larger2(p.emaPeriod, p.atrPeriod) + Slack, "Engine")
VolmanBox(c) ==
  LET ema == S(c, 1)  atr == S(c, 2)  atr0 == SBack(c, 2, 1)  close == Bar(c).close
      inBox == (c.i - c.p.boxBars)..(c.i - 1)
      hi == HighOf(c, inBox)  lo == LowOf(c, inBox)  h == hi - lo
      up == close > hi /\ close > ema /\ 10 * (close - hi) <= c.p.maxBreakAtr * atr
      down == close < lo /\ close < ema /\ 10 * (lo - close) <= c.p.maxBreakAtr * atr
  IN  IF ~Flat(c) \/ c.p.boxBars = 0 \/ c.i <= c.p.boxBars THEN Nothing
      ELSE IF ~Finite({ema, atr, atr0}) THEN Nothing
      ELSE IF atr <= 0 \/ atr0 <= 0 \/ h <= 0 \/ 10 * h > c.p.maxBoxAtr * atr0 THEN Nothing
      ELSE Either(up, ToEnter("Long", lo, hi + c.p.boxes * h),
                  down, ToEnter("Short", hi, lo - c.p.boxes * h))

-----------------------------------------------------------------------------
(* Against a move the companion did not share, over an unbroken span. *)
CompanionUnconfirmedNeeds(p) ==
  LET cmp == <<"cmp", <<p.moveBars, p.companionAtrPeriod>> >>
  IN  Needs({AtrSpec(p), cmp}, <<Key(AtrSpec(p), ""), Key(cmp, "change"), Key(cmp, "atr")>>,
            Larger2(p.atrPeriod, p.companionAtrPeriod) + p.moveBars + Slack, "Engine")
CompanionUnconfirmed(c) ==
  LET k == c.p.moveBars
      Step(n) == Back(c, n).time - Back(c, n + 1).time
      atr == S(c, 1)  change == S(c, 2)  theirAtr == S(c, 3)
      move == Bar(c).close - Back(c, k).close
      way == IF move > 0 THEN 1 ELSE -1
      side == Side2(move <= 0)
  IN  IF ~Flat(c) \/ k = 0 \/ c.i <= k THEN Nothing
      ELSE IF \E n \in 0..(k - 1) : Step(n) # Step(k - 1) THEN Nothing
      ELSE IF ~Finite({atr, change, theirAtr}) THEN Nothing
      ELSE IF atr <= 0 \/ theirAtr <= 0 \/ 10 * Size(move) <= c.p.moveAtr * atr THEN Nothing
      ELSE IF 10 * way * change >= c.p.companionAtr * theirAtr \/ c.p.stopAtr * atr < 10 THEN Nothing
      ELSE ToEnter(side, AtrStop(side, Bar(c).close, atr, c.p.stopAtr), Nothing)

(* Candles that end a move: a star, else an outside bar, else a marubozu. *)
Body(b) == Size(b.close - b.open)
Range2(b) == b.high - b.low
Top2(b) == Larger2(b.close, b.open)
Foot(b) == IF b.close < b.open THEN b.close ELSE b.open

Marubozu(b, maxShadow) ==
  LET Short2(v) == 100 * v <= maxShadow * Range2(b)
  IN  IF Range2(b) <= 0 THEN Nothing
      ELSE IF 100 * Body(b) < (100 - 2 * maxShadow) * Range2(b) THEN Nothing
      ELSE IF ~Short2(b.high - Top2(b)) \/ ~Short2(Foot(b) - b.low) THEN Nothing
      ELSE Either(b.close > b.open, "Bull", b.close < b.open, "Bear")

OutsideBar(prev, b) ==
  IF ~(b.high > prev.high /\ b.low < prev.low) THEN Nothing
  ELSE Either(b.close > b.open /\ b.close > Min({prev.high, Top2(prev)}), "Bull",
              b.close < b.open /\ b.close < Max({prev.low, Foot(prev)}), "Bear")

Star(first, middle, last, smallBody) ==
  LET Small(b) == 100 * Body(b) < smallBody * Range2(b)
      NotSmall(b) == ~Small(b)
      sum == first.open + first.close
  IN  IF Range2(first) <= 0 \/ Range2(middle) <= 0 \/ Range2(last) <= 0 THEN Nothing
      ELSE IF 100 * Body(middle) > smallBody * Range2(middle) \/ Small(first) THEN Nothing
      ELSE Either(/\ first.close < first.open /\ middle.high < Top2(first)
                  /\ last.close > last.open /\ 2 * last.close > sum /\ NotSmall(last), "Bull",
                  /\ first.close > first.open /\ middle.low > Foot(first)
                  /\ last.close < last.open /\ 2 * last.close < sum /\ NotSmall(last), "Bear")

ReversalAt(c) ==
  LET star == IF c.i < 3 THEN Nothing ELSE Star(Back(c, 2), Back(c, 1), Bar(c), c.p.smallBody)
      outside == IF c.i < 2 THEN Nothing ELSE OutsideBar(Back(c, 1), Bar(c))
  IN  IF star # Nothing THEN star ELSE IF outside # Nothing THEN outside
      ELSE Marubozu(Bar(c), c.p.maxShadow)

MeanVolume(c, n) ==
  LET volumes == {Back(c, m).volume : m \in 1..n}
  IN  IF n = 0 \/ c.i <= n THEN Nothing
      ELSE IF Nothing \in volumes \/ \E v \in volumes : v <= 0 THEN Nothing
      ELSE Total([m \in 1..n |-> Back(c, m).volume]) \div n

RsiReversalVolNeeds(p) ==
  LET rsi == Spec1("rsi", p.rsiPeriod)
      stoch == <<"stochrsi", <<p.rsiPeriod, p.stochPeriod, p.smoothK, p.smoothD>> >>
  IN  Needs({rsi, stoch}, <<Key(rsi, "rsi"), Key(stoch, "k"), Key(stoch, "d")>>,
            p.rsiPeriod + p.stochPeriod + p.smoothK + p.smoothD + p.volBars + Slack, "Engine")
RsiReversalVol(c) ==
  LET rsi == S(c, 1)  k == S(c, 2)  rsi0 == SBack(c, 1, 1)  k0 == SBack(c, 2, 1)
      mean == MeanVolume(c, c.p.volBars)
      Fixed(side) == EnterFor(side, Bar(c).close, Away(side, Bar(c).close, c.p.stopPrice),
                              (10 * c.p.targetPrice) \div c.p.stopPrice)
      bull == ReversalAt(c) = "Bull" /\ rsi < c.p.buyRsi /\ rsi > rsi0 /\ k > k0
      bear == ReversalAt(c) = "Bear" /\ rsi > c.p.sellRsi /\ rsi < rsi0 /\ k < k0
  IN  IF ~Flat(c) \/ c.i < 3 THEN Nothing
      ELSE IF ~Finite({rsi, k, rsi0, k0}) \/ mean = Nothing \/ Bar(c).volume = Nothing THEN Nothing
      ELSE IF 10 * Bar(c).volume <= mean * c.p.volMult THEN Nothing
      ELSE IF c.p.stopPrice <= 0 \/ c.p.targetPrice <= 0 THEN Nothing
      ELSE Either(bull, Fixed("Long"), bear, Fixed("Short"))
=============================================================================
