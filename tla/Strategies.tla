----------------------------- MODULE Strategies -----------------------------
(***************************************************************************)
(* The rules that read bars and indicators (fd-strategy/src): what each     *)
(* asks to be computed, and what it says on a bar.  A rule is asked with a  *)
(* context c: the whole tape c.bars and its local times, the bar c.i it is  *)
(* asked on, the series its keys name, the open position and the options    *)
(* view (or Nothing), and its parameters c.p.  Ratios (riskReward, ATR     *)
(* multiples) are in tenths, percentages in hundredths.                    *)
(***************************************************************************)
EXTENDS Indicators

CONSTANTS
  Slack,     \* bars a rule waits beyond its longest period
  BarsADay   \* five-minute bars of a day, the unit of a warm-up in days

ToEnter(side, stop, target) ==
  [kind |-> "Enter", side |-> side, stop |-> stop, target |-> target]
ToExit == [kind |-> "Exit"]

(* What a rule has computed, the keys it reads by slot, when it may first be
   asked, and who ends its positions. *)
Needs(indicators, series, warmup, exits) ==
  [indicators |-> indicators, series |-> series, warmup |-> warmup, exits |-> exits]
Spec1(id, a) == <<id, <<a>> >>
AtrSpec(p) == Spec1("atr", p.atrPeriod)
Key(spec, output) == <<spec[1], spec[2], output>>
Larger2(a, b) == IF a > b THEN a ELSE b

(* Every catalogued indicator and what it publishes. *)
Compute(spec, bars, companion) ==
  LET p == spec[2]
  IN  CASE spec[1] = "sma" -> [sma |-> Sma(Closes(bars), p[1])]
        [] spec[1] = "ema" -> [ema |-> Ema(Closes(bars), p[1])]
        [] spec[1] = "rsi" -> [rsi |-> Rsi(bars, p[1])]
        [] spec[1] = "macd" -> Macd(bars, p[1], p[2], p[3])
        [] spec[1] = "bbands" -> Bollinger(bars, p[1], p[2])
        [] spec[1] = "atr" -> [atr |-> Atr(bars, p[1])]
        [] spec[1] = "vwap" -> [vwap |-> Vwap(bars, p[1])]
        [] spec[1] = "stoch" -> Stochastic(bars, p[1], p[2], p[3])
        [] spec[1] = "stochrsi" -> StochRsi(bars, p[1], p[2], p[3], p[4])
        [] spec[1] = "adx" -> Adx(bars, p[1])
        [] spec[1] = "donchian" -> Donchian(bars, p[1])
        [] spec[1] = "keltner" -> Keltner(bars, p[1], p[2], p[3])
        [] spec[1] = "swing" -> Swing(bars, p[1], p[2])
        [] spec[1] = "supertrend" -> Supertrend(bars, p[1], p[2])
        [] spec[1] = "zigzag" -> Zigzag(bars, p[1], p[2])
        [] spec[1] = "avwap" -> [avwap |-> AnchoredVwap(bars, p[1])]
        [] spec[1] = "cmp" -> AlignedChange(bars, companion, p[1], p[2])

(* A series is filed under its output, and bare too when it is the only one. *)
Outputs(computed) == DOMAIN computed \cup (IF Cardinality(DOMAIN computed) = 1 THEN {""} ELSE {})
OutputOf(computed, output) ==
  IF output = "" THEN computed[CHOOSE name \in DOMAIN computed : TRUE] ELSE computed[output]

(* A slot whose key nothing filed reads as unknown on every bar. *)
Slot(needs, key, computed, n) ==
  IF <<key[1], key[2]>> \in needs.indicators /\ key[3] \in Outputs(computed)
  THEN OutputOf(computed, key[3]) ELSE Unknown(n)
Resolved(needs, bars, companion) ==
  [slot \in DOMAIN needs.series |->
     LET key == needs.series[slot]
     IN  Slot(needs, key, Compute(<<key[1], key[2]>>, bars, companion), Len(bars))]

-----------------------------------------------------------------------------
Bar(c) == c.bars[c.i]
Back(c, n) == c.bars[c.i - n]
HasPrev(c) == c.i > 1
S(c, slot) == c.series[slot][c.i]
SBack(c, slot, n) == IF n < c.i THEN c.series[slot][c.i - n] ELSE Nothing
Finite(values) == Nothing \notin values
Flat(c) == c.position = Nothing
Side2(long) == IF long THEN "Long" ELSE "Short"
Away(side, from, by) == IF side = "Long" THEN from - by ELSE from + by
Toward(side, from, by) == IF side = "Long" THEN from + by ELSE from - by
AtrStop(side, close, atr, mult) == Away(side, close, (atr * mult) \div 10)

(* A target at a multiple of the risk, where there is any. *)
EnterFor(side, close, stop, riskReward) ==
  LET risk == Size(close - stop)
  IN  IF risk = 0 THEN Nothing
      ELSE ToEnter(side, stop, Toward(side, close, (risk * riskReward) \div 10))

(* The first of two alternatives whose condition holds. *)
Either(long, Long, short, Short) == IF long THEN Long ELSE IF short THEN Short ELSE Nothing

-----------------------------------------------------------------------------
EmaCrossNeeds(p) ==
  LET fast == Spec1("ema", p.fast)  slow == Spec1("ema", p.slow)
  IN  Needs({fast, slow, AtrSpec(p)}, <<Key(fast, ""), Key(slow, ""), Key(AtrSpec(p), "")>>,
            p.slow + Slack, "Engine")
EmaCross(c) ==
  LET fast == S(c, 1)  slow == S(c, 2)  atr == S(c, 3)
      fast0 == SBack(c, 1, 1)  slow0 == SBack(c, 2, 1)
      up == fast0 <= slow0 /\ fast > slow
      down == fast0 >= slow0 /\ fast < slow
      Stopped(side) == ToEnter(side, AtrStop(side, Bar(c).close, atr, c.p.stopAtr), Nothing)
  IN  IF ~Finite({fast, slow, atr, fast0, slow0}) THEN Nothing
      ELSE IF ~Flat(c) THEN IF IF c.position.side = "Long" THEN down ELSE up THEN ToExit ELSE Nothing
      ELSE Either(up, Stopped("Long"), down, Stopped("Short"))

RsiReversionNeeds(p) ==
  LET rsi == Spec1("rsi", p.period)
  IN  Needs({rsi, AtrSpec(p)}, <<Key(rsi, ""), Key(AtrSpec(p), "")>>, 3 * p.period, "Engine")
RsiReversion(c) ==
  LET rsi == S(c, 1)  before == SBack(c, 1, 1)  atr == S(c, 2)
      Stopped(side) == ToEnter(side, AtrStop(side, Bar(c).close, atr, c.p.stopAtr), Nothing)
      done == IF c.position.side = "Long" THEN rsi >= c.p.exitLevel ELSE rsi <= c.p.exitLevel
  IN  IF ~Finite({rsi, before, atr}) THEN Nothing
      ELSE IF ~Flat(c) THEN IF done THEN ToExit ELSE Nothing
      ELSE Either(before <= c.p.oversold /\ rsi > c.p.oversold, Stopped("Long"),
                  before >= c.p.overbought /\ rsi < c.p.overbought, Stopped("Short"))

DonchianBreakoutNeeds(p) ==
  LET channel == Spec1("donchian", p.period)
  IN  Needs({channel, AtrSpec(p)},
            <<Key(channel, "upper"), Key(channel, "lower"), Key(channel, "middle"),
              Key(AtrSpec(p), "")>>, p.period + Slack, "Engine")
DonchianBreakout(c) ==
  LET upper == S(c, 1)  lower == S(c, 2)  mid == S(c, 3)  atr == S(c, 4)
      close == Bar(c).close
      Stopped(side) == ToEnter(side, AtrStop(side, close, atr, c.p.stopAtr), Nothing)
      lost == IF c.position.side = "Long" THEN close < mid ELSE close > mid
  IN  IF ~Finite({upper, lower, mid, atr}) THEN Nothing
      ELSE IF ~Flat(c) THEN IF lost THEN ToExit ELSE Nothing
      ELSE Either(close > upper, Stopped("Long"), close < lower, Stopped("Short"))

BollingerFadeNeeds(p) ==
  LET bands == <<"bbands", <<p.period, p.mult>> >>
  IN  Needs({bands, AtrSpec(p)},
            <<Key(bands, "upper"), Key(bands, "lower"), Key(bands, "middle"),
              Key(AtrSpec(p), "")>>, p.period + Slack, "Engine")
BollingerFade(c) ==
  LET upper == S(c, 1)  lower == S(c, 2)  middle == S(c, 3)  atr == S(c, 4)
      close == Bar(c).close
      Faded(side) == ToEnter(side, AtrStop(side, close, atr, c.p.stopAtr), middle)
      reached == IF c.position.side = "Long" THEN close >= middle ELSE close <= middle
  IN  IF ~Finite({upper, lower, middle, atr}) THEN Nothing
      ELSE IF ~Flat(c) THEN IF reached THEN ToExit ELSE Nothing
      ELSE Either(close < lower, Faded("Long"), close > upper, Faded("Short"))

(* The rules on what the option prints say read c.options. *)
OptionsNeeds(p) == Needs({AtrSpec(p)}, <<Key(AtrSpec(p), "")>>, 3 * p.atrPeriod, "Engine")

ClusterDistance(price, cluster) ==
  IF price < cluster.low THEN cluster.low - price
  ELSE IF price > cluster.high THEN price - cluster.high ELSE 0
NearCluster(c, cluster) ==
  /\ cluster.score >= c.p.minClusterScore
  /\ 10 * ClusterDistance(Bar(c).close, cluster) <= S(c, 1) * c.p.entryAtr
(* Clusters come in order: the first that qualifies decides. *)
FirstOf(s, Says(_)) ==
  LET said == SelectSeq([n \in DOMAIN s |-> Says(s[n])], LAMBDA intent : intent # Nothing)
  IN  IF said = << >> THEN Nothing ELSE said[1]
BeyondCluster(c, side, cluster) ==
  ToEnter(side, Away(side, IF side = "Long" THEN cluster.low ELSE cluster.high,
                   (3 * S(c, 1)) \div 10), Nothing)

CanRead(c) == c.options # Nothing /\ S(c, 1) # Nothing /\ Flat(c)

LevelReversion(c) ==
  LET AtCluster(cluster) ==
        IF ~NearCluster(c, cluster) THEN Nothing
        ELSE BeyondCluster(c, Side2(cluster.center <= Bar(c).close), cluster)
  IN  IF ~CanRead(c) THEN Nothing ELSE FirstOf(c.options.clusters, AtCluster)

MaxPainMagnet(c) ==
  LET front == c.options.front
      gap == front.maxPain - Bar(c).close
      side == Side2(gap > 0)
  IN  IF ~CanRead(c) \/ front = Nothing THEN Nothing
      ELSE IF front.maxPain = Nothing \/ front.dte = Nothing THEN Nothing
      ELSE IF front.dte > c.p.maxDte \/ 10 * Size(gap) < S(c, 1) * c.p.minDistanceAtr THEN Nothing
      ELSE ToEnter(side, AtrStop(side, Bar(c).close, S(c, 1), c.p.stopAtr), front.maxPain)

FlowMomentum(c) ==
  LET ratio == c.options.ratio  velocity == c.options.velocity
      Stopped(side) == ToEnter(side, AtrStop(side, Bar(c).close, S(c, 1), c.p.stopAtr), Nothing)
  IN  IF ~CanRead(c) \/ ~Finite({ratio, velocity}) THEN Nothing
      ELSE Either(ratio >= c.p.minBullRatio /\ velocity >= c.p.minVelocity, Stopped("Long"),
                  100 - ratio >= c.p.minBullRatio /\ velocity <= -c.p.minVelocity,
                  Stopped("Short"))

FlowAtLevel(c) ==
  LET ratio == c.options.ratio
      close == Bar(c).close
      AtCluster(cluster) ==
        LET reclaimed == ~c.p.requireReclaim
              \/ (HasPrev(c) /\ Back(c, 1).close <= cluster.low /\ close > cluster.low)
            rejected == ~c.p.requireReclaim
              \/ (HasPrev(c) /\ Back(c, 1).close >= cluster.high /\ close < cluster.high)
            support == cluster.center <= close
        IN  IF ~NearCluster(c, cluster) THEN Nothing
            ELSE Either(support /\ ratio >= c.p.minBullRatio /\ reclaimed,
                        BeyondCluster(c, "Long", cluster),
                        ~support /\ 100 - ratio >= c.p.minBullRatio /\ rejected,
                        BeyondCluster(c, "Short", cluster))
  IN  IF ~CanRead(c) \/ ratio = Nothing THEN Nothing ELSE FirstOf(c.options.clusters, AtCluster)

BuyAndHoldNeeds == Needs({}, << >>, 1, "Strategy")
BuyAndHold(c) == IF Flat(c) THEN ToEnter("Long", Nothing, Nothing) ELSE Nothing
ExternalNeeds(p) == Needs({AtrSpec(p)}, << >>, Larger2(p.atrPeriod, 1), "Engine")
External(c) == Nothing

-----------------------------------------------------------------------------
KeltnerBreakNeeds(p) ==
  LET channel == <<"keltner", <<p.period, p.kAtr, p.mult>> >>
  IN  Needs({channel, AtrSpec(p)},
            <<Key(channel, "upper"), Key(channel, "lower"), Key(channel, "middle"),
              Key(AtrSpec(p), "")>>, Larger2(p.period, p.kAtr) + Slack, "Engine")
KeltnerBreak(c) ==
  LET upper == S(c, 1)  lower == S(c, 2)  middle == S(c, 3)  close == Bar(c).close
      Broke(side) == EnterFor(side, close, middle, c.p.riskReward)
  IN  IF ~Flat(c) \/ ~HasPrev(c) THEN Nothing
      ELSE IF ~Finite({upper, lower, middle, SBack(c, 1, 1), SBack(c, 2, 1)}) THEN Nothing
      ELSE Either(close > upper /\ Back(c, 1).close <= SBack(c, 1, 1), Broke("Long"),
                  close < lower /\ Back(c, 1).close >= SBack(c, 2, 1), Broke("Short"))

MacdCrossNeeds(p) ==
  LET macd == <<"macd", <<p.fast, p.slow, p.signal>> >>
  IN  Needs({macd, AtrSpec(p)}, <<Key(macd, "macd"), Key(macd, "signal"), Key(AtrSpec(p), "")>>,
            p.slow + p.signal + Slack, "Engine")
MacdCross(c) ==
  LET m == S(c, 1)  signal == S(c, 2)  atr == S(c, 3)
      m0 == SBack(c, 1, 1)  signal0 == SBack(c, 2, 1)  close == Bar(c).close
      Crossed(side) == EnterFor(side, close, AtrStop(side, close, atr, c.p.stopAtr), c.p.riskReward)
  IN  IF ~Flat(c) \/ ~Finite({m, signal, atr, m0, signal0}) THEN Nothing
      ELSE IF atr <= 0 THEN Nothing
      ELSE Either(m > signal /\ m0 <= signal0, Crossed("Long"),
                  m < signal /\ m0 >= signal0, Crossed("Short"))

Rsi2PullbackNeeds(p) ==
  LET rsi == Spec1("rsi", 2)  trend == Spec1("sma", p.trend)
  IN  Needs({rsi, trend, AtrSpec(p)}, <<Key(rsi, ""), Key(trend, ""), Key(AtrSpec(p), "")>>,
            p.trend + Slack, "Engine")
Rsi2Pullback(c) ==
  LET rsi == S(c, 1)  trend == S(c, 2)  atr == S(c, 3)  close == Bar(c).close
      Pulled(side) == EnterFor(side, close, AtrStop(side, close, atr, c.p.stopAtr), c.p.riskReward)
  IN  IF ~Flat(c) \/ ~Finite({rsi, trend, atr}) THEN Nothing
      ELSE IF atr <= 0 THEN Nothing
      ELSE Either(close > trend /\ rsi < c.p.level, Pulled("Long"),
                  close < trend /\ rsi > 100 - c.p.level, Pulled("Short"))

SqueezeBreakNeeds(p) ==
  LET bands == <<"bbands", <<p.period, p.mult>> >>
  IN  Needs({bands, AtrSpec(p)},
            <<Key(bands, "upper"), Key(bands, "lower"), Key(bands, "middle"),
              Key(AtrSpec(p), "")>>, p.period + p.lookback + Slack, "Engine")
SqueezeBreak(c) ==
  LET upper == S(c, 1)  lower == S(c, 2)  middle == S(c, 3)  close == Bar(c).close
      Width(n) == IF SBack(c, 3, n) = Nothing \/ SBack(c, 3, n) = 0 THEN Nothing
                  ELSE (1000 * (SBack(c, 1, n) - SBack(c, 2, n))) \div SBack(c, 3, n)
      widths == {Width(n) : n \in 1..c.p.lookback} \ {Nothing}
      Broke(side) == EnterFor(side, close, middle, c.p.riskReward)
  IN  IF ~Flat(c) \/ ~Finite({upper, lower, middle}) THEN Nothing
      ELSE IF middle <= 0 \/ c.i <= c.p.lookback + 1 THEN Nothing
      ELSE IF Width(1) = Nothing THEN Nothing
      ELSE IF 20 * Width(1) > 21 * Min(widths) THEN Nothing
      ELSE Either(close > upper, Broke("Long"), close < lower, Broke("Short"))

StochReversalNeeds(p) ==
  LET stoch == <<"stoch", <<p.period, p.smoothK, p.smoothD>> >>
  IN  Needs({stoch, AtrSpec(p)}, <<Key(stoch, "k"), Key(stoch, "d"), Key(AtrSpec(p), "")>>,
            p.period + p.smoothK + p.smoothD + Slack, "Engine")
StochReversal(c) ==
  LET k == S(c, 1)  d == S(c, 2)  atr == S(c, 3)  k0 == SBack(c, 1, 1)  d0 == SBack(c, 2, 1)
      close == Bar(c).close
      Turned(side) == EnterFor(side, close, AtrStop(side, close, atr, c.p.stopAtr), c.p.riskReward)
  IN  IF ~Flat(c) \/ ~Finite({k, d, atr, k0, d0}) THEN Nothing
      ELSE IF atr <= 0 THEN Nothing
      ELSE Either(k > d /\ k0 <= d0 /\ k0 < c.p.level, Turned("Long"),
                  k < d /\ k0 >= d0 /\ k0 > 100 - c.p.level, Turned("Short"))
=============================================================================
