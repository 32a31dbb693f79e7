----------------------------- MODULE Indicators -----------------------------
(***************************************************************************)
(* The indicators (fd-indicators/src/lib.rs and companion.rs): functions   *)
(* from a bar series to one value a bar.  Nothing is NaN, "not known yet". *)
(* Numbers are integers in units fine enough for the instance, and a       *)
(* division rounds down where the code's rounds to the nearest double.     *)
(***************************************************************************)
EXTENDS Clock, Sequences, SequencesExt, FiniteSetsExt

CONSTANT Nothing

Unknown(n) == [i \in 1..n |-> Nothing]
Each(bars, Of(_)) == [i \in DOMAIN bars |-> Of(bars[i])]
Both(a, b, Of(_, _)) ==
  [i \in DOMAIN a |-> IF a[i] = Nothing \/ b[i] = Nothing THEN Nothing ELSE Of(a[i], b[i])]
Total(s) == FoldLeft(LAMBDA sum, v : sum + v, 0, s)
Size(v) == IF v < 0 THEN -v ELSE v
(* The n-th lowest of a set. *)
Nth(S, n) == CHOOSE v \in S : Cardinality({w \in S : w < v}) = n - 1
Known(s) == \A i \in DOMAIN s : s[i] # Nothing

Hlc3(bar) == (bar.high + bar.low + bar.close) \div 3
Source(field, bars) ==
  Each(bars, LAMBDA b : CASE field = "open" -> b.open [] field = "high" -> b.high
                          [] field = "low" -> b.low [] field = "close" -> b.close
                          [] field = "hlc3" -> Hlc3(b))
Closes(bars) == Source("close", bars)

(* The last n values up to i, when there are n of them. *)
Windowed(s, n, Of(_)) ==
  [i \in DOMAIN s |-> IF n = 0 \/ i < n THEN Nothing ELSE Of([k \in 1..n |-> s[i - n + k]])]
Highs(bars) == {bars[i].high : i \in DOMAIN bars}
Lows(bars) == {bars[i].low : i \in DOMAIN bars}

-----------------------------------------------------------------------------
Sma(values, period) ==
  Windowed(values, period, LAMBDA w : IF Known(w) THEN Total(w) \div period ELSE Nothing)

(* Seeded by the mean of the first `period` known values, then stepped. *)
Smoothed(values, period, Step(_, _)) ==
  LET Taken(s, v) ==
        IF v = Nothing THEN [s EXCEPT !.out = Append(@, Nothing)]
        ELSE LET sum == s.sum + v
                 now == IF s.last # Nothing THEN Step(s.last, v)
                        ELSE IF s.count + 1 = period THEN sum \div period ELSE Nothing
             IN  [sum |-> sum, count |-> s.count + 1, last |-> now, out |-> Append(s.out, now)]
  IN  IF period = 0 THEN Unknown(Len(values))
      ELSE FoldLeft(Taken, [sum |-> 0, count |-> 0, last |-> Nothing, out |-> << >>], values).out

Ema(values, period) ==
  Smoothed(values, period, LAMBDA last, v : (2 * v + last * (period - 1)) \div (period + 1))
Rma(values, period) ==
  Smoothed(values, period, LAMBDA last, v : (last * (period - 1) + v) \div period)

SquareRoot(v) == CHOOSE r \in 0..v : r * r <= v /\ (r + 1) * (r + 1) > v
Stdev(values, period) ==
  Windowed(values, period, LAMBDA w :
    LET mean == Total(w) \div period
    IN  IF Known(w)
        THEN SquareRoot(Total([i \in DOMAIN w |-> (w[i] - mean) * (w[i] - mean)]) \div period)
        ELSE Nothing)

TrueRange(bars) ==
  [i \in DOMAIN bars |->
     LET b == bars[i]
     IN  IF i = 1 THEN b.high - b.low
         ELSE LET before == bars[i - 1].close
              IN  Max({b.high - b.low, Size(b.high - before), Size(b.low - before)})]
Atr(bars, period) == Rma(TrueRange(bars), period)

(* The bar a form makes of the one before it. *)
Following(last, step, form) ==
  LET open == last.close + form.gap
      close == open + form.move
  IN  [time |-> last.time + step * form.skip, open |-> open, close |-> close,
       high |-> Max({open, close}) + form.above, low |-> Min({open, close}) - form.below,
       volume |-> form.volume]

(* Smoothing starts at the second bar: the first has no change. *)
FromSecond(s, Smooth(_)) == IF s = << >> THEN s ELSE <<Nothing>> \o Smooth(Tail(s))
Changes(bars, Of(_, _)) ==
  [i \in DOMAIN bars |-> IF i = 1 THEN Nothing ELSE Of(bars[i - 1], bars[i])]
Larger0(v) == IF v > 0 THEN v ELSE 0

Rsi(bars, period) ==
  LET gains == Changes(bars, LAMBDA a, b : Larger0(b.close - a.close))
      losses == Changes(bars, LAMBDA a, b : Larger0(a.close - b.close))
      Wilder(s) == Rma(s, period)
  IN  Both(FromSecond(gains, Wilder), FromSecond(losses, Wilder),
           LAMBDA g, l : IF l = 0 THEN 100 ELSE 100 - (100 * l) \div (l + g))

Macd(bars, fast, slow, signal) ==
  LET Minus(a, b) == a - b
      line == Both(Ema(Closes(bars), fast), Ema(Closes(bars), slow), Minus)
  IN  [macd |-> line, signal |-> Ema(line, signal),
       histogram |-> Both(line, Ema(line, signal), Minus)]

(* mult is in tenths. *)
Bollinger(bars, period, mult) ==
  LET middle == Sma(Closes(bars), period)
      sd == Stdev(Closes(bars), period)
  IN  [upper |-> Both(middle, sd, LAMBDA m, s : m + (mult * s) \div 10), middle |-> middle,
       lower |-> Both(middle, sd, LAMBDA m, s : m - (mult * s) \div 10)]

Keltner(bars, period, atrPeriod, mult) ==
  LET middle == Ema(Closes(bars), period)
      atr == Atr(bars, atrPeriod)
  IN  [upper |-> Both(middle, atr, LAMBDA m, v : m + (mult * v) \div 10), middle |-> middle,
       lower |-> Both(middle, atr, LAMBDA m, v : m - (mult * v) \div 10)]

Weight(bar) == IF bar.volume # Nothing /\ bar.volume > 0 THEN bar.volume ELSE 1
(* The running mean of the bars since the bucket of this one began. *)
RunningMean(bars, Bucket(_), Weigh(_)) ==
  LET Since(i) == Max({0} \cup {j \in 1..(i - 1) : Bucket(bars[j].time) # Bucket(bars[i].time)}) + 1
      In(i, Of(_)) == Total([k \in 1..(i - Since(i) + 1) |-> Of(bars[Since(i) + k - 1])])
  IN  [i \in DOMAIN bars |-> In(i, LAMBDA b : Hlc3(b) * Weigh(b)) \div In(i, Weigh)]
Vwap(bars, session) ==
  IF session <= 0 THEN Unknown(Len(bars))
  ELSE RunningMean(bars, LAMBDA t : t \div session, Weight)

(* The broker's clock is two hours ahead of UTC, three in New York's summer. *)
BrokerDay(t) == (t + (IF NewYorkIsDst(t) THEN 3 ELSE 2) * Hour) \div DayMinutes

(* Restarts at the broker's day (1) or week (7): any other anchor has no line. *)
AnchoredVwap(bars, days) ==
  CASE days = 1 -> RunningMean(bars, BrokerDay, LAMBDA b : 1)
    [] days = 7 -> RunningMean(bars, LAMBDA t : (BrokerDay(t) + 3) \div 7, LAMBDA b : 1)
    [] OTHER -> Unknown(Len(bars))

Oscillator(raw, smoothK, smoothD) ==
  [k |-> Sma(raw, smoothK), d |-> Sma(Sma(raw, smoothK), smoothD)]

StochRsi(bars, rsiPeriod, period, smoothK, smoothD) ==
  LET Place(w) ==
        LET span == Max(ToSet(w)) - Min(ToSet(w))
        IN  IF ~Known(w) THEN Nothing ELSE IF span = 0 THEN Nothing
            ELSE ((Last(w) - Min(ToSet(w))) * 100) \div span
  IN  Oscillator(Windowed(Rsi(bars, rsiPeriod), period, Place),
                 Max({smoothK, 1}), Max({smoothD, 1}))

Stochastic(bars, period, smoothK, smoothD) ==
  LET Place(w) ==
        LET top == Max(Highs(w))  bottom == Min(Lows(w))
        IN  IF top = bottom THEN 50 ELSE ((Last(w).close - bottom) * 100) \div (top - bottom)
  IN  Oscillator(Windowed(bars, period, Place), smoothK, smoothD)

Adx(bars, period) ==
  LET Up(a, b) == b.high - a.high
      Down(a, b) == a.low - b.low
      Wilder(s) == Rma(s, period)
      tr == FromSecond(TrueRange(bars), Wilder)
      Di(moves) == Both(FromSecond(moves, Wilder), tr,
                        LAMBDA v, r : IF r = 0 THEN Nothing ELSE (100 * v) \div r)
      plus == Di(Changes(bars, LAMBDA a, b :
                   IF Up(a, b) > Down(a, b) /\ Up(a, b) > 0 THEN Up(a, b) ELSE 0))
      minus == Di(Changes(bars, LAMBDA a, b :
                   IF Down(a, b) > Up(a, b) /\ Down(a, b) > 0 THEN Down(a, b) ELSE 0))
      dx == Both(plus, minus, LAMBDA p, m :
                   IF p + m = 0 THEN 0 ELSE (100 * Size(p - m)) \div (p + m))
  IN  [adx |-> FromSecond(dx, Wilder), plusDi |-> plus, minusDi |-> minus]

(* The channel of the `period` bars before this one. *)
Donchian(bars, period) ==
  LET Before(Of(_)) ==
        [i \in DOMAIN bars |->
           IF period = 0 \/ i <= period THEN Nothing ELSE Of(SubSeq(bars, i - period, i - 1))]
      Top(w) == Max(Highs(w))
      Bottom(w) == Min(Lows(w))
  IN  [upper |-> Before(Top), lower |-> Before(Bottom),
       middle |-> Before(LAMBDA w : (Top(w) + Bottom(w)) \div 2)]

-----------------------------------------------------------------------------
(* A swing is known `right` bars after it formed, and held until the next. *)
Outdoes(high, a, b) == IF high THEN a.high > b.high ELSE a.low < b.low
IsSwing(bars, k, left, right, high) ==
  \A j \in (k - left)..(k + right) : j # k => Outdoes(high, bars[k], bars[j])

SwingFormed(bars, i, left, right, high) ==
  LET known == {k \in (left + 1)..(i - right) : IsSwing(bars, k, left, right, high)}
  IN  IF known = {} THEN Nothing ELSE Max(known)

Swing(bars, left, right) ==
  LET At(high) == [i \in DOMAIN bars |-> SwingFormed(bars, i, left, right, high)]
      Level(at, Of(_)) == [i \in DOMAIN bars |-> IF at[i] = Nothing THEN Nothing ELSE Of(bars[at[i]])]
  IN  [high |-> Level(At(TRUE), LAMBDA b : b.high), low |-> Level(At(FALSE), LAMBDA b : b.low),
       highAt |-> At(TRUE), lowAt |-> At(FALSE)]

(* The band in force, and the side of it price is on; mult is in tenths. *)
Supertrend(bars, period, mult) ==
  LET atr == Atr(bars, period)
      Judged(s, t) ==
        LET b == bars[t]
            mid == (b.high + b.low) \div 2
            top == mid + (mult * atr[t]) \div 10
            bottom == mid - (mult * atr[t]) \div 10
            before == bars[t - 1].close
            upper == IF s.upper = Nothing THEN top
                     ELSE IF top < s.upper \/ before > s.upper THEN top ELSE s.upper
            lower == IF s.upper = Nothing THEN bottom
                     ELSE IF bottom > s.lower \/ before < s.lower THEN bottom ELSE s.lower
            way == IF b.close > upper THEN 1 ELSE IF b.close < lower THEN -1 ELSE s.way
        IN  [upper |-> upper, lower |-> lower, way |-> way, ways |-> Append(s.ways, way),
             line |-> Append(s.line, IF way > 0 THEN lower ELSE upper)]
      Passed(s, t) ==
        IF atr[t] # Nothing THEN Judged(s, t)
        ELSE [s EXCEPT !.ways = Append(@, Nothing), !.line = Append(@, Nothing)]
      all == FoldLeft(Passed, [upper |-> Nothing, lower |-> Nothing, way |-> 1, ways |-> << >>,
                               line |-> << >>], [t \in DOMAIN bars |-> t])
  IN  [supertrend |-> all.line, direction |-> all.ways]

(* The pivots of a leg that turns when price gives back k ATRs from its
   extreme: a pivot is published on the bar that confirms it, never before. *)
ZigzagPivots(bars, k, atr) ==
  LET Turned(s, t, way) ==
        [way |-> way, extreme |-> IF way > 0 THEN bars[t].high ELSE bars[t].low, at |-> t,
         pivots |-> Append(s.pivots, [at |-> s.at, confirmedAt |-> t, price |-> s.extreme,
                                      high |-> way < 0])]
      Reach(s, t, price) == [s EXCEPT !.extreme = price, !.at = t]
      RisesFrom(s, t) == bars[t].high - s.extreme > k * atr[t]
      FallsFrom(s, t) == s.extreme - bars[t].low > k * atr[t]
      Seeded(s, t) ==
        CASE RisesFrom(s, t) -> Turned(s, t, 1)
          [] ~RisesFrom(s, t) /\ FallsFrom(s, t) -> Turned(s, t, -1)
          [] OTHER -> IF bars[t].close >= s.extreme
                      THEN IF bars[t].high > s.extreme THEN Reach(s, t, bars[t].high) ELSE s
                      ELSE IF bars[t].low < s.extreme THEN Reach(s, t, bars[t].low) ELSE s
      Rising(s, t) ==
        LET far == IF bars[t].high > s.extreme THEN Reach(s, t, bars[t].high) ELSE s
        IN  IF FallsFrom(far, t) THEN Turned(far, t, -1) ELSE far
      Falling(s, t) ==
        LET far == IF bars[t].low < s.extreme THEN Reach(s, t, bars[t].low) ELSE s
        IN  IF RisesFrom(far, t) THEN Turned(far, t, 1) ELSE far
      Passed(s, t) ==
        IF atr[t] = Nothing THEN s
        ELSE CASE s.way = 0 -> Seeded(s, t) [] s.way > 0 -> Rising(s, t)
               [] s.way < 0 -> Falling(s, t)
  IN  IF k <= 0 \/ bars = << >> THEN << >>
      ELSE FoldLeft(Passed, [way |-> 0, extreme |-> bars[1].close, at |-> 1, pivots |-> << >>],
                    [t \in DOMAIN bars |-> t]).pivots

Zigzag(bars, k, atrPeriod) ==
  LET pivots == ZigzagPivots(bars, k, Atr(bars, atrPeriod))
      Latest(t, Of(_)) ==
        LET confirmed == {n \in DOMAIN pivots : pivots[n].confirmedAt <= t}
        IN  IF confirmed = {} THEN Nothing ELSE Of(pivots[Max(confirmed)])
  IN  [zigzag |-> [t \in DOMAIN bars |-> Latest(t, LAMBDA p : p.price)],
       direction |-> [t \in DOMAIN bars |-> Latest(t, LAMBDA p : IF p.high THEN -1 ELSE 1)]]

-----------------------------------------------------------------------------
(* The second instrument: sorted, one bar a stamp, installed once. *)
NewCompanion(bars) ==
  LET stamps == {bars[i].time : i \in DOMAIN bars}
      Is(t) == SelectSeq(bars, LAMBDA b : b.time = t)[1]
  IN  [i \in 1..Cardinality(stamps) |-> Is(Nth(stamps, i))]

Installed(installed, companion) ==
  IF installed = Nothing THEN [installed |-> companion, refused |-> FALSE]
  ELSE [installed |-> installed, refused |-> installed # companion]

(* The step most bars are apart, the shorter of two as frequent. *)
IntervalOf(companion) ==
  LET steps == [i \in 1..(Len(companion) - 1) |-> companion[i + 1].time - companion[i].time]
      Often(d) == Cardinality({i \in DOMAIN steps : steps[i] = d})
      all == ToSet(steps)
  IN  IF all = {} THEN Nothing
      ELSE CHOOSE d \in all : \A e \in all : Often(d) > Often(e) \/ (Often(d) = Often(e) /\ d <= e)

(* Its change over `period` bars, only where both have a bar with the same
   stamp and its own span is unbroken: a hole is missing, never zero. *)
AlignedChange(bars, companion, period, atrPeriod) ==
  LET atr == Atr(companion, atrPeriod)
      span == period * IntervalOf(companion)
      Match(i) == {c \in DOMAIN companion : companion[c].time = bars[i].time}
      At(Of(_)) == [i \in DOMAIN bars |->
                      IF Match(i) = {} THEN Nothing ELSE Of(CHOOSE c \in Match(i) : TRUE)]
      Change(c) ==
        IF c <= period THEN Nothing
        ELSE IF companion[c].time - companion[c - period].time # span THEN Nothing
        ELSE companion[c].close - companion[c - period].close
      nothing == Unknown(Len(bars))
  IN  IF companion = Nothing \/ period = 0 \/ Len(companion) < 2
      THEN [change |-> nothing, atr |-> nothing, close |-> nothing]
      ELSE [change |-> At(Change), atr |-> At(LAMBDA c : atr[c]),
            close |-> At(LAMBDA c : companion[c].close)]
=============================================================================
