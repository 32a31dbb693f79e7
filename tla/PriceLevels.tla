----------------------------- MODULE PriceLevels -----------------------------
(***************************************************************************)
(* The marks a chart reader points at, from price bars alone                *)
(* (fd-engine/src/price_levels.rs): the activity profile, the gaps, order   *)
(* blocks, liquidity pools, the structure and its events, the dealing       *)
(* range.  Lists that the code keeps in order of their bars are sets, each  *)
(* mark naming its bar.  Bars are numbered from 1; a moment is a bar.       *)
(***************************************************************************)
EXTENDS Indicators

First(S) == IF S = {} THEN Nothing ELSE Min(S)
(* The bars after i. *)
After(bars, i) == (i + 1)..Len(bars)

-----------------------------------------------------------------------------
(* Runs of bars, cut before each bar that `Cut` says begins another. *)
Split(bars, Cut(_)) ==
  FoldLeft(LAMBDA runs, i : IF runs = << >> \/ Cut(i) THEN Append(runs, [from |-> i, to |-> i])
                            ELSE [runs EXCEPT ![Len(runs)].to = i],
           << >>, [i \in DOMAIN bars |-> i])
RunsSplitByGap(bars, gap) == Split(bars, LAMBDA i : bars[i].time - bars[i - 1].time > gap)

-----------------------------------------------------------------------------
MaxBuckets == 5000

(* One count for each bucket a bar traded through.  From the fullest, the
   lower of equals, the area widens to the fuller neighbour, upwards of
   equals, until it holds `percent` of all counts. *)
ActivityProfile(bars, bucket, percent) ==
  LET bottom == Min(Lows(bars))
      Row(price) == (price - bottom) \div bucket + 1
      rows == 1..Row(Max(Highs(bars)))
      Touching(k) == {i \in DOMAIN bars : Row(bars[i].low) <= k /\ k <= Row(bars[i].high)}
      activity == [k \in rows |-> Cardinality(Touching(k))]
      all == Total(activity)
      poc == Min({k \in rows : \A j \in rows : activity[k] >= activity[j]})
      Widened(area, step) ==
        IF 100 * area.held >= percent * all \/ (area.val = 1 /\ area.vah = Len(activity)) THEN area
        ELSE IF area.vah < Len(activity)
                /\ (area.val = 1 \/ activity[area.vah + 1] >= activity[area.val - 1])
          THEN [area EXCEPT !.vah = @ + 1, !.held = @ + activity[area.vah + 1]]
        ELSE [area EXCEPT !.val = @ - 1, !.held = @ + activity[area.val - 1]]
      area == FoldLeft(Widened, [val |-> poc, vah |-> poc, held |-> activity[poc]],
                       [k \in rows |-> k])
      Edge(k) == bottom + (k - 1) * bucket
      Level(row, price) == [price |-> price, formedAt |-> Min(Touching(row) \cup {Len(bars)})]
  IN  IF bars = << >> \/ bucket <= 0 THEN Nothing
      ELSE IF Row(Max(Highs(bars))) > MaxBuckets + 1 THEN Nothing
      ELSE [poc |-> Level(poc, Edge(poc) + bucket \div 2), vah |-> Level(area.vah, Edge(area.vah + 1)),
            val |-> Level(area.val, Edge(area.val)), total |-> all, held |-> area.held]

(* A quarter of an ATR a bucket, or none. *)
BucketSizePrice(atr, perAtr) == IF atr = Nothing THEN Nothing ELSE atr \div perAtr

-----------------------------------------------------------------------------
(* The price two bars left untouched beside the bar between them, as far as
   later bars have not come back into it; a filled gap is not reported. *)
UnfilledFairValueGaps(bars) ==
  LET GapAt(i) ==
        LET before == bars[i - 1]  after == bars[i + 1]  up == before.high < after.low
            low == IF up THEN before.high ELSE after.high
            high == IF up THEN after.low ELSE before.low
            rest == After(bars, i + 1)
            deepest == {IF up THEN high - bars[t].low ELSE bars[t].high - low : t \in rest}
        IN  [at |-> i, bullish |-> up, low |-> low, high |-> high, confirmedAt |-> i + 1,
             filled |-> Max({0} \cup deepest)]
      IsGap(i) == bars[i - 1].high < bars[i + 1].low \/ bars[i - 1].low > bars[i + 1].high
      gaps == {GapAt(i) : i \in {k \in 2..(Len(bars) - 1) : IsGap(k)}}
  IN  {g \in gaps : g.filled < g.high - g.low}

-----------------------------------------------------------------------------
Body(bars, i) == bars[i].close - bars[i].open
BugDisplaced(bars, atr, k) ==
  {i \in 2..Len(bars) : Last(atr) # Nothing /\ Last(atr) > 0 /\ Size(Body(bars, i)) > k * Last(atr)}
(* Bars whose body is larger than k ATRs, the ATR of their own bar. *)
Displaced(bars, atr, k) ==
  {i \in 2..Len(bars) : atr[i] # Nothing /\ atr[i] > 0 /\ Size(Body(bars, i)) > k * atr[i]}

(* The last candle against a body larger than k ATRs of its own bar; only
   the first such body claims a candle. *)
OrderBlocks(bars, atr, k) ==
  LET Opposed(i) == {j \in 1..(i - 1) : IF Body(bars, i) > 0 THEN Body(bars, j) < 0 ELSE Body(bars, j) > 0}
      claims == {[at |-> Max(Opposed(i)), displacedAt |-> i] :
                   i \in {d \in Displaced(bars, atr, k) : Opposed(d) # {}}}
      firsts == {c \in claims : \A d \in claims : d.at = c.at => c.displacedAt <= d.displacedAt}
      Lived(c) ==
        LET up == Body(bars, c.displacedAt) > 0
            low == bars[c.at].low  high == bars[c.at].high
            after == After(bars, c.displacedAt)
            Inside(t) == bars[t].low <= high /\ bars[t].high >= low
            broken == First({t \in after : IF up THEN bars[t].close < low ELSE bars[t].close > high})
            Before(t) == broken = Nothing \/ t < broken
        IN  [at |-> c.at, displacedAt |-> c.displacedAt, bullish |-> up, low |-> low, high |-> high,
             testedAt |-> First({t \in after : Before(t) /\ Inside(t)}), brokenAt |-> broken,
             retestedAt |-> First({t \in after : ~Before(t) /\ t # broken /\ Inside(t)})]
  IN  {Lived(c) : c \in firsts}

BlockState(block) ==
  CASE block.retestedAt # Nothing -> "Breaker"
    [] block.retestedAt = Nothing /\ block.brokenAt # Nothing -> "Broken"
    [] block.brokenAt = Nothing /\ block.testedAt # Nothing -> "Tested"
    [] block.brokenAt = Nothing /\ block.testedAt = Nothing -> "Untested"

-----------------------------------------------------------------------------
(* Swings, each admitted on the bar that confirms it. *)
PriceOf(bar, high) == IF high THEN bar.high ELSE bar.low
ConfirmedSwings(bars, left, right, high) ==
  {[at |-> k, confirmedAt |-> k + right, price |-> PriceOf(bars[k], high)] :
     k \in {j \in (left + 1)..(Len(bars) - right) : IsSwing(bars, j, left, right, high)}}

Past(bar, high, price) == IF high THEN bar.high > price ELSE bar.low < price

(* Swings of about one price, by price: a swing joins the ones below it when
   it is within a part of an ATR of the lowest of them, the ATR of the bar
   that confirmed it or, where that is not known, the newest there is. *)
LiquidityPools(bars, atr, left, right, tolerance, high) ==
  LET swings == ConfirmedSwings(bars, left, right, high)
      Earlier(s) == {r \in swings : r.price < s.price \/ (r.price = s.price /\ r.at < s.at)}
      byPrice == [n \in 1..Cardinality(swings) |->
                    CHOOSE s \in swings : Cardinality(Earlier(s)) = n - 1]
      known == {i \in DOMAIN atr : atr[i] # Nothing /\ atr[i] > 0}
      AtrAt(i) == IF i \in known THEN atr[i] ELSE IF known = {} THEN 0 ELSE atr[Max(known)]
      Prices(pool) == {s.price : s \in pool}
      Joined(pools, s) ==
        IF pools # << >> /\ (s.price - Min(Prices(Last(pools)))) * 100 <= AtrAt(s.confirmedAt) * tolerance
        THEN [pools EXCEPT ![Len(pools)] = @ \cup {s}]
        ELSE Append(pools, {s})
      Pool(members) ==
        LET low == Min(Prices(members))  top == Max(Prices(members))
            newest == Max({s.confirmedAt : s \in members})
        IN  [high |-> high, low |-> low, top |-> top, swings |-> {s.at : s \in members},
             formedAt |-> Min({s.at : s \in members}),
             sweptAt |-> First({t \in After(bars, newest) :
                                  Past(bars[t], high, IF high THEN top ELSE low)})]
  IN  {Pool(members) : members \in ToSet(FoldLeft(Joined, << >>, byPrice))}

(* The extreme of a run, at the last bar that made it. *)
ExtremeOf(bars, run, high) ==
  LET prices == {PriceOf(bars[i], high) : i \in run.from..run.to}
      price == IF high THEN Max(prices) ELSE Min(prices)
  IN  [price |-> price, at |-> Max({i \in run.from..run.to : PriceOf(bars[i], high) = price})]

(* What rests beyond a finished run, until a bar after the run takes it. *)
PeriodPool(bars, run, high) ==
  LET extreme == ExtremeOf(bars, run, high)
  IN  [run |-> run, high |-> high, price |-> extreme.price, at |-> extreme.at,
       sweptAt |-> First({t \in After(bars, run.to) : Past(bars[t], high, extreme.price)})]

PeriodExtremes(bars, run, complete) ==
  IF run = Nothing THEN Nothing
  ELSE [complete |-> complete, high |-> ExtremeOf(bars, run, TRUE), low |-> ExtremeOf(bars, run, FALSE)]

-----------------------------------------------------------------------------
Latest(swings, back) ==
  LET seen == {s.at : s \in swings}
  IN  IF Cardinality(seen) < back THEN Nothing
      ELSE CHOOSE s \in swings : Cardinality({a \in seen : a > s.at}) = back - 1
(* Both pairs of the last two swings rise, or fall. *)
Compared(highs, lows) ==
  LET h1 == Latest(highs, 1)  h2 == Latest(highs, 2)
      l1 == Latest(lows, 1)   l2 == Latest(lows, 2)
  IN  IF h2 = Nothing \/ l2 = Nothing THEN "Range"
      ELSE IF h1.price > h2.price /\ l1.price > l2.price THEN "Up"
      ELSE IF h1.price < h2.price /\ l1.price < l2.price THEN "Down" ELSE "Range"

(* The label is seeded by the swings and carried by the closes: the first
   close beyond the last swing, which is spent by it, goes on with the label
   or turns it.  A close that breaks both sides breaks the high. *)
MarketStructure(bars, left, right) ==
  LET highs == ConfirmedSwings(bars, left, right, TRUE)
      lows == ConfirmedSwings(bars, left, right, FALSE)
      By(swings, i) == {s \in swings : s.confirmedAt <= i}
      Seeded(s, i) ==
        LET seed == Compared(By(highs, i), By(lows, i))
        IN  IF s.label # "Range" \/ seed = "Range" THEN s
            ELSE [s EXCEPT !.label = seed, !.since = i]
      Broken(s, i, swing, up) ==
        LET spent == IF up THEN [s EXCEPT !.spentHigh = swing.at] ELSE [s EXCEPT !.spentLow = swing.at]
            way == IF up THEN "Up" ELSE "Down"
            Told(kind) == Append(s.events, [kind |-> kind, up |-> up, broke |-> swing.at,
                                            closedAt |-> i, after |-> way])
        IN  IF s.label = "Range" THEN [spent EXCEPT !.unclassified = @ + 1]
            ELSE IF s.label = way THEN [spent EXCEPT !.events = Told("Bos")]
            ELSE [spent EXCEPT !.events = Told("Choch"), !.label = way, !.since = i]
      Closed(before, i) ==
        LET s == Seeded(before, i)
            high == Latest(By(highs, i), 1)  low == Latest(By(lows, i), 1)
        IN  IF high # Nothing /\ high.at # s.spentHigh /\ bars[i].close > high.price
            THEN Broken(s, i, high, TRUE)
            ELSE IF low # Nothing /\ low.at # s.spentLow /\ bars[i].close < low.price
            THEN Broken(s, i, low, FALSE)
            ELSE s
      walked == FoldLeft(Closed, [label |-> "Range", since |-> Nothing, events |-> << >>,
                                  unclassified |-> 0, spentHigh |-> 0, spentLow |-> 0],
                         [i \in DOMAIN bars |-> i])
  IN  [label |-> walked.label, since |-> walked.since, events |-> walked.events,
       unclassified |-> walked.unclassified]

(* Between the last swing high and the last swing low, unless they crossed;
   where the close lies in it, in percent and not clamped. *)
DealingRange(bars, left, right) ==
  LET high == Latest(ConfirmedSwings(bars, left, right, TRUE), 1)
      low == Latest(ConfirmedSwings(bars, left, right, FALSE), 1)
      twice == 2 * Last(bars).close - high.price - low.price
  IN  IF high = Nothing \/ low = Nothing THEN Nothing
      ELSE IF high.price <= low.price THEN Nothing
      ELSE [high |-> high, low |-> low,
            place |-> ((Last(bars).close - low.price) * 100) \div (high.price - low.price),
            zone |-> IF twice > 0 THEN "Premium" ELSE IF twice < 0 THEN "Discount" ELSE "Equilibrium"]
=============================================================================
