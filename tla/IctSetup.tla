------------------------------- MODULE IctSetup -------------------------------
(***************************************************************************)
(* The sweep, shift, gap and retrace rule (fd-strategy/src/ict.rs).  It     *)
(* keeps no state: on every bar the whole chain is found again from the    *)
(* tape.  Pips are price units; percentages are in hundredths, multiples   *)
(* in tenths.                                                              *)
(***************************************************************************)
EXTENDS DayStrategies

IctNeeds(p) ==
  LET swing == <<"swing", <<p.swingLeft, p.swingRight>> >>
      htf == p.htfFactor * (p.maxHtfFvgAge + 3)
  IN  Needs({swing, AtrSpec(p)},
            <<Key(swing, "high"), Key(swing, "low"), Key(swing, "highAt"), Key(swing, "lowAt"),
              Key(AtrSpec(p), "")>>,
            Max({htf, p.liquidityLookback, p.atrPeriod + p.displacementLookback}) + Slack, "Engine")

(* Beyond(side): further the way a sweep for that side goes, up for a short. *)
Against(side, a, b) == IF side = "Short" THEN a > b ELSE a < b
ExtremeBroken(bar, side, extreme) == Against(side, bar.close, extreme)
GapInvalidated(bar, side, gap) ==
  Against(side, bar.close, IF side = "Short" THEN gap.top ELSE gap.bottom)
Touched(bar, side, entry) == IF side = "Short" THEN bar.high >= entry ELSE bar.low <= entry

(* The gap three bars leave, upwards when `bullish`. *)
GapOf(first, third, bullish) ==
  IF bullish
  THEN IF first.high < third.low THEN [bottom |-> first.high, top |-> third.low] ELSE Nothing
  ELSE IF first.low > third.high THEN [bottom |-> third.high, top |-> first.low] ELSE Nothing

(* The step of the tape is that of its first two bars at different times. *)
BarStep(bars) ==
  LET steps == {i \in 2..Len(bars) : bars[i].time > bars[i - 1].time}
  IN  IF steps = {} THEN Nothing ELSE bars[Min(steps)].time - bars[Min(steps) - 1].time

(* The higher timeframe's closed bars before s, the first perhaps cut short. *)
HigherBars(bars, s, p) ==
  LET span == BarStep(bars) * Larger2(p.htfFactor, 1)
      Bucket(j) == bars[j].time \div span
      from == Larger2(s - Larger2(p.htfFactor, 1) * (p.maxHtfFvgAge + 3), 1)
      before == {j \in from..s : \A k \in from..j : Bucket(k) # Bucket(s)}
      starts == {j \in before : j = from \/ Bucket(j - 1) # Bucket(j)}
      In(j) == {k \in before : Bucket(k) = Bucket(j)}
  IN  [n \in 1..Cardinality(starts) |->
         LET J == In(Nth(starts, n))
         IN  [high |-> Max({bars[k].high : k \in J}), low |-> Min({bars[k].low : k \in J})]]

(* The gaps of the higher timeframe that are large, young and not filled. *)
OpenGaps(higher, p, bullish) ==
  LET Filled(c, gap) == \E k \in (c + 1)..Len(higher) :
                          IF bullish THEN higher[k].low <= gap.bottom ELSE higher[k].high >= gap.top
      Open(c, gap) == /\ gap # Nothing
                      /\ gap.top - gap.bottom >= p.minHtfFvgPips
                      /\ Len(higher) - c <= p.maxHtfFvgAge
                      /\ ~Filled(c, gap)
      gaps == [c \in 3..Len(higher) |-> GapOf(higher[c - 2], higher[c], bullish)]
  IN  [c \in {k \in DOMAIN gaps : Open(k, gaps[k])} |-> gaps[c]]

(* The nearest to the sweep; the older of two. *)
Nearest(gaps, price) ==
  LET Distance(gap) == Larger0(gap.bottom - price) + Larger0(price - gap.top)
      near == {c \in DOMAIN gaps : \A d \in DOMAIN gaps : Distance(gaps[c]) <= Distance(gaps[d])}
  IN  IF near = {} THEN Nothing ELSE gaps[Min(near)]

NearestHtfGap(bars, s, p, bullish, price) ==
  IF BarStep(bars) = Nothing THEN Nothing
  ELSE Nearest(OpenGaps(HigherBars(bars, s, p), p, bullish), price)

(* The structure a shift must close through, and a body large enough. *)
Protected(c, s, side) ==
  LET known == SBack(c, IF side = "Short" THEN 2 ELSE 1, c.i - s)
      J == Larger2(s - c.p.structureLookback, 1)..(s - 1)
  IN  IF known # Nothing THEN known ELSE IF side = "Short" THEN LowOf(c, J) ELSE HighOf(c, J)

Displaced(c, m) ==
  LET from == Larger2(m - c.p.displacementLookback, 1)
      bodies == Total([n \in 1..(m - from) |-> Body(c.bars[from + n - 1])])
      atr == SBack(c, 5, c.i - m)
      body == Body(c.bars[m])
  IN  /\ 10 * body * Larger2(m - from, 1) >= c.p.displacementMult * bodies
      /\ \/ c.p.minBodyAtrRatio <= 0
         \/ atr # Nothing /\ 10 * body >= c.p.minBodyAtrRatio * atr

(* The first of J that qualifies, unless the sweep was broken by then. *)
FirstUnbroken(c, J, side, extreme, Qualifies(_)) ==
  LET found == {j \in J : Qualifies(j)}
      broken == {j \in J : ExtremeBroken(c.bars[j], side, extreme)}
  IN  IF found = {} THEN Nothing ELSE IF \E j \in broken : j <= Min(found) THEN Nothing ELSE Min(found)

Shift(c, s, side, extreme, protected) ==
  LET through == IF side = "Short" THEN protected - c.p.mssBufferPips
                 ELSE protected + c.p.mssBufferPips
  IN  FirstUnbroken(c, (s + 1)..Min({s + c.p.maxBarsSweepToMss, c.i - 2}), side, extreme,
                    LAMBDA m : Against(side, through, c.bars[m].close) /\ Displaced(c, m))

EntryGap(c, n, side) == GapOf(c.bars[n - 2], c.bars[n], side = "Long")
GapAfter(c, mss, side, extreme) ==
  FirstUnbroken(c, (mss + 1)..Min({mss + c.p.maxBarsMssToFvg, c.i - 1}), side, extreme,
                LAMBDA n : LET gap == EntryGap(c, n, side)
                           IN  gap # Nothing /\ gap.top - gap.bottom >= c.p.minEntryFvgPips)

(* Touched now and not before, the chain not broken since. *)
Retraced(c, fvg, side, extreme, gap, entry) ==
  /\ c.i - fvg <= c.p.maxBarsFvgToEntry
  /\ \A j \in (fvg + 1)..c.i : ~ExtremeBroken(c.bars[j], side, extreme)
                                /\ ~GapInvalidated(c.bars[j], side, gap)
  /\ \A j \in (fvg + 1)..c.i : Touched(c.bars[j], side, entry) <=> j = c.i

EntryOf(gap, percent) == gap.bottom + ((gap.top - gap.bottom) * percent) \div 100
SetupAt(c, fvg, side, extreme, gap) ==
  IF Retraced(c, fvg, side, extreme, gap, EntryOf(gap, c.p.entryPercent))
  THEN [side |-> side, extreme |-> extreme, entry |-> EntryOf(gap, c.p.entryPercent)] ELSE Nothing
SetupFrom(c, fvg, side, extreme) ==
  IF fvg = Nothing THEN Nothing ELSE SetupAt(c, fvg, side, extreme, EntryGap(c, fvg, side))
ShiftedAt(c, mss, side, extreme) ==
  IF mss = Nothing THEN Nothing ELSE SetupFrom(c, GapAfter(c, mss, side, extreme), side, extreme)

InZone(p, zone, extreme) ==
  /\ zone # Nothing
  /\ extreme >= zone.bottom - p.htfTolerancePips /\ extreme <= zone.top + p.htfTolerancePips
ChainFromSweep(c, s, side, extreme, swept) ==
  LET protected == Protected(c, s, side)
  IN  IF ~InZone(c.p, NearestHtfGap(c.bars, s, c.p, side = "Long", extreme), extreme) THEN Nothing
      ELSE IF ~Against(side, swept, protected) THEN Nothing
      ELSE ShiftedAt(c, Shift(c, s, side, extreme, protected), side, extreme)

(* A bar that ran through a level and closed back inside it. *)
Sweep(c, s, side) ==
  LET slot == IF side = "Short" THEN 1 ELSE 2
      level == SBack(c, slot, c.i - (s - 1))
      levelAt == SBack(c, slot + 2, c.i - (s - 1))
      bar == c.bars[s]
      extreme == IF side = "Short" THEN bar.high ELSE bar.low
      depth == IF side = "Short" THEN extreme - level ELSE level - extreme
  IN  IF level = Nothing \/ levelAt = Nothing THEN Nothing
      ELSE IF \/ s - levelAt > c.p.liquidityLookback
              \/ ~Against(side, level, bar.close)
              \/ depth <= c.p.sweepBufferPips
              \/ depth < c.p.minSweepPips \/ depth > c.p.maxSweepPips THEN Nothing
      ELSE ChainFromSweep(c, s, side, extreme, level)

(* The latest sweep whose chain is complete; a short before a long. *)
FindSetup(c) ==
  LET horizon == c.p.maxBarsSweepToMss + c.p.maxBarsMssToFvg + c.p.maxBarsFvgToEntry + 3
      earliest == Larger2(c.i - horizon, 2)
      candidates == [n \in 1..(2 * Larger0(c.i - 3 - earliest)) |->
                       [at |-> c.i - 3 - (n + 1) \div 2, side |-> Side2(n % 2 = 0)]]
  IN  FirstOf(candidates, LAMBDA n : Sweep(c, n.at, n.side))

EnterSetup(c, setup, stop) ==
  ToEnter(setup.side, stop,
        Toward(setup.side, setup.entry, (Size(stop - setup.entry) * c.p.riskReward) \div 10))
IctEntry(c, setup) ==
  IF setup = Nothing THEN Nothing
  ELSE EnterSetup(c, setup, Away(setup.side, setup.extreme, c.p.slBufferPips))
Ict(c) == IF Flat(c) THEN IctEntry(c, FindSetup(c)) ELSE Nothing
=============================================================================
