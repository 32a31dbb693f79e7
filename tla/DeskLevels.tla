----------------------------- MODULE DeskLevels -----------------------------
(***************************************************************************)
(* The levels route and the higher-timeframe route of the desk              *)
(* (fd-api/src/levels.rs, htf.rs), asked again as the exporter adds closed  *)
(* bars to the stored file of one timeframe.  Both compute everything anew  *)
(* from the file: what a reader keeps from one answer must still be true in *)
(* the next, as far as both look at the same window.                        *)
(***************************************************************************)
EXTENDS HtfFacts

CONSTANTS
  Timeframes,    \* the files looked at
  StepOf,        \* minutes a bar of each lasts
  StoredFirst,   \* what the file of each holds at first
  LevelForms,    \* how a bar may follow the last one of each
  MoreBars,      \* bound on the bars exported after those
  AnalysisDays,  \* trading days the levels are computed from
  ProfileDays,   \* trading days the profile is computed from
  Displacement,  \* body of a displacement, in ATRs
  Tolerance,     \* how near equal highs are, in percent of an ATR
  Wing,          \* bars on either side of a swing
  LevelAtr,      \* bars of the ATR
  Scale          \* the periods of the trend's facts, and its two rules

VARIABLES
  tf,      \* the timeframe
  file,    \* its closed bars, as exported so far
  levels,  \* the last answer of the levels route
  facts    \* the last answer of the higher-timeframe route
vars == <<tf, file, levels, facts>>

-----------------------------------------------------------------------------
DayGap == 45
DailyHole == 60
BucketsPerAtr == 4
ValueAreaPct == 70

(* Days end at a hole, for bars shorter than the daily hole; longer ones are
   counted from the first bar of their week. *)
TradingDayRuns(bars, step) ==
  LET weeks == WeeksOf(bars)
      Anchor(i) == bars[(CHOOSE w \in ToSet(weeks) : w.from <= i /\ i <= w.to).from].time
      anchors == [i \in DOMAIN bars |-> Anchor(i)]
      Age(i) == (bars[i].time - anchors[i]) \div DayMinutes
  IN  IF step < DailyHole THEN RunsSplitByGap(bars, DayGap)
      ELSE Split(bars, LAMBDA i : anchors[i] # anchors[i - 1] \/ Age(i) # Age(i - 1))

(* Where the last `days` of them begin. *)
LastDays(runs, days) == runs[Max({1, Len(runs) - days + 1})].from
From(bars, first) == [i \in 1..(Len(bars) - first + 1) |-> bars[first + i - 1]]
BeforeLast(runs) == IF Len(runs) < 2 THEN Nothing ELSE runs[Len(runs) - 1]

Unavailable == [window |-> Nothing]

(* One answer: an absent market answers that it is absent. *)
LevelsOf(bars, step) ==
  LET first == LastDays(TradingDayRuns(bars, step), AnalysisDays)
      window == From(bars, first)
      days == TradingDayRuns(window, step)
      day == BeforeLast(days)
      week == BeforeLast(WeeksOf(window))
      atr == Atr(window, LevelAtr)
      swept(run) == IF run = Nothing THEN {}
                    ELSE {PeriodPool(window, run, TRUE), PeriodPool(window, run, FALSE)}
  IN  IF bars = << >> THEN Unavailable
      ELSE [window |-> first, computedAt |-> Len(window), close |-> Last(window).close,
            atr |-> LastKnown(atr),
            profile |-> ActivityProfile(From(window, LastDays(days, ProfileDays)),
                                        BucketSizePrice(LastKnown(atr), BucketsPerAtr), ValueAreaPct),
            gaps |-> UnfilledFairValueGaps(window),
            blocks |-> OrderBlocks(window, atr, Displacement),
            pools |-> LiquidityPools(window, atr, Wing, Wing, Tolerance, TRUE)
                      \cup LiquidityPools(window, atr, Wing, Wing, Tolerance, FALSE),
            periods |-> swept(day) \cup swept(week),
            structure |-> MarketStructure(window, Wing, Wing),
            range |-> DealingRange(window, Wing, Wing),
            session |-> PeriodExtremes(window, Last(days), FALSE),
            day |-> PeriodExtremes(window, day, TRUE),
            week |-> PeriodExtremes(window, week, TRUE)]

FactsOf(bars, frame) ==
  CASE bars = << >> -> Unavailable
    [] bars # << >> /\ frame = "1d" -> D1Facts(bars, Scale)
    [] bars # << >> /\ frame # "1d" -> TrendFacts(bars, Scale.rules[frame], Scale)

-----------------------------------------------------------------------------
Init ==
  /\ tf \in Timeframes
  /\ file \in {<< >>, StoredFirst[tf]}
  /\ levels = Unavailable /\ facts = Unavailable

(* The exporter adds a bar that has closed. *)
Exported(form) ==
  /\ Len(file) < Len(StoredFirst[tf]) + MoreBars
  /\ file' = IF file = << >> THEN StoredFirst[tf]
             ELSE Append(file, Following(Last(file), StepOf[tf], form))
  /\ UNCHANGED <<tf, levels, facts>>

Answers ==
  /\ levels' = LevelsOf(file, StepOf[tf])
  /\ facts' = FactsOf(file, tf)
  /\ UNCHANGED <<tf, file>>

Next == Answers \/ \E form \in LevelForms[tf] : Exported(form)

-----------------------------------------------------------------------------
Kept(before, after) == before # Nothing => before = after

(* What stood and what it became: a stamp once given is never taken back or
   moved, and nothing is reported later of a bar already read. *)
BlocksStand(old, new) ==
  /\ \A b \in old.blocks : \E n \in new.blocks :
       /\ n.at = b.at /\ n.displacedAt = b.displacedAt
       /\ Kept(b.testedAt, n.testedAt) /\ Kept(b.brokenAt, n.brokenAt) /\ Kept(b.retestedAt, n.retestedAt)
  /\ \A n \in new.blocks : n.displacedAt <= old.computedAt => \E b \in old.blocks : b.at = n.at
GapsStand(old, new) ==
  \A n \in new.gaps : n.confirmedAt <= old.computedAt =>
    \E g \in old.gaps : g.at = n.at /\ g.low = n.low /\ g.high = n.high /\ g.filled <= n.filled
(* A pool no later swing joined, and the extreme of a finished run. *)
PoolsStand(old, new) ==
  /\ \A p \in old.pools, n \in new.pools :
       p.high = n.high /\ p.swings = n.swings => Kept(p.sweptAt, n.sweptAt)
  /\ \A p \in old.periods, n \in new.periods :
       p.high = n.high /\ p.run = n.run => p.price = n.price /\ Kept(p.sweptAt, n.sweptAt)
EventsStand(old, new) ==
  /\ IsPrefix(old.structure.events, new.structure.events)
  /\ old.structure.unclassified <= new.structure.unclassified
  /\ old.structure.label # "Range" /\ Len(old.structure.events) = Len(new.structure.events)
       => old.structure.label = new.structure.label /\ old.structure.since = new.structure.since
(* The trend changes when a swing is confirmed. *)
TrendStands(old, new) ==
  old.confirmedAt # Nothing =>
    /\ new.confirmedAt >= old.confirmedAt
    /\ new.confirmedAt = old.confirmedAt => new = old

(* Within one window a later answer adds to an earlier one and takes nothing
   back: a broken block stays broken, a filled gap stays gone, a taken pool
   stays taken, an event stays an event, and a trend changes only when a swing
   is confirmed (price_levels.rs "Causality", htf.rs StructureRule). *)
AnswersStand ==
  [][levels.window # Nothing /\ levels'.window = levels.window =>
       /\ BlocksStand(levels, levels') /\ GapsStand(levels, levels')
       /\ PoolsStand(levels, levels') /\ EventsStand(levels, levels')
       /\ tf # "1d" /\ Len(file') <= Scale.trendBars =>
            TrendStands(facts.structure, facts'.structure)]_vars
=============================================================================
