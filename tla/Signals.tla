------------------------------- MODULE Signals -------------------------------
(***************************************************************************)
(* The registry of rules (fd-strategy/src/registry.rs) asked as the engine  *)
(* asks (fd-backtest/src/engine.rs): every series computed once over the    *)
(* whole tape, then the rule on each bar.  The tape grows by a bar at a     *)
(* time, as it does live, and the whole of it is computed and asked again.  *)
(***************************************************************************)
EXTENDS Filters

CONSTANTS
  Rules,     \* the strategies of the registry that are looked at
  ParamsOf,  \* their parameters
  OpeningOf, \* the tape a rule finds
  Forms,     \* how a bar may follow the last one
  MaxBars,   \* bound on the bars that follow
  Layered,   \* filters laid over the rule, one sequence or another
  Companion, \* the second instrument, or Nothing
  View,      \* what the option prints say, or Nothing
  News       \* the calendar

VARIABLES
  rule,   \* the strategy asked
  laid,   \* the filters over it
  tape,   \* the bars closed so far, oldest first
  local,  \* New York's calendar of each
  series, \* what its slots hold on every bar
  said    \* what it says on each watched bar, by the position held there
signalVars == <<rule, laid, tape, local, series, said>>

-----------------------------------------------------------------------------
NeedsOf(id, p) ==
  CASE id = "ema-cross" -> EmaCrossNeeds(p) [] id = "rsi-reversion" -> RsiReversionNeeds(p)
    [] id = "donchian-breakout" -> DonchianBreakoutNeeds(p) [] id = "bb-fade" -> BollingerFadeNeeds(p)
    [] id \in {"level-reversion", "maxpain-magnet", "flow-momentum", "flow-at-level"} -> OptionsNeeds(p)
    [] id = "buy-and-hold" -> BuyAndHoldNeeds [] id = "external" -> ExternalNeeds(p)
    [] id = "keltner-break" -> KeltnerBreakNeeds(p) [] id = "macd-cross" -> MacdCrossNeeds(p)
    [] id = "rsi2-pullback" -> Rsi2PullbackNeeds(p) [] id = "squeeze-break" -> SqueezeBreakNeeds(p)
    [] id = "stoch-reversal" -> StochReversalNeeds(p) [] id = "orb" -> OrbNeeds(p)
    [] id = "pdhl" -> PdhlNeeds(p) [] id = "gap-fade" -> GapFadeNeeds(p)
    [] id = "session-hold" -> SessionHoldNeeds(p)
    [] id = "intraday-momentum" -> IntradayMomentumNeeds(p) [] id = "tsmom" -> TsmomNeeds(p)
    [] id = "quiet-swing" -> QuietSwingNeeds(p) [] id = "vwap-fade" -> VwapFadeNeeds(p)
    [] id = "doji-reversal" -> DojiNeeds(p) [] id = "trend-pullback" -> TrendPullbackNeeds(p)
    [] id = "volume-thrust" -> VolumeThrustNeeds(p) [] id = "far-stop-break" -> FarStopBreakNeeds(p)
    [] id = "volman-box" -> VolmanBoxNeeds(p)
    [] id = "companion-unconfirmed" -> CompanionUnconfirmedNeeds(p)
    [] id = "rsi-reversal-vol" -> RsiReversalVolNeeds(p) [] id = "ict-sweep-mss-fvg" -> IctNeeds(p)

OnBar(id, c) ==
  CASE id = "ema-cross" -> EmaCross(c) [] id = "rsi-reversion" -> RsiReversion(c)
    [] id = "donchian-breakout" -> DonchianBreakout(c) [] id = "bb-fade" -> BollingerFade(c)
    [] id = "level-reversion" -> LevelReversion(c) [] id = "maxpain-magnet" -> MaxPainMagnet(c)
    [] id = "flow-momentum" -> FlowMomentum(c) [] id = "flow-at-level" -> FlowAtLevel(c)
    [] id = "buy-and-hold" -> BuyAndHold(c) [] id = "external" -> External(c)
    [] id = "keltner-break" -> KeltnerBreak(c) [] id = "macd-cross" -> MacdCross(c)
    [] id = "rsi2-pullback" -> Rsi2Pullback(c) [] id = "squeeze-break" -> SqueezeBreak(c)
    [] id = "stoch-reversal" -> StochReversal(c) [] id = "orb" -> Orb(c) [] id = "pdhl" -> Pdhl(c)
    [] id = "gap-fade" -> GapFade(c) [] id = "session-hold" -> SessionHold(c)
    [] id = "intraday-momentum" -> IntradayMomentum(c) [] id = "tsmom" -> Tsmom(c)
    [] id = "quiet-swing" -> QuietSwing(c) [] id = "vwap-fade" -> VwapFade(c)
    [] id = "doji-reversal" -> Doji(c) [] id = "trend-pullback" -> TrendPullback(c)
    [] id = "volume-thrust" -> VolumeThrust(c) [] id = "far-stop-break" -> FarStopBreak(c)
    [] id = "volman-box" -> VolmanBox(c) [] id = "companion-unconfirmed" -> CompanionUnconfirmed(c)
    [] id = "rsi-reversal-vol" -> RsiReversalVol(c) [] id = "ict-sweep-mss-fvg" -> Ict(c)

-----------------------------------------------------------------------------
Inner == NeedsOf(rule, ParamsOf[rule])
Opening == OpeningOf[rule]
Held == {"None", "Long", "Short"}

(* The context of bar i: the engine asks from the warm-up on. *)
Context(bars, times, values, i, held) ==
  [bars |-> bars, local |-> times, i |-> i, series |-> values, options |-> View, p |-> ParamsOf[rule],
   position |-> IF held = "None" THEN Nothing
                ELSE [side |-> held, entryTime |-> Last(Opening).time]]

AskedOn(bars, times, values, warmup, i) ==
  [held \in Held |-> IF i > warmup THEN OnBar(rule, Context(bars, times, values, i, held)) ELSE Nothing]
Passed(bars, times, values, slots, own, i) ==
  [held \in Held |-> Filtered(laid, Context(bars, times, values, i, held), own[held], slots, News)]

Watched(bars) == Len(Opening)..Len(bars)

SignalsInit ==
  /\ rule \in Rules /\ laid \in Layered
  /\ tape = Opening /\ local = LocalTimes(Opening)
  /\ series = Resolved(FilteredNeeds(Inner, laid), tape, Companion)
  /\ said = [own |-> << >>, passed |-> << >>]

(* A bar closes: the series are computed over the tape there is by now, and
   the rule is asked on every watched bar of it. *)
BarCloses(form) ==
  /\ Len(tape) < Len(Opening) + MaxBars
  /\ tape' = Append(tape, Following(Last(tape), BarStep(Opening), form))
  /\ local' = LocalTimes(tape')
  /\ series' = Resolved(FilteredNeeds(Inner, laid), tape', Companion)
  /\ LET warmup == FilteredNeeds(Inner, laid).warmup
         own == [i \in Watched(tape') |-> AskedOn(tape', local', series', warmup, i)]
         slots == Len(Inner.series)
     IN  said' = [own |-> own,
                  passed |-> [i \in Watched(tape') |->
                                IF i > warmup THEN Passed(tape', local', series', slots, own[i], i)
                                ELSE own[i]]]
  /\ UNCHANGED <<rule, laid>>

SignalsNext == \E form \in Forms : BarCloses(form)

SignalsSpec == SignalsInit /\ [][SignalsNext]_signalVars

-----------------------------------------------------------------------------
(* What a rule said on a bar, it says of that bar for ever: no indicator, day,
   session or setup it reads holds anything of a later bar, so a backtest over
   the whole tape says what the live run said (registry.rs BarContext). *)
SaidStands ==
  [][\A i \in DOMAIN said.own : /\ said'.own[i] = said.own[i]
                               /\ said'.passed[i] = said.passed[i]]_signalVars

Entries == {i \in DOMAIN said.own : said.own[i]["None"] \notin {Nothing, ToExit}}
OnceADay == {"orb", "session-hold", "intraday-momentum", "tsmom"}

(* A rule that takes the first signal of its day says so on one bar of it,
   though it remembers nothing and finds out by reading the day again; the
   quiet swing on one bar of its session (orb.rs, pdhl.rs, tsmom.rs, ...). *)
OneEntryADay ==
  \A i, j \in Entries :
    /\ i # j /\ local[i].day = local[j].day =>
         /\ rule \notin OnceADay
         /\ rule = "pdhl" => said.own[i]["None"].side # said.own[j]["None"].side
    /\ i # j /\ rule = "quiet-swing" => local[i].session # local[j].session

(* When a rule can know its day from the wall: its hours are of one day and
   begin at 02:00 or later, after the hour New York's clock shows twice in
   November, and the tape it finds is in order. *)
ShownOnce(minute) == minute \in Int /\ minute >= 2 * Hour
InOrder(bars) ==
  /\ bars \in Seq(ToSet(bars)) /\ Len(bars) >= 2
  /\ \A j \in DOMAIN bars : bars[j].time \in Nat
  /\ \A j, k \in DOMAIN bars : j < k => bars[j].time < bars[k].time
HoursOfADay(id, p) ==
  /\ id = "orb" => ShownOnce(Hhmm(p.rangeStart) + p.rangeMinutes)
  /\ id \in {"session-hold", "intraday-momentum"} =>
       ShownOnce(Hhmm(p.from)) /\ Hhmm(p.to) \in Int /\ Hhmm(p.from) <= Hhmm(p.to)
  /\ id = "tsmom" => ShownOnce(Hhmm(p.rebalance))
OfOneDay ==
  /\ \A id \in Rules : InOrder(OpeningOf[id]) /\ HoursOfADay(id, ParamsOf[id])
  /\ \A form \in Forms : form.skip \in Nat \ {0}
=============================================================================
