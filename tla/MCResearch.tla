----------------------------- MODULE MCResearch -----------------------------
(***************************************************************************)
(* What is computed from a tape and nothing else: the backtest over it, the *)
(* rules and their indicators, the clock's nights, the option prints, the   *)
(* parameters a walk-forward chooses, the rows a model learns from.  A      *)
(* behaviour is one of `part`; the others stay as they began.              *)
(***************************************************************************)
EXTENDS Backtest, NightCharges, Signals, TLC

CONSTANT Parts  \* what a run looks at

VARIABLES
  part,
  prints, engine, fed, contexts, answer,
  tf, file, levels, facts,
  history, answered, study,
  candles, rows

-----------------------------------------------------------------------------
Shape(o, h, l, c) == [open |-> o, high |-> h, low |-> l, close |-> c]
Form(side, stop, target) == [side |-> side, stop |-> stop, target |-> target]

FiveBars == 1..5
Gaps == {Shape(10, 10, 6, 7), Shape(10, 13, 10, 13), Shape(6, 7, 5, 6)}
BothSides == {Form("Long", None, None), Form("Short", 12, None)}
NoBars == {}

-----------------------------------------------------------------------------
(* New York's midnight on Monday the second of June 2025, in UTC minutes. *)
Monday == 20241 * 1440 + 240

Candle(time, open, high, low, close) ==
  [time |-> time, open |-> open, high |-> high, low |-> low, close |-> close, volume |-> 2]
(* Bars that each begin where the last one closed. *)
Waves(step, closes) ==
  [i \in DOMAIN closes |->
     LET open == IF i = 1 THEN 1000 ELSE closes[i - 1]  close == closes[i]
         top == IF open > close THEN open ELSE close
     IN  Candle(Monday + step * (i - 1), open, top + 2, open + close - top - 2, close)]

(* Two days and a morning of four-hour bars; a week of half days; a fall, a
   rally into the gap it left, a sweep of the last high and the way down. *)
TwoDays == Waves(240, <<1010, 1000, 1015, 995, 1005, 1000, 1012, 990, 1004, 998, 1008, 1002,
                        1006, 1000>>)
Week == Waves(720, <<1030, 995, 1020, 1000, 1012, 1001, 1004, 1000, 1008, 1002, 1003>>)
Swept ==
  LET Quad(i, q) == Candle(Monday - 240 + 240 * (i - 1), q[1], q[2], q[3], q[4])
      quads == << <<1095, 1100, 1082, 1090>>, <<1090, 1092, 1080, 1082>>, <<1082, 1085, 1060, 1062>>,
                  <<1062, 1063, 1040, 1045>>, <<1045, 1050, 1032, 1035>>, <<1035, 1045, 1030, 1042>>,
                  <<1042, 1056, 1040, 1046>>, <<1046, 1048, 1038, 1043>>, <<1043, 1050, 1041, 1048>>,
                  <<1048, 1062, 1042, 1050>>, <<1050, 1052, 1028, 1030>>, <<1030, 1032, 1015, 1018>>,
                  <<1018, 1022, 1014, 1019>> >>
  IN  [i \in DOMAIN quads |-> Quad(i, quads[i])]
OpeningFor == [id \in Rules |-> CASE id = "ict-sweep-mss-fvg" -> Swept [] id = "quiet-swing" -> Week
                                  [] OTHER -> TwoDays]

Step(gap, move, above, below, skip, volume) ==
  [gap |-> gap, move |-> move, above |-> above, below |-> below, skip |-> skip, volume |-> volume]
(* Thrusts, a doji, a weekend, and bars that reach out and come back. *)
Steps == {Step(0, 30, 2, 2, 1, 9), Step(0, -30, 2, 2, 1, 9), Step(0, 1, 9, 9, 1, 2),
          Step(-25, 10, 2, 2, 18, 2), Step(0, 8, 30, 1, 1, 2), Step(0, -8, 1, 30, 1, 2)}

(* The other instrument: the same four hours, hardly moving. *)
Beside == [i \in 1..18 |-> Candle(Monday + 240 * (i - 1), 500, 502, 498, 500 + (i % 2))]

Options == [ratio |-> 70, velocity |-> 30,
            clusters |-> <<[low |-> 990, high |-> 1004, center |-> 996, score |-> 9],
                           [low |-> 1020, high |-> 1030, center |-> 1026, score |-> 8]>>,
            front |-> [maxPain |-> 1010, dte |-> 1]]

Calendar == {[time |-> Monday + 240 * 15 + 60, impact |-> 3, currency |-> "USD"]}
Conditions ==
  <<[kind |-> "hours", from |-> 0, to |-> 900], [kind |-> "weekdays", days |-> {1, 2, 3, 5}],
    [kind |-> "vol", fast |-> 2, slow |-> 3, min |-> 5, max |-> 20],
    [kind |-> "sessions", windows |-> << <<0, 600>>, <<700, 1000>> >>],
    [kind |-> "volabs", period |-> 2, min |-> 0, max |-> 9],
    [kind |-> "news", before |-> 60, after |-> 60, impact |-> 2, currencies |-> {"USD"}],
    [kind |-> "flat", from |-> 960, to |-> 1080]>>
Layers == {<< >>, Conditions}

Ratio == [atrPeriod |-> 2, stopAtr |-> 10, riskReward |-> 20, buffer |-> 1]
ParamsFor == [id \in Rules |->
  CASE id = "ema-cross" -> Ratio @@ [fast |-> 2, slow |-> 3]
    [] id = "rsi-reversion" -> Ratio @@ [period |-> 2, oversold |-> 40, overbought |-> 60, exitLevel |-> 50]
    [] id \in {"donchian-breakout"} -> Ratio @@ [period |-> 3]
    [] id = "bb-fade" -> Ratio @@ [period |-> 3, mult |-> 10]
    [] id \in {"level-reversion", "flow-at-level"} ->
         Ratio @@ [minClusterScore |-> 5, entryAtr |-> 5, minBullRatio |-> 60, requireReclaim |-> TRUE]
    [] id = "maxpain-magnet" -> Ratio @@ [maxDte |-> 2, minDistanceAtr |-> 5]
    [] id = "flow-momentum" -> Ratio @@ [minBullRatio |-> 60, minVelocity |-> 20]
    [] id \in {"buy-and-hold", "external"} -> Ratio
    [] id = "keltner-break" -> Ratio @@ [period |-> 3, kAtr |-> 2, mult |-> 3]
    [] id = "macd-cross" -> Ratio @@ [fast |-> 2, slow |-> 3, signal |-> 2]
    [] id = "rsi2-pullback" -> Ratio @@ [trend |-> 6, level |-> 45]
    [] id = "squeeze-break" -> Ratio @@ [period |-> 3, mult |-> 10, lookback |-> 3]
    [] id = "stoch-reversal" -> Ratio @@ [period |-> 3, smoothK |-> 1, smoothD |-> 2, level |-> 50]
    [] id = "orb" -> Ratio @@ [rangeStart |-> 0, rangeMinutes |-> 480, entryUntil |-> 2000,
                               stopAtMiddle |-> FALSE, minRange |-> 2, maxRangeAtr |-> 90]
    [] id = "pdhl" -> Ratio @@ [fade |-> FALSE, maxRiskAtr |-> 90]
    [] id = "gap-fade" -> Ratio @@ [minGapHours |-> 48, minGapAtr |-> 5, stopGap |-> 100, fillPct |-> 50]
    [] id = "session-hold" -> Ratio @@ [from |-> 800, to |-> 1600, side |-> "Long",
                                        riskDailyRanges |-> 10, rangeDays |-> 2]
    [] id = "intraday-momentum" -> Ratio @@ [from |-> 800, to |-> 2000, firstFrom |-> 0, firstTo |-> 800,
                                             minMove |-> 1, riskDailyRanges |-> 10, rangeDays |-> 2]
    [] id = "tsmom" -> Ratio @@ [lookbackDays |-> 1, rebalance |-> 800, riskDailyRanges |-> 10,
                                 rangeDays |-> 2]
    [] id = "quiet-swing" -> Ratio @@ [lookback |-> 1, window |-> 2, hold |-> 1, quietPct |-> 60,
                                       riskDailyRanges |-> 10, rangeDays |-> 2]
    [] id = "vwap-fade" -> Ratio @@ [session |-> 1440, stretchAtr |-> 5]
    [] id = "doji-reversal" -> Ratio @@ [trendBars |-> 3, trendAtr |-> 1, minRangeAtr |-> 2, bodyMaxPct |-> 20]
    [] id = "trend-pullback" -> Ratio @@ [fast |-> 2, slow |-> 4, slopeBars |-> 1, runBars |-> 1, swingBars |-> 3]
    [] id = "volume-thrust" -> Ratio @@ [volBars |-> 3, volMult |-> 20, minRangeAtr |-> 5, closePct |-> 30]
    [] id = "far-stop-break" -> Ratio @@ [period |-> 3, structural |-> TRUE, minStopPoints |-> 2]
    [] id = "volman-box" -> Ratio @@ [boxBars |-> 3, emaPeriod |-> 2, maxBoxAtr |-> 90, maxBreakAtr |-> 90,
                                      boxes |-> 1]
    [] id = "companion-unconfirmed" -> Ratio @@ [moveBars |-> 2, moveAtr |-> 5, companionAtr |-> 10,
                                                 companionAtrPeriod |-> 2]
    [] id = "rsi-reversal-vol" -> [rsiPeriod |-> 2, stochPeriod |-> 2, smoothK |-> 1, smoothD |-> 1, volBars |-> 2,
                                   smallBody |-> 30, maxShadow |-> 20, buyRsi |-> 90, sellRsi |-> 10,
                                   volMult |-> 15, stopPrice |-> 20, targetPrice |-> 10]
    [] id = "ict-sweep-mss-fvg" ->
         Ratio @@ [swingLeft |-> 1, swingRight |-> 1, htfFactor |-> 2, maxHtfFvgAge |-> 3, minHtfFvgPips |-> 1,
                   htfTolerancePips |-> 5, liquidityLookback |-> 8, minSweepPips |-> 1, maxSweepPips |-> 50,
                   sweepBufferPips |-> 0, mssBufferPips |-> 0, structureLookback |-> 4, displacementLookback |-> 3,
                   displacementMult |-> 10, minBodyAtrRatio |-> 5, maxBarsSweepToMss |-> 3, maxBarsMssToFvg |-> 3,
                   maxBarsFvgToEntry |-> 4, minEntryFvgPips |-> 2, entryPercent |-> 50, slBufferPips |-> 2]]

ASSUME RulesOfOneDay == OfOneDay

(* From three days before each change of daylight time in 2025, in UTC hours. *)
ClockChanges == {20153 * 24 + 20, 20391 * 24 + 20}

-----------------------------------------------------------------------------
PrintOf(symbol, expiration, type, strike, side, contracts, underlying) ==
  [time |-> 0, symbol |-> symbol, expiration |-> expiration, type |-> type, strike |-> strike,
   side |-> side, contracts |-> contracts, price |-> 2, underlying |-> underlying,
   premium |-> 2 * contracts]
Tickets ==
  {PrintOf("near", 400, "Call", 12, "Buy", 2, 11), PrintOf("near", 400, "Put", 9, "Buy", 3, 11),
   PrintOf("near", 400, "Call", 10, "Sell", 1, 9), PrintOf("far", 9000, "Put", 10, "Sell", 5, 11),
   PrintOf("far", 9000, "Put", 8, "Unknown", 1, None)}
Market ==
  [multiplier |-> 1, profileMode |-> "PREMIUM", valueArea |-> 70,
   breakEven |-> "premium-weighted-long", whale |-> "net-long-whale", positioning |-> "Net",
   bigTrades |-> [minPremium |-> 6, minContracts |-> None, percentile |-> 50,
                  percentileWindow |-> 3, limit |-> 2],
   bias |-> [strongBull |-> 70, moderateBull |-> 55, moderateBear |-> 45, strongBear |-> 30],
   windows |-> [w \in {"5m", "15m"} |-> IF w = "5m" THEN 5 ELSE 15], velocityWindow |-> 5,
   clusterFloor |-> 1, clusterAtr |-> 50, maxClusters |-> 3, weights |-> [w \in {"POC"} |-> 12],
   bigTradeWindow |-> 10, step |-> 5]
Prints == INSTANCE OptionsEngine WITH
  Settings <- Market, FirstPrint <- 100, PrintForms <- Tickets, Waits <- {0, 3, 5},
  MaxPrints <- 3, tape <- prints

-----------------------------------------------------------------------------
(* Two parameter sets over bars that climb and give half of it back. *)
Climb == <<5, 6, 5, 7, 6, 8, 7, 9, 8, 10>>
Climbing ==
  [i \in 1..9 |->
     LET open == Climb[i]  close == Climb[i + 1]
         top == IF open > close THEN open ELSE close
     IN  Shape(open, top, open + close - top, close) @@ [time |-> i]]
Alike(flat, held) == [p \in {"None", "Long", "Short"} |-> IF p = "None" THEN flat ELSE held]
Silent == [kind |-> "None"]
Goes(side) == [kind |-> "Enter", form |-> Form(side, None, None)]
Sayings ==
  {("slow" :> Alike(Silent, Silent)) @@ ("fast" :> Alike(Goes("Long"), [kind |-> "Exit"])),
   ("slow" :> Alike(Goes("Long"), Silent)) @@ ("fast" :> Alike(Goes("Short"), Silent)),
   ("slow" :> Alike(Goes("Short"), Silent)) @@ ("fast" :> Alike(Silent, Silent))}
Study == INSTANCE WalkForward WITH
  Times <- 1..9, BarShapes <- {}, EntryForms <- {}, AtrBars <- {}, Grid <- <<"slow", "fast">>, Folds <- 2,
  MinTrades <- 1, Answers <- Sayings, Histories <- {Climbing}, tape <- history, said <- answered

(* A print or none each five minutes, rows from the second of them on. *)
Learning ==
  [atrPeriod |-> 2, atrBar |-> 10, step |-> 5, warmup |-> 5, band |-> 50, folds |-> 1, minTrain |-> 2,
   minTest |-> 1, horizons |-> [h \in {"5m", "10m"} |-> IF h = "5m" THEN 5 ELSE 10]]
Rows == INSTANCE FeatureRows WITH
  Settings <- Market, FirstPrint <- 100, Waits <- {0}, MaxPrints <- 2, tape <- prints,
  PrintForms <- {PrintOf("near", 400, "Call", 12, "Buy", 2, 11), PrintOf("near", 400, "Put", 9, "Buy", 3, 11),
                 PrintOf("far", 9000, "Put", 10, "Sell", 5, 11)},
  Training <- Learning, CandleCloses <- {10, 12}, MaxCandles <- 6

-----------------------------------------------------------------------------
(* Rising highs and lows over three days of each timeframe. *)
Frames == {"15m", "4h", "1d"}
Minutes == [frame \in Frames |-> CASE frame = "15m" -> 15 [] frame = "4h" -> 240 [] frame = "1d" -> 1440]
Legs == <<1000, 1010, 1020, 1012, 1004, 1016, 1026, 1018, 1010, 1022, 1032>>
FilesOf ==
  [frame \in Frames |->
     LET waves == Waves(Minutes[frame], Legs)
         hole == IF frame = "15m" THEN 60 ELSE 2880
     IN  [i \in DOMAIN waves |->
            [waves[i] EXCEPT !.time = @ + hole * ((i - 1) \div 4), !.high = @ + (i % 2), !.low = @ - (i % 2)]]]
Steps3(hole, weekend) ==
  {Step(0, 30, 2, 2, 1, 2), Step(0, -30, 2, 2, 1, 2), Step(0, 4, 1, 1, 1, 2), Step(0, -12, 1, 9, hole, 2),
   Step(8, 10, 2, 2, weekend, 2)}
FormsOf == [frame \in Frames |->
              CASE frame = "15m" -> Steps3(5, 200) [] frame = "4h" -> Steps3(6, 13) [] frame = "1d" -> Steps3(1, 3)]
Scaled ==
  [trendBars |-> 14, d1Bars |-> 12, fast |-> 2, slow |-> 3, atr |-> 2, adx |-> 2, channel |-> 3, slope |-> 2,
   rules |-> [frame \in {"15m", "4h"} |-> IF frame = "15m" THEN [kind |-> "Zigzag", k |-> 1]
                                         ELSE [kind |-> "Fractal", n |-> 1]]]
Levels == INSTANCE DeskLevels WITH
  Timeframes <- Frames, StepOf <- Minutes,
  StoredFirst <- FilesOf, LevelForms <- FormsOf, MoreBars <- 4, AnalysisDays <- 3, ProfileDays <- 2,
  Displacement <- 1, Tolerance <- 30, Wing <- 1, LevelAtr <- 2, Scale <- Scaled

-----------------------------------------------------------------------------
ResearchInit ==
  /\ part \in Parts
  /\ Init /\ SignalsInit /\ NightsInit /\ Levels!Init /\ Rows!RowsInit /\ Study!Init
  /\ part # "rules" => rule = "external" /\ laid = << >>
  /\ part # "nights" => began = 20153 * 24 + 20
  /\ part # "levels" => tf = "1d" /\ file = << >>

printVars == <<prints, engine, fed, contexts, answer>>
levelVars == <<tf, file, levels, facts>>
studyVars == <<history, answered, study>>
tableVars == <<candles, rows>>

ResearchNext ==
  /\ UNCHANGED part
  /\ \/ /\ part = "backtest" /\ Next
        /\ UNCHANGED <<signalVars, nightVars, printVars, levelVars, studyVars, tableVars>>
     \/ /\ part = "rules" /\ SignalsNext
        /\ UNCHANGED <<vars, nightVars, printVars, levelVars, studyVars, tableVars>>
     \/ /\ part = "nights" /\ NightsNext
        /\ UNCHANGED <<vars, signalVars, printVars, levelVars, studyVars, tableVars>>
     \/ /\ part = "prints" /\ Prints!Next
        /\ UNCHANGED <<vars, signalVars, nightVars, levelVars, studyVars, tableVars>>
     \/ /\ part = "levels" /\ Levels!Next
        /\ UNCHANGED <<vars, signalVars, nightVars, printVars, studyVars, tableVars>>
     \/ /\ part = "study" /\ Study!Next
        /\ UNCHANGED <<vars, signalVars, nightVars, printVars, levelVars, tableVars>>
     \/ /\ part = "rows" /\ Rows!RowsNext
        /\ UNCHANGED <<vars, signalVars, nightVars, levelVars, studyVars>>

everything == <<part, vars, signalVars, nightVars, printVars, levelVars, studyVars, tableVars>>
ResearchSpec == ResearchInit /\ [][ResearchNext]_everything

-----------------------------------------------------------------------------
(* What a rule said on a bar it says for ever (Signals, registry.rs BarContext);
   a row of features stands, of its moment alone (FeatureRows, dataset.rs); and a
   parameter set is chosen before the window it is measured on (WalkForward,
   sweep.rs walk_forward_guarded). *)
NothingAheadIsRead ==
  /\ SaidStands
  /\ Rows!RowsStand
  /\ [](Rows!FeaturesAreOfTheirMoment /\ Study!MeasuredUnseen)
(* Each print the engine was fed counts once (OptionsEngine, engine.rs). *)
EachPrintCountsOnce == Prints!EachPrintCountsOnce
(* Within a window later answers add and take nothing back (DeskLevels). *)
AnswersStand == Levels!AnswersStand
=============================================================================
