SPECIFICATION ResearchSpec
CONSTANTS
  None = None
  Nothing = Nothing
  HalfSpread = 0
  StopDistance = 2
  RewardRisk = 0
  MaxHold = 0
  TrailActivate = 0
  TrailDistance = 1
  SelfManaged = FALSE
  MinLot = 1
  RiskDivisor = 2
  StartingEquity = 11
  Guarded = TRUE
  MaxConcurrent = 1
  MaxTradesPerDay = 2
  DailyLossLimit = 5
  Cooldown = 1
  MaxOpenLoss = 0
  NotionalMultiple = 1
  Day = 3
  WeekendBars <- NoBars
  NewsBars <- NoBars
  Times <- FiveBars
  BarShapes <- Gaps
  EntryForms <- BothSides
  MayExit = TRUE
  AtrBars <- FiveBars
  RangeFrom = 2
  RangeTo = 5
  Begins <- ClockChanges
  HoursAhead = 168
  Parts = {"backtest", "rules", "nights", "prints", "levels", "study", "rows"}
  Slack = 1
  BarsADay = 6
  ParamsOf <- ParamsFor
  OpeningOf <- OpeningFor
  Forms <- Steps
  MaxBars = 3
  Layered <- Layers
  Companion <- Beside
  View <- Options
  News <- Calendar
  Rules = {"ema-cross","rsi-reversion","donchian-breakout","bb-fade","level-reversion","maxpain-magnet","flow-momentum","flow-at-level","buy-and-hold","external","keltner-break","macd-cross","rsi2-pullback","squeeze-break","stoch-reversal","orb","pdhl","gap-fade","session-hold","intraday-momentum","tsmom","quiet-swing","vwap-fade","doji-reversal","trend-pullback","volume-thrust","far-stop-break","volman-box","companion-unconfirmed","rsi-reversal-vol","ict-sweep-mss-fvg"}
INVARIANT OneEntryADay
INVARIANT NightsAreCounted
INVARIANT EachPrintCountsOnce
INVARIANT FlatOutsideRange
PROPERTY AnswersStand
PROPERTY NothingAheadIsRead
CHECK_DEADLOCK FALSE
