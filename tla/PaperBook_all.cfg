SPECIFICATION Spec
CONSTANTS
  None = None
  HalfSpread = 0
  StopDistance = 2
  RewardRisk = 2
  MaxHold = 2
  TrailActivate = 1
  TrailDistance = 1
  SelfManaged = FALSE
  MinLot = 1
  RiskDivisor = 2
  StartingEquity = 23
  Guarded = TRUE
  MaxConcurrent = 1
  MaxTradesPerDay = 2
  DailyLossLimit = 5
  Cooldown = 2
  MaxOpenLoss = 2
  NotionalMultiple = 1
  Day = 3
  WeekendBars <- BarThree
  NewsBars <- NoBars
  CutUnit = 2
  External = TRUE
  InOrder = FALSE
  Times <- FiveBars
  Warmup = None
  BarShapes <- FlatsAndGaps
  Quotes <- LowOrHighQuote
  EntryForms <- BothSides
  OrderForms <- BuyLimitOrSellStop
  MayExit = TRUE
INVARIANT CooldownHolds
INVARIANT DayLimitsHold
INVARIANT AdviceOnlyShrinks
INVARIANT OrderStandsAlone
INVARIANT RangeIsOfPosition
INVARIANT FlatAcrossWeekend
PROPERTY StopOnlyTightens
PROPERTY LateBarEndsNothing
CHECK_DEADLOCK FALSE
