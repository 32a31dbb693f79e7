SPECIFICATION Spec
CONSTANTS
  None = None
  HalfSpread = 0
  StopDistance = 2
  RewardRisk = 2
  MaxHold = 0
  TrailActivate = 0
  TrailDistance = 0
  SelfManaged = FALSE
  MinLot = 1
  RiskDivisor = 5
  StartingEquity = 15
  Guarded = FALSE
  MaxConcurrent = 1
  MaxTradesPerDay = 2
  DailyLossLimit = 5
  Cooldown = 2
  MaxOpenLoss = 0
  NotionalMultiple = 0
  Day = 3
  WeekendBars <- NoBars
  NewsBars <- NoBars
  External = TRUE
  InOrder = FALSE
  Times <- ThreeBars
  Warmup = None
  BarShapes <- Drops
  Quotes <- LowQuote
  EntryForms <- PostedLong
  OrderForms <- BuyLimit
  MayExit = FALSE
  AtrBars <- FourBars
  MayOpen = TRUE
  MayTick = TRUE
  MayRestartId = FALSE
  WholeFeed = FALSE
  Faults = {}
  CutUnit = 2
  OpenOf <- AllAtTen
INVARIANT RestartChangesNothing
PROPERTY EntersUnclosedBar
