SPECIFICATION Spec
CONSTANTS
  None = None
  HalfSpread = 0
  StopDistance = 2
  RewardRisk = 2
  MaxHold = 0
  TrailActivate = 0
  TrailDistance = 0
  SelfManaged = FALSE
  MinLot = 1
  RiskDivisor = 5
  StartingEquity = 60
  Guarded = FALSE
  MaxConcurrent = 1
  MaxTradesPerDay = 2
  DailyLossLimit = 5
  Cooldown = 2
  MaxOpenLoss = 0
  NotionalMultiple = 0
  Day = 3
  WeekendBars <- NoBars
  NewsBars <- NoBars
  External = TRUE
  InOrder = TRUE
  Times <- ThreeBars
  Warmup = None
  BarShapes <- FlatOrDrop
  Quotes <- NoForms
  EntryForms <- PostedLong
  OrderForms <- BuyLimit
  MayExit = FALSE
  AtrBars <- FourBars
  MayOpen = FALSE
  MayTick = FALSE
  MayRestartId = TRUE
  WholeFeed = TRUE
  Faults = {"kill","write"}
  CutUnit = 1
  OpenOf <- AllAtTen
INVARIANT PromiseSurvives
INVARIANT RecordedOnce
INVARIANT StoppedStaysStopped
