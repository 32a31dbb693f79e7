SPECIFICATION Spec
CONSTANTS
  None = None
  HalfSpread = 0
  StopDistance = 2
  RewardRisk = 2
  MaxHold = 0
  TrailActivate = 0
  TrailDistance = 0
  SelfManaged = FALSE
  MinLot = 1
  RiskDivisor = 5
  StartingEquity = 60
  Guarded = FALSE
  MaxConcurrent = 1
  MaxTradesPerDay = 2
  DailyLossLimit = 5
  Cooldown = 2
  MaxOpenLoss = 0
  NotionalMultiple = 0
  Day = 3
  WeekendBars <- NoBars
  NewsBars <- NoBars
  External = FALSE
  InOrder = FALSE
  Times <- ThreeBars
  Warmup = None
  BarShapes <- FlatOrDrop
  Quotes <- NoForms
  EntryForms <- DerivedLong
  OrderForms <- NoForms
  MayExit = TRUE
  AtrBars <- FourBars
  MayOpen = TRUE
  MayTick = FALSE
  MayRestartId = FALSE
  WholeFeed = TRUE
  Faults = {}
  CutUnit = 2
  OpenOf <- AllAtTen
INVARIANT RestartChangesNothing
