SPECIFICATION Spec
CONSTANTS
  None = None
  HalfSpread = 0
  StopDistance = 2
  RewardRisk = 2
  MaxHold = 0
  TrailActivate = 0
  TrailDistance = 0
  SelfManaged = FALSE
  MinLot = 1
  RiskDivisor = 2
  StartingEquity = 11
  Guarded = TRUE
  MaxConcurrent = 1
  MaxTradesPerDay = 2
  DailyLossLimit = 5
  Cooldown = 2
  MaxOpenLoss = 0
  NotionalMultiple = 1
  Day = 3
  WeekendBars <- NoBars
  NewsBars <- NoBars
  Times <- FourBars
  BarShapes <- DropsAndRises
  EntryForms <- BothSides
  MayExit = TRUE
  AtrBars <- AtrLate
  CutUnit = 1
  Recent = 3
  FillOnOpen = TRUE
  ClosedFirst = TRUE
  ShortOutages = TRUE
INVARIANT NoExitBeforeEntry
PROPERTY RefinesBacktest
