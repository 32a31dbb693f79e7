SPECIFICATION ServicesSpec
CONSTANTS
  Workers = {w1, w2, w3}
  Runs = 2
  Handlers <- ButAct
  Parts = {"copies"}
  Failures = {}
  Contracts = {"near", "far"}
  FullWindow = 3
  ShortWindow = 2
  PollEvery = 1
  MaxMinute = 3
  MaxTrades = 3
  Prints <- FivePrints
  At <- Stamps
  DayLength = 3
  Unclosed = Unclosed
  DaysAsked <- OddDays
  Page = 2
  MaxPages = 3
  Together = FALSE
  KilledIn = {}
  MaxBuffer = 2
  MaxParts = 2
  Long = Long
  Short = Short
  Newline = Newline
  Sizes <- FourLines
  Trades = {2}
  RollAt = 3
  TailChunk = 1
  Wanted = 2
  MaxNow = 2
  FreeAttempts = 1
  LockoutBase = 1
  LockoutMax = 2
  Ttl = 2
  Absent = Absent
  Files <- TomlFiles
  MaxTime = 4
  MaxLogins = 2
  MaxPasswords = 1
  Browsers <- TwoBrowsers
  Clients <- Alone
  Edits = {1, 2, 3}
  Configured = 0
  Torn = Torn
  Outcomes = {"done", "failed"}
  MayDie = TRUE
  MaxEvents = 3
  Streams = {"m5", "m15"}
  Quotes <- TwoQuotes
  NoQuote = NoQuote
  MinuteLength = 1
  RingMinutes = 1
  MaxClock = 2
  MaxPosts = 3
  None = None
  Mirrors = {FALSE}
  MaxAdoptBars = 1
  MaxJoinR = 1
  AllowFavourable = FALSE
  LeastStop = 1
  Drifts <- NearAndFar
  MaxRatio = 10
  MinLevel = 500
  Balances <- Wealth
  Orders <- Costs
  Week <- Weekend
  Sides <- BothSides
  Forms = {"limit"}
  Validities = {1}
  MaxBars = 3
  MaxDecisions = 2
  MaxTickets = 2
  MaxFaults = 1
  NoValue = NoValue
  Damaged = Damaged
  Accounts <- Logins
  Registries <- Grants
  StampEdits = {"damage", "no demo"}
  StampFails = FALSE
SYMMETRY Interchangeable
PROPERTY ExpiresWithTheBook
CHECK_DEADLOCK FALSE
