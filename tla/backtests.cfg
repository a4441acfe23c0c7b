SPECIFICATION BacktestsSpec
CHECK_DEADLOCK FALSE
CONSTANTS
  EntryShort = 1
  EntryLong = 2
  ExitShort = 1
  ExitLong = 2
  NPeriod = 2
  NMethod = "turtle"
  MinimumTick = 0
  StopN = 2
  StepN = 1
  MaxUnits = 2
  RiskPct = 25
  UnitQty = 1
  LotSize = 3
  CommissionPct = 1
  TaxPct = 2
  FixedCommission = 1
  SlippagePct = 1
  Symbols = {1, 2, 3}
  Sessions = 7
  Allowed <- MCAllowed
  InitialEquity = 6500
  MaxTotal <- MCMaxTotal
  ScanTopN = 2
  AcceptTopN = 1
  HoldDays = 2
  MinCandles = 2
  MinPrice = 100
  MinValue = 1
  ValueDays = 1
  MaxDistancePct <- MCNone
  PitUniverses <- MCPit
  MarketSymbol = 3
  UseMarketFilter = TRUE
  Lookback = 1
  SkipDays = 0
  TrendDays = 2
  ExitDays = 2
  MaxPositions = 2
  MaxExposurePct = 50
  TargetPct = 30
  MomentumAcceptTopN = 1
  MomentumMinPrice = 100
  MomentumMinValue = 1
  MomentumValueDays = 1
  BuyPct = 1
  SellPct = 1
  SecPct = 0
  MinSecFee = 1
  Batches <- MCBatches
  OneSymbol = 1
INVARIANTS BacktestsTypeOK CashAccounted NoReentry OneSkipPerWinner EntriesWereAccepted DrawdownIsWorstFall
PROPERTIES FillsInsideBar StopOnlyTightens RunAgreesWithPortfolio
