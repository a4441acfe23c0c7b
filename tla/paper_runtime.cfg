SPECIFICATION Spec
CHECK_DEADLOCK FALSE
CONSTANTS
  EntryShort = 1
  EntryLong = 3
  ExitShort = 1
  ExitLong = 2
  NPeriod = 2
  NMethod = "turtle"
  MinimumTick = 0
  StopN = 2
  StepN = 1
  MaxUnits = 2
  Lookback = 1
  SkipDays = 0
  TrendDays = 2
  ExitDays = 2
  MomentumMinPrice = 5
  MomentumMinValue = 1
  MomentumValueDays = 1
  Symbols = {1, 2}
  MarketSymbol = 3
  Setups <- MCSetups
  UnitQty = 1
  BaseEquity = 6500
  UseMarketFilter = TRUE
  MaxPositions = 1
  MaxExposurePct = 50
  TargetPct = 30
  AcceptTopN = 1
  History <- MCHistory
  Days <- MCDays
  RunsPerDay = 2
  OwnHoldings <- MCOwn
INVARIANTS RuntimeTypeOK MomentumSlots RowsMatchBroker OrdersFitHoldings
