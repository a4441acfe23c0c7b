SPECIFICATION DashboardSpec
CHECK_DEADLOCK FALSE
CONSTANTS
  Templates <- MCTemplates
  Symbols = {1, 2}
  Payloads <- MCPayloads
  Market = "US"
  Times = {1, 2}
  Answers <- MCAnswers
  EnvKeys = FALSE
  FailureLimit = 2
  Window = 4
  MaxDays = 1
  MaxRequests = 3
  MaxPasses = 2
  Outcomes = {"ACKNOWLEDGED", "REJECTED", "UNKNOWN"}
INVARIANTS ReadyOnlyIfClean
