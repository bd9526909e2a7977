SPECIFICATION FeedSpec
CONSTANTS
  Instruments = {1}
  MaxRaw = 9
  MaxMoney = 81
  MaxTime = 7
  MaxSubmissions = 3
  Horizon = 3
  Starts = {0, 2, 5}
  Lengths = {0, 1, 2, 3}
  Limits <- MCLimits
  Submissions <- MCSubmissions
  FlowConfigs <- MCFlows
  PopulationConfigs <- MCPopulations
  SweptConfigs <- MCSwept
INVARIANTS
  PlacedInTheirInterval
  NothingLeftOut
  BundlesMeetTheProver
  PricesStayNearTheMid
\* A simulation or a partition runs once.
CHECK_DEADLOCK FALSE
