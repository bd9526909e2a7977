SPECIFICATION ExchangeSpec
CONSTANTS
  MaxRaw = 4
  MaxMoney = 16
  NumAccounts = 2
  Instruments = {1, 2}
  MaxOrders = 3
  MaxBatches = 2
  Prices = {1, 2}
  Quantities = {1, 2}
  Arrivals <- MCArrivals
  InitialLedgers <- MCLedgers
PROPERTIES
  SettlesCanonicalFills
  BalancesFollowOrders
\* A session ends after its last batch.
CHECK_DEADLOCK FALSE
