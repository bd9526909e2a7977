SPECIFICATION ClearingSpec
CONSTANTS
  MaxRaw = 4
  MaxMoney = 16
  Instruments = {1}
  MaxOrders = 3
  Prices = {1, 2}
  Quantities = {1}
  Arrivals <- MCArrivals
INVARIANTS
  AllocationIsDetermined
\* execute_batch returns: the run ends there.
CHECK_DEADLOCK FALSE
