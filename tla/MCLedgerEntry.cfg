SPECIFICATION AuditsSpec
CONSTANTS
  MaxRaw = 7
  MaxMoney = 49
  NumAccounts = 2
  Instruments = {1, 2}
  MaxOrders = 3
  Prices = {1, 2}
  Quantities = {1, 2}
  Offset = 1
  ForgedQty = 5
  BogusPrice = 5
  ExtraCash = 3
  ExtraQty = 2
  Arrivals <- MCArrivals
  InitialLedgers <- MCLedgers
  Misreports <- MCMisreports
INVARIANTS
  ComparesEveryLedgerEntry
\* The ruling, or the report, is the end of the run.
CHECK_DEADLOCK FALSE
