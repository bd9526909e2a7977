SPECIFICATION StatementSpec
CONSTANTS
  MaxRaw = 3
  MaxMoney = 9
  NumAccounts = 3
  Instruments = {1, 2}
  MaxOrders = 3
  Prices = {1, 2}
  Quantities = {1, 2}
  Cutoffs = {2}
  Arrivals <- MCArrivals
  InitialLedgers <- MCLedgers
  Misreports <- MCMisreports
  Oracles <- MCOracles
  Alterations <- MCAlterations
INVARIANTS
  ProvesTheExecution
  
  EveryLeafAccountedFor
  CircuitRepeatsTheChecks
  BalancesCanBeChecked
\* The verdict, or the verification, is the end of the run.
CHECK_DEADLOCK FALSE
