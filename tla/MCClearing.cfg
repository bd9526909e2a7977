SPECIFICATION ClearingSpec
CONSTANTS
  MaxRaw = 8
  MaxMoney = 64
  Instruments = {1}
  MaxOrders = 4
  Prices = {1, 2, 4}
  Quantities = {1, 2, 3}
  Arrivals <- MCArrivals
INVARIANTS
  CurvesAgree
  ClearsMaximumVolume
  AllocationMeetsVolume
  PriceTimePriority
  ProRataIsFair
  FillsAreSound
\* execute_batch returns: the run ends there.
CHECK_DEADLOCK FALSE
