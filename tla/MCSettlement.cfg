SPECIFICATION FairSettlement
CONSTANTS
  MaxRaw = 4
  MaxMoney = 17
  NumAccounts = 3
  Instruments = {1, 2}
  Prices = {2}
  Quantities = {1, 2}
  InitialLedgers <- MCLedgers
  FillLists <- MCFillLists
INVARIANTS
  SettlementTypeOK
  InFlightBalance
  NoAccountAppears
  ConservationOnlyFailsOnWidth
PROPERTIES
  CommitAppliesEveryFillOnce
  EverySettlementEnds
  RefinesLedgerSpec
