SPECIFICATION ReplaySpec
CONSTANTS
  Instruments = {1}
  MaxRaw = 2
  MaxMoney = 4
  NumRefs = 3
  Timestamps = {1}
  MaxFrames = 3
  Frames <- MCFrames
INVARIANTS
  OrderBookTypeOK
  LevelsMatchOrders
  SnapshotIsCurrent
PROPERTIES
  RefinesBookSpec
  OnlyWholeMessagesTakeEffect
  EveryReplayReturns
