SPECIFICATION LiveSpec
CONSTANTS
  t1 = t1
  t2 = t2
  Ids <- MCIds
  Specs <- MCSpecs
  Timeframes = {"1h"}
  Prices = {2}
  Candles <- TwoCandles
  MaxHistory = 2
  MaxWrites = 2
  MaxFaults = 2
INVARIANTS TypeOK MemoryFollowsRows
PROPERTIES AlertsAreCurrent AlertsAreTrue CrossedTriggersFire
