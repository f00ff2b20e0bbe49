SPECIFICATION LiveSpec
CONSTANTS
  c1 = c1
  candleTable = candleTable
  lineTable = lineTable
  Clients = {c1}
  Tables <- MCTables
  CandleTables = {candleTable}
  Contains <- MCContains
  ClientCap = 1
  UpdatesCap = 2
  MaxCandles = 2
  MaxPrices = 1
  MaxAlerts = 0
INVARIANTS TypeOK SendsAreOpen NewestCandleLast
PROPERTIES StreamsEnd BroadcastsEnd
CHECK_DEADLOCK FALSE
