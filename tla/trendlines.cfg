SPECIFICATION Spec
CONSTANTS
  Candles <- MCCandles
  MaxCandles = 5
  MaxFaults = 2
INVARIANTS TypeOK OneZigzag SegmentsGoTheirWay RowsDoNotOverlap
CHECK_DEADLOCK FALSE
