SPECIFICATION Spec
CONSTANTS
  Minutes = 2
  CandleLimit = 3
  MaxCandles = 2
  ThirtyDays = 9
  Full = FALSE
  FirstTime = 7
  MaxTime = 16
  MaxFaults = 2
INVARIANTS TypeOK NoGaps
PROPERTIES ClosedCandlesBecomeFinal ImplementsLog
CHECK_DEADLOCK FALSE
