SPECIFICATION LiveSpec
CONSTANTS
  MaxFaults = 3
INVARIANTS TypeOK MonitorHasNewest
PROPERTIES UserFeedReturns
CHECK_DEADLOCK FALSE
