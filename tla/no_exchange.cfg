SPECIFICATION LiveSpec
CONSTANTS
  a = a
  b = b
  t1 = t1
  t2 = t2
  Trades <- TwoTrades
  Triggers = {t1, t2}
  Links <- SharedLinks
  Existing = {a, b}
  HasApi = FALSE
  RowsDecode = FALSE
  NoticeStatuses = {""}
  ChannelCap = 1
  MaxOrders = 2
  MaxTriggerWrites = 2
  MaxOrderNotices = 1
  MaxFaults = 0
PROPERTIES DueTradesAreEntered
CHECK_DEADLOCK FALSE
