SPECIFICATION Spec
CONSTANTS
  a = a
  b = b
  t1 = t1
  t2 = t2
  Trades <- TwoTrades
  Triggers = {t1}
  Links <- PostedLinks
  Existing = {a}
  HasApi = TRUE
  RowsDecode = TRUE
  NoticeStatuses = {"", "FILLED"}
  ChannelCap = 1
  MaxOrders = 4
  MaxTriggerWrites = 2
  MaxOrderNotices = 2
  MaxFaults = 1
INVARIANTS TypeOK RecordedOrdersExist EntryNeedsTriggers OrdersHaveCauses BracketsFollowEntry
PROPERTIES InsertsBlock ImplementsLedger
CHECK_DEADLOCK FALSE
