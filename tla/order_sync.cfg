SPECIFICATION LiveSpec
CONSTANTS
  o1 = o1
  o2 = o2
  Orders <- MCOrders
  FirstPage <- MCFirstPage
  PageSize = 1
  TimesFit = TRUE
  MaxFaults = 1
INVARIANTS TypeOK SuccessMeansClosed
PROPERTIES ClosedOrdersLeave HoldingsAreShown ImplementsMirror
