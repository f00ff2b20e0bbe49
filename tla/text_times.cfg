SPECIFICATION LiveSpec
CONSTANTS
  o1 = o1
  o2 = o2
  Orders <- MCOrders
  FirstPage <- MCOrders
  PageSize = 2
  TimesFit = FALSE
  MaxFaults = 0
PROPERTIES OrdersOrFillsArrive
