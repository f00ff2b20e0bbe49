SPECIFICATION Spec
CONSTANTS
  t1 = t1
  t2 = t2
  Ids = {t1}
  Specs <- TwoWicks
  Timeframes = {"1h"}
  Prices = {2}
  Candles <- TwoCandles
  MaxHistory = 2
  MaxWrites = 2
  MaxFaults = 0
PROPERTIES CandleAlertsHaveGround
