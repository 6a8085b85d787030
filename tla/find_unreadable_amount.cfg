CONSTANTS
  first = first
  second = second
  reader = reader
  a = a
  b = b
  x = x
  ghost = ghost
  cur = cur
  otherCur = otherCur
  NoId = NoId
  Calls <- MCCalls
  Requests <- LargeRequests
  Currencies <- MCCurrencies
  CurrencyOf <- MCCurrencyOf
  ChartDecimals <- MCChartDecimals
  LedgerDecimals <- MCLedgerDecimals
  Configs <- LargeConfigs
  MaxTroubles = 1
  Precision = 11
  FixedDecimals = 1
  MaxExponent = 20
SPECIFICATION CallsSpec
INVARIANT AmountsServed
CHECK_DEADLOCK FALSE
