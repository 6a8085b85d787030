CONSTANTS
  first = first
  second = second
  reader = reader
  a = a
  b = b
  x = x
  ghost = ghost
  cur = cur
  otherCur = otherCur
  NoId = NoId
  Calls <- MCCalls
  Requests <- MCRequests
  Currencies <- MCCurrencies
  CurrencyOf <- MCCurrencyOf
  ChartDecimals <- MCChartDecimals
  LedgerDecimals <- MCLedgerDecimals
  Configs <- MCConfigs
  MaxTroubles = 1
  Precision = 11
  FixedDecimals = 1
  MaxExponent = 20
SPECIFICATION CallsSpec
INVARIANTS CallsTypeOK PostedAsAnswered JournalTold BalanceTold AmountsServed
CHECK_DEADLOCK FALSE
