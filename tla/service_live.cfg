CONSTANTS
  posA = posA  posB = posB  liqA = liqA  hub = hub  rec = rec  ghost = ghost
  cur = cur  t1 = t1  t2 = t2  t3 = t3  fund = fund
  Accounts <- MCAccounts
  AccountIds = {posA, posB, liqA, hub, rec, ghost}
  Currencies = {cur}
  CurrencyOf <- MCCurrencyOf
  InitBalance <- MCInitBalance
  LiquidityOf <- MCLiquidityOf
  NetDebitCap <- MCNetDebitCap
  Transfers = {t1, t2, t3}
  Transfer <- MCTransfer
  Postings = {fund}
  Posting <- MCPosting
  Workload <- MCWorkload
  Requests <- MCRequests
  RequestId <- MCRequestId
  Valid <- MCValid
  Known <- MCKnown
  Callers = {c1, c2}
  Calls = {k1, k2}
  Direct = {}
  Arrays <- LiveArrays
  MayFail = TRUE
  MayExit = TRUE
  Disciplined = FALSE
  RepoMayFail = TRUE
  LinkMayBreak = TRUE
SPECIFICATION FairSystemSpec
INVARIANTS TypeOK HubTally
PROPERTY CallsEnd
CHECK_DEADLOCK FALSE
