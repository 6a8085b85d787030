CONSTANTS
  posA = posA  posB = posB  liqA = liqA  hub = hub  rec = rec  ghost = ghost
  cur = cur  t1 = t1  t2 = t2  t3 = t3  fund = fund
  Accounts <- MCAccounts
  AccountIds = {posA, posB, liqA, hub, rec, ghost}
  Currencies = {cur}
  CurrencyOf <- MCCurrencyOf
  InitBalance <- MCInitBalance
  LiquidityOf <- MCLiquidityOf
  NetDebitCap <- MCNetDebitCap
  Transfers = {t1, t2, t3}
  Transfer <- MCTransfer
  Postings = {fund}
  Posting <- MCPosting
  Workload <- MCWorkload
  Requests <- MCRequests
  RequestId <- MCRequestId
  Valid <- MCValid
  Known <- MCKnown
  Callers = {c1, c2}
  Calls = {k1, k2, k3}
  Direct = {k3}
  Arrays <- MCArrays
  MayFail = TRUE
  MayExit = FALSE
  Disciplined = FALSE
  RepoMayFail = TRUE
  LinkMayBreak = FALSE
SPECIFICATION SystemSpec
INVARIANTS LiquidityCovered AnswersTellBalances SuccessJournaled
PROPERTY LedgerServedSerially
SYMMETRY Symmetry
CHECK_DEADLOCK FALSE
