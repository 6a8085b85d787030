CONSTANTS
  posA = posA  posB = posB  posX = posX  liqA = liqA  liqB = liqB
  hub = hub  rec = rec  ghost = ghost
  cur = cur  otherCur = otherCur
  t1 = t1  t2 = t2  t3 = t3  t4 = t4  fund = fund  fundDr = fundDr
  Accounts <- MCAccounts
  AccountIds <- MCAccountIds
  Currencies = {cur, otherCur}
  CurrencyOf <- MCCurrencyOf
  InitBalance <- MCInitBalance
  LiquidityOf <- MCLiquidityOf
  NetDebitCap <- MCNetDebitCap
  Transfers = {t1, t2, t3, t4}
  Transfer <- MCTransfer
  Postings = {fund, fundDr}
  Posting <- MCPosting
  Calls = {c1, c2, c3}
  Workload <- SerialWork
  Disciplined = TRUE
  RepoMayFail = FALSE
SPECIFICATION SerialSpec
INVARIANT CommitAllOrNothing
SYMMETRY Symmetry
CHECK_DEADLOCK FALSE
