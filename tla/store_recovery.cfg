CONSTANTS
  pos = pos  hub = hub  rec = rec  new = new
  b1 = b1  b2 = b2  d = d 
  Accounts <- MCAccounts
  Stored = {pos, hub, rec}
  Batches = {b1, b2}
  Directs = {d}
  Plan <- RecoveryPlan
  MaxFaults = 1
SPECIFICATION StoreSpec
INVARIANTS StoreTypeOK BalancesJournaled AckedJournaled
CHECK_DEADLOCK FALSE
