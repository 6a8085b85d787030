CONSTANTS
  pos = pos  hub = hub  rec = rec  new = new
  b1 = b1  b2 = b2  d = d 
  Accounts <- MCAccounts
  Stored = {pos, hub, rec}
  Batches = {b1, b2}
  Directs = {d}
  Plan <- SplitPlan
  MaxFaults = 0
SPECIFICATION StoreSpec
INVARIANT AckedStored
CHECK_DEADLOCK FALSE
