CONSTANTS
  x = x  y = y  none = none  dfsp1 = dfsp1  dfsp2 = dfsp2
  Ids = {x, y}
  None = none
  Owners = {dfsp1, dfsp2}
  Calls = {"create1", "create2", "get", "byOwner", "delete"}
  Plan <- SharedPlan
  Foreign = {y}
  Adapters = {"builtin", "tigerbeetle"}
  MaxFaults = 1
SPECIFICATION ChartSpec
INVARIANTS ChartTypeOK LedgerCharted AckedOwned AckedFound AckedUndisturbed
CHECK_DEADLOCK FALSE
