CONSTANTS
  r1 = r1  r2 = r2  r3 = r3  again = again  stray = stray  bad = bad
  id1 = id1  id2 = id2  id3 = id3  id4 = id4  id5 = id5
  Requests = {r1, r2, r3, again, stray, bad}
  RequestId <- MCRequestId
  Valid = {r1, r2, r3, again, stray}
  Known = {r1, r2, r3, again}
  Callers = {c1, c2, c3}
  Arrays <- MCArrays
  MayFail = TRUE
  MayExit = TRUE
SPECIFICATION QueueSpec
INVARIANTS QueueTypeOK QueueHoldsWaiting TakenOnce ExactAnswers OwnAnswers
PROPERTY ServesBatches
SYMMETRY Symmetry
CHECK_DEADLOCK FALSE
