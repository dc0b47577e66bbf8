SPECIFICATION Spec
CONSTANTS
  t1 = t1
  t2 = t2
  c1 = c1
  Threads = {t1, t2}
  Cloners = {c1}
  States = {"s", "E"}
  Starting = "s"
  Error = "E"
  MaxSpans = 2
  DebugMin = 3
  MaxStarts = 3
  MaxLogs = 3
  MaxClock = 3
  Jump = 2
CHECK_DEADLOCK FALSE
INVARIANTS SpansOrdered SpansAccounted StateTimesAddUp FinishEndsSpans FailureReachesTrace CloneExplainsError CloneFits NoDeadlock
SYMMETRY ThreadSymmetry
PROPERTIES FinishedStands
