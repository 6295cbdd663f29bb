\* Two resume calls with every mishap.
CONSTANTS
  c1 = c1  c2 = c2  op = op
  Operator = op
  Calls = {c1, c2}
  Mishaps = {"operator", "callerDies", "socketLost", "releaseFails"}
  MaxRounds = 1
SPECIFICATION FairSpec
INVARIANTS SecondWindowIsExcused RejectOpenedNothing LockComesBack
PROPERTIES LaunchIsLocked CallsEnd
