\* Three birth edges on two sessions, with two tool calls and two polls.
CONSTANTS
  s1 = s1  s2 = s2
  i1 = i1  i2 = i2
  None = None
  Sessions = {s1, s2}
  CallIds = {i1, i2}
  MaxEdges = 3
  MaxPolls = 2
SPECIFICATION BootstrapFairSpec
INVARIANTS TaskStaysHome TaskNeedsProof
PROPERTIES WaitingEnds
CHECK_DEADLOCK FALSE
