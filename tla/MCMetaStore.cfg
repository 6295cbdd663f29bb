\* Three births and two dispatches on two native sessions, with one cut.
SPECIFICATION Spec
CONSTANTS
  b1 = b1  b2 = b2  b3 = b3
  d1 = d1  d2 = d2
  g1 = g1  g2 = g2  g3 = g3
  n1 = n1  n2 = n2
  None = None
  Births = {b1, b2, b3}
  Dispatches = {d1, d2}
  Gids = {g1, g2, g3}
  Natives = {n1, n2}
  MaxCuts = 1
SYMMETRY Symmetry
INVARIANTS OneAddress TwinsOverlapped BornIsRecorded
CHECK_DEADLOCK FALSE
