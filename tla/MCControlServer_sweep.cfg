\* A sweep of one process while another starts.
CONSTANTS
  p1 = p1  p2 = p2
  g1 = g1  g2 = g2
  None = None
  Procs = {p1, p2}
  Gids = {g1, g2}
SPECIFICATION Spec
PROPERTIES SweepSparesTheLiving
