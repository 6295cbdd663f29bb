\* Two processes, two gardens, one dispatcher.
SPECIFICATION Spec
CONSTANTS
  p1 = p1  p2 = p2  g1 = g1  g2 = g2
  MaxFaults = 2
  None = None
  Procs <- MCProcs
  Gardens <- MCGardens
INVARIANTS ArmedIsWatched ReachableStays
SYMMETRY MCSymmetry
