\* Three processes of one host contend for one garden id.
CONSTANTS
  c1 = c1  c2 = c2  c3 = c3
  p1 = p1  p2 = p2  p3 = p3
  h1 = h1
  None = None
  Procs = {p1, p2, p3}
  Calls = {c1, c2, c3}
  Hosts = {h1}
  ProcOf <- MCProcOf
  HostOf <- MCHostOf
SPECIFICATION FairSpec
INVARIANTS MutualExclusion CleanExit
PROPERTIES NoClobber ImplementsTargetLock AcquireAnswers
