\* Two calls at one target of any backend that changes arbitrarily under them.
CONSTANTS
  c1 = c1  c2 = c2
  Calls = {c1, c2}
  Records = {"none", "pi", "selfFetch", "native"}
  MaxCopies = 2
SPECIFICATION Spec
SYMMETRY MCSymmetry
INVARIANTS AtMostOnce HonestResult NoLockLeak HonestReceipt AloneWithTarget
PROPERTIES FallbackIsHonest OnlyForward
