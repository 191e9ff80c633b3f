CONSTANTS
  None = None
  Keys = {k1, k2}
  Ops = {a, b, x}
  LocalOps = {a, b}
  Workers = {w1}
  Callers = {}
  PageLimit = 2
  FaultCodes = {"unknown", "permission_denied"}
  MaxFaults = 3
SPECIFICATION Spec
SYMMETRY Symmetry
INVARIANTS EffectOnce CasChain CleanIsSourceVersion NoEventLost PageMatchesLoop
PROPERTY ContentHasRevision
