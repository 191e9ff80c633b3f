CONSTANTS
  None = None
  Keys = {k1}
  Ops = {a, b, x}
  LocalOps = {a, b}
  Workers = {w1, w2}
  Callers = {}
  PageLimit = 2
  FaultCodes = {"unknown", "permission_denied"}
  MaxFaults = 2
SPECIFICATION Spec
SYMMETRY Symmetry
INVARIANTS TypeOK AckedIsApplied RejectedNeverApplied IntentKept
PROPERTY ClosedStaysClosed
