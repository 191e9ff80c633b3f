SPECIFICATION FairSpec
CONSTANTS
  Calls = {c1, c2, c3}
  Untimed = {c1}
  Cancellable = {c1, c2, c3}
  Nobody = Nobody
CHECK_DEADLOCK FALSE
INVARIANTS
  CallsAccounted
  
  
PROPERTY CallsReturn
