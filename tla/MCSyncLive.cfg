CONSTANTS
  None = None
  Keys = {k1}
  Ops = {a, b, x}
  LocalOps = {a, b}
  Workers = {w1}
  Callers = {s1}
  PageLimit = 2
  FaultCodes = {"unknown"}
  MaxFaults = 1
SPECIFICATION FairSpec
PROPERTIES QueueDrains FeedFollowed
