SPECIFICATION FairSpec
CONSTANTS
  Ids = {r1, r2}
  MaxOut = 2
  MaxSends = 2
  IdleOn = TRUE
CHECK_DEADLOCK FALSE
INVARIANTS RequestsAccounted EntriesLive AsksAccounted
PROPERTIES RequestSettled AskReleased
