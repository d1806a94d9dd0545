SPECIFICATION FairSpec
CONSTANTS
  Jobs = {j1}
  Pids = {w1, w2, w3}
  Pools = {p1}
  NoPool = none
  Size = 2
  MaxQueue = 2
  MaxCrashes = 1
  MaxRestarts = 0
  MaxKills = 0
PROPERTIES HeadIsTaken CrashDetected
CHECK_DEADLOCK FALSE
