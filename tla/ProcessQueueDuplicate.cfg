SPECIFICATION Spec
CONSTANTS
  Jobs = {j1}
  Pids = {w1, w2}
  Pools = {p1}
  NoPool = none
  Size = 2
  MaxQueue = 2
  MaxCrashes = 0
  MaxRestarts = 0
  MaxKills = 0
INVARIANTS OneWorkerPerJob
CHECK_DEADLOCK FALSE
