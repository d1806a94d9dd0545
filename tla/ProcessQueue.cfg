SPECIFICATION Spec
CONSTANTS
  Jobs = {j1}
  Pids = {w1, w2, w3}
  Pools = {p1, p2}
  NoPool = none
  Size = 1
  MaxQueue = 2
  MaxCrashes = 1
  MaxRestarts = 1
  MaxKills = 1
INVARIANTS TypeOK WithinConcurrency
SYMMETRY ProcessSymmetry
CHECK_DEADLOCK FALSE
