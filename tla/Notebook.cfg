SPECIFICATION Spec
CONSTANTS
  Pipelines = {p}
  Executions = {e1, e2}
  NoPipeline = NoPipeline
  NoExecution = NoExecution
  Tabs = {t1, t2}
  Blocks = {load, export}
  NoBlock = NoBlock
  BlocksOf <- EveryBlock
  MessagesBeatPoll = TRUE
  MaxOps = 3
INVARIANTS TypeOK  CopyWhileAlive
PROPERTIES ExecutingIsCleared
CHECK_DEADLOCK FALSE
