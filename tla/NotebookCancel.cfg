SPECIFICATION Spec
CONSTANTS
  Pipelines = {p, q}
  Executions = {e1, e2}
  NoPipeline = NoPipeline
  NoExecution = NoExecution
  Tabs = {t1, t2}
  Blocks = {load}
  NoBlock = NoBlock
  BlocksOf <- EveryBlock
  MessagesBeatPoll = TRUE
  MaxOps = 3
INVARIANT ConfigIsOwn
CHECK_DEADLOCK FALSE
