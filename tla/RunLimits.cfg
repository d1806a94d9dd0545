SPECIFICATION FairSpec
CONSTANTS
  daily = daily
  api = api
  Schedulers = {s1}
  Triggers = {daily, api}
  TimeTriggers = {daily}
  SkipIfRunning = {daily}
  TriggerLimit <- Limits
  PipelineLimit = 2
  Policies = {"wait", "skip"}
  NoTrigger = none
  UsesRedis = TRUE
  LeaseOutlivesSection = TRUE
  MaxInterval = 2
  MaxRequests = 2
  MaxCrashes = 1
INVARIANTS TypeOK WithinTriggerLimit WithinPipelineLimit OneRunPerInterval OneRunAtATime
PROPERTIES EveryRunLeavesInitial
CHECK_DEADLOCK FALSE
