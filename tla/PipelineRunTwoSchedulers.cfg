SPECIFICATION Spec
CONSTANTS
  extract = extract
  transform = transform
  export = export
  Blocks <- PairBlocks
  Upstream <- Pair
  Conditional = {}
  Schedulers = {s1, s2}
  Server = server
  UsesRedis = TRUE
  LeaseOutlivesPass = TRUE
  AllowBlocksToFail = FALSE
  BlockRunLimit = 1
  TimeoutStatuses = {}
  BlocksWithTimeout = {extract}
  MaxCrashes = 0
  MaxCancels = 1
  MaxRetries = 1
 
PROPERTIES UpstreamHasRun
SYMMETRY SchedulerSymmetry
CHECK_DEADLOCK FALSE
