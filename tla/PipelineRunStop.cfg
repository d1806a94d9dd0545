SPECIFICATION Spec
CONSTANTS
  extract = extract
  transform = transform
  export = export
  Blocks <- PairBlocks
  Upstream <- Pair
  Conditional = {}
  Schedulers = {s1}
  Server = server
  UsesRedis = FALSE
  LeaseOutlivesPass = TRUE
  AllowBlocksToFail = FALSE
  BlockRunLimit = 1
  TimeoutStatuses = {}
  BlocksWithTimeout = {}
  MaxCrashes = 0
  MaxCancels = 1
  MaxRetries = 0
PROPERTIES StopIsFinal
CHECK_DEADLOCK FALSE
