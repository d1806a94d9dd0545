SPECIFICATION Spec
CONSTANTS
  extract = extract
  transform = transform
  export = export
  Blocks <- PairBlocks
  Upstream <- Pair
  Conditional = {}
  Schedulers = {s1}
  Server = server
  UsesRedis = FALSE
  LeaseOutlivesPass = TRUE
  AllowBlocksToFail = FALSE
  BlockRunLimit = 1
  TimeoutStatuses = {}
  BlocksWithTimeout = {}
  MaxCrashes = 0
  MaxCancels = 0
  MaxRetries = 0
PROPERTIES CompletedStays
CHECK_DEADLOCK FALSE
