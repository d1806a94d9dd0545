SPECIFICATION FairSpec
CONSTANTS
  extract = extract
  transform = transform
  export = export
  Blocks <- JoinBlocks
  Upstream <- Join
  Conditional = {transform}
  Schedulers = {s1}
  Server = server
  UsesRedis = FALSE
  LeaseOutlivesPass = TRUE
  AllowBlocksToFail = TRUE
  BlockRunLimit = 1
  TimeoutStatuses = {"failed", "cancelled"}
  BlocksWithTimeout = {}
  MaxCrashes = 2
  MaxCancels = 0
  MaxRetries = 0
INVARIANTS TypeOK WithinBlockRunLimit SkippedForCause
PROPERTIES  StartsAfterUpstream  
CHECK_DEADLOCK FALSE
