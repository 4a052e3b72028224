CONSTANTS
  pa = pa pb = pb r1 = r1 r2 = r2
  NumQueues = 3
  NumGroups <- Groups
  NumLanes <- Lanes
  LongRunning <- Long
  NumWorkers = 3
  Policy = {pa, pb}
  Request = {r1, r2}
  Boot = r1
  PolicyOf <- OneChange
  NoRequest = NoRequest
SPECIFICATION FairSpec
INVARIANTS TypeOK LaneOnce LowOnWorker0 OneScheduler Balanced
PROPERTIES EveryLanePolled EveryPolicySet
