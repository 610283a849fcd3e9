SPECIFICATION Spec
CONSTANTS
  ClientTask = {1, 2, 3}
  MaxTraces = 2
  Request = {r1, r2}
  Kind <- OneOfEach
  MaxItems = 2
  UseLimits <- Limits
  DefaultLimit = 1
  RateLimits = {2}
  DefaultRate = 1
  Period = 1
  MaxDebt = 1
  Growing = {1, 2}
  MaxChanges = 1
  MaxFaults = 1
SYMMETRY Requests
INVARIANTS
  CreationTypeOK
  UsesAreTasks
  LimiterFollowsKey
  EntriesAreLive
  TracesAreFound
PROPERTIES
  WithinQuota
\* The key may be used up or deleted, and the traces of its tasks all told.
CHECK_DEADLOCK FALSE
