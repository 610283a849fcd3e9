SPECIFICATION HSpec
CONSTANTS
  Task = {1, 2, 3}
  TaskID <- OneGroup
  Primary = {1}
  VSSGroups = {"g1"}
  ChainStatuses <- CalmStatuses
  ExecFiles = {"f"}
  NoFiles = "no files"
  Rejected = {}
  HeartbeatLimit = FALSE
  FaultyOps <- AllOps
  TemporaryOps = {}
  MaxFaults = 2
  RelayMayForget = FALSE
  RecoveryMayFail = TRUE
INVARIANTS
  OneValidationOwner

  
\* Once every row is finished the engine has nothing left to do.
CHECK_DEADLOCK FALSE
