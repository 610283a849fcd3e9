SPECIFICATION FairSpec
CONSTANTS
  Task = {1, 2, 3}
  TaskID <- OneGroup
  Primary = {1}
  VSSGroups = {"g1"}
  ChainStatuses <- FewStatuses
  ExecFiles = {"f"}
  NoFiles = "no files"
  Rejected = {}
  HeartbeatLimit = FALSE
  FaultyOps = {}
  TemporaryOps = {}
  MaxFaults = 0
  RelayMayForget = FALSE
  RecoveryMayFail = FALSE
PROPERTIES
  EveryRowFinishes
\* Once every row is finished the engine has nothing left to do.
CHECK_DEADLOCK FALSE
