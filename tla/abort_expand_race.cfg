SPECIFICATION ASpec
CONSTANTS
  Task = {1}
  TaskID <- OneSingle
  Primary = {1}
  VSSGroups = {}
  ChainStatuses <- SoloStatuses
  ExecFiles = {"f"}
  NoFiles = "no files"
  Rejected = {}
  HeartbeatLimit = FALSE
  FaultyOps = {}
  TemporaryOps = {}
  MaxFaults = 0
  RelayMayForget = FALSE
  RecoveryMayFail = FALSE
INVARIANTS
  AbortIsFinal
\* Once every row is finished the engine has nothing left to do.
CHECK_DEADLOCK FALSE
