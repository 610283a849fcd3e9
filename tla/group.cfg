SPECIFICATION Spec
CONSTANTS
  Task = {1, 2, 3}
  TaskID <- OneGroup
  Primary = {1}
  VSSGroups = {"g1"}
  ChainStatuses <- FewStatuses
  ExecFiles = {"f"}
  NoFiles = "no files"
  Rejected = {}
  HeartbeatLimit = FALSE
  FaultyOps <- AllOps
  TemporaryOps = {}
  MaxFaults = 1
  RelayMayForget = TRUE
  RecoveryMayFail = TRUE
INVARIANTS
  TypeOK
  DownloadOnlyAfterSuccess
  ClientTaskOutcome
PROPERTIES
  RelayEndStays
\* Once every row is finished the engine has nothing left to do.
CHECK_DEADLOCK FALSE
