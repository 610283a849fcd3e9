SPECIFICATION ASpec
CONSTANTS
  Task = {1, 2}
  TaskID <- TwoSingles
  Primary = {1, 2}
  VSSGroups = {}
  ChainStatuses <- SoloStatuses
  ExecFiles = {"f"}
  NoFiles = "no files"
  Rejected = {}
  HeartbeatLimit = FALSE
  FaultyOps <- AllOps
  TemporaryOps = {"cancel"}
  MaxFaults = 1
  RelayMayForget = FALSE
  RecoveryMayFail = FALSE
INVARIANTS
  NoOrphanOperation
  NothingRunsAfterAbort
PROPERTIES
  KeepsPromise
\* Once every row is finished the engine has nothing left to do.
CHECK_DEADLOCK FALSE
