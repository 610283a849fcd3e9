SPECIFICATION Spec
CONSTANTS
  Task = {1, 2, 3}
  TaskID <- OneGroup
  Primary = {1}
  VSSGroups = {"g1"}
  ChainStatuses <- CalmStatuses
  ExecFiles = {f, g, "no files"}
  NoFiles = "no files"
  Rejected = {}
  HeartbeatLimit = FALSE
  FaultyOps <- AllOps
  TemporaryOps = {}
  MaxFaults = 1
  RelayMayForget = TRUE
  RecoveryMayFail = TRUE
INVARIANTS
  NoMixedGroupValidated
  RecordedHasVRF
SYMMETRY Files
\* Once every row is finished the engine has nothing left to do.
CHECK_DEADLOCK FALSE
