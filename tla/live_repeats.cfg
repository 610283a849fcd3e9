SPECIFICATION FairSpec
CONSTANTS
  Task = {1, 2}
  TaskID <- TwoSingles
  Primary = {1, 2}
  VSSGroups = {}
  ChainStatuses <- RunStatuses
  ExecFiles = {"f"}
  NoFiles = "no files"
  Rejected = {2}
  HeartbeatLimit = TRUE
  FaultyOps <- AllOps
  TemporaryOps = {"create", "validate", "cancel"}
  MaxFaults = 2
  RelayMayForget = FALSE
  RecoveryMayFail = FALSE
INVARIANTS
  FailedMeansFinished
  ToldIsDecided
PROPERTIES
  ClientTaskEnds
  CancellationEnds
  HeartbeatAbortSticks
  FinalPhaseStands
\* Once every row is finished the engine has nothing left to do.
CHECK_DEADLOCK FALSE
