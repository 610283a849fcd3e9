SPECIFICATION Spec
CONSTANTS
  Task = {r1, r2, r3}
  First = r1
  r1 = r1
  r2 = r2
  r3 = r3
  MayNeedGroup = TRUE
  MaxFaults = 1
  MayForget = TRUE
  ChainStatuses <- FewStatuses
  ExecFiles = {"f"}
  NoFiles = "f"
  Rejected = {}
SYMMETRY Members
INVARIANTS
  SGTypeOK
  OneSubmitter
  ValidatedAsGroup
  ValidationHasData
PROPERTIES
  NoSecondLife
\* Once every row is finished nothing is left to do.
CHECK_DEADLOCK FALSE
