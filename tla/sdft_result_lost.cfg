SPECIFICATION FairSpec
CONSTANTS
  Client = {1}
  MaxRetries = 3
  MaxContinued = 1
  MaxFaults = 1
  MayExpire = FALSE
PROPERTIES
  FinishedIsCompleted
\* Nothing is left to do once the client task is decided.
CHECK_DEADLOCK FALSE
