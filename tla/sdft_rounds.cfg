SPECIFICATION FairSpec
CONSTANTS
  Client = {1}
  MaxRetries = 3
  MaxContinued = 1
  MaxFaults = 2
  MayExpire = TRUE
INVARIANTS
  SRTypeOK
  
  
  
PROPERTIES
  TakenUpIsDecided
\* Nothing is left to do once every client task is decided.
CHECK_DEADLOCK FALSE
