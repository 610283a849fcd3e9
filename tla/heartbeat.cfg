SPECIFICATION Spec
CONSTANTS
  MaxTasks = 7
  MaxHour = 2
  MaxFaults = 2
  Configs <- TotalAndShared
INVARIANTS HBTypeOK HourlyLimit InFlightIsBounded
CHECK_DEADLOCK FALSE
