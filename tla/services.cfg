SPECIFICATION Spec
CONSTANTS
  Keys = {7}
  Hours = {0, 1}
  MaxDay = 2
  MaxBytes = 2
  KeepDays = 1
  Limit = 1
  MaxFailures = 1
  AlertRules = {1, 2}
  Targets = {1}
  Duration <- MCDuration
  SilenceFor = 2
  MaxTime = 3
  MaxRecords = 2
  MaxEdits = 1
  MaxFaults = 1
  Watched = {1}
  Callers = {c1}
  QueueSize = 2
  Attempts = 2
  MaxEvents = 3
INVARIANT JobsServe
PROPERTIES  AlertsSane 
CHECK_DEADLOCK FALSE
