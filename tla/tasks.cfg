SPECIFICATION FairSpec
CONSTANTS
  Tasks = {1, 2, 3}
  Kind <- MixedKind
  PollLimit = 2
  QueueSize = 1
  Faults = {"request", "save", "crash"}
  MaxFaults = 3
  NoRecord = NoRecord
  NoTask = NoTask
INVARIANTS AtMostOnce AnswersTrue
PROPERTIES BoardSpec 
CHECK_DEADLOCK FALSE
