SPECIFICATION Spec
CONSTANTS
  Streams = {1, 2}
  Terms = {1, 2}
  UserLimit = 1
  ShellLimit = 1
  Buffer = 1
  Output = 1
  Line = 1
  MaxCuts = 1
  Flows = {s1, s2}
  Links = {1, 2}
  Slots = 1
  MaxRestart = 1
  MaxBroken = 1
INVARIANT TerminalsSafe
 
CHECK_DEADLOCK FALSE
