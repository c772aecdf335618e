SPECIFICATION NodeSpec
CONSTANTS
  Conns = {1, 2}
  Setups <- MCSetups
  User = 9
  Workers = {1}
  Clients = {1, 2}
  Pool = 1
  TakeAge = 1
  ExitAge = 2
  DropAge = 3
  MaxConns = 2
  MaxEra = 2
  Releases = {r0, r1, r2}
  First = r0
  Healthy = {r0, r1}
  Watchdogs = {w1, w2}
  MaxUpgrades = 3
  Faults = {"crash", "torn", "kill", "reboot", "save", "install", "launch", "restart"}
  MaxFaults = 3
  NoRelease = NoRelease
  NoMarker = NoMarker
  NoOne = NoOne
  Node = Node
INVARIANTS Guarded LimitsRespected 
PROPERTIES TrialSpec ConfirmsInstalled NodeEnds
CHECK_DEADLOCK FALSE
