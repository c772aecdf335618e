SPECIFICATION FairSpec
PROPERTY RestartResumes
CHECK_DEADLOCK FALSE
CONSTANTS
  Releases = {r0, r1, r2}
  First = r0
  Healthy = {r0, r1}
  Watchdogs = {w1, w2}
  MaxUpgrades = 1
  Faults = {"torn"}
  MaxFaults = 1
  NoRelease = NoRelease
  NoMarker = NoMarker
  NoOne = NoOne
  Node = Node
