SPECIFICATION Spec
CONSTANTS
  Nodes = {n1}
  Targets = {t1, t2}
  Editors = {e1, e2}
  Edits = {"rule", "enable", "disable", "group", "resync"}
  Faults = {"request", "apply", "node", "panel", "persist"}
  MaxFaults = 2
  MaxVersion = 3
  MaxTries = 2
  Paced = FALSE
  NoRule = NoRule
  NoPolicy = NoPolicy
  NoConfig = NoConfig
  NoBuild = NoBuild
  NoResult = NoResult
SYMMETRY Symmetry
INVARIANTS Fresh VersionsKept
PROPERTY NormalWhenPublished
CHECK_DEADLOCK FALSE
