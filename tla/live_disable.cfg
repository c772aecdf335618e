SPECIFICATION FairSpec
CONSTANTS
  Nodes = {n1}
  Targets = {t1}
  Editors = {e1}
  Edits = {"disable"}
  Faults = {"panel"}
  MaxFaults = 1
  MaxVersion = 4
  MaxTries = 2
  Paced = TRUE
  NoRule = NoRule
  NoPolicy = NoPolicy
  NoConfig = NoConfig
  NoBuild = NoBuild
  NoResult = NoResult
PROPERTY DisabledStops
CHECK_DEADLOCK FALSE
