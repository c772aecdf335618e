SPECIFICATION FairSpec
CONSTANTS
  Nodes = {n1}
  Targets = {t1, t2}
  Editors = {e1}
  Edits = {"rule", "group"}
  Faults = {"request", "apply", "node", "panel"}
  MaxFaults = 2
  MaxVersion = 7
  MaxTries = 2
  Paced = TRUE
  NoRule = NoRule
  NoPolicy = NoPolicy
  NoConfig = NoConfig
  NoBuild = NoBuild
  NoResult = NoResult
PROPERTIES Converges Acknowledged
CHECK_DEADLOCK FALSE
