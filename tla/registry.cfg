SPECIFICATION RegistrySpec
CONSTANTS
  Editors = {e1, e2}
  Keep = Keep
  GroupInputs <- MCGroupInputs
  NodeInputs <- MCNodeInputs
  NodeEdits <- MCNodeEdits
  RuleInputs <- MCRuleInputs
  Batches <- MCBatches
  Imports <- MCImports
  InitTables <- MCTables
  MaxMultiplier = 2
  MaxRange = 2
  MaxId = 6
  MaxSnaps = 3
  MaxOps = 3
  MaxTogether = 2
  Ports = {1, 2, 3, 4}
  Configs <- MCConfigs
  MaxGen = 3
  MaxOutside = 1
  Ids = {1, 2}
  Capacity = 1
  Pending = 2
  MaxSend = 3
  Timeout = 7
  MaxRemotes = 3
  Remotes <- MCRemotes
INVARIANTS  ReachableReached
PROPERTIES RegistrySteps  
CHECK_DEADLOCK FALSE
