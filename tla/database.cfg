SPECIFICATION DatabaseSpec
CONSTANTS
  Editors = {e1}
  Keep = Keep
  GroupInputs <- MCGroupRoutes
  NodeInputs <- MCNone
  NodeEdits <- MCNodeEdits
  RuleInputs <- MCRoutes
  Batches <- MCRouteBatches
  Imports <- MCNone
  InitTables <- MCNodeTables
  MaxMultiplier = 2
  MaxRange = 2
  MaxId = 6
  MaxSnaps = 0
  MaxOps = 3
  MaxTogether = 2
  DefaultSettings <- MCDefaults
  Updates <- MCUpdates
  Updaters = {u1, u2}
  MaxUpdates = 3
  MaxStops = 1
  Source <- MCSource
  Existing <- MCExisting
  SourceUsage = {1, 2}
  Runners = {r1}
  Policies = {"fail", "suffix", "skip"}
  ChunkSize = 1
  MaxSuffix = 4
  Creatable = {"users"}
  MaxRuns = 2
  MaxCreates = 1
  MaxAccidents = 1
  Makers = {m1}
  Zips = {a}
  NoFile = NoFile
  Torn = Torn
  Broken = Broken
  MaxCommits = 2
  MaxRestores = 2
  MaxMishaps = 1
  SourceRows <- MCFrom
  TargetRows <- MCTo
  Invalid = {"bad"}
  Edited <- MCEdited
  CopyBatch = 2
  MaxChanges = 2
  MaxBreaks = 1
  Nil = Nil
  Sources <- MCSources
  MaxUnreadable = 1
  Exits = {1, 2, 3}
  ClientIPs = {1, 2}
  Score <- MCScore
  MaxConn <- MCMaxConn
  Weights = {0, 2}
  Conns = {1}
  Configs <- MCThresholds
  Restrictions <- MCRestrictions
  InitMembers <- MCMembers
  InitNodes <- MCNodesAtFirst
  TargetLists <- MCTargetLists
  MaxMoves = 1
  MaxProbes = 3
  Slots = {1, 2}
  Clients <- MCClients
  LimitSpecs <- MCLimits
  IPWindow = 1
  IdleTimeout = 2
  MaxTime = 2
  MaxOpens = 2
  MaxEvents = 1
INVARIANTS IngressStrict  WholeUpdates BackupsWhole CopyExact SourceRead
PROPERTIES  BalanceFair
CHECK_DEADLOCK FALSE
