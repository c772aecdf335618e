----------------------------- MODULE Settings -----------------------------
(***************************************************************************)
(* The panel's settings (app/service_setting.go): a table, and a copy of   *)
(* it in memory that every request reads and every update loads again.     *)
(***************************************************************************)
EXTENDS Naturals
CONSTANTS
  DefaultSettings, \* settings of a fresh panel: key -> value
  Updates,         \* what an update may set: some keys -> values
  Updaters,        \* requests that update settings at a time
  MaxUpdates,      \* bound: updates committed
  MaxStops         \* bound: restarts of the panel
ASSUME SettingBounds == MaxUpdates \in Nat /\ MaxStops \in Nat
IsMap(f) == f = [k \in DOMAIN f |-> f[k]]
ASSUME SettingsAreMaps == IsMap(DefaultSettings) /\ \A values \in Updates : IsMap(values)

VARIABLES
  settings,   \* the table: key -> value
  cache,      \* the copy: key -> value
  loaded,     \* whether the panel has started and serves requests
  updater,    \* request -> where it is, and the rows it has read
  last,       \* history: the table as the last whole update made it
  versions,   \* history: every table that whole updates have made
  updates, stops
settingVars == <<settings, cache, loaded, updater, last, versions, updates, stops>>

Empty == [k \in {} |-> 0]
\* The values of f, and those of g where f has none.
Over(f, g) == [k \in DOMAIN f \cup DOMAIN g |-> IF k \in DOMAIN f THEN f[k] ELSE g[k]]
AtRest == [at |-> "rest", rows |-> Empty]
InitSettings ==
  /\ settings = Empty /\ cache = Empty /\ loaded = FALSE
  /\ updater = [u \in Updaters |-> AtRest]
  /\ last = DefaultSettings /\ versions = {last} /\ updates = 0 /\ stops = 0

EnsureInitialized_Resets == Over(DefaultSettings, settings)
\* Defaults are inserted where there is no value yet.
EnsureInitialized == Over(settings, DefaultSettings)
\* main: the defaults, and the first Load, before anything is served.
Start ==
  /\ ~loaded /\ loaded' = TRUE
  /\ settings' = EnsureInitialized /\ cache' = settings'
  /\ UNCHANGED <<updater, last, versions, updates, stops>>
Stop ==
  /\ loaded /\ stops < MaxStops /\ stops' = stops + 1 /\ loaded' = FALSE
  /\ cache' = Empty /\ updater' = [u \in Updaters |-> AtRest]
  /\ UNCHANGED <<settings, last, versions, updates>>
\* One transaction: an update that fails half-way leaves nothing.
Written(values) == settings' = Over(values, settings)
Update(u, values) ==
  /\ loaded /\ updater[u] = AtRest /\ updates < MaxUpdates /\ updates' = updates + 1
  /\ Written(values) /\ last' = Over(values, settings) /\ versions' = versions \cup {last'}
  /\ updater' = [updater EXCEPT ![u].at = "load"]
  /\ UNCHANGED <<cache, loaded, stops>>
\* Load reads the table without the lock of the copy.
Load(u) ==
  /\ updater[u].at = "load"
  /\ updater' = [updater EXCEPT ![u] = [at |-> "store", rows |-> settings]]
  /\ UNCHANGED <<settings, cache, loaded, last, versions, updates, stops>>
\* The request is cancelled, or the query fails: the update is an error though
\* it is committed.
LoadFails(u) ==
  /\ updater[u].at = "load" /\ updater' = [updater EXCEPT ![u] = AtRest]
  /\ UNCHANGED <<settings, cache, loaded, last, versions, updates, stops>>
Store(u) ==
  /\ updater[u].at = "store" /\ cache' = updater[u].rows
  /\ updater' = [updater EXCEPT ![u] = AtRest]
  /\ UNCHANGED <<settings, loaded, last, versions, updates, stops>>
NextSettings ==
  \/ Start \/ Stop
  \/ \E u \in Updaters : Load(u) \/ LoadFails(u) \/ Store(u)
       \/ \E values \in Updates : Update(u, values)
SettingsSpec == InitSettings /\ [][NextSettings]_settingVars
---------------------------------------------------------------------------
\* What is stored is the work of whole updates, and what is served was: no
\* request sees one key of an update and not the other, whichever requests
\* cross, and no restart puts a default back over a value somebody set.
WholeUpdates == loaded => settings = last /\ cache \in versions
=============================================================================
