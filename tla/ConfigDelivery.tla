---------------------------- MODULE ConfigDelivery ----------------------------
(***************************************************************************)
(* How an edit reaches the nodes and how the panel learns that it did:     *)
(* edits commit and then bump the configuration version (app/app.go,       *)
(* app/service_rule.go, app/service_group.go), builders read version,      *)
(* groups and rules in separate queries (agent/push.go), nodes apply what  *)
(* they fetch (nodeclient/client.go) and acknowledge it, and the panel     *)
(* aggregates the acknowledgements of a rule (app/sync_results.go).        *)
(*                                                                         *)
(* One rule and one device group: versions, policy rows and results of     *)
(* different rules are independent.  A rule hash is the rule itself; it    *)
(* covers neither the group nor the synchronisation fields.                *)
(***************************************************************************)
EXTENDS Integers, FiniteSets

CONSTANTS
  Nodes,
  Targets,     \* rule contents, up to the enable flag
  Editors,     \* API requests that edit the configuration, one edit each
  Edits,       \* the kinds of edit they make: subset of EditKinds
  Faults,      \* the kinds of fault that happen: subset of FaultKinds
  MaxFaults,   \* bound on faults
  MaxVersion,  \* bound on configuration versions
  MaxTries,    \* attempts of one build (3 in the code)
  Paced,       \* the 30 s job waits for the nodes' polls (see ResyncPending)
  NoRule, NoPolicy, NoConfig, NoBuild, NoResult

EditKinds  == {"rule", "enable", "disable", "group", "resync"}
FaultKinds == {"request", "apply", "node", "panel", "persist"}

Versions == 1 .. MaxVersion
Rules    == [target : Targets, enable : BOOLEAN]
Sent     == Rules \cup {NoRule}
Configs  == [version : Versions, rule : Sent]
Results  == [version : Versions, ok : BOOLEAN]
Builds   == [pc : {"rules", "save", "saved", "sent"}, version : Versions,
             member : BOOLEAN, rule : Sent, tries : 1 .. MaxTries]

ASSUME ConfigDeliveryAssumption ==
  /\ Edits \subseteq EditKinds /\ Faults \subseteq FaultKinds
  /\ MaxFaults \in Nat /\ MaxVersion \in Nat \ {0} /\ MaxTries \in Nat \ {0}
  /\ Paced \in BOOLEAN
  /\ NoRule \notin Rules /\ NoPolicy \notin Rules
  /\ NoConfig \notin Configs /\ NoBuild \notin Builds /\ NoResult \notin Results

VARIABLES
  \* panel database
  rule,     \* forward_rules: what RuleConfigHash covers
  status,   \* forward_rules.sync_status
  members,  \* device_groups.node_ids
  revision, \* config_revisions.revision
  policy,   \* node_traffic_policies: rule hash by node and version
  row,      \* node_rule_syncs by node
  \* panel memory
  version,  \* App.configVersion
  editor,   \* progress of each API request
  build,    \* ConfigBuilder.build for the request a node waits for
  polled,   \* nodes that polled since the last bump (kept when Paced)
  \* nodes
  phase,    \* progress of Run and heartbeat
  client,   \* c.configVersion
  conf,     \* e.effective
  cache,    \* config.json
  result,   \* c.results, with the version they belong to
  out,      \* the results frozen in c.outbox and its file
  late,     \* reports the client gave up that the panel may still handle
  \* what happened
  stale,    \* an edit committed and no later version was persisted
  faults

ruleVars  == <<rule, status, members>>
dbVars    == <<revision, policy, row>>
panelVars == <<version, editor>>
buildVars == <<build, polled>>
nodeVars  == <<phase, client, conf, cache>>
ackVars   == <<result, out, late>>
histVars  == <<stale, faults>>
vars == <<ruleVars, dbVars, panelVars, buildVars, nodeVars, ackVars, histVars>>

RuleFor(n) == IF n \in members THEN rule ELSE NoRule

Init ==
  /\ rule \in [target : Targets, enable : {TRUE}]
  /\ status = "unsynced" /\ members \in SUBSET Nodes
  /\ revision = 1 /\ version = 1
  /\ policy = [n \in Nodes |-> [v \in Versions |-> NoPolicy]]
  /\ row = [n \in Nodes |-> NoResult]
  /\ editor = [e \in Editors |-> "idle"]
  /\ build = [n \in Nodes |-> NoBuild] /\ polled = {}
  /\ phase = [n \in Nodes |-> "register"]
  /\ client = [n \in Nodes |-> 0]
  /\ conf = [n \in Nodes |-> NoConfig] /\ cache = [n \in Nodes |-> NoConfig]
  /\ result = [n \in Nodes |-> NoResult] /\ out = [n \in Nodes |-> NoResult]
  /\ late = {}
  /\ stale = FALSE /\ faults = 0

Fault(kind) ==
  /\ kind \in Faults /\ faults < MaxFaults
  /\ faults' = faults + 1

-----------------------------------------------------------------------------
(* Panel: an edit commits, then bumps the version. *)

\* BumpConfigVersion holds versionMu while it persists the revision, and only
\* logs a failure to do so.
Bump(persists) ==
  /\ version < MaxVersion
  /\ version' = version + 1
  /\ polled' = {}
  /\ IF persists
       THEN revision' = version + 1 /\ stale' = FALSE /\ UNCHANGED faults
       ELSE Fault("persist") /\ UNCHANGED <<revision, stale>>

\* RuleService.Update: Save, with the status back to unsynced.
UpdateRule ==
  /\ "rule" \in Edits
  /\ \E t \in Targets \ {rule.target} : rule' = [rule EXCEPT !.target = t]
  /\ status' = "unsynced" /\ stale' = TRUE
  /\ UNCHANGED members

\* RuleService.SetEnable
SetEnable(enable) ==
  /\ (IF enable THEN "enable" ELSE "disable") \in Edits
  /\ rule' = [rule EXCEPT !.enable = enable]
  /\ status' = "unsynced" /\ stale' = TRUE
  /\ UNCHANGED members

\* GroupService.Update does not touch the rules that use the group.
UpdateGroup ==
  /\ "group" \in Edits
  /\ \E m \in SUBSET Nodes : m # members /\ members' = m
  /\ stale' = TRUE
  /\ UNCHANGED <<rule, status>>

\* SyncService.Resync: same contents, delivered again.
Resync ==
  /\ "resync" \in Edits
  /\ status' = "unsynced"
  /\ UNCHANGED <<rule, members, stale>>

Commit(e) ==
  /\ editor[e] = "idle"
  /\ \/ /\ UpdateRule \/ UpdateGroup \/ Resync
        /\ editor' = [editor EXCEPT ![e] = "saved"]
     \/ /\ \E enable \in BOOLEAN : SetEnable(enable)
        /\ editor' = [editor EXCEPT ![e] = "enabled"]
  /\ UNCHANGED <<dbVars, version, buildVars, nodeVars, ackVars, faults>>

\* The enable handler marks the rule unsynced and bumps once more.
BumpConfigVersion(e) ==
  /\ editor[e] \in {"saved", "enabled"}
  /\ \E persists \in BOOLEAN : Bump(persists)
  /\ editor' = [editor EXCEPT ![e] = IF @ = "saved" THEN "done" ELSE "bumped"]
  /\ UNCHANGED <<ruleVars, policy, row, build, nodeVars, ackVars>>

TouchSyncUnsynced(e) ==
  /\ editor[e] = "bumped"
  /\ status' = "unsynced"
  /\ editor' = [editor EXCEPT ![e] = "saved"]
  /\ UNCHANGED <<rule, members, dbVars, version, buildVars, nodeVars, ackVars,
                 histVars>>

\* Mutant: rules whose bump was lost are not pushed again.
ResyncPending_FailedOnly ==
  /\ status = "failed" /\ rule.enable
  /\ Paced => polled = Nodes
  /\ \E persists \in BOOLEAN : Bump(persists)
  /\ UNCHANGED <<ruleVars, policy, row, editor, build, nodeVars, ackVars>>

\* The 30 s job.  Under Paced it runs only after every node polled since the
\* last bump: nodes poll every 20 s at most.
ResyncPending ==
  /\ status \in {"unsynced", "failed"} /\ rule.enable
  /\ Paced => polled = Nodes
  /\ \E persists \in BOOLEAN : Bump(persists)
  /\ UNCHANGED <<ruleVars, policy, row, editor, build, nodeVars, ackVars>>

-----------------------------------------------------------------------------
(* Panel: ConfigBuilder.build for a registration or a configuration request,  *)
(* one query at a time.                                                       *)

NewBuild(n, tries) ==
  [pc |-> "rules", version |-> version, member |-> n \in members, rule |-> NoRule,
   tries |-> tries]

\* The version is read before anything else, then the groups.
loadGroups(n) ==
  /\ phase[n] \in {"register", "fetch"} /\ build[n] = NoBuild
  /\ build' = [build EXCEPT ![n] = NewBuild(n, 1)]
  /\ UNCHANGED <<ruleVars, dbVars, panelVars, polled, nodeVars, ackVars, histVars>>

rulesForNode(n) ==
  /\ build[n] # NoBuild /\ build[n].pc = "rules"
  /\ build' = [build EXCEPT ![n].pc = "save",
                            ![n].rule = IF build[n].member THEN rule ELSE NoRule]
  /\ UNCHANGED <<ruleVars, dbVars, panelVars, polled, nodeVars, ackVars, histVars>>

\* Mutant: the version need not be persisted.
PolicyAccepted_Unpersisted(n, v, r) == r # NoRule => policy[n][v] \in {NoPolicy, r}


\* The transaction of saveTrafficPolicies: the version must be persisted, and the
\* row new or the same.
PolicyAccepted(n, v, r) ==
  /\ revision = v
  /\ r # NoRule => policy[n][v] \in {NoPolicy, r}

PolicySaved(n, v, r) ==
  policy' = IF r = NoRule THEN policy ELSE [policy EXCEPT ![n][v] = r]

saveTrafficPolicies(n) ==
  LET b == build[n] IN
  /\ b # NoBuild /\ b.pc = "save" /\ b.version = version
  /\ PolicyAccepted(n, b.version, b.rule)
  /\ PolicySaved(n, b.version, b.rule)
  /\ build' = [build EXCEPT ![n].pc = "saved"]
  /\ UNCHANGED <<ruleVars, revision, row, panelVars, polled, nodeVars, ackVars,
                 histVars>>


\* The version moved while the build ran: the whole build starts again.
retryBuild(n) ==
  LET b == build[n] IN
  /\ b # NoBuild /\ b.pc \in {"save", "saved"} /\ b.version # version
  /\ b.tries < MaxTries
  /\ build' = [build EXCEPT ![n] = NewBuild(n, b.tries + 1)]
  /\ UNCHANGED <<ruleVars, dbVars, panelVars, polled, nodeVars, ackVars, histVars>>

\* The builder returns an error, and the round ends: nothing is reported.
failBuild(n) ==
  LET b == build[n] IN
  /\ b # NoBuild
  /\ \/ b.pc \in {"save", "saved"} /\ b.version # version /\ b.tries = MaxTries
     \/ b.pc = "save" /\ b.version = version /\ ~PolicyAccepted(n, b.version, b.rule)
  /\ build' = [build EXCEPT ![n] = NoBuild]
  /\ phase' = [phase EXCEPT ![n] = IF @ = "register" THEN @ ELSE "heartbeat"]
  /\ polled' = IF Paced THEN polled \cup {n} ELSE polled
  /\ UNCHANGED <<ruleVars, dbVars, panelVars, client, conf, cache, ackVars, histVars>>

\* Mutant: the response is tagged with the version read at the end.
respond_LateVersion(n) ==
  LET b == build[n] IN
  /\ b # NoBuild /\ b.pc = "saved"
  /\ build' = [build EXCEPT ![n].pc = "sent", ![n].version = version]
  /\ UNCHANGED <<ruleVars, dbVars, panelVars, polled, nodeVars, ackVars, histVars>>

respond(n) ==
  LET b == build[n] IN
  /\ b # NoBuild /\ b.pc = "saved" /\ b.version = version
  /\ build' = [build EXCEPT ![n].pc = "sent"]
  /\ UNCHANGED <<ruleVars, dbVars, panelVars, polled, nodeVars, ackVars, histVars>>

\* Mutant: versions alone decide, and nothing is refreshed.
heartbeat_VersionOnly(n, refresh) ==
  /\ phase[n] = "heartbeat"
  /\ phase' = [phase EXCEPT ![n] = IF client[n] # version THEN "fetch" ELSE "report"]
  /\ UNCHANGED <<ruleVars, dbVars, panelVars, buildVars, client, conf, cache, ackVars, histVars>>

\* HeartbeatHandler and the client's reaction.  The drift check builds the node's
\* configuration too, policy rows included, and reports no drift when it cannot;
\* its build has no other effect, so it is one step.  ConfigHash leaves the version
\* out.  The client fetches when told to, when the versions differ, and every two
\* minutes in any case (refresh).
heartbeat(n, refresh) ==
  LET built      == PolicyAccepted(n, version, RuleFor(n))
      drifted    == built /\ (conf[n] = NoConfig \/ conf[n].rule # RuleFor(n))
      needConfig == client[n] # version \/ drifted
  IN  /\ phase[n] = "heartbeat"
      /\ IF built THEN PolicySaved(n, version, RuleFor(n)) ELSE UNCHANGED policy
      /\ phase' = [phase EXCEPT ![n] = IF refresh \/ needConfig THEN "fetch" ELSE "report"]
      /\ UNCHANGED <<ruleVars, revision, row, panelVars, buildVars, client, conf, cache,
                     ackVars, histVars>>

\* The request times out or its answer is lost: the round ends early.
requestFails(n) ==
  /\ build[n] # NoBuild
  /\ Fault("request")
  /\ build' = [build EXCEPT ![n] = NoBuild]
  /\ phase' = [phase EXCEPT ![n] = IF @ = "register" THEN @ ELSE "heartbeat"]
  /\ UNCHANGED <<ruleVars, dbVars, panelVars, polled, client, conf, cache, ackVars, stale>>

-----------------------------------------------------------------------------
(* Node *)

\* Mutant: what was received is acknowledged, applied or not.
Outcome_Received(r, v, ok) == IF r = NoRule THEN NoResult ELSE [version |-> v, ok |-> TRUE]

Outcome(r, v, ok) == IF r = NoRule THEN NoResult ELSE [version |-> v, ok |-> ok]

\* Client.apply with an engine that accepts the configuration.
apply(n) ==
  LET b == build[n]
      c == [version |-> b.version, rule |-> b.rule] IN
  /\ b # NoBuild /\ b.pc = "sent"
  /\ conf' = [conf EXCEPT ![n] = c] /\ cache' = [cache EXCEPT ![n] = c]
  /\ client' = [client EXCEPT ![n] = b.version]
  /\ result' = [result EXCEPT ![n] = Outcome(b.rule, b.version, TRUE)]
  /\ phase' = [phase EXCEPT ![n] = IF @ = "register" THEN "heartbeat" ELSE "report"]
  /\ build' = [build EXCEPT ![n] = NoBuild]
  /\ UNCHANGED <<ruleVars, dbVars, panelVars, polled, out, late, stale, faults>>

\* The engine rejects it and keeps what it had, but the client is at the new
\* version: only the failed results and the drift check tell.
applyFails(n) ==
  LET b == build[n] IN
  /\ b # NoBuild /\ b.pc = "sent"
  /\ Fault("apply")
  /\ cache' = [cache EXCEPT ![n] = conf[n]]
  /\ client' = [client EXCEPT ![n] = b.version]
  /\ result' = [result EXCEPT ![n] = Outcome(b.rule, b.version, FALSE)]
  /\ phase' = [phase EXCEPT ![n] = IF @ = "register" THEN "heartbeat" ELSE "report"]
  /\ build' = [build EXCEPT ![n] = NoBuild]
  /\ UNCHANGED <<ruleVars, dbVars, panelVars, polled, conf, out, late, stale>>

\* RecordNodeResult: the acknowledgement of a version that is current and
\* persisted, for a rule that still is what that version delivered.
Accepts(n, m) ==
  /\ m.version = version /\ m.version = revision
  /\ policy[n][m.version] = rule
  /\ n \in members

Aggregate(rows) ==
  LET at == {p \in members : rows[p] # NoResult /\ rows[p].version = version} IN
  IF \E p \in at : ~rows[p].ok THEN "failed"
  ELSE IF at = members THEN "normal" ELSE "syncing"

RecordNodeResult(n, m) ==
  IF Accepts(n, m)
    THEN /\ row' = [row EXCEPT ![n] = m]
         /\ status' = Aggregate(row')
    ELSE UNCHANGED <<row, status>>

\* Client.report: results are frozen into the outbox and sent until acknowledged.
Message(n) == IF out[n] # NoResult THEN out[n] ELSE result[n]

report(n) ==
  /\ phase[n] = "report" /\ Message(n) # NoResult
  /\ RecordNodeResult(n, Message(n))
  /\ out' = [out EXCEPT ![n] = NoResult]
  /\ result' = IF out[n] = NoResult THEN [result EXCEPT ![n] = NoResult] ELSE result
  /\ UNCHANGED <<rule, members, revision, policy, panelVars, buildVars, nodeVars, late,
                 histVars>>

\* No answer in time: the batch stays, and the panel may still handle it.
reportFails(n) ==
  /\ phase[n] = "report" /\ Message(n) # NoResult
  /\ Fault("request")
  /\ out' = [out EXCEPT ![n] = Message(n)]
  /\ result' = IF out[n] = NoResult THEN [result EXCEPT ![n] = NoResult] ELSE result
  /\ late' = late \cup {<<n, Message(n)>>}
  /\ phase' = [phase EXCEPT ![n] = "heartbeat"]
  /\ UNCHANGED <<ruleVars, dbVars, panelVars, buildVars, client, conf, cache, stale>>

handleLateReport ==
  /\ \E m \in late : RecordNodeResult(m[1], m[2]) /\ late' = late \ {m}
  /\ UNCHANGED <<rule, members, revision, policy, panelVars, buildVars, nodeVars, result,
                 out, histVars>>

EndRound(n) ==
  /\ phase[n] = "report" /\ Message(n) = NoResult
  /\ phase' = [phase EXCEPT ![n] = "heartbeat"]
  /\ polled' = IF Paced /\ client[n] = version THEN polled \cup {n} ELSE polled
  /\ UNCHANGED <<ruleVars, dbVars, panelVars, build, client, conf, cache, ackVars, histVars>>

Crash(n) ==
  /\ phase[n] # "down"
  /\ Fault("node")
  /\ phase' = [phase EXCEPT ![n] = "down"]
  /\ client' = [client EXCEPT ![n] = 0]
  /\ conf' = [conf EXCEPT ![n] = NoConfig]
  /\ result' = [result EXCEPT ![n] = NoResult]
  /\ build' = [build EXCEPT ![n] = NoBuild]
  /\ UNCHANGED <<ruleVars, dbVars, panelVars, polled, cache, out, late, stale>>

\* NewClient and restore: the cached configuration runs, under its own version.
Restart(n) ==
  /\ phase[n] = "down"
  /\ phase' = [phase EXCEPT ![n] = "register"]
  /\ conf' = [conf EXCEPT ![n] = cache[n]]
  /\ IF cache[n] = NoConfig
       THEN UNCHANGED <<client, result>>
       ELSE /\ client' = [client EXCEPT ![n] = cache[n].version]
            /\ result' = [result EXCEPT ![n] = Outcome(cache[n].rule, cache[n].version, TRUE)]
  /\ UNCHANGED <<ruleVars, dbVars, panelVars, buildVars, cache, out, late, histVars>>

\* The panel restarts at the persisted revision: requests in progress are gone,
\* and with them the bumps that were still to come.
PanelRestart ==
  /\ Fault("panel")
  /\ version' = revision
  /\ editor' = [e \in Editors |-> IF editor[e] = "idle" THEN "idle" ELSE "done"]
  /\ build' = [n \in Nodes |->
                 IF build[n] # NoBuild /\ build[n].pc # "sent" THEN NoBuild ELSE build[n]]
  /\ phase' = [n \in Nodes |->
                 IF build'[n] = build[n] \/ phase[n] = "register" THEN phase[n] ELSE "heartbeat"]
  /\ polled' = {}
  /\ UNCHANGED <<ruleVars, dbVars, client, conf, cache, ackVars, stale>>

-----------------------------------------------------------------------------

PanelStep ==
  \/ \E e \in Editors : Commit(e) \/ BumpConfigVersion(e) \/ TouchSyncUnsynced(e)
  \/ ResyncPending \/ PanelRestart \/ handleLateReport

BuildStep(n) ==
  \/ loadGroups(n) \/ rulesForNode(n) \/ saveTrafficPolicies(n)
  \/ retryBuild(n) \/ failBuild(n) \/ respond(n)

NodeStep(n) ==
  \/ \E refresh \in BOOLEAN : heartbeat(n, refresh)
  \/ requestFails(n) \/ apply(n) \/ applyFails(n) \/ report(n) \/ reportFails(n)
  \/ EndRound(n) \/ Crash(n) \/ Restart(n)

Next == PanelStep \/ \E n \in Nodes : BuildStep(n) \/ NodeStep(n)

Spec == Init /\ [][Next]_vars

\* Handlers, the client's loop and the job go on; every second minute a node
\* fetches whatever the heartbeat said.
Fairness ==
  /\ \A e \in Editors : WF_vars(BumpConfigVersion(e)) /\ WF_vars(TouchSyncUnsynced(e))
  /\ SF_vars(ResyncPending)
  /\ \A n \in Nodes :
       /\ WF_vars(BuildStep(n))
       /\ WF_vars(heartbeat(n, FALSE)) /\ SF_vars(heartbeat(n, TRUE))
       /\ WF_vars(apply(n)) /\ WF_vars(report(n)) /\ WF_vars(EndRound(n))
       /\ WF_vars(Restart(n))

FairSpec == Spec /\ Fairness

-----------------------------------------------------------------------------

\* The versions, builds, clients and messages have their types.
TypeOK ==
  /\ rule \in Rules /\ status \in {"unsynced", "syncing", "normal", "failed"}
  /\ members \in SUBSET Nodes
  /\ revision \in Versions /\ version \in Versions
  /\ policy \in [Nodes -> [Versions -> Rules \cup {NoPolicy}]]
  /\ row \in [Nodes -> Results \cup {NoResult}]
  /\ editor \in [Editors -> {"idle", "saved", "enabled", "bumped", "done"}]
  /\ build \in [Nodes -> Builds \cup {NoBuild}] /\ polled \in SUBSET Nodes
  /\ phase \in [Nodes -> {"down", "register", "heartbeat", "fetch", "report"}]
  /\ client \in [Nodes -> 0 .. MaxVersion]
  /\ conf \in [Nodes -> Configs \cup {NoConfig}]
  /\ cache \in [Nodes -> Configs \cup {NoConfig}]
  /\ result \in [Nodes -> Results \cup {NoResult}]
  /\ out \in [Nodes -> Results \cup {NoResult}]
  /\ late \in SUBSET (Nodes \X Results)
  /\ stale \in BOOLEAN
  /\ faults \in 0 .. MaxFaults

\* A configuration that carries the panel's version carries the panel's rule and
\* group, unless an edit since has not bumped yet or lost its bump (push.go:65).
Fresh ==
  \A n \in Nodes : conf[n] # NoConfig /\ conf[n].version = version /\ ~stale =>
                     conf[n].rule = RuleFor(n)

\* Whatever a node was ever sent is what the policy row of that version says: the
\* row is the billing ownership of its traffic (config_snapshot.go:15).
PolicyCoversDelivered ==
  \A n \in Nodes : \A c \in {conf[n], cache[n]} \ {NoConfig} :
    c.rule # NoRule => policy[n][c.version] = c.rule

\* What the node last accepted is the current rule at the current version.
Runs(p) == cache[p] # NoConfig /\ cache[p].version = version /\ cache[p].rule = rule

\* The status turns normal only when every member applied the current rule at the
\* current version, provided every committed edit was published
\* (RecordNodeResultAccepted, sync_results.go:26).
NormalWhenPublished ==
  [][status # "normal" /\ status' = "normal" /\ ~stale =>
       \A p \in members : Runs(p)]_vars

\* The version a node reports is never ahead of what was persisted for a
\* configuration it received: versions are not reused for other contents after a
\* panel restart (saveTrafficPolicies refuses an unpersisted version).
VersionsNotReused ==
  \A n \in Nodes : client[n] <= revision

\* A version means one configuration for ever: to the node, in the policy row
\* that says who pays for it, and after a restart of the panel.
VersionsKept == PolicyCoversDelivered /\ VersionsNotReused

\* Every node ends up running the current rule: bumps, polls, the drift check and
\* the two-minute refresh make up for lost requests, crashes and rejected
\* configurations (client.go:174, drift.go:11).
Delivered == \A n \in Nodes : conf[n] # NoConfig /\ conf[n].rule = RuleFor(n)
Converges == <>[]Delivered

\* And the panel ends up knowing: the status of a rule with nodes settles at normal.
Acknowledged == <>[](status = "normal" \/ members = {})

\* app.go:151: a failed push "does not affect consistency, the node falls back to
\* polling" -- a disabled rule stops on every node in the end.
DisabledStops ==
  <>[](rule.enable \/ \A n \in Nodes : conf[n] = NoConfig \/ conf[n].rule = NoRule
                                        \/ ~conf[n].rule.enable)

=============================================================================
