------------------------ MODULE ConfigDeliveryProofs ------------------------
(***************************************************************************)
(* Proofs about ConfigDelivery, for any nodes, editors, edits and faults.  *)
(*                                                                         *)
(* The inductive invariant says: nothing carries a version that was not    *)
(* persisted (Persisted); what carries the persisted version or a later    *)
(* one was read after the bump that published it (Current); what left a    *)
(* builder is covered by its policy row (Covered); a running node runs     *)
(* what it cached (InStep); and a successful acknowledgement is no newer   *)
(* than what its node cached (Backed).                                     *)
(***************************************************************************)
EXTENDS ConfigDelivery, TLAPS

TypeInv == TypeOK

Persisted ==
  /\ revision <= version
  /\ \A n \in Nodes :
       /\ client[n] <= revision
       /\ build[n] # NoBuild => build[n].version <= version
       /\ build[n] # NoBuild /\ build[n].pc \in {"saved", "sent"} => build[n].version <= revision
       /\ conf[n] # NoConfig => conf[n].version <= revision
       /\ cache[n] # NoConfig => cache[n].version <= revision

Current ==
  ~stale => \A n \in Nodes :
    /\ build[n] # NoBuild /\ build[n].version >= revision =>
         (IF build[n].pc = "rules" THEN build[n].member = (n \in members)
                                   ELSE build[n].rule = RuleFor(n))
    /\ conf[n] # NoConfig /\ conf[n].version >= revision => conf[n].rule = RuleFor(n)
    /\ cache[n] # NoConfig /\ cache[n].version >= revision => cache[n].rule = RuleFor(n)

Covered ==
  \A n \in Nodes :
    /\ conf[n] # NoConfig /\ conf[n].rule # NoRule => policy[n][conf[n].version] = conf[n].rule
    /\ cache[n] # NoConfig /\ cache[n].rule # NoRule => policy[n][cache[n].version] = cache[n].rule
    /\ build[n] # NoBuild /\ build[n].pc \in {"saved", "sent"} /\ build[n].rule # NoRule =>
         policy[n][build[n].version] = build[n].rule

InStep ==
  \A n \in Nodes :
    /\ phase[n] # "down" => conf[n] = cache[n]
    /\ build[n] # NoBuild => /\ phase[n] # "down"
                            /\ (cache[n] # NoConfig => cache[n].version <= build[n].version)

BackedBy(n, m) == m.ok => cache[n] # NoConfig /\ m.version <= cache[n].version

Backed ==
  \A n \in Nodes :
    /\ result[n] # NoResult => BackedBy(n, result[n])
    /\ out[n] # NoResult => BackedBy(n, out[n])
    /\ row[n] # NoResult => BackedBy(n, row[n])
    /\ \A m \in Results : <<n, m>> \in late => BackedBy(n, m)

IInv == TypeInv /\ Persisted /\ Current /\ Covered /\ InStep /\ Backed

USE ConfigDeliveryAssumption
USE DEF vars, ruleVars, dbVars, panelVars, buildVars, nodeVars, ackVars, histVars

LEMMA InitIInv == Init => IInv
<1> SUFFICES ASSUME Init PROVE IInv
  OBVIOUS
<1>1. rule \in Rules
  BY DEF Init, Rules
<1>2. 1 \in Versions
  BY DEF Versions
<1>3. TypeInv
  <2>1. 0 \in 0 .. MaxVersion /\ 0 \in 0 .. MaxFaults
    OBVIOUS
  <2> QED
    BY <1>1, <1>2, <2>1 DEF Init, TypeInv, TypeOK
<1>4. Persisted /\ Current /\ Covered /\ InStep
  BY DEF Init, Persisted, Current, Covered, InStep
<1>5. Backed
  BY DEF Init, Backed
<1> QED
  BY <1>3, <1>4, <1>5 DEF IInv

LEMMA TypeStep == TypeInv /\ [Next]_vars => TypeInv'
<1> SUFFICES ASSUME TypeInv, [Next]_vars PROVE TypeInv'
  OBVIOUS
<1>1. CASE UNCHANGED vars
  BY <1>1 DEF TypeInv, TypeOK, Versions, Rules, Sent, Configs, Results, Builds
<1>2. ASSUME NEW e \in Editors, Commit(e) PROVE TypeInv'
  BY <1>2 DEF Commit, UpdateRule, SetEnable, UpdateGroup, Resync, TypeInv, TypeOK, Versions,
     Rules, Sent, Configs, Results, Builds
<1>3. ASSUME NEW e \in Editors, BumpConfigVersion(e) PROVE TypeInv'
  <2>1. PICK persists \in BOOLEAN : Bump(persists)
    BY <1>3 DEF BumpConfigVersion
  <2>2. version' \in Versions /\ polled' = {}
    BY <2>1 DEF Bump, TypeInv, TypeOK, Versions
  <2>3. revision' \in Versions /\ stale' \in BOOLEAN
    BY <2>1, <2>2 DEF Bump, TypeInv, TypeOK
  <2>4. faults' \in 0 .. MaxFaults
    BY <2>1 DEF Bump, Fault, TypeInv, TypeOK
  <2>5. editor' \in [Editors -> {"idle", "saved", "enabled", "bumped", "done"}]
    BY <1>3 DEF BumpConfigVersion, TypeInv, TypeOK
  <2> QED
    BY <1>3, <2>2, <2>3, <2>4, <2>5 DEF BumpConfigVersion, TypeInv, TypeOK
<1>4. ASSUME NEW e \in Editors, TouchSyncUnsynced(e) PROVE TypeInv'
  BY <1>4 DEF TouchSyncUnsynced, TypeInv, TypeOK, Versions, Rules, Sent, Configs, Results, Builds
<1>5. ASSUME ResyncPending PROVE TypeInv'
  <2>1. PICK persists \in BOOLEAN : Bump(persists)
    BY <1>5 DEF ResyncPending
  <2>2. version' \in Versions /\ polled' = {}
    BY <2>1 DEF Bump, TypeInv, TypeOK, Versions
  <2>3. revision' \in Versions /\ stale' \in BOOLEAN
    BY <2>1, <2>2 DEF Bump, TypeInv, TypeOK
  <2>4. faults' \in 0 .. MaxFaults
    BY <2>1 DEF Bump, Fault, TypeInv, TypeOK
  <2>5. editor' \in [Editors -> {"idle", "saved", "enabled", "bumped", "done"}]
    BY <1>5 DEF ResyncPending, TypeInv, TypeOK
  <2> QED
    BY <1>5, <2>2, <2>3, <2>4, <2>5 DEF ResyncPending, TypeInv, TypeOK
<1>6. ASSUME PanelRestart PROVE TypeInv'
  BY <1>6 DEF PanelRestart, Fault, TypeInv, TypeOK, Versions, Rules, Sent, Configs, Results, Builds
<1>7. ASSUME handleLateReport PROVE TypeInv'
  BY <1>7 DEF handleLateReport, RecordNodeResult, Accepts, Aggregate, TypeInv, TypeOK, Versions,
     Rules, Sent, Configs, Results, Builds
<1>8. ASSUME NEW n \in Nodes, loadGroups(n) PROVE TypeInv'
  BY <1>8 DEF loadGroups, NewBuild, TypeInv, TypeOK, Versions, Rules, Sent, Configs, Results, Builds
<1>9. ASSUME NEW n \in Nodes, rulesForNode(n) PROVE TypeInv'
  <2>1. build[n] \in Builds
    BY <1>9 DEF rulesForNode, TypeInv, TypeOK
  <2>2. [build[n] EXCEPT !.pc = "save", !.rule = IF build[n].member THEN rule ELSE NoRule] \in Builds
    BY <1>9, <2>1 DEF rulesForNode, TypeInv, TypeOK, Versions, Rules, Sent, Configs, Results, Builds
  <2>3. build' \in [Nodes -> Builds \cup {NoBuild}]
    BY <1>9, <2>1, <2>2 DEF rulesForNode, TypeInv, TypeOK
  <2> QED
    BY <1>9, <2>3 DEF rulesForNode, TypeInv, TypeOK, Versions, Rules, Sent, Configs, Results, Builds
<1>10. ASSUME NEW n \in Nodes, saveTrafficPolicies(n) PROVE TypeInv'
  <2>1. build[n] \in Builds
    BY <1>10 DEF saveTrafficPolicies, TypeInv, TypeOK
  <2>2. [build[n] EXCEPT !.pc = "saved"] \in Builds
    BY <1>10, <2>1 DEF TypeInv, TypeOK, Versions, Rules, Sent, Configs, Results, Builds
  <2>3. build' \in [Nodes -> Builds \cup {NoBuild}]
    BY <1>10, <2>1, <2>2 DEF saveTrafficPolicies, TypeInv, TypeOK
  <2>4. build[n].version \in Versions /\ build[n].rule \in Rules \cup {NoRule}
    BY <2>1 DEF Builds, Sent
  <2>5. policy' \in [Nodes -> [Versions -> Rules \cup {NoPolicy}]]
    BY <1>10, <2>4 DEF saveTrafficPolicies, PolicySaved, TypeInv, TypeOK
  <2> QED
    BY <1>10, <2>3, <2>5 DEF saveTrafficPolicies, TypeInv, TypeOK
<1>11. ASSUME NEW n \in Nodes, retryBuild(n) PROVE TypeInv'
  BY SMTT(30), <1>11 DEF retryBuild, NewBuild, TypeInv, TypeOK, Versions, Rules, Sent, Configs, Results,
     Builds
<1>12. ASSUME NEW n \in Nodes, failBuild(n) PROVE TypeInv'
  BY <1>12 DEF failBuild, PolicyAccepted, TypeInv, TypeOK, Versions, Rules, Sent, Configs,
     Results, Builds
<1>13. ASSUME NEW n \in Nodes, respond(n) PROVE TypeInv'
  <2>1. build[n] \in Builds
    BY <1>13 DEF respond, TypeInv, TypeOK
  <2>2. [build[n] EXCEPT !.pc = "sent"] \in Builds
    BY <1>13, <2>1 DEF respond, TypeInv, TypeOK, Versions, Rules, Sent, Configs, Results, Builds
  <2>3. build' \in [Nodes -> Builds \cup {NoBuild}]
    BY <1>13, <2>1, <2>2 DEF respond, TypeInv, TypeOK
  <2> QED
    BY <1>13, <2>3 DEF respond, TypeInv, TypeOK, Versions, Rules, Sent, Configs, Results, Builds
<1>14. ASSUME NEW n \in Nodes, NEW refresh \in BOOLEAN, heartbeat(n, refresh) PROVE TypeInv'
  <2>1. RuleFor(n) \in Rules \cup {NoRule}
    BY DEF RuleFor, TypeInv, TypeOK
  <2>2. version \in Versions
    BY DEF TypeInv, TypeOK
  <2>4. policy' \in [Nodes -> [Versions -> Rules \cup {NoPolicy}]]
    <3>1. CASE policy' = policy
      BY <3>1 DEF TypeInv, TypeOK
    <3>2. CASE RuleFor(n) \in Rules /\ policy' = [policy EXCEPT ![n][version] = RuleFor(n)]
      BY <3>2, <2>2 DEF TypeInv, TypeOK
    <3> QED
      BY <1>14, <2>1, <3>1, <3>2 DEF heartbeat, PolicySaved
  <2>3. phase' \in [Nodes -> {"down", "register", "heartbeat", "fetch", "report"}]
    BY <1>14 DEF heartbeat, TypeInv, TypeOK
  <2> QED
    BY <1>14, <2>3, <2>4 DEF heartbeat, TypeInv, TypeOK
<1>15. ASSUME NEW n \in Nodes, requestFails(n) PROVE TypeInv'
  BY <1>15 DEF requestFails, Fault, TypeInv, TypeOK, Versions, Rules, Sent, Configs, Results, Builds
<1>16. ASSUME NEW n \in Nodes, apply(n) PROVE TypeInv'
  BY <1>16 DEF apply, Outcome, TypeInv, TypeOK, Versions, Rules, Sent, Configs, Results, Builds
<1>17. ASSUME NEW n \in Nodes, applyFails(n) PROVE TypeInv'
  BY SMTT(30), <1>17 DEF applyFails, Outcome, Fault, TypeInv, TypeOK, Versions, Rules, Sent, Configs,
     Results, Builds
<1>18. ASSUME NEW n \in Nodes, report(n) PROVE TypeInv'
  BY ZenonT(30), <1>18 DEF report, RecordNodeResult, Accepts, Aggregate, Message, TypeInv, TypeOK, Versions,
     Rules, Sent, Configs, Results, Builds
<1>19. ASSUME NEW n \in Nodes, reportFails(n) PROVE TypeInv'
  BY <1>19 DEF reportFails, Message, Fault, TypeInv, TypeOK, Versions, Rules, Sent, Configs,
     Results, Builds
<1>20. ASSUME NEW n \in Nodes, EndRound(n) PROVE TypeInv'
  BY <1>20 DEF EndRound, Message, TypeInv, TypeOK, Versions, Rules, Sent, Configs, Results, Builds
<1>21. ASSUME NEW n \in Nodes, Crash(n) PROVE TypeInv'
  BY <1>21 DEF Crash, Fault, TypeInv, TypeOK, Versions, Rules, Sent, Configs, Results, Builds
<1>22. ASSUME NEW n \in Nodes, Restart(n) PROVE TypeInv'
  <2>1. ASSUME cache[n] # NoConfig PROVE cache[n] \in Configs
    BY <2>1 DEF TypeInv, TypeOK
  <2>2. conf' \in [Nodes -> Configs \cup {NoConfig}]
    BY <1>22 DEF Restart, TypeInv, TypeOK
  <2>5. cache[n] # NoConfig => /\ cache[n].version \in Versions /\ cache[n].version \in 0 .. MaxVersion
                              /\ [version |-> cache[n].version, ok |-> TRUE] \in Results
    BY <2>1 DEF Configs, Results, Versions
  <2>3. client' \in [Nodes -> 0 .. MaxVersion]
    BY <1>22, <2>5 DEF Restart, TypeInv, TypeOK
  <2>4. result' \in [Nodes -> Results \cup {NoResult}]
    BY <1>22, <2>5 DEF Restart, Outcome, TypeInv, TypeOK
  <2> QED
    BY <1>22, <2>2, <2>3, <2>4 DEF Restart, TypeInv, TypeOK
<1> QED
  BY <1>1, <1>2, <1>3, <1>4, <1>5, <1>6, <1>7, <1>8, <1>9, <1>10, <1>11, <1>12, <1>13, <1>14,
     <1>15, <1>16, <1>17, <1>18, <1>19, <1>20, <1>21, <1>22 DEF Next, PanelStep, BuildStep, NodeStep

LEMMA PersistedStep == TypeInv /\ Persisted /\ [Next]_vars => Persisted'
<1> SUFFICES ASSUME TypeInv /\ Persisted, [Next]_vars PROVE Persisted'
  OBVIOUS
<1>1. CASE UNCHANGED vars
  BY <1>1 DEF TypeInv, TypeOK, Versions, Rules, Sent, Configs, Results, Builds, Persisted
<1>2. ASSUME NEW e \in Editors, Commit(e) PROVE Persisted'
  BY <1>2 DEF Commit, UpdateRule, SetEnable, UpdateGroup, Resync, TypeInv, TypeOK, Versions,
     Rules, Sent, Configs, Results, Builds, Persisted
<1>3. ASSUME NEW e \in Editors, BumpConfigVersion(e) PROVE Persisted'
  BY <1>3 DEF BumpConfigVersion, Bump, Fault, TypeInv, TypeOK, Versions, Rules, Sent, Configs,
     Results, Builds, Persisted
<1>4. ASSUME NEW e \in Editors, TouchSyncUnsynced(e) PROVE Persisted'
  BY <1>4 DEF TouchSyncUnsynced, TypeInv, TypeOK, Versions, Rules, Sent, Configs, Results,
     Builds, Persisted
<1>5. ASSUME ResyncPending PROVE Persisted'
  BY <1>5 DEF ResyncPending, Bump, Fault, TypeInv, TypeOK, Versions, Rules, Sent, Configs,
     Results, Builds, Persisted
<1>6. ASSUME PanelRestart PROVE Persisted'
  BY <1>6 DEF PanelRestart, Fault, TypeInv, TypeOK, Versions, Rules, Sent, Configs, Results,
     Builds, Persisted
<1>7. ASSUME handleLateReport PROVE Persisted'
  BY <1>7 DEF handleLateReport, RecordNodeResult, Accepts, Aggregate, TypeInv, TypeOK, Versions,
     Rules, Sent, Configs, Results, Builds, Persisted
<1>8. ASSUME NEW n \in Nodes, loadGroups(n) PROVE Persisted'
  BY <1>8 DEF loadGroups, NewBuild, TypeInv, TypeOK, Versions, Rules, Sent, Configs, Results,
     Builds, Persisted
<1>9. ASSUME NEW n \in Nodes, rulesForNode(n) PROVE Persisted'
  BY <1>9 DEF rulesForNode, TypeInv, TypeOK, Versions, Rules, Sent, Configs, Results, Builds,
     Persisted
<1>10. ASSUME NEW n \in Nodes, saveTrafficPolicies(n) PROVE Persisted'
  BY <1>10 DEF saveTrafficPolicies, PolicyAccepted, PolicySaved, TypeInv, TypeOK, Versions,
     Rules, Sent, Configs, Results, Builds, Persisted
<1>11. ASSUME NEW n \in Nodes, retryBuild(n) PROVE Persisted'
  BY <1>11 DEF retryBuild, NewBuild, TypeInv, TypeOK, Versions, Rules, Sent, Configs, Results,
     Builds, Persisted
<1>12. ASSUME NEW n \in Nodes, failBuild(n) PROVE Persisted'
  BY <1>12 DEF failBuild, PolicyAccepted, TypeInv, TypeOK, Versions, Rules, Sent, Configs,
     Results, Builds, Persisted
<1>13. ASSUME NEW n \in Nodes, respond(n) PROVE Persisted'
  BY <1>13 DEF respond, TypeInv, TypeOK, Versions, Rules, Sent, Configs, Results, Builds, Persisted
<1>14. ASSUME NEW n \in Nodes, NEW refresh \in BOOLEAN, heartbeat(n, refresh) PROVE Persisted'
  BY <1>14 DEF heartbeat, PolicyAccepted, PolicySaved, TypeInv, TypeOK, Versions, Rules, Sent,
     Configs, Results, Builds, Persisted
<1>15. ASSUME NEW n \in Nodes, requestFails(n) PROVE Persisted'
  BY <1>15 DEF requestFails, Fault, TypeInv, TypeOK, Versions, Rules, Sent, Configs, Results,
     Builds, Persisted
<1>16. ASSUME NEW n \in Nodes, apply(n) PROVE Persisted'
  BY <1>16 DEF apply, Outcome, TypeInv, TypeOK, Versions, Rules, Sent, Configs, Results, Builds,
     Persisted
<1>17. ASSUME NEW n \in Nodes, applyFails(n) PROVE Persisted'
  BY <1>17 DEF applyFails, Outcome, Fault, TypeInv, TypeOK, Versions, Rules, Sent, Configs,
     Results, Builds, Persisted
<1>18. ASSUME NEW n \in Nodes, report(n) PROVE Persisted'
  BY <1>18 DEF report, RecordNodeResult, Accepts, Aggregate, Message, TypeInv, TypeOK, Versions,
     Rules, Sent, Configs, Results, Builds, Persisted
<1>19. ASSUME NEW n \in Nodes, reportFails(n) PROVE Persisted'
  BY <1>19 DEF reportFails, Message, Fault, TypeInv, TypeOK, Versions, Rules, Sent, Configs,
     Results, Builds, Persisted
<1>20. ASSUME NEW n \in Nodes, EndRound(n) PROVE Persisted'
  BY <1>20 DEF EndRound, Message, TypeInv, TypeOK, Versions, Rules, Sent, Configs, Results,
     Builds, Persisted
<1>21. ASSUME NEW n \in Nodes, Crash(n) PROVE Persisted'
  BY <1>21 DEF Crash, Fault, TypeInv, TypeOK, Versions, Rules, Sent, Configs, Results, Builds,
     Persisted
<1>22. ASSUME NEW n \in Nodes, Restart(n) PROVE Persisted'
  BY <1>22 DEF Restart, Outcome, TypeInv, TypeOK, Versions, Rules, Sent, Configs, Results,
     Builds, Persisted
<1> QED
  BY <1>1, <1>2, <1>3, <1>4, <1>5, <1>6, <1>7, <1>8, <1>9, <1>10, <1>11, <1>12, <1>13, <1>14,
     <1>15, <1>16, <1>17, <1>18, <1>19, <1>20, <1>21, <1>22 DEF Next, PanelStep, BuildStep, NodeStep

LEMMA CurrentStep == TypeInv /\ Persisted /\ Current /\ [Next]_vars => Current'
<1> SUFFICES ASSUME TypeInv /\ Persisted /\ Current, [Next]_vars PROVE Current'
  OBVIOUS
<1>1. CASE UNCHANGED vars
  BY <1>1 DEF TypeInv, TypeOK, Versions, Rules, Sent, Configs, Results, Builds, Persisted,
     Current, RuleFor
<1>2. ASSUME NEW e \in Editors, Commit(e) PROVE Current'
  BY <1>2 DEF Commit, UpdateRule, SetEnable, UpdateGroup, Resync, TypeInv, TypeOK, Versions,
     Rules, Sent, Configs, Results, Builds, Persisted, Current, RuleFor
<1>3. ASSUME NEW e \in Editors, BumpConfigVersion(e) PROVE Current'
  BY <1>3 DEF BumpConfigVersion, Bump, Fault, TypeInv, TypeOK, Versions, Rules, Sent, Configs,
     Results, Builds, Persisted, Current, RuleFor
<1>4. ASSUME NEW e \in Editors, TouchSyncUnsynced(e) PROVE Current'
  BY <1>4 DEF TouchSyncUnsynced, TypeInv, TypeOK, Versions, Rules, Sent, Configs, Results,
     Builds, Persisted, Current, RuleFor
<1>5. ASSUME ResyncPending PROVE Current'
  BY <1>5 DEF ResyncPending, Bump, Fault, TypeInv, TypeOK, Versions, Rules, Sent, Configs,
     Results, Builds, Persisted, Current, RuleFor
<1>6. ASSUME PanelRestart PROVE Current'
  BY <1>6 DEF PanelRestart, Fault, TypeInv, TypeOK, Versions, Rules, Sent, Configs, Results,
     Builds, Persisted, Current, RuleFor
<1>7. ASSUME handleLateReport PROVE Current'
  BY <1>7 DEF handleLateReport, RecordNodeResult, Accepts, Aggregate, TypeInv, TypeOK, Versions,
     Rules, Sent, Configs, Results, Builds, Persisted, Current, RuleFor
<1>8. ASSUME NEW n \in Nodes, loadGroups(n) PROVE Current'
  BY <1>8 DEF loadGroups, NewBuild, TypeInv, TypeOK, Versions, Rules, Sent, Configs, Results,
     Builds, Persisted, Current, RuleFor
<1>9. ASSUME NEW n \in Nodes, rulesForNode(n) PROVE Current'
  BY <1>9 DEF rulesForNode, TypeInv, TypeOK, Versions, Rules, Sent, Configs, Results, Builds,
     Persisted, Current, RuleFor
<1>10. ASSUME NEW n \in Nodes, saveTrafficPolicies(n) PROVE Current'
  BY <1>10 DEF saveTrafficPolicies, PolicyAccepted, PolicySaved, TypeInv, TypeOK, Versions,
     Rules, Sent, Configs, Results, Builds, Persisted, Current, RuleFor
<1>11. ASSUME NEW n \in Nodes, retryBuild(n) PROVE Current'
  BY <1>11 DEF retryBuild, NewBuild, TypeInv, TypeOK, Versions, Rules, Sent, Configs, Results,
     Builds, Persisted, Current, RuleFor
<1>12. ASSUME NEW n \in Nodes, failBuild(n) PROVE Current'
  BY <1>12 DEF failBuild, PolicyAccepted, TypeInv, TypeOK, Versions, Rules, Sent, Configs,
     Results, Builds, Persisted, Current, RuleFor
<1>13. ASSUME NEW n \in Nodes, respond(n) PROVE Current'
  BY <1>13 DEF respond, TypeInv, TypeOK, Versions, Rules, Sent, Configs, Results, Builds,
     Persisted, Current, RuleFor
<1>14. ASSUME NEW n \in Nodes, NEW refresh \in BOOLEAN, heartbeat(n, refresh) PROVE Current'
  BY <1>14 DEF heartbeat, PolicyAccepted, PolicySaved, TypeInv, TypeOK, Versions, Rules, Sent,
     Configs, Results, Builds, Persisted, Current, RuleFor
<1>15. ASSUME NEW n \in Nodes, requestFails(n) PROVE Current'
  BY <1>15 DEF requestFails, Fault, TypeInv, TypeOK, Versions, Rules, Sent, Configs, Results,
     Builds, Persisted, Current, RuleFor
<1>16. ASSUME NEW n \in Nodes, apply(n) PROVE Current'
  BY <1>16 DEF apply, Outcome, TypeInv, TypeOK, Versions, Rules, Sent, Configs, Results, Builds,
     Persisted, Current, RuleFor
<1>17. ASSUME NEW n \in Nodes, applyFails(n) PROVE Current'
  BY <1>17 DEF applyFails, Outcome, Fault, TypeInv, TypeOK, Versions, Rules, Sent, Configs,
     Results, Builds, Persisted, Current, RuleFor
<1>18. ASSUME NEW n \in Nodes, report(n) PROVE Current'
  BY <1>18 DEF report, RecordNodeResult, Accepts, Aggregate, Message, TypeInv, TypeOK, Versions,
     Rules, Sent, Configs, Results, Builds, Persisted, Current, RuleFor
<1>19. ASSUME NEW n \in Nodes, reportFails(n) PROVE Current'
  BY <1>19 DEF reportFails, Message, Fault, TypeInv, TypeOK, Versions, Rules, Sent, Configs,
     Results, Builds, Persisted, Current, RuleFor
<1>20. ASSUME NEW n \in Nodes, EndRound(n) PROVE Current'
  BY <1>20 DEF EndRound, Message, TypeInv, TypeOK, Versions, Rules, Sent, Configs, Results,
     Builds, Persisted, Current, RuleFor
<1>21. ASSUME NEW n \in Nodes, Crash(n) PROVE Current'
  BY <1>21 DEF Crash, Fault, TypeInv, TypeOK, Versions, Rules, Sent, Configs, Results, Builds,
     Persisted, Current, RuleFor
<1>22. ASSUME NEW n \in Nodes, Restart(n) PROVE Current'
  BY <1>22 DEF Restart, Outcome, TypeInv, TypeOK, Versions, Rules, Sent, Configs, Results,
     Builds, Persisted, Current, RuleFor
<1> QED
  BY <1>1, <1>2, <1>3, <1>4, <1>5, <1>6, <1>7, <1>8, <1>9, <1>10, <1>11, <1>12, <1>13, <1>14,
     <1>15, <1>16, <1>17, <1>18, <1>19, <1>20, <1>21, <1>22 DEF Next, PanelStep, BuildStep, NodeStep

LEMMA CoveredStep == TypeInv /\ Covered /\ [Next]_vars => Covered'
<1> SUFFICES ASSUME TypeInv /\ Covered, [Next]_vars PROVE Covered'
  OBVIOUS
<1>1. CASE UNCHANGED vars
  BY <1>1 DEF TypeInv, TypeOK, Versions, Rules, Sent, Configs, Results, Builds, Covered
<1>2. ASSUME NEW e \in Editors, Commit(e) PROVE Covered'
  BY <1>2 DEF Commit, UpdateRule, SetEnable, UpdateGroup, Resync, TypeInv, TypeOK, Versions,
     Rules, Sent, Configs, Results, Builds, Covered
<1>3. ASSUME NEW e \in Editors, BumpConfigVersion(e) PROVE Covered'
  BY <1>3 DEF BumpConfigVersion, Bump, Fault, TypeInv, TypeOK, Versions, Rules, Sent, Configs,
     Results, Builds, Covered
<1>4. ASSUME NEW e \in Editors, TouchSyncUnsynced(e) PROVE Covered'
  BY <1>4 DEF TouchSyncUnsynced, TypeInv, TypeOK, Versions, Rules, Sent, Configs, Results,
     Builds, Covered
<1>5. ASSUME ResyncPending PROVE Covered'
  BY <1>5 DEF ResyncPending, Bump, Fault, TypeInv, TypeOK, Versions, Rules, Sent, Configs,
     Results, Builds, Covered
<1>6. ASSUME PanelRestart PROVE Covered'
  BY <1>6 DEF PanelRestart, Fault, TypeInv, TypeOK, Versions, Rules, Sent, Configs, Results,
     Builds, Covered
<1>7. ASSUME handleLateReport PROVE Covered'
  BY <1>7 DEF handleLateReport, RecordNodeResult, Accepts, Aggregate, TypeInv, TypeOK, Versions,
     Rules, Sent, Configs, Results, Builds, Covered
<1>8. ASSUME NEW n \in Nodes, loadGroups(n) PROVE Covered'
  BY <1>8 DEF loadGroups, NewBuild, TypeInv, TypeOK, Versions, Rules, Sent, Configs, Results,
     Builds, Covered
<1>9. ASSUME NEW n \in Nodes, rulesForNode(n) PROVE Covered'
  BY <1>9 DEF rulesForNode, TypeInv, TypeOK, Versions, Rules, Sent, Configs, Results, Builds,
     Covered
<1>10. ASSUME NEW n \in Nodes, saveTrafficPolicies(n) PROVE Covered'
  BY <1>10 DEF saveTrafficPolicies, PolicyAccepted, PolicySaved, TypeInv, TypeOK, Versions,
     Rules, Sent, Configs, Results, Builds, Covered
<1>11. ASSUME NEW n \in Nodes, retryBuild(n) PROVE Covered'
  BY <1>11 DEF retryBuild, NewBuild, TypeInv, TypeOK, Versions, Rules, Sent, Configs, Results,
     Builds, Covered
<1>12. ASSUME NEW n \in Nodes, failBuild(n) PROVE Covered'
  BY <1>12 DEF failBuild, PolicyAccepted, TypeInv, TypeOK, Versions, Rules, Sent, Configs,
     Results, Builds, Covered
<1>13. ASSUME NEW n \in Nodes, respond(n) PROVE Covered'
  BY <1>13 DEF respond, TypeInv, TypeOK, Versions, Rules, Sent, Configs, Results, Builds, Covered
<1>14. ASSUME NEW n \in Nodes, NEW refresh \in BOOLEAN, heartbeat(n, refresh) PROVE Covered'
  <2>1. RuleFor(n) \in Rules \cup {NoRule}
    BY DEF RuleFor, TypeInv, TypeOK
  <2>2. \A m \in Nodes, v \in Versions : policy[m][v] # NoPolicy => policy'[m][v] = policy[m][v]
    BY <1>14, <2>1 DEF heartbeat, PolicyAccepted, PolicySaved, TypeInv, TypeOK
  <2>3. UNCHANGED <<build, conf, cache>>
    BY <1>14 DEF heartbeat, buildVars
  <2>4. \A m \in Nodes : /\ conf[m] \in Configs \cup {NoConfig}
                        /\ cache[m] \in Configs \cup {NoConfig}
                        /\ build[m] \in Builds \cup {NoBuild}
    BY DEF TypeInv, TypeOK
  <2>5. \A r \in Rules : r # NoPolicy
    OBVIOUS
  <2>6. \A m \in Nodes, v \in Versions, r \in Rules : policy[m][v] = r => policy'[m][v] = r
    BY <2>2, <2>5
  <2> QED
    BY <2>3, <2>4, <2>6 DEF Covered, Configs, Builds, Sent
<1>15. ASSUME NEW n \in Nodes, requestFails(n) PROVE Covered'
  BY <1>15 DEF requestFails, Fault, TypeInv, TypeOK, Versions, Rules, Sent, Configs, Results,
     Builds, Covered
<1>16. ASSUME NEW n \in Nodes, apply(n) PROVE Covered'
  BY <1>16 DEF apply, Outcome, TypeInv, TypeOK, Versions, Rules, Sent, Configs, Results, Builds,
     Covered
<1>17. ASSUME NEW n \in Nodes, applyFails(n) PROVE Covered'
  BY <1>17 DEF applyFails, Outcome, Fault, TypeInv, TypeOK, Versions, Rules, Sent, Configs,
     Results, Builds, Covered
<1>18. ASSUME NEW n \in Nodes, report(n) PROVE Covered'
  BY <1>18 DEF report, RecordNodeResult, Accepts, Aggregate, Message, TypeInv, TypeOK, Versions,
     Rules, Sent, Configs, Results, Builds, Covered
<1>19. ASSUME NEW n \in Nodes, reportFails(n) PROVE Covered'
  BY <1>19 DEF reportFails, Message, Fault, TypeInv, TypeOK, Versions, Rules, Sent, Configs,
     Results, Builds, Covered
<1>20. ASSUME NEW n \in Nodes, EndRound(n) PROVE Covered'
  BY <1>20 DEF EndRound, Message, TypeInv, TypeOK, Versions, Rules, Sent, Configs, Results,
     Builds, Covered
<1>21. ASSUME NEW n \in Nodes, Crash(n) PROVE Covered'
  BY <1>21 DEF Crash, Fault, TypeInv, TypeOK, Versions, Rules, Sent, Configs, Results, Builds,
     Covered
<1>22. ASSUME NEW n \in Nodes, Restart(n) PROVE Covered'
  BY <1>22 DEF Restart, Outcome, TypeInv, TypeOK, Versions, Rules, Sent, Configs, Results,
     Builds, Covered
<1> QED
  BY <1>1, <1>2, <1>3, <1>4, <1>5, <1>6, <1>7, <1>8, <1>9, <1>10, <1>11, <1>12, <1>13, <1>14,
     <1>15, <1>16, <1>17, <1>18, <1>19, <1>20, <1>21, <1>22 DEF Next, PanelStep, BuildStep, NodeStep

LEMMA InStepStep == TypeInv /\ Persisted /\ InStep /\ [Next]_vars => InStep'
<1> SUFFICES ASSUME TypeInv /\ Persisted /\ InStep, [Next]_vars PROVE InStep'
  OBVIOUS
<1>1. CASE UNCHANGED vars
  BY <1>1 DEF TypeInv, TypeOK, Versions, Rules, Sent, Configs, Results, Builds, Persisted, InStep
<1>2. ASSUME NEW e \in Editors, Commit(e) PROVE InStep'
  BY <1>2 DEF Commit, UpdateRule, SetEnable, UpdateGroup, Resync, TypeInv, TypeOK, Versions,
     Rules, Sent, Configs, Results, Builds, Persisted, InStep
<1>3. ASSUME NEW e \in Editors, BumpConfigVersion(e) PROVE InStep'
  BY <1>3 DEF BumpConfigVersion, Bump, Fault, TypeInv, TypeOK, Versions, Rules, Sent, Configs,
     Results, Builds, Persisted, InStep
<1>4. ASSUME NEW e \in Editors, TouchSyncUnsynced(e) PROVE InStep'
  BY <1>4 DEF TouchSyncUnsynced, TypeInv, TypeOK, Versions, Rules, Sent, Configs, Results,
     Builds, Persisted, InStep
<1>5. ASSUME ResyncPending PROVE InStep'
  BY <1>5 DEF ResyncPending, Bump, Fault, TypeInv, TypeOK, Versions, Rules, Sent, Configs,
     Results, Builds, Persisted, InStep
<1>6. ASSUME PanelRestart PROVE InStep'
  BY <1>6 DEF PanelRestart, Fault, TypeInv, TypeOK, Versions, Rules, Sent, Configs, Results,
     Builds, Persisted, InStep
<1>7. ASSUME handleLateReport PROVE InStep'
  BY <1>7 DEF handleLateReport, RecordNodeResult, Accepts, Aggregate, TypeInv, TypeOK, Versions,
     Rules, Sent, Configs, Results, Builds, Persisted, InStep
<1>8. ASSUME NEW n \in Nodes, loadGroups(n) PROVE InStep'
  BY <1>8 DEF loadGroups, NewBuild, TypeInv, TypeOK, Versions, Rules, Sent, Configs, Results,
     Builds, Persisted, InStep
<1>9. ASSUME NEW n \in Nodes, rulesForNode(n) PROVE InStep'
  BY <1>9 DEF rulesForNode, TypeInv, TypeOK, Versions, Rules, Sent, Configs, Results, Builds,
     Persisted, InStep
<1>10. ASSUME NEW n \in Nodes, saveTrafficPolicies(n) PROVE InStep'
  BY <1>10 DEF saveTrafficPolicies, PolicyAccepted, PolicySaved, TypeInv, TypeOK, Versions,
     Rules, Sent, Configs, Results, Builds, Persisted, InStep
<1>11. ASSUME NEW n \in Nodes, retryBuild(n) PROVE InStep'
  BY <1>11 DEF retryBuild, NewBuild, TypeInv, TypeOK, Versions, Rules, Sent, Configs, Results,
     Builds, Persisted, InStep
<1>12. ASSUME NEW n \in Nodes, failBuild(n) PROVE InStep'
  BY <1>12 DEF failBuild, PolicyAccepted, TypeInv, TypeOK, Versions, Rules, Sent, Configs,
     Results, Builds, Persisted, InStep
<1>13. ASSUME NEW n \in Nodes, respond(n) PROVE InStep'
  BY <1>13 DEF respond, TypeInv, TypeOK, Versions, Rules, Sent, Configs, Results, Builds,
     Persisted, InStep
<1>14. ASSUME NEW n \in Nodes, NEW refresh \in BOOLEAN, heartbeat(n, refresh) PROVE InStep'
  BY <1>14 DEF heartbeat, PolicyAccepted, PolicySaved, TypeInv, TypeOK, Versions, Rules, Sent,
     Configs, Results, Builds, Persisted, InStep
<1>15. ASSUME NEW n \in Nodes, requestFails(n) PROVE InStep'
  BY <1>15 DEF requestFails, Fault, TypeInv, TypeOK, Versions, Rules, Sent, Configs, Results,
     Builds, Persisted, InStep
<1>16. ASSUME NEW n \in Nodes, apply(n) PROVE InStep'
  BY <1>16 DEF apply, Outcome, TypeInv, TypeOK, Versions, Rules, Sent, Configs, Results, Builds,
     Persisted, InStep
<1>17. ASSUME NEW n \in Nodes, applyFails(n) PROVE InStep'
  BY <1>17 DEF applyFails, Outcome, Fault, TypeInv, TypeOK, Versions, Rules, Sent, Configs,
     Results, Builds, Persisted, InStep
<1>18. ASSUME NEW n \in Nodes, report(n) PROVE InStep'
  BY <1>18 DEF report, RecordNodeResult, Accepts, Aggregate, Message, TypeInv, TypeOK, Versions,
     Rules, Sent, Configs, Results, Builds, Persisted, InStep
<1>19. ASSUME NEW n \in Nodes, reportFails(n) PROVE InStep'
  BY <1>19 DEF reportFails, Message, Fault, TypeInv, TypeOK, Versions, Rules, Sent, Configs,
     Results, Builds, Persisted, InStep
<1>20. ASSUME NEW n \in Nodes, EndRound(n) PROVE InStep'
  BY <1>20 DEF EndRound, Message, TypeInv, TypeOK, Versions, Rules, Sent, Configs, Results,
     Builds, Persisted, InStep
<1>21. ASSUME NEW n \in Nodes, Crash(n) PROVE InStep'
  BY <1>21 DEF Crash, Fault, TypeInv, TypeOK, Versions, Rules, Sent, Configs, Results, Builds,
     Persisted, InStep
<1>22. ASSUME NEW n \in Nodes, Restart(n) PROVE InStep'
  BY <1>22 DEF Restart, Outcome, TypeInv, TypeOK, Versions, Rules, Sent, Configs, Results,
     Builds, Persisted, InStep
<1> QED
  BY <1>1, <1>2, <1>3, <1>4, <1>5, <1>6, <1>7, <1>8, <1>9, <1>10, <1>11, <1>12, <1>13, <1>14,
     <1>15, <1>16, <1>17, <1>18, <1>19, <1>20, <1>21, <1>22 DEF Next, PanelStep, BuildStep, NodeStep

LEMMA BackedStep == TypeInv /\ InStep /\ Backed /\ [Next]_vars => Backed'
<1> SUFFICES ASSUME TypeInv /\ InStep /\ Backed, [Next]_vars PROVE Backed'
  OBVIOUS
<1>1. CASE UNCHANGED vars
  BY <1>1 DEF TypeInv, TypeOK, Versions, Rules, Sent, Configs, Results, Builds, InStep, Backed,
     BackedBy
<1>2. ASSUME NEW e \in Editors, Commit(e) PROVE Backed'
  BY <1>2 DEF Commit, UpdateRule, SetEnable, UpdateGroup, Resync, TypeInv, TypeOK, Versions,
     Rules, Sent, Configs, Results, Builds, InStep, Backed, BackedBy
<1>3. ASSUME NEW e \in Editors, BumpConfigVersion(e) PROVE Backed'
  BY <1>3 DEF BumpConfigVersion, Bump, Fault, TypeInv, TypeOK, Versions, Rules, Sent, Configs,
     Results, Builds, InStep, Backed, BackedBy
<1>4. ASSUME NEW e \in Editors, TouchSyncUnsynced(e) PROVE Backed'
  BY <1>4 DEF TouchSyncUnsynced, TypeInv, TypeOK, Versions, Rules, Sent, Configs, Results,
     Builds, InStep, Backed, BackedBy
<1>5. ASSUME ResyncPending PROVE Backed'
  BY <1>5 DEF ResyncPending, Bump, Fault, TypeInv, TypeOK, Versions, Rules, Sent, Configs,
     Results, Builds, InStep, Backed, BackedBy
<1>6. ASSUME PanelRestart PROVE Backed'
  BY <1>6 DEF PanelRestart, Fault, TypeInv, TypeOK, Versions, Rules, Sent, Configs, Results,
     Builds, InStep, Backed, BackedBy
<1>7. ASSUME handleLateReport PROVE Backed'
  BY <1>7 DEF handleLateReport, RecordNodeResult, Accepts, Aggregate, TypeInv, TypeOK, Versions,
     Rules, Sent, Configs, Results, Builds, InStep, Backed, BackedBy
<1>8. ASSUME NEW n \in Nodes, loadGroups(n) PROVE Backed'
  BY <1>8 DEF loadGroups, NewBuild, TypeInv, TypeOK, Versions, Rules, Sent, Configs, Results,
     Builds, InStep, Backed, BackedBy
<1>9. ASSUME NEW n \in Nodes, rulesForNode(n) PROVE Backed'
  BY <1>9 DEF rulesForNode, TypeInv, TypeOK, Versions, Rules, Sent, Configs, Results, Builds,
     InStep, Backed, BackedBy
<1>10. ASSUME NEW n \in Nodes, saveTrafficPolicies(n) PROVE Backed'
  BY <1>10 DEF saveTrafficPolicies, PolicyAccepted, PolicySaved, TypeInv, TypeOK, Versions,
     Rules, Sent, Configs, Results, Builds, InStep, Backed, BackedBy
<1>11. ASSUME NEW n \in Nodes, retryBuild(n) PROVE Backed'
  BY <1>11 DEF retryBuild, NewBuild, TypeInv, TypeOK, Versions, Rules, Sent, Configs, Results,
     Builds, InStep, Backed, BackedBy
<1>12. ASSUME NEW n \in Nodes, failBuild(n) PROVE Backed'
  BY <1>12 DEF failBuild, PolicyAccepted, TypeInv, TypeOK, Versions, Rules, Sent, Configs,
     Results, Builds, InStep, Backed, BackedBy
<1>13. ASSUME NEW n \in Nodes, respond(n) PROVE Backed'
  BY <1>13 DEF respond, TypeInv, TypeOK, Versions, Rules, Sent, Configs, Results, Builds, InStep,
     Backed, BackedBy
<1>14. ASSUME NEW n \in Nodes, NEW refresh \in BOOLEAN, heartbeat(n, refresh) PROVE Backed'
  BY <1>14 DEF heartbeat, PolicyAccepted, PolicySaved, TypeInv, TypeOK, Versions, Rules, Sent,
     Configs, Results, Builds, InStep, Backed, BackedBy
<1>15. ASSUME NEW n \in Nodes, requestFails(n) PROVE Backed'
  BY <1>15 DEF requestFails, Fault, TypeInv, TypeOK, Versions, Rules, Sent, Configs, Results,
     Builds, InStep, Backed, BackedBy
<1>16. ASSUME NEW n \in Nodes, apply(n) PROVE Backed'
  BY <1>16 DEF apply, Outcome, TypeInv, TypeOK, Versions, Rules, Sent, Configs, Results, Builds,
     InStep, Backed, BackedBy
<1>17. ASSUME NEW n \in Nodes, applyFails(n) PROVE Backed'
  BY <1>17 DEF applyFails, Outcome, Fault, TypeInv, TypeOK, Versions, Rules, Sent, Configs,
     Results, Builds, InStep, Backed, BackedBy
<1>18. ASSUME NEW n \in Nodes, report(n) PROVE Backed'
  BY <1>18 DEF report, RecordNodeResult, Accepts, Aggregate, Message, TypeInv, TypeOK, Versions,
     Rules, Sent, Configs, Results, Builds, InStep, Backed, BackedBy
<1>19. ASSUME NEW n \in Nodes, reportFails(n) PROVE Backed'
  BY <1>19 DEF reportFails, Message, Fault, TypeInv, TypeOK, Versions, Rules, Sent, Configs,
     Results, Builds, InStep, Backed, BackedBy
<1>20. ASSUME NEW n \in Nodes, EndRound(n) PROVE Backed'
  BY <1>20 DEF EndRound, Message, TypeInv, TypeOK, Versions, Rules, Sent, Configs, Results,
     Builds, InStep, Backed, BackedBy
<1>21. ASSUME NEW n \in Nodes, Crash(n) PROVE Backed'
  BY <1>21 DEF Crash, Fault, TypeInv, TypeOK, Versions, Rules, Sent, Configs, Results, Builds,
     InStep, Backed, BackedBy
<1>22. ASSUME NEW n \in Nodes, Restart(n) PROVE Backed'
  BY <1>22 DEF Restart, Outcome, TypeInv, TypeOK, Versions, Rules, Sent, Configs, Results,
     Builds, InStep, Backed, BackedBy
<1> QED
  BY <1>1, <1>2, <1>3, <1>4, <1>5, <1>6, <1>7, <1>8, <1>9, <1>10, <1>11, <1>12, <1>13, <1>14,
     <1>15, <1>16, <1>17, <1>18, <1>19, <1>20, <1>21, <1>22 DEF Next, PanelStep, BuildStep, NodeStep

LEMMA Step == IInv /\ [Next]_vars => IInv'
<1> SUFFICES ASSUME IInv, [Next]_vars PROVE IInv'
  OBVIOUS
<1>1. TypeInv' /\ Persisted'
  BY TypeStep, PersistedStep DEF IInv
<1>2. Current' /\ Covered'
  BY CurrentStep, CoveredStep DEF IInv
<1>3. InStep' /\ Backed'
  BY InStepStep, BackedStep DEF IInv
<1> QED
  BY <1>1, <1>2, <1>3 DEF IInv

THEOREM Invariance == Spec => []IInv
BY InitIInv, Step, PTL DEF Spec

\* Every variable keeps its type, build attempts included.
THEOREM TypeCorrect == Spec => []TypeOK
<1>1. IInv => TypeOK
  BY DEF IInv, TypeInv
<1> QED
  BY <1>1, Invariance, PTL

\* A configuration at the panel's version is the panel's configuration once every
\* committed edit was published.
THEOREM DeliversFresh == Spec => []Fresh
<1>1. IInv => Fresh
  BY DEF IInv, TypeInv, TypeOK, Persisted, Current, Fresh, Configs, Versions
<1> QED
  BY <1>1, Invariance, PTL

\* The policy row of a version says what the node was sent under it.
THEOREM PoliciesCover == Spec => []PolicyCoversDelivered
<1>1. IInv => PolicyCoversDelivered
  BY DEF IInv, Covered, PolicyCoversDelivered
<1> QED
  BY <1>1, Invariance, PTL

\* No node is ever ahead of the persisted revision.
THEOREM NeverAhead == Spec => []VersionsNotReused
<1>1. IInv => VersionsNotReused
  BY DEF IInv, Persisted, VersionsNotReused
<1> QED
  BY <1>1, Invariance, PTL

\* A version means one configuration of a node for ever: it is persisted before a
\* node can have it, and what it carried to whom is on record (BumpConfigVersion,
\* saveTrafficPolicies).
THEOREM KeepsVersions == Spec => []VersionsKept
<1>1. PolicyCoversDelivered /\ VersionsNotReused => VersionsKept
  BY DEF VersionsKept
<1> QED BY <1>1, PoliciesCover, NeverAhead, PTL

\* A successful acknowledgement of the persisted version stands for a node that
\* cached the current rule.
LEMMA BackedRuns ==
  ASSUME IInv, ~stale, revision = version, NEW n \in members, NEW m \in Results,
         m.version = version, m.ok, BackedBy(n, m)
  PROVE  Runs(n)
<1>1. n \in Nodes /\ cache[n] \in Configs
  BY DEF IInv, TypeInv, TypeOK, BackedBy
<1>2. cache[n].version = version
  BY <1>1 DEF IInv, TypeInv, TypeOK, Persisted, BackedBy, Configs, Results, Versions
<1> QED
  BY <1>1, <1>2 DEF IInv, TypeInv, TypeOK, Current, RuleFor, Runs, Versions

\* The rule of sync_results.go: what is recorded makes the status normal only when
\* every member's row succeeded at the current version.
LEMMA NormalRecorded ==
  ASSUME IInv, ~stale, NEW n \in Nodes, NEW m \in Results, BackedBy(n, m),
         RecordNodeResult(n, m), status # "normal", status' = "normal",
         UNCHANGED <<version, members>>
  PROVE  \A p \in members : Runs(p)
<1>1. Accepts(n, m) /\ row' = [row EXCEPT ![n] = m] /\ status' = Aggregate(row')
  BY DEF RecordNodeResult
<1>2. \A p \in members : row'[p] # NoResult /\ row'[p].version = version /\ row'[p].ok
  BY <1>1 DEF Aggregate
<1>3. revision = version /\ members \subseteq Nodes
  BY <1>1 DEF Accepts, IInv, TypeInv, TypeOK
<1> SUFFICES ASSUME NEW p \in members PROVE Runs(p)
  OBVIOUS
<1>4. row'[p] \in Results /\ BackedBy(p, row'[p])
  BY <1>1, <1>2, <1>3 DEF IInv, TypeInv, TypeOK, Backed
<1> QED
  BY <1>2, <1>3, <1>4, BackedRuns

\* The status turns normal only when every member runs the current rule.
THEOREM NormalIsHonest == Spec => NormalWhenPublished
<1> DEFINE Honest == status # "normal" /\ status' = "normal" /\ ~stale =>
                       \A p \in members : Runs(p)
<1>1. IInv /\ [Next]_vars => [Honest]_vars
  <2> SUFFICES ASSUME IInv, [Next]_vars, status # "normal", status' = "normal", ~stale
               PROVE  \A p \in members : Runs(p)
    OBVIOUS
  <2>1. ASSUME NEW n \in Nodes, report(n) PROVE \A p \in members : Runs(p)
    <3>1. Message(n) \in Results /\ BackedBy(n, Message(n))
      BY <2>1 DEF report, Message, IInv, TypeInv, TypeOK, Backed
    <3> QED
      BY <2>1, <3>1, NormalRecorded DEF report
  <2>2. ASSUME handleLateReport PROVE \A p \in members : Runs(p)
    <3>1. PICK m \in late : RecordNodeResult(m[1], m[2])
      BY <2>2 DEF handleLateReport
    <3>2. m[1] \in Nodes /\ m[2] \in Results /\ BackedBy(m[1], m[2])
      BY DEF IInv, TypeInv, TypeOK, Backed
    <3> QED
      BY <2>2, <3>1, <3>2, NormalRecorded DEF handleLateReport
  <2>3. ASSUME NEW e \in Editors, Commit(e) \/ BumpConfigVersion(e) \/ TouchSyncUnsynced(e)
        PROVE  status' \in {status, "unsynced"}
    BY <2>3 DEF Commit, UpdateRule, SetEnable, UpdateGroup, Resync, BumpConfigVersion,
                TouchSyncUnsynced
  <2>4. ASSUME ResyncPending \/ PanelRestart PROVE status' = status
    BY <2>4 DEF ResyncPending, PanelRestart
  <2>5. ASSUME NEW n \in Nodes, BuildStep(n) PROVE status' = status
    BY <2>5 DEF BuildStep, loadGroups, rulesForNode, saveTrafficPolicies, retryBuild, failBuild,
                respond
  <2>6. ASSUME NEW n \in Nodes, NodeStep(n), ~report(n) PROVE status' = status
    BY <2>6 DEF NodeStep, heartbeat, requestFails, apply, applyFails, reportFails, EndRound,
                Crash, Restart
  <2>7. CASE UNCHANGED vars
    BY <2>7
  <2> QED
    BY <2>1, <2>2, <2>3, <2>4, <2>5, <2>6, <2>7 DEF Next, PanelStep
<1> QED
  BY <1>1, Invariance, PTL DEF Spec, NormalWhenPublished

=============================================================================
