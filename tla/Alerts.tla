------------------------------- MODULE Alerts -------------------------------
\* The panel's alerts: rounds of evaluation move every rule and target from a
\* condition that holds to a record in the alert history and back, beside an
\* administrator who edits rules and resolves records, and across restarts.
EXTENDS Integers, Sequences, FiniteSets, Functions
CONSTANTS
  AlertRules, Targets,
  Duration,    \* rule -> how long its condition has to hold
  SilenceFor,  \* how long a record that lasts is not told again
  MaxTime, MaxRecords, MaxEdits, MaxFaults  \* bounds
ASSUME AlertBounds == Duration \in [AlertRules -> Nat] /\ SilenceFor \in Nat \ {0}

VARIABLES
  clock,
  alertRules,  \* rule -> on, off or gone: the alert_rules table
  condition,   \* target -> on, off, or hidden when the rules skip it
  history,     \* the alert_history table: rule and target, resolved, last_notified_at
  pending,     \* memory: rule and target -> when the condition was first seen
  inflight,    \* memory: rule and target -> its record
  round,       \* what the evaluation under way has left
  admin,       \* what the administrator's request has left
  since,       \* rule and target -> since when rounds see its condition, 0 for not
  edits, faults
alertVars == <<clock, alertRules, condition, history, pending, inflight, round, admin, since, edits, faults>>

Pairs == AlertRules \X Targets
NoStep == [do |-> "none", key |-> <<0, 0>>, id |-> 0]
NoRound == [todo |-> {}, rule |-> 0, conds |-> <<>>, step |-> NoStep]
Resting == [do |-> "none", id |-> 0]
Without(f, keys) == Restrict(f, DOMAIN f \ keys)
Noting(f, key, value) == [k \in DOMAIN f \cup {key} |-> IF k = key THEN value ELSE f[k]]
---------------------------------------------------------------------------
\* Evaluate reads the rules and takes the enabled ones.
BeginRound ==
  /\ round = NoRound /\ \E r \in AlertRules : alertRules[r] = "on"
  /\ round' = [round EXCEPT !.todo = { r \in AlertRules : alertRules[r] = "on" }]
  /\ UNCHANGED <<clock, alertRules, condition, history, pending, inflight, admin, since, edits, faults>>
\* evaluateRule reads the state of a rule's targets: the resources of a node that
\* is offline, and a node that is deleted, give no condition.
evaluateRule(r) ==
  /\ round.conds = <<>> /\ round.step = NoStep /\ r \in round.todo
  /\ LET seen == { t \in Targets : condition[t] # "hidden" }
         rest == round.todo \ {r}
     IN round' = IF seen = {} /\ rest = {} THEN NoRound
                 ELSE [round EXCEPT !.todo = rest, !.rule = r,
                                    !.conds = [t \in seen |-> condition[t] = "on"]]
  /\ UNCHANGED <<clock, alertRules, condition, history, pending, inflight, admin, since, edits, faults>>

Active(key) == { i \in DOMAIN history : history[i].key = key /\ ~history[i].resolved }
\* The record of the pair that is active: the one in memory, else the newest of
\* the table, which is how a restarted panel finds it again.
Handler(key) ==
  IF key \in DOMAIN inflight THEN inflight[key]
  ELSE IF Active(key) = {} THEN 0 ELSE CHOOSE i \in Active(key) : \A j \in Active(key) : j <= i

\* A round with nothing left to do is over.
Left(rest, step) ==
  IF rest = <<>> /\ step = NoStep /\ round.todo = {} THEN NoRound
  ELSE [round EXCEPT !.conds = rest, !.step = step]
\* The condition has held for the rule's duration since it was first seen.
Due(key) ==
  IF key \in DOMAIN pending THEN clock - pending[key] >= Duration[key[1]] ELSE Duration[key[1]] = 0

\* apply, one turn under its mutex: what becomes of one condition.
apply(t) ==
  /\ round.step = NoStep /\ t \in DOMAIN round.conds
  /\ LET key == <<round.rule, t>>
         firing == round.conds[t]
         id == Handler(key)
         Step(do) == round' = Left(Without(round.conds, {t}), [do |-> do, key |-> key, id |-> id])
         Nothing == round' = Left(Without(round.conds, {t}), NoStep)
     IN /\ since' = [since EXCEPT ![key] = IF ~firing THEN 0 ELSE IF @ = 0 THEN clock ELSE @]
        /\ \/ /\ ~firing /\ id = 0 /\ Nothing
              /\ pending' = Without(pending, {key}) /\ UNCHANGED inflight
           \/ /\ ~firing /\ id # 0 /\ Step("resolve")
              /\ pending' = Without(pending, {key}) /\ inflight' = Without(inflight, {key})
           \/ /\ firing /\ id # 0 /\ Step("refire")
              /\ inflight' = Noting(inflight, key, id) /\ UNCHANGED pending
           \/ /\ firing /\ id = 0 /\ ~Due(key) /\ Nothing
              /\ pending' = (IF key \in DOMAIN pending THEN pending ELSE Noting(pending, key, clock)) /\ UNCHANGED inflight
           \/ /\ firing /\ id = 0 /\ Due(key) /\ Step("fire")
              /\ pending' = Without(pending, {key}) /\ UNCHANGED inflight
  /\ UNCHANGED <<clock, alertRules, condition, history, admin, edits, faults>>

\* fire writes the record (which fails at the bound of records) ...
fire ==
  /\ round.step.do = "fire"
  /\ IF Len(history) < MaxRecords
     THEN /\ history' = Append(history, [key |-> round.step.key, resolved |-> FALSE, notified |-> clock])
          /\ round' = [round EXCEPT !.step.do = "mark", !.step.id = Len(history) + 1]
     ELSE round' = Left(round.conds, NoStep) /\ UNCHANGED history
  /\ UNCHANGED <<clock, alertRules, condition, pending, inflight, admin, since, edits, faults>>
\* ... and then notes it in memory and tells the channels.
fireNotes ==
  /\ round.step.do = "mark"
  /\ inflight' = Noting(inflight, round.step.key, round.step.id)
  /\ round' = Left(round.conds, NoStep)
  /\ UNCHANGED <<clock, alertRules, condition, history, pending, admin, since, edits, faults>>
Quiet_Short(id) == clock - history[id].notified < SilenceFor - 1
Quiet(id) == clock - history[id].notified < SilenceFor
\* refire tells again of a record that lasts, when its silence is over.
refire ==
  /\ round.step.do = "refire" /\ round' = Left(round.conds, NoStep)
  /\ LET id == round.step.id
     IN history' = IF Quiet(id) THEN history ELSE [history EXCEPT ![id].notified = clock]
  /\ UNCHANGED <<clock, alertRules, condition, pending, inflight, admin, since, edits, faults>>
\* resolve closes the record; the channels hear of it when it was still open.
resolve ==
  /\ round.step.do = "resolve" /\ round' = Left(round.conds, NoStep)
  /\ history' = [history EXCEPT ![round.step.id].resolved = TRUE]
  /\ UNCHANGED <<clock, alertRules, condition, pending, inflight, admin, since, edits, faults>>
\* A statement of the step fails: the round goes on with the next condition.
StepFails ==
  /\ round.step.do \in {"fire", "refire", "resolve"} /\ faults < MaxFaults /\ faults' = faults + 1
  /\ round' = Left(round.conds, NoStep)
  /\ UNCHANGED <<clock, alertRules, condition, history, pending, inflight, admin, since, edits>>
---------------------------------------------------------------------------
\* MarkResolved reads the record, writes it, and forgets it in memory.
MarkResolved(id) ==
  /\ admin = Resting /\ edits < MaxEdits /\ edits' = edits + 1
  /\ ~history[id].resolved /\ admin' = [do |-> "resolve", id |-> id]
  /\ UNCHANGED <<clock, alertRules, condition, history, pending, inflight, round, since, faults>>
MarkResolvedWrites ==
  /\ admin.do = "resolve" /\ admin' = [do |-> "clear", id |-> admin.id]
  /\ history' = [history EXCEPT ![admin.id].resolved = TRUE]
  /\ UNCHANGED <<clock, alertRules, condition, pending, inflight, round, since, edits, faults>>
clearInflight ==
  /\ admin.do = "clear" /\ admin' = Resting
  /\ LET keys == { k \in DOMAIN inflight : inflight[k] = admin.id }
     IN inflight' = Without(inflight, keys) /\ pending' = Without(pending, keys)
  /\ UNCHANGED <<clock, alertRules, condition, history, round, since, edits, faults>>
\* UpdateRule and DeleteRule write the table and then reset the rule's memory.
EditRule(r, to) ==
  /\ admin = Resting /\ edits < MaxEdits /\ edits' = edits + 1
  /\ alertRules[r] # "gone" /\ alertRules' = [alertRules EXCEPT ![r] = to]
  /\ admin' = [do |-> "reset", id |-> r]
  /\ UNCHANGED <<clock, condition, history, pending, inflight, round, since, faults>>
resetState ==
  /\ admin.do = "reset" /\ admin' = Resting
  /\ LET keys == { k \in Pairs : k[1] = admin.id }
     IN pending' = Without(pending, keys) /\ inflight' = Without(inflight, keys)
  /\ UNCHANGED <<clock, alertRules, condition, history, round, since, edits, faults>>

Tick == clock < MaxTime /\ clock' = clock + 1 /\ UNCHANGED <<alertRules, condition, history, pending, inflight, round, admin, since, edits, faults>>
Change(t) ==
  /\ \E c \in {"on", "off", "hidden"} : c # condition[t] /\ condition' = [condition EXCEPT ![t] = c]
  /\ UNCHANGED <<clock, alertRules, history, pending, inflight, round, admin, since, edits, faults>>
RestartPanel ==
  /\ faults < MaxFaults /\ faults' = faults + 1
  /\ pending' = <<>> /\ inflight' = <<>> /\ round' = NoRound /\ admin' = Resting
  /\ UNCHANGED <<clock, alertRules, condition, history, since, edits>>
---------------------------------------------------------------------------
InitAlerts ==
  /\ clock = 1 /\ alertRules \in [AlertRules -> {"on", "gone"}] /\ condition = [t \in Targets |-> "off"]
  /\ history = <<>> /\ pending = <<>> /\ inflight = <<>> /\ round = NoRound /\ admin = Resting
  /\ since = [k \in Pairs |-> 0]
  /\ edits \in 0 .. MaxEdits /\ faults \in 0 .. MaxFaults  \* what the bounds leave
Evaluate ==
  \/ BeginRound \/ fire \/ fireNotes \/ refire \/ resolve
  \/ (\E r \in AlertRules : evaluateRule(r)) \/ (\E t \in Targets : apply(t))
NextAlerts ==
  \/ Evaluate \/ StepFails \/ RestartPanel \/ Tick \/ (\E t \in Targets : Change(t))
  \/ (\E id \in DOMAIN history : MarkResolved(id)) \/ MarkResolvedWrites \/ clearInflight
  \/ (\E r \in AlertRules, to \in {"on", "off", "gone"} : EditRule(r, to)) \/ resetState
AlertsSpec == InitAlerts /\ [][NextAlerts]_alertVars
\* The scheduler runs the evaluation every minute for as long as the panel runs,
\* and a request that has begun ends.
FairAlerts == WF_alertVars(Evaluate) /\ WF_alertVars(MarkResolvedWrites) /\ WF_alertVars(clearInflight) /\ WF_alertVars(resetState)
---------------------------------------------------------------------------
\* A rule has at most one open record of a target, whatever the restarts, failed
\* statements and edits between its rounds (apply reloads the open record).
OneActive == \A k \in Pairs : Cardinality(Active(k)) <= 1

\* A record is written only after the condition was seen for the rule's duration
\* by rounds that never saw it gone (apply's first-seen time, resetState, restart).
HeldLongEnough ==
  [][ Len(history') > Len(history) =>
        LET k == history'[Len(history')].key
        IN since[k] > 0 /\ clock - since[k] >= Duration[k[1]] ]_alertVars

\* The channels hear of one record at most once in SilenceFor, restarts included
\* (refire saves last_notified_at before it sends).
Silent ==
  [][ \A i \in DOMAIN history :
        history'[i].notified # history[i].notified => clock - history[i].notified >= SilenceFor ]_alertVars

\* When a condition stays away, the record of a rule that stays enabled is closed
\* in the end, also the one a restarted panel knows from its table only.
Recovers ==
  \A k \in Pairs :
    <>[](condition[k[2]] = "off" /\ alertRules[k[1]] = "on") => <>[](Active(k) = {})

\* An alert opens once, for a cause that lasted, and is told without noise.
AlertsSane == []OneActive /\ HeldLongEnough /\ Silent
=============================================================================
