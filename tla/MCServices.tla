----------------------------- MODULE MCServices -----------------------------
\* Services of the panel that share no state: a behaviour is one of one of them,
\* and the others rest in states in which nothing is due.
EXTENDS TrafficHistory, Alerts, NodeWatch, PanelJobs, TLC
VARIABLE part
vars == <<part, historyVars, alertVars, watchVars, jobVars>>

Rest ==
  /\ part # "watch" => up = {}
  /\ part # "jobs" => actor[Loop] = "gone"
  /\ IF part = "alerts" THEN alertRules[2] = "on" ELSE \A r \in AlertRules : alertRules[r] = "gone"
  /\ edits + faults = IF \A r \in AlertRules : alertRules[r] = "on" THEN 2 ELSE 0
Init ==
  /\ part \in {"history", "alerts", "watch", "jobs"}
  /\ InitHistory /\ InitAlerts /\ InitWatch /\ InitJobs /\ Rest
Next ==
  /\ UNCHANGED part
  /\ \/ part = "history" /\ NextHistory /\ UNCHANGED <<alertVars, watchVars, jobVars>>
     \/ part = "alerts" /\ NextAlerts /\ UNCHANGED <<historyVars, watchVars, jobVars>>
     \/ part = "watch" /\ NextWatch /\ UNCHANGED <<historyVars, alertVars, jobVars>>
     \/ part = "jobs" /\ NextJobs /\ UNCHANGED <<historyVars, alertVars, watchVars>>
Spec ==
  /\ Init /\ [][Next]_vars
  /\ FairHistory /\ FairAlerts /\ FairWatch /\ FairJobs
---------------------------------------------------------------------------
MCDuration == 1 :> 0 @@ 2 :> 1
\* What the services owe in the end: old detail is folded, alerts close when their
\* condition is gone, the state shown of a node follows its reports, tasks run again,
\* queued events are posted or given up, and a shutdown ends.
ServicesFollow ==
  DetailDrained /\ Recovers /\ NodeStateFollows /\ RunsAgain /\ Settled /\ StopEnds
=============================================================================
