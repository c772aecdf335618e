------------------------------ MODULE NodeWatch ------------------------------
\* What the panel knows of a node that runs: whether it is online and whether its
\* configuration drifted, written by the node's heartbeats, by two jobs and by
\* the administrator, none of which holds a lock over what it read.
EXTENDS Integers, FiniteSets
CONSTANT Watched  \* nodes
VARIABLES
  up,        \* nodes that run and reach the panel
  diverged,  \* nodes whose configuration is not the panel's
  nodes,     \* the nodes table: online, late (last_seen past offline-node-time), drift, detail
  beat,      \* the heartbeat or registration of a node under way
  offline,   \* CheckOfflineNodes: its step and the nodes it found
  drifting,  \* DetectDrift: the nodes left and the one it computed
  heard      \* what the notification channels heard of a node last
watchVars == <<up, diverged, nodes, beat, offline, drifting, heard>>

NoBeat == [at |-> "none", online |-> FALSE, differs |-> FALSE]
IdleOffline == [at |-> "none", found |-> {}]
IdleDrift == [todo |-> {}, node |-> 0, drift |-> FALSE, detail |-> "none"]
---------------------------------------------------------------------------
\* HeartbeatHandler authenticates, which reads the node's row ...
Heartbeat(n) ==
  /\ n \in up /\ beat[n].at = "registered"
  /\ beat' = [beat EXCEPT ![n] = [at |-> "heartbeat", online |-> nodes[n].online, differs |-> n \in diverged]]
  /\ UNCHANGED <<up, diverged, nodes, offline, drifting, heard>>
\* A node registers when it starts and goes on with heartbeats.
Register(n) ==
  /\ n \in up /\ beat[n].at = "none"
  /\ beat' = [beat EXCEPT ![n] = [at |-> "register", online |-> nodes[n].online, differs |-> FALSE]]
  /\ UNCHANGED <<up, diverged, nodes, offline, drifting, heard>>
\* ... puts it online ...
BeatWrites(n) ==
  /\ beat[n].at \in {"heartbeat", "register"}
  /\ nodes' = [nodes EXCEPT ![n].online = TRUE, ![n].late = FALSE]
  /\ beat' = [beat EXCEPT ![n].at = IF @ = "heartbeat" THEN "drift" ELSE "tell"]
  /\ UNCHANGED <<up, diverged, offline, drifting, heard>>
checkConfigDrift_Once(n) ==
  /\ beat[n].at = "drift" /\ beat' = [beat EXCEPT ![n].at = "tell"]
  /\ nodes' = IF beat[n].differs THEN [nodes EXCEPT ![n].drift = TRUE, ![n].detail = "items"] ELSE nodes
  /\ UNCHANGED <<up, diverged, offline, drifting, heard>>
\* ... saves what the configuration's hash says (checkConfigDrift, SaveDrift) ...
checkConfigDrift(n) ==
  /\ beat[n].at = "drift" /\ beat' = [beat EXCEPT ![n].at = "tell"]
  /\ nodes' = [nodes EXCEPT ![n].drift = beat[n].differs,
                            ![n].detail = IF beat[n].differs THEN "items" ELSE "none"]
  /\ UNCHANGED <<up, diverged, offline, drifting, heard>>
\* ... and tells the channels when the row it read was offline.
BeatTells(n) ==
  /\ beat[n].at = "tell"
  /\ beat' = [beat EXCEPT ![n] = [NoBeat EXCEPT !.at = IF n \in up THEN "registered" ELSE "none"]]
  /\ heard' = [heard EXCEPT ![n] = IF beat[n].online THEN @ ELSE "online"]
  /\ UNCHANGED <<up, diverged, nodes, offline, drifting>>
---------------------------------------------------------------------------
\* CheckOfflineNodes finds the nodes that are late, marks them, and tells.
FindLate ==
  /\ offline.at = "none"
  /\ LET late == { n \in Watched : nodes[n].online /\ nodes[n].late }
     IN late # {} /\ offline' = [at |-> "mark", found |-> late]
  /\ UNCHANGED <<up, diverged, nodes, beat, drifting, heard>>
MarkOffline ==
  /\ offline.at = "mark" /\ offline' = [offline EXCEPT !.at = "tell"]
  /\ nodes' = [n \in Watched |-> IF n \in offline.found THEN [nodes[n] EXCEPT !.online = FALSE] ELSE nodes[n]]
  /\ UNCHANGED <<up, diverged, beat, drifting, heard>>
TellOffline ==
  /\ offline.at = "tell" /\ offline' = IdleOffline
  /\ heard' = [n \in Watched |-> IF n \in offline.found THEN "offline" ELSE heard[n]]
  /\ UNCHANGED <<up, diverged, nodes, beat, drifting>>

\* DetectDrift reads the nodes that are online ...
BeginDrift ==
  /\ drifting = IdleDrift
  /\ LET seen == { n \in Watched : nodes[n].online }
     IN seen # {} /\ drifting' = [drifting EXCEPT !.todo = seen]
  /\ UNCHANGED <<up, diverged, nodes, beat, offline, heard>>
\* ... computes each one's drift, which is what its row says already (GetDrift) ...
ComputeDrift(n) ==
  /\ drifting.node = 0 /\ n \in drifting.todo
  /\ drifting' = [todo |-> drifting.todo \ {n}, node |-> n, drift |-> nodes[n].drift, detail |-> nodes[n].detail]
  /\ UNCHANGED <<up, diverged, nodes, beat, offline, heard>>
\* ... and writes it back: the items in an object of their own, which GetDrift
\* does not read again. A row without drift is left alone.
WriteDrift ==
  /\ drifting.node # 0 /\ drifting' = [IdleDrift EXCEPT !.todo = drifting.todo]
  /\ nodes' = IF drifting.drift THEN [nodes EXCEPT ![drifting.node].drift = TRUE, ![drifting.node].detail = "object"]
              ELSE nodes
  /\ UNCHANGED <<up, diverged, beat, offline, heard>>
\* FixDrift: a new configuration version, and the mark is gone.
FixDrift(n) ==
  /\ nodes[n].online
  /\ nodes' = [nodes EXCEPT ![n].drift = FALSE, ![n].detail = "none"]
  /\ UNCHANGED <<up, diverged, beat, offline, drifting, heard>>
---------------------------------------------------------------------------
\* The node and the network: it stops and runs again, its configuration comes to
\* differ from the panel's and agrees again, its row gets late.
Toggle(set, n) == IF n \in set THEN set \ {n} ELSE set \cup {n}
Stops(n) ==
  /\ up' = Toggle(up, n)
  /\ beat' = IF beat[n].at = "registered" THEN [beat EXCEPT ![n] = NoBeat] ELSE beat
  /\ UNCHANGED <<diverged, nodes, offline, drifting, heard>>
Diverges(n) == diverged' = Toggle(diverged, n) /\ UNCHANGED <<up, nodes, beat, offline, drifting, heard>>
Late(n) ==
  /\ ~nodes[n].late /\ nodes' = [nodes EXCEPT ![n].late = TRUE]
  /\ UNCHANGED <<up, diverged, beat, offline, drifting, heard>>

InitWatch ==
  /\ up \in SUBSET Watched /\ diverged = {}
  /\ nodes = [n \in Watched |-> [online |-> FALSE, late |-> TRUE, drift |-> FALSE, detail |-> "none"]]
  /\ beat = [n \in Watched |-> NoBeat] /\ offline = IdleOffline /\ drifting = IdleDrift
  /\ heard = [n \in Watched |-> "offline"]
Beats(n) == BeatWrites(n) \/ checkConfigDrift(n) \/ BeatTells(n)
NextWatch ==
  \/ \E n \in Watched : Heartbeat(n) \/ Register(n) \/ Beats(n) \/ ComputeDrift(n) \/ FixDrift(n) \/ Stops(n) \/ Diverges(n) \/ Late(n)
  \/ FindLate \/ MarkOffline \/ TellOffline \/ BeginDrift \/ WriteDrift
\* A node registers when it starts and beats for as long as it runs, a request that
\* has begun ends, the scheduler runs the jobs, and a silent node gets late.
FairWatch ==
  /\ \A n \in Watched :
       /\ WF_watchVars(Register(n) \/ Heartbeat(n)) /\ WF_watchVars(Beats(n)) /\ WF_watchVars(Late(n) /\ n \notin up)
       /\ WF_watchVars(ComputeDrift(n))
  /\ WF_watchVars(FindLate) /\ WF_watchVars(MarkOffline) /\ WF_watchVars(TellOffline)
  /\ WF_watchVars(BeginDrift) /\ WF_watchVars(WriteDrift)
---------------------------------------------------------------------------
\* A node that stays silent is offline in the end and for good, although requests
\* and the drift job write its row in between (CheckOfflineNodes).
SilentGoesOffline == \A n \in Watched : <>[](n \notin up) => <>[](~nodes[n].online)

\* A node that keeps beating is shown online again, however often the job marks
\* it from a row it read before the beat (HeartbeatHandler).
BeatingComesBack == \A n \in Watched : <>[](n \in up) => []<>(nodes[n].online)

\* The mark of drift of a node that beats and has the panel's configuration goes
\* again, although the job writes it back from what it read (checkConfigDrift).
DriftGoes == \A n \in Watched : <>[](n \in up /\ n \notin diverged) => []<>(~nodes[n].drift)

\* What the panel shows of a node follows what the node does, though jobs and
\* requests write whole rows they read earlier.
NodeStateFollows == SilentGoesOffline /\ BeatingComesBack /\ DriftGoes
=============================================================================
