----------------------------- MODULE NodeUpgrade -----------------------------
(***************************************************************************)
(* Online upgrade of one node client (nodeclient/upgrade.go,               *)
(* nodeclient/watchdog_linux.go): the node process that downloads and      *)
(* installs a release, the marker and the backup it leaves beside the      *)
(* executable, and the watchdog units that restore the backup.             *)
(*                                                                         *)
(* A section under the lock of the marker is several steps, one for each   *)
(* durable write, because the process may die between them; its death      *)
(* frees the lock.  A release stands for its version, its contents and     *)
(* their checksum.                                                         *)
(***************************************************************************)
EXTENDS Integers, FiniteSets

CONSTANTS
  Releases,     \* releases of the node client
  First,        \* the one installed at first
  Healthy,      \* those that can register with the panel
  Watchdogs,    \* transient units
  MaxUpgrades,  \* bound on installations begun
  Faults,       \* the kinds of fault that happen: subset of FaultKinds
  MaxFaults,    \* bound on faults
  NoRelease, NoMarker, NoOne, Node

\* crash: the node process dies; kill: a watchdog dies before it has replaced the
\* executable; torn: it dies, or cannot save the marker, after that; reboot: the machine
\* restarts; save, install, launch: another write, the installation or systemd-run fails;
\* restart: systemctl, or the removal of the marker, fails; stall: the node is suspended
\* for longer than the deadline; overlap: an upgrade begins before the watchdog of the
\* last one, which polls every second, has finished.
FaultKinds == {"crash", "kill", "torn", "reboot", "save", "install", "launch", "restart",
               "stall", "overlap"}

Markers == [new : Releases, old : Releases, expired : BOOLEAN, rolledBack : BOOLEAN]

ASSUME NodeUpgradeAssumption ==
  /\ First \in Releases /\ Healthy \subseteq Releases
  /\ IsFiniteSet(Watchdogs)
  /\ MaxUpgrades \in Nat /\ MaxFaults \in Nat
  /\ Faults \subseteq FaultKinds
  /\ NoRelease \notin Releases /\ NoMarker \notin Markers
  /\ NoOne \notin Watchdogs /\ Node \notin Watchdogs /\ NoOne # Node

VARIABLES
  \* disk
  exe,       \* the executable
  prev,      \* executable.previous
  marker,    \* upgrade-watchdog.json
  lock,      \* holder of the lock file
  \* node process
  up,        \* is there one?
  ver,       \* the release it runs
  registered,
  upgrade,   \* progress of installUpgrade, and the release it installs
  \* systemd
  unit,      \* progress of each watchdog
  \* what happened
  proven,    \* is what is installed not on trial?
  upgrades, faults

diskVars == <<exe, prev, marker, lock>>
nodeVars == <<up, ver, registered, upgrade>>
vars == <<diskVars, nodeVars, unit, proven, upgrades, faults>>

NoUpgrade == [pc |-> "none", new |-> NoRelease]

Init ==
  /\ exe = First /\ prev = NoRelease /\ marker = NoMarker /\ lock = NoOne
  /\ up = TRUE /\ ver = First /\ registered = FALSE /\ upgrade = NoUpgrade
  /\ unit = [w \in Watchdogs |-> "none"]
  /\ proven = TRUE /\ upgrades = 0 /\ faults = 0

Fault(kind) ==
  /\ kind \in Faults /\ faults < MaxFaults
  /\ faults' = faults + 1

Acquire(p) == lock = NoOne /\ lock' = p
Release(p) == lock = p /\ lock' = NoOne
\* A critical section with a single durable write.
Locked == lock = NoOne /\ UNCHANGED lock

\* saveUpgradeMarker: a failed write leaves the old file, or the new one when only the
\* directory could not be synchronised.
Saved(m)          == marker' = m /\ UNCHANGED faults
NotSaved(m, kind) == Fault(kind) /\ marker' \in {marker, m}

-----------------------------------------------------------------------------
(* Node: installUpgrade, from the verified download on. *)

At(pc) == up /\ upgrade.pc = pc
Goto(pc) == upgrade' = [upgrade EXCEPT !.pc = pc]

\* Mutant: a pending upgrade does not keep another one from beginning.
begin_Again(r) ==
  /\ At("none") /\ registered /\ upgrades < MaxUpgrades
  /\ Acquire(Node)
  /\ upgrade' = [pc |-> "backup", new |-> r]
  /\ upgrades' = upgrades + 1
  /\ UNCHANGED <<exe, prev, marker, up, ver, registered, unit, proven, faults>>

\* armUpgradeWatchdog: refused while a marker is there.
begin(r) ==
  /\ At("none") /\ registered /\ upgrades < MaxUpgrades
  /\ marker = NoMarker /\ Acquire(Node)
  /\ (\A w \in Watchdogs : unit[w] = "none") \/ "overlap" \in Faults
  /\ upgrade' = [pc |-> "backup", new |-> r]
  /\ upgrades' = upgrades + 1
  /\ UNCHANGED <<exe, prev, marker, up, ver, registered, unit, proven, faults>>


\* A backup that fails ends the upgrade; the old backup may already be replaced.
backupExecutable ==
  /\ At("backup")
  /\ \/ prev' = exe /\ Goto("mark") /\ UNCHANGED <<lock, faults>>
     \/ prev' \in {prev, exe} /\ upgrade' = NoUpgrade /\ Release(Node) /\ Fault("save")
  /\ UNCHANGED <<exe, marker, up, ver, registered, unit, proven, upgrades>>

\* When the marker cannot be saved the upgrade ends here, and nobody removes what was
\* written.
saveUpgradeMarker ==
  LET m == [new |-> upgrade.new, old |-> prev, expired |-> FALSE, rolledBack |-> FALSE] IN
  /\ At("mark") /\ Release(Node)
  /\ \/ Saved(m) /\ Goto("launch")
     \/ NotSaved(m, "save") /\ upgrade' = NoUpgrade
  /\ UNCHANGED <<exe, prev, up, ver, registered, unit, proven, upgrades>>

\* systemd-run may report a failure although the unit was started.
launch ==
  /\ At("launch")
  /\ \E w \in Watchdogs :
       /\ unit[w] = "none"
       /\ \/ unit' = [unit EXCEPT ![w] = "poll"] /\ Goto("install") /\ UNCHANGED faults
          \/ unit' \in {unit, [unit EXCEPT ![w] = "poll"]} /\ Goto("stop") /\ Fault("launch")
  /\ UNCHANGED <<diskVars, up, ver, registered, proven, upgrades>>

stopWatchdog ==
  /\ At("stop") /\ Locked
  /\ marker' = NoMarker /\ upgrade' = NoUpgrade
  /\ UNCHANGED <<exe, prev, up, ver, registered, unit, proven, upgrades, faults>>

\* The rename takes no lock.  If only the directory cannot be synchronised, the release
\* stays installed although the task fails.
install ==
  /\ At("install")
  /\ \/ exe' = upgrade.new /\ proven' = (proven /\ exe' = exe) /\ Goto("restart") /\ UNCHANGED faults
     \/ UNCHANGED <<exe, proven>> /\ Goto("stop") /\ Fault("install")
     \/ exe' = upgrade.new /\ proven' = (proven /\ exe' = exe) /\ upgrade' = NoUpgrade /\ Fault("install")
  /\ UNCHANGED <<prev, marker, lock, up, ver, registered, unit, upgrades>>

\* The task succeeded: the service ends, unless the task journal cannot be saved.
restart ==
  /\ At("restart")
  /\ \/ up' = FALSE /\ registered' = FALSE /\ UNCHANGED faults
     \/ Fault("save") /\ UNCHANGED <<up, registered>>
  /\ upgrade' = NoUpgrade
  /\ UNCHANGED <<diskVars, ver, unit, proven, upgrades>>

-----------------------------------------------------------------------------
(* Node: start, registration and end. *)

Stop ==
  /\ up' = FALSE /\ registered' = FALSE /\ upgrade' = NoUpgrade

\* Restart=always
Start ==
  /\ ~up /\ up' = TRUE /\ ver' = exe
  /\ UNCHANGED <<diskVars, registered, upgrade, unit, proven, upgrades, faults>>

Crash ==
  /\ up /\ Fault("crash") /\ Stop
  /\ lock' = IF lock = Node THEN NoOne ELSE lock
  /\ UNCHANGED <<exe, prev, marker, ver, unit, proven, upgrades>>

\* Mutant: any process that registers confirms.
Confirms_Any == marker # NoMarker

\* The process compares its own version and executable with the marker.
Confirms == marker # NoMarker /\ marker.new = ver

\* register and confirmUpgrade.  While a rollback is in progress registration fails.
register ==
  /\ up /\ ~registered /\ ver \in Healthy
  /\ marker # NoMarker => lock = NoOne /\ ~marker.rolledBack
  /\ registered' = TRUE
  /\ IF Confirms THEN marker' = NoMarker /\ proven' = TRUE ELSE UNCHANGED <<marker, proven>>
  /\ UNCHANGED <<exe, prev, lock, up, ver, upgrade, unit, upgrades, faults>>

\* The panel answers 401 or 403: register again.
unregister ==
  /\ registered /\ registered' = FALSE
  /\ UNCHANGED <<diskVars, up, ver, upgrade, unit, proven, upgrades, faults>>

-----------------------------------------------------------------------------
(* Watchdog units. *)

Step(w, from, to) == unit[w] = from /\ unit' = [unit EXCEPT ![w] = to]

\* 120 seconds pass.  What the node does between the marker and the restart takes less,
\* unless it is suspended.
Expire ==
  /\ marker # NoMarker /\ ~marker.expired
  /\ upgrade.pc \in {"launch", "install", "stop"} => "stall" \in Faults
  /\ marker' = [marker EXCEPT !.expired = TRUE]
  /\ UNCHANGED <<exe, prev, lock, nodeVars, unit, proven, upgrades, faults>>

\* The marker is gone: the unit has finished.
finished(w) ==
  /\ Locked /\ marker = NoMarker
  /\ Step(w, "poll", "none")
  /\ UNCHANGED <<diskVars, nodeVars, proven, upgrades, faults>>


\* recoverUpgrade, after the deadline: what will be done with the executable?
Restorable == exe = marker.new /\ ~marker.rolledBack /\ prev = marker.old
Restored   == exe = marker.old /\ ~(exe = marker.new /\ ~marker.rolledBack)

recoverUpgrade(w) ==
  /\ marker # NoMarker /\ marker.expired
  /\ IF Restorable \/ Restored
       THEN Acquire(w) /\ Step(w, "poll", IF Restorable THEN "restore" ELSE "save")
       ELSE Locked /\ Step(w, "poll", "failed")
  /\ UNCHANGED <<exe, prev, marker, nodeVars, proven, upgrades, faults>>

\* The backup, which is also the program of the unit, becomes the executable.
restore(w) ==
  /\ Step(w, "restore", "save")
  /\ exe' = prev /\ prev' = NoRelease /\ proven' = TRUE
  /\ UNCHANGED <<marker, lock, nodeVars, upgrades, faults>>

saveRolledBack(w) ==
  /\ Release(w)
  /\ \/ Saved([marker EXCEPT !.rolledBack = TRUE]) /\ Step(w, "save", "restart")
     \/ NotSaved([marker EXCEPT !.rolledBack = TRUE], "torn") /\ Step(w, "save", "failed")
  /\ UNCHANGED <<exe, prev, nodeVars, proven, upgrades>>

\* systemctl restart
restartService(w) ==
  /\ \/ /\ Step(w, "restart", "remove")
        /\ up' = TRUE /\ ver' = exe /\ registered' = FALSE /\ upgrade' = NoUpgrade
        /\ lock' = IF lock = Node THEN NoOne ELSE lock
        /\ UNCHANGED faults
     \/ Step(w, "restart", "failed") /\ Fault("restart") /\ UNCHANGED <<nodeVars, lock>>
  /\ UNCHANGED <<exe, prev, marker, proven, upgrades>>

removeMarker(w) ==
  /\ Locked
  /\ \/ Step(w, "remove", "none") /\ marker' = NoMarker /\ UNCHANGED faults
     \/ Step(w, "remove", "failed") /\ NotSaved(NoMarker, "restart")
  /\ UNCHANGED <<exe, prev, nodeVars, proven, upgrades>>

Kill(w) ==
  /\ unit[w] \notin {"none", "failed"} /\ Fault(IF unit[w] \in {"poll", "restore"} THEN "kill" ELSE "torn")
  /\ unit' = [unit EXCEPT ![w] = "failed"]
  /\ lock' = IF lock = w THEN NoOne ELSE lock
  /\ UNCHANGED <<exe, prev, marker, nodeVars, proven, upgrades>>

\* Restart=on-failure; the program of the unit is executable.previous.
Revive(w) ==
  /\ prev # NoRelease /\ Step(w, "failed", "poll")
  /\ UNCHANGED <<diskVars, nodeVars, proven, upgrades, faults>>

\* Transient units do not survive it.
Reboot ==
  /\ Fault("reboot") /\ Stop
  /\ unit' = [w \in Watchdogs |-> "none"] /\ lock' = NoOne
  /\ UNCHANGED <<exe, prev, marker, ver, proven, upgrades>>

-----------------------------------------------------------------------------

Install == backupExecutable \/ saveUpgradeMarker \/ launch \/ stopWatchdog \/ install \/ restart

Watchdog(w) ==
  \/ finished(w) \/ recoverUpgrade(w) \/ restore(w) \/ saveRolledBack(w) \/ restartService(w)
  \/ removeMarker(w) \/ Revive(w)

Next ==
  \/ \E r \in Releases : begin(r)
  \/ Install \/ Start \/ Crash \/ register \/ unregister \/ Expire \/ Reboot
  \/ \E w \in Watchdogs : Watchdog(w) \/ Kill(w)

Spec == Init /\ [][Next]_vars

\* The node and systemd go on; the panel answers now and then.
Fairness ==
  /\ WF_vars(Install) /\ WF_vars(Start) /\ WF_vars(register) /\ WF_vars(Expire)
  /\ \A w \in Watchdogs : WF_vars(Watchdog(w))

FairSpec == Spec /\ Fairness

-----------------------------------------------------------------------------

\* The types of the files, the process and the watchdogs.
TypeOK ==
  /\ exe \in Releases /\ prev \in Releases \cup {NoRelease}
  /\ marker \in Markers \cup {NoMarker}
  /\ lock \in {NoOne, Node} \cup Watchdogs
  /\ up \in BOOLEAN /\ ver \in Releases /\ registered \in BOOLEAN
  /\ upgrade \in [pc : {"none", "backup", "mark", "launch", "install", "stop", "restart"},
                  new : Releases \cup {NoRelease}]
  /\ unit \in [Watchdogs -> {"none", "poll", "restore", "save", "restart", "remove", "failed"}]
  /\ proven \in BOOLEAN /\ upgrades \in 0 .. MaxUpgrades /\ faults \in 0 .. MaxFaults

\* A release on trial is installed only beside an intact backup of the one it replaced
\* and a marker that names both.
Guarded ==
  ~proven => /\ marker # NoMarker /\ ~marker.rolledBack
             /\ exe = marker.new /\ prev = marker.old

\* The process that confirms an upgrade runs what is installed (watchdog_linux.go:194:
\* "confirmation and rollback cannot race"), unless a watchdog was killed between
\* putting the backup back and saying so.
ConfirmsInstalled ==
  [][proven' /\ ~registered /\ registered' /\ marker' # marker => exe = ver \/ prev = NoRelease]_vars

Trial == INSTANCE SafeUpgrade WITH
  good  <- IF proven THEN exe ELSE marker.old,
  trial <- ~proven
TrialSpec == Trial!Spec

\* No watchdog works, and none can be started again: a reboot took the units, or the
\* backup that is their program was put back.
Unattended == \A w \in Watchdogs : unit[w] = "none" \/ (unit[w] = "failed" /\ prev = NoRelease)

\* A release on trial is accepted or replaced (NODECLIENT.md:151), whatever is killed,
\* as long as a watchdog is left.
Resolved == ~proven ~> (proven \/ Unattended)

RolledBack == marker # NoMarker /\ marker.rolledBack
\* A rollback that a watchdog attends to ends, and the service may register again.
RollbackEnds == RolledBack ~> (marker = NoMarker \/ Unattended)

\* Trials and rollbacks end as long as a watchdog is left to attend to them.
UpgradeEnds == Resolved /\ RollbackEnds

\* A rollback ends, with a service that may register again
\* (watchdog_linux_test.go:49).
RestartResumes == RolledBack ~> marker = NoMarker

=============================================================================
