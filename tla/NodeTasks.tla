------------------------------ MODULE NodeTasks ------------------------------
(***************************************************************************)
(* Remote tasks of one node: the panel's task rows (app/service_node.go,   *)
(* agent/push.go), the node's task journal, queue and worker               *)
(* (nodeclient/tasks.go) and the restart of the node service that restart  *)
(* and upgrade tasks ask for.                                              *)
(*                                                                         *)
(* The worker and the heartbeat loop run concurrently and share the        *)
(* records under one lock; every save writes all records.  What installs,  *)
(* confirms and rolls back an executable is modelled in NodeUpgrade; here  *)
(* it is one step.                                                         *)
(***************************************************************************)
EXTENDS Integers, Sequences, FiniteSets

CONSTANTS
  Tasks,      \* task identifiers, assigned in order of creation
  Kind,       \* exec, restart or upgrade, by task
  PollLimit,  \* tasks one poll offers (50 in the code)
  QueueSize,  \* capacity of the node's queue (50 in the code)
  Faults,     \* the kinds of fault that happen: subset of FaultKinds
  MaxFaults,  \* bound on faults
  NoRecord, NoTask

FaultKinds == {"request", "save", "crash"}
Final      == {"done", "failed"}

\* Releases of the node client: the first one is 0, and upgrade task t installs
\* release t.  A record names a release only for an upgrade.
Releases == {0} \cup Tasks
States   == {"queued", "running", "restart_pending"} \cup Final
Records  == [state : States, acked : BOOLEAN, version : Releases]
Journals == [Tasks -> Records \cup {NoRecord}]

ASSUME NodeTasksAssumption ==
  /\ Tasks \subseteq Nat \ {0} /\ IsFiniteSet(Tasks)
  /\ Kind \in [Tasks -> {"exec", "restart", "upgrade"}]
  /\ PollLimit \in Nat \ {0} /\ QueueSize \in Nat \ {0}
  /\ Faults \subseteq FaultKinds /\ MaxFaults \in Nat
  /\ NoRecord \notin Records /\ NoTask \notin Tasks

VARIABLES
  board,    \* node_tasks.status, "none" before the task exists
  \* node memory
  loop,     \* progress of Run and heartbeat
  ver,      \* c.version, the release that runs
  rec,      \* m.records
  resume,   \* m.resume
  queue,    \* m.queue
  worker,   \* the task m.run is executing
  signal,   \* c.restart
  offer,    \* the tasks of the last poll
  sending,  \* the results report still has to send
  \* node disk
  disk,     \* tasks.json
  exe,      \* the installed release
  backup,   \* the previous one, while the new one is unconfirmed
  \* network
  late,     \* results of requests the node gave up
  \* what happened
  runs,     \* how often a task was begun
  achieved, \* tasks that had their effect
  faults

panelVars  == <<board, late>>
workVars   == <<queue, worker, signal>>
loopVars   == <<loop, offer, sending>>
memoryVars == <<ver, rec, resume>>
exeVars    == <<exe, backup>>
histVars   == <<runs, achieved>>
vars == <<panelVars, workVars, loopVars, memoryVars, disk, exeVars, histVars, faults>>

Idle    == [pc |-> "idle", task |-> NoTask]
Stopped == [pc |-> "stopped", task |-> NoTask]
Empty   == [t \in Tasks |-> NoRecord]

Init ==
  /\ board = [t \in Tasks |-> "none"] /\ late = {}
  /\ loop = "register" /\ offer = {} /\ sending = {}
  /\ ver = 0 /\ rec = Empty /\ resume = {}
  /\ queue = <<>> /\ worker = Idle /\ signal = FALSE
  /\ disk = Empty /\ exe = 0 /\ backup = NoTask
  /\ runs = [t \in Tasks |-> 0] /\ achieved = {}
  /\ faults = 0

Fault(kind) ==
  /\ kind \in Faults /\ faults < MaxFaults
  /\ faults' = faults + 1

\* saveLocked writes the records as the step leaves them.  A failed write leaves the
\* old file, or the new one when only the directory could not be synchronised.
Saved     == disk' = rec' /\ UNCHANGED faults
NotSaved  == Fault("save") /\ disk' \in {disk, rec'}

-----------------------------------------------------------------------------
(* Panel *)

\* Identifiers are assigned in order.
createTask(t) ==
  /\ board[t] = "none" /\ \A u \in Tasks : u < t => board[u] # "none"
  /\ board' = [board EXCEPT ![t] = "pending"]
  /\ UNCHANGED <<late, workVars, loopVars, memoryVars, disk, exeVars, histVars, faults>>

\* The oldest tasks without a result.
PendingTasks ==
  {t \in Tasks : /\ board[t] = "pending"
                 /\ Cardinality({u \in Tasks : u < t /\ board[u] = "pending"}) < PollLimit}

ApplyTaskResult(t, status) == board' = [board EXCEPT ![t] = status]

\* A request the node gave up arrives after all.
handleLateResult ==
  /\ \E m \in late : ApplyTaskResult(m[1], m[2]) /\ late' = late \ {m}
  /\ UNCHANGED <<workVars, loopVars, memoryVars, disk, exeVars, histVars, faults>>

-----------------------------------------------------------------------------
(* Node: the heartbeat loop. *)

\* taskManager.registered: the new process answers for the restart.
Answer(t) ==
  LET ok == rec[t].version \in {0, ver} IN
  [rec[t] EXCEPT !.state = IF ok THEN "done" ELSE "failed"]

Resumed ==
  [t \in Tasks |-> IF t \in resume /\ rec[t] # NoRecord /\ rec[t].state = "restart_pending"
                     THEN Answer(t) ELSE rec[t]]

\* A failed save fails the registration, which is tried again with nothing left to
\* resume.
register ==
  /\ loop = "register"
  /\ backup' = IF ver = exe THEN NoTask ELSE backup
  /\ rec' = Resumed /\ resume' = {}
  /\ \/ resume = {} /\ loop' = "heartbeat" /\ UNCHANGED <<disk, faults>>
     \/ resume # {} /\ Saved /\ loop' = "heartbeat"
     \/ resume # {} /\ NotSaved /\ UNCHANGED loop
  /\ UNCHANGED <<panelVars, workVars, offer, sending, ver, exe, histVars>>

\* The answer to a heartbeat, or the task poll, carries the tasks.
heartbeat ==
  /\ loop = "heartbeat"
  /\ offer' = PendingTasks /\ loop' = "report"
  /\ UNCHANGED <<panelVars, workVars, sending, memoryVars, disk, exeVars, histVars, faults>>


\* report, first part: save, then collect what is not acknowledged.
reportSave ==
  /\ loop = "report" /\ loop' = "send"
  /\ UNCHANGED rec
  /\ \/ /\ Saved
        /\ sending' = {t \in Tasks : rec[t] # NoRecord /\ rec[t].state \in Final /\ ~rec[t].acked}
     \/ NotSaved /\ sending' = {}
  /\ UNCHANGED <<panelVars, workVars, offer, ver, resume, exeVars, histVars>>

\* report, second part, in any order: the first error ends it.
sendResult(t) ==
  /\ loop = "send" /\ t \in sending
  /\ ApplyTaskResult(t, rec[t].state)
  /\ rec' = [rec EXCEPT ![t].acked = TRUE]
  /\ \/ Saved /\ sending' = sending \ {t}
     \/ NotSaved /\ sending' = {}
  /\ UNCHANGED <<late, workVars, loop, offer, ver, resume, exeVars, histVars>>

sendFails(t) ==
  /\ loop = "send" /\ t \in sending
  /\ Fault("request")
  /\ late' = late \cup {<<t, rec[t].state>>} /\ sending' = {}
  /\ UNCHANGED <<board, workVars, loop, offer, memoryVars, disk, exeVars, histVars>>

Queued == [state |-> "queued", acked |-> FALSE, version |-> 0]

\* Mutant: only tasks still in the journal's queue are known.
Known_Unfinished(t) == rec[t] # NoRecord /\ ~rec[t].acked

\* submit knows every task it ever journalled.
Known(t) == rec[t] # NoRecord


\* submit, one task at a time, in order.  The offer was read before the results went
\* out, so it may name answered tasks; what does not fit into the queue is offered
\* again.  The lock is held for the whole loop, but the worker takes from the queue
\* without it.
submitTask ==
  /\ loop = "send" /\ sending = {} /\ offer # {}
  /\ \E t \in offer :
       /\ \A u \in offer : t <= u
       /\ IF ~Known(t) /\ Len(queue) < QueueSize
            THEN /\ queue' = Append(queue, t)
                 /\ rec' = [rec EXCEPT ![t] = Queued]
            ELSE UNCHANGED <<queue, rec>>
       /\ offer' = IF Known(t) \/ Len(queue) < QueueSize THEN offer \ {t} ELSE {}
  /\ UNCHANGED <<panelVars, worker, signal, loop, sending, ver, resume, disk, exeVars, histVars,
                 faults>>

submit ==
  /\ loop = "send" /\ sending = {} /\ offer = {}
  /\ loop' = "heartbeat"
  /\ UNCHANGED <<panelVars, workVars, offer, sending, memoryVars, disk, exeVars, histVars, faults>>

-----------------------------------------------------------------------------
(* Node: the worker. *)

\* Mutant: a task that could not be marked keeps its record.
execute_Remembered ==
  LET t == Head(queue) IN
  /\ loop # "down" /\ worker = Idle /\ queue # <<>>
  /\ queue' = Tail(queue)
  /\ rec' = [rec EXCEPT ![t] = [state |-> "running", acked |-> FALSE, version |-> 0]]
  /\ \/ Saved /\ worker' = [pc |-> "execute", task |-> t]
     \/ NotSaved /\ UNCHANGED worker
  /\ UNCHANGED <<panelVars, signal, loopVars, ver, resume, exeVars, histVars>>

\* execute, first part: the marker must be on disk before the task runs, or the
\* task is forgotten and offered again.
execute ==
  LET t      == Head(queue)
      marked == [state |-> "running", acked |-> FALSE, version |-> 0] IN
  /\ loop # "down" /\ worker = Idle /\ queue # <<>>
  /\ queue' = Tail(queue)
  /\ \/ /\ rec' = [rec EXCEPT ![t] = marked] /\ Saved
        /\ worker' = [pc |-> "execute", task |-> t]
     \/ /\ rec' = [rec EXCEPT ![t] = NoRecord]
        /\ Fault("save") /\ disk' \in {disk, [rec EXCEPT ![t] = marked]}
        /\ UNCHANGED worker
  /\ UNCHANGED <<panelVars, signal, loopVars, ver, resume, exeVars, histVars>>

\* The task itself; it may be refused or fail.  An upgrade is refused while an
\* earlier one is unconfirmed.
perform ==
  LET t == worker.task IN
  /\ worker.pc = "execute"
  /\ runs' = [runs EXCEPT ![t] = @ + 1]
  /\ \E ok \in BOOLEAN :
       /\ ok /\ Kind[t] = "upgrade" => backup = NoTask
       /\ worker' = [worker EXCEPT !.pc = IF ok THEN "ok" ELSE "error"]
       /\ achieved' = IF ok /\ Kind[t] = "exec" THEN achieved \cup {t} ELSE achieved
       /\ IF ok /\ Kind[t] = "upgrade" THEN exe' = t /\ backup' = exe ELSE UNCHANGED exeVars
  /\ UNCHANGED <<panelVars, queue, signal, loopVars, memoryVars, disk, faults>>

\* Mutant: a restart is reported as done by the process that asks for it.
Result_Early(t, ok) ==
  [rec[t] EXCEPT !.state   = IF ok THEN "done" ELSE "failed",
                 !.version = IF ok /\ Kind[t] = "upgrade" THEN t ELSE 0]

Result(t, ok) ==
  [rec[t] EXCEPT
    !.state   = IF ~ok THEN "failed" ELSE IF Kind[t] = "exec" THEN "done" ELSE "restart_pending",
    !.version = IF ok /\ Kind[t] = "upgrade" THEN t ELSE 0]

\* execute, last part.  Only a saved restart is signalled, and only then the worker
\* stops.
finish ==
  LET t == worker.task
      restart == worker.pc = "ok" /\ Kind[t] # "exec" IN
  /\ worker.pc \in {"ok", "error"}
  /\ rec' = [rec EXCEPT ![t] = Result(t, worker.pc = "ok")]
  /\ \/ Saved /\ signal' = (signal \/ restart) /\ worker' = IF restart THEN Stopped ELSE Idle
     \/ NotSaved /\ worker' = Idle /\ UNCHANGED signal
  /\ UNCHANGED <<panelVars, queue, loopVars, ver, resume, exeVars, histVars>>

-----------------------------------------------------------------------------
(* Node: exits and starts. *)

Down ==
  /\ loop' = "down" /\ offer' = {} /\ sending' = {}
  /\ rec' = Empty /\ resume' = {}
  /\ queue' = <<>> /\ worker' = Idle /\ signal' = FALSE
  /\ UNCHANGED <<panelVars, ver, disk, histVars>>

\* wait sees the signal at the end of a round, or of a failed registration.
Exit ==
  /\ signal /\ loop \in {"register", "heartbeat"}
  /\ Down /\ UNCHANGED <<exeVars, faults>>

Crash == loop # "down" /\ Fault("crash") /\ Down /\ UNCHANGED exeVars

\* The watchdog of an unconfirmed upgrade restores the backup and restarts the
\* service.
rollback ==
  /\ backup # NoTask
  /\ exe' = backup /\ backup' = NoTask
  /\ Down /\ UNCHANGED faults

\* Mutant: a task interrupted by the exit is taken for one that never ran.
Loaded_Replays(t) ==
  CASE disk[t] = NoRecord -> NoRecord
    [] disk[t] # NoRecord /\ disk[t].state \in {"queued", "running"} -> NoRecord
    [] OTHER -> disk[t]

\* newTaskManager: queued tasks are offered again, interrupted ones never run again.
Loaded(t) ==
  CASE disk[t] = NoRecord -> NoRecord
    [] disk[t] # NoRecord /\ disk[t].state = "queued"  -> NoRecord
    [] disk[t] # NoRecord /\ disk[t].state = "running" -> [disk[t] EXCEPT !.state = "failed"]
    [] OTHER -> disk[t]

Restarted(t) == Kind[t] = "restart" \/ (Kind[t] = "upgrade" /\ t = exe)

\* The service manager starts whatever is installed; a journal that cannot be saved
\* ends the process again.
Start ==
  /\ loop = "down"
  /\ ver' = exe
  /\ achieved' = achieved \cup {t \in Tasks : runs[t] > 0 /\ Restarted(t)}
  /\ \/ /\ rec' = [t \in Tasks |-> Loaded(t)] /\ Saved
        /\ resume' = {t \in Tasks : disk[t] # NoRecord /\ disk[t].state = "restart_pending"}
        /\ loop' = "register"
     \/ /\ Fault("save") /\ disk' \in {disk, [t \in Tasks |-> Loaded(t)]}
        /\ UNCHANGED <<rec, resume, loop>>
  /\ UNCHANGED <<panelVars, workVars, offer, sending, exeVars, runs>>

-----------------------------------------------------------------------------

Worker == execute \/ perform \/ finish

Loop == register \/ heartbeat \/ reportSave \/ (\E t \in Tasks : sendResult(t)) \/ submitTask \/ submit

Next ==
  \/ \E t \in Tasks : createTask(t) \/ sendFails(t)
  \/ handleLateResult \/ Loop \/ Worker \/ Exit \/ Crash \/ rollback \/ Start

Spec == Init /\ [][Next]_vars

\* Both goroutines go on, the loop leaves when it is told to, and the service
\* manager restarts the process.
Fairness ==
  /\ WF_vars(Loop) /\ SF_vars(Exit) /\ WF_vars(Start)
  /\ WF_vars(execute) /\ WF_vars(perform) /\ WF_vars(finish)

FairSpec == Spec /\ Fairness

-----------------------------------------------------------------------------

\* The task table, the journal, the queue and its bound.
TypeOK ==
  /\ board \in [Tasks -> {"none", "pending"} \cup Final]
  /\ late \in SUBSET (Tasks \X Final)
  /\ loop \in {"down", "register", "heartbeat", "report", "send"}
  /\ offer \in SUBSET Tasks /\ sending \in SUBSET Tasks
  /\ ver \in Releases /\ rec \in Journals /\ resume \in SUBSET Tasks
  /\ queue \in Seq(Tasks) /\ Len(queue) <= QueueSize
  /\ worker \in [pc : {"idle", "stopped", "execute", "ok", "error"}, task : Tasks \cup {NoTask}]
  /\ signal \in BOOLEAN
  /\ disk \in Journals
  /\ exe \in Releases /\ backup \in Releases \cup {NoTask}
  /\ runs \in [Tasks -> Nat] /\ achieved \in SUBSET Tasks
  /\ faults \in 0 .. MaxFaults

\* No task is begun twice, whatever is saved, lost or offered again
\* (tasks.go:82: "Never execute it a second time").
AtMostOnce == \A t \in Tasks : runs[t] <= 1

\* The panel calls a task done only if its command succeeded, or a process that
\* started later, of the release of an upgrade, answered for it.
DoneMeansDone == \A t \in Tasks : board[t] = "done" => t \in achieved

\* A result leaves the node only after the journal on disk holds it (tasks.go:230).
SavedBeforeReported ==
  \A t \in Tasks : \A s \in Final :
    board[t] = s \/ <<t, s>> \in late => disk[t] # NoRecord /\ disk[t].state = s

\* An answer is true and survives the process that gave it.
AnswersTrue == DoneMeansDone /\ SavedBeforeReported

\* The journal, the retries and the restarts implement the abstract task board:
\* answers are final and true, and nothing runs once it was answered.
Board == INSTANCE TaskBoard
BoardSpec == Board!Spec

\* A restart whose record could not be saved stays unanswered until the process ends
\* for another reason.
Forgotten(t) == rec[t] # NoRecord /\ rec[t].state = "restart_pending" /\ ~signal

\* Every other task is answered in the end.
Answered == \A t \in Tasks : board[t] = "pending" ~> board[t] \in Final \/ Forgotten(t)

=============================================================================
