---------------------------- MODULE NodeServicesProofs ----------------------------
(***************************************************************************)
(* Proofs about what a node does for its panel and for other nodes: tasks, *)
(* for any tasks, limits and faults, then terminals, for any streams and   *)
(* requests, and tunnels, for any streams and connections.                 *)
(*                                                                         *)
(* Tasks.  The inductive invariant says: nothing is left of a process that *)
(* ended (Off); the queue holds each queued task once (InQueue); the       *)
(* worker's task is marked in memory and on disk (Working); whatever was   *)
(* begun has a record that will not be offered again (Begun); an answer is *)
(* what the journal says (Settled); and "done" is written only of tasks    *)
(* that had their effect (Truthful).                                       *)
(***************************************************************************)
EXTENDS NodeTasks, Terminals, NodeTunnel, FiniteSetTheorems, TLAPS

Threads == [pc : {"idle", "stopped", "execute", "ok", "error"}, task : Tasks \cup {NoTask}]

TypeInv == TypeOK

Off ==
  loop = "down" => /\ rec = Empty /\ queue = <<>> /\ worker = Idle
                   /\ sending = {} /\ resume = {} /\ offer = {}

InQueue ==
  /\ \A i \in 1 .. Len(queue) : rec[queue[i]] # NoRecord /\ rec[queue[i]].state = "queued"
  /\ \A i, j \in 1 .. Len(queue) : queue[i] = queue[j] => i = j

Marked(r) == r # NoRecord /\ r.state = "running"

Working ==
  /\ worker.pc \in {"idle", "stopped"} => worker.task = NoTask
  /\ worker.pc \in {"execute", "ok", "error"} =>
       /\ worker.task \in Tasks
       /\ Marked(rec[worker.task]) /\ Marked(disk[worker.task])
       /\ runs[worker.task] = IF worker.pc = "execute" THEN 0 ELSE 1
  /\ \A t \in Tasks : Marked(rec[t]) => worker.task = t

Kept(r) == r # NoRecord /\ r.state # "queued"

Asked(t, r) ==
  r # NoRecord /\ r.state = "restart_pending" =>
    /\ runs[t] = 1 /\ Kind[t] # "exec"
    /\ r.version = IF Kind[t] = "upgrade" THEN t ELSE 0

Begun ==
  \A t \in Tasks :
    /\ runs[t] \in {0, 1}
    /\ runs[t] = 1 => Kept(disk[t]) /\ (loop # "down" => Kept(rec[t]))
    /\ Asked(t, rec[t]) /\ Asked(t, disk[t])

Created ==
  \A t \in Tasks : rec[t] # NoRecord \/ disk[t] # NoRecord \/ t \in offer => board[t] # "none"

Holds(r, s) == r # NoRecord /\ r.state = s

Settled ==
  /\ \A t \in Tasks : \A s \in Final :
       board[t] = s \/ <<t, s>> \in late =>
         Holds(disk[t], s) /\ (loop # "down" => Holds(rec[t], s))
  /\ \A t \in sending : \E s \in Final : Holds(disk[t], s) /\ Holds(rec[t], s)

Truthful ==
  /\ \A t \in Tasks : Holds(rec[t], "done") \/ Holds(disk[t], "done") => t \in achieved
  /\ worker.pc = "ok" /\ Kind[worker.task] = "exec" => worker.task \in achieved
  /\ \A t \in resume : /\ loop = "register" /\ Holds(rec[t], "restart_pending")
                       /\ (rec[t].version \in {0, ver} => t \in achieved)

IInv == TypeInv /\ Off /\ InQueue /\ Working /\ Begun /\ Created /\ Settled /\ Truthful

USE NodeTasksAssumption
USE DEF Threads, vars, panelVars, workVars, loopVars, memoryVars, exeVars, histVars

LEMMA InitIInv == Init => IInv
<1> SUFFICES ASSUME Init PROVE IInv
  OBVIOUS
<1>1. TypeInv
  <2>1. 0 \in Releases /\ 0 \in 0 .. MaxFaults /\ Empty \in Journals
    BY DEF Releases, Journals, Empty
  <2>2. queue \in Seq(Tasks) /\ Len(queue) <= QueueSize
    BY DEF Init
  <2> QED
    BY <2>1, <2>2 DEF Init, TypeInv, TypeOK, Idle
<1>2. Off /\ InQueue /\ Working /\ Begun /\ Created
  BY DEF Init, Off, InQueue, Working, Marked, Begun, Kept, Asked, Created, Empty, Idle
<1>3. Settled /\ Truthful
  BY DEF Init, Settled, Truthful, Holds, Final, Empty, Idle
<1> QED
  BY <1>1, <1>2, <1>3 DEF IInv

\* Whatever happens, a save leaves the old journal or the new one.
LEMMA SaveTypes ==
  ASSUME TypeInv, rec' \in Journals, Saved \/ NotSaved
  PROVE  disk' \in Journals /\ faults' \in 0 .. MaxFaults
BY DEF Saved, NotSaved, Fault, TypeInv, TypeOK

LEMMA DownTypes ==
  ASSUME TypeInv, Down
  PROVE  /\ rec' \in Journals /\ resume' \in SUBSET Tasks /\ loop' = "down"
         /\ queue' \in Seq(Tasks) /\ Len(queue') <= QueueSize
         /\ worker' \in Threads
         /\ offer' \in SUBSET Tasks /\ sending' \in SUBSET Tasks /\ signal' \in BOOLEAN
<1>1. queue' \in Seq(Tasks) /\ Len(queue') <= QueueSize
  BY DEF Down
<1>2. rec' \in Journals
  BY DEF Down, Empty, Journals
<1>3. worker' \in Threads
  BY DEF Down, Idle
<1> QED
  BY <1>1, <1>2, <1>3 DEF Down

LEMMA RecordTypes ==
  ASSUME TypeInv, NEW t \in Tasks
  PROVE  /\ Queued \in Records
         /\ rec[t] # NoRecord =>
              /\ rec[t] \in Records
              /\ Answer(t) \in Records
              /\ [rec[t] EXCEPT !.acked = TRUE] \in Records
              /\ \A ok \in BOOLEAN : Result(t, ok) \in Records
         /\ Loaded(t) \in Records \cup {NoRecord}
<1>1. rec[t] # NoRecord => rec[t] \in Records
  BY DEF TypeInv, TypeOK, Journals
<1>2. disk[t] # NoRecord => disk[t] \in Records
  BY DEF TypeInv, TypeOK, Journals
<1>3. Queued \in Records
  BY DEF Queued, Records, States, Releases
<1>4. rec[t] # NoRecord => Answer(t) \in Records /\ [rec[t] EXCEPT !.acked = TRUE] \in Records
  BY <1>1 DEF Answer, Records, States, Final, Releases
<1>5. ASSUME rec[t] # NoRecord, NEW ok \in BOOLEAN PROVE Result(t, ok) \in Records
  BY <1>1, <1>5 DEF Result, Records, States, Final, Releases
<1>6. Loaded(t) \in Records \cup {NoRecord}
  BY <1>2 DEF Loaded, Records, States, Final, Releases
<1> QED
  BY <1>1, <1>3, <1>4, <1>5, <1>6

LEMMA TypeStep ==
  IInv /\ [Next]_vars => TypeInv'
<1> SUFFICES ASSUME TypeInv, InQueue, Working, Settled, [Next]_vars PROVE TypeInv'
  BY DEF IInv
<1>1. CASE UNCHANGED vars
  BY <1>1 DEF TypeInv, TypeOK
<1>2. ASSUME NEW t \in Tasks, createTask(t) PROVE TypeInv'
  BY <1>2 DEF createTask, TypeInv, TypeOK
<1>3. ASSUME NEW t \in Tasks, sendFails(t) PROVE TypeInv'
  <2>1. rec[t].state \in Final
    BY <1>3 DEF sendFails, Settled, Holds
  <2> QED
    BY <1>3, <2>1 DEF sendFails, Fault, TypeInv, TypeOK
<1>4. ASSUME handleLateResult PROVE TypeInv'
  <2>1. PICK m \in late : ApplyTaskResult(m[1], m[2]) /\ late' = late \ {m}
    BY <1>4 DEF handleLateResult
  <2>2. m[1] \in Tasks /\ m[2] \in Final
    BY <2>1 DEF TypeInv, TypeOK
  <2> QED
    BY <1>4, <2>1, <2>2 DEF handleLateResult, ApplyTaskResult, TypeInv, TypeOK
<1>5. ASSUME register PROVE TypeInv'
  <2>1. rec' \in Journals
    BY <1>5, RecordTypes DEF register, Resumed, TypeInv, TypeOK, Journals
  <2>2. disk' \in Journals /\ faults' \in 0 .. MaxFaults
    BY <1>5, <2>1, SaveTypes DEF register, TypeInv, TypeOK
  <2> QED
    BY <1>5, <2>1, <2>2 DEF register, TypeInv, TypeOK
<1>6. ASSUME heartbeat PROVE TypeInv'
  BY <1>6 DEF heartbeat, PendingTasks, TypeInv, TypeOK
<1>7. ASSUME reportSave PROVE TypeInv'
  <2>1. rec' \in Journals
    BY <1>7, RecordTypes DEF reportSave, TypeInv, TypeOK
  <2>2. disk' \in Journals /\ faults' \in 0 .. MaxFaults
    BY <1>7, <2>1, SaveTypes DEF reportSave
  <2> QED
    BY <1>7, <2>1, <2>2 DEF reportSave, TypeInv, TypeOK
<1>8. ASSUME NEW t \in Tasks, sendResult(t) PROVE TypeInv'
  <2>1. rec[t] # NoRecord /\ rec[t].state \in Final
    BY <1>8 DEF sendResult, Settled, Holds
  <2>2. [rec[t] EXCEPT !.acked = TRUE] \in Records
    BY <2>1, RecordTypes
  <2>3. rec' = [rec EXCEPT ![t] = [rec[t] EXCEPT !.acked = TRUE]]
    BY <1>8 DEF sendResult
  <2>4. rec' \in Journals
    BY <2>2, <2>3 DEF TypeInv, TypeOK, Journals
  <2>5. disk' \in Journals /\ faults' \in 0 .. MaxFaults
    BY <1>8, <2>4, SaveTypes DEF sendResult
  <2>6. board' \in [Tasks -> {"none", "pending"} \cup Final]
    BY <1>8, <2>1 DEF sendResult, ApplyTaskResult, TypeInv, TypeOK
  <2> QED
    BY <1>8, <2>4, <2>5, <2>6 DEF sendResult, TypeInv, TypeOK
<1>9. ASSUME submitTask PROVE TypeInv'
  <2>1. PICK t \in offer :
          /\ IF ~Known(t) /\ Len(queue) < QueueSize
               THEN queue' = Append(queue, t) /\ rec' = [rec EXCEPT ![t] = Queued]
               ELSE UNCHANGED <<queue, rec>>
          /\ offer' = IF Known(t) \/ Len(queue) < QueueSize THEN offer \ {t} ELSE {}
    BY <1>9 DEF submitTask
  <2>2. t \in Tasks /\ Queued \in Records
    BY <2>1, RecordTypes DEF TypeInv, TypeOK
  <2>3. rec' \in Journals
    BY <2>1, <2>2 DEF TypeInv, TypeOK, Journals
  <2>4. queue' \in Seq(Tasks) /\ Len(queue') <= QueueSize
    <3>1. queue \in Seq(Tasks) /\ Len(queue) <= QueueSize
      BY DEF TypeInv, TypeOK
    <3>2. CASE queue' = Append(queue, t) /\ Len(queue) < QueueSize
      BY <2>2, <3>1, <3>2
    <3>3. CASE queue' = queue
      BY <3>1, <3>3
    <3> QED
      BY <2>1, <3>2, <3>3
  <2> QED
    BY <1>9, <2>1, <2>3, <2>4 DEF submitTask, TypeInv, TypeOK
<1>10. ASSUME submit PROVE TypeInv'
  BY <1>10 DEF submit, TypeInv, TypeOK
<1>11. ASSUME execute PROVE TypeInv'
  <2> DEFINE t == Head(queue)
             marked == [state |-> "running", acked |-> FALSE, version |-> 0]
  <2>1. t \in Tasks /\ Tail(queue) \in Seq(Tasks) /\ Len(Tail(queue)) <= QueueSize
    BY <1>11 DEF execute, TypeInv, TypeOK
  <2>2. marked \in Records
    BY DEF Records, States, Releases
  <2>3. [rec EXCEPT ![t] = marked] \in Journals /\ [rec EXCEPT ![t] = NoRecord] \in Journals
    BY <2>1, <2>2 DEF TypeInv, TypeOK, Journals
  <2>4. rec' \in Journals /\ disk' \in Journals /\ faults' \in 0 .. MaxFaults
    <3>1. /\ rec' \in {[rec EXCEPT ![t] = marked], [rec EXCEPT ![t] = NoRecord]}
          /\ disk' \in {disk, [rec EXCEPT ![t] = marked]}
      BY <1>11 DEF execute, Saved
    <3>2. faults' \in 0 .. MaxFaults
      BY <1>11 DEF execute, Saved, Fault, TypeInv, TypeOK
    <3> QED
      BY <2>3, <3>1, <3>2 DEF TypeInv, TypeOK
  <2>5. worker' \in Threads
    BY <1>11, <2>1 DEF execute, TypeInv, TypeOK
  <2> QED
    BY <1>11, <2>1, <2>4, <2>5 DEF execute, TypeInv, TypeOK
<1>12. ASSUME perform PROVE TypeInv'
  <2> DEFINE t == worker.task
  <2>1. t \in Tasks
    BY <1>12 DEF perform, Working
  <2>2. PICK ok \in BOOLEAN :
          /\ worker' = [worker EXCEPT !.pc = IF ok THEN "ok" ELSE "error"]
          /\ achieved' = IF ok /\ Kind[t] = "exec" THEN achieved \cup {t} ELSE achieved
          /\ IF ok /\ Kind[t] = "upgrade" THEN exe' = t /\ backup' = exe ELSE UNCHANGED exeVars
    BY <1>12 DEF perform
  <2>3. worker' \in Threads
    BY <2>2 DEF TypeInv, TypeOK
  <2>4. achieved' \in SUBSET Tasks /\ exe' \in Releases /\ backup' \in Releases \cup {NoTask}
    BY <2>1, <2>2 DEF TypeInv, TypeOK, Releases
  <2>5. runs' \in [Tasks -> Nat]
    BY <1>12, <2>1 DEF perform, TypeInv, TypeOK
  <2> QED
    BY <1>12, <2>3, <2>4, <2>5 DEF perform, TypeInv, TypeOK
<1>13. ASSUME finish PROVE TypeInv'
  <2> DEFINE t == worker.task
  <2>1. t \in Tasks /\ rec[t] # NoRecord
    BY <1>13 DEF finish, Working, Marked
  <2>2. Result(t, worker.pc = "ok") \in Records
    BY <2>1, RecordTypes
  <2>3. rec' \in Journals
    BY <1>13, <2>1, <2>2 DEF finish, TypeInv, TypeOK, Journals
  <2>4. disk' \in Journals /\ faults' \in 0 .. MaxFaults
    BY <1>13, <2>3, SaveTypes DEF finish
  <2>5. worker' \in {Idle, Stopped} /\ signal' \in BOOLEAN
    BY <1>13 DEF finish, TypeInv, TypeOK
  <2> QED
    BY <1>13, <2>3, <2>4, <2>5 DEF finish, Idle, Stopped, TypeInv, TypeOK
<1>14. ASSUME Exit PROVE TypeInv'
  <2>1. Down
    BY <1>14 DEF Exit
  <2>2. exe' \in Releases /\ backup' \in Releases \cup {NoTask} /\ faults' \in 0 .. MaxFaults
    BY <1>14, <2>1 DEF Exit, Down, Fault, TypeInv, TypeOK
  <2> QED
    BY <2>1, <2>2, DownTypes DEF Down, TypeInv, TypeOK
<1>15. ASSUME Crash PROVE TypeInv'
  <2>1. Down
    BY <1>15 DEF Crash
  <2>2. exe' \in Releases /\ backup' \in Releases \cup {NoTask} /\ faults' \in 0 .. MaxFaults
    BY <1>15, <2>1 DEF Crash, Down, Fault, TypeInv, TypeOK
  <2> QED
    BY <2>1, <2>2, DownTypes DEF Down, TypeInv, TypeOK
<1>16. ASSUME rollback PROVE TypeInv'
  <2>1. Down
    BY <1>16 DEF rollback
  <2>2. exe' \in Releases /\ backup' \in Releases \cup {NoTask} /\ faults' \in 0 .. MaxFaults
    BY <1>16, <2>1 DEF rollback, Down, Fault, TypeInv, TypeOK
  <2> QED
    BY <2>1, <2>2, DownTypes DEF Down, TypeInv, TypeOK
<1>17. ASSUME Start PROVE TypeInv'
  <2>1. [t \in Tasks |-> Loaded(t)] \in Journals
    BY RecordTypes DEF Journals
  <2>2. rec' \in Journals /\ disk' \in Journals /\ faults' \in 0 .. MaxFaults
    <3>1. rec' \in {rec, [t \in Tasks |-> Loaded(t)]} /\ disk' \in {disk, [t \in Tasks |-> Loaded(t)]}
      BY <1>17 DEF Start, Saved
    <3>2. faults' \in 0 .. MaxFaults
      BY <1>17 DEF Start, Saved, Fault, TypeInv, TypeOK
    <3> QED
      BY <2>1, <3>1, <3>2 DEF TypeInv, TypeOK
  <2>3. achieved' \in SUBSET Tasks /\ resume' \in SUBSET Tasks
    BY <1>17 DEF Start, TypeInv, TypeOK
  <2> QED
    BY <1>17, <2>2, <2>3 DEF Start, TypeInv, TypeOK
<1> QED
  BY <1>1, <1>2, <1>3, <1>4, <1>5, <1>6, <1>7, <1>8, <1>9, <1>10, <1>11, <1>12, <1>13, <1>14,
     <1>15, <1>16, <1>17 DEF Next, Loop, Worker

LEMMA OffStep ==
  IInv /\ [Next]_vars => Off'
<1> SUFFICES ASSUME TypeInv, Off, InQueue, Working, Begun, Created, Settled, Truthful, [Next]_vars
             PROVE  Off'
  BY DEF IInv
<1>1. CASE UNCHANGED vars
  BY <1>1 DEF Off
<1>2. ASSUME NEW t \in Tasks, createTask(t) PROVE Off'
  BY <1>2 DEF createTask, Off
<1>3. ASSUME NEW t \in Tasks, sendFails(t) PROVE Off'
  BY <1>3 DEF sendFails, Fault, Off
<1>4. ASSUME handleLateResult PROVE Off'
  BY <1>4 DEF handleLateResult, ApplyTaskResult, Off
<1>5. ASSUME register PROVE Off'
  BY <1>5 DEF register, Saved, NotSaved, Fault, Resumed, Answer, Off
<1>6. ASSUME heartbeat PROVE Off'
  BY <1>6 DEF heartbeat, PendingTasks, Off
<1>7. ASSUME reportSave PROVE Off'
  BY <1>7 DEF reportSave, Saved, NotSaved, Fault, Off
<1>8. ASSUME NEW t \in Tasks, sendResult(t) PROVE Off'
  BY <1>8 DEF sendResult, ApplyTaskResult, Saved, NotSaved, Fault, Off
<1>9. ASSUME submitTask PROVE Off'
  BY <1>9 DEF submitTask, Known, Queued, Off
<1>10. ASSUME submit PROVE Off'
  BY <1>10 DEF submit, Off
<1>11. ASSUME execute PROVE Off'
  BY <1>11 DEF execute, Saved, Fault, Idle, Off
<1>12. ASSUME perform PROVE Off'
  BY <1>12 DEF perform, Off, Idle
<1>13. ASSUME finish PROVE Off'
  BY <1>13 DEF finish, Saved, NotSaved, Fault, Result, Idle, Stopped, Off
<1>14. ASSUME Exit PROVE Off'
  BY <1>14 DEF Exit, Down, Empty, Idle, Off
<1>15. ASSUME Crash PROVE Off'
  BY <1>15 DEF Crash, Down, Fault, Empty, Idle, Off
<1>16. ASSUME rollback PROVE Off'
  BY <1>16 DEF rollback, Down, Empty, Idle, Off
<1>17. ASSUME Start PROVE Off'
  BY <1>17 DEF Start, Saved, Fault, Loaded, Restarted, Off
<1> QED
  BY <1>1, <1>2, <1>3, <1>4, <1>5, <1>6, <1>7, <1>8, <1>9, <1>10, <1>11, <1>12, <1>13, <1>14,
     <1>15, <1>16, <1>17 DEF Next, Loop, Worker

LEMMA InQueueStep ==
  IInv /\ [Next]_vars => InQueue'
<1> SUFFICES ASSUME TypeInv, Off, InQueue, Working, Begun, Created, Settled, Truthful, [Next]_vars
             PROVE  InQueue'
  BY DEF IInv
<1>1. CASE UNCHANGED vars
  BY <1>1 DEF InQueue
<1>2. ASSUME NEW t \in Tasks, createTask(t) PROVE InQueue'
  BY <1>2 DEF createTask, InQueue
<1>3. ASSUME NEW t \in Tasks, sendFails(t) PROVE InQueue'
  BY <1>3 DEF sendFails, Fault, InQueue
<1>4. ASSUME handleLateResult PROVE InQueue'
  BY <1>4 DEF handleLateResult, ApplyTaskResult, InQueue
<1>5. ASSUME register PROVE InQueue'
  <2>1. queue' = queue /\ \A i \in 1 .. Len(queue) : queue[i] \in Tasks
    BY <1>5 DEF register, TypeInv, TypeOK
  <2>2. \A u \in Tasks : rec[u] # NoRecord /\ rec[u].state = "queued" => rec'[u] = rec[u]
    BY <1>5 DEF register, Resumed
  <2> QED
    BY <2>1, <2>2 DEF InQueue
<1>6. ASSUME heartbeat PROVE InQueue'
  BY <1>6 DEF heartbeat, PendingTasks, InQueue
<1>7. ASSUME reportSave PROVE InQueue'
  BY <1>7 DEF reportSave, Saved, NotSaved, Fault, InQueue
<1>8. ASSUME NEW t \in Tasks, sendResult(t) PROVE InQueue'
  <2>1. rec[t] # NoRecord /\ rec[t].state \in Final /\ queue' = queue /\ DOMAIN rec = Tasks
    BY <1>8 DEF sendResult, Settled, Holds, TypeInv, TypeOK, Journals
  <2>2. \A u \in Tasks \ {t} : rec'[u] = rec[u]
    BY <1>8, <2>1 DEF sendResult
  <2>3. \A i \in 1 .. Len(queue) : queue[i] \in Tasks \ {t}
    BY <2>1 DEF InQueue, Final, TypeInv, TypeOK
  <2> QED
    BY <2>1, <2>2, <2>3 DEF InQueue
<1>9. ASSUME submitTask PROVE InQueue'
  <2>1. PICK t \in offer :
          IF ~Known(t) /\ Len(queue) < QueueSize
            THEN queue' = Append(queue, t) /\ rec' = [rec EXCEPT ![t] = Queued]
            ELSE UNCHANGED <<queue, rec>>
    BY <1>9 DEF submitTask
  <2>2. CASE UNCHANGED <<queue, rec>>
    BY <2>2 DEF InQueue
  <2>3. CASE rec[t] = NoRecord /\ queue' = Append(queue, t) /\ rec' = [rec EXCEPT ![t] = Queued]
    <3>1. t \in Tasks /\ queue \in Seq(Tasks) /\ DOMAIN rec = Tasks
      BY <2>1 DEF TypeInv, TypeOK, Journals
    <3>2. Len(queue') = Len(queue) + 1 /\ queue'[Len(queue) + 1] = t
      BY <2>3, <3>1
    <3>3. \A i \in 1 .. Len(queue) : queue'[i] = queue[i] /\ queue[i] # t
      BY <2>3, <3>1 DEF InQueue
    <3>4. /\ rec'[t] # NoRecord /\ rec'[t].state = "queued"
          /\ \A u \in Tasks \ {t} : rec'[u] = rec[u]
      <4>1. Queued \in Records /\ Queued.state = "queued"
        BY <3>1, RecordTypes DEF Queued
      <4> QED
        BY <2>3, <3>1, <4>1
    <3>5. \A i \in 1 .. Len(queue') : i \in 1 .. Len(queue) \/ i = Len(queue) + 1
      BY <3>1, <3>2
    <3>6. \A i \in 1 .. Len(queue') : rec'[queue'[i]] # NoRecord /\ rec'[queue'[i]].state = "queued"
      <4>1. ASSUME NEW i \in 1 .. Len(queue)
            PROVE  rec'[queue'[i]] # NoRecord /\ rec'[queue'[i]].state = "queued"
        <5>1. queue[i] \in Tasks \ {t}
          BY <3>1, <3>3
        <5> QED
          BY <3>3, <3>4, <5>1 DEF InQueue
      <4> QED
        BY <3>2, <3>4, <3>5, <4>1
    <3>7. \A i, j \in 1 .. Len(queue') : queue'[i] = queue'[j] => i = j
      BY <3>1, <3>2, <3>3, <3>5 DEF InQueue
    <3> QED
      BY <3>6, <3>7 DEF InQueue
  <2> QED
    BY <2>1, <2>2, <2>3 DEF Known
<1>10. ASSUME submit PROVE InQueue'
  BY <1>10 DEF submit, InQueue
<1>11. ASSUME execute PROVE InQueue'
  <2> DEFINE t == Head(queue)
             marked == [state |-> "running", acked |-> FALSE, version |-> 0]
  <2>1. queue \in Seq(Tasks) /\ queue # <<>> /\ DOMAIN rec = Tasks /\ t = queue[1] /\ t \in Tasks
    BY <1>11 DEF execute, TypeInv, TypeOK, Journals
  <2>2. queue' = Tail(queue) /\ (rec' = [rec EXCEPT ![t] = marked] \/ rec' = [rec EXCEPT ![t] = NoRecord])
    BY <1>11 DEF execute
  <2>3. /\ Len(queue') = Len(queue) - 1
        /\ \A i \in 1 .. Len(queue') : queue'[i] = queue[i + 1] /\ queue'[i] \in Tasks
    BY <2>1, <2>2
  <2>4. \A i \in 1 .. Len(queue') : queue'[i] # t /\ rec'[queue'[i]] = rec[queue'[i]]
    <3>1. ASSUME NEW i \in 1 .. Len(queue') PROVE queue'[i] # t
      <4>1. 1 \in 1 .. Len(queue) /\ i + 1 \in 1 .. Len(queue) /\ i + 1 # 1
        BY <2>1, <2>3
      <4> QED
        BY <2>1, <2>3, <4>1 DEF InQueue
    <3>2. \A u \in Tasks \ {t} : rec'[u] = rec[u]
      BY <2>1, <2>2
    <3> QED
      BY <2>3, <3>1, <3>2
  <2> QED
    BY SMTT(30), <2>1, <2>3, <2>4 DEF InQueue
<1>12. ASSUME perform PROVE InQueue'
  BY <1>12 DEF perform, InQueue
<1>13. ASSUME finish PROVE InQueue'
  <2> DEFINE t == worker.task
  <2>1. t \in Tasks /\ Marked(rec[t]) /\ queue' = queue /\ DOMAIN rec = Tasks
    BY <1>13 DEF finish, Working, TypeInv, TypeOK, Journals
  <2>2. \A u \in Tasks \ {t} : rec'[u] = rec[u]
    BY <1>13, <2>1 DEF finish
  <2>3. \A i \in 1 .. Len(queue) : queue[i] \in Tasks \ {t}
    BY <2>1 DEF InQueue, Marked, TypeInv, TypeOK
  <2> QED
    BY <2>1, <2>2, <2>3 DEF InQueue
<1>14. ASSUME Exit PROVE InQueue'
  BY <1>14 DEF Exit, Down, Empty, Idle, InQueue
<1>15. ASSUME Crash PROVE InQueue'
  BY <1>15 DEF Crash, Down, Fault, Empty, Idle, InQueue
<1>16. ASSUME rollback PROVE InQueue'
  BY <1>16 DEF rollback, Down, Empty, Idle, InQueue
<1>17. ASSUME Start PROVE InQueue'
  <2>1. queue' = queue /\ queue = <<>>
    BY <1>17 DEF Start, Off
  <2> QED
    BY <2>1 DEF InQueue
<1> QED
  BY <1>1, <1>2, <1>3, <1>4, <1>5, <1>6, <1>7, <1>8, <1>9, <1>10, <1>11, <1>12, <1>13, <1>14,
     <1>15, <1>16, <1>17 DEF Next, Loop, Worker

LEMMA WorkingStep ==
  IInv /\ [Next]_vars => Working'
<1> SUFFICES ASSUME TypeInv, Off, InQueue, Working, Begun, Created, Settled, Truthful, [Next]_vars
             PROVE  Working'
  BY DEF IInv
<1>1. CASE UNCHANGED vars
  BY <1>1 DEF Working, Marked
<1>2. ASSUME NEW t \in Tasks, createTask(t) PROVE Working'
  BY <1>2 DEF createTask, Working, Marked
<1>3. ASSUME NEW t \in Tasks, sendFails(t) PROVE Working'
  BY <1>3 DEF sendFails, Fault, Working, Marked
<1>4. ASSUME handleLateResult PROVE Working'
  BY <1>4 DEF handleLateResult, ApplyTaskResult, Working, Marked
<1>5. ASSUME register PROVE Working'
  <2>1. UNCHANGED <<worker, runs>> /\ \A t \in Tasks : Marked(rec'[t]) <=> Marked(rec[t])
    BY SMTT(30), <1>5, RecordTypes DEF register, Resumed, Answer, Marked, TypeInv, TypeOK, Records, States,
       Final
  <2>2. \A t \in Tasks : Marked(rec[t]) /\ Marked(disk[t]) => Marked(disk'[t])
    BY <1>5, <2>1 DEF register, Saved, NotSaved
  <2> QED
    BY <2>1, <2>2 DEF Working
<1>6. ASSUME heartbeat PROVE Working'
  BY <1>6 DEF heartbeat, PendingTasks, Working, Marked
<1>7. ASSUME reportSave PROVE Working'
  <2>1. UNCHANGED <<worker, runs, rec>>
    BY <1>7 DEF reportSave
  <2>2. \A u \in Tasks : Marked(rec[u]) /\ Marked(disk[u]) => Marked(disk'[u])
    BY <1>7, <2>1 DEF reportSave, Saved, NotSaved
  <2> QED
    BY <2>1, <2>2 DEF Working
<1>8. ASSUME NEW t \in Tasks, sendResult(t) PROVE Working'
  <2>1. UNCHANGED <<worker, runs>> /\ \A u \in Tasks : Marked(rec'[u]) <=> Marked(rec[u])
    BY <1>8 DEF sendResult, Settled, Holds, Marked, Final, TypeInv, TypeOK, Journals, Records
  <2>2. \A u \in Tasks : Marked(rec[u]) /\ Marked(disk[u]) => Marked(disk'[u])
    BY <1>8, <2>1 DEF sendResult, Saved, NotSaved
  <2> QED
    BY <2>1, <2>2 DEF Working
<1>9. ASSUME submitTask PROVE Working'
  <2>1. UNCHANGED <<worker, runs, disk>> /\ \A u \in Tasks : Marked(rec'[u]) <=> Marked(rec[u])
    BY <1>9 DEF submitTask, Known, Queued, Marked, TypeInv, TypeOK, Journals
  <2> QED
    BY <2>1 DEF Working
<1>10. ASSUME submit PROVE Working'
  BY <1>10 DEF submit, Working, Marked
<1>11. ASSUME execute PROVE Working'
  <2> DEFINE t == Head(queue)
             marked == [state |-> "running", acked |-> FALSE, version |-> 0]
  <2>1. t \in Tasks /\ DOMAIN rec = Tasks /\ rec[t] # NoRecord /\ rec[t].state = "queued"
    BY <1>11 DEF execute, InQueue, TypeInv, TypeOK, Journals
  <2>2. runs[t] = 0 /\ runs' = runs
    <3>1. loop # "down" /\ ~Kept(rec[t]) /\ runs' = runs
      BY <1>11, <2>1 DEF execute, Kept
    <3> QED
      BY <2>1, <3>1 DEF Begun
  <2>3. marked.state = "running" /\ marked # NoRecord
    <3>1. marked \in Records
      BY DEF Records, States, Releases
    <3> QED
      BY <3>1
  <2>4. \A u \in Tasks : ~Marked(rec[u])
    BY <1>11 DEF execute, Working, Idle
  <2>5. CASE /\ rec' = [rec EXCEPT ![t] = marked] /\ Saved
             /\ worker' = [pc |-> "execute", task |-> t]
    <3>1. rec'[t] = marked /\ disk' = rec' /\ \A u \in Tasks \ {t} : rec'[u] = rec[u]
      BY <2>1, <2>5 DEF Saved
    <3> QED
      BY <2>1, <2>2, <2>3, <2>4, <2>5, <3>1 DEF Working, Marked
  <2>6. CASE rec' = [rec EXCEPT ![t] = NoRecord] /\ UNCHANGED worker
    <3>1. worker' = Idle
      BY <1>11, <2>6 DEF execute
    <3>2. \A u \in Tasks : ~Marked(rec'[u])
      BY <2>1, <2>4, <2>6 DEF Marked
    <3> QED
      BY <3>1, <3>2 DEF Working, Idle
  <2> QED
    BY <1>11, <2>5, <2>6 DEF execute
<1>12. ASSUME perform PROVE Working'
  <2>1. worker.task \in Tasks /\ runs[worker.task] = 0 /\ UNCHANGED <<rec, disk>>
    BY <1>12 DEF perform, Working
  <2>2. worker'.task = worker.task /\ worker'.pc \in {"ok", "error"}
    BY <1>12 DEF perform, TypeInv, TypeOK
  <2>3. runs'[worker.task] = 1
    BY <1>12, <2>1 DEF perform, TypeInv, TypeOK
  <2> QED
    BY <1>12, <2>1, <2>2, <2>3 DEF perform, Working
<1>13. ASSUME finish PROVE Working'
  <2> DEFINE t == worker.task
  <2>1. t \in Tasks /\ rec[t] \in Records /\ DOMAIN rec = Tasks
    BY <1>13 DEF finish, Working, Marked, TypeInv, TypeOK, Journals
  <2>2. Result(t, worker.pc = "ok").state # "running"
    BY <2>1 DEF Result, Records
  <2>3. \A u \in Tasks : ~Marked(rec'[u])
    BY <1>13, <2>1, <2>2 DEF finish, Working, Marked
  <2>4. worker' \in {Idle, Stopped}
    BY <1>13 DEF finish
  <2>5. worker'.task = NoTask /\ worker'.pc \in {"idle", "stopped"}
    BY <2>4 DEF Idle, Stopped
  <2> QED
    BY <2>3, <2>5 DEF Working
<1>14. ASSUME Exit PROVE Working'
  <2>1. worker' = Idle /\ rec' = Empty
    BY <1>14 DEF Exit, Down
  <2> QED
    BY <2>1 DEF Working, Marked, Idle, Empty
<1>15. ASSUME Crash PROVE Working'
  <2>1. worker' = Idle /\ rec' = Empty
    BY <1>15 DEF Crash, Down
  <2> QED
    BY <2>1 DEF Working, Marked, Idle, Empty
<1>16. ASSUME rollback PROVE Working'
  <2>1. worker' = Idle /\ rec' = Empty
    BY <1>16 DEF rollback, Down
  <2> QED
    BY <2>1 DEF Working, Marked, Idle, Empty
<1>17. ASSUME Start PROVE Working'
  <2>1. worker' = Idle
    BY <1>17 DEF Start, Off
  <2>2. \A t \in Tasks : ~Marked(rec'[t])
    <3>1. \A t \in Tasks : ~Marked(Loaded(t)) /\ ~Marked(Empty[t])
      BY DEF Loaded, Marked, Empty, TypeInv, TypeOK, Journals, Records
    <3> QED
      BY <1>17, <3>1 DEF Start, Off, Empty
  <2> QED
    BY <2>1, <2>2 DEF Working, Idle
<1> QED
  BY <1>1, <1>2, <1>3, <1>4, <1>5, <1>6, <1>7, <1>8, <1>9, <1>10, <1>11, <1>12, <1>13, <1>14,
     <1>15, <1>16, <1>17 DEF Next, Loop, Worker

LEMMA BegunStep ==
  IInv /\ [Next]_vars => Begun'
<1> SUFFICES ASSUME TypeInv, Off, InQueue, Working, Begun, Created, Settled, Truthful, [Next]_vars
             PROVE  Begun'
  BY DEF IInv
<1>1. CASE UNCHANGED vars
  BY <1>1 DEF Begun, Kept, Asked
<1>2. ASSUME NEW t \in Tasks, createTask(t) PROVE Begun'
  BY <1>2 DEF createTask, Begun, Kept, Asked
<1>3. ASSUME NEW t \in Tasks, sendFails(t) PROVE Begun'
  BY <1>3 DEF sendFails, Fault, Begun, Kept, Asked
<1>4. ASSUME handleLateResult PROVE Begun'
  BY <1>4 DEF handleLateResult, ApplyTaskResult, Begun, Kept, Asked
<1>5. ASSUME register PROVE Begun'
  <2>1. UNCHANGED runs /\ loop # "down"
    BY <1>5 DEF register
  <2>2. \A t \in Tasks : rec'[t] = rec[t] \/ (Kept(rec[t]) /\ Kept(rec'[t]) /\ rec'[t].state \in Final)
    <3>1. \A t \in Tasks : rec[t] # NoRecord => Answer(t) \in Records /\ Answer(t).state \in Final
      BY ZenonT(30), RecordTypes DEF Answer, Records, Final, TypeInv, TypeOK, Journals
    <3> QED
      BY <1>5, <3>1 DEF register, Resumed, Kept, Final
  <2>3. disk' \in {disk, rec'}
    BY <1>5 DEF register, Saved, NotSaved
  <2>4. \A t \in Tasks : Asked(t, rec'[t]) /\ Asked(t, disk'[t])
    BY <2>1, <2>2, <2>3 DEF Begun, Asked, Final
  <2>0. \A u \in Tasks : /\ runs[u] \in {0, 1} /\ Asked(u, rec[u]) /\ Asked(u, disk[u])
                        /\ (runs[u] = 1 => Kept(disk[u]) /\ (loop # "down" => Kept(rec[u])))
    BY DEF Begun
  <2>5. \A u \in Tasks : runs[u] = 1 => Kept(rec'[u]) /\ Kept(disk'[u])
    BY <2>0, <2>1, <2>2, <2>3
  <2> QED
    BY <2>0, <2>1, <2>4, <2>5 DEF Begun, Asked
<1>6. ASSUME heartbeat PROVE Begun'
  BY <1>6 DEF heartbeat, PendingTasks, Begun, Kept, Asked
<1>7. ASSUME reportSave PROVE Begun'
  <2>1. UNCHANGED <<runs, rec>> /\ loop # "down" /\ disk' \in {disk, rec}
    BY <1>7 DEF reportSave, Saved, NotSaved
  <2> QED
    BY <2>1 DEF Begun, Kept, Asked
<1>8. ASSUME NEW t \in Tasks, sendResult(t) PROVE Begun'
  <2>1. UNCHANGED runs /\ loop # "down" /\ disk' \in {disk, rec'}
    BY <1>8 DEF sendResult, Saved, NotSaved
  <2>2. \A u \in Tasks : rec'[u] = rec[u] \/ (Kept(rec[u]) /\ Kept(rec'[u]) /\ rec'[u].state \in Final)
    <3>1. rec[t] \in Records /\ rec[t].state \in Final /\ DOMAIN rec = Tasks
      BY <1>8 DEF sendResult, Settled, Holds, TypeInv, TypeOK, Journals
    <3>2. [rec[t] EXCEPT !.acked = TRUE] \in Records
      BY <3>1, RecordTypes
    <3>3. rec' = [rec EXCEPT ![t] = [rec[t] EXCEPT !.acked = TRUE]]
      BY <1>8 DEF sendResult
    <3>4. rec'[t].state = rec[t].state /\ rec'[t] # NoRecord
      BY <3>1, <3>2, <3>3 DEF Records
    <3> QED
      BY <3>1, <3>3, <3>4 DEF Kept, Final
  <2>0. \A u \in Tasks : /\ runs[u] \in {0, 1} /\ Asked(u, rec[u]) /\ Asked(u, disk[u])
                        /\ (runs[u] = 1 => Kept(disk[u]) /\ (loop # "down" => Kept(rec[u])))
    BY DEF Begun
  <2>3. \A u \in Tasks : Asked(u, rec'[u]) /\ Asked(u, disk'[u])
    <3> SUFFICES ASSUME NEW u \in Tasks PROVE Asked(u, rec'[u]) /\ Asked(u, disk'[u])
      OBVIOUS
    <3>1. Asked(u, rec'[u])
      <4>1. CASE rec'[u] = rec[u]
        BY <2>0, <2>1, <4>1 DEF Asked
      <4>2. CASE rec'[u].state \in Final
        BY <4>2 DEF Asked, Final
      <4> QED BY <2>2, <4>1, <4>2
    <3>2. CASE disk' = disk
      BY <2>0, <2>1, <3>1, <3>2 DEF Asked
    <3>3. CASE disk' = rec'
      BY <3>1, <3>3
    <3> QED BY <2>1, <3>1, <3>2, <3>3
  <2>5. \A u \in Tasks : runs[u] = 1 => Kept(rec'[u]) /\ Kept(disk'[u])
    BY <2>0, <2>1, <2>2
  <2> QED
    BY <2>0, <2>1, <2>3, <2>5 DEF Begun, Asked
<1>9. ASSUME submitTask PROVE Begun'
  <2>1. UNCHANGED <<runs, disk, loop>> /\ loop # "down"
    BY <1>9 DEF submitTask
  <2>2. \A u \in Tasks : rec'[u] = rec[u] \/ (rec[u] = NoRecord /\ rec'[u] = Queued)
    BY <1>9 DEF submitTask, Known, TypeInv, TypeOK, Journals
  <2>0. \A u \in Tasks : /\ runs[u] \in {0, 1} /\ Asked(u, rec[u]) /\ Asked(u, disk[u])
                        /\ (runs[u] = 1 => Kept(disk[u]) /\ (loop # "down" => Kept(rec[u])))
    BY DEF Begun
  <2>3. \A u \in Tasks : rec[u] = NoRecord => runs[u] = 0
    BY <2>0, <2>1 DEF Kept
  <2>4. \A u \in Tasks : Asked(u, Queued) /\ ~Kept(NoRecord)
    BY DEF Asked, Queued, Kept
  <2>5. \A u \in Tasks : Asked(u, rec'[u])
    BY <2>0, <2>2, <2>4
  <2>6. \A u \in Tasks : runs[u] = 1 => Kept(disk[u]) /\ Kept(rec'[u])
    BY <2>0, <2>1, <2>2, <2>3
  <2> QED
    BY <2>0, <2>1, <2>5, <2>6 DEF Begun, Asked
<1>10. ASSUME submit PROVE Begun'
  BY <1>10 DEF submit, Begun, Kept, Asked
<1>11. ASSUME execute PROVE Begun'
  <2> DEFINE t == Head(queue)
             marked == [state |-> "running", acked |-> FALSE, version |-> 0]
  <2>1. t \in Tasks /\ DOMAIN rec = Tasks /\ rec[t] # NoRecord /\ rec[t].state = "queued"
    BY <1>11 DEF execute, InQueue, TypeInv, TypeOK, Journals
  <2>2. UNCHANGED <<runs, loop>> /\ loop # "down" /\ runs[t] = 0
    BY <1>11, <2>1 DEF execute, Begun, Kept
  <2>3. Asked(t, marked) /\ Kept(marked)
    <3>1. marked \in Records
      BY DEF Records, States, Releases
    <3> QED
      BY <3>1 DEF Asked, Kept
  <2>0. \A u \in Tasks : /\ runs[u] \in {0, 1} /\ Asked(u, rec[u]) /\ Asked(u, disk[u])
                        /\ (runs[u] = 1 => Kept(disk[u]) /\ (loop # "down" => Kept(rec[u])))
    BY DEF Begun
  <2>4. \A u \in Tasks \ {t} : rec'[u] = rec[u] /\ disk'[u] \in {rec[u], disk[u]}
    BY <1>11, <2>1 DEF execute, Saved
  <2>5. rec'[t] \in {marked, NoRecord} /\ disk'[t] \in {marked, disk[t]}
    BY <1>11, <2>1 DEF execute, Saved
  <2>6. Asked(t, rec'[t]) /\ Asked(t, disk'[t])
    BY <2>1, <2>2, <2>3, <2>5 DEF Begun, Asked
  <2>7. \A u \in Tasks \ {t} : Asked(u, rec'[u]) /\ Asked(u, disk'[u])
    BY <2>0, <2>4
  <2>8. \A u \in Tasks \ {t} : runs[u] = 1 => Kept(rec'[u]) /\ Kept(disk'[u])
    BY <2>0, <2>2, <2>4
  <2> QED
    BY <2>0, <2>2, <2>6, <2>7, <2>8 DEF Begun, Asked
<1>12. ASSUME perform PROVE Begun'
  <2> DEFINE t == worker.task
  <2>1. /\ t \in Tasks /\ runs[t] = 0 /\ UNCHANGED <<rec, disk, loop>>
        /\ Marked(rec[t]) /\ Marked(disk[t])
    BY <1>12 DEF perform, Working
  <2>2. runs'[t] = 1 /\ \A u \in Tasks \ {t} : runs'[u] = runs[u]
    BY <1>12, <2>1 DEF perform, TypeInv, TypeOK
  <2>3. Kept(rec[t]) /\ Kept(disk[t])
    BY <2>1 DEF Marked, Kept
  <2>4. ASSUME NEW u \in Tasks
        PROVE  /\ runs'[u] \in {0, 1}
               /\ runs'[u] = 1 => Kept(disk[u]) /\ (loop # "down" => Kept(rec[u]))
               /\ Asked(u, rec[u])' /\ Asked(u, disk[u])'
    <3>1. CASE u = t
      <4>1. rec[u].state # "restart_pending" /\ disk[u].state # "restart_pending"
        BY <2>1, <3>1 DEF Marked
      <4>2. Asked(u, rec[u])' /\ Asked(u, disk[u])'
        BY <2>1, <4>1 DEF Asked
      <4> QED BY <2>2, <2>3, <3>1, <4>2
    <3>2. CASE u # t
      <4>1. runs'[u] = runs[u] /\ rec' = rec /\ disk' = disk
        BY <2>1, <2>2, <3>2
      <4>2. Asked(u, rec[u])' /\ Asked(u, disk[u])'
        BY <4>1 DEF Begun, Asked
      <4> QED BY <4>1, <4>2 DEF Begun
    <3> QED BY <3>1, <3>2
  <2> QED
    BY <2>1, <2>4 DEF Begun, Kept
<1>13. ASSUME finish PROVE Begun'
  <2> DEFINE t == worker.task
             res == Result(t, worker.pc = "ok")
  <2>1. t \in Tasks /\ rec[t] \in Records /\ DOMAIN rec = Tasks /\ runs[t] = 1
    BY <1>13 DEF finish, Working, Marked, TypeInv, TypeOK, Journals
  <2>2. UNCHANGED <<runs, loop>> /\ disk' \in {disk, rec'} /\ loop # "down"
    BY <1>13 DEF finish, Saved, NotSaved, Off, Idle
  <2>3. rec'[t] = res /\ \A u \in Tasks \ {t} : rec'[u] = rec[u]
    BY <1>13, <2>1 DEF finish
  <2>4. res \in Records /\ Kept(res) /\ Asked(t, res)
    <3>1. res \in Records
      BY <2>1, RecordTypes
    <3>2. res.state \in {"failed", "done", "restart_pending"}
      BY <2>1 DEF Result, Records
    <3>3. res.state = "restart_pending" =>
            Kind[t] # "exec" /\ res.version = IF Kind[t] = "upgrade" THEN t ELSE 0
      BY <2>1 DEF Result, Records
    <3> QED
      BY <2>1, <3>1, <3>2, <3>3 DEF Kept, Asked
  <2>0. \A u \in Tasks : /\ runs[u] \in {0, 1} /\ Asked(u, rec[u]) /\ Asked(u, disk[u])
                        /\ (runs[u] = 1 => Kept(disk[u]) /\ (loop # "down" => Kept(rec[u])))
    BY DEF Begun
  <2>5. \A u \in Tasks : Asked(u, rec'[u]) /\ Asked(u, disk'[u])
    BY <2>0, <2>2, <2>3, <2>4
  <2>6. \A u \in Tasks : runs[u] = 1 => Kept(rec'[u]) /\ Kept(disk'[u])
    BY <2>0, <2>2, <2>3, <2>4
  <2> QED
    BY <2>0, <2>2, <2>5, <2>6 DEF Begun, Asked
<1>14. ASSUME Exit PROVE Begun'
  <2>1. loop' = "down" /\ rec' = Empty /\ UNCHANGED <<disk, runs>>
    BY <1>14 DEF Exit, Down
  <2> QED
    BY <2>1 DEF Begun, Kept, Asked, Empty
<1>15. ASSUME Crash PROVE Begun'
  <2>1. loop' = "down" /\ rec' = Empty /\ UNCHANGED <<disk, runs>>
    BY <1>15 DEF Crash, Down
  <2> QED
    BY <2>1 DEF Begun, Kept, Asked, Empty
<1>16. ASSUME rollback PROVE Begun'
  <2>1. loop' = "down" /\ rec' = Empty /\ UNCHANGED <<disk, runs>>
    BY <1>16 DEF rollback, Down
  <2> QED
    BY <2>1 DEF Begun, Kept, Asked, Empty
<1>17. ASSUME Start PROVE Begun'
  <2>1. rec = Empty /\ UNCHANGED runs
    BY <1>17 DEF Start, Off
  <2>2. \A t \in Tasks : /\ Asked(t, Loaded(t))
                        /\ (Kept(disk[t]) => Kept(Loaded(t)))
    <3>1. ASSUME NEW t \in Tasks PROVE Asked(t, Loaded(t)) /\ (Kept(disk[t]) => Kept(Loaded(t)))
      <4>1. disk[t] # NoRecord => disk[t] \in Records
        BY DEF TypeInv, TypeOK, Journals
      <4>2. CASE disk[t] = NoRecord \/ disk[t].state = "queued"
        BY <4>2 DEF Loaded, Asked, Kept
      <4>3. CASE disk[t] # NoRecord /\ disk[t].state = "running"
        <5>1. Loaded(t) = [disk[t] EXCEPT !.state = "failed"]
          BY <4>3 DEF Loaded
        <5>2. Loaded(t) \in Records /\ Loaded(t).state = "failed"
          BY <4>1, <4>3, <5>1 DEF Records, States, Final
        <5> QED
          BY <5>2 DEF Asked, Kept
      <4>4. CASE disk[t] # NoRecord /\ disk[t].state \notin {"queued", "running"}
        BY <4>4 DEF Loaded, Asked, Kept, Begun
      <4> QED
        BY <4>2, <4>3, <4>4
    <3> QED
      BY <3>1
  <2>3. \A t \in Tasks : rec'[t] = Loaded(t) \/ (rec'[t] = rec[t] /\ loop' = "down")
    BY <1>17 DEF Start
  <2>4. \A t \in Tasks : disk'[t] = disk[t] \/ disk'[t] = Loaded(t)
    BY <1>17 DEF Start, Saved
  <2>5. \A t \in Tasks : Asked(t, rec'[t]) /\ Asked(t, disk'[t])
    <3>1. \A t \in Tasks : Asked(t, disk[t]) /\ Asked(t, rec[t])
      BY DEF Begun
    <3> QED
      BY <2>2, <2>3, <2>4, <3>1
  <2>6. \A t \in Tasks : runs[t] = 1 => Kept(disk'[t]) /\ (loop' # "down" => Kept(rec'[t]))
    <3>1. \A t \in Tasks : runs[t] = 1 => Kept(disk[t])
      BY DEF Begun
    <3> QED
      BY <2>2, <2>3, <2>4, <3>1
  <2> QED
    BY <2>1, <2>5, <2>6 DEF Begun, Asked
<1> QED
  BY <1>1, <1>2, <1>3, <1>4, <1>5, <1>6, <1>7, <1>8, <1>9, <1>10, <1>11, <1>12, <1>13, <1>14,
     <1>15, <1>16, <1>17 DEF Next, Loop, Worker

LEMMA CreatedStep ==
  IInv /\ [Next]_vars => Created'
<1> SUFFICES ASSUME TypeInv, Off, InQueue, Working, Begun, Created, Settled, Truthful, [Next]_vars
             PROVE  Created'
  BY DEF IInv
<1>1. CASE UNCHANGED vars
  BY <1>1 DEF Created
<1>2. ASSUME NEW t \in Tasks, createTask(t) PROVE Created'
  <2>1. \A u \in Tasks : board[u] # "none" => board'[u] # "none"
    BY <1>2 DEF createTask, TypeInv, TypeOK
  <2> QED
    BY <1>2, <2>1 DEF createTask, Created
<1>3. ASSUME NEW t \in Tasks, sendFails(t) PROVE Created'
  BY <1>3 DEF sendFails, Fault, Created
<1>4. ASSUME handleLateResult PROVE Created'
  <2>1. PICK m \in late : ApplyTaskResult(m[1], m[2]) /\ late' = late \ {m}
    BY <1>4 DEF handleLateResult
  <2>2. m[1] \in Tasks /\ m[2] \in Final
    BY <2>1 DEF TypeInv, TypeOK
  <2>3. \A u \in Tasks : board[u] # "none" => board'[u] # "none"
    BY <2>1, <2>2 DEF ApplyTaskResult, Final, TypeInv, TypeOK
  <2> QED
    BY <1>4, <2>3 DEF handleLateResult, Created
<1>5. ASSUME register PROVE Created'
  <2>1. \A u \in Tasks : rec'[u] # NoRecord => rec[u] # NoRecord \/ u \in offer
    BY <1>5 DEF register, Resumed
  <2>2. \A u \in Tasks : disk'[u] # NoRecord => disk[u] # NoRecord \/ rec[u] # NoRecord \/ rec'[u] # NoRecord
    BY <1>5 DEF register, Saved, NotSaved
  <2>3. offer' \subseteq offer
    BY <1>5 DEF register
  <2>4. \A u \in Tasks : board[u] # "none" => board'[u] # "none"
    BY <1>5 DEF register
  <2> QED
    BY <2>1, <2>2, <2>3, <2>4 DEF Created
<1>6. ASSUME heartbeat PROVE Created'
  <2>1. \A u \in offer' : board[u] = "pending"
    BY <1>6 DEF heartbeat, PendingTasks
  <2> QED
    BY <1>6, <2>1 DEF heartbeat, Created
<1>7. ASSUME reportSave PROVE Created'
  <2>1. \A u \in Tasks : rec'[u] # NoRecord => rec[u] # NoRecord \/ u \in offer
    BY <1>7 DEF reportSave
  <2>2. \A u \in Tasks : disk'[u] # NoRecord => disk[u] # NoRecord \/ rec[u] # NoRecord \/ rec'[u] # NoRecord
    BY <1>7 DEF reportSave, Saved, NotSaved
  <2>3. offer' \subseteq offer
    BY <1>7 DEF reportSave
  <2>4. \A u \in Tasks : board[u] # "none" => board'[u] # "none"
    BY <1>7 DEF reportSave
  <2> QED
    BY <2>1, <2>2, <2>3, <2>4 DEF Created
<1>8. ASSUME NEW t \in Tasks, sendResult(t) PROVE Created'
  <2>0. rec[t] # NoRecord /\ DOMAIN rec = Tasks /\ rec[t].state \in Final
    BY <1>8 DEF sendResult, Settled, Holds, TypeInv, TypeOK, Journals
  <2>1. \A u \in Tasks : rec'[u] # NoRecord => rec[u] # NoRecord \/ u \in offer
    BY <1>8, <2>0 DEF sendResult, TypeInv, TypeOK, Journals, Settled
  <2>2. \A u \in Tasks : disk'[u] # NoRecord => disk[u] # NoRecord \/ rec[u] # NoRecord \/ rec'[u] # NoRecord
    BY <1>8, <2>0 DEF sendResult, Saved, NotSaved
  <2>3. offer' \subseteq offer
    BY <1>8, <2>0 DEF sendResult
  <2>4. \A u \in Tasks : board[u] # "none" => board'[u] # "none"
    BY <1>8, <2>0 DEF sendResult, ApplyTaskResult, Settled, Final, TypeInv, TypeOK, Holds
  <2> QED
    BY <2>1, <2>2, <2>3, <2>4 DEF Created
<1>9. ASSUME submitTask PROVE Created'
  <2>1. \A u \in Tasks : rec'[u] # NoRecord => rec[u] # NoRecord \/ u \in offer
    BY <1>9 DEF submitTask, TypeInv, TypeOK, Journals
  <2>2. \A u \in Tasks : disk'[u] # NoRecord => disk[u] # NoRecord \/ rec[u] # NoRecord \/ rec'[u] # NoRecord
    BY <1>9 DEF submitTask
  <2>3. offer' \subseteq offer
    BY <1>9 DEF submitTask
  <2>4. \A u \in Tasks : board[u] # "none" => board'[u] # "none"
    BY <1>9 DEF submitTask
  <2> QED
    BY <2>1, <2>2, <2>3, <2>4 DEF Created
<1>10. ASSUME submit PROVE Created'
  BY <1>10 DEF submit, Created
<1>11. ASSUME execute PROVE Created'
  <2>1. \E t \in Tasks : /\ rec[t] # NoRecord
                        /\ \A u \in Tasks \ {t} : rec'[u] = rec[u] /\ disk'[u] \in {rec[u], disk[u]}
    <3>1. Head(queue) \in Tasks /\ DOMAIN rec = Tasks /\ rec[Head(queue)] # NoRecord
      BY <1>11 DEF execute, InQueue, TypeInv, TypeOK, Journals
    <3>2. \A u \in Tasks \ {Head(queue)} : rec'[u] = rec[u] /\ disk'[u] \in {rec[u], disk[u]}
      BY <1>11, <3>1 DEF execute, Saved
    <3> QED
      BY <3>1, <3>2
  <2>2. UNCHANGED <<board, offer>>
    BY <1>11 DEF execute
  <2> QED
    BY <2>1, <2>2 DEF Created
<1>12. ASSUME perform PROVE Created'
  BY <1>12 DEF perform, Created
<1>13. ASSUME finish PROVE Created'
  <2>1. worker.task \in Tasks /\ rec[worker.task] # NoRecord /\ DOMAIN rec = Tasks
    BY <1>13 DEF finish, Working, Marked, TypeInv, TypeOK, Journals
  <2>2. \A u \in Tasks : rec'[u] # NoRecord => rec[u] # NoRecord
    BY <1>13, <2>1 DEF finish
  <2>3. UNCHANGED <<board, offer>> /\ disk' \in {disk, rec'}
    BY <1>13 DEF finish, Saved, NotSaved
  <2> QED
    BY <2>2, <2>3 DEF Created
<1>14. ASSUME Exit PROVE Created'
  <2>1. offer' = {} /\ rec' = Empty /\ UNCHANGED <<disk, board>>
    BY <1>14 DEF Exit, Down
  <2> QED
    BY <2>1 DEF Created, Empty
<1>15. ASSUME Crash PROVE Created'
  <2>1. offer' = {} /\ rec' = Empty /\ UNCHANGED <<disk, board>>
    BY <1>15 DEF Crash, Down
  <2> QED
    BY <2>1 DEF Created, Empty
<1>16. ASSUME rollback PROVE Created'
  <2>1. offer' = {} /\ rec' = Empty /\ UNCHANGED <<disk, board>>
    BY <1>16 DEF rollback, Down
  <2> QED
    BY <2>1 DEF Created, Empty
<1>17. ASSUME Start PROVE Created'
  <2>1. \A u \in Tasks : Loaded(u) # NoRecord => disk[u] # NoRecord
    BY DEF Loaded
  <2>2. \A u \in Tasks : (rec'[u] # NoRecord => rec[u] # NoRecord \/ disk[u] # NoRecord)
                        /\ (disk'[u] # NoRecord => disk[u] # NoRecord)
    BY <1>17, <2>1 DEF Start, Saved
  <2>3. UNCHANGED <<board, offer>>
    BY <1>17 DEF Start
  <2> QED
    BY <2>2, <2>3 DEF Created
<1> QED
  BY <1>1, <1>2, <1>3, <1>4, <1>5, <1>6, <1>7, <1>8, <1>9, <1>10, <1>11, <1>12, <1>13, <1>14,
     <1>15, <1>16, <1>17 DEF Next, Loop, Worker

LEMMA SettledStep ==
  IInv /\ [Next]_vars => Settled'
<1> SUFFICES ASSUME TypeInv, Off, InQueue, Working, Begun, Created, Settled, Truthful, [Next]_vars
             PROVE  Settled'
  BY DEF IInv
<1>1. CASE UNCHANGED vars
  BY <1>1 DEF Settled, Holds
<1>2. ASSUME NEW t \in Tasks, createTask(t) PROVE Settled'
  <2>1. \A u \in Tasks : \A s \in Final : board'[u] = s => board[u] = s
    BY <1>2 DEF createTask, Final, TypeInv, TypeOK
  <2> QED
    BY <1>2, <2>1 DEF createTask, Settled
<1>3. ASSUME NEW t \in Tasks, sendFails(t) PROVE Settled'
  <2>1. late' = late \cup {<<t, rec[t].state>>} /\ sending' = {} /\ UNCHANGED <<board, loop, rec, disk>>
    BY <1>3 DEF sendFails
  <2>2. \E s \in Final : Holds(disk[t], s) /\ Holds(rec[t], s)
    BY <1>3 DEF sendFails, Settled
  <2>3. Holds(disk[t], rec[t].state) /\ Holds(rec[t], rec[t].state)
    BY <2>2 DEF Holds
  <2>4. \A u \in Tasks : \A s \in Final : <<u, s>> \in late' => <<u, s>> \in late \/ (u = t /\ s = rec[t].state)
    BY <2>1
  <2> QED
    BY <2>1, <2>3, <2>4 DEF Settled
<1>4. ASSUME handleLateResult PROVE Settled'
  <2>1. PICK m \in late : ApplyTaskResult(m[1], m[2]) /\ late' = late \ {m}
    BY <1>4 DEF handleLateResult
  <2>2. m[1] \in Tasks /\ m[2] \in Final /\ m = <<m[1], m[2]>>
    BY <2>1 DEF TypeInv, TypeOK
  <2>3. \A u \in Tasks : \A s \in Final : board'[u] = s => board[u] = s \/ <<u, s>> \in late
    BY <2>1, <2>2 DEF ApplyTaskResult, TypeInv, TypeOK
  <2> QED
    BY <1>4, <2>1, <2>3 DEF handleLateResult, Settled
<1>5. ASSUME register PROVE Settled'
  <2>1. loop # "down" /\ UNCHANGED <<board, late>> /\ sending' \subseteq sending
    BY <1>5 DEF register
  <2>2. \A u \in Tasks : \A s \in Final : Holds(rec[u], s) => Holds(rec'[u], s)
    BY <1>5 DEF register, Resumed, Holds, Final
  <2>3. \A u \in Tasks : \A s \in Final :
          Holds(disk[u], s) /\ Holds(rec[u], s) => Holds(disk'[u], s)
    BY <1>5, <2>2 DEF register, Saved, NotSaved
  <2>4. \A u \in sending' : \E s \in Final : Holds(disk'[u], s) /\ Holds(rec'[u], s)
    BY <2>1, <2>2, <2>3 DEF Settled, TypeInv, TypeOK
  <2>5. \A u \in Tasks : \A s \in Final :
          board'[u] = s \/ <<u, s>> \in late' => Holds(disk'[u], s) /\ Holds(rec'[u], s)
    BY <2>1, <2>2, <2>3 DEF Settled
  <2> QED
    BY <2>4, <2>5 DEF Settled
<1>6. ASSUME heartbeat PROVE Settled'
  BY <1>6 DEF heartbeat, PendingTasks, Settled, Holds
<1>7. ASSUME reportSave PROVE Settled'
  <2>1. loop # "down" /\ loop' # "down" /\ UNCHANGED <<board, late, rec>> /\ disk' \in {disk, rec}
    BY <1>7 DEF reportSave, Saved, NotSaved
  <2>2. \A u \in sending' : disk' = rec /\ rec[u] # NoRecord /\ rec[u].state \in Final
    BY <1>7 DEF reportSave, Saved
  <2>3. \A u \in sending' : \E s \in Final : Holds(disk'[u], s) /\ Holds(rec'[u], s)
    BY <2>1, <2>2 DEF Holds
  <2> QED
    BY <2>1, <2>3 DEF Settled, Holds
<1>8. ASSUME NEW t \in Tasks, sendResult(t) PROVE Settled'
  <2>1. /\ rec[t] \in Records /\ rec[t].state \in Final /\ DOMAIN rec = Tasks
        /\ Holds(disk[t], rec[t].state)
    BY <1>8 DEF sendResult, Settled, Holds, TypeInv, TypeOK, Journals
  <2>2. [rec[t] EXCEPT !.acked = TRUE] \in Records
    BY <2>1, RecordTypes
  <2>3. rec' = [rec EXCEPT ![t] = [rec[t] EXCEPT !.acked = TRUE]]
    BY <1>8 DEF sendResult
  <2>4. rec'[t].state = rec[t].state /\ rec'[t] # NoRecord
    BY <2>1, <2>2, <2>3 DEF Records
  <2>5. \A u \in Tasks : \A s \in Final : Holds(rec[u], s) => Holds(rec'[u], s)
    BY <2>1, <2>3, <2>4 DEF Holds
  <2>6. disk' \in {disk, rec'} /\ sending' \subseteq sending /\ UNCHANGED <<late, loop>> /\ loop # "down"
    BY <1>8 DEF sendResult, Saved, NotSaved
  <2>7. \A u \in Tasks : \A s \in Final :
          Holds(disk[u], s) /\ Holds(rec[u], s) => Holds(disk'[u], s)
    BY <2>5, <2>6
  <2>8. \A u \in Tasks : \A s \in Final : board'[u] = s => board[u] = s \/ (u = t /\ s = rec[t].state)
    BY <1>8, <2>1 DEF sendResult, ApplyTaskResult, TypeInv, TypeOK
  <2>9. Holds(rec[t], rec[t].state)
    BY <2>1, <1>8 DEF sendResult, Settled, Holds
  <2>10. \A u \in sending' : \E s \in Final : Holds(disk'[u], s) /\ Holds(rec'[u], s)
    BY <2>5, <2>6, <2>7 DEF Settled, TypeInv, TypeOK
  <2>11. \A u \in Tasks : \A s \in Final :
           board'[u] = s \/ <<u, s>> \in late' => Holds(disk[u], s) /\ Holds(rec[u], s)
    BY <2>1, <2>6, <2>8, <2>9 DEF Settled
  <2> QED
    BY <2>5, <2>6, <2>7, <2>10, <2>11 DEF Settled
<1>9. ASSUME submitTask PROVE Settled'
  <2>1. loop # "down" /\ UNCHANGED <<board, late>> /\ sending' \subseteq sending
    BY <1>9 DEF submitTask
  <2>2. \A u \in Tasks : \A s \in Final : Holds(rec[u], s) => Holds(rec'[u], s)
    BY <1>9 DEF submitTask, Known, Holds, TypeInv, TypeOK, Journals
  <2>3. \A u \in Tasks : \A s \in Final :
          Holds(disk[u], s) /\ Holds(rec[u], s) => Holds(disk'[u], s)
    BY <1>9, <2>2 DEF submitTask
  <2>4. \A u \in sending' : \E s \in Final : Holds(disk'[u], s) /\ Holds(rec'[u], s)
    BY <2>1, <2>2, <2>3 DEF Settled, TypeInv, TypeOK
  <2>5. \A u \in Tasks : \A s \in Final :
          board'[u] = s \/ <<u, s>> \in late' => Holds(disk'[u], s) /\ Holds(rec'[u], s)
    BY <2>1, <2>2, <2>3 DEF Settled
  <2> QED
    BY <2>4, <2>5 DEF Settled
<1>10. ASSUME submit PROVE Settled'
  BY <1>10 DEF submit, Settled, Holds
<1>11. ASSUME execute PROVE Settled'
  <2> DEFINE t == Head(queue)
  <2>1. t \in Tasks /\ DOMAIN rec = Tasks /\ rec[t] # NoRecord /\ rec[t].state = "queued"
    BY <1>11 DEF execute, InQueue, TypeInv, TypeOK, Journals
  <2>2. UNCHANGED <<board, late, sending, loop>> /\ loop # "down"
    BY <1>11 DEF execute
  <2>3. \A s \in Final : ~Holds(rec[t], s)
    BY <2>1 DEF Holds, Final
  <2>4. \A u \in Tasks \ {t} : rec'[u] = rec[u] /\ disk'[u] \in {rec[u], disk[u]}
    BY <1>11, <2>1 DEF execute, Saved
  <2>5. t \notin sending
    BY <2>3 DEF Settled
  <2> QED
    BY <2>2, <2>3, <2>4, <2>5 DEF Settled, TypeInv, TypeOK
<1>12. ASSUME perform PROVE Settled'
  BY <1>12 DEF perform, Settled, Holds
<1>13. ASSUME finish PROVE Settled'
  <2> DEFINE t == worker.task
  <2>1. t \in Tasks /\ DOMAIN rec = Tasks /\ Marked(rec[t])
    BY <1>13 DEF finish, Working, TypeInv, TypeOK, Journals
  <2>2. UNCHANGED <<board, late, sending, loop>> /\ loop # "down"
    BY <1>13 DEF finish, Off, Idle
  <2>3. \A s \in Final : ~Holds(rec[t], s)
    BY <2>1 DEF Holds, Marked, Final
  <2>4. \A u \in Tasks \ {t} : rec'[u] = rec[u] /\ disk'[u] \in {rec[u], disk[u]}
    BY <1>13, <2>1 DEF finish, Saved, NotSaved
  <2>5. t \notin sending
    BY <2>3 DEF Settled
  <2> QED
    BY <2>2, <2>3, <2>4, <2>5 DEF Settled, TypeInv, TypeOK
<1>14. ASSUME Exit PROVE Settled'
  <2>1. loop' = "down" /\ sending' = {} /\ UNCHANGED <<disk, board, late>>
    BY <1>14 DEF Exit, Down
  <2> QED
    BY <2>1 DEF Settled
<1>15. ASSUME Crash PROVE Settled'
  <2>1. loop' = "down" /\ sending' = {} /\ UNCHANGED <<disk, board, late>>
    BY <1>15 DEF Crash, Down
  <2> QED
    BY <2>1 DEF Settled
<1>16. ASSUME rollback PROVE Settled'
  <2>1. loop' = "down" /\ sending' = {} /\ UNCHANGED <<disk, board, late>>
    BY <1>16 DEF rollback, Down
  <2> QED
    BY <2>1 DEF Settled
<1>17. ASSUME Start PROVE Settled'
  <2>1. sending = {} /\ UNCHANGED <<board, late, sending>>
    BY <1>17 DEF Start, Off
  <2>2. \A u \in Tasks : \A s \in Final : Holds(disk[u], s) => Holds(Loaded(u), s)
    BY DEF Loaded, Holds, Final
  <2>3. \A u \in Tasks : disk'[u] \in {disk[u], Loaded(u)} /\ (rec'[u] = Loaded(u) \/ loop' = "down")
    BY <1>17 DEF Start, Saved
  <2>4. \A u \in Tasks : \A s \in Final :
          Holds(disk[u], s) => Holds(disk'[u], s) /\ (loop' # "down" => Holds(rec'[u], s))
    BY <2>2, <2>3
  <2> QED
    BY <2>1, <2>4 DEF Settled
<1> QED
  BY <1>1, <1>2, <1>3, <1>4, <1>5, <1>6, <1>7, <1>8, <1>9, <1>10, <1>11, <1>12, <1>13, <1>14,
     <1>15, <1>16, <1>17 DEF Next, Loop, Worker

LEMMA TruthfulStep ==
  IInv /\ [Next]_vars => Truthful'
<1> SUFFICES ASSUME TypeInv, Off, InQueue, Working, Begun, Created, Settled, Truthful, [Next]_vars
             PROVE  Truthful'
  BY DEF IInv
<1>1. CASE UNCHANGED vars
  BY <1>1 DEF Truthful, Holds
<1>2. ASSUME NEW t \in Tasks, createTask(t) PROVE Truthful'
  BY <1>2 DEF createTask, Truthful, Holds
<1>3. ASSUME NEW t \in Tasks, sendFails(t) PROVE Truthful'
  BY <1>3 DEF sendFails, Fault, Truthful, Holds
<1>4. ASSUME handleLateResult PROVE Truthful'
  BY <1>4 DEF handleLateResult, ApplyTaskResult, Truthful, Holds
<1>5. ASSUME register PROVE Truthful'
  <2>1. resume' = {} /\ UNCHANGED <<worker, achieved>> /\ disk' \in {disk, rec'}
    BY <1>5 DEF register, Saved, NotSaved
  <2>2. \A t \in Tasks : Holds(rec'[t], "done") => t \in achieved
    <3>1. ASSUME NEW t \in Tasks, Holds(rec'[t], "done") PROVE t \in achieved
      <4>1. CASE rec'[t] = rec[t]
        BY <3>1, <4>1 DEF Truthful
      <4>2. CASE t \in resume /\ rec[t] # NoRecord /\ rec'[t] = Answer(t)
        <5>1. rec[t] \in Records
          BY <4>2 DEF TypeInv, TypeOK, Journals
        <5>2. rec[t].version \in {0, ver}
          BY <3>1, <4>2, <5>1 DEF Holds, Answer, Records
        <5> QED
          BY <4>2, <5>2 DEF Truthful
      <4> QED
        BY <1>5, <4>1, <4>2 DEF register, Resumed
    <3> QED
      BY <3>1
  <2> QED
    BY <2>1, <2>2 DEF Truthful
<1>6. ASSUME heartbeat PROVE Truthful'
  <2>1. resume = {}
    BY <1>6 DEF heartbeat, Truthful
  <2> QED
    BY <1>6, <2>1 DEF heartbeat, Truthful
<1>7. ASSUME reportSave PROVE Truthful'
  <2>1. resume = {} /\ disk' \in {disk, rec} /\ UNCHANGED <<rec, worker, achieved, resume>>
    BY <1>7 DEF reportSave, Saved, NotSaved, Truthful
  <2> QED
    BY <2>1 DEF Truthful
<1>8. ASSUME NEW t \in Tasks, sendResult(t) PROVE Truthful'
  <2>1. rec[t] \in Records /\ DOMAIN rec = Tasks
    BY <1>8 DEF sendResult, Settled, Holds, TypeInv, TypeOK, Journals
  <2>2. [rec[t] EXCEPT !.acked = TRUE] \in Records
    BY <2>1, RecordTypes
  <2>3. rec' = [rec EXCEPT ![t] = [rec[t] EXCEPT !.acked = TRUE]]
    BY <1>8 DEF sendResult
  <2>4. \A u \in Tasks : Holds(rec'[u], "done") => Holds(rec[u], "done")
    BY <1>8, <2>1, <2>2, <2>3 DEF Holds, Records, sendResult, Settled
  <2>5. resume = {} /\ resume' = {} /\ disk' \in {disk, rec'} /\ UNCHANGED <<worker, achieved>>
    BY <1>8 DEF sendResult, Saved, NotSaved, Truthful
  <2> QED
    BY <2>4, <2>5 DEF Truthful
<1>9. ASSUME submitTask PROVE Truthful'
  <2>1. resume = {} /\ UNCHANGED <<worker, achieved, resume, disk>>
    BY <1>9 DEF submitTask, Truthful
  <2>2. \A u \in Tasks : Holds(rec'[u], "done") => Holds(rec[u], "done")
    BY <1>9 DEF submitTask, Queued, Holds, TypeInv, TypeOK, Journals
  <2> QED
    BY <2>1, <2>2 DEF Truthful
<1>10. ASSUME submit PROVE Truthful'
  <2>1. resume = {}
    BY <1>10 DEF submit, Truthful
  <2> QED
    BY <1>10, <2>1 DEF submit, Truthful
<1>11. ASSUME execute PROVE Truthful'
  <2> DEFINE t == Head(queue)
             marked == [state |-> "running", acked |-> FALSE, version |-> 0]
  <2>1. t \in Tasks /\ DOMAIN rec = Tasks /\ rec[t].state = "queued" /\ rec[t] # NoRecord
    BY <1>11 DEF execute, InQueue, TypeInv, TypeOK, Journals
  <2>2. /\ UNCHANGED <<loop, ver, resume, achieved>> /\ t \notin resume
        /\ worker'.pc # "ok"
    BY <1>11, <2>1 DEF execute, Truthful, Holds, Idle
  <2>3. \A u \in Tasks \ {t} : rec'[u] = rec[u] /\ disk'[u] \in {rec[u], disk[u]}
    BY <1>11, <2>1 DEF execute, Saved
  <2>4. rec'[t] \in {marked, NoRecord} /\ disk'[t] \in {marked, disk[t]}
    BY <1>11, <2>1 DEF execute, Saved
  <2>5. ~Holds(marked, "done") /\ ~Holds(NoRecord, "done")
    BY DEF Holds
  <2>6. \A u \in Tasks : Holds(rec'[u], "done") \/ Holds(disk'[u], "done") => u \in achieved
    BY <2>3, <2>4, <2>5 DEF Truthful
  <2> QED
    BY <2>2, <2>3, <2>6 DEF Truthful, TypeInv, TypeOK
<1>12. ASSUME perform PROVE Truthful'
  <2> DEFINE t == worker.task
  <2>1. PICK ok \in BOOLEAN :
          /\ worker' = [worker EXCEPT !.pc = IF ok THEN "ok" ELSE "error"]
          /\ achieved' = IF ok /\ Kind[t] = "exec" THEN achieved \cup {t} ELSE achieved
    BY <1>12 DEF perform
  <2>2. achieved \subseteq achieved' /\ UNCHANGED <<rec, disk, loop, resume, ver>>
    BY <1>12, <2>1 DEF perform
  <2>3. worker'.pc = "ok" /\ Kind[worker'.task] = "exec" => worker'.task \in achieved'
    BY <2>1 DEF TypeInv, TypeOK
  <2> QED
    BY <2>2, <2>3 DEF Truthful
<1>13. ASSUME finish PROVE Truthful'
  <2> DEFINE t == worker.task
             res == Result(t, worker.pc = "ok")
  <2>1. t \in Tasks /\ DOMAIN rec = Tasks /\ Marked(rec[t]) /\ rec[t] \in Records
    BY <1>13 DEF finish, Working, Marked, TypeInv, TypeOK, Journals
  <2>2. UNCHANGED <<loop, ver, resume, achieved>> /\ t \notin resume /\ worker'.pc # "ok"
    BY <1>13, <2>1 DEF finish, Truthful, Holds, Marked, Idle, Stopped
  <2>3. rec'[t] = res /\ disk' \in {disk, rec'} /\ \A u \in Tasks \ {t} : rec'[u] = rec[u]
    BY <1>13, <2>1 DEF finish, Saved, NotSaved
  <2>4. Holds(res, "done") => t \in achieved
    <3>1. res.state = "done" => worker.pc = "ok" /\ Kind[t] = "exec"
      BY <2>1 DEF Result, Records
    <3> QED
      BY <3>1 DEF Holds, Truthful
  <2>5. \A u \in Tasks : Holds(rec'[u], "done") \/ Holds(disk'[u], "done") => u \in achieved
    BY <2>3, <2>4 DEF Truthful
  <2> QED
    BY <2>2, <2>3, <2>5 DEF Truthful, TypeInv, TypeOK
<1>14. ASSUME Exit PROVE Truthful'
  <2>1. worker' = Idle /\ resume' = {} /\ rec' = Empty /\ UNCHANGED <<disk, achieved>>
    BY <1>14 DEF Exit, Down
  <2> QED
    BY <2>1 DEF Truthful, Holds, Idle, Empty
<1>15. ASSUME Crash PROVE Truthful'
  <2>1. worker' = Idle /\ resume' = {} /\ rec' = Empty /\ UNCHANGED <<disk, achieved>>
    BY <1>15 DEF Crash, Down
  <2> QED
    BY <2>1 DEF Truthful, Holds, Idle, Empty
<1>16. ASSUME rollback PROVE Truthful'
  <2>1. worker' = Idle /\ resume' = {} /\ rec' = Empty /\ UNCHANGED <<disk, achieved>>
    BY <1>16 DEF rollback, Down
  <2> QED
    BY <2>1 DEF Truthful, Holds, Idle, Empty
<1>17. ASSUME Start PROVE Truthful'
  <2>1. /\ ver' = exe /\ worker = Idle /\ UNCHANGED worker /\ achieved \subseteq achieved' /\ rec = Empty
        /\ resume = {}
    BY <1>17 DEF Start, Off
  <2>2. \A u \in Tasks : Holds(Loaded(u), "done") => Holds(disk[u], "done")
    <3>1. ASSUME NEW u \in Tasks, Holds(Loaded(u), "done") PROVE Holds(disk[u], "done")
      <4>1. disk[u] # NoRecord => disk[u] \in Records
        BY DEF TypeInv, TypeOK, Journals
      <4> QED
        BY <3>1, <4>1 DEF Loaded, Holds, Records
    <3> QED
      BY <3>1
  <2>3. \A u \in Tasks : rec'[u] \in {Loaded(u), NoRecord} /\ disk'[u] \in {disk[u], Loaded(u)}
    BY <1>17, <2>1 DEF Start, Saved, Empty
  <2>4. \A u \in Tasks : Holds(rec'[u], "done") \/ Holds(disk'[u], "done") => u \in achieved'
    BY <2>1, <2>2, <2>3 DEF Truthful, Holds
  <2>5. ASSUME NEW u \in resume'
        PROVE  /\ loop' = "register" /\ Holds(rec'[u], "restart_pending")
               /\ (rec'[u].version \in {0, ver'} => u \in achieved')
    <3>1. /\ u \in Tasks /\ disk[u] # NoRecord /\ disk[u].state = "restart_pending"
          /\ loop' = "register" /\ rec'[u] = Loaded(u)
      BY <1>17, <2>1, <2>5 DEF Start
    <3>2. Loaded(u) = disk[u]
      BY <3>1 DEF Loaded
    <3>3. /\ runs[u] = 1 /\ Kind[u] # "exec"
          /\ disk[u].version = IF Kind[u] = "upgrade" THEN u ELSE 0
      BY <3>1 DEF Begun, Asked
    <3>4. disk[u].version \in {0, exe} => Restarted(u)
      BY <3>1, <3>3 DEF Restarted
    <3>5. Restarted(u) => u \in achieved'
      BY <1>17, <3>1, <3>3 DEF Start
    <3> QED
      BY <2>1, <3>1, <3>2, <3>4, <3>5 DEF Holds
  <2> QED
    BY <2>1, <2>4, <2>5 DEF Truthful, Idle
<1> QED
  BY <1>1, <1>2, <1>3, <1>4, <1>5, <1>6, <1>7, <1>8, <1>9, <1>10, <1>11, <1>12, <1>13, <1>14,
     <1>15, <1>16, <1>17 DEF Next, Loop, Worker

LEMMA Invariance == Spec => []IInv
<1>1. IInv /\ [Next]_vars => IInv'
  BY TypeStep, OffStep, InQueueStep, WorkingStep, BegunStep, CreatedStep, SettledStep,
     TruthfulStep DEF IInv
<1> QED
  BY InitIInv, <1>1, PTL DEF Spec

\* Every variable keeps its type: the queue of the worker, in particular, never
\* exceeds its capacity (tasks.go:128-133).
THEOREM TypeCorrect == Spec => []TypeOK
<1>1. IInv => TypeOK
  BY DEF IInv, TypeInv
<1> QED
  BY <1>1, Invariance, PTL

\* No task is begun twice (tasks.go:82).
THEOREM RunsOnce == Spec => []AtMostOnce
<1>1. IInv => AtMostOnce
  BY DEF IInv, Begun, AtMostOnce
<1> QED
  BY <1>1, Invariance, PTL

\* What the panel calls done has had its effect (tasks.go:101-111, 204-226).
THEOREM DoneIsTrue == Spec => []DoneMeansDone
<1>1. IInv => DoneMeansDone
  BY DEF IInv, Settled, Truthful, DoneMeansDone, Final
<1> QED
  BY <1>1, Invariance, PTL

\* What left the node is in the journal on disk (tasks.go:230).
THEOREM SavedFirst == Spec => []SavedBeforeReported
<1>1. IInv => SavedBeforeReported
  BY DEF IInv, Settled, Holds, SavedBeforeReported
<1> QED
  BY <1>1, Invariance, PTL

\* What the panel is told of a task is true, and on the node's disk before it is
\* told (tasks.go, execute and report).
THEOREM TellsTruth == Spec => []AnswersTrue
<1>1. DoneMeansDone /\ SavedBeforeReported => AnswersTrue
  BY DEF AnswersTrue
<1> QED BY <1>1, DoneIsTrue, SavedFirst, PTL

LEMMA BoardStep ==
  IInv /\ [Next]_vars => [Board!Next]_Board!vars
<1> SUFFICES ASSUME TypeInv, Off, Working, Begun, Created, Settled, Truthful, [Next]_vars
             PROVE  Board!Next \/ UNCHANGED <<board, runs, achieved>>
  BY DEF IInv, Board!vars
<1> USE DEF Board!Next
<1>1. CASE UNCHANGED vars
  BY <1>1
<1>2. ASSUME NEW t \in Tasks, createTask(t) PROVE Board!Create(t)
  BY <1>2 DEF createTask, Board!Create
<1>3. ASSUME NEW t \in Tasks, sendResult(t)
      PROVE  Board!Answer(t) \/ UNCHANGED <<board, runs, achieved>>
  <2>1. PICK s \in Final : Holds(disk[t], s) /\ Holds(rec[t], s)
    BY <1>3 DEF sendResult, Settled
  <2>2. board' = [board EXCEPT ![t] = s] /\ UNCHANGED <<runs, achieved>>
    BY <1>3, <2>1 DEF sendResult, ApplyTaskResult, Holds
  <2>3. s = "done" => t \in achieved
    BY <2>1 DEF Truthful
  <2>4. board[t] # "none"
    BY <2>1 DEF Created, Holds
  <2>5. board[t] \in Final => board[t] = s
    BY <2>1 DEF Settled, Holds
  <2> QED
    BY <2>2, <2>3, <2>4, <2>5 DEF Board!Answer, Final, TypeInv, TypeOK
<1>4. ASSUME handleLateResult
      PROVE  (\E t \in Tasks : Board!Answer(t)) \/ UNCHANGED <<board, runs, achieved>>
  <2>1. PICK m \in late : ApplyTaskResult(m[1], m[2])
    BY <1>4 DEF handleLateResult
  <2>2. m[1] \in Tasks /\ m[2] \in Final /\ m = <<m[1], m[2]>>
    BY <2>1 DEF TypeInv, TypeOK
  <2>3. Holds(disk[m[1]], m[2])
    BY <2>1, <2>2 DEF Settled
  <2>4. m[2] = "done" => m[1] \in achieved
    BY <2>2, <2>3 DEF Truthful
  <2>5. board[m[1]] # "none" /\ (board[m[1]] \in Final => board[m[1]] = m[2])
    BY <2>2, <2>3 DEF Created, Settled, Holds
  <2>6. board' = [board EXCEPT ![m[1]] = m[2]] /\ UNCHANGED <<runs, achieved>>
    BY <1>4, <2>1 DEF handleLateResult, ApplyTaskResult
  <2>7. Board!Answer(m[1]) \/ UNCHANGED <<board, runs, achieved>>
    BY <2>2, <2>4, <2>5, <2>6 DEF Board!Answer, Final, TypeInv, TypeOK
  <2> QED
    BY <2>2, <2>7
<1>5. ASSUME perform PROVE \E t \in Tasks : Board!Begin(t)
  <2> DEFINE t == worker.task
  <2>1. t \in Tasks /\ Marked(rec[t]) /\ runs[t] = 0 /\ loop # "down"
    BY <1>5 DEF perform, Working, Off, Idle
  <2>2. board[t] = "pending"
    <3>1. board[t] # "none"
      BY <2>1 DEF Created, Marked
    <3>2. \A s \in Final : board[t] # s
      BY <2>1 DEF Settled, Holds, Marked, Final
    <3> QED
      BY <2>1, <3>1, <3>2 DEF TypeInv, TypeOK
  <2>3. runs' = [runs EXCEPT ![t] = 1]
    BY <1>5, <2>1 DEF perform, TypeInv, TypeOK
  <2>4. achieved' \in {achieved, achieved \cup {t}} /\ UNCHANGED board
    BY <1>5 DEF perform
  <2> QED
    BY <2>1, <2>2, <2>3, <2>4 DEF Board!Begin
<1>6. ASSUME Start PROVE Board!Achieve
  <2>1. /\ achieved' = achieved \cup {t \in Tasks : runs[t] > 0 /\ Restarted(t)}
        /\ UNCHANGED <<board, runs>>
    BY <1>6 DEF Start
  <2>2. \A t \in Tasks : runs[t] > 0 => runs[t] = 1
    BY DEF Begun
  <2> QED
    BY <2>1, <2>2 DEF Board!Achieve
<1>7. ASSUME \/ \E t \in Tasks : sendFails(t)
             \/ register \/ heartbeat \/ reportSave \/ submitTask \/ submit
             \/ execute \/ finish
      PROVE  UNCHANGED <<board, runs, achieved>>
  BY <1>7 DEF sendFails, register, heartbeat, reportSave, submitTask, submit, execute, finish
<1>8. ASSUME Exit \/ Crash \/ rollback PROVE UNCHANGED <<board, runs, achieved>>
  BY <1>8 DEF Exit, Crash, rollback, Down
<1> QED
  BY <1>1, <1>2, <1>3, <1>4, <1>5, <1>6, <1>7, <1>8 DEF Next, Loop, Worker

\* The node and the panel together implement the abstract task board.
THEOREM ImplementsBoard == Spec => BoardSpec
<1>1. Init => Board!Init
  BY DEF Init, Board!Init
<1>2. IInv /\ [Next]_vars => [Board!Next]_Board!vars
  BY BoardStep
<1> QED
  BY <1>1, <1>2, Invariance, PTL DEF Spec, BoardSpec, Board!Spec

---------------------------------------------------------------------------
\* Terminals.  The stream whose lease is the node's is served, a stream's lease
\* ends once and for good, and a request has a route only while it is served.

HandlerStates == {"none", "upgraded", "attached", "serving", "left", "unsubscribed", "gone"}
TermStates == {"idle", "opened", "counted", "allowed", "waiting", "ready", "typed", "leaving", "closing", "gone"}
IsChannel(c) == c = [queue |-> c.queue, closed |-> c.closed] /\ c.closed \in {0, 1}
BrokerTypes ==
  /\ lease \in Streams \cup {0} /\ shut \in [Streams -> {0, 1}]
  /\ handler \in [Streams -> HandlerStates] /\ term \in [Terms -> TermStates]
  /\ DOMAIN out = Terms /\ \A t \in Terms : IsChannel(out[t])
  /\ DOMAIN routed \subseteq Terms
Leased ==
  /\ lease # 0 => handler[lease] \in {"attached", "serving", "left", "unsubscribed"} /\ shut[lease] = 0
  /\ \A s \in Streams : handler[s] \in {"none", "upgraded"} => shut[s] = 0
RoutesServed == \A t \in DOMAIN routed : lease # 0 /\ term[t] \notin {"idle", "gone"}
Unused == \A t \in Terms : term[t] = "idle" => out[t].closed = 0
BrokerInv == BrokerTypes /\ Leased /\ RoutesAlive /\ RoutesServed /\ Unused

\* Routes and channels, the streams aside, after a step of a request.
Served ==
  /\ DOMAIN out = Terms /\ (\A t \in Terms : IsChannel(out[t]))
  /\ DOMAIN routed \subseteq Terms /\ RoutesAlive /\ RoutesServed /\ Unused

\* Whose routes are taken away finds its channel closed, for the first time.
LEMMA SessionsRemoved ==
  ASSUME BrokerInv, removeNodeSessions, UNCHANGED term
  PROVE  Served'
<1>1. DOMAIN routed' = {}
  BY DEF removeNodeSessions
<1>2. DOMAIN out' = Terms
  BY DEF removeNodeSessions, Closed
<1>3. ASSUME NEW t \in Terms PROVE IsChannel(out'[t]) /\ (term[t] = "idle" => out'[t].closed = 0)
  <2>1. PICK c : c = out[t]
    OBVIOUS
  <2>2. c = [queue |-> c.queue, closed |-> c.closed] /\ c.closed \in {0, 1}
    BY <2>1, <1>3 DEF BrokerInv, BrokerTypes, IsChannel
  <2>3. CASE t \in DOMAIN routed
    <3>1. c.closed = 0 /\ term[t] # "idle"
      BY <2>1, <2>3 DEF BrokerInv, RoutesAlive, RoutesServed
    <3>2. out'[t] = [c EXCEPT !.closed = @ + 1]
      BY <1>3, <2>1, <2>3 DEF removeNodeSessions, Closed
    <3>3. out'[t] = [queue |-> c.queue, closed |-> 1]
      BY <2>2, <3>1, <3>2
    <3> QED BY <3>1, <3>3 DEF IsChannel
  <2>4. CASE t \notin DOMAIN routed
    <3>1. out'[t] = out[t]
      BY <1>3, <2>4 DEF removeNodeSessions, Closed
    <3> QED BY <1>3, <3>1 DEF BrokerInv, BrokerTypes, Unused
  <2> QED BY <2>3, <2>4
<1> QED BY <1>1, <1>2, <1>3 DEF Served, RoutesAlive, RoutesServed, Unused

\* A request whose route is taken away finds its channel closed, the others theirs
\* as they were.
LEMMA RouteClosed ==
  ASSUME BrokerInv, NEW t \in Terms, UNCHANGED <<lease, off>>,
         routed' = Restrict(routed, DOMAIN routed \ {t}), out' = Closed(out, {t} \cap DOMAIN routed),
         term' = term \/ \E to \in TermStates \ {"idle"} : term' = [term EXCEPT ![t] = to]
  PROVE  Served'
<1>1. DOMAIN routed' = DOMAIN routed \ {t} /\ \A x \in DOMAIN routed' : routed'[x] = routed[x]
  BY DEF Restrict
<1>2. DOMAIN out' = Terms
  BY DEF Closed
<1>3. \A x \in Terms \ {t} : term'[x] = term[x]
  BY DEF BrokerInv, BrokerTypes
<1>4. term'[t] = "idle" => term[t] = "idle"
  BY DEF BrokerInv, BrokerTypes
<1>5. ASSUME NEW x \in Terms
      PROVE  /\ IsChannel(out'[x]) /\ (term'[x] = "idle" => out'[x].closed = 0)
             /\ x \notin {t} \cap DOMAIN routed => out'[x] = out[x]
  <2>1. PICK c : c = out[x]
    OBVIOUS
  <2>2. c = [queue |-> c.queue, closed |-> c.closed] /\ c.closed \in {0, 1}
    BY <2>1, <1>5 DEF BrokerInv, BrokerTypes, IsChannel
  <2>3. CASE x \in {t} \cap DOMAIN routed
    <3>1. c.closed = 0 /\ term[x] # "idle"
      BY <2>1, <2>3 DEF BrokerInv, RoutesAlive, RoutesServed
    <3>2. out'[x] = [c EXCEPT !.closed = @ + 1]
      BY <1>5, <2>1, <2>3 DEF Closed
    <3>3. out'[x] = [queue |-> c.queue, closed |-> 1]
      BY <2>2, <3>1, <3>2
    <3> QED BY SMTT(30), <1>4, <2>3, <3>1, <3>3 DEF IsChannel
  <2>4. CASE x \notin {t} \cap DOMAIN routed
    <3>1. out'[x] = out[x]
      BY <1>5, <2>4 DEF Closed
    <3> QED BY <1>3, <1>4, <1>5, <3>1 DEF BrokerInv, BrokerTypes, Unused
  <2> QED BY <2>3, <2>4
<1>6. RoutesAlive' /\ RoutesServed'
  <2>1. \A x \in DOMAIN routed' : x \in Terms /\ x \in DOMAIN routed /\ x # t
    BY <1>1 DEF BrokerInv, BrokerTypes
  <2> QED BY <1>1, <1>3, <1>5, <2>1 DEF BrokerInv, RoutesAlive, RoutesServed
<1> QED BY <1>1, <1>2, <1>5, <1>6 DEF Served, Unused, BrokerInv, BrokerTypes

\* The other steps of the broker.
LEMMA BrokerKept ==
  ASSUME BrokerInv, UNCHANGED <<lease, off, shut, routed, out, term>>,
         handler' \in [Streams -> HandlerStates],
         \A s \in Streams : lease = s => handler'[s] \in {"attached", "serving", "left", "unsubscribed"},
         \A s \in Streams : handler'[s] \in {"none", "upgraded"} => handler[s] \in {"none", "upgraded"}
  PROVE  BrokerInv'
<1>1. Leased'
  BY DEF BrokerInv, BrokerTypes, Leased
<1> QED BY <1>1 DEF BrokerInv, BrokerTypes, RoutesAlive, RoutesServed, Unused

\* A heartbeat or a ping that says that the node is disabled takes the routes away.
LEMMA DisabledStep ==
  ASSUME BrokerInv, NEW s \in Streams, NEW disabled, setDisabled(s, disabled), UNCHANGED <<handler, term>>
  PROVE  BrokerInv'
<1>1. CASE lease = s /\ disabled
  <2>1. Served'
    BY <1>1, SessionsRemoved DEF setDisabled
  <2> QED BY <2>1 DEF BrokerInv, BrokerTypes, Served, Leased, setDisabled
<1>2. CASE ~(lease = s /\ disabled)
  <2>1. UNCHANGED <<routed, out, lease, shut>> /\ off' \subseteq off \cup (Streams \ {lease})
    BY <1>2 DEF setDisabled
  <2>2. RoutesAlive'
    <3>1. lease \in off' => lease \in off
      BY <2>1
    <3> QED BY <2>1, <3>1 DEF BrokerInv, RoutesAlive
  <2> QED BY <2>1, <2>2 DEF BrokerInv, BrokerTypes, Leased, RoutesServed, Unused
<1> QED BY <1>1, <1>2

\* What comes over a stream goes to an open channel, or closes one.
LEMMA ReceiveStep ==
  ASSUME BrokerInv, NEW s \in Streams, NEW m, receive(s, m), UNCHANGED <<handler, term>>
  PROVE  BrokerInv'
<1>1. UNCHANGED <<lease, off, shut>>
  BY DEF receive
<1>2. PICK t : t = m.term
  OBVIOUS
<1>3. CASE lease # s \/ t \notin DOMAIN routed \/ routed[t] # s
  <2>1. UNCHANGED <<routed, out>>
    BY <1>2, <1>3 DEF receive
  <2> QED BY <1>1, <2>1 DEF BrokerInv, BrokerTypes, Leased, RoutesAlive, RoutesServed, Unused
<1>4. CASE t \in DOMAIN routed /\ lease = s /\ routed[t] = s
  <2>1. t \in Terms
    BY <1>4 DEF BrokerInv, BrokerTypes
  <2>2. CASE out' = [out EXCEPT ![t].queue = Append(@, m.kind)] /\ UNCHANGED routed
    <3>1. PICK c, q : c = out[t] /\ q = Append(c.queue, m.kind)
      OBVIOUS
    <3>2. c = [queue |-> c.queue, closed |-> c.closed] /\ c.closed \in {0, 1}
      BY <2>1, <3>1 DEF BrokerInv, BrokerTypes, IsChannel
    <3>3. /\ DOMAIN out' = Terms /\ out'[t] = [c EXCEPT !.queue = q]
          /\ \A x \in Terms \ {t} : out'[x] = out[x]
      BY <2>1, <2>2, <3>1 DEF BrokerInv, BrokerTypes
    <3>4. out'[t] = [queue |-> q, closed |-> c.closed]
      BY <3>2, <3>3
    <3>5. IsChannel(out'[t]) /\ out'[t].closed = out[t].closed
      BY <3>1, <3>2, <3>4 DEF IsChannel
    <3>6. \A x \in Terms : IsChannel(out'[x]) /\ out'[x].closed = out[x].closed
      BY <3>3, <3>5 DEF BrokerInv, BrokerTypes
    <3>7. BrokerTypes' /\ RoutesAlive'
      BY <1>1, <2>2, <3>3, <3>6 DEF BrokerInv, BrokerTypes, RoutesAlive
    <3> QED BY <1>1, <2>2, <3>6, <3>7 DEF BrokerInv, Leased, RoutesServed, Unused
  <2>3. CASE routed' = Restrict(routed, DOMAIN routed \ {t}) /\ out' = Closed(out, {t})
    <3>1. {t} = {t} \cap DOMAIN routed
      BY <1>4
    <3>2. Served'
      BY <1>1, <2>1, <2>3, <3>1, RouteClosed
    <3> QED BY <1>1, <3>2 DEF BrokerInv, BrokerTypes, Served, Leased
  <2> QED BY <1>2, <1>4, <2>2, <2>3 DEF receive
<1> QED BY <1>3, <1>4

\* A stream takes the node over from the one before it, whose requests it ends.
LEMMA AttachStep ==
  ASSUME BrokerInv, NEW s \in Streams, Attach(s)
  PROVE  BrokerInv'
<1> USE TerminalBounds
<1>1. /\ handler[s] = "upgraded" /\ handler' = [handler EXCEPT ![s] = "attached"] /\ attach(s)
      /\ UNCHANGED term
  BY DEF Attach, requestVars
<1>2. lease # s /\ shut[s] = 0 /\ s # 0
  BY <1>1 DEF BrokerInv, BrokerTypes, Leased
<1>3. /\ shut' = IF lease = 0 THEN shut ELSE [shut EXCEPT ![lease] = @ + 1]
      /\ lease' = s
  BY <1>1 DEF attach
<1>4. DOMAIN routed' = {} /\ DOMAIN out' = Terms /\ (\A t \in Terms : IsChannel(out'[t])) /\ Unused'
  <2>1. CASE lease = 0
    <3>1. UNCHANGED <<routed, out>> /\ DOMAIN routed = {}
      BY <1>1, <2>1 DEF attach, BrokerInv, RoutesServed
    <3> QED BY <1>1, <3>1 DEF BrokerInv, BrokerTypes, Unused
  <2>2. CASE lease # 0
    <3>1. removeNodeSessions
      BY <1>1, <2>2 DEF attach
    <3>2. Served'
      BY <1>1, <3>1, SessionsRemoved
    <3> QED BY <3>1, <3>2 DEF Served, removeNodeSessions
  <2> QED BY <2>1, <2>2
<1>5. shut' \in [Streams -> {0, 1}] /\ shut'[s] = 0
  BY <1>2, <1>3 DEF BrokerInv, BrokerTypes, Leased
<1>6. handler' \in [Streams -> HandlerStates] /\ handler'[s] = "attached"
  BY <1>1 DEF BrokerInv, BrokerTypes, HandlerStates
<1>7. Leased'
  <2>1. ASSUME NEW r \in Streams, handler'[r] \in {"none", "upgraded"} PROVE shut'[r] = 0
    <3>1. r # s /\ handler[r] \in {"none", "upgraded"} /\ shut[r] = 0 /\ lease # r
      BY <1>1, <1>6, <2>1 DEF BrokerInv, BrokerTypes, Leased
    <3> QED BY <1>3, <2>1, <3>1 DEF BrokerInv, BrokerTypes
  <2> QED BY <1>3, <1>5, <1>6, <2>1 DEF Leased
<1> QED BY <1>1, <1>3, <1>4, <1>5, <1>6, <1>7 DEF BrokerInv, BrokerTypes, RoutesAlive, RoutesServed

\* A stream that ends gives up the lease if it is still its own.
LEMMA DetachStep ==
  ASSUME BrokerInv, NEW s \in Streams, Detach(s)
  PROVE  BrokerInv'
<1>1. /\ handler[s] = "unsubscribed" /\ handler' = [handler EXCEPT ![s] = "gone"] /\ detach(s)
      /\ UNCHANGED term
  BY DEF Detach, requestVars
<1>2. handler' \in [Streams -> HandlerStates]
  BY <1>1 DEF BrokerInv, BrokerTypes, HandlerStates
<1>3. \A r \in Streams : handler'[r] \in {"none", "upgraded"} => handler[r] = handler'[r] /\ r # s
  BY <1>1 DEF BrokerInv, BrokerTypes
<1>4. CASE lease = s
  <2>1. lease' = 0 /\ shut' = [shut EXCEPT ![s] = @ + 1] /\ removeNodeSessions
    BY <1>1, <1>4 DEF detach
  <2>2. Served' /\ DOMAIN routed' = {}
    BY <1>1, <2>1, SessionsRemoved DEF removeNodeSessions
  <2>3. s # 0 /\ shut[s] = 0
    BY <1>4, TerminalBounds DEF BrokerInv, Leased
  <2>4. shut' \in [Streams -> {0, 1}] /\ \A r \in Streams \ {s} : shut'[r] = shut[r]
    BY <2>1, <2>3 DEF BrokerInv, BrokerTypes
  <2>5. Leased'
    BY <1>3, <2>1, <2>4 DEF BrokerInv, Leased
  <2> QED BY <1>1, <1>2, <2>1, <2>2, <2>4, <2>5 DEF BrokerInv, BrokerTypes, Served
<1>5. CASE lease # s
  <2>1. UNCHANGED <<lease, off, shut, routed, out, term>>
    BY <1>1, <1>5 DEF detach, brokerVars
  <2>2. \A r \in Streams : lease = r => handler'[r] \in {"attached", "serving", "left", "unsubscribed"}
    BY <1>1, <1>5, TerminalBounds DEF BrokerInv, BrokerTypes, Leased
  <2> QED BY <1>2, <1>3, <2>1, <2>2, BrokerKept
<1> QED BY <1>4, <1>5

\* The steps of a stream that leave the broker as it is.
LEMMA StreamStepsKept ==
  ASSUME BrokerInv, NEW s \in Streams, Dial(s) \/ Subscribe(s) \/ Leave(s) \/ Unsubscribe(s)
  PROVE  BrokerInv'
<1>1. UNCHANGED <<lease, off, shut, routed, out, term>>
  BY DEF Dial, Subscribe, Leave, Unsubscribe, brokerVars, requestVars
<1>2. PICK h \in HandlerStates :
        /\ handler' = [handler EXCEPT ![s] = h]
        /\ h = "upgraded" => handler[s] = "none"
        /\ h # "upgraded" => h \in {"attached", "serving", "left", "unsubscribed"}
  BY DEF Dial, Subscribe, Leave, Unsubscribe, HandlerStates
<1>3. handler' \in [Streams -> HandlerStates] /\ handler'[s] = h /\ \A r \in Streams \ {s} : handler'[r] = handler[r]
  BY <1>2 DEF BrokerInv, BrokerTypes
<1>4. \A r \in Streams : lease = r => handler[r] \in {"attached", "serving", "left", "unsubscribed"}
  BY TerminalBounds DEF BrokerInv, BrokerTypes, Leased
<1>5. \A r \in Streams : lease = r => handler'[r] \in {"attached", "serving", "left", "unsubscribed"}
  BY <1>2, <1>3, <1>4
<1>6. \A r \in Streams : handler'[r] \in {"none", "upgraded"} => handler[r] \in {"none", "upgraded"}
  BY <1>2, <1>3
<1> QED BY <1>1, <1>3, <1>5, <1>6, BrokerKept

\* A request goes its way, the broker being what it is.
LEMMA RequestGoes ==
  ASSUME BrokerInv, NEW t \in Terms, NEW to \in TermStates \ {"idle", "gone"}, Goes(t, to),
         UNCHANGED <<lease, off, shut, routed, handler>>,
         DOMAIN out' = Terms, \A x \in Terms : IsChannel(out'[x]) /\ out'[x].closed = out[x].closed
  PROVE  BrokerInv'
<1>1. term' \in [Terms -> TermStates] /\ term'[t] = to /\ \A x \in Terms \ {t} : term'[x] = term[x]
  BY DEF Goes, BrokerInv, BrokerTypes
<1>2. BrokerTypes' /\ Leased' /\ Unused'
  BY <1>1 DEF BrokerInv, BrokerTypes, Leased, Unused
<1>3. \A x \in DOMAIN routed : x \in Terms
  BY DEF BrokerInv, BrokerTypes
<1>4. RoutesAlive' /\ RoutesServed'
  BY <1>1, <1>3 DEF BrokerInv, RoutesAlive, RoutesServed
<1> QED BY <1>2, <1>4 DEF BrokerInv

\* A request gets a route to the stream whose lease is the node's.
LEMMA OpenStep ==
  ASSUME BrokerInv, NEW t \in Terms, Open(t)
  PROVE  BrokerInv'
<1>1. /\ term[t] = "idle" /\ lease # 0 /\ lease \notin off /\ term' = [term EXCEPT ![t] = "opened"]
      /\ routed' = [x \in DOMAIN routed \cup {t} |-> IF x = t THEN lease ELSE routed[x]]
      /\ UNCHANGED <<lease, off, shut, out, handler>>
  BY DEF Open, Goes
<1>2. term' \in [Terms -> TermStates] /\ term'[t] = "opened" /\ \A x \in Terms \ {t} : term'[x] = term[x]
  BY <1>1 DEF BrokerInv, BrokerTypes, TermStates
<1>3. out[t].closed = 0
  BY <1>1 DEF BrokerInv, Unused
<1>4. DOMAIN routed' = DOMAIN routed \cup {t} /\ \A x \in DOMAIN routed' : routed'[x] = lease
  BY <1>1 DEF BrokerInv, RoutesAlive
<1>5. \A x \in DOMAIN routed' : x \in Terms
  BY <1>4 DEF BrokerInv, BrokerTypes
<1>6. BrokerTypes' /\ Leased' /\ Unused'
  BY <1>1, <1>2, <1>5 DEF BrokerInv, BrokerTypes, Leased, Unused
<1>7. RoutesAlive' /\ RoutesServed'
  BY <1>1, <1>2, <1>3, <1>4, <1>5 DEF BrokerInv, RoutesAlive, RoutesServed
<1> QED BY <1>6, <1>7 DEF BrokerInv

\* What a request takes from its channel leaves it open or closed as it is.
LEMMA DeliverStep ==
  ASSUME BrokerInv, NEW t \in Terms, Deliver(t)
  PROVE  BrokerInv'
<1>1. UNCHANGED <<lease, off, shut, routed, handler>>
  BY DEF Deliver
<1>2. PICK to \in TermStates \ {"idle", "gone"} : Goes(t, to)
  BY DEF Deliver, Running, TermStates
<1>3. DOMAIN out' = Terms /\ \A x \in Terms : IsChannel(out'[x]) /\ out'[x].closed = out[x].closed
  <2>1. CASE UNCHANGED out
    BY <2>1 DEF BrokerInv, BrokerTypes
  <2>2. CASE out' = [out EXCEPT ![t].queue = Tail(@)]
    <3>1. PICK c, q : c = out[t] /\ q = Tail(c.queue)
      OBVIOUS
    <3>2. c = [queue |-> c.queue, closed |-> c.closed] /\ c.closed \in {0, 1}
      BY <3>1 DEF BrokerInv, BrokerTypes, IsChannel
    <3>3. /\ DOMAIN out' = Terms /\ out'[t] = [c EXCEPT !.queue = q]
          /\ \A x \in Terms \ {t} : out'[x] = out[x]
      BY <2>2, <3>1 DEF BrokerInv, BrokerTypes
    <3>4. out'[t] = [queue |-> q, closed |-> c.closed]
      BY <3>2, <3>3
    <3>5. IsChannel(out'[t]) /\ out'[t].closed = out[t].closed
      BY <3>1, <3>2, <3>4 DEF IsChannel
    <3> QED BY <3>3, <3>5 DEF BrokerInv, BrokerTypes
  <2> QED BY <2>1, <2>2 DEF Deliver
<1> QED BY <1>1, <1>2, <1>3, RequestGoes

\* A request that is over gives up its route.
LEMMA CloseStep ==
  ASSUME BrokerInv, NEW t \in Terms, Close(t)
  PROVE  BrokerInv'
<1>1. /\ close(t) /\ term' = [term EXCEPT ![t] = "gone"] /\ UNCHANGED handler
  BY DEF Close, Goes
<1>2. /\ routed' = Restrict(routed, DOMAIN routed \ {t}) /\ out' = Closed(out, {t} \cap DOMAIN routed)
      /\ UNCHANGED <<lease, off, shut>>
  BY <1>1 DEF close
<1>3. "gone" \in TermStates \ {"idle"}
  BY DEF TermStates
<1>4. Served'
  BY <1>1, <1>2, <1>3, RouteClosed
<1>5. term' \in [Terms -> TermStates]
  BY <1>1, <1>3 DEF BrokerInv, BrokerTypes
<1> QED BY <1>1, <1>2, <1>4, <1>5 DEF BrokerInv, BrokerTypes, Served, Leased

\* The other steps of a request.
LEMMA AsksKept ==
  ASSUME BrokerInv, NEW t \in Terms,
         increment(t) \/ SendOpen(t) \/ SendClose(t) \/ decrement(t) \/ Type(t) \/ Hangup(t)
  PROVE  BrokerInv'
<1>1. UNCHANGED <<lease, off, shut, routed, out, handler>>
  BY DEF increment, SendOpen, SendClose, decrement, Type, Hangup, brokerVars
<1>2. PICK to \in TermStates \ {"idle", "gone"} : Goes(t, to)
  BY DEF increment, SendOpen, SendClose, decrement, Type, Hangup, TermStates
<1>3. DOMAIN out' = Terms /\ \A x \in Terms : IsChannel(out'[x]) /\ out'[x].closed = out[x].closed
  BY <1>1 DEF BrokerInv, BrokerTypes
<1> QED BY <1>1, <1>2, <1>3, RequestGoes

\* The broker keeps its invariant.
LEMMA BrokerStep ==
  ASSUME BrokerInv, [NextTerminals]_terminalVars
  PROVE  BrokerInv'
<1>1. ASSUME NEW s \in Streams, Serves(s) PROVE BrokerInv'
  BY <1>1, AttachStep, DetachStep, StreamStepsKept DEF Serves
<1>2. ASSUME NEW s \in Streams, Read(s) PROVE BrokerInv'
  <2>1. PICK m : m = Head(back[s])
    OBVIOUS
  <2>2. setDisabled(s, refuses) \/ receive(s, m)
    BY <1>2, <2>1 DEF Read
  <2>3. UNCHANGED <<handler, term>>
    BY <1>2 DEF Read, requestVars
  <2> QED BY <1>2, <2>2, <2>3, DisabledStep, ReceiveStep
<1>3. ASSUME NEW s \in Streams, Ping(s) PROVE BrokerInv'
  <2>1. setDisabled(s, row) /\ UNCHANGED <<handler, term>>
    BY <1>3 DEF Ping, requestVars
  <2> QED BY <1>3, <2>1, DisabledStep
<1>4. ASSUME \/ \E s \in Streams : Write(s) \/ handleFrame(s) \/ streamEnds(s) \/ Cut(s)
             \/ \E s \in Streams, t \in Terms : Shell(s, t)
             \/ Heartbeat \/ UNCHANGED terminalVars
      PROVE  BrokerInv'
  <2>1. UNCHANGED <<lease, off, shut, routed, out, term, handler>>
    BY <1>4 DEF Write, handleFrame, streamEnds, Cut, Shell, Heartbeat, terminalVars, brokerVars, requestVars
  <2> QED BY <2>1 DEF BrokerInv, BrokerTypes, Leased, RoutesAlive, RoutesServed, Unused
<1>5. ASSUME NEW t \in Terms, Open(t) \/ Asks(t) \/ Deliver(t) \/ Type(t) \/ Hangup(t) PROVE BrokerInv'
  BY <1>5, OpenStep, AsksKept, DeliverStep, CloseStep DEF Asks
<1>6. ASSUME NEW s \in Streams, Dial(s) PROVE BrokerInv'
  BY <1>6, StreamStepsKept
<1> QED BY <1>1, <1>2, <1>3, <1>4, <1>5, <1>6 DEF NextTerminals

---------------------------------------------------------------------------
\* The terminals of a user

Holders == { t \in Terms : Has(t) }
Counted == { t \in Terms : Has(t) \/ term[t] = "counted" }
UserInv == term \in [Terms -> TermStates] /\ count \in Nat /\ UserBounded

\* Few enough terminals remain few enough when some of them end, and the count
\* with them is that of those counted.
LEMMA FewerHold ==
  ASSUME UserInv, NEW t \in Terms, NEW to \in TermStates, Goes(t, to), UNCHANGED count,
         term[t] \in {"allowed", "waiting", "ready", "typed", "leaving"},
         to \in {"counted", "waiting", "ready", "typed", "leaving"}
  PROVE  UserInv'
<1>1. term' \in [Terms -> TermStates] /\ term'[t] = to /\ \A x \in Terms \ {t} : term'[x] = term[x]
  BY DEF UserInv, Goes
<1>2. Holders' \subseteq Holders /\ Counted' = Counted
  BY <1>1 DEF Holders, Counted, Has, Running
<1>3. IsFiniteSet(Holders) /\ Cardinality(Holders) <= UserLimit /\ count = Cardinality(Counted)
  <2>1. IsFiniteSet(Holders)
    BY TerminalBounds, FS_Subset DEF Holders
  <2> QED BY <2>1 DEF UserInv, UserBounded, Holders, Counted
<1>4. IsFiniteSet(Holders') /\ Cardinality(Holders') <= Cardinality(Holders)
  BY <1>2, <1>3, FS_Subset
<1>5. Cardinality(Holders') <= UserLimit
  <2>1. Cardinality(Holders) \in Nat /\ Cardinality(Holders') \in Nat
    BY <1>3, <1>4, FS_CardinalityType
  <2> QED BY <1>3, <1>4, <2>1, TerminalBounds
<1>6. Cardinality(Holders') <= UserLimit /\ count' = Cardinality(Counted')
  BY <1>2, <1>3, <1>5
<1> QED BY <1>1, <1>6 DEF UserInv, UserBounded, Holders, Counted

\* A request that is neither allowed nor counted changes nothing of it.
LEMMA NoneHolds ==
  ASSUME UserInv, NEW t \in Terms, NEW to \in {"opened", "gone"}, Goes(t, to), UNCHANGED count,
         term[t] \in {"idle", "closing"}
  PROVE  UserInv'
<1>1. term' \in [Terms -> TermStates] /\ term'[t] = to /\ \A x \in Terms \ {t} : term'[x] = term[x]
  BY DEF UserInv, Goes, TermStates
<1>2. Holders' = Holders /\ Counted' = Counted
  BY <1>1 DEF Holders, Counted, Has, Running
<1> QED BY <1>1, <1>2 DEF UserInv, UserBounded, Holders, Counted

\* Those who hold a terminal are among those who are counted.
LEMMA HoldersCounted ==
  /\ Holders \subseteq Counted /\ IsFiniteSet(Counted) /\ IsFiniteSet(Holders)
  /\ Cardinality(Holders) <= Cardinality(Counted)
  /\ Cardinality(Counted) \in Nat /\ Cardinality(Holders) \in Nat
<1>1. Holders \subseteq Counted /\ Counted \subseteq Terms
  BY DEF Holders, Counted
<1>2. IsFiniteSet(Counted)
  BY <1>1, TerminalBounds, FS_Subset
<1>3. IsFiniteSet(Holders) /\ Cardinality(Holders) <= Cardinality(Counted)
  BY <1>1, <1>2, FS_Subset
<1> QED BY <1>1, <1>2, <1>3, FS_CardinalityType

\* A request is counted before it is allowed, so that the limit is that of all.
LEMMA IncrementStep ==
  ASSUME UserInv, NEW t \in Terms, increment(t)
  PROVE  UserInv'
<1>1. PICK to : to = IF count + 1 > UserLimit THEN "counted" ELSE "allowed"
  OBVIOUS
<1>2. term[t] = "opened" /\ count' = count + 1 /\ term' = [term EXCEPT ![t] = to]
  BY <1>1 DEF increment, Goes
<1>3. to \in {"counted", "allowed"} /\ (to = "allowed" => count + 1 <= UserLimit)
  <2>1. UserLimit \in Nat /\ count \in Nat
    BY TerminalBounds DEF UserInv
  <2> QED BY <1>1, <2>1
<1>4. term' \in [Terms -> TermStates] /\ term'[t] = to /\ \A x \in Terms \ {t} : term'[x] = term[x]
  BY <1>2, <1>3 DEF UserInv, TermStates
<1>5. Counted' = Counted \cup {t} /\ t \notin Counted
  BY <1>2, <1>3, <1>4 DEF Counted, Has, Running
<1>6. Cardinality(Counted') = count + 1
  <2>1. Cardinality(Counted \cup {t}) = Cardinality(Counted) + 1
    BY <1>5, HoldersCounted, FS_AddElement
  <2> QED BY <1>5, <2>1 DEF UserInv, UserBounded, Counted
<1>7. Cardinality(Holders') <= UserLimit
  <2>1. CASE to = "counted"
    <3>1. Holders' = Holders
      BY <1>2, <1>4, <2>1 DEF Holders, Has, Running
    <3> QED BY <3>1 DEF UserInv, UserBounded, Holders
  <2>2. CASE to = "allowed"
    <3>1. Holders' \subseteq Counted' /\ IsFiniteSet(Counted')
      <4>1. Holders' \subseteq Counted'
        BY DEF Holders, Counted
      <4>2. IsFiniteSet(Counted \cup {t})
        BY HoldersCounted, FS_AddElement
      <4> QED BY <1>5, <4>1, <4>2
    <3>2. IsFiniteSet(Holders') /\ Cardinality(Holders') <= Cardinality(Counted')
      BY <3>1, FS_Subset
    <3>3. Cardinality(Holders') \in Nat
      BY <3>2, FS_CardinalityType
    <3> QED BY <1>3, <1>6, <2>2, <3>2, <3>3, TerminalBounds DEF UserInv
  <2> QED BY <1>3, <2>1, <2>2
<1>8. count' \in Nat /\ count' = Cardinality(Counted')
  BY <1>2, <1>6 DEF UserInv
<1> QED BY <1>4, <1>7, <1>8 DEF UserInv, UserBounded, Holders, Counted

\* It is no longer counted when it holds nothing any more.
LEMMA DecrementStep ==
  ASSUME UserInv, NEW t \in Terms, decrement(t)
  PROVE  UserInv'
<1>1. term[t] = "counted" /\ count' = count - 1 /\ term' = [term EXCEPT ![t] = "closing"]
  BY DEF decrement, Goes
<1>2. term' \in [Terms -> TermStates] /\ term'[t] = "closing" /\ \A x \in Terms \ {t} : term'[x] = term[x]
  BY <1>1 DEF UserInv, TermStates
<1>3. Counted' = Counted \ {t} /\ t \in Counted /\ Holders' = Holders
  BY <1>1, <1>2 DEF Counted, Holders, Has, Running
<1>4. Cardinality(Counted \ {t}) = Cardinality(Counted) - 1 /\ Cardinality(Counted \ {t}) \in Nat
  <2>1. IsFiniteSet(Counted \ {t}) /\ Cardinality(Counted \ {t}) = Cardinality(Counted) - 1
    BY <1>3, HoldersCounted, FS_RemoveElement
  <2> QED BY <2>1, FS_CardinalityType
<1>5. count = Cardinality(Counted) /\ Cardinality(Holders) <= UserLimit
  BY DEF UserInv, UserBounded, Counted, Holders
<1>6. count' = Cardinality(Counted') /\ count' \in Nat
  BY <1>1, <1>3, <1>4, <1>5
<1>7. Cardinality(Holders') <= UserLimit
  BY <1>3, <1>5
<1> QED BY <1>2, <1>6, <1>7 DEF UserInv, UserBounded, Holders, Counted

\* The user's terminals stay within the limit.
LEMMA UserStep ==
  ASSUME UserInv, [NextTerminals]_terminalVars
  PROVE  UserInv'
<1>1. ASSUME NEW t \in Terms, SendOpen(t) \/ SendClose(t) \/ Deliver(t) \/ Type(t) \/ Hangup(t) PROVE UserInv'
  <2>1. UNCHANGED count
    BY <1>1 DEF SendOpen, SendClose, Deliver, Type, Hangup
  <2>2. PICK to : Goes(t, to) /\ to \in {"counted", "waiting", "ready", "typed", "leaving"}
    BY <1>1 DEF SendOpen, SendClose, Deliver, Type, Hangup, Running
  <2>3. term[t] \in {"allowed", "waiting", "ready", "typed", "leaving"}
    BY <1>1 DEF SendOpen, SendClose, Deliver, Type, Hangup, Running
  <2>4. to \in TermStates
    BY <2>2 DEF TermStates
  <2> QED BY <2>1, <2>2, <2>3, <2>4, FewerHold
<1>2. ASSUME NEW t \in Terms, Open(t) \/ Close(t) PROVE UserInv'
  <2>1. UNCHANGED count /\ term[t] \in {"idle", "closing"} /\ \E to \in {"opened", "gone"} : Goes(t, to)
    BY <1>2 DEF Open, Close
  <2> QED BY <2>1, NoneHolds
<1>3. ASSUME NEW t \in Terms, Asks(t) PROVE UserInv'
  BY <1>1, <1>2, <1>3, IncrementStep, DecrementStep DEF Asks
<1>4. ASSUME \/ \E s \in Streams : Dial(s) \/ Serves(s) \/ Read(s) \/ Write(s) \/ Ping(s) \/ handleFrame(s) \/ streamEnds(s) \/ Cut(s)
             \/ \E s \in Streams, t \in Terms : Shell(s, t)
             \/ Heartbeat \/ UNCHANGED terminalVars
      PROVE  UserInv'
  <2>1. UNCHANGED <<term, count>>
    BY <1>4 DEF Dial, Serves, Attach, Subscribe, Leave, Unsubscribe, Detach, Read, Write, Ping, handleFrame, streamEnds, Cut, Shell, Heartbeat, terminalVars, requestVars
  <2> QED BY <2>1 DEF UserInv, UserBounded, Has, Running
<1> QED BY <1>1, <1>2, <1>3, <1>4 DEF NextTerminals

\* Whatever streams and requests come and go, no channel is closed twice, no route
\* leads to a closed channel or to a stream that does not count, and the user
\* keeps within the limit.
THEOREM TerminalsAreSafe == TerminalsSpec => []TerminalsSafe
<1>1. InitTerminals => BrokerInv
  <2> SUFFICES ASSUME InitTerminals PROVE BrokerInv
    OBVIOUS
  <2>1. BrokerTypes
    <3>1. \A t \in Terms : IsChannel(out[t])
      BY DEF InitTerminals, IsChannel
    <3> QED BY <3>1 DEF InitTerminals, BrokerTypes, HandlerStates, TermStates
  <2>2. Leased /\ RoutesAlive /\ RoutesServed /\ Unused
    BY DEF InitTerminals, Leased, RoutesAlive, RoutesServed, Unused
  <2> QED BY <2>1, <2>2 DEF BrokerInv
<1>2. InitTerminals => UserInv
  <2> SUFFICES ASSUME InitTerminals PROVE UserInv
    OBVIOUS
  <2>1. term \in [Terms -> TermStates] /\ count = 0
    BY DEF InitTerminals, TermStates
  <2>2. { t \in Terms : Has(t) } = {} /\ { t \in Terms : Has(t) \/ term[t] = "counted" } = {}
    BY DEF InitTerminals, Has, Running
  <2>3. Cardinality({}) = 0
    BY FS_EmptySet
  <2> QED BY <2>1, <2>2, <2>3, TerminalBounds DEF UserInv, UserBounded
<1>3. BrokerInv /\ UserInv => TerminalsSafe
  <2>1. BrokerInv => ClosedOnce
    BY DEF BrokerInv, BrokerTypes, IsChannel, ClosedOnce
  <2> QED BY <2>1 DEF BrokerInv, UserInv, TerminalsSafe
<1> QED BY <1>1, <1>2, <1>3, BrokerStep, UserStep, PTL DEF TerminalsSpec

---------------------------------------------------------------------------
\* Tunnels

FlowStates == {"rest", "wait", "dial", "open", "asked", "up", "over"}
ServedStates == {"none", "read", "dial", "out", "relay", "ends"}
IsFlow(f) == f = [at |-> f.at, link |-> f.link] /\ f.at \in FlowStates
IsServed(v) == v = [at |-> v.at, of |-> v.of] /\ v.at \in ServedStates
TunnelTypes ==
  /\ DOMAIN flow = Flows /\ \A s \in Flows : IsFlow(flow[s])
  /\ DOMAIN served = Flows /\ \A s \in Flows : IsServed(served[s])
\* The next node serves nothing for a stream that has not asked yet.
AskedFirst == \A s \in Flows : flow[s].at \in {"wait", "dial", "open"} => served[s].at = "none"
\* A stream that waits has no connection yet, and only sessions are dialled for many.
Ways == \A s \in Flows : flow[s].at = "wait" => flow[s].link = NoLink
Sessions == \A s \in Flows : flow[s].at \in {"dial", "open"} => chained
TunnelInv == TunnelTypes /\ TunnelSafe /\ AskedFirst /\ Ways /\ Sessions

\* What a step of one stream leaves as it was.
Others(s) == \A x \in Flows \ {s} : flow'[x] = flow[x] /\ served'[x] = served[x]

\* A stream goes on at the entrance, and dials or not.
LEMMA FlowGoes ==
  ASSUME TunnelInv, NEW s \in Flows, NEW at \in FlowStates, NEW l,
         flow' = [flow EXCEPT ![s] = [at |-> at, link |-> l]], UNCHANGED <<chained, served, forwarder>>,
         at \in {"wait", "dial", "open"} => served[s].at = "none",
         at = "wait" => l = NoLink, at \in {"dial", "open"} => chained,
         l = flow[s].link \/ served[s].at = "none",
         flow[s].at = "dial" \/ at = "dial" => muxMu \in {s, Free},
         muxMu' = IF at = "dial" THEN s ELSE IF muxMu = s THEN Free ELSE muxMu
  PROVE  TunnelInv'
<1>1. /\ DOMAIN flow' = Flows /\ flow'[s] = [at |-> at, link |-> l]
      /\ \A x \in Flows \ {s} : flow'[x] = flow[x]
  BY DEF TunnelInv, TunnelTypes
<1>2. IsFlow(flow'[s])
  BY <1>1 DEF IsFlow
<1>3. TunnelTypes'
  BY <1>1, <1>2 DEF TunnelInv, TunnelTypes
<1>4. AskedFirst' /\ Ways' /\ Sessions'
  BY <1>1 DEF TunnelInv, AskedFirst, Ways, Sessions
<1>5. OneDials'
  <2>1. \A x \in Flows : x # Free
    BY TunnelBounds DEF Free
  <2>2. flow'[s].at = at
    BY <1>1
  <2>3. \A x \in Flows : flow[x].at = "dial" <=> muxMu = x
    BY DEF TunnelInv, TunnelSafe, OneDials, At
  <2>4. \A x \in Flows \ {s} : flow'[x].at = "dial" <=> muxMu' = x
    BY <1>1, <2>1, <2>3
  <2>5. flow'[s].at = "dial" <=> muxMu' = s
    BY <2>1, <2>2
  <2> QED BY <2>4, <2>5 DEF OneDials, At
<1>6. SlotsKept'
  <2>1. ASSUME NEW k \in Links PROVE Taken(k)' = Taken(k)
    BY <1>1 DEF Taken
  <2> QED BY <2>1 DEF TunnelInv, TunnelSafe, SlotsKept
<1>7. NoOrphans'
  BY DEF TunnelInv, TunnelSafe, NoOrphans
<1> QED BY <1>3, <1>4, <1>5, <1>6, <1>7 DEF TunnelInv, TunnelSafe

\* The goroutine of a stream goes on at the next node, and may end.
LEMMA ServedGoes ==
  ASSUME TunnelInv, NEW s \in Flows, NEW at \in ServedStates, NEW of,
         served' = [served EXCEPT ![s] = [at |-> at, of |-> of]],
         UNCHANGED <<chained, flow, muxMu, forwarder>>,
         served[s].at = "none" /\ at # "none" =>
           ~chained /\ flow[s].at \notin {"wait", "dial", "open"},
         at = "relay" => of = forwarder
  PROVE  TunnelInv'
<1>1. /\ DOMAIN served' = Flows /\ served'[s] = [at |-> at, of |-> of]
      /\ \A x \in Flows \ {s} : served'[x] = served[x]
  BY DEF TunnelInv, TunnelTypes
<1>2. IsServed(served'[s])
  BY <1>1 DEF IsServed
<1>3. TunnelTypes' /\ AskedFirst' /\ Ways' /\ Sessions' /\ OneDials' /\ NoOrphans'
  BY <1>1, <1>2 DEF TunnelInv, TunnelTypes, TunnelSafe, AskedFirst, Ways, Sessions, OneDials, NoOrphans, At
<1>4. SlotsKept'
  <2>1. ASSUME chained, NEW k \in Links PROVE Cardinality(Taken(k)') <= Slots
    <3>1. Taken(k)' \subseteq Taken(k)
      BY <1>1, <2>1 DEF Taken
    <3>2. IsFiniteSet(Taken(k)) /\ Cardinality(Taken(k)) <= Slots
      <4>1. IsFiniteSet(Taken(k))
        BY TunnelBounds, FS_Subset DEF Taken
      <4> QED BY <2>1, <4>1 DEF TunnelInv, TunnelSafe, SlotsKept
    <3>3. IsFiniteSet(Taken(k)') /\ Cardinality(Taken(k)') <= Cardinality(Taken(k))
      BY <3>1, <3>2, FS_Subset
    <3>4. Cardinality(Taken(k)) \in Nat /\ Cardinality(Taken(k)') \in Nat
      BY <3>2, <3>3, FS_CardinalityType
    <3> QED BY <3>2, <3>3, <3>4, TunnelBounds
  <2> QED BY <2>1 DEF SlotsKept
<1> QED BY <1>3, <1>4 DEF TunnelInv, TunnelSafe

\* A step that leaves streams, goroutines, lock and forwarder alone.
LEMMA TunnelKept ==
  ASSUME TunnelInv, UNCHANGED <<chained, flow, muxMu, served, forwarder>>
  PROVE  TunnelInv'
  BY DEF TunnelInv, TunnelTypes, TunnelSafe, NoOrphans, OneDials, SlotsKept, Taken, AskedFirst, Ways, Sessions, At

\* A stream of a session gets a goroutine while the session has a slot.
LEMMA OpenStreamStep ==
  ASSUME TunnelInv, NEW s \in Flows, OpenStream(s), UNCHANGED chained
  PROVE  TunnelInv'
<1>1. PICK k, of : k = flow[s].link /\ of = Of(s).of
  OBVIOUS
<1>2. /\ flow[s].at = "open" /\ flow' = [flow EXCEPT ![s].at = "asked"]
      /\ served' = IF HasSlot(k) THEN [served EXCEPT ![s] = [at |-> "read", of |-> of]] ELSE served
      /\ UNCHANGED <<muxMu, forwarder>>
  BY <1>1 DEF OpenStream, At, Go
<1>3. IsFlow(flow[s]) /\ served[s].at = "none"
  BY <1>2 DEF TunnelInv, TunnelTypes, AskedFirst
<1>4. /\ DOMAIN flow' = Flows /\ flow'[s] = [flow[s] EXCEPT !.at = "asked"]
      /\ \A x \in Flows \ {s} : flow'[x] = flow[x]
  BY <1>2 DEF TunnelInv, TunnelTypes
<1>5. flow'[s] = [at |-> "asked", link |-> k]
  BY <1>1, <1>3, <1>4 DEF IsFlow
<1>6. /\ DOMAIN served' = Flows /\ \A x \in Flows \ {s} : served'[x] = served[x]
      /\ IF HasSlot(k) THEN served'[s] = [at |-> "read", of |-> of] ELSE served'[s] = served[s]
  BY <1>2 DEF TunnelInv, TunnelTypes
<1>7. IsFlow(flow'[s]) /\ IsServed(served'[s]) /\ served'[s].at # "relay"
  BY <1>3, <1>5, <1>6 DEF IsFlow, IsServed, FlowStates, ServedStates, TunnelInv, TunnelTypes
<1>8. TunnelTypes' /\ AskedFirst' /\ Ways' /\ Sessions' /\ NoOrphans'
  BY <1>2, <1>4, <1>5, <1>6, <1>7 DEF TunnelInv, TunnelTypes, TunnelSafe, AskedFirst, Ways, Sessions, NoOrphans
<1>9. OneDials'
  <2>1. \A x \in Flows : flow[x].at = "dial" <=> muxMu = x
    BY DEF TunnelInv, TunnelSafe, OneDials, At
  <2> QED BY ZenonT(30), <1>2, <1>4, <1>5, <2>1 DEF OneDials, At
<1>10. SlotsKept'
  <2>1. ASSUME chained, NEW j \in Links PROVE Cardinality(Taken(j)') <= Slots
    <3>1. IsFiniteSet(Taken(j)) /\ Cardinality(Taken(j)) <= Slots /\ s \notin Taken(j)
      <4>1. IsFiniteSet(Taken(j))
        BY TunnelBounds, FS_Subset DEF Taken
      <4> QED BY <1>3, <2>1, <4>1 DEF TunnelInv, TunnelSafe, SlotsKept, Taken
    <3>2. CASE j = k /\ HasSlot(k)
      <4>1. Taken(j)' = Taken(j) \cup {s}
        BY <1>1, <1>4, <1>5, <1>6, <3>2 DEF Taken
      <4>2. Cardinality(Taken(j) \cup {s}) = Cardinality(Taken(j)) + 1 /\ Cardinality(Taken(j)) \in Nat
        BY <3>1, FS_AddElement, FS_CardinalityType
      <4>3. Cardinality(Taken(j)) < Slots
        BY <3>2 DEF HasSlot
      <4> QED BY <4>1, <4>2, <4>3, TunnelBounds
    <3>3. CASE ~(j = k /\ HasSlot(k))
      <4>1. Taken(j)' = Taken(j)
        BY <1>1, <1>3, <1>4, <1>5, <1>6, <3>3 DEF Taken
      <4> QED BY <3>1, <4>1
    <3> QED BY <3>2, <3>3
  <2> QED BY <2>1 DEF SlotsKept
<1> QED BY <1>8, <1>9, <1>10 DEF TunnelInv, TunnelSafe

\* The steps of the entrance.
LEMMA EntranceStep ==
  ASSUME TunnelInv, NEW s \in Flows, UNCHANGED chained,
         dialPeer(s) \/ dialMux(s) \/ dialPeerBase(s) \/ Established(s) \/ Opened(s) \/ Fail(s) \/ Forget(s)
  PROVE  TunnelInv'
<1> USE DEF At
<1>1. IsFlow(flow[s]) /\ flow[s].at \in FlowStates
  BY DEF TunnelInv, TunnelTypes, IsFlow
<1>2. PICK f : f = flow[s]
  OBVIOUS
<1>3. f = [at |-> f.at, link |-> f.link]
  BY <1>1, <1>2 DEF IsFlow
<1>4. \A x \in Flows : (flow[x].at = "dial" <=> muxMu = x) /\ x # Free
  BY TunnelBounds DEF TunnelInv, TunnelSafe, OneDials, Free
<1>5. f.at \in {"wait", "dial", "open"} => served[s].at = "none"
  BY <1>2 DEF TunnelInv, AskedFirst
<1>6. ASSUME dialPeer(s) PROVE TunnelInv'
  <2>1. flow' = [flow EXCEPT ![s] = [at |-> "wait", link |-> NoLink]] /\ served[s].at = "none" /\ f.at = "rest"
    BY <1>2, <1>6 DEF dialPeer, Unserved
  <2>2. UNCHANGED <<muxMu, served, forwarder>> /\ muxMu # s
    BY <1>2, <1>4, <1>6, <2>1 DEF dialPeer
  <2> QED BY <2>1, <2>2, FlowGoes, <1>2 DEF FlowStates
<1>7. ASSUME dialMux(s) PROVE TunnelInv'
  <2>1. f.at = "wait" /\ chained /\ muxMu = Free /\ UNCHANGED <<served, forwarder>> /\ served[s].at = "none"
    BY <1>2, <1>5, <1>7 DEF dialMux
  <2>2. CASE session # NoLink
    <3>1. flow' = [flow EXCEPT ![s] = [at |-> "open", link |-> session]] /\ UNCHANGED muxMu
      BY <1>7, <2>2 DEF dialMux
    <3> QED BY <1>2, <1>4, <2>1, <3>1, FlowGoes DEF FlowStates
  <2>3. CASE session = NoLink
    <3>1. PICK k \in Links :
            flow' = [flow EXCEPT ![s] = [at |-> "dial", link |-> k]] /\ muxMu' = s
      BY <1>7, <2>3 DEF dialMux
    <3> QED BY <1>2, <2>1, <3>1, FlowGoes DEF FlowStates
  <2> QED BY <2>2, <2>3
<1>8. ASSUME dialPeerBase(s) PROVE TunnelInv'
  <2>1. f.at = "wait" /\ UNCHANGED <<muxMu, served, forwarder>> /\ served[s].at = "none" /\ muxMu # s
    BY <1>2, <1>4, <1>5, <1>8 DEF dialPeerBase
  <2>2. PICK k \in Links : flow' = [flow EXCEPT ![s] = [at |-> "asked", link |-> k]]
    BY <1>8 DEF dialPeerBase
  <2> QED BY <1>2, <2>1, <2>2, FlowGoes DEF FlowStates
<1>9. ASSUME Established(s) PROVE TunnelInv'
  <2>0. f.at = "dial" => chained
    BY <1>2 DEF TunnelInv, Sessions
  <2>1. /\ f.at = "dial" /\ flow' = [flow EXCEPT ![s] = [f EXCEPT !.at = "open"]]
        /\ muxMu' = Free /\ UNCHANGED <<served, forwarder>> /\ served[s].at = "none" /\ muxMu = s
    BY <1>2, <1>4, <1>5, <1>9 DEF Established, Go, TunnelInv, TunnelTypes
  <2>2. [f EXCEPT !.at = "open"] = [at |-> "open", link |-> f.link]
    BY <1>3
  <2>3. flow' = [flow EXCEPT ![s] = [at |-> "open", link |-> f.link]]
    BY <2>1, <2>2
  <2> QED BY <1>2, <2>0, <2>1, <2>3, FlowGoes DEF FlowStates
<1>10. ASSUME Opened(s) PROVE TunnelInv'
  <2>1. /\ f.at = "asked" /\ flow' = [flow EXCEPT ![s] = [f EXCEPT !.at = "up"]]
        /\ UNCHANGED <<muxMu, served, forwarder>> /\ muxMu # s
    BY <1>2, <1>4, <1>10 DEF Opened, Go, TunnelInv, TunnelTypes
  <2>2. [f EXCEPT !.at = "up"] = [at |-> "up", link |-> f.link]
    BY <1>3
  <2>3. flow' = [flow EXCEPT ![s] = [at |-> "up", link |-> f.link]]
    BY <2>1, <2>2
  <2> QED BY <1>2, <2>1, <2>3, FlowGoes DEF FlowStates
<1>11. ASSUME Fail(s) PROVE TunnelInv'
  <2>1. /\ flow' = [flow EXCEPT ![s] = [f EXCEPT !.at = "over"]]
        /\ muxMu' = (IF muxMu = s THEN Free ELSE muxMu) /\ UNCHANGED <<served, forwarder>>
    BY <1>2, <1>11 DEF Fail, HangUp, TunnelInv, TunnelTypes
  <2>2. [f EXCEPT !.at = "over"] = [at |-> "over", link |-> f.link]
    BY <1>3
  <2>3. flow' = [flow EXCEPT ![s] = [at |-> "over", link |-> f.link]]
    BY <2>1, <2>2
  <2> QED BY <1>2, <1>4, <2>1, <2>3, FlowGoes DEF FlowStates
<1>12. ASSUME Forget(s) PROVE TunnelInv'
  <2>1. flow' = [flow EXCEPT ![s] = [at |-> "rest", link |-> NoLink]] /\ served[s].at = "none" /\ f.at = "over"
    BY <1>2, <1>12 DEF Forget, Resting, Unserved
  <2>2. UNCHANGED <<muxMu, served, forwarder>> /\ muxMu # s
    BY <1>2, <1>4, <1>12, <2>1 DEF Forget
  <2> QED BY <2>1, <2>2, FlowGoes, <1>2 DEF FlowStates
<1> QED BY <1>6, <1>7, <1>8, <1>9, <1>10, <1>11, <1>12

\* The steps of the goroutines of the next node.
LEMMA ServingStep ==
  ASSUME TunnelInv, NEW s \in Flows, UNCHANGED chained,
         Authorize(s) \/ OpenAt(s) \/ serveTunnel(s) \/ RelayEnds(s) \/ Return(s)
  PROVE  TunnelInv'
<1>1. PICK v : v = served[s]
  OBVIOUS
<1>2. v = [at |-> v.at, of |-> v.of] /\ v.at \in ServedStates
  BY <1>1 DEF TunnelInv, TunnelTypes, IsServed
<1>3. UNCHANGED <<flow, muxMu, forwarder>> /\ v.at # "none"
  BY <1>1 DEF Authorize, OpenAt, serveTunnel, RelayEnds, Return
<1>4. CASE Return(s)
  <2>1. served' = [served EXCEPT ![s] = [at |-> "none", of |-> 0]]
    BY <1>4 DEF Return, Unserved
  <2> QED BY <1>1, <1>3, <2>1, ServedGoes DEF ServedStates
<1>5. CASE ~Return(s)
  <2>1. PICK next \in ServedStates \ {"none"} :
          served' = [served EXCEPT ![s] = [v EXCEPT !.at = next]] /\ (next = "relay" => v.of = forwarder)
    <3>1. PICK next \in ServedStates \ {"none"} : ServedAt(s, next) /\ (next = "relay" => served[s].of = forwarder)
      BY <1>5 DEF Authorize, OpenAt, serveTunnel, RelayEnds, track, ServedStates
    <3> QED BY <1>1, <3>1 DEF ServedAt, TunnelInv, TunnelTypes
  <2>2. [v EXCEPT !.at = next] = [at |-> next, of |-> v.of]
    BY <1>2
  <2>3. served' = [served EXCEPT ![s] = [at |-> next, of |-> v.of]]
    BY <2>1, <2>2
  <2>4. served[s].at # "none"
    BY <1>1, <1>3
  <2>5. next \in ServedStates /\ (next = "relay" => v.of = forwarder)
    BY <2>1
  <2>6. UNCHANGED <<chained, flow, muxMu, forwarder>>
    BY <1>3
  <2> QED BY <2>3, <2>4, <2>5, <2>6, ServedGoes
<1> QED BY <1>4, <1>5

\* A forwarder is replaced: what it relays ends with it.
LEMMA RestartStep ==
  ASSUME TunnelInv, Restart, UNCHANGED chained
  PROVE  TunnelInv'
<1>1. /\ served' = [s \in Flows |-> IF served[s].at = "relay" THEN [served[s] EXCEPT !.at = "ends"] ELSE served[s]]
      /\ UNCHANGED <<flow, muxMu>>
  BY DEF Restart
<1>2. ASSUME NEW s \in Flows
      PROVE  IsServed(served'[s]) /\ served'[s].at # "relay" /\ (served'[s].at = "none" <=> served[s].at = "none")
  <2>1. PICK v : v = served[s]
    OBVIOUS
  <2>2. v = [at |-> v.at, of |-> v.of] /\ v.at \in ServedStates
    BY <2>1 DEF TunnelInv, TunnelTypes, IsServed
  <2>3. CASE v.at = "relay"
    <3>1. served'[s] = [at |-> "ends", of |-> v.of]
      BY <1>1, <2>1, <2>2, <2>3
    <3> QED BY <2>1, <2>3, <3>1 DEF IsServed, ServedStates
  <2>4. CASE v.at # "relay"
    <3>1. served'[s] = v
      BY <1>1, <2>1, <2>4
    <3> QED BY <2>1, <2>2, <2>4, <3>1 DEF IsServed
  <2> QED BY <2>3, <2>4
<1>3. TunnelTypes' /\ AskedFirst' /\ Ways' /\ Sessions' /\ NoOrphans' /\ OneDials'
  BY <1>1, <1>2 DEF TunnelInv, TunnelTypes, TunnelSafe, AskedFirst, Ways, Sessions, NoOrphans, OneDials, At
<1>4. SlotsKept'
  <2>1. ASSUME NEW k \in Links PROVE Taken(k)' = Taken(k)
    BY <1>1, <1>2 DEF Taken
  <2> QED BY <2>1 DEF TunnelInv, TunnelSafe, SlotsKept
<1> QED BY <1>3, <1>4 DEF TunnelInv, TunnelSafe

\* The gateway answers the first request of a connection.
LEMMA HandleStep ==
  ASSUME TunnelInv, NEW k \in Links, handle(k), UNCHANGED chained
  PROVE  TunnelInv'
<1>1. UNCHANGED <<flow, muxMu, forwarder>>
  BY DEF handle
<1>2. CASE chained
  <2>1. UNCHANGED served
    BY <1>2 DEF handle
  <2> QED BY <1>1, <2>1, TunnelKept
<1>3. CASE ~chained
  <2>1. PICK s \in Flows : flow[s].link = k /\ served' = [served EXCEPT ![s] = [at |-> "dial", of |-> forwarder]]
    BY <1>3 DEF handle
  <2>2. flow[s].at \notin {"wait", "dial", "open"}
    BY <1>3, <2>1, TunnelBounds DEF TunnelInv, Ways, Sessions, NoLink
  <2>3. "dial" \in ServedStates
    BY DEF ServedStates
  <2> QED BY <1>1, <1>3, <2>1, <2>2, <2>3, ServedGoes
<1> QED BY <1>2, <1>3

\* Tunnels keep their invariant.
LEMMA TunnelStep ==
  ASSUME TunnelInv, [NextTunnel]_tunnelVars
  PROVE  TunnelInv'
<1>1. ASSUME NextTunnel PROVE TunnelInv'
  <2>1. StreamStep /\ UNCHANGED chained
    BY <1>1 DEF NextTunnel
  <2>2. ASSUME NEW s \in Flows,
               \/ dialPeer(s) \/ dialMux(s) \/ dialPeerBase(s) \/ Established(s) \/ OpenStream(s)
               \/ Opened(s) \/ Fail(s) \/ Forget(s)
               \/ Authorize(s) \/ OpenAt(s) \/ serveTunnel(s) \/ RelayEnds(s) \/ Return(s)
        PROVE  TunnelInv'
    BY <2>1, <2>2, EntranceStep, OpenStreamStep, ServingStep
  <2>3. ASSUME NEW k \in Links, Reuse(k) \/ handle(k) \/ Keep(k) \/ Sever(k) PROVE TunnelInv'
    <3>1. CASE Reuse(k) \/ Keep(k) \/ Sever(k)
      BY <2>1, <3>1, TunnelKept DEF Reuse, Keep, Sever
    <3>2. CASE handle(k)
      BY <2>1, <3>2, HandleStep
    <3> QED BY <2>3, <3>1, <3>2
  <2>4. ASSUME Notice PROVE TunnelInv'
    BY <2>1, <2>4, TunnelKept DEF Notice
  <2>5. ASSUME Restart PROVE TunnelInv'
    BY <2>1, <2>5, RestartStep
  <2> QED BY <2>1, <2>2, <2>3, <2>4, <2>5 DEF StreamStep
<1>2. ASSUME UNCHANGED tunnelVars PROVE TunnelInv'
  BY <1>2, TunnelKept DEF tunnelVars, streamVars
<1> QED BY <1>1, <1>2

\* Whatever rules are replaced and connections break, nothing is relayed for a
\* forwarder that is closed, one stream at a time dials a session, and a session
\* serves no more streams than it has slots.
THEOREM TunnelIsSafe == TunnelSpec => []TunnelSafe
<1>1. InitTunnel => TunnelInv
  <2> SUFFICES ASSUME InitTunnel PROVE TunnelInv
    OBVIOUS
  <2>1. TunnelTypes /\ AskedFirst /\ Ways /\ Sessions
    BY DEF InitTunnel, TunnelTypes, AskedFirst, Ways, Sessions, IsFlow, IsServed, FlowStates, ServedStates,
           Resting, Unserved
  <2>2. NoOrphans /\ OneDials
    BY TunnelBounds DEF InitTunnel, NoOrphans, OneDials, At, Resting, Unserved, Free
  <2>3. SlotsKept
    <3>1. \A k \in Links : Taken(k) = {}
      BY DEF InitTunnel, Taken, Unserved
    <3> QED BY <3>1, FS_EmptySet, TunnelBounds DEF SlotsKept
  <2> QED BY <2>1, <2>2, <2>3 DEF TunnelInv, TunnelSafe
<1>2. TunnelInv => TunnelSafe
  BY DEF TunnelInv
<1> QED BY <1>1, <1>2, TunnelStep, PTL DEF TunnelSpec
=============================================================================
