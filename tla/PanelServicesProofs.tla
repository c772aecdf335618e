------------------------ MODULE PanelServicesProofs ------------------------
(***************************************************************************)
(* The panel's background services and its database: a task runs one round *)
(* at a time and the endpoint is told in order (PanelJobs); alerts open    *)
(* once, for a condition that lasted, and are told without noise (Alerts); *)
(* settings are always the work of whole updates (Settings), a table that  *)
(* passed the comparison of a database copy holds what was scanned         *)
(* (DatabaseCopy), and backups and the copies restores make can be relied  *)
(* on (Backups), for any rows, any updates and any requests, failures,     *)
(* restarts and panels at work.  No proof uses a bound of TLC's runs; what *)
(* happens in the end stays with TLC.                                      *)
(***************************************************************************)
EXTENDS Alerts, PanelJobs, Settings, DatabaseCopy, Backups, FiniteSetTheorems, SequenceTheorems, TLAPS

---------------------------------------------------------------------------
\* PanelJobs.

\* There is one worker, the first.  What it posts is later than what was told and
\* earlier than what is queued, which is in order.
WorkerStates == {"none", "idle", "post", "wait", "gone"}
JobTypes ==
  /\ actor \in [JobActors -> {"idle", "run", "noted", "gone"}] /\ running \in BOOLEAN
  /\ workers \in [1..2 -> [at : WorkerStates, event : Nat, tries : Nat]]
  /\ workers[2] = NoWorker
  /\ queue \in Seq(Nat) /\ told \in Seq(Nat) /\ events \in Nat
Alone == (\A a, b \in Inside : a = b) /\ (Inside # {} => running)
Ordered ==
  /\ \A i, j \in DOMAIN told : i < j => told[i] <= told[j]
  /\ \A i, j \in DOMAIN queue : i < j => queue[i] < queue[j]
  /\ \A i \in DOMAIN told : told[i] <= events
  /\ \A j \in DOMAIN queue : queue[j] <= events
  /\ \A i \in DOMAIN told : \A j \in DOMAIN queue : told[i] <= queue[j]
Posting ==
  workers[1].at \in {"post", "wait"} =>
    /\ workers[1].event <= events
    /\ \A i \in DOMAIN told : told[i] <= workers[1].event
    /\ \A j \in DOMAIN queue : workers[1].event < queue[j]
JobInv == JobTypes /\ Alone /\ Ordered /\ Posting

LEMMA JobInit == InitJobs => JobInv
<1> SUFFICES ASSUME InitJobs PROVE JobInv
  OBVIOUS
<1>1. JobTypes
  <2>1. actor \in [JobActors -> {"idle", "run", "noted", "gone"}]
    BY DEF InitJobs
  <2>2. workers \in [1..2 -> [at : WorkerStates, event : Nat, tries : Nat]] /\ workers[2] = NoWorker
    BY DEF InitJobs, NoWorker, WorkerStates
  <2>3. queue \in Seq(Nat) /\ told \in Seq(Nat) /\ events \in Nat
    BY DEF InitJobs
  <2>4. running \in BOOLEAN
    BY DEF InitJobs
  <2> QED BY <2>1, <2>2, <2>3, <2>4 DEF JobTypes
<1>2. Alone /\ Ordered /\ Posting
  BY DEF InitJobs, Alone, Inside, Ordered, Posting, NoWorker
<1> QED BY <1>1, <1>2 DEF JobInv

\* The queue and its worker are not touched by the task, nor the task by them.
LEMMA TaskSteps ==
  ASSUME JobInv, UNCHANGED <<queue, workers, events, told>>,
         NEW a \in JobActors, NEW next \in {"idle", "run", "noted", "gone"}, running' \in BOOLEAN,
         actor' = [actor EXCEPT ![a] = next],
         \/ next = "run" /\ ~running /\ running'
         \/ next = "noted" /\ a \in Inside /\ running' = running
         \/ next = "idle" /\ a \in Inside
         \/ next = "gone" /\ running' = running
  PROVE  JobInv'
<1>1. JobTypes
  BY DEF JobInv
<1>2. actor'[a] = next /\ \A b \in JobActors : b # a => actor'[b] = actor[b]
  BY <1>1 DEF JobTypes
<1>3. JobTypes'
  BY <1>1 DEF JobTypes
<1>4. Alone'
  <2>1. CASE next = "run" /\ ~running /\ running'
    <3>1. Inside = {}
      BY <2>1 DEF JobInv, Alone
    <3>2. Inside' = {a}
      BY <1>2, <2>1, <3>1 DEF Inside
    <3> QED BY <2>1, <3>2 DEF Alone
  <2>2. CASE next = "noted" /\ a \in Inside /\ running' = running
    <3>1. Inside' = Inside
      BY <1>2, <2>2 DEF Inside
    <3> QED BY <2>2, <3>1 DEF JobInv, Alone
  <2>3. CASE next = "idle" /\ a \in Inside
    <3>1. Inside' = {}
      BY <1>2, <2>3 DEF JobInv, Alone, Inside
    <3> QED BY <3>1 DEF Alone
  <2>4. CASE next = "gone" /\ running' = running
    <3>1. Inside' \subseteq Inside
      BY <1>2, <2>4 DEF Inside
    <3> QED BY <2>4, <3>1 DEF JobInv, Alone
  <2> QED BY <2>1, <2>2, <2>3, <2>4
<1>5. Ordered' /\ Posting'
  BY DEF JobInv, Ordered, Posting
<1> QED BY <1>3, <1>4, <1>5 DEF JobInv

LEMMA JobActorsStep ==
  ASSUME JobInv, \/ LoopTick \/ LoopEnds
                 \/ \E a \in Callers : RunTask(a)
                 \/ \E a \in JobActors : Note(a) \/ Clear(a)
  PROVE  JobInv'
<1>1. ASSUME NEW a \in JobActors, execute(a) PROVE JobInv'
  BY <1>1, TaskSteps DEF execute, Entry
<1>2. ASSUME NEW a \in JobActors, Note(a) PROVE JobInv'
  <2>1. a \in Inside /\ running \in BOOLEAN
    BY <1>2 DEF Note, Inside, JobInv, JobTypes
  <2> QED BY <1>2, <2>1, TaskSteps DEF Note
<1>3. ASSUME NEW a \in JobActors, Clear(a) PROVE JobInv'
  <2>1. a \in Inside
    BY <1>3 DEF Clear, Inside
  <2> QED BY <1>3, <2>1, TaskSteps DEF Clear, Cleared
<1>4. ASSUME LoopEnds PROVE JobInv'
  BY <1>4, TaskSteps DEF LoopEnds, JobInv, JobTypes, JobActors
<1> QED BY <1>1, <1>2, <1>3, <1>4 DEF LoopTick, RunTask, RunNow, JobActors

\* Steps of the queue and its worker.
LEMMA QueueFrame ==
  ASSUME JobInv, UNCHANGED <<actor, running>>, Ordered', Posting',
         queue' \in Seq(Nat), told' \in Seq(Nat), events' \in Nat,
         NEW state \in [at : WorkerStates, event : Nat, tries : Nat],
         workers' = [workers EXCEPT ![1] = state]
  PROVE  JobInv'
<1>1. JobTypes'
  BY DEF JobInv, JobTypes
<1>2. Alone'
  BY DEF JobInv, Alone, Inside
<1> QED BY <1>1, <1>2 DEF JobInv

LEMMA QueueStep ==
  ASSUME JobInv, NotifyEvent PROVE JobInv'
<1>1. JobTypes
  BY DEF JobInv
<1> DEFINE state == IF workers[1] = NoWorker THEN [at |-> "idle", event |-> 0, tries |-> 0] ELSE workers[1]
<1>2. /\ events' = events + 1 /\ UNCHANGED <<panel, actor, running, lastResult, told>>
      /\ workers' = [workers EXCEPT ![1] = state]
      /\ queue' = IF Len(queue) < QueueSize THEN Append(queue, events + 1) ELSE queue
  <2>1. workers' = IF workers[1] = NoWorker THEN [workers EXCEPT ![1].at = "idle"] ELSE workers
    BY DEF NotifyEvent, SendAsync, startWorker
  <2>2. CASE workers[1] = NoWorker
    <3>1. [workers[1] EXCEPT !.at = "idle"] = state
      BY <2>2 DEF NoWorker
    <3>2. workers' = [workers EXCEPT ![1] = [workers[1] EXCEPT !.at = "idle"]]
      BY <2>1, <2>2
    <3> QED BY <3>1, <3>2 DEF NotifyEvent, SendAsync
  <2>3. CASE workers[1] # NoWorker
    <3>1. workers' = workers /\ state = workers[1]
      BY <2>1, <2>3
    <3>2. workers = [workers EXCEPT ![1] = workers[1]]
      BY <1>1 DEF JobTypes
    <3> HIDE DEF state
    <3> QED BY <3>1, <3>2 DEF NotifyEvent, SendAsync
  <2> QED BY <2>2, <2>3
<1>3. state \in [at : WorkerStates, event : Nat, tries : Nat] /\ workers'[1] = state
      /\ (state.at \in {"post", "wait"} => state = workers[1])
  BY <1>1, <1>2 DEF JobTypes, WorkerStates
<1>4. queue' \in Seq(Nat) /\ events' \in Nat
  BY <1>1, <1>2 DEF JobTypes
<1>5. /\ DOMAIN queue \subseteq DOMAIN queue' /\ \A j \in DOMAIN queue : queue'[j] = queue[j]
      /\ \A j \in DOMAIN queue' : j \in DOMAIN queue \/ (queue'[j] = events + 1 /\ j = Len(queue) + 1)
      /\ \A i \in DOMAIN queue : i < Len(queue) + 1 /\ i \in Nat
      /\ Len(queue) \in Nat
  <2>1. DOMAIN queue = 1 .. Len(queue) /\ Len(queue) \in Nat
    BY <1>1 DEF JobTypes
  <2> QED BY SMTT(30), <1>1, <1>2, <2>1 DEF JobTypes
<1>6. /\ \A j \in DOMAIN queue : queue[j] \in Nat
      /\ \A i \in DOMAIN told : told[i] \in Nat
  BY <1>1 DEF JobTypes
<1>7. Ordered'
  <2>1. /\ \A i, j \in DOMAIN told : i < j => told[i] <= told[j]
        /\ \A i, j \in DOMAIN queue : i < j => queue[i] < queue[j]
        /\ \A i \in DOMAIN told : told[i] <= events
        /\ \A j \in DOMAIN queue : queue[j] <= events
        /\ \A i \in DOMAIN told : \A j \in DOMAIN queue : told[i] <= queue[j]
        /\ events \in Nat
    BY <1>1 DEF JobInv, Ordered, JobTypes
  <2>2. \A i, j \in DOMAIN queue' : i < j => queue'[i] < queue'[j]
    <3> SUFFICES ASSUME NEW i \in DOMAIN queue', NEW j \in DOMAIN queue', i < j
                 PROVE  queue'[i] < queue'[j]
      OBVIOUS
    <3>1. i \in DOMAIN queue
      BY <1>5
    <3> QED BY <1>5, <1>6, <2>1, <3>1
  <2>3. /\ \A i \in DOMAIN told : told[i] <= events'
        /\ \A j \in DOMAIN queue' : queue'[j] <= events'
        /\ \A i \in DOMAIN told : \A j \in DOMAIN queue' : told[i] <= queue'[j]
    BY <1>2, <1>5, <1>6, <2>1
  <2> QED BY <1>2, <2>1, <2>2, <2>3 DEF Ordered
<1>8. Posting'
  BY <1>1, <1>2, <1>3, <1>4, <1>5, <1>6 DEF JobInv, Posting, JobTypes
<1> HIDE DEF state
<1> QED BY <1>1, <1>2, <1>3, <1>4, <1>7, <1>8, QueueFrame DEF JobTypes

LEMMA WorkersStep ==
  ASSUME JobInv, NEW w \in 1..2, WorkerSteps(w)
  PROVE  JobInv'
<1>1. JobTypes
  BY DEF JobInv
<1>2. w = 1
  <2>1. workers[w].at # "none"
    BY DEF WorkerSteps, Take, WorkerEnds, Leaves, Delivered, Refused, Retry, GivesUp
  <2> QED BY <1>1, <2>1 DEF JobTypes, NoWorker
<1>3. UNCHANGED <<actor, running, events>>
  BY DEF WorkerSteps, Take, WorkerEnds, Delivered, Refused, Retry, GivesUp
<1>4. workers[1] \in [at : WorkerStates, event : Nat, tries : Nat] /\ DOMAIN workers = 1..2
      /\ \A j \in DOMAIN queue : queue[j] \in Nat
      /\ \A i \in DOMAIN told : told[i] \in Nat
  BY SMTT(30), <1>1 DEF JobTypes
<1>5. CASE Take(1)
  <2> DEFINE state == [at |-> "post", event |-> Head(queue), tries |-> 1]
  <2>1. workers' = [workers EXCEPT ![1] = state] /\ queue # <<>> /\ queue' = Tail(queue) /\ told' = told
    BY <1>5 DEF Take
  <2>2. /\ Head(queue) = queue[1] /\ 1 \in DOMAIN queue /\ queue' \in Seq(Nat)
        /\ \A j \in DOMAIN queue' : queue'[j] = queue[j + 1] /\ j + 1 \in DOMAIN queue /\ 1 < j + 1 /\ j \in Nat
    BY SMTT(30), <1>1, <2>1 DEF JobTypes
  <2>3. state \in [at : WorkerStates, event : Nat, tries : Nat] /\ workers'[1] = state
    BY <1>4, <2>1, <2>2 DEF WorkerStates
  <2>4. Ordered'
    BY SMTT(30), <1>3, <1>4, <2>1, <2>2 DEF JobInv, Ordered
  <2>5. Posting'
    BY <1>3, <1>4, <2>1, <2>2, <2>3 DEF JobInv, Ordered, Posting
  <2> HIDE DEF state
  <2> QED BY <1>1, <1>3, <2>1, <2>2, <2>3, <2>4, <2>5, QueueFrame DEF JobTypes
<1>6. ASSUME UNCHANGED <<queue, told>>, NEW state \in [at : WorkerStates, event : Nat, tries : Nat],
             workers' = [workers EXCEPT ![1] = state],
             state.at \in {"post", "wait"} => workers[1].at \in {"post", "wait"} /\ state.event = workers[1].event
      PROVE  JobInv'
  <2>1. workers'[1] = state
    BY <1>4, <1>6
  <2>2. Ordered'
    BY <1>3, <1>6 DEF JobInv, Ordered
  <2>3. Posting'
    BY <1>3, <1>6, <2>1 DEF JobInv, Posting
  <2> QED BY <1>1, <1>3, <1>6, <2>2, <2>3, QueueFrame DEF JobTypes
<1>7. CASE WorkerEnds(1)
  <2>1. /\ workers' = [workers EXCEPT ![1] = [workers[1] EXCEPT !.at = "gone"]]
        /\ [workers[1] EXCEPT !.at = "gone"] \in [at : WorkerStates, event : Nat, tries : Nat]
        /\ [workers[1] EXCEPT !.at = "gone"].at = "gone"
    BY <1>4, <1>7 DEF WorkerEnds, WorkerStates
  <2> QED BY <1>6, <1>7, <2>1 DEF WorkerEnds
<1>8. /\ [NoWorker EXCEPT !.at = "idle"] \in [at : WorkerStates, event : Nat, tries : Nat]
      /\ [NoWorker EXCEPT !.at = "idle"].at = "idle"
  BY DEF NoWorker, WorkerStates
<1>9. CASE GivesUp(1)
  BY <1>6, <1>8, <1>9 DEF GivesUp, Idles
<1>10. CASE Retry(1)
  <2> DEFINE state == [workers[1] EXCEPT !.at = "post",
                        !.tries = IF workers[1].tries < Attempts THEN workers[1].tries + 1 ELSE workers[1].tries]
  <2>1. workers' = [workers EXCEPT ![1] = state] /\ workers[1].at = "wait"
    BY <1>10 DEF Retry
  <2>2. state \in [at : WorkerStates, event : Nat, tries : Nat] /\ state.event = workers[1].event
    <3> DEFINE more == IF workers[1].tries < Attempts THEN workers[1].tries + 1 ELSE workers[1].tries
    <3>1. more \in Nat /\ "post" \in WorkerStates
      BY <1>4 DEF WorkerStates
    <3>2. state = [workers[1] EXCEPT !.at = "post", !.tries = more]
      OBVIOUS
    <3> HIDE DEF state, more
    <3> QED BY <1>4, <3>1, <3>2
  <2> HIDE DEF state
  <2> QED BY <1>6, <1>10, <2>1, <2>2 DEF Retry
<1>11. ASSUME workers[1].at = "post", queue' = queue,
              told' \in {told, Append(told, workers[1].event)},
              NEW state \in [at : WorkerStates, event : Nat, tries : Nat],
              workers' = [workers EXCEPT ![1] = state],
              state.at \in {"post", "wait"} => state.event = workers[1].event
       PROVE  JobInv'
  <2>1. CASE told' = told
    BY <1>6, <1>11, <2>1
  <2>2. CASE told' = Append(told, workers[1].event)
    <3>1. /\ told' \in Seq(Nat) /\ workers[1].event \in Nat
          /\ \A i \in DOMAIN told' : \/ i \in DOMAIN told /\ told'[i] = told[i] /\ i < Len(told) + 1
                                     \/ i = Len(told) + 1 /\ told'[i] = workers[1].event
          /\ Len(told) \in Nat
      BY <1>1, <1>4, <2>2 DEF JobTypes
    <3>2. workers'[1] = state
      BY <1>4, <1>11
    <3>3. /\ workers[1].event <= events /\ events \in Nat
          /\ \A i \in DOMAIN told : told[i] <= workers[1].event
          /\ \A j \in DOMAIN queue : workers[1].event < queue[j]
      BY <1>1, <1>11 DEF JobInv, Posting, JobTypes
    <3>4. DOMAIN told' \subseteq Nat
      BY <3>1
    <3>5. Ordered'
      <4>1. /\ \A i, j \in DOMAIN told : i < j => told[i] <= told[j]
            /\ \A i, j \in DOMAIN queue : i < j => queue[i] < queue[j]
            /\ \A i \in DOMAIN told : told[i] <= events
            /\ \A j \in DOMAIN queue : queue[j] <= events
            /\ \A i \in DOMAIN told : \A j \in DOMAIN queue : told[i] <= queue[j]
        BY DEF JobInv, Ordered
      <4>2. \A i, j \in DOMAIN told' : i < j => told'[i] <= told'[j]
        <5> SUFFICES ASSUME NEW i \in DOMAIN told', NEW j \in DOMAIN told', i < j
                     PROVE  told'[i] <= told'[j]
          OBVIOUS
        <5>1. i \in DOMAIN told
          BY SMTT(30), <3>1, <3>4
        <5> QED BY SMTT(30), <1>4, <3>1, <3>3, <3>4, <4>1, <5>1
      <4>3. \A i \in DOMAIN told' : told'[i] <= events
        BY <1>4, <3>1, <3>3, <4>1
      <4>4. \A i \in DOMAIN told' : \A j \in DOMAIN queue : told'[i] <= queue[j]
        BY <1>4, <3>1, <3>3, <4>1
      <4> QED BY <1>3, <1>11, <4>1, <4>2, <4>3, <4>4 DEF Ordered
    <3>6. Posting'
      BY SMTT(30), <1>3, <1>4, <1>11, <3>1, <3>2, <3>3 DEF Posting
    <3> QED BY <1>1, <1>3, <1>11, <3>1, <3>5, <3>6, QueueFrame DEF JobTypes
  <2> QED BY <1>11, <2>1, <2>2
<1>12. CASE Delivered(1)
  BY <1>8, <1>11, <1>12 DEF Delivered, Idles
<1>13. CASE Refused(1)
  <2>1. /\ [workers[1] EXCEPT !.at = "wait"] \in [at : WorkerStates, event : Nat, tries : Nat]
        /\ [workers[1] EXCEPT !.at = "wait"].event = workers[1].event
    BY <1>4 DEF WorkerStates
  <2>2. \/ workers' = [workers EXCEPT ![1] = [workers[1] EXCEPT !.at = "wait"]]
        \/ workers' = [workers EXCEPT ![1] = [NoWorker EXCEPT !.at = "idle"]]
    BY <1>13 DEF Refused, Idles
  <2> QED BY <1>8, <1>11, <1>13, <2>1, <2>2 DEF Refused
<1> QED BY <1>2, <1>5, <1>7, <1>9, <1>10, <1>12, <1>13 DEF WorkerSteps

LEMMA JobStep == JobInv /\ [NextJobs]_jobVars => JobInv'
<1> SUFFICES ASSUME JobInv, [NextJobs]_jobVars PROVE JobInv'
  OBVIOUS
<1>1. CASE UNCHANGED <<actor, running, queue, workers, events, told>>
  BY <1>1 DEF JobInv, JobTypes, Alone, Inside, Ordered, Posting
<1>2. CASE Quit \/ Drained \/ LoopsGone \/ WorkersGone \/ UNCHANGED jobVars
  BY <1>1, <1>2 DEF Quit, Drained, LoopsGone, WorkersGone, Phase, jobVars
<1> QED BY <1>2, JobActorsStep, QueueStep, WorkersStep DEF NextJobs

\* Two rounds of a task never overlap, whoever began them, and the endpoint hears of
\* events in the order they were sent: with any number of requests, any size of the
\* queue, any number of attempts.
THEOREM JobsInOrder == JobSpec => []JobsServe
<1>1. JobInv => NoOverlap
  <2> SUFFICES ASSUME JobInv PROVE Cardinality(Inside) <= 1
    BY DEF NoOverlap
  <2>1. Inside = {} \/ \E a \in Inside : Inside = {a}
    BY DEF JobInv, Alone
  <2> QED BY <2>1, FS_EmptySet, FS_Singleton
<1>2. JobInv => SentInOrder
  BY DEF JobInv, Ordered, SentInOrder
<1> QED BY <1>1, <1>2, JobInit, JobStep, PTL DEF JobSpec, JobsServe

---------------------------------------------------------------------------
\* Alerts.

Partial(S, T) == UNION { [D -> T] : D \in SUBSET S }
Steps == [do : {"none", "fire", "mark", "refire", "resolve"}, key : Pairs \cup {<<0, 0>>}, id : Nat]
Rounds == [todo : SUBSET AlertRules, rule : AlertRules \cup {0}, conds : Partial(Targets, BOOLEAN), step : Steps]
Records == [key : Pairs, resolved : BOOLEAN, notified : Nat]
AlertTypes ==
  /\ clock \in Nat \ {0} /\ since \in [Pairs -> Nat]
  /\ history \in Seq(Records)
  /\ pending \in Partial(Pairs, Nat) /\ inflight \in Partial(Pairs, Nat)
  /\ round \in Rounds

\* A round that sees a condition first notes it, in memory, when it has seen it.
Seen ==
  \A k \in Pairs :
    /\ since[k] <= clock
    /\ k \in DOMAIN pending => since[k] > 0 /\ since[k] <= pending[k]
OneOpen ==
  \A i, j \in DOMAIN history :
    history[i].key = history[j].key /\ ~history[i].resolved /\ ~history[j].resolved => i = j
\* What memory, the round and the request refer to is there; a record about to be
\* written is the pair's only open one and its condition was held.
Referred ==
  /\ \A k \in DOMAIN inflight : inflight[k] \in DOMAIN history
  /\ round.step.do \in {"mark", "refire", "resolve"} => round.step.id \in DOMAIN history
  /\ admin.do = "resolve" => admin.id \in DOMAIN history
Applied ==
  /\ round.step.do # "none" => round.step.key \in Pairs
  /\ DOMAIN round.conds # {} => round.rule \in AlertRules
  /\ round.step.do = "fire" =>
       /\ \A i \in DOMAIN history : history[i].key = round.step.key => history[i].resolved
       /\ since[round.step.key] > 0
       /\ clock - since[round.step.key] >= Duration[round.step.key[1]]
AlertInv == AlertTypes /\ Seen /\ OneOpen /\ Referred /\ Applied

LEMMA Partials ==
  ASSUME NEW S, NEW T
  PROVE  /\ \A f : f \in Partial(S, T) <=> (f \in [DOMAIN f -> T] /\ DOMAIN f \subseteq S)
         /\ <<>> \in Partial(S, T) /\ DOMAIN <<>> = {}
<1>1. <<>> \in [{} -> T] /\ DOMAIN <<>> = {}
  OBVIOUS
<1>2. \A f : f \in Partial(S, T) <=> (f \in [DOMAIN f -> T] /\ DOMAIN f \subseteq S)
  BY DEF Partial
<1> QED BY <1>1, <1>2

LEMMA WithoutFacts ==
  ASSUME NEW S, NEW T, NEW f \in Partial(S, T), NEW keys
  PROVE  /\ Without(f, keys) \in Partial(S, T) /\ DOMAIN Without(f, keys) = DOMAIN f \ keys
         /\ \A k \in DOMAIN f \ keys : Without(f, keys)[k] = f[k]
<1>1. /\ DOMAIN Without(f, keys) = DOMAIN f \ keys
      /\ \A k \in DOMAIN f \ keys : Without(f, keys)[k] = f[k]
      /\ Without(f, keys) = [k \in DOMAIN f \ keys |-> f[k]]
  BY DEF Without, Restrict
<1>2. f \in [DOMAIN f -> T] /\ DOMAIN f \subseteq S
  BY Partials
<1>3. Without(f, keys) \in [DOMAIN f \ keys -> T]
  BY <1>1, <1>2
<1> QED BY <1>1, <1>2, <1>3 DEF Partial

LEMMA NotingFacts ==
  ASSUME NEW S, NEW T, NEW f \in Partial(S, T), NEW key \in S, NEW value \in T
  PROVE  /\ Noting(f, key, value) \in Partial(S, T) /\ DOMAIN Noting(f, key, value) = DOMAIN f \cup {key}
         /\ Noting(f, key, value)[key] = value
         /\ \A k \in DOMAIN f : k # key => Noting(f, key, value)[k] = f[k]
<1>1. f \in [DOMAIN f -> T] /\ DOMAIN f \subseteq S
  BY Partials
<1>2. Noting(f, key, value) \in [DOMAIN f \cup {key} -> T]
  BY <1>1 DEF Noting
<1>3. DOMAIN f \cup {key} \subseteq S
  BY <1>1
<1>4. Noting(f, key, value) \in Partial(S, T)
  BY <1>2, <1>3 DEF Partial
<1> QED BY <1>4 DEF Noting

LEMMA AlertInit == InitAlerts => AlertInv
<1> SUFFICES ASSUME InitAlerts PROVE AlertInv
  OBVIOUS
<1>1. /\ clock = 1 /\ history = <<>> /\ pending = <<>> /\ inflight = <<>>
      /\ round = [todo |-> {}, rule |-> 0, conds |-> <<>>, step |-> [do |-> "none", key |-> <<0, 0>>, id |-> 0]]
      /\ admin.do = "none" /\ since = [k \in Pairs |-> 0]
  BY DEF InitAlerts, NoRound, NoStep, Resting
<1>2. round \in Rounds
  BY <1>1, Partials DEF Rounds, Steps
<1>3. AlertTypes
  BY <1>1, <1>2, Partials DEF AlertTypes
<1>4. DOMAIN history = {} /\ DOMAIN pending = {} /\ DOMAIN inflight = {} /\ DOMAIN round.conds = {}
  BY <1>1, Partials
<1>5. Seen /\ OneOpen
  BY <1>1, <1>4 DEF Seen, OneOpen
<1>6. Referred /\ Applied
  BY <1>1, <1>4 DEF Referred, Applied
<1> QED BY <1>3, <1>5, <1>6 DEF AlertInv

\* A round with nothing left to do is over; otherwise what is left is what it was.
LEMMA NoRoundFacts == NoRound \in Rounds /\ NoRound.step = NoStep /\ NoStep \in Steps /\ NoStep.do = "none"
                      /\ DOMAIN NoRound.conds = {}
<1>1. NoStep \in Steps /\ NoStep.do = "none"
  BY DEF NoStep, Steps
<1>2. <<>> \in Partial(Targets, BOOLEAN) /\ DOMAIN <<>> = {}
  BY Partials
<1>3. NoRound = [todo |-> {}, rule |-> 0, conds |-> <<>>, step |-> NoStep]
  BY DEF NoRound
<1> QED BY <1>1, <1>2, <1>3 DEF Rounds

LEMMA LeftFacts ==
  ASSUME round \in Rounds, NEW rest \in Partial(Targets, BOOLEAN), NEW step \in Steps
  PROVE  /\ Left(rest, step) \in Rounds
         /\ Left(rest, step).step = step
         /\ \/ DOMAIN Left(rest, step).conds = {}
            \/ Left(rest, step).conds = rest /\ Left(rest, step).rule = round.rule
<1>1. CASE rest = <<>> /\ step = NoStep /\ round.todo = {}
  BY <1>1, NoRoundFacts DEF Left
<1>2. CASE ~(rest = <<>> /\ step = NoStep /\ round.todo = {})
  <2>1. Left(rest, step) = [round EXCEPT !.conds = rest, !.step = step]
    BY <1>2 DEF Left
  <2> QED BY <2>1 DEF Rounds
<1> QED BY <1>1, <1>2

\* Time passes, targets change, and the administrator begins.
LEMMA AlertsBeside ==
  ASSUME AlertInv, UNCHANGED <<history, pending, inflight, round, since>>,
         clock' \in Nat, clock' >= clock,
         admin'.do = "resolve" => admin'.id \in DOMAIN history
  PROVE  AlertInv'
<1>1. AlertTypes' /\ OneOpen' /\ Referred'
  BY DEF AlertInv, AlertTypes, OneOpen, Referred
<1>2. Seen'
  BY DEF AlertInv, AlertTypes, Seen
<1>3. Applied'
  <2> SUFFICES ASSUME round.step.do = "fire"
               PROVE  clock' - since[round.step.key] >= Duration[round.step.key[1]]
    BY DEF AlertInv, Applied
  <2>1. /\ round.step.key \in Pairs /\ since[round.step.key] \in Nat /\ clock \in Nat
        /\ clock - since[round.step.key] >= Duration[round.step.key[1]]
        /\ Duration[round.step.key[1]] \in Nat
    BY AlertBounds DEF AlertInv, Applied, AlertTypes, Pairs
  <2> QED BY <2>1
<1> QED BY <1>1, <1>2, <1>3 DEF AlertInv

\* Memory may forget at any time.
LEMMA AlertsForget ==
  ASSUME AlertInv, UNCHANGED <<clock, history, since>>, NEW k1, NEW k2,
         pending' = Without(pending, k1), inflight' = Without(inflight, k2),
         round' \in {round, NoRound}, admin'.do # "resolve"
  PROVE  AlertInv'
<1>1. /\ pending' \in Partial(Pairs, Nat) /\ DOMAIN pending' \subseteq DOMAIN pending
      /\ \A k \in DOMAIN pending' : pending'[k] = pending[k]
      /\ inflight' \in Partial(Pairs, Nat) /\ DOMAIN inflight' \subseteq DOMAIN inflight
      /\ \A k \in DOMAIN inflight' : inflight'[k] = inflight[k]
  <2>1. pending \in Partial(Pairs, Nat) /\ inflight \in Partial(Pairs, Nat)
    BY DEF AlertInv, AlertTypes
  <2>2. /\ pending' \in Partial(Pairs, Nat) /\ DOMAIN pending' = DOMAIN pending \ k1
        /\ \A k \in DOMAIN pending \ k1 : pending'[k] = pending[k]
    <3>1. /\ Without(pending, k1) = [k \in DOMAIN pending \ k1 |-> pending[k]]
          /\ pending \in [DOMAIN pending -> Nat] /\ DOMAIN pending \subseteq Pairs
      BY <2>1, Partials DEF Without, Restrict
    <3>2. Without(pending, k1) \in [DOMAIN pending \ k1 -> Nat]
      BY <3>1
    <3>3. Without(pending, k1) \in Partial(Pairs, Nat)
      BY <3>1, <3>2 DEF Partial
    <3> QED BY <3>1, <3>3
  <2>3. /\ inflight' \in Partial(Pairs, Nat) /\ DOMAIN inflight' = DOMAIN inflight \ k2
        /\ \A k \in DOMAIN inflight \ k2 : inflight'[k] = inflight[k]
    <3>1. /\ Without(inflight, k2) = [k \in DOMAIN inflight \ k2 |-> inflight[k]]
          /\ inflight \in [DOMAIN inflight -> Nat] /\ DOMAIN inflight \subseteq Pairs
      BY <2>1, Partials DEF Without, Restrict
    <3>2. Without(inflight, k2) \in [DOMAIN inflight \ k2 -> Nat]
      BY <3>1
    <3>3. Without(inflight, k2) \in Partial(Pairs, Nat)
      BY <3>1, <3>2 DEF Partial
    <3> QED BY <3>1, <3>3
  <2> QED BY <2>2, <2>3
<1>2. round' \in Rounds /\ (round' = round \/ (round'.step.do = "none" /\ DOMAIN round'.conds = {}))
  BY NoRoundFacts DEF AlertInv, AlertTypes
<1>3. AlertTypes' /\ Seen' /\ OneOpen'
  BY <1>1, <1>2 DEF AlertInv, AlertTypes, Seen, OneOpen
<1>4. Referred' /\ Applied'
  BY <1>1, <1>2 DEF AlertInv, Referred, Applied
<1> QED BY <1>3, <1>4 DEF AlertInv

\* A step of the round that leaves memory alone and closes or tells a record, or nothing.
LEMMA RecordKept ==
  ASSUME AlertInv, UNCHANGED <<clock, pending, inflight, since>>,
         history' \in Seq(Records), DOMAIN history' = DOMAIN history,
         \A i \in DOMAIN history : /\ history'[i].key = history[i].key
                                   /\ history[i].resolved => history'[i].resolved,
         \/ round' = round
         \/ round' \in Rounds /\ round'.step.do = "none"
            /\ (DOMAIN round'.conds # {} => round'.rule \in AlertRules),
         admin'.do = "resolve" => admin'.id \in DOMAIN history
  PROVE  AlertInv'
<1>1. AlertTypes' /\ Seen'
  BY DEF AlertInv, AlertTypes, Seen
<1>2. OneOpen'
  BY DEF AlertInv, OneOpen
<1>3. Referred' /\ Applied'
  BY DEF AlertInv, Referred, Applied
<1> QED BY <1>1, <1>2, <1>3 DEF AlertInv

\* What is left of a round after a step of it.
LEMMA AfterStep ==
  ASSUME AlertInv
  PROVE  /\ Left(round.conds, NoStep) \in Rounds /\ Left(round.conds, NoStep).step.do = "none"
         /\ DOMAIN Left(round.conds, NoStep).conds # {} => Left(round.conds, NoStep).rule \in AlertRules
<1>1. round \in Rounds /\ round.conds \in Partial(Targets, BOOLEAN)
  BY DEF AlertInv, AlertTypes, Rounds
<1> QED BY <1>1, LeftFacts, NoRoundFacts DEF AlertInv, Applied

LEMMA ClosedRecord ==
  ASSUME history \in Seq(Records), NEW id \in DOMAIN history, NEW others,
         others = [history EXCEPT ![id] = [history[id] EXCEPT !.resolved = TRUE]]
  PROVE  /\ others \in Seq(Records) /\ DOMAIN others = DOMAIN history
         /\ \A i \in DOMAIN history : /\ others[i].key = history[i].key
                                      /\ others[i].notified = history[i].notified
                                      /\ history[i].resolved => others[i].resolved
<1> DEFINE closed == [history[id] EXCEPT !.resolved = TRUE]
<1>1. \A i \in DOMAIN history : history[i] \in Records
  OBVIOUS
<1>2. closed \in Records /\ closed.key = history[id].key /\ closed.notified = history[id].notified
      /\ closed.resolved
  BY <1>1 DEF Records
<1>3. others = [history EXCEPT ![id] = closed]
  OBVIOUS
<1> HIDE DEF closed
<1>4. others \in Seq(Records) /\ DOMAIN others = DOMAIN history
  <2>1. id \in 1 .. Len(history)
    OBVIOUS
  <2>2. [history EXCEPT ![id] = closed] \in Seq(Records)
    BY <1>2, <2>1, ExceptSeq
  <2> QED BY <1>3, <2>2
<1>5. \A i \in DOMAIN history : others[i] = IF i = id THEN closed ELSE history[i]
  BY <1>3
<1> QED BY <1>2, <1>4, <1>5

LEMMA AdminSteps ==
  ASSUME AlertInv, \/ MarkResolvedWrites \/ clearInflight \/ resetState \/ RestartPanel \/ Tick
                   \/ \E id \in DOMAIN history : MarkResolved(id)
                   \/ \E t \in Targets : Change(t)
                   \/ \E r \in AlertRules, next \in {"on", "off", "gone"} : EditRule(r, next)
  PROVE  AlertInv'
<1>1. CASE MarkResolvedWrites
  <2>1. admin.id \in DOMAIN history /\ admin'.do = "clear" /\ history \in Seq(Records)
    BY <1>1 DEF MarkResolvedWrites, AlertInv, AlertTypes, Referred
  <2>2. history' = [history EXCEPT ![admin.id] = [history[admin.id] EXCEPT !.resolved = TRUE]]
    BY <1>1 DEF MarkResolvedWrites
  <2>4. /\ history' \in Seq(Records) /\ DOMAIN history' = DOMAIN history
        /\ \A i \in DOMAIN history : /\ history'[i].key = history[i].key
                                     /\ history[i].resolved => history'[i].resolved
    BY <2>1, <2>2, ClosedRecord
  <2> QED BY <1>1, <2>1, <2>4, RecordKept DEF MarkResolvedWrites
<1>2. CASE clearInflight \/ resetState
  <2>1. PICK k1, k2 : pending' = Without(pending, k1) /\ inflight' = Without(inflight, k2)
    BY <1>2 DEF clearInflight, resetState
  <2> QED BY <1>2, <2>1, AlertsForget DEF clearInflight, resetState, Resting
<1>3. CASE RestartPanel
  <2>1. <<>> = Without(pending, DOMAIN pending) /\ <<>> = Without(inflight, DOMAIN inflight)
    BY DEF Without, Restrict
  <2> QED BY <1>3, <2>1, AlertsForget DEF RestartPanel, Resting
<1>4. CASE Tick \/ \E t \in Targets : Change(t)
  BY <1>4, AlertsBeside DEF Tick, Change, AlertInv, AlertTypes, Referred
<1>5. CASE \E id \in DOMAIN history : MarkResolved(id)
  BY <1>5, AlertsBeside DEF MarkResolved, AlertInv, AlertTypes
<1>6. CASE \E r \in AlertRules, next \in {"on", "off", "gone"} : EditRule(r, next)
  BY <1>6, AlertsBeside DEF EditRule, AlertInv, AlertTypes
<1> QED BY <1>1, <1>2, <1>3, <1>4, <1>5, <1>6

LEMMA RoundBegins ==
  ASSUME AlertInv, BeginRound \/ \E r \in AlertRules : evaluateRule(r) PROVE AlertInv'
<1>1. /\ UNCHANGED <<clock, history, pending, inflight, admin, since>>
      /\ round \in Rounds
  BY DEF BeginRound, evaluateRule, AlertInv, AlertTypes
<1>2. /\ round' \in Rounds /\ round'.step.do = "none"
      /\ DOMAIN round'.conds # {} => round'.rule \in AlertRules
  <2>1. CASE BeginRound
    <3>1. round' = [round EXCEPT !.todo = { r \in AlertRules : alertRules[r] = "on" }] /\ round = NoRound
      BY <2>1 DEF BeginRound
    <3>2. round'.step = NoRound.step /\ round'.conds = NoRound.conds /\ round' \in Rounds
      BY <1>1, <3>1 DEF Rounds
    <3> QED BY <3>2, NoRoundFacts
  <2>2. ASSUME NEW r \in AlertRules, evaluateRule(r) 
        PROVE  /\ round' \in Rounds /\ round'.step.do = "none"
               /\ DOMAIN round'.conds # {} => round'.rule \in AlertRules
    <3> DEFINE seen == { t \in Targets : condition[t] # "hidden" }
               state == [t \in seen |-> condition[t] = "on"]
               rest == round.todo \ {r}
    <3>1. round' = NoRound \/ round' = [round EXCEPT !.todo = rest, !.rule = r, !.conds = state]
      BY <2>2 DEF evaluateRule
    <3>2. state \in Partial(Targets, BOOLEAN)
      <4>1. state \in [seen -> BOOLEAN] /\ seen \subseteq Targets
        OBVIOUS
      <4> QED BY <4>1 DEF Partial
    <3>3. round.step = NoStep /\ rest \in SUBSET AlertRules
      BY <1>1, <2>2 DEF evaluateRule, Rounds
    <3> HIDE DEF state, rest
    <3>4. CASE round' = [round EXCEPT !.todo = rest, !.rule = r, !.conds = state]
      BY <1>1, <3>2, <3>3, <3>4, NoRoundFacts DEF Rounds
    <3>5. CASE round' = NoRound
      BY <3>5, NoRoundFacts
    <3> QED BY <3>1, <3>4, <3>5
  <2> QED BY <2>1, <2>2
<1> QED BY <1>1, <1>2, RecordKept DEF AlertInv, AlertTypes, Referred

LEMMA ToldRecord ==
  ASSUME history \in Seq(Records), clock \in Nat, NEW id \in DOMAIN history, NEW others,
         others = [history EXCEPT ![id] = [history[id] EXCEPT !.notified = clock]]
  PROVE  /\ others \in Seq(Records) /\ DOMAIN others = DOMAIN history
         /\ \A i \in DOMAIN history : /\ others[i].key = history[i].key
                                      /\ others[i].resolved = history[i].resolved
                                      /\ i # id => others[i] = history[i]
<1> DEFINE later == [history[id] EXCEPT !.notified = clock]
<1>1. \A i \in DOMAIN history : history[i] \in Records
  OBVIOUS
<1>2. later \in Records /\ later.key = history[id].key /\ later.resolved = history[id].resolved
  BY <1>1 DEF Records
<1>3. others = [history EXCEPT ![id] = later]
  OBVIOUS
<1> HIDE DEF later
<1>4. others \in Seq(Records) /\ DOMAIN others = DOMAIN history
  <2>1. id \in 1 .. Len(history)
    OBVIOUS
  <2>2. [history EXCEPT ![id] = later] \in Seq(Records)
    BY <1>2, <2>1, ExceptSeq
  <2> QED BY <1>3, <2>2
<1>5. \A i \in DOMAIN history : others[i] = IF i = id THEN later ELSE history[i]
  BY <1>3
<1> QED BY <1>2, <1>4, <1>5

\* A step that closes a record, tells again of it, or fails.
LEMMA StepEnds ==
  ASSUME AlertInv, refire \/ resolve \/ StepFails PROVE AlertInv'
<1>1. /\ UNCHANGED <<clock, pending, inflight, admin, since>> /\ round' = Left(round.conds, NoStep)
      /\ history \in Seq(Records) /\ clock \in Nat
      /\ admin'.do = "resolve" => admin'.id \in DOMAIN history
  BY DEF refire, resolve, StepFails, AlertInv, AlertTypes, Referred
<1>2. /\ round' \in Rounds /\ round'.step.do = "none"
      /\ DOMAIN round'.conds # {} => round'.rule \in AlertRules
  BY <1>1, AfterStep
<1>3. /\ history' \in Seq(Records) /\ DOMAIN history' = DOMAIN history
      /\ \A i \in DOMAIN history : /\ history'[i].key = history[i].key
                                   /\ history[i].resolved => history'[i].resolved
  <2>1. CASE UNCHANGED history
    BY <1>1, <2>1
  <2>2. CASE refire /\ history' = [history EXCEPT ![round.step.id].notified = clock]
    <3>1. /\ round.step.id \in DOMAIN history
          /\ history' = [history EXCEPT ![round.step.id] = [history[round.step.id] EXCEPT !.notified = clock]]
      BY <2>2 DEF refire, AlertInv, Referred
    <3> QED BY <1>1, <3>1, ToldRecord
  <2>3. CASE resolve
    <3>1. /\ round.step.id \in DOMAIN history
          /\ history' = [history EXCEPT ![round.step.id] = [history[round.step.id] EXCEPT !.resolved = TRUE]]
      BY <2>3 DEF resolve, AlertInv, Referred
    <3> QED BY <1>1, <3>1, ClosedRecord
  <2> QED BY <2>1, <2>2, <2>3 DEF refire, StepFails
<1> QED BY <1>1, <1>2, <1>3, RecordKept

\* A record is written and noted in memory.
LEMMA RecordWritten == ASSUME AlertInv, fire PROVE AlertInv'
<1>1. /\ UNCHANGED <<clock, pending, inflight, admin, since>> /\ round.step.do = "fire"
      /\ history \in Seq(Records) /\ clock \in Nat /\ round \in Rounds
      /\ admin'.do = "resolve" => admin'.id \in DOMAIN history
  BY DEF fire, AlertInv, AlertTypes, Referred
<1>2. CASE UNCHANGED history /\ round' = Left(round.conds, NoStep)
  BY <1>1, <1>2, AfterStep, RecordKept
<1>3. CASE /\ history' = Append(history, [key |-> round.step.key, resolved |-> FALSE, notified |-> clock])
           /\ round' = [round EXCEPT !.step.do = "mark", !.step.id = Len(history) + 1]
  <2> DEFINE record == [key |-> round.step.key, resolved |-> FALSE, notified |-> clock]
             step == [round.step EXCEPT !.do = "mark", !.id = Len(history) + 1]
  <2>1. record \in Records /\ record.key = round.step.key
    BY <1>1 DEF Records, AlertInv, Applied
  <2>2. step \in Steps /\ step.do = "mark" /\ step.id = Len(history) + 1 /\ step.key = round.step.key
    <3>1. round.step \in Steps /\ Len(history) + 1 \in Nat
      BY <1>1 DEF Rounds
    <3> QED BY <3>1 DEF Steps
  <2>3. history' = Append(history, record) /\ round' = [round EXCEPT !.step = step]
    BY <1>1, <1>3 DEF Rounds
  <2> HIDE DEF record, step
  <2>4. /\ history' \in Seq(Records) /\ DOMAIN history' = DOMAIN history \cup {Len(history) + 1}
        /\ \A i \in DOMAIN history : history'[i] = history[i]
        /\ history'[Len(history) + 1] = record
    BY <1>1, <2>1, <2>3
  <2>5. /\ round' \in Rounds /\ round'.step = step /\ round'.conds = round.conds /\ round'.rule = round.rule
    BY <1>1, <2>2, <2>3 DEF Rounds
  <2>6. AlertTypes' /\ Seen'
    BY <1>1, <2>4, <2>5 DEF AlertInv, AlertTypes, Seen
  <2>7. OneOpen'
    BY <1>1, <2>1, <2>4 DEF AlertInv, OneOpen, Applied
  <2>8. Referred'
    BY <1>1, <2>2, <2>4, <2>5 DEF AlertInv, Referred
  <2>9. Applied'
    BY <1>1, <2>2, <2>5 DEF AlertInv, Applied
  <2> QED BY <2>6, <2>7, <2>8, <2>9 DEF AlertInv
<1> QED BY <1>2, <1>3 DEF fire

LEMMA RecordNoted == ASSUME AlertInv, fireNotes PROVE AlertInv'
<1>1. /\ UNCHANGED <<clock, history, pending, admin, since>> /\ round' = Left(round.conds, NoStep)
      /\ inflight' = Noting(inflight, round.step.key, round.step.id)
      /\ inflight \in Partial(Pairs, Nat) /\ round.step.key \in Pairs
      /\ round.step.id \in DOMAIN history /\ DOMAIN history \subseteq Nat
  BY DEF fireNotes, AlertInv, AlertTypes, Referred, Applied
<1>2. /\ inflight' \in Partial(Pairs, Nat) /\ DOMAIN inflight' = DOMAIN inflight \cup {round.step.key}
      /\ inflight'[round.step.key] = round.step.id
      /\ \A k \in DOMAIN inflight : k # round.step.key => inflight'[k] = inflight[k]
  <2>1. /\ inflight \in [DOMAIN inflight -> Nat] /\ DOMAIN inflight \subseteq Pairs
        /\ round.step.id \in Nat
    BY <1>1, Partials
  <2>2. inflight' \in [DOMAIN inflight \cup {round.step.key} -> Nat]
    BY <1>1, <2>1 DEF Noting
  <2>3. DOMAIN inflight \cup {round.step.key} \subseteq Pairs
    BY <1>1, <2>1
  <2>4. inflight' \in Partial(Pairs, Nat)
    BY <2>2, <2>3 DEF Partial
  <2> QED BY <1>1, <2>4 DEF Noting
<1>3. /\ round' \in Rounds /\ round'.step.do = "none"
      /\ DOMAIN round'.conds # {} => round'.rule \in AlertRules
  BY <1>1, AfterStep
<1>4. AlertTypes' /\ Seen' /\ OneOpen' /\ Applied'
  BY <1>1, <1>2, <1>3 DEF AlertInv, AlertTypes, Seen, OneOpen, Applied
<1>5. Referred'
  BY <1>1, <1>2, <1>3 DEF AlertInv, Referred
<1> QED BY <1>4, <1>5 DEF AlertInv

\* The record a condition is handled by is there, and 0 means the pair has none open.
LEMMA HandlerFacts ==
  ASSUME AlertInv, NEW key \in Pairs
  PROVE  /\ Handler(key) \in Nat
         /\ Handler(key) # 0 => Handler(key) \in DOMAIN history
         /\ Handler(key) = 0 => \A i \in DOMAIN history : history[i].key = key => history[i].resolved
<1>1. /\ history \in Seq(Records) /\ \A k \in DOMAIN inflight : inflight[k] \in DOMAIN history
      /\ DOMAIN history \subseteq Nat \ {0}
      /\ \A i, j \in Active(key) : i = j
  BY DEF AlertInv, AlertTypes, Referred, OneOpen, Active
<1>2. CASE key \in DOMAIN inflight
  BY <1>1, <1>2 DEF Handler
<1>3. CASE key \notin DOMAIN inflight /\ Active(key) = {}
  BY <1>1, <1>3 DEF Handler, Active
<1>4. CASE key \notin DOMAIN inflight /\ Active(key) # {}
  <2>1. Handler(key) = CHOOSE i \in Active(key) : \A j \in Active(key) : j <= i
    BY <1>4 DEF Handler
  <2>2. \E i \in Active(key) : \A j \in Active(key) : j <= i
    BY <1>1, <1>4 DEF Active
  <2>3. Handler(key) \in Active(key)
    BY <2>1, <2>2
  <2> QED BY <1>1, <2>3 DEF Active
<1> QED BY <1>2, <1>3, <1>4

\* What apply does to memory: the pair's first-seen time and its record only.
LEMMA Applying ==
  ASSUME AlertInv, NEW t \in Targets, apply(t)
  PROVE  LET key == <<round.rule, t>> IN
         /\ UNCHANGED <<clock, history, admin>> /\ key \in Pairs
         /\ since' = [since EXCEPT ![key] = IF ~round.conds[t] THEN 0 ELSE IF @ = 0 THEN clock ELSE @]
         /\ pending' \in Partial(Pairs, Nat) /\ inflight' \in Partial(Pairs, Nat)
         /\ DOMAIN pending' \subseteq DOMAIN pending \cup {key}
         /\ DOMAIN inflight' \subseteq DOMAIN inflight \cup {key}
         /\ \A k \in DOMAIN pending' : \/ k \in DOMAIN pending /\ pending'[k] = pending[k]
                                       \/ k = key /\ pending'[k] = clock
         /\ key \in DOMAIN pending' => round.conds[t]
         /\ \A k \in DOMAIN inflight' : \/ k \in DOMAIN inflight /\ inflight'[k] = inflight[k]
                                        \/ k = key /\ inflight'[k] = Handler(key) /\ Handler(key) # 0
<1> DEFINE key == <<round.rule, t>>
           firing == round.conds[t]
<1>1. /\ round \in Rounds /\ round.conds \in Partial(Targets, BOOLEAN) /\ clock \in Nat
      /\ pending \in Partial(Pairs, Nat) /\ inflight \in Partial(Pairs, Nat)
  BY DEF AlertInv, AlertTypes, Rounds
<1>2. /\ key \in Pairs /\ UNCHANGED <<clock, history, admin>>
      /\ since' = [since EXCEPT ![key] = IF ~round.conds[t] THEN 0 ELSE IF @ = 0 THEN clock ELSE @]
  BY <1>1 DEF apply, AlertInv, Applied, Pairs
<1>3. Handler(key) \in Nat
  BY <1>2, HandlerFacts
<1>4. /\ \/ pending' = pending /\ firing
         \/ pending' = Without(pending, {key})
         \/ pending' = Noting(pending, key, clock) /\ firing
      /\ \/ inflight' = inflight
         \/ inflight' = Without(inflight, {key})
         \/ inflight' = Noting(inflight, key, Handler(key)) /\ Handler(key) # 0
  BY DEF apply
<1> HIDE DEF key, firing
<1>5. /\ pending \in [DOMAIN pending -> Nat] /\ DOMAIN pending \subseteq Pairs
      /\ inflight \in [DOMAIN inflight -> Nat] /\ DOMAIN inflight \subseteq Pairs
  BY <1>1, Partials
<1>6. /\ pending' \in Partial(Pairs, Nat) /\ DOMAIN pending' \subseteq DOMAIN pending \cup {key}
      /\ \A k \in DOMAIN pending' : \/ k \in DOMAIN pending /\ pending'[k] = pending[k]
                                    \/ k = key /\ pending'[k] = clock
      /\ key \in DOMAIN pending' => firing
  <2>1. CASE pending' = pending /\ firing
    BY <1>1, <2>1
  <2>2. CASE pending' = Without(pending, {key})
    <3>1. pending' = [k \in DOMAIN pending \ {key} |-> pending[k]]
      BY <2>2 DEF Without, Restrict
    <3>2. pending' \in [DOMAIN pending \ {key} -> Nat]
      BY <1>5, <3>1
    <3>3. pending' \in Partial(Pairs, Nat)
      BY <1>5, <3>2 DEF Partial
    <3> QED BY <3>1, <3>3
  <2>3. CASE pending' = Noting(pending, key, clock) /\ firing
    <3>1. pending' = [k \in DOMAIN pending \cup {key} |-> IF k = key THEN clock ELSE pending[k]]
      BY <2>3 DEF Noting
    <3>2. pending' \in [DOMAIN pending \cup {key} -> Nat]
      BY <1>1, <1>5, <3>1
    <3>3. DOMAIN pending \cup {key} \subseteq Pairs
      BY <1>2, <1>5
    <3>4. pending' \in Partial(Pairs, Nat)
      BY <3>2, <3>3 DEF Partial
    <3> QED BY <2>3, <3>1, <3>4
  <2> QED BY <1>4, <2>1, <2>2, <2>3
<1>7. /\ inflight' \in Partial(Pairs, Nat) /\ DOMAIN inflight' \subseteq DOMAIN inflight \cup {key}
      /\ \A k \in DOMAIN inflight' : \/ k \in DOMAIN inflight /\ inflight'[k] = inflight[k]
                                     \/ k = key /\ inflight'[k] = Handler(key) /\ Handler(key) # 0
  <2>1. CASE inflight' = inflight
    BY <1>1, <2>1
  <2>2. CASE inflight' = Without(inflight, {key})
    <3>1. inflight' = [k \in DOMAIN inflight \ {key} |-> inflight[k]]
      BY <2>2 DEF Without, Restrict
    <3>2. inflight' \in [DOMAIN inflight \ {key} -> Nat]
      BY <1>5, <3>1
    <3>3. inflight' \in Partial(Pairs, Nat)
      BY <1>5, <3>2 DEF Partial
    <3> QED BY <3>1, <3>3
  <2>3. CASE inflight' = Noting(inflight, key, Handler(key)) /\ Handler(key) # 0
    <3>1. inflight' = [k \in DOMAIN inflight \cup {key} |-> IF k = key THEN Handler(key) ELSE inflight[k]]
      BY <2>3 DEF Noting
    <3>2. inflight' \in [DOMAIN inflight \cup {key} -> Nat]
      BY <1>3, <1>5, <3>1
    <3>3. DOMAIN inflight \cup {key} \subseteq Pairs
      BY <1>2, <1>5
    <3>4. inflight' \in Partial(Pairs, Nat)
      BY <3>2, <3>3 DEF Partial
    <3> QED BY <2>3, <3>1, <3>4
  <2> QED BY <1>4, <2>1, <2>2, <2>3
<1> QED BY <1>2, <1>6, <1>7 DEF key, firing

LEMMA ApplyKeeps == ASSUME AlertInv, NEW t \in Targets, apply(t) PROVE AlertInv'
<1> DEFINE key == <<round.rule, t>>
<1>1. /\ UNCHANGED <<clock, history, admin>> /\ key \in Pairs
      /\ since' = [since EXCEPT ![key] = IF ~round.conds[t] THEN 0 ELSE IF @ = 0 THEN clock ELSE @]
      /\ pending' \in Partial(Pairs, Nat) /\ inflight' \in Partial(Pairs, Nat)
      /\ \A k \in DOMAIN pending' : \/ k \in DOMAIN pending /\ pending'[k] = pending[k]
                                    \/ k = key /\ pending'[k] = clock
      /\ key \in DOMAIN pending' => round.conds[t]
      /\ \A k \in DOMAIN inflight' : \/ k \in DOMAIN inflight /\ inflight'[k] = inflight[k]
                                     \/ k = key /\ inflight'[k] = Handler(key) /\ Handler(key) # 0
  BY Applying
<1>2. /\ clock \in Nat \ {0} /\ since \in [Pairs -> Nat] /\ round \in Rounds /\ history \in Seq(Records)
      /\ round.conds \in Partial(Targets, BOOLEAN) /\ pending \in Partial(Pairs, Nat)
      /\ t \in DOMAIN round.conds
  BY DEF AlertInv, AlertTypes, Rounds, apply
<1>3. /\ Handler(key) \in Nat
      /\ Handler(key) # 0 => Handler(key) \in DOMAIN history
      /\ Handler(key) = 0 => \A i \in DOMAIN history : history[i].key = key => history[i].resolved
  BY <1>1, HandlerFacts
<1>4. PICK step \in Steps :
        /\ round' = Left(Without(round.conds, {t}), step)
        /\ step.do # "none" => step.key = key /\ step.id = Handler(key)
        /\ step.do \in {"none", "fire", "refire", "resolve"}
        /\ step.do \in {"refire", "resolve"} => Handler(key) # 0
        /\ step.do = "fire" => Handler(key) = 0 /\ Due(key) /\ round.conds[t]
  <2>1. CASE round' = Left(Without(round.conds, {t}), NoStep)
    BY <2>1, NoRoundFacts
  <2>2. CASE \E do \in {"resolve", "refire", "fire"} :
               /\ round' = Left(Without(round.conds, {t}), [do |-> do, key |-> key, id |-> Handler(key)])
               /\ do \in {"refire", "resolve"} => Handler(key) # 0
               /\ do = "fire" => Handler(key) = 0 /\ Due(key) /\ round.conds[t]
    BY <1>1, <1>3, <2>2 DEF Steps
  <2> QED BY <2>1, <2>2 DEF apply
<1>5. Without(round.conds, {t}) \in Partial(Targets, BOOLEAN)
  <2>1. /\ round.conds \in [DOMAIN round.conds -> BOOLEAN] /\ DOMAIN round.conds \subseteq Targets
        /\ Without(round.conds, {t}) = [k \in DOMAIN round.conds \ {t} |-> round.conds[k]]
    BY <1>2, Partials DEF Without, Restrict
  <2>2. Without(round.conds, {t}) \in [DOMAIN round.conds \ {t} -> BOOLEAN]
    BY <2>1
  <2> QED BY <2>1, <2>2 DEF Partial
<1>6. /\ round' \in Rounds /\ round'.step = step
      /\ DOMAIN round'.conds # {} => round'.rule = round.rule
  BY ZenonT(30), <1>2, <1>4, <1>5, LeftFacts
<1>7. /\ round.rule \in AlertRules
      /\ \A k \in Pairs : k # key => since'[k] = since[k]
      /\ since' \in [Pairs -> Nat]
      /\ since'[key] = IF ~round.conds[t] THEN 0 ELSE IF since[key] = 0 THEN clock ELSE since[key]
  <2>1. round.rule \in AlertRules
    BY <1>2 DEF AlertInv, Applied
  <2> QED BY <1>1, <1>2, <2>1
<1> HIDE DEF key
<1>8. AlertTypes' /\ OneOpen'
  BY <1>1, <1>6, <1>7 DEF AlertInv, AlertTypes, OneOpen
<1>9. Seen'
  <2>1. \A k \in Pairs : /\ since[k] <= clock
                         /\ k \in DOMAIN pending => since[k] > 0 /\ since[k] <= pending[k]
    BY DEF AlertInv, Seen
  <2>2. \A k \in Pairs : since'[k] <= clock
    BY <1>1, <1>2, <1>7, <2>1
  <2>3. ASSUME NEW k \in Pairs, k \in DOMAIN pending' PROVE since'[k] > 0 /\ since'[k] <= pending'[k]
    <3>1. pending \in [DOMAIN pending -> Nat]
      BY <1>2, Partials
    <3>2. CASE k # key
      BY <1>1, <1>7, <2>1, <2>3, <3>2
    <3>3. CASE k = key
      BY <1>1, <1>2, <1>7, <2>1, <2>3, <3>1, <3>3
    <3> QED BY <3>2, <3>3
  <2> QED BY <1>1, <2>2, <2>3 DEF Seen
<1>10. Referred'
  BY <1>1, <1>3, <1>4, <1>6 DEF AlertInv, Referred
<1>11. Applied'
  <2>1. step.do = "fire" => since'[key] > 0 /\ clock - since'[key] >= Duration[key[1]]
    <3> SUFFICES ASSUME Due(key), round.conds[t]
                 PROVE  since'[key] > 0 /\ clock - since'[key] >= Duration[key[1]]
      BY <1>4
    <3>1. Duration[key[1]] \in Nat /\ since[key] \in Nat
      BY <1>1, <1>2, AlertBounds DEF Pairs
    <3>2. CASE key \in DOMAIN pending
      <4>1. pending[key] \in Nat /\ since[key] > 0 /\ since[key] <= pending[key]
        BY <1>1, <1>2, <3>2, Partials DEF AlertInv, Seen
      <4>2. clock - pending[key] >= Duration[key[1]] /\ since'[key] = since[key]
        BY <1>7, <3>1, <3>2, <4>1 DEF Due
      <4> QED BY <1>2, <3>1, <4>1, <4>2
    <3>3. CASE key \notin DOMAIN pending
      <4>1. Duration[key[1]] = 0 /\ since[key] <= clock
        BY <1>1, <3>3 DEF Due, AlertInv, Seen
      <4> QED BY <1>2, <1>7, <3>1, <4>1
    <3> QED BY <3>2, <3>3
  <2>2. round'.step.do # "none" => round'.step.key = key /\ key \in Pairs
    BY <1>1, <1>4, <1>6
  <2>3. DOMAIN round'.conds # {} => round'.rule \in AlertRules
    BY <1>6, <1>7
  <2>4. ASSUME round'.step.do = "fire"
        PROVE  /\ \A i \in DOMAIN history : history[i].key = key => history[i].resolved
               /\ since'[key] > 0 /\ clock - since'[key] >= Duration[key[1]]
    <3>1. step.do = "fire" /\ Handler(key) = 0
      BY <1>4, <1>6, <2>4
    <3> QED BY <1>3, <2>1, <3>1
  <2>5. round'.step.do = "fire" => round'.step.key = key
    BY <2>2
  <2> QED BY <1>1, <2>2, <2>3, <2>4, <2>5 DEF Applied
<1> QED BY <1>8, <1>9, <1>10, <1>11 DEF AlertInv

LEMMA AlertStep == AlertInv /\ [NextAlerts]_alertVars => AlertInv'
<1> SUFFICES ASSUME AlertInv, [NextAlerts]_alertVars PROVE AlertInv'
  OBVIOUS
<1>1. CASE UNCHANGED alertVars
  BY <1>1 DEF alertVars, AlertInv, AlertTypes, Seen, OneOpen, Referred, Applied
<1>2. CASE NextAlerts
  BY <1>2, AdminSteps, RoundBegins, StepEnds, RecordWritten, RecordNoted, ApplyKeeps DEF NextAlerts, Evaluate
<1> QED BY <1>1, <1>2

\* A rule has one open record of a target at most, a record opens only for a condition
\* that was seen for the rule's duration, and no record is told twice within its
\* silence: for any rules, targets and durations, any number of restarts, failed
\* statements and edits.
THEOREM AlertsAreSane == AlertsSpec => AlertsSane
<1>1. AlertInv => OneActive
  <2> SUFFICES ASSUME AlertInv, NEW k \in Pairs PROVE Cardinality(Active(k)) <= 1
    BY DEF OneActive
  <2>1. Active(k) = {} \/ \E i : Active(k) = {i}
    BY DEF AlertInv, OneOpen, Active
  <2>2. CASE Active(k) = {}
    BY <2>2, FS_EmptySet
  <2>3. ASSUME NEW i, Active(k) = {i} PROVE Cardinality(Active(k)) <= 1
    <3>1. Cardinality({i}) = 1
      BY FS_Singleton
    <3> QED BY <2>3, <3>1
  <2> QED BY <2>1, <2>2, <2>3
<1>2. AlertInv /\ [NextAlerts]_alertVars =>
        [Len(history') > Len(history) =>
           LET k == history'[Len(history')].key
           IN since[k] > 0 /\ clock - since[k] >= Duration[k[1]]]_alertVars
  <2> SUFFICES ASSUME AlertInv, NextAlerts, Len(history') > Len(history)
               PROVE  LET k == history'[Len(history')].key
                      IN since[k] > 0 /\ clock - since[k] >= Duration[k[1]]
    BY DEF alertVars
  <2>1. history \in Seq(Records) /\ round.step.key \in {round.step.key}
    BY DEF AlertInv, AlertTypes
  <2>2. fire /\ history' # history
    <3>1. ASSUME refire \/ resolve \/ MarkResolvedWrites PROVE Len(history') = Len(history)
      BY <2>1, <3>1 DEF refire, resolve, MarkResolvedWrites
    <3>2. ASSUME \/ BeginRound \/ fireNotes \/ StepFails \/ RestartPanel \/ Tick \/ clearInflight \/ resetState
                 \/ (\E r \in AlertRules : evaluateRule(r)) \/ (\E t \in Targets : apply(t))
                 \/ (\E t \in Targets : Change(t)) \/ (\E id \in DOMAIN history : MarkResolved(id))
                 \/ (\E r \in AlertRules, next \in {"on", "off", "gone"} : EditRule(r, next))
          PROVE  history' = history
      BY <3>2 DEF BeginRound, fireNotes, StepFails, RestartPanel, Tick, clearInflight, resetState,
                  evaluateRule, apply, Change, MarkResolved, EditRule
    <3> QED BY <2>1, <3>1, <3>2 DEF NextAlerts, Evaluate
  <2>3. /\ round.step.do = "fire"
        /\ history' = Append(history, [key |-> round.step.key, resolved |-> FALSE, notified |-> clock])
    BY <2>2 DEF fire
  <2>4. history'[Len(history')].key = round.step.key
    <3>1. Len(history') = Len(history) + 1 /\ Len(history) \in Nat
      BY <2>1, <2>3
    <3> QED BY <2>1, <2>3, <3>1
  <2> QED BY <2>3, <2>4 DEF AlertInv, Applied
<1>3. AlertInv /\ [NextAlerts]_alertVars =>
        [\A i \in DOMAIN history :
           history'[i].notified # history[i].notified => clock - history[i].notified >= SilenceFor]_alertVars
  <2> SUFFICES ASSUME AlertInv, NextAlerts, NEW i \in DOMAIN history,
                      history'[i].notified # history[i].notified
               PROVE  clock - history[i].notified >= SilenceFor
    BY DEF alertVars
  <2>1. /\ history \in Seq(Records) /\ clock \in Nat /\ SilenceFor \in Nat
        /\ history[i].notified \in Nat
    <3>1. history \in Seq(Records) /\ clock \in Nat /\ SilenceFor \in Nat
      BY AlertBounds DEF AlertInv, AlertTypes
    <3>2. history[i] \in Records
      BY <3>1
    <3> QED BY <3>1, <3>2 DEF Records
  <2>2. ~fire
    BY SMTT(30), <2>1 DEF fire
  <2>3. ~resolve /\ ~MarkResolvedWrites
    <3>1. ASSUME NEW id \in DOMAIN history, history' = [history EXCEPT ![id].resolved = TRUE] PROVE FALSE
      <4>1. history' = [history EXCEPT ![id] = [history[id] EXCEPT !.resolved = TRUE]]
        BY <3>1
      <4> QED BY <2>1, <4>1, ClosedRecord
    <3> QED BY <3>1 DEF resolve, MarkResolvedWrites, AlertInv, Referred
  <2>4. refire
    <3>1. ASSUME \/ BeginRound \/ fireNotes \/ StepFails \/ RestartPanel \/ Tick \/ clearInflight \/ resetState
                 \/ (\E r \in AlertRules : evaluateRule(r)) \/ (\E t \in Targets : apply(t))
                 \/ (\E t \in Targets : Change(t)) \/ (\E id \in DOMAIN history : MarkResolved(id))
                 \/ (\E r \in AlertRules, next \in {"on", "off", "gone"} : EditRule(r, next))
          PROVE  history' = history
      BY <3>1 DEF BeginRound, fireNotes, StepFails, RestartPanel, Tick, clearInflight, resetState,
                  evaluateRule, apply, Change, MarkResolved, EditRule
    <3> QED BY <2>2, <2>3, <3>1 DEF NextAlerts, Evaluate
  <2>5. /\ round.step.id \in DOMAIN history /\ ~Quiet(round.step.id)
        /\ history' = [history EXCEPT ![round.step.id] = [history[round.step.id] EXCEPT !.notified = clock]]
    BY <2>4 DEF refire, AlertInv, Referred
  <2>6. i = round.step.id
    BY <2>1, <2>5, ToldRecord
  <2> QED BY <2>1, <2>5, <2>6 DEF Quiet
<1>4. AlertsSpec => []AlertInv
  BY AlertInit, AlertStep, PTL DEF AlertsSpec
<1>5. AlertsSpec => []OneActive
  BY <1>1, <1>4, PTL
<1>6. AlertsSpec => HeldLongEnough
  BY <1>2, <1>4, PTL DEF AlertsSpec, HeldLongEnough
<1>7. AlertsSpec => Silent
  BY <1>3, <1>4, PTL DEF AlertsSpec, Silent
<1> QED BY <1>5, <1>6, <1>7 DEF AlertsSane

---------------------------------------------------------------------------
\* Settings.

\* The table is the last whole update's or, before the first start, empty; a copy
\* that is served, or that a request is about to store, is some whole update's.
SettingsInv ==
  /\ IsMap(last) /\ DOMAIN DefaultSettings \subseteq DOMAIN last
  /\ last \in versions /\ \A v \in versions : IsMap(v)
  /\ loaded \in BOOLEAN
  /\ settings = last \/ (~loaded /\ settings = Empty /\ last = DefaultSettings)
  /\ loaded => cache \in versions
  /\ updater \in [Updaters -> [at : {"rest", "load", "store"}, rows : versions \cup {Empty}]]
  /\ \A u \in Updaters : /\ updater[u].at # "rest" => loaded
                         /\ updater[u].at = "store" => updater[u].rows \in versions
---------------------------------------------------------------------------
\* What a map laid over another is: again a map, unchanged where the other adds nothing.
LEMMA Overlay ==
  ASSUME NEW f, NEW g, IsMap(f), IsMap(g)
  PROVE  /\ IsMap(Over(f, g)) /\ DOMAIN Over(f, g) = DOMAIN f \cup DOMAIN g
         /\ DOMAIN g \subseteq DOMAIN f => Over(f, g) = f
         /\ DOMAIN f = {} => Over(f, g) = g
<1>1. Over(f, g) = [x \in DOMAIN f \cup DOMAIN g |-> IF x \in DOMAIN f THEN f[x] ELSE g[x]]
  BY DEF Over
<1>2. DOMAIN Over(f, g) = DOMAIN f \cup DOMAIN g
  BY <1>1
<1>3. IsMap(Over(f, g))
  BY <1>1 DEF IsMap
<1>4. ASSUME DOMAIN g \subseteq DOMAIN f PROVE Over(f, g) = f
  <2>1. Over(f, g) = [x \in DOMAIN f |-> f[x]]
    BY <1>1, <1>4
  <2> QED BY <2>1 DEF IsMap
<1>5. ASSUME DOMAIN f = {} PROVE Over(f, g) = g
  <2>1. Over(f, g) = [x \in DOMAIN g |-> g[x]]
    BY <1>1, <1>5
  <2> QED BY <2>1 DEF IsMap
<1> QED BY <1>2, <1>3, <1>4, <1>5

LEMMA EmptyMap == IsMap(Empty) /\ DOMAIN Empty = {}
BY DEF IsMap, Empty

LEMMA SettingsInit == InitSettings => SettingsInv
<1> SUFFICES ASSUME InitSettings PROVE SettingsInv
  OBVIOUS
<1>1. updater = [u \in Updaters |-> [at |-> "rest", rows |-> Empty]]
  BY DEF InitSettings, AtRest
<1>2. /\ settings = Empty /\ last = DefaultSettings /\ versions = {DefaultSettings}
      /\ loaded = FALSE
  BY DEF InitSettings
<1>3. /\ updater \in [Updaters -> [at : {"rest", "load", "store"}, rows : versions \cup {Empty}]]
      /\ \A u \in Updaters : updater[u].at = "rest"
  BY <1>1
<1> QED BY <1>2, <1>3, SettingsAreMaps DEF SettingsInv

\* A start leaves the table as it was, but for the very first one, which fills it
\* with the defaults; either way the copy is the table's.
LEMMA SettingsStarted == ASSUME SettingsInv, Start PROVE SettingsInv'
<1>1. settings' = Over(settings, DefaultSettings) /\ cache' = settings' /\ ~loaded /\ loaded'
  BY DEF Start, EnsureInitialized
<1>2. settings' = last
  <2>1. CASE settings = last
    BY <1>1, <2>1, SettingsAreMaps, Overlay DEF SettingsInv
  <2>2. CASE settings = Empty /\ last = DefaultSettings
    BY <1>1, <2>2, SettingsAreMaps, EmptyMap, Overlay
  <2> QED BY <2>1, <2>2 DEF SettingsInv
<1> QED BY <1>1, <1>2 DEF SettingsInv, Start

LEMMA SettingsUpdated ==
  ASSUME SettingsInv, NEW u \in Updaters, NEW values \in Updates, Update(u, values)
  PROVE  SettingsInv'
<1>1. /\ settings' = Over(values, settings) /\ last' = Over(values, settings)
      /\ versions' = versions \cup {last'} /\ loaded
      /\ UNCHANGED <<cache, loaded>>
      /\ updater' = [updater EXCEPT ![u].at = "load"]
  BY DEF Update, Written
<1>2. settings = last /\ IsMap(settings) /\ IsMap(values)
  BY <1>1, SettingsAreMaps DEF SettingsInv
<1>3. IsMap(last') /\ DOMAIN DefaultSettings \subseteq DOMAIN last'
  <2>1. DOMAIN DefaultSettings \subseteq DOMAIN settings
    BY <1>2 DEF SettingsInv
  <2>2. /\ IsMap(Over(values, settings))
        /\ DOMAIN Over(values, settings) = DOMAIN values \cup DOMAIN settings
    BY <1>2, Overlay
  <2> QED BY <1>1, <2>1, <2>2 DEF IsMap
<1>4. \A v \in versions' : IsMap(v)
  BY <1>1, <1>3 DEF SettingsInv
<1>5. updater' \in [Updaters -> [at : {"rest", "load", "store"}, rows : versions' \cup {Empty}]]
  BY <1>1 DEF SettingsInv
<1>6. \A w \in Updaters : updater'[w].at = "store" => updater'[w].rows \in versions'
  BY <1>1 DEF SettingsInv
<1> QED BY <1>1, <1>2, <1>3, <1>4, <1>5, <1>6 DEF SettingsInv

LEMMA SettingsStep == SettingsInv /\ [NextSettings]_settingVars => SettingsInv'
<1> SUFFICES ASSUME SettingsInv, [NextSettings]_settingVars PROVE SettingsInv'
  OBVIOUS
<1>1. CASE Start
  BY <1>1, SettingsStarted
<1>2. CASE Stop
  <2>1. updater' = [u \in Updaters |-> [at |-> "rest", rows |-> Empty]]
    BY <1>2 DEF Stop, AtRest
  <2>2. /\ loaded /\ loaded' = FALSE /\ UNCHANGED <<settings, last, versions>>
    BY <1>2 DEF Stop
  <2>3. /\ updater' \in [Updaters -> [at : {"rest", "load", "store"}, rows : versions \cup {Empty}]]
        /\ \A u \in Updaters : updater'[u].at = "rest"
    BY <2>1
  <2>4. settings = last
    BY <2>2 DEF SettingsInv
  <2>5. Empty' = Empty /\ (\A v \in versions' : IsMap(v)) /\ IsMap(last')
    BY <2>2 DEF SettingsInv, Empty
  <2> QED BY <2>2, <2>3, <2>4, <2>5 DEF SettingsInv
<1>3. ASSUME NEW u \in Updaters, Load(u) PROVE SettingsInv'
  <2>1. settings \in versions
    BY <1>3 DEF SettingsInv, Load
  <2> QED BY <1>3, <2>1 DEF SettingsInv, Load
<1>4. ASSUME NEW u \in Updaters, LoadFails(u) PROVE SettingsInv'
  BY <1>4 DEF SettingsInv, LoadFails, AtRest
<1>5. ASSUME NEW u \in Updaters, Store(u) PROVE SettingsInv'
  BY <1>5 DEF SettingsInv, Store, AtRest
<1>6. ASSUME NEW u \in Updaters, NEW values \in Updates, Update(u, values) PROVE SettingsInv'
  BY <1>6, SettingsUpdated
<1>7. CASE UNCHANGED settingVars
  BY <1>7 DEF SettingsInv, settingVars
<1> QED BY <1>1, <1>2, <1>3, <1>4, <1>5, <1>6, <1>7 DEF NextSettings

\* While the panel serves, its table is the last whole update's and its copy that
\* of some whole update, whichever requests cross and however often it restarts
\* (SettingService.Update, Load, EnsureInitialized).
THEOREM UpdatesWhole == SettingsSpec => []WholeUpdates
<1>1. SettingsInv => WholeUpdates
  BY DEF SettingsInv, WholeUpdates
<1> QED BY <1>1, SettingsInit, SettingsStep, PTL DEF SettingsSpec
---------------------------------------------------------------------------
\* Database copy.

CopyRows == Nat \X STRING
CopyTables == DOMAIN copyOrder
Copiers ==
  [pc : {"idle", "failed", "passed"}] \cup [pc : {"clear"}, table : CopyTables]
  \cup [pc : {"copy"}, table : CopyTables, scanned : SUBSET CopyRows, rest : SUBSET CopyRows, skipped : Nat]
  \cup [pc : {"count"}, table : CopyTables, scanned : SUBSET CopyRows, skipped : Nat, count : Nat]

CopyTypes ==
  /\ from \in [AllModels -> SUBSET CopyRows] /\ to \in [AllModels -> SUBSET CopyRows]
  /\ \A t \in AllModels : IsFiniteSet(from[t]) /\ IsFiniteSet(to[t])
  /\ copier \in Copiers /\ changes \in Nat
  /\ copier.pc = "copy" => IsFiniteSet(copier.rest)

\* While no panel writes, the table being copied has the rows scanned and no longer
\* waiting that can be converted; and the tables that passed are as CopyExact says,
\* whose counter of skipped rows is a number.
CopyInv ==
  /\ CopyTypes
  /\ copier.pc = "copy" => copier.rest \subseteq copier.scanned
  /\ copier.pc = "copy" /\ changes = 0 => to[CopyTable] = Valid(copier.scanned \ copier.rest)
  /\ copier.pc = "count" /\ changes = 0 => to[CopyTable] = Valid(copier.scanned)
  /\ skips \in Seq(Nat) /\ matched \in Seq((SUBSET CopyRows) \X (SUBSET CopyRows))
  /\ Len(skips) = Len(matched)
  /\ CopyExact
---------------------------------------------------------------------------
LEMMA OrderedTables ==
  /\ Len(copyOrder) \in Nat /\ CopyTables = 1 .. Len(copyOrder) /\ 1 \in CopyTables
  /\ \A t \in CopyTables : copyOrder[t] \in AllModels
<1>1. Len(copyOrder) = 16 /\ DOMAIN copyOrder = 1 .. 16
  BY DEF copyOrder
<1>2. \A t \in CopyTables : copyOrder[t] \in AllModels
  BY DEF AllModels, CopyTables
<1> QED BY <1>1, <1>2 DEF CopyTables

LEMMA CopyInit == InitCopy => CopyInv
<1> SUFFICES ASSUME InitCopy PROVE CopyInv
  OBVIOUS
<1>1. /\ from = SourceRows /\ to = TargetRows /\ copier = [pc |-> "idle"]
      /\ skips = <<>> /\ matched = <<>> /\ changes = 0
  BY DEF InitCopy
<1>2. CopyTypes
  BY <1>1, CopyAssumption DEF CopyTypes, Copiers, CopyRows
<1> QED BY <1>1, <1>2 DEF CopyInv, CopyExact

\* The table at hand is one of the panel's, in every state of the copy that has one.
LEMMA AtTable ==
  ASSUME CopyTypes, copier.pc \in {"clear", "copy", "count"}
  PROVE  copier.table \in CopyTables /\ CopyTable \in AllModels
<1>1. copier.table \in CopyTables
  BY DEF CopyTypes, Copiers
<1> QED BY <1>1, OrderedTables DEF CopyTable

LEMMA CopyStarted == ASSUME CopyInv, StartCopy PROVE CopyInv'
<1>1. copier' = [pc |-> "clear", table |-> 1] /\ UNCHANGED <<from, to, skips, matched, changes>>
  BY DEF StartCopy
<1>2. copier' \in Copiers /\ copier'.pc = "clear"
  BY <1>1, OrderedTables DEF Copiers
<1> QED BY <1>1, <1>2 DEF CopyInv, CopyTypes, CopyExact

LEMMA CopyCleared == ASSUME CopyInv, ClearTable PROVE CopyInv'
<1>1. /\ copier.pc = "clear" /\ to' = [to EXCEPT ![CopyTable] = {}]
      /\ copier' = [pc |-> "copy", table |-> copier.table, scanned |-> from[CopyTable],
                    rest |-> from[CopyTable], skipped |-> 0]
      /\ UNCHANGED <<from, skips, matched, changes>>
  BY DEF ClearTable
<1>2. copier.table \in CopyTables /\ CopyTable \in AllModels
  BY <1>1, AtTable DEF CopyInv
<1>3. from[CopyTable] \in SUBSET CopyRows /\ IsFiniteSet(from[CopyTable])
  BY <1>2 DEF CopyInv, CopyTypes
<1>4. copier' \in Copiers /\ CopyTable' = CopyTable
  BY <1>1, <1>2, <1>3 DEF Copiers, CopyTable
<1>5. to' \in [AllModels -> SUBSET CopyRows] /\ \A t \in AllModels : IsFiniteSet(to'[t])
  BY <1>1, <1>2, FS_EmptySet DEF CopyInv, CopyTypes
<1>6. to'[CopyTable'] = Valid(copier'.scanned \ copier'.rest)
  BY <1>1, <1>2, <1>4 DEF CopyInv, CopyTypes, Valid
<1>7. CopyTypes'
  BY <1>1, <1>3, <1>4, <1>5 DEF CopyInv, CopyTypes
<1> QED BY <1>1, <1>4, <1>6, <1>7 DEF CopyInv, CopyExact, Valid

\* A batch moves its convertible rows into the table and counts the others.
LEMMA CopyWritten ==
  ASSUME CopyInv, copier.pc = "copy", NEW batch \in SUBSET copier.rest, WriteBatch(batch),
         UNCHANGED <<from, skips, matched, changes>>
  PROVE  CopyInv'
<1>1. CASE to' = to /\ copier' = [pc |-> "failed"]
  <2>1. copier' \in Copiers /\ copier'.pc = "failed"
    BY <1>1 DEF Copiers
  <2> QED BY <1>1, <2>1 DEF CopyInv, CopyTypes, CopyExact
<1>2. CASE /\ to' = [to EXCEPT ![CopyTable] = @ \cup Valid(batch)]
           /\ copier' = [copier EXCEPT !.rest = @ \ batch,
                                       !.skipped = @ + Cardinality(batch \ Valid(batch))]
  <2>1. copier.table \in CopyTables /\ CopyTable \in AllModels
    BY AtTable DEF CopyInv
  <2>2. copier \in [pc : {"copy"}, table : CopyTables, scanned : SUBSET CopyRows, rest : SUBSET CopyRows, skipped : Nat]
    BY DEF CopyInv, CopyTypes, Copiers
  <2>3. /\ IsFiniteSet(copier.rest) /\ IsFiniteSet(batch) /\ IsFiniteSet(Valid(batch))
        /\ IsFiniteSet(copier.rest \ batch) /\ IsFiniteSet(batch \ Valid(batch))
    <3>1. IsFiniteSet(copier.rest)
      BY DEF CopyInv, CopyTypes
    <3>2. IsFiniteSet(batch) /\ IsFiniteSet(copier.rest \ batch)
      BY <3>1, FS_Subset
    <3>3. IsFiniteSet(Valid(batch)) /\ IsFiniteSet(batch \ Valid(batch))
      BY <3>2, FS_Subset DEF Valid
    <3> QED BY <3>1, <3>2, <3>3
  <2>4. Cardinality(batch \ Valid(batch)) \in Nat
    BY <2>3, FS_CardinalityType
  <2>5. /\ copier'.pc = "copy" /\ copier'.table = copier.table /\ copier'.scanned = copier.scanned
        /\ copier'.rest = copier.rest \ batch /\ copier' \in Copiers
    <3>1. copier' = [pc |-> "copy", table |-> copier.table, scanned |-> copier.scanned,
                     rest |-> copier.rest \ batch,
                     skipped |-> copier.skipped + Cardinality(batch \ Valid(batch))]
      BY <1>2, <2>2
    <3>2. copier.rest \ batch \in SUBSET CopyRows
      BY <2>2
    <3>3. copier.skipped + Cardinality(batch \ Valid(batch)) \in Nat
      BY <2>2, <2>4
    <3> QED BY <2>2, <3>1, <3>2, <3>3 DEF Copiers
  <2>6. CopyTable' = CopyTable
    BY <2>5 DEF CopyTable
  <2>7. batch \subseteq CopyRows /\ Valid(batch) \subseteq CopyRows
    BY <2>2 DEF Valid
  <2>8. to'[CopyTable] = to[CopyTable] \cup Valid(batch)
    BY <1>2, <2>1 DEF CopyInv, CopyTypes
  <2>9. to' \in [AllModels -> SUBSET CopyRows] /\ \A t \in AllModels : IsFiniteSet(to'[t])
    <3>1. to' \in [AllModels -> SUBSET CopyRows]
      BY <1>2, <2>1, <2>7 DEF CopyInv, CopyTypes
    <3>2. \A t \in AllModels : to'[t] = IF t = CopyTable THEN to[t] \cup Valid(batch) ELSE to[t]
      BY <1>2, <2>1 DEF CopyInv, CopyTypes
    <3>3. ASSUME NEW t \in AllModels PROVE IsFiniteSet(to'[t])
      <4>1. IsFiniteSet(to[t])
        BY DEF CopyInv, CopyTypes
      <4>2. IsFiniteSet(to[t] \cup Valid(batch))
        BY <2>3, <4>1, FS_Union
      <4> QED BY <3>2, <4>1, <4>2
    <3> QED BY <3>1, <3>3
  <2>10. CopyTypes'
    BY <2>3, <2>5, <2>9 DEF CopyInv, CopyTypes
  <2>11. ASSUME changes = 0 PROVE to'[CopyTable'] = Valid(copier'.scanned \ copier'.rest)
    <3>1. to[CopyTable] = Valid(copier.scanned \ copier.rest) /\ copier.rest \subseteq copier.scanned
      BY <2>11 DEF CopyInv
    <3>2. Valid(copier.scanned \ copier.rest) \cup Valid(batch)
            = Valid(copier.scanned \ (copier.rest \ batch))
      BY <3>1 DEF Valid
    <3> QED BY <3>1, <3>2, <2>5, <2>6, <2>8
  <2>12. copier'.rest \subseteq copier'.scanned
    BY <2>5 DEF CopyInv
  <2> QED BY <2>5, <2>10, <2>11, <2>12 DEF CopyInv, CopyExact, Valid
<1> QED BY <1>1, <1>2 DEF WriteBatch

LEMMA CopyCounted == ASSUME CopyInv, CountTarget PROVE CopyInv'
<1>1. /\ copier.pc = "copy" /\ copier.rest = {}
      /\ copier' = [pc |-> "count", table |-> copier.table, scanned |-> copier.scanned,
                    skipped |-> copier.skipped, count |-> Cardinality(to[CopyTable])]
      /\ UNCHANGED <<from, to, skips, matched, changes>>
  BY DEF CountTarget
<1>2. copier.table \in CopyTables /\ CopyTable \in AllModels
  BY <1>1, AtTable DEF CopyInv
<1>3. Cardinality(to[CopyTable]) \in Nat
  BY <1>2, FS_CardinalityType DEF CopyInv, CopyTypes
<1>4. copier \in [pc : {"copy"}, table : CopyTables, scanned : SUBSET CopyRows, rest : SUBSET CopyRows, skipped : Nat]
  BY <1>1 DEF CopyInv, CopyTypes, Copiers
<1>5. copier' \in Copiers /\ CopyTable' = CopyTable
  BY <1>1, <1>3, <1>4 DEF Copiers, CopyTable
<1>6. changes = 0 => to[CopyTable] = Valid(copier.scanned)
  BY <1>1 DEF CopyInv
<1> QED BY <1>1, <1>5, <1>6 DEF CopyInv, CopyTypes, CopyExact, Valid

\* A table that passes is appended as it was found.
LEMMA CopyVerified == ASSUME CopyInv, VerifyTable PROVE CopyInv'
<1>1. copier.pc = "count" /\ UNCHANGED <<from, to, changes>>
  BY DEF VerifyTable
<1>2. copier \in [pc : {"count"}, table : CopyTables, scanned : SUBSET CopyRows, skipped : Nat, count : Nat]
  BY <1>1 DEF CopyInv, CopyTypes, Copiers
<1>3. CopyTable \in AllModels /\ to[CopyTable] \in SUBSET CopyRows
  BY <1>1, AtTable DEF CopyInv, CopyTypes
<1>4. CASE ~Passed(copier.scanned, copier.skipped, copier.count, to[CopyTable])
  <2>1. copier' = [pc |-> "failed"] /\ UNCHANGED <<skips, matched>>
    BY <1>4 DEF VerifyTable
  <2>2. copier' \in Copiers /\ copier'.pc = "failed"
    BY <2>1 DEF Copiers
  <2> QED BY <1>1, <2>1, <2>2 DEF CopyInv, CopyTypes, CopyExact
<1>5. CASE Passed(copier.scanned, copier.skipped, copier.count, to[CopyTable])
  <2> DEFINE pair == <<copier.scanned, to[CopyTable]>>
  <2>1. /\ copier' = IF copier.table = Len(copyOrder) THEN [pc |-> "passed"]
                     ELSE [pc |-> "clear", table |-> copier.table + 1]
        /\ skips' = Append(skips, copier.skipped) /\ matched' = Append(matched, pair)
    BY <1>5 DEF VerifyTable
  <2>2. copier' \in Copiers /\ copier'.pc \in {"passed", "clear"}
    <3>1. CASE copier.table = Len(copyOrder)
      BY <2>1, <3>1 DEF Copiers
    <3>2. CASE copier.table # Len(copyOrder)
      <4>1. copier.table + 1 \in CopyTables
        BY <1>2, <3>2, OrderedTables
      <4> QED BY <2>1, <3>2, <4>1 DEF Copiers
    <3> QED BY <3>1, <3>2
  <2>3. IF copier.skipped = 0 THEN pair[2] = pair[1] ELSE changes = 0 => pair[2] = Valid(pair[1])
    BY <1>1, <1>2, <1>5 DEF Passed, CopyInv
  <2>4. pair \in (SUBSET CopyRows) \X (SUBSET CopyRows) /\ copier.skipped \in Nat
    BY <1>2, <1>3
  <2>5. /\ skips \in Seq(Nat) /\ matched \in Seq((SUBSET CopyRows) \X (SUBSET CopyRows))
        /\ Len(skips) = Len(matched)
    BY DEF CopyInv
  <2> HIDE DEF pair
  <2>6. /\ skips' \in Seq(Nat) /\ matched' \in Seq((SUBSET CopyRows) \X (SUBSET CopyRows))
        /\ Len(skips') = Len(matched')
    BY <2>1, <2>4, <2>5
  <2>7. CopyExact'
    <3> SUFFICES ASSUME NEW t \in DOMAIN matched'
                 PROVE  IF skips'[t] = 0 THEN matched'[t][2] = matched'[t][1]
                        ELSE changes' = 0 => matched'[t][2] = Valid(matched'[t][1])
      BY DEF CopyExact, Valid
    <3>1. CASE t = Len(matched) + 1
      <4>1. matched'[t] = pair /\ skips'[t] = copier.skipped
        BY <2>1, <2>4, <2>5, <3>1
      <4> QED BY <1>1, <2>3, <4>1
    <3>2. CASE t # Len(matched) + 1
      <4>1. t \in DOMAIN matched /\ matched'[t] = matched[t] /\ skips'[t] = skips[t]
        BY <2>1, <2>4, <2>5, <3>2
      <4> QED BY <1>1, <4>1 DEF CopyInv, CopyExact
    <3> QED BY <3>1, <3>2
  <2> QED BY <1>1, <2>2, <2>6, <2>7 DEF CopyInv, CopyTypes
<1> QED BY <1>4, <1>5

LEMMA CopyBroken == ASSUME CopyInv, CopyBreaks PROVE CopyInv'
<1>1. copier' = [pc |-> "failed"] /\ UNCHANGED <<from, to, skips, matched, changes>>
  BY DEF CopyBreaks
<1>2. copier' \in Copiers /\ copier'.pc = "failed"
  BY <1>1 DEF Copiers
<1> QED BY <1>1, <1>2 DEF CopyInv, CopyTypes, CopyExact

\* Once a panel has written, the tables are only known to be tables.
LEMMA CopyEdited == ASSUME CopyInv, NEW t \in AllModels, PanelEdits(t) PROVE CopyInv'
<1>1. changes' = changes + 1 /\ UNCHANGED <<copier, skips, matched>>
  BY DEF PanelEdits
<1>2. changes' \in Nat /\ changes' # 0
  BY <1>1 DEF CopyInv, CopyTypes
<1>3. PICK row \in Edited :
        \/ from' = [from EXCEPT ![t] = Upsert(@, row)] /\ to' = to
        \/ to' = [to EXCEPT ![t] = Upsert(@, row)] /\ from' = from
        \/ to' = [to EXCEPT ![t] = {r \in @ : r[1] # row[1]}] /\ from' = from
  BY DEF PanelEdits
<1>4. row \in CopyRows
  BY CopyAssumption DEF CopyRows
<1>5. ASSUME NEW rows \in SUBSET CopyRows, IsFiniteSet(rows)
      PROVE  /\ Upsert(rows, row) \in SUBSET CopyRows /\ IsFiniteSet(Upsert(rows, row))
             /\ {r \in rows : r[1] # row[1]} \in SUBSET CopyRows
             /\ IsFiniteSet({r \in rows : r[1] # row[1]})
  <2>1. IsFiniteSet({r \in rows : r[1] # row[1]})
    BY <1>5, FS_Subset
  <2>2. IsFiniteSet({r \in rows : r[1] # row[1]} \cup {row})
    BY <2>1, FS_AddElement
  <2> QED BY <1>4, <1>5, <2>1, <2>2 DEF Upsert
<1>6. /\ from' \in [AllModels -> SUBSET CopyRows] /\ to' \in [AllModels -> SUBSET CopyRows]
      /\ \A s \in AllModels : IsFiniteSet(from'[s]) /\ IsFiniteSet(to'[s])
  <2>1. /\ from \in [AllModels -> SUBSET CopyRows] /\ to \in [AllModels -> SUBSET CopyRows]
        /\ \A s \in AllModels : IsFiniteSet(from[s]) /\ IsFiniteSet(to[s])
    BY DEF CopyInv, CopyTypes
  <2>2. CASE from' = [from EXCEPT ![t] = Upsert(@, row)] /\ to' = to
    BY <1>5, <2>1, <2>2
  <2>3. CASE to' = [to EXCEPT ![t] = Upsert(@, row)] /\ from' = from
    BY <1>5, <2>1, <2>3
  <2>4. CASE to' = [to EXCEPT ![t] = {r \in @ : r[1] # row[1]}] /\ from' = from
    BY <1>5, <2>1, <2>4
  <2> QED BY <1>3, <2>2, <2>3, <2>4
<1>7. CopyExact'
  <2>1. \A s \in DOMAIN matched : skips[s] = 0 => matched[s][2] = matched[s][1]
    BY DEF CopyInv, CopyExact
  <2> QED BY <1>1, <1>2, <2>1 DEF CopyExact
<1> QED BY <1>1, <1>2, <1>6, <1>7 DEF CopyInv, CopyTypes

LEMMA CopyStep == CopyInv /\ [NextCopy]_copyVars => CopyInv'
<1> SUFFICES ASSUME CopyInv, [NextCopy]_copyVars PROVE CopyInv'
  OBVIOUS
<1>1. CASE StartCopy
  BY <1>1, CopyStarted
<1>2. CASE ClearTable
  BY <1>2, CopyCleared
<1>3. CASE flush
  BY <1>3, CopyWritten DEF flush
<1>4. CASE CountTarget
  BY <1>4, CopyCounted
<1>5. CASE VerifyTable
  BY <1>5, CopyVerified
<1>6. CASE CopyBreaks
  BY <1>6, CopyBroken
<1>7. ASSUME NEW t \in {"users", "forward_rules"}, PanelEdits(t) PROVE CopyInv'
  <2>1. t \in AllModels
    BY DEF AllModels, copyOrder
  <2> QED BY <1>7, <2>1, CopyEdited
<1>8. CASE UNCHANGED copyVars
  BY <1>8 DEF copyVars, CopyInv, CopyTypes, CopyTable, CopyExact, Valid
<1> QED BY <1>1, <1>2, <1>3, <1>4, <1>5, <1>6, <1>7, <1>8 DEF NextCopy

\* A table that passed held, when it was compared, the rows that were scanned, but for
\* those that were skipped when no panel wrote (copyTable, CopyDatabase).
THEOREM PassedIsExact == CopySpec => []CopyExact
<1>1. CopyInv => CopyExact
  BY DEF CopyInv
<1> QED BY <1>1, CopyInit, CopyStep, PTL DEF CopySpec

---------------------------------------------------------------------------
\* Backups.

FileData == (0 .. latest) \cup {Torn}
ZipFiles == [data : FileData, asked : FileData, sure : BOOLEAN]
InHand == {"opened", "copying", "copied"}
MakerStates ==
  [pc : {"idle"}]
  \cup [pc : {"opened"}, zip : Zips, mixed : BOOLEAN, asked : FileData, sure : BOOLEAN]
  \cup [pc : {"copying", "copied"}, zip : Zips, mixed : BOOLEAN, asked : FileData,
        file : 0 .. at, data : FileData, sure : BOOLEAN]
  \cup [pc : {"made"}, zip : Zips]
RestoreStates ==
  [pc : {"idle"}, sure : {TRUE}]
  \cup [pc : {"begun", "saving", "saved", "ready", "writing", "done"}, zip : Zips,
        data : FileData \cup {NoFile}, file : 0 .. at, old : FileData, sure : BOOLEAN]

BackupTypes ==
  /\ latest \in Nat /\ at \in Nat /\ mine \in 0 .. at /\ own \in 0 .. latest
  /\ content \in [0 .. at -> FileData] /\ wal \in (0 .. latest) \cup {NoFile}
  /\ logged \in BOOLEAN
  /\ listed \in [0 .. latest -> SUBSET Zips]
  /\ zips \in [Zips -> {NoFile, Broken} \cup ZipFiles]
  /\ maker \in [Makers -> MakerStates] /\ restore \in RestoreStates

\* The log beside the database is the panel's own until a restore removes it; from
\* then on the panel sees what it alone has.
LogInv ==
  /\ logged => mine = at /\ OnDisk = own
  /\ restore.pc \in {"ready", "writing"} => ~logged /\ restore.data \in FileData

\* What the table lists is no remains of a backup that failed.
ListInv == \A c \in 0 .. latest : \A z \in listed[c] \ reused : zips[z] # Broken

\* A copy that can be relied on is of what there was when it was asked for, or later.
Holds(copy, data) == data \in Nat /\ copy.asked \in Nat /\ data >= copy.asked

MakerSound(m) ==
  /\ maker[m].pc \in InHand /\ maker[m].mixed => maker[m].zip \in reused
  /\ maker[m].pc = "made" /\ maker[m].zip \notin reused => zips[maker[m].zip] # Broken
  /\ maker[m].pc = "opened" /\ maker[m].sure => Holds(maker[m], OnDisk)
  /\ maker[m].pc \in {"copying", "copied"} /\ maker[m].sure => Holds(maker[m], maker[m].data)
MakersInv == \A m \in Makers : MakerSound(m)
ZipsInv == \A z \in Zips : zips[z] \notin {NoFile, Broken} /\ zips[z].sure => Holds(zips[z], zips[z].data)

UndoInv ==
  /\ restore.pc \in {"begun", "saving"} => restore.file = at /\ (restore.sure => OnDisk = restore.old)
  /\ restore.pc = "saving" /\ restore.sure /\ wal = NoFile => restore.data = restore.old
  /\ restore.pc \in {"saved", "ready", "writing", "done"} /\ restore.sure =>
       Read(before.main, before.log) = restore.old

BackupInv == BackupTypes /\ LogInv /\ ListInv /\ MakersInv /\ ZipsInv /\ UndoInv

LEMMA NumbersAreNoFiles == NoFile \notin Nat /\ Torn \notin Nat /\ NoFile # Torn /\ NoFile # Broken
BY BackupValues

LEMMA Added ==
  ASSUME NEW f, NEW key, NEW value
  PROVE  /\ DOMAIN Adding(f, key, value) = DOMAIN f \cup {key}
         /\ Adding(f, key, value)[key] = value
         /\ \A k \in DOMAIN f : k # key => Adding(f, key, value)[k] = f[k]
BY DEF Adding

LEMMA BackupInit == InitBackups => BackupInv
<1> SUFFICES ASSUME InitBackups PROVE BackupInv
  OBVIOUS
<1>1. /\ latest = 0 /\ at = 0 /\ mine = 0 /\ own = 0 /\ logged = TRUE /\ wal = NoFile
      /\ content = [file \in {0} |-> 0] /\ listed = [c \in {0} |-> {}]
      /\ zips = [z \in Zips |-> NoFile] /\ maker = [m \in Makers |-> [pc |-> "idle"]]
      /\ restore = [pc |-> "idle", sure |-> TRUE]
  BY DEF InitBackups, NoMaker, NoRestore
<1>2. 0 .. 0 = {0}
  OBVIOUS
<1>3. BackupTypes
  <2>1. content \in [0 .. at -> FileData] /\ listed \in [0 .. latest -> SUBSET Zips]
    BY <1>1, <1>2 DEF FileData
  <2>2. maker \in [Makers -> MakerStates] /\ restore \in RestoreStates
    BY <1>1 DEF MakerStates, RestoreStates
  <2> QED BY <1>1, <2>1, <2>2 DEF BackupTypes
<1>4. OnDisk = 0
  BY <1>1 DEF OnDisk, Read
<1>5. LogInv /\ ListInv /\ UndoInv
  BY <1>1, <1>2, <1>4 DEF LogInv, ListInv, UndoInv, InHand
<1>6. MakersInv /\ ZipsInv
  BY <1>1 DEF MakersInv, MakerSound, ZipsInv, InHand
<1> QED BY <1>3, <1>5, <1>6 DEF BackupInv

\* A step may make a copy that is under way unreliable.
Doubted(copy, old) ==
  \/ copy = old
  \/ /\ copy \in MakerStates /\ old.pc \in InHand
     /\ copy.pc = old.pc /\ copy.zip = old.zip /\ copy.mixed = old.mixed /\ copy.sure = FALSE

LEMMA Disturbs ==
  ASSUME BackupTypes, NEW m \in Makers, NEW i, NEW written
  PROVE  /\ Doubted(Disturbed(maker[m], i, written), maker[m])
         /\ Doubted(Overtaken[m], maker[m])
         /\ Doubted(Disturbed(Overtaken[m], i, written), maker[m])
         /\ Overtaken[m].sure = FALSE \/ maker[m].pc \notin InHand
<1>1. maker[m] \in MakerStates
  BY DEF BackupTypes
<1>2. Torn \in FileData
  BY DEF FileData
<1>3. ASSUME NEW copy \in MakerStates
      PROVE  /\ Disturbed(copy, i, written) \in MakerStates
             /\ Doubted(Disturbed(copy, i, written), copy)
             /\ copy.sure = FALSE => Disturbed(copy, i, written).sure = FALSE
             /\ Disturbed(copy, i, written).pc = copy.pc
  <2>1. CASE written /\ copy.pc \in {"copying", "saving"} /\ copy.file = i
    <3>1. copy \in [pc : {"copying", "copied"}, zip : Zips, mixed : BOOLEAN, asked : FileData,
                    file : 0 .. at, data : FileData, sure : BOOLEAN]
      BY <1>3, <2>1 DEF MakerStates
    <3>2. Disturbed(copy, i, written) = [copy EXCEPT !.data = Torn, !.sure = FALSE]
      BY <2>1 DEF Disturbed
    <3>3. Disturbed(copy, i, written) \in MakerStates
      BY <1>2, <3>1, <3>2 DEF MakerStates
    <3>4. copy.pc \in InHand
      BY <2>1, <3>1 DEF InHand
    <3> QED BY <3>1, <3>2, <3>3, <3>4 DEF Doubted
  <2>2. CASE ~(written /\ copy.pc \in {"copying", "saving"} /\ copy.file = i)
    BY <1>3, <2>2 DEF Disturbed, Doubted
  <2> QED BY <2>1, <2>2
<1>4. /\ Overtaken[m] \in MakerStates /\ Doubted(Overtaken[m], maker[m])
      /\ Overtaken[m].sure = FALSE \/ maker[m].pc \notin InHand
  <2>1. CASE maker[m].pc \in InHand
    <3>1. Overtaken[m] = [maker[m] EXCEPT !.sure = FALSE]
      BY <2>1 DEF Overtaken, InHand
    <3>2. \/ maker[m] \in [pc : {"opened"}, zip : Zips, mixed : BOOLEAN, asked : FileData, sure : BOOLEAN]
          \/ maker[m] \in [pc : {"copying", "copied"}, zip : Zips, mixed : BOOLEAN, asked : FileData,
                           file : 0 .. at, data : FileData, sure : BOOLEAN]
      BY <1>1, <2>1 DEF MakerStates, InHand
    <3>3. Overtaken[m] \in MakerStates
      BY <3>1, <3>2 DEF MakerStates
    <3> QED BY <2>1, <3>1, <3>2, <3>3 DEF Doubted
  <2>2. CASE maker[m].pc \notin InHand
    BY <1>1, <2>2 DEF Overtaken, InHand, Doubted
  <2> QED BY <2>1, <2>2
<1>5. Doubted(Disturbed(Overtaken[m], i, written), maker[m])
  <2>1. CASE Overtaken[m] = maker[m]
    BY <1>1, <1>3, <2>1
  <2>2. CASE Overtaken[m] # maker[m]
    <3>1. /\ maker[m].pc \in InHand /\ Overtaken[m].pc = maker[m].pc /\ Overtaken[m].zip = maker[m].zip
          /\ Overtaken[m].mixed = maker[m].mixed /\ Overtaken[m].sure = FALSE
      BY <1>4, <2>2 DEF Doubted
    <3>2. /\ Disturbed(Overtaken[m], i, written) \in MakerStates
          /\ Doubted(Disturbed(Overtaken[m], i, written), Overtaken[m])
          /\ Disturbed(Overtaken[m], i, written).sure = FALSE
      BY <1>3, <1>4, <3>1
    <3> QED BY <3>1, <3>2 DEF Doubted
  <2> QED BY <2>1, <2>2
<1> QED BY <1>1, <1>3, <1>4, <1>5

\* More data and more files are types of what there was.
LEMMA Wider ==
  ASSUME BackupTypes, latest' \in Nat, latest' >= latest, at' \in Nat, at' >= at
  PROVE  /\ FileData \subseteq FileData' /\ ZipFiles \subseteq ZipFiles'
         /\ MakerStates \subseteq MakerStates' /\ RestoreStates \subseteq RestoreStates'
         /\ 0 .. latest \subseteq 0 .. latest'
<1>1. 0 .. latest \subseteq 0 .. latest' /\ 0 .. at \subseteq 0 .. at'
  BY DEF BackupTypes
<1>2. FileData \subseteq FileData'
  BY <1>1 DEF FileData
<1>3. ZipFiles \subseteq ZipFiles'
  BY <1>2 DEF ZipFiles
<1>4. MakerStates \subseteq MakerStates'
  BY <1>1, <1>2 DEF MakerStates
<1>5. RestoreStates \subseteq RestoreStates'
  BY <1>1, <1>2 DEF RestoreStates
<1> QED BY <1>1, <1>2, <1>3, <1>4, <1>5

\* A maker that goes on, or whose copy a step makes unreliable, stays sound.
LEMMA MakerKept ==
  ASSUME BackupInv, NEW m \in Makers, Doubted(maker'[m], maker[m]), reused \subseteq reused',
         maker[m].pc = "made" /\ maker[m].zip \notin reused' =>
           (zips'[maker[m].zip] = zips[maker[m].zip] \/ zips'[maker[m].zip] # Broken),
         maker[m].pc = "opened" /\ maker'[m].sure /\ OnDisk \in Nat =>
           (OnDisk' \in Nat /\ OnDisk' >= OnDisk)
  PROVE  MakerSound(m)'
<1>1. MakerSound(m)
  BY DEF BackupInv, MakersInv
<1>2. CASE maker'[m] = maker[m]
  <2>1. maker[m].pc = "opened" /\ maker[m].sure => Holds(maker[m], OnDisk')
    <3> SUFFICES ASSUME maker[m].pc = "opened", maker[m].sure PROVE Holds(maker[m], OnDisk')
      OBVIOUS
    <3>1. OnDisk \in Nat /\ maker[m].asked \in Nat /\ OnDisk >= maker[m].asked
      BY <1>1 DEF MakerSound, Holds
    <3>2. OnDisk' \in Nat /\ OnDisk' >= OnDisk
      BY <1>2, <3>1
    <3> QED BY <3>1, <3>2 DEF Holds
  <2> QED BY <1>1, <1>2, <2>1 DEF MakerSound, Holds
<1>3. CASE maker'[m] # maker[m]
  <2>1. /\ maker[m].pc \in InHand /\ maker'[m].pc = maker[m].pc /\ maker'[m].zip = maker[m].zip
        /\ maker'[m].mixed = maker[m].mixed /\ maker'[m].sure = FALSE
    BY <1>3 DEF Doubted
  <2> QED BY <1>1, <2>1 DEF MakerSound, InHand
<1> QED BY <1>2, <1>3

\* A step may make the copy a restore keeps unreliable.
Unsettled(new, old) ==
  \/ new = old
  \/ /\ new \in RestoreStates /\ old.pc \in {"begun", "saving"}
     /\ new.pc = old.pc /\ new.file = old.file /\ new.sure = FALSE

LEMMA Unsettles ==
  ASSUME BackupTypes, NEW i, NEW written
  PROVE  /\ Unsettled(Disturbed(restore, i, written), restore)
         /\ restore.pc \in {"begun", "saving"} => Unsettled([restore EXCEPT !.sure = FALSE], restore)
         /\ restore.pc \notin {"begun", "saving"} => Disturbed(restore, i, written) = restore
         /\ restore.pc = "saving" /\ written /\ restore.file = i =>
               Disturbed(restore, i, written).sure = FALSE
<1> DEFINE Under == [pc : {"begun", "saving", "saved", "ready", "writing", "done"}, zip : Zips,
                     data : FileData \cup {NoFile}, file : 0 .. at, old : FileData, sure : BOOLEAN]
<1>1. restore \in RestoreStates /\ Torn \in FileData
  BY DEF BackupTypes, FileData
<1>2. restore.pc # "idle" => restore \in Under
  BY <1>1 DEF RestoreStates
<1>3. restore.pc # "copying"
  BY <1>1 DEF RestoreStates
<1>4. restore.pc \in {"begun", "saving"} => Unsettled([restore EXCEPT !.sure = FALSE], restore)
  <2> SUFFICES ASSUME restore.pc \in {"begun", "saving"} PROVE Unsettled([restore EXCEPT !.sure = FALSE], restore)
    OBVIOUS
  <2>1. restore \in Under
    BY <1>2
  <2>2. [restore EXCEPT !.sure = FALSE] \in RestoreStates
    BY <2>1 DEF RestoreStates
  <2> QED BY <2>1, <2>2 DEF Unsettled
<1>5. CASE written /\ restore.pc = "saving" /\ restore.file = i
  <2>1. restore \in Under
    BY <1>2, <1>5
  <2>2. Disturbed(restore, i, written) = [restore EXCEPT !.data = Torn, !.sure = FALSE]
    BY <1>5 DEF Disturbed
  <2>3. Disturbed(restore, i, written) \in RestoreStates
    BY <1>1, <2>1, <2>2 DEF RestoreStates
  <2> QED BY <1>4, <1>5, <2>1, <2>2, <2>3 DEF Unsettled
<1>6. CASE ~(written /\ restore.pc = "saving" /\ restore.file = i)
  BY <1>3, <1>4, <1>6 DEF Disturbed, Unsettled
<1> QED BY <1>5, <1>6

\* What a restore keeps stays what there was when it began.
LEMMA UndoKept ==
  ASSUME BackupInv, Unsettled(restore', restore), before' = before, at' = at,
         restore.pc \in {"begun", "saving"} /\ restore'.sure =>
           (OnDisk' = OnDisk /\ (wal' = wal \/ restore.pc = "begun"))
  PROVE  UndoInv'
<1>1. CASE restore' = restore
  BY <1>1 DEF BackupInv, UndoInv
<1>2. CASE restore' # restore
  BY <1>2 DEF BackupInv, UndoInv, Unsettled
<1> QED BY <1>1, <1>2

LEMMA DiskFacts ==
  ASSUME BackupTypes
  PROVE  /\ OnDisk \in FileData /\ content[at] \in FileData
         /\ OnDisk # Torn => OnDisk \in 0 .. latest
         /\ \A d \in FileData : d # Torn => d \in Nat
<1>1. content[at] \in FileData
  BY DEF BackupTypes
<1>2. OnDisk \in FileData
  BY <1>1 DEF OnDisk, Read, BackupTypes, FileData
<1> QED BY <1>1, <1>2 DEF FileData, BackupTypes

LEMMA CommitFacts ==
  ASSUME BackupTypes, LogInv, NEW list \in SUBSET Zips, Commit(list)
  PROVE  /\ latest' = latest + 1 /\ own' = latest + 1
         /\ content' = content /\ at' = at /\ mine' = mine /\ logged' = logged
         /\ wal' = IF logged THEN latest + 1 ELSE wal
         /\ listed' \in [0 .. latest' -> SUBSET Zips] /\ listed'[latest'] = list
         /\ \A c \in 0 .. latest : listed'[c] = listed[c]
         /\ OnDisk' = IF logged THEN latest + 1 ELSE OnDisk
         /\ OnDisk \in Nat => OnDisk' \in Nat /\ OnDisk' >= OnDisk
         /\ wal' \in (0 .. latest') \cup {NoFile}
         /\ logged' => mine' = at' /\ OnDisk' = own'
<1>1. /\ latest' = latest + 1 /\ own' = latest + 1
      /\ content' = content /\ at' = at /\ mine' = mine /\ logged' = logged
      /\ wal' = IF logged THEN latest + 1 ELSE wal
      /\ listed' = Adding(listed, latest + 1, list)
  BY DEF Commit
<1>2. latest \in Nat /\ DOMAIN listed = 0 .. latest /\ 0 .. latest' = (0 .. latest) \cup {latest + 1}
  BY <1>1 DEF BackupTypes
<1>3. listed' \in [0 .. latest' -> SUBSET Zips] /\ listed'[latest'] = list
  BY <1>1, <1>2 DEF Adding, BackupTypes
<1>4. \A c \in 0 .. latest : listed'[c] = listed[c]
  BY <1>1, <1>2 DEF Adding
<1>5. OnDisk' = IF logged THEN latest + 1 ELSE OnDisk
  BY <1>1, <1>2, NumbersAreNoFiles DEF OnDisk, Read
<1>6. OnDisk \in Nat => OnDisk' \in Nat /\ OnDisk' >= OnDisk
  BY <1>2, <1>5, DiskFacts, NumbersAreNoFiles
<1>7. wal' \in (0 .. latest') \cup {NoFile}
  BY <1>1, <1>2 DEF BackupTypes
<1>8. logged' => mine' = at' /\ OnDisk' = own'
  BY <1>1, <1>5 DEF LogInv
<1> QED BY <1>1, <1>3, <1>4, <1>5, <1>6, <1>7, <1>8

\* A transaction that lists no remains, by a panel whose makers go on as they were.
LEMMA CommitKeeps ==
  ASSUME BackupInv, NEW list \in SUBSET Zips, Commit(list),
         \A z \in list \ reused : zips[z] # Broken, reused' = reused, before' = before,
         zips' \in [Zips -> {NoFile, Broken} \cup ZipFiles],
         \A z \in Zips : zips'[z] = zips[z] \/ zips'[z] = NoFile,
         maker' \in [Makers -> MakerStates],
         \A m \in Makers : maker'[m] = maker[m] \/ maker'[m].pc = "idle",
         restore' = IF logged /\ restore.pc \in {"begun", "saving"}
                    THEN [restore EXCEPT !.sure = FALSE] ELSE restore
  PROVE  BackupInv'
<1>1. BackupTypes /\ LogInv
  BY DEF BackupInv
<1>2. /\ latest' = latest + 1 /\ own' = latest + 1
      /\ content' = content /\ at' = at /\ mine' = mine /\ logged' = logged
      /\ wal' = IF logged THEN latest + 1 ELSE wal
      /\ listed' \in [0 .. latest' -> SUBSET Zips] /\ listed'[latest'] = list
      /\ \A c \in 0 .. latest : listed'[c] = listed[c]
      /\ OnDisk' = IF logged THEN latest + 1 ELSE OnDisk
      /\ OnDisk \in Nat => OnDisk' \in Nat /\ OnDisk' >= OnDisk
      /\ wal' \in (0 .. latest') \cup {NoFile}
      /\ logged' => mine' = at' /\ OnDisk' = own'
  BY <1>1, CommitFacts
<1>3. latest \in Nat /\ latest' \in Nat /\ latest' >= latest /\ at \in Nat /\ at' \in Nat /\ at' >= at
      /\ 0 .. latest' = (0 .. latest) \cup {latest'}
  BY <1>1, <1>2 DEF BackupTypes
<1>4. /\ FileData \subseteq FileData' /\ ZipFiles \subseteq ZipFiles'
      /\ MakerStates \subseteq MakerStates' /\ RestoreStates \subseteq RestoreStates'
  BY <1>1, <1>3, Wider
<1>5. Unsettled(restore', restore)
  BY <1>1, Unsettles DEF Unsettled
<1>6. restore' \in RestoreStates
  BY <1>1, <1>5 DEF Unsettled, BackupTypes
<1>7. BackupTypes'
  <2>1. content' \in [0 .. at' -> FileData']
    BY <1>1, <1>2, <1>4 DEF BackupTypes
  <2>2. own' \in 0 .. latest' /\ mine' \in 0 .. at' /\ logged' \in BOOLEAN
    BY <1>1, <1>2, <1>3 DEF BackupTypes
  <2>3. zips' \in [Zips -> {NoFile, Broken} \cup ZipFiles'] /\ maker' \in [Makers -> MakerStates']
    BY <1>4
  <2>4. restore' \in RestoreStates'
    BY <1>4, <1>6
  <2> QED BY <1>2, <1>3, <2>1, <2>2, <2>3, <2>4 DEF BackupTypes
<1>8. LogInv'
  <2>1. restore'.pc \in {"ready", "writing"} => ~logged' /\ restore'.data \in FileData'
    <3> SUFFICES ASSUME restore'.pc \in {"ready", "writing"}
                 PROVE  ~logged' /\ restore'.data \in FileData'
      OBVIOUS
    <3>1. restore' = restore
      BY <1>5 DEF Unsettled
    <3> QED BY <1>1, <1>2, <1>4, <3>1 DEF LogInv
  <2> QED BY <1>2, <2>1 DEF LogInv
<1>9. ListInv'
  <2> SUFFICES ASSUME NEW c \in 0 .. latest', NEW z \in listed'[c] \ reused' PROVE zips'[z] # Broken
    BY DEF ListInv
  <2>1. listed'[c] \subseteq Zips
    BY <1>2
  <2>2. CASE c \in 0 .. latest
    BY <1>2, <2>1, <2>2, NumbersAreNoFiles DEF BackupInv, ListInv
  <2>3. CASE c = latest'
    BY <1>2, <2>1, <2>3, NumbersAreNoFiles
  <2> QED BY <1>3, <2>2, <2>3
<1>10. MakersInv'
  <2> SUFFICES ASSUME NEW m \in Makers PROVE MakerSound(m)'
    BY DEF MakersInv
  <2>1. CASE maker'[m].pc = "idle"
    BY <2>1 DEF MakerSound, InHand
  <2>2. CASE maker'[m] = maker[m]
    <3>1. Doubted(maker'[m], maker[m])
      BY <2>2 DEF Doubted
    <3>2. maker[m].pc = "made" => maker[m].zip \in Zips
      BY <1>1 DEF BackupTypes, MakerStates
    <3>3. maker[m].pc = "made" => (zips'[maker[m].zip] = zips[maker[m].zip] \/ zips'[maker[m].zip] # Broken)
      BY <3>2, NumbersAreNoFiles
    <3> QED BY <1>2, <3>1, <3>3, MakerKept
  <2> QED BY <2>1, <2>2
<1>11. ZipsInv'
  BY DEF BackupInv, ZipsInv, Holds
<1>12. UndoInv'
  <2>1. restore.pc \in {"begun", "saving"} /\ restore'.sure => ~logged
    <3> SUFFICES ASSUME restore.pc \in {"begun", "saving"}, logged PROVE restore'.sure = FALSE
      BY <1>1 DEF BackupTypes
    <3>1. restore' = [restore EXCEPT !.sure = FALSE] /\ "sure" \in DOMAIN restore
      BY <1>1 DEF BackupTypes, RestoreStates
    <3> QED BY <3>1
  <2> QED BY <1>2, <1>5, <2>1, UndoKept
<1> QED BY <1>7, <1>8, <1>9, <1>10, <1>11, <1>12 DEF BackupInv

LEMMA PanelWorksKeeps == BackupInv /\ PanelWorks => BackupInv'
<1> SUFFICES ASSUME BackupInv, PanelWorks PROVE BackupInv'
  OBVIOUS
<1>1. BackupTypes
  BY DEF BackupInv
<1>2. listed[own] \in SUBSET Zips /\ \A z \in listed[own] \ reused : zips[z] # Broken
  BY <1>1 DEF BackupInv, ListInv, BackupTypes
<1> QED BY <1>1, <1>2, CommitKeeps DEF PanelWorks, BackupTypes

LEMMA DeleteBackupKeeps == \A z \in Zips : BackupInv /\ DeleteBackup(z) => BackupInv'
<1> SUFFICES ASSUME NEW z \in Zips, BackupInv, DeleteBackup(z) PROVE BackupInv'
  OBVIOUS
<1>1. BackupTypes
  BY DEF BackupInv
<1>2. listed[own] \in SUBSET Zips /\ \A k \in listed[own] \ reused : zips[k] # Broken
  BY <1>1 DEF BackupInv, ListInv, BackupTypes
<1>3. /\ zips' = [zips EXCEPT ![z] = NoFile] /\ maker' = maker /\ before' = before /\ reused' = reused
      /\ zips' \in [Zips -> {NoFile, Broken} \cup ZipFiles]
  BY <1>1 DEF DeleteBackup, BackupTypes
<1>4. CASE Commit(listed[own] \ {z})
  <2>1. latest' # latest
    BY <1>1, <1>4 DEF Commit, BackupTypes
  <2> QED BY <1>1, <1>2, <1>3, <1>4, <2>1, CommitKeeps DEF DeleteBackup, BackupTypes
<1>5. CASE UNCHANGED panelFiles
  <2>1. /\ content' = content /\ at' = at /\ wal' = wal /\ mine' = mine /\ own' = own /\ logged' = logged
        /\ latest' = latest /\ listed' = listed /\ restore' = restore
    BY <1>5 DEF panelFiles, DeleteBackup
  <2>2. OnDisk' = OnDisk
    BY <2>1 DEF OnDisk
  <2>3. BackupTypes'
    BY <1>1, <1>3, <2>1 DEF BackupTypes, FileData, ZipFiles, MakerStates, RestoreStates
  <2>4. LogInv' /\ UndoInv'
    BY <1>3, <2>1, <2>2 DEF BackupInv, LogInv, UndoInv, FileData
  <2>5. ListInv' /\ MakersInv' /\ ZipsInv'
    <3>1. \A k \in Zips : zips'[k] = zips[k] \/ zips'[k] = NoFile
      BY <1>1, <1>3 DEF BackupTypes
    <3>2. \A c \in 0 .. latest : listed[c] \subseteq Zips
      BY <1>1 DEF BackupTypes
    <3>3. \A m \in Makers : maker[m].pc = "made" => maker[m].zip \in Zips
      BY <1>1 DEF BackupTypes, MakerStates
    <3>4. ListInv'
      BY <1>3, <2>1, <3>1, <3>2, NumbersAreNoFiles DEF BackupInv, ListInv
    <3>5. MakersInv'
      BY <1>3, <2>2, <3>1, <3>3, NumbersAreNoFiles DEF BackupInv, MakersInv, MakerSound, Holds
    <3>6. ZipsInv'
      BY <3>1 DEF BackupInv, ZipsInv, Holds
    <3> QED BY <3>4, <3>5, <3>6
  <2> QED BY <2>3, <2>4, <2>5 DEF BackupInv
<1> QED BY <1>4, <1>5 DEF DeleteBackup

LEMMA RegisterBackupKeeps == \A m \in Makers : BackupInv /\ RegisterBackup(m) => BackupInv'
<1> SUFFICES ASSUME NEW m \in Makers, BackupInv, RegisterBackup(m) PROVE BackupInv'
  OBVIOUS
<1> DEFINE z == maker[m].zip
<1>1. BackupTypes
  BY DEF BackupInv
<1>2. maker[m].pc = "made" /\ z \in Zips
  BY <1>1 DEF RegisterBackup, At, BackupTypes, MakerStates
<1>3. /\ listed[own] \in SUBSET Zips /\ \A k \in listed[own] \ reused : zips[k] # Broken
      /\ z \notin reused => zips[z] # Broken
  BY <1>1, <1>2 DEF BackupInv, ListInv, BackupTypes, MakersInv, MakerSound
<1>4. /\ zips' = zips /\ before' = before /\ reused' = reused
      /\ maker' = [maker EXCEPT ![m] = [pc |-> "idle"]]
  BY DEF RegisterBackup, Makes, NoMaker
<1>5. maker' \in [Makers -> MakerStates] /\ zips' \in [Zips -> {NoFile, Broken} \cup ZipFiles]
  BY <1>1, <1>4 DEF BackupTypes, MakerStates
<1>6. \A k \in Makers : maker'[k] = maker[k] \/ maker'[k].pc = "idle"
  BY <1>1, <1>4 DEF BackupTypes
<1>7. CASE Commit(listed[own] \cup {z})
  <2>1. latest' # latest
    BY <1>1, <1>7 DEF Commit, BackupTypes
  <2>2. listed[own] \cup {z} \in SUBSET Zips /\ \A k \in (listed[own] \cup {z}) \ reused : zips[k] # Broken
    BY <1>2, <1>3
  <2>3. restore' = IF logged /\ restore.pc \in {"begun", "saving"}
                   THEN [restore EXCEPT !.sure = FALSE] ELSE restore
    BY <2>1 DEF RegisterBackup
  <2> HIDE DEF z
  <2> QED BY <1>4, <1>5, <1>6, <1>7, <2>2, <2>3, CommitKeeps
<1>8. CASE UNCHANGED panelFiles
  <2>1. /\ content' = content /\ at' = at /\ wal' = wal /\ mine' = mine /\ own' = own /\ logged' = logged
        /\ latest' = latest /\ listed' = listed /\ restore' = restore
    BY <1>8 DEF panelFiles, RegisterBackup
  <2>2. OnDisk' = OnDisk
    BY <2>1 DEF OnDisk
  <2>3. BackupTypes'
    BY <1>1, <1>4, <1>5, <2>1 DEF BackupTypes, FileData, ZipFiles, MakerStates, RestoreStates
  <2>4. LogInv' /\ UndoInv' /\ ListInv' /\ ZipsInv'
    BY <1>4, <2>1, <2>2 DEF BackupInv, LogInv, UndoInv, FileData, ListInv, ZipsInv, Holds
  <2>5. MakersInv'
    BY <1>4, <1>6, <2>2 DEF BackupInv, MakersInv, MakerSound, InHand, Holds
  <2> QED BY <2>3, <2>4, <2>5 DEF BackupInv
<1> QED BY <1>7, <1>8 DEF RegisterBackup

\* Steps that leave the transactions, the files and the names as they are.
LEMMA SameTypes ==
  ASSUME latest' = latest, at' = at
  PROVE  /\ FileData' = FileData /\ ZipFiles' = ZipFiles
         /\ MakerStates' = MakerStates /\ RestoreStates' = RestoreStates
BY DEF FileData, ZipFiles, MakerStates, RestoreStates

\* The makers when those of them that a step touches only become unreliable.
LEMMA MakersKept ==
  ASSUME BackupInv, reused' = reused, zips' = zips,
         \A m \in Makers : Doubted(maker'[m], maker[m]),
         \A m \in Makers : maker[m].pc = "opened" /\ maker'[m].sure /\ OnDisk \in Nat =>
                             (OnDisk' \in Nat /\ OnDisk' >= OnDisk)
  PROVE  MakersInv'
BY MakerKept DEF MakersInv

LEMMA DoubtedTypes ==
  ASSUME BackupTypes, maker' = [m \in Makers |-> maker'[m]], \A m \in Makers : Doubted(maker'[m], maker[m])
  PROVE  maker' \in [Makers -> MakerStates]
<1>1. \A m \in Makers : maker'[m] \in MakerStates
  BY DEF Doubted, BackupTypes
<1> QED BY <1>1

LEMMA AutoCheckpointKeeps == BackupInv /\ AutoCheckpoint => BackupInv'
<1> SUFFICES ASSUME BackupInv, AutoCheckpoint PROVE BackupInv'
  OBVIOUS
<1>1. BackupTypes /\ LogInv
  BY DEF BackupInv
<1>2. /\ at' = at /\ wal' = wal /\ mine' = mine /\ own' = own /\ logged' = logged /\ latest' = latest
      /\ listed' = listed /\ zips' = zips /\ before' = before /\ reused' = reused
      /\ content[mine] # own /\ content' = [content EXCEPT ![mine] = own]
      /\ maker' = [m \in Makers |-> Disturbed(IF Spoils THEN Overtaken[m] ELSE maker[m], mine, TRUE)]
      /\ restore' = IF Spoils /\ restore.pc = "begun" THEN [restore EXCEPT !.sure = FALSE]
                    ELSE Disturbed(restore, mine, TRUE)
  BY DEF AutoCheckpoint
<1>3. \A m \in Makers : Doubted(maker'[m], maker[m])
  BY <1>1, <1>2, Disturbs
<1>4. Unsettled(restore', restore)
  BY <1>1, <1>2, Unsettles
<1>5. own \in FileData
  BY <1>1 DEF BackupTypes, FileData
<1>6. BackupTypes'
  <2>1. content' \in [0 .. at -> FileData]
    BY <1>1, <1>2, <1>5 DEF BackupTypes
  <2>2. maker' \in [Makers -> MakerStates]
    BY <1>1, <1>2, <1>3, DoubtedTypes
  <2>3. restore' \in RestoreStates
    BY <1>1, <1>4 DEF Unsettled, BackupTypes
  <2> QED BY <1>1, <1>2, <2>1, <2>2, <2>3, SameTypes DEF BackupTypes
<1>7. ~Spoils => OnDisk' = OnDisk
  <2> SUFFICES ASSUME ~Spoils PROVE OnDisk' = OnDisk
    OBVIOUS
  <2>1. CASE mine = at
    <3>1. OnDisk = own /\ content[at] # own
      BY <1>1, <1>2, <2>1 DEF Spoils, LogInv
    <3> QED BY <1>2, <3>1 DEF OnDisk, Read
  <2>2. CASE mine # at
    <3>1. content'[at] = content[at]
      BY <1>1, <1>2, <2>2 DEF BackupTypes
    <3> QED BY <1>2, <3>1 DEF OnDisk, Read
  <2> QED BY <2>1, <2>2
<1>8. LogInv'
  <2>1. logged' => mine' = at' /\ OnDisk' = own'
    BY <1>1, <1>2, <1>7 DEF LogInv, Spoils
  <2>2. restore'.pc \in {"ready", "writing"} => restore' = restore
    BY <1>4 DEF Unsettled
  <2> QED BY <1>1, <1>2, <2>1, <2>2, SameTypes DEF LogInv
<1>9. MakersInv'
  <2>1. ASSUME NEW m \in Makers, maker[m].pc = "opened", maker'[m].sure, OnDisk \in Nat
        PROVE  OnDisk' \in Nat /\ OnDisk' >= OnDisk
    <3>1. CASE Spoils
      <4>1. Overtaken[m].sure = FALSE /\ Overtaken[m].pc = "opened"
        BY <1>1, <2>1, Disturbs DEF InHand, Doubted
      <4>2. maker'[m] = Overtaken[m]
        BY <1>2, <3>1, <4>1 DEF Disturbed
      <4> QED BY <2>1, <4>1, <4>2
    <3>2. CASE ~Spoils
      BY <1>7, <2>1, <3>2
    <3> QED BY <3>1, <3>2
  <2> QED BY <1>2, <1>3, <2>1, MakersKept
<1>10. UndoInv'
  <2> SUFFICES ASSUME restore.pc \in {"begun", "saving"}, restore'.sure PROVE ~Spoils
    BY <1>2, <1>4, <1>7, UndoKept
  <2>1. CASE restore.pc = "begun"
    <3> SUFFICES ASSUME Spoils PROVE FALSE
      OBVIOUS
    <3>1. "sure" \in DOMAIN restore
      BY <1>1, <2>1 DEF BackupTypes, RestoreStates
    <3>2. restore'.sure = FALSE
      BY <1>2, <2>1, <3>1
    <3> QED BY <3>2
  <2>2. CASE restore.pc = "saving"
    <3> SUFFICES ASSUME Spoils PROVE FALSE
      OBVIOUS
    <3>1. restore.file = mine
      BY <2>2 DEF BackupInv, UndoInv, Spoils
    <3>2. restore'.sure = FALSE
      BY <1>1, <1>2, <2>2, <3>1, Unsettles
    <3> QED BY <3>2
  <2> QED BY <2>1, <2>2
<1>11. ListInv' /\ ZipsInv'
  BY <1>2 DEF BackupInv, ListInv, ZipsInv, Holds
<1> QED BY <1>6, <1>8, <1>9, <1>10, <1>11 DEF BackupInv

LEMMA RestartKeeps == BackupInv /\ Restart => BackupInv'
<1> SUFFICES ASSUME BackupInv, Restart PROVE BackupInv'
  OBVIOUS
<1>1. BackupTypes
  BY DEF BackupInv
<1>2. /\ at' = at /\ wal' = wal /\ content' = content /\ latest' = latest /\ listed' = listed
      /\ zips' = zips /\ before' = before /\ reused' = reused
      /\ mine' = at /\ own' = OnDisk /\ logged' = TRUE
      /\ maker' = [m \in Makers |-> [pc |-> "idle"]]
      /\ restore' = IF restore.pc = "done" THEN restore ELSE [pc |-> "idle", sure |-> TRUE]
  BY DEF Restart, NoMaker, NoRestore
<1>3. OnDisk' = OnDisk /\ OnDisk \in 0 .. latest
  BY <1>1, <1>2, DiskFacts DEF Restart, OnDisk
<1>4. BackupTypes'
  <2>1. maker' \in [Makers -> MakerStates] /\ restore' \in RestoreStates
    BY <1>1, <1>2 DEF MakerStates, RestoreStates, BackupTypes
  <2> QED BY <1>1, <1>2, <1>3, <2>1, SameTypes DEF BackupTypes
<1>5. LogInv' /\ UndoInv'
  BY <1>2, <1>3 DEF BackupInv, LogInv, UndoInv
<1>6. ListInv' /\ ZipsInv' /\ MakersInv'
  BY <1>2 DEF BackupInv, ListInv, ZipsInv, Holds, MakersInv, MakerSound, InHand
<1> QED BY <1>4, <1>5, <1>6 DEF BackupInv

\* Steps of the makers, which touch neither the database nor the restore.
LEMMA BesideDatabase ==
  ASSUME BackupInv, UNCHANGED panelFiles, UNCHANGED <<restore, before>>,
         maker' \in [Makers -> MakerStates], zips' \in [Zips -> {NoFile, Broken} \cup ZipFiles]
  PROVE  BackupTypes' /\ LogInv' /\ UndoInv' /\ OnDisk' = OnDisk /\ listed' = listed /\ latest' = latest
<1>1. /\ content' = content /\ at' = at /\ wal' = wal /\ mine' = mine /\ own' = own /\ logged' = logged
      /\ latest' = latest /\ listed' = listed /\ restore' = restore /\ before' = before
  BY DEF panelFiles
<1>2. OnDisk' = OnDisk
  BY <1>1 DEF OnDisk
<1>3. BackupTypes'
  BY <1>1, SameTypes DEF BackupInv, BackupTypes
<1>4. LogInv' /\ UndoInv'
  BY <1>1, <1>2, SameTypes DEF BackupInv, LogInv, UndoInv
<1> QED BY <1>1, <1>2, <1>3, <1>4

LEMMA MakerShapes ==
  ASSUME BackupTypes, NEW m \in Makers
  PROVE  /\ maker[m].pc # "idle" => maker[m].zip \in Zips
         /\ maker[m].pc = "opened" =>
              maker[m] \in [pc : {"opened"}, zip : Zips, mixed : BOOLEAN, asked : FileData, sure : BOOLEAN]
         /\ maker[m].pc \in {"copying", "copied"} =>
              maker[m] \in [pc : {"copying", "copied"}, zip : Zips, mixed : BOOLEAN, asked : FileData,
                            file : 0 .. at, data : FileData, sure : BOOLEAN]
         /\ maker[m].pc \in {"idle", "made"} \cup InHand
BY DEF BackupTypes, MakerStates, InHand

LEMMA OpenZipKeeps == \A m \in Makers, z \in Zips : BackupInv /\ OpenZip(m, z) => BackupInv'
<1> SUFFICES ASSUME NEW m \in Makers, NEW z \in Zips, BackupInv, OpenZip(m, z) PROVE BackupInv'
  OBVIOUS
<1> DEFINE named == {k \in Makers \ {m} : ~At(k, "idle") /\ maker[k].zip = z}
           also == {k \in named : ~At(k, "made")}
<1>1. BackupTypes
  BY DEF BackupInv
<1>2. /\ maker[m].pc = "idle" /\ zips' = [zips EXCEPT ![z] = Broken]
      /\ reused' = IF zips[z] # NoFile \/ named # {} \/ z \in UNION {listed[c] : c \in DOMAIN listed}
                   THEN reused \cup {z} ELSE reused
      /\ UNCHANGED panelFiles /\ UNCHANGED <<restore, before>>
  BY DEF OpenZip, At
<1>3. maker' = [k \in Makers |->
        IF k = m THEN [pc |-> "opened", zip |-> z, mixed |-> also # {}, asked |-> OnDisk,
                       sure |-> OnDisk # Torn]
        ELSE IF k \in also THEN [maker[k] EXCEPT !.mixed = TRUE] ELSE maker[k]]
  BY DEF OpenZip
<1>4. \A k \in also : k \in Makers /\ maker[k].pc \in InHand /\ maker[k].zip = z
  BY <1>1, MakerShapes DEF At
<1>5. also # {} => z \in reused'
  BY <1>2
<1>6. /\ maker'[m].pc = "opened" /\ maker'[m].zip = z /\ maker'[m].asked = OnDisk
      /\ maker'[m].mixed => also # {}
      /\ maker'[m].sure => OnDisk # Torn
  BY <1>3
<1>7. ASSUME NEW k \in Makers, k \in also
      PROVE  /\ maker'[k] \in MakerStates /\ maker'[k].pc = maker[k].pc /\ maker'[k].zip = z
             /\ maker'[k].asked = maker[k].asked /\ maker'[k].sure = maker[k].sure
             /\ maker[k].pc \in {"copying", "copied"} => maker'[k].data = maker[k].data
  <2>1. maker'[k] = [maker[k] EXCEPT !.mixed = TRUE] /\ maker[k].zip = z /\ maker[k].pc \in InHand
    BY <1>3, <1>4, <1>7
  <2>2. CASE maker[k].pc = "opened"
    BY <1>1, <2>1, <2>2, MakerShapes DEF MakerStates
  <2>3. CASE maker[k].pc \in {"copying", "copied"}
    BY <1>1, <2>1, <2>3, MakerShapes DEF MakerStates
  <2> QED BY <2>1, <2>2, <2>3 DEF InHand
<1>8. \A k \in Makers : k # m /\ k \notin also => maker'[k] = maker[k]
  BY <1>3
<1>9. maker' \in [Makers -> MakerStates]
  <2>1. maker'[m] \in MakerStates
    <3>1. OnDisk \in FileData /\ (also # {}) \in BOOLEAN /\ (OnDisk # Torn) \in BOOLEAN
      BY <1>1, DiskFacts
    <3>2. maker'[m] = [pc |-> "opened", zip |-> z, mixed |-> also # {}, asked |-> OnDisk,
                       sure |-> OnDisk # Torn]
      BY <1>3
    <3> HIDE DEF also
    <3> QED BY <3>1, <3>2 DEF MakerStates
  <2>2. \A k \in Makers : maker'[k] \in MakerStates
    BY <1>1, <1>7, <1>8, <2>1 DEF BackupTypes
  <2> QED BY <1>3, <2>2
<1>10. zips' \in [Zips -> {NoFile, Broken} \cup ZipFiles]
  BY <1>1, <1>2 DEF BackupTypes
<1>11. BackupTypes' /\ LogInv' /\ UndoInv' /\ OnDisk' = OnDisk /\ listed' = listed /\ latest' = latest
  BY <1>2, <1>9, <1>10, BesideDatabase
<1>12. reused \subseteq reused' /\ \A k \in Zips : k # z => zips'[k] = zips[k]
  BY <1>1, <1>2 DEF BackupTypes
<1>13. ListInv'
  <2> SUFFICES ASSUME NEW c \in 0 .. latest, NEW k \in listed[c] \ reused' PROVE zips'[k] # Broken
    BY <1>11 DEF ListInv
  <2>1. c \in DOMAIN listed /\ listed[c] \subseteq Zips
    BY <1>1 DEF BackupTypes
  <2>2. k # z
    BY <1>2, <2>1
  <2> QED BY <1>12, <2>1, <2>2 DEF BackupInv, ListInv
<1>14. MakersInv'
  <2> SUFFICES ASSUME NEW k \in Makers PROVE MakerSound(k)'
    BY DEF MakersInv
  <2>1. CASE k = m
    <3>1. OnDisk # Torn => OnDisk \in Nat
      BY <1>1, DiskFacts
    <3> HIDE DEF also
    <3> QED BY <1>5, <1>6, <1>11, <2>1, <3>1 DEF MakerSound, Holds
  <2>2. CASE k \in also
    <3>1. MakerSound(k) /\ maker[k].pc \in InHand
      BY <1>4, <2>2 DEF BackupInv, MakersInv
    <3>2. z \in reused'
      BY <1>5, <2>2
    <3> HIDE DEF also
    <3> QED BY <1>7, <1>11, <2>2, <3>1, <3>2 DEF MakerSound, Holds, InHand
  <2>3. CASE k # m /\ k \notin also
    <3>1. Doubted(maker'[k], maker[k])
      BY <1>8, <2>3 DEF Doubted
    <3>2. maker[k].pc = "made" /\ maker[k].zip \notin reused' => zips'[maker[k].zip] = zips[maker[k].zip]
      <4> SUFFICES ASSUME maker[k].pc = "made", maker[k].zip \notin reused'
                   PROVE  maker[k].zip \in Zips /\ maker[k].zip # z
        BY <1>12
      <4>1. maker[k].zip = z => k \in named
        BY <2>3 DEF At
      <4> QED BY <1>1, <1>2, <4>1, MakerShapes
    <3> QED BY <1>11, <1>12, <3>1, <3>2, MakerKept
  <2> QED BY <2>1, <2>2, <2>3
<1>15. ZipsInv'
  BY <1>2, <1>12 DEF BackupInv, BackupTypes, ZipsInv, Holds
<1> QED BY <1>11, <1>13, <1>14, <1>15 DEF BackupInv

\* A checkpoint moves what is on disk, or changes nothing.
LEMMA EmptiedFacts ==
  ASSUME BackupTypes, NEW works \in BOOLEAN, UNCHANGED <<at, latest>>,
         IF works THEN Emptied ELSE UNCHANGED <<content, wal>>
  PROVE  /\ content' \in [0 .. at -> FileData] /\ wal' \in (0 .. latest) \cup {NoFile}
         /\ OnDisk' = OnDisk /\ content'[at] \in FileData
         /\ works => content'[at] = OnDisk /\ wal' = NoFile
<1>1. CASE works
  <2>1. content' = [content EXCEPT ![at] = OnDisk] /\ wal' = NoFile
    BY <1>1 DEF Emptied
  <2>2. content' \in [0 .. at -> FileData] /\ content'[at] = OnDisk
    BY <2>1, DiskFacts DEF BackupTypes
  <2>3. OnDisk' = OnDisk
    BY <2>1, <2>2 DEF OnDisk, Read
  <2> QED BY <2>1, <2>2, <2>3, DiskFacts DEF BackupTypes
<1>2. CASE ~works
  BY <1>2, DiskFacts DEF BackupTypes, OnDisk, Read
<1> QED BY <1>1, <1>2

LEMMA CopyingState ==
  ASSUME NEW zip \in Zips, NEW mixed \in BOOLEAN, NEW asked \in FileData, NEW file \in 0 .. at,
         NEW data \in FileData, NEW sure \in BOOLEAN
  PROVE  [pc |-> "copying", zip |-> zip, mixed |-> mixed, asked |-> asked, file |-> file,
          data |-> data, sure |-> sure] \in MakerStates
BY DEF MakerStates

LEMMA writeSQLiteEntryKeeps == \A m \in Makers : BackupInv /\ writeSQLiteEntry(m) => BackupInv'
<1> SUFFICES ASSUME NEW m \in Makers, BackupInv, writeSQLiteEntry(m) PROVE BackupInv'
  OBVIOUS
<1>1. BackupTypes /\ LogInv
  BY DEF BackupInv
<1>2. PICK works \in BOOLEAN :
        /\ maker[m].pc = "opened"
        /\ IF works THEN Emptied ELSE UNCHANGED <<content, wal>>
        /\ maker' = [k \in Makers |->
             IF k = m THEN [pc |-> "copying", zip |-> maker[m].zip, mixed |-> maker[m].mixed,
                            asked |-> maker[m].asked, file |-> at, data |-> content'[at],
                            sure |-> maker[m].sure /\ works]
             ELSE Disturbed(maker[k], at, content'[at] # content[at])]
        /\ restore' = Disturbed(restore, at, wal' # wal)
        /\ UNCHANGED <<at, mine, own, logged, latest, listed, zips, before, reused, restores>>
  BY DEF writeSQLiteEntry, At
<1>3. /\ content' \in [0 .. at -> FileData] /\ wal' \in (0 .. latest) \cup {NoFile}
      /\ OnDisk' = OnDisk /\ content'[at] \in FileData
      /\ works => content'[at] = OnDisk /\ wal' = NoFile
  BY <1>1, <1>2, EmptiedFacts
<1>4. \A k \in Makers : k # m => Doubted(maker'[k], maker[k])
  BY <1>1, <1>2, Disturbs
<1>5. Unsettled(restore', restore)
  BY <1>1, <1>2, Unsettles
<1>6. maker[m] \in [pc : {"opened"}, zip : Zips, mixed : BOOLEAN, asked : FileData, sure : BOOLEAN]
  BY <1>1, <1>2, MakerShapes
<1>7. /\ maker'[m] \in MakerStates /\ maker'[m].pc = "copying" /\ maker'[m].zip = maker[m].zip
      /\ maker'[m].mixed = maker[m].mixed /\ maker'[m].asked = maker[m].asked
      /\ maker'[m].data = content'[at]
      /\ maker'[m].sure => maker[m].sure /\ works
  <2> DEFINE surely == maker[m].sure /\ works
  <2>1. maker'[m] = [pc |-> "copying", zip |-> maker[m].zip, mixed |-> maker[m].mixed,
                     asked |-> maker[m].asked, file |-> at, data |-> content'[at], sure |-> surely]
    BY <1>2
  <2>2. at \in 0 .. at /\ (maker[m].sure /\ works) \in BOOLEAN
    BY <1>1 DEF BackupTypes
  <2>3. maker'[m] \in MakerStates
    <3>1. surely \in BOOLEAN
      OBVIOUS
    <3>2. maker'[m] = [pc |-> "copying", zip |-> maker[m].zip, mixed |-> maker[m].mixed,
                       asked |-> maker[m].asked, file |-> at, data |-> content'[at], sure |-> surely]
      BY <2>1
    <3> HIDE DEF surely
    <3>3. maker[m].zip \in Zips /\ maker[m].mixed \in BOOLEAN /\ maker[m].asked \in FileData
      BY <1>6
    <3> QED BY <1>3, <2>2, <3>1, <3>2, <3>3, CopyingState
  <2>4. maker'[m].sure => maker[m].sure /\ works
    <3>1. surely => maker[m].sure /\ works
      OBVIOUS
    <3> HIDE DEF surely
    <3>2. maker'[m].sure = surely
      BY <2>1
    <3> QED BY <3>1, <3>2
  <2>5. /\ maker'[m].pc = "copying" /\ maker'[m].zip = maker[m].zip /\ maker'[m].mixed = maker[m].mixed
        /\ maker'[m].asked = maker[m].asked /\ maker'[m].data = content'[at]
    BY <2>1
  <2> QED BY <2>3, <2>4, <2>5
<1>8. maker' \in [Makers -> MakerStates]
  <2>1. \A k \in Makers : maker'[k] \in MakerStates
    BY <1>1, <1>4, <1>7 DEF Doubted, BackupTypes
  <2> QED BY <1>2, <2>1
<1>9. BackupTypes'
  <2>1. restore' \in RestoreStates
    BY <1>1, <1>5 DEF Unsettled, BackupTypes
  <2> QED BY <1>1, <1>2, <1>3, <1>8, <2>1, SameTypes DEF BackupTypes
<1>10. LogInv'
  <2>1. restore'.pc \in {"ready", "writing"} => restore' = restore
    BY <1>5 DEF Unsettled
  <2> QED BY <1>1, <1>2, <1>3, <2>1, SameTypes DEF LogInv
<1>11. MakersInv'
  <2> SUFFICES ASSUME NEW k \in Makers PROVE MakerSound(k)'
    BY DEF MakersInv
  <2>1. CASE k = m
    <3>1. MakerSound(m)
      BY DEF BackupInv, MakersInv
    <3>2. maker'[m].sure => Holds(maker'[m], maker'[m].data)
      BY <1>2, <1>3, <1>7, <3>1 DEF MakerSound, Holds
    <3> QED BY <1>2, <1>7, <2>1, <3>1, <3>2 DEF MakerSound, InHand
  <2>2. CASE k # m
    BY <1>2, <1>3, <1>4, <2>2, MakerKept
  <2> QED BY <2>1, <2>2
<1>12. ListInv' /\ ZipsInv'
  BY <1>2 DEF BackupInv, ListInv, ZipsInv, Holds
<1>13. UndoInv'
  <2> SUFFICES ASSUME restore.pc \in {"begun", "saving"}, restore'.sure
               PROVE  wal' = wal \/ restore.pc = "begun"
    BY <1>2, <1>3, <1>5, UndoKept
  <2> SUFFICES ASSUME restore.pc = "saving", wal' # wal PROVE FALSE
    OBVIOUS
  <2>1. restore.file = at
    BY DEF BackupInv, UndoInv
  <2>2. restore'.sure = FALSE
    BY <1>1, <1>2, <2>1, Unsettles
  <2> QED BY <2>2
<1> QED BY <1>9, <1>10, <1>11, <1>12, <1>13 DEF BackupInv

LEMMA CopiedKeeps == \A m \in Makers : BackupInv /\ Copied(m) => BackupInv'
<1> SUFFICES ASSUME NEW m \in Makers, BackupInv, Copied(m) PROVE BackupInv'
  OBVIOUS
<1>1. BackupTypes
  BY DEF BackupInv
<1>2. /\ maker[m].pc = "copying" /\ maker' = [maker EXCEPT ![m] = [maker[m] EXCEPT !.pc = "copied"]]
      /\ UNCHANGED panelFiles /\ zips' = zips /\ UNCHANGED <<restore, before>> /\ reused' = reused
  BY DEF Copied, At, Makes
<1>3. maker[m] \in [pc : {"copying", "copied"}, zip : Zips, mixed : BOOLEAN, asked : FileData,
                    file : 0 .. at, data : FileData, sure : BOOLEAN]
  BY <1>1, <1>2, MakerShapes
<1>4. /\ maker'[m] = [maker[m] EXCEPT !.pc = "copied"] /\ \A k \in Makers : k # m => maker'[k] = maker[k]
  BY <1>1, <1>2 DEF BackupTypes
<1>5. /\ maker'[m].pc = "copied" /\ maker'[m].zip = maker[m].zip /\ maker'[m].mixed = maker[m].mixed
      /\ maker'[m].asked = maker[m].asked /\ maker'[m].data = maker[m].data /\ maker'[m].sure = maker[m].sure
      /\ maker'[m] \in MakerStates
  BY <1>3, <1>4 DEF MakerStates
<1>6. maker' \in [Makers -> MakerStates] /\ zips' \in [Zips -> {NoFile, Broken} \cup ZipFiles]
  BY <1>1, <1>2, <1>5 DEF BackupTypes
<1>7. BackupTypes' /\ LogInv' /\ UndoInv' /\ OnDisk' = OnDisk /\ listed' = listed /\ latest' = latest
  BY <1>2, <1>6, BesideDatabase
<1>8. MakersInv'
  <2> SUFFICES ASSUME NEW k \in Makers PROVE MakerSound(k)'
    BY DEF MakersInv
  <2>1. MakerSound(k)
    BY DEF BackupInv, MakersInv
  <2>2. CASE k = m
    BY <1>2, <1>5, <2>1, <2>2 DEF MakerSound, Holds, InHand
  <2>3. CASE k # m
    BY <1>2, <1>4, <1>7, <2>1, <2>3 DEF MakerSound, Holds
  <2> QED BY <2>2, <2>3
<1>9. ListInv' /\ ZipsInv'
  BY <1>2, <1>7 DEF BackupInv, ListInv, ZipsInv, Holds
<1> QED BY <1>7, <1>8, <1>9 DEF BackupInv

\* Files that are written or removed while nobody else is, or will be, listing them as whole.
LEMMA ZipChanges ==
  ASSUME BackupInv, NEW m \in Makers, NEW z \in Zips, NEW file, NEW state,
         UNCHANGED panelFiles, UNCHANGED <<restore, before>>, reused' = reused,
         zips' = [zips EXCEPT ![z] = file], maker' = [maker EXCEPT ![m] = state],
         file \in {NoFile, Broken} \cup ZipFiles, file = Broken => z \in reused,
         file \notin {NoFile, Broken} /\ file.sure => Holds(file, file.data),
         state \in [pc : {"idle"}] \/ (state \in [pc : {"made"}, zip : {z}])
  PROVE  BackupInv'
<1>1. BackupTypes
  BY DEF BackupInv
<1>2. /\ zips'[z] = file /\ \A k \in Zips : k # z => zips'[k] = zips[k]
      /\ maker'[m] = state /\ \A k \in Makers : k # m => maker'[k] = maker[k]
  BY <1>1 DEF BackupTypes
<1>3. zips' \in [Zips -> {NoFile, Broken} \cup ZipFiles] /\ maker' \in [Makers -> MakerStates]
  <2>1. state \in MakerStates
    BY DEF MakerStates
  <2> QED BY <1>1, <2>1 DEF BackupTypes
<1>4. BackupTypes' /\ LogInv' /\ UndoInv' /\ OnDisk' = OnDisk /\ listed' = listed /\ latest' = latest
  BY <1>3, BesideDatabase
<1>5. \A k \in Zips : k \notin reused /\ zips[k] # Broken => zips'[k] # Broken
  BY <1>2
<1>6. ListInv'
  <2>1. \A c \in 0 .. latest : listed[c] \subseteq Zips
    BY <1>1 DEF BackupTypes
  <2> QED BY <1>4, <1>5, <2>1 DEF BackupInv, ListInv
<1>7. MakersInv'
  <2> SUFFICES ASSUME NEW k \in Makers PROVE MakerSound(k)'
    BY DEF MakersInv
  <2>1. MakerSound(k)
    BY DEF BackupInv, MakersInv
  <2>2. CASE k = m
    BY <1>2, <2>2 DEF MakerSound, InHand
  <2>3. CASE k # m
    <3>1. maker[k].pc = "made" => maker[k].zip \in Zips
      BY <1>1, MakerShapes
    <3> QED BY <1>2, <1>4, <1>5, <2>1, <2>3, <3>1 DEF MakerSound, Holds
  <2> QED BY <2>2, <2>3
<1>8. ZipsInv'
  <2> SUFFICES ASSUME NEW k \in Zips, zips'[k] \notin {NoFile, Broken}, zips'[k].sure
               PROVE  Holds(zips'[k], zips'[k].data)
    BY DEF ZipsInv, Holds
  <2>1. CASE k = z
    BY <1>2, <2>1
  <2>2. CASE k # z
    BY <1>2, <2>2 DEF BackupInv, ZipsInv
  <2> QED BY <2>1, <2>2
<1> QED BY <1>4, <1>6, <1>7, <1>8 DEF BackupInv

LEMMA RemoveZipKeeps == \A m \in Makers : BackupInv /\ RemoveZip(m) => BackupInv'
<1> SUFFICES ASSUME NEW m \in Makers, BackupInv, RemoveZip(m) PROVE BackupInv'
  OBVIOUS
<1>1. maker[m].zip \in Zips
  BY MakerShapes DEF BackupInv, RemoveZip, At
<1>2. NoFile # Broken
  BY BackupValues
<1> QED BY <1>1, <1>2, ZipChanges DEF RemoveZip, Makes, NoMaker

LEMMA CloseZipKeeps == \A m \in Makers : BackupInv /\ CloseZip(m) => BackupInv'
<1> SUFFICES ASSUME NEW m \in Makers, BackupInv, CloseZip(m) PROVE BackupInv'
  OBVIOUS
<1> DEFINE z == maker[m].zip
           whole == [data |-> maker[m].data, asked |-> maker[m].asked, sure |-> maker[m].sure]
<1>1. BackupTypes /\ MakerSound(m)
  BY DEF BackupInv, MakersInv
<1>2. /\ maker[m].pc = "copied" /\ UNCHANGED panelFiles /\ UNCHANGED <<restore, before>>
      /\ reused' = reused
  BY DEF CloseZip, At
<1>3. /\ z \in Zips
      /\ maker[m] \in [pc : {"copying", "copied"}, zip : Zips, mixed : BOOLEAN, asked : FileData,
                       file : 0 .. at, data : FileData, sure : BOOLEAN]
  BY <1>1, <1>2, MakerShapes
<1>4. CASE zips[z] = NoFile
  <2>1. maker' = [maker EXCEPT ![m] = [pc |-> "idle"]] /\ zips' = zips
    BY <1>4 DEF CloseZip, Makes, NoMaker
  <2>2. zips' = [zips EXCEPT ![z] = NoFile]
    BY <1>1, <1>3, <1>4, <2>1 DEF BackupTypes
  <2>3. NoFile # Broken /\ [pc |-> "idle"] \in [pc : {"idle"}]
    BY BackupValues
  <2> HIDE DEF z
  <2> QED BY <1>2, <1>3, <2>1, <2>2, <2>3, ZipChanges
<1>5. CASE zips[z] # NoFile
  <2>1. /\ maker' = [maker EXCEPT ![m] = [pc |-> "made", zip |-> z]]
        /\ zips' = [zips EXCEPT ![z] = IF maker[m].mixed THEN Broken ELSE whole]
    BY <1>5 DEF CloseZip, Makes
  <2>2. CASE maker[m].mixed
    <3>1. z \in reused
      BY <1>1, <1>2, <2>2 DEF MakerSound, InHand
    <3>2. zips' = [zips EXCEPT ![z] = Broken] /\ [pc |-> "made", zip |-> z] \in [pc : {"made"}, zip : {z}]
      BY <2>1, <2>2
    <3> HIDE DEF z
    <3> QED BY ZenonT(30), <1>2, <1>3, <2>1, <3>1, <3>2, ZipChanges
  <2>3. CASE ~maker[m].mixed
    <3>1. zips' = [zips EXCEPT ![z] = whole] /\ [pc |-> "made", zip |-> z] \in [pc : {"made"}, zip : {z}]
      BY <2>1, <2>3
    <3>2. whole \in ZipFiles
      BY <1>3 DEF ZipFiles
    <3>3. whole # Broken
      <4>1. whole \in [data : Nat \cup {Torn}, asked : Nat \cup {Torn}, sure : BOOLEAN]
        BY <1>1, <3>2 DEF ZipFiles, FileData, BackupTypes
      <4> QED BY <4>1, BackupValues
    <3>4. whole.sure => Holds(whole, whole.data)
      BY <1>1, <1>2 DEF MakerSound, Holds
    <3> DEFINE made == [pc |-> "made", zip |-> z]
    <3>5. maker' = [maker EXCEPT ![m] = made] /\ made \in [pc : {"made"}, zip : {z}]
      BY <2>1
    <3> HIDE DEF z, whole, made
    <3>6. whole = Broken => z \in reused
      BY <3>3
    <3>7. whole \in {NoFile, Broken} \cup ZipFiles
      BY <3>2
    <3> QED BY <1>2, <1>3, <3>1, <3>4, <3>5, <3>6, <3>7, ZipChanges
  <2> QED BY <2>2, <2>3
<1> QED BY <1>4, <1>5

\* Steps of the restore that leave the panel, the makers and the backups alone.
LEMMA RestoreSteps ==
  ASSUME BackupInv, UNCHANGED <<at, mine, own, logged, latest, listed, zips, reused, maker>>,
         content' \in [0 .. at -> FileData], wal' \in (0 .. latest) \cup {NoFile}, OnDisk' = OnDisk,
         restore' \in RestoreStates, restore'.pc \notin {"ready", "writing"}
  PROVE  BackupTypes' /\ LogInv' /\ ListInv' /\ MakersInv' /\ ZipsInv'
<1>1. BackupTypes'
  BY SameTypes DEF BackupInv, BackupTypes
<1>2. LogInv' /\ ListInv' /\ MakersInv' /\ ZipsInv'
  BY DEF BackupInv, LogInv, ListInv, MakersInv, MakerSound, ZipsInv, Holds
<1> QED BY <1>1, <1>2

LEMMA RestoreShapes ==
  ASSUME BackupTypes
  PROVE  /\ restore.pc # "idle" =>
              restore \in [pc : {"begun", "saving", "saved", "ready", "writing", "done"}, zip : Zips,
                           data : FileData \cup {NoFile}, file : 0 .. at, old : FileData, sure : BOOLEAN]
         /\ [pc |-> "idle", sure |-> TRUE] \in RestoreStates
BY DEF BackupTypes, RestoreStates

LEMMA BeginRestoreKeeps == \A z \in Zips : BackupInv /\ BeginRestore(z) => BackupInv'
<1> SUFFICES ASSUME NEW z \in Zips, BackupInv, BeginRestore(z) PROVE BackupInv'
  OBVIOUS
<1>1. BackupTypes
  BY DEF BackupInv
<1>2. /\ UNCHANGED <<at, mine, own, logged, latest, listed, zips, reused, maker, content, wal, before>>
      /\ restore' = [pc |-> "begun", zip |-> z, data |-> NoFile, file |-> at, old |-> OnDisk, sure |-> TRUE]
  BY DEF BeginRestore, Stays
<1>3. OnDisk' = OnDisk
  BY <1>2 DEF OnDisk
<1>4. restore' \in RestoreStates
  <2>1. OnDisk \in FileData /\ at \in 0 .. at
    BY <1>1, DiskFacts DEF BackupTypes
  <2> QED BY <1>2, <2>1 DEF RestoreStates
<1>5. BackupTypes' /\ LogInv' /\ ListInv' /\ MakersInv' /\ ZipsInv'
  BY <1>1, <1>2, <1>3, <1>4, RestoreSteps DEF BackupTypes
<1>6. UndoInv'
  BY <1>2, <1>3 DEF UndoInv
<1> QED BY <1>5, <1>6 DEF BackupInv

LEMMA CopyBeforeKeeps == \A works \in BOOLEAN : BackupInv /\ CopyBefore(works) => BackupInv'
<1> SUFFICES ASSUME NEW works \in BOOLEAN, BackupInv, CopyBefore(works) PROVE BackupInv'
  OBVIOUS
<1>1. BackupTypes /\ LogInv
  BY DEF BackupInv
<1>2. /\ UNCHANGED <<at, mine, own, logged, latest, listed, zips, reused, before>>
      /\ restore.pc = "begun" /\ restore' = [restore EXCEPT !.pc = "saving", !.data = content'[at]]
      /\ IF works THEN Emptied ELSE UNCHANGED <<content, wal>>
      /\ maker' = [m \in Makers |-> Disturbed(maker[m], at, content'[at] # content[at])]
  BY DEF CopyBefore, Stays
<1>3. /\ content' \in [0 .. at -> FileData] /\ wal' \in (0 .. latest) \cup {NoFile}
      /\ OnDisk' = OnDisk /\ content'[at] \in FileData
      /\ works => content'[at] = OnDisk /\ wal' = NoFile
  BY <1>1, <1>2, EmptiedFacts
<1>4. restore \in [pc : {"begun", "saving", "saved", "ready", "writing", "done"}, zip : Zips,
                   data : FileData \cup {NoFile}, file : 0 .. at, old : FileData, sure : BOOLEAN]
  BY <1>1, <1>2, RestoreShapes
<1>5. /\ restore'.pc = "saving" /\ restore'.data = content'[at] /\ restore'.file = restore.file
      /\ restore'.old = restore.old /\ restore'.sure = restore.sure /\ restore' \in RestoreStates
  BY <1>2, <1>3, <1>4 DEF RestoreStates
<1>6. \A m \in Makers : Doubted(maker'[m], maker[m])
  BY <1>1, <1>2, Disturbs
<1>7. BackupTypes'
  <2>1. maker' \in [Makers -> MakerStates]
    BY <1>1, <1>2, <1>6, DoubtedTypes
  <2> QED BY <1>1, <1>2, <1>3, <1>5, <2>1, SameTypes DEF BackupTypes
<1>8. LogInv' /\ ListInv' /\ ZipsInv'
  BY <1>1, <1>2, <1>3, <1>5 DEF BackupInv, LogInv, ListInv, ZipsInv, Holds
<1>9. MakersInv'
  BY <1>2, <1>3, <1>6, MakersKept
<1>10. UndoInv'
  <2>1. content'[at] = OnDisk \/ wal' # NoFile
    BY <1>2, <1>3 DEF OnDisk, Read
  <2> QED BY <1>2, <1>3, <1>5, <2>1 DEF BackupInv, UndoInv
<1> QED BY <1>7, <1>8, <1>9, <1>10 DEF BackupInv

LEMMA BeforeSavedKeeps == BackupInv /\ BeforeSaved => BackupInv'
<1> SUFFICES ASSUME BackupInv, BeforeSaved PROVE BackupInv'
  OBVIOUS
<1>1. BackupTypes
  BY DEF BackupInv
<1>2. /\ UNCHANGED <<at, mine, own, logged, latest, listed, zips, reused, maker, content, wal>>
      /\ restore.pc = "saving" /\ restore' = [restore EXCEPT !.pc = "saved", !.sure = restore.sure /\ ~LogLeft]
      /\ before' = [main |-> restore.data, log |-> IF LogThere THEN wal ELSE before.log]
  BY DEF BeforeSaved, Stays
<1>3. restore \in [pc : {"begun", "saving", "saved", "ready", "writing", "done"}, zip : Zips,
                   data : FileData \cup {NoFile}, file : 0 .. at, old : FileData, sure : BOOLEAN]
  BY <1>1, <1>2, RestoreShapes
<1>4. /\ restore'.pc = "saved" /\ restore'.old = restore.old
      /\ restore'.sure => restore.sure /\ ~LogLeft
      /\ restore' \in RestoreStates
  <2> DEFINE surely == restore.sure /\ ~LogLeft
  <2>1. surely \in BOOLEAN /\ (surely => restore.sure /\ ~LogLeft)
    BY <1>3
  <2>2. restore' = [restore EXCEPT !.pc = "saved", !.sure = surely]
    BY <1>2
  <2> HIDE DEF surely
  <2> QED BY <1>3, <2>1, <2>2 DEF RestoreStates
<1>5. OnDisk' = OnDisk
  BY <1>2 DEF OnDisk
<1>6. BackupTypes' /\ LogInv' /\ ListInv' /\ MakersInv' /\ ZipsInv'
  BY <1>1, <1>2, <1>4, <1>5, RestoreSteps DEF BackupTypes
<1>7. UndoInv'
  <2> SUFFICES ASSUME restore'.sure PROVE Read(before'.main, before'.log) = restore'.old
    BY <1>4 DEF UndoInv, Read
  <2>1. restore.sure /\ ~LogLeft /\ OnDisk = restore.old /\ (wal = NoFile => restore.data = restore.old)
    BY <1>2, <1>4 DEF BackupInv, UndoInv
  <2>2. before'.main = restore.data /\ before'.log = IF LogThere THEN wal ELSE before.log
    BY <1>2
  <2>3. CASE wal # NoFile
    BY <1>4, <2>1, <2>2, <2>3 DEF Read, OnDisk, LogThere
  <2>4. CASE wal = NoFile
    BY <1>4, <2>1, <2>2, <2>4 DEF Read, LogLeft
  <2> QED BY <2>3, <2>4
<1> QED BY <1>6, <1>7 DEF BackupInv

LEMMA ExtractFailsKeeps == BackupInv /\ ExtractFails => BackupInv'
<1> SUFFICES ASSUME BackupInv, ExtractFails PROVE BackupInv'
  OBVIOUS
<1>1. BackupTypes
  BY DEF BackupInv
<1>2. /\ UNCHANGED <<at, mine, own, logged, latest, listed, zips, reused, maker, content, wal, before>>
      /\ restore' = [pc |-> "idle", sure |-> TRUE]
  BY DEF ExtractFails, Stays, NoRestore
<1>3. OnDisk' = OnDisk /\ restore' \in RestoreStates
  BY <1>1, <1>2, RestoreShapes DEF OnDisk
<1>4. BackupTypes' /\ LogInv' /\ ListInv' /\ MakersInv' /\ ZipsInv'
  BY <1>1, <1>2, <1>3, RestoreSteps DEF BackupTypes
<1>5. UndoInv'
  BY <1>2 DEF UndoInv
<1> QED BY <1>4, <1>5 DEF BackupInv

LEMMA RemoveWalKeeps == BackupInv /\ RemoveWal => BackupInv'
<1> SUFFICES ASSUME BackupInv, RemoveWal PROVE BackupInv'
  OBVIOUS
<1> DEFINE file == zips[restore.zip]
<1>1. BackupTypes
  BY DEF BackupInv
<1>2. /\ UNCHANGED <<at, mine, own, latest, listed, zips, reused, content, before>>
      /\ restore.pc = "saved" /\ restore' = [restore EXCEPT !.pc = "ready", !.data = file.data]
      /\ file \notin {NoFile, Broken} /\ wal' = NoFile /\ logged' = FALSE /\ maker' = Overtaken
  BY DEF RemoveWal, Stays
<1>3. restore \in [pc : {"begun", "saving", "saved", "ready", "writing", "done"}, zip : Zips,
                   data : FileData \cup {NoFile}, file : 0 .. at, old : FileData, sure : BOOLEAN]
  BY <1>1, <1>2, RestoreShapes
<1>4. file.data \in FileData
  <2>1. file \in ZipFiles
    BY <1>1, <1>2, <1>3 DEF BackupTypes
  <2> QED BY <2>1 DEF ZipFiles
<1>5. /\ restore'.pc = "ready" /\ restore'.data \in FileData /\ restore'.old = restore.old
      /\ restore'.sure = restore.sure /\ restore' \in RestoreStates
  <2> HIDE DEF file
  <2> QED BY <1>2, <1>3, <1>4 DEF RestoreStates
<1>6. \A m \in Makers : Doubted(maker'[m], maker[m]) /\ (maker'[m].sure = FALSE \/ maker[m].pc \notin InHand)
  BY <1>1, <1>2, Disturbs
<1>7. BackupTypes'
  <2>1. maker' = [m \in Makers |-> maker'[m]]
    BY <1>2 DEF Overtaken
  <2>2. maker' \in [Makers -> MakerStates]
    BY <1>1, <1>6, <2>1, DoubtedTypes
  <2> QED BY <1>1, <1>2, <1>5, <2>2, SameTypes DEF BackupTypes
<1>8. LogInv' /\ ListInv' /\ ZipsInv'
  BY <1>2, <1>5, SameTypes DEF BackupInv, LogInv, ListInv, ZipsInv, Holds
<1>9. MakersInv'
  BY <1>2, <1>6, MakersKept DEF InHand
<1>10. UndoInv'
  BY <1>2, <1>5 DEF BackupInv, UndoInv
<1> QED BY <1>7, <1>8, <1>9, <1>10 DEF BackupInv

LEMMA ReplaceKeeps == BackupInv /\ Replace => BackupInv'
<1> SUFFICES ASSUME BackupInv, Replace PROVE BackupInv'
  OBVIOUS
<1>1. BackupTypes
  BY DEF BackupInv
<1>2. /\ UNCHANGED <<wal, mine, own, logged, latest, listed, zips, before, reused>>
      /\ restore.pc = "ready" /\ restore' = [restore EXCEPT !.pc = "done"]
      /\ at' = Cardinality(DOMAIN content) /\ content' = Adding(content, at', restore.data)
      /\ maker' = Overtaken
  BY DEF Replace
<1>3. ~logged /\ restore.data \in FileData
  BY <1>2 DEF BackupInv, LogInv
<1>4. at' = at + 1
  <2>1. DOMAIN content = 0 .. at /\ at \in Nat
    BY <1>1 DEF BackupTypes
  <2>2. Cardinality(0 .. at) = at + 1
    BY <2>1, FS_Interval
  <2> QED BY <1>2, <2>1, <2>2
<1>5. /\ latest' \in Nat /\ latest' >= latest /\ at' \in Nat /\ at' >= at
      /\ 0 .. at' = (0 .. at) \cup {at'}
  BY <1>1, <1>2, <1>4 DEF BackupTypes
<1>6. /\ FileData \subseteq FileData' /\ ZipFiles \subseteq ZipFiles'
      /\ MakerStates \subseteq MakerStates' /\ RestoreStates \subseteq RestoreStates'
  BY <1>1, <1>5, Wider
<1>7. restore \in [pc : {"begun", "saving", "saved", "ready", "writing", "done"}, zip : Zips,
                   data : FileData \cup {NoFile}, file : 0 .. at, old : FileData, sure : BOOLEAN]
  BY <1>1, <1>2, RestoreShapes
<1>8. /\ restore'.pc = "done" /\ restore'.old = restore.old /\ restore'.sure = restore.sure
      /\ restore' \in RestoreStates
  BY <1>2, <1>7 DEF RestoreStates
<1>9. \A m \in Makers : Doubted(maker'[m], maker[m]) /\ (maker'[m].sure = FALSE \/ maker[m].pc \notin InHand)
  BY <1>1, <1>2, Disturbs
<1>10. BackupTypes'
  <2>1. maker' = [m \in Makers |-> maker'[m]]
    BY <1>2 DEF Overtaken
  <2>2. maker' \in [Makers -> MakerStates']
    BY <1>1, <1>6, <1>9, <2>1, DoubtedTypes
  <2>3. content' \in [0 .. at' -> FileData']
    <3>1. content' = [k \in 0 .. at' |-> IF k = at' THEN restore.data ELSE content[k]]
      BY <1>1, <1>2, <1>5 DEF Adding, BackupTypes
    <3>2. \A k \in 0 .. at' : k # at' => content[k] \in FileData
      BY <1>1, <1>5 DEF BackupTypes
    <3> QED BY <1>3, <1>6, <3>1, <3>2
  <2>4. zips' \in [Zips -> {NoFile, Broken} \cup ZipFiles'] /\ restore' \in RestoreStates'
    BY <1>1, <1>2, <1>6, <1>8 DEF BackupTypes
  <2>5. mine' \in 0 .. at'
    BY <1>1, <1>2, <1>5 DEF BackupTypes
  <2> QED BY <1>1, <1>2, <1>5, <2>2, <2>3, <2>4, <2>5 DEF BackupTypes
<1>11. LogInv' /\ ListInv' /\ ZipsInv'
  BY <1>2, <1>3, <1>8 DEF BackupInv, LogInv, ListInv, ZipsInv, Holds
<1>12. MakersInv'
  BY <1>2, <1>9, MakersKept DEF InHand
<1>13. UndoInv'
  BY <1>2, <1>8 DEF BackupInv, UndoInv
<1> QED BY <1>10, <1>11, <1>12, <1>13 DEF BackupInv

LEMMA OverwriteKeeps == BackupInv /\ Overwrite => BackupInv'
<1> SUFFICES ASSUME BackupInv, Overwrite PROVE BackupInv'
  OBVIOUS
<1>1. BackupTypes
  BY DEF BackupInv
<1>2. /\ UNCHANGED <<at, mine, own, latest, listed, zips, reused, wal, logged, before>>
      /\ restore.pc \in {"ready", "writing"}
      /\ \/ content' = [content EXCEPT ![at] = Torn] /\ restore' = [restore EXCEPT !.pc = "writing"]
         \/ content' = [content EXCEPT ![at] = restore.data] /\ restore' = [restore EXCEPT !.pc = "done"]
      /\ maker' = [m \in Makers |-> Disturbed(Overtaken[m], at, TRUE)]
  BY DEF Overwrite, Stays
<1>3. ~logged /\ restore.data \in FileData /\ Torn \in FileData
  BY <1>2 DEF BackupInv, LogInv, FileData
<1>4. restore \in [pc : {"begun", "saving", "saved", "ready", "writing", "done"}, zip : Zips,
                   data : FileData \cup {NoFile}, file : 0 .. at, old : FileData, sure : BOOLEAN]
  BY <1>1, <1>2, RestoreShapes
<1>5. /\ restore'.pc \in {"writing", "done"} /\ restore'.old = restore.old /\ restore'.sure = restore.sure
      /\ restore'.data = restore.data /\ restore' \in RestoreStates
  BY <1>2, <1>4 DEF RestoreStates
<1>6. \A m \in Makers : Doubted(maker'[m], maker[m])
  BY <1>1, <1>2, Disturbs
<1>7. \A m \in Makers : ~(maker[m].pc = "opened" /\ maker'[m].sure)
  <2> SUFFICES ASSUME NEW m \in Makers, maker[m].pc = "opened", maker'[m].sure PROVE FALSE
    OBVIOUS
  <2>1. Overtaken[m].sure = FALSE /\ Overtaken[m].pc = "opened"
    BY <1>1, Disturbs DEF InHand, Doubted
  <2>2. maker'[m] = Overtaken[m]
    BY <1>2, <2>1 DEF Disturbed
  <2> QED BY <2>1, <2>2
<1>8. BackupTypes'
  <2>1. maker' \in [Makers -> MakerStates]
    BY <1>1, <1>2, <1>6, DoubtedTypes
  <2>2. content' \in [0 .. at -> FileData]
    BY <1>1, <1>2, <1>3 DEF BackupTypes
  <2> QED BY <1>1, <1>2, <1>5, <2>1, <2>2, SameTypes DEF BackupTypes
<1>9. LogInv' /\ ListInv' /\ ZipsInv'
  BY <1>2, <1>3, <1>5, SameTypes DEF BackupInv, LogInv, ListInv, ZipsInv, Holds
<1>10. MakersInv'
  BY <1>2, <1>6, <1>7, MakersKept
<1>11. UndoInv'
  BY <1>2, <1>5 DEF BackupInv, UndoInv
<1> QED BY <1>8, <1>9, <1>10, <1>11 DEF BackupInv

LEMMA BackupStep == BackupInv /\ [NextBackups]_backupVars => BackupInv'
<1> SUFFICES ASSUME BackupInv, [NextBackups]_backupVars PROVE BackupInv'
  OBVIOUS
<1>1. CASE PanelWorks \/ AutoCheckpoint \/ Restart
  BY <1>1, PanelWorksKeeps, AutoCheckpointKeeps, RestartKeeps
<1>2. CASE \E m \in Makers :
             \/ \E z \in Zips : OpenZip(m, z)
             \/ writeSQLiteEntry(m) \/ Copied(m) \/ CloseZip(m) \/ RemoveZip(m) \/ RegisterBackup(m)
  BY <1>2, OpenZipKeeps, writeSQLiteEntryKeeps, CopiedKeeps, CloseZipKeeps, RemoveZipKeeps,
     RegisterBackupKeeps
<1>3. CASE \E z \in Zips : DeleteBackup(z) \/ BeginRestore(z)
  BY <1>3, DeleteBackupKeeps, BeginRestoreKeeps
<1>4. CASE \E works \in BOOLEAN : CopyBefore(works)
  BY <1>4, CopyBeforeKeeps
<1>5. CASE BeforeSaved \/ ExtractFails \/ RemoveWal \/ Replace \/ Overwrite
  BY <1>5, BeforeSavedKeeps, ExtractFailsKeeps, RemoveWalKeeps, ReplaceKeeps, OverwriteKeeps
<1>6. CASE UNCHANGED backupVars
  <2>1. UNCHANGED panelFiles /\ UNCHANGED <<restore, before>> /\ maker' = maker /\ zips' = zips
        /\ reused' = reused
    BY <1>6 DEF backupVars, panelFiles
  <2>2. BackupTypes' /\ LogInv' /\ UndoInv' /\ OnDisk' = OnDisk /\ listed' = listed /\ latest' = latest
    BY <2>1, BesideDatabase DEF BackupInv, BackupTypes
  <2>3. MakersInv' /\ ListInv' /\ ZipsInv'
    BY <2>1, <2>2 DEF BackupInv, MakersInv, MakerSound, ListInv, ZipsInv, Holds
  <2> QED BY <2>2, <2>3 DEF BackupInv
<1> QED BY <1>1, <1>2, <1>3, <1>4, <1>5, <1>6 DEF NextBackups

\* A backup that is offered can be relied on, and so can the copy a restore makes of
\* what it replaces: with any number of requests making backups at the same time, and
\* any number of restores, failures and restarts.
THEOREM BackedUp == BackupSpec => []BackupsWhole
<1>1. BackupInv => BackupsWhole
  <2> SUFFICES ASSUME BackupInv PROVE BackupsWhole
    OBVIOUS
  <2>1. BackupTypes
    BY DEF BackupInv
  <2>2. RestoreUndoable
    <3>1. restore.pc \in {"idle", "begun", "saving", "saved", "ready", "writing", "done"}
      BY <2>1 DEF BackupTypes, RestoreStates
    <3> QED BY <3>1 DEF BackupInv, UndoInv, RestoreUndoable
  <2>3. BackupComplete
    BY DEF BackupInv, ZipsInv, Holds, BackupComplete
  <2>4. ListedWhole
    BY <2>1 DEF BackupInv, ListInv, BackupTypes, ListedWhole
  <2> QED BY <2>2, <2>3, <2>4 DEF BackupsWhole
<1> QED BY <1>1, BackupInit, BackupStep, PTL DEF BackupSpec
=============================================================================
