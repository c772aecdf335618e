----------------------------- MODULE PanelJobs -----------------------------
\* The panel's background work from start to shutdown: the scheduler's loop of a
\* periodic task beside requests that run the task by hand, the queue of webhook
\* events with the worker that posts them, and main's order of stopping it all.
EXTENDS Integers, Sequences, SequencesExt, FiniteSets
CONSTANTS
  Callers,    \* requests that may run the task by hand
  QueueSize,  \* webhookQueueSize
  Attempts,   \* the first post and the retries
  MaxEvents   \* bound: the events of a behaviour
ASSUME JobBounds == QueueSize \in Nat \ {0} /\ Attempts \in Nat \ {0} /\ MaxEvents \in Nat

VARIABLES
  panel,       \* how far main has come with stopping
  actor,       \* the loop and the requests -> where they are in execute
  running,     \* Scheduler.running of the task
  lastResult,  \* Scheduler.lastResult of the task
  queue,       \* WebhookService.queue: numbers of events
  workers,     \* the goroutines App.Go started for the queue
  events,      \* the events sent so far
  told         \* history: the events the endpoint took, in that order
jobVars == <<panel, actor, running, lastResult, queue, workers, events, told>>

Loop == "loop"
JobActors == {Loop} \cup Callers
NoWorker == [at |-> "none", event |-> 0, tries |-> 0]
Inside == { a \in JobActors : actor[a] \in {"run", "noted"} }
Ending == panel \in {"ending", "closed"}  \* App.stopCh is closed
---------------------------------------------------------------------------
\* scheduler.Start unless disable-cron is set: then the task only runs by hand.
InitJobs ==
  /\ panel = "serving" /\ running = FALSE /\ lastResult = "none"
  /\ \E cron \in BOOLEAN : actor = [a \in JobActors |-> IF a = Loop /\ ~cron THEN "gone" ELSE "idle"]
  /\ queue = <<>> /\ workers = [w \in 1..2 |-> NoWorker] /\ events = 0 /\ told = <<>>
---------------------------------------------------------------------------
Entry_ByHand(a) == running /\ a = Loop
\* execute skips a round of a task that is still running.
Entry(a) == running
execute(a) ==
  /\ actor[a] = "idle" /\ panel # "closed" /\ ~Entry(a)
  /\ running' = TRUE /\ actor' = [actor EXCEPT ![a] = "run"]
  /\ UNCHANGED <<panel, lastResult, queue, workers, events, told>>
\* The ticker fires; it may do so once more when stopCh is closed already.
LoopTick == execute(Loop)
RunNow(a) == a \in Callers /\ execute(a)
\* The handler of a request, which the server takes until it is shut down. One
\* that finds the task running answers at once with the result noted before.
RunTask(a) == panel = "serving" /\ RunNow(a)
\* Run returned, or panicked and was recovered: the result is noted.
Note(a) ==
  /\ actor[a] = "run" /\ panel # "closed"
  /\ lastResult' \in {"success", "failed"}
  /\ actor' = [actor EXCEPT ![a] = "noted"]
  /\ UNCHANGED <<panel, running, queue, workers, events, told>>
Cleared_OnSuccess == lastResult = "failed"
\* The deferred section: the mark goes whatever became of the run.
Cleared == FALSE
Clear(a) ==
  /\ actor[a] = "noted" /\ panel # "closed"
  /\ running' = Cleared /\ actor' = [actor EXCEPT ![a] = "idle"]
  /\ UNCHANGED <<panel, lastResult, queue, workers, events, told>>
LoopEnds ==
  /\ actor[Loop] = "idle" /\ panel = "stopping"
  /\ actor' = [actor EXCEPT ![Loop] = "gone"]
  /\ UNCHANGED <<panel, running, lastResult, queue, workers, events, told>>
---------------------------------------------------------------------------
\* startOnce: the first event starts the only worker.
startWorker ==
  IF workers[1] = NoWorker THEN [workers EXCEPT ![1].at = "idle"] ELSE workers
\* A full queue drops the event: the caller never waits.
SendAsync ==
  /\ events' = events + 1 /\ workers' = startWorker
  /\ queue' = IF Len(queue) < QueueSize THEN Append(queue, events + 1) ELSE queue
  /\ UNCHANGED <<panel, actor, running, lastResult, told>>
\* Called by tasks, migrations and requests, also ones main gave up waiting for.
NotifyEvent == panel # "closed" /\ events < MaxEvents /\ SendAsync

Take(w) ==
  /\ workers[w].at = "idle" /\ queue # <<>> /\ panel # "closed"
  /\ workers' = [workers EXCEPT ![w] = [at |-> "post", event |-> Head(queue), tries |-> 1]]
  /\ queue' = Tail(queue)
  /\ UNCHANGED <<panel, actor, running, lastResult, events, told>>
\* The worker's select sees App.Done, whatever the queue still holds.
Leaves(w) == workers[w].at = "idle" /\ Ending
WorkerEnds(w) ==
  /\ Leaves(w) /\ panel # "closed" /\ workers' = [workers EXCEPT ![w].at = "gone"]
  /\ UNCHANGED <<panel, actor, running, lastResult, queue, events, told>>
Idles(w) == workers' = [workers EXCEPT ![w] = [NoWorker EXCEPT !.at = "idle"]]
\* post: the endpoint takes the event, refuses it, or takes it and the answer is
\* lost, which the panel counts as a refusal.
Delivered(w) ==
  /\ workers[w].at = "post" /\ panel # "closed"
  /\ told' = Append(told, workers[w].event) /\ Idles(w)
  /\ UNCHANGED <<panel, actor, running, lastResult, queue, events>>
MoreTries(w) == workers[w].tries < Attempts
Refused(w) ==
  /\ workers[w].at = "post" /\ panel # "closed"
  /\ IF MoreTries(w) THEN workers' = [workers EXCEPT ![w].at = "wait"] ELSE Idles(w)
  /\ told' \in {told, Append(told, workers[w].event)}
  /\ UNCHANGED <<panel, actor, running, lastResult, queue, events>>
\* The wait between attempts ends with the timer or with App.Done.
Retry(w) ==
  /\ workers[w].at = "wait" /\ panel # "closed"
  /\ LET more == IF workers[w].tries < Attempts THEN workers[w].tries + 1 ELSE workers[w].tries
     IN workers' = [workers EXCEPT ![w] = [workers[w] EXCEPT !.at = "post", !.tries = more]]
  /\ UNCHANGED <<panel, actor, running, lastResult, queue, events, told>>
GivesUp(w) ==
  /\ workers[w].at = "wait" /\ Ending /\ panel # "closed" /\ Idles(w)
  /\ UNCHANGED <<panel, actor, running, lastResult, queue, events, told>>
---------------------------------------------------------------------------
Phase(from, to) ==
  /\ panel = from /\ panel' = to
  /\ UNCHANGED <<actor, running, lastResult, queue, workers, events, told>>
\* httpServer.Shutdown waits for the requests, ten seconds at most.
Quit == Phase("serving", "draining")
Drained == Phase("draining", "stopping")
\* Scheduler.Stop waits for the loops alone.
LoopsGone == actor[Loop] = "gone" /\ Phase("stopping", "ending")
\* App.Stop waits for the workers; then the process ends.
WorkersGone ==
  /\ \A w \in 1..2 : workers[w].at \in {"none", "gone"}
  /\ Phase("ending", "closed")

WorkerSteps(w) == Take(w) \/ WorkerEnds(w) \/ Delivered(w) \/ Refused(w) \/ Retry(w) \/ GivesUp(w)
NextJobs ==
  \/ LoopTick \/ \E a \in Callers : RunTask(a)
  \/ \E a \in JobActors : Note(a) \/ Clear(a)
  \/ LoopEnds \/ NotifyEvent \/ \E w \in 1..2 : WorkerSteps(w)
  \/ Quit \/ Drained \/ LoopsGone \/ WorkersGone
JobSpec == InitJobs /\ [][NextJobs]_jobVars
\* A task ends: its queries and requests have deadlines. The loop ticks as long as
\* it lives, and select does not take its tick for ever when told to stop.
FairJobs ==
  /\ \A a \in JobActors : WF_jobVars(Note(a)) /\ WF_jobVars(Clear(a))
  /\ WF_jobVars(LoopTick) /\ SF_jobVars(LoopEnds)
  /\ \A w \in 1..2 : WF_jobVars(WorkerSteps(w))
  /\ WF_jobVars(Drained) /\ WF_jobVars(LoopsGone) /\ WF_jobVars(WorkersGone)
---------------------------------------------------------------------------
\* Two rounds of a task never overlap, whether the loop or a request began them: a
\* task that counts traffic would count it twice.
NoOverlap == Cardinality(Inside) <= 1
\* The endpoint sees events in the order they were sent: one it is shown again
\* comes right after itself and before every later one.
SentInOrder == \A i, j \in DOMAIN told : i < j => told[i] <= told[j]
\* As long as the panel serves, a scheduled task runs again and again, after runs
\* that failed or panicked, by its loop or by the requests that keep the loop out.
RunsAgain ==
  []<>(\E a \in JobActors : actor[a] = "run") \/ <>(panel = "stopping") \/ [](actor[Loop] = "gone")
\* An event in the queue is posted or given up in the end, even when the endpoint
\* of an earlier one never answers, unless the panel stops.
Settled ==
  \A e \in 1..MaxEvents :
    e \in ToSet(queue) ~> Ending \/ (e \notin ToSet(queue) /\ \A w \in 1..2 : workers[w].event # e)
\* A panel told to stop does stop, with a task running and an endpoint that is down.
StopEnds == panel = "draining" ~> panel = "closed"

\* Tasks run one at a time and events are told in order.
JobsServe == NoOverlap /\ SentInOrder
=============================================================================
