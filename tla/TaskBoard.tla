------------------------------ MODULE TaskBoard ------------------------------
(***************************************************************************)
(* What remote tasks promise to whoever reads the panel: a task is begun   *)
(* at most once and only while it is unanswered, its answer is final, and  *)
(* "done" is said only of a task that had its effect.  NodeTasks           *)
(* implements this through a journal, lost requests and restarts.          *)
(***************************************************************************)
EXTENDS Naturals

CONSTANT Tasks

VARIABLES
  board,    \* status of each task, "none" before it exists
  runs,     \* how often it was begun
  achieved  \* tasks that had their effect

vars == <<board, runs, achieved>>

Init ==
  /\ board = [t \in Tasks |-> "none"]
  /\ runs = [t \in Tasks |-> 0] /\ achieved = {}

Create(t) ==
  /\ board[t] = "none"
  /\ board' = [board EXCEPT ![t] = "pending"]
  /\ UNCHANGED <<runs, achieved>>

\* A command has its effect when it runs.
Begin(t) ==
  /\ board[t] = "pending" /\ runs[t] = 0
  /\ runs' = [runs EXCEPT ![t] = 1]
  /\ achieved' \in {achieved, achieved \cup {t}}
  /\ UNCHANGED board

\* A restart of the node is the effect of all that asked for it.
Achieve ==
  /\ achieved \subseteq achieved'
  /\ \A t \in achieved' \ achieved : t \in Tasks /\ runs[t] = 1
  /\ UNCHANGED <<board, runs>>

Answer(t) ==
  /\ board[t] = "pending"
  /\ \/ t \in achieved /\ board' = [board EXCEPT ![t] = "done"]
     \/ board' = [board EXCEPT ![t] = "failed"]
  /\ UNCHANGED <<runs, achieved>>

Next == Achieve \/ \E t \in Tasks : Create(t) \/ Begin(t) \/ Answer(t)

Spec == Init /\ [][Next]_vars

=============================================================================
