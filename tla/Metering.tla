------------------------------- MODULE Metering -------------------------------
(***************************************************************************)
(* What metering promises, with neither nodes, journals nor requests: a    *)
(* recorded write is secured at some time, unless it is lost before that,  *)
(* and a secured write is eventually charged, once, to the owner and hour  *)
(* it was recorded for.                                                    *)
(***************************************************************************)
EXTENDS Naturals

CONSTANTS Chunks, Users, Hours

VARIABLES
  usage,    \* what was recorded: chunk -> user and hour
  secured,  \* chunks that may no longer be lost
  gone,     \* chunks lost before they were secured
  bill,     \* the charges made
  charges   \* how often each chunk was charged

vars == <<usage, secured, gone, bill, charges>>

Recorded == DOMAIN usage

Init ==
  /\ usage = [c \in {} |-> 0]
  /\ secured = {} /\ gone = {} /\ bill = {}
  /\ charges = [c \in Chunks |-> 0]

Record(c, u, h) ==
  /\ c \notin Recorded
  /\ usage' = [x \in Recorded \cup {c} |-> IF x = c THEN [user |-> u, hour |-> h] ELSE usage[x]]
  /\ UNCHANGED <<secured, gone, bill, charges>>

Secure(S) ==
  /\ S \subseteq Recorded \ (secured \cup gone)
  /\ secured' = secured \cup S
  /\ UNCHANGED <<usage, gone, bill, charges>>

Lose(S) ==
  /\ S \subseteq Recorded \ (secured \cup gone)
  /\ gone' = gone \cup S
  /\ UNCHANGED <<usage, secured, bill, charges>>

Charge(S) ==
  /\ S \subseteq secured
  /\ \A c \in S : charges[c] = 0
  /\ bill' = bill \cup {[chunk |-> c, user |-> usage[c].user, hour |-> usage[c].hour] : c \in S}
  /\ charges' = [c \in Chunks |-> IF c \in S THEN charges[c] + 1 ELSE charges[c]]
  /\ UNCHANGED <<usage, secured, gone>>

Next ==
  \/ \E c \in Chunks, u \in Users, h \in Hours : Record(c, u, h)
  \/ \E S \in SUBSET Chunks : Secure(S) \/ Lose(S) \/ Charge(S)

Spec == Init /\ [][Next]_vars

Liveness == \A c \in Chunks : (c \in secured) ~> (charges[c] > 0)
===============================================================================
