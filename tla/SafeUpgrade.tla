----------------------------- MODULE SafeUpgrade -----------------------------
(***************************************************************************)
(* What the online upgrade promises of the installed executable: a new     *)
(* release is on trial until it is accepted; a release that is rejected is *)
(* replaced by the one it was tried against, and an accepted one stays.    *)
(* NodeUpgrade implements this with a marker file, a backup, a lock and an *)
(* independent watchdog.                                                   *)
(***************************************************************************)
CONSTANT Releases

VARIABLES
  exe,   \* the installed release
  good,  \* the last one that was accepted
  trial  \* is exe on trial?

vars == <<exe, good, trial>>

Init == exe \in Releases /\ good = exe /\ trial = FALSE

Try(r) == ~trial /\ exe' = r /\ trial' = TRUE /\ UNCHANGED good

Accept == trial /\ good' = exe /\ trial' = FALSE /\ UNCHANGED exe

Reject == trial /\ exe' = good /\ trial' = FALSE /\ UNCHANGED good

Next == Accept \/ Reject \/ \E r \in Releases : Try(r)

Spec == Init /\ [][Next]_vars

=============================================================================
