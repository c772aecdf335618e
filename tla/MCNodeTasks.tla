---------------------------- MODULE MCNodeTasks ----------------------------
(* Instances of NodeTasks for TLC. *)
EXTENDS NodeTasks, TLC

MixedKind   == (1 :> "exec") @@ (2 :> "restart") @@ (3 :> "upgrade")

=============================================================================
