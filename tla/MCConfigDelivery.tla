-------------------------- MODULE MCConfigDelivery --------------------------
(* Instances of ConfigDelivery for TLC. *)
EXTENDS ConfigDelivery, TLC

Symmetry == Permutations(Nodes) \cup Permutations(Targets) \cup Permutations(Editors)

=============================================================================
