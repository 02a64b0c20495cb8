--------------------------- MODULE MCInstanceData ---------------------------
(* Instances of InstanceData for TLC. *)
EXTENDS InstanceData

KeySymmetry == Permutations(Key)
=============================================================================
