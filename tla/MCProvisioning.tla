--------------------------- MODULE MCProvisioning ---------------------------
(* Provisioning with interchangeable machines. *)
EXTENDS Provisioning, TLC

Symmetry == Permutations(Machines)
=============================================================================
