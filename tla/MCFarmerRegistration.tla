------------------------ MODULE MCFarmerRegistration ------------------------
(* Constants of the TLC runs of FarmerRegistration. *)
EXTENDS FarmerRegistration, TLC

Symmetry == Permutations(Request) \cup Permutations(Number) \cup Permutations(Secret)
=============================================================================
