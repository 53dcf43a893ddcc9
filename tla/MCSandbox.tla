------------------------------ MODULE MCSandbox ------------------------------
(* Small instances of Sandbox for TLC; the .cfg files give the values. *)
EXTENDS Sandbox, TLC



Symmetry == Permutations(Calls)
=============================================================================
