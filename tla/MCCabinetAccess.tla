-------------------------- MODULE MCCabinetAccess --------------------------
(* CabinetAccess with interchangeable handlers. *)
EXTENDS CabinetAccess, TLC

Symmetry == Permutations(Handlers)
=============================================================================
