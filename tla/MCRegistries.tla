----------------------------- MODULE MCRegistries -----------------------------
(* The instances of Registries that TLC checks.                            *)
EXTENDS Registries, TLC

(* Clients differ in nothing.                                              *)
Symmetry == Permutations(Client)
=============================================================================
