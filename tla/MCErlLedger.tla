---------------------------- MODULE MCErlLedger ----------------------------
(* Instances of ErlLedger for TLC.                                         *)
EXTENDS ErlLedger, TLC

(* Servers and ids are interchangeable: sound for safety properties.       *)
Symmetry == Permutations(Server) \cup Permutations(Id)
=============================================================================
