----------------------------- MODULE MCTwinFlame -----------------------------
(* The instances of TwinFlame that TLC checks.                             *)
EXTENDS TwinFlame, TLC

Window == [A |-> 3, B |-> 2]
Short  == [A |-> 1, B |-> 1]
Symmetry == Permutations(Hash) \cup Permutations(Question)
=============================================================================
