---------------------------- MODULE MCCoordProxy ----------------------------
(* The instances of CoordProxy that TLC checks: two chats that interleave, *)
(* so the symmetry of their names is of use to the runs without liveness.  *)
EXTENDS CoordProxy, TLC

Symmetry == Permutations(Chat)
=============================================================================
