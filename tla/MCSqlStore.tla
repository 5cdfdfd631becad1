----------------------------- MODULE MCSqlStore -----------------------------
(* Instances of SqlStore for TLC.                                          *)
EXTENDS SqlStore, TLC

(* Rows, queries and servers are interchangeable: sound for safety.        *)
Symmetry == Permutations(Row) \cup Permutations(Query) \cup Permutations(Server)
=============================================================================
