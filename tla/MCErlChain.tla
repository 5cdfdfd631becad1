---------------------------- MODULE MCErlChain -----------------------------
(* Instances of ErlChain for TLC.                                          *)
EXTENDS ErlChain, TLC

(* Servers are interchangeable.                                            *)
ServerSymmetry == Permutations(Server)
=============================================================================
