----------------------------- MODULE MCAlpmHandle -----------------------------
(* Instances of AlpmHandle for TLC.                                            *)
EXTENDS AlpmHandle, TLC

\* Threads and Handles are interchangeable.
Symmetry == Permutations(Threads) \cup Permutations(Handles)
===============================================================================
