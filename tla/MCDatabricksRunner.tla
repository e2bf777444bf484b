--------------------------- MODULE MCDatabricksRunner ---------------------------
(* DatabricksRunner for TLC: API threads are interchangeable. *)
EXTENDS DatabricksRunner, TLC

ThreadSymmetry == Permutations(Threads)
================================================================================
