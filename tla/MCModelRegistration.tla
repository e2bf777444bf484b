-------------------------- MODULE MCModelRegistration --------------------------
(* ModelRegistration for TLC: more groups than workers, so that some wait in the
   queue, one of them without a forecast; or a single group. *)
EXTENDS ModelRegistration

CONSTANTS g1, g2, g3, g4

FourWinners == <<g1, g2, g3, g4>>
OneWinner == <<g1>>
================================================================================
