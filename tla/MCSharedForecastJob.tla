-------------------------- MODULE MCSharedForecastJob --------------------------
(* SharedForecastJob for TLC: submissions and job ids are interchangeable. *)
EXTENDS SharedForecastJob, TLC

Symmetry == Permutations(Submissions) \cup Permutations(JobIds)
================================================================================
