---------------------------- MODULE MCSchedules ----------------------------
(* Instances of Schedules for TLC. *)
EXTENDS Schedules, TLC

CONSTANTS s1, e1, e2

\* Editors are interchangeable: only the runs without liveness say so.
Editors == Permutations(Editor)
=============================================================================
