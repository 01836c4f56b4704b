------------------------- MODULE MCIncidentService -------------------------
(* One incident that was reported, for TLC. *)
EXTENDS IncidentService

CONSTANTS i1, m1, m2, w1, w2

OnlyReported == {i1}
NoSeed       == {}
TwoMeasures  == {m1, m2}
OneMeasure   == {m1}
TwoWorkers   == {w1, w2}
============================================================================
