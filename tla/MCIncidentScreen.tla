-------------------------- MODULE MCIncidentScreen --------------------------
(* One page with two calls in flight in front of one worker, for TLC. *)
EXTENDS IncidentScreen

CONSTANTS i1, m1, m2, w1, c1, c2

OneIncident == {i1}
NoSeed      == {}
TwoMeasures == {m1, m2}
OneWorker   == {w1}
TwoCalls    == {c1, c2}
============================================================================
