------------------------ MODULE MCInspectionService ------------------------
(* One inspection of two items for TLC. *)
EXTENDS InspectionService

CONSTANTS n1, a, b, w1, w2

OnlyCreated == {n1}
NoSeed      == {}
TwoItems    == {a, b}
TwoWorkers  == {w1, w2}
============================================================================
