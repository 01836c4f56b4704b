---------------------------- MODULE MCDashboard ----------------------------
(* One certificate, two trainings of the second month, two requests. *)
EXTENDS Dashboard, TLC

CONSTANTS c1, t1, t2, l1, w1, w2

OneCert      == {c1}
TwoTrainings == {t1, t2}
TwoLists     == {EmptyList, l1}
TwoWorkers   == {w1, w2}
SecondDay    == {1}
TwoRates     == {0, 95}

Symmetry == Permutations({t1, t2}) \cup Permutations({w1, w2})
============================================================================
