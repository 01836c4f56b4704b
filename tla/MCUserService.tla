--------------------------- MODULE MCUserService ---------------------------
(* Two accounts and one phone number for TLC. *)
EXTENDS UserService, TLC

CONSTANTS u1, u2, n1, k1, k2, t1, w1, w2

TwoUsers     == {u1, u2}
OneNumber    == {n1}
TwoPasswords == {k1, k2}
OneText      == {t1}
TwoWorkers   == {w1, w2}
AnyRole      == {Blank, "inspector"}

Symmetry == Permutations({u1, u2}) \cup Permutations({w1, w2})
              \cup Permutations({k1, k2})
============================================================================
