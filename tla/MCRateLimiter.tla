--------------------------- MODULE MCRateLimiter ---------------------------
(* Two clients and a clock of a few minutes, for TLC. *)
EXTENDS RateLimiter, TLC

CONSTANTS c1, c2

TwoClients == {c1, c2}
OneClient  == {c1}

Symmetry == Permutations(TwoClients)
============================================================================
