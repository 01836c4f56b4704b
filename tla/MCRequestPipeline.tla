------------------------- MODULE MCRequestPipeline -------------------------
(* Three requests of two users over two file names, for TLC. *)
EXTENDS RequestPipeline, TLC

CONSTANTS q1, q2, q3, u1, u2, n1, n2

ThreeRequests == {q1, q2, q3}
TwoUsers      == {u1, u2}
TwoNames      == {n1, n2}

Alike == Permutations(ThreeRequests) \cup Permutations(TwoNames)
           \cup Permutations(TwoUsers)
============================================================================
