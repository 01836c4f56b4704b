---------------------------- MODULE MCPagedLists ----------------------------
(* Three rows, for TLC. *)
EXTENDS PagedLists, TLC

CONSTANTS r1, r2, r3

ThreeRows    == {r1, r2, r3}
ThreeDates   == 1 .. 3
FirstPage    == {-1, 0, 1}
SmallSizes   == {-1, 0, 1, 2}

Alike == Permutations(ThreeRows)
============================================================================
