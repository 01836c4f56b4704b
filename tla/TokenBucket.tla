---------------------------- MODULE TokenBucket ----------------------------
(***************************************************************************)
(* The most a per-client limit of PerMinute requests may let through: a    *)
(* bucket that fills continuously and never holds more than Capacity.  It  *)
(* may refuse at any time; it admits only against a whole token.           *)
(* Levels are counted in parts, Minute of them to a token, so that one     *)
(* tick of the clock adds PerMinute parts.                                 *)
(***************************************************************************)
EXTENDS Naturals

CONSTANTS Clients, PerMinute, Capacity, Minute

VARIABLE level   \* the parts in each client's bucket

Full == Capacity * Minute

Filled(n) == IF n + PerMinute > Full THEN Full ELSE n + PerMinute

Init == level = [c \in Clients |-> Full]

Tick == level' = [c \in Clients |-> Filled(level[c])]

Admit(c) ==
  /\ level[c] >= Minute
  /\ level' = [level EXCEPT ![c] = @ - Minute]

Next == Tick \/ \E c \in Clients : Admit(c)

Spec == Init /\ [][Next]_level

============================================================================
