----------------------------- MODULE AuditTrail -----------------------------
(***************************************************************************)
(* What the audit log promises: a list that only grows, in which a write   *)
(* appears at most once and never before it has taken effect.              *)
(***************************************************************************)
EXTENDS Sequences

CONSTANT Writes          \* the requests that may change something

VARIABLES effects,       \* the writes that took effect
          trail          \* the recorded writes, oldest first

Init == effects = {} /\ trail = <<>>

Recorded(q) == \E k \in DOMAIN trail : trail[k] = q

Write(q) ==
  /\ q \notin effects
  /\ effects' = effects \cup {q}
  /\ UNCHANGED trail

Record(q) ==
  /\ q \in effects /\ ~Recorded(q)
  /\ trail' = Append(trail, q)
  /\ UNCHANGED effects

Next == \E q \in Writes : Write(q) \/ Record(q)

Spec == Init /\ [][Next]_<<effects, trail>>

=============================================================================
