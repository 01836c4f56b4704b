---------------------------- MODULE RateLimiter ----------------------------
(***************************************************************************)
(* The limiter in front of register and login.  A bucket per client IP is  *)
(* created full at the first request; each later request first adds the    *)
(* tokens of the whole minutes since the last one, then takes a token or   *)
(* is refused.  The mutex makes one request one step.                      *)
(***************************************************************************)
EXTENDS Integers

CONSTANTS Clients,     \* client IP addresses
          Configured,  \* RATE_LIMIT_PER_MINUTE
          Minute,      \* ticks of the clock in a minute
          MaxTime,     \* bound on the clock
          NoBucket

VARIABLES now,        \* the clock
          bucket,     \* buckets: tokens and lastFill, or none yet
          lastAdmit,  \* history: when a client was let through last
          level       \* history: the bucket of TokenBucket

vars == <<now, bucket, lastAdmit, level>>

\* NewRateLimiter replaces a limit that is not positive.
PerMinute == IF Configured <= 0 THEN 120 ELSE Configured

Capacity == PerMinute

Ideal == INSTANCE TokenBucket WITH level <- level

Buckets == [tokens : 0 .. Capacity, lastFill : 0 .. MaxTime]

ASSUME ConstantsAssumption ==
  /\ Configured \in Int
  /\ Minute \in Nat \ {0}
  /\ MaxTime \in Nat
  /\ NoBucket \notin Buckets

AtMost(n, limit) == IF n > limit THEN limit ELSE n

----------------------------------------------------------------------------

Init ==
  /\ now = 0
  /\ bucket = [c \in Clients |-> NoBucket]
  /\ lastAdmit = [c \in Clients |-> 0]
  /\ Ideal!Init

Tick ==
  /\ now < MaxTime
  /\ now' = now + 1
  /\ Ideal!Tick
  /\ UNCHANGED <<bucket, lastAdmit>>

Current(c) == IF bucket[c] = NoBucket
              THEN [tokens |-> Capacity, lastFill |-> now]
              ELSE bucket[c]

\* A mutant: a minute is credited as soon as it has begun.
TokensRoundedUp(c) ==
  LET b == Current(c)
  IN  AtMost(b.tokens + ((now - b.lastFill + Minute - 1) \div Minute) * PerMinute,
             Capacity)

\* A mutant: the bucket has no brim.
TokensUncapped(c) ==
  LET b == Current(c)
  IN  b.tokens + ((now - b.lastFill) \div Minute) * PerMinute

\* int(elapsed.Minutes()) * perMin, up to the capacity.
Tokens(c) ==
  LET b == Current(c)
  IN  AtMost(b.tokens + ((now - b.lastFill) \div Minute) * PerMinute, Capacity)

\* lastFill moves with every request, also with one that earned no token.
Deny(c) ==
  /\ Tokens(c) <= 0
  /\ bucket' = [bucket EXCEPT ![c] = [tokens |-> Tokens(c), lastFill |-> now]]
  /\ UNCHANGED <<now, lastAdmit, level>>

Admit(c) ==
  /\ Tokens(c) > 0
  /\ bucket' = [bucket EXCEPT ![c] = [tokens |-> Tokens(c) - 1,
                                      lastFill |-> now]]
  /\ lastAdmit' = [lastAdmit EXCEPT ![c] = now]
  /\ level' = [level EXCEPT ![c] = @ - Minute]
  /\ UNCHANGED now

Next == Tick \/ \E c \in Clients : Deny(c) \/ Admit(c)

Spec == Init /\ [][Next]_vars

----------------------------------------------------------------------------

TypeOK ==
  /\ now \in 0 .. MaxTime
  /\ bucket \in [Clients -> Buckets \cup {NoBucket}]
  /\ lastAdmit \in [Clients -> 0 .. MaxTime]
  /\ level \in [Clients -> Int]

\* However a client spaces its requests, it is let through no more often than
\* a bucket of the configured rate allows: rounding down, topping up to the
\* brim and moving lastFill never add up to a request too many.
NeverOverAdmits == Ideal!Spec

\* A bucket that gets PerMinute tokens a minute refuses a client only if it let
\* the same client through during the last minute.
RefillsEveryMinute ==
  [][\A c \in Clients : Deny(c) => now - lastAdmit[c] < Minute]_vars

============================================================================
