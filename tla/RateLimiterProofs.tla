------------------------- MODULE RateLimiterProofs -------------------------
(***************************************************************************)
(* For every rate, every length of a minute and any number of clients, the *)
(* limiter's types are right and it never admits more than TokenBucket.    *)
(***************************************************************************)
EXTENDS RateLimiter, TLAPS

\* What the bucket of c will be worth, in parts, if it is looked at now: its
\* tokens and the ticks since the last request, the broken minute included.
Worth(c) == bucket[c].tokens * Minute + (now - bucket[c].lastFill) * PerMinute

\* The ideal bucket holds at least what the limiter's bucket is worth.
Covered(c) ==
  /\ level[c] <= Ideal!Full
  /\ bucket[c] = NoBucket => level[c] = Ideal!Full
  /\ bucket[c] # NoBucket =>
       /\ bucket[c].lastFill <= now
       /\ level[c] >= AtMost(Worth(c), Ideal!Full)

IInv == TypeOK /\ \A c \in Clients : Covered(c)

----------------------------------------------------------------------------

LEMMA RateIsPositive == PerMinute \in Nat /\ PerMinute > 0
BY ConstantsAssumption DEF PerMinute

LEMMA FullIsNat == Ideal!Full \in Nat /\ Ideal!Full = PerMinute * Minute
BY ConstantsAssumption, RateIsPositive DEF Ideal!Full, Capacity

LEMMA TimesIsMonotonic ==
  ASSUME NEW a \in Nat, NEW b \in Nat, NEW m \in Nat, a <= b
  PROVE  a * m \in Nat /\ b * m \in Nat /\ a * m <= b * m
<1> DEFINE d == b - a
<1>1. d \in Nat /\ b = a + d
  OBVIOUS
<1>2. (a + d) * m = a * m + d * m
  BY <1>1
<1>3. a * m \in Nat /\ d * m \in Nat
  BY <1>1
<1> HIDE DEF d
<1> QED
  BY <1>1, <1>2, <1>3

\* A whole number of minutes is no longer than the ticks it was taken from.
LEMMA WholeMinutes ==
  ASSUME NEW m \in Nat, m > 0, NEW p \in Nat, NEW e \in Nat
  PROVE  /\ (e \div m) * p \in Nat
         /\ ((e \div m) * p) * m <= e * p
<1>1. e \div m \in Nat /\ (e \div m) * m <= e
  OBVIOUS
<1>2. PICK q \in Nat : q = e \div m
  BY <1>1
<1>3. q * m \in Nat /\ q * m <= e
  BY <1>1, <1>2
<1>4. (q * m) * p <= e * p
  BY <1>3, TimesIsMonotonic
<1>5. (q * p) * m = (q * m) * p /\ q * p \in Nat
  OBVIOUS
<1> QED
  BY <1>2, <1>4, <1>5

\* What a request finds in the bucket.
LEMMA TokensBound ==
  ASSUME IInv, NEW c \in Clients
  PROVE  /\ Tokens(c) \in 0 .. Capacity
         /\ Tokens(c) * Minute \in Nat
         /\ Tokens(c) * Minute <= level[c]
<1> USE ConstantsAssumption
<1> DEFINE b == Current(c)
           e == now - b.lastFill
           g == (e \div Minute) * PerMinute
<1>1. /\ b \in Buckets /\ b.lastFill <= now /\ now \in Nat
      /\ b.tokens \in Nat /\ b.tokens <= Capacity /\ e \in Nat
  <2>1. now \in Nat /\ now <= MaxTime /\ Capacity \in Nat
    BY RateIsPositive DEF IInv, TypeOK, Capacity
  <2>2. CASE bucket[c] = NoBucket
    BY <2>1, <2>2 DEF IInv, TypeOK, Current, Buckets
  <2>3. CASE bucket[c] # NoBucket
    <3>1. bucket[c] \in Buckets /\ bucket[c].lastFill <= now
      BY <2>3 DEF IInv, TypeOK, Covered
    <3> QED
      BY <2>1, <2>3, <3>1 DEF Current, Buckets
  <2> QED
    BY <2>2, <2>3
<1>2. PerMinute \in Nat /\ PerMinute > 0 /\ Capacity = PerMinute
  BY RateIsPositive DEF Capacity
<1>3. g \in Nat /\ g * Minute <= e * PerMinute
  BY <1>1, <1>2, WholeMinutes
<1>4. Tokens(c) = AtMost(b.tokens + g, Capacity)
  BY DEF Tokens
<1>5. Tokens(c) \in 0 .. Capacity
  BY <1>1, <1>2, <1>3, <1>4 DEF AtMost
<1>6. level[c] \in Int /\ level[c] >= AtMost(b.tokens * Minute + e * PerMinute, Ideal!Full)
  <2>1. CASE bucket[c] = NoBucket
    <3>1. b.tokens = Capacity /\ e = 0
      BY <2>1, <1>1 DEF Current
    <3>2. level[c] = Ideal!Full
      BY <2>1 DEF IInv, Covered
    <3>3. e * PerMinute = 0
      BY <3>1, <1>2
    <3> QED
      BY <3>1, <3>2, <3>3, <1>2, FullIsNat DEF AtMost
  <2>2. CASE bucket[c] # NoBucket
    BY <2>2 DEF IInv, TypeOK, Covered, Worth, Current
  <2> QED
    BY <2>1, <2>2
<1>7. /\ b.tokens * Minute \in Nat /\ e * PerMinute \in Nat
      /\ (b.tokens + g) * Minute = b.tokens * Minute + g * Minute
  BY <1>1, <1>2, <1>3
<1>8. CASE b.tokens + g > Capacity
  <2>1. Tokens(c) * Minute = Ideal!Full
    BY <1>2, <1>4, <1>8, FullIsNat DEF AtMost
  <2>2. b.tokens + g \in Nat
    BY <1>1, <1>3
  <2>3. Capacity * Minute <= (b.tokens + g) * Minute
    BY <1>2, <1>8, <2>2, TimesIsMonotonic
  <2>4. g * Minute \in Nat
    BY <1>3
  <2>5. b.tokens * Minute + e * PerMinute >= Ideal!Full
    <3> HIDE DEF b, e, g
    <3> QED
      BY <1>2, <1>3, <1>7, <2>3, <2>4, FullIsNat
  <2>6. level[c] >= Ideal!Full
    <3> HIDE DEF b, e, g
    <3> QED
      BY <1>6, <1>7, <2>5, FullIsNat DEF AtMost
  <2> QED
    BY <1>5, <1>6, <2>1, <2>6, FullIsNat
<1>9. CASE b.tokens + g <= Capacity
  <2>1. Tokens(c) * Minute = b.tokens * Minute + g * Minute
    BY <1>1, <1>2, <1>3, <1>4, <1>7, <1>9 DEF AtMost
  <2>2. Tokens(c) * Minute \in Nat /\ Tokens(c) * Minute <= Ideal!Full
    BY <1>2, <1>5, TimesIsMonotonic, FullIsNat
  <2>3. g * Minute \in Nat
    BY <1>3
  <2>4. Tokens(c) * Minute <= b.tokens * Minute + e * PerMinute
    <3> HIDE DEF b, e, g
    <3> QED
      BY <1>3, <1>7, <2>1, <2>3
  <2>5. Tokens(c) * Minute <= level[c]
    <3> HIDE DEF b, e, g
    <3> QED
      BY <1>6, <1>7, <2>2, <2>4, FullIsNat DEF AtMost
  <2> QED
    BY <1>5, <2>2, <2>5
<1> QED
  BY <1>1, <1>2, <1>3, <1>5, <1>8, <1>9

LEMMA InitEstablishes == Init => IInv
<1> SUFFICES ASSUME Init PROVE IInv
  OBVIOUS
<1> USE ConstantsAssumption
<1>1. TypeOK
  BY FullIsNat DEF Init, Ideal!Init, TypeOK
<1>2. \A c \in Clients : Covered(c)
  <2> SUFFICES ASSUME NEW c \in Clients PROVE Covered(c)
    OBVIOUS
  <2>1. bucket[c] = NoBucket /\ level[c] = Ideal!Full
    BY DEF Init, Ideal!Init
  <2> QED
    BY <2>1, FullIsNat DEF Covered
<1> QED
  BY <1>1, <1>2 DEF IInv

\* A tick adds the same to both buckets, and both have the same brim.
LEMMA TickPreserves == ASSUME IInv, Tick PROVE IInv'
<1> USE ConstantsAssumption
<1>1. TypeOK'
  BY RateIsPositive, FullIsNat DEF IInv, TypeOK, Tick, Ideal!Tick, Ideal!Filled
<1>2. ASSUME NEW c \in Clients PROVE Covered(c)'
  <2>1. /\ now \in Nat /\ now' = now + 1 /\ bucket' = bucket
        /\ level[c] \in Int /\ level[c] <= Ideal!Full
        /\ level'[c] = Ideal!Filled(level[c])
        /\ PerMinute \in Nat
    BY RateIsPositive DEF IInv, TypeOK, Covered, Tick, Ideal!Tick
  <2>2. level'[c] <= Ideal!Full /\ level'[c] >= level[c]
    BY <2>1, FullIsNat DEF Ideal!Filled
  <2>3. CASE bucket[c] = NoBucket
    <3>1. level[c] = Ideal!Full
      BY <2>3 DEF IInv, Covered
    <3>2. level'[c] = Ideal!Full /\ bucket'[c] = NoBucket
      BY <2>1, <2>3, <3>1, FullIsNat DEF Ideal!Filled
    <3> QED
      BY <3>2, FullIsNat DEF Covered
  <2>4. CASE bucket[c] # NoBucket
    <3> DEFINE e == now - bucket[c].lastFill
               t == bucket[c].tokens
    <3>1. e \in Nat /\ t \in Nat /\ bucket[c].lastFill <= now
          /\ bucket[c].lastFill \in Nat
      BY <2>4 DEF IInv, TypeOK, Covered, Buckets, Capacity
    <3>2. (now + 1) - bucket[c].lastFill = e + 1
      BY <2>1, <3>1
    <3>3. (e + 1) * PerMinute = e * PerMinute + PerMinute
      BY <2>1, <3>1
    <3>4. t * Minute \in Nat /\ e * PerMinute \in Nat
      BY <2>1, <3>1
    <3>5. level[c] >= AtMost(t * Minute + e * PerMinute, Ideal!Full)
      BY <2>4 DEF IInv, Covered, Worth
    <3>6. level'[c] >= AtMost(t * Minute + (e + 1) * PerMinute, Ideal!Full)
      BY <2>1, <3>3, <3>4, <3>5, FullIsNat DEF AtMost, Ideal!Filled
    <3>7. Worth(c)' = t * Minute + (e + 1) * PerMinute
      BY <2>1, <3>2 DEF Worth
    <3> QED
      BY <2>1, <2>2, <2>4, <3>1, <3>6, <3>7, FullIsNat DEF Covered
  <2> QED
    BY <2>3, <2>4
<1> QED
  BY <1>1, <1>2 DEF IInv

\* A request looks at its own bucket only, and looks at it now.
LEMMA RequestPreserves ==
  ASSUME IInv, NEW c \in Clients, Deny(c) \/ Admit(c)
  PROVE  /\ IInv'
         /\ Admit(c) => Ideal!Admit(c)
<1> USE ConstantsAssumption
<1>1. /\ Tokens(c) \in 0 .. Capacity
      /\ Tokens(c) * Minute \in Nat
      /\ Tokens(c) * Minute <= level[c]
  BY TokensBound
<1>2. now \in 0 .. MaxTime /\ now' = now /\ Capacity \in Nat
  BY RateIsPositive DEF IInv, TypeOK, Deny, Admit, Capacity
<1>3. Admit(c) => Ideal!Admit(c)
  <2> SUFFICES ASSUME Admit(c) PROVE Ideal!Admit(c)
    OBVIOUS
  <2>1. Tokens(c) \in Nat /\ 1 <= Tokens(c)
    BY <1>1, <1>2 DEF Admit
  <2>2. 1 * Minute <= Tokens(c) * Minute
    BY <2>1, TimesIsMonotonic
  <2>3. Minute <= level[c]
    BY <1>1, <2>2 DEF IInv, TypeOK
  <2> QED
    BY <2>3 DEF Admit, Ideal!Admit
<1>4. TypeOK'
  BY <1>1, <1>2 DEF IInv, TypeOK, Deny, Admit, Buckets
<1>5. ASSUME NEW d \in Clients, d # c PROVE Covered(d)'
  BY <1>2, <1>5 DEF IInv, TypeOK, Covered, Worth, Deny, Admit
<1>6. Covered(c)'
  <2>1. bucket'[c].lastFill = now /\ bucket'[c] \in Buckets
    BY <1>1, <1>2 DEF IInv, TypeOK, Deny, Admit, Buckets
  <2>2. Worth(c)' = bucket'[c].tokens * Minute
    <3>1. now' - bucket'[c].lastFill = 0
      BY <1>2, <2>1
    <3>2. PerMinute \in Nat /\ bucket'[c].tokens * Minute \in Int
      BY <2>1, <1>2, RateIsPositive DEF Buckets
    <3> QED
      BY <3>1, <3>2 DEF Worth
  <2>3. level'[c] >= bucket'[c].tokens * Minute /\ level'[c] <= Ideal!Full
    <3>1. CASE Deny(c)
      BY <1>1, <3>1 DEF Deny, IInv, TypeOK, Covered
    <3>2. CASE Admit(c)
      <4>1. bucket'[c].tokens = Tokens(c) - 1 /\ level'[c] = level[c] - Minute
        BY <3>2 DEF Admit, IInv, TypeOK
      <4>2. (Tokens(c) - 1) * Minute = Tokens(c) * Minute - Minute
        BY <1>1, <1>2
      <4>3. level[c] \in Int /\ level[c] <= Ideal!Full
        BY DEF IInv, TypeOK, Covered
      <4> QED
        BY <1>1, <4>1, <4>2, <4>3, FullIsNat
    <3> QED
      BY <3>1, <3>2
  <2>4. level'[c] \in Int /\ bucket'[c].tokens * Minute \in Nat
    BY <1>2, <1>4, <2>1 DEF TypeOK, Buckets
  <2>5. level'[c] >= AtMost(Worth(c)', Ideal!Full)
    BY <2>2, <2>3, <2>4, FullIsNat DEF AtMost
  <2> QED
    BY <1>2, <2>1, <2>3, <2>5 DEF Covered, AtMost, Worth, Buckets
<1> QED
  BY <1>3, <1>4, <1>5, <1>6 DEF IInv

LEMMA NextPreserves == IInv /\ [Next]_vars => IInv' /\ [Ideal!Next]_level
<1> SUFFICES ASSUME IInv, [Next]_vars PROVE IInv' /\ [Ideal!Next]_level
  OBVIOUS
<1>1. CASE Tick
  BY <1>1, TickPreserves DEF Tick, Ideal!Next
<1>2. ASSUME NEW c \in Clients, Deny(c) PROVE IInv' /\ [Ideal!Next]_level
  BY <1>2, RequestPreserves DEF Deny
<1>3. ASSUME NEW c \in Clients, Admit(c) PROVE IInv' /\ [Ideal!Next]_level
  BY <1>3, RequestPreserves DEF Ideal!Next
<1>4. CASE UNCHANGED vars
  BY <1>4 DEF vars, IInv, TypeOK, Covered, Worth
<1> QED
  BY <1>1, <1>2, <1>3, <1>4 DEF Next

\* Tokens stay between none and the capacity, for every rate and clock.
THEOREM TypeCorrect == Spec => []TypeOK
<1>1. IInv => TypeOK
  BY DEF IInv
<1> QED
  BY <1>1, InitEstablishes, NextPreserves, PTL DEF Spec

\* The limiter implements the token bucket: it admits no request too many.
THEOREM LimiterImplementsTokenBucket == Spec => NeverOverAdmits
<1>1. Init => Ideal!Init
  BY DEF Init
<1> QED
  BY <1>1, InitEstablishes, NextPreserves, PTL
     DEF Spec, NeverOverAdmits, Ideal!Spec

============================================================================
