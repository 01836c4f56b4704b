-------------------------- MODULE PagedListsProofs --------------------------
(***************************************************************************)
(* For any table, any dates and any size of a page: what a user who turns  *)
(* the pages of a changing list may miss, and that the pages of a list     *)
(* that does not change partition it.                                      *)
(***************************************************************************)
EXTENDS PagedLists, FiniteSetTheorems, TLAPS

\* The rows that are in front of r.
Ahead(r) == {x \in listed : date[x] > date[r]}

Turning == pc \in {"count", "read", "shown"}

\* How many places of the list the pages read so far have covered.
Walked == IF pc = "shown" THEN page * size ELSE Offset(page, size)

\* A row that the walk still owes the user has not slipped behind it.
InPlace ==
  Turning => \A r \in Missed : Cardinality(Ahead(r)) >= Walked

\* Between count and read rows only leave, but for the late ones.
CountIsEnough ==
  pc = "read" => Cardinality(listed \ late) <= total

\* The page that the pager calls the last one owes no more than came in late.
LastPageOwesLate ==
  pc = "shown" /\ page * size >= total => Cardinality(Missed) <= Cardinality(late)

\* Nothing moves in a list that does not change.
QuietStands ==
  quiet /\ (Turning \/ pc = "end") =>
    /\ stayed = listed /\ shifted = {}
    /\ pc # "count" => total = Cardinality(listed)

\* What was shown of it, once, is the part the walk has covered.
QuietPages ==
  quiet /\ Turning =>
    /\ seen \subseteq listed
    /\ \A r \in seen : Alone(r) => r \notin again /\ Cardinality(Ahead(r)) < Walked

IInv == /\ TypeOK
        /\ InPlace
        /\ CountIsEnough
        /\ LastPageOwesLate
        /\ QuietStands
        /\ QuietPages
        /\ WalkMissesNothing
        /\ QuietWalkIsExact

----------------------------------------------------------------------------

\* Parts of a finite set are finite and no larger.
LEMMA Part ==
  ASSUME NEW S, IsFiniteSet(S), NEW T \in SUBSET S
  PROVE  /\ IsFiniteSet(T) /\ Cardinality(T) \in Nat
         /\ Cardinality(S) \in Nat /\ Cardinality(T) <= Cardinality(S)
BY FS_Subset, FS_CardinalityType

\* A part that lacks an element is smaller.
LEMMA ProperPart ==
  ASSUME NEW S, IsFiniteSet(S), NEW T \in SUBSET S, NEW x \in S, x \notin T
  PROVE  Cardinality(T) < Cardinality(S)
<1>1. Cardinality(T) <= Cardinality(S) /\ Cardinality(T) # Cardinality(S)
  BY FS_Subset
<1> QED
  BY <1>1, Part

\* Sets that have nothing in common count for themselves.
LEMMA ApartUnion ==
  ASSUME NEW S, NEW T, IsFiniteSet(S), IsFiniteSet(T), S \cap T = {}
  PROVE  Cardinality(S \cup T) = Cardinality(S) + Cardinality(T)
<1>1. Cardinality(S \cup T) = Cardinality(S) + Cardinality(T) - Cardinality(S \cap T)
  BY FS_Union, Zenon
<1>2. Cardinality({}) = 0
  BY FS_EmptySet, Zenon
<1>3. Cardinality(S \cap T) = 0
  BY <1>2, Zenon
<1>4. Cardinality(S) \in Nat /\ Cardinality(T) \in Nat
  BY FS_CardinalityType
<1> QED
  BY <1>1, <1>3, <1>4

\* The rows in front of a row are rows of the list, and fewer than all.
LEMMA AheadIsPart ==
  ASSUME TypeOK, NEW r
  PROVE  /\ IsFiniteSet(listed) /\ Cardinality(listed) \in Nat
         /\ Cardinality(listed) <= Cardinality(Rows)
         /\ IsFiniteSet(Ahead(r)) /\ Cardinality(Ahead(r)) \in Nat
         /\ Cardinality(Ahead(r)) <= Cardinality(listed)
         /\ r \in listed => Cardinality(Ahead(r)) < Cardinality(listed)
<1>1. listed \in SUBSET Rows /\ IsFiniteSet(Rows)
  BY ConstantsAssumption DEF TypeOK
<1>2. IsFiniteSet(listed) /\ Cardinality(listed) \in Nat
      /\ Cardinality(listed) <= Cardinality(Rows)
  BY <1>1, Part
<1>3. Ahead(r) \in SUBSET listed
  BY DEF Ahead
<1>4. IsFiniteSet(Ahead(r)) /\ Cardinality(Ahead(r)) \in Nat
      /\ Cardinality(Ahead(r)) <= Cardinality(listed)
  BY <1>2, <1>3, Part
<1>5. ASSUME r \in listed PROVE Cardinality(Ahead(r)) < Cardinality(listed)
  <2>1. date[r] \in Int
    BY <1>1, <1>5, ConstantsAssumption DEF TypeOK
  <2>2. r \notin Ahead(r)
    BY <2>1 DEF Ahead
  <2> QED
    BY <1>2, <1>3, <1>5, <2>2, ProperPart
<1> QED
  BY <1>2, <1>4, <1>5

\* The offsets of consecutive pages are a page apart, and the first is 0.
LEMMA Offsets ==
  ASSUME NEW p \in Nat \ {0}, NEW n \in Nat \ {0}
  PROVE  /\ Offset(p, n) \in Nat /\ p * n \in Nat
         /\ Offset(p, n) + n = p * n
         /\ Offset(p + 1, n) = p * n
         /\ Offset(1, n) = 0
<1>1. ASSUME NEW a \in Nat, NEW m \in Nat
      PROVE  a * m \in Nat /\ a * m + m = (a + 1) * m
  OBVIOUS
<1> DEFINE a == p - 1
<1>2. a \in Nat /\ a + 1 = p /\ (p + 1) - 1 = p /\ n \in Nat /\ p \in Nat
  OBVIOUS
<1>3. a * n \in Nat /\ a * n + n = p * n
  BY <1>1, <1>2
<1>4. p * n \in Nat
  BY <1>1, <1>2
<1>5. ((p + 1) - 1) * n = p * n /\ (1 - 1) * n = 0
  BY <1>2
<1> QED
  BY <1>3, <1>4, <1>5 DEF Offset

\* Whatever the order of rows that share a date, one that shares it with none has
\* its place, and a page holds it if that place is from the offset on and within
\* the limit.  What such rows of later pages leave is room for a full page before.
LEMMA PageOfOrder ==
  ASSUME TypeOK, NEW offset \in Nat, NEW limit \in Nat \ {0},
         NEW S \in Pages(listed, offset, limit)
  PROVE  /\ S \subseteq listed
         /\ \A r \in S : Alone(r) =>
              /\ offset <= Cardinality(Ahead(r))
              /\ Cardinality(Ahead(r)) < offset + limit
         /\ \A r \in listed \ S :
              Alone(r) /\ Cardinality(Ahead(r)) >= offset
                => Cardinality(Ahead(r)) >= offset + limit
         /\ \A U \in SUBSET (listed \ S) :
              U # {} /\ (\A r \in U : Alone(r) /\ Cardinality(Ahead(r)) >= offset)
                => Cardinality(U) + (offset + limit) <= Cardinality(listed)
<1>1. S \subseteq listed
  BY DEF Pages
<1>2. PICK before \in SUBSET (listed \ S) :
        /\ Cardinality(before) = IF offset < Cardinality(listed) THEN offset
                                 ELSE Cardinality(listed)
        /\ \/ Cardinality(S) = limit
           \/ Cardinality(S) < limit /\ before \cup S = listed
        /\ InOrder(before, listed \ before)
        /\ InOrder(S, listed \ (before \cup S))
  BY DEF Pages
<1> DEFINE shownBy == before \cup S
<1>3. /\ IsFiniteSet(listed) /\ Cardinality(listed) \in Nat
      /\ \A r \in listed : IsFiniteSet(Ahead(r)) /\ Cardinality(Ahead(r)) \in Nat
                           /\ Cardinality(Ahead(r)) < Cardinality(listed)
  BY AheadIsPart
<1>4. /\ before \subseteq listed /\ shownBy \subseteq listed /\ before \cap S = {}
  BY <1>1, <1>2
<1>5. /\ IsFiniteSet(before) /\ IsFiniteSet(S) /\ IsFiniteSet(shownBy)
      /\ Cardinality(before) \in Nat /\ Cardinality(S) \in Nat
      /\ Cardinality(shownBy) \in Nat
  BY <1>1, <1>3, <1>4, Part
<1>6. Cardinality(shownBy) = Cardinality(before) + Cardinality(S)
  BY <1>4, <1>5, ApartUnion
<1>7. \A x, y \in listed : date[x] \in Int /\ date[y] \in Int
  <2>1. listed \subseteq Rows /\ date \in [Rows -> Int]
    BY ConstantsAssumption DEF TypeOK
  <2> QED
    BY <2>1
<1>8. \A r, x \in listed : Alone(r) /\ r # x => (date[x] > date[r] \/ date[r] > date[x])
  <2>1. \A r, x \in listed : Alone(r) /\ r # x => date[x] # date[r]
    BY DEF TypeOK, Alone
  <2> QED
    BY <1>7, <2>1
<1>9. /\ \A x \in before, r \in listed \ before : date[x] >= date[r]
      /\ \A x \in shownBy, r \in listed \ shownBy : date[x] >= date[r]
  BY <1>1, <1>2, <1>4 DEF InOrder
<1>10. ASSUME NEW r \in listed, Alone(r)
       PROVE  /\ r \notin before => before \in SUBSET Ahead(r)
              /\ r \notin shownBy => shownBy \in SUBSET Ahead(r)
              /\ r \in before => Ahead(r) \in SUBSET before
              /\ r \in shownBy => Ahead(r) \in SUBSET shownBy
              /\ r \notin Ahead(r)
  <2>1. ASSUME NEW T, T \subseteq listed, \A x \in T, y \in listed \ T : date[x] >= date[y]
        PROVE  /\ r \notin T => T \in SUBSET Ahead(r)
               /\ r \in T => Ahead(r) \in SUBSET T
    <3>1. ASSUME r \notin T, NEW x \in T PROVE x \in Ahead(r)
      <4>1. x \in listed /\ x # r /\ date[x] >= date[r]
        BY <2>1, <3>1
      <4> QED
        BY <1>7, <1>8, <1>10, <4>1 DEF Ahead
    <3>2. ASSUME r \in T, NEW x \in Ahead(r) PROVE x \in T
      <4>1. x \in listed /\ date[x] > date[r]
        BY <3>2 DEF Ahead
      <4>2. x \notin T => date[r] >= date[x]
        BY <2>1, <3>2, <4>1
      <4> QED
        BY <1>7, <1>10, <4>1, <4>2
    <3> QED
      BY <3>1, <3>2
  <2>2. r \notin Ahead(r)
    BY <1>7 DEF Ahead
  <2> QED
    BY <1>4, <1>9, <2>1, <2>2
<1>11. ASSUME NEW r \in listed, Alone(r), r \notin before
       PROVE  Cardinality(before) <= Cardinality(Ahead(r)) /\ Cardinality(before) = offset
  <2>1. Cardinality(before) <= Cardinality(Ahead(r))
    BY <1>3, <1>10, <1>11, Part
  <2> QED
    BY <1>2, <1>3, <1>5, <1>11, <2>1
<1>12. ASSUME NEW r \in listed, Alone(r), r \notin shownBy
       PROVE  Cardinality(shownBy) <= Cardinality(Ahead(r))
  BY <1>3, <1>10, <1>12, Part
<1>13. ASSUME NEW r \in before, Alone(r) PROVE Cardinality(Ahead(r)) < offset
  <2>1. r \in listed /\ Ahead(r) \in SUBSET before /\ r \notin Ahead(r)
    BY <1>4, <1>10, <1>13
  <2>2. Cardinality(Ahead(r)) < Cardinality(before)
    BY <1>5, <2>1, ProperPart
  <2> QED
    BY <1>2, <1>3, <1>5, <2>1, <2>2
<1>14. ASSUME NEW r \in S, Alone(r)
       PROVE  offset <= Cardinality(Ahead(r)) /\ Cardinality(Ahead(r)) < offset + limit
  <2>1. r \in listed /\ r \notin before /\ r \in shownBy
    BY <1>1, <1>4
  <2>2. Cardinality(before) = offset /\ Cardinality(before) <= Cardinality(Ahead(r))
    BY <1>11, <1>14, <2>1
  <2>3. Cardinality(S) <= limit
    BY <1>2, <1>5
  <2>4. Cardinality(Ahead(r)) < Cardinality(shownBy)
    BY <1>5, <1>10, <1>14, <2>1, ProperPart
  <2>5. Cardinality(Ahead(r)) \in Nat
    BY <1>3, <2>1
  <2> HIDE DEF shownBy
  <2> QED
    BY <1>5, <1>6, <2>2, <2>3, <2>4, <2>5
<1>15. ASSUME NEW r \in listed \ S, Alone(r), Cardinality(Ahead(r)) >= offset
       PROVE  /\ r \notin shownBy
              /\ Cardinality(shownBy) = offset + limit
              /\ Cardinality(Ahead(r)) >= offset + limit
  <2>1. r \notin before /\ r \notin shownBy
    BY <1>3, <1>13, <1>15
  <2>2. Cardinality(before) = offset
    BY <1>11, <1>15, <2>1
  <2>3. Cardinality(S) = limit
    BY <1>2, <2>1
  <2>4. Cardinality(shownBy) <= Cardinality(Ahead(r))
    BY <1>12, <1>15, <2>1
  <2> HIDE DEF shownBy
  <2> QED
    BY <1>3, <1>6, <2>1, <2>2, <2>3, <2>4
<1>16. ASSUME NEW U \in SUBSET (listed \ S), U # {},
              \A r \in U : Alone(r) /\ Cardinality(Ahead(r)) >= offset
       PROVE  Cardinality(U) + (offset + limit) <= Cardinality(listed)
  <2>1. \A r \in U : r \notin shownBy /\ Cardinality(shownBy) = offset + limit
    BY <1>15, <1>16
  <2>2. U \in SUBSET listed /\ U \cap shownBy = {} /\ Cardinality(shownBy) = offset + limit
    BY <1>16, <2>1
  <2>3. IsFiniteSet(U) /\ Cardinality(U) \in Nat
    BY <1>3, <2>2, Part
  <2> HIDE DEF shownBy
  <2>4. Cardinality(U \cup shownBy) = Cardinality(U) + Cardinality(shownBy)
    BY <1>5, <2>2, <2>3, ApartUnion
  <2>5. Cardinality(U \cup shownBy) <= Cardinality(listed)
    <3>1. U \cup shownBy \in SUBSET listed
      BY <1>4, <2>2
    <3> QED
      BY <1>3, <3>1, Part
  <2> QED
    BY <2>2, <2>4, <2>5
<1> QED
  BY <1>1, <1>14, <1>15, <1>16

----------------------------------------------------------------------------

LEMMA WalkIsCounted ==
  ASSUME TypeOK
  PROVE  /\ page \in Nat \ {0} /\ size \in Nat \ {0} /\ total \in Nat
         /\ Walked \in Nat /\ Offset(page, size) \in Nat /\ page * size \in Nat
         /\ Offset(page, size) + size = page * size
         /\ Offset(page + 1, size) = page * size
<1>1. page \in Nat \ {0} /\ size \in Nat \ {0}
  BY ConstantsAssumption DEF TypeOK, Sizes
<1>2. total \in Nat
  BY ConstantsAssumption, FS_CardinalityType DEF TypeOK
<1> QED
  BY <1>1, <1>2, Offsets DEF Walked

\* What is owed is a part of the list.
LEMMA MissedIsPart ==
  ASSUME TypeOK
  PROVE  /\ Missed \in SUBSET listed
         /\ IsFiniteSet(Missed) /\ Cardinality(Missed) \in Nat
<1>1. Missed \in SUBSET listed
  BY DEF Missed, TypeOK
<1> QED
  BY <1>1, AheadIsPart, Part

\* What is late is finite.
LEMMA LateIsPart ==
  ASSUME TypeOK
  PROVE  IsFiniteSet(late) /\ Cardinality(late) \in Nat
BY ConstantsAssumption, Part DEF TypeOK

\* The list is no longer than what the count saw and what came in since.
LEMMA ListedIsCounted ==
  ASSUME TypeOK
  PROVE  /\ Cardinality(listed \ late) \in Nat
         /\ Cardinality(listed) <= Cardinality(listed \ late) + Cardinality(late)
<1>1. IsFiniteSet(listed) /\ IsFiniteSet(late) /\ Cardinality(late) \in Nat
  BY AheadIsPart, LateIsPart
<1> DEFINE A == listed \ late
           B == listed \cap late
<1>2. IsFiniteSet(A) /\ Cardinality(A) \in Nat
  BY <1>1, Part
<1>3. IsFiniteSet(B) /\ Cardinality(B) \in Nat /\ Cardinality(B) <= Cardinality(late)
  <2>1. B \in SUBSET late
    OBVIOUS
  <2> QED
    BY <1>1, <2>1, Part
<1>4. listed = A \cup B /\ A \cap B = {}
  OBVIOUS
<1>5. Cardinality(listed) = Cardinality(A) + Cardinality(B)
  BY <1>2, <1>3, <1>4, ApartUnion
<1> HIDE DEF A, B
<1>6. Cardinality(listed) <= Cardinality(A) + Cardinality(late)
  BY <1>1, <1>2, <1>3, <1>5
<1> QED
  BY <1>2, <1>6 DEF A

\* Fewer rows are owed when some are shown, moved up or gone.
LEMMA MissedShrinks ==
  ASSUME TypeOK, date' = date, seen \subseteq seen', shifted \subseteq shifted',
         stayed' \subseteq stayed
  PROVE  /\ Missed' \in SUBSET Missed
         /\ Cardinality(Missed') \in Nat /\ Cardinality(Missed') <= Cardinality(Missed)
<1>1. Missed' \in SUBSET Missed
  BY DEF Missed, Alone
<1> QED
  BY <1>1, MissedIsPart, Part

\* A row that a quiet walk has not shown is behind all it has covered.
LEMMA QuietOwesTheRest ==
  ASSUME IInv, quiet, Turning, NEW r \in listed \ seen, Alone(r)
  PROVE  Cardinality(Ahead(r)) >= Walked
BY DEF IInv, InPlace, QuietStands, Turning, Missed

LEMMA InitEstablishes == Init => IInv
<1> SUFFICES ASSUME Init PROVE IInv
  OBVIOUS
<1>1. TypeOK
  <2>1. Cardinality(Rows) \in Nat /\ 1 \in 1 .. MaxPage /\ 0 \in 0 .. Cardinality(Rows)
    BY ConstantsAssumption, FS_CardinalityType
  <2>2. /\ listed \in SUBSET Rows /\ page \in 1 .. MaxPage /\ total \in 0 .. Cardinality(Rows)
        /\ seen = {} /\ again = {} /\ stayed = {} /\ shifted = {}
        /\ date \in [Rows -> Dates] /\ pc = "idle" /\ quiet = TRUE /\ late = {}
    BY <2>1 DEF Init
  <2>3. size \in {n \in Sizes : n > 0}
    BY DEF Init, Sizes
  <2> QED
    BY <2>2, <2>3 DEF TypeOK
<1> QED
  BY <1>1 DEF Init, IInv, InPlace, CountIsEnough, LastPageOwesLate, QuietStands,
    QuietPages, Turning, WalkMissesNothing, QuietWalkIsExact

\* The rows in front of a row depend on the table only.
LEMMA SameOrder ==
  ASSUME date' = date, listed' = listed
  PROVE  \A r : Ahead(r)' = Ahead(r) /\ Alone(r)' = Alone(r)
BY DEF Ahead, Alone

\* A list opens at its first page, where nothing is owed yet.
LEMMA OpenStep == ASSUME IInv, Open PROVE IInv'
<1>1. PICK p \in AskedPages, n \in AskedSizes :
        page' = Normalized(p, 1) /\ size' = Normalized(n, 10)
  BY DEF Open
<1>2. page' = 1 /\ size' \in {m \in Sizes : m > 0}
  BY <1>1, ConstantsAssumption DEF Normalized, Sizes
<1>3. /\ pc' = "count" /\ total' = 0 /\ date' = date /\ listed' = listed
      /\ seen' = {} /\ again' = {} /\ stayed' = listed /\ shifted' = {}
      /\ quiet' = TRUE /\ late' = {}
  BY DEF Open
<1>4. TypeOK'
  <2>1. 1 \in 1 .. MaxPage /\ 0 \in 0 .. Cardinality(Rows)
    BY ConstantsAssumption, FS_CardinalityType
  <2> QED
    BY <1>2, <1>3, <2>1 DEF IInv, TypeOK, Sizes
<1>5. Walked' = 0
  <2>1. size' \in Nat \ {0}
    BY <1>2, ConstantsAssumption DEF Sizes
  <2>2. Offset(1, size') = 0
    BY <2>1, Offsets
  <2> QED
    BY <1>2, <1>3, <2>2 DEF Walked
<1>6. InPlace'
  <2>1. ASSUME NEW r PROVE Cardinality(Ahead(r))' \in Nat
    BY <1>3, SameOrder, AheadIsPart DEF IInv
  <2> QED
    BY <1>3, <1>5, <2>1 DEF InPlace
<1> QED
  BY <1>3, <1>4, <1>6 DEF IInv, CountIsEnough, LastPageOwesLate, QuietStands,
    QuietPages, WalkMissesNothing, QuietWalkIsExact

LEMMA CountStep == ASSUME IInv, Count PROVE IInv'
<1>1. /\ pc = "count" /\ pc' = "read" /\ total' = Cardinality(listed) /\ late' = {}
      /\ UNCHANGED <<date, listed, page, size, seen, again, stayed, shifted, quiet>>
  BY DEF Count, CountRows
<1>2. \A r : Ahead(r)' = Ahead(r) /\ Alone(r)' = Alone(r)
  BY <1>1, SameOrder
<1>3. Cardinality(listed) \in Nat /\ Cardinality(listed) <= Cardinality(Rows)
      /\ Cardinality(Rows) \in Nat
  BY AheadIsPart, ConstantsAssumption, FS_CardinalityType DEF IInv
<1>4. TypeOK'
  <2>1. total' \in 0 .. Cardinality(Rows)
    BY <1>1, <1>3
  <2> QED
    BY <1>1, <2>1 DEF IInv, TypeOK
<1>5. Walked' = Walked /\ Turning /\ Turning'
  BY <1>1 DEF Walked, Turning, Offset
<1>6. InPlace'
  <2>1. Missed' = Missed
    BY <1>1, <1>2 DEF Missed
  <2> QED
    BY <1>2, <1>5, <2>1 DEF IInv, InPlace
<1>7. CountIsEnough'
  <2>1. listed' \ late' = listed
    BY <1>1
  <2> QED
    BY <1>1, <1>3, <2>1 DEF CountIsEnough
<1>8. QuietStands'
  BY <1>1, <1>5 DEF IInv, QuietStands
<1>9. QuietPages'
  BY <1>1, <1>2, <1>5 DEF IInv, QuietPages
<1> QED
  BY <1>1, <1>4, <1>6, <1>7, <1>8, <1>9 DEF IInv, LastPageOwesLate,
    WalkMissesNothing, QuietWalkIsExact

\* A page shows its part of the order, and what it does not show is behind it.
LEMMA ReadStep == ASSUME IInv, Read PROVE IInv'
<1>1. PICK S \in Pages(listed, Offset(page, size), size) :
        seen' = seen \cup S /\ again' = again \cup (S \cap seen)
  BY DEF Read
<1>2. /\ pc = "read" /\ pc' = "shown"
      /\ UNCHANGED <<date, listed, page, size, total, stayed, shifted, quiet, late>>
  BY DEF Read
<1>3. \A r : Ahead(r)' = Ahead(r) /\ Alone(r)' = Alone(r)
  BY <1>2, SameOrder
<1>4. S \subseteq listed
  BY DEF Pages
<1>5. TypeOK'
  BY <1>1, <1>2, <1>4 DEF IInv, TypeOK
<1>6. /\ Turning /\ Turning' /\ Walked = Offset(page, size) /\ Walked' = Walked + size
      /\ Walked \in Nat /\ Walked' = page * size /\ page * size \in Nat
      /\ size \in Nat \ {0} /\ total \in Nat
  <2>1. Walked = Offset(page, size) /\ Walked' = page * size
    BY <1>2 DEF Walked
  <2> QED
    BY <1>2, <2>1, WalkIsCounted DEF IInv, Turning
<1>7. \A r \in listed : Cardinality(Ahead(r)) \in Nat
                        /\ Cardinality(Ahead(r)) < Cardinality(listed)
  BY AheadIsPart DEF IInv
<1>8. /\ \A r \in S : Alone(r) =>
           Walked <= Cardinality(Ahead(r)) /\ Cardinality(Ahead(r)) < Walked'
      /\ \A r \in listed \ S :
           Alone(r) /\ Cardinality(Ahead(r)) >= Walked => Cardinality(Ahead(r)) >= Walked'
      /\ \A U \in SUBSET (listed \ S) :
           U # {} /\ (\A r \in U : Alone(r) /\ Cardinality(Ahead(r)) >= Walked)
             => Cardinality(U) + Walked' <= Cardinality(listed)
  BY <1>6, PageOfOrder DEF IInv
<1>9. /\ Missed' \in SUBSET (listed \ S)
      /\ \A r \in Missed' : /\ Alone(r) /\ Cardinality(Ahead(r)) >= Walked
                            /\ Cardinality(Ahead(r)) >= Walked'
  <2> SUFFICES ASSUME NEW r \in Missed'
               PROVE  /\ r \in listed \ S /\ Alone(r)
                      /\ Cardinality(Ahead(r)) >= Walked
                      /\ Cardinality(Ahead(r)) >= Walked'
    OBVIOUS
  <2>1. r \in listed \ S /\ r \in Missed /\ Alone(r)
    BY <1>1, <1>2, <1>3 DEF IInv, TypeOK, Missed
  <2>2. Cardinality(Ahead(r)) >= Walked
    BY <1>6, <2>1 DEF IInv, InPlace
  <2> QED
    BY <1>8, <2>1, <2>2
<1>10. InPlace'
  BY <1>3, <1>9 DEF InPlace
<1>11. LastPageOwesLate'
  <2> PICK U : U = Missed'
    OBVIOUS
  <2> SUFFICES ASSUME page * size >= total
               PROVE  Cardinality(U) <= Cardinality(late)
    BY <1>2 DEF LastPageOwesLate
  <2>1. Cardinality(late) \in Nat /\ Cardinality(U) \in Nat
    BY <1>1, <1>2, LateIsPart, MissedShrinks DEF IInv
  <2>2. CASE U = {}
    BY <2>1, <2>2, FS_EmptySet
  <2>3. CASE U # {}
    <3>1. Cardinality(U) + page * size <= Cardinality(listed)
      BY <1>6, <1>8, <1>9, <2>3
    <3>2. /\ Cardinality(listed) <= Cardinality(listed \ late) + Cardinality(late)
          /\ Cardinality(listed \ late) <= total
          /\ Cardinality(listed \ late) \in Nat /\ Cardinality(listed) \in Nat
      BY <1>2, ListedIsCounted, AheadIsPart DEF IInv, CountIsEnough
    <3> QED
      BY <1>6, <2>1, <3>1, <3>2
  <2> QED
    BY <2>2, <2>3
<1>12. QuietStands'
  BY <1>2, <1>6 DEF IInv, QuietStands
<1>13. QuietPages'
  <2> SUFFICES ASSUME quiet
               PROVE  /\ seen' \subseteq listed
                      /\ \A r \in seen' : Alone(r) =>
                           r \notin again' /\ Cardinality(Ahead(r)) < Walked'
    BY <1>2, <1>3 DEF QuietPages
  <2>1. /\ seen \subseteq listed
        /\ \A r \in seen : Alone(r) =>
             r \notin again /\ Cardinality(Ahead(r)) < Walked
    BY <1>6 DEF IInv, QuietPages
  <2>2. \A r \in S \cap seen : ~Alone(r)
    BY <1>4, <1>6, <1>7, <1>8, <2>1
  <2>3. \A r \in seen : Alone(r) => Cardinality(Ahead(r)) < Walked'
    BY <1>6, <1>7, <2>1
  <2>4. again \subseteq seen
    BY DEF IInv, TypeOK
  <2> QED
    BY <1>1, <1>4, <1>8, <2>1, <2>2, <2>3, <2>4
<1> QED
  BY <1>2, <1>5, <1>10, <1>11, <1>12, <1>13 DEF IInv, CountIsEnough,
    WalkMissesNothing, QuietWalkIsExact

\* The next page begins where this one ended; the last one leaves nothing owed.
LEMMA TurnStep == ASSUME IInv, Turn PROVE IInv'
<1>1. /\ pc = "shown" /\ Turning
      /\ UNCHANGED <<date, listed, size, total, seen, again, stayed, shifted, quiet, late>>
  BY DEF Turn, Turning
<1>2. \A r : Ahead(r)' = Ahead(r) /\ Alone(r)' = Alone(r)
  BY <1>1, SameOrder
<1>3. CASE page * size < total /\ page < MaxPage /\ page' = page + 1 /\ pc' = "count"
  <2>1. TypeOK'
    <3>1. page' \in 1 .. MaxPage
      BY <1>3, ConstantsAssumption DEF IInv, TypeOK
    <3> QED
      BY <1>1, <1>3, <3>1 DEF IInv, TypeOK, Sizes
  <2>2. Walked' = Walked /\ Turning'
    <3>1. Walked = page * size /\ Walked' = Offset(page', size')
      BY <1>1, <1>3 DEF Walked
    <3> QED
      BY <1>1, <1>3, <3>1, WalkIsCounted DEF IInv, Turning
  <2>3. InPlace'
    <3>1. Missed' = Missed
      BY <1>1, <1>2 DEF Missed
    <3> QED
      BY <1>1, <1>2, <2>2, <3>1 DEF IInv, InPlace
  <2>4. QuietStands'
    BY <1>1, <1>3, <2>2 DEF IInv, QuietStands
  <2>5. QuietPages'
    BY <1>1, <1>2, <2>2 DEF IInv, QuietPages
  <2> QED
    BY <1>3, <2>1, <2>3, <2>4, <2>5 DEF IInv, CountIsEnough, LastPageOwesLate,
      WalkMissesNothing, QuietWalkIsExact
<1>4. CASE page * size >= total /\ pc' = "end" /\ page' = page
  <2>1. TypeOK'
    BY <1>1, <1>4 DEF IInv, TypeOK
  <2>2. ~Turning'
    BY <1>4 DEF Turning
  <2>3. WalkMissesNothing'
    <3>1. Missed' = Missed
      BY <1>1, <1>2 DEF Missed
    <3> QED
      BY <1>1, <1>4, <3>1 DEF IInv, LastPageOwesLate, WalkMissesNothing
  <2>4. QuietStands'
    BY <1>1, <1>4 DEF IInv, QuietStands
  <2>5. QuietWalkIsExact'
    <3> SUFFICES ASSUME quiet
                 PROVE  /\ total = Cardinality(listed) /\ seen \subseteq listed
                        /\ \A r \in listed : Alone(r) => r \in seen /\ r \notin again
      BY <1>1, <1>2 DEF QuietWalkIsExact
    <3>1. /\ total = Cardinality(listed) /\ seen \subseteq listed
          /\ \A r \in seen : Alone(r) => r \notin again
      BY <1>1 DEF IInv, QuietStands, QuietPages
    <3>2. ASSUME NEW r \in listed \ seen, Alone(r) PROVE FALSE
      <4>1. Cardinality(Ahead(r)) >= page * size
        BY <1>1, <3>2, QuietOwesTheRest DEF Walked
      <4>2. Cardinality(Ahead(r)) < total /\ Cardinality(Ahead(r)) \in Nat
        BY <3>1, AheadIsPart DEF IInv
      <4> QED
        BY <1>4, <4>1, <4>2, WalkIsCounted DEF IInv
    <3> QED
      BY <3>1, <3>2
  <2> QED
    BY <1>4, <2>1, <2>2, <2>3, <2>4, <2>5 DEF IInv, InPlace, CountIsEnough,
      LastPageOwesLate, QuietPages
<1> QED
  BY <1>3, <1>4 DEF Turn

LEMMA FailStep == ASSUME IInv, Fail PROVE IInv'
<1>1. /\ pc' = "idle"
      /\ UNCHANGED <<date, listed, page, size, total, seen, again, stayed, shifted, quiet, late>>
  BY DEF Fail, walkVars
<1>2. TypeOK'
  BY <1>1 DEF IInv, TypeOK
<1> QED
  BY <1>1, <1>2 DEF IInv, InPlace, CountIsEnough, LastPageOwesLate, QuietStands,
    QuietPages, Turning, WalkMissesNothing, QuietWalkIsExact

\* Who comes in pushes others back, never forward.
LEMMA EnterStep == ASSUME IInv, NEW r \in Rows, Enter(r) PROVE IInv'
<1>1. /\ listed' = listed \cup {r} /\ quiet' = FALSE /\ r \notin listed
      /\ late' = IF pc = "read" THEN late \cup {r} ELSE late
      /\ UNCHANGED <<date, pc, page, size, total, seen, again, stayed, shifted>>
  BY DEF Enter
<1>2. TypeOK'
  BY <1>1 DEF IInv, TypeOK
<1>3. Missed' = Missed /\ Walked' = Walked /\ Turning' = Turning
  BY <1>1 DEF Missed, Alone, Walked, Turning
<1>4. ASSUME NEW x
      PROVE  Cardinality(Ahead(x)') >= Cardinality(Ahead(x))
  <2>1. IsFiniteSet(listed')
    BY <1>1, AheadIsPart, FS_AddElement DEF IInv
  <2>2. Ahead(x)' \in SUBSET listed' /\ Ahead(x) \in SUBSET Ahead(x)'
    BY <1>1 DEF Ahead
  <2>3. IsFiniteSet(Ahead(x)')
    BY <2>1, <2>2, Part
  <2> QED
    BY <2>2, <2>3, Part
<1>5. InPlace'
  <2> SUFFICES ASSUME Turning, NEW x \in Missed
               PROVE  Cardinality(Ahead(x)') >= Walked
    BY <1>1, <1>3 DEF InPlace
  <2>1. Cardinality(Ahead(x)) >= Walked
    BY DEF IInv, InPlace
  <2>2. IsFiniteSet(Ahead(x)') /\ Cardinality(Ahead(x)') \in Nat
    <3>1. IsFiniteSet(listed') /\ Ahead(x)' \in SUBSET listed'
      BY <1>1, AheadIsPart, FS_AddElement DEF IInv, Ahead
    <3> QED
      BY <3>1, Part
  <2> QED
    BY <1>4, <2>1, <2>2, WalkIsCounted, AheadIsPart DEF IInv
<1>6. CountIsEnough'
  <2>1. pc = "read" => listed' \ late' \in SUBSET (listed \ late)
    BY <1>1
  <2>2. IsFiniteSet(listed \ late) /\ Cardinality(listed \ late) \in Nat
    BY AheadIsPart, Part DEF IInv
  <2>3. pc = "read" => /\ Cardinality(listed' \ late') <= Cardinality(listed \ late)
                       /\ Cardinality(listed' \ late') \in Nat
    BY <2>1, <2>2, Part
  <2> QED
    BY <1>1, <2>2, <2>3, WalkIsCounted DEF IInv, CountIsEnough
<1>7. LastPageOwesLate' /\ WalkMissesNothing'
  BY <1>1, <1>3 DEF IInv, LastPageOwesLate, WalkMissesNothing
<1> QED
  BY <1>1, <1>2, <1>5, <1>6, <1>7 DEF IInv, QuietStands, QuietPages, QuietWalkIsExact

\* Who leaves moves up the rows behind it; those still owed among them are noted.
LEMMA LeaveStep == ASSUME IInv, NEW r \in Rows, Leave(r) PROVE IInv'
<1>1. /\ r \in listed /\ listed' = listed \ {r} /\ stayed' = stayed \ {r}
      /\ shifted' = shifted \cup {x \in stayed \ seen : date[x] < date[r]}
      /\ quiet' = FALSE
      /\ UNCHANGED <<date, pc, page, size, total, seen, again, late>>
  BY DEF Leave, walkVars
<1>2. TypeOK'
  BY <1>1 DEF IInv, TypeOK
<1>3. /\ Missed' \in SUBSET Missed
      /\ Cardinality(Missed') \in Nat /\ Cardinality(Missed') <= Cardinality(Missed)
      /\ Cardinality(Missed) \in Nat /\ Cardinality(late) \in Nat
      /\ Walked' = Walked /\ Turning' = Turning
  BY <1>1, MissedShrinks, MissedIsPart, LateIsPart DEF IInv, Walked, Turning
<1>4. InPlace'
  <2> SUFFICES ASSUME Turning, NEW x \in Missed'
               PROVE  Cardinality(Ahead(x)') >= Walked
    BY <1>1, <1>3 DEF InPlace
  <2>1. x \in Missed /\ x \in stayed /\ ~(date[x] < date[r])
    BY <1>1, <1>3 DEF Missed
  <2>2. date[x] \in Int /\ date[r] \in Int
    BY <2>1, ConstantsAssumption DEF IInv, TypeOK
  <2>3. Ahead(x)' = Ahead(x)
    BY <1>1, <2>1, <2>2 DEF Ahead
  <2> QED
    BY <2>1, <2>3 DEF IInv, InPlace
<1>5. CountIsEnough'
  <2>1. listed' \ late' \in SUBSET (listed \ late)
    BY <1>1
  <2>2. IsFiniteSet(listed \ late)
    BY AheadIsPart, Part DEF IInv
  <2>3. /\ Cardinality(listed' \ late') <= Cardinality(listed \ late)
        /\ Cardinality(listed' \ late') \in Nat /\ Cardinality(listed \ late) \in Nat
    BY <2>1, <2>2, Part
  <2> QED
    BY <1>1, <2>3, WalkIsCounted DEF IInv, CountIsEnough
<1>6. LastPageOwesLate' /\ WalkMissesNothing'
  BY <1>1, <1>3 DEF IInv, LastPageOwesLate, WalkMissesNothing
<1> QED
  BY <1>1, <1>2, <1>4, <1>5, <1>6 DEF IInv, QuietStands, QuietPages, QuietWalkIsExact

LEMMA StutterStep == ASSUME IInv, UNCHANGED vars PROVE IInv'
<1>1. UNCHANGED <<date, listed, pc, page, size, total, seen, again, stayed, shifted, quiet, late>>
  BY DEF vars
<1>2. \A r : Ahead(r)' = Ahead(r) /\ Alone(r)' = Alone(r)
  BY <1>1, SameOrder
<1>3. Walked' = Walked /\ Turning' = Turning
  BY <1>1 DEF Walked, Turning
<1>4. TypeOK'
  BY <1>1 DEF IInv, TypeOK
<1>5. Missed' = Missed
  BY <1>1 DEF Missed, Alone
<1>6. InPlace' /\ QuietPages'
  BY <1>1, <1>2, <1>3, <1>5 DEF IInv, InPlace, QuietPages
<1> QED
  BY <1>1, <1>2, <1>3, <1>4, <1>5, <1>6 DEF IInv, CountIsEnough, LastPageOwesLate,
    QuietStands, WalkMissesNothing, QuietWalkIsExact

----------------------------------------------------------------------------

\* However the pages and the changes of the table interleave, the walk keeps to
\* the order: the inductive invariant of all that follows.
THEOREM Invariance == Spec => []IInv
<1>1. Init => IInv
  BY InitEstablishes
<1>2. IInv /\ [Next]_vars => IInv'
  BY OpenStep, CountStep, ReadStep, TurnStep, FailStep, EnterStep, LeaveStep,
    StutterStep DEF Next
<1> QED
  BY <1>1, <1>2, PTL DEF Spec

\* The page, its size, the total and the histories keep their types for any
\* table and whatever the query asks for (PageQuery.Normalize).
THEOREM TypeCorrect == Spec => []TypeOK
<1>1. IInv => TypeOK
  BY DEF IInv
<1> QED
  BY <1>1, Invariance, PTL

\* Offset paging over a table of any size that others change (List of the
\* repositories): of the rows with a date of their own that were there all the
\* time and that no row leaving in front of them moved up, the user who reaches
\* the last page has missed no more than came in late.
THEOREM NothingElseIsMissed == Spec => []WalkMissesNothing
<1>1. IInv => WalkMissesNothing
  BY DEF IInv
<1> QED
  BY <1>1, Invariance, PTL

\* Of a list of any length that does not change meanwhile the pages, of
\* whatever size, show every row with a date of its own once, and the total is
\* its length.
THEOREM QuietWalksAreExact == Spec => []QuietWalkIsExact
<1>1. IInv => QuietWalkIsExact
  BY DEF IInv
<1> QED
  BY <1>1, Invariance, PTL

============================================================================
