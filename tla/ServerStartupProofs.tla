------------------------ MODULE ServerStartupProofs ------------------------
(***************************************************************************)
(* For any number of accounts, rows and failing starts, no row of the seed *)
(* is written twice, what is written is the beginning of the seed, and it  *)
(* is incomplete only after a failure.                                     *)
(***************************************************************************)
EXTENDS ServerStartup, TLAPS

\* Seed has written the rows up to its position, and nothing else.
SeedInOrder ==
  process = "seeding" =>
    \A k \in 1 .. SeedRows : rows[k] = IF k < next THEN 1 ELSE 0

\* Where there is no account there is no other row either: a start that finds
\* the users table empty finds all of them empty.
AccountsComeFirst ==
  (\A k \in Accounts : rows[k] = 0) => \A k \in 1 .. SeedRows : rows[k] = 0

IInv == TypeOK /\ SeededAtMostOnce /\ SeedInOrder /\ AccountsComeFirst

----------------------------------------------------------------------------

LEMMA FirstIsAccount == 1 \in Accounts /\ 1 \in 1 .. SeedRows /\ Accounts \subseteq 1 .. SeedRows
BY ConstantsAssumption DEF Accounts

LEMMA InitIInv == Init => IInv
<1> SUFFICES ASSUME Init PROVE IInv
  OBVIOUS
<1> USE ConstantsAssumption
<1>1. PICK n \in {0, 1} : rows = [k \in 1 .. SeedRows |-> n]
  BY DEF Init
<1>2. TypeOK /\ SeededAtMostOnce
  BY <1>1 DEF Init, TypeOK, SeededAtMostOnce
<1>3. SeedInOrder
  BY DEF Init, SeedInOrder
<1>4. AccountsComeFirst
  BY <1>1, FirstIsAccount DEF AccountsComeFirst
<1> QED
  BY <1>2, <1>3, <1>4 DEF IInv

\* A statement of the seed, acknowledged or not, writes the row at its position.
LEMMA InsertedRows ==
  ASSUME IInv, process = "seeding", next <= SeedRows, Insert(next)
  PROVE  /\ rows' \in [1 .. SeedRows -> Nat]
         /\ \A k \in 1 .. SeedRows : rows'[k] = IF k < next + 1 THEN 1 ELSE 0
<1> USE ConstantsAssumption
<1>1. next \in 1 .. SeedRows /\ rows \in [1 .. SeedRows -> Nat]
  BY DEF IInv, TypeOK
<1>2. \A k \in 1 .. SeedRows : rows[k] = IF k < next THEN 1 ELSE 0
  BY DEF IInv, SeedInOrder
<1>3. \A k \in 1 .. SeedRows : rows'[k] = IF k = next THEN rows[k] + 1 ELSE rows[k]
  BY <1>1 DEF Insert
<1>4. rows' \in [1 .. SeedRows -> Nat]
  BY <1>1 DEF Insert
<1>5. ASSUME NEW k \in 1 .. SeedRows
      PROVE  rows'[k] = IF k < next + 1 THEN 1 ELSE 0
  BY <1>1, <1>2, <1>3
<1> QED
  BY <1>4, <1>5

LEMMA NextIInv == IInv /\ [Next]_vars => IInv'
<1> SUFFICES ASSUME IInv, [Next]_vars PROVE IInv'
  OBVIOUS
<1> USE ConstantsAssumption
<1>1. CASE Boot
  BY <1>1 DEF IInv, TypeOK, SeededAtMostOnce, SeedInOrder, AccountsComeFirst, Boot
<1>2. CASE CountUsers
  <2>1. TypeOK' /\ SeededAtMostOnce' /\ AccountsComeFirst'
    BY <1>2 DEF IInv, TypeOK, SeededAtMostOnce, AccountsComeFirst, CountUsers
  <2>2. SeedInOrder'
    <3> SUFFICES ASSUME process' = "seeding", NEW k \in 1 .. SeedRows
                 PROVE  rows'[k] = IF k < next' THEN 1 ELSE 0
      BY DEF SeedInOrder
    <3>1. UsersEmpty /\ next' = 1 /\ rows' = rows
      BY <1>2 DEF CountUsers
    <3>2. rows[k] = 0
      BY <3>1 DEF IInv, AccountsComeFirst, UsersEmpty
    <3> QED
      BY <3>1, <3>2
  <2> QED
    BY <2>1, <2>2 DEF IInv
<1>3. CASE WriteRow
  <2>1. /\ process = "seeding" /\ next <= SeedRows /\ Insert(next)
        /\ next' = next + 1 /\ UNCHANGED <<process, registered, failures>>
    BY <1>3 DEF WriteRow, More, SeedRow
  <2>2. /\ rows' \in [1 .. SeedRows -> Nat]
        /\ \A k \in 1 .. SeedRows : rows'[k] = IF k < next + 1 THEN 1 ELSE 0
    BY <2>1, InsertedRows
  <2>3. next \in 1 .. SeedRows
    BY <2>1 DEF IInv, TypeOK
  <2>4. TypeOK'
    BY <2>1, <2>2, <2>3 DEF IInv, TypeOK
  <2>5. SeededAtMostOnce' /\ SeedInOrder'
    BY <2>1, <2>2 DEF SeededAtMostOnce, SeedInOrder
  <2>6. rows'[1] = 1
    BY <2>2, <2>3, FirstIsAccount
  <2>7. AccountsComeFirst'
    BY <2>6, FirstIsAccount DEF AccountsComeFirst, Accounts
  <2> QED
    BY <2>4, <2>5, <2>7 DEF IInv
<1>4. CASE Serve
  BY <1>4 DEF IInv, TypeOK, SeededAtMostOnce, SeedInOrder, AccountsComeFirst, Serve
<1>5. CASE Register
  BY <1>5 DEF IInv, TypeOK, SeededAtMostOnce, SeedInOrder, AccountsComeFirst, Register
<1>6. CASE Fail
  <2>1. CASE UNCHANGED rows
    BY <1>6, <2>1 DEF IInv, TypeOK, SeededAtMostOnce, SeedInOrder, AccountsComeFirst, Fail
  <2>2. CASE process = "seeding" /\ More /\ Insert(SeedRow(next))
    <3>1. process = "seeding" /\ next <= SeedRows /\ Insert(next)
      BY <2>2 DEF More, SeedRow
    <3>2. /\ rows' \in [1 .. SeedRows -> Nat]
          /\ \A k \in 1 .. SeedRows : rows'[k] = IF k < next + 1 THEN 1 ELSE 0
      BY <3>1, InsertedRows
    <3>3. next \in 1 .. SeedRows
      BY <3>1 DEF IInv, TypeOK
    <3>4. TypeOK'
      BY <1>6, <3>2 DEF IInv, TypeOK, Fail
    <3>5. SeededAtMostOnce'
      BY <3>2 DEF SeededAtMostOnce
    <3>6. SeedInOrder'
      BY <1>6 DEF SeedInOrder, Fail
    <3>7. rows'[1] = 1
      BY <3>2, <3>3, FirstIsAccount
    <3>8. AccountsComeFirst'
      BY <3>7, FirstIsAccount DEF AccountsComeFirst, Accounts
    <3> QED
      BY <3>4, <3>5, <3>6, <3>8 DEF IInv
  <2> QED
    BY <1>6, <2>1, <2>2 DEF Fail
<1>7. CASE UNCHANGED vars
  BY <1>7 DEF IInv, TypeOK, SeededAtMostOnce, SeedInOrder, AccountsComeFirst, vars
<1> QED
  BY <1>1, <1>2, <1>3, <1>4, <1>5, <1>6, <1>7 DEF Next, Start

LEMMA IInvAlways == Spec => []IInv
BY InitIInv, NextIInv, PTL DEF Spec

\* The variables of a start keep their types (main and Seed), however often
\* it fails.
THEOREM TypeCorrect == Spec => []TypeOK
BY IInvAlways, PTL DEF IInv

\* However many starts are cut short, and wherever, no row of the seed is in
\* the database twice.
THEOREM SeededOnce == Spec => []SeededAtMostOnce
BY IInvAlways, PTL DEF IInv

----------------------------------------------------------------------------
\* The other side of the missing accounts.

\* What the starts have left in the database is the beginning of the seed.
BeginningOfSeed ==
  \A j, k \in 1 .. SeedRows : j < k /\ rows[k] # 0 => rows[j] # 0

Complete == \A k \in 1 .. SeedRows : rows[k] = 1

CompleteUnlessCut == process = "serving" /\ failures = 0 => Complete

\* The first start meets tables that are empty or full, and no other accounts.
FirstStart ==
  failures = 0 /\ process \in {"down", "starting"} =>
    registered = 0 /\ (Complete \/ \A k \in 1 .. SeedRows : rows[k] = 0)

LEMMA NextBeginning ==
  IInv /\ BeginningOfSeed /\ [Next]_vars => BeginningOfSeed'
<1> SUFFICES ASSUME IInv, BeginningOfSeed, [Next]_vars PROVE BeginningOfSeed'
  OBVIOUS
<1>1. CASE UNCHANGED rows
  BY <1>1 DEF BeginningOfSeed
<1>2. CASE process = "seeding" /\ next <= SeedRows /\ Insert(next)
  <2>1. \A k \in 1 .. SeedRows : rows'[k] = IF k < next + 1 THEN 1 ELSE 0
    BY <1>2, InsertedRows
  <2>2. next \in Nat /\ SeedRows \in Nat
    BY ConstantsAssumption DEF IInv, TypeOK
  <2> QED
    BY <2>1, <2>2 DEF BeginningOfSeed
<1> QED
  BY <1>1, <1>2 DEF Next, Start, Boot, CountUsers, WriteRow, Serve, Register, Fail,
    More, SeedRow, vars

LEMMA NextComplete ==
  IInv /\ CompleteUnlessCut /\ FirstStart /\ [Next]_vars
    => CompleteUnlessCut' /\ FirstStart'
<1> SUFFICES ASSUME IInv, CompleteUnlessCut, FirstStart, [Next]_vars
             PROVE  CompleteUnlessCut' /\ FirstStart'
  OBVIOUS
<1>1. CASE Boot
  BY <1>1 DEF Boot, FirstStart, CompleteUnlessCut, Complete
<1>2. CASE CountUsers
  <2>1. /\ process = "starting" /\ UNCHANGED <<rows, registered, failures>>
        /\ process' \in {"seeding", "serving"}
        /\ process' = "serving" => ~UsersEmpty
    BY <1>2 DEF CountUsers
  <2>2. ASSUME failures = 0, process' = "serving" PROVE Complete
    <3>1. registered = 0 /\ (Complete \/ \A k \in 1 .. SeedRows : rows[k] = 0)
      BY <2>1, <2>2 DEF FirstStart
    <3>2. \E k \in Accounts : rows[k] # 0
      BY <2>1, <2>2, <3>1 DEF UsersEmpty
    <3> QED
      BY <3>1, <3>2, FirstIsAccount
  <2> QED
    BY <2>1, <2>2 DEF FirstStart, CompleteUnlessCut, Complete
<1>3. CASE WriteRow
  BY <1>3 DEF WriteRow, FirstStart, CompleteUnlessCut
<1>4. CASE Serve
  <2>1. /\ process = "seeding" /\ ~(next <= SeedRows)
        /\ process' = "serving" /\ rows' = rows
    BY <1>4 DEF Serve, More
  <2>2. next \in Nat /\ SeedRows \in Nat
    BY ConstantsAssumption DEF IInv, TypeOK
  <2>3. Complete'
    BY <2>1, <2>2 DEF IInv, SeedInOrder, Complete
  <2> QED
    BY <2>1, <2>3 DEF CompleteUnlessCut, FirstStart
<1>5. CASE Register
  BY <1>5 DEF Register, FirstStart, CompleteUnlessCut, Complete
<1>6. CASE Fail
  BY <1>6 DEF Fail, FirstStart, CompleteUnlessCut, IInv, TypeOK
<1>7. CASE UNCHANGED vars
  BY <1>7 DEF vars, FirstStart, CompleteUnlessCut, Complete
<1> QED
  BY <1>1, <1>2, <1>3, <1>4, <1>5, <1>6, <1>7 DEF Next, Start

\* Whatever starts failed, and wherever: what they leave in the tables is the
\* beginning of the seed, so that a missing account is missing with all that
\* comes after it (Seed writes in one order and never skips a row).
THEOREM LeavesABeginning == Spec => []BeginningOfSeed
<1>1. Init => BeginningOfSeed
  <2> SUFFICES ASSUME Init PROVE BeginningOfSeed
    OBVIOUS
  <2>1. PICK n \in {0, 1} : rows = [k \in 1 .. SeedRows |-> n]
    BY DEF Init
  <2> QED
    BY <2>1 DEF BeginningOfSeed
<1> QED
  BY <1>1, NextBeginning, IInvAlways, PTL DEF Spec

\* A server that serves lacks a row of the seed only if an earlier start was cut
\* short: without a failure the first start writes all of them.
THEOREM WholeUnlessCut == Spec => []CompleteUnlessCut
<1>1. Init => CompleteUnlessCut /\ FirstStart
  <2> SUFFICES ASSUME Init PROVE CompleteUnlessCut /\ FirstStart
    OBVIOUS
  <2>1. PICK n \in {0, 1} : rows = [k \in 1 .. SeedRows |-> n]
    BY DEF Init
  <2> QED
    BY <2>1 DEF Init, CompleteUnlessCut, FirstStart, Complete
<1> QED
  BY <1>1, NextComplete, IInvAlways, PTL DEF Spec

============================================================================
