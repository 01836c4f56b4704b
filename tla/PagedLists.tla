----------------------------- MODULE PagedLists -----------------------------
(***************************************************************************)
(* A user turns the pages of a list while others add rows and change the   *)
(* column it is filtered by.  Each page is two statements, the count and   *)
(* the read, and counts its offset from the newest row.  Incidents,        *)
(* inspections and trainings are ordered by a date, which rows may share;  *)
(* certificates and audit entries by their id, which they do not, and      *)
(* users by their id upwards: read their dates with the sign changed.      *)
(***************************************************************************)
EXTENDS Integers, FiniteSets

CONSTANTS Rows,       \* rows of the table, the ones still to be inserted included
          Dates,      \* values of the column the list is ordered by
          AskedPages, \* what the first query may say of the page, 0: nothing or no number
          AskedSizes, \* and of its size
          MaxPage     \* bound on the pages a user turns

ASSUME ConstantsAssumption ==
  /\ IsFiniteSet(Rows)
  /\ Dates \subseteq Int
  /\ \A p \in AskedPages : p \in Int /\ p <= 1   \* the web opens a list at page 1
  /\ AskedSizes \subseteq Int
  /\ MaxPage \in Nat \ {0}

VARIABLES date,       \* the order column of each row
          listed,     \* the rows the filter selects
          pc,         \* the statement the list handler runs next
          page, size, \* the normalized query
          total,      \* the count of the answer
          seen,       \* history: the rows shown so far
          again,      \* history: those shown more than once
          stayed,     \* history: the rows listed ever since the first page
          shifted,    \* history: those of them that moved to an earlier page
          quiet,      \* history: the list has not changed since the first page
          late        \* history: the rows that entered between the count and the read

vars == <<date, listed, pc, page, size, total, seen, again, stayed, shifted,
          quiet, late>>
walkVars == <<page, size, total, seen, again, late>>

\* A mutant: nothing replaces what the query leaves out.
NormalizedRaw(asked, default) == asked

\* Normalize.  A query the binding rejects is used all the same, so that only
\* values that are not positive are replaced, and no size is too large.
Normalized(asked, default) == IF asked <= 0 THEN default ELSE asked

\* A mutant: the first page is taken for page 0.
OffsetFromZero(p, n) == p * n

Offset(p, n) == (p - 1) * n

\* No row of A comes behind a row of B: ORDER BY date DESC.
InOrder(A, B) == \A a \in A, b \in B : date[a] >= date[b]

\* What ORDER BY, OFFSET and LIMIT may return of the rows: rows of one date come
\* in any order, another one in each query.
Pages(rows, offset, limit) ==
  {S \in SUBSET rows :
     \E before \in SUBSET (rows \ S) :
       /\ Cardinality(before) = IF offset < Cardinality(rows) THEN offset
                                ELSE Cardinality(rows)
       /\ \/ Cardinality(S) = limit
          \/ Cardinality(S) < limit /\ before \cup S = rows
       /\ InOrder(before, rows \ before)
       /\ InOrder(S, rows \ (before \cup S))}

----------------------------------------------------------------------------

Init ==
  /\ date \in [Rows -> Dates]
  /\ listed \in SUBSET Rows
  /\ pc = "idle"
  /\ page = 1 /\ size = 10 /\ total = 0
  /\ seen = {} /\ again = {} /\ stayed = {} /\ shifted = {}
  /\ quiet = TRUE /\ late = {}

\* A user opens a list.
Open ==
  /\ pc \in {"idle", "end"}
  /\ \E p \in AskedPages, n \in AskedSizes :
       /\ page' = Normalized(p, 1)
       /\ size' = Normalized(n, 10)
  /\ pc' = "count"
  /\ total' = 0
  /\ seen' = {} /\ again' = {} /\ stayed' = listed /\ shifted' = {}
  /\ quiet' = TRUE /\ late' = {}
  /\ UNCHANGED <<date, listed>>

\* A mutant: the length of the page in place of the count.
CountPage == IF Cardinality(listed) < size THEN Cardinality(listed) ELSE size

CountRows == Cardinality(listed)

Count ==
  /\ pc = "count"
  /\ total' = CountRows
  /\ late' = {}
  /\ pc' = "read"
  /\ UNCHANGED <<date, listed, page, size, seen, again, stayed, shifted, quiet>>

Read ==
  /\ pc = "read"
  /\ \E S \in Pages(listed, Offset(page, size), size) :
       /\ seen' = seen \cup S
       /\ again' = again \cup (S \cap seen)
  /\ pc' = "shown"
  /\ UNCHANGED <<date, listed, page, size, total, stayed, shifted, quiet, late>>

\* The pager offers a next page as long as the last total says there is one.
Turn ==
  /\ pc = "shown"
  /\ \/ /\ page * size < total /\ page < MaxPage
        /\ page' = page + 1
        /\ pc' = "count"
     \/ /\ page * size >= total
        /\ pc' = "end"
        /\ UNCHANGED page
  /\ UNCHANGED <<date, listed, size, total, seen, again, stayed, shifted, quiet, late>>

\* A statement fails: the answer is 500 and the list stays as it is.
Fail ==
  /\ pc \in {"count", "read"}
  /\ pc' = "idle"
  /\ UNCHANGED <<date, listed, walkVars, stayed, shifted, quiet>>

\* A row is inserted, or changes so that the filter selects it.
Enter(r) ==
  /\ r \notin listed
  /\ listed' = listed \cup {r}
  /\ late' = IF pc = "read" THEN late \cup {r} ELSE late
  /\ quiet' = FALSE
  /\ UNCHANGED <<date, pc, page, size, total, seen, again, stayed, shifted>>

\* A row changes so that the filter no longer selects it; the ones behind it
\* move up.
Leave(r) ==
  /\ r \in listed
  /\ listed' = listed \ {r}
  /\ stayed' = stayed \ {r}
  /\ shifted' = shifted \cup {x \in stayed \ seen : date[x] < date[r]}
  /\ quiet' = FALSE
  /\ UNCHANGED <<date, pc, walkVars>>

Next == \/ Open \/ Count \/ Read \/ Turn \/ Fail
        \/ \E r \in Rows : Enter(r) \/ Leave(r)

Spec == Init /\ [][Next]_vars

----------------------------------------------------------------------------

\* The widest page: the default or what was asked for.
Sizes == AskedSizes \cup {10}

TypeOK ==
  /\ date \in [Rows -> Dates]
  /\ listed \in SUBSET Rows
  /\ pc \in {"idle", "count", "read", "shown", "end"}
  /\ page \in 1 .. MaxPage
  /\ size \in {n \in Sizes : n > 0}
  /\ total \in 0 .. Cardinality(Rows)
  /\ seen \in SUBSET Rows /\ again \in SUBSET seen
  /\ stayed \in SUBSET listed /\ shifted \in SUBSET Rows
  /\ quiet \in BOOLEAN /\ late \in SUBSET Rows

\* No other row has the date of r, so that every query puts r in the same place.
Alone(r) == \A s \in Rows : s # r => date[s] # date[r]

\* Rows that were in the list all the time, had no row leave in front of them
\* before their page came, and are still not shown.
Missed == {r \in stayed \ (seen \cup shifted) : Alone(r)}

\* Who pages through to the end has seen every row that was in the list all the
\* time, whatever was added meanwhile and wherever, but for those in front of
\* which a row left before their page came, and for at most as many as came in
\* between the count and the read of the last page, which the total does not
\* know of (the pages are read by offset, the total is of an earlier moment).
\* Rows that share their date may fall between two pages; they take nothing from
\* the others.
WalkMissesNothing ==
  pc = "end" => Cardinality(Missed) <= Cardinality(late)

\* If nothing changed meanwhile, the total is the length of the list, nothing
\* else is shown, and every row that shares its date with no other is shown
\* once, also between rows that do.
QuietWalkIsExact ==
  pc = "end" /\ quiet =>
    /\ total = Cardinality(listed)
    /\ seen \subseteq listed
    /\ \A r \in listed : Alone(r) => r \in seen /\ r \notin again

============================================================================
