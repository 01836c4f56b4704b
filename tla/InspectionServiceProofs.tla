---------------------- MODULE InspectionServiceProofs ----------------------
(***************************************************************************)
(* Proofs about InspectionService, for any number of inspections, items,   *)
(* requests and submitted marks: what its transactions keep apart, that an *)
(* inspection is executed once and whole, and that reports, answers and    *)
(* stored results agree with the tables.                                   *)
(***************************************************************************)
EXTENDS InspectionService, FiniteSetTheorems, WellFoundedInduction, TLAPS

\* A handler between its row lock and its commit.
Holding(w) == pc[w] \in {"insertItems", "write", "save", "commit"}

Creating(w) == Holding(w) /\ req[w].op = "create"

Executing(w) == Holding(w) /\ req[w].op = "execute"

\* Which request is at which point.
RequestOK(w) ==
  /\ pc[w] \in {"inspector", "insert", "insertItems"} => req[w].op = "create"
  /\ pc[w] \in {"lock", "write", "save"} => req[w].op = "execute"
  /\ pc[w] \in {"readRow", "readItems"} => req[w].op = "report"
  /\ pc[w] = "commit" => req[w].op \in {"create", "execute"}
  /\ req[w].op = "execute" => req[w].id \in Inspections
  /\ req[w].op = "report" /\ pc[w] # "idle" => req[w].id \in Inspections
  /\ pc[w] # "idle" => answer[w] = 0

\* A transaction has the row of its request to itself; outside one a handler has
\* written nothing that is not committed.
HoldsRow(w) ==
  /\ Holding(w) => req[w].id \in Inspections /\ lock[req[w].id] = w
  /\ ~Holding(w) => tx[w] = NoWrites

\* The rows an open creation has inserted are new.
CreateOK(w) ==
  Creating(w) =>
    /\ inspection[req[w].id] = NoRow
    /\ tx[w].row = Planned
    /\ \A a \in DOMAIN tx[w].items :
         item[a] = NoRow /\ tx[w].items[a].of = req[w].id

\* What an open execution has read of its inspection is still the case.
ExecuteOK(w) ==
  Executing(w) =>
    /\ inspection[req[w].id] # NoRow
    /\ inspection[req[w].id].status \in Open
    /\ pc[w] = "write" => tx[w].items = <<>>
    /\ pc[w] # "write" =>
         tx[w].items = Marked(req[w].sub, Of(item, req[w].id))
    /\ pc[w] = "commit" =>
         tx[w].row = Summary(req[w].sub, Of(item, req[w].id))

\* The plan of a creation that is told of success is in the table.
Stored(i) == i \in Inspections /\ inspection[i] # NoRow

\* What a report has read, and what a request may be told.
ReadOK(w) ==
  /\ pc[w] \in {"readItems", "reply"} /\ req[w].op = "report" =>
       /\ got[w].row # NoRow
       /\ got[w].row.status \in Terminal =>
            /\ got[w].row = inspection[req[w].id]
            /\ pc[w] = "reply" => got[w].items = ItemsOf(req[w].id)
  /\ pc[w] = "reply" /\ req[w].op = "execute" => Executed(req[w].id)
  /\ req[w].op = "execute" /\ answer[w] \in {200, 409} => Executed(req[w].id)
  /\ pc[w] = "reply" /\ req[w].op = "create" => Stored(req[w].id)
  /\ req[w].op = "create" /\ answer[w] = 200 => Stored(req[w].id)

HandlerOK(w) ==
  RequestOK(w) /\ HoldsRow(w) /\ CreateOK(w) /\ ExecuteOK(w) /\ ReadOK(w)

HandlersOK == \A w \in Workers : HandlerOK(w)

\* Only the handler of that inspection holds a row.
LocksOK ==
  \A i \in Inspections, w \in Workers :
    lock[i] = w => Holding(w) /\ req[w].id = i

\* No two transactions write the same item.
WritesApart ==
  \A v, w \in Workers : v # w => DOMAIN tx[v].items \cap DOMAIN tx[w].items = {}

ItemsHavePlans ==
  \A a \in Items : item[a] # NoRow => inspection[item[a].of] # NoRow

OutcomesOK == \A i \in Inspections : outcome[i] # NoRow => Executed(i)

Writes(t) ==
  /\ t = [row |-> t.row, items |-> t.items]
  /\ t.row \in InspectionRow \cup {NoRow}
  /\ DOMAIN t.items \subseteq Items
  /\ \A a \in DOMAIN t.items : t.items[a] \in ItemRow

\* A buffer holds a row and items for every worker.
Buffer(b) ==
  b = [w \in Workers |-> b[w]] /\ \A w \in Workers : Writes(b[w])

\* The inductive invariant: between its row lock and its commit a handler has
\* its inspection, and the items it writes, to itself.
IInv == /\ TypeOK /\ Buffer(tx) /\ Buffer(got)
        /\ HandlersOK
        /\ LocksOK
        /\ WritesApart
        /\ ItemsHavePlans
        /\ OutcomesOK
        /\ SummaryMatchesItems

----------------------------------------------------------------------------
\* The arithmetic of Execute.

\* A set of positions has a last one.
LEMMA LastPosition ==
  ASSUME NEW n \in Nat, NEW ks, ks \subseteq 1 .. n, ks # {}
  PROVE  \E k \in ks : \A j \in ks : j <= k
<1>1. PICK T : T = {k .. n : k \in ks}
  OBVIOUS
<1>2. T \subseteq FiniteSubsetsOf(1 .. n) /\ T # {}
  <2>1. ASSUME NEW k \in ks PROVE k .. n \in FiniteSubsetsOf(1 .. n)
    <3>1. IsFiniteSet(1 .. n) /\ k .. n \subseteq 1 .. n
      BY FS_Interval
    <3>2. IsFiniteSet(k .. n)
      BY <3>1, FS_Subset
    <3> QED
      BY <3>1, <3>2 DEF FiniteSubsetsOf
  <2> QED
    BY <1>1, <2>1
<1>3. PICK R : /\ R = StrictSubsetOrdering(1 .. n)
               /\ IsWellFoundedOn(R, FiniteSubsetsOf(1 .. n))
  BY FS_StrictSubsetOrderingWellFounded
<1>4. PICK x \in T : \A y \in T : ~(<<y, x>> \in R)
  BY <1>2, <1>3, WFMin
<1>5. PICK k \in ks : x = k .. n
  BY <1>1, <1>4
<1>6. ASSUME NEW j \in ks PROVE j <= k
  <2>1. j .. n \in T /\ ~(<<j .. n, k .. n>> \in R)
    BY <1>1, <1>4, <1>5
  <2>2. SUFFICES ASSUME k < j PROVE <<j .. n, k .. n>> \in R
    BY <2>1
  <2>3. j .. n \subseteq k .. n /\ k \in k .. n /\ k \notin j .. n
    BY <2>2
  <2>4. k .. n \subseteq 1 .. n /\ j .. n \subseteq 1 .. n
    OBVIOUS
  <2> QED
    BY <1>3, <2>3, <2>4 DEF StrictSubsetOrdering
<1> QED
  BY <1>6

\* A submission is a function on 1 .. n.
LEMMA SubmissionShape ==
  ASSUME NEW sub \in Submission
  PROVE  /\ \E n \in Nat : DOMAIN sub = 1 .. n
         /\ IsFiniteSet(DOMAIN sub)
         /\ \A k \in DOMAIN sub : sub[k].item \in Items /\ sub[k].passed \in BOOLEAN
<1> USE ConstantsAssumption
<1>1. PICK n \in 0 .. MaxSubmitted :
        sub \in [1 .. n -> [item : Items, passed : BOOLEAN]]
  BY DEF Submission
<1>2. n \in Nat /\ DOMAIN sub = 1 .. n
  BY <1>1
<1>3. IsFiniteSet(1 .. n)
  BY <1>2, FS_Interval
<1> QED
  BY <1>1, <1>2, <1>3

\* The request without a submission is a submission of nothing.
LEMMA NothingSubmitted == <<>> \in Submission
<1> USE ConstantsAssumption
<1>1. <<>> \in [1 .. 0 -> [item : Items, passed : BOOLEAN]]
  OBVIOUS
<1> QED
  BY <1>1 DEF Submission

\* No row of a table is the value that stands for none.
LEMMA RowsAreNotNoRow ==
  NoRow \notin InspectionRow /\ NoRow \notin ItemRow
BY ConstantsAssumption

\* The items of an inspection in a table.
LEMMA OwnItems ==
  ASSUME TypeOK, NEW i
  PROVE  /\ Of(item, i) \subseteq Items
         /\ IsFiniteSet(Of(item, i))
         /\ \A a \in Of(item, i) : item[a] \in ItemRow /\ item[a].of = i
<1> USE ConstantsAssumption
<1>1. Of(item, i) \subseteq Items
  BY DEF Of
<1>2. IsFiniteSet(Of(item, i))
  BY <1>1, FS_Subset
<1> QED
  BY <1>1, <1>2 DEF Of, TypeOK

\* Rows for the items own of inspection i.
RowsOf(f, own, i) ==
  DOMAIN f = own /\ \A a \in own : f[a] \in ItemRow /\ f[a].of = i

\* Marking an item keeps it an item of its inspection.
LEMMA MarkedShape ==
  ASSUME TypeOK, NEW i, NEW own, own = Of(item, i), NEW sub \in Submission
  PROVE  RowsOf(Marked(sub, own), own, i)
<1>1. DOMAIN Marked(sub, own) = own
  BY DEF Marked
<1>2. ASSUME NEW a \in own
      PROVE  Marked(sub, own)[a] \in ItemRow /\ Marked(sub, own)[a].of = i
  <2>1. PICK ks : ks = {k \in DOMAIN sub : sub[k].item = a}
    OBVIOUS
  <2>2. item[a] \in ItemRow /\ item[a].of = i
    BY OwnItems
  <2>3. CASE ks = {}
    <3>1. Marked(sub, own)[a] = item[a]
      BY <2>1, <2>3 DEF Marked
    <3> QED
      BY <2>2, <3>1
  <2>4. CASE ks # {}
    <3>1. \E k \in ks : \A j \in ks : j <= k
      BY <2>1, <2>4, SubmissionShape, LastPosition
    <3>2. PICK last : last = CHOOSE k \in ks : \A j \in ks : j <= k
      OBVIOUS
    <3>3. last \in ks
      BY <3>1, <3>2
    <3>4. sub[last].passed \in BOOLEAN
      BY <2>1, <3>3, SubmissionShape
    <3>5. Marked(sub, own)[a] = [item[a] EXCEPT !.passed = sub[last].passed]
      BY <2>1, <2>4, <3>2 DEF Marked
    <3> QED
      BY <2>2, <3>4, <3>5 DEF ItemRow
  <2> QED
    BY <2>3, <2>4
<1> QED
  BY <1>1, <1>2 DEF RowsOf

\* The counts of a submission are numbers.
LEMMA TallyType ==
  ASSUME TypeOK, NEW i, NEW sub \in Submission, NEW flag
  PROVE  Tally(sub, Of(item, i), flag) \in Nat
<1>1. PICK own : own = Of(item, i)
  OBVIOUS
<1>2. Known(sub, own) \subseteq DOMAIN sub
  BY DEF Known
<1>3. Cardinality({k \in Known(sub, own) : sub[k].passed = flag}) \in Nat
  <2>1. IsFiniteSet({k \in Known(sub, own) : sub[k].passed = flag})
    BY <1>2, SubmissionShape, FS_Subset
  <2> QED
    BY <2>1, FS_CardinalityType
<1>4. Cardinality({a \in own : item[a].passed = flag}) \in Nat
  <2>1. IsFiniteSet({a \in own : item[a].passed = flag})
    BY <1>1, OwnItems, FS_Subset
  <2> QED
    BY <2>1, FS_CardinalityType
<1> QED
  BY <1>1, <1>3, <1>4 DEF Tally

\* The score is a number whatever the counts.
LEMMA ScoreType ==
  ASSUME NEW p \in Nat, NEW q \in Nat
  PROVE  Score(p, q) \in Nat
<1>1. CASE p + q = 0
  BY <1>1 DEF Score
<1>2. CASE p + q # 0
  <2>1. PICK n \in Nat, d \in Nat : n = p * 100 /\ d = p + q
    OBVIOUS
  <2>2. n \div d \in Nat
    BY <1>2, <2>1
  <2> QED
    BY <1>2, <2>1, <2>2 DEF Score
<1> QED
  BY <1>1, <1>2

\* What the quotient of integers is.
LEMMA QuotientBounds ==
  ASSUME NEW n \in Nat, NEW d \in Nat, d > 0
  PROVE  /\ n \div d \in Nat
         /\ d * (n \div d) <= n
         /\ n < d * (n \div d) + d
OBVIOUS

\* Full marks: something passed and nothing failed.
LEMMA ScoreIsFull ==
  ASSUME NEW p \in Nat, NEW q \in Nat
  PROVE  Score(p, q) = 100 <=> q = 0 /\ p > 0
<1>1. CASE p + q = 0
  BY <1>1 DEF Score
<1>2. CASE p + q # 0
  <2>1. PICK n \in Nat, d \in Nat : n = p * 100 /\ d = p + q
    OBVIOUS
  <2>2. d > 0
    BY <1>2, <2>1
  <2>3. PICK e \in Nat : e = n \div d /\ d * e <= n /\ n < d * e + d
    BY <2>1, <2>2, QuotientBounds
  <2>4. e = 100 => q = 0 /\ p > 0
    BY <1>2, <2>1, <2>3
  <2>5. ASSUME q = 0, p > 0 PROVE e = 100
    BY <2>1, <2>3, <2>5
  <2> QED
    BY <1>2, <2>1, <2>3, <2>4, <2>5 DEF Score
<1> QED
  BY <1>1, <1>2

\* A terminal row that sums up a submission.
SumsUp(r, sub, own) ==
  /\ r \in InspectionRow
  /\ r.status \in Terminal
  /\ r.passed = Tally(sub, own, TRUE)
  /\ r.issues = Tally(sub, own, FALSE)
  /\ (r.score = 100 <=> r.issues = 0 /\ r.passed > 0)
  /\ (r.status = "completed" <=> r.issues = 0)

\* What Execute writes into the row sums up the submission.
LEMMA SummaryShape ==
  ASSUME TypeOK, NEW i, NEW own, own = Of(item, i), NEW sub \in Submission
  PROVE  SumsUp(Summary(sub, own), sub, own)
<1> PICK r : r = Summary(sub, own)
  OBVIOUS
<1>1. PICK p, q : p = Tally(sub, own, TRUE) /\ q = Tally(sub, own, FALSE)
  OBVIOUS
<1>2. p \in Nat /\ q \in Nat /\ Score(p, q) \in Nat
  BY <1>1, TallyType, ScoreType
<1>3. r = [status |-> IF q = 0 THEN "completed" ELSE "failed",
           score  |-> Score(p, q), passed |-> p, issues |-> q]
  BY <1>1 DEF Summary
<1>4. r \in InspectionRow
  BY <1>2, <1>3 DEF InspectionRow, Terminal
<1>5. r.status \in Terminal /\ (r.status = "completed" <=> r.issues = 0)
  BY <1>3 DEF Terminal
<1>6. /\ r.passed = p /\ r.issues = q
      /\ (r.score = 100 <=> r.issues = 0 /\ r.passed > 0)
  BY <1>2, <1>3, ScoreIsFull
<1> QED
  BY <1>1, <1>4, <1>5, <1>6 DEF SumsUp

\* An item listed once gets the flag it is listed with.
LEMMA MarkedOnce ==
  ASSUME NEW sub \in Submission, NEW own, NEW a \in own,
         NEW k \in DOMAIN sub, {j \in DOMAIN sub : sub[j].item = a} = {k},
         item[a] \in ItemRow
  PROVE  Marked(sub, own)[a].passed = sub[k].passed
<1>1. PICK ks : ks = {j \in DOMAIN sub : sub[j].item = a}
  OBVIOUS
<1>2. PICK last : last = CHOOSE l \in ks : \A j \in ks : j <= l
  OBVIOUS
<1>3. k \in Int
  BY SubmissionShape
<1>4. \E l \in ks : \A j \in ks : j <= l
  BY <1>1, <1>3
<1>5. last = k
  BY <1>1, <1>2, <1>4
<1>6. Marked(sub, own)[a] = [item[a] EXCEPT !.passed = sub[last].passed]
  BY <1>1, <1>2 DEF Marked
<1> QED
  BY <1>5, <1>6 DEF ItemRow

\* With each item of the plan listed once, counting positions is counting
\* marked items.
LEMMA TallyOfComplete ==
  ASSUME TypeOK, NEW i, NEW sub \in Submission, NEW flag,
         Complete(sub, Of(item, i)), Known(sub, Of(item, i)) # {}
  PROVE  Tally(sub, Of(item, i), flag) =
           Cardinality({a \in Of(item, i) :
                          Marked(sub, Of(item, i))[a].passed = flag})
<1>1. PICK own : own = Of(item, i)
  OBVIOUS
<1>2. Known(sub, own) = DOMAIN sub
  BY <1>1 DEF Complete
<1>3. PICK K, A : /\ K = {k \in DOMAIN sub : sub[k].passed = flag}
                  /\ A = {a \in own : Marked(sub, own)[a].passed = flag}
  OBVIOUS
<1>4. Tally(sub, own, flag) = Cardinality(K)
  BY <1>1, <1>2, <1>3 DEF Tally
<1>5. \A k \in DOMAIN sub : sub[k].item \in own
  BY <1>2 DEF Known
<1>6. ASSUME NEW a \in own
      PROVE  \E k \in DOMAIN sub : {j \in DOMAIN sub : sub[j].item = a} = {k}
  <2>1. PICK ks : ks = {j \in DOMAIN sub : sub[j].item = a}
    OBVIOUS
  <2>2. IsFiniteSet(ks)
    BY <2>1, SubmissionShape, FS_Subset
  <2>3. Cardinality(ks) = 1
    BY <1>1, <2>1 DEF Complete
  <2>4. \E k : ks = {k}
    BY <2>2, <2>3, FS_Singleton
  <2> QED
    BY <2>1, <2>4
<1>7. ASSUME NEW k \in DOMAIN sub
      PROVE  /\ {j \in DOMAIN sub : sub[j].item = sub[k].item} = {k}
             /\ Marked(sub, own)[sub[k].item].passed = sub[k].passed
  <2>1. PICK a \in own : a = sub[k].item
    BY <1>5
  <2>2. PICK l \in DOMAIN sub : {j \in DOMAIN sub : sub[j].item = a} = {l}
    BY <1>6
  <2>3. l = k
    BY <2>1, <2>2
  <2>4. item[a] \in ItemRow
    BY <1>1, OwnItems
  <2>5. Marked(sub, own)[a].passed = sub[k].passed
    BY <2>2, <2>3, <2>4, MarkedOnce
  <2> QED
    BY <2>1, <2>2, <2>3, <2>5
<1>8. PICK f : f = [k \in K |-> sub[k].item]
  OBVIOUS
<1>9. f \in [K -> A]
  BY <1>3, <1>5, <1>7, <1>8
<1>10. \A k, l \in K : f[k] = f[l] => k = l
  BY <1>3, <1>7, <1>8
<1>11. ASSUME NEW a \in A PROVE \E k \in K : f[k] = a
  <2>1. PICK k \in DOMAIN sub : {j \in DOMAIN sub : sub[j].item = a} = {k}
    BY <1>3, <1>6
  <2>2. sub[k].item = a
    BY <2>1
  <2>3. k \in K
    BY <1>3, <1>7, <2>2
  <2> QED
    BY <1>8, <2>2, <2>3
<1>12. ExistsBijection(K, A)
  BY <1>9, <1>10, <1>11
     DEF ExistsBijection, Bijection, Injection, Surjection, IsInjective
<1>13. IsFiniteSet(K)
  BY <1>3, SubmissionShape, FS_Subset
<1>14. Cardinality(A) = Cardinality(K)
  BY <1>12, <1>13, FS_Bijection
<1> QED
  BY <1>1, <1>3, <1>4, <1>14

\* With no item of the plan listed, nothing is marked and the items are counted
\* as they are.
LEMMA TallyOfNone ==
  ASSUME NEW sub, NEW own, NEW flag, Known(sub, own) = {}
  PROVE  /\ Marked(sub, own) = [a \in own |-> item[a]]
         /\ Tally(sub, own, flag) =
              Cardinality({a \in own : Marked(sub, own)[a].passed = flag})
<1>1. \A a \in own : {k \in DOMAIN sub : sub[k].item = a} = {}
  BY DEF Known
<1>2. Marked(sub, own) = [a \in own |-> item[a]]
  BY <1>1 DEF Marked
<1>3. {a \in own : Marked(sub, own)[a].passed = flag}
        = {a \in own : item[a].passed = flag}
  BY <1>2
<1> QED
  BY <1>2, <1>3 DEF Tally

\* The counts are never less than the number of judged items with that mark:
\* the last mention of a judged item has the flag the item is stored with.
LEMMA TallyCoversJudged ==
  ASSUME TypeOK, NEW i, NEW own, own = Of(item, i), NEW sub \in Submission, NEW flag
  PROVE  Cardinality({a \in Judged(sub, own) : Marked(sub, own)[a].passed = flag})
           <= Tally(sub, own, flag)
<1>1. CASE Known(sub, own) = {}
  <2>1. Judged(sub, own) = own
    BY <1>1 DEF Judged
  <2>2. Tally(sub, own, flag) =
          Cardinality({a \in own : Marked(sub, own)[a].passed = flag})
    BY <1>1, TallyOfNone
  <2>3. Tally(sub, own, flag) \in Nat
    BY TallyType
  <2> QED
    BY <2>1, <2>2, <2>3
<1>2. CASE Known(sub, own) # {}
  <2>1. PICK K, A : /\ K = {k \in Known(sub, own) : sub[k].passed = flag}
                    /\ A = {a \in Judged(sub, own) : Marked(sub, own)[a].passed = flag}
    OBVIOUS
  <2>2. Tally(sub, own, flag) = Cardinality(K)
    BY <1>2, <2>1 DEF Tally
  <2>3. IsFiniteSet(K)
    BY <2>1, SubmissionShape, FS_Subset DEF Known
  <2>4. ASSUME NEW a \in A PROVE \E k \in K : sub[k].item = a
    <3>1. PICK ks : ks = {k \in DOMAIN sub : sub[k].item = a}
      OBVIOUS
    <3>2. a \in own /\ ks # {} /\ ks \subseteq Known(sub, own)
      BY <1>2, <2>1, <3>1 DEF Judged, Known
    <3>3. \E k \in ks : \A j \in ks : j <= k
      BY <3>1, <3>2, SubmissionShape, LastPosition
    <3>4. PICK last : last = CHOOSE k \in ks : \A j \in ks : j <= k
      OBVIOUS
    <3>5. last \in ks
      BY <3>3, <3>4
    <3>6. Marked(sub, own)[a] = [item[a] EXCEPT !.passed = sub[last].passed]
      BY <3>1, <3>2, <3>4 DEF Marked
    <3>7. item[a] \in ItemRow
      BY <3>2, OwnItems
    <3>8. Marked(sub, own)[a].passed = sub[last].passed
      BY <3>6, <3>7 DEF ItemRow
    <3>9. sub[last].passed = flag /\ sub[last].item = a /\ last \in Known(sub, own)
      BY <2>1, <3>1, <3>2, <3>5, <3>8
    <3> QED
      BY <2>1, <3>9
  <2>5. PICK f : f = [a \in A |-> CHOOSE k \in K : sub[k].item = a]
    OBVIOUS
  <2>6. \A a \in A : f[a] \in K /\ sub[f[a]].item = a
    BY <2>4, <2>5
  <2>7. f \in Injection(A, K)
    <3>1. f \in [A -> K]
      BY <2>5, <2>6
    <3>2. \A a, b \in A : f[a] = f[b] => a = b
      BY <2>6
    <3> QED
      BY <3>1, <3>2 DEF Injection, IsInjective
  <2>8. Cardinality(A) <= Cardinality(K)
    BY <2>3, <2>7, FS_Injection
  <2> QED
    BY <2>1, <2>2, <2>8
<1> QED
  BY <1>1, <1>2

----------------------------------------------------------------------------
\* Buffers.

\* Nothing read or written is a buffer's entry.
LEMMA NoWritesType == Writes(NoWrites) /\ DOMAIN NoWrites.items = {}
BY DEF Writes, NoWrites

\* In b, worker w's entry is replaced by one of row r and items f: c.
Replaced(b, c, w, r, f) ==
  /\ Buffer(c) /\ c[w].row = r /\ c[w].items = f
  /\ \A v \in Workers \ {w} : c[v] = b[v]

\* The row of one worker's entry is replaced.
LEMMA BufferRow ==
  ASSUME NEW b, Buffer(b), NEW w \in Workers, NEW r \in InspectionRow,
         NEW c, c = [b EXCEPT ![w].row = r]
  PROVE  Replaced(b, c, w, r, b[w].items)
<1>1. PICK t : t = [b[w] EXCEPT !.row = r]
  OBVIOUS
<1>2. Writes(b[w])
  BY DEF Buffer
<1>3. b[w] = [row |-> b[w].row, items |-> b[w].items]
  BY <1>2 DEF Writes
<1>4. t = [row |-> r, items |-> b[w].items]
  BY <1>1, <1>3
<1>5. Writes(t)
  BY <1>2, <1>4 DEF Writes
<1>6. c = [b EXCEPT ![w] = t]
  BY <1>1
<1>7. Buffer(c) /\ c[w] = t /\ \A v \in Workers \ {w} : c[v] = b[v]
  BY <1>5, <1>6 DEF Buffer
<1> QED
  BY <1>4, <1>7 DEF Replaced

\* The items of one worker's entry are replaced.
LEMMA BufferItems ==
  ASSUME NEW b, Buffer(b), NEW w \in Workers, NEW f,
         DOMAIN f \subseteq Items, \A a \in DOMAIN f : f[a] \in ItemRow,
         NEW c, c = [b EXCEPT ![w].items = f]
  PROVE  Replaced(b, c, w, b[w].row, f)
<1>1. PICK t : t = [b[w] EXCEPT !.items = f]
  OBVIOUS
<1>2. Writes(b[w])
  BY DEF Buffer
<1>3. b[w] = [row |-> b[w].row, items |-> b[w].items]
  BY <1>2 DEF Writes
<1>4. t = [row |-> b[w].row, items |-> f]
  BY <1>1, <1>3
<1>5. Writes(t)
  BY <1>2, <1>4 DEF Writes
<1>6. c = [b EXCEPT ![w] = t]
  BY <1>1
<1>7. Buffer(c) /\ c[w] = t /\ \A v \in Workers \ {w} : c[v] = b[v]
  BY <1>5, <1>6 DEF Buffer
<1> QED
  BY <1>4, <1>7 DEF Replaced

\* What TypeOK says of the buffers.
LEMMA BuffersTyped ==
  ASSUME Buffer(tx), Buffer(got)
  PROVE  \A w \in Workers : \A t \in {tx[w], got[w]} :
           /\ t.row \in InspectionRow \cup {NoRow}
           /\ DOMAIN t.items \subseteq Items
           /\ \A a \in DOMAIN t.items : t.items[a] \in ItemRow
BY DEF Buffer, Writes

Points == {"idle", "inspector", "insert", "insertItems", "lock", "write",
           "save", "commit", "readRow", "readItems", "reply"}

Requests == [op : Ops, id : Inspections \cup {NoInspection}, sub : Submission]

\* The parts of TypeOK that a step of a handler changes.
LEMMA TypeFrom ==
  ASSUME TypeOK, UNCHANGED <<inspection, item, outcome>>,
         lock' \in [Inspections -> Workers \cup {Free}],
         pc' \in [Workers -> Points], req' \in [Workers -> Requests],
         answer' \in [Workers -> Answers], Buffer(tx'), Buffer(got')
  PROVE  TypeOK'
<1>1. \A w \in Workers : \A t \in {tx'[w], got'[w]} :
        /\ t.row \in InspectionRow \cup {NoRow}
        /\ DOMAIN t.items \subseteq Items
        /\ \A a \in DOMAIN t.items : t.items[a] \in ItemRow
  BY DEF Buffer, Writes
<1> QED
  BY <1>1 DEF TypeOK, Points, Requests

\* The initial state.
LEMMA InitEstablishes == Init => IInv
<1> SUFFICES ASSUME Init PROVE IInv
  OBVIOUS
<1> USE ConstantsAssumption
<1>1. Planned \in InspectionRow /\ Planned.status \notin Terminal
  BY DEF Planned, InspectionRow, Open, Terminal
<1>2. Buffer(tx) /\ Buffer(got)
  BY NoWritesType DEF Init, Buffer
<1>3. TypeOK
  <2>1. inspection \in [Inspections -> InspectionRow \cup {NoRow}]
    BY <1>1 DEF Init
  <2>2. req \in [Workers -> [op : Ops, id : Inspections \cup {NoInspection},
                             sub : Submission]]
    <3>1. NoRequest \in [op : Ops, id : Inspections \cup {NoInspection},
                         sub : Submission]
      BY NothingSubmitted DEF NoRequest, Ops
    <3> QED
      BY <3>1 DEF Init
  <2>3. /\ item \in [Items -> ItemRow \cup {NoRow}]
        /\ lock \in [Inspections -> Workers \cup {Free}]
        /\ pc \in [Workers -> Points]
        /\ answer \in [Workers -> Answers]
        /\ outcome \in [Inspections -> [items : Submission] \cup {NoRow}]
    BY DEF Init, Points, Answers
  <2> QED
    BY <2>1, <2>2, <2>3, <1>2, BuffersTyped DEF TypeOK, Points
<1>4. HandlersOK
  <2> SUFFICES ASSUME NEW w \in Workers PROVE HandlerOK(w)
    BY DEF HandlersOK
  <2>1. pc[w] = "idle" /\ req[w].op = "report" /\ tx[w] = NoWrites
    BY DEF Init, NoRequest
  <2> QED
    BY <2>1 DEF HandlerOK, RequestOK, HoldsRow, CreateOK, ExecuteOK, ReadOK,
                Creating, Executing, Holding
<1>5. LocksOK
  BY DEF Init, LocksOK
<1>6. WritesApart
  BY NoWritesType DEF Init, WritesApart
<1>7. ItemsHavePlans /\ OutcomesOK /\ SummaryMatchesItems
  BY DEF Init, ItemsHavePlans, OutcomesOK, SummaryMatchesItems
<1> QED
  BY <1>2, <1>3, <1>4, <1>5, <1>6, <1>7 DEF IInv

----------------------------------------------------------------------------
\* What a step leaves alone.

\* Inspection i and its items are left alone.
Untouched(i) ==
  /\ inspection'[i] = inspection[i]
  /\ Of(item', i) = Of(item, i)
  /\ \A a \in Of(item, i) : item'[a] = item[a]

\* Marks and summary, drawn from a table held fixed.
MarkedIn(t, sub, own) ==
  [a \in own |->
     LET ks == {k \in DOMAIN sub : sub[k].item = a} IN
     IF ks = {} THEN t[a]
     ELSE [t[a] EXCEPT !.passed =
             sub[CHOOSE k \in ks : \A j \in ks : j <= k].passed]]

TallyIn(t, sub, own, flag) ==
  IF Known(sub, own) # {}
  THEN Cardinality({k \in Known(sub, own) : sub[k].passed = flag})
  ELSE Cardinality({a \in own : t[a].passed = flag})

SummaryIn(t, sub, own) ==
  LET passed == TallyIn(t, sub, own, TRUE)
      issues == TallyIn(t, sub, own, FALSE)
  IN  [status |-> IF issues = 0 THEN "completed" ELSE "failed",
       score  |-> Score(passed, issues), passed |-> passed, issues |-> issues]

CountIn(t, set, flag) == Cardinality({a \in set : t[a].passed = flag})

\* The counts p and q of a result cover the marks in table t.
CountsOK(p, q, t, sub, own) ==
  /\ Complete(sub, own) \/ Known(sub, own) = {}
       => p = CountIn(t, own, TRUE) /\ q = CountIn(t, own, FALSE)
  /\ p >= CountIn(t, Judged(sub, own), TRUE)
  /\ q >= CountIn(t, Judged(sub, own), FALSE)

\* SummaryMatchesItems, for one inspection with row r and outcome o.
SummaryOK(r, t, o, i) ==
  o # NoRow =>
    /\ CountsOK(r.passed, r.issues, t, o.items, Of(t, i))
    /\ (r.status = "completed" <=> r.issues = 0)
    /\ (r.score = 100 <=> r.issues = 0 /\ r.passed > 0)

\* They are the definitions of the model, before and after a step.
LEMMA SummaryOfTables ==
  /\ SummaryMatchesItems <=>
       \A i \in Inspections : SummaryOK(inspection[i], item, outcome[i], i)
  /\ SummaryMatchesItems' <=>
       \A i \in Inspections : SummaryOK(inspection'[i], item', outcome'[i], i)
BY DEF SummaryMatchesItems, SummaryOK, CountsOK, Count, CountIn

\* Marks and summary are drawn from the inspection's own items only.
LEMMA SummaryStays ==
  ASSUME NEW s, NEW t, NEW own, \A a \in own : t[a] = s[a], NEW sub
  PROVE  /\ MarkedIn(t, sub, own) = MarkedIn(s, sub, own)
         /\ SummaryIn(t, sub, own) = SummaryIn(s, sub, own)
<1>1. MarkedIn(t, sub, own) = MarkedIn(s, sub, own)
  BY DEF MarkedIn
<1>2. ASSUME NEW flag PROVE TallyIn(t, sub, own, flag) = TallyIn(s, sub, own, flag)
  <2>1. {a \in own : t[a].passed = flag} = {a \in own : s[a].passed = flag}
    OBVIOUS
  <2> QED
    BY <2>1 DEF TallyIn
<1> QED
  BY <1>1, <1>2 DEF SummaryIn

\* The items a report would list stay what they are.
LEMMA ItemsOfStay ==
  ASSUME NEW i, Untouched(i) PROVE ItemsOf(i)' = ItemsOf(i)
BY DEF Untouched, ItemsOf

\* A result stays.
LEMMA ExecutedStays ==
  ASSUME NEW i, Untouched(i), Executed(i) PROVE Executed(i)'
BY DEF Untouched, Executed

\* A handler keeps what it has established through steps of others: they leave
\* executed inspections, the row it holds and the items it inserts alone.
LEMMA HandlerStays ==
  ASSUME NEW v \in Workers, HandlerOK(v),
         pc'[v] = pc[v], req'[v] = req[v], answer'[v] = answer[v],
         tx'[v] = tx[v], got'[v] = got[v],
         \A i \in Inspections : Executed(i) => Untouched(i),
         \A i \in Inspections : inspection[i] # NoRow => inspection'[i] # NoRow,
         Holding(v) => /\ lock'[req[v].id] = v /\ Untouched(req[v].id)
                       /\ Creating(v) =>
                            \A a \in DOMAIN tx[v].items : item'[a] = item[a]
  PROVE  HandlerOK(v)'
<1>1. PICK q, id, sub : q = req[v] /\ id = req[v].id /\ sub = req[v].sub
  OBVIOUS
<1>2. /\ Holding(v)' = Holding(v) /\ Creating(v)' = Creating(v)
      /\ Executing(v)' = Executing(v)
  BY DEF Holding, Creating, Executing
<1>3. RequestOK(v)'
  BY DEF HandlerOK, RequestOK
<1>4. HoldsRow(v)'
  BY <1>2 DEF HandlerOK, HoldsRow
<1>5. CreateOK(v)'
  <2> SUFFICES ASSUME Creating(v)
               PROVE  /\ inspection'[id] = NoRow
                      /\ tx[v].row = Planned
                      /\ \A a \in DOMAIN tx[v].items :
                           item'[a] = NoRow /\ tx[v].items[a].of = id
    BY <1>1, <1>2 DEF CreateOK
  <2>1. Holding(v) /\ Untouched(id)
    BY <1>1 DEF Creating
  <2> QED
    BY <1>1, <2>1 DEF HandlerOK, CreateOK, Untouched
<1>6. ExecuteOK(v)'
  <2> SUFFICES ASSUME Executing(v) PROVE ExecuteOK(v)'
    BY <1>2 DEF ExecuteOK
  <2>1. Untouched(id)
    BY <1>1 DEF Executing
  <2>2. PICK own : own = Of(item, id) /\ own = Of(item', id)
    BY <2>1 DEF Untouched
  <2>3. /\ MarkedIn(item', sub, own) = MarkedIn(item, sub, own)
        /\ SummaryIn(item', sub, own) = SummaryIn(item, sub, own)
    BY <2>1, <2>2, SummaryStays DEF Untouched
  <2>4. /\ Marked(sub, own) = MarkedIn(item, sub, own)
        /\ Summary(sub, own) = SummaryIn(item, sub, own)
    BY DEF Marked, MarkedIn, Summary, SummaryIn, Tally, TallyIn
  <2>5. /\ inspection[id] # NoRow /\ inspection[id].status \in Open
        /\ pc[v] = "write" => tx[v].items = <<>>
        /\ pc[v] # "write" => tx[v].items = Marked(sub, own)
        /\ pc[v] = "commit" => tx[v].row = Summary(sub, own)
    BY <1>1, <2>2 DEF HandlerOK, ExecuteOK
  <2>6. /\ Marked(req[v].sub, Of(item, req[v].id))'
             = MarkedIn(item', req'[v].sub, Of(item', req'[v].id))
        /\ Summary(req[v].sub, Of(item, req[v].id))'
             = SummaryIn(item', req'[v].sub, Of(item', req'[v].id))
    BY DEF Marked, MarkedIn, Summary, SummaryIn, Tally, TallyIn
  <2>7. /\ Marked(req[v].sub, Of(item, req[v].id))' = Marked(sub, own)
        /\ Summary(req[v].sub, Of(item, req[v].id))' = Summary(sub, own)
        /\ req'[v].id = id
    BY <1>1, <2>2, <2>3, <2>4, <2>6
  <2> QED
    BY <2>1, <2>5, <2>7 DEF ExecuteOK, Untouched
<1>7. ReadOK(v)'
  <2>1. id \in Inspections /\ Executed(id) => Executed(id)' /\ Untouched(id)
    BY ExecutedStays
  <2>2. /\ req[v].op = "execute" => id \in Inspections
        /\ req[v].op = "report" /\ pc[v] # "idle" => id \in Inspections
    BY <1>1 DEF HandlerOK, RequestOK
  <2>3. /\ pc[v] = "reply" /\ req[v].op = "execute" => Executed(id)
        /\ req[v].op = "execute" /\ answer[v] \in {200, 409} => Executed(id)
    BY <1>1 DEF HandlerOK, ReadOK
  <2>8. /\ pc[v] = "reply" /\ req[v].op = "create" => Stored(id)
        /\ req[v].op = "create" /\ answer[v] = 200 => Stored(id)
        /\ Stored(id) => Stored(req[v].id)'
    BY <1>1 DEF HandlerOK, ReadOK, Stored
  <2>4. ASSUME pc[v] \in {"readItems", "reply"}, req[v].op = "report"
        PROVE  /\ got[v].row # NoRow
               /\ got[v].row.status \in Terminal =>
                    /\ got[v].row = inspection'[id]
                    /\ pc[v] = "reply" => got[v].items = ItemsOf(id)'
    <3>1. got[v].row # NoRow
      BY <2>4 DEF HandlerOK, ReadOK
    <3>2. ASSUME got[v].row.status \in Terminal
          PROVE  /\ got[v].row = inspection'[id]
                 /\ pc[v] = "reply" => got[v].items = ItemsOf(id)'
      <4>1. /\ got[v].row = inspection[id]
            /\ pc[v] = "reply" => got[v].items = ItemsOf(id)
        BY <1>1, <2>4, <3>2 DEF HandlerOK, ReadOK
      <4>2. Executed(id)
        BY <3>1, <3>2, <4>1 DEF Executed
      <4>3. Untouched(id)
        BY <2>1, <2>2, <2>4, <4>2
      <4> QED
        BY <4>1, <4>3, ItemsOfStay DEF Untouched
    <3> QED
      BY <3>1, <3>2
  <2>5. req'[v].id = id
    BY <1>1
  <2>6. Executed(id)' => Executed(req[v].id)'
    BY <2>5 DEF Executed
  <2>7. ItemsOf(id)' = ItemsOf(req[v].id)'
    BY <2>5 DEF ItemsOf
  <2> QED
    BY <2>1, <2>2, <2>3, <2>4, <2>5, <2>6, <2>7, <2>8 DEF ReadOK
<1> QED
  BY <1>3, <1>4, <1>5, <1>6, <1>7 DEF HandlerOK

\* A step of worker w that commits nothing: what is to be looked at is w alone.
LEMMA QuietStep ==
  ASSUME IInv, TypeOK', Buffer(tx'), Buffer(got'), NEW w \in Workers,
         UNCHANGED <<inspection, item, outcome>>, HandlerOK(w)',
         \A v \in Workers \ {w} :
           /\ pc'[v] = pc[v] /\ req'[v] = req[v] /\ answer'[v] = answer[v]
           /\ tx'[v] = tx[v] /\ got'[v] = got[v]
           /\ DOMAIN tx'[w].items \cap DOMAIN tx[v].items = {},
         \A i \in Inspections : \A v \in Workers \ {w} :
           lock'[i] = v <=> lock[i] = v,
         \A i \in Inspections : lock'[i] = w => Holding(w)' /\ req'[w].id = i
  PROVE  IInv'
<1>1. \A i : Untouched(i)
  BY DEF Untouched, Of
<1>2. HandlersOK'
  <2> SUFFICES ASSUME NEW v \in Workers PROVE HandlerOK(v)'
    BY DEF HandlersOK
  <2>1. CASE v = w
    BY <2>1
  <2>2. CASE v # w
    <3>1. HandlerOK(v)
      BY DEF IInv, HandlersOK
    <3>2. Holding(v) => lock'[req[v].id] = v
      BY <2>2, <3>1 DEF HandlerOK, HoldsRow
    <3> QED
      BY <1>1, <2>2, <3>1, <3>2, HandlerStays
  <2> QED
    BY <2>1, <2>2
<1>3. LocksOK'
  <2> SUFFICES ASSUME NEW i \in Inspections, NEW v \in Workers, lock'[i] = v
               PROVE  Holding(v)' /\ req'[v].id = i
    BY DEF LocksOK
  <2>1. CASE v = w
    BY <2>1
  <2>2. CASE v # w
    <3>1. Holding(v) /\ req[v].id = i
      BY <2>2 DEF IInv, LocksOK
    <3> QED
      BY <2>2, <3>1 DEF Holding
  <2> QED
    BY <2>1, <2>2
<1>4. WritesApart'
  BY DEF IInv, WritesApart
<1>5. ItemsHavePlans' /\ OutcomesOK'
  BY DEF IInv, ItemsHavePlans, OutcomesOK, Executed
<1>6. SummaryMatchesItems'
  BY SummaryOfTables DEF IInv
<1> QED
  BY <1>2, <1>3, <1>4, <1>5, <1>6 DEF IInv

----------------------------------------------------------------------------
\* The pieces handlers are made of.

\* A handler that is at work has not answered yet.
LEMMA NoAnswerYet ==
  ASSUME IInv, NEW w \in Workers, pc[w] # "idle" PROVE answer[w] = 0
BY DEF IInv, HandlersOK, HandlerOK, RequestOK

\* Answering drops what the handler had read and decoded.
LEMMA AnswerOf ==
  ASSUME IInv, NEW w \in Workers, NEW status \in Answers, Answer(w, status)
  PROVE  /\ pc' \in [Workers -> Points] /\ req' \in [Workers -> Requests]
         /\ answer' \in [Workers -> Answers] /\ Buffer(got')
         /\ pc'[w] = "idle" /\ answer'[w] = status
         /\ req'[w].op = req[w].op /\ req'[w].id = req[w].id
         /\ \A v \in Workers \ {w} :
              /\ pc'[v] = pc[v] /\ req'[v] = req[v] /\ answer'[v] = answer[v]
              /\ got'[v] = got[v]
<1>1. pc \in [Workers -> Points] /\ req \in [Workers -> Requests]
      /\ answer \in [Workers -> Answers] /\ Buffer(got)
  BY DEF IInv, TypeOK, Points, Requests
<1>2. pc' \in [Workers -> Points] /\ pc'[w] = "idle"
  BY <1>1 DEF Answer, Points
<1>3. req' \in [Workers -> Requests]
      /\ req'[w].op = req[w].op /\ req'[w].id = req[w].id
  BY <1>1, NothingSubmitted DEF Answer, Requests
<1>4. answer' \in [Workers -> Answers] /\ answer'[w] = status
  BY <1>1 DEF Answer
<1>5. Buffer(got') /\ \A v \in Workers \ {w} : got'[v] = got[v]
  BY <1>1, NoWritesType DEF Answer, Buffer
<1>6. \A v \in Workers \ {w} :
        pc'[v] = pc[v] /\ req'[v] = req[v] /\ answer'[v] = answer[v]
  BY <1>1 DEF Answer
<1> QED
  BY <1>2, <1>3, <1>4, <1>5, <1>6

\* The end of a transaction gives back its row and drops its writes.
LEMMA EndTxOf ==
  ASSUME IInv, NEW w \in Workers, EndTx(w)
  PROVE  /\ lock' \in [Inspections -> Workers \cup {Free}]
         /\ Buffer(tx') /\ tx'[w] = NoWrites
         /\ \A v \in Workers \ {w} : tx'[v] = tx[v]
         /\ \A i \in Inspections : lock'[i] # w
         /\ \A i \in Inspections : \A v \in Workers \ {w} :
              lock'[i] = v <=> lock[i] = v
<1> USE ConstantsAssumption
<1>1. lock' \in [Inspections -> Workers \cup {Free}]
      /\ \A i \in Inspections : lock'[i] # w
  BY DEF EndTx, IInv, TypeOK
<1>2. \A i \in Inspections : \A v \in Workers \ {w} :
        lock'[i] = v <=> lock[i] = v
  BY DEF EndTx, IInv, TypeOK
<1>3. Buffer(tx') /\ tx'[w] = NoWrites
      /\ \A v \in Workers \ {w} : tx'[v] = tx[v]
  BY NoWritesType DEF EndTx, IInv, Buffer
<1> QED
  BY <1>1, <1>2, <1>3

\* A handler that has ended has nothing to keep but what it told.
LEMMA EndedOK ==
  ASSUME IInv, NEW w \in Workers, pc'[w] = "idle", tx'[w] = NoWrites,
         req'[w].op = req[w].op, req'[w].id = req[w].id,
         answer'[w] \in {200, 409} /\ req[w].op = "execute" =>
           Executed(req[w].id)',
         answer'[w] = 200 /\ req[w].op = "create" => Stored(req[w].id)'
  PROVE  HandlerOK(w)'
<1>1. ~Holding(w)' /\ ~Creating(w)' /\ ~Executing(w)'
  BY DEF Holding, Creating, Executing
<1>2. req[w].op = "execute" => req[w].id \in Inspections
  BY DEF IInv, HandlersOK, HandlerOK, RequestOK
<1>3. RequestOK(w)' /\ HoldsRow(w)' /\ CreateOK(w)' /\ ExecuteOK(w)'
  BY <1>1, <1>2 DEF RequestOK, HoldsRow, CreateOK, ExecuteOK
<1>4. ReadOK(w)'
  BY DEF ReadOK, Executed, Stored
<1> QED
  BY <1>3, <1>4 DEF HandlerOK

\* A request that fails is rolled back; a conflict is told only of an executed
\* inspection.
LEMMA RollbackPreserves ==
  ASSUME IInv, NEW w \in Workers, NEW status \in Answers, Rollback(w, status),
         status # 200, status = 409 => Executed(req[w].id)
  PROVE  IInv'
<1>1. EndTx(w) /\ Answer(w, status) /\ UNCHANGED <<inspection, item, outcome>>
  BY DEF Rollback
<1>2. /\ lock' \in [Inspections -> Workers \cup {Free}]
      /\ Buffer(tx') /\ tx'[w] = NoWrites
      /\ \A v \in Workers \ {w} : tx'[v] = tx[v]
      /\ \A i \in Inspections : lock'[i] # w
      /\ \A i \in Inspections : \A v \in Workers \ {w} :
           lock'[i] = v <=> lock[i] = v
  BY <1>1, EndTxOf
<1>3. /\ pc' \in [Workers -> Points] /\ req' \in [Workers -> Requests]
      /\ answer' \in [Workers -> Answers] /\ Buffer(got')
      /\ pc'[w] = "idle" /\ answer'[w] = status
      /\ req'[w].op = req[w].op /\ req'[w].id = req[w].id
      /\ \A v \in Workers \ {w} :
           /\ pc'[v] = pc[v] /\ req'[v] = req[v] /\ answer'[v] = answer[v]
           /\ got'[v] = got[v]
  BY <1>1, AnswerOf
<1>4. TypeOK'
  BY <1>1, <1>2, <1>3, TypeFrom DEF IInv
<1>5. status = 409 => Executed(req[w].id)'
  BY <1>1, <1>3 DEF Executed
<1>6. HandlerOK(w)'
  BY <1>2, <1>3, <1>5, EndedOK
<1>7. DOMAIN tx'[w].items = {}
  BY <1>2, NoWritesType
<1> QED
  BY <1>1, <1>2, <1>3, <1>4, <1>6, <1>7, QuietStep

\* A handler goes on to another point of its request.
LEMMA GotoOf ==
  ASSUME IInv, NEW w \in Workers, NEW label \in Points, Goto(w, label)
  PROVE  /\ pc' \in [Workers -> Points] /\ pc'[w] = label
         /\ \A v \in Workers \ {w} : pc'[v] = pc[v]
BY DEF Goto, IInv, TypeOK, Points

\* What the tables and the requests are typed as.
LEMMA Types ==
  ASSUME IInv
  PROVE  /\ inspection \in [Inspections -> InspectionRow \cup {NoRow}]
         /\ item \in [Items -> ItemRow \cup {NoRow}]
         /\ lock \in [Inspections -> Workers \cup {Free}]
         /\ pc \in [Workers -> Points] /\ req \in [Workers -> Requests]
         /\ answer \in [Workers -> Answers]
         /\ outcome \in [Inspections -> [items : Submission] \cup {NoRow}]
         /\ Buffer(tx) /\ Buffer(got)
BY DEF IInv, TypeOK, Points, Requests

\* A handler that holds no row has the lock of none, and no item to its name.
LEMMA FreeHandler ==
  ASSUME IInv, NEW w \in Workers, ~Holding(w)
  PROVE  /\ \A i \in Inspections : lock[i] # w
         /\ tx[w] = NoWrites /\ DOMAIN tx[w].items = {}
BY NoWritesType DEF IInv, LocksOK, HandlersOK, HandlerOK, HoldsRow

\* A transaction writes its row.
LEMMA WriteRowOf ==
  ASSUME IInv, NEW w \in Workers, NEW r \in InspectionRow,
         tx' = [tx EXCEPT ![w].row = r]
  PROVE  Replaced(tx, tx', w, r, tx[w].items)
<1>1. PICK b, c : b = tx /\ c = tx'
  OBVIOUS
<1>2. Buffer(b) /\ c = [b EXCEPT ![w].row = r]
  BY <1>1, Types
<1>3. Replaced(b, c, w, r, b[w].items)
  BY <1>2, BufferRow
<1> QED
  BY <1>1, <1>3

\* A transaction writes its items.
LEMMA WriteItemsOf ==
  ASSUME IInv, NEW w \in Workers, NEW f,
         DOMAIN f \subseteq Items, \A a \in DOMAIN f : f[a] \in ItemRow,
         tx' = [tx EXCEPT ![w].items = f]
  PROVE  Replaced(tx, tx', w, tx[w].row, f)
<1>1. PICK b, c : b = tx /\ c = tx'
  OBVIOUS
<1>2. Buffer(b) /\ c = [b EXCEPT ![w].items = f]
  BY <1>1, Types
<1>3. Replaced(b, c, w, b[w].row, f)
  BY <1>2, BufferItems
<1> QED
  BY <1>1, <1>3

\* A refused request changes its answer only.
LEMMA RefusePreserves ==
  ASSUME IInv, NEW w \in Workers, Refuse(w) PROVE IInv'
<1> USE ConstantsAssumption
<1>1. UNCHANGED <<inspection, item, lock, pc, tx, got, outcome>> /\ pc[w] = "idle"
  BY DEF Refuse
<1>2. req' \in [Workers -> Requests] /\ req'[w] = NoRequest
      /\ \A v \in Workers \ {w} : req'[v] = req[v]
  BY Types, NothingSubmitted DEF Refuse, Requests, NoRequest, Ops
<1>3. answer' \in [Workers -> Answers]
      /\ \A v \in Workers \ {w} : answer'[v] = answer[v]
  BY Types DEF Refuse, Answers
<1>4. TypeOK' /\ Buffer(tx') /\ Buffer(got')
  BY <1>1, <1>2, <1>3, Types, TypeFrom DEF IInv
<1>5. ~Holding(w) /\ ~Holding(w)'
  BY <1>1 DEF Holding
<1>6. HandlerOK(w)'
  <2>1. tx'[w] = NoWrites
    BY <1>1, <1>5, FreeHandler
  <2> QED
    BY <1>1, <1>2, <1>5, <2>1 DEF HandlerOK, RequestOK, HoldsRow, CreateOK,
       ExecuteOK, ReadOK, Creating, Executing, NoRequest
<1>7. DOMAIN tx'[w].items = {} /\ \A i \in Inspections : lock'[i] # w
  BY <1>1, <1>5, FreeHandler
<1> QED
  BY <1>1, <1>2, <1>3, <1>4, <1>6, <1>7, QuietStep

\* A request that arrives is at the start of its handler.
LEMMA ArrivePreserves ==
  ASSUME IInv, NEW w \in Workers, Arrive(w) PROVE IInv'
<1> USE ConstantsAssumption
<1>1. UNCHANGED <<inspection, item, lock, tx, got, outcome>> /\ pc[w] = "idle"
  BY DEF Arrive
<1>2. PICK op \in Ops, id \in Inspections \cup {NoInspection}, sub \in Submission :
        /\ op # "create" => id \in Inspections
        /\ req' = [req EXCEPT ![w] = [op |-> op, id |-> id, sub |-> sub]]
        /\ pc' = [pc EXCEPT ![w] = Start(op)]
  <2>1. PICK op \in Ops :
          \E id \in (IF op = "create" THEN {NoInspection} ELSE Inspections),
             sub \in (IF op = "execute" THEN Submission ELSE {<<>>}) :
            /\ req' = [req EXCEPT ![w] = [op |-> op, id |-> id, sub |-> sub]]
            /\ pc' = [pc EXCEPT ![w] = Start(op)]
    BY DEF Arrive
  <2>2. PICK id \in (IF op = "create" THEN {NoInspection} ELSE Inspections),
             sub \in (IF op = "execute" THEN Submission ELSE {<<>>}) :
            /\ req' = [req EXCEPT ![w] = [op |-> op, id |-> id, sub |-> sub]]
            /\ pc' = [pc EXCEPT ![w] = Start(op)]
    BY <2>1
  <2> QED
    BY <2>2, NothingSubmitted
<1>3. req' \in [Workers -> Requests]
      /\ req'[w] = [op |-> op, id |-> id, sub |-> sub]
      /\ \A v \in Workers \ {w} : req'[v] = req[v]
  BY <1>2, Types DEF Requests
<1>4. \/ op = "create" /\ Start(op) = "inspector"
      \/ op = "execute" /\ Start(op) = "lock"
      \/ op = "report" /\ Start(op) = "readRow"
  BY DEF Start, Ops
<1>5. pc' \in [Workers -> Points] /\ pc'[w] = Start(op)
      /\ \A v \in Workers \ {w} : pc'[v] = pc[v]
  BY <1>2, <1>4, Types DEF Points
<1>6. answer' \in [Workers -> Answers] /\ answer'[w] = 0
      /\ \A v \in Workers \ {w} : answer'[v] = answer[v]
  BY Types DEF Arrive, Answers
<1>7. TypeOK' /\ Buffer(tx') /\ Buffer(got')
  BY <1>1, <1>3, <1>5, <1>6, Types, TypeFrom DEF IInv
<1>8. ~Holding(w) /\ ~Holding(w)'
  BY <1>1, <1>4, <1>5 DEF Holding
<1>9. HandlerOK(w)'
  <2>1. tx'[w] = NoWrites
    BY <1>1, <1>8, FreeHandler
  <2>2. RequestOK(w)'
    BY <1>2, <1>3, <1>4, <1>5, <1>6 DEF RequestOK
  <2>3. HoldsRow(w)' /\ CreateOK(w)' /\ ExecuteOK(w)'
    BY <1>8, <2>1 DEF HoldsRow, CreateOK, ExecuteOK, Creating, Executing
  <2>4. ReadOK(w)'
    BY <1>4, <1>5, <1>6 DEF ReadOK
  <2> QED
    BY <2>2, <2>3, <2>4 DEF HandlerOK
<1>10. DOMAIN tx'[w].items = {} /\ \A i \in Inspections : lock'[i] # w
  BY <1>1, <1>8, FreeHandler
<1> QED
  BY <1>1, <1>3, <1>5, <1>6, <1>7, <1>9, <1>10, QuietStep

\* The look-up of the inspector.
LEMMA CheckInspectorPreserves ==
  ASSUME IInv, NEW w \in Workers, CheckInspector(w) PROVE IInv'
<1>1. CASE Rollback(w, 500)
  BY <1>1, RollbackPreserves DEF Answers
<1>2. CASE /\ Goto(w, "insert")
           /\ UNCHANGED <<inspection, item, lock, req, answer, tx, got, outcome>>
  <2>1. pc' \in [Workers -> Points] /\ pc'[w] = "insert"
        /\ \A v \in Workers \ {w} : pc'[v] = pc[v]
    BY <1>2, GotoOf DEF Points
  <2>2. TypeOK' /\ Buffer(tx') /\ Buffer(got')
    BY <1>2, <2>1, Types, TypeFrom DEF IInv
  <2>3. pc[w] = "inspector" /\ HandlerOK(w)
    BY DEF CheckInspector, IInv, HandlersOK
  <2>4. ~Holding(w) /\ ~Holding(w)'
    BY <2>1, <2>3 DEF Holding
  <2>5. HandlerOK(w)'
    BY <1>2, <2>1, <2>3, <2>4 DEF HandlerOK, RequestOK, HoldsRow, CreateOK,
       ExecuteOK, ReadOK, Creating, Executing
  <2>6. DOMAIN tx'[w].items = {} /\ \A i \in Inspections : lock'[i] # w
    BY <1>2, <2>4, FreeHandler
  <2> QED
    BY <1>2, <2>1, <2>2, <2>5, <2>6, QuietStep
<1> QED
  BY <1>1, <1>2 DEF CheckInspector

\* The inserted row is locked and nobody else's.
LEMMA InsertRowPreserves ==
  ASSUME IInv, NEW w \in Workers, InsertRow(w) PROVE IInv'
<1> USE ConstantsAssumption
<1>1. pc[w] = "insert" /\ Goto(w, "insertItems")
      /\ UNCHANGED <<inspection, item, answer, got, outcome>>
  BY DEF InsertRow
<1>2. PICK i \in Inspections :
        /\ inspection[i] = NoRow /\ lock[i] = Free
        /\ lock' = [lock EXCEPT ![i] = w]
        /\ req' = [req EXCEPT ![w].id = i]
        /\ tx' = [tx EXCEPT ![w].row = Planned]
  BY DEF InsertRow
<1>3. pc' \in [Workers -> Points] /\ pc'[w] = "insertItems"
      /\ \A v \in Workers \ {w} : pc'[v] = pc[v]
  BY <1>1, GotoOf DEF Points
<1>4. req' \in [Workers -> Requests]
      /\ req'[w].op = req[w].op /\ req'[w].id = i
      /\ \A v \in Workers \ {w} : req'[v] = req[v]
  BY <1>2, Types DEF Requests
<1>5. Planned \in InspectionRow
  BY DEF Planned, InspectionRow, Open
<1>6. Buffer(tx') /\ tx'[w].row = Planned /\ tx'[w].items = tx[w].items
      /\ \A v \in Workers \ {w} : tx'[v] = tx[v]
  BY <1>2, <1>5, WriteRowOf DEF Replaced
<1>7. lock' \in [Inspections -> Workers \cup {Free}]
      /\ lock'[i] = w /\ \A j \in Inspections \ {i} : lock'[j] = lock[j]
  BY <1>2, Types
<1>8. TypeOK' /\ Buffer(got')
  BY <1>1, <1>3, <1>4, <1>6, <1>7, Types, TypeFrom DEF IInv
<1>9. ~Holding(w) /\ Holding(w)' /\ HandlerOK(w) /\ req[w].op = "create"
  BY <1>1, <1>3 DEF Holding, IInv, HandlersOK, HandlerOK, RequestOK
<1>10. DOMAIN tx'[w].items = {} /\ \A j \in Inspections : lock[j] # w
  BY <1>6, <1>9, FreeHandler
<1>11. HandlerOK(w)'
  <2>1. RequestOK(w)' /\ HoldsRow(w)'
    BY <1>1, <1>3, <1>4, <1>7, <1>9, NoAnswerYet DEF RequestOK, HoldsRow
  <2>2. CreateOK(w)'
    BY <1>1, <1>2, <1>4, <1>6, <1>10 DEF CreateOK
  <2>3. ExecuteOK(w)' /\ ReadOK(w)'
    BY <1>1, <1>3, <1>4, <1>9, NoAnswerYet DEF ExecuteOK, ReadOK, Executing
  <2> QED
    BY <2>1, <2>2, <2>3 DEF HandlerOK
<1>12. \A j \in Inspections : \A v \in Workers \ {w} : lock'[j] = v <=> lock[j] = v
  BY <1>2, <1>7
<1>13. \A j \in Inspections : lock'[j] = w => j = i
  BY <1>7, <1>10
<1> QED
  BY <1>1, <1>3, <1>4, <1>6, <1>8, <1>9, <1>10, <1>11, <1>12, <1>13, QuietStep

\* The inserted items are nobody else's.
LEMMA InsertItemsPreserves ==
  ASSUME IInv, NEW w \in Workers, InsertItems(w) PROVE IInv'
<1>1. pc[w] = "insertItems" /\ Goto(w, "commit")
      /\ UNCHANGED <<inspection, item, lock, req, answer, got, outcome>>
  BY DEF InsertItems
<1>2. PICK new \in SUBSET FreeItems : \E flag \in [new -> BOOLEAN] :
        tx' = [tx EXCEPT ![w].items =
                 [a \in new |-> [of |-> req[w].id, passed |-> flag[a]]]]
  BY DEF InsertItems
<1> PICK flag \in [new -> BOOLEAN] :
        tx' = [tx EXCEPT ![w].items =
                 [a \in new |-> [of |-> req[w].id, passed |-> flag[a]]]]
  BY <1>2
<1>3. PICK f : f = [a \in new |-> [of |-> req[w].id, passed |-> flag[a]]]
  OBVIOUS
<1>4. Holding(w) /\ HandlerOK(w) /\ req[w].op = "create"
  BY <1>1 DEF Holding, IInv, HandlersOK, HandlerOK, RequestOK
<1>5. req[w].id \in Inspections /\ lock[req[w].id] = w
      /\ inspection[req[w].id] = NoRow /\ tx[w].row = Planned
  BY <1>4 DEF HandlerOK, HoldsRow, CreateOK, Creating
<1>6. /\ DOMAIN f = new /\ new \subseteq FreeItems /\ DOMAIN f \subseteq Items
      /\ \A a \in DOMAIN f : f[a] \in ItemRow /\ f[a].of = req[w].id
  BY <1>3, <1>5 DEF FreeItems, ItemRow
<1>7. Buffer(tx') /\ tx'[w].items = f /\ tx'[w].row = tx[w].row
      /\ \A v \in Workers \ {w} : tx'[v] = tx[v]
  BY <1>3, <1>6, WriteItemsOf DEF Replaced
<1>8. pc' \in [Workers -> Points] /\ pc'[w] = "commit"
      /\ \A v \in Workers \ {w} : pc'[v] = pc[v]
  BY <1>1, GotoOf DEF Points
<1>9. TypeOK' /\ Buffer(got')
  BY <1>1, <1>7, <1>8, Types, TypeFrom DEF IInv
<1>10. Holding(w)'
  BY <1>8 DEF Holding
<1>11. HandlerOK(w)'
  <2>1. RequestOK(w)' /\ HoldsRow(w)'
    BY <1>1, <1>4, <1>5, <1>8, <1>10, NoAnswerYet DEF RequestOK, HoldsRow
  <2>2. CreateOK(w)'
    BY <1>1, <1>5, <1>6, <1>7 DEF CreateOK, FreeItems
  <2>3. ExecuteOK(w)' /\ ReadOK(w)'
    BY <1>1, <1>4, <1>8, NoAnswerYet DEF ExecuteOK, ReadOK, Executing
  <2> QED
    BY <2>1, <2>2, <2>3 DEF HandlerOK
<1>12. \A v \in Workers \ {w} : DOMAIN tx'[w].items \cap DOMAIN tx[v].items = {}
  BY <1>6, <1>7 DEF FreeItems
<1>13. \A j \in Inspections : lock'[j] = w => j = req'[w].id
  BY <1>1 DEF IInv, LocksOK
<1> QED
  BY <1>1, <1>7, <1>8, <1>9, <1>10, <1>11, <1>12, <1>13, QuietStep

\* The lock and the status decide whether an execution begins.
LEMMA LockRowPreserves ==
  ASSUME IInv, NEW w \in Workers, LockRow(w) PROVE IInv'
<1> USE ConstantsAssumption
<1>1. PICK id, r : id = req[w].id /\ r = inspection[id]
  OBVIOUS
<1>2. pc[w] = "lock" /\ lock[id] = Free /\ HandlerOK(w)
  BY <1>1 DEF LockRow, IInv, HandlersOK
<1>3. req[w].op = "execute" /\ id \in Inspections /\ ~Holding(w)
  BY <1>1, <1>2 DEF HandlerOK, RequestOK, Holding
<1>4. CASE Rollback(w, 500)
  BY <1>4, RollbackPreserves DEF Answers
<1>5. CASE r # NoRow /\ r.status \notin Open /\ Rollback(w, 409)
  <2>1. r \in InspectionRow
    BY <1>1, <1>3, <1>5, Types
  <2>2. Executed(req[w].id)
    BY <1>1, <1>5, <2>1 DEF Executed, InspectionRow
  <2> QED
    BY <1>5, <2>2, RollbackPreserves DEF Answers
<1>6. CASE /\ r # NoRow /\ r.status \in Open
           /\ lock' = [lock EXCEPT ![id] = w]
           /\ tx' = [tx EXCEPT ![w].row = r]
           /\ Goto(w, "write")
           /\ UNCHANGED <<inspection, item, req, answer, got, outcome>>
  <2>1. r \in InspectionRow
    BY <1>1, <1>3, <1>6, Types
  <2>2. Buffer(tx') /\ tx'[w].row = r /\ tx'[w].items = tx[w].items
        /\ \A v \in Workers \ {w} : tx'[v] = tx[v]
    BY <1>6, <2>1, WriteRowOf DEF Replaced
  <2>3. pc' \in [Workers -> Points] /\ pc'[w] = "write"
        /\ \A v \in Workers \ {w} : pc'[v] = pc[v]
    BY <1>6, GotoOf DEF Points
  <2>4. lock' \in [Inspections -> Workers \cup {Free}]
        /\ lock'[id] = w /\ \A j \in Inspections \ {id} : lock'[j] = lock[j]
    BY <1>3, <1>6, Types
  <2>5. TypeOK' /\ Buffer(got')
    BY <1>6, <2>2, <2>3, <2>4, Types, TypeFrom DEF IInv
  <2>6. tx[w] = NoWrites /\ tx'[w].items = <<>> /\ DOMAIN tx'[w].items = {}
        /\ \A j \in Inspections : lock[j] # w
    BY <1>3, <2>2, FreeHandler, NoWritesType DEF NoWrites
  <2>7. Holding(w)'
    BY <2>3 DEF Holding
  <2>8. HandlerOK(w)'
    <3>1. RequestOK(w)' /\ HoldsRow(w)'
      BY <1>1, <1>2, <1>3, <1>6, <2>3, <2>4, <2>7, NoAnswerYet DEF RequestOK, HoldsRow
    <3>2. CreateOK(w)'
      BY <1>3, <1>6 DEF CreateOK, Creating
    <3>3. ExecuteOK(w)'
      BY <1>1, <1>6, <2>3, <2>6 DEF ExecuteOK
    <3>4. ReadOK(w)'
      BY <1>2, <1>3, <1>6, <2>3 DEF ReadOK, HandlerOK, Executed
    <3> QED
      BY <3>1, <3>2, <3>3, <3>4 DEF HandlerOK
  <2>9. \A j \in Inspections : \A v \in Workers \ {w} : lock'[j] = v <=> lock[j] = v
    BY <1>2, <1>3, <2>4
  <2>10. \A j \in Inspections : lock'[j] = w => j = req'[w].id
    BY <1>1, <1>6, <2>4, <2>6
  <2> QED
    BY <1>6, <2>2, <2>3, <2>5, <2>6, <2>7, <2>8, <2>9, <2>10, QuietStep
<1> QED
  BY <1>1, <1>4, <1>5, <1>6 DEF LockRow

\* The items an execution marks are those of the inspection it has locked: no
\* other transaction has written them.
LEMMA OwnItemsApart ==
  ASSUME IInv, NEW w \in Workers, Executing(w), NEW v \in Workers \ {w}
  PROVE  Of(item, req[w].id) \cap DOMAIN tx[v].items = {}
<1>1. HandlerOK(w) /\ HandlerOK(v)
  BY DEF IInv, HandlersOK
<1>2. lock[req[w].id] = w /\ req[w].id \in Inspections
  BY <1>1 DEF HandlerOK, HoldsRow, Executing
<1>3. CASE ~Holding(v)
  BY <1>3, FreeHandler
<1>4. CASE Holding(v)
  <2>1. lock[req[v].id] = v /\ req[v].id # req[w].id
    BY <1>1, <1>2, <1>4 DEF HandlerOK, HoldsRow
  <2>2. CASE Creating(v)
    BY <1>1, <2>2 DEF HandlerOK, CreateOK, Of
  <2>3. CASE Executing(v)
    <3>1. CASE pc[v] = "write"
      <4>1. tx[v].items = <<>>
        BY <1>1, <2>3, <3>1 DEF HandlerOK, ExecuteOK
      <4> QED
        BY <4>1
    <3>2. CASE pc[v] # "write"
      <4>1. DOMAIN tx[v].items = Of(item, req[v].id)
        BY <1>1, <2>3, <3>2 DEF HandlerOK, ExecuteOK, Marked
      <4> QED
        BY <2>1, <4>1 DEF Of
    <3> QED
      BY <3>1, <3>2
  <2>4. Creating(v) \/ Executing(v)
    BY <1>1, <1>4 DEF Creating, Executing, Holding, HandlerOK, RequestOK
  <2> QED
    BY <2>2, <2>3, <2>4
<1> QED
  BY <1>3, <1>4

\* The items are marked inside the transaction.
LEMMA WriteItemsPreserves ==
  ASSUME IInv, NEW w \in Workers, WriteItems(w) PROVE IInv'
<1>1. /\ pc[w] = "write" /\ Goto(w, "save")
      /\ tx' = [tx EXCEPT ![w].items = Marked(req[w].sub, Of(item, req[w].id))]
      /\ UNCHANGED <<inspection, item, lock, req, answer, got, outcome>>
  BY DEF WriteItems
<1>2. Holding(w) /\ HandlerOK(w) /\ req[w].op = "execute" /\ Executing(w)
  BY <1>1 DEF Holding, Executing, IInv, HandlersOK, HandlerOK, RequestOK
<1>3. req[w].id \in Inspections /\ lock[req[w].id] = w /\ req[w].sub \in Submission
  BY <1>2, Types DEF HandlerOK, HoldsRow, Requests
<1>4. PICK f : f = Marked(req[w].sub, Of(item, req[w].id))
  OBVIOUS
<1>5. /\ DOMAIN f = Of(item, req[w].id) /\ DOMAIN f \subseteq Items
      /\ \A a \in DOMAIN f : f[a] \in ItemRow
  <2>1. RowsOf(f, Of(item, req[w].id), req[w].id)
    BY <1>3, <1>4, MarkedShape DEF IInv
  <2> QED
    BY <2>1 DEF RowsOf, Of
<1>6. Buffer(tx') /\ tx'[w].items = f /\ tx'[w].row = tx[w].row
      /\ \A v \in Workers \ {w} : tx'[v] = tx[v]
  BY <1>1, <1>4, <1>5, WriteItemsOf DEF Replaced
<1>7. pc' \in [Workers -> Points] /\ pc'[w] = "save"
      /\ \A v \in Workers \ {w} : pc'[v] = pc[v]
  BY <1>1, GotoOf DEF Points
<1>8. TypeOK' /\ Buffer(got')
  BY <1>1, <1>6, <1>7, Types, TypeFrom DEF IInv
<1>9. Holding(w)'
  BY <1>7 DEF Holding
<1>10. HandlerOK(w)'
  <2>1. RequestOK(w)' /\ HoldsRow(w)'
    BY <1>1, <1>2, <1>3, <1>7, <1>9 DEF RequestOK, HoldsRow, HandlerOK
  <2>2. CreateOK(w)'
    BY <1>1, <1>2 DEF CreateOK, Creating
  <2>3. ExecuteOK(w)'
    <3>1. inspection[req[w].id] # NoRow /\ inspection[req[w].id].status \in Open
      BY <1>2 DEF HandlerOK, ExecuteOK
    <3>2. Marked(req[w].sub, Of(item, req[w].id))' = f
      BY <1>1, <1>4 DEF Marked
    <3> QED
      BY <1>1, <1>6, <1>7, <3>1, <3>2 DEF ExecuteOK
  <2>4. ReadOK(w)'
    BY <1>1, <1>2, <1>7 DEF ReadOK, HandlerOK, Executed
  <2> QED
    BY <2>1, <2>2, <2>3, <2>4 DEF HandlerOK
<1>11. \A v \in Workers \ {w} : DOMAIN tx'[w].items \cap DOMAIN tx[v].items = {}
  BY <1>2, <1>5, <1>6, OwnItemsApart
<1>12. \A j \in Inspections : lock'[j] = w => j = req'[w].id
  BY <1>1 DEF IInv, LocksOK
<1> QED
  BY <1>1, <1>6, <1>7, <1>8, <1>9, <1>10, <1>11, <1>12, QuietStep

\* The summary is drawn from the items the transaction has locked.
LEMMA SaveRowPreserves ==
  ASSUME IInv, NEW w \in Workers, SaveRow(w) PROVE IInv'
<1>1. /\ pc[w] = "save" /\ Goto(w, "commit")
      /\ tx' = [tx EXCEPT ![w].row = Summary(req[w].sub, Of(item, req[w].id))]
      /\ UNCHANGED <<inspection, item, lock, req, answer, got, outcome>>
  BY DEF SaveRow
<1>2. Holding(w) /\ HandlerOK(w) /\ req[w].op = "execute" /\ Executing(w)
  BY <1>1 DEF Holding, Executing, IInv, HandlersOK, HandlerOK, RequestOK
<1>3. req[w].id \in Inspections /\ lock[req[w].id] = w /\ req[w].sub \in Submission
  BY <1>2, Types DEF HandlerOK, HoldsRow, Requests
<1>4. PICK r : r = Summary(req[w].sub, Of(item, req[w].id))
  OBVIOUS
<1>5. r \in InspectionRow
  <2>1. SumsUp(r, req[w].sub, Of(item, req[w].id))
    BY <1>3, <1>4, SummaryShape DEF IInv
  <2> QED
    BY <2>1 DEF SumsUp
<1>6. Buffer(tx') /\ tx'[w].row = r /\ tx'[w].items = tx[w].items
      /\ \A v \in Workers \ {w} : tx'[v] = tx[v]
  BY <1>1, <1>4, <1>5, WriteRowOf DEF Replaced
<1>7. pc' \in [Workers -> Points] /\ pc'[w] = "commit"
      /\ \A v \in Workers \ {w} : pc'[v] = pc[v]
  BY <1>1, GotoOf DEF Points
<1>8. TypeOK' /\ Buffer(got')
  BY <1>1, <1>6, <1>7, Types, TypeFrom DEF IInv
<1>9. Holding(w)'
  BY <1>7 DEF Holding
<1>10. HandlerOK(w)'
  <2>1. RequestOK(w)' /\ HoldsRow(w)'
    BY <1>1, <1>2, <1>3, <1>7, <1>9 DEF RequestOK, HoldsRow, HandlerOK
  <2>2. CreateOK(w)'
    BY <1>1, <1>2 DEF CreateOK, Creating
  <2>3. ExecuteOK(w)'
    <3>1. /\ inspection[req[w].id] # NoRow
          /\ inspection[req[w].id].status \in Open
          /\ tx[w].items = Marked(req[w].sub, Of(item, req[w].id))
      BY <1>1, <1>2 DEF HandlerOK, ExecuteOK
    <3>2. /\ Marked(req[w].sub, Of(item, req[w].id))'
               = Marked(req[w].sub, Of(item, req[w].id))
          /\ Summary(req[w].sub, Of(item, req[w].id))' = r
      BY <1>1, <1>4 DEF Marked, Summary, Tally
    <3> QED
      BY <1>1, <1>6, <1>7, <3>1, <3>2 DEF ExecuteOK
  <2>4. ReadOK(w)'
    BY <1>1, <1>2, <1>7 DEF ReadOK, HandlerOK, Executed
  <2> QED
    BY <2>1, <2>2, <2>3, <2>4 DEF HandlerOK
<1>11. \A v \in Workers \ {w} : DOMAIN tx'[w].items \cap DOMAIN tx[v].items = {}
  BY <1>6 DEF IInv, WritesApart
<1>12. \A j \in Inspections : lock'[j] = w => j = req'[w].id
  BY <1>1 DEF IInv, LocksOK
<1> QED
  BY <1>1, <1>6, <1>7, <1>8, <1>9, <1>10, <1>11, <1>12, QuietStep

\* A report reads the row, and later the items.
LEMMA GetWithItemsPreserves ==
  ASSUME IInv, NEW w \in Workers, GetWithItems(w) PROVE IInv'
<1>1. PICK id : id = req[w].id
  OBVIOUS
<1>2. pc[w] \in {"readRow", "readItems"} /\ HandlerOK(w)
  BY DEF GetWithItems, IInv, HandlersOK
<1>3. req[w].op = "report" /\ id \in Inspections /\ ~Holding(w)
  BY <1>1, <1>2 DEF HandlerOK, RequestOK, Holding
<1>4. DOMAIN tx[w].items = {} /\ tx[w] = NoWrites
      /\ \A j \in Inspections : lock[j] # w
  BY <1>3, FreeHandler
<1>5. ASSUME NEW label \in {"readItems", "reply"}, Goto(w, label), Buffer(got'),
             \A v \in Workers \ {w} : got'[v] = got[v],
             UNCHANGED <<inspection, item, lock, req, answer, tx, outcome>>,
             ReadOK(w)'
      PROVE  IInv'
  <2>1. pc' \in [Workers -> Points] /\ pc'[w] = label
        /\ \A v \in Workers \ {w} : pc'[v] = pc[v]
    BY <1>5, GotoOf DEF Points
  <2>2. TypeOK' /\ Buffer(tx')
    BY <1>5, <2>1, Types, TypeFrom DEF IInv
  <2>3. ~Holding(w)'
    BY <2>1 DEF Holding
  <2>4. HandlerOK(w)'
    BY <1>1, <1>2, <1>3, <1>4, <1>5, <2>1, <2>3 DEF HandlerOK, RequestOK, HoldsRow,
       CreateOK, ExecuteOK, Creating, Executing
  <2> QED
    BY <1>4, <1>5, <2>1, <2>2, <2>4, QuietStep
<1>6. CASE pc[w] = "readRow" /\ inspection[id] = NoRow /\ Rollback(w, 500)
  BY <1>6, RollbackPreserves DEF Answers
<1>7. CASE /\ pc[w] = "readRow" /\ inspection[id] # NoRow
           /\ got' = [got EXCEPT ![w].row = inspection[id]]
           /\ Goto(w, "readItems")
           /\ UNCHANGED <<inspection, item, lock, req, answer, tx, outcome>>
  <2>1. PICK b, c, r : b = got /\ c = got' /\ r = inspection[id]
    OBVIOUS
  <2>2. Buffer(b) /\ c = [b EXCEPT ![w].row = r] /\ r \in InspectionRow
    BY <1>3, <1>7, <2>1, Types
  <2>3. Replaced(b, c, w, r, b[w].items)
    BY <2>2, BufferRow
  <2>4. Buffer(got') /\ got'[w].row = r
        /\ \A v \in Workers \ {w} : got'[v] = got[v]
    BY <2>1, <2>3 DEF Replaced
  <2>5. pc'[w] = "readItems"
    BY <1>7, GotoOf DEF Points
  <2>6. ReadOK(w)'
    BY <1>1, <1>3, <1>7, <2>1, <2>4, <2>5 DEF ReadOK
  <2> QED
    BY <1>5, <1>7, <2>4, <2>6
<1>8. CASE /\ pc[w] = "readItems"
           /\ got' = [got EXCEPT ![w].items = ItemsOf(id)]
           /\ Goto(w, "reply")
           /\ UNCHANGED <<inspection, item, lock, req, answer, tx, outcome>>
  <2>1. PICK b, c, f : b = got /\ c = got' /\ f = ItemsOf(id)
    OBVIOUS
  <2>2. Buffer(b) /\ c = [b EXCEPT ![w].items = f]
    BY <1>8, <2>1, Types
  <2>3. DOMAIN f \subseteq Items /\ \A a \in DOMAIN f : f[a] \in ItemRow
    BY <2>1, OwnItems DEF IInv, ItemsOf
  <2>4. Replaced(b, c, w, b[w].row, f)
    BY <2>2, <2>3, BufferItems
  <2>5. Buffer(got') /\ got'[w].row = got[w].row /\ got'[w].items = f
        /\ \A v \in Workers \ {w} : got'[v] = got[v]
    BY <2>1, <2>4 DEF Replaced
  <2>6. pc'[w] = "reply"
    BY <1>8, GotoOf DEF Points
  <2>7. ReadOK(w)'
    <3>1. /\ got[w].row # NoRow
          /\ got[w].row.status \in Terminal => got[w].row = inspection[id]
      BY <1>1, <1>2, <1>3, <1>8 DEF HandlerOK, ReadOK
    <3>2. ItemsOf(id)' = f /\ ItemsOf(req[w].id)' = ItemsOf(id)'
      BY <1>1, <1>8, <2>1 DEF ItemsOf
    <3> QED
      BY <1>1, <1>3, <1>8, <2>5, <2>6, <3>1, <3>2 DEF ReadOK
  <2> QED
    BY <1>5, <1>8, <2>5, <2>7
<1> QED
  BY <1>1, <1>6, <1>7, <1>8 DEF GetWithItems

\* A failed statement or a lock wait that times out.
LEMMA DBErrorPreserves ==
  ASSUME IInv, NEW w \in Workers, DBError(w) PROVE IInv'
BY RollbackPreserves DEF DBError, Answers

\* The handler answers after its commit or its reads.
LEMMA ReplyPreserves ==
  ASSUME IInv, NEW w \in Workers, Reply(w) PROVE IInv'
<1>1. /\ pc[w] = "reply" /\ Answer(w, 200)
      /\ UNCHANGED <<inspection, item, lock, tx, outcome>>
  BY DEF Reply
<1>2. ~Holding(w) /\ HandlerOK(w)
  BY <1>1 DEF Holding, IInv, HandlersOK
<1>3. DOMAIN tx[w].items = {} /\ tx[w] = NoWrites
      /\ \A j \in Inspections : lock[j] # w
  BY <1>2, FreeHandler
<1>4. /\ pc' \in [Workers -> Points] /\ req' \in [Workers -> Requests]
      /\ answer' \in [Workers -> Answers] /\ Buffer(got')
      /\ pc'[w] = "idle"
      /\ req'[w].op = req[w].op /\ req'[w].id = req[w].id
      /\ \A v \in Workers \ {w} :
           /\ pc'[v] = pc[v] /\ req'[v] = req[v] /\ answer'[v] = answer[v]
           /\ got'[v] = got[v]
  BY <1>1, AnswerOf DEF Answers
<1>5. TypeOK' /\ Buffer(tx')
  BY <1>1, <1>4, Types, TypeFrom DEF IInv
<1>6. req[w].op = "execute" => Executed(req[w].id)'
  BY <1>1, <1>2, <1>4 DEF HandlerOK, ReadOK, Executed
<1>7. req[w].op = "create" => Stored(req[w].id)'
  BY <1>1, <1>2, <1>4 DEF HandlerOK, ReadOK, Stored
<1>8. HandlerOK(w)'
  BY <1>1, <1>3, <1>4, <1>6, <1>7, EndedOK
<1> QED
  BY <1>1, <1>3, <1>4, <1>5, <1>8, QuietStep

\* A restart: what was not committed is gone, what was told stays true.
LEMMA CrashPreserves ==
  ASSUME IInv, Crash PROVE IInv'
<1> USE ConstantsAssumption
<1>1. UNCHANGED <<inspection, item, outcome>>
      /\ lock' = [i \in Inspections |-> Free]
      /\ pc' = [w \in Workers |-> "idle"]
      /\ tx' = [w \in Workers |-> NoWrites]
      /\ got' = [w \in Workers |-> NoWrites]
  BY DEF Crash
<1>2. Buffer(tx') /\ Buffer(got')
  BY <1>1, NoWritesType DEF Buffer
<1>3. req' \in [Workers -> Requests]
      /\ \A w \in Workers : req'[w].op = req[w].op /\ req'[w].id = req[w].id
  <2>1. req' = [w \in Workers |-> [req[w] EXCEPT !.sub = <<>>]]
    BY DEF Crash
  <2>2. ASSUME NEW w \in Workers
        PROVE  /\ req'[w] \in Requests
               /\ req'[w].op = req[w].op /\ req'[w].id = req[w].id
    <3>1. PICK q \in Requests : q = req[w]
      BY Types
    <3>2. req'[w] = [q EXCEPT !.sub = <<>>]
      BY <2>1, <3>1
    <3> QED
      BY <3>1, <3>2, NothingSubmitted DEF Requests
  <2> QED
    BY <2>1, <2>2
<1>4. answer' \in [Workers -> Answers]
      /\ \A w \in Workers : answer'[w] \in {answer[w], 0}
  BY Types DEF Crash, Answers
<1>5. TypeOK'
  <2>1. lock' \in [Inspections -> Workers \cup {Free}]
    BY <1>1
  <2>2. pc' \in [Workers -> Points]
    BY <1>1 DEF Points
  <2> QED
    BY <1>1, <1>2, <1>3, <1>4, <2>1, <2>2, TypeFrom DEF IInv
<1>6. HandlersOK'
  <2> SUFFICES ASSUME NEW w \in Workers PROVE HandlerOK(w)'
    BY DEF HandlersOK
  <2>1. answer'[w] \in {200, 409} /\ req[w].op = "execute" =>
          Executed(req[w].id)'
    BY <1>1, <1>3, <1>4 DEF IInv, HandlersOK, HandlerOK, ReadOK, Executed
  <2>2. answer'[w] = 200 /\ req[w].op = "create" => Stored(req[w].id)'
    BY <1>1, <1>3, <1>4 DEF IInv, HandlersOK, HandlerOK, ReadOK, Stored
  <2> QED
    BY <1>1, <1>3, <2>1, <2>2, EndedOK
<1>7. LocksOK' /\ WritesApart'
  BY <1>1, NoWritesType DEF LocksOK, WritesApart
<1>8. ItemsHavePlans' /\ OutcomesOK' /\ SummaryMatchesItems'
  BY <1>1, SummaryOfTables DEF IInv, ItemsHavePlans, OutcomesOK, Executed
<1> QED
  BY <1>2, <1>5, <1>6, <1>7, <1>8 DEF IInv

----------------------------------------------------------------------------
\* Commit.

\* What a commit does to the tables.
LEMMA CommitTables ==
  ASSUME IInv, NEW w \in Workers, Commit(w), NEW id, id = req[w].id
  PROVE  /\ id \in Inspections /\ lock[id] = w /\ ~Executed(id)
         /\ inspection'[id] = tx[w].row /\ tx[w].row \in InspectionRow
         /\ \A i \in Inspections \ {id} : inspection'[i] = inspection[i]
         /\ \A a \in DOMAIN tx[w].items :
              /\ a \in Items /\ item'[a] = tx[w].items[a]
              /\ item'[a] \in ItemRow /\ item'[a].of = id
              /\ item[a] = NoRow \/ item[a].of = id
         /\ \A a \in Items \ DOMAIN tx[w].items : item'[a] = item[a]
<1>1. Holding(w) /\ HandlerOK(w) /\ (Creating(w) \/ Executing(w))
      /\ pc[w] = "commit"
  BY DEF Commit, Holding, Creating, Executing, IInv, HandlersOK, HandlerOK,
         RequestOK
<1>2. id \in Inspections /\ lock[id] = w
  BY <1>1 DEF HandlerOK, HoldsRow
<1>3. CASE Creating(w)
  <2>1. inspection[id] = NoRow /\ tx[w].row = Planned
        /\ \A a \in DOMAIN tx[w].items :
             item[a] = NoRow /\ tx[w].items[a].of = id
    BY <1>1, <1>3 DEF HandlerOK, CreateOK
  <2>2. tx[w].row \in InspectionRow
    BY <2>1 DEF Planned, InspectionRow, Open
  <2>3. ~Executed(id)
    BY <2>1 DEF Executed
  <2>4. \A a \in DOMAIN tx[w].items : a \in Items /\ tx[w].items[a] \in ItemRow
    BY Types DEF Buffer, Writes
  <2> QED
    BY <1>2, <2>1, <2>2, <2>3, <2>4, Types DEF Commit
<1>4. CASE Executing(w)
  <2>1. PICK sub, own : sub = req[w].sub /\ own = Of(item, id)
    OBVIOUS
  <2>2. sub \in Submission
    BY <2>1, Types DEF Requests
  <2>3. /\ inspection[id].status \in Open
        /\ tx[w].items = Marked(sub, own) /\ tx[w].row = Summary(sub, own)
    BY <1>1, <1>4, <2>1 DEF HandlerOK, ExecuteOK
  <2>4. /\ DOMAIN tx[w].items = own /\ tx[w].row \in InspectionRow
        /\ \A a \in own : tx[w].items[a] \in ItemRow /\ tx[w].items[a].of = id
    <3>1. RowsOf(Marked(sub, own), own, id) /\ SumsUp(Summary(sub, own), sub, own)
      BY <2>1, <2>2, MarkedShape, SummaryShape DEF IInv
    <3> QED
      BY <2>3, <3>1 DEF RowsOf, SumsUp
  <2>5. ~Executed(id)
    BY <2>3 DEF Executed, Open, Terminal
  <2>6. \A a \in own : a \in Items /\ item[a].of = id
    BY <2>1 DEF Of
  <2> QED
    BY <1>2, <2>4, <2>5, <2>6, Types DEF Commit
<1> QED
  BY <1>1, <1>3, <1>4

\* A commit leaves every other inspection alone.
LEMMA CommitLeavesOthers ==
  ASSUME IInv, NEW w \in Workers, Commit(w),
         NEW i \in Inspections, i # req[w].id
  PROVE  Untouched(i)
<1>1. PICK id : id = req[w].id
  OBVIOUS
<1>2. /\ inspection'[i] = inspection[i]
      /\ \A a \in DOMAIN tx[w].items :
           /\ item'[a].of = id
           /\ item[a] = NoRow \/ item[a].of = id
      /\ \A a \in Items \ DOMAIN tx[w].items : item'[a] = item[a]
  BY <1>1, CommitTables
<1>3. Of(item', i) = Of(item, i)
  BY <1>1, <1>2 DEF Of
<1>4. \A a \in Of(item, i) : item'[a] = item[a]
  BY <1>1, <1>2 DEF Of
<1> QED
  BY <1>2, <1>3, <1>4 DEF Untouched

\* What the commit of an execution leaves: the same items, marked, and the
\* summary.
LEMMA CommitOfExecution ==
  ASSUME IInv, NEW w \in Workers, Commit(w), req[w].op = "execute",
         NEW id, id = req[w].id, NEW own, own = Of(item, id)
  PROVE  /\ req[w].sub \in Submission
         /\ inspection[id] # NoRow
         /\ inspection'[id] = Summary(req[w].sub, own)
         /\ Of(item', id) = own
         /\ \A a \in own : item'[a] = Marked(req[w].sub, own)[a]
         /\ Executed(id)'
<1> USE ConstantsAssumption
<1>1. PICK sub : sub = req[w].sub
  OBVIOUS
<1>2. Executing(w) /\ HandlerOK(w) /\ pc[w] = "commit"
  BY DEF Commit, Executing, Holding, IInv, HandlersOK
<1>3. sub \in Submission
  BY <1>1, Types DEF Requests
<1>4. /\ inspection[id] # NoRow
      /\ tx[w].items = Marked(sub, own) /\ tx[w].row = Summary(sub, own)
  BY <1>1, <1>2 DEF HandlerOK, ExecuteOK
<1>5. DOMAIN tx[w].items = own
  <2>1. RowsOf(Marked(sub, own), own, id)
    BY <1>3, MarkedShape DEF IInv
  <2> QED
    BY <1>4, <2>1 DEF RowsOf
<1>6. /\ id \in Inspections /\ inspection'[id] = Summary(sub, own)
      /\ inspection'[id] \in InspectionRow
      /\ \A a \in own : /\ item'[a] = Marked(sub, own)[a]
                        /\ item'[a] \in ItemRow /\ item'[a].of = id
      /\ \A a \in Items \ own : item'[a] = item[a]
  BY <1>4, <1>5, CommitTables
<1>7. Of(item', id) = own
  BY <1>6, RowsAreNotNoRow DEF Of
<1>8. Executed(id)'
  <2>1. inspection'[id].status \in Terminal
    <3>1. SumsUp(Summary(sub, own), sub, own)
      BY <1>3, SummaryShape DEF IInv
    <3> QED
      BY <1>6, <3>1 DEF SumsUp
  <2>2. inspection'[id] # NoRow
    BY <1>6, RowsAreNotNoRow
  <2>3. PICK j : j = id
    OBVIOUS
  <2> QED
    BY <2>1, <2>2 DEF Executed
<1> QED
  BY <1>1, <1>3, <1>4, <1>6, <1>7, <1>8

\* After the commit of an execution the summary covers the items stored beside
\* it, and counts them exactly if every item was listed once, or none.
LEMMA CommittedSummary ==
  ASSUME IInv, NEW w \in Workers, Commit(w), req[w].op = "execute",
         NEW id, id = req[w].id
  PROVE  SummaryOK(inspection'[id], item', outcome'[id], id)
<1>1. PICK own, sub : own = Of(item, id) /\ sub = req[w].sub
  OBVIOUS
<1>2. /\ sub \in Submission
      /\ inspection'[id] = Summary(sub, own)
      /\ Of(item', id) = own
      /\ \A a \in own : item'[a] = Marked(sub, own)[a]
  BY <1>1, CommitOfExecution
<1>3. outcome'[id].items = sub
  <2>1. id \in Inspections
    BY <1>1, CommitTables
  <2> QED
    BY <1>1, <2>1, Types DEF Commit
<1>4. PICK r : r = Summary(sub, own)
  OBVIOUS
<1>5. /\ r.passed = Tally(sub, own, TRUE) /\ r.issues = Tally(sub, own, FALSE)
      /\ (r.status = "completed" <=> r.issues = 0)
      /\ (r.score = 100 <=> r.issues = 0 /\ r.passed > 0)
  <2>1. SumsUp(r, sub, own)
    BY <1>1, <1>2, <1>4, SummaryShape DEF IInv
  <2> QED
    BY <2>1 DEF SumsUp
<1>6. ASSUME Complete(sub, own) \/ Known(sub, own) = {}, NEW flag
      PROVE  Tally(sub, own, flag) = CountIn(item', own, flag)
  <2>1. Tally(sub, own, flag) =
          Cardinality({a \in own : Marked(sub, own)[a].passed = flag})
    BY <1>1, <1>2, <1>6, TallyOfComplete, TallyOfNone DEF IInv
  <2>2. {a \in own : Marked(sub, own)[a].passed = flag}
          = {a \in own : item'[a].passed = flag}
    BY <1>2
  <2> QED
    BY <2>1, <2>2 DEF CountIn
<1>7. ASSUME NEW flag
      PROVE  CountIn(item', Judged(sub, own), flag) <= Tally(sub, own, flag)
  <2>1. Cardinality({a \in Judged(sub, own) : Marked(sub, own)[a].passed = flag})
          <= Tally(sub, own, flag)
    BY <1>1, <1>2, TallyCoversJudged DEF IInv
  <2>2. Judged(sub, own) \subseteq own
    BY DEF Judged, Known
  <2>3. {a \in Judged(sub, own) : Marked(sub, own)[a].passed = flag}
          = {a \in Judged(sub, own) : item'[a].passed = flag}
    BY <1>2, <2>2
  <2> QED
    BY <2>1, <2>3 DEF CountIn
<1>8. CountIn(item', Judged(sub, own), TRUE) \in Nat /\ CountIn(item', Judged(sub, own), FALSE) \in Nat
  <2>1. ASSUME NEW flag PROVE CountIn(item', Judged(sub, own), flag) \in Nat
    <3>1. {a \in Judged(sub, own) : item'[a].passed = flag} \subseteq Of(item, id)
      BY <1>1 DEF Judged, Known
    <3> QED
      BY <3>1, OwnItems, FS_Subset, FS_CardinalityType DEF IInv, CountIn
  <2> QED
    BY <2>1
<1>9. Tally(sub, own, TRUE) \in Nat /\ Tally(sub, own, FALSE) \in Nat
  BY <1>1, <1>2, TallyType DEF IInv
<1>10. CountsOK(r.passed, r.issues, item', sub, own)
  BY <1>5, <1>6, <1>7, <1>8, <1>9 DEF CountsOK
<1> QED
  BY <1>2, <1>3, <1>4, <1>5, <1>10 DEF SummaryOK

\* A commit: the writes of the transaction appear at once, and no other handler
\* had read or written any of what they change.
LEMMA CommitPreserves ==
  ASSUME IInv, NEW w \in Workers, Commit(w) PROVE IInv'
<1> USE ConstantsAssumption
<1>1. PICK id : id = req[w].id
  OBVIOUS
<1>2. /\ id \in Inspections /\ lock[id] = w /\ ~Executed(id)
      /\ inspection'[id] = tx[w].row /\ tx[w].row \in InspectionRow
      /\ \A i \in Inspections \ {id} : inspection'[i] = inspection[i]
      /\ \A a \in DOMAIN tx[w].items :
           /\ a \in Items /\ item'[a] = tx[w].items[a]
           /\ item'[a] \in ItemRow /\ item'[a].of = id
           /\ item[a] = NoRow \/ item[a].of = id
      /\ \A a \in Items \ DOMAIN tx[w].items : item'[a] = item[a]
  BY <1>1, CommitTables
<1>3. /\ lock' \in [Inspections -> Workers \cup {Free}]
      /\ Buffer(tx') /\ tx'[w] = NoWrites
      /\ \A v \in Workers \ {w} : tx'[v] = tx[v]
      /\ \A i \in Inspections : lock'[i] # w
      /\ \A i \in Inspections : \A v \in Workers \ {w} :
           lock'[i] = v <=> lock[i] = v
  BY EndTxOf DEF Commit
<1>4. /\ pc' \in [Workers -> Points] /\ req' \in [Workers -> Requests]
      /\ answer' \in [Workers -> Answers] /\ Buffer(got')
      /\ pc'[w] \in {"idle", "reply"}
      /\ pc'[w] = "idle" => answer'[w] = 500
      /\ pc'[w] = "reply" => answer'[w] = answer[w]
      /\ req'[w].op = req[w].op /\ req'[w].id = id
      /\ \A v \in Workers \ {w} :
           /\ pc'[v] = pc[v] /\ req'[v] = req[v] /\ answer'[v] = answer[v]
           /\ got'[v] = got[v]
  <2>1. CASE Answer(w, 500)
    BY <1>1, <2>1, AnswerOf DEF Answers
  <2>2. CASE Goto(w, "reply") /\ UNCHANGED <<req, answer, got>>
    BY <1>1, <2>2, GotoOf, Types DEF Points
  <2> QED
    BY <2>1, <2>2 DEF Commit
<1>5. \A i \in Inspections \ {id} : Untouched(i)
  BY <1>1, CommitLeavesOthers
<1>6. req[w].op \in {"create", "execute"} /\ HandlerOK(w) /\ pc[w] = "commit"
  BY DEF Commit, IInv, HandlersOK, HandlerOK, RequestOK
<1>7. req[w].op = "execute" => Executed(id)'
  BY <1>1, CommitOfExecution
<1>8. req[w].op = "create" => outcome[id] = NoRow /\ outcome'[id] = NoRow
  BY <1>2 DEF IInv, OutcomesOK, Commit
<1>9. \A i \in Inspections \ {id} : outcome'[i] = outcome[i]
  BY <1>1, Types DEF Commit
<1>10. TypeOK'
  <2>1. inspection' \in [Inspections -> InspectionRow \cup {NoRow}]
    BY <1>1, <1>2, Types DEF Commit
  <2>2. item' \in [Items -> ItemRow \cup {NoRow}]
    <3>1. item' = [a \in Items |-> item'[a]]
      BY DEF Commit
    <3> QED
      BY <1>2, <3>1, Types
  <2>3. outcome' \in [Inspections -> [items : Submission] \cup {NoRow}]
    <3>1. req[w].sub \in Submission
      BY Types DEF Requests
    <3> QED
      BY <3>1, Types DEF Commit
  <2>4. \A v \in Workers : \A t \in {tx'[v], got'[v]} :
          /\ t.row \in InspectionRow \cup {NoRow}
          /\ DOMAIN t.items \subseteq Items
          /\ \A a \in DOMAIN t.items : t.items[a] \in ItemRow
    BY <1>3, <1>4 DEF Buffer, Writes
  <2> QED
    BY <1>3, <1>4, <2>1, <2>2, <2>3, <2>4 DEF TypeOK, Points, Requests
<1>11. HandlersOK'
  <2> SUFFICES ASSUME NEW v \in Workers PROVE HandlerOK(v)'
    BY DEF HandlersOK
  <2>1. CASE v # w
    <3>1. HandlerOK(v)
      BY DEF IInv, HandlersOK
    <3>2. Holding(v) => /\ lock'[req[v].id] = v /\ Untouched(req[v].id)
      BY <1>2, <1>3, <1>5, <2>1, <3>1 DEF HandlerOK, HoldsRow
    <3>3. \A a \in DOMAIN tx[v].items : item'[a] = item[a]
      <4>1. DOMAIN tx[v].items \subseteq Items
        BY Types DEF Buffer, Writes
      <4>2. DOMAIN tx[v].items \cap DOMAIN tx[w].items = {}
        BY <2>1 DEF IInv, WritesApart
      <4> QED
        BY <1>2, <4>1, <4>2
    <3>4. \A i \in Inspections : Executed(i) => Untouched(i)
      BY <1>2, <1>5
    <3>5. \A i \in Inspections : inspection[i] # NoRow => inspection'[i] # NoRow
      BY <1>2, RowsAreNotNoRow
    <3> QED
      BY <1>3, <1>4, <2>1, <3>1, <3>2, <3>3, <3>4, <3>5, HandlerStays
  <2>2. CASE v = w
    <3>1. ~Holding(w)' /\ ~Creating(w)' /\ ~Executing(w)'
      BY <1>4 DEF Holding, Creating, Executing
    <3>2. RequestOK(w)' /\ HoldsRow(w)' /\ CreateOK(w)' /\ ExecuteOK(w)'
      BY <1>2, <1>3, <1>4, <1>6, <3>1, NoAnswerYet DEF RequestOK, HoldsRow,
         CreateOK, ExecuteOK
    <3>3. ReadOK(w)'
      <4>1. Stored(req[w].id)'
        BY <1>2, <1>4, RowsAreNotNoRow DEF Stored
      <4>2. pc'[w] = "reply" => answer'[w] = 0
        BY <1>4, <1>6 DEF HandlerOK, RequestOK
      <4> QED
        BY <1>1, <1>4, <1>6, <1>7, <4>1, <4>2 DEF ReadOK, Executed
    <3> QED
      BY <2>2, <3>2, <3>3 DEF HandlerOK
  <2> QED
    BY <2>1, <2>2
<1>12. LocksOK'
  <2> SUFFICES ASSUME NEW i \in Inspections, NEW v \in Workers, lock'[i] = v
               PROVE  Holding(v)' /\ req'[v].id = i
    BY DEF LocksOK
  <2>1. v # w /\ lock[i] = v
    BY <1>3
  <2>2. Holding(v) /\ req[v].id = i
    BY <2>1 DEF IInv, LocksOK
  <2> QED
    BY <1>4, <2>1, <2>2 DEF Holding
<1>13. WritesApart'
  BY <1>3, NoWritesType DEF IInv, WritesApart
<1>14. ItemsHavePlans'
  <2> SUFFICES ASSUME NEW a \in Items, item'[a] # NoRow
               PROVE  inspection'[item'[a].of] # NoRow
    BY DEF ItemsHavePlans
  <2>1. inspection'[id] # NoRow
    BY <1>2, RowsAreNotNoRow
  <2>2. CASE a \in DOMAIN tx[w].items
    BY <1>2, <2>1, <2>2
  <2>3. CASE a \notin DOMAIN tx[w].items
    <3>1. item'[a] = item[a] /\ inspection[item[a].of] # NoRow
      BY <1>2, <2>3 DEF IInv, ItemsHavePlans
    <3>2. item[a].of \in Inspections
      BY <3>1, Types DEF ItemRow
    <3> QED
      BY <1>2, <2>1, <3>1, <3>2
  <2> QED
    BY <2>2, <2>3
<1>15. OutcomesOK'
  <2> SUFFICES ASSUME NEW i \in Inspections, outcome'[i] # NoRow
               PROVE  Executed(i)'
    BY DEF OutcomesOK
  <2>1. CASE i = id
    BY <1>6, <1>7, <1>8, <2>1
  <2>2. CASE i # id
    BY <1>5, <1>9, <2>2, ExecutedStays DEF IInv, OutcomesOK
  <2> QED
    BY <2>1, <2>2
<1>16. SummaryMatchesItems'
  <2> SUFFICES ASSUME NEW i \in Inspections
               PROVE  SummaryOK(inspection'[i], item', outcome'[i], i)
    BY SummaryOfTables
  <2>1. CASE i = id /\ req[w].op = "execute"
    BY <1>1, <2>1, CommittedSummary
  <2>2. CASE i = id /\ req[w].op = "create"
    BY <1>8, <2>2 DEF SummaryOK
  <2>3. CASE i # id
    <3>1. SummaryOK(inspection[i], item, outcome[i], i)
      BY SummaryOfTables DEF IInv
    <3>2. Untouched(i) /\ outcome'[i] = outcome[i]
      BY <1>5, <1>9, <2>3
    <3>3. PICK own : own = Of(item, i) /\ own = Of(item', i)
      BY <3>2 DEF Untouched
    <3>4. ASSUME NEW set, set \subseteq own, NEW flag
          PROVE  CountIn(item', set, flag) = CountIn(item, set, flag)
      <4>1. {a \in set : item'[a].passed = flag} = {a \in set : item[a].passed = flag}
        BY <3>2, <3>3, <3>4 DEF Untouched
      <4> QED
        BY <4>1 DEF CountIn
    <3>5. ASSUME NEW sub PROVE Judged(sub, own) \subseteq own
      BY DEF Judged, Known
    <3>6. ASSUME NEW p, NEW q, NEW sub, CountsOK(p, q, item, sub, own)
          PROVE  CountsOK(p, q, item', sub, own)
      <4>1. /\ CountIn(item', own, TRUE) = CountIn(item, own, TRUE)
            /\ CountIn(item', own, FALSE) = CountIn(item, own, FALSE)
            /\ CountIn(item', Judged(sub, own), TRUE) = CountIn(item, Judged(sub, own), TRUE)
            /\ CountIn(item', Judged(sub, own), FALSE) = CountIn(item, Judged(sub, own), FALSE)
        BY <3>4, <3>5
      <4> QED
        BY <3>6, <4>1 DEF CountsOK
    <3> QED
      BY <3>1, <3>2, <3>3, <3>6 DEF SummaryOK, Untouched
  <2> QED
    BY <1>6, <2>1, <2>2, <2>3
<1> QED
  BY <1>3, <1>4, <1>10, <1>11, <1>12, <1>13, <1>14, <1>15, <1>16 DEF IInv

----------------------------------------------------------------------------

\* Every step keeps the invariant.
LEMMA StepPreserves ==
  ASSUME IInv, [Next]_vars PROVE IInv'
<1>1. CASE UNCHANGED vars
  <2>1. TypeOK' /\ Buffer(tx') /\ Buffer(got')
    BY <1>1 DEF vars, IInv, TypeOK
  <2>2. \A i : Untouched(i)
    BY <1>1 DEF vars, Untouched, Of
  <2>3. HandlersOK'
    <3> SUFFICES ASSUME NEW v \in Workers PROVE HandlerOK(v)'
      BY DEF HandlersOK
    <3>1. HandlerOK(v)
      BY DEF IInv, HandlersOK
    <3>2. Holding(v) => lock'[req[v].id] = v
      BY <1>1, <3>1 DEF vars, HandlerOK, HoldsRow
    <3> QED
      BY <1>1, <2>2, <3>1, <3>2, HandlerStays DEF vars
  <2>4. LocksOK' /\ WritesApart' /\ ItemsHavePlans' /\ OutcomesOK'
    BY <1>1 DEF vars, IInv, LocksOK, WritesApart, ItemsHavePlans, OutcomesOK,
                Holding, Executed
  <2>5. SummaryMatchesItems'
    BY <1>1, SummaryOfTables DEF vars, IInv
  <2> QED
    BY <2>1, <2>3, <2>4, <2>5 DEF IInv
<1>2. CASE Crash
  BY <1>2, CrashPreserves
<1>3. CASE \E w \in Workers : Refuse(w) \/ Arrive(w) \/ Handle(w)
  <2>1. PICK w \in Workers : Refuse(w) \/ Arrive(w) \/ Handle(w)
    BY <1>3
  <2>2. CASE Refuse(w)
    BY <2>2, RefusePreserves
  <2>3. CASE Arrive(w)
    BY <2>3, ArrivePreserves
  <2>4. CASE Handle(w)
    BY <2>4, CheckInspectorPreserves, InsertRowPreserves, InsertItemsPreserves,
       LockRowPreserves, WriteItemsPreserves, SaveRowPreserves, CommitPreserves,
       GetWithItemsPreserves, DBErrorPreserves, ReplyPreserves DEF Handle
  <2> QED
    BY <2>1, <2>2, <2>3, <2>4
<1> QED
  BY <1>1, <1>2, <1>3 DEF Next

\* The invariant holds in every reachable state.
THEOREM Invariance == Spec => []IInv
<1>1. IInv /\ [Next]_vars => IInv'
  BY StepPreserves
<1> QED
  BY <1>1, InitEstablishes, PTL DEF Spec

\* Rows, items, requests, open writes and what a report holds stay what they are
\* declared as: the score is a number whatever was submitted.
THEOREM TypeCorrect == Spec => []TypeOK
<1>1. IInv => TypeOK
  BY DEF IInv
<1> QED
  BY <1>1, Invariance, PTL

\* A report that shows a result shows the items the result was drawn from
\* (GetReport reads the row first and the items in a second statement).
THEOREM ReportsAreConsistent == Spec => []ReportConsistent
<1>1. IInv => ReportConsistent
  BY DEF IInv, HandlersOK, HandlerOK, ReadOK, ReportConsistent
<1> QED
  BY <1>1, Invariance, PTL

\* A conflict and a success are told only of an inspection that is executed, and
\* the success of a creation only of a plan that is in the table.
THEOREM TruthfulAnswers == Spec => []AnswersAreTruthful
<1>1. IInv => AnswersAreTruthful
  BY DEF IInv, HandlersOK, HandlerOK, ReadOK, Stored, AnswersAreTruthful
<1> QED
  BY <1>1, Invariance, PTL

\* For any number of items and marks: after an execution counts, score and status
\* agree with the stored items, exactly if each item was listed once or none, and
\* without hiding a mark otherwise.
THEOREM SummariesMatch == Spec => []SummaryMatchesItems
<1>1. IInv => SummaryMatchesItems
  BY DEF IInv
<1> QED
  BY <1>1, Invariance, PTL

----------------------------------------------------------------------------

\* Only a commit changes the tables.
LEMMA OnlyCommitChangesTables ==
  ASSUME [Next]_vars
  PROVE  \/ UNCHANGED <<inspection, item, outcome>>
         \/ \E w \in Workers : Commit(w)
BY DEF Next, vars, Crash, Refuse, Arrive, Handle, CheckInspector, InsertRow,
   InsertItems, LockRow, WriteItems, SaveRow, GetWithItems, DBError, Reply,
   Rollback

\* What a creation commits has no items yet.
LEMMA CreationIsNew ==
  ASSUME IInv, NEW w \in Workers, Commit(w), req[w].op = "create",
         NEW id, id = req[w].id
  PROVE  inspection[id] = NoRow /\ Of(item, id) = {}
<1>1. inspection[id] = NoRow
  BY DEF Commit, Creating, Holding, IInv, HandlersOK, HandlerOK, CreateOK
<1> QED
  BY <1>1 DEF IInv, ItemsHavePlans, Of

\* A commit is a creation's or an execution's.
LEMMA CommitOps ==
  ASSUME IInv, NEW w \in Workers, Commit(w)
  PROVE  req[w].op \in {"create", "execute"}
BY DEF Commit, IInv, HandlersOK, HandlerOK, RequestOK

\* One step, and an inspection that is executed.
LEMMA StepKeepsExecuted ==
  ASSUME IInv, [Next]_vars, NEW i \in Inspections, Executed(i)
  PROVE  Untouched(i)
<1>1. CASE UNCHANGED <<inspection, item, outcome>>
  BY <1>1 DEF Untouched, Of
<1>2. CASE \E w \in Workers : Commit(w)
  <2>1. PICK w \in Workers : Commit(w)
    BY <1>2
  <2>2. i # req[w].id
    BY <2>1, CommitTables
  <2> QED
    BY <2>1, <2>2, CommitLeavesOthers
<1> QED
  BY <1>1, <1>2, OnlyCommitChangesTables

\* One step that changes an item which was there.
LEMMA StepMarksWhole ==
  ASSUME IInv, [Next]_vars, NEW i \in Inspections, NEW a \in Of(item, i),
         item'[a] # item[a]
  PROVE  ~Executed(i) /\ Executed(i)'
<1>1. PICK w \in Workers : Commit(w)
  BY OnlyCommitChangesTables
<1>2. PICK id : id = req[w].id
  OBVIOUS
<1>3. i = id
  <2>1. i # id => Untouched(i)
    BY <1>1, <1>2, CommitLeavesOthers
  <2> QED
    BY <2>1 DEF Untouched
<1>4. req[w].op = "execute"
  BY <1>1, <1>2, <1>3, CommitOps, CreationIsNew
<1>5. ~Executed(id) /\ Executed(id)'
  BY <1>1, <1>2, <1>4, CommitTables, CommitOfExecution
<1> QED
  BY <1>3, <1>5

\* One step, and the items of an inspection.
LEMMA StepKeepsPlan ==
  ASSUME IInv, [Next]_vars, NEW i \in Inspections
  PROVE  /\ inspection[i] # NoRow => Of(item', i) = Of(item, i)
         /\ inspection[i] = NoRow => Of(item, i) = {}
<1>1. inspection[i] = NoRow => Of(item, i) = {}
  BY DEF IInv, ItemsHavePlans, Of
<1>2. ASSUME inspection[i] # NoRow PROVE Of(item', i) = Of(item, i)
  <2>1. CASE UNCHANGED <<inspection, item, outcome>>
    BY <2>1 DEF Of
  <2>2. CASE \E w \in Workers : Commit(w)
    <3>1. PICK w \in Workers : Commit(w)
      BY <2>2
    <3>2. CASE i # req[w].id
      BY <3>1, <3>2, CommitLeavesOthers DEF Untouched
    <3>3. CASE i = req[w].id
      <4>1. req[w].op = "execute"
        BY <1>2, <3>1, <3>3, CommitOps, CreationIsNew
      <4> QED
        BY <3>1, <3>3, <4>1, CommitOfExecution
    <3> QED
      BY <3>2, <3>3
  <2> QED
    BY <2>1, <2>2, OnlyCommitChangesTables
<1> QED
  BY <1>1, <1>2

\* An inspection is executed at most once: its result and its items stay, however
\* many requests had been waiting for its row.
THEOREM ExecutionIsFinal == Spec => ExecutedOnce
<1> DEFINE Final ==
      \A i \in Inspections :
        Executed(i) => /\ inspection'[i] = inspection[i]
                       /\ Of(item', i) = Of(item, i)
                       /\ \A a \in Of(item, i) : item'[a] = item[a]
<1>1. IInv /\ [Next]_vars => [Final]_vars
  BY StepKeepsExecuted DEF Untouched
<1> QED
  BY <1>1, Invariance, PTL DEF Spec, ExecutedOnce

\* Marks appear with the result, in the one step that executes the inspection.
THEOREM ExecutionIsAtomic == Spec => AllOrNothing
<1> DEFINE Whole ==
      \A i \in Inspections : \A a \in Of(item, i) :
        item'[a] # item[a] => ~Executed(i) /\ Executed(i)'
<1>1. IInv /\ [Next]_vars => [Whole]_vars
  BY StepMarksWhole
<1> QED
  BY <1>1, Invariance, PTL DEF Spec, AllOrNothing

\* A plan and its items become visible together and belong together for good.
THEOREM PlansAreFixed == Spec => PlanIsFixed
<1> DEFINE Fixed ==
      \A i \in Inspections :
        /\ inspection[i] # NoRow => Of(item', i) = Of(item, i)
        /\ inspection[i] = NoRow => Of(item, i) = {}
<1>1. IInv /\ [Next]_vars => [Fixed]_vars
  BY StepKeepsPlan
<1> QED
  BY <1>1, Invariance, PTL DEF Spec, PlanIsFixed

============================================================================
