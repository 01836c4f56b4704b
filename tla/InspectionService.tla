------------------------- MODULE InspectionService -------------------------
(***************************************************************************)
(* Safety inspections: a plan and its items are created, executed and read *)
(* by concurrent requests.  Create and Execute run in a transaction, and   *)
(* Execute first locks the inspection's row (SELECT ... FOR UPDATE); the   *)
(* report reads the row and then the items, outside any transaction.       *)
(***************************************************************************)
EXTENDS Naturals, Sequences, FiniteSets

CONSTANTS Inspections,      \* primary keys of table safety_inspections
          SeedInspections,  \* keys the seed planned, without items
          Items,            \* primary keys of table inspection_items
          Workers,          \* requests the server handles at the same time
          MaxSubmitted,     \* bound: items one execute request lists
          NoRow, NoInspection, Free

VARIABLES inspection,  \* committed rows of safety_inspections
          item,        \* committed rows of inspection_items
          lock,        \* the transaction that holds an inspection's row
          pc, req, answer,
          tx,          \* a worker's uncommitted writes
          got,         \* what a worker's report has read so far
          outcome      \* history: the submission that executed an inspection

vars == <<inspection, item, lock, pc, req, answer, tx, got, outcome>>

Roles == {"admin", "safety_manager", "inspector", "worker"}

Ops == {"create", "execute", "report"}

Answers == {0, 200, 400, 403, 409, 500}   \* 0: no answer

\* "in_progress" is accepted by Execute but written by no code.
Open == {"scheduled", "in_progress"}

Terminal == {"completed", "failed"}

InspectionRow == [status : Open \cup Terminal, score : Nat,
                  passed : Nat, issues : Nat]

ItemRow == [of : Inspections, passed : BOOLEAN]

\* What an execute request lists; ids may repeat or belong to another plan.
Submission == UNION {[1 .. n -> [item : Items, passed : BOOLEAN]] :
                       n \in 0 .. MaxSubmitted}

ASSUME ConstantsAssumption ==
  /\ SeedInspections \subseteq Inspections
  /\ IsFiniteSet(Items)
  /\ MaxSubmitted \in Nat
  /\ NoInspection \notin Inspections
  /\ Free \notin Workers
  /\ NoRow \notin InspectionRow \cup ItemRow \cup [items : Submission]

\* A mutant: the status column is left to its Go zero value.
PlannedBlank == [status |-> "", score |-> 0, passed |-> 0, issues |-> 0]

Planned == [status |-> "scheduled", score |-> 0, passed |-> 0, issues |-> 0]

NoWrites == [row |-> NoRow, items |-> <<>>]

NoRequest == [op |-> "report", id |-> NoInspection, sub |-> <<>>]

MayCall(role, op) == op = "report" \/ role # "worker"

\* The items of inspection i in a table t.
Of(t, i) == {a \in Items : t[a] # NoRow /\ t[a].of = i}

ItemsOf(i) == [a \in Of(item, i) |-> item[a]]

----------------------------------------------------------------------------
\* The arithmetic of Execute.

\* The positions of a submission that name an item of the inspection.
Known(sub, own) == {k \in DOMAIN sub : sub[k].item \in own}

\* Every listed item is saved in turn, so its last mention stays.
Marked(sub, own) ==
  [a \in own |->
     LET ks == {k \in DOMAIN sub : sub[k].item = a} IN
     IF ks = {} THEN item[a]
     ELSE [item[a] EXCEPT !.passed =
             sub[CHOOSE k \in ks : \A j \in ks : j <= k].passed]]

\* A mutant: every listed position counts, also those of other plans.
TallyAll(sub, own, flag) ==
  Cardinality({k \in DOMAIN sub : sub[k].passed = flag})

\* passed and issues: of the known positions, or of all items if none is known.
Tally(sub, own, flag) ==
  IF Known(sub, own) # {}
  THEN Cardinality({k \in Known(sub, own) : sub[k].passed = flag})
  ELSE Cardinality({a \in own : item[a].passed = flag})

\* int(float64(passed)/float64(total)*100) is this quotient for totals below 50.
Score(passed, issues) ==
  IF passed + issues = 0 THEN 0 ELSE (passed * 100) \div (passed + issues)

Summary(sub, own) ==
  LET passed == Tally(sub, own, TRUE)
      issues == Tally(sub, own, FALSE)
  IN  [status |-> IF issues = 0 THEN "completed" ELSE "failed",
       score  |-> Score(passed, issues), passed |-> passed, issues |-> issues]

----------------------------------------------------------------------------

Init ==
  /\ inspection = [i \in Inspections |->
                     IF i \in SeedInspections THEN Planned ELSE NoRow]
  /\ item = [a \in Items |-> NoRow]
  /\ lock = [i \in Inspections |-> Free]
  /\ pc = [w \in Workers |-> "idle"]
  /\ req = [w \in Workers |-> NoRequest]
  /\ answer = [w \in Workers |-> 0]
  /\ tx = [w \in Workers |-> NoWrites]
  /\ got = [w \in Workers |-> NoWrites]
  /\ outcome = [i \in Inspections |-> NoRow]

\* Where each handler starts.
Start(op) == CASE op = "create"  -> "inspector"
               [] op = "execute" -> "lock"
               [] op = "report"  -> "readRow"

\* RequireRole or the binding refuses a request.
Refuse(w) ==
  /\ pc[w] = "idle"
  /\ \E role \in Roles, op \in Ops :
       answer' = [answer EXCEPT ![w] = IF MayCall(role, op) THEN 400 ELSE 403]
  /\ req' = [req EXCEPT ![w] = NoRequest]
  /\ UNCHANGED <<inspection, item, lock, pc, tx, got, outcome>>

\* A well-formed request of a role that may make it reaches its handler.
Arrive(w) ==
  /\ pc[w] = "idle"
  /\ \E op \in Ops :
     \E id \in (IF op = "create" THEN {NoInspection} ELSE Inspections),
        sub \in (IF op = "execute" THEN Submission ELSE {<<>>}) :
       /\ req' = [req EXCEPT ![w] = [op |-> op, id |-> id, sub |-> sub]]
       /\ pc' = [pc EXCEPT ![w] = Start(op)]
  /\ answer' = [answer EXCEPT ![w] = 0]
  /\ UNCHANGED <<inspection, item, lock, tx, got, outcome>>

\* The worker's transaction, if any, ends: its locks and its writes are gone.
EndTx(w) ==
  /\ lock' = [i \in Inspections |-> IF lock[i] = w THEN Free ELSE lock[i]]
  /\ tx' = [tx EXCEPT ![w] = NoWrites]

\* The handler answers and drops what it had read and decoded.
Answer(w, status) ==
  /\ pc' = [pc EXCEPT ![w] = "idle"]
  /\ answer' = [answer EXCEPT ![w] = status]
  /\ req' = [req EXCEPT ![w].sub = <<>>]
  /\ got' = [got EXCEPT ![w] = NoWrites]

Rollback(w, status) ==
  /\ EndTx(w)
  /\ Answer(w, status)
  /\ UNCHANGED <<inspection, item, outcome>>

Goto(w, label) == pc' = [pc EXCEPT ![w] = label]

----------------------------------------------------------------------------
\* Create

\* The inspector is looked up before the transaction; a missing one is a 500.
CheckInspector(w) ==
  /\ pc[w] = "inspector"
  /\ \/ /\ Goto(w, "insert")
        /\ UNCHANGED <<inspection, item, lock, req, answer, tx, got, outcome>>
     \/ Rollback(w, 500)

\* A mutant: the row is inserted outside the transaction.
InsertRowNow(w) ==
  /\ pc[w] = "insert"
  /\ \E i \in Inspections :
       /\ inspection[i] = NoRow /\ lock[i] = Free
       /\ inspection' = [inspection EXCEPT ![i] = Planned]
       /\ lock' = [lock EXCEPT ![i] = w]
       /\ req' = [req EXCEPT ![w].id = i]
       /\ tx' = [tx EXCEPT ![w].row = Planned]
  /\ Goto(w, "insertItems")
  /\ UNCHANGED <<item, answer, got, outcome>>

\* The new row is locked by its transaction and invisible to the others.
InsertRow(w) ==
  /\ pc[w] = "insert"
  /\ \E i \in Inspections :
       /\ inspection[i] = NoRow /\ lock[i] = Free
       /\ lock' = [lock EXCEPT ![i] = w]
       /\ req' = [req EXCEPT ![w].id = i]
       /\ tx' = [tx EXCEPT ![w].row = Planned]
  /\ Goto(w, "insertItems")
  /\ UNCHANGED <<inspection, item, answer, got, outcome>>

\* Keys of items that no committed row and no open transaction has.
FreeItems == {a \in Items : item[a] = NoRow /\
                            \A v \in Workers : a \notin DOMAIN tx[v].items}

\* The listed items, none or some, each with the flag the request gives it.
InsertItems(w) ==
  /\ pc[w] = "insertItems"
  /\ \E new \in SUBSET FreeItems : \E flag \in [new -> BOOLEAN] :
       tx' = [tx EXCEPT ![w].items =
                [a \in new |-> [of |-> req[w].id, passed |-> flag[a]]]]
  /\ Goto(w, "commit")
  /\ UNCHANGED <<inspection, item, lock, req, answer, got, outcome>>

----------------------------------------------------------------------------
\* Execute

\* A mutant: FindByID in place of FindByIDForUpdate.
ReadUnlocked(w) ==
  LET r == inspection[req[w].id] IN
  /\ pc[w] = "lock"
  /\ \/ /\ r = NoRow
        /\ Rollback(w, 500)
     \/ /\ r # NoRow /\ r.status \notin Open
        /\ Rollback(w, 409)
     \/ /\ r # NoRow /\ r.status \in Open
        /\ tx' = [tx EXCEPT ![w].row = r]
        /\ Goto(w, "write")
        /\ UNCHANGED <<inspection, item, lock, req, answer, got, outcome>>

\* A mutant: a row that is locked is reported as a conflict.
LockNoWait(w) ==
  LET r == inspection[req[w].id]
      free == lock[req[w].id] = Free
  IN
  /\ pc[w] = "lock"
  /\ \/ /\ free /\ r = NoRow
        /\ Rollback(w, 500)
     \/ /\ ~free \/ (r # NoRow /\ r.status \notin Open)
        /\ Rollback(w, 409)
     \/ /\ free /\ r # NoRow /\ r.status \in Open
        /\ lock' = [lock EXCEPT ![req[w].id] = w]
        /\ tx' = [tx EXCEPT ![w].row = r]
        /\ Goto(w, "write")
        /\ UNCHANGED <<inspection, item, req, answer, got, outcome>>

\* A mutant: the early return of the status check forgets to roll back.
LockAndKeep(w) ==
  LET r == inspection[req[w].id] IN
  /\ pc[w] = "lock" /\ lock[req[w].id] = Free
  /\ lock' = [lock EXCEPT ![req[w].id] = w]
  /\ \/ /\ r # NoRow /\ r.status \notin Open
        /\ Answer(w, 409)
        /\ UNCHANGED <<inspection, item, tx, outcome>>
     \/ /\ r = NoRow
        /\ Answer(w, 500)
        /\ UNCHANGED <<inspection, item, tx, outcome>>
     \/ /\ r # NoRow /\ r.status \in Open
        /\ tx' = [tx EXCEPT ![w].row = r]
        /\ Goto(w, "write")
        /\ UNCHANGED <<inspection, item, req, answer, got, outcome>>

\* FindByIDForUpdate waits for the row and reads its latest version; then the
\* status decides.  A missing row is not an AppError: 500.
LockRow(w) ==
  LET r == inspection[req[w].id] IN
  /\ pc[w] = "lock" /\ lock[req[w].id] = Free
  /\ \/ /\ r = NoRow
        /\ Rollback(w, 500)
     \/ /\ r # NoRow /\ r.status \notin Open
        /\ Rollback(w, 409)
     \/ /\ r # NoRow /\ r.status \in Open
        /\ lock' = [lock EXCEPT ![req[w].id] = w]
        /\ tx' = [tx EXCEPT ![w].row = r]
        /\ Goto(w, "write")
        /\ UNCHANGED <<inspection, item, req, answer, got, outcome>>

\* A mutant: Update in place of UpdateTx, outside the transaction.
WriteItemsNow(w) ==
  LET own == Of(item, req[w].id) IN
  /\ pc[w] = "write"
  /\ item' = [a \in Items |-> IF a \in own THEN Marked(req[w].sub, own)[a]
                                           ELSE item[a]]
  /\ tx' = [tx EXCEPT ![w].items = Marked(req[w].sub, own)]
  /\ Goto(w, "save")
  /\ UNCHANGED <<inspection, lock, req, answer, got, outcome>>

\* The items are listed and the submitted ones marked, inside the transaction.
WriteItems(w) ==
  /\ pc[w] = "write"
  /\ tx' = [tx EXCEPT ![w].items = Marked(req[w].sub, Of(item, req[w].id))]
  /\ Goto(w, "save")
  /\ UNCHANGED <<inspection, item, lock, req, answer, got, outcome>>

\* Counts, score and status; all columns of the row are written.
SaveRow(w) ==
  /\ pc[w] = "save"
  /\ tx' = [tx EXCEPT ![w].row = Summary(req[w].sub, Of(item, req[w].id))]
  /\ Goto(w, "commit")
  /\ UNCHANGED <<inspection, item, lock, req, answer, got, outcome>>

\* The transaction's writes appear all at once; the acknowledgement may be lost.
Commit(w) ==
  /\ pc[w] = "commit"
  /\ inspection' = [inspection EXCEPT ![req[w].id] = tx[w].row]
  /\ item' = [a \in Items |-> IF a \in DOMAIN tx[w].items THEN tx[w].items[a]
                                                          ELSE item[a]]
  /\ outcome' = IF req[w].op = "execute"
                THEN [outcome EXCEPT ![req[w].id] = [items |-> req[w].sub]]
                ELSE outcome
  /\ EndTx(w)
  /\ \/ Goto(w, "reply") /\ UNCHANGED <<req, answer, got>>
     \/ Answer(w, 500)

----------------------------------------------------------------------------
\* Report (also the detail and the item list): two reads of committed data.

\* A mutant: the items are read before the row.
ReadItemsFirst(w) ==
  \/ /\ pc[w] = "readRow"
     /\ got' = [got EXCEPT ![w].items = ItemsOf(req[w].id)]
     /\ Goto(w, "readItems")
     /\ UNCHANGED <<inspection, item, lock, req, answer, tx, outcome>>
  \/ /\ pc[w] = "readItems" /\ inspection[req[w].id] # NoRow
     /\ got' = [got EXCEPT ![w].row = inspection[req[w].id]]
     /\ Goto(w, "reply")
     /\ UNCHANGED <<inspection, item, lock, req, answer, tx, outcome>>
  \/ /\ pc[w] = "readItems" /\ inspection[req[w].id] = NoRow
     /\ Rollback(w, 500)

GetWithItems(w) ==
  \/ /\ pc[w] = "readRow" /\ inspection[req[w].id] = NoRow
     /\ Rollback(w, 500)
  \/ /\ pc[w] = "readRow" /\ inspection[req[w].id] # NoRow
     /\ got' = [got EXCEPT ![w].row = inspection[req[w].id]]
     /\ Goto(w, "readItems")
     /\ UNCHANGED <<inspection, item, lock, req, answer, tx, outcome>>
  \/ /\ pc[w] = "readItems"
     /\ got' = [got EXCEPT ![w].items = ItemsOf(req[w].id)]
     /\ Goto(w, "reply")
     /\ UNCHANGED <<inspection, item, lock, req, answer, tx, outcome>>

----------------------------------------------------------------------------

\* A statement fails, or a lock wait times out: the transaction rolls back.
DBError(w) ==
  /\ pc[w] \notin {"idle", "reply"}
  /\ Rollback(w, 500)

Reply(w) ==
  /\ pc[w] = "reply"
  /\ Answer(w, 200)
  /\ UNCHANGED <<inspection, item, lock, tx, outcome>>

\* The process dies; the database rolls its open transactions back.
Crash ==
  /\ \E w \in Workers : pc[w] # "idle"
  /\ pc' = [w \in Workers |-> "idle"]
  /\ answer' = [w \in Workers |-> IF pc[w] = "idle" THEN answer[w] ELSE 0]
  /\ lock' = [i \in Inspections |-> Free]
  /\ tx' = [w \in Workers |-> NoWrites]
  /\ got' = [w \in Workers |-> NoWrites]
  /\ req' = [w \in Workers |-> [req[w] EXCEPT !.sub = <<>>]]
  /\ UNCHANGED <<inspection, item, outcome>>

Handle(w) == \/ CheckInspector(w) \/ InsertRow(w) \/ InsertItems(w)
             \/ LockRow(w) \/ WriteItems(w) \/ SaveRow(w) \/ Commit(w)
             \/ GetWithItems(w) \/ DBError(w) \/ Reply(w)

Next == (\E w \in Workers : Refuse(w) \/ Arrive(w) \/ Handle(w)) \/ Crash

Spec == Init /\ [][Next]_vars

\* A goroutine that can run is run, and every database call returns: a lock is
\* granted or its wait times out.
FairSpec == Spec /\ \A w \in Workers : WF_vars(Handle(w))

----------------------------------------------------------------------------

TypeOK ==
  /\ inspection \in [Inspections -> InspectionRow \cup {NoRow}]
  /\ item \in [Items -> ItemRow \cup {NoRow}]
  /\ lock \in [Inspections -> Workers \cup {Free}]
  /\ pc \in [Workers -> {"idle", "inspector", "insert", "insertItems", "lock",
                         "write", "save", "commit", "readRow", "readItems",
                         "reply"}]
  /\ req \in [Workers -> [op : Ops, id : Inspections \cup {NoInspection},
                          sub : Submission]]
  /\ answer \in [Workers -> Answers]
  /\ \A w \in Workers : \A t \in {tx[w], got[w]} :
       /\ t.row \in InspectionRow \cup {NoRow}
       /\ DOMAIN t.items \subseteq Items
       /\ \A a \in DOMAIN t.items : t.items[a] \in ItemRow
  /\ outcome \in [Inspections -> [items : Submission] \cup {NoRow}]

Executed(i) == inspection[i] # NoRow /\ inspection[i].status \in Terminal

\* An inspection is executed at most once: from the commit that ends it, neither
\* its result nor one of its items changes, however many requests had been
\* waiting for the row (FindByIDForUpdate and the status check of Execute).
ExecutedOnce ==
  [][\A i \in Inspections :
       Executed(i) => /\ inspection'[i] = inspection[i]
                      /\ Of(item', i) = Of(item, i)
                      /\ \A a \in Of(item, i) : item'[a] = item[a]]_vars

\* Marks and result appear in one step, of one request: an execution that fails,
\* is cut off or belongs to another inspection leaves no mark behind (every
\* write of Execute goes through its transaction).
AllOrNothing ==
  [][\A i \in Inspections : \A a \in Of(item, i) :
       item'[a] # item[a] => ~Executed(i) /\ Executed(i)']_vars

\* Plan and items become visible together: nobody meets an inspection whose
\* items are still to come, or items without their inspection (Create).
PlanIsFixed ==
  [][\A i \in Inspections :
       /\ inspection[i] # NoRow => Of(item', i) = Of(item, i)
       /\ inspection[i] = NoRow => Of(item, i) = {}]_vars

\* A report that shows a result shows the items that result was drawn from,
\* although it reads them in a second statement: the row is read first, and
\* what is terminal no longer moves.  (A report of a still open inspection may
\* show items that are already marked.)
ReportConsistent ==
  \A w \in Workers :
    pc[w] = "reply" /\ req[w].op = "report" /\ got[w].row.status \in Terminal
      => /\ got[w].row = inspection[req[w].id]
         /\ got[w].items = ItemsOf(req[w].id)

\* A client that is told of a conflict finds the inspection executed, one that is
\* told of success after an execution has it committed, and one that is told of
\* success after planning an inspection finds its row in the table.
AnswersAreTruthful ==
  \A w \in Workers :
    /\ req[w].op = "execute" /\ answer[w] \in {200, 409} => Executed(req[w].id)
    /\ req[w].op = "create" /\ answer[w] = 200
         => req[w].id \in Inspections /\ inspection[req[w].id] # NoRow

\* A submission of the form the client sends: each item of the plan once.
Complete(sub, own) ==
  /\ Known(sub, own) = DOMAIN sub
  /\ \A a \in own : Cardinality({k \in DOMAIN sub : sub[k].item = a}) = 1

\* The items an execution judges: those it lists, or all if it lists none.
Judged(sub, own) ==
  IF Known(sub, own) = {} THEN own ELSE {sub[k].item : k \in Known(sub, own)}

Count(set, flag) == Cardinality({a \in set : item[a].passed = flag})

\* The result agrees with the items stored beside it, also when an earlier
\* attempt was cut off half way.  After a list that names every item once, or
\* none, the counts are those of the stored items.  After any other list (items
\* listed twice or left out, items of other plans) they are at least those of
\* the items judged: Execute counts each mention, so that a repeated item counts
\* twice, but a stored failure is never hidden, and only a result that judged
\* something and found nothing wrong reads completed with 100.
SummaryMatchesItems ==
  \A i \in Inspections : outcome[i] # NoRow =>
    LET r   == inspection[i]
        sub == outcome[i].items
        own == Of(item, i)
    IN  /\ Complete(sub, own) \/ Known(sub, own) = {}
             => r.passed = Count(own, TRUE) /\ r.issues = Count(own, FALSE)
        /\ r.passed >= Count(Judged(sub, own), TRUE)
        /\ r.issues >= Count(Judged(sub, own), FALSE)
        /\ r.status = "completed" <=> r.issues = 0
        /\ r.score = 100 <=> r.issues = 0 /\ r.passed > 0

\* The row lock an execution or a creation takes is given back, whatever way
\* the handler ends.
LocksAreReleased ==
  \A i \in Inspections : lock[i] # Free ~> lock[i] = Free

============================================================================
