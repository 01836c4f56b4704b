-------------------------- MODULE IncidentService --------------------------
(***************************************************************************)
(* Safety incidents as the server really handles them: every request is a  *)
(* goroutine of its own, FindByID and Save are two autocommit statements,  *)
(* and Save writes back the whole row that FindByID read.  Nothing locks   *)
(* the row in between, so another request may commit first.                *)
(***************************************************************************)

EXTENDS Naturals

CONSTANTS Incidents, SeedIncidents, Measures, NoMeasures, NoRow,
          Workers,      \* requests the server handles at the same time
          NoIncident,   \* a report that has no key yet
          BadInput,     \* an id, a JSON body or a severity the binding rejects
          NoInput       \* the operation takes no further input

VARIABLES row,      \* table safety_incidents
          pc,       \* where each worker's handler stands
          req,      \* the request each worker handles, or handled last
          copy,     \* the *model.SafetyIncident a handler read and has not saved
          answer,   \* HTTP status of the worker's last request
          done      \* history: the operations whose statement committed

vars == <<row, pc, req, copy, answer, done>>

Lifecycle == INSTANCE IncidentLifecycle WITH row <- row

ASSUME ConstantsAssumption ==
  /\ SeedIncidents \subseteq Incidents
  /\ NoMeasures \notin Measures
  /\ NoRow \notin Lifecycle!Row
  /\ BadInput \notin Measures
  /\ NoInput \notin Measures
  /\ NoInput # BadInput
  /\ NoIncident \notin Incidents

Ops == {"report", "assign", "rectify", "close"}

Roles == {"admin", "safety_manager", "inspector", "worker"}

Inputs(op) == {BadInput} \cup (IF op = "rectify" THEN Measures ELSE {NoInput})

Request == [op : Ops, id : Incidents \cup {NoIncident},
            input : Measures \cup {BadInput, NoInput}]

Answers == {0, 200, 400, 403, 409, 500}   \* 0: no answer

\* RequireRole of the route; reporting is open to every logged-in user.
MayCall(role, op) == op = "report" \/ role \in {"admin", "safety_manager"}

\* The status an operation demands of the row it read.
From(op) == CASE op = "assign"  -> "reported"
              [] op = "rectify" -> "investigating"
              [] op = "close"   -> "resolved"

\* A mutant: the status is not checked.
PermitsAny(q, r) == TRUE

\* The check between FindByID and Save.
Permits(q, r) == r.status = From(q.op)

\* The struct a handler saves: the row it read with its own fields changed.
Updated(q, r) ==
  CASE q.op = "assign"  -> [r EXCEPT !.status = "investigating"]
    [] q.op = "rectify" -> [status |-> "resolved", measures |-> q.input]
    [] q.op = "close"   -> [r EXCEPT !.status = "closed"]

\* A mutant: the status column is left to its Go zero value.
NewIncidentBlank == [status |-> "", measures |-> NoMeasures]

NewIncident == [status |-> "reported", measures |-> NoMeasures]

----------------------------------------------------------------------------

Init ==
  /\ Lifecycle!Init
  /\ pc = [w \in Workers |-> "idle"]
  /\ req = [w \in Workers |-> [op |-> "report", id |-> NoIncident,
                               input |-> NoInput]]
  /\ copy = [w \in Workers |-> NoRow]
  /\ answer = [w \in Workers |-> 0]
  /\ done = {}

\* A request reaches the handler; role and input are checked before the service.
Arrive(w) ==
  /\ pc[w] = "idle"
  /\ \E role \in Roles, op \in Ops :
     \E id \in (IF op = "report" THEN {NoIncident} ELSE Incidents),
        input \in Inputs(op) :
       /\ req' = [req EXCEPT ![w] = [op |-> op, id |-> id, input |-> input]]
       /\ \/ /\ ~MayCall(role, op)
             /\ answer' = [answer EXCEPT ![w] = 403]
             /\ pc' = pc
          \/ /\ MayCall(role, op) /\ input = BadInput
             /\ answer' = [answer EXCEPT ![w] = 400]
             /\ pc' = pc
          \/ /\ MayCall(role, op) /\ input # BadInput
             /\ answer' = [answer EXCEPT ![w] = 0]
             /\ pc' = [pc EXCEPT ![w] = IF op = "report" THEN "insert"
                                                         ELSE "find"]
  /\ UNCHANGED <<row, copy, done>>

\* The handler answers and its goroutine ends; the struct it read is dropped.
Finish(w, status) ==
  /\ pc' = [pc EXCEPT ![w] = "idle"]
  /\ answer' = [answer EXCEPT ![w] = status]
  /\ copy' = [copy EXCEPT ![w] = NoRow]

\* FindByID and the status check.  A missing row is not an AppError: 500.
Find(w) ==
  LET r == row[req[w].id] IN
  /\ pc[w] = "find"
  /\ \/ /\ r = NoRow
        /\ Finish(w, 500)
     \/ /\ r # NoRow /\ ~Permits(req[w], r)
        /\ Finish(w, 409)
     \/ /\ r # NoRow /\ Permits(req[w], r)
        /\ pc' = [pc EXCEPT ![w] = "save"]
        /\ copy' = [copy EXCEPT ![w] = r]
        /\ UNCHANGED answer
  /\ UNCHANGED <<row, req, done>>

\* A mutant: Updates of the changed columns in place of Save of the whole row.
SaveChanged(w) ==
  LET u == Updated(req[w], copy[w])
      i == req[w].id
  IN
  /\ pc[w] = "save"
  /\ row' = [row EXCEPT ![i] = IF req[w].op = "rectify" THEN u
                               ELSE [@ EXCEPT !.status = u.status]]
  /\ done' = done \cup {req[w]}
  /\ UNCHANGED req

\* The statement a handler runs takes effect: UPDATE of every column ...
Save(w) ==
  /\ pc[w] = "save"
  /\ row' = [row EXCEPT ![req[w].id] = Updated(req[w], copy[w])]
  /\ done' = done \cup {req[w]}
  /\ UNCHANGED req

\* ... or INSERT under the next free key.
Insert(w) ==
  /\ pc[w] = "insert"
  /\ \E i \in Incidents :
       /\ row[i] = NoRow
       /\ row' = [row EXCEPT ![i] = NewIncident]
       /\ req' = [req EXCEPT ![w].id = i]
       /\ done' = done \cup {[req[w] EXCEPT !.id = i]}

\* A mutant: a retry loop that success does not leave.
CommitAgain(w) ==
  /\ Save(w) \/ Insert(w)
  /\ UNCHANGED <<pc, copy, answer>>

\* The driver reports success, or loses the connection after the commit.
Commit(w) ==
  /\ Save(w) \/ Insert(w)
  /\ \/ /\ pc' = [pc EXCEPT ![w] = "reply"]
        /\ copy' = [copy EXCEPT ![w] = NoRow]
        /\ UNCHANGED answer
     \/ Finish(w, 500)

\* A mutant: the error is swallowed and the handler answers 200.
DBErrorSwallowed(w) ==
  /\ pc[w] \in {"find", "save", "insert"}
  /\ Finish(w, 200)
  /\ UNCHANGED <<row, req, done>>

\* A statement fails without effect.
DBError(w) ==
  /\ pc[w] \in {"find", "save", "insert"}
  /\ Finish(w, 500)
  /\ UNCHANGED <<row, req, done>>

Reply(w) ==
  /\ pc[w] = "reply"
  /\ Finish(w, 200)
  /\ UNCHANGED <<row, req, done>>

\* The process dies, or exits with requests in flight; the table survives.
Crash ==
  /\ \E w \in Workers : pc[w] # "idle"
  /\ pc' = [w \in Workers |-> "idle"]
  /\ answer' = [w \in Workers |-> IF pc[w] = "idle" THEN answer[w] ELSE 0]
  /\ copy' = [w \in Workers |-> NoRow]
  /\ UNCHANGED <<row, req, done>>

Handle(w) == Find(w) \/ Commit(w) \/ DBError(w) \/ Reply(w)

Next == (\E w \in Workers : Arrive(w) \/ Handle(w)) \/ Crash

Spec == Init /\ [][Next]_vars

\* A goroutine that can run is run, and every database call returns.
FairSpec == Spec /\ \A w \in Workers : WF_vars(Handle(w))

----------------------------------------------------------------------------

TypeOK ==
  /\ row \in [Incidents -> Lifecycle!Row \cup {NoRow}]
  /\ pc \in [Workers -> {"idle", "find", "insert", "save", "reply"}]
  /\ req \in [Workers -> Request]
  /\ copy \in [Workers -> Lifecycle!Row \cup {NoRow}]
  /\ answer \in [Workers -> Answers]
  /\ done \in SUBSET Request

Did(op, i) == \E q \in done : q.op = op /\ q.id = i

\* The measures of r were submitted by a rectification of i that committed.
RectifiedWith(i, m) == \E q \in done : q.op = "rectify" /\ q.id = i /\ q.input = m

Reported(i) == i \notin SeedIncidents /\ Lifecycle!Present(i)

\* However requests interleave, fail or are cut off by a crash, an incident
\* filed through the API stands only where committed operations put it: under
\* investigation only after an assignment, closed only after a closing, and so
\* on back to the report (Assign, SubmitRectification, Close read the row and
\* write all of it back; none may leave out the check or write a stale column).
EarnedBy(i, r) ==
  /\ Did("report", i)
  /\ r.status # "reported" => Did("assign", i)
  /\ r.status \in {"resolved", "closed"} => RectifiedWith(i, r.measures)
  /\ r.status = "closed" => Did("close", i)

StatusIsEarned == \A i \in Incidents : Reported(i) => EarnedBy(i, row[i])

\* An incident filed through the API shows measures exactly when its status
\* says it was rectified: a stale Save may take both back, never one of them.
MeasuresMatch(r) == (r.measures # NoMeasures) <=> (r.status \in {"resolved", "closed"})

MeasuresMatchStatus == \A i \in Incidents : Reported(i) => MeasuresMatch(row[i])

\* A client that was told 200 can rely on the operation having been committed,
\* whatever failed on the way; the converse does not hold (a commit whose
\* acknowledgement is lost is answered 500, a crash leaves it unanswered).
SuccessIsCommitted ==
  \A w \in Workers : pc[w] = "idle" /\ answer[w] = 200 => req[w] \in done

\* A handler that is between its status check and its Save on incident i.
Pending(i) == \E w \in Workers : pc[w] = "save" /\ req[w].id = i

Settled(i) == Lifecycle!InStatus(i, "closed") /\ ~Pending(i)

\* Once closed, and once the handlers that had read an earlier status are gone,
\* an incident never changes again: only such a stale handler can reopen it.
ClosedSettles == [][\A i \in Incidents :
                     Settled(i) => Settled(i)' /\ row'[i] = row[i]]_vars

\* Every request that enters a handler is answered or lost in a crash: no
\* handler waits for another one.
EveryRequestEnds == \A w \in Workers : pc[w] # "idle" ~> pc[w] = "idle"

\* With one request at a time, the two statements of a handler are as good as
\* one step of the lifecycle, through failures and crashes too.
ImplementsLifecycle == Lifecycle!Spec

Rank(s) == CASE s = "reported"      -> 1
             [] s = "investigating" -> 2
             [] s = "resolved"      -> 3
             [] s = "closed"        -> 4

\* The state machine the documentation names: an incident never goes back.
StatusNeverRegresses ==
  [][\A i \in Incidents :
       Lifecycle!Present(i) => Rank(row'[i].status) >= Rank(row[i].status)]_vars

============================================================================
