--------------------------- MODULE IncidentProofs ---------------------------
(***************************************************************************)
(* Proofs about the safety incidents.  The first part is about             *)
(* IncidentService, for any number of incidents, workers and measures: its *)
(* invariants, that closed incidents settle, and that one worker           *)
(* implements IncidentLifecycle.  The second is about IncidentScreen, for  *)
(* any number of calls and other clients besides: the page and the service *)
(* together are a run of the service, and with one worker a refused click  *)
(* means that the incident has moved, and the screen goes back only when   *)
(* answers overtake each other.                                            *)
(***************************************************************************)
EXTENDS IncidentScreen, TLAPS

\* What a handler has established by the time it reaches each point.
HandlerOK(w) ==
  /\ pc[w] = "insert" => req[w].op = "report"
  /\ pc[w] \in {"find", "save"} =>
       /\ req[w].op \in {"assign", "rectify", "close"}
       /\ req[w].id \in Incidents
       /\ req[w].op = "rectify" => req[w].input \in Measures
  /\ pc[w] = "save" =>
       /\ copy[w] \in Lifecycle!Row
       /\ copy[w].status = From(req[w].op)
       /\ Lifecycle!Present(req[w].id)
       /\ req[w].id \notin SeedIncidents =>
            EarnedBy(req[w].id, copy[w]) /\ MeasuresMatch(copy[w])
  /\ pc[w] = "reply" => req[w] \in done

HandlersOK == \A w \in Workers : HandlerOK(w)

\* The inductive invariant: the struct a handler holds was a row of the table,
\* so it is as well founded as the row, however old it is.
IInv == /\ TypeOK
        /\ HandlersOK
        /\ StatusIsEarned
        /\ MeasuresMatchStatus
        /\ SuccessIsCommitted

----------------------------------------------------------------------------

\* The seed's rows are rows and everything else is empty.
LEMMA InitEstablishes == Init => IInv
<1> SUFFICES ASSUME Init PROVE IInv
  OBVIOUS
<1> USE ConstantsAssumption
<1>1. TypeOK
  BY DEF Init, Lifecycle!Init, TypeOK, Lifecycle!Row, Lifecycle!Statuses,
         Lifecycle!SeedStatuses, Request, Ops, Answers
<1>2. \A i \in Incidents : ~Reported(i)
  BY DEF Init, Lifecycle!Init, Reported, Lifecycle!Present
<1>3. HandlersOK
  BY DEF Init, HandlersOK, HandlerOK
<1>4. SuccessIsCommitted
  BY DEF Init, SuccessIsCommitted
<1> QED
  BY <1>1, <1>2, <1>3, <1>4 DEF IInv, StatusIsEarned, MeasuresMatchStatus

\* A row stays earned when more operations commit.
LEMMA EarnedIsStable ==
  ASSUME done \subseteq done', NEW i, NEW r, EarnedBy(i, r)
  PROVE  EarnedBy(i, r)'
BY DEF EarnedBy, Did, RectifiedWith

\* The request of a worker that arrives or is handled stays a request.
LEMMA ArriveType ==
  ASSUME TypeOK, NEW w \in Workers, Arrive(w) PROVE TypeOK'
<1> USE ConstantsAssumption
<1>1. req' \in [Workers -> Request]
  BY DEF TypeOK, Arrive, Request, Inputs
<1>2. pc' \in [Workers -> {"idle", "find", "insert", "save", "reply"}]
  BY DEF TypeOK, Arrive
<1>3. answer' \in [Workers -> Answers]
  BY DEF TypeOK, Arrive, Answers
<1> QED
  BY <1>1, <1>2, <1>3 DEF TypeOK, Arrive

\* An arriving request touches neither the table nor the history.
LEMMA ArrivePreserves ==
  ASSUME IInv, NEW w \in Workers, Arrive(w) PROVE IInv'
<1> USE ConstantsAssumption
<1>1. TypeOK'
  BY ArriveType DEF IInv
<1>2. UNCHANGED <<row, copy, done>>
  BY DEF Arrive
<1>3. HandlersOK'
  <2> SUFFICES ASSUME NEW v \in Workers PROVE HandlerOK(v)'
    BY DEF HandlersOK
  <2>1. HandlerOK(v)
    BY DEF IInv, HandlersOK
  <2>2. CASE v # w
    <3>1. pc'[v] = pc[v] /\ req'[v] = req[v]
      BY <2>2 DEF Arrive, IInv, TypeOK
    <3> QED
      BY <2>1, <3>1, <1>2 DEF HandlerOK, EarnedBy, Did, RectifiedWith,
                              MeasuresMatch, Lifecycle!Present
  <2>3. CASE v = w
    <3>1. pc'[v] \in {"idle", "insert", "find"}
      BY <2>3 DEF Arrive, IInv, TypeOK
    <3>2. pc'[v] = "insert" => req'[v].op = "report"
      BY <2>3 DEF Arrive, IInv, TypeOK
    <3>3. pc'[v] = "find" =>
            /\ req'[v].op \in {"assign", "rectify", "close"}
            /\ req'[v].id \in Incidents
            /\ req'[v].op = "rectify" => req'[v].input \in Measures
      BY <2>3 DEF Arrive, IInv, TypeOK, Ops, Inputs
    <3> QED
      BY <3>1, <3>2, <3>3 DEF HandlerOK
  <2> QED
    BY <2>2, <2>3
<1>4. StatusIsEarned' /\ MeasuresMatchStatus'
  BY <1>2 DEF IInv, StatusIsEarned, MeasuresMatchStatus, Reported,
              Lifecycle!Present, EarnedBy, Did, RectifiedWith, MeasuresMatch
<1>5. SuccessIsCommitted'
  <2> SUFFICES ASSUME NEW v \in Workers, pc'[v] = "idle", answer'[v] = 200
               PROVE  req'[v] \in done'
    BY DEF SuccessIsCommitted
  <2>1. v # w
    BY DEF Arrive, IInv, TypeOK
  <2>2. pc'[v] = pc[v] /\ req'[v] = req[v] /\ answer'[v] = answer[v]
    BY <2>1 DEF Arrive, IInv, TypeOK
  <2> QED
    BY <2>2, <1>2 DEF IInv, SuccessIsCommitted
<1> QED
  BY <1>1, <1>3, <1>4, <1>5 DEF IInv

\* A worker other than the acting one keeps what it has established, as long as
\* rows only appear and the history only grows.
LEMMA OthersKeep ==
  ASSUME NEW v \in Workers, HandlerOK(v),
         pc'[v] = pc[v], req'[v] = req[v], copy'[v] = copy[v],
         done \subseteq done',
         \A i \in Incidents : Lifecycle!Present(i) => Lifecycle!Present(i)'
  PROVE  HandlerOK(v)'
<1>1. ASSUME pc[v] = "save", req[v].id \notin SeedIncidents
      PROVE  EarnedBy(req[v].id, copy[v])'
  <2>1. EarnedBy(req[v].id, copy[v])
    BY <1>1 DEF HandlerOK
  <2>2. req'[v].id = req[v].id /\ copy'[v] = copy[v]
    OBVIOUS
  <2> QED
    BY <2>1, <2>2 DEF EarnedBy, Did, RectifiedWith
<1>2. pc[v] = "save" => Lifecycle!Present(req[v].id)'
  BY DEF HandlerOK, Lifecycle!Present
<1>3. MeasuresMatch(copy[v]) => MeasuresMatch(copy[v])'
  BY DEF MeasuresMatch
<1> QED
  BY <1>1, <1>2, <1>3 DEF HandlerOK, Lifecycle!Present

\* A handler that ends establishes its part of the invariant; the table and the
\* history are as they were.
LEMMA QuietStep ==
  ASSUME IInv, NEW w \in Workers, NEW status \in Answers, Finish(w, status),
         UNCHANGED <<row, req, done>>,
         status = 200 => req[w] \in done
  PROVE  IInv'
<1> USE ConstantsAssumption
<1>1. TypeOK'
  BY DEF IInv, TypeOK, Finish
<1>2. HandlersOK'
  <2> SUFFICES ASSUME NEW v \in Workers PROVE HandlerOK(v)'
    BY DEF HandlersOK
  <2>1. CASE v # w
    <3>1. /\ HandlerOK(v)
          /\ pc'[v] = pc[v] /\ copy'[v] = copy[v]
      BY <2>1 DEF IInv, HandlersOK, TypeOK, Finish
    <3> QED
      BY <3>1, OthersKeep DEF Lifecycle!Present
  <2>2. CASE v = w
    BY <2>2 DEF HandlerOK, IInv, TypeOK, Finish
  <2> QED
    BY <2>1, <2>2
<1>3. StatusIsEarned' /\ MeasuresMatchStatus'
  BY DEF IInv, StatusIsEarned, MeasuresMatchStatus, Reported,
         Lifecycle!Present, EarnedBy, Did, RectifiedWith, MeasuresMatch
<1>4. SuccessIsCommitted'
  BY DEF IInv, TypeOK, SuccessIsCommitted, Finish
<1> QED
  BY <1>1, <1>2, <1>3, <1>4 DEF IInv

\* The check after FindByID turns what holds of the row into what holds of the
\* struct.
LEMMA FindPreserves ==
  ASSUME IInv, NEW w \in Workers, Find(w) PROVE IInv'
<1> USE ConstantsAssumption
<1> DEFINE r == row[req[w].id]
<1>1. CASE Finish(w, 500) \/ Finish(w, 409)
  BY <1>1, QuietStep DEF Find, Answers
<1>2. CASE /\ r # NoRow /\ Permits(req[w], r)
           /\ pc' = [pc EXCEPT ![w] = "save"]
           /\ copy' = [copy EXCEPT ![w] = r]
           /\ UNCHANGED answer
  <2>1. UNCHANGED <<row, req, done, answer>> /\ pc[w] = "find"
    BY <1>2 DEF Find
  <2>2. req[w].id \in Incidents /\ r \in Lifecycle!Row
    BY <1>2, <2>1 DEF IInv, HandlersOK, HandlerOK, TypeOK
  <2>3. TypeOK'
    BY <1>2, <2>1, <2>2 DEF IInv, TypeOK
  <2>4. HandlersOK'
    <3> SUFFICES ASSUME NEW v \in Workers PROVE HandlerOK(v)'
      BY DEF HandlersOK
    <3>1. HandlerOK(v)
      BY DEF IInv, HandlersOK
    <3>2. CASE v # w
      <4>1. pc'[v] = pc[v] /\ copy'[v] = copy[v]
        BY <1>2, <3>2 DEF IInv, TypeOK
      <4> QED
        BY <2>1, <3>1, <4>1, OthersKeep DEF Lifecycle!Present
    <3>3. CASE v = w
      <4>1. pc'[w] = "save" /\ copy'[w] = r
        BY <1>2 DEF IInv, TypeOK
      <4>2. r.status = From(req[w].op)
        BY <1>2 DEF Permits
      <4>3. req[w].id \notin SeedIncidents =>
              EarnedBy(req[w].id, r) /\ MeasuresMatch(r)
        BY <1>2, <2>2 DEF IInv, StatusIsEarned, MeasuresMatchStatus, Reported,
                          Lifecycle!Present
      <4>4. /\ req[w].op \in {"assign", "rectify", "close"}
            /\ req[w].op = "rectify" => req[w].input \in Measures
        BY <2>1, <3>1, <3>3 DEF HandlerOK
      <4>5. req[w].id \notin SeedIncidents =>
              (EarnedBy(req[w].id, copy[w]) /\ MeasuresMatch(copy[w]))'
        BY <4>1, <4>3, <2>1 DEF EarnedBy, Did, RectifiedWith, MeasuresMatch
      <4> QED
        BY <1>2, <2>1, <2>2, <3>3, <4>1, <4>2, <4>4, <4>5
           DEF HandlerOK, Lifecycle!Present, From
    <3> QED
      BY <3>2, <3>3
  <2>5. StatusIsEarned' /\ MeasuresMatchStatus'
    BY <2>1 DEF IInv, StatusIsEarned, MeasuresMatchStatus, Reported,
                Lifecycle!Present, EarnedBy, Did, RectifiedWith, MeasuresMatch
  <2>6. SuccessIsCommitted'
    BY <1>2, <2>1 DEF IInv, TypeOK, SuccessIsCommitted
  <2> QED
    BY <2>3, <2>4, <2>5, <2>6 DEF IInv
<1> QED
  BY <1>1, <1>2 DEF Find

\* How an operation moves a struct along the lifecycle.
LEMMA UpdatedRow ==
  ASSUME TypeOK, NEW w \in Workers, HandlerOK(w), pc[w] = "save"
  PROVE  Updated(req[w], copy[w]) \in Lifecycle!Row
<1> USE ConstantsAssumption
<1>1. /\ copy[w] \in Lifecycle!Row
      /\ req[w].op \in {"assign", "rectify", "close"}
      /\ req[w].op = "rectify" => req[w].input \in Measures
  BY DEF HandlerOK
<1> QED
  BY <1>1 DEF Updated, Lifecycle!Row, Lifecycle!Statuses

\* What Save writes is earned by the operation that commits with it.
LEMMA UpdatedIsEarned ==
  ASSUME TypeOK, NEW w \in Workers, HandlerOK(w), Save(w),
         NEW q, q = req[w],
         NEW u, u = Updated(q, copy[w]),
         q.id \notin SeedIncidents
  PROVE  EarnedBy(q.id, u)' /\ MeasuresMatch(u)
<1> USE ConstantsAssumption
<1>0. PICK c : c = copy[w]
  OBVIOUS
<1>1. pc[w] = "save" /\ done' = done \cup {q}
  BY DEF Save
<1>2. /\ c \in Lifecycle!Row /\ c.status = From(q.op)
      /\ q.op \in {"assign", "rectify", "close"}
      /\ q.op = "rectify" => q.input \in Measures
      /\ EarnedBy(q.id, c) /\ MeasuresMatch(c)
  BY <1>0, <1>1 DEF HandlerOK
<1>3. /\ Did("report", q.id)'
      /\ c.status # "reported" => Did("assign", q.id)'
      /\ c.status \in {"resolved", "closed"} => RectifiedWith(q.id, c.measures)'
  BY <1>1, <1>2 DEF EarnedBy, Did, RectifiedWith
<1>4. Did(q.op, q.id)'
  BY <1>1 DEF Did
<1>5. CASE q.op = "assign"
  <2>1. u.status = "investigating" /\ u.measures = c.measures
    BY <1>0, <1>2, <1>5 DEF Updated, Lifecycle!Row
  <2>2. c.status = "reported"
    BY <1>2, <1>5 DEF From
  <2>3. MeasuresMatch(u)
    BY <1>2, <2>1, <2>2 DEF MeasuresMatch
  <2> QED
    BY <1>3, <1>4, <1>5, <2>1, <2>3 DEF EarnedBy
<1>6. CASE q.op = "rectify"
  <2>1. u.status = "resolved" /\ u.measures = q.input
    BY <1>6 DEF Updated
  <2>2. c.status = "investigating"
    BY <1>2, <1>6 DEF From
  <2>3. RectifiedWith(q.id, u.measures)'
    BY <1>1, <1>6, <2>1 DEF RectifiedWith
  <2>4. MeasuresMatch(u)
    BY <1>2, <1>6, <2>1 DEF MeasuresMatch
  <2> QED
    BY <1>3, <2>1, <2>2, <2>3, <2>4 DEF EarnedBy
<1>7. CASE q.op = "close"
  <2>1. u.status = "closed" /\ u.measures = c.measures
    BY <1>0, <1>2, <1>7 DEF Updated, Lifecycle!Row
  <2>2. c.status = "resolved"
    BY <1>2, <1>7 DEF From
  <2>3. MeasuresMatch(u)
    BY <1>2, <2>1, <2>2 DEF MeasuresMatch
  <2> QED
    BY <1>3, <1>4, <1>7, <2>1, <2>2, <2>3 DEF EarnedBy
<1> QED
  BY <1>2, <1>5, <1>6, <1>7

\* The statement of a handler, whichever answer follows it.
LEMMA WritePreserves ==
  ASSUME IInv, NEW w \in Workers, Save(w) \/ Insert(w)
  PROVE  /\ row' \in [Incidents -> Lifecycle!Row \cup {NoRow}]
         /\ req' \in [Workers -> Request]
         /\ done' \in SUBSET Request
         /\ done \subseteq done'
         /\ req'[w] \in done'
         /\ \A v \in Workers : v # w => req'[v] = req[v]
         /\ \A i \in Incidents : Lifecycle!Present(i) => Lifecycle!Present(i)'
         /\ StatusIsEarned'
         /\ MeasuresMatchStatus'
<1> USE ConstantsAssumption
<1>0. TypeOK /\ HandlerOK(w) /\ StatusIsEarned /\ MeasuresMatchStatus
  BY DEF IInv, HandlersOK
<1>1. CASE Save(w)
  <2> DEFINE id == req[w].id
             u  == Updated(req[w], copy[w])
  <2>1. /\ pc[w] = "save" /\ row' = [row EXCEPT ![id] = u]
        /\ done' = done \cup {req[w]} /\ req' = req
    BY <1>1 DEF Save
  <2>2. id \in Incidents /\ u \in Lifecycle!Row
    BY <1>0, <2>1, UpdatedRow DEF HandlerOK
  <2>3. row' \in [Incidents -> Lifecycle!Row \cup {NoRow}]
    BY <1>0, <2>1, <2>2 DEF TypeOK
  <2>4. \A i \in Incidents : row'[i] = IF i = id THEN u ELSE row[i]
    BY <1>0, <2>1, <2>2 DEF TypeOK
  <2>5. ASSUME NEW i \in Incidents, Reported(i)'
        PROVE  EarnedBy(i, row[i])' /\ MeasuresMatch(row[i])'
    <3>1. CASE i = id
      <4>1. id \notin SeedIncidents
        BY <2>5, <3>1 DEF Reported
      <4>2. PICK q : q = req[w]
        OBVIOUS
      <4>3. PICK x : x = Updated(q, copy[w])
        OBVIOUS
      <4>4. EarnedBy(i, x)' /\ MeasuresMatch(x)
        BY <1>0, <1>1, <3>1, <4>1, <4>2, <4>3, UpdatedIsEarned
      <4>5. row'[i] = x
        BY <2>4, <3>1, <4>2, <4>3
      <4> QED
        BY <4>4, <4>5 DEF EarnedBy, Did, RectifiedWith, MeasuresMatch
    <3>2. CASE i # id
      <4>1. row'[i] = row[i] /\ Reported(i)
        BY <2>4, <2>5, <3>2 DEF Reported, Lifecycle!Present
      <4> QED
        BY <1>0, <2>1, <4>1 DEF StatusIsEarned, MeasuresMatchStatus, EarnedBy,
                                Did, RectifiedWith, MeasuresMatch
    <3> QED
      BY <3>1, <3>2
  <2>6. \A i \in Incidents : Lifecycle!Present(i) => Lifecycle!Present(i)'
    BY <2>2, <2>4 DEF Lifecycle!Present
  <2> QED
    BY <1>0, <2>1, <2>3, <2>5, <2>6
       DEF TypeOK, StatusIsEarned, MeasuresMatchStatus
<1>2. CASE Insert(w)
  <2>1. PICK i \in Incidents :
          /\ row[i] = NoRow
          /\ row' = [row EXCEPT ![i] = NewIncident]
          /\ req' = [req EXCEPT ![w].id = i]
          /\ done' = done \cup {[req[w] EXCEPT !.id = i]}
    BY <1>2 DEF Insert
  <2>2. pc[w] = "insert" /\ req[w] \in Request /\ req[w].op = "report"
    BY <1>0, <1>2 DEF Insert, TypeOK, HandlerOK
  <2>3. [req[w] EXCEPT !.id = i] \in Request
    BY <2>2 DEF Request
  <2>4. req'[w] = [req[w] EXCEPT !.id = i]
    BY <1>0, <2>1 DEF TypeOK
  <2>5. NewIncident \in Lifecycle!Row
    BY DEF NewIncident, Lifecycle!Row, Lifecycle!Statuses
  <2>6. \A j \in Incidents : row'[j] = IF j = i THEN NewIncident ELSE row[j]
    BY <1>0, <2>1 DEF TypeOK
  <2>7. Did("report", i)'
    <3>1. PICK q : q = [req[w] EXCEPT !.id = i]
      OBVIOUS
    <3>2. q.op = "report" /\ q.id = i
      BY <2>2, <3>1 DEF Request
    <3>3. q \in done'
      BY <2>1, <3>1
    <3> QED
      BY <3>2, <3>3 DEF Did
  <2>8. ASSUME NEW j \in Incidents, Reported(j)'
        PROVE  EarnedBy(j, row[j])' /\ MeasuresMatch(row[j])'
    <3>1. CASE j = i
      BY <2>6, <2>7, <3>1 DEF EarnedBy, MeasuresMatch, NewIncident
    <3>2. CASE j # i
      <4>1. row'[j] = row[j] /\ Reported(j)
        BY <2>6, <2>8, <3>2 DEF Reported, Lifecycle!Present
      <4> QED
        BY <1>0, <2>1, <4>1 DEF StatusIsEarned, MeasuresMatchStatus, EarnedBy,
                                Did, RectifiedWith, MeasuresMatch
    <3> QED
      BY <3>1, <3>2
  <2>9. /\ row' \in [Incidents -> Lifecycle!Row \cup {NoRow}]
        /\ req' \in [Workers -> Request]
        /\ \A v \in Workers : v # w => req'[v] = req[v]
    BY <1>0, <2>1, <2>3, <2>5 DEF TypeOK
  <2>10. \A j \in Incidents : Lifecycle!Present(j) => Lifecycle!Present(j)'
    BY <2>5, <2>6 DEF Lifecycle!Present
  <2> QED
    BY <1>0, <2>1, <2>3, <2>4, <2>8, <2>9, <2>10
       DEF TypeOK, StatusIsEarned, MeasuresMatchStatus
<1> QED
  BY <1>1, <1>2

\* The statement commits and the handler goes on to answer, or is told otherwise.
LEMMA CommitPreserves ==
  ASSUME IInv, NEW w \in Workers, Commit(w) PROVE IInv'
<1> USE ConstantsAssumption
<1>0. Save(w) \/ Insert(w)
  BY DEF Commit
<1>1. /\ row' \in [Incidents -> Lifecycle!Row \cup {NoRow}]
      /\ req' \in [Workers -> Request]
      /\ done' \in SUBSET Request
      /\ done \subseteq done'
      /\ req'[w] \in done'
      /\ \A v \in Workers : v # w => req'[v] = req[v]
      /\ \A i \in Incidents : Lifecycle!Present(i) => Lifecycle!Present(i)'
      /\ StatusIsEarned'
      /\ MeasuresMatchStatus'
  BY <1>0, WritePreserves
<1>2. /\ copy' = [copy EXCEPT ![w] = NoRow]
      /\ \/ pc' = [pc EXCEPT ![w] = "reply"] /\ answer' = answer
         \/ pc' = [pc EXCEPT ![w] = "idle"] /\ answer' = [answer EXCEPT ![w] = 500]
  BY DEF Commit, Finish
<1>3. TypeOK'
  BY <1>1, <1>2 DEF IInv, TypeOK, Answers
<1>4. HandlersOK'
  <2> SUFFICES ASSUME NEW v \in Workers PROVE HandlerOK(v)'
    BY DEF HandlersOK
  <2>1. CASE v # w
    <3>1. /\ HandlerOK(v)
          /\ pc'[v] = pc[v] /\ copy'[v] = copy[v]
      BY <1>2, <2>1 DEF IInv, HandlersOK, TypeOK
    <3> QED
      BY <1>1, <2>1, <3>1, OthersKeep
  <2>2. CASE v = w
    BY <1>1, <1>2, <2>2 DEF HandlerOK, IInv, TypeOK
  <2> QED
    BY <2>1, <2>2
<1>5. SuccessIsCommitted'
  <2> SUFFICES ASSUME NEW v \in Workers, pc'[v] = "idle", answer'[v] = 200
               PROVE  req'[v] \in done'
    BY DEF SuccessIsCommitted
  <2>1. v # w
    BY <1>2 DEF IInv, TypeOK
  <2>2. pc[v] = "idle" /\ answer[v] = 200
    BY <1>2, <2>1 DEF IInv, TypeOK
  <2> QED
    BY <1>1, <2>1, <2>2 DEF IInv, SuccessIsCommitted
<1> QED
  BY <1>1, <1>3, <1>4, <1>5 DEF IInv

\* A crash only forgets.
LEMMA CrashPreserves ==
  ASSUME IInv, Crash PROVE IInv'
<1> USE ConstantsAssumption
<1>1. TypeOK'
  BY DEF IInv, TypeOK, Crash, Answers
<1>2. HandlersOK'
  BY DEF Crash, HandlersOK, HandlerOK
<1>3. StatusIsEarned' /\ MeasuresMatchStatus'
  BY DEF Crash, IInv, StatusIsEarned, MeasuresMatchStatus, Reported,
         Lifecycle!Present, EarnedBy, Did, RectifiedWith, MeasuresMatch
<1>4. SuccessIsCommitted'
  BY DEF Crash, IInv, SuccessIsCommitted
<1> QED
  BY <1>1, <1>2, <1>3, <1>4 DEF IInv

LEMMA NextPreserves == IInv /\ [Next]_vars => IInv'
<1> SUFFICES ASSUME IInv, [Next]_vars PROVE IInv'
  OBVIOUS
<1>1. ASSUME NEW w \in Workers, Arrive(w) PROVE IInv'
  BY <1>1, ArrivePreserves
<1>2. ASSUME NEW w \in Workers, Find(w) PROVE IInv'
  BY <1>2, FindPreserves
<1>3. ASSUME NEW w \in Workers, Commit(w) PROVE IInv'
  BY <1>3, CommitPreserves
<1>4. ASSUME NEW w \in Workers, DBError(w) PROVE IInv'
  BY <1>4, QuietStep DEF DBError, Answers
<1>5. ASSUME NEW w \in Workers, Reply(w) PROVE IInv'
  <2>1. req[w] \in done
    BY <1>5 DEF Reply, IInv, HandlersOK, HandlerOK
  <2> QED
    BY <1>5, <2>1, QuietStep DEF Reply, Answers
<1>6. CASE Crash
  BY <1>6, CrashPreserves
<1>7. CASE UNCHANGED vars
  BY <1>7 DEF vars, IInv, TypeOK, HandlersOK, HandlerOK, StatusIsEarned,
              MeasuresMatchStatus, SuccessIsCommitted, Reported,
              Lifecycle!Present, EarnedBy, Did, RectifiedWith, MeasuresMatch
<1> QED
  BY <1>1, <1>2, <1>3, <1>4, <1>5, <1>6, <1>7 DEF Next, Handle

\* Every reachable state satisfies the inductive invariant.
THEOREM Invariance == Spec => []IInv
<1> QED
  BY InitEstablishes, NextPreserves, PTL DEF Spec

\* Every variable keeps its type, for any number of concurrent requests.
THEOREM TypeCorrect == Spec => []TypeOK
<1>1. IInv => TypeOK
  BY DEF IInv
<1> QED
  BY <1>1, Invariance, PTL

\* The status of an incident filed through the API is backed by committed
\* operations, whatever handlers race, fail or are cut off.
THEOREM StatusEarned == Spec => []StatusIsEarned
<1>1. IInv => StatusIsEarned
  BY DEF IInv
<1> QED
  BY <1>1, Invariance, PTL

\* Status and measures never drift apart, although stale rows are written back.
THEOREM MeasuresAgree == Spec => []MeasuresMatchStatus
<1>1. IInv => MeasuresMatchStatus
  BY DEF IInv
<1> QED
  BY <1>1, Invariance, PTL

\* An operation answered 200 has committed.
THEOREM SuccessTruthful == Spec => []SuccessIsCommitted
<1>1. IInv => SuccessIsCommitted
  BY DEF IInv
<1> QED
  BY <1>1, Invariance, PTL

----------------------------------------------------------------------------

\* No request may start to write a closed incident, so it takes one that had
\* checked an earlier status to change it.
LEMMA SettledStep ==
  ASSUME IInv, [Next]_vars, NEW i \in Incidents, Settled(i)
  PROVE  Settled(i)' /\ row'[i] = row[i]
<1> USE ConstantsAssumption
<1>0. /\ row[i] # NoRow /\ row[i].status = "closed"
      /\ \A v \in Workers : ~(pc[v] = "save" /\ req[v].id = i)
      /\ TypeOK
  BY DEF IInv, Settled, Pending, Lifecycle!InStatus, Lifecycle!Present
<1> SUFFICES row'[i] = row[i] /\
             \A v \in Workers : ~(pc'[v] = "save" /\ req'[v].id = i)
  BY <1>0 DEF Settled, Pending, Lifecycle!InStatus, Lifecycle!Present
<1>1. ASSUME NEW w \in Workers, Arrive(w)
      PROVE  row'[i] = row[i] /\
             \A v \in Workers : ~(pc'[v] = "save" /\ req'[v].id = i)
  BY <1>0, <1>1 DEF Arrive, TypeOK
<1>2. ASSUME NEW w \in Workers, Find(w)
      PROVE  row'[i] = row[i] /\
             \A v \in Workers : ~(pc'[v] = "save" /\ req'[v].id = i)
  <2>1. UNCHANGED <<row, req>>
    BY <1>2 DEF Find
  <2>2. ASSUME pc'[w] = "save", req[w].id = i PROVE FALSE
    <3>1. pc[w] = "find"
      BY <1>2 DEF Find
    <3>2. From(req[w].op) = "closed"
      BY <1>0, <1>2, <2>2 DEF Find, Finish, Permits, TypeOK
    <3>3. req[w].op \in {"assign", "rectify", "close"}
      BY <3>1 DEF IInv, HandlersOK, HandlerOK
    <3> QED
      BY <3>2, <3>3 DEF From
  <2>3. \A v \in Workers : v # w => pc'[v] = pc[v]
    BY <1>0, <1>2 DEF Find, Finish, TypeOK
  <2> QED
    BY <1>0, <2>1, <2>2, <2>3
<1>3. ASSUME NEW w \in Workers, Commit(w)
      PROVE  row'[i] = row[i] /\
             \A v \in Workers : ~(pc'[v] = "save" /\ req'[v].id = i)
  <2>1. row'[i] = row[i]
    BY <1>0, <1>3 DEF Commit, Save, Insert, TypeOK
  <2>2. \A v \in Workers : v # w => pc'[v] = pc[v] /\ req'[v] = req[v]
    BY <1>0, <1>3 DEF Commit, Save, Insert, Finish, TypeOK
  <2>3. pc'[w] # "save"
    BY <1>0, <1>3 DEF Commit, Finish, TypeOK
  <2> QED
    BY <1>0, <2>1, <2>2, <2>3
<1>4. ASSUME NEW w \in Workers, DBError(w) \/ Reply(w)
      PROVE  row'[i] = row[i] /\
             \A v \in Workers : ~(pc'[v] = "save" /\ req'[v].id = i)
  BY <1>0, <1>4 DEF DBError, Reply, Finish, TypeOK
<1>5. CASE Crash
  BY <1>5 DEF Crash
<1>6. CASE UNCHANGED vars
  BY <1>0, <1>6 DEF vars
<1> QED
  BY <1>1, <1>2, <1>3, <1>4, <1>5, <1>6 DEF Next, Handle

\* A closed incident is final once the handlers that had read an earlier status
\* are gone.
THEOREM ClosedIsFinal == Spec => ClosedSettles
<1>1. IInv /\ [Next]_vars =>
        [\A i \in Incidents : Settled(i) => Settled(i)' /\ row'[i] = row[i]]_vars
  BY SettledStep
<1> QED
  BY <1>1, Invariance, PTL DEF Spec, ClosedSettles

----------------------------------------------------------------------------

\* With a single worker nobody writes between its read and its Save.
Fresh == \A w \in Workers : pc[w] = "save" => copy[w] = row[req[w].id]

\* Read and Save of a lone worker are one step of the lifecycle.
LEMMA SaveIsOneStep ==
  ASSUME IInv, Fresh, NEW w \in Workers, Save(w)
  PROVE  Lifecycle!Next
<1> USE ConstantsAssumption
<1> DEFINE i == req[w].id
<1>1. /\ i \in Incidents /\ Lifecycle!Present(i)
      /\ req[w].op \in {"assign", "rectify", "close"}
      /\ req[w].op = "rectify" => req[w].input \in Measures
      /\ row[i].status = From(req[w].op)
      /\ row[i] \in Lifecycle!Row
      /\ row' = [row EXCEPT ![i] = Updated(req[w], row[i])]
  BY DEF Save, Fresh, IInv, HandlersOK, HandlerOK
<1>2. CASE req[w].op = "assign"
  <2>1. Lifecycle!Assign(i)
    BY <1>1, <1>2 DEF Updated, From, Lifecycle!Row, Lifecycle!Assign,
                      Lifecycle!InStatus
  <2> QED
    BY <1>1, <2>1 DEF Lifecycle!Next
<1>3. CASE req[w].op = "rectify"
  <2>1. Lifecycle!Rectify(i, req[w].input)
    BY <1>1, <1>3 DEF Updated, From, Lifecycle!Rectify, Lifecycle!InStatus
  <2> QED
    BY <1>1, <1>3, <2>1 DEF Lifecycle!Next
<1>4. CASE req[w].op = "close"
  <2>1. Lifecycle!Close(i)
    BY <1>1, <1>4 DEF Updated, From, Lifecycle!Row, Lifecycle!Close,
                      Lifecycle!InStatus
  <2> QED
    BY <1>1, <2>1 DEF Lifecycle!Next
<1> QED
  BY <1>1, <1>2, <1>3, <1>4

LEMMA FreshStep ==
  ASSUME NEW w0, Workers = {w0}, IInv, Fresh, [Next]_vars
  PROVE  Fresh'
<1>1. ASSUME NEW w \in Workers, Arrive(w) PROVE Fresh'
  BY <1>1 DEF Arrive, Fresh, IInv, TypeOK
<1>2. ASSUME NEW w \in Workers, Find(w) PROVE Fresh'
  BY <1>2 DEF Find, Finish, Fresh, IInv, TypeOK
<1>3. ASSUME NEW w \in Workers, Commit(w) PROVE Fresh'
  BY <1>3 DEF Commit, Finish, Fresh, IInv, TypeOK
<1>4. ASSUME NEW w \in Workers, DBError(w) \/ Reply(w) PROVE Fresh'
  BY <1>4 DEF DBError, Reply, Finish, Fresh, IInv, TypeOK
<1>5. CASE Crash
  BY <1>5 DEF Crash, Fresh
<1>6. CASE UNCHANGED vars
  BY <1>6 DEF vars, Fresh
<1> QED
  BY <1>1, <1>2, <1>3, <1>4, <1>5, <1>6 DEF Next, Handle

LEMMA SerialStep ==
  ASSUME IInv, Fresh, [Next]_vars PROVE [Lifecycle!Next]_row
<1>1. ASSUME NEW w \in Workers, Commit(w) PROVE Lifecycle!Next
  <2>1. CASE Save(w)
    BY <1>1, <2>1, SaveIsOneStep
  <2>2. CASE Insert(w)
    BY <2>2 DEF Insert, Lifecycle!Next, Lifecycle!Report, Lifecycle!Present,
                NewIncident
  <2> QED
    BY <1>1, <2>1, <2>2 DEF Commit
<1> QED
  BY <1>1 DEF Next, Handle, Arrive, Find, DBError, Reply, Crash, vars

\* A server that handles one request at a time implements the lifecycle: the
\* whole divergence comes from requests that overlap.
THEOREM SerialImplements ==
  ASSUME NEW w0, Workers = {w0}
  PROVE  Spec => ImplementsLifecycle
<1>1. Init => Fresh
  BY DEF Init, Fresh
<1>2. IInv /\ Fresh /\ [Next]_vars => Fresh'
  BY FreshStep
<1>3. IInv /\ Fresh /\ [Next]_vars => [Lifecycle!Next]_row
  BY SerialStep
<1>4. Init => Lifecycle!Init
  BY DEF Init
<1> QED
  BY <1>1, <1>2, <1>3, <1>4, Invariance, PTL
     DEF Spec, ImplementsLifecycle, Lifecycle!Spec

\* The ranks of the statuses are numbers, and no two statuses share one.
LEMMA RankOrders ==
  /\ \A st \in Lifecycle!Statuses : Rank(st) \in Nat
  /\ \A st, tt \in Lifecycle!Statuses : Rank(st) >= Rank(tt) /\ st # tt =>
                                          Rank(st) > Rank(tt)
BY DEF Rank, Lifecycle!Statuses

\* In the lifecycle no incident goes back.
LEMMA LifecycleAdvances ==
  ASSUME TypeOK, [Lifecycle!Next]_row, NEW i \in Incidents, Lifecycle!Present(i)
  PROVE  Rank(row'[i].status) >= Rank(row[i].status)
<1>1. row[i] \in Lifecycle!Row /\ Rank(row[i].status) \in Nat
  BY RankOrders DEF TypeOK, Lifecycle!Present, Lifecycle!Row
<1>2. CASE row' = row
  BY <1>1, <1>2
<1>3. ASSUME NEW j \in Incidents, Lifecycle!Report(j)
      PROVE  row'[i] = row[i]
  BY <1>3 DEF TypeOK, Lifecycle!Report, Lifecycle!Present
<1>4. ASSUME NEW j \in Incidents,
             Lifecycle!Assign(j) \/ (\E m \in Measures : Lifecycle!Rectify(j, m))
               \/ Lifecycle!Close(j)
      PROVE  row'[i] = row[i] \/ Rank(row'[i].status) > Rank(row[i].status)
  BY <1>4 DEF TypeOK, Lifecycle!Assign, Lifecycle!Rectify, Lifecycle!Close,
              Lifecycle!InStatus, Rank, Lifecycle!Row
<1>5. CASE Lifecycle!Next
  <2>1. PICK j \in Incidents :
          Lifecycle!Report(j) \/ Lifecycle!Assign(j)
            \/ (\E m \in Measures : Lifecycle!Rectify(j, m)) \/ Lifecycle!Close(j)
    BY <1>5 DEF Lifecycle!Next
  <2>2. row'[i] = row[i] \/ Rank(row'[i].status) > Rank(row[i].status)
    BY <1>3, <1>4, <2>1
  <2>3. row'[i] # row[i] => Rank(row'[i].status) \in Nat
    BY <2>1 DEF TypeOK, Lifecycle!Report, Lifecycle!Assign, Lifecycle!Rectify,
                Lifecycle!Close, Lifecycle!InStatus, Rank, Lifecycle!Row,
                Lifecycle!Present
  <2> QED
    BY <1>1, <2>2, <2>3
<1> QED
  BY <1>2, <1>5

\* With one request at a time the documented state machine holds: no incident
\* goes back, through failures, lost acknowledgements and crashes too.
THEOREM SerialNeverRegresses ==
  ASSUME NEW w0, Workers = {w0}
  PROVE  Spec => StatusNeverRegresses
<1>1. Init => Fresh
  BY DEF Init, Fresh
<1>2. IInv /\ Fresh /\ [Next]_vars => Fresh'
  BY FreshStep
<1>3. IInv /\ Fresh /\ [Next]_vars =>
        [\A i \in Incidents : Lifecycle!Present(i) =>
           Rank(row'[i].status) >= Rank(row[i].status)]_vars
  BY SerialStep, LifecycleAdvances DEF IInv
<1> QED
  BY <1>1, <1>2, <1>3, Invariance, PTL DEF Spec, StatusNeverRegresses

----------------------------------------------------------------------------
\* The page and the service together.

\* The variables of the page keep their types.
PageOK ==
  /\ call \in [Slots -> Calls \cup {NoCall}]
  /\ serving \in [Workers -> Slots \cup {Nobody}]
  /\ shown \in Found \cup {NoIncidentShown}

\* A call is about an incident that exists, and a button was clicked in the
\* status its operation demands.
Sound(c) ==
  c # NoCall =>
    /\ Lifecycle!Present(c.id)
    /\ c.op # "load" => c.seen = From(c.op)
    /\ c.op = "load" /\ c.stage = "answered" /\ c.code = 200 =>
         c.found \in Found /\ c.found.id = c.id

ShownOK == shown # NoIncidentShown => Lifecycle!Present(shown.id)

\* A worker that serves a slot handles what the slot has asked for.
ServingOK(w) ==
  serving[w] # Nobody =>
    /\ pc[w] \in {"find", "save", "reply"}
    /\ call[serving[w]] \in Calls
    /\ call[serving[w]].stage = "served"
    /\ call[serving[w]].op = req[w].op
    /\ call[serving[w]].id = req[w].id

OneEach == \A v, w \in Workers :
             serving[v] # Nobody /\ serving[v] = serving[w] => v = w

ScreenInv ==
  /\ IInv /\ PageOK /\ ShownOK /\ OneEach
  /\ \A s \in Slots : Sound(call[s])
  /\ \A w \in Workers : ServingOK(w)

----------------------------------------------------------------------------

LEMMA InitScreenInv == ScreenInit => ScreenInv
<1> SUFFICES ASSUME ScreenInit PROVE ScreenInv
  OBVIOUS
<1>1. IInv
  BY InitEstablishes DEF ScreenInit
<1>2. PageOK /\ ShownOK /\ OneEach
  BY DEF ScreenInit, PageOK, ShownOK, OneEach
<1>3. ASSUME NEW s \in Slots PROVE Sound(call[s])
  BY DEF ScreenInit, Sound
<1>4. ASSUME NEW w \in Workers PROVE ServingOK(w)
  BY DEF ScreenInit, ServingOK
<1> QED
  BY <1>1, <1>2, <1>3, <1>4 DEF ScreenInv

\* No step of the service removes an incident.
LEMMA PresentStays ==
  ASSUME IInv, [Next]_vars, NEW i \in Incidents, Lifecycle!Present(i)
  PROVE  Lifecycle!Present(i)'
<1>1. ASSUME NEW w \in Workers, Commit(w)
      PROVE  Lifecycle!Present(i)'
  BY <1>1, WritePreserves DEF Commit
<1>2. ASSUME row' = row PROVE Lifecycle!Present(i)'
  BY <1>2 DEF Lifecycle!Present
<1> QED
  BY <1>1, <1>2 DEF Next, Handle, Arrive, Find, DBError, Reply, Crash, vars

\* The request that a click sends is one the service may receive.
LEMMA DeliverArrives ==
  ASSUME ScreenInv, NEW s \in Slots, NEW w \in Workers, Deliver(s, w)
  PROVE  Arrive(w) \/ UNCHANGED vars
<1>1. CASE UNCHANGED <<pc, req, answer, serving>>
  BY <1>1 DEF Deliver, vars
<1>2. CASE pc' = [pc EXCEPT ![w] = "find"]
  <2> DEFINE op == call[s].op
             id == call[s].id
             input == IF op = "rectify" THEN Remark ELSE NoInput
  <2>1. op \in {"assign", "rectify", "close"} /\ id \in Incidents
    BY DEF Deliver, Sent, ScreenInv, PageOK, Calls
  <2>2. input \in Inputs(op) /\ input # BadInput
    BY ScreenAssumption, ConstantsAssumption DEF Inputs
  <2>3. op \in Ops /\ op # "report" /\ "admin" \in Roles /\ MayCall("admin", op)
    BY <2>1 DEF Ops, Roles, MayCall
  <2>4. \/ UNCHANGED <<pc, req, answer, serving>>
        \/ /\ req' = [req EXCEPT ![w] = [op |-> op, id |-> id, input |-> input]]
           /\ pc' = [pc EXCEPT ![w] = "find"]
           /\ answer' = [answer EXCEPT ![w] = 0]
    BY DEF Deliver
  <2>5. pc[w] = "idle" /\ UNCHANGED <<row, copy, done>>
    BY DEF Deliver
  <2>6. CASE UNCHANGED <<pc, req, answer, serving>>
    BY <1>1, <2>6
  <2>7. CASE /\ req' = [req EXCEPT ![w] = [op |-> op, id |-> id, input |-> input]]
             /\ pc' = [pc EXCEPT ![w] = "find"]
             /\ answer' = [answer EXCEPT ![w] = 0]
    <3> HIDE DEF op, id, input
    <3> QED
      BY <2>1, <2>2, <2>3, <2>5, <2>7 DEF Arrive
  <2> QED
    BY <2>4, <2>6, <2>7
<1> QED
  BY <1>1, <1>2 DEF Deliver

\* Whatever the page does, the service takes one of its steps or none.
LEMMA ScreenStepIsServiceStep ==
  ASSUME ScreenInv, [ScreenNext]_allVars
  PROVE  [Next]_vars
<1>1. ASSUME NEW s \in Slots, NEW w \in Workers, Deliver(s, w)
      PROVE  [Next]_vars
  BY <1>1, DeliverArrives DEF Next
<1>2. ASSUME NEW w \in Workers, ServerStep(w) \/ OtherRequest(w)
      PROVE  Next
  BY <1>2 DEF ServerStep, OtherRequest, Next
<1>3. ASSUME ServerCrash PROVE Next
  BY <1>3 DEF ServerCrash, Next
<1>4. ASSUME NEW s \in Slots,
             (\E i \in Incidents : Open(s, i)) \/ Click(s) \/ ServeLoad(s) \/ End(s)
      PROVE  UNCHANGED vars
  BY <1>4 DEF Open, Click, ServeLoad, End, Show, Reload, LoadFails, OpFails,
              GiveUp, Expel
<1>5. ASSUME Dismiss \/ UNCHANGED allVars PROVE UNCHANGED vars
  BY <1>5 DEF Dismiss, allVars
<1> QED
  BY <1>1, <1>2, <1>3, <1>4, <1>5 DEF ScreenNext

----------------------------------------------------------------------------

\* A call that was sound remains so.
LEMMA SoundStays ==
  ASSUME IInv, [Next]_vars, NEW c, c \in Calls \cup {NoCall}, Sound(c)
  PROVE  Sound(c)'
<1>1. c # NoCall => c.id \in Incidents
  BY DEF Calls
<1> QED
  BY <1>1, PresentStays DEF Sound

\* The page alone acts: every slot keeps its call or gets a sound one, and a
\* worker goes on serving an unchanged call, or nobody.
LEMMA PageStep ==
  ASSUME ScreenInv, UNCHANGED vars, PageOK', ShownOK',
         \A s \in Slots : call'[s] = call[s] \/ Sound(call[s])',
         \A w \in Workers :
           \/ serving'[w] = Nobody
           \/ serving'[w] = serving[w] /\ call'[serving[w]] = call[serving[w]]
  PROVE  ScreenInv'
<1>1. [Next]_vars
  OBVIOUS
<1>2. IInv'
  BY <1>1, NextPreserves DEF ScreenInv
<1>3. ASSUME NEW s \in Slots PROVE Sound(call[s])'
  <2>1. CASE call'[s] = call[s]
    <3>1. PICK c \in Calls \cup {NoCall} : c = call[s] /\ Sound(c)
      BY DEF ScreenInv, PageOK
    <3>2. Sound(c)'
      BY <1>1, <3>1, SoundStays DEF ScreenInv
    <3> QED
      BY <2>1, <3>1, <3>2
  <2> QED
    BY <2>1
<1>4. ASSUME NEW w \in Workers PROVE ServingOK(w)'
  BY DEF ScreenInv, ServingOK, vars
<1>5. OneEach'
  BY DEF ScreenInv, OneEach
<1> QED
  BY <1>2, <1>3, <1>4, <1>5 DEF ScreenInv

\* One slot of the page has a call that ends, changes or begins.
LEMMA SlotChanges ==
  ASSUME ScreenInv, UNCHANGED vars, ShownOK', shown' \in Found \cup {NoIncidentShown},
         NEW s \in Slots, NEW c \in Calls \cup {NoCall}, Sound(c),
         call' = [call EXCEPT ![s] = c],
         \/ serving' = [w \in Workers |-> IF serving[w] = s THEN Nobody
                                          ELSE serving[w]]
         \/ /\ call[s] = NoCall \/ call[s].stage # "served"
            /\ serving' = serving
  PROVE  ScreenInv'
<1>1. /\ call \in [Slots -> Calls \cup {NoCall}]
      /\ serving \in [Workers -> Slots \cup {Nobody}]
  BY DEF ScreenInv, PageOK
<1>2. PageOK'
  BY <1>1 DEF PageOK
<1>3. \A r \in Slots : call'[r] = IF r = s THEN c ELSE call[r]
  BY <1>1
<1>4. ASSUME NEW r \in Slots
      PROVE  call'[r] = call[r] \/ Sound(call[r])'
  <2>1. CASE r = s
    <3>1. Sound(c)'
      BY DEF Sound, vars, Lifecycle!Present
    <3>2. c = call'[r]
      BY <1>3, <2>1
    <3> QED
      BY <3>1, <3>2 DEF Sound
  <2> QED
    BY <1>3, <2>1
<1>5. ASSUME NEW w \in Workers
      PROVE  \/ serving'[w] = Nobody
             \/ serving'[w] = serving[w] /\ call'[serving[w]] = call[serving[w]]
  <2>1. CASE serving[w] = Nobody
    BY <1>1, <2>1
  <2>2. CASE serving[w] # Nobody
    <3>1. serving[w] \in Slots
      BY <1>1, <2>2
    <3>2. serving[w] = s => call[s] # NoCall /\ call[s].stage = "served"
      BY <2>2, ScreenAssumption DEF ScreenInv, ServingOK
    <3> QED
      BY <1>1, <1>3, <3>1, <3>2
  <2> QED
    BY <2>1, <2>2
<1> QED
  BY <1>2, <1>4, <1>5, PageStep

LEMMA AskIsCall ==
  ASSUME NEW op \in {"load", "assign", "rectify", "close"}, NEW i \in Incidents,
         NEW seen \in Lifecycle!Statuses \cup {"none"}
  PROVE  Ask(op, i, seen) \in Calls /\ Ask(op, i, seen).stage = "sent"
BY DEF Ask, Calls, Answers

\* The button of a status asks for the operation that the status allows.
LEMMA ButtonFits ==
  ASSUME NEW st \in Lifecycle!Statuses, Button(st) # "none"
  PROVE  Button(st) \in {"assign", "rectify", "close"} /\ From(Button(st)) = st
BY DEF Lifecycle!Statuses, Button, From

LEMMA OpenKeeps ==
  ASSUME ScreenInv, NEW s \in Slots, NEW i \in Incidents, Open(s, i)
  PROVE  ScreenInv'
<1> DEFINE c == Ask("load", i, "none")
<1>1. c \in Calls /\ c.op = "load" /\ c.stage = "sent" /\ c.id = i
  BY AskIsCall DEF Ask
<1>2. Sound(c)
  BY <1>1 DEF Open, Sound
<1>3. /\ call' = [call EXCEPT ![s] = c] /\ call[s] = NoCall
      /\ UNCHANGED <<vars, shown, serving>>
  BY DEF Open
<1>4. ShownOK' /\ shown' \in Found \cup {NoIncidentShown}
  BY <1>3 DEF ScreenInv, PageOK, ShownOK, vars, Lifecycle!Present
<1> HIDE DEF c
<1> QED
  BY <1>1, <1>2, <1>3, <1>4, SlotChanges

LEMMA ClickKeeps ==
  ASSUME ScreenInv, NEW s \in Slots, Click(s)
  PROVE  ScreenInv'
<1> DEFINE c == Ask(Button(shown.status), shown.id, shown.status)
<1>1. shown \in Found /\ Lifecycle!Present(shown.id)
  BY DEF ScreenInv, PageOK, ShownOK, Click
<1>2. shown.id \in Incidents /\ shown.status \in Lifecycle!Statuses
  BY <1>1 DEF Found
<1>3. /\ Button(shown.status) \in {"assign", "rectify", "close"}
      /\ From(Button(shown.status)) = shown.status
  BY <1>2, ButtonFits DEF Click
<1>4. /\ c \in Calls /\ c.op = Button(shown.status) /\ c.id = shown.id
      /\ c.seen = shown.status
  BY <1>2, <1>3, AskIsCall DEF Ask
<1>5. Sound(c)
  BY <1>1, <1>3, <1>4 DEF Sound
<1>6. /\ call' = [call EXCEPT ![s] = c] /\ call[s] = NoCall
      /\ UNCHANGED <<vars, shown, serving>>
  BY DEF Click
<1>7. ShownOK' /\ shown' \in Found \cup {NoIncidentShown}
  BY <1>6 DEF ScreenInv, PageOK, ShownOK, vars, Lifecycle!Present
<1> HIDE DEF c
<1> QED
  BY <1>4, <1>5, <1>6, <1>7, SlotChanges

\* What a call is when its answer has come.
Answered(c, code, f) == [c EXCEPT !.stage = "answered", !.code = code, !.found = f]

LEMMA ToldIsCall ==
  ASSUME NEW c \in Calls, NEW code \in Answers \cup {401, 502},
         NEW f \in Found \cup {NoIncidentShown}
  PROVE  /\ Answered(c, code, f) \in Calls
         /\ Answered(c, code, f).id = c.id
         /\ Answered(c, code, f).op = c.op
         /\ Answered(c, code, f).seen = c.seen
         /\ Answered(c, code, f).passed = c.passed
         /\ Answered(c, code, f).stage = "answered"
         /\ Answered(c, code, f).code = code
         /\ Answered(c, code, f).found = f
<1>1. [c EXCEPT !.stage = "answered"] \in Calls
  BY DEF Calls
<1>2. ASSUME NEW d \in Calls PROVE [d EXCEPT !.code = code] \in Calls
  BY DEF Calls
<1>3. ASSUME NEW d \in Calls PROVE [d EXCEPT !.found = f] \in Calls
  BY DEF Calls
<1>4. Answered(c, code, f) \in Calls
  BY <1>1, <1>2, <1>3 DEF Answered
<1> QED
  BY <1>4 DEF Answered, Calls

LEMMA ServedCall ==
  ASSUME ScreenInv, NEW s \in Slots, ServeLoad(s)
  PROVE  \E d \in Calls : call' = [call EXCEPT ![s] = d] /\ Sound(d)
<1>1. call[s] \in Calls /\ Sound(call[s]) /\ call[s] # NoCall
  BY DEF ServeLoad, Sent, ScreenInv, PageOK
<1>2. PICK code \in Answers \cup {401, 502}, f \in Found \cup {NoIncidentShown} :
        /\ call' = Told(s, code, f)
        /\ code = 200 => f \in Found /\ f.id = call[s].id
  <2>1. call[s].id \in Incidents /\ Lifecycle!Present(call[s].id)
    BY <1>1 DEF Calls, Sound
  <2>2. row[call[s].id] \in Lifecycle!Row
    BY <2>1 DEF ScreenInv, IInv, TypeOK, Lifecycle!Present
  <2>3. [id |-> call[s].id, status |-> row[call[s].id].status] \in Found
    BY <2>1, <2>2 DEF Found, Lifecycle!Row
  <2> QED
    BY <2>3 DEF ServeLoad, Answers
<1>3. PICK d \in Calls : d = call[s]
  BY <1>1
<1>4. PICK c : c = Answered(d, code, f)
  OBVIOUS
<1>5. c \in Calls /\ c.id = d.id /\ c.op = d.op /\ c.code = code /\ c.found = f
  BY <1>4, ToldIsCall
<1>6. call' = [call EXCEPT ![s] = c]
  BY <1>2, <1>3, <1>4 DEF Told, Answered
<1>7. c.id = call[s].id /\ c.op = "load"
  BY <1>3, <1>5 DEF ServeLoad
<1>8. Sound(c)
  BY <1>1, <1>2, <1>5, <1>7 DEF Sound
<1> QED
  BY <1>5, <1>6, <1>8

LEMMA ServeLoadKeeps ==
  ASSUME ScreenInv, NEW s \in Slots, ServeLoad(s)
  PROVE  ScreenInv'
<1>1. /\ call[s].stage # "served" /\ UNCHANGED <<vars, shown, serving>>
  BY DEF ServeLoad, Sent
<1>2. ShownOK' /\ shown' \in Found \cup {NoIncidentShown}
  BY <1>1 DEF ScreenInv, PageOK, ShownOK, vars, Lifecycle!Present
<1>3. PICK d \in Calls : call' = [call EXCEPT ![s] = d] /\ Sound(d)
  BY ServedCall
<1> QED
  BY <1>1, <1>2, <1>3, SlotChanges

LEMMA ReloadKeeps ==
  ASSUME ScreenInv, NEW s \in Slots, Reload(s)
  PROVE  ScreenInv'
<1> DEFINE c == Ask("load", call[s].id, "none")
<1>1. call[s] \in Calls /\ Sound(call[s]) /\ call[s] # NoCall
  BY DEF Reload, HasAnswer, ScreenInv, PageOK
<1>2. call[s].id \in Incidents /\ Lifecycle!Present(call[s].id)
  BY <1>1 DEF Calls, Sound
<1>3. c \in Calls /\ c.op = "load" /\ c.stage = "sent" /\ c.id = call[s].id
  BY <1>2, AskIsCall DEF Ask
<1>4. Sound(c)
  BY <1>2, <1>3 DEF Sound
<1>5. /\ call' = [call EXCEPT ![s] = c] /\ call[s].stage # "served"
      /\ UNCHANGED <<vars, shown, serving>>
  BY DEF Reload, HasAnswer
<1>6. ShownOK' /\ shown' \in Found \cup {NoIncidentShown}
  BY <1>5 DEF ScreenInv, PageOK, ShownOK, vars, Lifecycle!Present
<1> HIDE DEF c
<1> QED
  BY <1>3, <1>4, <1>5, <1>6, SlotChanges

LEMMA GiveUpKeeps ==
  ASSUME ScreenInv, NEW s \in Slots, GiveUp(s)
  PROVE  ScreenInv'
<1>1. ShownOK' /\ shown' \in Found \cup {NoIncidentShown}
  BY DEF GiveUp, ScreenInv, PageOK, ShownOK, vars, Lifecycle!Present
<1>2. Sound(NoCall)
  BY DEF Sound
<1> QED
  BY <1>1, <1>2, SlotChanges DEF GiveUp
\* A later answer has been shown before this one.
LEMMA PassedIsCall ==
  ASSUME NEW c \in Calls, Sound(c)
  PROVE  /\ [c EXCEPT !.passed = TRUE] \in Calls
         /\ [c EXCEPT !.passed = TRUE].stage = c.stage
         /\ Sound([c EXCEPT !.passed = TRUE])
<1> DEFINE d == [c EXCEPT !.passed = TRUE]
<1>1. d \in Calls
  BY DEF Calls
<1>2. /\ d.id = c.id /\ d.op = c.op /\ d.seen = c.seen /\ d.stage = c.stage
      /\ d.code = c.code /\ d.found = c.found
  BY DEF Calls
<1>3. c # NoCall
  BY ScreenAssumption
<1> HIDE DEF d
<1>4. Sound(d)
  BY <1>2, <1>3 DEF Sound
<1> QED
  BY <1>1, <1>2, <1>4 DEF d

LEMMA ShowKeeps ==
  ASSUME ScreenInv, NEW s \in Slots, Show(s)
  PROVE  ScreenInv'
<1>1. call[s] \in Calls /\ Sound(call[s]) /\ call[s] # NoCall
  BY DEF Show, HasAnswer, ScreenInv, PageOK
<1>2. call[s].op = "load" /\ call[s].stage = "answered" /\ call[s].code = 200
  BY DEF Show, HasAnswer
<1>3. UNCHANGED <<vars, serving>> /\ shown' = call[s].found
  BY DEF Show
<1>4. ShownOK' /\ shown' \in Found
  BY <1>1, <1>2, <1>3 DEF Sound, ShownOK, vars, Lifecycle!Present
<1>5. ASSUME NEW r \in Slots
      PROVE  /\ call'[r] \in Calls \cup {NoCall}
             /\ Sound(call'[r])
             /\ call'[r] = call[r] \/ call[r].stage = "answered"
  <2>1. call'[r] = CASE r = s -> NoCall
                     [] HasAnswer(r, TRUE, 200) /\ r # s
                             -> [call[r] EXCEPT !.passed = TRUE]
                     [] OTHER -> call[r]
    BY DEF Show
  <2>2. call[r] \in Calls \cup {NoCall} /\ Sound(call[r])
    BY DEF ScreenInv, PageOK
  <2>3. CASE r = s
    <3>1. call'[r] = NoCall
      BY <2>1, <2>3
    <3> QED
      BY <1>2, <2>3, <3>1 DEF Sound
  <2>4. CASE r # s /\ HasAnswer(r, TRUE, 200)
    <3>1. call'[r] = [call[r] EXCEPT !.passed = TRUE]
      BY <2>1, <2>4
    <3>2. call[r] \in Calls /\ call[r].stage = "answered"
      BY <2>2, <2>4 DEF HasAnswer
    <3> QED
      BY <2>2, <3>1, <3>2, PassedIsCall
  <2>5. CASE r # s /\ ~HasAnswer(r, TRUE, 200)
    <3>1. call'[r] = call[r]
      BY <2>1, <2>5
    <3> QED
      BY <2>2, <3>1
  <2> QED
    BY <2>3, <2>4, <2>5
<1>6. call' \in [Slots -> Calls \cup {NoCall}]
  <2>1. call' = [r \in Slots |-> call'[r]]
    BY DEF Show
  <2> QED
    BY <1>5, <2>1
<1>7. PageOK'
  BY <1>3, <1>4, <1>6 DEF ScreenInv, PageOK
<1>8. ASSUME NEW r \in Slots PROVE Sound(call[r])'
  BY <1>3, <1>5 DEF Sound, vars, Lifecycle!Present
<1>9. ASSUME NEW w \in Workers
      PROVE  \/ serving'[w] = Nobody
             \/ serving'[w] = serving[w] /\ call'[serving[w]] = call[serving[w]]
  <2>1. serving[w] \in Slots \cup {Nobody}
    BY DEF ScreenInv, PageOK
  <2>2. serving[w] # Nobody => call[serving[w]].stage = "served"
    BY DEF ScreenInv, ServingOK
  <2> QED
    BY <1>3, <1>5, <2>1, <2>2
<1>10. UNCHANGED vars
  BY <1>3
<1> QED
  BY <1>4, <1>7, <1>8, <1>9, <1>10, PageStep

LEMMA ExpelKeeps ==
  ASSUME ScreenInv, NEW s \in Slots, Expel(s)
  PROVE  ScreenInv'
<1>1. UNCHANGED vars
  BY DEF Expel
<1>2. PageOK' /\ ShownOK'
  BY DEF Expel, ScreenInv, PageOK, ShownOK
<1>3. ASSUME NEW r \in Slots PROVE Sound(call[r])'
  BY DEF Expel, Sound
<1>4. ASSUME NEW w \in Workers PROVE serving'[w] = Nobody
  BY DEF Expel
<1> QED
  BY <1>1, <1>2, <1>3, <1>4, PageStep

LEMMA DismissKeeps ==
  ASSUME ScreenInv, Dismiss \/ UNCHANGED allVars
  PROVE  ScreenInv'
<1>1. UNCHANGED <<vars, shown, call, serving>>
  BY DEF Dismiss, allVars, screenVars
<1>2. UNCHANGED vars
  BY <1>1
<1>3. PageOK' /\ ShownOK'
  BY <1>1 DEF ScreenInv, PageOK, ShownOK, vars, Lifecycle!Present
<1> QED
  BY <1>1, <1>2, <1>3, PageStep
\* The service acts: what the page shows stays, and calls stay about incidents
\* that exist.
LEMMA ServiceStep ==
  ASSUME ScreenInv, [Next]_vars, shown' = shown, PageOK', OneEach',
         \A s \in Slots : call'[s] = call[s] \/ Sound(call'[s]),
         \A w \in Workers : ServingOK(w)'
  PROVE  ScreenInv'
<1>1. IInv'
  BY NextPreserves DEF ScreenInv
<1>2. ShownOK'
  <2>1. shown # NoIncidentShown => shown.id \in Incidents
    BY DEF ScreenInv, PageOK, Found
  <2> QED
    BY <2>1, PresentStays DEF ScreenInv, ShownOK
<1>3. ASSUME NEW s \in Slots PROVE Sound(call[s])'
  <2>1. PICK c \in Calls \cup {NoCall} : c = call'[s] /\ Sound(c)
    BY DEF ScreenInv, PageOK
  <2>2. Sound(c)'
    BY <2>1, SoundStays DEF ScreenInv
  <2> QED
    BY <2>1, <2>2
<1> QED
  BY <1>1, <1>2, <1>3 DEF ScreenInv

\* The slot of a call that is under way is served by nobody yet.
LEMMA SentIsUnserved ==
  ASSUME ScreenInv, NEW s \in Slots, call[s].stage # "served", NEW w \in Workers
  PROVE  serving[w] # s
<1>1. serving[w] = s => serving[w] # Nobody
  BY ScreenAssumption
<1> QED
  BY <1>1 DEF ScreenInv, ServingOK

LEMMA IdleServesNobody ==
  ASSUME ScreenInv, NEW w \in Workers, pc[w] = "idle"
  PROVE  serving[w] = Nobody
BY DEF ScreenInv, ServingOK

\* A call that reaches its handler.
LEMMA ServedIsCall ==
  ASSUME NEW c \in Calls, Sound(c), c.stage = "sent"
  PROVE  /\ [c EXCEPT !.stage = "served"] \in Calls
         /\ [c EXCEPT !.stage = "served"].stage = "served"
         /\ [c EXCEPT !.stage = "served"].op = c.op
         /\ [c EXCEPT !.stage = "served"].id = c.id
         /\ Sound([c EXCEPT !.stage = "served"])
<1> DEFINE d == [c EXCEPT !.stage = "served"]
<1>1. d \in Calls
  BY DEF Calls
<1>2. /\ d.id = c.id /\ d.op = c.op /\ d.seen = c.seen /\ d.stage = "served"
      /\ d.code = c.code /\ d.found = c.found
  BY DEF Calls
<1>3. c # NoCall
  BY ScreenAssumption
<1> HIDE DEF d
<1>4. Sound(d)
  BY <1>2, <1>3 DEF Sound
<1> QED
  BY <1>1, <1>2, <1>4 DEF d

LEMMA DeliverKeeps ==
  ASSUME ScreenInv, NEW s \in Slots, NEW w \in Workers, Deliver(s, w)
  PROVE  ScreenInv'
<1>1. call[s] \in Calls /\ Sound(call[s]) /\ call[s] # NoCall /\ call[s].stage = "sent"
  BY DEF Deliver, Sent, ScreenInv, PageOK
<1>2. call[s].op # "load" /\ pc[w] = "idle" /\ UNCHANGED <<row, copy, done, shown>>
  BY DEF Deliver
<1>3. CASE call' = Told(s, 401, NoIncidentShown) /\ UNCHANGED <<pc, req, answer, serving>>
  <2>1. UNCHANGED vars /\ serving' = serving
    BY <1>2, <1>3 DEF vars
  <2>2. ShownOK' /\ shown' \in Found \cup {NoIncidentShown}
    BY <1>2, <2>1 DEF ScreenInv, PageOK, ShownOK, vars, Lifecycle!Present
  <2>3. PICK c \in Calls : call' = [call EXCEPT ![s] = c] /\ Sound(c)
    <3> DEFINE c == Answered(call[s], 401, NoIncidentShown)
    <3>1. c \in Calls /\ c.id = call[s].id /\ c.op = call[s].op /\ c.seen = call[s].seen
      BY <1>1, ToldIsCall
    <3>2. call' = [call EXCEPT ![s] = c]
      BY <1>3 DEF Told, Answered
    <3> HIDE DEF c
    <3>3. Sound(c)
      BY <1>1, <1>2, <3>1 DEF Sound
    <3> QED
      BY <3>1, <3>2, <3>3
  <2> QED
    BY <1>1, <2>1, <2>2, <2>3, SlotChanges
<1>4. CASE /\ req' = [req EXCEPT ![w] = [op |-> call[s].op, id |-> call[s].id,
                        input |-> IF call[s].op = "rectify" THEN Remark ELSE NoInput]]
           /\ pc' = [pc EXCEPT ![w] = "find"]
           /\ call' = [call EXCEPT ![s].stage = "served"]
           /\ serving' = [serving EXCEPT ![w] = s]
  <2>1. PICK c \in Calls : /\ c = [call[s] EXCEPT !.stage = "served"] /\ Sound(c)
                           /\ c.stage = "served" /\ c.op = call[s].op
                           /\ c.id = call[s].id
    BY <1>1, ServedIsCall
  <2>2. call' = [call EXCEPT ![s] = c]
    BY <1>4, <2>1
  <2>3. /\ call \in [Slots -> Calls \cup {NoCall}]
        /\ serving \in [Workers -> Slots \cup {Nobody}]
        /\ pc \in [Workers -> {"idle", "find", "insert", "save", "reply"}]
        /\ req \in [Workers -> Request]
    BY DEF ScreenInv, PageOK, IInv, TypeOK
  <2>4. PageOK'
    BY <1>2, <1>4, <2>2, <2>3 DEF PageOK, ScreenInv
  <2>5. ASSUME NEW v \in Workers PROVE serving[v] # s
    BY <1>1, SentIsUnserved
  <2>6. OneEach'
    BY <1>4, <2>3, <2>5 DEF ScreenInv, OneEach
  <2>7. ASSUME NEW v \in Workers PROVE ServingOK(v)'
    <3>1. CASE v = w
      <4>1. serving'[w] = s /\ call'[s] = c /\ pc'[w] = "find"
        BY <1>4, <2>2, <2>3
      <4>2. req'[w].op = call[s].op /\ req'[w].id = call[s].id
        BY <1>4, <2>3
      <4> QED
        BY <2>1, <3>1, <4>1, <4>2 DEF ServingOK
    <3>2. CASE v # w
      <4>1. serving'[v] = serving[v] /\ pc'[v] = pc[v] /\ req'[v] = req[v]
        BY <1>4, <2>3, <3>2
      <4>2. serving[v] # Nobody => call'[serving[v]] = call[serving[v]]
        BY <2>2, <2>3, <2>5
      <4> QED
        BY <4>1, <4>2 DEF ScreenInv, ServingOK
    <3> QED
      BY <3>1, <3>2
  <2>8. ASSUME NEW r \in Slots PROVE call'[r] = call[r] \/ Sound(call'[r])
    BY <2>1, <2>2, <2>3
  <2>9. [Next]_vars
    BY DeliverArrives DEF Next
  <2> QED
    BY <1>2, <2>4, <2>6, <2>7, <2>8, <2>9, ServiceStep
<1> QED
  BY <1>3, <1>4 DEF Deliver
\* What a handler's step leaves alone.
LEMMA HandleFrame ==
  ASSUME IInv, NEW w \in Workers, Handle(w)
  PROVE  /\ \A v \in Workers \ {w} : pc'[v] = pc[v] /\ req'[v] = req[v]
         /\ pc'[w] \in {"idle", "save", "reply"}
         /\ pc[w] # "insert" => req' = req
<1>1. /\ pc \in [Workers -> {"idle", "find", "insert", "save", "reply"}]
      /\ req \in [Workers -> Request]
  BY DEF IInv, TypeOK
<1>2. /\ pc' = [pc EXCEPT ![w] = pc'[w]]
      /\ pc'[w] \in {"idle", "save", "reply"}
  BY <1>1 DEF Handle, Find, Commit, DBError, Reply, Finish
<1>3. \A v \in Workers \ {w} : pc'[v] = pc[v]
  BY <1>1, <1>2
<1>4. CASE \E i : req' = [req EXCEPT ![w].id = i] /\ pc[w] = "insert"
  BY <1>1, <1>2, <1>3, <1>4
<1>5. CASE req' = req
  BY <1>2, <1>3, <1>5
<1>6. (\E i : req' = [req EXCEPT ![w].id = i] /\ pc[w] = "insert") \/ req' = req
  BY DEF Handle, Find, Commit, Save, Insert, DBError, Reply
<1> QED
  BY <1>4, <1>5, <1>6

LEMMA ServerStepKeeps ==
  ASSUME ScreenInv, NEW w \in Workers, ServerStep(w)
  PROVE  ScreenInv'
<1>1. Handle(w) /\ shown' = shown
  BY DEF ServerStep
<1>2. [Next]_vars
  BY <1>1 DEF Next
<1>3. /\ \A v \in Workers \ {w} : pc'[v] = pc[v] /\ req'[v] = req[v]
      /\ pc'[w] \in {"idle", "save", "reply"}
      /\ pc[w] # "insert" => req' = req
  BY <1>1, HandleFrame DEF ScreenInv
<1>4. /\ call \in [Slots -> Calls \cup {NoCall}]
      /\ serving \in [Workers -> Slots \cup {Nobody}]
  BY DEF ScreenInv, PageOK
<1>5. CASE pc'[w] # "idle" /\ UNCHANGED <<call, serving>>
  <2>1. PageOK' /\ OneEach'
    BY <1>1, <1>5 DEF ScreenInv, PageOK, OneEach
  <2>2. ASSUME NEW v \in Workers PROVE ServingOK(v)'
    <3>1. CASE v = w
      BY <1>3, <1>5, <3>1 DEF ScreenInv, ServingOK
    <3>2. CASE v # w
      BY <1>3, <1>5, <3>2 DEF ScreenInv, ServingOK
    <3> QED
      BY <3>1, <3>2
  <2> QED
    BY <1>1, <1>2, <1>5, <2>1, <2>2, ServiceStep
<1>6. CASE /\ pc'[w] = "idle"
           /\ call' = IF serving[w] = Nobody THEN call
                      ELSE Told(serving[w], answer'[w], NoIncidentShown)
           /\ serving' = [serving EXCEPT ![w] = Nobody]
  <2>1. /\ call' \in [Slots -> Calls \cup {NoCall}]
        /\ \A s \in Slots : serving[w] # s => call'[s] = call[s]
        /\ \A s \in Slots : call'[s] = call[s] \/ Sound(call'[s])
    <3>1. CASE serving[w] = Nobody
      BY <1>4, <1>6, <3>1
    <3>2. CASE serving[w] # Nobody
      <4>1. PICK s \in Slots : s = serving[w]
        BY <1>4, <3>2
      <4>2. /\ call[s] \in Calls /\ Sound(call[s]) /\ call[s] # NoCall
            /\ call[s].op # "load"
        <5>1. call[s] \in Calls /\ call[s].op = req[w].op /\ req[w] \in Request
          BY <3>2, <4>1 DEF ScreenInv, ServingOK, IInv, TypeOK
        <5>2. call[s].op # "load"
          BY <5>1 DEF Request, Ops
        <5> QED
          BY <4>1, <5>1, <5>2, ScreenAssumption DEF ScreenInv
      <4>3. PICK code \in Answers : code = answer'[w]
        BY <1>2, NextPreserves DEF ScreenInv, IInv, TypeOK
      <4>4. PICK c \in Calls : call' = [call EXCEPT ![s] = c] /\ Sound(c)
        <5> DEFINE c == Answered(call[s], code, NoIncidentShown)
        <5>1. c \in Calls /\ c.id = call[s].id /\ c.op = call[s].op /\ c.seen = call[s].seen
          BY <4>2, ToldIsCall
        <5>2. call' = [call EXCEPT ![s] = c]
          BY <1>6, <3>2, <4>1, <4>3 DEF Told, Answered
        <5> HIDE DEF c
        <5>3. Sound(c)
          BY <4>2, <5>1 DEF Sound
        <5> QED
          BY <5>1, <5>2, <5>3
      <4> QED
        BY <1>4, <4>1, <4>4
    <3> QED
      BY <3>1, <3>2
  <2>2. PageOK'
    BY <1>1, <1>4, <1>6, <2>1 DEF ScreenInv, PageOK
  <2>3. OneEach'
    BY <1>4, <1>6 DEF ScreenInv, OneEach
  <2>4. ASSUME NEW v \in Workers PROVE ServingOK(v)'
    <3>1. CASE v = w
      BY <1>4, <1>6, <3>1 DEF ServingOK
    <3>2. CASE v # w /\ serving[v] = Nobody
      BY <1>4, <1>6, <3>2 DEF ServingOK
    <3>3. CASE v # w /\ serving[v] # Nobody
      <4>1. serving[v] \in Slots /\ serving[w] # serving[v]
        BY <1>4, <3>3 DEF ScreenInv, OneEach
      <4>2. serving'[v] = serving[v] /\ call'[serving[v]] = call[serving[v]]
        BY <1>4, <1>6, <2>1, <3>3, <4>1
      <4>3. pc'[v] = pc[v] /\ req'[v] = req[v]
        BY <1>3, <3>3
      <4> QED
        BY <4>2, <4>3 DEF ScreenInv, ServingOK
    <3> QED
      BY <3>1, <3>2, <3>3
  <2> QED
    BY <1>1, <1>2, <2>1, <2>2, <2>3, <2>4, ServiceStep
<1> QED
  BY <1>5, <1>6 DEF ServerStep
LEMMA OtherRequestKeeps ==
  ASSUME ScreenInv, NEW w \in Workers, OtherRequest(w)
  PROVE  ScreenInv'
<1>1. Arrive(w) /\ UNCHANGED <<shown, call, serving>>
  BY DEF OtherRequest, screenVars
<1>2. [Next]_vars
  BY <1>1 DEF Next
<1>3. PageOK' /\ OneEach'
  BY <1>1 DEF ScreenInv, PageOK, OneEach
<1>4. serving[w] = Nobody
  BY <1>1, IdleServesNobody DEF Arrive
<1>5. \A v \in Workers \ {w} : pc'[v] = pc[v] /\ req'[v] = req[v]
  BY <1>1 DEF Arrive, ScreenInv, IInv, TypeOK
<1>6. ASSUME NEW v \in Workers PROVE ServingOK(v)'
  <2>1. CASE v = w
    BY <1>1, <1>4, <2>1 DEF ServingOK
  <2>2. CASE v # w
    BY <1>1, <1>5, <2>2 DEF ScreenInv, ServingOK
  <2> QED
    BY <2>1, <2>2
<1> QED
  BY <1>1, <1>2, <1>3, <1>6, ServiceStep

LEMMA ServerCrashKeeps ==
  ASSUME ScreenInv, ServerCrash
  PROVE  ScreenInv'
<1>1. Crash /\ shown' = shown /\ serving' = [w \in Workers |-> Nobody]
  BY DEF ServerCrash
<1>2. [Next]_vars
  BY <1>1 DEF Next
<1>3. call \in [Slots -> Calls \cup {NoCall}]
  BY DEF ScreenInv, PageOK
<1>4. ASSUME NEW s \in Slots
      PROVE  /\ call'[s] \in Calls \cup {NoCall}
             /\ call'[s] = call[s] \/ Sound(call'[s])
  <2>1. CASE \E w \in Workers : serving[w] = s
    <3>1. PICK w \in Workers : serving[w] = s
      BY <2>1
    <3>2. serving[w] # Nobody
      BY <3>1, ScreenAssumption
    <3>3. call[s] \in Calls /\ call[s].op = req[w].op /\ req[w] \in Request
      BY <3>1, <3>2 DEF ScreenInv, ServingOK, IInv, TypeOK
    <3>4. call[s].op # "load" /\ call[s] # NoCall /\ Sound(call[s])
      BY <3>3, ScreenAssumption DEF ScreenInv, Request, Ops
    <3> DEFINE c == Answered(call[s], 502, NoIncidentShown)
    <3>5. c \in Calls /\ c.id = call[s].id /\ c.op = call[s].op /\ c.seen = call[s].seen
      BY <3>3, ToldIsCall
    <3>6. call'[s] = c
      BY <1>3, <2>1 DEF ServerCrash, Told, Answered
    <3> HIDE DEF c
    <3>7. Sound(c)
      BY <3>4, <3>5 DEF Sound
    <3> QED
      BY <3>5, <3>6, <3>7
  <2>2. CASE ~\E w \in Workers : serving[w] = s
    <3>1. call'[s] = call[s]
      BY <2>2 DEF ServerCrash
    <3> QED
      BY <1>3, <3>1
  <2> QED
    BY <2>1, <2>2
<1>5. call' \in [Slots -> Calls \cup {NoCall}]
  <2>1. call' = [s \in Slots |-> call'[s]]
    BY DEF ServerCrash
  <2> QED
    BY <1>4, <2>1
<1>6. PageOK' /\ OneEach'
  BY <1>1, <1>5 DEF ScreenInv, PageOK, OneEach
<1>7. ASSUME NEW w \in Workers PROVE ServingOK(w)'
  BY <1>1 DEF ServingOK
<1> QED
  BY <1>1, <1>2, <1>4, <1>6, <1>7, ServiceStep

LEMMA NextScreenInv == ScreenInv /\ [ScreenNext]_allVars => ScreenInv'
<1> SUFFICES ASSUME ScreenInv, [ScreenNext]_allVars PROVE ScreenInv'
  OBVIOUS
<1>1. ASSUME NEW s \in Slots, NEW i \in Incidents, Open(s, i) PROVE ScreenInv'
  BY <1>1, OpenKeeps
<1>2. ASSUME NEW s \in Slots, Click(s) PROVE ScreenInv'
  BY <1>2, ClickKeeps
<1>3. ASSUME NEW s \in Slots, ServeLoad(s) PROVE ScreenInv'
  BY <1>3, ServeLoadKeeps
<1>4. ASSUME NEW s \in Slots, End(s) PROVE ScreenInv'
  BY <1>4, ShowKeeps, ReloadKeeps, GiveUpKeeps, ExpelKeeps
     DEF End, LoadFails, OpFails
<1>5. ASSUME NEW s \in Slots, NEW w \in Workers, Deliver(s, w) PROVE ScreenInv'
  BY <1>5, DeliverKeeps
<1>6. ASSUME NEW w \in Workers, ServerStep(w) PROVE ScreenInv'
  BY <1>6, ServerStepKeeps
<1>7. ASSUME NEW w \in Workers, OtherRequest(w) PROVE ScreenInv'
  BY <1>7, OtherRequestKeeps
<1>8. ASSUME Dismiss \/ UNCHANGED allVars PROVE ScreenInv'
  BY <1>8, DismissKeeps
<1>9. ASSUME ServerCrash PROVE ScreenInv'
  BY <1>9, ServerCrashKeeps
<1> QED
  BY <1>1, <1>2, <1>3, <1>4, <1>5, <1>6, <1>7, <1>8, <1>9 DEF ScreenNext

\* Every variable of the page keeps its type, every call is about an incident
\* that exists, and no two workers serve the same call.
THEOREM ScreenInvariance == ScreenSpec => []ScreenInv
<1> QED
  BY InitScreenInv, NextScreenInv, PTL DEF ScreenSpec

\* Whatever the page, other clients and the network do, the service in the
\* middle is a run of IncidentService: every theorem about it holds here too.
THEOREM ScreenImplementsService == ScreenSpec => Spec
<1>1. ScreenInit => Init
  BY DEF ScreenInit
<1>2. ScreenInv /\ [ScreenNext]_allVars => [Next]_vars
  BY ScreenStepIsServiceStep
<1> QED
  BY <1>1, <1>2, ScreenInvariance, PTL DEF ScreenSpec, Spec

\* With one worker, page and service together are a run of the lifecycle.
THEOREM ScreenImplementsLifecycle ==
  ASSUME NEW w0, Workers = {w0}
  PROVE  ScreenSpec => ImplementsLifecycle
<1> QED
  BY ScreenImplementsService, SerialImplements, PTL
----------------------------------------------------------------------------

\* What the screen knows of an incident is never ahead of its row, a refused
\* click was behind it, and an answer that no later one has overtaken is not
\* behind the screen.
Behind(c) ==
  c # NoCall =>
    /\ c.op # "load" => Rank(row[c.id].status) >= Rank(c.seen)
    /\ c.code = 409 => /\ c.op # "load"
                       /\ Rank(row[c.id].status) > Rank(c.seen)
    /\ c.op = "load" /\ c.stage = "answered" /\ c.code = 200 =>
         /\ Rank(row[c.id].status) >= Rank(c.found.status)
         /\ ~c.passed /\ shown # NoIncidentShown /\ shown.id = c.id =>
              Rank(c.found.status) >= Rank(shown.status)

ShownBehind ==
  shown # NoIncidentShown => Rank(row[shown.id].status) >= Rank(shown.status)

MovedInv == ShownBehind /\ \A s \in Slots : Behind(call[s])

\* The step takes no incident back and shows nothing new.
Advances ==
  /\ \A i \in Incidents : Lifecycle!Present(i) =>
       /\ Lifecycle!Present(i)'
       /\ Rank(row'[i].status) >= Rank(row[i].status)
  /\ shown' = shown \/ shown' = NoIncidentShown

LEMMA RowRank ==
  ASSUME TypeOK, NEW i \in Incidents, Lifecycle!Present(i)
  PROVE  row[i].status \in Lifecycle!Statuses /\ Rank(row[i].status) \in Nat
BY RankOrders DEF TypeOK, Lifecycle!Present, Lifecycle!Row

LEMMA SeenRank ==
  ASSUME NEW c \in Calls, Sound(c)
  PROVE  /\ c.op # "load" => /\ c.seen \in Lifecycle!Statuses
                             /\ Rank(c.seen) \in Nat
         /\ c.op = "load" /\ c.stage = "answered" /\ c.code = 200 =>
              Rank(c.found.status) \in Nat
<1>1. c # NoCall /\ c.op \in {"load", "assign", "rectify", "close"}
  BY ScreenAssumption DEF Calls
<1>2. c.op # "load" => c.seen \in Lifecycle!Statuses
  BY <1>1 DEF Sound, From, Lifecycle!Statuses
<1>3. c.op = "load" /\ c.stage = "answered" /\ c.code = 200 =>
        c.found.status \in Lifecycle!Statuses
  BY <1>1 DEF Sound, Found
<1> QED
  BY <1>2, <1>3, RankOrders

LEMMA BehindStays ==
  ASSUME TypeOK, TypeOK', Advances, NEW c \in Calls, Sound(c), Behind(c)
  PROVE  Behind(c)'
<1>1. /\ c # NoCall /\ c.id \in Incidents /\ Lifecycle!Present(c.id)
      /\ Lifecycle!Present(c.id)'
  BY ScreenAssumption DEF Calls, Sound, Advances
<1>2. /\ Rank(row[c.id].status) \in Nat /\ Rank(row'[c.id].status) \in Nat
      /\ Rank(row'[c.id].status) >= Rank(row[c.id].status)
  <2>1. Rank(row[c.id].status) \in Nat
    BY <1>1, RowRank
  <2>2. row'[c.id].status \in Lifecycle!Statuses
    BY <1>1 DEF TypeOK, Lifecycle!Present, Lifecycle!Row
  <2> QED
    BY <1>1, <2>1, <2>2, RankOrders DEF Advances
<1>3. c.op # "load" => /\ Rank(c.seen) \in Nat
                       /\ Rank(row'[c.id].status) >= Rank(c.seen)
  BY <1>1, <1>2, SeenRank DEF Behind
<1>4. c.code = 409 => c.op # "load" /\ Rank(row'[c.id].status) > Rank(c.seen)
  BY <1>1, <1>2, <1>3 DEF Behind
<1>5. c.op = "load" /\ c.stage = "answered" /\ c.code = 200 =>
        /\ Rank(row'[c.id].status) >= Rank(c.found.status)
        /\ ~c.passed /\ shown' # NoIncidentShown /\ shown'.id = c.id =>
             Rank(c.found.status) >= Rank(shown'.status)
  <2> HAVE c.op = "load" /\ c.stage = "answered" /\ c.code = 200
  <2>1. Rank(c.found.status) \in Nat
    BY SeenRank
  <2>2. Rank(row[c.id].status) >= Rank(c.found.status)
    BY <1>1 DEF Behind
  <2>3. Rank(row'[c.id].status) >= Rank(c.found.status)
    BY <1>2, <2>1, <2>2
  <2>4. ~c.passed /\ shown' # NoIncidentShown /\ shown'.id = c.id =>
          Rank(c.found.status) >= Rank(shown'.status)
    BY <1>1 DEF Behind, Advances
  <2> QED
    BY <2>3, <2>4
<1> QED
  BY <1>3, <1>4, <1>5 DEF Behind

\* A step that takes no incident back keeps the calls that stay behind.
LEMMA MovedStep ==
  ASSUME ScreenInv, TypeOK', MovedInv, Advances,
         \A s \in Slots : call'[s] = call[s] \/ Behind(call[s])'
  PROVE  MovedInv'
<1>1. ASSUME NEW s \in Slots PROVE Behind(call[s])'
  <2>1. CASE call'[s] = call[s] /\ call[s] # NoCall
    <3>1. PICK c \in Calls : c = call[s] /\ Sound(c) /\ Behind(c)
      BY <2>1 DEF ScreenInv, PageOK, MovedInv
    <3>2. Behind(c)'
      BY <3>1, BehindStays DEF ScreenInv, IInv
    <3> QED
      BY <2>1, <3>1, <3>2
  <2>2. CASE call'[s] = NoCall
    BY <2>2 DEF Behind
  <2> QED
    BY <2>1, <2>2
<1>2. ShownBehind'
  <2>1. CASE shown' = shown /\ shown # NoIncidentShown
    <3>1. shown \in Found /\ Lifecycle!Present(shown.id) /\ shown.id \in Incidents
      BY <2>1 DEF ScreenInv, PageOK, ShownOK, Found
    <3>2. /\ Rank(row[shown.id].status) \in Nat /\ Rank(shown.status) \in Nat
          /\ Rank(row[shown.id].status) >= Rank(shown.status)
      BY <2>1, <3>1, RowRank, RankOrders DEF ScreenInv, IInv, MovedInv, ShownBehind, Found
    <3>3. /\ Rank(row'[shown.id].status) \in Nat
          /\ Rank(row'[shown.id].status) >= Rank(row[shown.id].status)
      <4>1. Lifecycle!Present(shown.id)'
        BY <2>1, <3>1 DEF Advances
      <4>2. row'[shown.id].status \in Lifecycle!Statuses
        BY <2>1, <3>1, <4>1 DEF TypeOK, Lifecycle!Present, Lifecycle!Row
      <4> QED
        BY <3>1, <4>2, RankOrders DEF Advances
    <3> QED
      BY <2>1, <3>2, <3>3 DEF ShownBehind
  <2>2. CASE shown' = NoIncidentShown
    BY <2>2 DEF ShownBehind
  <2> QED
    BY <2>1, <2>2 DEF Advances
<1> QED
  BY <1>1, <1>2 DEF MovedInv
LEMMA PageAdvances ==
  ASSUME TypeOK, UNCHANGED row, shown' = shown \/ shown' = NoIncidentShown
  PROVE  Advances
BY RowRank DEF Advances, Lifecycle!Present

LEMMA ServiceAdvances ==
  ASSUME IInv, Fresh, [Next]_vars, shown' = shown
  PROVE  Advances
<1>1. [Lifecycle!Next]_row
  BY SerialStep
<1> QED
  BY <1>1, PresentStays, LifecycleAdvances DEF Advances, IInv

\* A call that was not about loading gets an answer that is no conflict, or goes
\* on without one.
LEMMA BehindLike ==
  ASSUME NEW c \in Calls, Behind(c), c.op # "load",
         NEW d \in Calls, d.id = c.id, d.op = c.op, d.seen = c.seen,
         d.code = c.code \/ d.code # 409
  PROVE  Behind(d)
<1>1. c # NoCall
  BY ScreenAssumption
<1> QED
  BY <1>1 DEF Behind

\* An answer of the server to an operation.
LEMMA ToldIsBehind ==
  ASSUME ScreenInv, MovedInv, NEW s \in Slots, call[s] \in Calls,
         call[s].op # "load", NEW code \in Answers \cup {401, 502},
         code = 409 => Rank(row[call[s].id].status) > Rank(call[s].seen)
  PROVE  \E c \in Calls : Told(s, code, NoIncidentShown) = [call EXCEPT ![s] = c]
                          /\ Behind(c)
<1> DEFINE c == Answered(call[s], code, NoIncidentShown)
<1>1. /\ c \in Calls /\ c.id = call[s].id /\ c.op = call[s].op
      /\ c.seen = call[s].seen /\ c.code = code
  BY ToldIsCall
<1>2. Told(s, code, NoIncidentShown) = [call EXCEPT ![s] = c]
  BY DEF Told, Answered
<1>3. Behind(call[s]) /\ call[s] # NoCall
  BY ScreenAssumption DEF MovedInv
<1> HIDE DEF c
<1>4. Behind(c)
  BY <1>1, <1>3 DEF Behind
<1> QED
  BY <1>1, <1>2, <1>4

LEMMA ClickMoves ==
  ASSUME ScreenInv, MovedInv, NEW s \in Slots, Click(s)
  PROVE  MovedInv'
<1> DEFINE c == Ask(Button(shown.status), shown.id, shown.status)
<1>1. /\ UNCHANGED <<vars, shown>> /\ call' = [call EXCEPT ![s] = c]
      /\ shown # NoIncidentShown
  BY DEF Click
<1>2. UNCHANGED row
  BY <1>1 DEF vars
<1>3. shown \in Found /\ shown.status \in Lifecycle!Statuses
  BY <1>1 DEF ScreenInv, PageOK, Found
<1>4. Button(shown.status) \in {"assign", "rectify", "close"}
  BY <1>3, ButtonFits DEF Click
<1>5. /\ c.op # "load" /\ c.id = shown.id /\ c.seen = shown.status /\ c.code = 0
  BY <1>4 DEF Ask
<1>6. call'[s] = c
  BY <1>1 DEF ScreenInv, PageOK
<1> HIDE DEF c
<1>7. Behind(call[s])'
  BY <1>1, <1>2, <1>5, <1>6 DEF Behind, MovedInv, ShownBehind
<1>8. \A r \in Slots : call'[r] = call[r] \/ Behind(call[r])'
  BY <1>1, <1>7 DEF ScreenInv, PageOK
<1>9. TypeOK /\ TypeOK'
  BY ClickKeeps DEF ScreenInv, IInv
<1> QED
  BY <1>1, <1>2, <1>8, <1>9, PageAdvances, MovedStep

LEMMA AskingMoves ==
  ASSUME ScreenInv, MovedInv, NEW s \in Slots, NEW i \in Incidents,
         UNCHANGED <<vars, shown>>, call' = [call EXCEPT ![s] = Ask("load", i, "none")]
  PROVE  MovedInv'
<1>1. UNCHANGED row /\ TypeOK /\ TypeOK'
  BY DEF ScreenInv, IInv, vars, TypeOK
<1>2. call'[s] = Ask("load", i, "none")
  BY DEF ScreenInv, PageOK
<1>3. Behind(call[s])'
  BY <1>2 DEF Behind, Ask
<1>4. \A r \in Slots : call'[r] = call[r] \/ Behind(call[r])'
  BY <1>3 DEF ScreenInv, PageOK
<1> QED
  BY <1>1, <1>4, PageAdvances, MovedStep

LEMMA EndingMoves ==
  ASSUME ScreenInv, MovedInv, UNCHANGED vars,
         shown' = shown \/ shown' = NoIncidentShown,
         \A s \in Slots : call'[s] = call[s] \/ call'[s] = NoCall
  PROVE  MovedInv'
<1>1. UNCHANGED row /\ TypeOK /\ TypeOK'
  BY DEF ScreenInv, IInv, vars, TypeOK
<1>2. \A s \in Slots : call'[s] = call[s] \/ Behind(call[s])'
  BY DEF Behind
<1> QED
  BY <1>1, <1>2, PageAdvances, MovedStep
\* A load that is answered is up to date at that moment.
LEMMA ServeLoadMoves ==
  ASSUME ScreenInv, MovedInv, NEW s \in Slots, ServeLoad(s)
  PROVE  MovedInv'
<1>1. /\ call[s] \in Calls /\ Sound(call[s]) /\ call[s] # NoCall
      /\ call[s].op = "load"
  BY DEF ServeLoad, Sent, ScreenInv, PageOK
<1>2. /\ call[s].id \in Incidents /\ Lifecycle!Present(call[s].id)
      /\ row[call[s].id].status \in Lifecycle!Statuses
      /\ Rank(row[call[s].id].status) \in Nat
  BY <1>1, RowRank DEF Calls, Sound, ScreenInv, IInv
<1>3. UNCHANGED <<vars, shown>>
  BY DEF ServeLoad
<1>4. UNCHANGED row /\ TypeOK /\ TypeOK'
  BY <1>3 DEF ScreenInv, IInv, vars, TypeOK
<1>5. PICK code \in Answers \cup {401, 502}, f \in Found \cup {NoIncidentShown} :
        /\ call' = Told(s, code, f)
        /\ code = 200 => f.status = row[call[s].id].status
        /\ code # 409
  <2>1. [id |-> call[s].id, status |-> row[call[s].id].status] \in Found
    BY <1>2 DEF Found
  <2> QED
    BY <2>1 DEF ServeLoad, Answers
<1> DEFINE c == Answered(call[s], code, f)
<1>6. c.id = call[s].id /\ c.op = "load" /\ c.code = code /\ c.found = f
  <2>1. PICK d \in Calls : d = call[s]
    BY <1>1
  <2>2. PICK e : e = Answered(d, code, f)
    OBVIOUS
  <2>3. e.id = d.id /\ e.op = d.op /\ e.code = code /\ e.found = f
    BY <2>2, ToldIsCall
  <2> QED
    BY <1>1, <2>1, <2>2, <2>3
<1>7. call'[s] = c /\ \A r \in Slots : r # s => call'[r] = call[r]
  BY <1>5 DEF Told, Answered, ScreenInv, PageOK
<1> HIDE DEF c
<1>8. shown # NoIncidentShown /\ shown.id = call[s].id =>
        Rank(row[call[s].id].status) >= Rank(shown.status)
  BY DEF MovedInv, ShownBehind
<1>9. Behind(call[s])'
  BY <1>2, <1>3, <1>4, <1>5, <1>6, <1>7, <1>8 DEF Behind
<1>10. \A r \in Slots : call'[r] = call[r] \/ Behind(call[r])'
  BY <1>7, <1>9
<1> QED
  BY <1>3, <1>4, <1>10, PageAdvances, MovedStep

\* What is shown next is behind the row, and every other answer is marked.
LEMMA ShowMoves ==
  ASSUME ScreenInv, MovedInv, NEW s \in Slots, Show(s)
  PROVE  MovedInv'
<1>1. /\ call[s] \in Calls /\ Sound(call[s]) /\ call[s] # NoCall
      /\ call[s].op = "load" /\ call[s].stage = "answered" /\ call[s].code = 200
  BY DEF Show, HasAnswer, ScreenInv, PageOK
<1>2. /\ UNCHANGED vars /\ shown' = call[s].found
  BY DEF Show
<1>3. UNCHANGED row
  BY <1>2 DEF vars
<1>4. ShownBehind'
  BY <1>1, <1>2, <1>3 DEF ShownBehind, MovedInv, Behind, Sound
<1>5. ASSUME NEW r \in Slots PROVE Behind(call[r])'
  <2>1. call'[r] = CASE r = s -> NoCall
                     [] HasAnswer(r, TRUE, 200) /\ r # s
                             -> [call[r] EXCEPT !.passed = TRUE]
                     [] OTHER -> call[r]
    BY DEF Show
  <2>2. call[r] \in Calls \cup {NoCall} /\ Behind(call[r])
    BY DEF ScreenInv, PageOK, MovedInv
  <2>3. CASE call'[r] = NoCall
    BY <2>3 DEF Behind
  <2>4. CASE r # s /\ HasAnswer(r, TRUE, 200)
    <3>1. call[r] \in Calls /\ call[r] # NoCall
      BY <2>2, <2>4 DEF HasAnswer
    <3>2. PICK d : d = [call[r] EXCEPT !.passed = TRUE]
      OBVIOUS
    <3>3. /\ d.id = call[r].id /\ d.op = call[r].op /\ d.seen = call[r].seen
          /\ d.stage = call[r].stage /\ d.code = call[r].code
          /\ d.found = call[r].found /\ d.passed
      BY <3>1, <3>2 DEF Calls
    <3>4. call'[r] = d
      BY <2>1, <2>4, <3>2
    <3> QED
      BY <1>3, <2>2, <3>1, <3>3, <3>4 DEF Behind
  <2>5. CASE r # s /\ ~HasAnswer(r, TRUE, 200)
    <3>1. call'[r] = call[r]
      BY <2>1, <2>5
    <3>2. call[r] # NoCall =>
            ~(call[r].op = "load" /\ call[r].stage = "answered" /\ call[r].code = 200)
      BY <2>5 DEF HasAnswer
    <3> QED
      BY <1>3, <2>2, <3>1, <3>2 DEF Behind
  <2> QED
    BY <2>1, <2>3, <2>4, <2>5
<1> QED
  BY <1>4, <1>5 DEF MovedInv
\* One call of the page changes in a step of the service.
LEMMA OneCallMoves ==
  ASSUME ScreenInv, ScreenInv', MovedInv, Advances, NEW s \in Slots,
         NEW c \in Calls, Behind(c), Sound(c), call' = [call EXCEPT ![s] = c]
  PROVE  MovedInv'
<1>1. TypeOK /\ TypeOK'
  BY DEF ScreenInv, IInv
<1>2. Behind(c)'
  BY <1>1, BehindStays
<1>3. call'[s] = c /\ \A r \in Slots : r # s => call'[r] = call[r]
  BY DEF ScreenInv, PageOK
<1>4. Behind(call[s])'
  BY <1>2, <1>3 DEF Behind
<1>5. \A r \in Slots : call'[r] = call[r] \/ Behind(call[r])'
  BY <1>3, <1>4
<1> QED
  BY <1>1, <1>5, MovedStep

LEMMA DeliverMoves ==
  ASSUME ScreenInv, MovedInv, NEW s \in Slots, NEW w \in Workers, Deliver(s, w)
  PROVE  MovedInv'
<1>1. /\ call[s] \in Calls /\ Sound(call[s]) /\ call[s] # NoCall
      /\ call[s].stage = "sent" /\ call[s].op # "load" /\ Behind(call[s])
  BY DEF Deliver, Sent, ScreenInv, PageOK, MovedInv
<1>2. UNCHANGED <<row, shown>>
  BY DEF Deliver
<1>3. ScreenInv' /\ TypeOK
  BY DeliverKeeps DEF ScreenInv, IInv
<1>4. Advances
  BY <1>2, <1>3, PageAdvances
<1>5. CASE call' = Told(s, 401, NoIncidentShown)
  <2>1. PICK c \in Calls : call' = [call EXCEPT ![s] = c] /\ Behind(c)
    BY <1>1, <1>5, ToldIsBehind
  <2>2. Sound(c)
    <3>1. c = call'[s] /\ Sound(call[s])'
      BY <1>3, <2>1 DEF ScreenInv, PageOK
    <3> QED
      BY <1>2, <3>1 DEF Sound, Lifecycle!Present
  <2> QED
    BY <1>3, <1>4, <2>1, <2>2, OneCallMoves
<1>6. CASE call' = [call EXCEPT ![s].stage = "served"]
  <2>1. PICK c \in Calls : c = [call[s] EXCEPT !.stage = "served"] /\ Sound(c)
    BY <1>1, ServedIsCall
  <2>2. /\ c.id = call[s].id /\ c.op = call[s].op /\ c.seen = call[s].seen
        /\ c.code = call[s].code
    BY <1>1, <2>1 DEF Calls
  <2>3. Behind(c)
    BY <1>1, <2>2, BehindLike
  <2>4. call' = [call EXCEPT ![s] = c]
    BY <1>6, <2>1
  <2> QED
    BY <1>3, <1>4, <2>1, <2>3, <2>4, OneCallMoves
<1> QED
  BY <1>5, <1>6 DEF Deliver

\* The service refuses an operation as a conflict only when the row is not in
\* the status the operation demands.
LEMMA ConflictIsFound ==
  ASSUME IInv, NEW w \in Workers, Handle(w), pc'[w] = "idle", answer'[w] = 409
  PROVE  row[req[w].id] # NoRow /\ row[req[w].id].status # From(req[w].op)
<1>1. answer \in [Workers -> Answers]
  BY DEF IInv, TypeOK
<1>2. ~Finish(w, 500) /\ ~Finish(w, 200)
  BY <1>1 DEF Finish
<1>3. Find(w) \/ Commit(w)
  BY <1>2 DEF Handle, DBError, Reply
<1>4. CASE Commit(w)
  <2>1. pc'[w] = "reply"
    BY <1>2, <1>4 DEF Commit, IInv, TypeOK
  <2> QED
    BY <2>1
<1>5. CASE Find(w)
  <2>1. pc' # [pc EXCEPT ![w] = "save"]
    BY DEF IInv, TypeOK
  <2> QED
    BY <1>2, <1>5, <2>1 DEF Find, Permits
<1> QED
  BY <1>3, <1>4, <1>5

LEMMA ServerStepMoves ==
  ASSUME ScreenInv, Fresh, MovedInv, NEW w \in Workers, ServerStep(w)
  PROVE  MovedInv'
<1>1. Handle(w) /\ shown' = shown
  BY DEF ServerStep
<1>2. [Next]_vars /\ IInv
  BY <1>1 DEF Next, ScreenInv
<1>3. Advances
  BY <1>1, <1>2, ServiceAdvances
<1>4. ScreenInv' /\ TypeOK /\ TypeOK'
  BY ServerStepKeeps DEF ScreenInv, IInv
<1>5. CASE call' = call
  BY <1>3, <1>4, <1>5, MovedStep
<1>6. CASE /\ pc'[w] = "idle" /\ serving[w] # Nobody
           /\ call' = Told(serving[w], answer'[w], NoIncidentShown)
  <2>1. PICK s \in Slots : s = serving[w]
    BY <1>6 DEF ScreenInv, PageOK
  <2>2. /\ call[s] \in Calls /\ Sound(call[s]) /\ call[s] # NoCall
        /\ call[s].op # "load" /\ Behind(call[s])
        /\ call[s].op = req[w].op /\ call[s].id = req[w].id
    <3>1. /\ call[s] \in Calls /\ call[s].op = req[w].op /\ call[s].id = req[w].id
          /\ req[w] \in Request
      BY <1>6, <2>1 DEF ScreenInv, ServingOK, IInv, TypeOK
    <3>2. call[s].op # "load" /\ call[s] # NoCall
      BY <3>1, ScreenAssumption DEF Request, Ops
    <3> QED
      BY <3>1, <3>2 DEF ScreenInv, MovedInv
  <2>3. answer'[w] \in Answers
    BY <1>4 DEF TypeOK
  <2>4. answer'[w] = 409 => Rank(row[call[s].id].status) > Rank(call[s].seen)
    <3> HAVE answer'[w] = 409
    <3>1. row[call[s].id] # NoRow /\ row[call[s].id].status # From(call[s].op)
      BY <1>1, <1>2, <1>6, <2>2, ConflictIsFound
    <3>2. /\ call[s].seen = From(call[s].op) /\ call[s].seen \in Lifecycle!Statuses
          /\ call[s].id \in Incidents /\ Lifecycle!Present(call[s].id)
      BY <2>2, SeenRank DEF Sound, Calls
    <3>3. row[call[s].id].status \in Lifecycle!Statuses
      BY <1>4, <3>2, RowRank
    <3>4. Rank(row[call[s].id].status) >= Rank(call[s].seen)
      BY <2>2 DEF Behind
    <3> QED
      BY <3>1, <3>2, <3>3, <3>4, RankOrders
  <2>5. PICK code \in Answers : code = answer'[w]
    BY <2>3
  <2>6. PICK c \in Calls : call' = [call EXCEPT ![s] = c] /\ Behind(c)
    <3>1. code \in Answers \cup {401, 502}
      BY <2>5
    <3>2. code = 409 => Rank(row[call[s].id].status) > Rank(call[s].seen)
      BY <2>4, <2>5
    <3>3. call' = Told(s, code, NoIncidentShown)
      BY <1>6, <2>1, <2>5
    <3> QED
      BY <2>2, <3>1, <3>2, <3>3, ToldIsBehind
  <2>7. c = call'[s] /\ \A r \in Slots : r # s => call'[r] = call[r]
    BY <2>6 DEF ScreenInv, PageOK
  <2>8. Sound(c)
    <3>1. c # NoCall /\ c.id = call[s].id /\ c.op = call[s].op /\ c.seen = call[s].seen
      <4>1. c = Answered(call[s], code, NoIncidentShown)
        BY <1>6, <2>1, <2>5, <2>7 DEF Told, Answered, ScreenInv, PageOK
      <4>2. code \in Answers \cup {401, 502}
        BY <2>5
      <4> QED
        BY <2>2, <4>1, <4>2, ToldIsCall, ScreenAssumption
    <3> QED
      BY <2>2, <3>1 DEF Sound
  <2> QED
    BY <1>3, <1>4, <2>6, <2>8, OneCallMoves
<1> QED
  BY <1>5, <1>6 DEF ServerStep
LEMMA ServerCrashMoves ==
  ASSUME ScreenInv, Fresh, MovedInv, ServerCrash
  PROVE  MovedInv'
<1>1. Crash /\ shown' = shown
  BY DEF ServerCrash
<1>2. [Next]_vars /\ IInv
  BY <1>1 DEF Next, ScreenInv
<1>3. Advances
  BY <1>1, <1>2, ServiceAdvances
<1>4. ScreenInv' /\ TypeOK /\ TypeOK'
  BY ServerCrashKeeps DEF ScreenInv, IInv
<1>5. ASSUME NEW s \in Slots
      PROVE  call'[s] = call[s] \/ Behind(call[s])'
  <2>1. CASE \E w \in Workers : serving[w] = s
    <3>1. PICK w \in Workers : serving[w] = s
      BY <2>1
    <3>2. serving[w] # Nobody
      BY <3>1, ScreenAssumption
    <3>3. call[s] \in Calls /\ call[s].op = req[w].op /\ req[w] \in Request
      BY <3>1, <3>2 DEF ScreenInv, ServingOK, IInv, TypeOK
    <3>4. call[s].op # "load" /\ call[s] # NoCall /\ Sound(call[s])
      BY <3>3, ScreenAssumption DEF ScreenInv, Request, Ops
    <3>5. PICK c \in Calls : /\ Told(s, 502, NoIncidentShown) = [call EXCEPT ![s] = c]
                             /\ Behind(c)
      BY <3>3, <3>4, ToldIsBehind
    <3>6. call'[s] = c
      BY <2>1, <3>5 DEF ServerCrash, ScreenInv, PageOK
    <3>7. c.id = call[s].id /\ c.op = call[s].op /\ c.seen = call[s].seen
      <4>1. c = Answered(call[s], 502, NoIncidentShown)
        BY <2>1, <3>6 DEF ServerCrash, Told, Answered, ScreenInv, PageOK
      <4> QED
        BY <3>3, <4>1, ToldIsCall
    <3>8. Sound(c)
      BY <3>4, <3>7 DEF Sound
    <3>9. Behind(c)'
      BY <1>3, <1>4, <3>5, <3>8, BehindStays
    <3> QED
      BY <3>6, <3>9 DEF Behind
  <2>2. CASE ~\E w \in Workers : serving[w] = s
    BY <2>2 DEF ServerCrash
  <2> QED
    BY <2>1, <2>2
<1> QED
  BY <1>3, <1>4, <1>5, MovedStep

LEMMA OtherRequestMoves ==
  ASSUME ScreenInv, Fresh, MovedInv, NEW w \in Workers, OtherRequest(w)
  PROVE  MovedInv'
<1>1. Arrive(w) /\ UNCHANGED <<shown, call>>
  BY DEF OtherRequest, screenVars
<1>2. [Next]_vars /\ IInv
  BY <1>1 DEF Next, ScreenInv
<1>3. Advances
  BY <1>1, <1>2, ServiceAdvances
<1>4. TypeOK'
  BY OtherRequestKeeps DEF ScreenInv, IInv
<1> QED
  BY <1>1, <1>3, <1>4, MovedStep

LEMMA NextMoved ==
  ASSUME ScreenInv, Fresh, MovedInv, [ScreenNext]_allVars
  PROVE  MovedInv'
<1>1. ASSUME NEW s \in Slots, NEW i \in Incidents, Open(s, i) PROVE MovedInv'
  BY <1>1, AskingMoves DEF Open
<1>2. ASSUME NEW s \in Slots, Click(s) PROVE MovedInv'
  BY <1>2, ClickMoves
<1>3. ASSUME NEW s \in Slots, ServeLoad(s) PROVE MovedInv'
  BY <1>3, ServeLoadMoves
<1>4. ASSUME NEW s \in Slots, Show(s) PROVE MovedInv'
  BY <1>4, ShowMoves
<1>5. ASSUME NEW s \in Slots, Reload(s) PROVE MovedInv'
  <2>1. call[s].id \in Incidents
    BY <1>5 DEF Reload, HasAnswer, ScreenInv, PageOK, Calls
  <2> QED
    BY <1>5, <2>1, AskingMoves DEF Reload
<1>6. ASSUME NEW s \in Slots, LoadFails(s) \/ OpFails(s) PROVE MovedInv'
  <2>1. UNCHANGED <<vars, shown>> /\ call' = [call EXCEPT ![s] = NoCall]
    BY <1>6 DEF LoadFails, OpFails, GiveUp
  <2>2. \A r \in Slots : call'[r] = call[r] \/ call'[r] = NoCall
    BY <2>1 DEF ScreenInv, PageOK
  <2> QED
    BY <2>1, <2>2, EndingMoves
<1>7. ASSUME NEW s \in Slots, Expel(s) PROVE MovedInv'
  <2>1. UNCHANGED vars /\ shown' = NoIncidentShown
        /\ \A r \in Slots : call'[r] = NoCall
    BY <1>7 DEF Expel
  <2> QED
    BY <2>1, EndingMoves
<1>8. ASSUME Dismiss \/ UNCHANGED allVars PROVE MovedInv'
  <2>1. UNCHANGED <<vars, shown, call>>
    BY <1>8 DEF Dismiss, allVars, screenVars
  <2> QED
    BY <2>1, EndingMoves
<1>9. ASSUME NEW s \in Slots, NEW w \in Workers, Deliver(s, w) PROVE MovedInv'
  BY <1>9, DeliverMoves
<1>10. ASSUME NEW w \in Workers, ServerStep(w) PROVE MovedInv'
  BY <1>10, ServerStepMoves
<1>11. ASSUME NEW w \in Workers, OtherRequest(w) PROVE MovedInv'
  BY <1>11, OtherRequestMoves
<1>12. ASSUME ServerCrash PROVE MovedInv'
  BY <1>12, ServerCrashMoves
<1> QED
  BY <1>1, <1>2, <1>3, <1>4, <1>5, <1>6, <1>7, <1>8, <1>9, <1>10, <1>11, <1>12
     DEF ScreenNext, End

\* With one worker the screen is never ahead of the table.
LEMMA MovedInvariance ==
  ASSUME NEW w0, Workers = {w0}
  PROVE  ScreenSpec => [](ScreenInv /\ Fresh /\ MovedInv)
<1>1. ScreenInit => Fresh /\ MovedInv
  BY DEF ScreenInit, Init, Fresh, MovedInv, ShownBehind, Behind
<1>2. ScreenInv /\ Fresh /\ [ScreenNext]_allVars => Fresh'
  BY FreshStep, ScreenStepIsServiceStep DEF ScreenInv
<1>3. ScreenInv /\ Fresh /\ MovedInv /\ [ScreenNext]_allVars => MovedInv'
  BY NextMoved
<1> QED
  BY <1>1, <1>2, <1>3, ScreenInvariance, PTL DEF ScreenSpec

\* The buttons of the page follow the checks of the service: with one worker, a
\* click is answered as a conflict only if the incident has moved on since.
THEOREM ConflictsMeanMoves ==
  ASSUME NEW w0, Workers = {w0}
  PROVE  ScreenSpec => []ConflictMeansMoved
<1>1. MovedInv => ConflictMeansMoved
  BY DEF MovedInv, Behind, ConflictMeansMoved
<1> QED
  BY <1>1, MovedInvariance, PTL

LEMMA ShownStep ==
  ASSUME ScreenInv, MovedInv, [ScreenNext]_allVars, NEW i \in Incidents,
         shown # NoIncidentShown, shown.id = i
  PROVE  \/ shown' = NoIncidentShown \/ shown'.id # i
         \/ Rank(shown'.status) >= Rank(shown.status)
         \/ \E s \in Slots : Show(s) /\ call[s].passed
<1>1. Rank(shown.status) \in Nat
  BY RankOrders DEF ScreenInv, PageOK, Found
<1>2. CASE shown' = shown
  BY <1>1, <1>2
<1>3. ASSUME NEW s \in Slots, Show(s), ~call[s].passed,
             shown' # NoIncidentShown, shown'.id = i
      PROVE  Rank(shown'.status) >= Rank(shown.status)
  <2>1. /\ call[s] # NoCall /\ call[s].op = "load" /\ call[s].stage = "answered"
        /\ call[s].code = 200 /\ shown' = call[s].found
    BY <1>3 DEF Show, HasAnswer
  <2>2. Sound(call[s]) /\ Behind(call[s])
    BY DEF ScreenInv, MovedInv
  <2>3. call[s].id = i
    BY <1>3, <2>1, <2>2 DEF Sound
  <2> QED
    BY <1>3, <2>1, <2>2, <2>3 DEF Behind
<1>4. ASSUME NEW s \in Slots, Expel(s) PROVE shown' = NoIncidentShown
  BY <1>4 DEF Expel
<1>5. \/ \E s \in Slots : Show(s) \/ Expel(s)
      \/ shown' = shown
  BY DEF ScreenNext, Open, Click, ServeLoad, End, Reload, LoadFails, OpFails,
         GiveUp, Deliver, ServerStep, OtherRequest, screenVars, Dismiss,
         ServerCrash, allVars
<1> QED
  BY <1>2, <1>3, <1>4, <1>5

\* With one worker the screen goes back only when answers overtake each other.
THEOREM ScreenNeverGoesBack ==
  ASSUME NEW w0, Workers = {w0}
  PROVE  ScreenSpec => ShownNeverGoesBack
<1>1. ScreenInv /\ MovedInv /\ [ScreenNext]_allVars =>
        [\A i \in Incidents :
           (shown # NoIncidentShown /\ shown.id = i) =>
             \/ shown' = NoIncidentShown \/ shown'.id # i
             \/ Rank(shown'.status) >= Rank(shown.status)
             \/ \E s \in Slots : Show(s) /\ call[s].passed]_allVars
  BY ShownStep
<1> QED
  BY <1>1, MovedInvariance, PTL DEF ScreenSpec, ShownNeverGoesBack

============================================================================
