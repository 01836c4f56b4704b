-------------------------- MODULE TrainingService --------------------------
(***************************************************************************)
(* Safety trainings: created with a date and a list of participants, and   *)
(* recorded later.  Record reads the row, changes what the request gives   *)
(* and saves the whole row; a list the request leaves out keeps the one of *)
(* the copy, a pass rate it leaves out is 0.                               *)
(***************************************************************************)
EXTENDS Requests, Naturals

CONSTANTS Trainings,   \* primary keys of table safety_trainings
          Days,        \* dates of trainings
          Lists,       \* lists of participants
          EmptyList,   \* "[]", also what a nil list is stored as
          NoList,      \* nil: a request without participants
          Rates        \* pass rates, 0 included

VARIABLE training      \* table safety_trainings

TrainingRow == [date : Days, who : Lists, rate : Rates]

Given == Lists \cup {NoList}

TrainingRequest == [op : {"create"}, date : Days, who : Given]
                     \cup [op : {"record"}, id : Trainings, who : Given, rate : Rates]

\* A mutant: a nil list is stored as NULL.
NewTrainingNull(q) == [date |-> q.date, who |-> q.who, rate |-> 0]

\* JSONList.Value stores a nil list as an empty one.
NewTraining(q) ==
  [date |-> q.date, who |-> IF q.who = NoList THEN EmptyList ELSE q.who, rate |-> 0]

\* A mutant: the test for nil participants is left out.
RecordedBlank(q, r) ==
  [r EXCEPT !.who = IF q.who = NoList THEN EmptyList ELSE q.who, !.rate = q.rate]

\* The struct that is saved.  The binding admits no negative rate, so that the
\* test passRate >= 0 always holds.
Recorded(q, r) ==
  [r EXCEPT !.who = IF q.who = NoList THEN @ ELSE q.who, !.rate = q.rate]

\* The table is empty or holds seeded rows.
TrainingInit == training \in [Trainings -> {NoRow} \cup TrainingRow]

ArriveTraining(w) ==
  /\ \E q \in TrainingRequest :
       Begin(w, q, IF q.op = "create" THEN "insertTraining" ELSE "findTraining")
  /\ UNCHANGED training

InsertTraining(w) ==
  /\ pc[w] = "insertTraining"
  /\ \E t \in Trainings :
       /\ training[t] = NoRow
       /\ training' = [training EXCEPT ![t] = NewTraining(req[w])]
  /\ Committed(w)

\* A missing row is a DBError.
FindTraining(w) ==
  LET r == training[req[w].id] IN
  /\ pc[w] = "findTraining"
  /\ r # NoRow
  /\ Keep(w, r, "saveTraining")
  /\ UNCHANGED training

SaveTraining(w) ==
  /\ pc[w] = "saveTraining"
  /\ training' = [training EXCEPT ![req[w].id] = Recorded(req[w], copy[w])]
  /\ Committed(w)

HandleTraining(w) == InsertTraining(w) \/ FindTraining(w) \/ SaveTraining(w)

----------------------------------------------------------------------------

TrainingTypeOK == training \in [Trainings -> TrainingRow \cup {NoRow}]

\* Every handler that is about to save t has read the row as it is now.
Fresh(t) == \A w \in Workers :
              pc[w] = "saveTraining" /\ req[w].id = t => copy[w] = training[t]

\* The list of participants changes only to one that a record request gives,
\* unless a handler holds a copy that another record has overtaken: recording
\* the rate alone does not empty the list (Record tests participantIDs for nil).
AttendanceIsKept ==
  [][\A t \in Trainings :
       training[t] # NoRow /\ Fresh(t) /\ training'[t].who # training[t].who
         => \E w \in Workers : /\ pc[w] = "saveTraining" /\ req[w].id = t
                               /\ training'[t].who = req[w].who]_<<training, requestVars>>
=============================================================================
