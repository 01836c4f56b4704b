-------------------------- MODULE DashboardProofs --------------------------
(***************************************************************************)
(* For any number of certificates, trainings and requests and any length   *)
(* of the month: types, decisions that settle, attendance that is kept,    *)
(* and what the figures of the dashboard can be relied on for.  Copies may *)
(* be stale in every column but the dates, and a month only gains          *)
(* trainings: the rest follows from these two facts.                       *)
(***************************************************************************)
EXTENDS Dashboard, FiniteSetTheorems, TLAPS

SubmitRequest == [op : {"submit"}, until : Dates \cup {NoDate}]
ReviewRequest == [op : {"review"}, id : Certs, status : Decisions]
CreateRequest == [op : {"create"}, date : Days, who : Given]
RecordRequest == [op : {"record"}, id : Trainings, who : Given, rate : Rates]

\* What a handler has established by the time it reaches each statement: the
\* copy it holds may be stale, but not in the dates, which no code changes.
HandlerOK(w) ==
  /\ pc[w] \in {"user", "insertCert"} => req[w] \in SubmitRequest
  /\ pc[w] \in {"findCert", "saveCert"} => req[w] \in ReviewRequest
  /\ pc[w] = "insertTraining" => req[w] \in CreateRequest
  /\ pc[w] \in {"findTraining", "saveTraining"} => req[w] \in RecordRequest
  /\ pc[w] = "saveCert" =>
       /\ copy[w] \in CertRow
       /\ cert[req[w].id] # NoRow
       /\ copy[w].until = cert[req[w].id].until
  /\ pc[w] = "saveTraining" =>
       /\ copy[w] \in TrainingRow
       /\ training[req[w].id] # NoRow
       /\ copy[w].date = training[req[w].id].date

\* Certificate c is to be listed by a dashboard read on the given day, at
\* whatever time of it.
Due(c, day) == /\ cert[c].until # NoDate
               /\ day < cert[c].until
               /\ cert[c].until <= day + MonthLength

\* Certificate c may be listed by such a dashboard.
InWindow(c, day) == /\ cert[c].until # NoDate
                    /\ day <= cert[c].until
                    /\ cert[c].until <= day + MonthLength

\* The list of a dashboard read on the given day is right about certificate c.
ListedRight(c, day, certs) == /\ cert[c] # NoRow
                              /\ Due(c, day) => c \in certs
                              /\ c \in certs => InWindow(c, day)

\* What stays true of the figures read so far, whatever is written meanwhile.
SeenOK(w) ==
  /\ Counted(w) => seen[w].done <= Cardinality(InMonth(seen[w].month))
  /\ seen[w].day <= today
  /\ \A c \in seen[w].known : ListedRight(c, seen[w].day, seen[w].certs)

IInv == /\ TypeOK
        /\ \A w \in Workers : HandlerOK(w) /\ SeenOK(w)
        /\ DecisionIsEarned

\* No statement removes a row or changes a date, and the clock does not go back.
Kept ==
  /\ \A c \in Certs : cert[c] # NoRow => cert'[c] # NoRow /\ cert'[c].until = cert[c].until
  /\ \A t \in Trainings : training[t] # NoRow =>
       training'[t] # NoRow /\ training'[t].date = training[t].date
  /\ today <= today'

----------------------------------------------------------------------------

LEMMA MonthType ==
  ASSUME NEW d \in Nat PROVE Month(d) \in Nat
BY ConstantsAssumption DEF Month

LEMMA InMonthIsFinite ==
  ASSUME NEW m
  PROVE  IsFiniteSet(InMonth(m)) /\ Cardinality(InMonth(m)) \in Nat
<1>1. InMonth(m) \in SUBSET Trainings /\ IsFiniteSet(Trainings)
  BY ConstantsAssumption DEF InMonth
<1> QED
  BY <1>1, FS_Subset, FS_CardinalityType

LEMMA DoneIsInMonth ==
  ASSUME NEW m
  PROVE  /\ Cardinality(Done(m)) \in Nat
         /\ Cardinality(Done(m)) <= Cardinality(InMonth(m))
<1>1. Done(m) \in SUBSET InMonth(m) /\ IsFiniteSet(InMonth(m))
  BY InMonthIsFinite DEF Done
<1> QED
  BY <1>1, FS_Subset, FS_CardinalityType

\* Trainings are never removed from a month.
LEMMA InMonthGrows ==
  ASSUME Kept, NEW m
  PROVE  Cardinality(InMonth(m)) <= Cardinality(InMonth(m)')
<1>1. InMonth(m)' \in SUBSET Trainings /\ IsFiniteSet(Trainings)
  BY ConstantsAssumption DEF InMonth
<1>2. InMonth(m) \in SUBSET (InMonth(m)')
  BY DEF InMonth, Kept, Month
<1>3. IsFiniteSet(InMonth(m)')
  BY <1>1, FS_Subset
<1> QED
  BY <1>2, <1>3, FS_Subset

\* The figures a worker keeps stay right while others write.
LEMMA SeenIsStable ==
  ASSUME TypeOK, TypeOK', Kept, NEW v \in Workers, SeenOK(v), seen'[v] = seen[v],
         Counted(v)' => Counted(v)
  PROVE  SeenOK(v)'
<1> USE ConstantsAssumption
<1>1. /\ seen[v].done \in Nat /\ seen[v].day \in Nat /\ today \in Nat /\ today' \in Nat
      /\ seen[v].known \subseteq Certs
  BY DEF TypeOK
<1>2. seen'[v].day <= today'
  BY <1>1 DEF SeenOK, Kept
<1>3. Counted(v)' => seen'[v].done <= Cardinality(InMonth(seen[v].month)')
  <2> SUFFICES ASSUME Counted(v)
               PROVE  seen[v].done <= Cardinality(InMonth(seen[v].month)')
    OBVIOUS
  <2> DEFINE a == Cardinality(InMonth(seen[v].month))
             b == Cardinality(InMonth(seen[v].month)')
  <2>1. a \in Nat /\ a <= b /\ seen[v].done <= a
    BY InMonthIsFinite, InMonthGrows DEF SeenOK
  <2>2. b \in Nat
    <3>1. InMonth(seen[v].month)' \in SUBSET Trainings
      BY DEF InMonth
    <3> QED
      BY <3>1, FS_Subset, FS_CardinalityType
  <2> QED
    BY <1>1, <2>1, <2>2
<1>4. \A c \in seen'[v].known : ListedRight(c, seen[v].day, seen[v].certs)'
  BY <1>1 DEF SeenOK, Kept, ListedRight, Due, InWindow
<1> QED
  BY <1>2, <1>3, <1>4 DEF SeenOK

\* What a handler has established stays true while others write.
LEMMA HandlerIsStable ==
  ASSUME TypeOK, Kept, NEW v \in Workers, HandlerOK(v),
         pc'[v] = pc[v], req'[v] = req[v], copy'[v] = copy[v]
  PROVE  HandlerOK(v)'
BY DEF HandlerOK, Kept, SubmitRequest, ReviewRequest, CreateRequest, RecordRequest

\* A step of worker w leaves what the other workers have read and decoded.
OnlyOf(w) == \A v \in Workers \ {w} : /\ pc'[v] = pc[v] /\ req'[v] = req[v]
                                      /\ copy'[v] = copy[v] /\ seen'[v] = seen[v]

\* It is enough to look at the worker that takes the step.
LEMMA StepPreserves ==
  ASSUME IInv, TypeOK', Kept, NEW w \in Workers, OnlyOf(w),
         HandlerOK(w)', SeenOK(w)', DecisionIsEarned'
  PROVE  IInv'
<1>1. ASSUME NEW v \in Workers \ {w} PROVE HandlerOK(v)' /\ SeenOK(v)'
  <2>1. /\ pc'[v] = pc[v] /\ req'[v] = req[v]
        /\ copy'[v] = copy[v] /\ seen'[v] = seen[v]
        /\ HandlerOK(v) /\ SeenOK(v) /\ TypeOK
    BY <1>1 DEF OnlyOf, IInv
  <2>2. Counted(v)' => Counted(v)
    BY <2>1 DEF Counted
  <2> QED
    BY <2>1, <2>2, HandlerIsStable, SeenIsStable
<1> QED
  BY <1>1 DEF IInv

\* A step that reads nothing for a dashboard.
StepOK(w) == /\ TypeOK' /\ Kept /\ OnlyOf(w)
             /\ HandlerOK(w)'
             /\ seen' = seen /\ (Counted(w)' => Counted(w))
             /\ DecisionIsEarned'

LEMMA StepOKPreserves ==
  ASSUME IInv, NEW w \in Workers, StepOK(w) PROVE IInv'
<1>1. /\ TypeOK /\ TypeOK' /\ Kept /\ SeenOK(w) /\ seen'[w] = seen[w]
      /\ (Counted(w)' => Counted(w))
  BY DEF StepOK, IInv
<1>2. SeenOK(w)'
  BY <1>1, SeenIsStable
<1> QED
  BY <1>2, StepPreserves DEF StepOK

\* Requests as records, by the name of their operation.
LEMMA CertRequests == CertRequest = SubmitRequest \cup ReviewRequest
BY DEF CertRequest, SubmitRequest, ReviewRequest

LEMMA TrainingRequests == TrainingRequest = CreateRequest \cup RecordRequest
BY DEF TrainingRequest, CreateRequest, RecordRequest

----------------------------------------------------------------------------
\* The certificates.

LEMMA ArriveCertStep ==
  ASSUME IInv, NEW w \in Workers, ArriveCert(w), UNCHANGED <<training, today, seen>>
  PROVE  StepOK(w)
<1> USE ConstantsAssumption
<1>1. PICK q \in CertRequest : Begin(w, q, IF q.op = "submit" THEN "user" ELSE "findCert")
  BY DEF ArriveCert
<1>2. UNCHANGED certVars /\ TypeOK
  BY DEF ArriveCert, IInv
<1>3. \/ q \in SubmitRequest /\ q.op = "submit"
      \/ q \in ReviewRequest /\ q.op # "submit"
  BY <1>1, CertRequests DEF SubmitRequest, ReviewRequest
<1>4. TypeOK'
  BY <1>1, <1>2, <1>3 DEF TypeOK, RequestTypeOK, Labels, Begin, certVars, Answers,
                          CertTypeOK, TrainingTypeOK
<1>5. Kept /\ OnlyOf(w)
  BY <1>1, <1>2 DEF TypeOK, RequestTypeOK, Begin, certVars, Kept, OnlyOf
<1>6. HandlerOK(w)'
  BY <1>1, <1>2, <1>3 DEF TypeOK, RequestTypeOK, Begin, HandlerOK
<1>7. ~Counted(w)'
  BY <1>1, <1>2 DEF TypeOK, RequestTypeOK, Begin, Counted
<1>8. DecisionIsEarned'
  BY <1>2 DEF IInv, certVars, DecisionIsEarned
<1> QED
  BY <1>4, <1>5, <1>6, <1>7, <1>8 DEF StepOK

\* The handler of w holds nothing any more, the others are as they were.
Ended(w) == /\ RequestTypeOK'
            /\ \A v \in Workers \ {w} : /\ pc'[v] = pc[v] /\ req'[v] = req[v]
                                         /\ copy'[v] = copy[v]
            /\ HandlerOK(w)' /\ ~Counted(w)'

LEMMA AnswerEnds ==
  ASSUME RequestTypeOK, NEW w \in Workers, NEW status \in Answers, Answer(w, status)
  PROVE  Ended(w)
<1>1. pc'[w] = "idle"
  BY DEF RequestTypeOK, Answer
<1> QED
  BY <1>1 DEF RequestTypeOK, Labels, Answer, HandlerOK, Counted, Ended

LEMMA CommittedEnds ==
  ASSUME RequestTypeOK, NEW w \in Workers, Committed(w)
  PROVE  Ended(w)
<1>1. CASE Answer(w, 500)
  BY <1>1, AnswerEnds DEF Answers
<1>2. CASE ~Answer(w, 500)
  <2>1. pc'[w] = "reply" /\ req'[w] = NoRequest /\ NoRequest.op # "stats"
    BY <1>2 DEF RequestTypeOK, Committed, NoRequest
  <2> QED
    BY <1>2, <2>1 DEF RequestTypeOK, Labels, Committed, HandlerOK, Counted, Ended
<1> QED
  BY <1>1, <1>2

LEMMA FindUserStep ==
  ASSUME IInv, NEW w \in Workers, FindUser(w), UNCHANGED <<training, today, seen>>
  PROVE  StepOK(w)
<1>1. TypeOK /\ HandlerOK(w) /\ pc[w] = "user" /\ Goto(w, "insertCert") /\ UNCHANGED certVars
  BY DEF FindUser, IInv
<1>2. TypeOK'
  BY <1>1 DEF TypeOK, RequestTypeOK, Labels, Goto, certVars, CertTypeOK, TrainingTypeOK
<1>3. Kept /\ OnlyOf(w)
  BY <1>1 DEF TypeOK, RequestTypeOK, Goto, certVars, Kept, OnlyOf
<1>4. HandlerOK(w)' /\ ~Counted(w)'
  BY <1>1 DEF TypeOK, RequestTypeOK, Goto, HandlerOK, SubmitRequest, Counted
<1>5. DecisionIsEarned'
  BY <1>1 DEF IInv, certVars, DecisionIsEarned
<1> QED
  BY <1>2, <1>3, <1>4, <1>5 DEF StepOK

LEMMA InsertCertStep ==
  ASSUME IInv, NEW w \in Workers, InsertCert(w), UNCHANGED <<training, today, seen>>
  PROVE  StepOK(w)
<1> USE ConstantsAssumption
<1>1. TypeOK /\ HandlerOK(w) /\ req[w] \in SubmitRequest /\ Committed(w) /\ UNCHANGED decided
  BY DEF InsertCert, IInv, HandlerOK
<1>2. PICK c \in Certs : cert[c] = NoRow /\ cert' = [cert EXCEPT ![c] = NewCert(req[w].until)]
  BY DEF InsertCert
<1>3. NewCert(req[w].until) \in CertRow /\ NewCert(req[w].until).status = "pending"
  BY <1>1 DEF NewCert, CertRow, SubmitRequest
<1>4. Ended(w)
  BY <1>1, CommittedEnds DEF TypeOK
<1>5. TypeOK'
  BY <1>1, <1>2, <1>3, <1>4 DEF TypeOK, CertTypeOK, TrainingTypeOK, Ended
<1>6. Kept /\ OnlyOf(w)
  BY <1>1, <1>2, <1>3, <1>4 DEF TypeOK, CertTypeOK, Kept, OnlyOf, Ended
<1>7. DecisionIsEarned'
  BY <1>1, <1>2, <1>3 DEF IInv, TypeOK, CertTypeOK, DecisionIsEarned
<1> QED
  BY <1>4, <1>5, <1>6, <1>7 DEF StepOK, Ended

LEMMA FindCertStep ==
  ASSUME IInv, NEW w \in Workers, FindCert(w), UNCHANGED <<training, today, seen>>
  PROVE  StepOK(w)
<1> USE ConstantsAssumption
<1> DEFINE r == cert[req[w].id]
<1>1. /\ TypeOK /\ HandlerOK(w) /\ req[w] \in ReviewRequest /\ pc[w] = "findCert"
      /\ r # NoRow /\ UNCHANGED certVars
  BY DEF FindCert, IInv, HandlerOK
<1>2. r \in CertRow /\ req[w].id \in Certs
  BY <1>1 DEF TypeOK, CertTypeOK, ReviewRequest
<1>3. DecisionIsEarned' /\ Kept
  BY <1>1 DEF IInv, TypeOK, certVars, DecisionIsEarned, Kept
<1>4. CASE Keep(w, r, "saveCert")
  <2>1. TypeOK'
    BY <1>1, <1>2, <1>4 DEF TypeOK, RequestTypeOK, Labels, Keep, certVars, CertTypeOK,
                            TrainingTypeOK
  <2>2. OnlyOf(w) /\ ~Counted(w)'
    BY <1>1, <1>4 DEF TypeOK, RequestTypeOK, Keep, OnlyOf, Counted
  <2>3. HandlerOK(w)'
    BY <1>1, <1>2, <1>4 DEF TypeOK, RequestTypeOK, Keep, HandlerOK, ReviewRequest, certVars
  <2> QED
    BY <1>3, <2>1, <2>2, <2>3 DEF StepOK
<1>5. CASE Answer(w, 409)
  <2>1. Ended(w)
    BY <1>1, <1>5, AnswerEnds DEF TypeOK, Answers
  <2>2. TypeOK' /\ OnlyOf(w)
    BY <1>1, <2>1 DEF TypeOK, Ended, OnlyOf, certVars, CertTypeOK, TrainingTypeOK
  <2> QED
    BY <1>3, <2>1, <2>2 DEF StepOK, Ended
<1> QED
  BY <1>4, <1>5 DEF FindCert

LEMMA SaveCertStep ==
  ASSUME IInv, NEW w \in Workers, SaveCert(w), UNCHANGED <<training, today, seen>>
  PROVE  StepOK(w)
<1> USE ConstantsAssumption
<1> DEFINE i == req[w].id
           r == [copy[w] EXCEPT !.status = req[w].status]
<1>1. /\ TypeOK /\ req[w] \in ReviewRequest /\ i \in Certs /\ req[w].status \in Decisions
      /\ copy[w] \in CertRow /\ cert[i] # NoRow /\ copy[w].until = cert[i].until
  BY DEF SaveCert, IInv, HandlerOK, ReviewRequest
<1>2. /\ cert' = [cert EXCEPT ![i] = r] /\ decided' = decided \cup {<<i, req[w].status>>}
      /\ Committed(w)
  BY DEF SaveCert
<1>3. r \in CertRow /\ r # NoRow /\ r.status = req[w].status /\ r.until = cert[i].until
  BY <1>1 DEF CertRow
<1>4. Ended(w)
  BY <1>1, <1>2, CommittedEnds DEF TypeOK
<1> HIDE DEF r
<1>5. TypeOK'
  BY <1>1, <1>2, <1>3, <1>4 DEF TypeOK, CertTypeOK, TrainingTypeOK, Ended
<1>6. Kept /\ OnlyOf(w)
  BY <1>1, <1>2, <1>3, <1>4 DEF TypeOK, CertTypeOK, Kept, OnlyOf, Ended
<1>7. DecisionIsEarned'
  BY <1>1, <1>2, <1>3 DEF IInv, TypeOK, CertTypeOK, DecisionIsEarned
<1> QED
  BY <1>4, <1>5, <1>6, <1>7 DEF StepOK, Ended

LEMMA CertStep ==
  ASSUME IInv, NEW w \in Workers, ArriveCert(w) \/ HandleCert(w),
         UNCHANGED <<training, today, seen>>
  PROVE  IInv'
BY ArriveCertStep, FindUserStep, InsertCertStep, FindCertStep, SaveCertStep, StepOKPreserves
   DEF HandleCert

----------------------------------------------------------------------------
\* The trainings.

LEMMA ArriveTrainingStep ==
  ASSUME IInv, NEW w \in Workers, ArriveTraining(w), UNCHANGED <<certVars, today, seen>>
  PROVE  StepOK(w)
<1> USE ConstantsAssumption
<1>1. PICK q \in TrainingRequest :
        Begin(w, q, IF q.op = "create" THEN "insertTraining" ELSE "findTraining")
  BY DEF ArriveTraining
<1>2. UNCHANGED training /\ TypeOK
  BY DEF ArriveTraining, IInv
<1>3. \/ q \in CreateRequest /\ q.op = "create"
      \/ q \in RecordRequest /\ q.op # "create"
  BY <1>1, TrainingRequests DEF CreateRequest, RecordRequest
<1>4. TypeOK'
  BY <1>1, <1>2, <1>3 DEF TypeOK, RequestTypeOK, Labels, Begin, certVars, Answers,
                          CertTypeOK, TrainingTypeOK
<1>5. Kept /\ OnlyOf(w)
  BY <1>1, <1>2 DEF TypeOK, RequestTypeOK, Begin, certVars, Kept, OnlyOf
<1>6. HandlerOK(w)' /\ ~Counted(w)'
  BY <1>1, <1>2, <1>3 DEF TypeOK, RequestTypeOK, Begin, HandlerOK, Counted
<1>7. DecisionIsEarned'
  BY DEF IInv, certVars, DecisionIsEarned
<1> QED
  BY <1>4, <1>5, <1>6, <1>7 DEF StepOK

LEMMA InsertTrainingStep ==
  ASSUME IInv, NEW w \in Workers, InsertTraining(w), UNCHANGED <<certVars, today, seen>>
  PROVE  StepOK(w)
<1> USE ConstantsAssumption
<1> DEFINE r == NewTraining(req[w])
<1>1. TypeOK /\ req[w] \in CreateRequest /\ Committed(w)
  BY DEF InsertTraining, IInv, HandlerOK
<1>2. PICK t \in Trainings : training[t] = NoRow /\ training' = [training EXCEPT ![t] = r]
  BY DEF InsertTraining
<1>3. r \in TrainingRow
  BY <1>1 DEF NewTraining, TrainingRow, CreateRequest, Given
<1>4. Ended(w)
  BY <1>1, CommittedEnds DEF TypeOK
<1> HIDE DEF r
<1>5. TypeOK'
  BY <1>1, <1>2, <1>3, <1>4 DEF TypeOK, CertTypeOK, TrainingTypeOK, Ended, certVars
<1>6. Kept /\ OnlyOf(w)
  BY <1>1, <1>2, <1>3, <1>4 DEF TypeOK, TrainingTypeOK, Kept, OnlyOf, Ended, certVars
<1>7. DecisionIsEarned'
  BY DEF IInv, certVars, DecisionIsEarned
<1> QED
  BY <1>4, <1>5, <1>6, <1>7 DEF StepOK, Ended

LEMMA FindTrainingStep ==
  ASSUME IInv, NEW w \in Workers, FindTraining(w), UNCHANGED <<certVars, today, seen>>
  PROVE  StepOK(w)
<1> USE ConstantsAssumption
<1> DEFINE r == training[req[w].id]
<1>1. /\ TypeOK /\ HandlerOK(w) /\ req[w] \in RecordRequest /\ pc[w] = "findTraining"
      /\ r # NoRow /\ UNCHANGED training /\ Keep(w, r, "saveTraining")
  BY DEF FindTraining, IInv, HandlerOK
<1>2. r \in TrainingRow /\ req[w].id \in Trainings
  BY <1>1 DEF TypeOK, TrainingTypeOK, RecordRequest
<1>3. DecisionIsEarned' /\ Kept
  BY <1>1 DEF IInv, TypeOK, certVars, DecisionIsEarned, Kept
<1>4. TypeOK'
  BY <1>1, <1>2 DEF TypeOK, RequestTypeOK, Labels, Keep, certVars, CertTypeOK, TrainingTypeOK
<1>5. OnlyOf(w) /\ ~Counted(w)'
  BY <1>1 DEF TypeOK, RequestTypeOK, Keep, OnlyOf, Counted
<1>6. HandlerOK(w)'
  BY <1>1, <1>2 DEF TypeOK, RequestTypeOK, Keep, HandlerOK, RecordRequest
<1> QED
  BY <1>3, <1>4, <1>5, <1>6 DEF StepOK

LEMMA SaveTrainingStep ==
  ASSUME IInv, NEW w \in Workers, SaveTraining(w), UNCHANGED <<certVars, today, seen>>
  PROVE  StepOK(w)
<1> USE ConstantsAssumption
<1> DEFINE i == req[w].id
           r == Recorded(req[w], copy[w])
<1>1. /\ TypeOK /\ req[w] \in RecordRequest /\ i \in Trainings
      /\ copy[w] \in TrainingRow /\ training[i] # NoRow /\ copy[w].date = training[i].date
  BY DEF SaveTraining, IInv, HandlerOK, RecordRequest
<1>2. training' = [training EXCEPT ![i] = r] /\ Committed(w)
  BY DEF SaveTraining
<1>3. r \in TrainingRow /\ r # NoRow /\ r.date = training[i].date
  BY <1>1 DEF Recorded, TrainingRow, RecordRequest, Given
<1>4. Ended(w)
  BY <1>1, <1>2, CommittedEnds DEF TypeOK
<1> HIDE DEF r
<1>5. TypeOK'
  BY <1>1, <1>2, <1>3, <1>4 DEF TypeOK, CertTypeOK, TrainingTypeOK, Ended, certVars
<1>6. Kept /\ OnlyOf(w)
  BY <1>1, <1>2, <1>3, <1>4 DEF TypeOK, TrainingTypeOK, Kept, OnlyOf, Ended, certVars
<1>7. DecisionIsEarned'
  BY DEF IInv, certVars, DecisionIsEarned
<1> QED
  BY <1>4, <1>5, <1>6, <1>7 DEF StepOK, Ended

LEMMA TrainingStep ==
  ASSUME IInv, NEW w \in Workers, ArriveTraining(w) \/ HandleTraining(w),
         UNCHANGED <<certVars, today, seen>>
  PROVE  IInv'
BY ArriveTrainingStep, InsertTrainingStep, FindTrainingStep, SaveTrainingStep, StepOKPreserves
   DEF HandleTraining

----------------------------------------------------------------------------
\* The dashboard.

\* Reading for a dashboard, ending a request and the clock leave the tables.
LEMMA TablesAreKept ==
  ASSUME IInv, UNCHANGED <<certVars, training>>
  PROVE  CertTypeOK' /\ TrainingTypeOK' /\ DecisionIsEarned'
BY DEF IInv, TypeOK, certVars, CertTypeOK, TrainingTypeOK, DecisionIsEarned

LEMMA StatsStart ==
  ASSUME IInv, NEW w \in Workers, ArriveStats(w) \/ ReadOthers(w),
         UNCHANGED <<certVars, training, today>>
  PROVE  IInv'
<1> USE ConstantsAssumption
<1>1. TypeOK /\ seen' = seen
  BY DEF ArriveStats, ReadOthers, IInv
<1>2. TypeOK'
  BY <1>1, TablesAreKept DEF ArriveStats, ReadOthers, Begin, Goto, TypeOK, RequestTypeOK,
                             Labels, Answers
<1>3. Kept /\ OnlyOf(w)
  BY <1>1 DEF ArriveStats, ReadOthers, Begin, Goto, TypeOK, RequestTypeOK, Kept, OnlyOf, certVars
<1>4. HandlerOK(w)' /\ ~Counted(w)'
  BY <1>1 DEF ArriveStats, ReadOthers, Begin, Goto, TypeOK, RequestTypeOK, HandlerOK, Counted
<1> QED
  BY <1>1, <1>2, <1>3, <1>4, TablesAreKept, StepOKPreserves DEF StepOK

LEMMA CountTotalStep ==
  ASSUME IInv, NEW w \in Workers, CountTotal(w), UNCHANGED <<certVars, training, today>>
  PROVE  IInv'
<1> USE ConstantsAssumption
<1> DEFINE m == Month(today)
           n == Cardinality(InMonth(m))
<1>1. /\ TypeOK /\ SeenOK(w) /\ Goto(w, "countDone") /\ pc[w] = "countTotal"
      /\ seen' = [seen EXCEPT ![w].month = m, ![w].total = n]
  BY DEF CountTotal, IInv
<1>2. m \in Nat /\ n \in Nat
  BY <1>1, MonthType, InMonthIsFinite DEF TypeOK
<1> HIDE DEF m, n
<1>3. TypeOK'
  BY <1>1, <1>2, TablesAreKept DEF Goto, TypeOK, RequestTypeOK, Labels
<1>4. Kept /\ OnlyOf(w)
  BY <1>1 DEF Goto, TypeOK, RequestTypeOK, Kept, OnlyOf, certVars
<1>5. HandlerOK(w)' /\ ~Counted(w)'
  BY <1>1 DEF Goto, TypeOK, RequestTypeOK, HandlerOK, Counted
<1>6. SeenOK(w)'
  <2>1. /\ seen'[w].day = seen[w].day /\ seen'[w].known = seen[w].known
        /\ seen'[w].certs = seen[w].certs
    BY <1>1 DEF TypeOK
  <2> QED
    BY <1>1, <1>5, <2>1 DEF SeenOK, ListedRight, Due, InWindow, certVars
<1> QED
  BY <1>3, <1>4, <1>5, <1>6, TablesAreKept, StepPreserves

LEMMA CountDoneStep ==
  ASSUME IInv, NEW w \in Workers, CountDone(w), UNCHANGED <<certVars, training, today>>
  PROVE  IInv'
<1> USE ConstantsAssumption
<1> DEFINE m == seen[w].month
           d == Cardinality(Done(m))
<1>1. /\ TypeOK /\ SeenOK(w) /\ Goto(w, "expiring") /\ pc[w] = "countDone"
      /\ seen' = [seen EXCEPT ![w].done = d]
  BY DEF CountDone, IInv
<1>2. d \in Nat /\ d <= Cardinality(InMonth(m))
  BY DoneIsInMonth
<1>3. TypeOK'
  <2> HIDE DEF d
  <2> QED
    BY <1>1, <1>2, TablesAreKept DEF Goto, TypeOK, RequestTypeOK, Labels
<1>4. Kept /\ OnlyOf(w)
  BY <1>1 DEF Goto, TypeOK, RequestTypeOK, Kept, OnlyOf, certVars
<1>5. HandlerOK(w)'
  BY <1>1 DEF Goto, TypeOK, RequestTypeOK, HandlerOK
<1>6. SeenOK(w)'
  <2>1. /\ seen'[w].day = seen[w].day /\ seen'[w].known = seen[w].known
        /\ seen'[w].certs = seen[w].certs /\ seen'[w].month = m /\ seen'[w].done = d
    BY <1>1 DEF TypeOK
  <2>2. InMonth(seen[w].month)' = InMonth(m)
    BY <2>1 DEF InMonth
  <2>3. seen'[w].done <= Cardinality(InMonth(seen[w].month)')
    BY <1>2, <2>1, <2>2
  <2> QED
    BY <1>1, <2>1, <2>3 DEF SeenOK, ListedRight, Due, InWindow, certVars
<1> QED
  BY <1>3, <1>4, <1>5, <1>6, TablesAreKept, StepPreserves

LEMMA ListExpiringStep ==
  ASSUME IInv, NEW w \in Workers, ListExpiring(w), UNCHANGED <<certVars, training, today>>
  PROVE  IInv'
<1> USE ConstantsAssumption
<1>1. /\ TypeOK /\ SeenOK(w) /\ Goto(w, "reply") /\ pc[w] = "expiring"
  BY DEF ListExpiring, IInv
<1> PICK midnight \in BOOLEAN :
      seen' = [seen EXCEPT ![w].certs = ExpiringSoon(midnight), ![w].known = Submitted,
                           ![w].day = today]
  BY DEF ListExpiring
<1>2. ExpiringSoon(midnight) \subseteq Certs /\ Submitted \subseteq Certs
  BY DEF ExpiringSoon, Submitted
<1>3. TypeOK'
  <2>1. RequestTypeOK'
    BY <1>1 DEF Goto, TypeOK, RequestTypeOK, Labels
  <2>2. seen' \in [Workers -> [month : Nat, total : Nat, done : Nat, day : 0 .. LastDay,
                              known : SUBSET Certs, certs : SUBSET Certs]]
    <3> DEFINE E == ExpiringSoon(midnight)
               K == Submitted
    <3>1. E \in SUBSET Certs /\ K \in SUBSET Certs
      BY <1>2
    <3> HIDE DEF E, K
    <3> QED
      BY <1>1, <3>1 DEF TypeOK, E, K
  <2> QED
    BY <1>1, <2>1, <2>2, TablesAreKept DEF TypeOK
<1>4. Kept /\ OnlyOf(w)
  BY <1>1 DEF Goto, TypeOK, RequestTypeOK, Kept, OnlyOf, certVars
<1>5. HandlerOK(w)'
  BY <1>1 DEF Goto, TypeOK, RequestTypeOK, HandlerOK
<1>6. SeenOK(w)'
  <2>1. /\ seen'[w].day = today /\ seen'[w].known = Submitted
        /\ seen'[w].certs = ExpiringSoon(midnight)
        /\ seen'[w].month = seen[w].month /\ seen'[w].done = seen[w].done
    BY <1>1 DEF TypeOK
  <2>2. InMonth(seen[w].month)' = InMonth(seen[w].month)
    BY <2>1 DEF InMonth
  <2>3. seen'[w].done <= Cardinality(InMonth(seen[w].month)')
    BY <1>1, <2>1, <2>2 DEF SeenOK, Counted
  <2>4. ASSUME NEW c \in Submitted PROVE ListedRight(c, today, ExpiringSoon(midnight))
    <3>1. /\ today \in 0 .. LastDay /\ LastDay \in Nat /\ MonthLength \in Nat
          /\ c \in Certs /\ cert[c] # NoRow /\ cert \in [Certs -> CertRow \cup {NoRow}]
      BY <1>1 DEF Submitted, TypeOK, CertTypeOK
    <3>2. today \in Nat /\ cert[c].until \in Nat \cup {NoDate}
      BY <3>1 DEF CertRow
    <3>3. c \in ExpiringSoon(midnight)
            <=> /\ cert[c].until # NoDate
                /\ today < cert[c].until \/ (midnight /\ today = cert[c].until)
                /\ cert[c].until <= today + MonthLength
      BY DEF ExpiringSoon, NotRunOut
    <3>4. Due(c, today) => c \in ExpiringSoon(midnight)
      BY <3>3 DEF Due
    <3>5. c \in ExpiringSoon(midnight) => InWindow(c, today)
      BY <3>1, <3>2, <3>3 DEF InWindow
    <3> QED
      BY <3>1, <3>4, <3>5 DEF ListedRight
  <2>5. seen'[w].day <= today'
    BY <1>1, <2>1 DEF TypeOK
  <2>6. \A c \in seen'[w].known : ListedRight(c, seen[w].day, seen[w].certs)'
    BY <2>1, <2>4 DEF ListedRight, Due, InWindow, certVars
  <2> QED
    BY <2>3, <2>5, <2>6 DEF SeenOK
<1> QED
  BY <1>3, <1>4, <1>5, <1>6, TablesAreKept, StepPreserves

LEMMA NothingType ==
  Nothing \in [month : Nat, total : Nat, done : Nat, day : 0 .. LastDay,
               known : SUBSET Certs, certs : SUBSET Certs]
BY ConstantsAssumption DEF Nothing

\* An answer or a refusal clears what was read.
LEMMA EndStep ==
  ASSUME IInv, NEW w \in Workers, End(w), UNCHANGED <<certVars, training, today>>
  PROVE  IInv'
<1> USE ConstantsAssumption
<1>1. TypeOK /\ seen' = [seen EXCEPT ![w] = Nothing]
  BY DEF End, IInv
<1>2. Ended(w)
  <2>1. CASE Refuse(w)
    BY <1>1, <2>1 DEF Refuse, TypeOK, RequestTypeOK, Answers, Ended, HandlerOK, Counted
  <2>2. CASE DBError(w) \/ Reply(w)
    BY <1>1, <2>2, AnswerEnds DEF DBError, Reply, TypeOK, Answers
  <2> QED
    BY <2>1, <2>2 DEF End
<1>3. TypeOK'
  BY <1>1, <1>2, TablesAreKept, NothingType DEF TypeOK, Ended
<1>4. Kept /\ OnlyOf(w)
  BY <1>1, <1>2 DEF TypeOK, Ended, Kept, OnlyOf, certVars
<1>5. SeenOK(w)'
  <2>1. seen'[w].day = 0 /\ seen'[w].known = {} /\ ~Counted(w)'
    BY <1>1, <1>2 DEF TypeOK, Nothing, Ended
  <2> QED
    BY <1>1, <2>1 DEF SeenOK, TypeOK
<1> QED
  BY <1>2, <1>3, <1>4, <1>5, TablesAreKept, StepPreserves DEF Ended

LEMMA StatsStep ==
  ASSUME IInv, NEW w \in Workers, ArriveStats(w) \/ Stats(w) \/ End(w),
         UNCHANGED <<certVars, training, today>>
  PROVE  IInv'
BY StatsStart, CountTotalStep, CountDoneStep, ListExpiringStep, EndStep DEF Stats

----------------------------------------------------------------------------
\* The process and the clock.

LEMMA CrashAllStep ==
  ASSUME IInv, CrashAll PROVE IInv'
<1> USE ConstantsAssumption
<1>1. TypeOK /\ Crash /\ seen' = [w \in Workers |-> Nothing]
      /\ UNCHANGED <<certVars, training, today>>
  BY DEF CrashAll, IInv
<1>2. TypeOK'
  <2>1. RequestTypeOK'
    BY <1>1 DEF Crash, TypeOK, RequestTypeOK, Labels, Answers
  <2> QED
    BY <1>1, <2>1, TablesAreKept, NothingType DEF TypeOK
<1>3. ASSUME NEW v \in Workers PROVE HandlerOK(v)' /\ SeenOK(v)'
  <2>1. pc'[v] = "idle" /\ seen'[v].day = 0 /\ seen'[v].known = {}
    BY <1>1 DEF Crash, Nothing
  <2> QED
    BY <1>1, <2>1 DEF HandlerOK, SeenOK, Counted, TypeOK
<1> QED
  BY <1>1, <1>2, <1>3, TablesAreKept DEF IInv

LEMMA NextDayStep ==
  ASSUME IInv, NextDay PROVE IInv'
<1> USE ConstantsAssumption
<1>1. TypeOK /\ today \in 0 .. LastDay /\ today < LastDay /\ today' = today + 1
      /\ UNCHANGED <<requestVars, certVars, training, seen>>
  BY DEF NextDay, IInv, TypeOK
<1>2. TypeOK'
  <2>1. today' \in 0 .. LastDay
    BY <1>1
  <2> QED
    BY <1>1, <2>1, TablesAreKept DEF TypeOK, RequestTypeOK, requestVars
<1>3. Kept
  BY <1>1 DEF TypeOK, Kept, certVars
<1>4. ASSUME NEW v \in Workers PROVE HandlerOK(v)' /\ SeenOK(v)'
  <2>1. HandlerOK(v) /\ SeenOK(v) /\ seen'[v] = seen[v] /\ pc' = pc /\ req' = req
        /\ copy' = copy /\ (Counted(v)' => Counted(v))
    BY <1>1 DEF IInv, requestVars, Counted
  <2> QED
    BY <1>1, <1>2, <1>3, <2>1, HandlerIsStable, SeenIsStable
<1> QED
  BY <1>1, <1>2, <1>4, TablesAreKept DEF IInv

LEMMA StutterStep ==
  ASSUME IInv, UNCHANGED vars PROVE IInv'
BY DEF vars, requestVars, certVars, IInv, TypeOK, RequestTypeOK, CertTypeOK, TrainingTypeOK,
       HandlerOK, SeenOK, Counted, InMonth, ListedRight, Due, InWindow, DecisionIsEarned

LEMMA InitOK == Init => IInv
<1> USE ConstantsAssumption
<1> SUFFICES ASSUME Init PROVE IInv
  OBVIOUS
<1>1. TypeOK
  <2>1. RequestTypeOK
    BY DEF Init, RequestsInit, RequestTypeOK, Labels, Answers
  <2>2. CertTypeOK /\ TrainingTypeOK
    BY DEF Init, CertInit, TrainingInit, CertTypeOK, TrainingTypeOK, CertRow, Decisions
  <2>3. today \in 0 .. LastDay
    BY DEF Init
  <2> QED
    BY <2>1, <2>2, <2>3, NothingType DEF Init, TypeOK
<1>2. ASSUME NEW w \in Workers PROVE HandlerOK(w) /\ SeenOK(w)
  BY DEF Init, RequestsInit, HandlerOK, SeenOK, Counted, Nothing
<1>3. DecisionIsEarned
  BY DEF Init, CertInit, DecisionIsEarned
<1> QED
  BY <1>1, <1>2, <1>3 DEF IInv

LEMMA NextOK == IInv /\ [Next]_vars => IInv'
<1> SUFFICES ASSUME IInv, [Next]_vars PROVE IInv'
  OBVIOUS
<1>1. CASE UNCHANGED vars
  BY <1>1, StutterStep
<1>2. CASE CrashAll \/ NextDay
  BY <1>2, CrashAllStep, NextDayStep
<1>3. ASSUME NEW w \in Workers,
             (ArriveCert(w) \/ HandleCert(w)) /\ UNCHANGED <<training, today, seen>>
      PROVE  IInv'
  BY <1>3, CertStep
<1>4. ASSUME NEW w \in Workers,
             (ArriveTraining(w) \/ HandleTraining(w)) /\ UNCHANGED <<certVars, today, seen>>
      PROVE  IInv'
  BY <1>4, TrainingStep
<1>5. ASSUME NEW w \in Workers,
             (ArriveStats(w) \/ Stats(w) \/ End(w)) /\ UNCHANGED <<certVars, training, today>>
      PROVE  IInv'
  BY <1>5, StatsStep
<1> QED
  BY <1>1, <1>2, <1>3, <1>4, <1>5 DEF Next

LEMMA Invariance == Spec => []IInv
BY InitOK, NextOK, PTL DEF Spec

\* The tables and the requests keep their types, for any number of each.
THEOREM TypeCorrect == Spec => []TypeOK
<1>1. IInv => TypeOK
  BY DEF IInv
<1> QED
  BY <1>1, Invariance, PTL

\* No certificate counts as approved or rejected without a review that decided
\* so, however many reviewers save copies of the row.
THEOREM DecisionEarned == Spec => []DecisionIsEarned
<1>1. IInv => DecisionIsEarned
  BY DEF IInv
<1> QED
  BY <1>1, Invariance, PTL

\* The trainings counted as done are trainings of the month that was counted,
\* for any length of the month and however the two counts and the commits of
\* other requests interleave.
THEOREM RateBounded == Spec => []RateExcessIsRaced
<1>1. IInv => RateExcessIsRaced
  BY DEF IInv, SeenOK, RateExcessIsRaced
<1> QED
  BY <1>1, Invariance, PTL

\* A dashboard lists every certificate whose last day comes after the day of
\* the read and within a month, and none whose last day is past or later.
THEOREM WarnedUntilLastDay == Spec => []WarnsUntilLastDay
<1>1. IInv => WarnsUntilLastDay
  BY DEF IInv, SeenOK, ListedRight, Due, InWindow, WarnsUntilLastDay
<1> QED
  BY <1>1, Invariance, PTL

----------------------------------------------------------------------------
\* What a step may never do.

\* The label after each step of a handler but the check of a review.
LEMMA NotBeforeSave ==
  ASSUME RequestTypeOK, NEW w \in Workers,
         \/ Committed(w)
         \/ \E status \in Answers : Answer(w, status)
         \/ \E l \in Labels \ {"saveCert"} : Goto(w, l)
         \/ \E l \in Labels \ {"saveCert"}, r \in CertRow \cup TrainingRow : Keep(w, r, l)
         \/ \E l \in Labels \ {"saveCert"} : \E q : Begin(w, q, l)
         \/ Refuse(w)
  PROVE  /\ pc'[w] # "saveCert"
         /\ \A v \in Workers \ {w} : pc'[v] = pc[v] /\ req'[v] = req[v]
BY DEF RequestTypeOK, Committed, Answer, Goto, Keep, Begin, Refuse

LEMMA SettledStep ==
  ASSUME IInv, [Next]_vars, NEW c \in Certs, Decided(c)
  PROVE  Decided(c)' /\ cert'[c] = cert[c]
<1> USE ConstantsAssumption
<1>0. /\ TypeOK /\ RequestTypeOK /\ cert[c] # NoRow /\ cert[c].status # "pending"
      /\ ~Reviewing(c)
  BY DEF IInv, TypeOK, Decided
<1> SUFFICES cert'[c] = cert[c] /\ ~Reviewing(c)'
  BY <1>0 DEF Decided
<1>1. ASSUME NEW w \in Workers, pc'[w] # "saveCert",
             \A v \in Workers \ {w} : pc'[v] = pc[v] /\ req'[v] = req[v]
      PROVE  ~Reviewing(c)'
  BY <1>0, <1>1 DEF Reviewing
<1>2. ASSUME NEW w \in Workers, InsertCert(w) PROVE cert'[c] = cert[c] /\ ~Reviewing(c)'
  <2>1. cert'[c] = cert[c]
    BY <1>0, <1>2 DEF InsertCert, TypeOK, CertTypeOK
  <2> QED
    BY <1>0, <1>1, <1>2, <2>1, NotBeforeSave DEF InsertCert
<1>3. ASSUME NEW w \in Workers, SaveCert(w) PROVE cert'[c] = cert[c] /\ ~Reviewing(c)'
  <2>1. req[w].id # c
    BY <1>0, <1>3 DEF SaveCert, Reviewing
  <2>2. cert'[c] = cert[c]
    BY <1>0, <1>3, <2>1 DEF SaveCert, TypeOK, CertTypeOK
  <2> QED
    BY <1>0, <1>1, <1>3, <2>2, NotBeforeSave DEF SaveCert
<1>4. ASSUME NEW w \in Workers, FindCert(w) PROVE cert'[c] = cert[c] /\ ~Reviewing(c)'
  <2>1. cert'[c] = cert[c]
    BY <1>4 DEF FindCert, certVars
  <2>2. CASE Answer(w, 409)
    BY <1>0, <1>1, <2>1, <2>2, NotBeforeSave DEF Answers
  <2>3. CASE ~Answer(w, 409)
    <3>1. /\ req[w].id # c
          /\ \A v \in Workers \ {w} : pc'[v] = pc[v] /\ req'[v] = req[v]
          /\ req'[w] = req[w]
      BY <1>0, <1>4, <2>3 DEF FindCert, MayReview, Keep, RequestTypeOK
    <3> QED
      BY <1>0, <2>1, <3>1 DEF Reviewing
  <2> QED
    BY <2>2, <2>3
<1>5. ASSUME NEW w \in Workers, ArriveCert(w) \/ FindUser(w)
      PROVE  cert'[c] = cert[c] /\ ~Reviewing(c)'
  <2>1. cert'[c] = cert[c]
    BY <1>5 DEF ArriveCert, FindUser, certVars
  <2>2. (\E l \in Labels \ {"saveCert"} : \E q : Begin(w, q, l))
        \/ (\E l \in Labels \ {"saveCert"} : Goto(w, l))
    BY <1>5 DEF ArriveCert, FindUser, Labels
  <2> QED
    BY <1>0, <1>1, <2>1, <2>2, NotBeforeSave
<1>6. ASSUME NEW w \in Workers, ArriveTraining(w) \/ HandleTraining(w), UNCHANGED certVars
      PROVE  cert'[c] = cert[c] /\ ~Reviewing(c)'
  <2>1. cert'[c] = cert[c]
    BY <1>6 DEF certVars
  <2>2. CASE ArriveTraining(w)
    <3>1. \E l \in Labels \ {"saveCert"} : \E q : Begin(w, q, l)
      BY <2>2 DEF ArriveTraining, Labels
    <3> QED
      BY <1>0, <1>1, <2>1, <3>1, NotBeforeSave
  <2>3. CASE HandleTraining(w)
    <3>1. CASE InsertTraining(w) \/ SaveTraining(w)
      BY <1>0, <1>1, <2>1, <3>1, NotBeforeSave DEF InsertTraining, SaveTraining
    <3>2. CASE FindTraining(w)
      <4>1. /\ pc'[w] # "saveCert"
            /\ \A v \in Workers \ {w} : pc'[v] = pc[v] /\ req'[v] = req[v]
        BY <1>0, <3>2 DEF FindTraining, Keep, RequestTypeOK
      <4> QED
        BY <1>1, <2>1, <4>1
    <3> QED
      BY <2>3, <3>1, <3>2 DEF HandleTraining
  <2> QED
    BY <1>6, <2>2, <2>3
<1>7. ASSUME NEW w \in Workers, ArriveStats(w) \/ Stats(w) \/ End(w), UNCHANGED certVars
      PROVE  cert'[c] = cert[c] /\ ~Reviewing(c)'
  <2>1. cert'[c] = cert[c]
    BY <1>7 DEF certVars
  <2>2. CASE ArriveStats(w)
    <3>1. \E l \in Labels \ {"saveCert"} : \E q : Begin(w, q, l)
      BY <2>2 DEF ArriveStats, Labels
    <3> QED
      BY <1>0, <1>1, <2>1, <3>1, NotBeforeSave
  <2>3. CASE Stats(w)
    <3>1. \E l \in Labels \ {"saveCert"} : Goto(w, l)
      BY <2>3 DEF Stats, ReadOthers, CountTotal, CountDone, ListExpiring, Labels
    <3> QED
      BY <1>0, <1>1, <2>1, <3>1, NotBeforeSave
  <2>4. CASE End(w)
    <3>1. Refuse(w) \/ \E status \in Answers : Answer(w, status)
      BY <2>4 DEF End, DBError, Reply, Answers
    <3> QED
      BY <1>0, <1>1, <2>1, <3>1, NotBeforeSave
  <2> QED
    BY <1>7, <2>2, <2>3, <2>4
<1>8. CASE CrashAll
  BY <1>8 DEF CrashAll, Crash, certVars, Reviewing
<1>9. CASE NextDay \/ UNCHANGED vars
  BY <1>0, <1>9 DEF NextDay, vars, certVars, requestVars, Reviewing
<1> QED
  BY <1>2, <1>3, <1>4, <1>5, <1>6, <1>7, <1>8, <1>9 DEF Next, HandleCert

\* A decision stands for good once no reviewer holds the certificate as it was
\* while pending.
THEOREM DecisionsSettle == Spec => DecisionSettles
<1>1. IInv /\ [Next]_vars =>
        [\A c \in Certs : Decided(c) => Decided(c)' /\ cert'[c] = cert[c]]_<<certVars, requestVars>>
  BY SettledStep
<1> QED
  BY <1>1, Invariance, PTL DEF Spec, DecisionSettles

KeptOrGiven(t) ==
  training[t] # NoRow /\ Fresh(t) /\ training'[t].who # training[t].who
    => \E w \in Workers : /\ pc[w] = "saveTraining" /\ req[w].id = t
                          /\ training'[t].who = req[w].who

LEMMA AttendanceStep ==
  ASSUME IInv, [Next]_vars, NEW t \in Trainings
  PROVE  KeptOrGiven(t)
<1>1. CASE UNCHANGED training
  BY <1>1 DEF KeptOrGiven
<1>2. ASSUME NEW w \in Workers, InsertTraining(w) PROVE KeptOrGiven(t)
  BY <1>2 DEF InsertTraining, KeptOrGiven, IInv, TypeOK, TrainingTypeOK
<1>3. ASSUME NEW w \in Workers, SaveTraining(w) PROVE KeptOrGiven(t)
  <2>1. CASE req[w].id # t
    BY <1>3, <2>1 DEF SaveTraining, KeptOrGiven, IInv, TypeOK, TrainingTypeOK
  <2>2. CASE req[w].id = t
    <3>1. /\ pc[w] = "saveTraining" /\ copy[w] \in TrainingRow
          /\ training'[t] = Recorded(req[w], copy[w])
      BY <1>3, <2>2 DEF SaveTraining, IInv, HandlerOK, TypeOK, TrainingTypeOK
    <3>2. training'[t].who = IF req[w].who = NoList THEN copy[w].who ELSE req[w].who
      BY <3>1 DEF Recorded, TrainingRow
    <3> QED
      BY <2>2, <3>1, <3>2 DEF KeptOrGiven, Fresh
  <2> QED
    BY <2>1, <2>2
<1> QED
  BY <1>1, <1>2, <1>3 DEF Next, HandleTraining, ArriveTraining, FindTraining, CrashAll,
                          NextDay, vars

\* A record that gives no participants leaves the list of a training alone.
THEOREM AttendanceKept == Spec => AttendanceIsKept
<1>1. IInv /\ [Next]_vars =>
        [\A t \in Trainings : KeptOrGiven(t)]_<<training, requestVars>>
  BY AttendanceStep
<1>2. [\A t \in Trainings : KeptOrGiven(t)]_<<training, requestVars>> =>
      [\A t \in Trainings :
         training[t] # NoRow /\ Fresh(t) /\ training'[t].who # training[t].who
           => \E w \in Workers : /\ pc[w] = "saveTraining" /\ req[w].id = t
                                 /\ training'[t].who = req[w].who]_<<training, requestVars>>
  BY DEF KeptOrGiven
<1> QED
  BY <1>1, <1>2, Invariance, PTL DEF Spec, AttendanceIsKept

=============================================================================
