----------------------------- MODULE Dashboard -----------------------------
(***************************************************************************)
(* The dashboard over the tables of trainings and certificates, while the  *)
(* handlers of both services write them.  Stats joins reads of different   *)
(* moments: the trainings of the month are counted, then those of them     *)
(* that have a result, then the certificates that expire within a month    *)
(* are listed.  The reads of the incident and inspection tables come       *)
(* before these and can only fail.                                         *)
(***************************************************************************)
EXTENDS CertificationService, TrainingService, FiniteSets

CONSTANTS MonthLength, LastDay   \* LastDay bounds the clock

VARIABLES today,
          seen   \* what a worker's Stats has read so far

vars == <<requestVars, certVars, training, today, seen>>

ASSUME ConstantsAssumption ==
  /\ MonthLength \in Nat \ {0}
  /\ LastDay \in Nat
  /\ Days \subseteq Nat /\ Dates \subseteq Nat
  /\ NoDate \notin Nat
  /\ Rates \subseteq Nat /\ 0 \in Rates
  /\ EmptyList \in Lists /\ NoList \notin Lists
  /\ IsFiniteSet(Trainings)
  /\ NoRow \notin CertRow \cup TrainingRow

Nothing == [month |-> 0, total |-> 0, done |-> 0, day |-> 0, known |-> {},
            certs |-> {}]

Month(day) == day \div MonthLength

InMonth(m) == {t \in Trainings : training[t] # NoRow /\ Month(training[t].date) = m}

Done(m) == {t \in InMonth(m) : training[t].rate > 0}

Submitted == {c \in Certs : cert[c] # NoRow}

\* valid_until is a DATE, the start of its day, compared with the instant of
\* the read: on its last day a certificate still counts only if that instant is
\* midnight itself, and the last day a month away counts at any time of day.
NotRunOut(c, midnight) == today < cert[c].until \/ (midnight /\ today = cert[c].until)

\* A mutant: a status filter, so that what is not reviewed yet is left out.
ExpiringApproved(midnight) ==
  {c \in Submitted : /\ cert[c].status = "approved"
                     /\ cert[c].until # NoDate
                     /\ NotRunOut(c, midnight)
                     /\ cert[c].until <= today + MonthLength}

\* valid_until between now and a month from now, whatever the status.
ExpiringSoon(midnight) ==
  {c \in Submitted : /\ cert[c].until # NoDate
                     /\ NotRunOut(c, midnight)
                     /\ cert[c].until <= today + MonthLength}

Init ==
  /\ RequestsInit /\ CertInit /\ TrainingInit
  /\ today = 0
  /\ seen = [w \in Workers |-> Nothing]

ArriveStats(w) ==
  /\ Begin(w, [op |-> "stats"], "others")
  /\ UNCHANGED seen

ReadOthers(w) ==
  /\ pc[w] = "others"
  /\ Goto(w, "countTotal")
  /\ UNCHANGED seen

\* The bounds of the month are those of the first count.  The code reads the
\* clock for the year and again for the month; the model reads it once.
CountTotal(w) ==
  /\ pc[w] = "countTotal"
  /\ seen' = [seen EXCEPT ![w].month = Month(today),
                          ![w].total = Cardinality(InMonth(Month(today)))]
  /\ Goto(w, "countDone")

\* A mutant: the second count takes the bounds of the month afresh.
CountDoneAfresh(w) ==
  /\ pc[w] = "countDone"
  /\ seen' = [seen EXCEPT ![w].done = Cardinality(Done(Month(today)))]
  /\ Goto(w, "expiring")

CountDone(w) ==
  /\ pc[w] = "countDone"
  /\ seen' = [seen EXCEPT ![w].done = Cardinality(Done(seen[w].month))]
  /\ Goto(w, "expiring")

\* known is history: the certificates there were to list.
ListExpiring(w) ==
  /\ pc[w] = "expiring"
  /\ \E midnight \in BOOLEAN :
       seen' = [seen EXCEPT ![w].certs = ExpiringSoon(midnight), ![w].known = Submitted,
                            ![w].day = today]
  /\ Goto(w, "reply")

Stats(w) == ReadOthers(w) \/ CountTotal(w) \/ CountDone(w) \/ ListExpiring(w)

\* A request ends, by its answer or with the process.
End(w) ==
  /\ Refuse(w) \/ DBError(w) \/ Reply(w)
  /\ seen' = [seen EXCEPT ![w] = Nothing]

CrashAll ==
  /\ Crash
  /\ seen' = [w \in Workers |-> Nothing]
  /\ UNCHANGED <<certVars, training, today>>

NextDay ==
  /\ today < LastDay
  /\ today' = today + 1
  /\ UNCHANGED <<requestVars, certVars, training, seen>>

Next ==
  \/ \E w \in Workers :
       \/ (ArriveCert(w) \/ HandleCert(w)) /\ UNCHANGED <<training, today, seen>>
       \/ (ArriveTraining(w) \/ HandleTraining(w)) /\ UNCHANGED <<certVars, today, seen>>
       \/ (ArriveStats(w) \/ Stats(w) \/ End(w)) /\ UNCHANGED <<certVars, training, today>>
  \/ CrashAll
  \/ NextDay

Spec == Init /\ [][Next]_vars

----------------------------------------------------------------------------

Labels == {"idle", "user", "insertCert", "findCert", "saveCert",
           "insertTraining", "findTraining", "saveTraining", "others",
           "countTotal", "countDone", "expiring", "reply"}

RequestTypeOK ==
  /\ pc \in [Workers -> Labels]
  /\ req \in [Workers -> {NoRequest, [op |-> "stats"]} \cup CertRequest \cup TrainingRequest]
  /\ copy \in [Workers -> CertRow \cup TrainingRow \cup {NoRow}]
  /\ answer \in [Workers -> Answers]

TypeOK ==
  /\ RequestTypeOK /\ CertTypeOK /\ TrainingTypeOK
  /\ today \in 0 .. LastDay
  /\ seen \in [Workers -> [month : Nat, total : Nat, done : Nat, day : 0 .. LastDay,
                           known : SUBSET Certs, certs : SUBSET Certs]]

Counted(w) == pc[w] = "expiring" \/ (pc[w] = "reply" /\ req[w].op = "stats")

\* The trainings with a result are those of the month the total was counted
\* for, so that they exceed the total at most by the trainings that were created
\* in that month since: with none created the rate is at most 100%, whatever is
\* recorded between the two counts of CompletedRate and although the month may
\* end there.  A training created and recorded in between does give more than
\* 100%: nothing in the code prevents that.
RateExcessIsRaced ==
  \A w \in Workers :
    Counted(w) => seen[w].done <= Cardinality(InMonth(seen[w].month))

\* The dashboard warns of every certificate until the day before its last one:
\* each one there was, whatever its status and however reviews rewrite the row
\* meanwhile, is listed when its last day comes after the day of the read and
\* within a month, and what is listed has not run out and does so within a
\* month.  On its last day itself a certificate is not listed any more, unless
\* the read happens at midnight.
WarnsUntilLastDay ==
  \A w \in Workers : pc[w] = "reply" =>
    \A c \in seen[w].known :
      LET until == cert[c].until
          day   == seen[w].day
      IN  /\ until # NoDate /\ day < until /\ until <= day + MonthLength
               => c \in seen[w].certs
          /\ c \in seen[w].certs
               => until # NoDate /\ day <= until /\ until <= day + MonthLength
=============================================================================
