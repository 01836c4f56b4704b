--------------------------- MODULE IncidentScreen ---------------------------
(***************************************************************************)
(* The incident page of one manager in front of the incident service: the  *)
(* list opens a dialog, the dialog shows the incident that was loaded last *)
(* and offers the button of its status, a button asks the server and loads *)
(* again.  Every call is a promise of its own: answers come in any order,  *)
(* not at all, or after the fifteen seconds axios waits for them.          *)
(***************************************************************************)
EXTENDS IncidentService

CONSTANTS Slots,       \* calls the page has in flight at the same time
          NoCall,
          NoIncidentShown,
          Nobody,      \* the request a worker handles is another client's
          Remark       \* the measures the page sends

\* What the page keeps of an incident.
Found == [id : Incidents, status : Lifecycle!Statuses]

\* A call: seen is what the page showed, found what the server read, passed
\* whether a later answer has been shown before it (history).
Calls == [op : {"load", "assign", "rectify", "close"}, id : Incidents,
          seen : Lifecycle!Statuses \cup {"none"},
          stage : {"sent", "served", "answered"}, code : Answers \cup {401, 502},
          found : Found \cup {NoIncidentShown}, passed : BOOLEAN]

ASSUME ScreenAssumption ==
  /\ Remark \in Measures
  /\ Nobody \notin Slots
  /\ NoIncidentShown \notin Found
  /\ NoCall \notin Calls

VARIABLES opened,      \* detailId: the incident whose dialog is open
          shown,       \* incident: what the hook has loaded last
          loading,     \* loading of the hook
          call,        \* the promise of each slot
          serving      \* the slot each worker handles the request of

screenVars == <<opened, shown, loading, call, serving>>
allVars == <<vars, screenVars>>

\* A call that has left.
Ask(op, id, seen) ==
  [op |-> op, id |-> id, seen |-> seen, stage |-> "sent", code |-> 0,
   found |-> NoIncidentShown, passed |-> FALSE]

\* A mutant: the dialog offers to close an incident that is investigated.
ButtonAhead(status) ==
  CASE status = "reported" -> "assign"
    [] status = "closed"   -> "none"
    [] OTHER               -> "close"

\* The button the dialog has for a status.
Button(status) ==
  CASE status = "reported"      -> "assign"
    [] status = "investigating" -> "rectify"
    [] status = "resolved"      -> "close"
    [] status = "closed"        -> "none"

----------------------------------------------------------------------------

ScreenInit ==
  /\ Init
  /\ opened = NoIncident
  /\ shown = NoIncidentShown
  /\ loading = FALSE
  /\ call = [s \in Slots |-> NoCall]
  /\ serving = [w \in Workers |-> Nobody]

\* A row of the list is clicked: the effect on detailId loads the incident.
\* Until the answer comes the dialog shows the incident it showed before.
Open(s, i) ==
  /\ opened = NoIncident /\ Lifecycle!Present(i)
  /\ call[s] = NoCall
  /\ opened' = i
  /\ loading' = TRUE
  /\ call' = [call EXCEPT ![s] = Ask("load", i, "none")]
  /\ UNCHANGED <<vars, shown, serving>>

Dismiss ==
  /\ opened # NoIncident
  /\ opened' = NoIncident
  /\ UNCHANGED <<vars, shown, loading, call, serving>>

\* A mutant: the page shows the outcome before it knows it.
ClickOptimistic(s) ==
  /\ opened # NoIncident /\ shown # NoIncidentShown
  /\ call[s] = NoCall
  /\ Button(shown.status) # "none"
  /\ call' = [call EXCEPT ![s] = Ask(Button(shown.status), shown.id, shown.status)]
  /\ shown' = [shown EXCEPT !.status =
                 CASE @ = "reported" -> "investigating"
                   [] @ = "investigating" -> "resolved"
                   [] OTHER -> "closed"]
  /\ UNCHANGED <<vars, opened, loading, serving>>

\* A button of the dialog acts on the incident that is shown.  Nothing keeps it
\* from being clicked again before the answer.
Click(s) ==
  /\ opened # NoIncident /\ shown # NoIncidentShown
  /\ call[s] = NoCall
  /\ Button(shown.status) # "none"
  /\ call' = [call EXCEPT ![s] = Ask(Button(shown.status), shown.id, shown.status)]
  /\ UNCHANGED <<vars, opened, shown, loading, serving>>

\* The answer of the server to slot s.
Told(s, code, found) ==
  [call EXCEPT ![s] = [@ EXCEPT !.stage = "answered", !.code = code, !.found = found]]

Sent(s) == call[s] # NoCall /\ call[s].stage = "sent"

\* The request of a button reaches its handler, or the token has expired.
Deliver(s, w) ==
  /\ Sent(s) /\ call[s].op # "load" /\ pc[w] = "idle"
  /\ \/ /\ call' = Told(s, 401, NoIncidentShown)
        /\ UNCHANGED <<pc, req, answer, serving>>
     \/ /\ req' = [req EXCEPT ![w] = [op |-> call[s].op, id |-> call[s].id,
                     input |-> IF call[s].op = "rectify" THEN Remark ELSE NoInput]]
        /\ pc' = [pc EXCEPT ![w] = "find"]
        /\ answer' = [answer EXCEPT ![w] = 0]
        /\ call' = [call EXCEPT ![s].stage = "served"]
        /\ serving' = [serving EXCEPT ![w] = s]
  /\ UNCHANGED <<row, copy, done, opened, shown, loading>>

\* A step of a handler; with the last one its client is answered.
ServerStep(w) ==
  /\ Handle(w)
  /\ \/ /\ pc'[w] # "idle"
        /\ UNCHANGED <<call, serving>>
     \/ /\ pc'[w] = "idle"
        /\ call' = IF serving[w] = Nobody THEN call
                   ELSE Told(serving[w], answer'[w], NoIncidentShown)
        /\ serving' = [serving EXCEPT ![w] = Nobody]
  /\ UNCHANGED <<opened, shown, loading>>

\* Other clients; a call this page has given up may also arrive late.
OtherRequest(w) == Arrive(w) /\ pc'[w] # "idle" /\ UNCHANGED screenVars

\* The proxy answers for a server that died.
ServerCrash ==
  /\ Crash
  /\ call' = [s \in Slots |-> IF \E w \in Workers : serving[w] = s
                              THEN Told(s, 502, NoIncidentShown)[s] ELSE call[s]]
  /\ serving' = [w \in Workers |-> Nobody]
  /\ UNCHANGED <<opened, shown, loading>>

\* Get: one statement, at any moment until the answer.
ServeLoad(s) ==
  /\ Sent(s) /\ call[s].op = "load"
  /\ \/ call' = Told(s, 200, [id |-> call[s].id, status |-> row[call[s].id].status])
     \/ \E code \in {401, 500} : call' = Told(s, code, NoIncidentShown)
  /\ UNCHANGED <<vars, opened, shown, loading, serving>>

HasAnswer(s, load, code) ==
  /\ call[s] # NoCall /\ call[s].stage = "answered"
  /\ (call[s].op = "load") = load
  /\ call[s].code = code

\* setIncident, whatever dialog is open by now.
Show(s) ==
  /\ HasAnswer(s, TRUE, 200)
  /\ shown' = call[s].found
  /\ loading' = FALSE
  /\ call' = [r \in Slots |->
                CASE r = s            -> NoCall
                  [] HasAnswer(r, TRUE, 200) /\ r # s
                                      -> [call[r] EXCEPT !.passed = TRUE]
                  [] OTHER            -> call[r]]
  /\ UNCHANGED <<vars, opened, serving>>

\* The operation is done: load again, in the same promise.
Reload(s) ==
  /\ HasAnswer(s, FALSE, 200)
  /\ call' = [call EXCEPT ![s] = Ask("load", call[s].id, "none")]
  /\ loading' = TRUE
  /\ UNCHANGED <<vars, opened, shown, serving>>

\* The promise of slot s ends without a result.
GiveUp(s) ==
  /\ call' = [call EXCEPT ![s] = NoCall]
  /\ serving' = [w \in Workers |-> IF serving[w] = s THEN Nobody ELSE serving[w]]
  /\ UNCHANGED <<vars, opened, shown>>

\* A mutant: setLoading(false) is not in a finally block.
LoadFailsLoading(s) ==
  /\ call[s] # NoCall /\ call[s].op = "load"
  /\ call[s].stage = "sent" \/ HasAnswer(s, TRUE, 500)
  /\ GiveUp(s)
  /\ UNCHANGED loading

\* A load is answered with an error, or not in time.
LoadFails(s) ==
  /\ call[s] # NoCall /\ call[s].op = "load"
  /\ call[s].stage = "sent" \/ HasAnswer(s, TRUE, 500)
  /\ loading' = FALSE
  /\ GiveUp(s)

\* An operation is answered with an error, or not in time, in which case the
\* server goes on with it.
OpFails(s) ==
  /\ call[s] # NoCall /\ call[s].op # "load"
  /\ call[s].stage # "answered" \/ call[s].code \notin {200, 401}
  /\ UNCHANGED loading
  /\ GiveUp(s)

\* A 401 logs out and leaves the page, with every call it waits for.
Expel(s) ==
  /\ call[s] # NoCall /\ call[s].code = 401
  /\ opened' = NoIncident
  /\ shown' = NoIncidentShown
  /\ loading' = FALSE
  /\ call' = [r \in Slots |-> NoCall]
  /\ serving' = [w \in Workers |-> Nobody]
  /\ UNCHANGED vars

End(s) == Show(s) \/ Reload(s) \/ LoadFails(s) \/ OpFails(s) \/ Expel(s)

ScreenNext ==
  \/ \E s \in Slots : \/ \E i \in Incidents : Open(s, i)
                      \/ Click(s) \/ ServeLoad(s) \/ End(s)
                      \/ \E w \in Workers : Deliver(s, w)
  \/ \E w \in Workers : ServerStep(w) \/ OtherRequest(w)
  \/ Dismiss \/ ServerCrash

\* The timer of axios ends every call the server does not answer.
ScreenSpec == /\ ScreenInit /\ [][ScreenNext]_allVars
              /\ \A s \in Slots : WF_allVars(End(s))

----------------------------------------------------------------------------

\* The buttons of the page and the checks of the service are one state machine
\* ("service 状态机、前端按钮显隐", wje-132.md:226): a click is refused as a
\* conflict only if the incident has moved on since the status on the screen.
ConflictMeansMoved ==
  \A s \in Slots : call[s] # NoCall /\ call[s].code = 409 =>
    Rank(row[call[s].id].status) > Rank(call[s].seen)

\* The screen never takes an incident back to an earlier status, through lost
\* answers, timeouts and reloads, except that two answers may overtake each
\* other on the way, since load shows whatever comes last.
ShownNeverGoesBack ==
  [][\A i \in Incidents :
       (shown # NoIncidentShown /\ shown.id = i) =>
         \/ shown' = NoIncidentShown \/ shown'.id # i
         \/ Rank(shown'.status) >= Rank(shown.status)
         \/ \E s \in Slots : Show(s) /\ call[s].passed]_allVars

\* The spinner stops, also when answers are lost and calls overlap.
SpinnerStops == loading ~> ~loading

============================================================================
