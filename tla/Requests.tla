------------------------------ MODULE Requests ------------------------------
(***************************************************************************)
(* What the handlers of the certification, training and dashboard routes   *)
(* have in common: a request is a goroutine that runs one autocommitted    *)
(* statement after the other and keeps nothing once it has answered.       *)
(***************************************************************************)
CONSTANTS Workers,  \* requests the server handles at the same time
          NoRow

VARIABLES pc,       \* the statement each worker's handler runs next
          req,      \* the decoded request it handles
          copy,     \* the struct it has read and not saved
          answer    \* HTTP status of the worker's last request

requestVars == <<pc, req, copy, answer>>

NoRequest == [op |-> "none"]

Answers == {0, 200, 400, 401, 403, 409, 500}   \* 0: no answer

RequestsInit ==
  /\ pc = [w \in Workers |-> "idle"]
  /\ req = [w \in Workers |-> NoRequest]
  /\ copy = [w \in Workers |-> NoRow]
  /\ answer = [w \in Workers |-> 0]

\* AuthRequired, RequireRole or the binding refuses a request.
Refuse(w) ==
  /\ pc[w] = "idle"
  /\ \E status \in {400, 401, 403} : answer' = [answer EXCEPT ![w] = status]
  /\ UNCHANGED <<pc, req, copy>>

\* A well-formed request of a role that may make it reaches its handler.
Begin(w, q, label) ==
  /\ pc[w] = "idle"
  /\ pc' = [pc EXCEPT ![w] = label]
  /\ req' = [req EXCEPT ![w] = q]
  /\ answer' = [answer EXCEPT ![w] = 0]
  /\ UNCHANGED copy

Goto(w, label) ==
  /\ pc' = [pc EXCEPT ![w] = label]
  /\ UNCHANGED <<req, copy, answer>>

\* FindByID and the check of what it returned: on with the copy.
Keep(w, r, label) ==
  /\ pc' = [pc EXCEPT ![w] = label]
  /\ copy' = [copy EXCEPT ![w] = r]
  /\ UNCHANGED <<req, answer>>

\* The handler answers and its goroutine ends.
Answer(w, status) ==
  /\ pc' = [pc EXCEPT ![w] = "idle"]
  /\ req' = [req EXCEPT ![w] = NoRequest]
  /\ copy' = [copy EXCEPT ![w] = NoRow]
  /\ answer' = [answer EXCEPT ![w] = status]

\* A statement took effect; its acknowledgement may be lost.
Committed(w) ==
  \/ /\ pc' = [pc EXCEPT ![w] = "reply"]
     /\ req' = [req EXCEPT ![w] = NoRequest]
     /\ copy' = [copy EXCEPT ![w] = NoRow]
     /\ UNCHANGED answer
  \/ Answer(w, 500)

\* A statement fails without effect, as one does whose row is missing: the
\* handlers answer ErrNotFound like any other error of the repository.
DBError(w) ==
  /\ pc[w] \notin {"idle", "reply"}
  /\ Answer(w, 500)

Reply(w) ==
  /\ pc[w] = "reply"
  /\ Answer(w, 200)

\* The process dies with all requests in flight.
Crash ==
  /\ \E w \in Workers : pc[w] # "idle"
  /\ pc' = [w \in Workers |-> "idle"]
  /\ req' = [w \in Workers |-> NoRequest]
  /\ copy' = [w \in Workers |-> NoRow]
  /\ answer' = [w \in Workers |-> IF pc[w] = "idle" THEN answer[w] ELSE 0]
=============================================================================
