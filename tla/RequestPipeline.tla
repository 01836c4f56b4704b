-------------------------- MODULE RequestPipeline --------------------------
(***************************************************************************)
(* A writing request on its way through the router: limiter or token and   *)
(* role checks, handler, audit entry, answer.  What a handler does to the  *)
(* tables is one step here (the service modules have its statements); the  *)
(* upload of an image is modelled statement by statement.                  *)
(***************************************************************************)
EXTENDS Naturals, Sequences

CONSTANTS Requests,   \* the writing requests that ever arrive
          Users,      \* ids a token may carry
          NoUser,     \* the operator of a request without a token
          Names,      \* names of files in the upload directory
          NoName,
          Nothing     \* a block that was not written

VARIABLES pc,         \* where each request stands
          operator,   \* the user id in its context
          status,     \* the status its handlers have set, 0: none yet
          answer,     \* what its client was told, 0: nothing
          entries,    \* table audit_logs, oldest first
          name,       \* the file an upload has opened
          file,       \* the upload directory: the two blocks of each file
          effects,    \* history: the requests that did what they ask for
          missed,     \* history: those whose audit entry was not inserted
          opened      \* history: the requests that created or truncated a file

uploadVars == <<name, file, opened>>
logVars == <<entries, missed>>
vars == <<pc, operator, status, answer, effects, logVars, uploadVars>>

\* An entry names its operator; the request it stands for is history.
Entry == [of : Requests, operator : Users \cup {NoUser}]

Trail == INSTANCE AuditTrail
           WITH Writes <- Requests,
                trail <- [k \in DOMAIN entries |-> entries[k].of]

ASSUME ConstantsAssumption ==
  /\ NoUser \notin Users
  /\ NoName \notin Names
  /\ Nothing \notin Requests

Roles == {"admin", "safety_manager", "inspector", "worker"}

\* The kinds of writing routes: login and register are open but limited, the
\* others want a token, some of them one of certain roles.
Routes == {"auth", "report", "inspect", "manage", "upload"}

RolesFor(route) ==
  CASE route = "manage"  -> {"admin", "safety_manager"}
    [] route = "inspect" -> {"admin", "safety_manager", "inspector"}
    [] OTHER             -> Roles

\* The codes the services put into an AppError ...
Codes == {"BadRequest", "Unauthorized", "NotFound", "Conflict", "UserExists",
          "InvalidCredentials", "IncidentStatusConflict", "ValidationFailed"}

\* A mutant: the error code is taken for the status.
AppErrorStatusAsCode(code) == 40000

\* ... and the statuses the handlers make of them.
AppErrorStatus(code) ==
  CASE code \in {"Unauthorized", "InvalidCredentials"}   -> 401
    [] code = "NotFound"                                 -> 404
    [] code \in {"Conflict", "IncidentStatusConflict"}   -> 409
    [] code = "ValidationFailed"                         -> 422
    [] OTHER                                             -> 400

\* Any other error, one of the database say, is answered 500.
ErrorStatuses == {AppErrorStatus(code) : code \in Codes} \cup {500}

----------------------------------------------------------------------------

Init ==
  /\ pc = [q \in Requests |-> "new"]
  /\ operator = [q \in Requests |-> NoUser]
  /\ status = [q \in Requests |-> 0]
  /\ answer = [q \in Requests |-> 0]
  /\ entries = <<>>
  /\ name = [q \in Requests |-> NoName]
  /\ file = [n \in Names |-> [b \in 1 .. 2 |-> Nothing]]
  /\ effects = {}
  /\ missed = {}
  /\ opened = [n \in Names |-> {}]

\* The chain goes on behind the handler with the status it has set.
Finish(q, code) ==
  /\ pc' = [pc EXCEPT ![q] = "audit"]
  /\ status' = [status EXCEPT ![q] = code]
  /\ UNCHANGED <<operator, answer, logVars>>

Goto(q, label) ==
  /\ pc' = [pc EXCEPT ![q] = label]
  /\ UNCHANGED <<operator, status, answer, effects, logVars>>

\* The limiter, AuthRequired or RequireRole aborts the chain, or no route fits.
Refuse(q) ==
  /\ pc[q] = "new"
  /\ \E code \in {401, 403, 404, 429} : Finish(q, code)
  /\ UNCHANGED <<effects, uploadVars>>

\* A request gets through to its handler, with the user of its token if any.
Pass(q) ==
  /\ pc[q] = "new"
  /\ \E route \in Routes, user \in Users, role \in Roles :
       /\ role \in RolesFor(route)
       /\ operator' = [operator EXCEPT ![q] = IF route = "auth" THEN NoUser
                                              ELSE user]
       /\ pc' = [pc EXCEPT ![q] = IF route = "upload" THEN "upload"
                                  ELSE "handler"]
  /\ UNCHANGED <<status, answer, effects, logVars, uploadVars>>

\* A handler does its work and says so, loses the acknowledgement of the
\* database and answers 500, or fails without effect.
Handle(q) ==
  /\ pc[q] = "handler"
  /\ \/ /\ effects' = effects \cup {q}
        /\ \E code \in {200, 500} : Finish(q, code)
     \/ /\ \E code \in ErrorStatuses : Finish(q, code)
        /\ UNCHANGED effects
  /\ UNCHANGED uploadVars

\* SaveUploadedImage: no file, a wrong extension or size, a directory or a file
\* that cannot be created ...
RefuseUpload(q) ==
  /\ pc[q] = "upload"
  /\ Finish(q, 400)
  /\ UNCHANGED <<effects, uploadVars>>

\* ... or os.Create empties the file that has the time of the clock as its name.
\* The clock may give the same reading twice.
OpenFile(q) ==
  /\ pc[q] = "upload"
  /\ \E n \in Names :
       /\ name' = [name EXCEPT ![q] = n]
       /\ file' = [file EXCEPT ![n] = [b \in 1 .. 2 |-> Nothing]]
       /\ opened' = [opened EXCEPT ![n] = @ \cup {q}]
  /\ Goto(q, "copy1")

\* io.Copy block by block; the second one ends it.
WriteBlock(q, b) ==
  /\ file' = [file EXCEPT ![name[q]][b] = q]
  /\ UNCHANGED <<name, opened>>

CopyFirst(q) ==
  /\ pc[q] = "copy1"
  /\ WriteBlock(q, 1)
  /\ Goto(q, "copy2")

CopySecond(q) ==
  /\ pc[q] = "copy2"
  /\ WriteBlock(q, 2)
  /\ effects' = effects \cup {q}
  /\ Finish(q, 200)

\* A mutant: the error of io.Copy is ignored.
CopyFailsSilently(q) ==
  /\ pc[q] \in {"copy1", "copy2"}
  /\ effects' = effects \cup {q}
  /\ Finish(q, 200)
  /\ UNCHANGED uploadVars

\* The disk is full: what was written stays under its name.
CopyFails(q) ==
  /\ pc[q] \in {"copy1", "copy2"}
  /\ Finish(q, 400)
  /\ UNCHANGED <<effects, uploadVars>>

\* A mutant: refused and failed requests are recorded too.
RecordedAlways(q) == TRUE

\* A mutant: only requests of a known user are recorded.
RecordedForUsers(q) == status[q] < 400 /\ operator[q] # NoUser

\* The middleware records what was not answered with an error.
Recorded(q) == status[q] < 400

\* Behind the handler, before the answer leaves: the entry is inserted, or the
\* insert fails and is only logged.  The requests of this module are POST and
\* PUT, which the filter of methods in front lets through.
AuditLog(q) ==
  /\ pc[q] = "audit"
  /\ \/ /\ ~Recorded(q)
        /\ UNCHANGED logVars
     \/ /\ Recorded(q)
        /\ entries' = Append(entries, [of |-> q, operator |-> operator[q]])
        /\ UNCHANGED missed
     \/ /\ Recorded(q)
        /\ missed' = missed \cup {q}
        /\ UNCHANGED entries
  /\ pc' = [pc EXCEPT ![q] = "reply"]
  /\ UNCHANGED <<operator, status, answer, effects, uploadVars>>

Reply(q) ==
  /\ pc[q] = "reply"
  /\ pc' = [pc EXCEPT ![q] = "end"]
  /\ answer' = [answer EXCEPT ![q] = status[q]]
  /\ status' = [status EXCEPT ![q] = 0]
  /\ UNCHANGED <<operator, effects, logVars, uploadVars>>

\* The process dies with the requests in flight; tables and files stay.
Crash ==
  /\ \E q \in Requests : pc[q] \notin {"new", "end"}
  /\ pc' = [q \in Requests |-> IF pc[q] = "new" THEN "new" ELSE "end"]
  /\ status' = [q \in Requests |-> 0]
  /\ UNCHANGED <<operator, answer, effects, logVars, uploadVars>>

Upload(q) == RefuseUpload(q) \/ OpenFile(q) \/ CopyFirst(q) \/ CopySecond(q)
               \/ CopyFails(q)

Next == \/ \E q \in Requests : \/ Refuse(q) \/ Pass(q) \/ Handle(q)
                               \/ Upload(q) \/ AuditLog(q) \/ Reply(q)
        \/ Crash

Spec == Init /\ [][Next]_vars

----------------------------------------------------------------------------

Statuses == {0, 200, 400, 401, 403, 404, 409, 422, 429, 500}

TypeOK ==
  /\ pc \in [Requests -> {"new", "handler", "upload", "copy1", "copy2",
                          "audit", "reply", "end"}]
  /\ operator \in [Requests -> Users \cup {NoUser}]
  /\ status \in [Requests -> Statuses]
  /\ answer \in [Requests -> Statuses]
  /\ entries \in Seq(Entry)
  /\ name \in [Requests -> Names \cup {NoName}]
  /\ file \in [Names -> [1 .. 2 -> Requests \cup {Nothing}]]
  /\ effects \in SUBSET Requests
  /\ missed \in SUBSET Requests
  /\ opened \in [Names -> SUBSET Requests]

\* The audit log is a trail of what was done: refused, failed and rolled back
\* requests leave no entry, no request leaves two, none is taken back, and an
\* entry is never there before the write it names, crashes and lost
\* acknowledgements included (AuditLog runs behind the handlers).
TrailFollowsWrites == Trail!Spec

\* Who is told 200 has been recorded, under the right operator, by the time of
\* the answer, unless the insert itself failed: "写操作自动记录" (README.md:172).
AnsweredIsRecorded ==
  \A q \in Requests : answer[q] = 200 =>
    \/ q \in missed
    \/ \E k \in DOMAIN entries : entries[k] = [of |-> q, operator |-> operator[q]]

\* An address that a client was given leads to its whole image, however uploads
\* interleave and fail, unless another upload drew the same name.
UploadsComplete ==
  \A q \in Requests :
    answer[q] = 200 /\ name[q] # NoName /\ opened[name[q]] = {q}
      => \A b \in 1 .. 2 : file[name[q]][b] = q

============================================================================
