----------------------- MODULE RequestPipelineProofs -----------------------
(***************************************************************************)
(* For any number of writing requests, users and file names: what is told  *)
(* done is recorded, images that are given out are whole, and the audit    *)
(* log implements AuditTrail.                                              *)
(***************************************************************************)
EXTENDS RequestPipeline, TLAPS

InFlight == {"new", "handler", "upload", "copy1", "copy2"}

\* The entry of a request is in the log.
Listed(q) == \E k \in DOMAIN entries : entries[k] = [of |-> q, operator |-> operator[q]]

\* What is known of the answer of a request while it passes the chain.
Progress(q) ==
  /\ pc[q] \in InFlight => status[q] = 0
  /\ answer[q] # 0 => pc[q] = "end"
  /\ pc[q] = "end" => status[q] = 0
  /\ pc[q] = "reply" /\ status[q] = 200 => q \in missed \/ Listed(q)
  /\ answer[q] = 200 => q \in missed \/ Listed(q)

\* A request that is not through its handler has no effect, one that is not
\* through the audit log no entry.
Ordered(q) ==
  /\ pc[q] \in InFlight => q \notin effects
  /\ pc[q] = "audit" /\ Recorded(q) => q \in effects
  /\ pc[q] \notin {"reply", "end"} => \A k \in DOMAIN entries : entries[k].of # q

\* The blocks of the file a request has opened, as long as no other opened it.
Written(q) ==
  /\ pc[q] \in {"new", "handler", "upload"} => name[q] = NoName
  /\ pc[q] \in {"copy1", "copy2"} => name[q] \in Names
  /\ name[q] # NoName => q \in opened[name[q]]
  /\ name[q] # NoName /\ opened[name[q]] = {q} =>
       /\ pc[q] = "copy2" \/ status[q] = 200 \/ answer[q] = 200
            => file[name[q]][1] = q
       /\ status[q] = 200 \/ answer[q] = 200
            => file[name[q]][2] = q

IInv ==
  /\ TypeOK
  /\ \A q \in Requests : Progress(q) /\ Ordered(q) /\ Written(q)

----------------------------------------------------------------------------

\* What the handlers answer for their errors is an error to the audit log.
LEMMA ErrorsAreErrors ==
  ErrorStatuses \subseteq {400, 401, 404, 409, 422, 500}
<1> SUFFICES ASSUME NEW code \in Codes
             PROVE  AppErrorStatus(code) \in {400, 401, 404, 409, 422}
  BY DEF ErrorStatuses
<1> QED
  BY DEF Codes, AppErrorStatus

LEMMA InitIInv == Init => IInv
<1> SUFFICES ASSUME Init PROVE IInv
  OBVIOUS
<1>1. entries = <<>> /\ entries \in Seq(Entry) /\ DOMAIN entries = {}
  BY DEF Init
<1>2. TypeOK
  BY <1>1 DEF Init, TypeOK, Statuses
<1>3. ASSUME NEW q \in Requests
      PROVE  Progress(q) /\ Ordered(q) /\ Written(q)
  BY <1>1 DEF Init, Progress, Ordered, Written, InFlight
<1> QED
  BY <1>2, <1>3 DEF IInv

----------------------------------------------------------------------------

\* A request ends its handler: the chain goes on with its status.
LEMMA FinishKeeps ==
  ASSUME IInv, NEW q \in Requests, NEW code \in Statuses \ {0}, Finish(q, code),
         pc[q] \in InFlight,
         effects' = effects \/ effects' = effects \cup {q},
         code < 400 => effects' = effects \cup {q}
  PROVE  /\ pc' \in [Requests -> {"new", "handler", "upload", "copy1", "copy2",
                                  "audit", "reply", "end"}]
         /\ status' \in [Requests -> Statuses]
         /\ effects' \in SUBSET Requests
         /\ \A p \in Requests : Progress(p)' /\ Ordered(p)'
<1>1. /\ pc' = [pc EXCEPT ![q] = "audit"] /\ status' = [status EXCEPT ![q] = code]
      /\ UNCHANGED <<operator, answer, entries, missed>>
  BY DEF Finish, logVars
<1>2. /\ pc \in [Requests -> {"new", "handler", "upload", "copy1", "copy2",
                                  "audit", "reply", "end"}]
      /\ status \in [Requests -> Statuses] /\ effects \in SUBSET Requests
  BY DEF IInv, TypeOK
<1>3. /\ pc' \in [Requests -> {"new", "handler", "upload", "copy1", "copy2",
                                  "audit", "reply", "end"}]
      /\ status' \in [Requests -> Statuses]
      /\ effects' \in SUBSET Requests
  BY <1>1, <1>2
<1>4. ASSUME NEW p \in Requests
      PROVE  Progress(p)' /\ Ordered(p)'
  <2>1. Progress(p) /\ Ordered(p)
    BY DEF IInv
  <2>2. CASE p = q
    <3>1. pc'[p] = "audit" /\ status'[p] = code
      BY <1>1, <1>2, <2>2
    <3>2. Progress(p)'
      BY <1>1, <2>1, <2>2, <3>1 DEF Progress, Listed, InFlight
    <3>3. Ordered(p)'
      BY <1>1, <2>1, <2>2, <3>1 DEF Ordered, Recorded, InFlight
    <3> QED
      BY <3>2, <3>3
  <2>3. CASE p # q
    <3>1. pc'[p] = pc[p] /\ status'[p] = status[p] /\ (p \in effects' <=> p \in effects)
      BY <1>1, <1>2, <2>3
    <3> QED
      BY <1>1, <2>1, <3>1 DEF Progress, Ordered, Listed, Recorded, InFlight
  <2> QED
    BY <2>2, <2>3
<1> QED
  BY <1>3, <1>4

\* A request moves inside the chain before its handler is done.
LEMMA MoveKeeps ==
  ASSUME IInv, NEW q \in Requests, NEW to \in InFlight \ {"new"},
         pc[q] \in InFlight,
         pc' = [pc EXCEPT ![q] = to],
         operator' \in [Requests -> Users \cup {NoUser}],
         pc[q] # "new" => operator' = operator,
         \A p \in Requests \ {q} : operator'[p] = operator[p],
         UNCHANGED <<status, answer, effects, logVars>>
  PROVE  /\ pc' \in [Requests -> {"new", "handler", "upload", "copy1", "copy2",
                                  "audit", "reply", "end"}]
         /\ \A p \in Requests : Progress(p)' /\ Ordered(p)'
<1>1. pc \in [Requests -> {"new", "handler", "upload", "copy1", "copy2",
                           "audit", "reply", "end"}]
  BY DEF IInv, TypeOK
<1>2. pc' \in [Requests -> {"new", "handler", "upload", "copy1", "copy2",
                            "audit", "reply", "end"}]
  BY <1>1 DEF InFlight
<1>3. ASSUME NEW p \in Requests
      PROVE  Progress(p)' /\ Ordered(p)'
  <2>1. Progress(p) /\ Ordered(p)
    BY DEF IInv
  <2>2. CASE p = q
    <3>1. pc'[p] = to
      BY <1>1, <2>2
    <3>2. pc[p] \in InFlight /\ status[p] = 0 /\ answer[p] = 0
      BY <2>1, <2>2 DEF Progress, InFlight
    <3> QED
      BY <2>1, <3>1, <3>2 DEF Progress, Ordered, Recorded, InFlight, logVars
  <2>3. CASE p # q
    <3>1. pc'[p] = pc[p] /\ operator'[p] = operator[p]
      BY <1>1, <2>3
    <3> QED
      BY <2>1, <3>1 DEF Progress, Ordered, Listed, Recorded, InFlight, logVars
  <2> QED
    BY <2>2, <2>3
<1> QED
  BY <1>2, <1>3

\* A step that touches no file.
LEMMA FilesKeep ==
  ASSUME IInv, UNCHANGED uploadVars, NEW p \in Requests,
         \/ pc'[p] = pc[p]
         \/ pc'[p] \notin InFlight
         \/ name[p] = NoName /\ pc'[p] \notin {"copy1", "copy2"},
         status'[p] = 200 \/ answer'[p] = 200 =>
           status[p] = 200 \/ answer[p] = 200 \/ name[p] = NoName
  PROVE  Written(p)'
<1>1. Written(p)
  BY DEF IInv
<1>2. name' = name /\ file' = file /\ opened' = opened
  BY DEF uploadVars
<1>3. CASE pc'[p] = pc[p]
  BY <1>1, <1>2, <1>3 DEF Written
<1>4. CASE pc'[p] \notin InFlight
  BY <1>1, <1>2, <1>4 DEF Written, InFlight
<1>5. CASE name[p] = NoName /\ pc'[p] \notin {"copy1", "copy2"}
  BY <1>1, <1>2, <1>5 DEF Written
<1> QED
  BY <1>3, <1>4, <1>5

\* A request leaves its handler without touching a file.
LEMMA FinishIInv ==
  ASSUME IInv, NEW q \in Requests, NEW code \in Statuses \ {0}, Finish(q, code),
         pc[q] \in InFlight,
         effects' = effects \/ effects' = effects \cup {q},
         code < 400 => effects' = effects \cup {q},
         code < 400 => pc[q] = "handler",
         UNCHANGED uploadVars
  PROVE  IInv'
<1>1. /\ pc' = [pc EXCEPT ![q] = "audit"] /\ status' = [status EXCEPT ![q] = code]
      /\ UNCHANGED <<operator, answer, entries, missed>>
  BY DEF Finish, logVars
<1>2. /\ pc \in [Requests -> {"new", "handler", "upload", "copy1", "copy2",
                                  "audit", "reply", "end"}]
      /\ status \in [Requests -> Statuses]
  BY DEF IInv, TypeOK
<1>3. TypeOK'
  BY <1>1, FinishKeeps DEF IInv, TypeOK, uploadVars
<1>4. ASSUME NEW p \in Requests
      PROVE  Written(p)'
  <2>1. CASE p = q
    <3>1. pc'[p] = "audit" /\ status'[p] = code /\ answer'[p] = answer[p]
      BY <1>1, <1>2, <2>1
    <3>2. Progress(p) /\ Written(p)
      BY DEF IInv
    <3>3. answer[p] = 0
      BY <2>1, <3>2 DEF Progress, InFlight
    <3>4. code = 200 => name[p] = NoName
      BY <2>1, <3>2 DEF Written
    <3>5. pc'[p] \notin InFlight
      BY <3>1 DEF InFlight
    <3> QED
      BY <3>1, <3>3, <3>4, <3>5, FilesKeep
  <2>2. CASE p # q
    <3>1. pc'[p] = pc[p] /\ status'[p] = status[p] /\ answer'[p] = answer[p]
      BY <1>1, <1>2, <2>2
    <3> QED
      BY <3>1, FilesKeep
  <2> QED
    BY <2>1, <2>2
<1> QED
  BY <1>3, <1>4, FinishKeeps DEF IInv

LEMMA RefuseIInv ==
  ASSUME IInv, NEW q \in Requests, Refuse(q) \/ RefuseUpload(q)
  PROVE  IInv'
<1>1. PICK code \in {400, 401, 403, 404, 429} : Finish(q, code)
  BY DEF Refuse, RefuseUpload
<1>2. code \in Statuses \ {0} /\ ~(code < 400)
  BY DEF Statuses
<1>3. pc[q] \in InFlight /\ effects' = effects /\ UNCHANGED uploadVars
  BY DEF Refuse, RefuseUpload, InFlight
<1> QED
  BY <1>1, <1>2, <1>3, FinishIInv

LEMMA HandleIInv ==
  ASSUME IInv, NEW q \in Requests, Handle(q)
  PROVE  IInv'
<1>1. pc[q] = "handler" /\ pc[q] \in InFlight /\ UNCHANGED uploadVars
  BY DEF Handle, InFlight
<1>2. PICK code \in Statuses \ {0} :
        /\ Finish(q, code)
        /\ effects' = effects \/ effects' = effects \cup {q}
        /\ code < 400 => effects' = effects \cup {q}
  <2>1. CASE effects' = effects \cup {q} /\ \E code \in {200, 500} : Finish(q, code)
    BY <2>1 DEF Statuses
  <2>2. CASE effects' = effects /\ \E code \in ErrorStatuses : Finish(q, code)
    <3>1. PICK code \in ErrorStatuses : Finish(q, code)
      BY <2>2
    <3>2. code \in Statuses \ {0} /\ ~(code < 400)
      BY ErrorsAreErrors DEF Statuses
    <3> QED
      BY <2>2, <3>1, <3>2
  <2> QED
    BY <2>1, <2>2 DEF Handle
<1> QED
  BY <1>1, <1>2, FinishIInv

LEMMA CopyFailsIInv ==
  ASSUME IInv, NEW q \in Requests, CopyFails(q)
  PROVE  IInv'
<1>1. /\ Finish(q, 400) /\ pc[q] \in InFlight
      /\ effects' = effects /\ UNCHANGED uploadVars
  BY DEF CopyFails, InFlight
<1>2. 400 \in Statuses \ {0} /\ ~(400 < 400)
  BY DEF Statuses
<1> QED
  BY <1>1, <1>2, FinishIInv

LEMMA PassIInv ==
  ASSUME IInv, NEW q \in Requests, Pass(q)
  PROVE  IInv'
<1>1. PICK u \in Users \cup {NoUser}, to \in {"handler", "upload"} :
        operator' = [operator EXCEPT ![q] = u] /\ pc' = [pc EXCEPT ![q] = to]
  BY DEF Pass
<1>2. pc[q] = "new" /\ UNCHANGED <<status, answer, effects, logVars, uploadVars>>
  BY DEF Pass
<1>3. operator \in [Requests -> Users \cup {NoUser}]
  BY DEF IInv, TypeOK
<1>4. /\ operator' \in [Requests -> Users \cup {NoUser}]
      /\ \A p \in Requests \ {q} : operator'[p] = operator[p]
  BY <1>1, <1>3
<1>5. to \in InFlight \ {"new"} /\ pc[q] \in InFlight
  BY <1>2 DEF InFlight
<1>6. /\ pc' \in [Requests -> {"new", "handler", "upload", "copy1", "copy2",
                               "audit", "reply", "end"}]
      /\ \A p \in Requests : Progress(p)' /\ Ordered(p)'
  BY <1>1, <1>2, <1>4, <1>5, MoveKeeps
<1>7. TypeOK'
  BY <1>2, <1>4, <1>6 DEF IInv, TypeOK, logVars, uploadVars
<1>8. ASSUME NEW p \in Requests
      PROVE  Written(p)'
  <2>1. UNCHANGED uploadVars /\ status' = status /\ answer' = answer
    BY <1>2
  <2>2. CASE p = q
    <3>1. name[p] = NoName
      BY <1>2, <2>2 DEF IInv, Written
    <3>2. pc'[p] = to
      BY <1>1, <2>2 DEF IInv, TypeOK
    <3>3. pc'[p] \notin {"copy1", "copy2"}
      BY <3>2
    <3> QED
      BY <2>1, <3>1, <3>3, FilesKeep
  <2>3. CASE p # q
    <3>1. pc'[p] = pc[p]
      BY <1>1, <2>3 DEF IInv, TypeOK
    <3> QED
      BY <2>1, <3>1, FilesKeep
  <2> QED
    BY <2>2, <2>3
<1> QED
  BY <1>6, <1>7, <1>8 DEF IInv

----------------------------------------------------------------------------

LEMMA OpenFileIInv ==
  ASSUME IInv, NEW q \in Requests, OpenFile(q)
  PROVE  IInv'
<1>1. PICK n \in Names :
        /\ name' = [name EXCEPT ![q] = n]
        /\ file' = [file EXCEPT ![n] = [b \in 1 .. 2 |-> Nothing]]
        /\ opened' = [opened EXCEPT ![n] = @ \cup {q}]
  BY DEF OpenFile
<1>2. /\ pc[q] = "upload" /\ pc' = [pc EXCEPT ![q] = "copy1"]
      /\ UNCHANGED <<operator, status, answer, effects, logVars>>
  BY DEF OpenFile, Goto
<1>3. "copy1" \in InFlight \ {"new"} /\ pc[q] \in InFlight
  BY <1>2 DEF InFlight
<1>4. /\ operator' = operator
      /\ operator' \in [Requests -> Users \cup {NoUser}]
  BY <1>2 DEF IInv, TypeOK
<1>5. /\ pc' \in [Requests -> {"new", "handler", "upload", "copy1", "copy2",
                               "audit", "reply", "end"}]
      /\ \A p \in Requests : Progress(p)' /\ Ordered(p)'
  BY <1>2, <1>3, <1>4, MoveKeeps
<1>6. /\ name \in [Requests -> Names \cup {NoName}]
      /\ file \in [Names -> [1 .. 2 -> Requests \cup {Nothing}]]
      /\ opened \in [Names -> SUBSET Requests]
      /\ pc \in [Requests -> {"new", "handler", "upload", "copy1", "copy2",
                               "audit", "reply", "end"}]
  BY DEF IInv, TypeOK
<1>7. /\ name' \in [Requests -> Names \cup {NoName}]
      /\ file' \in [Names -> [1 .. 2 -> Requests \cup {Nothing}]]
      /\ opened' \in [Names -> SUBSET Requests]
  BY <1>1, <1>6
<1>8. TypeOK'
  BY <1>2, <1>5, <1>7 DEF IInv, TypeOK, logVars
<1>9. ASSUME NEW p \in Requests
      PROVE  Written(p)'
  <2>1. Written(p) /\ Progress(p) /\ status'[p] = status[p] /\ answer'[p] = answer[p]
    BY <1>2 DEF IInv
  <2>2. CASE p = q
    <3>1. name'[p] = n /\ pc'[p] = "copy1" /\ p \in opened'[n]
      BY <1>1, <1>2, <1>6, <2>2
    <3>2. status[p] = 0 /\ answer[p] = 0
      BY <1>2, <2>1, <2>2 DEF Progress, InFlight
    <3> QED
      BY <2>1, <3>1, <3>2, ConstantsAssumption DEF Written
  <2>3. CASE p # q
    <3>1. name'[p] = name[p] /\ pc'[p] = pc[p]
      BY <1>1, <1>2, <1>6, <2>3
    <3>2. CASE name[p] = n
      <4>0. opened'[n] = opened[n] \cup {q}
        BY <1>1, <1>6
      <4>1. opened'[n] # {p}
        BY <2>3, <4>0
      <4>2. p \in opened'[n]
        BY <1>1, <1>6, <2>1, <3>2, ConstantsAssumption DEF Written
      <4> QED
        BY <2>1, <3>1, <3>2, <4>1, <4>2 DEF Written
    <3>3. CASE name[p] # n
      <4>1. name[p] # NoName => opened'[name[p]] = opened[name[p]] /\ file'[name[p]] = file[name[p]]
        BY <1>1, <1>6, <3>3
      <4> QED
        BY <2>1, <3>1, <4>1 DEF Written
    <3> QED
      BY <3>2, <3>3
  <2> QED
    BY <2>2, <2>3
<1> QED
  BY <1>5, <1>8, <1>9 DEF IInv

\* A block is written: the file of a request that opened its own is its own.
LEMMA WrittenByOwner ==
  ASSUME IInv, NEW q \in Requests, pc[q] \in {"copy1", "copy2"}, NEW b \in 1 .. 2,
         WriteBlock(q, b)
  PROVE  /\ file' \in [Names -> [1 .. 2 -> Requests \cup {Nothing}]]
         /\ name[q] \in Names /\ q \in opened[name[q]]
         /\ file'[name[q]][b] = q
         /\ \A p \in Requests, c \in 1 .. 2 :
              (p # q \/ b # c) /\ name[p] # NoName /\ opened[name[p]] = {p}
                 => file'[name[p]][c] = file[name[p]][c]
<1>1. /\ name \in [Requests -> Names \cup {NoName}]
      /\ file \in [Names -> [1 .. 2 -> Requests \cup {Nothing}]]
  BY DEF IInv, TypeOK
<1>2. name[q] \in Names /\ q \in opened[name[q]]
  BY ConstantsAssumption DEF IInv, Written
<1>3. file' = [file EXCEPT ![name[q]] = [file[name[q]] EXCEPT ![b] = q]]
  BY DEF WriteBlock
<1>4. file[name[q]] \in [1 .. 2 -> Requests \cup {Nothing}]
  BY <1>1, <1>2
<1>5. [file[name[q]] EXCEPT ![b] = q] \in [1 .. 2 -> Requests \cup {Nothing}]
  BY <1>4
<1>6. file' \in [Names -> [1 .. 2 -> Requests \cup {Nothing}]]
  BY <1>1, <1>3, <1>5
<1>7. file'[name[q]] = [file[name[q]] EXCEPT ![b] = q]
  BY <1>1, <1>2, <1>3
<1>8. file'[name[q]][b] = q
  BY <1>4, <1>7
<1>9. ASSUME NEW p \in Requests, NEW c \in 1 .. 2, p # q \/ b # c,
             name[p] # NoName, opened[name[p]] = {p}
      PROVE  file'[name[p]][c] = file[name[p]][c]
  <2>1. CASE name[p] = name[q]
    <3>1. p = q
      BY <1>2, <1>9, <2>1
    <3>2. b # c
      BY <1>9, <3>1
    <3> QED
      BY <1>4, <1>7, <2>1, <3>2
  <2>2. CASE name[p] # name[q]
    BY <1>1, <1>2, <1>3, <1>9, <2>2
  <2> QED
    BY <2>1, <2>2
<1> QED
  BY <1>2, <1>6, <1>8, <1>9

LEMMA CopyFirstIInv ==
  ASSUME IInv, NEW q \in Requests, CopyFirst(q)
  PROVE  IInv'
<1>1. /\ pc[q] = "copy1" /\ pc' = [pc EXCEPT ![q] = "copy2"] /\ WriteBlock(q, 1)
      /\ UNCHANGED <<operator, status, answer, effects, logVars, name, opened>>
  BY DEF CopyFirst, Goto, WriteBlock
<1>2. "copy2" \in InFlight \ {"new"} /\ pc[q] \in InFlight
  BY <1>1 DEF InFlight
<1>3. operator' = operator /\ operator' \in [Requests -> Users \cup {NoUser}]
  BY <1>1 DEF IInv, TypeOK
<1>4. /\ pc' \in [Requests -> {"new", "handler", "upload", "copy1", "copy2",
                               "audit", "reply", "end"}]
      /\ \A p \in Requests : Progress(p)' /\ Ordered(p)'
  BY <1>1, <1>2, <1>3, MoveKeeps
<1>5. /\ file' \in [Names -> [1 .. 2 -> Requests \cup {Nothing}]]
      /\ name[q] \in Names /\ q \in opened[name[q]]
      /\ file'[name[q]][1] = q
      /\ \A p \in Requests, c \in 1 .. 2 :
           (p # q \/ 1 # c) /\ name[p] # NoName /\ opened[name[p]] = {p}
              => file'[name[p]][c] = file[name[p]][c]
  BY <1>1, WrittenByOwner
<1>6. TypeOK'
  BY <1>1, <1>4, <1>5 DEF IInv, TypeOK, logVars
<1>7. ASSUME NEW p \in Requests
      PROVE  Written(p)'
  <2>1. /\ Written(p) /\ Progress(p) /\ status'[p] = status[p] /\ answer'[p] = answer[p]
        /\ name'[p] = name[p] /\ opened' = opened
    BY <1>1 DEF IInv
  <2>2. CASE p = q
    <3>1. pc'[p] = "copy2" /\ status[p] = 0 /\ answer[p] = 0
      BY <1>1, <2>1, <2>2 DEF IInv, TypeOK, Progress, InFlight
    <3> QED
      BY <1>5, <2>1, <2>2, <3>1 DEF Written
  <2>3. CASE p # q
    <3>1. pc'[p] = pc[p]
      BY <1>1, <2>3 DEF IInv, TypeOK
    <3>2. 1 \in 1 .. 2 /\ 2 \in 1 .. 2
      OBVIOUS
    <3>3. name[p] # NoName /\ opened[name[p]] = {p} =>
            file'[name[p]][1] = file[name[p]][1] /\ file'[name[p]][2] = file[name[p]][2]
      BY <1>5, <2>3, <3>2
    <3> QED
      BY <2>1, <3>1, <3>3 DEF Written
  <2> QED
    BY <2>2, <2>3
<1> QED
  BY <1>4, <1>6, <1>7 DEF IInv

LEMMA CopySecondIInv ==
  ASSUME IInv, NEW q \in Requests, CopySecond(q)
  PROVE  IInv'
<1>1. /\ pc[q] = "copy2" /\ WriteBlock(q, 2) /\ Finish(q, 200)
      /\ effects' = effects \cup {q}
  BY DEF CopySecond
<1>2. /\ pc' = [pc EXCEPT ![q] = "audit"] /\ status' = [status EXCEPT ![q] = 200]
      /\ UNCHANGED <<operator, answer, logVars, name, opened>>
  BY <1>1 DEF Finish, WriteBlock
<1>3. 200 \in Statuses \ {0} /\ pc[q] \in InFlight
  BY <1>1 DEF Statuses, InFlight
<1>4. /\ pc' \in [Requests -> {"new", "handler", "upload", "copy1", "copy2",
                               "audit", "reply", "end"}]
      /\ status' \in [Requests -> Statuses]
      /\ effects' \in SUBSET Requests
      /\ \A p \in Requests : Progress(p)' /\ Ordered(p)'
  BY <1>1, <1>3, FinishKeeps
<1>5. /\ file' \in [Names -> [1 .. 2 -> Requests \cup {Nothing}]]
      /\ name[q] \in Names /\ q \in opened[name[q]]
      /\ file'[name[q]][2] = q
      /\ \A p \in Requests, c \in 1 .. 2 :
           (p # q \/ 2 # c) /\ name[p] # NoName /\ opened[name[p]] = {p}
              => file'[name[p]][c] = file[name[p]][c]
  BY <1>1, WrittenByOwner
<1>6. TypeOK'
  BY <1>2, <1>4, <1>5 DEF IInv, TypeOK, logVars
<1>7. ASSUME NEW p \in Requests
      PROVE  Written(p)'
  <2>1. /\ Written(p) /\ answer'[p] = answer[p]
        /\ name'[p] = name[p] /\ opened' = opened
    BY <1>2 DEF IInv
  <2>2. 1 \in 1 .. 2 /\ 2 \in 1 .. 2
    OBVIOUS
  <2>3. CASE p = q
    <3>1. pc'[p] = "audit"
      BY <1>2, <2>3 DEF IInv, TypeOK
    <3>2. name[p] # NoName /\ opened[name[p]] = {p} => file'[name[p]][1] = p
      BY <1>1, <1>5, <2>1, <2>2, <2>3 DEF Written
    <3> QED
      BY <1>5, <2>1, <2>3, <3>1, <3>2 DEF Written
  <2>4. CASE p # q
    <3>1. pc'[p] = pc[p] /\ status'[p] = status[p]
      BY <1>2, <2>4 DEF IInv, TypeOK
    <3>2. name[p] # NoName /\ opened[name[p]] = {p} =>
            file'[name[p]][1] = file[name[p]][1] /\ file'[name[p]][2] = file[name[p]][2]
      BY <1>5, <2>2, <2>4
    <3> QED
      BY <2>1, <3>1, <3>2 DEF Written
  <2> QED
    BY <2>3, <2>4
<1> QED
  BY <1>4, <1>6, <1>7 DEF IInv

----------------------------------------------------------------------------

\* An entry is appended.
LEMMA AppendEntry ==
  ASSUME entries \in Seq(Entry), NEW e \in Entry, entries' = Append(entries, e)
  PROVE  /\ entries' \in Seq(Entry)
         /\ DOMAIN entries' = DOMAIN entries \cup {Len(entries) + 1}
         /\ Len(entries) + 1 \notin DOMAIN entries
         /\ entries'[Len(entries) + 1] = e
         /\ \A k \in DOMAIN entries : entries'[k] = entries[k]
<1>1. entries' \in Seq(Entry)
  OBVIOUS
<1>2. DOMAIN entries = 1 .. Len(entries) /\ Len(entries) \in Nat
  OBVIOUS
<1>3. DOMAIN entries' = 1 .. Len(entries) + 1
  OBVIOUS
<1>4. 1 .. Len(entries) + 1 = (1 .. Len(entries)) \cup {Len(entries) + 1}
  BY <1>2
<1>5. entries'[Len(entries) + 1] = e
  OBVIOUS
<1>6. \A k \in 1 .. Len(entries) : entries'[k] = entries[k]
  OBVIOUS
<1> QED
  BY <1>1, <1>2, <1>3, <1>4, <1>5, <1>6

LEMMA AuditLogIInv ==
  ASSUME IInv, NEW q \in Requests, AuditLog(q)
  PROVE  IInv'
<1> DEFINE e == [of |-> q, operator |-> operator[q]]
<1>1. /\ pc[q] = "audit" /\ pc' = [pc EXCEPT ![q] = "reply"]
      /\ UNCHANGED <<operator, status, answer, effects, uploadVars>>
  BY DEF AuditLog
<1>2. /\ pc \in [Requests -> {"new", "handler", "upload", "copy1", "copy2",
                              "audit", "reply", "end"}]
      /\ operator \in [Requests -> Users \cup {NoUser}]
      /\ entries \in Seq(Entry) /\ missed \in SUBSET Requests
  BY DEF IInv, TypeOK
<1>3. e \in Entry
  BY <1>2 DEF Entry
<1>4. \/ ~Recorded(q) /\ UNCHANGED logVars
      \/ Recorded(q) /\ entries' = Append(entries, e) /\ missed' = missed
      \/ missed' = missed \cup {q} /\ entries' = entries
  BY DEF AuditLog
<1>5. /\ entries' \in Seq(Entry) /\ missed' \in SUBSET Requests
      /\ missed \subseteq missed'
  BY <1>2, <1>3, <1>4, AppendEntry DEF logVars
<1>6. TypeOK'
  <2>1. pc' \in [Requests -> {"new", "handler", "upload", "copy1", "copy2",
                              "audit", "reply", "end"}]
    BY <1>1, <1>2
  <2> QED
    BY <1>1, <1>5, <2>1 DEF IInv, TypeOK, uploadVars
<1>7. ASSUME NEW p \in Requests, Listed(p)
      PROVE  Listed(p)'
  <2>1. PICK k \in DOMAIN entries : entries[k] = [of |-> p, operator |-> operator[p]]
    BY <1>7 DEF Listed
  <2>2. k \in DOMAIN entries' /\ entries'[k] = entries[k]
    BY <1>2, <1>3, <1>4, AppendEntry DEF logVars
  <2> QED
    BY <1>1, <2>1, <2>2 DEF Listed
<1>8. Recorded(q) => q \in missed' \/ Listed(q)'
  <2>1. CASE entries' = Append(entries, e)
    <3>1. PICK k \in DOMAIN entries' : entries'[k] = e
      BY <1>2, <1>3, <2>1, AppendEntry
    <3> QED
      BY <1>1, <3>1 DEF Listed
  <2> QED
    BY <1>4, <2>1
<1>9. ASSUME NEW p \in Requests, p # q, \A k \in DOMAIN entries : entries[k].of # p
      PROVE  \A k \in DOMAIN entries' : entries'[k].of # p
  <2>1. e.of # p
    BY <1>9
  <2> HIDE DEF e
  <2> QED
    BY <1>2, <1>3, <1>4, <1>9, <2>1, AppendEntry DEF logVars
<1>10. ASSUME NEW p \in Requests
       PROVE  Progress(p)' /\ Ordered(p)' /\ Written(p)'
  <2>1. /\ Progress(p) /\ Ordered(p) /\ status'[p] = status[p] /\ answer'[p] = answer[p]
        /\ effects' = effects
    BY <1>1 DEF IInv
  <2>2. CASE p = q
    <3>1. pc'[p] = "reply"
      BY <1>1, <1>2, <2>2
    <3>2. status[p] = 200 => p \in missed' \/ Listed(p)'
      BY <1>8, <2>2 DEF Recorded
    <3>3. Progress(p)'
      BY <1>1, <2>1, <2>2, <3>1, <3>2 DEF Progress, InFlight
    <3>4. Ordered(p)'
      BY <3>1 DEF Ordered, InFlight
    <3>5. Written(p)'
      BY <1>1, <2>1, <3>1, FilesKeep DEF InFlight
    <3> QED
      BY <3>3, <3>4, <3>5
  <2>3. CASE p # q
    <3>1. pc'[p] = pc[p]
      BY <1>1, <1>2, <2>3
    <3>2. Progress(p)'
      BY <1>5, <1>7, <2>1, <3>1 DEF Progress
    <3>3. Ordered(p)'
      BY <1>9, <2>1, <2>3, <3>1 DEF Ordered, Recorded
    <3>4. Written(p)'
      BY <1>1, <2>1, <3>1, FilesKeep
    <3> QED
      BY <3>2, <3>3, <3>4
  <2> QED
    BY <2>2, <2>3
<1> QED
  BY <1>6, <1>10 DEF IInv

LEMMA ReplyIInv ==
  ASSUME IInv, NEW q \in Requests, Reply(q)
  PROVE  IInv'
<1>1. /\ pc[q] = "reply" /\ pc' = [pc EXCEPT ![q] = "end"]
      /\ answer' = [answer EXCEPT ![q] = status[q]]
      /\ status' = [status EXCEPT ![q] = 0]
      /\ UNCHANGED <<operator, effects, logVars, uploadVars>>
  BY DEF Reply
<1>2. TypeOK
  BY DEF IInv
<1>3. 0 \in Statuses
  BY DEF Statuses
<1>4. TypeOK'
  BY <1>1, <1>2, <1>3 DEF TypeOK, logVars, uploadVars
<1>5. ASSUME NEW p \in Requests
      PROVE  Progress(p)' /\ Ordered(p)' /\ Written(p)'
  <2>1. Progress(p) /\ Ordered(p) /\ (Listed(p)' <=> Listed(p))
    BY <1>1 DEF IInv, Listed, logVars
  <2>2. CASE p = q
    <3>1. pc'[p] = "end" /\ answer'[p] = status[p] /\ status'[p] = 0
      BY <1>1, <1>2, <2>2 DEF TypeOK
    <3>2. Progress(p)'
      BY <1>1, <2>1, <2>2, <3>1 DEF Progress, InFlight, logVars
    <3>3. Ordered(p)'
      BY <3>1 DEF Ordered, InFlight
    <3>4. Written(p)'
      BY <1>1, <3>1, FilesKeep DEF InFlight
    <3> QED
      BY <3>2, <3>3, <3>4
  <2>3. CASE p # q
    <3>1. pc'[p] = pc[p] /\ answer'[p] = answer[p] /\ status'[p] = status[p]
      BY <1>1, <1>2, <2>3 DEF TypeOK
    <3>2. Progress(p)' /\ Ordered(p)'
      BY <1>1, <2>1, <3>1 DEF Progress, Ordered, Recorded, logVars
    <3>3. Written(p)'
      BY <1>1, <3>1, FilesKeep
    <3> QED
      BY <3>2, <3>3
  <2> QED
    BY <2>2, <2>3
<1> QED
  BY <1>4, <1>5 DEF IInv

LEMMA CrashIInv ==
  ASSUME IInv, Crash
  PROVE  IInv'
<1>1. /\ pc' = [q \in Requests |-> IF pc[q] = "new" THEN "new" ELSE "end"]
      /\ status' = [q \in Requests |-> 0]
      /\ UNCHANGED <<operator, answer, effects, logVars, uploadVars>>
  BY DEF Crash
<1>2. TypeOK'
  <2>1. 0 \in Statuses
    BY DEF Statuses
  <2> QED
    BY <1>1, <2>1 DEF IInv, TypeOK, logVars, uploadVars
<1>3. ASSUME NEW p \in Requests
      PROVE  Progress(p)' /\ Ordered(p)' /\ Written(p)'
  <2>1. /\ Progress(p) /\ Ordered(p) /\ (Listed(p)' <=> Listed(p))
        /\ status'[p] = 0 /\ answer'[p] = answer[p]
        /\ pc'[p] = IF pc[p] = "new" THEN "new" ELSE "end"
    BY <1>1 DEF IInv, Listed, logVars
  <2>2. Progress(p)' /\ Ordered(p)'
    BY <1>1, <2>1 DEF Progress, Ordered, InFlight, logVars
  <2>3. Written(p)'
    BY <1>1, <2>1, FilesKeep DEF InFlight
  <2> QED
    BY <2>2, <2>3
<1> QED
  BY <1>2, <1>3 DEF IInv

LEMMA StutterIInv ==
  ASSUME IInv, UNCHANGED vars
  PROVE  IInv'
<1>1. TypeOK'
  BY DEF IInv, TypeOK, vars, logVars, uploadVars
<1>2. ASSUME NEW p \in Requests
      PROVE  Progress(p)' /\ Ordered(p)' /\ Written(p)'
  BY DEF IInv, Progress, Ordered, Written, Listed, Recorded, vars, logVars, uploadVars
<1> QED
  BY <1>1, <1>2 DEF IInv

LEMMA NextIInv == IInv /\ [Next]_vars => IInv'
<1> SUFFICES ASSUME IInv, [Next]_vars PROVE IInv'
  OBVIOUS
<1>1. CASE \E q \in Requests : Refuse(q) \/ RefuseUpload(q)
  BY <1>1, RefuseIInv
<1>2. CASE \E q \in Requests : Pass(q)
  BY <1>2, PassIInv
<1>3. CASE \E q \in Requests : Handle(q)
  BY <1>3, HandleIInv
<1>4. CASE \E q \in Requests : OpenFile(q)
  BY <1>4, OpenFileIInv
<1>5. CASE \E q \in Requests : CopyFirst(q)
  BY <1>5, CopyFirstIInv
<1>6. CASE \E q \in Requests : CopySecond(q)
  BY <1>6, CopySecondIInv
<1>7. CASE \E q \in Requests : CopyFails(q)
  BY <1>7, CopyFailsIInv
<1>8. CASE \E q \in Requests : AuditLog(q)
  BY <1>8, AuditLogIInv
<1>9. CASE \E q \in Requests : Reply(q)
  BY <1>9, ReplyIInv
<1>10. CASE Crash
  BY <1>10, CrashIInv
<1>11. CASE UNCHANGED vars
  BY <1>11, StutterIInv
<1> QED
  BY <1>1, <1>2, <1>3, <1>4, <1>5, <1>6, <1>7, <1>8, <1>9, <1>10, <1>11
     DEF Next, Upload

----------------------------------------------------------------------------

LEMMA IInvAlways == Spec => []IInv
BY InitIInv, NextIInv, PTL DEF Spec

\* The variables of the chain and of the upload directory keep their types.
THEOREM TypeCorrect == Spec => []TypeOK
BY IInvAlways, PTL DEF IInv

\* Whoever is told 200 has been recorded under its own operator (AuditLog runs
\* before the answer leaves), unless the insert of the entry failed.
THEOREM AnswersRecorded == Spec => []AnsweredIsRecorded
<1>1. IInv => AnsweredIsRecorded
  BY DEF IInv, Progress, Listed, AnsweredIsRecorded
<1> QED
  BY <1>1, IInvAlways, PTL

\* An image whose address was given out is whole (SaveUploadedImage), unless
\* another upload was given the same name by the clock.
THEOREM UploadsAreComplete == Spec => []UploadsComplete
<1>1. ASSUME IInv PROVE UploadsComplete
  <2> SUFFICES ASSUME NEW q \in Requests, answer[q] = 200, name[q] # NoName,
                      opened[name[q]] = {q}, NEW b \in 1 .. 2
               PROVE  file[name[q]][b] = q
    BY DEF UploadsComplete
  <2>1. file[name[q]][1] = q /\ file[name[q]][2] = q
    BY <1>1 DEF IInv, Written
  <2>2. b = 1 \/ b = 2
    OBVIOUS
  <2> QED
    BY <2>1, <2>2
<1> QED
  BY <1>1, IInvAlways, PTL

----------------------------------------------------------------------------

\* What AuditTrail knows of the log.
TrailOf == [k \in DOMAIN entries |-> entries[k].of]

\* The abstract log grows with the table.
LEMMA TrailGrows ==
  ASSUME entries \in Seq(Entry), NEW e \in Entry, entries' = Append(entries, e)
  PROVE  TrailOf' = Append(TrailOf, e.of)
<1>1. /\ DOMAIN entries' = DOMAIN entries \cup {Len(entries) + 1}
      /\ Len(entries) + 1 \notin DOMAIN entries
      /\ entries'[Len(entries) + 1] = e
      /\ \A k \in DOMAIN entries : entries'[k] = entries[k]
  BY AppendEntry
<1>2. /\ DOMAIN entries = 1 .. Len(entries) /\ Len(entries) \in Nat
      /\ \A k \in DOMAIN entries : entries[k].of \in Requests
  <2>1. DOMAIN entries = 1 .. Len(entries) /\ Len(entries) \in Nat
    OBVIOUS
  <2>2. \A k \in 1 .. Len(entries) : entries[k] \in Entry
    OBVIOUS
  <2> QED
    BY <2>1, <2>2 DEF Entry
<1>3. TrailOf \in [1 .. Len(entries) -> Requests]
  BY <1>2 DEF TrailOf
<1>4. TrailOf \in Seq(Requests) /\ Len(TrailOf) = Len(entries)
  BY <1>2, <1>3
<1>5. e.of \in Requests
  BY DEF Entry
<1>6. Append(TrailOf, e.of) = [k \in 1 .. Len(entries) + 1 |->
                                IF k = Len(entries) + 1 THEN e.of ELSE TrailOf[k]]
  BY <1>4, <1>5
<1>7. DOMAIN entries' = 1 .. Len(entries) + 1
  BY <1>1, <1>2
<1>8. ASSUME NEW k \in 1 .. Len(entries) + 1
      PROVE  entries'[k].of = IF k = Len(entries) + 1 THEN e.of ELSE TrailOf[k]
  BY <1>1, <1>2, <1>7 DEF TrailOf
<1>9. TrailOf' = [k \in 1 .. Len(entries) + 1 |-> entries'[k].of]
  BY <1>7 DEF TrailOf
<1> QED
  BY <1>6, <1>8, <1>9

\* A request that takes effect when its handler ends.
LEMMA EffectIsWrite ==
  ASSUME IInv, NEW q \in Requests, pc[q] \in InFlight,
         effects' = effects \cup {q}, entries' = entries
  PROVE  Trail!Next
<1>1. q \notin effects
  BY DEF IInv, Ordered
<1>2. TrailOf' = TrailOf
  BY DEF TrailOf
<1>3. Trail!Write(q)
  BY <1>1, <1>2 DEF Trail!Write, TrailOf
<1> QED
  BY <1>3 DEF Trail!Next

LEMMA AuditLogRefines ==
  ASSUME IInv, NEW q \in Requests, AuditLog(q)
  PROVE  Trail!Next \/ UNCHANGED <<effects, TrailOf>>
<1> DEFINE e == [of |-> q, operator |-> operator[q]]
<1>1. pc[q] = "audit" /\ effects' = effects
  BY DEF AuditLog
<1>2. CASE entries' = entries
  BY <1>1, <1>2 DEF TrailOf
<1>3. CASE Recorded(q) /\ entries' = Append(entries, e)
  <2>1. entries \in Seq(Entry) /\ e \in Entry /\ e.of = q
    BY DEF IInv, TypeOK, Entry
  <2>2. TrailOf' = Append(TrailOf, q)
    BY <1>3, <2>1, TrailGrows
  <2>3. q \in effects /\ \A k \in DOMAIN entries : entries[k].of # q
    BY <1>1, <1>3 DEF IInv, Ordered
  <2>4. Trail!Record(q)
    BY <1>1, <2>2, <2>3 DEF Trail!Record, Trail!Recorded, TrailOf
  <2> QED
    BY <2>4 DEF Trail!Next
<1> QED
  BY <1>2, <1>3 DEF AuditLog, logVars

LEMMA NextRefines ==
  IInv /\ [Next]_vars => Trail!Next \/ UNCHANGED <<effects, TrailOf>>
<1> SUFFICES ASSUME IInv, [Next]_vars
             PROVE  Trail!Next \/ UNCHANGED <<effects, TrailOf>>
  OBVIOUS
<1>1. ASSUME NEW q \in Requests, Refuse(q) \/ RefuseUpload(q) \/ CopyFails(q)
      PROVE  UNCHANGED <<effects, TrailOf>>
  BY <1>1 DEF Refuse, RefuseUpload, CopyFails, Finish, logVars, TrailOf
<1>2. ASSUME NEW q \in Requests, Pass(q) \/ OpenFile(q) \/ CopyFirst(q) \/ Reply(q)
      PROVE  UNCHANGED <<effects, TrailOf>>
  BY <1>2 DEF Pass, OpenFile, CopyFirst, Goto, Reply, logVars, TrailOf
<1>3. ASSUME NEW q \in Requests, Handle(q)
      PROVE  Trail!Next \/ UNCHANGED <<effects, TrailOf>>
  <2>1. entries' = entries /\ pc[q] \in InFlight
    BY <1>3 DEF Handle, Finish, logVars, InFlight
  <2>2. CASE effects' = effects \cup {q}
    BY <2>1, <2>2, EffectIsWrite
  <2>3. CASE effects' = effects
    BY <2>1, <2>3 DEF TrailOf
  <2> QED
    BY <1>3, <2>2, <2>3 DEF Handle
<1>4. ASSUME NEW q \in Requests, CopySecond(q)
      PROVE  Trail!Next
  <2>1. /\ entries' = entries /\ pc[q] \in InFlight
        /\ effects' = effects \cup {q}
    BY <1>4 DEF CopySecond, Finish, logVars, InFlight
  <2> QED
    BY <2>1, EffectIsWrite
<1>5. CASE Crash \/ UNCHANGED vars
  BY <1>5 DEF Crash, vars, logVars, TrailOf
<1> QED
  BY <1>1, <1>2, <1>3, <1>4, <1>5, AuditLogRefines DEF Next, Upload

\* The table audit_logs implements AuditTrail: entries are never taken back,
\* doubled or there before the write they name.
THEOREM TrailIsImplemented == Spec => TrailFollowsWrites
<1>1. Init => Trail!Init
  BY DEF Init, Trail!Init
<1>2. IInv /\ [Next]_vars => [Trail!Next]_<<effects, TrailOf>>
  BY NextRefines
<1> QED
  BY <1>1, <1>2, IInvAlways, PTL DEF Spec, TrailFollowsWrites, Trail!Spec, TrailOf

============================================================================
