------------------------- MODULE UserServiceProofs -------------------------
(***************************************************************************)
(* Proofs about UserService, for any number of accounts, phone numbers and *)
(* requests: its invariants, that a registered client is not turned down,  *)
(* and that racing registrations implement AccountRegistry.                *)
(***************************************************************************)
EXTENDS UserService, TLAPS

\* Only the trimmed form of a number is stored.
PhonesAreTrimmed == \A u \in Present : user[u].phone.spaces = FALSE

\* What a profile update has no say in.
SameAccount(r, s) ==
  r.phone = s.phone /\ r.password = s.password /\ r.role = s.role

HasAccount(number, password) ==
  \E u \in Present : /\ user[u].phone.number = number
                     /\ user[u].password = password

\* What a handler has established by the time it reaches each point.
HandlerOK(w) ==
  /\ pc[w] \in {"check", "insert"} => req[w] \in Registration
  /\ pc[w] = "login" => req[w] \in Credentials
  /\ pc[w] \in {"find", "save"} =>
       req[w] \in Profile /\ user[req[w].id] # NoRow
  /\ pc[w] = "save" =>
       copy[w] \in UserRow /\ SameAccount(copy[w], user[req[w].id])
  /\ pc[w] = "reply" /\ req[w].op = "register" =>
       HasAccount(req[w].phone.number, req[w].password)

HandlersOK == \A w \in Workers : HandlerOK(w)

\* Whoever was told of a success has an account.
ToldHaveAccounts == \A c \in told : HasAccount(c.phone.number, c.password)

\* The inductive invariant: a copy a profile update holds may be stale in name
\* and avatar only, for nothing writes the other columns of a row.
IInv == /\ TypeOK
        /\ PhonesAreTrimmed
        /\ OnePerPhone
        /\ TokensAreCurrent
        /\ HandlersOK
        /\ ToldHaveAccounts

----------------------------------------------------------------------------

\* Accounts are added, never dropped or handed to somebody else.
KeepsAccounts ==
  \A u \in Present : user'[u] # NoRow /\ SameAccount(user'[u], user[u])

\* The seed's accounts are administrators with numbers of their own.
LEMMA InitEstablishes == Init => IInv
<1> SUFFICES ASSUME Init PROVE IInv
  OBVIOUS
<1> USE ConstantsAssumption
<1>1. PICK seeded \in SUBSET Users :
      \E number \in [seeded -> Numbers], password \in [seeded -> Passwords] :
        /\ \A u, v \in seeded : u # v => number[u] # number[v]
        /\ user = [u \in Users |->
                     IF u \in seeded
                     THEN [phone |-> [number |-> number[u], spaces |-> FALSE],
                           password |-> password[u], role |-> "admin",
                           name |-> Blank, avatar |-> Blank]
                     ELSE NoRow]
  BY DEF Init
<1>2. PICK number \in [seeded -> Numbers], password \in [seeded -> Passwords] :
        /\ \A u, v \in seeded : u # v => number[u] # number[v]
        /\ user = [u \in Users |->
                     IF u \in seeded
                     THEN [phone |-> [number |-> number[u], spaces |-> FALSE],
                           password |-> password[u], role |-> "admin",
                           name |-> Blank, avatar |-> Blank]
                     ELSE NoRow]
  BY <1>1
<1>3. Present \subseteq seeded
  BY <1>2 DEF Present
<1>4. \A u \in seeded : user[u].phone = [number |-> number[u], spaces |-> FALSE]
  BY <1>2
<1>5. user \in [Users -> UserRow \cup {NoRow}]
  <2>1. \A u \in seeded : user[u] \in UserRow
    BY <1>2 DEF UserRow, Phones, Roles
  <2>2. \A u \in Users \ seeded : user[u] = NoRow
    BY <1>2
  <2>3. user = [u \in Users |-> user[u]]
    BY <1>2
  <2> QED
    BY <2>1, <2>2, <2>3
<1>6. TypeOK
  <2>1. pc \in [Workers -> {"idle", "check", "insert", "login", "find", "save",
                         "reply"}]
    BY DEF Init
  <2>2. req \in [Workers -> Registration \cup Credentials \cup Profile
                           \cup {NoRequest}]
    BY DEF Init
  <2>3. copy \in [Workers -> UserRow \cup {NoRow}]
    BY DEF Init
  <2>4. answer \in [Workers -> Answers]
    BY DEF Init, Answers
  <2>5. tokens = {} /\ told = {}
    BY DEF Init
  <2> QED
    BY <1>5, <2>1, <2>2, <2>3, <2>4, <2>5 DEF TypeOK
<1>7. PhonesAreTrimmed
  <2> SUFFICES ASSUME NEW u \in Present PROVE user[u].phone.spaces = FALSE
    BY DEF PhonesAreTrimmed
  <2>1. user[u].phone = [number |-> number[u], spaces |-> FALSE]
    BY <1>3, <1>4
  <2> QED
    BY <2>1
<1>8. OnePerPhone
  BY <1>2, <1>3, <1>4 DEF OnePerPhone
<1>9. TokensAreCurrent /\ HandlersOK /\ ToldHaveAccounts
  BY DEF Init, TokensAreCurrent, HandlersOK, HandlerOK, ToldHaveAccounts
<1> QED
  BY <1>6, <1>7, <1>8, <1>9 DEF IInv

----------------------------------------------------------------------------
\* What a step that keeps the accounts keeps besides.

\* An account found before is found after.
LEMMA AccountsStay ==
  ASSUME KeepsAccounts, NEW n, NEW p, HasAccount(n, p)
  PROVE  HasAccount(n, p)'
BY DEF KeepsAccounts, HasAccount, SameAccount, Present

\* Tokens stay current, and no more of them are left than there were.
LEMMA TokensStay ==
  ASSUME TypeOK, KeepsAccounts, TokensAreCurrent, tokens' \subseteq tokens
  PROVE  TokensAreCurrent'
BY DEF KeepsAccounts, TokensAreCurrent, SameAccount, Present, TypeOK, Token

\* Those who were told keep their accounts.
LEMMA ToldStay ==
  ASSUME KeepsAccounts, ToldHaveAccounts, UNCHANGED told
  PROVE  ToldHaveAccounts'
BY AccountsStay DEF ToldHaveAccounts

\* A handler the step does not touch keeps what it has established.
LEMMA HandlerStays ==
  ASSUME TypeOK, KeepsAccounts, NEW v \in Workers, HandlerOK(v),
         pc'[v] = pc[v], req'[v] = req[v], copy'[v] = copy[v]
  PROVE  HandlerOK(v)'
<1>1. req[v] \in Profile /\ user[req[v].id] # NoRow =>
        /\ user'[req[v].id] # NoRow
        /\ SameAccount(user'[req[v].id], user[req[v].id])
  BY DEF KeepsAccounts, Present, Profile
<1>2. pc[v] = "reply" /\ req[v].op = "register" =>
        HasAccount(req[v].phone.number, req[v].password)'
  <2> SUFFICES ASSUME pc[v] = "reply", req[v].op = "register"
               PROVE  HasAccount(req[v].phone.number, req[v].password)'
    OBVIOUS
  <2>1. PICK n, p : n = req[v].phone.number /\ p = req[v].password
    OBVIOUS
  <2>2. HasAccount(n, p)
    BY <2>1 DEF HandlerOK
  <2>3. HasAccount(n, p)'
    BY <2>2, AccountsStay
  <2> QED
    BY <2>1, <2>3 DEF HasAccount
<1> QED
  BY <1>1, <1>2 DEF HandlerOK, SameAccount, HasAccount, Present

\* A step that leaves the table alone and hands out no token: only the
\* handlers are left to look at.
LEMMA TableUntouched ==
  ASSUME IInv, UNCHANGED <<user, told>>, tokens' \subseteq tokens
  PROVE  /\ KeepsAccounts
         /\ PhonesAreTrimmed' /\ OnePerPhone'
         /\ TokensAreCurrent' /\ ToldHaveAccounts'
<1>1. KeepsAccounts
  BY DEF KeepsAccounts, Present, SameAccount
<1>2. PhonesAreTrimmed' /\ OnePerPhone'
  BY DEF IInv, PhonesAreTrimmed, OnePerPhone, Present
<1> QED
  BY <1>1, <1>2, TokensStay, ToldStay DEF IInv

\* The handlers that the step of worker w leaves alone.
LEMMA OthersStay ==
  ASSUME IInv, KeepsAccounts, NEW w \in Workers, HandlerOK(w)',
         \A v \in Workers \ {w} :
           pc'[v] = pc[v] /\ req'[v] = req[v] /\ copy'[v] = copy[v]
  PROVE  HandlersOK'
<1> SUFFICES ASSUME NEW v \in Workers PROVE HandlerOK(v)'
  BY DEF HandlersOK
<1>1. CASE v = w
  BY <1>1
<1>2. CASE v # w
  BY <1>2, HandlerStays DEF IInv, HandlersOK
<1> QED
  BY <1>1, <1>2

\* Answering a request drops what the handler had.
LEMMA AnswerOf ==
  ASSUME TypeOK, NEW w \in Workers, NEW status \in Answers, Answer(w, status)
  PROVE  /\ pc' \in [Workers -> {"idle", "check", "insert", "login", "find",
                                 "save", "reply"}]
         /\ req' \in [Workers -> Registration \cup Credentials \cup Profile
                                 \cup {NoRequest}]
         /\ copy' \in [Workers -> UserRow \cup {NoRow}]
         /\ answer' \in [Workers -> Answers]
         /\ HandlerOK(w)'
         /\ pc'[w] = "idle" /\ answer'[w] = status
         /\ \A v \in Workers \ {w} :
              pc'[v] = pc[v] /\ req'[v] = req[v] /\ copy'[v] = copy[v]
<1>1. req' \in [Workers -> Registration \cup Credentials \cup Profile
                           \cup {NoRequest}]
  BY DEF TypeOK, Answer
<1>2. copy' \in [Workers -> UserRow \cup {NoRow}]
  BY DEF TypeOK, Answer
<1>3. answer' \in [Workers -> Answers]
  BY DEF TypeOK, Answer
<1>4. pc'[w] = "idle" /\ answer'[w] = status
  BY DEF TypeOK, Answer
<1>5. HandlerOK(w)'
  BY <1>4 DEF HandlerOK
<1> QED
  BY <1>1, <1>2, <1>3, <1>4, <1>5 DEF TypeOK, Answer

\* A label of the handlers.
LEMMA GotoOf ==
  ASSUME TypeOK, NEW w \in Workers, NEW label, Goto(w, label),
         label \in {"idle", "check", "insert", "login", "find", "save", "reply"}
  PROVE  /\ pc' \in [Workers -> {"idle", "check", "insert", "login", "find",
                                 "save", "reply"}]
         /\ pc'[w] = label /\ req' = req /\ answer' = answer
         /\ \A v \in Workers \ {w} : pc'[v] = pc[v] /\ req'[v] = req[v]
BY DEF TypeOK, Goto

----------------------------------------------------------------------------

\* A request that answers without a change of the tables.
LEMMA AnsweringPreserves ==
  ASSUME IInv, NEW w \in Workers, NEW status \in Answers, Answer(w, status),
         UNCHANGED <<user, tokens, told>>
  PROVE  IInv' /\ KeepsAccounts
<1>1. TypeOK'
  BY AnswerOf DEF IInv, TypeOK
<1>2. /\ KeepsAccounts /\ PhonesAreTrimmed' /\ OnePerPhone'
      /\ TokensAreCurrent' /\ ToldHaveAccounts'
  BY TableUntouched
<1>3. HandlersOK'
  BY <1>2, AnswerOf, OthersStay DEF IInv
<1> QED
  BY <1>1, <1>2, <1>3 DEF IInv

\* A refused request changes nothing but its answer.
LEMMA RefusePreserves ==
  ASSUME IInv, NEW w \in Workers, Refuse(w)
  PROVE  IInv' /\ KeepsAccounts
<1>1. answer' \in [Workers -> Answers]
  BY DEF IInv, TypeOK, Refuse, Answers
<1>2. UNCHANGED <<user, pc, req, copy, tokens, told>>
  BY DEF Refuse
<1>3. TypeOK'
  BY <1>1, <1>2 DEF IInv, TypeOK
<1>4. /\ KeepsAccounts /\ PhonesAreTrimmed' /\ OnePerPhone'
      /\ TokensAreCurrent' /\ ToldHaveAccounts'
  BY <1>2, TableUntouched
<1>5. HandlersOK'
  BY <1>2, <1>4, HandlerStays DEF IInv, HandlersOK
<1> QED
  BY <1>3, <1>4, <1>5 DEF IInv

\* An arriving request is well formed; a profile request carries a token.
LEMMA ArrivePreserves ==
  ASSUME IInv, NEW w \in Workers, Arrive(w)
  PROVE  IInv' /\ KeepsAccounts
<1>1. PICK q, label :
        /\ Begin(w, q, label)
        /\ \/ label = "check" /\ q \in Registration
           \/ label = "login" /\ q \in Credentials
           \/ label = "find" /\ q \in Profile /\ \E t \in tokens : t.id = q.id
  BY DEF Arrive
<1>2. UNCHANGED <<user, copy, tokens, told>>
  BY <1>1 DEF Begin
<1>3. pc'[w] = label /\ req'[w] = q
  BY <1>1 DEF Begin, IInv, TypeOK
<1>4. TypeOK'
  <2>1. q \in Registration \cup Credentials \cup Profile \cup {NoRequest}
    BY <1>1
  <2>2. req' \in [Workers -> Registration \cup Credentials \cup Profile
                             \cup {NoRequest}]
    BY <1>1, <2>1 DEF Begin, IInv, TypeOK
  <2>3. pc' \in [Workers -> {"idle", "check", "insert", "login", "find",
                             "save", "reply"}]
    BY <1>1 DEF Begin, IInv, TypeOK
  <2>4. answer' \in [Workers -> Answers]
    BY <1>1 DEF Begin, IInv, TypeOK, Answers
  <2> QED
    BY <1>2, <2>2, <2>3, <2>4 DEF IInv, TypeOK
<1>5. /\ KeepsAccounts /\ PhonesAreTrimmed' /\ OnePerPhone'
      /\ TokensAreCurrent' /\ ToldHaveAccounts'
  BY <1>2, TableUntouched
<1>6. HandlerOK(w)'
  <2>1. label = "find" => user'[q.id] # NoRow
    BY <1>1, <1>2 DEF IInv, TokensAreCurrent
  <2> QED
    BY <1>1, <1>3, <2>1 DEF HandlerOK
<1>7. \A v \in Workers \ {w} :
        pc'[v] = pc[v] /\ req'[v] = req[v] /\ copy'[v] = copy[v]
  BY <1>1 DEF Begin, IInv, TypeOK
<1>8. HandlersOK'
  BY <1>5, <1>6, <1>7, OthersStay
<1> QED
  BY <1>4, <1>5, <1>8 DEF IInv

\* The look-up before the insert.
LEMMA CheckPhonePreserves ==
  ASSUME IInv, NEW w \in Workers, CheckPhone(w)
  PROVE  IInv' /\ KeepsAccounts
<1>1. UNCHANGED <<user, tokens, told>>
  BY DEF CheckPhone
<1>2. CASE Answer(w, 400)
  BY <1>1, <1>2, AnsweringPreserves DEF Answers
<1>3. CASE Goto(w, "insert") /\ UNCHANGED copy
  <2>1. TypeOK'
    BY <1>1, <1>3, GotoOf DEF IInv, TypeOK
  <2>2. /\ KeepsAccounts /\ PhonesAreTrimmed' /\ OnePerPhone'
        /\ TokensAreCurrent' /\ ToldHaveAccounts'
    BY <1>1, TableUntouched
  <2>3. HandlerOK(w) /\ pc[w] = "check"
    BY DEF CheckPhone, IInv, HandlersOK
  <2>4. pc'[w] = "insert" /\ req' = req
    BY <1>3, GotoOf DEF IInv
  <2>5. HandlerOK(w)'
    BY <2>3, <2>4 DEF HandlerOK
  <2>6. \A v \in Workers \ {w} :
          pc'[v] = pc[v] /\ req'[v] = req[v] /\ copy'[v] = copy[v]
    BY <1>3, GotoOf DEF IInv
  <2>7. HandlersOK'
    BY <2>2, <2>5, <2>6, OthersStay
  <2> QED
    BY <2>1, <2>2, <2>7 DEF IInv
<1> QED
  BY <1>2, <1>3 DEF CheckPhone

\* The types of the handler's own state after a statement has committed.
LEMMA CommittedOf ==
  ASSUME TypeOK, NEW w \in Workers, Committed(w)
  PROVE  /\ pc' \in [Workers -> {"idle", "check", "insert", "login", "find",
                                 "save", "reply"}]
         /\ req' \in [Workers -> Registration \cup Credentials \cup Profile
                                 \cup {NoRequest}]
         /\ copy' \in [Workers -> UserRow \cup {NoRow}]
         /\ answer' \in [Workers -> Answers]
         /\ pc'[w] = "idle" \/ (pc'[w] = "reply" /\ req'[w] = req[w])
         /\ pc'[w] = "idle" => answer'[w] = 500
         /\ \A v \in Workers \ {w} :
              pc'[v] = pc[v] /\ req'[v] = req[v] /\ copy'[v] = copy[v]
<1>1. CASE Answer(w, 500)
  BY <1>1, AnswerOf DEF Answers
<1>2. CASE Goto(w, "reply") /\ UNCHANGED copy
  BY <1>2, GotoOf DEF TypeOK
<1> QED
  BY <1>1, <1>2 DEF Committed

\* What a registration inserts is a row with the trimmed number.
LEMMA NewUserIsRow ==
  ASSUME NEW q \in Registration
  PROVE  /\ NewUser(q) \in UserRow
         /\ NewUser(q).phone = Trim(q.phone)
         /\ NewUser(q).phone.number = q.phone.number
         /\ NewUser(q).phone.spaces = FALSE
         /\ NewUser(q).password = q.password
<1>1. q.phone \in Phones /\ q.password \in Passwords
      /\ q.role \in Roles \cup {Blank} /\ q.name \in Texts \cup {Blank}
  BY DEF Registration
<1>2. Trim(q.phone) \in Phones /\ Trim(q.phone).number = q.phone.number
      /\ Trim(q.phone).spaces = FALSE
  BY <1>1 DEF Trim, Phones
<1>3. NewUser(q).phone = Trim(q.phone) /\ NewUser(q).password = q.password
  BY DEF NewUser
<1>4. (IF q.role = Blank THEN "worker" ELSE q.role) \in Roles
  BY <1>1 DEF Roles
<1>5. NewUser(q) \in UserRow
  BY <1>1, <1>2, <1>4 DEF NewUser, UserRow
<1> QED
  BY <1>2, <1>3, <1>5

\* The shape of an insert: one free key gets the row, and no other account has
\* its number.
LEMMA InsertShape ==
  ASSUME IInv, NEW w \in Workers, Insert(w)
  PROVE  \E u \in Users :
           /\ user[u] = NoRow
           /\ req[w] \in Registration
           /\ user' = [user EXCEPT ![u] = NewUser(req[w])]
           /\ \A v \in Present :
                user[v].phone.number # req[w].phone.number
<1>1. PICK u \in Users : /\ user[u] = NoRow
                         /\ user' = [user EXCEPT ![u] = NewUser(req[w])]
  BY DEF Insert
<1>2. req[w] \in Registration
  BY DEF Insert, IInv, HandlersOK, HandlerOK
<1>3. ASSUME NEW v \in Present PROVE user[v].phone.number # req[w].phone.number
  <2>1. user[v].phone # Trim(req[w].phone)
    BY DEF Insert, WithPhone
  <2>2. user[v].phone \in Phones /\ user[v].phone.spaces = FALSE
    BY DEF IInv, TypeOK, PhonesAreTrimmed, Present, UserRow
  <2>3. req[w].phone \in Phones
    BY <1>2 DEF Registration
  <2> QED
    BY <2>1, <2>2, <2>3 DEF Trim, Phones
<1> QED
  BY <1>1, <1>2, <1>3

\* The unique index: the row that is inserted has a number of its own.
LEMMA InsertPreserves ==
  ASSUME IInv, NEW w \in Workers, Insert(w)
  PROVE  IInv' /\ KeepsAccounts
<1> USE ConstantsAssumption
<1>1. PICK u \in Users :
        /\ user[u] = NoRow
        /\ req[w] \in Registration
        /\ user' = [user EXCEPT ![u] = NewUser(req[w])]
        /\ \A v \in Present : user[v].phone.number # req[w].phone.number
  BY InsertShape
<1>2. PICK new : new = NewUser(req[w])
  OBVIOUS
<1>3. /\ new \in UserRow /\ new.phone.spaces = FALSE
      /\ new.phone.number = req[w].phone.number
      /\ new.password = req[w].password
  BY <1>1, <1>2, NewUserIsRow
<1>4. user'[u] = new /\ user'[u] # NoRow /\ u \notin Present
  BY <1>1, <1>2, <1>3 DEF IInv, TypeOK, Present
<1>5. \A v \in Users \ {u} : user'[v] = user[v]
  BY <1>1 DEF IInv, TypeOK
<1>6. UNCHANGED <<tokens, told>> /\ Committed(w)
  BY DEF Insert
<1>7. TypeOK'
  <2>1. user' \in [Users -> UserRow \cup {NoRow}]
    BY <1>1, <1>2, <1>3 DEF IInv, TypeOK
  <2> QED
    BY <2>1, <1>6, CommittedOf DEF IInv, TypeOK
<1>8. KeepsAccounts
  BY <1>4, <1>5 DEF KeepsAccounts, Present, SameAccount
<1>9. PhonesAreTrimmed'
  BY <1>3, <1>4, <1>5 DEF IInv, PhonesAreTrimmed, Present
<1>10. OnePerPhone'
  <2>1. SUFFICES ASSUME NEW x \in Present', NEW y \in Present',
                        user'[x].phone.number = user'[y].phone.number, x # y
                 PROVE  FALSE
    BY DEF OnePerPhone
  <2>2. \A z \in Present' : z = u \/ (z \in Present /\ user'[z] = user[z])
    BY <1>5 DEF Present
  <2>3. CASE x # u /\ y # u
    BY <2>1, <2>2, <2>3 DEF IInv, OnePerPhone
  <2>4. CASE x = u
    BY <2>1, <2>2, <2>4, <1>1, <1>3, <1>4
  <2>5. CASE y = u
    BY <2>1, <2>2, <2>5, <1>1, <1>3, <1>4
  <2> QED
    BY <2>3, <2>4, <2>5
<1>11. TokensAreCurrent' /\ ToldHaveAccounts'
  BY <1>6, <1>8, TokensStay, ToldStay DEF IInv
<1>12. HandlersOK'
  <2>1. HandlerOK(w)'
    <3>1. pc'[w] = "idle" \/ (pc'[w] = "reply" /\ req'[w] = req[w])
      BY <1>6, CommittedOf DEF IInv
    <3>2. req'[w] = req[w] => HasAccount(req[w].phone.number, req[w].password)'
      BY <1>3, <1>4 DEF HasAccount, Present
    <3> QED
      BY <3>1, <3>2 DEF HandlerOK, HasAccount
  <2> QED
    BY <1>6, <1>8, <2>1, CommittedOf, OthersStay DEF IInv
<1> QED
  BY <1>7, <1>8, <1>9, <1>10, <1>11, <1>12 DEF IInv

\* The token a login hands out is drawn from the row it read.
LEMMA LoginPreserves ==
  ASSUME IInv, NEW w \in Workers, Login(w)
  PROVE  IInv' /\ KeepsAccounts
<1>1. UNCHANGED <<user, told>>
  BY DEF Login
<1>2. CASE Answer(w, 401) /\ UNCHANGED tokens
  BY <1>1, <1>2, AnsweringPreserves DEF Answers
<1>3. CASE \E u \in Present :
             /\ tokens' = tokens \cup {[id |-> u, phone |-> user[u].phone,
                                        role |-> user[u].role]}
             /\ Answer(w, 200)
  <2>1. PICK u \in Present :
             /\ tokens' = tokens \cup {[id |-> u, phone |-> user[u].phone,
                                        role |-> user[u].role]}
             /\ Answer(w, 200)
    BY <1>3
  <2>2. u \in Users /\ user[u] # NoRow /\ user[u] \in UserRow
    BY DEF IInv, TypeOK, Present
  <2>3. tokens' \subseteq Token
    BY <2>1, <2>2 DEF IInv, TypeOK, Token, UserRow
  <2>4. TypeOK'
    BY <1>1, <2>1, <2>3, AnswerOf DEF IInv, TypeOK, Answers
  <2>5. TokensAreCurrent'
    BY <1>1, <2>1, <2>2 DEF IInv, TokensAreCurrent
  <2>6. KeepsAccounts
    BY <1>1 DEF KeepsAccounts, Present, SameAccount
  <2>7. PhonesAreTrimmed' /\ OnePerPhone'
    BY <1>1 DEF IInv, PhonesAreTrimmed, OnePerPhone, Present
  <2>8. ToldHaveAccounts'
    BY <1>1, <2>6, ToldStay DEF IInv
  <2>9. HandlersOK'
    BY <2>1, <2>6, AnswerOf, OthersStay DEF IInv, Answers
  <2> QED
    BY <2>4, <2>5, <2>6, <2>7, <2>8, <2>9 DEF IInv
<1>4. \A u \in WithPhone(req[w].phone) : u \in Present
  BY DEF WithPhone
<1> QED
  BY <1>2, <1>3, <1>4 DEF Login

\* The row a profile update reads is a copy of the account of its token.
LEMMA FindUserPreserves ==
  ASSUME IInv, NEW w \in Workers, FindUser(w)
  PROVE  IInv' /\ KeepsAccounts
<1>1. UNCHANGED <<user, tokens, told>>
  BY DEF FindUser
<1>2. CASE Answer(w, 500)
  BY <1>1, <1>2, AnsweringPreserves DEF Answers
<1>3. CASE /\ Goto(w, "save")
           /\ copy' = [copy EXCEPT ![w] = user[req[w].id]]
  <2>1. req[w] \in Profile /\ user[req[w].id] # NoRow
    BY DEF FindUser, IInv, HandlersOK, HandlerOK
  <2>2. user[req[w].id] \in UserRow
    BY <2>1 DEF IInv, TypeOK, Profile
  <2>3. copy' \in [Workers -> UserRow \cup {NoRow}]
        /\ copy'[w] = user[req[w].id]
    BY <1>3, <2>2 DEF IInv, TypeOK
  <2>4. TypeOK'
    BY <1>1, <1>3, <2>3, GotoOf DEF IInv, TypeOK
  <2>5. /\ KeepsAccounts /\ PhonesAreTrimmed' /\ OnePerPhone'
        /\ TokensAreCurrent' /\ ToldHaveAccounts'
    BY <1>1, TableUntouched
  <2>6. pc'[w] = "save" /\ req' = req
    BY <1>3, GotoOf DEF IInv
  <2>7. HandlerOK(w)'
    BY <1>1, <2>1, <2>2, <2>3, <2>6 DEF HandlerOK, SameAccount
  <2>8. \A v \in Workers \ {w} :
          pc'[v] = pc[v] /\ req'[v] = req[v] /\ copy'[v] = copy[v]
    BY <1>3, GotoOf DEF IInv, TypeOK
  <2>9. HandlersOK'
    BY <2>5, <2>7, <2>8, OthersStay
  <2> QED
    BY <2>4, <2>5, <2>9 DEF IInv
<1> QED
  BY <1>2, <1>3 DEF FindUser

\* What a profile update saves is a row of the same account.
LEMMA UpdatedIsRow ==
  ASSUME NEW q \in Profile, NEW r \in UserRow
  PROVE  Updated(q, r) \in UserRow /\ SameAccount(Updated(q, r), r)
<1>1. (IF q.name = Blank THEN r.name ELSE q.name) \in Texts \cup {Blank}
  BY DEF Profile, UserRow
<1>2. (IF q.avatar = Blank THEN r.avatar ELSE q.avatar) \in Texts \cup {Blank}
  BY DEF Profile, UserRow
<1> QED
  BY <1>1, <1>2 DEF Updated, UserRow, SameAccount

\* A profile update writes the whole row from its copy: the account stays the
\* same, for the copy is stale in name and avatar only.
LEMMA SaveProfilePreserves ==
  ASSUME IInv, NEW w \in Workers, SaveProfile(w)
  PROVE  IInv' /\ KeepsAccounts
<1> USE ConstantsAssumption
<1>1. UNCHANGED <<tokens, told>> /\ Committed(w)
      /\ user' = [user EXCEPT ![req[w].id] = Updated(req[w], copy[w])]
  BY DEF SaveProfile
<1>2. /\ req[w] \in Profile /\ copy[w] \in UserRow
      /\ user[req[w].id] # NoRow
      /\ SameAccount(copy[w], user[req[w].id])
  BY DEF SaveProfile, IInv, HandlersOK, HandlerOK
<1>3. PICK u, new : u = req[w].id /\ new = Updated(req[w], copy[w])
  OBVIOUS
<1>4. u \in Users /\ user[u] # NoRow /\ user[u] \in UserRow
  BY <1>2, <1>3 DEF Profile, IInv, TypeOK
<1>5. new \in UserRow /\ new # NoRow /\ SameAccount(new, user[u])
  BY <1>2, <1>3, UpdatedIsRow DEF SameAccount
<1>6. user' = [user EXCEPT ![u] = new]
  BY <1>1, <1>3
<1>7. user'[u] = new /\ \A v \in Users \ {u} : user'[v] = user[v]
  BY <1>4, <1>6 DEF IInv, TypeOK
<1>8. TypeOK'
  <2>1. user' \in [Users -> UserRow \cup {NoRow}]
    BY <1>5, <1>6 DEF IInv, TypeOK
  <2> QED
    BY <2>1, <1>1, CommittedOf DEF IInv, TypeOK
<1>9. KeepsAccounts
  BY <1>5, <1>7 DEF KeepsAccounts, Present, SameAccount
<1>10. Present' = Present /\ \A v \in Present : user'[v].phone = user[v].phone
  BY <1>4, <1>5, <1>7 DEF Present, SameAccount
<1>11. PhonesAreTrimmed' /\ OnePerPhone'
  BY <1>10 DEF IInv, PhonesAreTrimmed, OnePerPhone
<1>12. TokensAreCurrent' /\ ToldHaveAccounts'
  BY <1>1, <1>9, TokensStay, ToldStay DEF IInv
<1>13. HandlersOK'
  <2>1. HandlerOK(w)'
    <3>1. pc'[w] = "idle" \/ (pc'[w] = "reply" /\ req'[w] = req[w])
      BY <1>1, CommittedOf DEF IInv
    <3>2. req[w].op = "profile"
      BY <1>2 DEF Profile
    <3> QED
      BY <3>1, <3>2 DEF HandlerOK
  <2> QED
    BY <1>1, <1>9, <2>1, CommittedOf, OthersStay DEF IInv
<1> QED
  BY <1>8, <1>9, <1>11, <1>12, <1>13 DEF IInv

\* Success is told after the commit.
LEMMA ReplyPreserves ==
  ASSUME IInv, NEW w \in Workers, Reply(w)
  PROVE  IInv' /\ KeepsAccounts
<1>1. UNCHANGED <<user, tokens>> /\ Answer(w, 200)
  BY DEF Reply
<1>2. KeepsAccounts
  BY <1>1 DEF KeepsAccounts, Present, SameAccount
<1>3. PhonesAreTrimmed' /\ OnePerPhone' /\ TokensAreCurrent'
  BY <1>1 DEF IInv, PhonesAreTrimmed, OnePerPhone, TokensAreCurrent, Present
<1>4. \A c \in told' : c \in told \/
        /\ c = [phone |-> req[w].phone, password |-> req[w].password]
        /\ req[w].op = "register"
  BY DEF Reply
<1>5. req[w].op = "register" => req[w] \in Registration
  BY DEF IInv, TypeOK, Credentials, Profile, NoRequest
<1>6. told' \subseteq [phone : Phones, password : Passwords]
  BY <1>4, <1>5 DEF IInv, TypeOK, Registration
<1>7. TypeOK'
  BY <1>1, <1>6, AnswerOf DEF IInv, TypeOK, Answers
<1>8. ToldHaveAccounts'
  <2> SUFFICES ASSUME NEW c \in told' PROVE HasAccount(c.phone.number, c.password)'
    BY DEF ToldHaveAccounts
  <2>1. HasAccount(c.phone.number, c.password)
    <3>1. CASE c \in told
      BY <3>1 DEF IInv, ToldHaveAccounts
    <3>2. CASE c \notin told
      BY <3>2, <1>4 DEF Reply, IInv, HandlersOK, HandlerOK
    <3> QED
      BY <3>1, <3>2
  <2> QED
    BY <1>2, <2>1, AccountsStay
<1>9. HandlersOK'
  BY <1>1, <1>2, AnswerOf, OthersStay DEF IInv, Answers
<1> QED
  BY <1>2, <1>3, <1>7, <1>8, <1>9 DEF IInv

\* A token expires.
LEMMA ExpirePreserves ==
  ASSUME IInv, Expire PROVE IInv' /\ KeepsAccounts
<1>1. UNCHANGED <<user, pc, req, copy, answer, told>> /\ tokens' \subseteq tokens
  BY DEF Expire
<1>2. TypeOK'
  BY <1>1 DEF IInv, TypeOK
<1>3. /\ KeepsAccounts /\ PhonesAreTrimmed' /\ OnePerPhone'
      /\ TokensAreCurrent' /\ ToldHaveAccounts'
  BY <1>1, TableUntouched
<1>4. HandlersOK'
  BY <1>1, <1>3, HandlerStays DEF IInv, HandlersOK
<1> QED
  BY <1>2, <1>3, <1>4 DEF IInv

\* A restart forgets the handlers, not the tables.
LEMMA CrashPreserves ==
  ASSUME IInv, Crash PROVE IInv' /\ KeepsAccounts
<1>1. UNCHANGED <<user, tokens, told>>
  BY DEF Crash
<1>2. TypeOK'
  <2>1. pc' \in [Workers -> {"idle", "check", "insert", "login", "find", "save",
                             "reply"}]
    BY DEF Crash
  <2>2. req' \in [Workers -> Registration \cup Credentials \cup Profile
                             \cup {NoRequest}]
    BY DEF Crash
  <2>3. copy' \in [Workers -> UserRow \cup {NoRow}]
    BY DEF Crash
  <2>4. answer' \in [Workers -> Answers]
    BY DEF Crash, IInv, TypeOK, Answers
  <2> QED
    BY <1>1, <2>1, <2>2, <2>3, <2>4 DEF IInv, TypeOK
<1>3. /\ KeepsAccounts /\ PhonesAreTrimmed' /\ OnePerPhone'
      /\ TokensAreCurrent' /\ ToldHaveAccounts'
  BY <1>1, TableUntouched
<1>4. HandlersOK'
  BY DEF Crash, HandlersOK, HandlerOK
<1> QED
  BY <1>2, <1>3, <1>4 DEF IInv

\* A failed statement is answered 500.
LEMMA DBErrorPreserves ==
  ASSUME IInv, NEW w \in Workers, DBError(w)
  PROVE  IInv' /\ KeepsAccounts
BY AnsweringPreserves DEF DBError, Answers

----------------------------------------------------------------------------

\* Every step keeps the invariant and the accounts.
LEMMA StepPreserves ==
  ASSUME IInv, [Next]_vars PROVE IInv' /\ KeepsAccounts
<1>1. CASE UNCHANGED vars
  <2>1. /\ KeepsAccounts /\ PhonesAreTrimmed' /\ OnePerPhone'
        /\ TokensAreCurrent' /\ ToldHaveAccounts'
    BY <1>1, TableUntouched DEF vars
  <2>2. TypeOK'
    BY <1>1 DEF vars, IInv, TypeOK
  <2>3. HandlersOK'
    BY <1>1, <2>1, HandlerStays DEF vars, IInv, HandlersOK
  <2> QED
    BY <2>1, <2>2, <2>3 DEF IInv
<1>2. CASE Expire
  BY <1>2, ExpirePreserves
<1>3. CASE Crash
  BY <1>3, CrashPreserves
<1>4. CASE \E w \in Workers : Refuse(w) \/ Arrive(w) \/ Handle(w)
  <2>1. PICK w \in Workers : Refuse(w) \/ Arrive(w) \/ Handle(w)
    BY <1>4
  <2>2. CASE Refuse(w)
    BY <2>2, RefusePreserves
  <2>3. CASE Arrive(w)
    BY <2>3, ArrivePreserves
  <2>4. CASE Handle(w)
    BY <2>4, CheckPhonePreserves, InsertPreserves, LoginPreserves,
       FindUserPreserves, SaveProfilePreserves, DBErrorPreserves, ReplyPreserves
       DEF Handle
  <2> QED
    BY <2>1, <2>2, <2>3, <2>4
<1> QED
  BY <1>1, <1>2, <1>3, <1>4 DEF Next

\* The invariant holds in every reachable state.
THEOREM Invariance == Spec => []IInv
<1>1. IInv /\ [Next]_vars => IInv'
  BY StepPreserves
<1> QED
  BY <1>1, InitEstablishes, PTL DEF Spec

\* Rows, requests, copies, answers and tokens stay what they are declared as.
THEOREM TypeCorrect == Spec => []TypeOK
<1>1. IInv => TypeOK
  BY DEF IInv
<1> QED
  BY <1>1, Invariance, PTL

\* Of any number of registrations that passed the check for a number, the unique
\* index (model.User, column phone) lets one through.
THEOREM PhonesAreUnique == Spec => []OnePerPhone
<1>1. IInv => OnePerPhone
  BY DEF IInv
<1> QED
  BY <1>1, Invariance, PTL

\* A token, however old, names an account that still has the phone and the role
\* it was signed with: RequireRole may trust it.
THEOREM TokensStayCurrent == Spec => []TokensAreCurrent
<1>1. IInv => TokensAreCurrent
  BY DEF IInv
<1> QED
  BY <1>1, Invariance, PTL

----------------------------------------------------------------------------

\* Login is what turns a request down, and then no account matches it.
LEMMA TurnedDownByLogin ==
  ASSUME IInv, [Next]_vars, NEW w \in Workers, TurnedDown(w)
  PROVE  {u \in WithPhone(req[w].phone) :
            user[u].password = req[w].password} = {}
<1>1. pc[w] = "login" /\ pc'[w] = "idle" /\ answer'[w] = 401
  BY DEF TurnedDown
<1>2. ~(UNCHANGED vars) /\ ~Expire
  BY <1>1 DEF vars, Expire
<1>3. ~Crash
  BY <1>1 DEF Crash
<1>4. PICK v \in Workers : Refuse(v) \/ Arrive(v) \/ Handle(v)
  BY <1>2, <1>3 DEF Next
<1>5. ~Refuse(v)
  BY <1>1 DEF Refuse
<1>6. ~Arrive(v)
  BY <1>1 DEF Arrive, Begin, IInv, TypeOK
<1>7. pc'[v] # pc[v]
  BY <1>4, <1>5, <1>6 DEF Handle, CheckPhone, Insert, Login, FindUser,
     SaveProfile, DBError, Reply, Committed, Answer, Goto, IInv, TypeOK
<1>8. v = w
  <2>1. \A x \in Workers \ {v} : pc'[x] = pc[x]
    BY <1>4, <1>5, <1>6 DEF Handle, CheckPhone, Insert, Login, FindUser,
       SaveProfile, DBError, Reply, Committed, Answer, Goto, IInv, TypeOK
  <2> QED
    BY <1>1, <2>1
<1>9. ~DBError(w)
  BY <1>1 DEF DBError, Answer, IInv, TypeOK
<1>10. Login(w)
  BY <1>1, <1>4, <1>5, <1>6, <1>8, <1>9 DEF Handle, CheckPhone, Insert,
     FindUser, SaveProfile, Reply
<1>11. ~Answer(w, 200)
  BY <1>1 DEF Answer, IInv, TypeOK
<1> QED
  BY <1>10, <1>11 DEF Login

\* A registered client's account matches what it registered with.
LEMMA StepAdmitsRegistered ==
  ASSUME IInv, [Next]_vars, NEW w \in Workers, TurnedDown(w),
         NEW c \in told, Trim(c.phone) = req[w].phone,
         c.password = req[w].password
  PROVE  FALSE
<1>1. PICK u \in Present : /\ user[u].phone.number = c.phone.number
                           /\ user[u].password = c.password
  BY DEF IInv, ToldHaveAccounts, HasAccount
<1>2. user[u].phone \in Phones /\ user[u].phone.spaces = FALSE
  BY DEF IInv, TypeOK, PhonesAreTrimmed, Present, UserRow
<1>3. c.phone \in Phones
  BY DEF IInv, TypeOK
<1>4. user[u].phone = Trim(c.phone)
  BY <1>1, <1>2, <1>3 DEF Trim, Phones
<1>5. u \in {x \in WithPhone(req[w].phone) :
               user[x].password = req[w].password}
  BY <1>1, <1>4 DEF WithPhone
<1> QED
  BY <1>5, TurnedDownByLogin

\* A client that was told of its registration is not turned down with the
\* number and the password it registered, although the number it typed may
\* have carried spaces and login does not trim.
THEOREM RegisteredClientsLogIn == Spec => RegisteredCanLogIn
<1> DEFINE Admits ==
      \A w \in Workers : TurnedDown(w) =>
        \A c \in told : Trim(c.phone) = req[w].phone =>
                          c.password # req[w].password
<1>1. IInv /\ [Next]_vars => [Admits]_vars
  BY StepAdmitsRegistered
<1> QED
  BY <1>1, Invariance, PTL DEF Spec, RegisteredCanLogIn

----------------------------------------------------------------------------
\* The refinement of AccountRegistry.

\* The refinement mapping, for a table held fixed.
AccountsIn(t) ==
  [n \in Numbers |->
     IF \E u \in Users : t[u] # NoRow /\ t[u].phone.number = n
     THEN LET u == CHOOSE v \in Users : t[v] # NoRow /\ t[v].phone.number = n
          IN  [password |-> t[u].password, role |-> t[u].role]
     ELSE NoAccount]

\* It is the mapping of the model, before and after a step.
LEMMA MappingOfTable ==
  /\ AccountOfNumber = AccountsIn(user)
  /\ AccountOfNumber' = AccountsIn(user')
<1>1. ASSUME NEW t, NEW n
      PROVE  /\ (\E u \in {v \in Users : t[v] # NoRow} : t[u].phone.number = n)
                  <=> \E u \in Users : t[u] # NoRow /\ t[u].phone.number = n
             /\ (CHOOSE u \in {v \in Users : t[v] # NoRow} : t[u].phone.number = n)
                  = CHOOSE u \in Users : t[u] # NoRow /\ t[u].phone.number = n
  OBVIOUS
<1> QED
  BY <1>1, Zenon DEF AccountOfNumber, AccountsIn, Present

\* A phone number is taken by at most one row of t.
OneIn(t) ==
  \A u, v \in Users :
    /\ t[u] # NoRow /\ t[v] # NoRow
    /\ t[u].phone.number = t[v].phone.number
    => u = v

\* With unique numbers the mapping gives a number its account.
LEMMA AccountOfTaken ==
  ASSUME NEW t, OneIn(t), NEW u \in Users, t[u] # NoRow,
         t[u].phone.number \in Numbers
  PROVE  AccountsIn(t)[t[u].phone.number] =
           [password |-> t[u].password, role |-> t[u].role]
<1>1. PICK n : n = t[u].phone.number
  OBVIOUS
<1>2. PICK v : v = CHOOSE x \in Users : t[x] # NoRow /\ t[x].phone.number = n
  OBVIOUS
<1>3. v \in Users /\ t[v] # NoRow /\ t[v].phone.number = n
  BY <1>1, <1>2
<1>4. v = u
  BY <1>1, <1>3 DEF OneIn
<1>5. AccountsIn(t)[n] = [password |-> t[v].password, role |-> t[v].role]
  BY <1>1, <1>2, <1>3 DEF AccountsIn
<1> QED
  BY <1>1, <1>4, <1>5

\* A number nobody has is free.
LEMMA AccountOfFree ==
  ASSUME NEW t, NEW n \in Numbers,
         \A u \in Users : t[u] # NoRow => t[u].phone.number # n
  PROVE  AccountsIn(t)[n] = NoAccount
BY DEF AccountsIn

\* The mapping is a state of the registry.
LEMMA MappingType ==
  ASSUME NEW t \in [Users -> UserRow \cup {NoRow}], OneIn(t)
  PROVE  AccountsIn(t) \in [Numbers -> Registry!Account \cup {NoAccount}]
<1> SUFFICES ASSUME NEW n \in Numbers
             PROVE  AccountsIn(t)[n] \in Registry!Account \cup {NoAccount}
  BY DEF AccountsIn
<1>1. CASE \E u \in Users : t[u] # NoRow /\ t[u].phone.number = n
  <2>1. PICK u \in Users : t[u] # NoRow /\ t[u].phone.number = n
    BY <1>1
  <2>2. t[u].password \in Passwords /\ t[u].role \in Roles
    BY <2>1 DEF UserRow
  <2>3. AccountsIn(t)[n] = [password |-> t[u].password, role |-> t[u].role]
    BY <2>1, AccountOfTaken
  <2> QED
    BY <2>2, <2>3 DEF Registry!Account
<1>2. CASE ~\E u \in Users : t[u] # NoRow /\ t[u].phone.number = n
  BY <1>2, AccountOfFree
<1> QED
  BY <1>1, <1>2

\* Rows of the same accounts map to the same registry.
LEMMA SameMapping ==
  ASSUME NEW s \in [Users -> UserRow \cup {NoRow}], OneIn(s),
         NEW t \in [Users -> UserRow \cup {NoRow}], OneIn(t),
         \A u \in Users : s[u] # NoRow <=> t[u] # NoRow,
         \A u \in Users : s[u] # NoRow => SameAccount(t[u], s[u])
  PROVE  AccountsIn(t) = AccountsIn(s)
<1> SUFFICES ASSUME NEW n \in Numbers
             PROVE  AccountsIn(t)[n] = AccountsIn(s)[n]
  BY DEF AccountsIn
<1>1. CASE \E u \in Users : s[u] # NoRow /\ s[u].phone.number = n
  <2>1. PICK u \in Users : s[u] # NoRow /\ s[u].phone.number = n
    BY <1>1
  <2>2. t[u] # NoRow /\ t[u].phone = s[u].phone /\ t[u].role = s[u].role
        /\ t[u].password = s[u].password
    BY <2>1 DEF SameAccount
  <2>3. AccountsIn(s)[n] = [password |-> s[u].password, role |-> s[u].role]
    BY <2>1, AccountOfTaken
  <2>4. AccountsIn(t)[n] = [password |-> t[u].password, role |-> t[u].role]
    BY <2>1, <2>2, AccountOfTaken
  <2> QED
    BY <2>2, <2>3, <2>4
<1>2. CASE ~\E u \in Users : s[u] # NoRow /\ s[u].phone.number = n
  <2>1. \A u \in Users : t[u] # NoRow => t[u].phone.number # n
    BY <1>2 DEF SameAccount
  <2> QED
    BY <1>2, <2>1, AccountOfFree
<1> QED
  BY <1>1, <1>2

\* A new row with a free number takes that number and no other.
LEMMA NewMapping ==
  ASSUME NEW s \in [Users -> UserRow \cup {NoRow}], OneIn(s),
         NEW t \in [Users -> UserRow \cup {NoRow}], OneIn(t),
         NEW u \in Users, s[u] = NoRow, t[u] # NoRow,
         \A v \in Users \ {u} : t[v] = s[v],
         NEW n \in Numbers, t[u].phone.number = n,
         \A v \in Users : s[v] # NoRow => s[v].phone.number # n
  PROVE  /\ AccountsIn(s)[n] = NoAccount
         /\ AccountsIn(t) =
              [AccountsIn(s) EXCEPT ![n] =
                 [password |-> t[u].password, role |-> t[u].role]]
<1>1. AccountsIn(s)[n] = NoAccount
  BY AccountOfFree
<1>2. AccountsIn(t)[n] = [password |-> t[u].password, role |-> t[u].role]
  BY AccountOfTaken
<1>3. ASSUME NEW m \in Numbers, m # n PROVE AccountsIn(t)[m] = AccountsIn(s)[m]
  <2>1. CASE \E v \in Users : s[v] # NoRow /\ s[v].phone.number = m
    <3>1. PICK v \in Users : s[v] # NoRow /\ s[v].phone.number = m
      BY <2>1
    <3>2. t[v] = s[v]
      BY <3>1
    <3>3. AccountsIn(s)[m] = [password |-> s[v].password, role |-> s[v].role]
      BY <3>1, AccountOfTaken
    <3>4. AccountsIn(t)[m] = [password |-> t[v].password, role |-> t[v].role]
      BY <3>1, <3>2, AccountOfTaken
    <3> QED
      BY <3>2, <3>3, <3>4
  <2>2. CASE ~\E v \in Users : s[v] # NoRow /\ s[v].phone.number = m
    <3>1. \A v \in Users : t[v] # NoRow => t[v].phone.number # m
      BY <2>2, <1>3
    <3> QED
      BY <2>2, <3>1, AccountOfFree
  <2> QED
    BY <2>1, <2>2
<1>4. PICK f, g : f = AccountsIn(s) /\ g = AccountsIn(t)
  OBVIOUS
<1>5. f = [m \in Numbers |-> f[m]] /\ g = [m \in Numbers |-> g[m]]
  BY <1>4 DEF AccountsIn
<1>6. g = [f EXCEPT ![n] = [password |-> t[u].password, role |-> t[u].role]]
  BY <1>2, <1>3, <1>4, <1>5
<1> QED
  BY <1>1, <1>4, <1>6

\* A step other than an insert neither adds nor removes an account.
LEMMA OnlyInsertAdds ==
  ASSUME IInv, [Next]_vars, ~\E w \in Workers : Insert(w)
  PROVE  Present' = Present
<1>1. CASE UNCHANGED user
  BY <1>1 DEF Present
<1>2. CASE \E w \in Workers : SaveProfile(w)
  <2>1. PICK w \in Workers : SaveProfile(w)
    BY <1>2
  <2>2. user' = [user EXCEPT ![req[w].id] = Updated(req[w], copy[w])]
        /\ req[w] \in Profile /\ user[req[w].id] # NoRow
    BY <2>1 DEF SaveProfile, IInv, HandlersOK, HandlerOK
  <2>3. \A v \in Users : v # req[w].id => user'[v] = user[v]
    BY <2>2 DEF IInv, TypeOK
  <2>4. KeepsAccounts
    BY StepPreserves
  <2> QED
    BY <2>2, <2>3, <2>4 DEF Present, KeepsAccounts
<1> QED
  BY <1>1, <1>2 DEF Next, vars, Expire, Crash, Refuse, Arrive, Begin, Handle,
     CheckPhone, Login, FindUser, DBError, Reply

\* A step of the service is a registration or leaves the registry as it is.
LEMMA StepRefines ==
  ASSUME IInv, IInv', [Next]_vars
  PROVE  [Registry!Next]_AccountOfNumber
<1>1. KeepsAccounts
  BY StepPreserves
<1>2. PICK s, t : s = user /\ t = user'
  OBVIOUS
<1>3. /\ s \in [Users -> UserRow \cup {NoRow}] /\ OneIn(s)
      /\ t \in [Users -> UserRow \cup {NoRow}] /\ OneIn(t)
  BY <1>2 DEF IInv, TypeOK, OnePerPhone, OneIn, Present
<1>4. AccountOfNumber = AccountsIn(s) /\ AccountOfNumber' = AccountsIn(t)
  BY <1>2, MappingOfTable
<1>5. CASE ~\E w \in Workers : Insert(w)
  <2>1. \A u \in Users : s[u] # NoRow <=> t[u] # NoRow
    BY <1>2, <1>5, OnlyInsertAdds DEF Present
  <2>2. \A u \in Users : s[u] # NoRow => SameAccount(t[u], s[u])
    BY <1>1, <1>2 DEF KeepsAccounts, Present
  <2>3. AccountsIn(t) = AccountsIn(s)
    BY <1>3, <2>1, <2>2, SameMapping
  <2> QED
    BY <1>4, <2>3
<1>6. CASE \E w \in Workers : Insert(w)
  <2>1. PICK w \in Workers : Insert(w)
    BY <1>6
  <2>2. PICK u \in Users :
           /\ user[u] = NoRow
           /\ req[w] \in Registration
           /\ user' = [user EXCEPT ![u] = NewUser(req[w])]
           /\ \A v \in Present :
                user[v].phone.number # req[w].phone.number
    BY <2>1, InsertShape
  <2>3. PICK n, new : n = req[w].phone.number /\ new = NewUser(req[w])
    OBVIOUS
  <2>4. new \in UserRow /\ new.phone.number = n /\ n \in Numbers
    BY <2>2, <2>3, NewUserIsRow DEF Registration, Phones
  <2>5. t[u] = new /\ \A v \in Users \ {u} : t[v] = s[v]
    BY <1>2, <2>2, <2>3 DEF IInv, TypeOK
  <2>6. s[u] = NoRow /\ t[u] # NoRow
    BY <1>2, <2>2, <2>4, <2>5, ConstantsAssumption
  <2>7. \A v \in Users : s[v] # NoRow => s[v].phone.number # n
    BY <1>2, <2>2, <2>3 DEF Present
  <2>8. PICK a : a = [password |-> new.password, role |-> new.role]
    OBVIOUS
  <2>9. a \in Registry!Account
    BY <2>4, <2>8 DEF Registry!Account, UserRow
  <2>10. /\ AccountsIn(s)[n] = NoAccount
         /\ AccountsIn(t) = [AccountsIn(s) EXCEPT ![n] = a]
    BY <1>3, <2>4, <2>5, <2>6, <2>7, <2>8, NewMapping
  <2>11. Registry!Register(n, a)
    BY <1>4, <2>10 DEF Registry!Register
  <2>12. Registry!Next
    BY <2>4, <2>9, <2>11 DEF Registry!Next
  <2> QED
    BY <2>12
<1> QED
  BY <1>5, <1>6

\* Registration implements AccountRegistry: checked, inserted and rewritten from
\* stale copies, a number is taken once, in one step, and its account keeps the
\* password and the role it was registered with.
THEOREM RegistrationRefines == Spec => RegistrationIsAtomic
<1>1. Init => Registry!Init
  <2> SUFFICES ASSUME Init PROVE Registry!Init
    OBVIOUS
  <2>1. PICK t : t = user
    OBVIOUS
  <2>2. t \in [Users -> UserRow \cup {NoRow}] /\ OneIn(t)
    BY <2>1, InitEstablishes DEF IInv, TypeOK, OnePerPhone, OneIn, Present
  <2>3. AccountOfNumber = AccountsIn(t)
    BY <2>1, MappingOfTable
  <2> QED
    BY <2>2, <2>3, MappingType DEF Registry!Init
<1>2. IInv /\ IInv' /\ [Next]_vars => [Registry!Next]_AccountOfNumber
  BY StepRefines
<1> QED
  BY <1>1, <1>2, Invariance, PTL DEF Spec, Registry!Spec, RegistrationIsAtomic

============================================================================
