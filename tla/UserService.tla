---------------------------- MODULE UserService ----------------------------
(***************************************************************************)
(* Accounts: registration looks the phone number up and then inserts, two  *)
(* statements that only the unique index of the column holds together;     *)
(* login signs a token with the role it read; a profile update reads the   *)
(* account of a token and writes the whole row back.                       *)
(***************************************************************************)
EXTENDS Naturals

CONSTANTS Users,      \* primary keys of table users
          Numbers,    \* phone numbers without surrounding spaces
          Passwords,
          Texts,      \* non-empty names and avatar paths
          Blank,      \* a field that is empty or left out
          AskedRoles, \* roles clients register with, or Blank
          Workers, NoRow, NoAccount

VARIABLES user,    \* table users
          pc, req, copy, answer,
          tokens,  \* tokens that were handed out and have not expired
          told     \* history: registrations that were answered 200

vars == <<user, pc, req, copy, answer, tokens, told>>

Roles == {"admin", "safety_manager", "inspector", "worker"}

\* A phone number as a client types it: with or without spaces around it.
Phones == [number : Numbers, spaces : BOOLEAN]

\* strings.TrimSpace
Trim(phone) == [phone EXCEPT !.spaces = FALSE]

UserRow == [phone : Phones, password : Passwords, role : Roles,
            name : Texts \cup {Blank}, avatar : Texts \cup {Blank}]

ASSUME ConstantsAssumption ==
  /\ AskedRoles \subseteq Roles \cup {Blank}
  /\ Blank \notin Roles \cup Texts
  /\ NoRow \notin UserRow
  /\ NoAccount \notin [password : Passwords, role : Roles]

Registration == [op : {"register"}, phone : Phones, password : Passwords,
                 role : Roles \cup {Blank}, name : Texts \cup {Blank}]

Credentials == [op : {"login"}, phone : Phones, password : Passwords]

Profile == [op : {"profile"}, id : Users, name : Texts \cup {Blank},
            avatar : Texts \cup {Blank}]

Token == [id : Users, phone : Phones, role : Roles]

Answers == {0, 200, 400, 401, 500}   \* 0: no answer

Present == {u \in Users : user[u] # NoRow}

WithPhone(phone) == {u \in Present : user[u].phone = phone}

\* The refinement mapping: what the table says of a phone number.
AccountOfNumber ==
  [n \in Numbers |->
     IF \E u \in Present : user[u].phone.number = n
     THEN LET u == CHOOSE v \in Present : user[v].phone.number = n
          IN  [password |-> user[u].password, role |-> user[u].role]
     ELSE NoAccount]

Registry == INSTANCE AccountRegistry WITH account <- AccountOfNumber

----------------------------------------------------------------------------

NoRequest == [op |-> "none"]

\* The seed's accounts, or none.
Init ==
  /\ \E seeded \in SUBSET Users :
     \E number \in [seeded -> Numbers], password \in [seeded -> Passwords] :
       /\ \A u, v \in seeded : u # v => number[u] # number[v]
       /\ user = [u \in Users |->
                    IF u \in seeded
                    THEN [phone |-> [number |-> number[u], spaces |-> FALSE],
                          password |-> password[u], role |-> "admin",
                          name |-> Blank, avatar |-> Blank]
                    ELSE NoRow]
  /\ pc = [w \in Workers |-> "idle"]
  /\ req = [w \in Workers |-> NoRequest]
  /\ copy = [w \in Workers |-> NoRow]
  /\ answer = [w \in Workers |-> 0]
  /\ tokens = {}
  /\ told = {}

\* The request q starts at the statement called label.
Begin(w, q, label) ==
  /\ req' = [req EXCEPT ![w] = q]
  /\ pc' = [pc EXCEPT ![w] = label]
  /\ answer' = [answer EXCEPT ![w] = 0]
  /\ UNCHANGED <<user, copy, tokens, told>>

\* A body the binding rejects, or a profile request without a valid token.
Refuse(w) ==
  /\ pc[w] = "idle"
  /\ \E status \in {400, 401} : answer' = [answer EXCEPT ![w] = status]
  /\ UNCHANGED <<user, pc, req, copy, tokens, told>>

Arrive(w) ==
  /\ pc[w] = "idle"
  /\ \/ \E q \in Registration : q.role \in AskedRoles /\ Begin(w, q, "check")
     \/ \E q \in Credentials : Begin(w, q, "login")
     \/ \E q \in Profile : /\ \E t \in tokens : t.id = q.id
                           /\ Begin(w, q, "find")

\* The handler answers and drops its request and what it had read.
Answer(w, status) ==
  /\ pc' = [pc EXCEPT ![w] = "idle"]
  /\ req' = [req EXCEPT ![w] = NoRequest]
  /\ copy' = [copy EXCEPT ![w] = NoRow]
  /\ answer' = [answer EXCEPT ![w] = status]

Goto(w, label) ==
  /\ pc' = [pc EXCEPT ![w] = label]
  /\ UNCHANGED <<req, answer>>

\* FindByPhone before the insert; CodeUserExists is answered 400.
CheckPhone(w) ==
  /\ pc[w] = "check"
  /\ \/ WithPhone(Trim(req[w].phone)) # {} /\ Answer(w, 400)
     \/ WithPhone(Trim(req[w].phone)) = {} /\ Goto(w, "insert") /\ UNCHANGED copy
  /\ UNCHANGED <<user, tokens, told>>

\* A mutant: no default role.
NewUserNoDefault(q) ==
  [phone |-> Trim(q.phone), password |-> q.password, name |-> q.name,
   role |-> q.role, avatar |-> Blank]

NewUser(q) ==
  [phone |-> Trim(q.phone), password |-> q.password, name |-> q.name,
   role |-> IF q.role = Blank THEN "worker" ELSE q.role, avatar |-> Blank]

\* A statement has committed; its acknowledgement may still be lost.
Committed(w) == \/ Goto(w, "reply") /\ UNCHANGED copy
                \/ Answer(w, 500)

\* A mutant: the column has no unique index.
InsertDuplicate(w) ==
  /\ pc[w] = "insert"
  /\ \E u \in Users : /\ user[u] = NoRow
                      /\ user' = [user EXCEPT ![u] = NewUser(req[w])]
  /\ Committed(w)
  /\ UNCHANGED <<tokens, told>>

\* A mutant: INSERT IGNORE.
InsertIgnore(w) ==
  /\ pc[w] = "insert"
  /\ IF WithPhone(Trim(req[w].phone)) = {}
     THEN \E u \in Users : /\ user[u] = NoRow
                           /\ user' = [user EXCEPT ![u] = NewUser(req[w])]
     ELSE UNCHANGED user
  /\ Committed(w)
  /\ UNCHANGED <<tokens, told>>

\* The unique index lets one of several checked registrations through; the
\* others fail like any statement: 500.
Insert(w) ==
  /\ pc[w] = "insert"
  /\ WithPhone(Trim(req[w].phone)) = {}
  /\ \E u \in Users : /\ user[u] = NoRow
                      /\ user' = [user EXCEPT ![u] = NewUser(req[w])]
  /\ Committed(w)
  /\ UNCHANGED <<tokens, told>>

\* The phone is looked up as it was typed; a match is handed a signed token.
Login(w) ==
  LET match == {u \in WithPhone(req[w].phone) :
                  user[u].password = req[w].password} IN
  /\ pc[w] = "login"
  /\ \/ /\ match = {} /\ Answer(w, 401)
        /\ UNCHANGED tokens
     \/ \E u \in match :
          /\ tokens' = tokens \cup {[id |-> u, phone |-> user[u].phone,
                                     role |-> user[u].role]}
          /\ Answer(w, 200)
  /\ UNCHANGED <<user, told>>

FindUser(w) ==
  /\ pc[w] = "find"
  /\ \/ user[req[w].id] = NoRow /\ Answer(w, 500)
     \/ /\ user[req[w].id] # NoRow /\ Goto(w, "save")
        /\ copy' = [copy EXCEPT ![w] = user[req[w].id]]
  /\ UNCHANGED <<user, tokens, told>>

\* A mutant: a fresh struct with the fields of the request is saved.
UpdatedFresh(q, r) == [r EXCEPT !.role = "worker", !.name = q.name,
                                !.avatar = q.avatar]

\* Fields that were left out keep the value that was read.
Updated(q, r) ==
  [r EXCEPT !.name = IF q.name = Blank THEN @ ELSE q.name,
            !.avatar = IF q.avatar = Blank THEN @ ELSE q.avatar]

SaveProfile(w) ==
  /\ pc[w] = "save"
  /\ user' = [user EXCEPT ![req[w].id] = Updated(req[w], copy[w])]
  /\ Committed(w)
  /\ UNCHANGED <<tokens, told>>

\* A statement fails without effect, a duplicate key included.
DBError(w) ==
  /\ pc[w] \in {"check", "insert", "login", "find", "save"}
  /\ Answer(w, 500)
  /\ UNCHANGED <<user, tokens, told>>

Reply(w) ==
  /\ pc[w] = "reply"
  /\ told' = IF req[w].op = "register"
             THEN told \cup {[phone |-> req[w].phone,
                              password |-> req[w].password]}
             ELSE told
  /\ Answer(w, 200)
  /\ UNCHANGED <<user, tokens>>

Expire ==
  /\ \E t \in tokens : tokens' = tokens \ {t}
  /\ UNCHANGED <<user, pc, req, copy, answer, told>>

\* The process dies; table and tokens survive.
Crash ==
  /\ \E w \in Workers : pc[w] # "idle"
  /\ pc' = [w \in Workers |-> "idle"]
  /\ req' = [w \in Workers |-> NoRequest]
  /\ copy' = [w \in Workers |-> NoRow]
  /\ answer' = [w \in Workers |-> IF pc[w] = "idle" THEN answer[w] ELSE 0]
  /\ UNCHANGED <<user, tokens, told>>

Handle(w) == \/ CheckPhone(w) \/ Insert(w) \/ Login(w) \/ FindUser(w)
             \/ SaveProfile(w) \/ DBError(w) \/ Reply(w)

Next == (\E w \in Workers : Refuse(w) \/ Arrive(w) \/ Handle(w))
        \/ Expire \/ Crash

Spec == Init /\ [][Next]_vars

----------------------------------------------------------------------------

TypeOK ==
  /\ user \in [Users -> UserRow \cup {NoRow}]
  /\ pc \in [Workers -> {"idle", "check", "insert", "login", "find", "save",
                         "reply"}]
  /\ req \in [Workers -> Registration \cup Credentials \cup Profile
                         \cup {NoRequest}]
  /\ copy \in [Workers -> UserRow \cup {NoRow}]
  /\ answer \in [Workers -> Answers]
  /\ tokens \subseteq Token
  /\ told \subseteq [phone : Phones, password : Passwords]

\* Two registrations that both passed the check do not both get the number:
\* logging in with it always means one account.
OnePerPhone ==
  \A u, v \in Present : user[u].phone.number = user[v].phone.number => u = v

\* A role check trusts the token, which may be days old: the account it names
\* still has that phone and role, whatever stale row a profile update wrote.
TokensAreCurrent ==
  \A t \in tokens : /\ user[t.id] # NoRow
                    /\ user[t.id].phone = t.phone
                    /\ user[t.id].role = t.role

\* Login turns a request down because of the credentials it carries.
TurnedDown(w) == pc[w] = "login" /\ pc'[w] = "idle" /\ answer'[w] = 401

\* Whoever was told that the registration succeeded is not turned down later
\* with that number and that password; so of clients that raced for a number,
\* only the one that got it is told so.
RegisteredCanLogIn ==
  [][\A w \in Workers : TurnedDown(w) =>
       \A c \in told : Trim(c.phone) = req[w].phone => c.password # req[w].password]_vars

\* Checked, inserted and then rewritten from stale copies, an account is still
\* taken in one step and keeps its password and role.
RegistrationIsAtomic == Registry!Spec

============================================================================
