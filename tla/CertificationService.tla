------------------------ MODULE CertificationService ------------------------
(***************************************************************************)
(* Certificates of the workers: submitted by anyone, reviewed once by an   *)
(* administrator or a safety manager.  Review reads the row, checks that   *)
(* it is pending and saves the whole row, in two statements.               *)
(***************************************************************************)
EXTENDS Requests, Naturals

CONSTANTS Certs,   \* primary keys of table worker_certifications
          Dates,   \* dates a certificate may be valid until
          NoDate   \* valid_until is NULL

VARIABLES cert,    \* table worker_certifications
          decided  \* history: the decisions whose statement took effect

certVars == <<cert, decided>>

Decisions == {"approved", "rejected"}   \* "expired" is written by no code

CertRow == [status : {"pending"} \cup Decisions, until : Dates \cup {NoDate}]

CertRequest == [op : {"submit"}, until : Dates \cup {NoDate}]
                 \cup [op : {"review"}, id : Certs, status : Decisions]

\* A mutant: a certificate counts as approved until somebody objects.
NewCertApproved(until) == [status |-> "approved", until |-> until]

NewCert(until) == [status |-> "pending", until |-> until]

\* A mutant: the check of the status is left out.
MayReviewAny(r) == TRUE

MayReview(r) == r.status = "pending"

\* The table is empty or holds seeded rows, pending or approved.
CertInit ==
  /\ cert \in [Certs -> {NoRow} \cup [status : {"pending", "approved"}, until : Dates]]
  /\ decided = {<<c, cert[c].status>> :
                  c \in {k \in Certs : cert[k] # NoRow /\ cert[k].status # "pending"}}

ArriveCert(w) ==
  /\ \E q \in CertRequest :
       Begin(w, q, IF q.op = "submit" THEN "user" ELSE "findCert")
  /\ UNCHANGED certVars

\* Submit: the user is looked up first; a missing one is a DBError.
FindUser(w) ==
  /\ pc[w] = "user"
  /\ Goto(w, "insertCert")
  /\ UNCHANGED certVars

InsertCert(w) ==
  /\ pc[w] = "insertCert"
  /\ \E c \in Certs :
       /\ cert[c] = NoRow
       /\ cert' = [cert EXCEPT ![c] = NewCert(req[w].until)]
  /\ Committed(w)
  /\ UNCHANGED decided

\* Review: a certificate that is not pending is a conflict.
FindCert(w) ==
  LET r == cert[req[w].id] IN
  /\ pc[w] = "findCert"
  /\ r # NoRow
  /\ IF MayReview(r) THEN Keep(w, r, "saveCert") ELSE Answer(w, 409)
  /\ UNCHANGED certVars

\* Save writes every column of the copy.
SaveCert(w) ==
  LET q == req[w] IN
  /\ pc[w] = "saveCert"
  /\ cert' = [cert EXCEPT ![q.id] = [copy[w] EXCEPT !.status = q.status]]
  /\ decided' = decided \cup {<<q.id, q.status>>}
  /\ Committed(w)

HandleCert(w) == FindUser(w) \/ InsertCert(w) \/ FindCert(w) \/ SaveCert(w)

----------------------------------------------------------------------------

CertTypeOK ==
  /\ cert \in [Certs -> CertRow \cup {NoRow}]
  /\ decided \in SUBSET (Certs \X Decisions)

\* A certificate counts as approved or rejected only after a review (or the
\* seed) decided so; submitting it is not enough, whoever submits it.
DecisionIsEarned ==
  \A c \in Certs : cert[c] # NoRow /\ cert[c].status # "pending"
                     => <<c, cert[c].status>> \in decided

\* A reviewer who read c while it was pending and has not saved yet.
Reviewing(c) == \E w \in Workers : pc[w] = "saveCert" /\ req[w].id = c

Decided(c) == cert[c] # NoRow /\ cert[c].status # "pending" /\ ~Reviewing(c)

\* A decision that no reviewer with an older copy can overtake stands for good
\* (Review refuses what is not pending); two reviewers who read the pending
\* certificate together may still decide one after the other.
DecisionSettles ==
  [][\A c \in Certs : Decided(c) => Decided(c)' /\ cert'[c] = cert[c]]_<<certVars, requestVars>>
=============================================================================
