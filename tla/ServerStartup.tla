--------------------------- MODULE ServerStartup ---------------------------
(***************************************************************************)
(* Starting the backend on a database that is empty, filled by init.sql or *)
(* left by an earlier process: the seed is written row by row, without a   *)
(* transaction, if the users table is empty; any error ends the process    *)
(* and the container restarts it.                                          *)
(***************************************************************************)
EXTENDS Naturals

CONSTANTS SeedUsers,      \* preset accounts, written first
          SeedRows,       \* rows of the whole seed, accounts included
          MaxRegistered,  \* bound on accounts registered by clients
          MaxFailures     \* bound on exits and crashes

ASSUME ConstantsAssumption ==
  /\ SeedUsers \in Nat \ {0}
  /\ SeedRows \in Nat
  /\ SeedUsers <= SeedRows
  /\ MaxRegistered \in Nat
  /\ MaxFailures \in Nat

VARIABLES process,     \* "down", "starting", "seeding" or "serving"
          rows,        \* copies of each seed row in the database
          next,        \* the position Seed has reached
          registered,  \* accounts registered through the API
          failures

vars == <<process, rows, next, registered, failures>>

\* A mutant: the accounts are written last.
SeedRowReversed(n) == SeedRows + 1 - n

\* The order of Seed: users, incidents, inspections, items, trainings, certs.
SeedRow(n) == n

Accounts == 1 .. SeedUsers

\* A mutant: the count looks at the last table of the seed.
UsersEmptyByLastTable == rows[SeedRows] = 0

UsersEmpty == registered = 0 /\ \A k \in Accounts : rows[k] = 0

----------------------------------------------------------------------------

\* docker compose runs init.sql on a new volume; elsewhere the tables are empty.
Init ==
  /\ process = "down"
  /\ \E n \in {0, 1} : rows = [k \in 1 .. SeedRows |-> n]
  /\ next = 1
  /\ registered = 0
  /\ failures = 0

\* The database is reached and migrated.
Boot ==
  /\ process = "down"
  /\ process' = "starting"
  /\ UNCHANGED <<rows, next, registered, failures>>

\* Seed starts with the count of users.
CountUsers ==
  /\ process = "starting"
  /\ process' = IF UsersEmpty THEN "seeding" ELSE "serving"
  /\ next' = 1
  /\ UNCHANGED <<rows, registered, failures>>

More == next <= SeedRows

\* Phone numbers are unique: an account that exists cannot be written again.
Insertable(k) == k \in Accounts => rows[k] = 0

Insert(k) == rows' = [rows EXCEPT ![k] = @ + 1]

WriteRow ==
  /\ process = "seeding" /\ More
  /\ Insertable(SeedRow(next))
  /\ Insert(SeedRow(next))
  /\ next' = next + 1
  /\ UNCHANGED <<process, registered, failures>>

Serve ==
  /\ process = "seeding" /\ ~More
  /\ process' = "serving"
  /\ UNCHANGED <<rows, next, registered, failures>>

Register ==
  /\ process = "serving" /\ registered < MaxRegistered
  /\ registered' = registered + 1
  /\ UNCHANGED <<process, rows, next, failures>>

\* A failed statement, a signal or a crash ends the process; a row that was
\* being written may have been committed before the error.
Fail ==
  /\ process # "down" /\ failures < MaxFailures
  /\ failures' = failures + 1
  /\ process' = "down"
  /\ \/ UNCHANGED rows
     \/ /\ process = "seeding" /\ More
        /\ Insertable(SeedRow(next))
        /\ Insert(SeedRow(next))
  /\ UNCHANGED <<next, registered>>

Start == Boot \/ CountUsers \/ WriteRow \/ Serve

Next == Start \/ Register \/ Fail

Spec == Init /\ [][Next]_vars

\* The container's restart policy boots the process, and a booted one goes on.
FairSpec == Spec /\ WF_vars(Start)

----------------------------------------------------------------------------

TypeOK ==
  /\ process \in {"down", "starting", "seeding", "serving"}
  /\ rows \in [1 .. SeedRows -> Nat]
  /\ next \in 1 .. SeedRows + 1
  /\ registered \in 0 .. MaxRegistered
  /\ failures \in 0 .. MaxFailures

\* However often a start is cut short and repeated, no seed row is there twice:
\* the accounts, whose absence lets Seed run, are the first rows it writes.
SeededAtMostOnce == \A k \in 1 .. SeedRows : rows[k] <= 1

\* A start that was cut short does not keep the next ones from serving: after
\* the last failure the server comes up.
EventuallyServes == (process = "down") ~> (process = "serving")

\* The preset accounts of the README can log in to a server that serves.
ServingHasAccounts ==
  process = "serving" => \A k \in Accounts : rows[k] = 1

============================================================================
