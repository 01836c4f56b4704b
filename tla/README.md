# TLA+ models and proofs of the construction safety platform

The repository is a web application for construction sites: a Go backend (Gin, GORM, MySQL 8)
in `src/backend`, a React frontend in `src/frontend`, a schema with initial data in
`src/database/init.sql`. This directory holds TLA+ specifications of its behaviour, TLC
configurations that check them on small instances, and TLAPS proofs for every value of the
constants. Paths below are relative to `src/backend/internal/` unless they say otherwise.

## 1. Inventory

Every request is a goroutine of its own. Handlers keep no state between requests (the rate
limiter excepted): what they share is the database, whose statements are autocommitted one by one,
except in the two inspection handlers that open a transaction. So the interesting unit is the
*statement*: between two statements of a handler any other request may run, the statement may fail,
its acknowledgement may be lost, and the process may die.

| Component | State | Operations | Interaction | Hard part | Correct means |
| --- | --- | --- | --- | --- | --- |
| Incidents (`service/safety_incident_service.go`) | table `safety_incidents` | Report, Assign, SubmitRectification, Close | find, check, save: two statements | stale copies written back whole, crashes in between | status and measures are those of committed operations; an answer of 200 is true; closed is final once stale handlers are gone |
| Inspections and items (`service/safety_inspection_service.go`) | tables `safety_inspections`, `inspection_items`, row locks | Create, Execute, Report | transactions; `FOR UPDATE`; the report reads twice | second execution waiting for the row, failures half way, partial or foreign item lists | executed once, all or nothing, plan and items appear together, result agrees with items |
| Rate limiter (`middleware/rate_limiter.go`) | buckets by client address | Limit | in front of register and login | rounding of minutes, `lastFill` | never above the configured rate, and not below it without cause |
| Startup and seed (`service/seed.go`, `src/backend/cmd/server/main.go`) | all tables | Seed, restart by Docker | fills the tables the services use | a start cut short, repeated | no row twice, the server comes up, the accounts exist |
| Users (`service/user_service.go`) | table `users`, tokens at the clients | Register, Login, UpdateProfile | tokens carry the role the other routes trust | lookup and insert race, stale profile copies | one owner per number, tokens stay true |
| Certifications (`service/worker_certification_service.go`) | table `worker_certifications` | Submit, Review, expiry lists | dashboard | two reviewers, passing time | a decision is final; a certificate is listed before it runs out |
| Trainings (`service/safety_training_service.go`) | table `safety_trainings` | Create, Record | dashboard | lost updates, rate reset to 0 | a record loses nothing |
| Dashboard (`service/dashboard_service.go`) | none | Stats | six reads of the other tables | reads of different moments | each figure is that of some moment |
| Audit log (`middleware/audit_log.go`) | table `audit_logs` | one insert after each write | behind every handler | failure between commit and insert | what was answered as done is recorded, once, and never before it happened |
| Auth and roles (`middleware/auth.go`, `rbac.go`, `util/jwt.go`) | none | token and role check | in front of every handler | a token is trusted for up to 72 hours | see Users |
| Image upload (`util/file_upload.go`) | files in the upload directory | SaveUploadedImage | behind the router | full disk half way, two uploads in one clock reading | an address that was given out leads to a whole image |
| Paging (`dto/dto_common.go`, every `List` of `repository/`) | none | Normalize, count, read a page | every table of the frontend | rows that come and leave between pages; binding errors that are ignored | turning pages to the end misses nothing without cause |
| Error mapping (`handler/response.go`, `util/app_error.go`) | none | appErrorStatus | every answer | which errors the audit log takes for done | see Audit log |
| Frontend (`src/frontend/src`) | browser storage, stores | session, lists, incident dialog | HTTP through axios | answers out of order, timeouts, expired session, two clicks | buttons agree with the service; the screen does not go back; every wait ends |

Roles never change and no code deletes a row of these tables (`DeleteByInspection` has no caller).
The hazards of each part are listed with their lines in `PROJECT.json`.

## 2. Modules

| Module | Models | Kind |
| --- | --- | --- |
| `IncidentLifecycle` | what the incident service promises of one operation at a time | abstract |
| `IncidentService` | the incident handlers, statement by statement | detailed |
| `InspectionService` | Create, Execute and Report with transactions and row locks; the arithmetic of the result | detailed |
| `InspectionServiceProofs` | its theorems | proofs |
| `TokenBucket` | the most a limit of n requests a minute may let through | abstract |
| `RateLimiter` | the bucket arithmetic of the middleware | detailed |
| `RateLimiterProofs` | its theorems | proofs |
| `ServerStartup` | starts that fail anywhere in the seed | detailed |
| `AccountRegistry` | registration as one step; password and role do not change | abstract |
| `UserService` | registration, login, profile, statement by statement | detailed |
| `UserServiceProofs` | its theorems | proofs |
| `Requests` | the steps the next three modules share: begin, keep a copy, answer, commit, crash | detailed |
| `CertificationService` | submission and review of certificates | detailed |
| `TrainingService` | creation and record of trainings | detailed |
| `Dashboard` | both services with the dashboard's reads and a clock | composition |
| `DashboardProofs` | its theorems | proofs |
| `IncidentScreen` | the incident dialog, its calls and its timer, in front of `IncidentService` and other clients | composition |
| `IncidentProofs` | theorems about the incident service and, on top of them, about the screen | proofs |
| `AuditTrail` | an append-only list of writes that took effect | abstract |
| `RequestPipeline` | writing requests on their way through limiter, token, role, handler or upload, audit entry and answer | detailed |
| `RequestPipelineProofs` | its theorems | proofs |
| `PagedLists` | a user who turns the pages of a changing list | detailed |
| `PagedListsProofs` | its theorems | proofs |
| `ServerStartupProofs` | theorems about the seed | proofs |
| `MC*` | values of the constants for TLC | |

Four detailed modules implement an abstract one through `INSTANCE ... WITH`: `IncidentService` maps
`row` to itself (`Lifecycle`), `UserService` maps its table (`Registry`), `RequestPipeline` maps the table
`audit_logs` to the list of the requests its entries stand for (`Trail`); `RateLimiter` carries the
ideal level along and maps it (`Ideal`). In each case the abstract specification is a PROPERTY of a run.

### Conventions

`Workers` are the requests the server handles at the same time; a worker takes one request after
the other. `pc[w]` is the statement its handler runs next (`idle`: none), `copy[w]` (`tx[w]`,
`got[w]`) the struct it has read, `answer[w]` the HTTP status of its last request. `Arrive` is
everything in front of the service (role check, path, binding), `DBError` a statement that fails
without effect, `Commit` a statement or transaction that takes effect, whether or not its
acknowledgement arrives, `Crash` the end of the process with all requests in flight. `done`,
`outcome`, `told`, `lastAdmit` are history variables: no action reads them. Operators introduced
by *A mutant:* are used by no specification; they are plausible bugs which the properties are
known to detect.

Errors: the services return the repository's `ErrNotFound` wrapped, not as an `AppError`, so a
missing row is answered 500 (`handler/safety_incident_handler.go:143`); status conflicts are 409.

### Incidents

`Find` is `FindByID` with the status check, `Save` is GORM's `Save`, an UPDATE of all columns
with the values of the copy. `row[i]` keeps the two columns the handlers write, status and
measures; the deadline is written with the measures and treated like them. (If the UPDATE changes
no row, GORM follows up with an upsert of the same values; the step stands for the last of the two
statements.) Seeded incidents are past `reported` and may lack measures (seed.go:47-51), so the
properties about measures speak of reported incidents.

`StatusIsEarned`, `MeasuresMatchStatus`, `SuccessIsCommitted` and `ClosedSettles` are what remains
true although the handlers race. `ImplementsLifecycle` is what would be true if they did not:
it is checked (behind the screen, below) and proved for a single worker, where crashes and failures
still happen. `StatusNeverRegresses` is the documented state machine: proved for a single worker,
broken by two.

`IncidentScreen` is the incident page of a manager (`src/frontend/src/pages/IncidentManage.tsx`,
`hooks/useIncident.ts`, `utils/request.ts`) in front of the service. `call[s]` is one promise of the
page: sent, served (a worker handles it), answered, or given up by the axios timer, after which the
server still finishes it. `Open`, `Click`, `Dismiss` are the user; `Show` is `setIncident`, `Reload`
the `load` at the end of an operation, `Expel` the logout on 401, which leaves the page with all it waits for. The other
clients of the service are `OtherRequest`; a request that a timed out call left on the network is one
of them. The hook has one `incident` and one `loading` flag whatever dialog is open, and the buttons
act on `incident`, so a dialog may act on the one opened before it; that is modelled, and since the
title next to the button is that of the same incident, no property speaks against it.

### Inspections

`lock[i]` is the row lock, `tx[w]` the uncommitted writes. `LockRow` waits (is disabled) while
another transaction holds the row; the lock wait timeout is `DBError`. The items are read after
the lock is granted, at the transaction's first plain SELECT, so the snapshot of REPEATABLE READ
is that of the locked row. An inserted row is locked by its own transaction. A submission is a
sequence of item and flag: ids may repeat, belong to another plan, or be left out. `Score` is
integer division; the code goes through `float64`, which gives the same number for totals below 50
(the first difference is 29 of 50). Execute counts every mention of an item, so after a list that names one
twice the counts exceed the plan; `SummaryMatchesItems` gives them exactly for the other lists and, for any
list, says that they hide no failure that is stored. Remarks and photos are written with the flag and left out.
The status `in_progress` is accepted by Execute and written by nobody. The seed's completed
inspection (score 92 for two of three items, seed.go:58) is not the outcome of any execution and
is left out of the initial states; the scheduled one is `SeedInspections`.

### Rate limiter

One request is one step, because the mutex is held from the lookup to the decrement. The clock
counts `Minute` ticks to a minute. `level` is the bucket of `TokenBucket`, kept as a history
variable: it fills with the clock and pays for each request that is let through.

### Startup

`rows[k]` counts the copies of seed row k. Initially the tables are empty or filled by
`init.sql`. `Fail` ends the process in any phase, with or without the row that was being written;
`Start` is the restart by Docker (`restart: unless-stopped`).

### Users

`FindByPhone` and `Create` are two statements; the unique index is the guard of `Insert`, and a
duplicate is a failed statement like any other (500). bcrypt is taken to accept exactly the
password it hashed. A phone number is a number with or without spaces around it: `Trim` is applied
by Register and not by Login. `Expire` takes a token away at any time.

### Certifications, trainings and the dashboard

`Dashboard` composes `CertificationService` and `TrainingService` over the workers of `Requests`,
adds the day and lets a worker also run `Stats`: the trainings of the month are counted, then those
with a result, then the expiring certificates are listed, each in a statement of its own
(`service/dashboard_service.go`). The reads of incidents and inspections that precede them are one
step that can only fail. A month is `MonthLength` days and `today` passes at any time; the code reads the
clock for the year and again for the month, the model once. `seen[w].known` is history, the certificates
there were to list. `valid_until` is a DATE (`src/database/init.sql:89`), the start of its day, and
is compared with an instant: `ListExpiring` chooses whether that instant is midnight, and unless it is, a
certificate is not among the expiring ones on its last day. (The schema is that of `init.sql`, which Docker
loads; AutoMigrate on an empty database would make the column a DATETIME.)

`Review` and `Record` have the shape of the incident handlers, find, check, save the whole copy.
The status `expired` is written by no code. That a review decides something other than approved or
rejected is refused by the binding, so the service's own 422 is never reached. A training that is
recorded without a rate gets 0, one without participants keeps those of the copy. A missing row is
answered 500, as for incidents. The tables start empty or with seeded rows, which for certificates
are pending or approved.

What the figures may be relied on for is weaker than what the page suggests: the two counts are of
different moments, so the rate may pass 100% when a training is created and recorded between them
(`RateExcessIsRaced` bounds the excess by the trainings created since), a certificate is announced up to
the day before its last (`WarnsUntilLastDay`), and a review may overtake another that read
the pending certificate with it (`DecisionSettles`).

### The way of a writing request

`RequestPipeline` follows requests that change something through `router/router.go`: `Refuse` is the
rate limiter, `AuthRequired`, `RequireRole` or an unknown route, `Pass` the entry into the handler with
the user id of the token, `Handle` the whole handler of a service (whose statements are in the service
modules), `AuditLog` the part of the middleware behind `c.Next()`, `Reply` the moment the answer leaves.
Because the entry is inserted in the same goroutine before the answer, `AnsweredIsRecorded` can relate the
two; its only excuse is an insert that failed, which the code logs and forgets. What fails is not
recorded, so a write whose acknowledgement is lost is done, answered 500 and missing from the log:
`TrailFollowsWrites` claims one direction only. `AppErrorStatus` is the switch of `handler/response.go`.

The requests of the module are POST and PUT. The filter of methods lets everything but GET and OPTIONS
pass (`middleware/audit_log.go:19`), so a HEAD on a file of `/uploads` is recorded too: it changes nothing and is
outside the model.

An upload is modelled statement by statement. The name is the reading of the clock, so two uploads may
draw the same one; `opened` records who has truncated which file. A file is two blocks, enough to be
half written.

### Lists

`PagedLists` is one list of any table. `Normalized` is what is left of the query: the handlers ignore
the error of `ShouldBindQuery`, so the bounds in the tags (`dto/dto_common.go:6`) refuse nothing, and
only values that are not positive are replaced. `Pages` is what ORDER BY, OFFSET and LIMIT may return: rows
with one date come in any order. The content of a filter is left out, a row `Enter`s or `Leave`s what it
selects. `late` are the rows that entered between a count and the read behind it. Of rows that share a date
one may fall between two pages; what the properties promise is about the rows that are `Alone` with theirs, in
lists that may hold others. The walk models the pager of the tables: it offers a next page while
the last total says so.

## 3. Runs

| Run | Question | Bounds | Why they are enough |
| --- | --- | --- | --- |
| `incident_race` | what stays true under races, and does every request end | 2 workers, 1 incident, 2 measures | one handler keeps a stale copy while the other completes the whole cycle; incidents share no state, and the theorems cover any number of workers |
| `incident_screen` | do buttons and status checks agree, does the screen go back, does the spinner stop, do two statements make one step | 1 incident, 1 worker, 2 calls in flight | two calls overlap, overtake each other and outlive their timers while another client moves the incident; incidents share no state; the theorems cover any number of calls, incidents and seeds |
| `incident_regress` | does the status go back | 2 workers | violated: finding 1 |
| `inspection_race` | is row plus items one unit, is the lock given back | 2 workers, 1 inspection, 2 items, lists of up to 2 | one executes or plans while the other waits, reads or executes; two items make partial and repeated lists, and an id that is not among the plan's items stands for those of any other plan |
| `rate_limiter` | is the limit kept | 2 clients, 2 a minute, 3 ticks a minute | fractions of a minute, several refills, both brims |
| `rate_refill` | is a client ever refused without cause | 1 client, 2 ticks a minute | violated: finding 2 |
| `startup` | is a row seeded twice, does the server come up | 4 accounts of 16 rows, 2 failures | a failure at each row and a second one after it |
| `startup_accounts` | are the accounts there | the same, 1 failure | violated: finding 3 |
| `user_race` | who owns a number | 2 workers, 1 number, 2 accounts, 2 passwords | both pass the lookup with different passwords |
| `records_dashboard` | do decisions and attendance last, what do the figures mean | 2 workers, 1 certificate, 2 trainings and 2 lists, rates 0 and 95, months of 1 day, 2 days | one reads or reviews while the other creates, records or reviews; both trainings and the certificate are of the second month, so the month may begin between two reads; the theorems cover the rest |
| `writes_audited` | is what was answered recorded, once and not early; are given images whole | 3 requests of 2 users, 2 file names | two uploads share a name while a third draws its own; two entries with different operators, one failing insert between them |
| `paged_lists` | does turning pages miss a row, or show one twice | 3 rows, dates 1 to 3, pages of 1, 2 or 10, `MaxPage` 4 | the list is longer than a page of 1 or 2 and shorter than one of 10; three rows make a first, a middle and a last page, between any two of which rows enter and leave |

Symmetry is declared in four runs, of safety properties only (accounts, passwords and workers of
`user_race`, trainings and workers of `records_dashboard`, requests, users and names of
`writes_audited`, rows of `paged_lists`). Deadlock is checked except in the startup runs, where the bounds
on failures and registrations let the server stay as it is, and in `writes_audited`, where each request is sent
once. The incident runs start from an empty table: a seeded incident differs only in the status it starts
from, and the theorems hold for any seed. Other bounds: `MaxSubmitted`, the length of a list of items;
`MaxRegistered`, the accounts that are registered beside the seed; `MaxFailures`, failing starts;
`MaxTime`, the end of the limiter's clock.

One worker in `incident_screen` is an assumption: with two, finding 1 takes the incident back behind the
screen, and what the run says about screen and row cannot be expected to hold.

**Fairness.** `FairSpec` asks weak fairness of each worker's handler (a goroutine that can run is
run by the Go scheduler, and each database call returns: a lock is granted or its wait times out),
`ScreenSpec` of the end of each call of the page (`End`: axios rejects a call that is not answered
within fifteen seconds, `src/frontend/src/utils/request.ts:5`, and a callback that can run does) and, in `ServerStartup`, of the start as a whole (Docker restarts the container). Requests need
not arrive.

### Findings

1. Two requests that read the same incident: the slower one writes the older copy back
   (`service/safety_incident_service.go:47`).
2. `lastFill` moves without crediting the part of a minute that passed: who keeps trying stays
   refused (`middleware/rate_limiter.go:50`).
3. A seed that was cut short after its first account is never completed (`service/seed.go:31`).

Seen while modelling, without a run of their own, because nothing in the repository promises the
opposite: an execution that lists some of the items completes the inspection whatever the others are
(`service/safety_inspection_service.go:115`); Register trims the phone number and Login does not
(`service/user_service.go:58`); a page size above 200 is used as it is (`dto/dto_common.go:6`); recording
participants without a rate sets it to 0 (`service/safety_training_service.go:49`); a certificate is not listed as
expiring on its last day (`repository/worker_certification_repository.go:85`); an item that an execution lists twice
is counted twice (`service/safety_inspection_service.go:98`).

## 4. Proofs

All theorems hold for every value of the constants under the named assumption of each module
(`ConstantsAssumption`: markers such as `NoRow` are not ordinary values, the sets that are counted -
`Rows` of a list, `Items` of a plan - are finite, and a walk through a list begins at its first page, as
every page of the web does with `useState(1)`).

*IncidentProofs, the service.* `IInv` strengthens the invariants: beside the types it says that a copy a
handler holds is a row its operation accepts, that the copy of a reported incident is itself
earned and has matching measures, that `done` knows the operation a successful worker replies to,
and that only reported or seeded keys have rows. It is needed because `Save` writes the copy, not
the row: that the row is earned says nothing of the next state, that every copy in flight is earned
does. `Did` only grows, so what was earned stays earned (`EarnedIsStable`), and a copy with the
operation's own fields added is earned (`UpdatedIsEarned`). `ClosedIsFinal` needs no more than that
a save on a settled incident would need a handler that is pending on it. `SerialImplements` adds
that the only worker's copy equals the row, so that its save is the lifecycle's step, and
`SerialNeverRegresses` follows because no step of the lifecycle goes back.

*IncidentProofs, the screen.* `ScreenInv` adds to `IInv` what connects page and service: a call is about an
incident that exists, it was clicked in the status its operation demands (`Sound`), a worker that serves a call
handles what the call asked for (`ServingOK`), and no two serve the same (`OneEach`). It is needed because
`Deliver` turns a call into a request, which the service accepts only for the values `Arrive`
enumerates. `ScreenImplementsService` says that the composition is a run of `IncidentService`, whatever
the number of workers, so that all its theorems hold behind the page too. With one worker `MovedInv` is
inductive as well: no screen, no click and no answer on its way is ahead of the row, and an answer
that nothing has overtaken is not behind the screen (`Behind`). `ConflictsMeanMoves` and
`ScreenNeverGoesBack` are read off it.

*RequestPipelineProofs.* `IInv` says of each request what its place in the chain implies: for its answer and
entry (`Progress`), for the order of effect and entry (`Ordered`), and for the blocks of its file as long as no other request
has opened it (`Written`). `FinishKeeps`, `MoveKeeps` and their like treat the actions by what they do to
the chain. `TrailIsImplemented` is the refinement: `AuditLog` appends to the mapped sequence (`Record`),
the two actions that take effect are `Write`, all others stutter.

*ServerStartupProofs.* `SeededOnce` needs that a start has written exactly the rows before its
position, and that a database without accounts has no other rows either, since the accounts come first
(`AccountsComeFirst`). `LeavesABeginning` and `WholeUnlessCut` are the other side of finding 3: what failing
starts leave is the beginning of the seed, and without a failure (`FirstStart`) all of it is there.

*RateLimiterProofs.* The inductive invariant relates the integer bucket with the ideal one: the
tokens of a bucket, with the whole minutes since `lastFill`, are never more than the ideal level
(`level[c] >= tokens * Minute + ...`, capped at the brim). `WholeMinutes` and `TokensBound` are the
arithmetic of the integer division; the refinement then follows step by step.

*DashboardProofs.* All six properties of `records_dashboard` are proved. `IInv` says of each handler
what it has established (`HandlerOK`): the copy it is about to save may be stale in every column but
the date, which no code changes. `Kept` is what follows of every step: no row goes, no date changes,
the clock does not go back. So a month only gains trainings (`InMonthGrows`), and the second count,
taken of the same month as the first, can never exceed what the month holds from then on; and a
certificate that was listed, or was due, when the list was read keeps its date (`SeenOK`). `StepPreserves`
reduces each step to the worker that takes it. `DecisionsSettle` and `AttendanceKept` are then read
off the two statements that save.

*UserServiceProofs.* `IInv` adds to the invariants that stored numbers are trimmed, that a
request about to answer a registration has its account, and that the copy a profile update holds is
the row of its account up to name and avatar (`HandlersOK`): since GORM saves all columns, phone,
password and role survive only because every copy in flight still agrees on them. Each step
`KeepsAccounts`: no account goes, and none changes the columns a token or a login depends on. Uniqueness itself
rests on the index, the guard of `Insert`, not on the lookup in front of it. `RegistrationRefines` maps the table
to the map from numbers to passwords and roles; the mapped value is held as a constant operator of the table
(`AccountsIn`), so that each step becomes a step on one map: `Insert` is `Register` (`NewMapping`), all
others leave the map as it is (`SameMapping`).

*InspectionServiceProofs.* The inductive invariant says who may write what. Between its row lock and
its commit a handler holds the lock of its inspection (`HoldsRow`, `LocksOK`), no two
transactions write the same item (`WritesApart`), the rows of an open creation are new (`CreateOK`), and what an open
execution has read of its inspection, and computed from it, is still the case (`ExecuteOK`). A
report that has read a terminal row has read the row that is there, and the items it answers are those of
that row (`ReadOK`), because from there on neither changes. `SummariesMatch` is about
sums: that the counts drawn from a list naming every item once are those of the stored items goes
through a bijection between positions and items (`TallyOfComplete`), and the flag an item ends with is that of
its last position, which exists because a set of positions below n has a greatest element (`LastPosition`). For
a list of any form an item with a stored mark is mapped to its last position, which is counted under that mark,
so that the counts are at least those of the stored marks (`TallyCoversJudged`); `ScoreIsFull` is the
arithmetic of a score of 100. No induction over data is needed for it. `ExecutionIsFinal`, `ExecutionIsAtomic` and `PlansAreFixed` are
read off the one step, `Commit`, in which writes become visible.

*PagedListsProofs.* What the page numbers hide is a count: `Ahead(r)` are the rows in front of r, and `Walked`
how many places the pages read so far have covered. `InPlace` is the heart of the invariant: a row that
the walk still owes has at least `Walked` rows in front of it. Rows that enter add to that number, and the
one change that lowers it, a row in front leaving, is what `shifted` records. `PageOfOrder` shows that
`Pages`, which fixes sizes and order only, returns of the rows with a date of their own exactly those with `offset` to
`offset + limit - 1` rows in front, whatever it does with the others. `CountIsEnough` and `LastPageOwesLate`
bring in the total: the list the last page was read from is longer by at most the rows that were late
(`ListedIsCounted`), so what the walk still owes behind that page are no more than these, and `Missed` only shrinks
from there. For a list that stands still (`QuietStands`) the same numbers, read
from both sides (`QuietPages`), make the pages a partition.

Only model-checked: liveness (`EveryRequestEnds`, `LocksAreReleased`, `EventuallyServes`, `SpinnerStops`),
which is out of the prover's reach. Every invariant and every safety property of a passing run is
proved. No recursive operator occurs in the modules proved about, and no theorem needs induction over data.
The theorems say as much of the code as the models do: that a statement is atomic, that InnoDB keeps a
row lock to the end of its transaction and a unique index always, and that bcrypt accepts what it hashed
are assumptions of the modules, not results.

## 5. Plan

1. An abstract specification of the inspections (planned, executed once with its marks) which
   `InspectionService` implements, so that its three action properties become one refinement.
2. Theorems beyond the runs: what the screen shows with more than one worker, with exactly the exceptions
   that finding 1 causes.
3. Models: the statistics of the incidents and the completion rate of the inspections, which count
   twice like that of the trainings; the login page and the guarded routes of the frontend.

## 6. Not modelled

- Token cryptography and bcrypt: a token or password is accepted or not.
- The texts of rows, messages and logs, `util/formatters.go`, `util/logger.go`: no property is about them.
- `config/config.go`: a lookup at start with defaults; only the limit and the token's life matter, as
  constants.
- `middleware/error_handler.go`: it answers errors attached to the gin context, and no handler
  attaches one; the `Recovery` of gin turns a panic into a 500, which is a failing handler to the models.
- Request ids, the request log, CORS: headers without state.
- AutoMigrate and the wiring of `main`; the proxy and the containers, but for the restart policy, the initial
  data and the answer 502 for a server that died.
- The other pages of the frontend: each loads one answer and shows it, in the way of `IncidentScreen`.
- Reads that only list rows are one list in `PagedLists`.
