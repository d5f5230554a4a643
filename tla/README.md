# Verification of osa-backend

TLA+ models of the orchestra administration backend (`src/`): FastAPI routes
over SQLAlchemy services and PostgreSQL, plus an arq worker that runs cron jobs.
Every module here is translated from the code under `src/app`; the file
`PROJECT.json` names the lines behind each definition.

Check a model with `tlc -workers 2 -config MCCasting_any.cfg MCCasting`, a proof
with `tlapm Casting_proofs.tla`.

## 1. The system

### How it runs

* The API is a FastAPI application. Routes are plain functions, so they run in a
  thread pool: requests are concurrent. Every request has a SQLAlchemy session of
  its own (`autocommit=False, autoflush=False`) and PostgreSQL's READ COMMITTED:
  a service function reads, decides, writes and commits once at its end.
* No service takes a row lock. What protects an invariant against concurrent
  requests is a unique or foreign key constraint, or nothing.
* The worker is a separate process. Cron jobs call the same services; mails
  requested by a route are queued in Redis after the route's commit.
* `now()` is constant inside a PostgreSQL transaction, so all rows a service
  function inserts carry the same `created_at`.

### Inventory

| Component | State | Operations | What is hard | What makes it correct |
|---|---|---|---|---|
| Cast engine and booking life (`booking_service`, `user_position_service`) | `bookings`, `booking_requests`, `booking_logs`, `user_positions` | `save_cast`, `reconcile_setup_change`, `change_user_request_status` (request, cancel), `sync_user_positions` | one loop rewrites several lists that share users; quantities change under the lists; the log is derived from a diff | one booking per user, lists without gaps, the log tells who is regular, no orphan bookings |
| Performance (`performance_service`) | `performances`, `performance_positions`, proprium, rehearsals | create, update, delete | update must reconcile casts; the collision check reads before it writes | deletion takes only what is part of the performance |
| Status mails (`booking_jobs`) | `booking_logs.notified_at` | `notify_upcoming_booking_status`, `purge_stale_booking_requests` | one commit after many mails; crash, refusal, kill switch; concurrent entries | mails and marks agree; everybody is told in the end; no repetition |
| Mailer (`core/mailer`) | `sent_emails` | send, log, kill switch | the switch is asked before a mail and counts after it; suppression looks like success | nobody uncounted, overshoot bounded, the switch lifts by itself |
| Sessions (`auth_service`, `api/deps`) | `personal_access_tokens` | login, refresh, logout, time-outs | rotation with several tabs and lost answers | a secret is good once, an ended session stays ended |
| Login throttle (`auth_service`) | `auth_logs` | count, announce the wait | counted, then inserted; whole seconds | overshoot bounded, the wait announced is enough |
| Addresses (`auth_service`, `profile_service`, `user_service`) | `users.email`, verification links, `password_reset_tokens` | register, edit, verify, reset | upper and lower case, links and tokens that outlive what they prove | verified means answered, a token is good once |
| Google accounts (`auth_service`) | `oauth2_bindings` | link, sign in, unlink | one query looks for two conflicts | linked once on either side |
| Users (`user_service`, `user_administration_service`) | `users`, `user_roles` | create, update, soft delete, restore, purge, lock, grants | guards read before they write; purge against history | somebody can administer, no history is purged |
| Permissions and routes (`permission_service`, `api/router_includes`) | the table of routes, the permission matrix | dispatch, guard | order of registration, a hundred guards named by hand | every route is reached, nobody unverified gets in, forms load |
| Master data (`coreelement_service`, `artist_service`, work, score, fee, location, role and short link services) | thirteen tables, their order numbers and references | create, update, move, delete, count a click | max + 1, swaps and look-ups without locks; guards against concurrent references | names distinct, lookups unambiguous, orders permuted by moves, nothing referenced is deleted |
| Backup, restore, downsync (`backup_service`, `backup_jobs`, `downsync_jobs`) | dump files, the database, `job_runs` | `run_backup`, `cleanup_old_backups`, `run_restore` | failure between wipe and load | the last good dump survives, a stage recovers |
| Worker and queue (`worker/*`, `api/job_queue`, `job_run_service`) | cron schedule, Redis queue, `job_runs` | cron tick, enqueue, start, time out, record | the worker dies and jobs run again; threads outlive their timeout | runs of a job neither overlap nor vanish, later ones make up |
| Housekeeping (`*_jobs`) | log tables | delete by age | being missed | a later run does the work |
| Request log (`api/middleware/request_logging`, `request_log_service`) | `request_logs`, `client_user_agents` | log a request before it is answered | a race for the row of a new User-Agent; the handler has committed | the race fails nobody, entries name the caller |
| Schema and migrations (`db/models`, `alembic/versions`) | keys, rules, columns, rows | upgrade, downgrade, the application in between | 38 keys listed by hand in five places; three releases share two generations of ids | references survive, the chain ends where the models begin |
| Statistics, support, SQL inspector, system info, scripts | - | read | - | - |

How they interact: routes call one service function each; `performance_service.
update_performance` calls `booking_service.reconcile_setup_change` in the same
transaction; the diff engine writes `booking_logs`, which only the notification
job reads; the job reads users' verification state, which the profile and the
administration change; every mail passes the mailer, whose kill switch counts
all mails sent; the throttle reads the audit log of the logins; deletions rely on the
foreign keys the migrations leave; a restore replaces everything the other components
keep.

## 2. The modules

```
CastEngine                 operators: lists, diff, log, the loops in closed form
  |-- Casting              state machine of one performance's bookings
  |     |-- (INSTANCE) StatusBoard    the abstract promise to the users
  |-- CastLoop             the same loops call by call, compared with the closed form
  |     `-- Casting_proofs            theorems about Casting and CastLoop
  `-- CastTransactions     several handlers at once, statement by statement
        `-- CastTransactions_proofs   theorems
Notify                     the notification job, step by step
  `-- Notify_proofs                   theorems
Backup                     backups of production, downsync of another stage
  `-- Backup_proofs                   theorems
ForeignKeys                the keys as the models declare them
  |-- MigrationKeys        the keys as each migration lists them
  |     `-- Migrations     the chain, with an application writing in between
  |           `-- Migrations_proofs   theorems
  `-- Catalogue            master data, one and two requests (with Requests)
        `-- Catalogue_proofs          theorems
Requests                   what requests statement by statement have in common
  |-- Sessions, Throttle, Addresses, Staff, Bindings
  `-- Accounts             the five above and Routes, one topic per behaviour
        `-- Accounts_proofs           theorems
Routes                     the table of routes and who is let in
Worker                     arq and the life of the worker
  |-- Mails, CronJobs
  `-- Background           the two above and RequestLogs, one topic per behaviour
        `-- Background_proofs         theorems
RequestLogs                the middleware's log
```

`MCx.tla` with its `.cfg` files instantiates `x` for TLC.

### CastEngine

Operators without state. A *position* is one (position type, id) key; positions
are numbered in the order `get_setup` lists them, which is the order both loops
visit them. A *setup* maps a position to its quantity, 0 for "not there". A cast
list is the injective function from its members to their index; a payload naming
a user twice in one list makes one flush insert two rows for
(performance, user), the unique constraint aborts the request, and nothing
changes, so such payloads are left out. Fees are carried along by the code and
are left out.

`Books` and `Unbooks` are `_diff_cast_transitions` seen from one user.
`LogAfter` keeps of `booking_logs` what later readers can tell apart: the types of
the entries the newest transaction wrote about a user (they tie on `created_at`)
and the one inserted last.

`RowsAfterSave`, `SeenCasts`, `Rewritten` are the effect of a whole loop. The subtle
part is the DELETE of a member's bookings elsewhere: an earlier position's step
removes rows a later position's step would have read as its old list.

### Casting

| Variable | Code |
|---|---|
| `phase` | the performance's row, and `is_past` of its schedule |
| `setup` | `performance_positions` |
| `qualified` | `user_positions` |
| `requests` | `booking_requests`: no row, a row, a row with `notbooked_at` |
| `bookings` | `bookings`: user, position, `order` |
| `log` | `booking_logs`, abstracted as above |

| Action | Function |
|---|---|
| `CreatePerformance`, `UpdatePerformance`, `DeletePerformance` | `performance_service.create/update/delete_performance` (with `reconcile_setup_change`) |
| `SaveCast` | `booking_service.save_cast` with `_apply_cast` and `_apply_notbooked` |
| `RequestBooking`, `CancelBookingOrRequest` | `change_user_request_status`, by the recomputed status |
| `SyncUserPositions` | `user_position_service.sync_user_positions` |
| `PurgeStaleBookingRequests` | the hourly cron job |
| `TimePasses` | the schedule passes |

Every action is one committed transaction. `Spec` admits every payload the request
schema admits; `DisjointSpec` only payloads that name each user at one position,
which is what a form shows that lists every user once. The properties that need
that precondition are stated for `DisjointSpec` and the difference is a finding.

### StatusBoard

The abstract specification: the status each user is shown and who has a request
on file. It says that a toggle moves its own user and at most one user who waited
for the place given up, that saving a cast loses no request, that changing the
setup casts nobody. `Casting!Board` maps `Status(u)` and `requests` to it, and
`ImplementsBoard` is checked as a property of `DisjointSpec`.

### CastLoop

`_save_cast_item` on sequences, one call per step, with the real order of
deletions, entries and flushes; started from every possible set of rows, setup and
payload of the bounds. When a loop ends, rows and entries are compared with the
closed forms of `CastEngine` (`LoopRows`, `LoopLog`). This is what makes the closed forms
trustworthy, and both are also proved for every bound. Its definitions are named `Loop...` where `Casting`
has one of the same name.

### CastTransactions

What `Casting` takes as one step, taken apart: every request has a database session,
each statement of `save_cast`, `change_user_request_status`, `update_performance` and
`delete_performance` is an action, and the statements of several requests interleave.
PostgreSQL's part is external code, modelled as the handlers meet it:

* a SELECT sees what is committed when it runs and its own transaction's writes
  (`Visible`, `Request`);
* a DELETE picks rows the same way and waits for those another transaction has
  deleted (`Delete`, `Blockers`, `Resume`); rows that appear meanwhile are not picked;
* an INSERT waits for, and fails on, a row with its unique key (`Clashes`, `Flush`);
  deleting the performance waits for whoever refers to it (`Touched`, `Drop`);
* of transactions that wait in a circle one is aborted (`Victim`).

| Variable | Code |
|---|---|
| `work`, `tx` | the requests, and per request its local variables and next statement |
| `rows`, `dead` | versions of `bookings` with their writer; deletions not yet committed |
| `requests`, `writes` | `booking_requests` as committed, and what is written on top of it |
| `setup`, `gone` | `performance_positions`, the performance deleted |

Abstractions: quantities and the log are left out; everybody is qualified for every
position, so a toggle asks or withdraws; at most one setup change runs; the
reads of one statement block before the first write (status of a toggle, current
cast of a setup change) are one step. `AloneAsStated` ties the module to `Casting`: a
request that commits before another starts leaves the rows `RowsAfterSave` and
`Rewritten` state.

### Notify

The run of `notify_upcoming_booking_status`: read the logs and choose the entries
(`ReadLogs`), read the users (`ReadUsers`), one mail per user (`Deliver`, or `Suppress`
under the kill switch), one `Commit`. `SmtpFails` and `Crash` end the run without
commit. Around it other transactions write entries, performances pass or are
deleted, addresses are verified or changed, the kill switch toggles.

`told` and `astray` are history variables: what the last mail said, and for
which keys a cut-short run or a suppressed mail has separated mails from marks.
Keys that went astray are excepted in `InStep`, `QuietMeansTold`, `NewsOnly` and
`EventuallyTold`; that such keys really lose messages is what the two runs
`notify_failure` and `notify_switch` show.

Rows of one transaction tie on `created_at` and the query has no ORDER BY: the module
assumes they come back in the order of insertion, which the code does not ensure.

### Backup

Production writes dumps to a store all stages share and deletes expired ones; one other
stage replaces its database by the newest. Both are sequences of calls to other
programs, begun by the schedule or by an administrator (`Callers`), and nothing keeps
two of them apart.

| Variable | Code |
|---|---|
| `koofr` | the files on Koofr: stage, day, place in the order of stamps, whole or truncated, with rows of `job_runs` or without |
| `backup` | `run_backup` and, in the scheduled job, `cleanup_old_backups`: next call, stamp, files to delete |
| `db`, `job_runs` | the stage's database and its run history |
| `restore` | `run_restore` in `job_downsync` and `trigger_downsync`: next call, file, preserved history, outcome |
| `begun`, `settled`, `overlap` | what the bounds count; history rows written while no downsync ran; two downsyncs have run at once |

| Action | Code |
|---|---|
| `StartBackup`, `Upload`, `BackupFails` | `run_backup`; a failed upload may have stored the file or a part of it |
| `ListExpired`, `DeleteExpired`, `EndCleanup` | `cleanup_old_backups`, file by file |
| `StartDownsync`, `Download` | `list_backups(stage="production")`, the GET |
| `Preserve`, `Wipe`, `StartLoad`, `EndLoad`, `LoadFails`, `Verify`, `Reinsert` | the calls of `run_restore` in its order |
| `RestoreFails`, `Dies` | a call raises; the process ends |
| `Record`, `OtherRun` | `record_job_run`, of the downsync and of another job |

A day begins at the scheduled hour. A file exactly `Retention` days old may have expired
or not, since the code compares seconds. The retries of a Koofr request are part of the
request. `Retention` is at least 1; with 0 the code deletes the backup it has just
written. The history keeps of `job_runs` the rows of other jobs, the downsync's last
outcome, and whether production's rows got in.

### Requests

A request is a record that names its next statement and what it has read so far.
`clients` is `{1}` or `{1, 2}` from the start: with one client nothing interferes
(`Alone`), with two every interleaving of their statements occurs. Most properties of
the modules below say both what holds when nothing interferes and what is left when
something does. A request ends at `Rest`, or as `Failed` with the statement and the
cause: refused by a constraint (409), or met by an exception no handler names (500).

### Catalogue

The thirteen tables of master data, one per behaviour. Their services have one shape, so
one set of actions serves them; what differs is in the records of `Services`: what
names may be sent, what is stored of them, under what the check compares names and what
they are told apart by, whether the database has a unique constraint (it compares what is
stored), and the tables a deletion looks into. An artist is a surname told apart by the
given name, which keeps its inner case. References come from `ForeignKeys`: `Refer` inserts a referring row between
another's check and its deletion, and the key's rule decides.

| Action | Code |
|---|---|
| `CheckCreate`, `ReadOrder`, `Insert` | `create_*`, `_next_order` |
| `CheckUpdate`, `Update` | `update_*` |
| `CheckDelete`, `Delete` | `_is_deletable`, `delete_*`, and what the keys do |
| `ReadList`, `Swap` | `move_core_element` |
| `CheckReferred`, `Refer`, `Unrefer` | the services of the referring tables |
| `Resolve`, `RecordHit` | `resolve_and_record_hit` |

### ForeignKeys, MigrationKeys, Migrations

`ForeignKeys` transcribes the keys of `app/db/models` as `<<table, column, parent, rule>>`,
`MigrationKeys` the lists in the migrations, each under the revision that has it.
`Migrations` follows one of the 38 columns, any, through the chain of the twelve revisions
that touch such columns, up and down, with the rows that hold it, their bridges and
their former integer ids. Between the revisions the release of the application that fits
inserts, repoints and deletes rows and parents, within what the constraints of the
moment allow. `moved` is a history variable: rows whose reference changed since the
bridge was filled.

### Sessions, Throttle, Addresses, Staff, Bindings, Routes, Accounts

`Sessions` has one account and a browser with as many tabs as clients. The tabs share the cookie, each
has an access token; an answer (`TakeAnswer`) may be lost (`LoseAnswer`). `refresh_session`
is `ReadSession`, `ReadAccount`, `Rotate` or `Invalidate`. `spent` and `ended` are
history. Hashes and signatures are taken as perfect: a secret is a number drawn once.

`Throttle` counts the log's failures since the last success, each with the time left of
its window, in half seconds because the announced wait is cut to whole ones.

`Addresses` has three spellings of two mailboxes. Registration stores lower case, staff
and users what they type; who may verify, reset and sign in follows from which of the
two a query compares. `proven` is history: whose mail was answered.

`Staff` has the flag `administrator` and one role that stands for the others. Edits are
what differs from the account as loaded (`Edited`), which is what the ORM writes. Bookings
and requests appear and pass meanwhile.

`Bindings` has two users and two Google accounts. `Found` is the one query for both sides.

`Routes` is the table of all routes in their order, with the guard each declares, and
the permission matrix. One call is asked and answered. A path parameter `{id}` is written `":id"`, an empty last
segment `"/"`, which is what the provers can read.

`Accounts` puts the topics together: a behaviour follows one. What one topic takes from
another (an account locked, a password reset) is in the module that needs it, free of
guards, so no topic relies on another's good behaviour.

### Worker, Mails, CronJobs, RequestLogs, Background

`Worker` is arq as the jobs meet it: a job stays in the queue until it ends, a worker that
dies leaves it there, and `MAX_TRIES` starts end it. External code, modelled from
how `src/app/worker` uses it.

`Mails` follows mails from the handler's answer over the queue to the row of
`sent_emails`: `Answered`, `Enqueue` (or `LoseJob`), `StartMail`, `Pass` or `Suppress` (the kill
switch), `Send`, `LogSentEmail`, each a step, since nothing ties them together. A place a mail has
left is taken by another. `reached` is history: recipients mails were sent to. `Day`
moves the period on.

`CronJobs` follows one scheduled job of `build_cron_catalog` for any stage. `Due` enqueues
it under a fixed id, which arq refuses while one is there; `Body` is the thread,
`attended` says that the coroutine still waits for it, `Timeout` leaves the thread running.
`late` counts runs that outlived their timeout, `unrecorded` runs without a row.

`RequestLogs` has the middleware's transaction after the handler's: find the user by the
token's address (`ResolveUserId`), find or insert the User-Agent (`SelectAgent`, `InsertAgent`
in a savepoint, `Reselect`), insert the entry, commit. Users are purged and addresses
change meanwhile; `hindered` is history: the request's user was purged or the database failed.

## 3. The runs

A property is a conjunction of named parts; each part is stated and commented in its
module, here only what they amount to.

| Run | Instance | Properties | Shows |
|---|---|---|---|
| `casting_any` | 2 users, 2 positions, quantities to 2, qualified for nothing or for position 1; any payload | `BookingsConsistent`, `RequestsConsistent`, `BookEntryHonest` | one booking per user, distinct places, no orphan bookings, nobody cast and rejected, deletion leaves nothing, a newest "book" entry is true |
| `casting_disjoint` | 3 users, 2 positions, quantities to 2; each user at one position per payload | `ListsAgree`, `PromotionTold`, `ImplementsBoard` | no gaps in the lists, the two notions of "regular" agree, promotions are logged, the handlers implement `StatusBoard` |
| `cast_loop` | 3 users, 2 positions, quantities to 2, every starting point | `LoopRows`, `LoopLog` | the loops do what `CastEngine` says; each flush respects the unique constraint |
| `tx_two` | 2 requests: any of 3 saves, 2 toggles, 2 setup changes, 1 deletion; 2 users, 2 positions, every starting cast | `TablesConsistent`, `DecisionsKept`, `AloneAsStated`, `EveryRequestEnds` | what survives interleaving: one booking per user, nothing under a deleted performance, two saves reject nobody they cast, a withdrawn request stays withdrawn; both requests end; a request on its own does what `Casting` states |
| `tx_cancel` | 2 toggles | `CancelTakesEffect` (violated) | two users cancel at once and stay booked |
| `notify` | 1 performance, 2 users, 3 entries, 1 failed run, kill switch | `MarksTrue`, `NewsOnly`, `EventuallyTold` | mails, marks and the log agree; no mail repeats the last; whoever keeps a verified address is told in the end |
| `backup` | 2 backups, 3 days, retention of 1 day, 1 failure, 1 trigger by hand or run of another job | `UndisturbedIsWhole`, `ShownAndBroughtIsTrue`, `BackupStays`, `StageRecovers` | a stage loses its database or history only to a failure or to two downsyncs at once, and gets it back; "success" on display is true; no rows of another origin; a whole backup stays |
| `migrations` | every column, 2 parents, 3 rows | `ChainServes`, `RefusedForCause`, `UnmovedKept` | a migration is refused for dangling references or rows changed under the bridge only, inserts are served at every revision, the chain ends with the models' keys; what a row refers to survives every revision up and down |
| `migrations_repointed` | 2 parents, 2 rows | `ReferencesKept` (violated) | a row repointed while both id columns exist refers to its former parent again after the cutover |
| `catalogue` | every table; 3 rows, 2 referring tables, 3 clicks for one client, 2, 1 and 2 for two | `ChecksHold`, `ClicksCounted`, `DeletionTakesParts`, `MovesByOne` | alone, the checks foresee what the database refuses, and names and orders are distinct; with two, lookups stay unambiguous but in five tables, and a deletion takes only parts |
| `accounts` | six topics; one client: 3 sessions, 4 secrets, 1 reset, 3 tokens, 2 edits, 3 accounts, 2 entries; two: 2, 3, 1, 1, 1, 2, 1; limit of 5 failures in 6 half seconds; 4 bindings | `SessionsSafe`, `ThrottleSafe`, `AddressesSafe`, `StaffSafe`, `BindingsSafe`, `RoutesSafe`, `PurgeSpares`, `LockoutEnds` | per topic, what the comment above the property says; a purge spares history; whoever is locked out gets in again, however often they try |
| `background` | 2 mails of up to 2 recipients, threshold 2, period of 2 days, 2 tries; every job of every stage; 2 troubles with one job at a time, none with two; 2 callers, 1 User-Agent | `MailsSafe`, `RunsSafe`, `LogsSafe`, `EveryMailEnds`, `SwitchLifts`, `LaterRunsMakeUp` | sending, counting and switch stay in step; runs neither overlap nor vanish; logging fails, loses and misattributes nothing; queued mails end, the switch lifts, later runs make up |

The remaining `.cfg` files have no place in the list; they are kept to be run by hand, and
each ends in a counterexample that section 5 describes: `MCCasting_log`,
`MCNotify_switch`, `MCNotify_failure`, `MCCastTransactions_setup`, `MCBackup_history`.

Bounds and why they are enough. Two positions give both orders of "elsewhere":
the other position comes before or after in the loop. Three users fill a
quantity of 2 and leave one waiting, so every promotion and demotion occurs; with
two users a quantity of 1 does the same, which is enough where payloads are
unrestricted (4 lists per position and user multiply quickly). Quantities 0 to 2
cover a position removed, shrunk, grown and added. In `Notify` three entries are a
first news, a change, and a change back or a move within one transaction; one
failed run is enough because a second one adds no new relation between marks and
mails.

Users are interchangeable in `Casting` and `CastLoop`, whose runs have no liveness property:
they use symmetry.

Two requests are enough for `CastTransactions` because its hazards are pairs: a read
or a pick of rows made stale by one other transaction. The three saves swap, drop and
gather two users over two positions, so every order of waiting for each other's
rows occurs, circles included. For the same reason `Requests` has two clients. With one client the bounds are larger,
since what needs a history (a secret spent, a token replaced, a list of three to move in) needs
no second client, and what needs a second client needs no long history.

In `Backup` two backups are the least for one to expire while the other is there, three
days put a file before, on and after the limit of one day. One failure is enough for the
safety properties, each about what a single failing or dying call leaves behind; what a
second one adds is a downsync that fails over the remains of another, and with
`MaxFailures = 2` (2 minutes, 900 000 states at two days) the same properties hold.

In `Migrations` three rows are two that share a parent and one that does not; a column's
constraints never look further. In `Throttle` six half seconds are three whole ones, enough
for a wait to be cut and for failures to leave the window apart from each other. In
`Mails` a threshold of 2 with two recipients is reached within one mail and by two,
and two days let a row leave the period. Two tries are a first and a repeated one. Troubles
and parallel jobs are not combined for TLC's sake; the proofs below are not bound by
that.

Fairness. In `CastTransactions` every request is served by a thread of its own, so each
handler is weakly fair; a request that waits for locks is not enabled, and that it ends
nevertheless is what `EveryRequestEnds` shows. In `Notify` only the job's own steps are fair (`Notify!Fairness`): the cron is due
every day, so a run that has something to report starts, and a started run goes
on unless it is cut short. Neither the users, the disposition, the kill switch nor
failures are fair. In `Backup` the scheduled downsync is fair, as it is due every night,
and so is a triggered one once begun: its calls return (the HTTP requests have
time-outs; that `pg_restore` ends is assumed). Failures are bounded by `MaxFailures`; without a bound every
run could fail and nothing would be delivered. In `Accounts` time passes and nothing
else is fair: clients may stop at any statement. In `Background` days pass and jobs are due; the worker's
container is started again after it stopped (a systemd quadlet, see `README.md`; its unit is not in the
repository, so this is an assumption); a job arq has started goes on; and a mail that is due again and
again is finally taken (`SF` of `StartMail`), because arq takes the oldest job first: later mails
cannot overtake it forever.

## 4. The proofs

| Module | Theorem | Statement |
|---|---|---|
| `Casting_proofs` | `TypeCorrect` | `Spec => []TypeOK` |
| | `BookingsSound` | `Spec => []BookingsConsistent` |
| | `RequestsSound` | `Spec => []RequestsConsistent` |
| | `HonestBookEntries` | `Spec => []BookEntryHonest` |
| | `ListsRead` | `DisjointSpec => []ListsAgree` |
| | `PromotionsTold` | `DisjointSpec => PromotionTold` |
| | `BoardImplemented` | `DisjointSpec => ImplementsBoard`, the refinement of `StatusBoard` |
| | `LoopIsClosedForm` | `LoopSpec => []LoopRows` |
| | `LoopWritesLog` | `LoopSpec => []LoopLog` |
| `CastTransactions_proofs` | `TablesAreConsistent` | `Spec => []TablesConsistent` |
| | `DecisionsAreKept` | `Spec => []DecisionsKept` |
| | `AloneIsAsStated` | `Spec => []AloneAsStated` |
| `Notify_proofs` | `MarksAreTrue` | `Spec => []MarksTrue` |
| | `MailsAreNews` | `Spec => NewsOnly` |
| `Backup_proofs` | `Undisturbed` | `Spec => []UndisturbedIsWhole` |
| | `ShownAndBrought` | `Spec => []ShownAndBroughtIsTrue` |
| | `BackupRemains` | `Spec => BackupStays` |
| `Migrations_proofs` | `ChainServesInserts` | `Spec => []ChainServes` |
| | `UnmovedRowsAreKept` | `Spec => UnmovedKept` |
| | `RefusalsHaveCause` | `Spec => [](~AtHead /\ ~Cause => Passes /\ NextRules # {})` |
| | `PassingIsUpgrade` | a step of `Passing`, from a state that `Passes`, is one of `Upgrades` |
| `Catalogue_proofs` | `ChecksDo` | `Spec => []ChecksHold` |
| | `ClicksAreCounted` | `Spec => []ClicksCounted` |
| | `DeletionsTakeParts` | `Spec => DeletionTakesParts` |
| | `MovesGoByOne` | `Spec => MovesByOne` |
| `Accounts_proofs` | `SessionsSound` | `Spec => []SessionsSafe` |
| | `ThrottleSound` | `Spec => []ThrottleSafe` |
| | `AddressesSound` | `Spec => []AddressesSafe` |
| | `StaffSound` | `Spec => []StaffSafe` |
| | `PurgesSpare` | `Spec => PurgeSpares` |
| | `BindingsSound` | `Spec => []BindingsSafe` |
| | `RoutesSound` | `Spec => []RoutesSafe` |
| `Background_proofs` | `LoggingSafe` | `Spec => []LogsSafe` |
| | `JobsSafe` | `Spec => []RunsSafe` |
| | `MailsSound` | `Spec => []MailsSafe` |

Each theorem is about the specification its runs check, which every run evaluates the
assumptions of. The invariants are inductive: a first lemma shows that they hold at the start, one lemma
per action that the action keeps them, and a theorem (`Inductive`, `TransactionsInductive`,
`BackgroundInductive`, ...) that they always hold; the theorems of the table are read off.

`Casting_proofs`, for every finite set of users, every number of positions, every bound on
quantities and every choice of qualification sets. Assumptions: the named ASSUMEs of
`CastEngine`, `Casting` and `CastLoop` (finite users, natural bounds, `Omitted` is no list and no number). The inductive
invariant `IInv` is the
conjunction of the type invariant and the six safety invariants. They need each other:
that a rewritten list has distinct places rests on the old places being distinct and on
one booking per user; that a "book" entry stays honest rests on `BookedOnSetup` and on the
list index never exceeding the stored order. The argument runs from lemmas about
lists (`Index` counts the smaller orders, a rewritten list is injective), over what a save
leaves (`RowsAfterSave`), to one lemma per action, to `NextIInv`, to the theorems.

For `DisjointSpec` the invariant is `DInv`, `IInv` with `NoGaps`. A list without gaps has index and
order equal, so the two notions of a regular place coincide (`ListsRead`); a handler that
takes somebody out moves those behind by one and rewrites the list, which closes the
gap. `BoardImplemented` shows that each action is a step of `StatusBoard` or a
stutter: what a toggle does to others is that one list moves up, so the one who gains a
place is the one at index `quantity`, and nobody else's status changes.

`LoopInv` says where a loop stands: `Looped(base, casts, visited)` are the rows after the positions
`visited`, in closed form. A visit to the next position adds that position to
`visited` (`LoopedNext`), and with all of them visited it is what `CastEngine` states
(`RowsAfterSave`, the purge with `Rewritten`, the withdrawal). That a SELECT in order yields the list whose
indices `CastEngine` counts is `InOrderIsSorted` and `SortedIsCast`, by the least-number principle.

`LogInv` adds the entries: `Recorded(entries, visited)` says that those written so far are exactly what the
closed form states of the positions visited, and that of two entries about one user the later
is about no earlier position. A save visits the positions in order; an update or a withdrawal
finds each user at one position only, so it writes at most one entry about each (`UpdateOnce`). What one call
writes is what `DiffCastTransitions` says of its two lists, dropped members before the
others (`LoggedIs`, by counting through the selected indices). With every position visited, the
last entry about a user is then the one the closed form calls the newest.

`CastTransactions_proofs`, for any set of requests, users and positions, and any work whose records are
requests of the four kinds (`InitialAssumption`, `WorkAssumption`). `VersionsInv`: of two
versions of one user's booking the writer of one has deleted the other, which is all
the unique key allows, so two committed versions cannot be of one user. `GoneInv`: once the
performance is deleted, nothing refers to it, not even uncommitted. `SavesInv`: from
clearing the rejections to its commit a save holds every request, so the next waits there
and what it read of the bookings is still true when it rejects. `WithdrawnInv`:
after a withdrawal nobody else has the request in hand. The last two have the
exceptions of the properties in their premises (all requests are saves; only one toggles).
`AloneInv` is about a request while no other has begun: it says at each statement which bookings the
request sees. Between two positions they are `Looped` of those it began with, the lists it was handed
and the positions visited, as in `CastLoop`; inside a position those of the position and of the
members deleted so far are missing; a list read in order is the cast of its rows, whichever
way a tie were broken (`OrderedIsCast`), because no two rows of a position tie. After the last position
`Looped` is the closed form of a save, and, where every list names only who holds the position already,
that of a withdrawal or a setup change (`LoopedAtHome`, `LoopedUpdate`).

`Notify_proofs`, for any performances, users, length of the log and failures. The rows are ordered by
`created_at`; a row marked or picked is the last its transaction wrote about its key
(`MarkedInv`, `PicksInv`), so the newest marked row is unique and what a run has picked is still news
when it is mailed and marked, since what is written meanwhile is unmarked and no
second run starts.

`Backup_proofs`, for every retention of a day or more and any number of days, backups, runs and
failures (`BoundsAssumption`, `RetentionAssumption`). `Safe(c)` says, per call of a downsync nothing
went wrong in, where the database and the run history are: in place, or in
the preserved copy; `Shown(c)` what is on record, or will be. `BackupsInv` has the reason why
retention spares the last backup: what is cleaned up is older than the dump whose success
started the cleaning.

`Migrations_proofs`, for any parents and rows, each of the keys, and any way up and down the
chain (`NullAssumption`). `KeptInv`: while both exist, a position's column says what type and number say; a bridge of
a row that has not moved is empty or leads where the column leads. `SchemaInv`: which columns are NOT NULL is a
function of revision and column, and at the head the rule is the models'. What makes the second
one more than bookkeeping are the lemmas that compare the lists copied by hand
from migration to migration with the models (`ExplicitAreModels`, `CutoverAreModels`,
`ModelKeysFit`). The other two theorems are `RefusedForCause` without its ENABLED. `Passes`
is what the next migration checks, one conjunct for each that checks something; `Passing` is
the step it then takes, written out: `NextRules # {}` says that there is one,
`PassingIsUpgrade` that it is the migration's. `PassInv` is why a database
without orphans and moved rows passes: a constraint, once added, holds of the rows until it is
dropped (`Keyed`), and the rows satisfy the NOT NULL and the uniqueness that the cutover
recreates long before it does (`Filled`); the columns that are cleaned up have a
constraint from their clean-up on, whence orphans in them are no cause.

`Catalogue_proofs`, for every table and any bounds (`CatalogueAssumption`). `KeysFit` compares each
service's guard with the keys that restrict: three tables that refer to positions are in no
guard, which is where a deletion is refused by the database. The invariant says what
a check, once passed, still means: without interference that the name is free, the order
number the greatest, the row referred to by no table of the guard. Names are free up to
`Sharp`, the artists whose surname a request may spell with a sharp s; look-ups are
unambiguous where the constraint is as coarse as the check (all tables but `Coarser`). `MovesGoByOne` counts the rows above
an element before and after the exchange.

`Accounts_proofs`, for every value of the bounds, for one client and two; of assumptions only
`ThrottleAssumption` (limit and window are positive). `AccountsInv` has,
for the topic that is followed, the inductive invariant of its module, and for the others
that their rows are as at first and that no request looks like one of theirs.
`StaffInv` says that account 1 is an open administrator and that no pending edit,
deletion or purge is about it, which is why somebody administers whatever races; and that without
interference a pending request's target is still as its check found it.
`SessionsInv` says that the secrets of the rows differ and that without interference none
of them is spent, that the secret about to be rotated is the row's, and that, unless an
answer was lost, the browser has or will be given the row's secret.
`BindingsInv` says that without interference a pending link's two sides are still free; the
case of two found rows is where `LinkedOnce` is needed. `AddressesInv` says that until staff or
users have edited an address, every one is in lower case and its own, so a
registration that meets an equal one is stopped by the unique index; and, without interference, that a verified
address was answered from, that each address has one token, unused, and that a
request still finds what it has read. `ThrottleInv` counts the attempts that have passed the check
with the failures; and an announced wait ends at most half a second before the failure that keeps the lockout
leaves its window.
`RoutesSound` is about the table: two routes are out of each other's way (`Misfit`) if method, length or
a literal segment of the first tells them apart, so that no request fits both, and a table of such
routes dispatches as it is meant (`DispatchIs`). Each router is such a table (`ArtistMeets`, ...), prefixes are
told apart (`SectionsApart`), and `TableSpans` puts the 22 sections together; performances and bookings share a
prefix and are compared route by route. Which needs a section has (`RouteOfSection`) then says who gets in where.

`Background_proofs`, for every finite set of callers, any User-Agents, any number of mails, of
recipients, of tries and of troubles, any threshold and any period. Assumptions: `WorkerAssumption`, `MailsAssumption`,
`RequestLogsAssumption`. `LogInv` adds to the properties that two transactions never have inserted the same
User-Agent, that no two users share an address, and what a request has read at
each statement. `CronInv` says that an attended run is the one arq knows of and bounds what is
unrecorded by what went wrong; `MailInv` bounds deliveries by the times a mail was
cut off and the mails that run by the jobs arq runs at a time. `CountInv` relates what mails reached to what
`sent_emails` says. Rows leave the count day by day, so it has to hold for each remainder of the
period by itself: what was reached in the last days and no row of these days tells is in
mails whose row is being written, or was lost with a trouble, each of which loses at most
what the running jobs have (`Room`). What was reached exceeds the threshold by less than what
was lost and that room, mails the switch has let pass included. Sums are stated as
cardinalities (`Total`), whose lemmas come from the library's on finite sets.

Only model-checked, and why:

* liveness, which needs fairness and ENABLED: `EveryRequestEnds`, `EventuallyTold`, `StageRecovers`,
  `LockoutEnds`, `EveryMailEnds`, `SwitchLifts`, `LaterRunsMakeUp`;
* `RefusedForCause` as it is stated, with ENABLED; `RefusalsHaveCause` and `PassingIsUpgrade` prove
  what it says, without the word;
* the two runs that end in a violation.

## 5. Where code and words differ, and other known limits

Two of the runs end in a violation of what the code's own words say: `tx_cancel` and
`migrations_repointed`. What else was met on the way, and is left out of the properties or excepted by
name in them:

* A promotion caused by the removal of a booking at an earlier position is not logged
  (`MCCasting_log`, `LogTellsRegular`; `booking_service.py:1014`).
* The notification job marks entries whose mails the kill switch suppressed
  (`MCNotify_switch`, `MarkedMeansMailed`). `sent_email.py:9-11` speaks of rows for
  mails "(or suppressed)"; `mailer.py:213-222` writes none.
* After a run that was cut short a change back to what was last told is never told
  (`MCNotify_failure`, `ChangesReachEveryone`).
* A save that overlaps a setup change leaves a booking on a removed position
  (`MCCastTransactions_setup`, `BookedOnSetup`).
* A run that another job records between the dump of `job_runs` and the DROP is lost
  (`MCBackup_history`, `RunsPreserved`).
* At its timeout arq raises `CancelledError` in the coroutine, which `except Exception`
  does not catch (`scheduled_jobs.py:52-63`): such a run leaves no row, although
  `job_run_service.py:1-2` says every run does. Jobs an administrator triggers leave none
  either. `RunsRecorded` allows for both.
* A log entry that cannot be written turns the answer to a committed request into
  an error (500), and the background task that would enqueue its mail does not run.
* `performance_service.py:192` relies on unique indexes on the exact time that do not
  exist: two performances may be created in one hour. Scores have no constraint either,
  and those of artists and works are finer than the checks (below). Every later check of a
  score, an artist or a work that meets twins expects one row at most
  (`scalar_one_or_none`) and fails with `MultipleResultsFound`, a 500
  (`LookupsUnambiguous` excepts the five tables).
* The check of an artist lowers both names (`artist_service.py:81-87`), the constraint is on
  the exact pair (`artist.py:24`), and `normalize_givenname` keeps the inner case of a given
  name (`human_names.py:5-11`): "Jean-paul" and "Jean-Paul", created at once under one
  surname, are twins. A surname with a sharp s needs no second request: upper() stores
  "GROSS", lower() of what is sent is not lower() of that, so the check passes, and the
  constraint refuses the row (409) or, if the given names differ in case, does not
  (`AloneDistinct` and `AloneRefusedInTime` except that surname). Names of works are stored
  as sent and their twins differ in case, too.
* Linking a Google account that is linked elsewhere to an account that is linked elsewhere
  ends in `MultipleResultsFound` (`auth_service.py:547`), not in a refusal
  (`AloneLinkAnswered` says it is the only such case).

## 6. Not modelled, and why

* The log and the quantities under interleaved statements: `Casting` takes a
  transaction as atomic, `CastTransactions` does not but keeps bookings and requests only.
  So entries of overlapping transactions, whose `created_at` may order them against
  their commits, are in neither `CastTransactions` nor `Notify`.
* Fees, formatting, templates, message texts, fee totals, recipient lists and the
  statistics: data the properties do not tell apart, and read-only queries.
* The administrator's restore of a named file by script, and the stamps of the hour that
  autumn repeats: `Backup` has neither.
* The switch's count of mails in `Notify`, a free toggle there; `Mails` has the count.
* Proprium and rehearsals of a performance beyond being its parts.
* The names of a user. They are checked and constrained much like an artist's, but no
  check of them fails on twins (`auth_service.py:280-285` takes the first row).
* Validation of fields that no other row matters to.
* Column types, triggers and single-value data fixes of the migrations; migrations that
  touch no reference.
* Hashing, signatures, Google's and SMTP's protocols: taken as what `src/` expects.

## 7. Plan

1. Done: `CastEngine`, `Casting`, `StatusBoard`, `CastLoop`, `CastTransactions`, `Notify`, `Backup`.
2. Done: `ForeignKeys`, `MigrationKeys`, `Migrations`; `Requests` and `Catalogue`; `Sessions`,
   `Throttle`, `Addresses`, `Staff`, `Bindings`, `Routes` in `Accounts`; `Worker`, `Mails`, `CronJobs`,
   `RequestLogs` in `Background`.
3. Done: the eight modules of theorems of section 4.
4. Left to model: the log under overlapping transactions, once there is an abstraction of
   `CastTransactions` small enough to compose with `Notify`; billing and recipients as
   algorithms against a reference.
