# TLA+ specifications of the APRS service registry

The registry is a FastAPI application. Operators of APRS services register a
callsign over HTTP; the registry keeps it in SQLite, sends each service an APRS
message once an hour, and shows on its pages which services answer. Admins edit
services and moderate the commands users suggest for them.

This directory holds TLA+ models of the parts of it that keep state, TLC
configurations that check them on small instances, and TLAPS proofs of the main
properties for every instance. Paths below are relative to
`src/aprs_service_registry/`.

## The system

| Component | State | Operations | Runs on |
|---|---|---|---|
| Registry database, `db.py` | tables `services`, `service_commands`, `health_checks`, `command_submissions`, `audit_events` | the methods of `RegistryDB` | whichever thread calls |
| SQLite connection, `db.py:117-134` | the open transaction | `_connect`: statements, commit, rollback | one connection for all threads |
| Request handlers, `main.py` | rows read and not yet written back | about 20 that write, as many that read | the event loop |
| Health checker, `health_checker.py` | the checks in progress, the tracker `_received_responses` | `check_service`, `send_and_wait_for_response` | one thread per check |
| Scheduler, `health_checker.py:814-889` | one hourly job per service | run a job | event loop, thread pool |
| Consumer thread, `health_checker.py:138-251` | thread, running flag | receive a packet, reconnect, start, stop | its own thread |
| APRSD initialisation, `health_checker.py:265-430` | `_aprsd_initialized`, the configuration | initialise once | the first thread that needs it |
| Lifespan, `main.py:56-81` | - | start and shutdown of all of it | the event loop |
| Command line, `cli.py` | - | `server`, `migrate-to-sqlite`, `undelete` | processes of their own |

How they interact:

- A handler is a coroutine. Its database calls block the event loop, so between
  two awaits no other handler runs; **check threads do**. Only
  `admin_edit_service` awaits (the form) between reading a row and writing it.
- A check reads the service, drops the tracker's entry for it, sends up to three
  messages and polls the tracker for 30 s after each. The consumer thread fills
  the tracker from a callback. After that the check looks into the tracker once
  more, reads the history, appends its result, and writes the status it decided
  from **what it read up to 90 seconds before**.
- A check is started by the job the scheduler has for the service, or by one of
  three trigger handlers, each with a new thread. APScheduler does not overlap
  the runs of one job; nothing keeps the others apart.
- Jobs are made when the process starts, for the services there are then.
- Lifespan starts the consumer and stops it. Every check makes sure that it runs,
  and so do the bulletin job and the handlers for bulletins and beacon: they
  initialise APRSD if need be, under `_aprsd_init_lock`, and start the thread if it
  is not alive, under `_consumer_lock`. The start initialises once more under the
  second lock.
- The initialisation has APRSD re-read the configuration, which resets the options
  of the registry; they are saved before and overridden after.
- The command line is a second process on the same file: a migration or an
  `undelete` can run beside the server.
- All threads share one `sqlite3` connection, and a transaction belongs to the
  connection.

What is hard about it, and what a test hardly reaches, is listed with its lines
under `hazards` in `PROJECT.json`: overlapping checks of one service, statuses
decided from old reads, the suspended edit, repeated decisions of moderators,
restarts between two writes of a check, and the transactions that threads end
for each other.

What makes each part correct:

- **checks**: a service goes down after three failures in a row and not before, an
  answered check succeeds, every check ends, a silent service ends up down;
- **statuses**: each change by a check is a transition the guide draws, and no row that
  is written back right after it was read brings a deleted service back;
- **registration**: what admins manage survives re-registration;
- **commands**: no two of one service, and no two waiting for moderation, that
  differ in case only;
- **database**: the changes of a method that overlaps no other are all in the file or
  none of them are, and overlapping methods lose nothing but to a rollback;
- **consumer**: there is one while the server runs, it comes back after an outage,
  and nobody waits for ever for the locks around it;
- **configuration**: the options an operator set survive the initialisation, and
  nobody sees them change;
- **migration**: a completed run has moved everything, however often it was
  interrupted before, and undoes no decision of a moderator;
- **calculations**: the passcode is the one of APRS-IS, checks are spread over the
  hour, the uptime figure does not flatter, a suggestion labelled safe to approve is.

## The modules

| Module | Models | Extends |
|---|---|---|
| `RegistryDB` | the tables and the write methods of `db.py`, one step each | |
| `HealthChecker` | checks, tracker, jobs, triggers, restart | `RegistryDB` |
| `WebApi` | every handler of `main.py` that writes | `RegistryDB` |
| `System` | the process: both of the above over one database | `HealthChecker`, `WebApi` |
| `ServiceLifecycle` | what can happen to a status, and at whose hands: the abstract specification of `System` | |
| `AtomicStore` | what a `db.py` method promises: all of it or nothing | |
| `SharedConnection` | the one connection, statement by statement | |
| `Consumer` | APRSD's initialisation, the consumer thread, and who starts and stops it | |
| `CommandLine` | `migrate-to-sqlite` and `undelete` beside a server | `RegistryDB` |
| `Calculations` | passcode, stagger interval, uptime, labels of the moderation page | |
| `RegistryDBProofs`, `HealthCheckerProofs`, `WebApiProofs`, `SystemProofs`, `SharedConnectionProofs`, `ConsumerProofs`, `CommandLineProofs`, `CalculationsProofs` | the proofs | |
| `MCHealth`, `MCSystem`, `MCConnection`, `MCConsumer`, `MCCommandLine`, `MCCalculations` | constants for TLC | |

### RegistryDB

A column of `services` is a function of the callsign, and a service without a row
has status `"absent"`. A row is never removed (`delete_service` writes a status),
so that value is left once and for all. Commands are sets of names, without
descriptions, and names have no outer blanks. `Folded` is Python's `str.lower()`,
by which handlers compare names; `Lowered` is SQLite's `LOWER`, by which
`remove_command` compares them, and which folds ASCII only.
Submissions are records with a ticket for their uuid. A row of `health_checks` has
its success and the rank of its timestamp, which is all that
`ORDER BY timestamp DESC` and the count of consecutive failures look at. Free-text
columns and stamps are left out. Of the audit table the newest row is kept, so
that a property can say who made a change.

### HealthChecker

`check[t]` is the check that thread `t` runs, with a program counter that stops
wherever another thread or the event loop can come between two accesses to shared
state:

| pc | in the code | left by |
|---|---|---|
| `started` | the thread has begun | `SkipDeleted`, `BeginCheck` |
| `begun` | the service is read, `check_start_time` taken | `CannotSend`, `SendMessage` |
| `polling` | waiting after message number `attempt` | `PollHears`, `Retry`, `GiveUp` |
| `late` | no response; second look at the tracker due | `LateLookup` |
| `judging` | the outcome is known | `TakeTimestamp` |
| `stamped` | the result is made | `Judge` (history, new status) |
| `recording` | the new status is decided | `RecordResult` |
| `updating` | the result is in the history, the status changes | `UpdateStatus` |

Thirty seconds of polling are a choice between `PollHears`, which is enabled when
the tracker holds a packet that is new enough, and `Retry` or `GiveUp`. The choice
is free, because the last poll and the end of the interval are half a second apart
and the packet can arrive between them. `packet` says how the newest packet stands
to the check: older than it, newer than its start, or newer than its first
message. `ReceivePacket` is the consumer's callback and may happen at any moment;
losing, delaying or repeating an answer is its not happening, happening late, or
happening twice. `CannotSend` is every way in which
`send_and_wait_for_response` returns before it sends. `RestartChecks` is a crash or
a shutdown and the next start.

### WebApi

One action per handler that writes; an admin page and the API endpoint that do the
same share one. A handler whose write depends on columns the check threads write
as well has two steps, with the prepared write in `loop` in between; `LoopFree`
keeps a second handler out, as the event loop does. `edits` holds the snapshots of
the edit handlers that wait for their form. Requests and forms come from constants.
A form may come without a status (a new service is active then, an edited one has
the status of the snapshot) or without a health check command; a blank command
(`Blank`) is none for a new service and kept as it is for an edited one.
A request that is refused (authentication, rate limit, validation, 404, 409)
changes nothing and is a guard that is false.

### System

`Next` is a step of the health checker, a step of a handler, or a restart, which
also loses the requests in progress. `Init` is the first start, on an empty
database. In `System` a method of `RegistryDB` is one atomic step.
`SharedConnection` says how far that is right: a call that overlaps no other is
all or nothing; of overlapping calls only a crash leaves a part, unless one of them
fails and rolls back, and then the other can be lost (`connection_lost`).

### SharedConnection and AtomicStore

A method is the list of tables its statements write (`Writes`). A call executes
them one at a time and commits; a raised exception makes it roll back. Commit and
rollback act on `transaction`, which is one for all clients. A method that only
reads has no statements and **commits all the same**. `upsert_service` reads its
row back in a second transaction after its own (`ReadsBack`, `ReadBack`), which can
raise when the rows are in the file. `Crash` ends all calls and drops the open
transaction. Two variables observe: `overlapped` has the calls that ran at the same
time as another, `undone` those that lost statements to the rollback of another.

`AtomicStore` is what a caller of one method may rely on ("Provide the connection
within a transaction"). A call that overlaps no other puts all of its work into the
file and returns (`Perform`), or ends otherwise with nothing of it there (`End`); one
that reads its row back has all of it there first (`PerformFirst`) and may end in
any way. Calls that meet (`Meet`) may do a part of their work (`Interfere`), but
nothing once they have ended, and nothing to others. `SharedConnection!KeepsPromise`
is its specification under the identity mapping of `file`, `history` and
`overlapped`. Handlers never overlap each other, so that for them it is the whole
promise while no check runs.

### ServiceLifecycle

The guide draws the transitions of checks as if a check saw the status it changes.
It sees the one from up to 90 seconds before. `held` has, for each service, the
statuses that checks in progress have read, and `CheckMoves` is a transition from
one of those; without it the code has no lifecycle to speak of. `OwnerMoves` and
`AdminMoves` are told apart by the actor in the audit table, which `System` maps to
`by`. An owner does not make a deleted service active; pending or down the code
lets through (see below), and so does the module. `StatusesFollowLifecycle` says
that `System` implements it, with `held` mapped to `HeldStatuses`, what the checks
that have begun read.

### Consumer

`pc[t]` is where thread `t` is, the event loop or a thread that runs checks or
bulletins; `phase` is how far lifespan has come.

| pc | in the code | left by |
|---|---|---|
| `initialize` | `_initialize_aprsd` is called, without `_consumer_lock` | `EnterInitialize` |
| `start` | `start_persistent_consumer` is called | `StartConsumer` |
| `nested` | there is no live thread: it initialises, with `_consumer_lock` | `EnterInitialize` |
| `parsing` | options are saved, `cfg.CONF()` is next | `Parse` |
| `restoring` | `set_override` is next | `Restore` |
| `connecting` | `APRSDClient()` is next | `Connect` |
| `spawn` | the flag and the thread are next | `Spawn` |
| `stop`, `join` | `stop_persistent_consumer` | `StopConsumer`, `JoinConsumer` |

`listener[k]` is a consumer thread: at the `top` of its loop, `resetting` the
client, `reading` packets. `Network` is the outage and the broken connection. A
join gives up after 5 s, so `JoinConsumer` has no guard; the thread it forgets goes
on until it looks at the flag. An option is `"operator"` or `"default"`; options of
the same fate are one (`save_location` stands for all that are preserved and
branch nothing, `db_path` for those that are not preserved). `TurnedOn` says which
switches the operator's configuration turns on. `CONF` forgets the file when it is
parsed anew and keeps overrides; `readable` says which values of
`aprsd_config_path` name a file it can read.

APRSD and oslo.config are not part of the repository. Assumed of them: connecting
and resetting succeed while the network is up and fail or raise while it is not;
`consumer()` returns or raises some time; overrides survive a re-read; a re-read
that fails has reset the rest.

### CommandLine

A migration is row by row: services are upserted, results appended, suggestions
submitted with their old ids, in this order of tables and any order within one.
`refused` has the rows of the files that no table accepts, whatever it holds: a
status the CHECK does not know, NULL in a column that is NOT NULL (a suggestion
without `submitted_at`, `cli.py:228-237`). `Abort` is the exception nothing catches:
a refused row, a row of a service that is not there, or a suggestion whose id is
there already. `Interrupt` is every other end. What was moved stays, since each call
is a transaction. A run starts from the top (`BeginMigration`), up to `MaxRuns`
times. `undelete` is a read and a write with anything in between. `ServerWrites` is a
server on the same file that makes any write at any moment, whatever leads it there.
`copies` and `clean` observe: how often a result was appended, and whether the
database was fit for the run. The ids within a file are distinct, and the server,
which draws uuids, gives none of them.

### Calculations

A state is a call, and then its result. A number computed bit by bit is the set of
its bits, an exclusive or is a symmetric difference, a character is its code; what
the functions return is compared with what they are said to compute, not with
another copy of the loop. A loop is a recursive function of the number of rounds
(`Hash`, `Seen`). Texts are ASCII (`CalculationAssumption`): what `str.upper` makes of
other characters is not modelled. `Uptime` rounds as Python does: halves to the even
number, except for 23 of 40, whose binary fraction is below 57.5.

## What the runs show

Passing runs (`tlc -config NAME.cfg MODULE`):

| Run | Instance | States | Properties |
|---|---|---|---|
| `overlap` | the health checker, one service checked by its job and by hand, two threads, four checks, three attempts, restarts | 231 thousand | `DownIsBacked` |
| `operators` | the whole system, one service only its job checks, two threads, six checks, two attempts, every handler that writes its status but the suspended edit, restarts | 1.4 million | `TypeOK`, `DownAfterConsecutiveFailures`, `AnsweredCheckSucceeds`, `StatusesFollowLifecycle`, `DecidedByHistory` |
| `silent` | two services with jobs, two threads, two failures for down, two checks each | 183 thousand | `EveryCheckEnds`, `SilentServiceGoesDown` |
| `moderation` | one service, three spellings of one command (one only Python folds), two tickets, a suspended edit, forms with fields left out | 1.5 million | `PendingUnique`, `CommandsFoldUnique`, `RegistrationKeepsAdminFields`, `RewritesKeepDeleted` |
| `connection_shared` | event loop and a check thread, two calls each, every call may fail, crashes | 1.3 million | `LostOnlyByRollback`, `DurableIsPrefix`, `KeepsPromise` |
| `consumer` | event loop and two more threads, three consumer threads, all switches on, any readable files | 11 thousand | `ConsumerTypeOK`, `OneConsumer`, `OptionsPreserved`, `WaitsEnd`, `OptionsSteady`, `CallsReturn`, `ListenerReturns`, `StoppedConsumersEnd` |
| `migration` | two services, eight kinds of files, three runs of the migration, a server | 518 thousand | `CommandLineTypeOK`, `MigrationMovesEverything`, `CleanRunsSucceed`, `DecisionsSurvive` |
| `calculations` | texts up to five characters, 0 to 70 services and the end of the interval, all figures of 50 checks, queues of three | 24 thousand | `PasscodeIsParity`, `ChecksAreSpread`, `UptimeIsHonest`, `LabelsAreSafe` |

Runs that end in a counterexample, each for a sentence of the documentation or a
comment the code does not live up to (quoted under `findings`):

| Run | What happens |
|---|---|
| `check_undeletes` | a check that began before a delete brings the service back |
| `connection_lost` | a call returns and its statements are not in the file |
| `health_report` | the first initialisation cannot read APRSD's file: health checks are off from then on, and `/health` answers 200 without a connection |
| `migration_rerun` | a second run of the migration appends the results of the first once more; with suggestions it ends at the first one that is there (`cli.py:232`) |

Other disagreements, read off the code and visible in the actions, have no run:

- a re-registration with status `pending` or `down` brings a deleted service back:
  the guard looks at what the request asks for (`main.py:334`; "Don't allow
  re-registration to un-delete a service", `main.py:337`);
- one that leaves the status out turns a pending or down service active
  (`main.py:334`; "Preserve status if not explicitly changed", `main.py:333`);
- a command added while an edit waits for its form is lost (`main.py:1268`;
  "Preserve commands - they are not editable via this form", `main.py:1284`), and a
  service deleted meanwhile comes back, since the form or the snapshot has its old
  status (`main.py:1280`);
- a suggestion can be decided again after it was decided (`db.py:562`; "Approve a
  pending command submission", `main.py:680`);
- "Discard" on a row labelled a duplicate of another row posts `approve`, which adds
  the command when that row is not approved yet (`main.py:1049`; "Approving will
  discard the suggestion", `web/templates/admin/commands.html:55`). Such rows come
  from migrated files only;
- a service that registers after the start has no job (`health_checker.py:835`;
  "hourly for all registered services", `web/templates/guide.html:142`);
- a check drops the answer an overlapping check is about to read
  (`health_checker.py:480`; "If a response is received within the timeout, the
  check passes", `web/templates/guide.html:137`), and of two overlapping checks one
  can record a success and the other take the service down after it
  (`health_checker.py:628`);
- a migration that is run again also writes the pickled services over what became of
  them, deleted ones too, and the results it appends twice count as failures in a row
  (`cli.py:157`, `cli.py:199`; beyond what `migration_rerun` shows);
- `upsert_service` can raise with its rows in the file, when it reads the row back in
  a second transaction (`db.py:302`; "Provide the connection within a transaction",
  `db.py:128`): a registration answers 500 and has happened;
- uptime is over the last 50 checks (`health_checker.py:44`; "over the last 24
  hours", `web/templates/faq.html:146`);
- the listing without parameters contains pending and down services (`main.py:364`,
  against README.rst:276);
- a commit of another thread followed by a crash leaves half of a call in the file
  (`db.py:131`; "Provide the connection within a transaction", `db.py:128`);
- `seed` imports a class that no longer exists.

The bounds, and why they are enough:

- `MaxChecks` (checks of a service that ran or are running): three failures, a
  recovery and more fit into the six of `operators`, three failures and an
  overlapping check into the four of `overlap`.
- `MaxRetries` is 3 in the code and in `overlap`; a middle attempt differs from the
  last one only by a guard, and `operators` and `silent` have 2.
  `FailuresForDown` is 3 in the code and everywhere but in `silent`, where 2 leaves
  room for two services. The theorems hold for every value of both.
- `Threads`: two are needed for an overlap, and services are independent of each
  other except through the threads, so a third adds no kind of interference.
- `MaxEdits` is 1 in `moderation`: a second suspended edit overwrites like the
  first. `operators` has none, and none of its properties says what an edit does to a
  status; `StatusesFollowLifecycle` allows an admin every status, and the theorem
  covers edits. It registers with `active` and `pending`, and creates with every
  status.
- `MaxCalls` is 2 per client: a call before the one that is lost or half written. The
  loop has a method that only reads, one that writes two tables and the one that
  reads its row back; the thread has the two a check writes with. The theorems are
  about all methods.
- `consumer`: a thread that starts the consumer and two that compete with it or
  with the stop; of three consumer threads one can be the forgotten one and one its
  successor, and `Spawn` always finds a free one, which `OneConsumer` shows: never
  more than two live.
- `migration`: a run, a second one that meets its rows, and a third that meets
  both. The files are what is moved, what refers to a service that is not there,
  what is duplicated, and a service, a result and a suggestion that the tables
  refuse; a longer file repeats these. `migration_rerun` needs two runs.
- `calculations`: a passcode treats the characters of a pair each in its own way
  and every pair alike, so that five characters have two pairs and an odd one.
  Services up to 70 and the numbers where the interval becomes 2, 1 and 0;
  `get_health_checks` returns 50 rows at most; a label depends on a row, one like it
  before and one that blocks it.
- Commands: two spellings of one name are the smallest instance on which
  comparing up to case differs from comparing, and a third is one that Python folds
  to the same name and SQLite does not. No list in `Requests` and `CommandLists` has
  two of them, which is the premise of `CommandsFoldUnique`.

Threads and tickets are symmetric in the runs with invariants and action properties
only. The runs of `System` and of `CommandLine` leave `audit` out of the fingerprint
(`ButAudit`): no guard reads it, and the properties that mention it
(`StatusesFollowLifecycle`, `RewritesKeepDeleted`, `CheckKeepsDeleted`) look at the
row after a step that changes a status, which that step itself has written. Deadlock is checked everywhere but in the runs
of `SharedConnection`, which stop when every client has made `MaxCalls` calls, and
of `Calculations`, which stop when the call has returned.

Every property of a passing run has a mutant: an operator beside the one it
changes ("Mutant of ..."), listed in `PROJECT.json`, with which the run fails.

### Fairness

`HealthFairSpec` assumes weak fairness of each check thread
(operating system threads are scheduled, every wait in a check has a time limit)
and of each job (the scheduler's timer fires every hour; while a service's earlier run
goes on the job is not enabled, and need not be). Nothing makes a packet arrive. It
is the health checker by itself, between two restarts: there are no requests but
the triggers of checks, and no restarts, since a process that is restarted often
enough finishes no check. A service that somebody edits or deletes while it is
silent is therefore beyond `SilentServiceGoesDown`. `SilentServiceGoesDown` allows for a
recorded success, the only way for a service to leave `pending` upwards.

`ConsumerFairSpec` assumes weak fairness of the start of lifespan and of each
consumer thread, and strong fairness of calls and of the stop, which wait for
locks: a thread that waits for a lock which is free again and again gets it, since
the others hold it for a bounded time and sleep for minutes. Checks go on being
started (the scheduler). Nothing is assumed of the network or of bulletins and
beacons: `ListenerReturns` has the network that stays as its premise, and is about
registries whose operator turned health checks on and whose APRSD file can be read;
without checks a dead consumer thread waits for the next bulletin.

## What is proved

With TLAPS, for all values of the constants that satisfy the assumptions
`DBAssumption`, `HealthAssumption`, `WebAssumption`, `ConnectionAssumption`,
`ConsumerAssumption`, `CommandLineAssumption` and `CalculationAssumption`:

| Theorem | Statement |
|---|---|
| `SystemProofs!TypeCorrect` | `Spec => []TypeOK` |
| `SystemProofs!DownIsBackedHolds` | `Spec => []DownIsBacked` |
| `HealthCheckerProofs!DownIsBackedAlone` | `HealthSpec => []DownIsBacked` |
| `SystemProofs!DownAfterConsecutiveFailuresHolds` | `Spec => []DownAfterConsecutiveFailures` |
| `SystemProofs!DecidedByHistoryHolds` | `Spec => DecidedByHistory` |
| `SystemProofs!ChecksAreFiniteHolds` | a check has at most `MaxRetries + 7` steps to go, its own steps lower that, nobody else's raise it |
| `SystemProofs!AnsweredCheckSucceedsHolds` | `Spec => []AnsweredCheckSucceeds` |
| `SystemProofs!PendingUniqueHolds` | `Spec => []PendingUnique` |
| `SystemProofs!CommandsFoldUniqueHolds` | `Spec => []CommandsFoldUnique` |
| `SystemProofs!RegistrationKeepsAdminFieldsHolds` | `Spec => RegistrationKeepsAdminFields` |
| `SystemProofs!RewritesKeepDeletedHolds` | `Spec => RewritesKeepDeleted` |
| `SystemProofs!StatusesFollowLifecycleHolds` | `Spec => StatusesFollowLifecycle`: `System` implements `ServiceLifecycle` |
| `SystemProofs!RevivalNeedsAuthorityHolds` | `Spec => Lifecycle!RevivalNeedsAuthority` |
| `SharedConnectionProofs!ConnectionTypeCorrect` | `ConnectionSpec => []ConnectionTypeOK` |
| `SharedConnectionProofs!LostOnlyByRollbackHolds` | `ConnectionSpec => []LostOnlyByRollback` |
| `SharedConnectionProofs!DurableIsPrefixHolds` | `ConnectionSpec => []DurableIsPrefix` |
| `SharedConnectionProofs!ConnectionImplementsStore` | `ConnectionSpec => KeepsPromise`: the shared connection implements `AtomicStore`, for any number of clients, with failures and crashes |
| `ConsumerProofs!ConsumerTypeCorrect` | `ConsumerSpec => []ConsumerTypeOK` |
| `ConsumerProofs!OneConsumerHolds` | `ConsumerSpec => []OneConsumer` |
| `ConsumerProofs!WaitsEndHolds` | `ConsumerSpec => []WaitsEnd` |
| `ConsumerProofs!CallsAreFiniteHolds` | a call has at most ten steps to go, its own steps lower that, nobody else's raise it |
| `ConsumerProofs!OptionsPreservedHolds` | `ConsumerSpec => []OptionsPreserved` |
| `ConsumerProofs!OptionsSteadyHolds` | `ConsumerSpec => OptionsSteady` |
| `CommandLineProofs!CommandLineTypeCorrect` | `CommandLineSpec => []CommandLineTypeOK` |
| `CommandLineProofs!MigrationMovesEverythingHolds` | `CommandLineSpec => []MigrationMovesEverything` |
| `CommandLineProofs!CleanRunsSucceedHolds` | `CommandLineSpec => []CleanRunsSucceed` |
| `CommandLineProofs!DecisionsSurviveHolds` | `CommandLineSpec => DecisionsSurvive` |
| `CalculationsProofs!PasscodeIsParityHolds` | `CalculationSpec => []PasscodeIsParity`, for ASCII texts of any length |
| `CalculationsProofs!ChecksAreSpreadHolds` | `CalculationSpec => []ChecksAreSpread`, for any number of services |
| `CalculationsProofs!UptimeIsHonestHolds` | `CalculationSpec => []UptimeIsHonest`, for histories of up to `HistoryLimit` checks |
| `CalculationsProofs!LabelsAreSafeHolds` | `CalculationSpec => []LabelsAreSafe`, for pages of any length |

They hold for any number of services, threads, edits and checks: the bounds of the
runs are constants here, and the proofs do not use them.

The argument for `System`. `HealthInv` (in `HealthCheckerProofs`) and `WebInv` (in
`WebApiProofs`) are each preserved by the steps of their own module and by what the
other module's steps may do to the database; `SystemInv` is their conjunction. None
of the properties is inductive by itself:

- `DownIsBacked` speaks of the moment before the status is written, and the count
  was made two steps before. The invariant says what a judgement in waiting
  implies about the history: before recording one failure less than
  `FailuresForDown`, after recording all of them. It needs that the history only
  grows, that it is finite, and that timestamps are not reused.
- For `DownAfterConsecutiveFailures` the same is said of the failures newer than
  every success. That survives the other steps only because nobody else adds a row
  for the service: `SoleCheck`, a part of the invariant, says that a service nobody
  triggers by hand has one check at most.
- `DecidedByHistory` compares a decision with a history the result is only later
  added to. The invariant (`JudgedByHistory`) says that the decision still is what
  the history of now gives; nobody adds a row in between, by `SoleCheck`. The
  result is newer than every other row (`NewestStamp`), so that a success leaves no
  failure in a row and a failure makes one more (`ResultCounts`).
- `AnsweredCheckSucceeds` needs that an answer to the only check of a service is
  still in the tracker while the check polls, again by `SoleCheck`.
- `CommandsFoldUnique` needs the same of the prepared write in `loop` and of the
  snapshots in `edits`, since both are written to the table later.
- `RegistrationKeepsAdminFields` needs that the prepared write of a registration
  agrees with the row it is about to replace: check threads write only the status
  of it, and no other handler runs.

The argument for `SharedConnection`. For calls that overlap (`OverlapInv`): the
statements a call has executed are in the open transaction or in the file
(`Executed`), with each the ones before it (`PrefixesReached`), unless another's
rollback took some, which `undone` notes; a commit moves all of them, a crash drops
those of calls that then have not returned. For the promise (`PromiseInv`): the open
transaction belongs to calls in progress (`TransactionOwned`), and two in progress
are both noted as overlapping (`OverlapNoted`); so that a call not noted owns the
whole transaction, has nothing in the file before it commits, and everything after
(`AloneSoFar`).

The argument for `StatusesFollowLifecycle`. `LifeInv` adds to `SystemInv` what the
steps that write a status rely on: the status a check is about to write is the one it
read or a transition from it (`CheckFollows`); prepared writes of a status alone are
an admin's (`StatusWritesByAdmin`); and a prepared write of a whole row does not
undelete, except for a registration that asks for another status than the default
(`PreparedRowsKeepDeleted`), which a later check cannot spoil, because it
never writes `deleted`, and another handler cannot, because the event loop runs the
write before it. The suspended edit prepares nothing and writes what its form or its
snapshot says. Each step is then a step of `ServiceLifecycle` or leaves the
statuses and at most drops some of the held ones. `RevivalNeedsAuthority` follows
from the abstract specification and is carried over by the refinement.
`RewritesKeepDeleted` follows from `LifeInv`: each of the other steps that makes a
deleted service active writes the status alone or ends a suspended edit
(`RevivalSteps`).

The argument for `Consumer`. `OneConsumer` rests on the locks: whoever is about to
start a thread holds `_consumer_lock` (`LockInv`), and until it releases the lock
nobody else makes the thread that it found dead alive (`ListenersInv`). A second
live thread is the one the join forgot, and after that lifespan stops none. For the
options two phases are told apart: before anything is served, only lifespan's own
attempt runs (`StartingInv`), so that what it saved are the operator's values; after
it, either overrides are in place, and a re-read changes nothing, or the file could
not be read and everything is at its default already (`SettledInv`).

`WaitsEnd` says that no two threads wait for each other: who holds
`_aprsd_init_lock` is in an attempt and waits for nobody, and who holds
`_consumer_lock` waits for the first lock at most (`LockInv`).

The argument for `CommandLine`. `Grows` says what no step of any process takes away:
registered services, results, and suggestions with their service and name, and a
decision once made. With it, what a run has moved is there until it completes
(`ProgressInv`), and a run that began on a fit database meets neither a row that is
refused nor anything but its own rows (`FitInv`): the ids the server gives are not
those of the files.

The argument for `Calculations`. The induction theorems of the library take an
operator, which the provers here cannot instantiate; what replaces them is that a
non-empty set of numbers has a least element (`LeastElement`, from the well-founded
order of the numbers), used on the set of rounds after which a claim is wrong. The
recursive functions exist by the same token (`HashUpToExists`, `SeenUpToExists`):
the first number up to which there is none would follow one up to which there is.

- The passcode: each round of the loop flips a bit if the character has it there,
  so that a bit is set when an odd number of rounds did (`SettersGrow`,
  `HashIsParity`); a character times 256 is its bits eight places higher
  (`BitsOfCharacter`).
- The interval is the quotient by uniqueness of division, and the check after
  number `k` is the next of its round or the first of the next round, which begins
  when an hour is over; `n` intervals fit into the hour (`StartsAreApart`).
- The figure is the rounded percentage and differs from the fraction by half a
  percent at most (`FigureIsRounded`). That a history has at most 50 checks is
  needed: of 1000 checks one failure would read "100%".
- `seen_pending_names` are the new rows offered so far (`SeenIsOffered`), so that a
  row is labelled by what was offered before it, and the first of equal new rows is
  offered (`LabelsAreSound`, again by a least element).

`ChecksAreFiniteHolds` and `CallsAreFiniteHolds` are the part of `EveryCheckEnds` and
`CallsReturn` that needs no fairness: a number that falls with each step of the
thread concerned and that nothing raises.

## What is only model-checked

Liveness (`EveryCheckEnds`, `SilentServiceGoesDown`, `CallsReturn`,
`ListenerReturns`, `StoppedConsumersEnd`): the prover has no ENABLED. The
counterexamples of the violation runs, which are statements about small instances.

## What is not modelled

- Authentication, rate limits, validation and HTML: refused requests change
  nothing, and pages only read.
- Free text, descriptions, response times; audit rows but the newest.
- The interleaving of single statements in `System`; see `SharedConnection`.
- `backup`, `export_json`, `search_services`, `get_commands`, `get_audit_log`,
  `apply_retention`, `set_featured` and `clear_old_responses` have no caller, so that
  `health_checks` and `audit_events` grow without a bound in the code.
- The packets of bulletins and beacon; the WebSocket endpoint, which shares no state.
- `seed`, which cannot run.
- The connection inside `HealthChecker`: `CannotSend` is any reason for which a check
  does not send, and `Consumer` says which there are. The two share no state a check
  decides on, so that their composition would multiply states and relate nothing.
- Real time: neither how long a check takes nor how long the event loop is blocked.

## What is left

All modules planned are written, checked and, where the prover reaches, proved. What
would come next:

1. `System` over `SharedConnection` instead of atomic methods, for one service: what
   of its invariants survives calls of which half is in the file.
2. Retention, once something calls `apply_retention`: a check must not lose the
   failures it counts.
