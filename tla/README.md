# Verification of sandbox-api

A TLA+ model of the logistics backend in `src/`: what its processes, its
PostgreSQL database and its containers do to each other, checked by TLC on small
instances and, where it says so, proved by TLAPS for every instance.

Contents: [the system](#1-the-system), [modules](#2-modules-and-how-they-correspond-to-the-code),
[runs](#3-runs), [bounds](#4-bounds-and-why-they-are-enough), [fairness](#5-fairness),
[proofs](#6-proofs), [divergences found](#7-where-the-code-and-its-words-disagree),
[assumptions](#8-assumptions-and-abstractions), [what is left](#9-plan).

## 1. The system

A FastAPI application in one container, run by a uvicorn supervisor with several
worker processes (`Dockerfile:47`: `alembic upgrade head`, then `uvicorn --workers`,
two by default), beside one PostgreSQL 16. A worker is single-threaded: a handler
runs undisturbed from one `await` to the next, and processes interleave
everywhere. A deployment recreates the container, which loses its `/tmp`; docker
restarts a container that ended, which keeps it (`restart: unless-stopped`).
The database outlives both.

| Component | State | Operations | Talks to | What is hard | What makes it correct |
|---|---|---|---|---|---|
| ORM schema (`models/`, `domain_tables.py`) | none: 14 domain tables and `users` as data | – | everything | described twice, by models and by revisions | head of the revisions = models |
| CSV seeder (`scripts/seed_csv.py`, `admin/router.py`) | rows of 14 tables; the manifest in `/tmp`; where a run is | POST `/admin/seed-csv`, the command line; TRUNCATE and COPY, one transaction each | database, seed check | nothing keeps two runs apart; a run dies between statements; a dead client's statement goes on | a reset repairs anything; a reported success is true, and so is a reported failure |
| Seed check, seed status (`dashboard/seed_check.py`, `admin/router.py`) | none of its own | 14 counts, compared with the manifest | seeder's manifest and tables | 14 statements beside a seeder | the answer is about one database |
| Domain pages (`drivers`, `trips`, `incidents`, `loads`, `reports`) | a session and its locks | several SELECTs per request | tables the seeder rewrites | deadlocks with TRUNCATE; `None` from `session.get` | references resolve; every request ends |
| Request counters (`dashboard/store.py`, `middleware.py`) | counts in memory; a JSON file per process | increment, persist; merge all files | other workers, through files | reads between other processes' writes; deaths; full disk; reused pids | answers neither mix nor overcount; losses are bounded |
| Startup (`main.py`, `db.py`, `auth/seed.py`) | demo user's row; lifespan of each worker | wait for the database; upsert the user | database, supervisor, docker | workers race for one row; commits in doubt; outages | who serves has the new password; everybody serves in the end |
| Migrations (`alembic/`) | revision, catalog, rows | upgrade, downgrade | rows that the seeder loads | hand-written inverses; rows that violate old constraints | reversible; always upgradable; head = models |
| Requests and the pool (`db.py`, `main.py`, middlewares, `health/`) | 5+5 connections per worker; the stages of its requests | session, checkout, handler, counting, answer, background task | all pages, seeder, counters | the pool at its limit; connections that died with the database; answers that turn into errors on their way out | the pool adds up, every request ends; counters see what was sent; no run after an error |
| Authentication (`auth/`) | tokens with the clients; `users` | login, every request with a token | database, deployments | a token outlives workers, containers and passwords; a login spans an await | only the current password gets a token; a token works until it expires or the secret is rotated |
| Search and pagination (`trips`, `incidents`) | a session | count, page, related rows | database | two snapshots in one answer; pages of different databases | totals fit pages; no row twice |
| Identifier conversion (`seed_csv.py:61-84`) | none | text to integer keys | seeder | two texts, one key; a row that raises | legal files load; names as in the files |
| Stress harness (`perf/`) | permits, latencies, errors of a stage | log in, warm up, send, give up, book | trip search | requests that it gave up on live on in the worker | every request booked once; it ends |
| Logging, dashboard page, infrastructure | none that others read | – | – | – | not modelled |

## 2. Modules and how they correspond to the code

`PROJECT.json` maps every definition to its lines.

**`Schema`** – the models as data: each table's foreign keys with their
nullability, its uniqueness and its indexes, and the two table lists of the code,
`DOMAIN_TABLES` and `LOAD_ORDER` with `ID_COLUMNS`. Constants only.

**`Seed`** – `_seed`, one SQL statement per action. COPY is all or nothing and
every table has one CSV, so the database is the set `loaded` of tables that hold
their rows. `pc[s]`, `reset[s]` and `pos[s]` are a run's place; `manifest` is
`none`, `torn` (opened by `write_text`, not yet written) or `full`. The actions
are, in the code's order: `Start`, `MissingCsv` or `OpenManifest`,
`WriteManifest`, `Connect`, then `AlreadySeeded` or `NotSeeded`, or the
`Truncate`s of `reversed(LOAD_ORDER)`, and then `Copy` or `CopyRejected`. Around
them, `Lose` ends a run anywhere; what it had sent to the server may stay
(`lostTruncate`, `lostCopy`) and take effect much later (`LostStatement`).
`Redeploy` replaces the image, and with it the set of CSV files it ships.
`alone[s]` is a history variable: did anything overlap this run? Many properties
promise something only to a run that was alone, because the code promises no
more; a statement that outlived an earlier run does overlap.

**`Pages`** – for each of seven pages, which tables it touches in which order, and
which look-up depends on what was found before. **`SeedLocks`** – the seeder
and those pages at the level of PostgreSQL's table locks: TRUNCATE CASCADE takes
ACCESS EXCLUSIVE on its table and every table that references it, COPY takes ROW
EXCLUSIVE on its table and ROW SHARE on the parents it checks, a page takes
ACCESS SHARE and keeps it until its session is closed, after the response was sent.
Requests queue: `queue` holds the pair ⟨x, y⟩ when x waits before y, a strict order of the
waiting sessions that `Reorder` may change. The deadlock detector aborts a holder in a ring (`Detect`) or lets
a request overtake when only the queue closes the ring (`Reorder`). It
instantiates `Seed` and shows that it implements it (`RefinesSeed`): a statement that
takes several locks is still one step of `Seed`. The abort of a deadlock victim
is `Seed`'s `Lose`, hence `WITH Losses <- TRUE`.

**`Stats`** – `_persist` and `read_merged`, one file operation per action:
`Increment`, `WriteTmp`, `Replace`, and `PersistFails` at either; `Glob`,
`ReadFile` once per file, `Answer`. Workers `Die` and are spawned again with a new
pid; `Restart` keeps the files and hands out the same pids again. `handled` and
`floor` are history variables.

**`Startup`** – the two commands of the image: `Migrate`, then for each worker
`Probe` (the attempts of `wait_for_db`), `Select`, `Write` (which waits for the other's
uncommitted row) and `Commit` of `ensure_demo_user`; `Outage`, `Recover`, `Die`, `Respawn`,
`Restart` and `Redeploy` with another password. A COMMIT whose sender or server fails
is in doubt: either outcome is possible.

**`Migrations`** – all six revisions as sequences of DDL operations over a catalog
of tables, foreign keys, NOT NULLs of foreign-key columns, uniqueness and indexes.
An operation fails where PostgreSQL refuses it; a command is one transaction
(`env.py` runs all revisions under one `begin_transaction`).

**`Requests`** – one worker, its requests and the pool. A request takes a slot (`Arrive`), is
refused at once when its token does not decode (`AnswerAtOnce`), or queues for a connection at
its first statement (`NeedConnection`, `CheckOut`, `PoolTimeout`). `Work` and `WorkRaises` are
the handler: it returns with its session open, or raises through `get_session`, which closes it.
`Count` is the middleware on the way out; `CountRaises` its failure, which turns the answer into a
500 and cancels the background task; `SendError` the server's own 500, which no middleware sees.
`Run` starts the seed run of a POST that was accepted, `Finish` closes the session after it.
Five kinds of request differ in what they have: a session, a token, a background task, a place
among `EXCLUDED_PATHS`, an `except` of their own (`ready`). `Outage` makes every open
connection stale; the pool hands stale ones out until a request finds one out
(`PutBack`). `Die` and `Respawn` are the worker's end and its successor.

**`Stress`** extends `Requests` with one particular client, `perf/stress_trip_search.py`: stages of
tasks behind a semaphore (`Send`), each booked as a latency or an error (`Book`), given up after
its timeout (`ClientTimeout`, whose request goes on in the worker as "abandoned"), refused
when nobody listens (`SendFails`). Other clients send other kinds of requests.

**`Auth`** extends `Startup` with logins in two steps (`LoginSelect`, `LoginVerify`), tokens,
their expiry, and a secret that a deployment may rotate. A token is what the code puts into it,
`sub`, `exp` and the key it was signed with, and two history fields: the password it was got with and
the deployment that issued it. `LogsIn` is `perf/issue_token.py`.

**`Ids`** – `_to_int_or_none` and `_transform_row` on identifiers as prefix and digits.
**`Search`** – three tables (drivers, parents, rows) filled from files by `Copy` and emptied by
`Truncate`; one client that asks for pages of `/trips/search` or `/incidents/search`. A
request is `Count`, `Page`, `LoadRelated` (trips only: `selectinload` is a statement of its own) and
`Answer`, each statement with the snapshot of its moment. The two searches differ as in the code: in the
treatment of an empty list, the table of the state filter, the order, the join.

`SeedProofs`, `SeedLocksProofs`, `StatsProofs`, `AuthProofs` (also those about `Startup`), `RequestsProofs`,
`StressProofs`, `SearchProofs` and `MigrationsProofs` hold the theorems; `MC*` give TLC its instances.

How they compose: `Schema` feeds `MCSeed`, `Pages`, `Migrations`; `SeedLocks`
implements `Seed` and runs the plans of `Pages`; `Stress` extends `Requests`, `Auth` extends
`Startup`, `Search` extends `Ids`. `Startup`, `Stats` and `Migrations`
share no variable with the seeder: it does not touch `users` or `/tmp/...stats`. What
couples them, the restart and the redeployment of the container, is an action of each. `Requests`
knows a seed run only as the background task that keeps a session open; `Search` lets the
statements of seed runs come in any order that `Seed` allows and in more.

## 3. Runs

| Run | Instance | Shows |
|---|---|---|
| `seed` | `Slice` (5 tables), 2 runs, both flags, losses, images with and without `delivery_events.csv` | `LoneResetExact`: a reset that stays alone works from any leftover. `LoneCompleteIsComplete`: its (or a plain run's) "seed complete" is true, and the seed check agrees. `RejectionIsNoSeed`: a lone run that a constraint stops has neither found nor left trips, so its failure is not followed by "already seeded". `MissingCsvCostsNothing`: an image without a file fails before it deletes. `LoneResetRepairs` (liveness): a reset left alone ends with everything loaded. |
| `seed_calm` | the 14 real tables, 3 runs without `--reset`, none lost | `DoubleSubmitSafe`: submitted twice, loaded once. `StartedMeansSeeded` (liveness): somebody's run does load it all. |
| `seed_claim` | the 14 tables, 1 run, losses | violated: see section 7 |
| `locks` | `Pair` (loads, trips), 2 resets, which may be lost, 2 pages reading in either order | `RefinesSeed`, also with statements of dead clients in the lock queues. `SeenStillThere`: a page's counts are of one database. `ResetSurvivesReaders`: a ring of waiters around a reset that stays alone contains a page that reads against the load order; the two pages its caller is told to poll do not. Fires every kind of deadlock handling. |
| `locks_pages` | `Broad` (6 tables), 1 run, losses, any one of the seven pages | `ReferencesResolve`: no page meets a missing parent. `EveryoneEnds` (liveness): whatever waits and rings form, all runs and requests end. |
| `stats` | 2 workers, 3 pids, 2 keys; 3 responses, 1 failed write, 1 death, 1 restart | `AnswerIsBetween`, `FirstAnswersSinceStart` for the first life of the container; `LossIsBounded` always. |
| `stats_claim` | the same | violated: see section 7 |
| `startup` | `MCAuth`: 2 workers, 5 attempts, 2 deployments, 2 outages, 1 death, one client | `ServingMeansRotated`: who serves has stored its own password. `LoginIsCurrent`: only the current password gets a token, also across a redeployment between the read and the answer. `RotationShutsOut`: a rotated secret ends all former tokens. `TokenHolds`: nothing but expiry and rotation does. `EveryWorkerServes`, `GetsIn` (liveness). |
| `startup_claim` | 2 workers, nothing goes wrong | violated: see section 7 |
| `migrations` | all revisions, all tables | `CatalogFollowsRevision`: a downgrade undoes its upgrade exactly. `UpgradeAlwaysWorks` from any revision over any rows. `DowngradeFailsOnlyOnRows`: at 0005 with the trailers loaded, and nowhere else. `HeadMatchesModels`. |
| `stress` | 2 slots, a pool of 1, all five kinds, 2 mishaps (outage, failed count or death); a login, then 2 searches in turn, then 2 at once | `ConnectionsBounded`: the pool adds up, and connections are bounded although seed runs open theirs beside the pool. `RunMeansAccepted`: no run after an error. `CountedAsSent`. `NoStaleAfterNotice`: one request pays for an outage. `LedgerComplete`; `OnlyCrowdWaits`: within the pool's limit, the harness measures no waiting of its own. `EveryRequestEnds`, `HarnessEnds` (liveness). |
| `search` | 3 rows, 2 drivers, 3 parents; 27 legal files and 17 odd ones, 7 filters, pages of 1 and 2, 5 statements of seed runs | `LegalFilesLoad`: no file that obeys the constraints as it is written is turned away because of the conversion. `NamesAsInFile`: what is shown is what the file says, across any reload. `TotalFitsPage`: total and page agree, or the total is 0, and a page has only rows that the filter asks for. `NoRowTwice`. |

Every property has a mutant in its module: a changed definition, kept next to the original and marked
as one, under which the run fails. Type invariants that are proved are not repeated in the runs (`Seed`,
`Stats`, `Auth`, `Requests` and `Stress`, see section 6); the invariants `LoneResetNotRejected` and
`PlainPrefix` and the action property `NeverRolledBack` are left to their theorems as well.

Deadlock is checked except in `startup_claim`, where the bounds on deployments, outages and deaths are
used up once everybody serves, and in `search`, which is over when the client has its last page and the
statements of seed runs are used up.

## 4. Bounds, and why they are enough

- *Tables.* `Slice` has what the properties distinguish: two roots, a chain of
  references, a reference across, a leaf of the other root, a table after the
  guard table `trips`; `Broad` two trees tied by `safety_incidents`, so that
  every page keeps at least two look-ups. The proofs hold for any tables.
- *Runs and pages.* Two overlapping runs give every pairwise interleaving; a third
  (`seed_calm`) a run that starts after another one finished below a third. Slots are
  reused without a bound: a run can start any number of times. Locks are checked with
  two resets and two pages on two tables, where both kinds of deadlock handling fire, and
  with one run of either kind and one page on six tables, where multi-table waits do.
- *Counters.* Three responses suffice to write, overwrite, and write in another process
  between one reader's two files. Failures, deaths and restarts once each also occur
  together. `MaxRequests`, `MaxFailures`, `MaxDeaths`, `MaxRestarts` are guards of
  `Increment`, `PersistFails`, `Die`, `Restart`.
- *Startup.* `Retries` has its real value. An outage can be as long as all five attempts; a second one
  hits the respawned worker. A third deployment would only repeat the second.
- *Requests.* Two slots and one connection make one request wait for the other, whatever it does; the
  theorems hold for any number. `MaxMishaps` guards `Outage`, `CountRaises` and `Die`: two of them give an
  outage after an outage and a death after a failed count. The plan has the shape of the harness's: a login,
  a stage that reuses permits, a stage beyond the pool's limit.
- *Search.* Three rows make a page that is not full and a page in the middle; the odd files have each way in
  which an identifier can fail or collide, a number beyond `MaxInteger` (11 instead of 2^31 - 1, reached by the
  legal files) and two rows of one parent, which is legal for incidents and refused for trips. `MaxWrites` of five is a load of three tables and a TRUNCATE
  and COPY between two pages.
- *Logins.* One client with either password and either token suffices, since clients share nothing.
- Symmetry is used where no liveness property is checked, and only over sessions, workers, pids
  and keys that no definition distinguishes.

## 5. Fairness

- `Seed!FairSpec`: weak fairness of each run's steps. The event loop resumes a
  coroutine whose query was answered, and the server executes or cancels what it was sent.
  Nobody is obliged to start a run or to lose one.
- `SeedLocks!FairSpec`: the same per run and per page, one lock at a time, and weak fairness of
  the deadlock detector, which PostgreSQL runs after `deadlock_timeout` in each waiting backend.
  A page's last step is fair because FastAPI closes the session after the response. Weak
  fairness is enough: a granted lock stays grantable until it is taken, because conflicting
  newcomers queue behind.
- `Startup!FairSpec`: the event loop, uvicorn's supervisor and docker's restart policy
  (`WorkerStep` includes `Respawn`), and the database's return. The last is an assumption on the
  operator, without which `EveryWorkerServes` cannot hold. Deaths and outages are
  never forced and are bounded.
- `Auth!AFairSpec`: the same, and a client that logs in again and again: strong fairness, because
  an outage or a death interrupts it. It ends a login fairly, as the event loop does.
- `Requests!FairSpec`: weak fairness of each request's steps: the event loop resumes it, the server answers a
  statement, the pool's timeout runs out. `EveryRequestEnds` therefore needs no return of the database.
- `Stress!SFairSpec`: the same, the harness goes on when it can (strong fairness of sending, since it needs a
  free slot and a worker), and the database and the worker come back. A client's timeout is never forced.

## 6. Proofs

All are for arbitrary constants under the named assumptions of the modules, which TLC evaluates in the
runs: `OrderAssumption`, `SchemaShape`, `GuardAssumption`, `EnvironmentAssumption` (`Seed`); `SeederAssumption`,
`SessionsAssumption`, `PlansAssumption`, `CountsAssumption` (`SeedLocks`); `StatsAssumption`,
`StartupAssumption`, `RequestsAssumption`, `StressAssumption`; `FilesAssumption`,
`IntegerAssumption` and `ClientAssumption` (`Search`); `UnmetAssumption` and `CsvAssumption` (`Migrations`). `SchemaShape` says that the load order puts parents before children; `MCSeed` instantiates it
with the real schema, so TLC checks it there, as it does `GuardAssumption`: every table that is loaded after `trips`
references `trips` or something loaded before it. `PlansAssumption` says that a page reads no table twice
and looks referenced rows up only for rows that it found, `CountsAssumption` that a page in load order
counts every parent before its child; TLC checks both of the seven pages. `FilesAssumption` only types
the columns of a file, and an identifier may be anything. `UnmetAssumption` says that no rows are in the way
of an index (none of the revisions' is unique), `CsvAssumption` that the CSV rows violate at least what
`0004` and `0005` exist for: the docstrings (`0004_nullable_optional_fks.py:1-9`,
`0005_drop_trailer_number_unique.py:1-9`) say that values are absent in those columns and that trailers
share a number.

**Seeder** (`SeedProofs`), for any tables, references, images and number of runs:

- `Typing`. That no row lacks its parents (`FKClosed`) is PostgreSQL's doing whatever the code does, and
  no more than a lemma (`ForeignKeys`) that other proofs need.
- `LoneResetIsExact`, `LoneResetIsAccepted`, `LoneComplete`. `LoneResetExact` speaks of positions in
  the load order and is not inductive: that a lone run stays undisturbed must be part of
  the invariant. `LoneIInv` adds that all other slots are idle while a lone run is not, that
  a lone run of either kind has loaded at least the tables before its position when it
  copies, that a run which got past the manifest and is still alone finds it full, and that a
  `--reset` run never reaches the check for earlier data. `LoneResetIsAccepted` follows because
  at position *i* exactly the tables before *i* are loaded, and those contain
  all parents by `SchemaShape`.
- `RejectedMeansUnseeded` (`RejectionIsNoSeed`). A plain run that found no trips may still find other
  tables, which a lost reset or a statement that outlived its client left. `LeftoverInv` says that what a lone
  run found and has not come to yet contains no `trips` and is closed under references by itself. Once the
  run has loaded `trips` there is nothing of the kind (`NothingLeft`): by `GuardAssumption` it would have a
  parent among the tables that were loaded before. So COPY can only be refused before `trips`.
- `MissingCsvIsHarmless`: from the invariant `CsvInv`, that a run which got past counting does so
  under a complete image; a new image ends all live runs.
- `PlainRunsKeepAPrefix` assumes `ResetFlags = {FALSE}`, losses allowed; its invariant `PlainInv` says
  that no COPY, of a live or a lost run, is past the table that follows the loaded prefix.
  `DoubleSubmitIsSafe` also assumes `Losses = FALSE`; `CalmInv` adds that as long as the load
  is begun and incomplete, some live run stands at exactly that table.

**Locks and pages** (`SeedLocksProofs`), for any schema, pages, runs and requests:

- `LocksRefineSeed` (`RefinesSeed`) and `LocksImplementSeed`: the lock level implements `Seed`. Nearly all
  steps map one to one or to a stutter. The exception is COPY, which in `Seed` looks at the tables
  when it commits and here when its locks are granted. `CopyProtected` bridges the two: for
  every table that a COPY has locked, what it found is still so, its own empty and the parents
  not. That holds because locks held together never conflict (`Compatible`) and whoever changes
  a table holds it, which in turn needs what `RunLocks` says: a run holds only what its present statement
  needs, its own table first.
- `PagesSeeOneDatabase` (`SeenStillThere`) and `PagesResolveReferences` (`ReferencesResolve`). `PageLocks`
  says that a page holds all that it has read; with `Compatible`, no TRUNCATE gets at it. That a parent
  is there when the page comes to it is `FKClosed`, which the lock level inherits from `Seed`.
- `ResetSurvivesCountingPages` (`ResetSurvivesReaders`). A ring around a reset that stays alone has a page in it
  that holds what the TRUNCATE needs and waits for what it has locked. A page that reads in load order has
  read every ancestor of what it has read, so it would hold the very table with which that TRUNCATE
  begins, and the two conflict (`ReadersInOrderStayOut`).
- `LocksTyping`. The inductive invariant of all of them is `LInv`.

**Counters** (`StatsProofs`), for any number of workers, pids and routes: `StatsTyping`, which includes
that no two workers share a pid, `AnswersAreBetween`, `FirstAnswersAreSinceStart` and `LossesAreBounded`.
`AnswersAreBetween` holds by `BetweenInv`: until the first restart, a
process's file is never ahead of its counts and its temporary file equals them (`FilesFollow`,
so files only grow), a pid without a process so far has no file, and a reader's every file is
either still to be read and not behind its content at the glob, or read with a value between
that content and the present one (`ReaderInv`).

The other two relate sums over processes to what was handled, and a sum is no step's business. Each
therefore has an invariant that splits the sum: `Ledger` says that every response can be booked to one
process, so that no file and no memory exceeds its process's account and the accounts add up to at most what
was handled (`FirstAnswersAreSinceStart`, until the first restart). `Saved` says how many responses of each
process cannot be lost any more, which is what it replaced its file by in this life of the container;
what was handled is at most these, one for each failed write and each death so far, and one for
each worker between its increment and its `os.replace` (`LossesAreBounded`, also across restarts, which
start again from empty memory and reused pids).

**Startup** (`AuthProofs`): `StartupTyping`, `RotationTakesEffect`
(`ServingMeansRotated`), `RotationIsFinal` (`NeverRolledBack`). The invariant adds `user <= env` and that workers run
only after the migration; the point is that a COMMIT in doubt (`DoubtIsNow`) leaves the stored or the
current password, never another.

**Logins** (`AuthProofs`): `AuthTyping`, `LoginsAreCurrent`, `RotationIsTotal`, `TokensHold`. `AInv` adds to
the invariant of `Startup` that a login under way is of the running deployment and read either no row, the
row of that deployment or an older one, and that once a user exists its id never changes, so a token's `sub` is
the row's. That no worker serves before its own deployment's password is stored is `Startup`'s theorem and
is what makes a stale read harmless. `AuthKeepsStartup` says that `Auth` implements `Startup`, so that those
theorems hold of it as well.

**Requests** (`RequestsProofs`), for any number of requests, any pool and any number of mishaps: `RequestsTyping`,
`PoolIsExact`, `ConnectionsAreBounded`, `RunsAreAccepted`, `CountsAreExact`, `OneMeetsTheOutage`. The invariant
adds, per request (`Course`), that it is uncounted until its answer is sent, that a request which raised
has an error prepared, and that a request with a task still to run has a connection and was accepted;
and for the worker (`Down`) that one which does not serve has no requests. `ConnectionsAreBounded` follows by
counting: the requests with a run are among the holders of the pool's connections. The key lemma is
`Closing`: closing a session keeps the pool exact whether the connection is good, stale or one too many.

**The harness** (`StressProofs`), for any plan and any other clients: `StressIsRequests`, by which the
theorems above hold under its load; `StressTyping`; `LedgersAreComplete`, from the invariant `TasksAddUp`
that waiting, awaited and booked tasks are the stage's total; and `OnlyACrowdWaits`, by the pigeonhole of awaited
requests and connections.

**The searches** (`SearchProofs`), for any files, filters, page lengths and number of statements of seed
runs: all five properties of the run.

- `ConversionKeepsFilesLegal` (`LegalFilesLoad`) is about files that obey the constraints as they are written:
  one form per column (`Uniform`), unique keys, references that resolve and no two trips of one load
  (`Closed`), numbers that fit an INTEGER (`InRange`). It rests on `NumberFacts`: digits of one length with one
  value are the same digits. `Fits(t)` says of a file alone that its COPY is accepted above accepted
  parents; the invariant `DataInv` that each table has its whole file and the file fits, or nothing, that
  rows are there only with what they refer to, and that a refused file does not fit.
- `NamesAreThoseOfTheFile` (`NamesAsInFile`), `TotalsFitPages` and `NoRowIsReadTwice` (`NoRowTwice`) need
  what happens between the statements of a search. `AnswerInv`: once rows were there, the session's locks
  keep them, so a total that is not zero and a page that is not empty are those of the whole file.
  `ReadInv`: what a client has read comes from places of one order that do not change
  (`InOrder`) and are not beyond what it asked for, whichever database it came from. `SortedExists` is what
  makes ORDER BY well defined.
- `TotalsFitPages` has the hypothesis `Uniform`, which the property as TLC checks it does not (`NamesAsInFile` and
  `LegalFilesLoad` have it in the property): the property says
  what a filter means by the names in the files, the search goes by numbers, and a file could name the parent
  L01 where the parents' file has L1. `SearchTyping` is `TypeOK`.

**Migrations** (`MigrationsProofs`): all five properties of the run.

- A command is the fold of `Execute` over the operations of its revisions. `Trace` is the sequence of
  databases between them, one for every operation; the fold is the last of them, and of the databases of a
  trace that violate something the first has a predecessor which does not (`LeastNat`).
- `MigrationsTyping` (`TypeOK`: the rows obey the catalog) holds for any `Unmet` and needs no knowledge of the
  revisions beyond `Sound`: an operation adds foreign keys only to the table that it creates, and a table goes
  only with its rows. Whatever else it adds, the server checks against the rows (`Possible`).
- The other four need the catalog of each revision: whether the next operation finds its objects, and which
  rows can be in its way, depends on what is there. The invariant `IInv` is `TypeOK` and `catalog = CatalogAt(revision)`, where `CatalogAt` lists the entries by
  revision: tables with unique columns, required and plain keys, the baseline and the performance indexes.
  Every revision is run once upward from the catalog before it (`OneUp`) and once
  downward (`OneDown`) over any rows that obey; `SeveralUp` composes upgrades.
- `MigrationsReversible` (`CatalogFollowsRevision`) and `MigrationsUpgrade` (`UpgradeAlwaysWorks`) follow;
  `MigrationsDowngrade` (`DowngradeFailsOnlyOnRows`) also needs `CsvAssumption`: the trailers are in the way of 0005's
  downgrade, hence cannot be loaded before 0005, and with them neither trips nor the two tables that hang on trips,
  which are all that could be in the way of 0004's (`NoneBeforeTrailers`). `MigrationsModels` (`HeadMatchesModels`) compares the last catalog with `Schema` table by table.

*Folds.* `Number`, the sums of `Stats` and the commands of `Migrations` are folds of the community modules. The
library's induction theorems are out of reach here, but what a fold computes is the function that a `CHOOSE`
picks over the subsets of a finite set, and a counterexample has a smallest set (`SmallestSubset`, from the
well-foundedness of strict inclusion; in `Migrations` a least index, `LeastNat`):
`ValuesAgree`/`ValuesExist` and `PartialSumsAgree`/`PartialSumsExist` are the induction,
`NumberByPrefix` and `SumStep` what the other lemmas use.

The inductive invariants are operators of the proof modules and not of the runs, which would only check them
again. TLC found no violation of them on the runs' instances, but for `Ledger` and `Saved`, which
quantify over accounts and which TLC cannot evaluate.

Only model-checked: liveness (`LoneResetRepairs`, `StartedMeansSeeded`, `EveryoneEnds`, `EveryWorkerServes`,
`GetsIn`, `EveryRequestEnds`, `HarnessEnds`), which TLAPS does not do under fairness.

## 7. Where the code and its words disagree

1. `seed_claim`. A run without `--reset` calls the data "already seeded"
   (`seed_csv.py:162`) when `trips`, the eighth table of fourteen, has a row. A run lost between
   `trips` and the end leaves a database that every later plain run reports so and never
   completes. (`LoneResetRepairs`: a reset does.)
2. `stats_claim`. `index.html:31` heads the counters "requests since start". `read_merged` adds
   every file in `STATS_DIR`; a container that docker restarts keeps `/tmp`, so the answers
   contain files of its earlier life, until a new process happens to get the same pid.
3. `startup_claim`. `auth/seed.py:1` and `0002_seed_demo_users.py:14` speak of an idempotent
   upsert. Two workers that both find no user both INSERT; one fails on the unique email and
   its startup with it. (`EveryWorkerServes`: the supervisor's replacement succeeds.)

Worth knowing although no line promises otherwise: a page that reads tables
against the load order (trip search: `trips`, then `loads`) can make a `--reset` run a
deadlock victim, halfway through its truncation. `ResetSurvivesReaders` marks the boundary.

## 8. Assumptions and abstractions

- The rows of a table are all or nothing. This is exact for COPY, TRUNCATE and the
  seeder; no other code writes domain tables.
- A CSV's rows have the references its table declares, also optional ones. The
  files do; a file without would make COPY accepted more often.
- A lost statement is ended by the server eventually, effective or not; it stays one
  statement of one table.
- `Startup`: a redeployment waits until commits of the old container are settled. Nothing in the code orders these
  two; it makes no difference, since the row stays locked until the old commit ends. The
  migration step changes nothing but whether `users` exists. Its content is `Migrations`' matter.
- `Stats`: `read_merged`'s `except` branch for an unreadable file is left out: nothing removes
  files while the container lives, and `os.replace` never exposes a partial one. Orphaned
  temporary files are not tracked; the glob's pattern does not match them.
- `Migrations`: columns other than keys are payload. Revision 0003 creates two indexes
  that the models do not declare; `HeadMatchesModels` therefore asks indexes only one way.
  PostgreSQL accepts an `ALTER COLUMN` that changes nothing; here it fails, which no revision meets.
- `Pages`: filters and key look-ups may find nothing (`selective`); optional references are
  taken as given where a page follows them, which only adds locks.
- `Requests`: a request's statements are one step, `Work` or `WorkRaises`; which statements there are
  is the matter of `Pages` and `Search`. A client that goes away does not stop its request, which is what the
  server does with handlers that do not watch for it. A refused or a validated-away request without a
  session behaves as `AnswerAtOnce`.
- `Stress`: `TCPConnector(limit=parallel)` never binds, since the semaphore has as many permits. The mean, the
  quantiles and the offset subtracted from latencies are left out.
- `Auth`: the demo user's e-mail is the same in all deployments (a changed one would leave the old row in the
  table); a downgrade to base, after which ids could be given out again, is left out. Time is only the order
  of expiry and the rest.
- `Ids`: letters and digits are those of the pattern; that `\d` also matches digits of other scripts and
  `$` allows a newline at the end is left out.
- `Search`: keys are INTEGERs and `load_id` is unique among trips. A filter with a number that is no INTEGER, which the
  driver of the database refuses and the server answers with 500, is left out. The trips that incidents refer to are
  there as parents only, without loads of their own.
- `Search`: loads and routes are one table of parents; the truck list is like the driver list, distances like
  dates, the load status like the destination.
- Not modelled: the sums, rates and averages of the driver dashboard and the trip detail, and the plain filters
  of the lists of drivers, loads and the report (`Pages` has their statements and locks); HTML, log lines,
  HTTP, TLS, Terraform and the deployment workflow, hashing and token signing. How long a seed run's
  conversion of rows keeps the event loop busy (`seed_csv.py:125`) is a question of durations.

## 9. Plan

1. `Seed` and its proofs. *Done.*
2. `SeedLocks`, `Pages`, implementing `Seed`, and its proofs. *Done.*
3. `Stats` and its proofs. *Done.*
4. `Startup` and its proofs. *Done.*
5. `Migrations` and its proofs. *Done.*
6. `Requests` and its proofs. *Done.*
7. `Auth` over `Startup`, and its proofs. *Done.*
8. `Search` over `Ids`, and its proofs. *Done.*
9. `Stress` over `Requests`, and its proofs. *Done.*
10. The figures of the driver dashboard, which are computed from five statements with five snapshots: a rate
    and the flags of its trips may be of different moments of a load.
