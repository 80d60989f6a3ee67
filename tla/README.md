# A TLA+ model of evGRpc

evGRpc is a C++ gRPC server for electric-vehicle records: vehicles, chargings,
consumptions, weather and charging-source names, and reports on them. It keeps
everything in PostgreSQL and accepts requests that carry a JWT of an external
identity provider. This directory models the server in TLA+, checks it with TLC
on small instances, and proves all its safety properties with TLAPS for instances of any
size. Paths below are relative to the repository; `PROJECT.json` names, for every
definition, the source lines it stands for.

Running a check: `tlc -config PgPool_safety.cfg MCPgPool`; a proof:
`tlapm GrpcServerProofs.tla`.

## 1. Inventory

The server is one process with the threads of gRPC's synchronous server; every
RPC runs start to finish on one of them. What the threads share: the pool, the
key cache, the loggers and the database.

| Component | State | Operations | What is hard | What makes it correct |
|---|---|---|---|---|
| Connection pool, `src/db/pool.cc` | `idle_`, `mu_`, `cv_`; the `PgConn` on each handler's stack | constructor, `acquire`, `release`, `~PgConn` | no timeout; notify after the unlock; one handler takes two connections | a connection has one owner; none leaks; no wakeup is lost; everybody is served |
| Server process, `src/main.cc` | `g_shutdown_requested`, the detached hook thread, the pool in `main`'s scope | start, signal, hook, `Shutdown(deadline)`, `Wait`, destruction | shutdown races the handlers; a signal, or a failure, between any two steps of the start | the process ends, and its exit code is true; nobody uses a destroyed pool |
| Key cache, `src/auth/jwks_cache.cc` | `keys_`, `fetched_at_`, `mu_` | `GetKey`, `refresh`, `FetchUrl` | HTTP fetch under the mutex; rotation during the fetch; failed fetches | no key outlives its withdrawal for long; no old set replaces a newer one; every lookup returns |
| Token validation, `src/auth/jwt_validator.cc`, `authenticate.cc`, `authenticate_rpc.h` | none of its own | `Authenticate`, `Validate` | the key is resolved before the token is verified | only tokens that deserve it pass |
| Vehicle, charging, consumption services | rows | create, get, update, delete, list | concurrent writers; failures between statement, commit and reply; a handler that goes on after its commit | OK means committed; refused means nothing happened; tables stay consistent |
| Weather and source category services | rows | create, prefix search | as above | as above |
| Lists and page tokens, `List*`, `src/util/page_token_parse.cc` | none: a token is an offset | one page | the table changes between pages; sizes and tokens a client makes up | an undisturbed walk is exact; a disturbed one drifts by no more than the changes; it ends |
| Display reports, `src/services/display_service.cc` | none | eleven reports | several statements without a transaction; months and leap days | a reply belongs to a state the tables had; the reports agree with each other |
| Error mapping, `src/db/error.cc`, `src/db/exec.cc` | none | `ToGrpcStatus`, `Exec` | which exceptions mean "not done" | see the services |
| Schema, `sql/001_initial.sql` | five tables | constraints | the only guard between concurrent handlers | UNIQUE and REFERENCES hold |
| Configuration, arguments, OIDC discovery, `src/config`, `src/util/args.cc`, `src/auth/oidc_discovery.cc` | none after start | parse, load, discover | precedence of sources; numbers beyond `int`; checks that are stale when used | what serves is what was configured; all mistakes are reported at once |
| Validation and conversions (`Validate*`, `RowTo*`, `charger_type`, `timestamp_parse`) | none | pure functions | the columns round after the validation; fixed-width dates; NaN | what is accepted is what is stored; a record that was read can be written back |
| Logging, `src/log`, `src/util/rpc_scope` | sinks | `Init`, log lines | unsynchronised sinks | `Init` may fail the start; the output is not modelled |

How they interact. A handler calls `AuthenticateRpc` (which may call `GetKey` and
wait on its mutex), validates, constructs a `PgConn` (which may wait for a
connection), runs its SQL, and returns; the destructor gives the connection back.
`CreateVehicle` calls `GetVehicle` on the same object, while its own `PgConn` is
alive: this one nested call is behind findings 1 and 2 below. `main` owns the pool
and destroys it when `server->Wait()` returns.

`PROJECT.json` lists the hazards (39), each at its line, with the properties that
would notice it going wrong. Where the code has an effect that the properties permit, because no
document forbids it, the hazard's note says so.

## 2. The modules

| Module | Models | Uses |
|---|---|---|
| `ConnPool` | what the pool promises: atomic `Acquire`, `Release` | |
| `PgPool` | the pool as coded, and the threads that share it | implements `ConnPool` |
| `GrpcServer` | the listening process: dispatch, signal, hook, drain, exit | extends `PgPool` |
| `Startup` | `main` from its arguments to its exit, with the configuration file | |
| `JwksCache` | `GetKey`/`refresh` against a provider that rotates keys | |
| `Authentication` | what every RPC does first | extends `JwksCache` |
| `EvDatabase` | schema, and what one statement answers | |
| `CrudServices` | the sixteen handlers that write, read or search records | extends `EvDatabase` |
| `RecordRules` | validation, SQL parameters, column types, and back | |
| `Pagination` | walks over the three lists | |
| `DisplayReports` | the eleven reports, concurrent writers | |
| `ConnPoolProofs` | theorems about the abstract pool | extends `ConnPool` |
| `GrpcServerProofs` | theorems about `PgPool` and about `GrpcServer` | extends `GrpcServer` |
| `AuthenticationProofs` | theorems about the cache and about authentication | extends `Authentication` |
| `CrudServicesProofs`, `PaginationProofs`, `DisplayReportsProofs`, `RecordRulesProofs`, `StartupProofs` | theorems | each extends the module it is named after |
| `MC*` | values of constants for TLC | one per checked module |

**PgPool.** `mu`, `idle`, `conn` are `mu_`, `idle_` and the `conn_` of each `PgConn`;
`pc` is where a thread is, `frame` whether it runs the handler gRPC called
("outer") or the nested `GetVehicle` ("inner"). `acquire` is `AcquireLock`, then
`Block` (predicate false: `cv_.wait` unlocks and sleeps in one step) or `Pop`.
`release` is `ReleaseLock`, `Push` (which unlocks), `NotifyOne`. `NotifyOne` wakes any
one waiter; `SpuriousWakeup` wakes one for no reason. `LeaveScope` is the end of the
handler, by return or by exception. The unlocked read of `idle_.size()` for a debug
line is left out: its value goes nowhere else.

**GrpcServer** adds `phase`. gRPC admits RPCs until `Shutdown`; at the deadline it
cancels calls, which no handler looks at; `Wait` returns when no handler runs.

**Startup.** A file is a record of what `LoadSchema` can tell apart: whether it is there and
JSON, what each section is, which sections have an unknown key, and for each key whether it is
absent, of the wrong type, empty, badly or well formed, or which side of its limits a number is.
`ErrorsOf` is what `ConfigErrorCollector` has at the end. `phase` is where `main` is; `Connect` and
`ConnectThrows` are one turn of the pool constructor's loop; `InstallHandler` runs once per
signal. `Signal` may come at any step, the log directory may change (`ChangeDirectory`) between
the check in `LoadSchema` and the one in `log::Init`, and discovery, connecting and binding may
fail. The server's drain, which `GrpcServer` has in detail, is one step here (`WaitReturns`), which
need not come: `Wait()` may block for ever (finding 1).

**JwksCache.** `mu`, `keys`, `fetchedAt` are the members. `Hit` is a lookup that needs no
fetch. A fetch is `StartRefresh`, `ProviderAnswers`, and `RefreshDone` or
`RefreshThrows`, with `mu` held. `Tick` is the clock, which cannot pass the fetch
timeout while a fetch is open. A JWKS entry is "rsa", "skipped" or "throws", by what
`refresh` does with it. `pubUntil`, `snapAt`, `answerAt`, `foundAt` are history
variables: no guard reads them.

**Authentication** adds the credential and outcome of each thread. `RejectEarly`,
`ResolveKey` and `Verify` are the three ways through `Authenticate`. The test-only
bypass is left out.

**CrudServices.** Each handler is an action that chooses what its statement will be
(`CreateVehicle` ... `DeleteConsumption`); the common rest is `Execute`, `ExecuteRefused`,
`Commit`, `Reply`, and for `CreateVehicle` `Reauthenticate` and `ReadBack`. `tx[t]` is an
uncommitted write; a statement that conflicts with one waits (`Blocked`). Failures:
`ExecuteBadValue`, `Throws`, `CommitInDoubt`. Validation is a choice between passing
and refusing (its rules are in `RecordRules`). A search reads `Matching`: names are numbers in
collation order, a prefix is the set of names that begin with it. `durable` is a history
variable.

**RecordRules.** One record goes through create, update, get and a client that writes back what
it read. `Params` is what the handler binds and the column keeps, `Read` what `RowTo*` returns. Creates and
updates bind separate lists in the code and have separate definitions here (`ChargeParams` and
`UpdateChargeParams`, and so on).
An instant is a number of nanoseconds, a decimal a number of units; the radices (nanoseconds per
microsecond, microseconds per second, units per column step) are constants, scaled down for
TLC. A date is a record of three `int32` numbers, and `DateToString` cuts what `snprintf` cuts: `Width`
counts a number's digits and its sign. NaN is a
number for which all comparisons are false. Percentages stand for all the integer columns,
`location` for the nullable texts.

**Pagination.** A walk is a client's sequence of calls; `ListPage` is one call, with the
`LIMIT page_size + 1` trick, the token and the clamps. `Orders` is the set of row orders
that the `ORDER BY` clause allows. `InsertRow`, `DeleteRow` and `MoveRow` are other
clients' writes.

**DisplayReports.** The statements are functions of the two tables; the handler runs
them one by one (`CheckExists`, `Aggregate`, or `AggregateKm` then `AggregateKwh`) with
`OthersWrite` in between. `states` is the history of the tables during the RPC, in order. A statement that
`Throws` is answered with what `ToGrpcStatus` makes of it. The temperature
report looks back 24 hours from each consumption; with times at midnight that is `DayBefore`.

## 3. The runs

| Run | Instance | Shows |
|---|---|---|
| `pool_safety` | 3 threads, 2 connections, both kinds of RPC, 2 RPCs each | `ExclusiveLease`, `NoConnectionLost`, `EnoughAwake`, `NoLostWakeup`, and that `PgPool` implements `ConnPool` |
| `server_shutdown` | 2 threads, 3 connections | `PoolQuietAtExit`, `GracefulShutdown`, `EveryRpcFinishes` |
| `server_create` | 2 `CreateVehicle`s, 2 connections | a violation of `GracefulShutdown` (finding 1) |
| `jwks` | 2 callers, 1 kid, lifetime 1, timeout 1, 2 rotations | `FreshKey`, `NoOlderKeySet`, `EveryLookupEnds` |
| `auth` | 1 caller, 2 kids, 9 credentials | `SoundAuthentication` |
| `crud_safety` | 2 handlers, all 16 methods, 5 seeded rows | `TablesConsistent`, `OkIsDurable`, `RefusalHasNoEffect`, `EveryRpcIsAnswered` |
| `crud_unauthenticated` | 1 handler | a violation of `UnauthenticatedHasNoEffect` (finding 2) |
| `pagination` | up to 4 rows, 2 dates, up to 2 rows added or removed | `QuietWalkIsExact`, `QuietWalkCounts`, `BoundedDrift`, `WalkEnds` |
| `reports` | every subset of 4 chargings and 3 consumptions, 2 writes per report | `ReplyIsOneState`, `OkHadData`, `BreakdownsAddUp`, `PeriodsAddUp` |
| `records` | requests with any two fields on either side of a boundary, 21 dates | `StoredRowRules`, `WriteBackIsHarmless`, `AcceptedIsStored` |
| `records_date` | the same | a violation of `DateColumnRejects` (finding 3) |
| `startup` | about 1300 files (a good one with up to two mistakes), 7 argument lists, 3 environments, 2 connections | `ServesAsConfigured`, `OnePassIsEnough`, `CleanExit`, `StartIsDecided` |

Every passing run also checks its module's type invariant. Every property is paired in
`PROJECT.json` with a mutant of the code that breaks it.

What some of the properties say is weaker than one might expect, because the code
does less than one might expect:

- `FreshKey` allows the lifetime **plus one fetch**: `fetched_at_` is stamped when the
  answer has been processed.
- `QuietWalkCounts` speaks of the number of chargings per start time, not of which:
  `ORDER BY StartTime` leaves ties open, and two pages may show one charging twice and
  another never, on an unchanged table. `ListVehicles`, which adds `Id`, is exact.
- `ReplyIsOneState` lets `GetConsumptionEfficiency` read its mileage at one moment and its energy
  at one no earlier; the pair may belong to no state the tables had. Of a pre-checked report it says
  that its totals are of one state, no earlier than one in which there was data.
- `OkHadData` says there was data at some moment of the RPC. The charging may be deleted
  between `EXISTS` and the aggregation; the report then says OK with totals of 0.
- `StoredRowRules` has "not negative" where the validation says "positive", and "does not end
  before it starts" where it says "ends later": the columns round after the validation.
- `ServesAsConfigured` lets a number beyond `int` become another one within the limits, and lets
  `EVGRPC_DATABASE_URL` be anything when the file has no database section.
- `CleanExit` lets a signal kill a server that accepts RPCs until the handlers are installed; it
  speaks of servers that are announced in the log.
- `StartIsDecided` says that a caught signal reaches `Shutdown`, not that the process then ends:
  `Wait()` returns only when all handlers have, and they may block each other (finding 1). That it
  ends when there are connections enough is `GracefulShutdown`.
- `AcceptedIsStored` speaks of dates in the calendar only; what becomes of others is
  `DateColumnRejects` (finding 3).
- `RefusalHasNoEffect` excludes `INTERNAL`, which a commit in doubt returns with the row
  written, and `CreateVehicle` (finding 2).

### Bounds, and why they are enough

- *Pool*: three threads and two connections is the smallest instance with a waiter, a
  holder and a releaser at once and more than one connection; two RPCs per thread let
  a connection come back and be taken again. `MaxRpcs` only bounds the run: the safety
  properties are proved for all values.
- *Server*: three connections for two threads, so that two `CreateVehicle`s can
  finish; `server_create` is the same with two connections.
- *Cache*: `MaxTime` 4 has room for a fetch, a whole lifetime and a second slow fetch.
  Two rotations: publish and withdraw. `auth` uses two kids, so that one bad entry
  spoils a refresh another key needed.
- *Services*: one fresh id for two creators (a third row of a table adds nothing to a
  pairwise conflict); the seed makes every foreign key usable, so that deletes are refused
  and races with creates are possible. A transaction has one statement that can wait, so
  two handlers have every pattern of waiting.
- *Records*: three nanoseconds to the microsecond and two microseconds to the second have an
  instant that rounds down, one that rounds up, and one that rounds into the next second;
  four units to the step have a half and two values that round to zero. Two changed fields
  cover every rule that relates two fields.
- *Start*: two mistakes are the smallest number of which one could hide another;
  `IntModulus` is 2^20 instead of 2^32, above every limit. Two connections: the constructor may
  fail at the first or after it.
- *Pagination*: four rows and pages of one and two rows give walks of up to four pages
  and ties across a page boundary; `DefaultPageSize` and the cap stand for 50 and 1000.
- *Reports*: rows on a leap day, at the end of a month and of a year, two vehicles, an
  energy of zero; requests with each filter, without, and invalid.

### Fairness, and what justifies it

- *Pool*: weak fairness of every thread's steps: a running thread goes on, and its SQL
  returns. Strong fairness of taking `mu_`, which is taken and released again and again;
  `std::mutex` is no queue, but no thread loses every race. Arrivals and spurious
  wakeups have no fairness.
- *Server*: also weak fairness of the hook's polling loop and of gRPC's return from
  `Wait`. No signal need come.
- *Cache*: weak fairness of the end of a fetch (libcurl's timeout), strong fairness of
  taking `mu_`.
- *Services*: weak fairness of the handler's next step; a statement that waits for
  another transaction is enabled when that one has ended. Nothing has to fail.
- *Start*: weak fairness of `main`'s own steps and of the hook's polling loop. Discovery is among
  them, because libcurl has its two timeouts. Opening a connection is not: nothing bounds it,
  and `StartIsDecided` says so. Nor is the return of `Wait()`.
- *Pagination*: the client goes on asking. The code does not guarantee it; without it
  `WalkEnds` would say nothing about the server.

## 4. Findings

1. **Concurrent `CreateVehicle`s can stop the server for ever** (`server_create`).
   `CreateVehicle` holds its connection while the nested `GetVehicle`
   (`src/services/vehicle_service.cc:85`) acquires another, and `acquire` has no timeout. With
   four connections, four concurrent `CreateVehicle`s hold all of them and wait for a
   fifth. All other RPCs wait too, and so does the shutdown that `src/main.cc:124` announces as
   "graceful shutdown within 5s".
2. **`UNAUTHENTICATED` after the vehicle was created** (`crud_unauthenticated`). The nested
   `GetVehicle` authenticates the request again, after the commit. If the token expired
   in between or the key set cannot be fetched, the answer is `UNAUTHENTICATED`, which the
   design says comes "before reaching the service handler".
3. **A date that is out of range may be stored as another one** (`records_date`).
   `DateToString` (`src/services/vehicle_service.cc:46`) cuts its text to ten characters. Its comment
   leaves out-of-range values to the `DATE` column, which only sees what is left: 150 January
   2024 is stored as 15 January 2024.

Met while modelling, without a run:

- `README.md` says "CreateVehicle doesn't enforce a unique license plate"; the schema does
  (`sql/001_initial.sql`), and the handler answers `ALREADY_EXISTS`.
- `CreateVehicle` writes two authentication log lines for one RPC, by the same nested call.
- The reports compare `VehicleId::text` with the request's text: an id in upper case finds its
  vehicle in the CRUD services and no row in most reports.
- A connection that broke goes back into the pool and is never reopened.
- A `kwh_charged` or `cost` below half a hundredth passes the validation and is stored as 0.00;
  written back, the same record is refused. NaN passes both comparisons.
- A `database.url` of the wrong type is an error even when `EVGRPC_DATABASE_URL` is set;
  the comment at `src/config/config_loader.cc:119` says that the variable takes over.
- `EVGRPC_DATABASE_URL` is checked for its prefix when the file has a database section and
  not when it has none.
- `get<int>()` narrows before the range check: a port of 2^32 + 50051 is accepted as 50051.
- `SearchWeather` and `SearchSourceCategory` take any positive limit; there is no cap like that of
  the lists.
- The temperature report counts the energy of a charging once for every consumption whose
  24-hour range it lies in, so its total may exceed what was charged.
- `src/services/consumption_service.cc:81` says that a NOT NULL violation becomes INTERNAL;
  `ToGrpcStatus` makes it INVALID_ARGUMENT.

## 5. The proofs

Everything in the eight `*Proofs` modules is checked by TLAPS to the last leaf. The theorems hold
for every value of the constants that satisfies the named assumptions. Each of these is evaluated
by TLC in a run, and none says more than the program or the meaning of the constant gives:

| Assumption | Says |
|---|---|
| `PoolAssumption`, `SizeOK` | a positive number of connections, finitely many threads, `NoThread` is none of them, two kinds of RPC |
| `CacheAssumption` | lifetime, timeout and bounds are natural numbers; `NoCaller` and `NoKid` are none of their sets |
| `CredentialsAssumption` | what a credential is |
| `CrudAssumption` | the methods are the server's; **the database satisfies its own schema when the server starts**; `NoWrite` is no write |
| `StartupAssumption`, `StartsAssumption` | `int` has an even, positive number of values; a positive pool size; the start reads some file |
| `IntWidthAssumption` | an `int` holds every limit and the number after it |
| `ReportsAssumption` | there is a request; what the fields of a request are; finitely many rows; costs and energies are not negative; a charging starts on a day of the calendar |
| `PaginationAssumption` | an `int` holds every date and offset in use; the page sizes' default and cap are positive and fit; what filters and tokens are; **the table satisfies its primary key when the walk starts**, and is finite |
| `RecordAssumption`, `RequestsAssumption` | positive radices; NaN is encoded as a number larger than any in a column or a request; the fields of a request, dates being of `int32` numbers with a year of less than ten digits |

The inductive invariants were checked with TLC on the runs' instances before they were proved.

*The abstract pool.* `ExclusiveLease` is inductive together with the types (`IInv`); popping
needs that the popped connection is nowhere else, which is what its third conjunct, no
duplicates in `idle`, is for. `NoConnectionLost` is inductive given `IInv`. The results are
`ExclusiveLeaseAlways` and `NoConnectionLostAlways`.

*The refinement.* A `Pop` is an `Acquire` only if the frame's `PgConn` is empty, a `Push` is a
`Release` only if it is not. `Stack(t)` says which of a thread's two `PgConn`s are filled at
each `pc`; with the types it is inductive (`PoolInv`). From it: `TypeCorrect`, and
`Refinement`, in which `Pop` maps to `Acquire`, `Push` to `Release`, and everything else to a
stutter. The two promises carry over: `ExclusiveLeaseHolds`, `NoConnectionLostHolds`.

*No lost wakeup.* `NoLostWakeup` is not inductive: two connections may be idle, one thread awake,
and that one takes a connection and leaves. The strengthening counts: while anybody waits,
there are at least as many awake threads as idle connections (`EnoughAwake`). A thread
falls asleep only when `idle_` is empty; a `Push` adds a connection and makes the pusher one who
will notify; a `Pop` removes one of each; a `NotifyOne` replaces the notifier by the one it woke.
`EnoughAwakeHolds` is the count itself, and `NoLostWakeupHolds` follows. The argument does not need
the notify to be under the lock.

*The server.* Every step of the process is a step of the pool or leaves it alone (`ServerStep`), so
the theorems about the pool hold in it. New in `ServerInv` are that a thread holds `mu_` only
inside `acquire` or `release`, and that no handler runs once `main` has left. Then no `PgConn` holds
anything, no connection is lost and none is in `idle_` twice, so that `idle_` has exactly `Size`
entries: `PoolQuietAtExitHolds`.

*The key cache.* `FreshKey` speaks of the moment `GetKey` returns. `CacheInv` says what makes it true
there: `mu_` is held exactly during a fetch; the set in the cache was written at most one fetch
before it was stamped; every key in it was then published; the request under way was sent after
the last refresh, and its answer written after that. `FreshKeyHolds` is a conjunct;
`NoOlderKeySetHolds`, an action property, follows because an answer is younger than its request,
the request than the last stamp, and the stamp than the set it stamped.

*Authentication.* The steps of `Authentication` are steps of the cache (`AuthStep`), so `CacheInv`
holds in it. `RequestsOwnKey` adds that a thread looks up the kid of its own token.
`SoundAuthenticationHolds` is an action property of the combined specification.

*The CRUD services.* `TablesConsistent` is not inductive: a write is checked when its statement
runs and applied when it commits, and others commit in between. `OpenInv` says that every open
write could commit now, and that no two conflict. Pure lemmas about one database carry it: a
write that answers "done" keeps the constraints (`ApplyConsistent`), and changes neither the answer
nor the conflicts of a write that does not conflict with it (`ApplyAnswer`, `ApplyConflict`).
`HandlerInv` ties each handler's place to its statement, its reply and whether it committed, from
which `OkIsDurableHolds` and `RefusalHasNoEffectHolds`.

*The start.* `CleanExit` is not inductive: that a signal does not kill an announced server needs
that it has both handlers, and that `main` returns 0 only after a signal needs that the hook ends
only when it has seen the flag. `ExitInv` adds both, with where `main` may be in each case.
`ServesAsConfigured` rests on `ConfInv` (whatever is past `LoadSchema` has a configuration that
`LoadSchema` accepted) and on what an empty `ErrorsOf` says of a file; here the numbers need that
`get<int>()` keeps what fits. `OnePassIsEnoughHolds` is `RepairedIsAccepted`, a lemma about every
file: TLC sees files with up to two mistakes, the proof any number.

*The reports.* The aggregation must know what the statements before it saw (`SeenInv`): the charging
that `EXISTS` found, the consumptions the first statement of `GetConsumptionEfficiency` read, and
that the tables of every moment are on record, the present ones last. So whatever an earlier
statement saw stands at or before the place of what this one sees, which is the order
`ReplyIsOneState` asks for. `OkHadDataHolds` also needs that the pre-check,
which compares texts, finds nothing that the aggregation, which compares UUIDs, does not select.

*The records.* The proof is arithmetic, with symbolic radices: quotients are monotone and exact on
multiples; from that, the column keeps an instant to half a microsecond and in order, and a
decimal to half a step, with its sign and in order; what was read is written and read again
unchanged. A date in the calendar of four-digit years is ten characters wide, so nothing is cut; this
is counting digits. That an update binds what a create binds is `SameBindings`.
`AcceptedRow` and `RowWrittenBack` put the fields together. `StoredRowRules` is not
inductive because a request may be one that was read from the row: `RecordInv` adds that rows
read as requests. The theorems hold for the radices of the code, where TLC uses 3, 2 and 4.

*The reports' sums.* `BreakdownsAddUp` and `PeriodsAddUp` hold in every typed state, so the types are
all the induction over steps they need. What they do need is induction over the rows. The
library's induction theorems take an operator, which the provers cannot instantiate;
`SmallestBad` does without: the proper subsets of a finite set are well-founded, so the *set*
of subsets for which a claim fails has a least member. Each lemma about sums removes one row
from it. They go from the fold of the library (an iteration exists and is unique,
`IterateExists`, `IteratesAgree`) to its equation (`SumStep`), to taking out any row
(`SumRemove`), to disjoint unions, and to `SumPartition`: adding up group by group gives the
whole sum. A `GROUP BY`, the temperature buckets, the months of a year and the days of a month
are four uses of it. For the last, `DayFits` compares `LastDayOfMonth` with the calendar, written
down independently in `CalendarDay`: each day a charging can lie in is one the daily report accepts.

*The lists.* `ListVehicles` sorts by date and then by id, a strict total order, so in any page the
vehicle at position i has i - 1 predecessors (`OrderRank`): positions are ranks. `ExactSoFar` says
that an undisturbed walk has seen exactly the vehicles whose ranks lie between the first offset
and the one its token names, each once; the page appends the next ranks, and at the end
there are none left (`QuietWalkIsExactHolds`). The other two lists leave ties open, and two answers
agree only on the date at each position (`DatesAgree`); `DatesSoFar` says that the dates seen are a
prefix of those of every order of the table, which gives the count per start time and nothing
more (`QuietWalkCountsHolds`). `BoundedDrift` is not inductive: it speaks of the end of the walk, and
a write moves rows across the token long before. `DriftSoFar` keeps two accounts against the
offset: the vehicles that were there all along, rank below it and have not been seen, and
those seen that rank at or above it and may come again. A row
removed moves ranks down by at most one, which lets at most one vehicle slip under the offset
unseen; a row added moves at most one back above it (`RankAfter`, `WriteDrift`). TLC checked this
invariant also with four writes.

Only model-checked: all liveness (`GracefulShutdown`, `EveryRpcFinishes`, `EveryLookupEnds`,
`EveryRpcIsAnswered`, `WalkEnds`, `StartIsDecided`). It rests on fairness, about which the prover
does not reason. Every invariant that a passing run checks, and the two safety properties of
steps, `NoOlderKeySet` and `SoundAuthentication`, and the refinement are proved.

## 6. Not modelled

- Later migrations in `sql/`, which convert columns of existing databases.
- What makes a JWK convert (`JwkToPem`: base64url, OpenSSL): a key converts, is skipped or throws.
- The health of a pooled connection: a statement may fail at any time, whichever connection it
  runs on.
- UTC offsets in `ParseTimestamp`: the pool pins its sessions to UTC, so only `+00` occurs.
- The mileage and range columns and the remark in `RecordRules` (they pass through like the
  percentages and the location, but a swap among them would not be noticed), and the
  overflow of a difference of two of them in a report's SQL, which PostgreSQL refuses with an error
  (`Throws`).
- Years of ten digits in a purchase date: the text is then the year alone, and what PostgreSQL reads
  in ten digits is not modelled.
- Log output, including the data race of the unsynchronised sinks; request ids; timing in `db::Exec`.
- libpqxx, PostgreSQL, libcurl, jwt-cpp and gRPC, beyond what the code relies on.

## 7. Plan

Done, in this order: the pool and its abstract specification; the server; the key cache
and authentication; the CRUD services over the schema; lists; reports; proofs about the
pool; searches; record rules; the temperature report; the start and the proof about its exit;
proofs about the cache, authentication, the server, the CRUD services, the configuration, the
reports and the records; the lists and the reports' sums.

What remains is outside the prover (liveness) or outside the models (section 6). The next
component worth a model would be the migrations in `sql/`.
