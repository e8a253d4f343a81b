# TLA+ models of the todo API

This directory models the todo API of the repository (FastAPI, SQLAlchemy's
asyncio ORM, PostgreSQL, Microsoft Entra, azd) in TLA+: specifications that TLC
checks on small instances, and proofs that TLAPS checks for every value of the
constants. Paths below are relative to the repository's root.

Run a check with `tlc -config TodoStore.cfg MCTodoStore` and a proof with
`tlapm TodoStoreProofs.tla`. `PROJECT.json` lists the runs, which lines each
definition models, the hazards of the code, and for every checked property a
mutated definition that breaks it.

## 1. The system

| Component | State it keeps | Operations | Talks to |
|---|---|---|---|
| Todo router, service, repository (`app/api/v1/routers/todos.py`, `app/modules/todos/`) | one `AsyncSession` and the loaded ORM instance per request | list, get, create, update, delete | PostgreSQL, telemetry |
| PostgreSQL table `todos` (`alembic/versions/`) | rows, id sequence, row locks, transactions | statements, COMMIT, ROLLBACK | |
| Engine and sessions (`app/core/database.py`) | a bounded connection pool; in Entra mode a cached token and the expiry of every connection's token | checkout, login, recycle, check-in | PostgreSQL, credential |
| Token validation (`app/core/security/`) | `_JwksCache`: keys, expiry, lock | validate a bearer token, enforce roles | the issuer's JWKS endpoint |
| Errors (`app/main.py`, `app/core/exceptions/`) | | exception to error envelope | every handler |
| Correlation, telemetry set-up, logging | process-wide flags, request state, span | once at import; per request | OpenTelemetry |
| Business events and metrics (`app/core/observability/signals.py`) | endpoint cache, counters | synchronous POST per operation | Application Insights |
| Schemas and mapper | | validate, trim, translate | router, service |
| Pre-provision hook (`infra/hooks/preprovision.sh`) | the azd environment of a machine; app registrations, principals, assignments and secrets in the directory | find or create, patch, assign, save; retries | Microsoft Graph, azd |
| Post-provision hook, migration job (`infra/hooks/postprovision.sh`, `infra/scripts/run_migrations.sh`) | the database's roles, grants, default privileges and schema version | grants, migrations, seeding | Azure, PostgreSQL |
| Seed script (`scripts/seed_data.py`) | one transaction | look for three titles, insert the missing | table |
| Verification script, telemetry queries (`scripts/`) | | end-to-end probe, Kusto | API, issuer |
| Infrastructure templates (`infra/bicep/`) | | declarative; up to three replicas | |

How they interact. A request passes the correlation middleware, the
authentication and role dependencies, the router, the service and the
repository, all on one event loop per replica. The code runs without
interruption between two `await`s, and it awaits only at database round trips
and at the pool. What replicas and requests share is the table; requests of one
replica also share the connection pool, the token cache and the key cache.
Telemetry and the key fetch are synchronous calls that hold the event loop.
`azd` runs the hooks around provisioning and deployment; any of them ends at
its first noticed failure and is then repeated as a whole.

What is hard, and which properties make each component correct:

- *Todo operations.* Requests interleave at every round trip and across
  replicas; statements fail, COMMITs are lost in flight, replicas stop.
  Correct means: no lost update, no row left locked, ids never reused, an
  answer that agrees with what happened to the data. None of this shows in
  the test-suite, which runs on SQLite: it ignores `FOR UPDATE` and reuses
  the largest id.
- *The pool.* A handler needs a connection up to twice, for its transaction and
  again for `session.refresh`, and rows are locked while others wait. Correct
  means that waiting for a connection never waits in a circle with waiting for
  a row, and that a connection comes back whichever way a request ends.
- *Listing.* Two statements, an offset into an order that changes, ties.
  Correct means that a client who pages through learns of every todo it can.
- *Entra connections.* Three clocks, token expiry, refresh skew and the guard
  of the checkout listener, have to fit together, or connections are refused
  that nothing is wrong with; and a checkout must end.
- *Authentication.* Keys rotate while fetches are slow or fail, tokens expire
  while their request waits, and one client's bad token moves the cache that
  serves another's good one. Correct means: a handler starts for the entitled
  only, and the entitled are not kept out.
- *Answers.* Some errors are answered inside the correlation middleware and some
  outside it. Correct means that an answer carries the id of its log records.
- *Pre-provision hook.* It may stop between any two calls and is then run again
  from the start; two machines may run it at once; and `set -e` does not see
  every failure. Correct means that runs converge: they complete, on one set of
  registrations and secrets that works.
- *Deployment.* Grants are made statement by statement and act on the tables
  there are, default privileges on later ones; the new revision serves before
  its schema is there; upgrades and seed runs overlap. Correct means that a
  completed run leaves a service that works, and that no failure blocks the
  runs after it.

## 2. The modules

### TodoStore: the request handlers and the database

A request (`Requests`) is one call of get, create, update or delete, with its
id and body fixed at first (`call`). Its handler is a little program whose
`pc` names the await it is at:

| `pc` | code | leaves by |
|---|---|---|
| `select` | `session.get`, or `SELECT ... FOR UPDATE` (repository.py:32, :56, :82) | `Get`, `SelectNothing`, `SelectForUpdate`, `SelectOutOfRange` |
| `flush` | the INSERT, UPDATE or DELETE that `session.commit()` flushes | `Insert`, `InsertWithoutId`, `FlushChange`, `FlushConflict` |
| `commit`, `acking` | COMMIT sent, and its acknowledgement awaited | `SendCommit`, `CommitDone`, `CommitRefused` |
| `refresh` | `session.refresh`, inside the same `try` (:42, :68) | `Refresh`, `RefreshFindsNothing` |
| `rollback` | `session.rollback()` of the except clauses | `Rollback` |
| `emit` | metric and business event in the service | `Emit`, `EmitEscapes` |

The database keeps the committed `table`, the id sequence (`nextId`, which
never goes back), row locks (`lock`) and the state of each request's writing
transaction (`tx`), which lives its own life: the server may commit after the
client has lost the connection, and it ends what a client abandoned
(`ServerReaps`). Uncommitted changes are not in `table`, as READ COMMITTED has
it. `Written` is what a commit leaves: an update is the *net change*, since
SQLAlchemy writes only attributes that differ from the loaded row, laid over
the row as it is at the commit; whether that is right is a property
(`NoLostUpdate`), not an assumption.

The faults are `StatementFails`, `LoseConnection`, `Crash`, `EmitEscapes` (an
exception that the except clause of `_send_custom_event`, signals.py:115, does
not name) and `ServerRefuses`; the constant `Faults` chooses which may occur.
Errors are mapped to answers as the except clauses do it: IntegrityError to
`conflict`, other SQLAlchemy errors in the write to `persistence_error`, and
what passes them, an id beyond int4 among it, to `internal_error`.

Rows are functions from columns to values. Two columns and two values tell the
cases apart: a required and an optional column, a change, no net change, a
null in either. Ids of requests are positive; PostgreSQL treats 0 and negative
ones like a positive id nobody has. Timestamps are left to TodoListing.

### AtomicTodos and TodoRefinement: the promise

`AtomicTodos` has no transactions: each request takes effect at one instant,
at most once, on the todos as they are, and its answer fits (`ok` after an
effect, `not_found` if the todo was missing at that instant, `conflict` for a
null in a required column; an error promises nothing). `TodoRefinement` maps
TodoStore to it: the instant of a write is the server's commit, that of a
refusal the read it rests on.

### TodoPool: the requests of one replica over its pool

TodoPool extends TodoStore with `conn`, the connection of each session of one
replica. A handler's step that begins a transaction needs a connection
(`CheckOut`), commit and rollback give it back (`EndsTransaction`), and the
refresh takes one again. With `Capacity` of them out a request waits and then
fails (`TimeOut`), which the `try` around commit and refresh takes for a failed
write. `Close` is the end of `get_db`: it rolls back what is open and gives the
connection back, a broken one included. Requests outside `Local` are those of
other replicas; only they crash, because a pool is gone with its process. Every
step is one of TodoStore or leaves its variables alone. Pre-ping and
`pool_recycle` replace a connection at checkout and show as a checkout that
succeeds, or as `Break`.

### TodoListing: pages and totals

`List` and `Count` are the two statements of `list_todos`; a client walks the
pages with the total it was told. `created_at` is fixed when the creating
transaction begins, so rows enter the *middle* of the order when a later one
commits first. `Newest(n)` is the set of choices ORDER BY leaves for the first
n rows. A page is taken as a set; its inner order decides nothing here.

### EntraPool: tokens and connections

A slot is a connection record and the checkout using it: `idle` (pooled),
`pinging` (pre-ping under way), `opening`, `login`, `connected`, `used`. `Open`
is the `do_connect` listener with `get_token`, `GuardPasses` and `GuardRefuses`
the `checkout` listener, `PoolRecycle` the clamped recycle time. `skew` is the
refresh skew a replica was configured with; it never changes. That SQLAlchemy
reconnects and makes two attempts, and that a failed ping invalidates the whole
pool, is the library's behaviour and marked external.

### JwksCache: signing keys

`get_key` as its code paths: `Hit`, `Miss` (unforced or forced fetch),
`FetchedLast`, `FetchedWithoutWanted` (the forced second fetch) and
`FetchFails`; `Rotate` is the issuer. The clock is read before the fetch
(`started`), as in `_get_keys`. One request at a time is inside, because the
call is synchronous on the event loop, under a lock. `lastSeen` and `steady`
record what the issuer published; the program does not see them. The module is
checked as Pipeline uses it.

### Pipeline: what is around the handlers

Pipeline extends JwksCache by the requests that use it. A request is at a
`stage`: `entered` (the first half of the middleware is through), `fetching`
(inside `get_key`, and with it the whole event loop: `LoopFree`), `handling`,
`answered`. From the return of `get_key` to the verdict on the roles nothing is
awaited, so `Proceed` takes a step of the cache and the `Judgement` of
`validate_access_token` and `_enforce_roles` in one. A token is its key id,
expiry, roles and flaws, those found before its key is asked for (`EarlyFlaws`)
apart from the rest. A body that is not JSON is answered before the
dependencies run, one that is invalid after them. `Handle` stands for the
handler, with each kind of outcome TodoStore gives it.

`SetUpTelemetry` and `InstrumentApp` are the start-up of `app/main.py`; their
failures leave the replica without spans (`traced`). `Response` says which form
a body has and whose id its header carries: a valid span's trace id goes before
the client's `x-correlation-id`, and an exception nobody names passes the
middleware, so its answer carries neither.

### Provisioning: the pre-provision hook

The directory holds the API registrations of the environment's name (with the
id of their roles), the client registrations (with their valid secrets),
principals and assignments; `env` is what each machine's azd environment
holds, `run` the shell variables of its hook and `pc` the call it is at. One
action is one call of `az` or `azd`, in the order of the script. The two roles
are patched together and share an id; the assignments are apart.

Failures come in two kinds. `Stop` is one that `set -e` sees, or an interrupt:
the shell variables are gone, what was done stays. The others pass unnoticed:
`get_azd_env_json` falls back to `{}` (`StartBlind`); `ensure_sp` runs in a
command substitution (`EnsureSp`); and `assign_app_role_if_missing` runs in the
`if` of `retry`, so that after a failed GET the empty count is not "0" and the
call returns success (`AssignSkipped`). `PatchRejected` and `AssignRejected`
are requests that Graph refuses all five times. That Graph does not let an
enabled role be changed is modelled from outside the repository; its delay
before a new object can be read everywhere is not modelled.

### Deployment: grants, migration, seeding

A machine's run (`at`) goes through the statements of `postprovision.sh`, which
psql commits one by one, the deployment of the new revision, the hook
`run_migrations.sh` and the seed script. `Up` is `azd up`, `DeployOnly` is
`azd deploy`, which leaves out the grants. `GrantAll` acts on the tables there
are and `defaults` on those made later, by whoever makes them. An upgrade reads
the version (`ReadVersion`), then runs and stamps the missing revisions in one
transaction (`Upgrade`), which fails as a whole if another machine was faster.
`Look` is one SELECT of the seed script with its `one_or_none`, `CommitSeed`
the insertion of what was missing. `Fail` ends a run anywhere. `Client` is a
client of the service that uses a sample's title. Runs begin where a revision
was deployed before, or where nothing is.

## 3. The runs

| Run | Question | Result |
|---|---|---|
| `todo_store` | three concurrent requests, all faults, an id range that runs out: is every answer true, no update lost, and AtomicTodos implemented? | holds |
| `todo_pool` | over a pool of one connection, does every request end, every connection return, and do the handlers implement AtomicTodos? | holds |
| `todo_listing` | what can a client that pages rely on? | holds, see below |
| `entra_pool` | is a checkout never refused where the skew covers guard and login, and does every checkout end where it does not? | holds |
| `pipeline` | who is let in, who is kept out, and does every request get an answer that its log records can be found by? | holds |
| `provisioning` | do runs that stop, repeat and overlap converge? | holds |
| `deployment` | does a completed run leave a service that works, and can every failed one be repeated? | holds |
| `failed_write` | does `persistence_error` mean the write was not made? | violated, without any fault |
| `list_pages` | are pages disjoint while nobody writes? | violated for equal `created_at` |
| `unhandled_errors` | is every error answered with the envelope and an id that is known? | neither, with the settings deployed, if nobody handles it |
| `hook_skips` | has a run of the hook that completes done its work? | violated by an unnoticed failure |
| `reseed` | does a seed run succeed on whatever earlier ones left? | violated by two that overlap |

The properties, in words:

- `NoLostUpdate`: a committed change of a row is exactly one PUT's body laid
  over the row that the commit found. `LoadedRowIsCurrent` is why: from
  `FOR UPDATE` to the end of the transaction nobody changes the loaded row.
- `AnswersAreTrue`: success is told only of committed writes; 404 and 409 only
  where nothing was written and nothing ever will be.
- `DeletedStaysGone`, `CreatedUntilDeleted`: ids are never reused and a created
  todo exists until a DELETE of it commits.
- `RequestsEndAndConnectionsReturn`: however full the pool, whoever holds the
  row and whatever fails, a request ends and its connection comes back.
  `PoolInv` has the reason: who waits for a connection keeps no row and no
  transaction (`NoHoldAndWait`). `ImplementsAtomicTodos`: over the pool, too,
  handlers take effect at one instant or not at all.
  `NearerToTheEnd`: each step uses up one of the at most 25 a request has when
  it arrives, and gives no other request more; nothing is tried twice.
- `DeletesHideOneEach`: where creation times differ, a finished walk has shown
  every todo that was there all the time, except at most one for each todo
  deleted meanwhile. Inserts, even late ones, hide nothing.
  `InsertsRepeatOneEach`: a page repeats no more todos than were created since
  the walk began, so with nobody creating it repeats none.
  `TotalReachesPage`: the total falls short of the page's end only by todos
  deleted since the walk began (so `total` *can* be smaller than the number of
  items, after a DELETE between the two statements).
- `NoRefusal`: with refresh skew >= guard + longest login (and tokens that last
  longer than that when issued) the listener never refuses a replacement. The
  default settings (300 s against 60 s) satisfy it; the floor of the code
  (30 s) does not enforce it. `EveryCheckoutEnds` holds regardless, and
  `CheckoutsGetNearer` says why: pre-ping and listener share two attempts.
- `HandledMeansEntitled`: with authentication on, a handler starts only for a
  token that is sound and alive at that moment, however long the fetch took,
  that has the role, and whose key was published within a TTL or one fetch.
  `EntitledAreLetIn`: its converse; the entitled are refused only if a fetch
  failed, whatever others' tokens have done to the cache.
  `EveryRequestAnswered`: a fetch holds up all requests, but none for ever.
  `NearerToTheAnswer`: no request asks the issuer more than twice.
  `KnownIdsReachTheClient`: a trace id in an answer is one its log records
  carry, and the middleware drops no id it knows. It leaves open whose id goes
  first, and it is about answers that come through the middleware;
  `ErrorsKeepTheContract` is about the others, and violated.
- `TrustedKeysAreRecent`: any key that would be trusted now was published by
  the issuer within the TTL, or within one fetch if that takes longer.
  `PublishedKeysAreFound`: "not found" is said only of keys that were not
  published all the while.
- `EveryMachineFinishes`: whatever state a stopped run or another machine left
  behind, a hook that is run again completes. (Were the saved role id to go
  before that of the registration, a machine could never patch it.)
  `DoneMeansReady`: a completed run that overlooked no failure leaves principals,
  roles, both assignments and a valid secret; `CompleteMeansReady` drops the
  exception and is violated. `RegistrationsAreFew`, `SecretsDoNotPileUp`: runs
  find what earlier ones made, also after a stop. `SecretsKept`: nobody
  invalidates a secret that another machine holds.
- `DoneMeansUsable`: a completed run that made the grants leaves a revision that
  serves, whose identity may use the table and the sequence, on the latest
  schema. The exception is a table that an `azd deploy` of another machine made
  while the grants were under way: it is without them until the next full run.
  `RevisionGetsItsSchema`: a revision that serves is migrated in the end, even
  if every seed run fails. `SeededTogether`: the samples clients leave alone are
  there together or not at all. `EveryRunCompletes`: a run that is repeated
  completes, unless there are two todos of one sample title.

The type invariants and `IInv`, `WalkInv`, `PInv`, `CacheInv`, `PoolInv`, `HookInv` and
`DeployInv` are checked because the proofs rest on them.

### What the violated runs show

They are listed under "findings" in `PROJECT.json`. `session.refresh` stands
inside the `try` of the write, so a write that committed can be reported as
failed. The list's order has no tie-breaker. `app_debug` is on by default and
nothing deployed turns it off, so an unhandled error is answered by a traceback;
and it passes the correlation middleware, so its answer carries neither
correlation id nor `traceparent`, against docs/design/instrument-flow.md:50.
The pre-provision hook passes over failures. Two todos of one sample title make
every later seed run, and with it every postdeploy hook, fail.

Met on the way, and not the subject of a run:

- An id beyond int4 is a 500, not a 404. A key of the issuer that is not an RSA
  key makes a 500 of what should be a 401 (auth.py:76, outside the `try`). Both
  are in the models; no property is about them, since no document promises
  otherwise.
- `pool_recycle` alone may keep a connection longer than its token lives; what
  keeps such a connection from being used is the checkout listener.
- `Response` gives a span's id precedence over the `x-correlation-id` a client
  has sent, as correlation.py:20 and :27-31 do; docs/design/instrument-flow.md:84
  asks to propagate it and not to overwrite inbound context. No property asserts
  either: the code and the document disagree.
- If `configure_azure_monitor` fails, the process has no tracer provider, against
  "keep tracing active" (telemetry.py:46); the middleware then generates no id
  for a client that sent none, against line 63 of that document.
- Telemetry can fail a request after its commit: what breaks while the response
  to an event is read is none of the exceptions signals.py:115 names, though
  :116 says "Never block user requests".
- Malformed JSON is answered with 422 before the token is looked at.
- SQLAlchemy is instrumented after the engine was created at import.

### Bounds, and why they are enough

- `todo_store`: three requests, two that conflict and a third that observes or
  intervenes (deletes between a commit and its refresh, reuses an id).
  `MaxId = 2` with one seeded row lets the sequence run out and leaves id 3
  beyond the range. The requests are interchangeable, so symmetry is used.
- `todo_pool`: one connection, the smallest pool and the one most easily
  exhausted, two requests for it, and a third elsewhere that holds rows or
  crashes. Creates and PUTs of one row reach every stage of a write; symmetry
  is not used, since liveness is checked. Ids beyond the range, nulls, deletes
  and failing telemetry are left to `todo_store`, which checks the refinement
  without a pool. It is proved for any requests, calls and pool.
- `todo_listing`: five todos, page size 1, two ticks or fewer after the walk
  begins: up to five pages, inserts at both ends and in the middle, every order
  of deletions.
- `entra_pool` counts in ticks of 30 s (guard 2, floors 1, 4 and 2). A run has
  a skew of 4 ticks, which covers the guard and the longest login, or of 0,
  raised to the floor of 1, which does not. Seven ticks (`MaxTime`) let
  connections be opened, pooled, recycled and outlive their tokens, and tokens
  be renewed. `tries` counts within a checkout and is 0 outside one.
- `pipeline`: two keys, which rotate at will; ticks of half a TTL, four of them,
  so that the cache expires twice and a fetch may last as long as a TTL. One
  client sends a sound token that expires while it is in use; the other sends a
  sound, an insufficient, a forged or a malformed one, none at all, or a body
  that will not do. Replicas have authentication on, off or half configured,
  telemetry set up, failed or off. `NotRSA` is empty in the run; the proofs
  leave it open.
- `provisioning`: two machines, since any conflict is between two, and one
  setback (`MaxSetbacks`), at any call of either: a failure, an interrupt, or a
  further run after a completed one. Every other action is repeated as often as
  the script calls for.
- `deployment`: two machines, three samples of which clients use one title. Each
  machine may be told one thing more than to repeat a failed `azd up`
  (`MaxRuns`), one step fails (`MaxFailures`), and there are at most two todos
  of one title, which is enough for `one_or_none` to raise.

Clocks and counters stop at these bounds, and requests and runs end, which is
why the configurations do not check for deadlock; that everything that should
go on does is what the liveness properties say.

### Fairness

- `TodoPool!PoolFairSpec`: weak fairness of all steps without client or fault
  taken together. The event loop resumes a handler whose await has ended,
  `pool_timeout` is finite, and the server commits, refuses or reaps each
  transaction. Fairness of single requests would be too little at a pool where
  others come first, and strong fairness of each is not what a pool promises;
  this is enough because every step brings its request nearer to its end
  (`NearerToTheEnd`, proved), and requests are finitely many. Nothing makes requests arrive, and no fault is
  forced.
- `EntraPool!FairSpec`: weak fairness of the steps of a checkout that has begun;
  time and new checkouts are not forced.
- `Pipeline!PFairSpec`: weak fairness of each request's steps; `urlopen` has a
  timeout, so a fetch ends in an answer or a failure.
- `Provisioning!FairSpec`, `Deployment!FairSpec`: each call of a hook returns,
  and a hook or run that ended early is started again. The latter is the
  operator's doing, not the code's: the properties say that doing so is enough.

## 4. The proofs

All are for arbitrary constants, under the assumptions the modules name (of the
kind that `Null` is not a value, that sets of machines and of requests with a
pool are finite, that bounds are natural numbers), which TLC evaluates in the
runs. Most properties are not inductive by themselves; each component has an
invariant that is, and theorems that follow from it.

- **TodoStoreProofs.** That the loaded row is current at the commit needs that
  the lock is still held, which needs that a `sent` transaction's request is at
  `acking` or gone, and so on. `IInv` adds `LocksHaveOwners` (a lock belongs to
  an unfinished transaction on the row of its request), `Phase` (what the
  handler's place says about the transaction) and `Numbering` (what the
  sequence has given out). One lemma per group of actions shows
  `IInv /\ Step => IInv'`, and `Inductive`, `TypeCorrect`,
  `LoadedRowStaysCurrent`, `AnswersHold`, `DeletesAreFinal` and `CreatesLast`
  follow. `UpdatesAreNotLost` proves the action property `NoLostUpdate`: by
  `LoadedRowIsCurrent` the net change is relative to the row in the table, and
  laying the net change over a row equals laying the whole body over it
  (`NetChangeSuffices`).
- **TodoRefinementProofs.** `Implementation`: Spec => AtomicTodos. `RInv` adds
  to `IInv` which answers a handler can hold where it is (`Placed`) and that
  created ids lie beyond the seeded ones. A step of one request leaves what the
  mapping says of the others (`StepAlone`); of its own request it keeps verdict
  and answer, tells an answer that fits, or fails a request without an effect
  (`Reading`, `Writing`, `Ending`, `Failing`), or it is one of the four steps
  that settle a request (`Reads`, `Refuses`, `Commits`). At the commit,
  `LoadedRowIsCurrent` gives that the todo exists, `NetChangeSuffices` that the
  net change has the effect of the body, and `Numbering` that the id is new.
- **TodoPoolProofs.** `PoolKeepsTheStore`: each step of the pooled replica is a
  step of TodoStore or a stutter, so everything above holds for any pool.
  `PoolImplements` and `PoolKeepsPromises` say so of the refinement, of
  `AnswersAreTrue` and of `NoLostUpdate`.
  `PoolIsSafe`: `PoolInv`, with `IInv` beside it; `NoHoldAndWait` is a
  consequence of `Phase` and `LocksHaveOwners` (`WaitersHoldNothing`).
  `RequestsAreShort`: `StepsLeft` counts what handler, connection and
  transaction of a request have before them; a handler's step outweighs what it
  adds to the other two (`StageCovers`), and where the handler stays, the
  transaction or the connection comes to its end (`LocalNearer`).
- **TodoListingProofs.** A client that has seen the first pages was shown the
  todos in the first places of the list as it was then; the list has moved
  since. `WalkInv` counts both ways over the edge between what was walked and
  what is to come: the todos before the edge that were never shown (`Missed`)
  are at most the deleted ones, those behind it that were (`Repeated`) at most
  the new ones (`OneEach`). Where creation times differ no two todos have one
  place (`Rank`), so a commit pushes at most one over the edge, a delete lets at
  most one slip back, and the page itself, being exactly the places between two
  edges (`PageFitsList`), moves the edge without changing either count. Hence
  `TotalIsEnough`, `DeletesHideFew` and `InsertsRepeatFew`, for any todos, page
  size and clock.
- **EntraPoolProofs.** `PoolInv`: while pinging both attempts remain; and where
  the skew covers the guard, a connection being opened outlasts login and guard
  and has an attempt left. Hence `TokensNeverRefuse`, for any pool size,
  settings and clock. `TypeCorrect` includes that attempts never go below 0.
  `CheckoutsAreShort` proves `CheckoutsGetNearer`, an attempt being worth more
  than the stages it begins anew.
- **PipelineProofs**, first part: the key cache. `CacheInv`: the cache's expiry
  is at most a TTL after a moment at which all of it was published, and a
  response lists what was published since the fetch began. Hence
  `TrustIsBounded` and `RefreshOnMiss`. Second part: the pipeline. `Composed`: the cache is in a fetch exactly while one
  request is inside `get_key`, for its own token's key (`PInv`).
  `CacheIsUsedWell`: every step of the pipeline is a step of JwksCache or leaves
  it alone, so CacheInv holds here. From both, `OnlyEntitledAreHandled` and
  `EntitledAreNotRefused`, for any requests, tokens and settings. `IdsAreCarried`
  needs one thing more in `PInv`: that requests arrive only when the start-up is
  over, so that whether a request is traced is settled when its first id is
  noted and the same when its answer is written (`Noted`). `RequestsAreShort`
  rests on `PInv` too: the cache's fetch is counted to the one request that is
  in it, and the others stand back (`OthersStandBack`).
- **DeploymentProofs.** `DeployInv`: what a run that made the grants has done at
  each step (`DoneSoFar`), that a table not made in haste has its rights, and
  what a seed run has looked for (`LookedFor`). `OthersUndoNothing`: no machine
  takes back what another relies on. Hence `DoneIsUsable`, `SamplesGoTogether`.
- **ProvisioningProofs.** `HookInv`: what the shell variables of a run stand for
  at each call (`ApiKnown`, `ClientKnown`, `SecretKnown`), what it has saved
  (`Saved`), and three counts. The argument has two halves. The directory only
  grows (`Grows`), so what is known of the other machines stays (`OthersKeep`)
  and only the acting machine is left to look at (`OneActs`, `Between`), call by
  call. For the counts, a machine about to create a registration is counted
  with those that exist (`Creating`), and a secret with a machine that holds one
  (`Holders`): a new secret makes a holder, and only a failure unmakes one
  (`Counts`, `FewStay`). Hence `FewAreMade`, `DoneIsReady`, `SecretsStay` and
  `SecretsAreFew`, for any machines and setbacks.

Every invariant and every safety property of steps that a passing run checks is
thus proved. Only model-checked are the liveness properties
(`RequestsEndAndConnectionsReturn`, `EveryCheckoutEnds`, `EveryRequestAnswered`,
`EveryMachineFinishes`, `RevisionGetsItsSchema`, `EveryRunCompletes`), since
TLAPS reasons neither about fairness nor about ENABLED; of the first three it is
proved that requests and checkouts cannot go on for ever, and left to TLC that
they cannot stand still. The violations are traces.

## 5. What is not modelled, and why

- *Time in the write path*: the `updated_at` trigger takes the transaction's
  start, so of two updates the later may leave the earlier time; TodoStore has
  no clock. How long telemetry's `urlopen` holds the event loop is not modelled
  either, only that nothing else runs meanwhile.
- *Limits of the environment's models*: `az ad app list --display-name` matches
  prefixes, the model the exact name, as if no other registration began with it.
  One administrator is assumed: POSTGRES_ENTRA_ADMIN_NAME belongs to a machine,
  and default privileges act on what the role that set them makes. `urlopen`'s
  timeout is for each socket operation, so that `MaxFetch` bounds a fetch only
  approximately (the proofs leave it open). A client's `traceparent` header is
  not modelled; the instrumentation continues its trace in the span.
- *Several registrations of one name*: which of them `az` lists first is not
  documented. A stop between saving the client's id and its secret, with a
  second registration, pairs the new id with the old secret (preprovision.sh:234),
  and line 214 trusts the pair. `Ready` compares the two only while there is
  one client.
- *Verification script and Kusto queries*: one sequential client and queries;
  they keep no state. *Infrastructure templates* are declarative. The *health
  endpoint* answers a constant.
- *Log formatting, span filtering, SQL spans, text trimming and length limits*:
  no property depends on them.
- *Migration downgrades*, which no script runs, and how `run_migrations.sh`
  chooses among its credentials, but for its need of the administrator.

What could follow: that no request or run stands still, as an invariant with the
guards written out, next to the proofs that none goes on for ever; a clock in
TodoStore for `updated_at`; a model of the directory's listing order if its
promise can be settled.
