# TLA+ models of Djan-Go-Go

Djan-Go-Go is a Django-shaped web framework in Go: an ORM over `database/sql`,
migrations, sessions, authentication, CSRF protection, an admin, forms,
templates and a command dispatcher. This directory holds TLA+ modules that model
its logic, TLC configurations that check them on small instances, and theorems
that TLAPS proves for every instance. Paths below are relative to the root of
the repository's source.

    tlc -workers 2 -config MCAtomic.cfg MCAtomic      check a model
    tlapm AtomicProofs.tla                            check the proofs of a module

`PROJECT.json` lists the runs, which lines every definition translates, a fault
for each checked property (a variant of a definition that TLC must reject), the
hazards of the code, the findings and the theorems.

## The system

| component | state it keeps | operations | talks to | modelled in |
| --- | --- | --- | --- | --- |
| ORM transactions, `orm/transaction.go` | the `*sql.Tx` and the savepoint depth in a context; the deferred rollbacks of the running calls | `Atomic`, outermost or nested | `database/sql`; every query goes through `conn(ctx)` | `Atomic`, `NestedTx` |
| ORM queries, `orm/queryset.go`, `lookups.go`, `compiler.go`, `execute.go` | an immutable query set | chain methods, `All Get Count Exists Create Update Delete` | database, signals | `QueryCompiler` |
| Signals, `orm/signals.go` | a process-wide table of handlers under a mutex | `On*`, cancel, fire | called by `Create` and `Delete` | `QuerySignals` |
| Model registry, `orm/field.go`, `registry.go` | models by name and type, frozen or not | `Register Resolve Freeze` | filled by `djangogo.New` | `ModelRegistry` |
| Relations, `orm/relations.go`, `selectrelated.go` | in an `FK[T]`: key, cached object | `Fetch Scan Value SetPK SetObject`, `SelectRelated`, `RelatedObjects`, `Prefetch` | queries | `Relations` |
| Migrations, `migrations/` | project states, migrations, the tracking table | `Diff`, `MakeMigrations`, `WriteMigration`, `Apply` | model registry, database | `Schema`, `Database`, `MigrationTx`, `MigrationFile`, `Autodetect`, `MigrationRunner` |
| Sessions, `sessions/` | per request: key, data, modified; a row or a cookie | `Decode Encode Rotate`, the middleware | orm, `net/http` | `WebStack` |
| Auth, `auth/` | users, groups, permissions; a user id in the session | `Login Logout UserFromSession HasPerm CreateUser`, guards | sessions, orm | `Accounts`, `WebStack` |
| CSRF, `csrf/` | a token in the session | the middleware | sessions | `WebStack` |
| Admin, `admin/` | registered models and their operations | list, add, change, delete | orm, forms, auth | `AdminSite` |
| Forms, `forms/` | a form's data, errors and cleaned values | derive, pre-fill, bind, clean, populate, render | models | `FormFields`, `ModelForm` |
| URLs, `urls/` | the routes by name, a `ServeMux` | `Include`, router, `Reverse` | templates | `Urls` |
| Application, `application.go`, `apps/`, `conf/` | the process's settings and URL resolver; per application: apps, models, database, routes | `New`, `Execute` | everything | `Application` |
| Templates, views, commands, scaffold | none that lasts | render, list, run | | in part, see the end |

A request runs through sessions, then CSRF, then auth, then the router. There is
no background thread: what runs at the same time are the goroutines that
`net/http` starts for requests, and other processes on the same database.

### What is hard here, and what has to hold

* **Failure in the middle.** Blocks of `Atomic` nest, and each may return an
  error, panic, lose its connection or run into a deadline while the rollbacks of
  others are pending. A failed block must be undone, and only it.
* **Crashes and restarts.** `migrate` runs many statements per migration and may
  die between any two. The tables must stay those of the recorded migrations, and
  starting it again must finish the work.
* **Several processes, several goroutines.** Nothing keeps two `migrate`
  commands, two requests of one browser or two editors in the admin apart. No
  session or row may hold a mixture of two writers. That the later of two writers
  wins, and that overlapping `migrate` commands apply a migration twice, is what
  the code does.
* **Answers that do not come.** A COMMIT, an INSERT or a DELETE may have taken
  effect when its caller gets an error; what is said of a failed call must be
  true then too.
* **Read, then write.** `AppliedSet` before the transactions, `Get` before
  `Create` in `CreateUser` and in `DBStore.Encode`, the fetch before `DELETE`
  when there are signal handlers, the admin's read before its update, `HasPerm`
  in four queries.
* **Agreement of two descriptions.** `Apply` and `SQL` of an operation describe
  one change twice; `Diff` has to find every difference between two project
  states; `SelectRelated` and `Prefetch` must answer what `Fetch` would; the
  placeholders of two dialects must take the same values; a form that is shown
  must give the object back; `Reverse` must make what the router serves.
* **State of the process.** Settings and the URL resolver belong to the process
  and outlive the call of `New` that set them, also one that fails.

## Modules

| module | models |
| --- | --- |
| `NestedTx` | what `Atomic` promises: nested blocks that leave no trace when they fail |
| `Atomic` | `orm/transaction.go`, implements `NestedTx` |
| `AtomicProofs` | the theorems about `Atomic` |
| `QueryCompiler` | query sets, their compilation for two dialects, and what the statements do |
| `QuerySignals` | `Create` and `Delete` of concurrent clients, with signal handlers and a pool |
| `QuerySignalsProofs` | the theorems about `QuerySignals` |
| `Relations` | foreign keys in memory and in the database |
| `RelationsProofs` | the theorems about `Relations` |
| `ModelRegistry`, `Urls` | from struct tags to a frozen registry; routes, reversal, matching |
| `Application` | `djangogo.New`, step by step, several times in a process |
| `ApplicationProofs` | the theorems about `Application`, `ModelRegistry` and `Urls` |
| `Schema`, `Database` | project states, operations, SQL and the autodetector; tables and statements |
| `MigrationTx`, `MigrationFile` | the transaction of one migration; the file a migration is written to |
| `Autodetect` | edit models, `makemigrations`, `migrate` |
| `MigrationLog` | what `migrations.Apply` promises: a migration and its record take effect in one step |
| `MigrationRunner` | `migrations.Apply` call by call, implements `MigrationLog` |
| `MigrationRunnerProofs` | the operations, what they do to project states and their SQL to tables; the theorems about `MigrationRunner` |
| `LeftFold`, `Increasing` | a loop over a sequence, as a function of the position; the members of a set of numbers in order |
| `LeftFoldProofs` | what holds of every such loop and order |
| `Accounts` | users and grants, `CreateUser`, `createsuperuser`, `HasPerm` query by query |
| `WebStack` | sessions, CSRF and auth around the views of an application |
| `WebStackProofs` | the theorems about `WebStack` and `Accounts` |
| `FormFields` | the operators of package `forms` |
| `ModelForm` | an object edited through a form over several submissions |
| `AdminSite` | the admin's write views, statement by statement |
| `AdminSiteProofs` | the theorems about `AdminSite`, over the operators of `FormFields` |
| `MC...` | values of the constants for TLC |

EXTENDS: `Schema` <- `Database` <- `MigrationTx` <- `Autodetect` (with
`MigrationFile`), `MigrationLog`, `MigrationRunner`; `Accounts` <- `WebStack`;
`FormFields` <- `ModelForm`, `AdminSite`; `ModelRegistry`, `Urls` <-
`Application`. `Schema` instantiates `LeftFold` with the bodies of its loops
(`Operations`, `Migrations`; `MigrationTx` adds `Exec` and `Loop`), as
`ModelRegistry` does for the tags of a field (`Tags`) and `Application` for the
models of the apps (`Admits`); `Schema`, `ModelRegistry` and `FormFields` extend
`Increasing`. Each module of proofs extends the module it is about. `Atomic`
instantiates `NestedTx` and `MigrationRunner`
instantiates `MigrationLog`, each with a refinement mapping.

A definition introduced by "A fault:" is a variant of the one that follows it,
and no specification uses it. Several modules have a variable that Init chooses
and no step changes (`setting`, `program`, `schema`, `plan`, `project`,
`dialect`): the scenario, so that one run covers several of them.

### Atomic

`frames` is the stack of running `Atomic` calls: the depth and the cancellation
of the context each was called with, how far it is (`body`, `closing` after fn
returned nil, `unwinding` in the deferred function) and what fn returned. `tx`,
`work`, `sps` and `aborted` are the connection: whether the `*sql.Tx` is open or
lost, the rows it sees, its savepoints, and PostgreSQL's "current transaction is
aborted". `db` is what is committed.

| action | code |
| --- | --- |
| `AtomicBegin`, `AtomicSavepoint`, `AtomicRefused` | `Atomic` picking a path, `BEGIN` or `SAVEPOINT sp_<depth>`, or its error |
| `FnReturns` | fn returns nil or an error, or panics |
| `Release`, `ReleaseFails` | `RELEASE SAVEPOINT` and its error |
| `RollbackTo` | the deferred `ROLLBACK TO SAVEPOINT`, with its error dropped |
| `Commit`, `CommitAckLost`, `CommitFails`, `Rollback` | the end of the outermost call |
| `Statement`, `StatementFails` | a query of the user through `conn(ctx)` |
| `TxLost`, `Cancel` | `database/sql`: connection lost, a context done |

Names of savepoints matter: `ROLLBACK TO` leaves the savepoint set, so those of
failed blocks pile up and later blocks use their names again. A name stands for
the newest savepoint that has it, on both databases.

`entry` in a frame is a history variable: the rows the block found. It is what
the block's failure has to bring back, and what the refinement mapping hands to
`NestedTx`.

Two constants describe the user's code. With `NestedDeadlines` a nested block may
be called with a context that expires on its own; with `CapturedContexts` it may
be called with the context of an outer block. Both are legal Go and break the
promise (see the findings and the divergences); `OwnContexts` excludes both, and
everything else is checked and proved under it.

### QueryCompiler

`q` is the query set a program holds: conditions, order, limit, offset, and the
error a chain method recorded. `table` is the database, `res` what the last
operation returned.

| action | code |
| --- | --- |
| `Filter Exclude OrderBy Limit Offset NewQuery` | the chain methods, each on a clone |
| `All Get Count Exists` | compile a read, run it, scan the rows |
| `Update` | `auto_now`, `compileUpdate` with one numbering for SET and WHERE |
| `Create` | `applyDefaults`, INSERT, the id the database hands out |
| `Delete` | `deleteRows`, or with handlers `deleteWithSignals` |

A compiled statement keeps its placeholders in the order of the text beside its
arguments. SQLite takes the arguments by position, PostgreSQL by number, and
only a statement in which both agree passes both dialects. The database
evaluates predicates in three-valued logic and LIKE with an escape; the
properties say what a query set means in two-valued terms, without statements.

### QuerySignals

Clients call `Create` and `Delete`, some inside `Atomic`, over a pool of
connections. A step is one statement, one look at the table of handlers, or one
handler. `handlers` and `nextID` are the signal table; a call's `todo` is the
snapshot that `fire` iterates over without the lock.

| action | code |
| --- | --- |
| `Register`, `Cancel` | `onSignal` and the function it returns |
| `Begin`, `Finish` | `Atomic` around the call, or the call's return |
| `Snapshot`, `RunHandler`, `Fired` | `fire` for one object |
| `Insert`, `Has`, `HasPost`, `All`, `Delete` | `Create`; `hasDeleteHandlers`, `deleteWithSignals`, `deleteRows` |
| `QueryFails`, `InsertLost`, `DeleteLost` | a statement that fails; one outside a transaction that took effect all the same |

`Finish` commits, fails to commit, or commits and loses the answer. A call whose
caller cannot know what happened has the outcome `unknown`: its error is that of
COMMIT, or of a write outside a transaction.

### Relations

A book with two foreign keys to authors, in the database (`books`, `authors`) and
in a program's memory (`held`, with the key, the object and the loaded flag of
each `FK[T]`). The schema says whether the database enforces references (it does
on PostgreSQL and not on SQLite, `README.md:137`), the `on_delete` tag, and
whether an author has a foreign key of its own.

| action | code |
| --- | --- |
| `ReadBook` | `Get`, with `SelectRelated` of none, one or both keys |
| `AssignKey`, `AssignObject`, `FetchField` | `SetPK`, `SetObject`, `Fetch` |
| `SaveBook` | `Update` with the values of both keys |
| `Rename`, `MoveBook`, `DeleteAuthor` | the rest of the site, with the database's `ON DELETE` |

`All`, `RelatedObjects` and `Prefetch` are operators, evaluated in every state
against each other.

### ModelRegistry, Urls, Application

`Parse`, `Register`, `Resolve` and `Freeze` translate the registry tag by tag,
check by check; `WellDeclared` says of the same declarations as a whole when they
are valid. `Include`, `RouterOutcome` and `ReverseURL` work on paths as
sequences of segments; what `net/http.ServeMux` takes and when it panics (for a
path that goes on after `{$}` or `{p...}`, which `Include` can make, and for
patterns that conflict) is external.

`Application` runs a plan, which is a sequence of calls of `New`, with `active`
(the settings in `conf`) and `resolver` (that of `{% url %}`) as state of the
process.

| action | code |
| --- | --- |
| `Configure`, `Check` | `conf.Configure`, `Settings.Check`: the settings are active before they are checked |
| `RegisterApps`, `Ready` | `apps.Registry`, one hook at a time |
| `Models` | `Register` of every model, `Resolve`, `Freeze`, `migrationsApp` |
| `Open`, `Handler` | the database, the admin, the router, `SetURLResolver` |
| `NextCall` | the process calls `New` again, unless it panicked |
| `Render` | a page with `{% url %}` of any application built so far |

### Schema, Database, Autodetect, MigrationFile

A field state is `[name, column, type, null, ref]`: `type` stands for Kind,
PrimaryKey, Unique and MaxLength together, which the code only compares, and
`ref` for the four relation fields. Statements are records; `Run` gives their
effect on tables with rows and `CanRun` says when a database rejects them, for
instance when PostgreSQL is asked to drop a table that a foreign key refers to.

`EditModels` changes the models of the program, `MakeMigrations` appends the
result of `Diff` to the migrations as it comes back from the file it was written
to, `Migrate` applies what is pending up to the first migration that fails,
`Insert` is the application storing a row.

`MigrationFile` says what of a field state the generated Go literal names
(`WrittenKeys`) and what the compiler makes of it (`CompileField`), for each of
the operations.

### MigrationRunner

`proc[p]` holds the local variables of `Apply` in process `p`; `tx` is the open
transaction of the one process that writes; `tables` and `recorded` are what is
committed, `recorded` in the order of the tracking rows. `deployed` grows as the
program is released with new migrations of one app or another, so a pending
migration may lie before applied ones in the order of the registry.

| action | code |
| --- | --- |
| `Start`, `EnsureTable`, `AppliedSet`, `Finish` | a run of the command, up to its loop, and its end |
| `Skip`, `BeginTx` | one turn of the loop: an applied migration, a pending one |
| `ExecStatement`, `StatementFails` | one statement of an operation, and `op.Apply` after the last |
| `RecordApplied`, `Commit` | the tracking row and `COMMIT` |
| `Interrupt` | the process dies, or a call returns an error and `Apply` rolls back |
| `Deploy`, `Insert` | a release; the application |

The writer's lock is taken by the first statement of a transaction, not by
`BEGIN` (SQLite's deferred transactions), and a statement that finds it taken
fails, as the DSN sets no busy timeout.

### Accounts, WebStack

`rows` is the session table, `jar` and `page` what the browser keeps, `req[r]`
the request in each slot: its session object, the user, whether the header is
written. Keys and tokens are numbers nobody had before.

| action | code |
| --- | --- |
| `Send`, `Respond` | the browser |
| `Decode` | `Store.Decode`, `csrf.Middleware` (seed, origin, token) |
| `LoadUser` | `auth.Middleware`, `UserFromSession` |
| `Page SetValue SetLate Login Logout Admin Guarded GuardAnswers` | views, `auth.Login`, `auth.Logout`, `staffRequired`, `PermissionRequired` |
| `Save`, `Write`, `KeepLate` | `sessionWriter.save` at the first write, `DBStore.Encode` in its two queries |
| `EncodeFails`, `Lose`, `Purge` | a failed query, a lost answer or a panic, rows deleted by the site |
| `CreateUser CreateSuperuser InsertUser` | `auth/create.go` with the command around it |
| `CheckDirect CheckGroups CheckGrant` | the queries of `HasPerm` |
| `Regrant`, `SetActive` | the site changes grants and accounts meanwhile |

### FormFields, ModelForm, AdminSite

`FormFields` has one operator per function of `forms/`: `FromModel`, `FromStruct`,
`Render`, `CleanedAll`, `PopulateStruct`. Texts are strings, and which of them
parse as what is a constant; so are what a time looks like in RFC 3339
(`Formatted`, without its fraction) and what a number becomes in a narrower
integer type (`Narrowed`, for `SetInt` and `SetUint`). `ModelForm` puts them into a
view: `Open`, `Edit` (the user), `Post`, `AddError`, `IsValid`, `Reply`, `Save`,
with `DeleteRow` of a related row between any two of them. `Open` and `Post` load
the options of the foreign keys, and any of these loads may fail, which leaves the
select empty (`populateChoices`).

`AdminSite` runs the add, change and delete views of several members of the staff:
`Get`, `Choices`, `Write` and `Delete` are the statements of a request, in that
order, and other requests and the site (`SiteUpdates`, `SiteDeletesOwner`) come
between them. `Choices` may fail for any of the foreign keys. `InsertRow` is
`Create` with `applyDefaults` and the stamps of `auto_now` and `auto_now_add`. The
site's own updates are of columns that are not on the form, as when it counts
views (`Counted`); it deletes a related row that is referred to unless the
database enforces the reference (`Enforced`). Of the answers without a page, a
404, a 500 and a redirect are one (`NoPage`). That a statement of `ops` fails
where the row and the constraints would have let it pass is left out: the request
then ends there with a 500 and has changed nothing.

## Runs

| run, cfg | asks | result |
| --- | --- | --- |
| `atomic`, `MCAtomic` | is a failed block undone, and only it; does anything leak; does `Atomic` implement `NestedTx` | holds |
| `atomic_deadline`, `MCAtomicDeadline` | the same with a deadline on a nested block | violated |
| `query_compiler`, `MCQueryCompiler` | do reads answer about the rows that match, do writes change those and no others, are wrong chains reported, and what else makes a read fail, on both dialects | holds |
| `query_signals`, `MCQuerySignals` | is what a call answers true of the table, also when answers of the database are lost; do handlers run once per object and in order; does every call return | holds |
| `relations`, `MCRelations` | is a loaded object that of its key; do joins and prefetching answer what fetching would, while `on_delete` removes and clears what refers to a deleted row | holds |
| `application`, `MCApplication` | does `New` return an application exactly for what is valid; is its registry consistent; do hooks and links belong to the right application; does what `Reverse` makes reach its route | holds |
| `autodetect`, `MCAutodetect` | do models, migrations and tables agree, on SQLite and PostgreSQL; are rows kept; are renames warned of | holds |
| `migration_runner`, `MCMigrationRunner` | crashes anywhere, releases in between, two processes: do schema and records agree, is nothing applied twice while runs do not overlap, is everything applied in the end | holds |
| `migrate_twice`, `MCMigrateTwice` | is nothing applied twice while runs do overlap | violated |
| `web_stack`, `MCWebStack` | is a session left as it was meant and never mixed; does the newest form post; who gets into the admin; do permission answers follow from grants; has a name one account | holds |
| `model_form`, `MCModelForm` | does a save write what was entered and only what is permitted; what does it make of the fields nobody touched; does a second save change anything | holds |
| `admin_site`, `MCAdminSite` | do rows hold whole submissions; do deleted rows stay deleted; does a write point at rows there were | holds |

Each module states its types as `TypeOK`. A run lists it where no other property
would notice a wrong type: in `MigrationRunner`, and within `IInv` in `Atomic`.
Elsewhere the properties are about what the types keep apart; adding `TypeOK` to
the INVARIANTS of any of the configurations checks it there too.

### Bounds

* `MCAtomic`: two rows, three nested calls (`MaxFrames`), three savepoints
  (`MaxSavepoints`). Two savepoints of one name below a running block need two
  calls and two savepoints; three of each leave room for a block between them.
  Savepoints beyond that only repeat names.
* `MCQueryCompiler`: three rows with a NULL, wildcards and ties, a fourth that
  may be created (`MaxRows`). A program has two conditions and one operation, or
  one condition and two operations with the wrong chains among them (`Programs`):
  two conditions suffice for a placeholder of one to take another's value, and a
  list, a pattern, a NULL or an empty list takes any number of them.
* `MCQuerySignals`: a pool of one connection (`PoolSize`), with two clients and
  one handler or one client and two handlers (`Settings`): two clients meet each
  other's deletes and locks, two handlers have an order. Each client calls once.
* `MCRelations`: two authors, two books, two changes of rows (`Changes`): one to
  make a loaded object stale, one to remove its row. What the program does to the
  book in memory is not bounded.
* `MCApplication`: every declaration of a field with at most two tags, each list
  of at most two apps (three, with the app of the authors first), and two calls
  of `New` (`Plans`). Two tags reach every pair of which the second undoes or
  contradicts the first; requests are the paths of up to four segments (and the
  five of a change page) over the segments in use (`Requests`).
* `MCAutodetect`: two models, fields X and Y (and Z, W for renames in numbers) of
  two types, nullable or not, under two columns, with and without a foreign key;
  two migrations (`MaxMigrations`); one row. Two migrations reach every pair of
  consecutive project states, since the models may start anywhere. One row shows
  whether rows survive, as no statement treats two rows differently.
* `MCMigrationRunner` (`Projects`): five migrations of two apps with all five
  operations, one process and two interruptions, or two processes, two
  migrations and one interruption. One interruption can hit any call, the second
  the run that repairs the first. Nothing bounds the number of runs. The
  migrations of the two processes create a table and add a column, which the
  database refuses the second time, so that `SchemaMatchesRecords` and `Converges`
  are asked of them. `MCMigrateTwice` gives them one that the database takes, a
  rebuild (`MCOverlapping`).
* `MCWebStack` (`Settings`): six requests one after the other with one failure;
  four requests, two at a time; three, two at a time, with one failure or purge of
  rows, after which two requests insert the row of one key; three with a guarded
  page and two changes of the grants (`MaxChanges`); two callers that create
  accounts. Six requests are
  enough to see a form, log in, keep a value, log out and log in again.
* `MCModelForm`: six models of three or four fields, five sets of options, a
  password input among them, two submissions (`MaxPosts`), so that one can be sent
  back and repeated. The stored objects include what no form shows as it is: a
  time with a fraction, a text with blanks at its ends, a text that is none of the
  choices, a related row that is not there. Entered are blanks, a text that is too
  long, a number with a leading zero and, for a `uint8`, 300. A client may add
  names to what the page submits (`Extra`).
* `MCAdminSite`: two members of the staff with two requests each (`MaxRequests`),
  so that each can open a page and submit it while the other does, and one change
  by the site (`MaxTouches`). The model has a nullable unique text with a default,
  a read-only count, a foreign key, an `auto_now_add` and an `auto_now` time; the
  database is SQLite, which enforces no references, so that they dangle. Staff are
  alike (`SYMMETRY`), which is sound since no liveness is asked. Two texts
  (`Typed`), one of which is the zero that takes the default.

The deadlock check is off where a behaviour ends when its bound is used up.
`Atomic` and `MigrationRunner` never stop, and there it is on: no interruption,
lock or failure leaves everyone waiting. In `QuerySignals` a deadlock over the
pool would violate `EveryCallReturns`.

### Fairness

Two properties need it.

`EveryCallReturns` assumes weak fairness of the steps of each client once its
call has begun: the scheduler runs every goroutine, and a `database/sql` call
that waits for a connection gets one when one stays free. Nothing makes a client
begin a call, or a handler be registered or cancelled.

`Converges` assumes that each process keeps taking the steps of its run and that
`migrate` is run again after it ended: the code has no lock or wait of its own
that could hold a run up, and running the command until it succeeds is what its
user does. Interruptions are bounded, not excluded. A process can take a step in
every state (the deadlock check shows it), so weak fairness is written without an
ENABLED.

## Findings

1. `orm/transaction.go:107`, run `atomic_deadline`: the rollback of a nested
   block is sent with the nested context and its error is dropped. When that
   context has expired, the failed block stays and the outer block commits it.
2. `migrations/runner.go:17`, run `migrate_twice`: the applied set is read once,
   before the transactions, and the tracking table has no unique constraint. Of
   two runs at once the second applies a migration again if the database takes it,
   as it takes the rebuild of a table, although `Apply` is to run what "is not yet
   recorded as applied". With later migrations in between, the older rebuild drops
   their columns.

### Divergences met

Behaviour met while modelling that a reader of the code should know of. The
models contain it where a definition is named, and the properties are stated so
as to hold with it; the rest is outside the instances that are run, as said.

Transactions, queries and relations:

* A nested block called with the context of an outer block takes the name of a
  savepoint that is running (`orm/transaction.go:94`); `CapturedContexts` in
  `Atomic` shows it.
* `Delete` with handlers fetches and deletes in two statements. Outside a
  transaction, and on PostgreSQL inside one, rows that come between are deleted
  without a signal (`orm/execute.go:454`); `HandlersRun` asks it of
  transactions that nothing commits into. A limit bounds the rows that are
  fetched and signalled and not those that are deleted (`QueryCompiler!Delete`).
* No Go type that the registry accepts for a scalar holds NULL. A NULL in a
  nullable column, which `AddField` leaves in all existing rows, makes every `All`
  and `Get` that meets it fail (`orm/execute.go:32`), although
  `orm/execute.go:137` says "All runs the compiled SELECT and returns every
  matching row scanned into []T". `ErrorsReported` says when a read fails.
* After an error of COMMIT, or of an INSERT or DELETE outside a transaction, the
  rows may be there or gone; after an error of a `PostSave` handler outside a
  transaction the row is there (`orm/execute.go:299`). `CallOutcome` says what
  each error leaves.
* A declared default replaces a zero that was given explicitly on `Create`
  (`orm/execute.go:308`, listed in the repository's `README.md:171`).
* `Offset` without `Limit` is written `LIMIT -1 OFFSET n`, which PostgreSQL
  refuses (`orm/compiler.go:111`, `NegativeLimit`).
* `SelectRelated` fails when the target has a foreign key of its own that is not
  NULL (`orm/selectrelated.go:117`, `Assignable`), and reads a NULL of the target
  as a zero value where `Fetch` fails. `Fetch` looks for the column `id`
  (`orm/relations.go:193`) where the join uses the target's primary key.
* A foreign key named `ID` becomes the automatic primary key
  (`orm/registry.go:97`).

Migrations:

* `Diff` never compares `Table` (`migrations/autodetect.go:29`), so a changed
  table name is not migrated; the project states of `MCAutodetect` keep theirs.
* `AddField` comes before `RemoveField` (`migrations/autodetect.go:31`): a
  renamed field that keeps its column makes a migration that no database applies.
  `Autodetect` writes such migrations, and checks that they change nothing.
* `AddField` of a foreign key emits no constraint (`migrations/operations.go:108`).
* Two generated files of one app both declare `var migration` in one package
  (`migrations/writer.go:35`) and do not compile together until one is renamed.
* `migrationsApp` is the app's name while one app has models and `"app"` once two
  have (`application.go:204`): the history of the first is then under a name no
  migration of the new ones has.

Sessions, accounts, forms and the admin:

* Of two `CreateUser` calls for one new name, the one that loses the race returns
  the database's constraint error (`auth/create.go:43`), where
  `auth/create.go:14` says "ErrUserExists is returned by CreateUser when the
  username is already taken".
  `OneCreated` tells the two errors apart.
* Two requests of one session that overlap both save the whole data, and what the
  earlier one set is lost (`sessions/dbstore.go:52`); two first requests seed two
  CSRF tokens, and the page whose cookie the other answer replaced cannot be
  posted (`csrf/csrf.go:70`); what a view sets after its first write is not saved
  (`sessions/middleware.go:70`). The properties of `WebStack` allow all three.
* A request that loaded its session before a logout and saves after it brings
  the login back (`sessions/store.go:26`). `SequentialSession` is about requests
  that do not overlap; `NoMixture` and `StaffOnly` hold with it.
* Behind a proxy that ends TLS, the `Origin` of the site's own pages does not
  match the scheme that `csrf` derives (`csrf/csrf.go:106`).
* A nullable integer or time left empty makes `PopulateStruct` panic
  (`forms/modelform.go:267`, `SetScalar`). `Nullable` in `MCModelForm` brings it in.
* A form that is opened and submitted untouched does not give the object back:
  a time loses its fraction (`forms/modelform.go:194`), a text the blanks at its
  ends (`forms/field.go:83`), and a value that is none of the options is replaced
  by the first of them, as a select shows it (`forms/modelform.go:78`). A
  password input shows nothing and empties its field. `Rewritten`, `Unshown` and
  `Unseen` in `ModelForm` say so, and `SavesSettle` that the first save loses all
  that is lost.
* Options that fail to load are no options, so that a submission of the page
  clears a nullable foreign key (`admin/views.go:234`).
* A number is stored modulo the width of an integer field: 300 in a `uint8` is 44
  (`forms/modelform.go:268`, `Narrow`).
* A related row that is deleted after the options were loaded for a submission is
  referred to all the same where the database enforces no keys
  (`admin/views.go:296` to `311`); so is one that a column outside the form refers
  to, which each change writes back. `StoredPermitted` and `ReferencesOffered` are
  about the fields of the form and the rows gone before.
* Of two changes of one row the later replaces every column that the earlier one
  wrote (`admin/views.go:311`). `NoMixedSubmission` allows it.
* `IsValid` forgets a field error that `AddError` recorded before it
  (`forms/form.go:40`).
* The admin writes every column, so that a read-only field that the site changes
  between read and write is set back (`admin/ops.go:72`; `NoMixedSubmission` is
  about the form's fields), and passes `auto_now` fields as explicit values,
  which are then not stamped (`admin/ops.go:79`).

Applications:

* `New` that fails leaves its settings active, and its database open if it had
  been opened. A route for one method that crosses a route of the admin, which
  names none, makes `ServeMux` and so `New` panic. Two models with one table are
  not noticed.

What the repository's README lists under its known limitations is not repeated
here.

## Proofs

A theorem holds for every value of the constants that the module's assumptions
allow. Each one rests on an inductive invariant whose parts are named; a step of
each action keeps each part it can disturb.

### AtomicProofs

For every set `Row` and all bounds `MaxFrames` and `MaxSavepoints`, under
`OwnContexts` (neither `NestedDeadlines` nor `CapturedContexts`).

* `Invariance`: `IInv` is inductive. It has four parts. `TypeOK`. `FramesNested`:
  the i-th block's context has depth i - 1, all contexts are cancelled together,
  and all blocks but the innermost wait in fn. `ConnectionMatches`: without an
  open transaction the connection sees what is committed, and the outermost block
  found what is committed still. `SavepointsMatch`: each running nested block has
  its savepoint on the stack, with the rows it found, and every newer savepoint
  has a larger name.
* The last part is why the names work although stale savepoints remain: a block
  of depth d ends only as the innermost one, so `RELEASE` and `ROLLBACK TO` cut
  the stack at d and never below the savepoint of an outer block, whose name is
  smaller. It needs `FramesNested`, for names to be depths, and `FramesNested`
  needs `OwnContexts`.
* `TypeCorrect`, `SavepointsFoundAgain` and `NoLeak` follow from `IInv`;
  `FailureContained` is the action property, from `IInv` and the two actions that
  end a nested call with a failure.
* `Implementation`: `Atomic` implements `NestedTx` under the mapping `AbsCur`,
  `AbsSaved`, `AbsDoomed`. While the transaction can commit, the abstract blocks
  saved what the frames found; once it cannot, each is back at the committed rows.
  One lemma per action maps it to an abstract step or a stutter.

### QuerySignalsProofs

For any clients, handlers, settings and pool.

* `TypeCorrect`, from `TypeInv`, which says of each call what its variables are.
* `CallOutcomeHolds`: `TableInv` relates the table, the rows that the open
  transaction has changed and the changes that each call has made, so that what a
  call answers is what it did to the table: all of it, none of it, or, where the
  answer to COMMIT or to a write of its own was lost, one of the two.
* `HandlersRunHolds`: `RegistryOK` (the handlers are in the order of their
  registration, which the lists that a call took keep) and `RunInv` (what a call
  has run is a beginning of the list it took): a handler that was registered
  throughout has run once for each object, in order, when a call succeeds.

### WebStackProofs

For any users, slots, values and settings. `WebInv` is inductive; its parts:

* `AccountsOK`: a name is taken by one account, what `CreateUser` is about to
  insert is what it was asked for, a call that was refused by the constraint lost
  to one that created the account, and a check of a permission has read what
  grants it (`OneCreatedHolds`, `AnswersJustifiedHolds`).
* `StagesInv` and `MeantInv`: the stages of a request in order, and every key and
  token in use was handed out before, to the session that has it. From these
  `NoMixtureHolds`: no request ever sees entries of two logins; and
  `NewestPagePostsHolds`: the form on the newest page is accepted.
* `StaffInv`: what an admin page was shown to is a session whose user was an
  active member of the staff when the request loaded it (`StaffOnlyHolds`).
* `AloneInv` and `CalmInv`: while requests do not overlap, what the browser holds
  is what the last answer left (`SequentialSessionHolds`).

An action is proved by its kind: each is one of a few ways to change a request
(`StepAs`), and the parts are kept by each kind.

### RelationsProofs

For any authors, books and number of changes, every on_delete tag. `RelInv`:
types, `LoadedMatchesKey`, and what has happened since an object was loaded.
`JoinAgreesHolds` and `PrefetchAgreesHolds` say of every state that the join of
`SelectRelated` and the two queries of `Prefetch` give each book the author that
`Fetch` would give it.

### LeftFoldProofs

A loop over a list, for every list: `HeldSteps` (the function is there, and each
step is one of the body), `HeldUnique` (the only one), `FoldOneMore`; and that the
order of a finite set of numbers exists and is the only one (`InOrderLists`,
`InOrderUnique`). The prover has no induction over an operator: the proofs take
the least counterexample instead (`Smallest`, from the well-foundedness of <),
and the loop's body is a constant of the module, which the others instantiate.

### MigrationRunnerProofs

First what `Apply` and `SQL` of the operations have to do with each other, for every
migration and every project state: where the tables are those that a state
describes (`Agrees`), the statements of an operation that the database takes to
the end make of them those of the state after it. `OperationRuns` has a case per
operation, over what each statement does to the tables and what each operation
does to the fields. `Sound` is what it needs of the operation: `CreateModel` and
`AddField` add what is not there.

A run renders its statements against the state of the migrations *before* its
own in the order of the registry, but the database may hold more: an app released
late migrates after later ones. `ApplySame` and `RendersSame` say that an
operation reads and changes its own model alone, and `AttemptAgrees` that the
transaction then makes of the tables what its operations make of the state that
they do match.

Then the processes. For any migrations, processes and projects, with any number of interruptions.

* However runs overlap: `TypeCorrect`; `TransactionsIsolated` (`LockInv`: a
  transaction that has written holds the lock and commits the tracking rows as
  they are and its own); `AppliedAsAWhole` (`ProgressInv`, by `Carries`: a run
  holds the state of the migrations and operations it has done, and sees what
  their statements make of the tables that are committed).
* If no two runs overlap (`RunsApart`): `NeverReapplied`, the property
  `AppliedOnceApart`, from `LogInv` (`Tracks`:
  a run has read as applied what is recorded, but for what it recorded itself);
  `RunnerImplementsLog`, the refinement of `MigrationLog`, where `ReplayBefore`
  shows that the state a run holds is that of the recorded migrations before its
  own; `SchemaAsRecorded`, from `ClosedInv` (an app's migrations are recorded in
  order) and `SchemaInv` by `AttemptAgrees`.
* `RunsApart` cannot be dropped: `Apply` reads the applied set once, before its
  transactions, and the tracking table has no unique constraint. The run
  `migrate_twice` shows a migration that is applied twice.
* `SchemaAsRecorded` uses two assumptions on the migrations. `SoundAssumption`:
  a migration fits the state of its app's earlier ones, which is what
  `makemigrations` diffs against. `AppsAssumption`: migrations of two apps are
  about different models; `makemigrations` puts all models into one app.

### ApplicationProofs

For any plan of calls of `New` in a process, with any number of apps, models,
fields and tags, under two assumptions. `PlansAssumption` says what Go's types and
`toSnakeCase` see to (`CallOfNew`, `Config`, `GoStruct`, `Declaration`): the fields
of a struct have names of their own, only a foreign key refers to a type, and no
column is empty by default. `AdminRoutesAssumption`: the admin's routes are routes.

* The tags of a field are read one after the other, and what one does depends on
  those before it (`type=text` makes a second `type` an error). `ParseReads`: what
  comes out is what the declaration says of its tags as a set (`WellTagged`,
  `DeclaredColumn`). `HoldsAtFirst` to `TagsAsSet` find the tag that the reading
  stops at; each of the three kinds of field has a lemma of its own.
* `RegisterIs`, `AcceptedWhen`, `EntryConsistent`: `Register` takes a struct
  exactly if it is `WellDeclared`, its name is new and the registry is open; the
  model it makes is then consistent. `RegistersAll` and `ResolvedIs` say the same
  of all models at once, with the relations closed (`FrozenIs`).
* `HookedIs`, `Flattened`, `RouterIs`, `SiteIs` and `OutcomeIs` are what the other
  steps of `New` find in the apps.
* `PartsAre` and `FlattenedInPlace`: only the last part of a URL can have more than
  one segment, so each segment of the path keeps its place, and `UrlMatches` follows.
  It needs that no path goes on after its end, for which `ServeMux` panics.
  `LeastServes`: no two routes of an application conflict, so those that take a
  request are nested and one of them is the most specific.
* `Inv` is inductive. `Shape`: the variables' kinds. `Calls`: a call that has ended
  gave what its arguments deserve. `Running`: what each point of `New` has found
  valid so far and has built; without it `Calls` is not inductive. `Active`: from
  `Configure` on, the settings of the process are those of the call that runs, also
  when a call before it failed, which is what hooks see. `Resolves`: the resolver
  is that of the last application with routes; `Paged`.
* `TypeCorrect`, `FrozenIsConsistent`, `ReturnsExactlyIfValid` and `HooksRunInOrder`
  follow from `Inv`, `ReversedIsServed` from `Inv` and `Reversed`; `LinksAreOwn` is the action property, from `Resolves` and the
  one action that makes a page.

### AdminSiteProofs

For any model, options, members of the staff, rows and related rows, with any
number of requests and, between their statements, of updates and deletes by the
site. The assumptions are what the registry and the database see to.
`ModelAssumption`: the fields of a model have distinct names, its key is automatic
and comes first, only times are stamped, and defaults are values of their fields'
types, of fields that are neither keys nor times. `RowsAssumption`: the rows at the
start are structs of the model under keys of the database, and the related rows'
ids are numbers but 0, written as Go writes them; their own foreign keys may
dangle. `CountedAssumption`: the site's updates are of other columns than the
form's. `NarrowedAssumption`: an integer type is not called like another type.

* `FormFieldsAre`, `FormMade`: what `FromModel` puts on the form are fields of the
  model that have a form field, never the key or a stamped time, and
  `populateChoices` makes the related rows the choices of a foreign key. So a clean
  foreign key is a related row or none (`CleanedAre`, `AssignedChosen`).
* `Populated`: when `PopulateStruct` succeeds, it has set the fields of the form,
  each to a value of its Go type, and no other; it stops at the first field that
  fails, so that success needs the least one that does.
* `Inv` is inductive. `Stored`: rows are structs of the model under their own keys,
  `DOMAIN table` within the keys assigned. `Requests`: a request takes the steps of
  its view. `OneSubmission`: what a request holds comes from one valid submission,
  as cleaned values before it reads the row (`Becomes`), as a struct after, and a
  row is one too. For an added row that is the submission with the defaults for
  its zero values, which `Create` fills in just before the INSERT (`DefaultedIs`,
  `CreatedIs`). `References`: the foreign keys that a request has cleaned were not
  gone when it began (`Refers`), since they are options or none, also when no
  options could be loaded. It says nothing of rows: these may dangle.
* `TypeCorrect` and `SubmissionsWhole` follow from `Inv`. `DeletedStaysDeleted` and
  `ReferencesAreOffered` are the action properties, from `Inv` and what a write does
  (`WriteDoes`): the key of an added row was never assigned (`NewKeyIs`), and an
  update touches the row only if it is there.

### Only model-checked

* Liveness under fairness (`Converges`, `EveryCallReturns`): out of the prover's
  reach.
* `Autodetect`: its module declares a recursive operator, with which the prover
  loses its arithmetic.
* `QueryCompiler`: what a query set's conditions compile to is a fold over them
  in a domain of its own; TLC checks every program of the bounds.
* `ModelForm`: what a save makes of what was typed and shown relates the text of a
  page to the values parsed from it, over all the layouts that are constants there.
  `AdminSiteProofs` has the half of it that the admin's writes need.

## Not modelled

* Password hashing, HTML, templates, scaffolding, the dispatch of commands by
  name and their help, `net/http` and `database/sql` themselves: libraries,
  computation or pure input and output. `ServeMux`'s matching and the databases'
  treatment of statements are modelled as far as the code relies on them.
* Types and values of fields beyond equality in the migrations; the text of SQL;
  the layout of the Go source that `migrations/writer.go` writes.
* `Migration.Dependencies`: no code reads it after it is written.
* A program that keeps running after `migrations.Apply` has failed to commit:
  `database/sql` would put the connection back into the pool.
* PostgreSQL's finer locks in `MigrationRunner`: there the one writer's lock
  stands for the locks on the tables of a migration.
* Isolation other than READ COMMITTED in `QuerySignals`; joins in
  `QueryCompiler`, which `Relations` has instead.
* The admin's index and changelist and the generic views, which only read.
* `Session.Delete` and `Pop`, which change an entry as `Set` does; `Store.Delete`,
  which nothing calls; `EmailField`, which no model field maps to; escaping, which
  neither `Reverse` nor the router does.
* `cmd/` and `examples/`: demonstration programs. The order of the middleware in
  `WebStack` is that of `examples/blog`.

## Plan

The model covers the components the code has a logic of its own in. What is left
is to prove more of it, in this order:

1. `ModelForm`: its action properties, over the operators of `FormFields`.
2. `Autodetect`: `DatabaseMatchesHistory`, once `MigrateFrom` is a fold from the
   left as the project's is, and its module declares no recursive operator.
3. `QueryCompiler`: `ReadsAnswer`, along the chain of a query set's conditions.
