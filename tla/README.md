# A TLA+ development of sqlrs

sqlrs prepares PostgreSQL databases from psql scripts or Liquibase changesets
and caches every intermediate state as a file-system snapshot.  This directory
models its local engine, its command line client and its runtime contract
library where goroutines, processes, files, SQLite rows, containers and
documents meet, checks the models with TLC and proves the central safety
properties with TLAPS.

Source paths below are relative to `src/backend/local-engine-go/internal/`
unless they begin with `cli/` (`src/frontend/cli-go/internal/`), `runtime-go/`
(`src/backend/libs/runtime-go/`) or `docs/`.

## 1. Inventory

| Part | State it keeps | Operations | Talks to |
| --- | --- | --- | --- |
| Prepare service and job coordinator (`prepare/manager.go`) | registered runners, heartbeat states, event bus (memory); jobs, tasks, events (SQLite) | Submit, runJob, Cancel, Delete, retention, Recover | queue, executor, HTTP API |
| Task executor (`prepare/execution.go`, `managed_execution.go`) | the runtime of a job; lock and marker files, state and base directories | executeStateTask, ensureRuntime, ensureBaseState, createInstance, cleanupRuntime | store, StateFS, Docker, instance access |
| Instance access (`instanceaccess/`) | access rows with stages, runtime journal, seals, secret files; fences in memory | Assign, Attach, RecordSeal, BaseOperation, Bootstrap, Activate, Use, RetireBound, ResumePublication | PostgreSQL through callbacks |
| Queue (`prepare/queue`) | job, task and event rows | single SQL statements | SQLite |
| Eviction (`prepare/capacity.go`) | eviction lock file | measure, choose, remove files, delete row | StateFS, store |
| Deletion (`deletion/manager.go`) | none | delete an instance, delete a tree of states | store, instance access, Docker |
| Snapshots and DBMS hooks (`statefs`, `snapshot`, `dbms`) | directories, subvolumes, mounts | clone, snapshot, remove; stop and start the server | file system, container |
| Container runtime (`runtime/`) | map of managed containers | Start, StartManaged, Stop, StopManaged, InitBase | Docker |
| psql and Liquibase planning (`prepare/psql*.go`, `liquibase*.go`, `cli/inputset`) | none | check arguments, follow includes, hash, mount, split into steps | psql, Liquibase |
| Runtime v2 store (`runtimev2store`, `store/sqlite/runtime_v2_*`) | states, provenance, materializations | put, trace, page | SQLite |
| Configuration (`config`) | overrides in memory and in one file | Set, Remove, load | file system |
| Event stream (`httpapi`) and watch client (`cli/cli/commands_prepare.go`) | index of the next event; interrupts, prompt | stream, reconnect, stop, detach | event bus, queue |
| Engine process (`cmd/sqlrs-engine/main.go`) and daemon orchestrator (`cli/daemon`) | `engine.json`, start lock, store lock | run, shut down; ConnectOrStart | each other |
| Authentication sessions (`cli/authsession`) | credential store, profile | login, refresh, logout, migrate | identity provider |
| Remote sources (`cli/remotesource`) | manifest, uploaded digests | rounds of missing inputs | remote engine |
| Commands (`cli/app`, `cli/refctx`) | worktree, staged files, job, instance | prepare, plan, cache explain, run | git, engine |
| Aliases and discovery (`cli/alias`, `cli/discover`) | alias files, `.gitignore`, editor settings | create, ls, check, run; discover | workspace |
| Store set-up (`cli/app/init*.go`) | image, device or VHDX, mount, unit, configuration | init, `--reinit` | host tools |
| Contract library (`runtime-go/`) | resolver cache and artifact store; otherwise none | compose, encode, fingerprint, validate, resolve | file system |

What is hard:

* **Concurrency.** Several jobs need the same state or base; requests (cancel,
  delete, run) arrive at any point of a runner; fences are created and forgotten
  while they are used; several CLIs start engines, refresh sessions and create
  aliases; heartbeats, the runner and the stream share one event log.
* **Failure.** Every step of a build, an activation, a deletion, an eviction or a
  set-up may fail by itself, and cleanup may fail too.
* **Restart.** Files, rows, containers and lock files stay, runners do not; another
  snapshot back end may be chosen the next time.
* **Stale data.** Scripts change between planning and execution; a runtime, a
  marker, a cached digest or a measured size may stand for something else by the
  time it is used.
* **Two sides of one interpretation.** CLI and engine, hash and execution, creation
  and use of an alias, writer and reader of an identity each interpret the same
  document, and must agree.

What makes each part correct: a fence is exclusive and nobody is stuck in it; a
state is published once, by the job that sealed it, and is whole; a base is
initialised once and fits its stored password; secret, intent, role, row and data
of an instance appear and disappear in a fixed order; a job ends, in order, and
its states hold what their names say; a watcher learns the outcome; eviction and
deletion remove what they may and nothing else; what is hashed is what is
executed; every command gives back what it took.  `PROJECT.json` lists the hazards
line by line with the properties that would catch them.

## 2. Modules

| Module | Models | Run |
| --- | --- | --- |
| `FenceLock` | abstract: one exclusive lock per instance | `fence` |
| `InstanceFence`, proofs in `InstanceFenceProofs` | `lockInstance` of `fence.go` | `fence` |
| `SealedState` | abstract: a state is sealed, published by its sealer, withdrawn | `build_copy` |
| `StateBuild`, proofs in `StateBuildProofs` | `executeStateTask`, lock and marker files, journal, seals, removers | `build_*` |
| `InstanceLifecycle`, proofs in `InstanceLifecycleProofs` | activation, use, deletion and cleanup of a job's instance | `lifecycle*` |
| `PrepareJobs`, proofs in `PrepareJobsProofs` | one job: runner, requests, retention, recovery, edited scripts | `jobs_*` |
| `JobEvents`, proofs in `EngineProofs` | event log, heartbeats, event bus, stream, watch client | `events` |
| `Eviction`, proofs in `LiveProofs` | `ensureCacheCapacity`, thresholds, victims, the eviction lock | `live` |
| `ManagedBase`, proofs in `LiveProofs` | managed base: operation, bootstrap secret, initdb, BaseReady | `live` |
| `BaseDir`, proofs in `LiveProofs` | unmanaged base: `withInitLock`, `InitBase`, marker | `live` |
| `DeleteTree`, proofs in `LiveProofs` | deletion of states with their descendants | `live` |
| `EngineStart`, proofs in `LiveProofs` | engine processes and `ConnectOrStart` of CLIs | `live` |
| `WatchControl`, proofs in `LiveProofs` | the CLI attached to a job, interrupts and the prompt | `live` |
| `RemoteSource`, proofs in `LiveProofs` | upload rounds of a remote prepare | `live` |
| `StateFiles`, proofs in `StoresProofs` | directories of a state on copy, overlay and btrfs | `stores` |
| `Containers`, proofs in `StoresProofs` | starting and stopping containers | `stores` |
| `LineageStore`, proofs in `StoresProofs` | the runtime v2 store | `stores` |
| `Resolver`, proofs in `StoresProofs` | resolver cache and artifact store | `stores` |
| `AuthSession`, proofs in `StoresProofs` | sessions of the CLI | `stores` |
| `LinuxStore`, `WslStore`, proofs in `StoresProofs` | set-up of the local store | `stores` |
| `AliasFiles`, `AliasCases`, proofs in `CommandProofs` | alias files; the workspace and requests TLC tries | `stores` |
| `CliStages`, proofs in `CommandProofs` | one command from dispatch to its clean-ups | `stores` |
| `PsqlInputs`, `LiquibaseInputs`, `InputCases` | requests on both sides; the requests TLC tries | `inputs` |
| `Discovery`, `DiscoveryCases` | `sqlrs discover` and what its suggestions do; workspaces | `inputs` |
| `ConfigStore`, proofs in `EngineProofs` | settings in memory and on disk | `inputs` |
| `IdentityEnvelope`, proofs in `EngineProofs` | the contract library: builders, identities and envelopes | `inputs` |
| `Composition`, `CanonicalValues`, `ExecutionEnv`, `ContractCases` | the rest of the contract library; documents TLC tries | `inputs` |
| `MCLive`, `MCStores`, `MCInputs` | instances for the last three runs | |

The modules meet at their edges.  `InstanceLifecycle` uses the fence as the
exclusive lock `InstanceFence` is shown to be.  A build is one step of
`PrepareJobs`; what happens inside it is `StateBuild`, what happens to the files
`StateFiles`, and the base it starts from `ManagedBase` or `BaseDir`.
Publication is one step of `PrepareJobs`; inside it is `InstanceLifecycle`.
`JobEvents` takes from the runner only the order of its writes, `WatchControl`
from the engine only the events of a job.  `Discovery` extends `AliasFiles`: the
aliases it suggests are created and resolved by the operators of that module.

`MCLive`, `MCStores` and `MCInputs` put components that share no state into one
run each.  The variable `part` names the component whose behaviour it is; the
others stay in one initial state, so the states of the run are the sum of the
components' states, not their product, and nothing is abstracted.  Each property
of such a run is a CASE on `part` over properties of the components.

### InstanceFence

`fences` is the map under `fencesMu`; an object has `users` and a `gate` (the
channel of capacity one).  `Register` is the first critical section,
`Acquire`/`GiveUp` the two arms of the select, `Unlock` the receive from the
gate, `ReleaseReference` the second critical section.  A caller may be cancelled
at any time, also between a ready gate and the check after it.  Objects are
identities that the garbage collector may hand out again once nobody can reach
them, so that a confusion of two generations of a fence would show.

### StateBuild

One target state, any number of jobs (`Builders`), removers and restarts.
`pc[b]` walks through `executeStateTask`; the lock file, the marker, the
directory and whose files are in it are separate variables because no two of
them change together in the code.  `Kind` selects the back end: copy keeps lock
and marker inside the state directory, so removing the directory removes them,
and a snapshot of a runtime cloned from a published state (`Inheritors`) carries
that state's marker along; btrfs keeps them beside it and takes snapshots in one
operation.  `Warm` are jobs whose step before left them a runtime
(`ensureRuntime`).  `op` is the journal of `operations.go` ("cloned" is stage
`assigned` with the clone on disk), `seal` the row of `managed_state_seals`.
`Abort` is any error return inside the lock.

### InstanceLifecycle

One job whose state is ready, with the runtime of the build (`Built`) or none,
in which case `createInstance` starts one (`Started`).  Durable variables are
rows, secrets, containers and clones; the fence, the runner, a user and a
deletion live in memory and vanish in `Crash`.  The steps of `Activate` (load,
reserve the secret, intent, applying, ALTER ROLE, verified, publish) and of
`RetireBound` (retiring, stop, erase, forget, retired) are separate, and each may
fail or be the last one before a restart.  Removing the data may rename the
directory to a stale name and leave it there (`removeRuntimeDir` counts that as
success): `aside` is such data, which nobody refers to any more.  `ForgetJob` is
retention or deletion of the finished job, which removes the job's directory.

### PrepareJobs

A state is named by the versions of the scripts applied to the base, which is
what the chain of hashes distinguishes; `data` is what is really in it.  `tasks`
are the stored rows, `plan` the runner's copy.  The writing of a task list is one
DELETE and one INSERT per task, as in the queue.  `Edit` changes a script at any
time.  For psql jobs hash and execution of a step are one step, because the
content lock covers both; this relies on editors that honour the lock.  Planning
and the signature are one step as well.  `WriteEnd` stores the terminal status, or
fails to: nobody looks at that error, and the row stays as it is until a restart
(`unsaved`).  `AwaitLock` is the wait for a build lock that a stopped engine has left
(`lockLeft`), which only a cancellation ends.

### JobEvents

The runner emits two events per task, the terminal row, the terminal event and a
result event; the row may fail to be stored (`RunnerTerminalFails`), and the events
are written all the same.  `appendEvent` is insert, heartbeat update, possibly start of a
goroutine, notification: four steps, interleaved with those of every other
emitter.  The stream reads the row, then the events; `WaitForEvent` subscribes,
counts, looks at the row and sleeps.  Log lines, which pass through the same
operations without effect on heartbeats or outcome, are left out.

### Eviction, DeleteTree

`Eviction` follows `ensureCacheCapacity`: settings are derived from the
configuration and the observed size, usage is measured, and only then the lock is
taken; the pass lists its candidates once, takes one victim after another
(`NextVictim`), removes its files, deletes the row and measures again.  A state
published, or an instance created from a candidate, between the listing and the
removal is left out: sizes, exemptions and parents are drawn once.  A size is a small
number and a time one too; the age of the lock file is "fresh" or "old", and it ages
while it lies there (`EvictLockAges`), which is what lets a waiter remove the lock of
an engine that died, or of one that is slow.  `DeleteTree` separates the descendant check, the listing of every node, the
judgement of the tree and the removal of each node (container, directory, row, in
the code's order), so that a job may publish a child and another deletion may run
in between; every step may fail, and a retry may follow.  A directory that was
renamed to a stale name and not removed (`dtAside`) counts as gone, as it does for
the code.

### ManagedBase, BaseDir

The two ways to a base.  `ManagedBase` is the image branch of
`startManagedRuntime` under `managedMu`: journal entry, secret file, row, directory,
initdb with the stored password, `pg_hba.conf`, BaseReady, clone.  A directory has a
generation and the password it was initialised with; secrets are numbered as
`rand.Read` produces them.  `BaseDir` has the lock and marker files of
`ensureBaseState`; an initdb that is killed leaves PG_VERSION without the rest
("torn").

### StateFiles, Containers

`StateFiles` keeps the kind and the content of three paths (base, state, runtime).
`removeAll`, `destroy` and `RemovePath` return the set of what may be left and
whether the call succeeded; the back end is drawn at every start from what the host
offers.  A cached state is taken on the word of its row and seal (`UseCached`); whether
its files are there shows only when they are cloned.  `copyDir` writes into what it
finds, so that files of an aborted attempt stay beside the new ones (`leftover`);
eviction and deletion may take a published state away between two jobs
(`RemovePublished`), though not between the clone of an instance and its row.  `Containers` has the daemon's containers, whether PostgreSQL runs in them,
and the map of managed containers of this process, with calls that fail after they
took effect and an engine that restarts and forgets the map.

### EngineStart, WatchControl, RemoteSource

An engine stands for its instance id, token and pid; store lock and start lock are
held by the operating system and vanish with their process.  `Lookup` is the cached
state or `engine.json`, followed by health and token check; a rejected token leads to
one more lookup.  The startup deadline may pass at any time.  `WatchControl` has one
goroutine per stream that waits for an interrupt and may outlive its stream, as the
select over two ready channels allows.  `RemoteSource` separates the hash that goes
into the manifest from the content that is uploaded, because the file is read for
each.

### AuthSession, ConfigStore, LineageStore, Resolver

The credential store is shared without a lock; a refresh is read, request, store,
and the provider may or may not rotate refresh tokens.  Two histories say which
tokens were revoked and which were lost with an answer nobody stored, so that
`RotationKept` can say of a stored token the provider does not honour that it was
revoked, is about to be replaced, or was lost.  In `ConfigStore` the file, its
temporary file and the directory entry each have a durable and a volatile content,
which a power failure tells apart.  The constraint of a watermark is found by the path
as it was written, the value is stored by the path as it was parsed: another spelling
of a watermark's path sets it unchecked (`SetMarkRespelled`).  In `LineageStore` a state identifier is the
history it digests, every Put is one transaction and pages of a listing are read in
transactions of their own; a page and a trace are limited in rows and in bytes.  In `Resolver` a file is two halves, so that a read can be
torn, and all contents have one size, the case in which the size tells nothing.

### LinuxStore, WslStore, CliStages

Each command of `init` is one step that may fail; a run of `init` may end after any of
them and be repeated, with `--reinit` or without.  `CliStages` is one command line: a
worktree or staged files, a job, an instance and a provenance file are taken one
after the other, and `Unwind` gives back what the deferred clean-ups of the code give
back, in their order.  The engine's job and a moving git ref are the other actors.

### AliasFiles, Discovery

A path is a sequence of names, so that joining, relating and canonicalising paths is
what the code does to them.  An alias is the record its YAML holds.  `alias create`
opens its file exclusively and writes it in a second step, between which the process
may die.  `Discovery` runs the analyzers over small workspaces, then the suggested
commands in any order, and asks again.

### PsqlInputs, LiquibaseInputs

The requests of `InputCases` go through the CLI's normalisation, the engine's
checks, the plan and the execution.  A file is the sequence of its lines, each plain
or an include; a digest is the sequence of what it hashes, so that equality of
digests is equality of what was read.  psql and Liquibase themselves are external:
`psql` reads files from the directory the container runs in.

### Composition, CanonicalValues, IdentityEnvelope, ExecutionEnv

Recursive definitions are recursive functions.  The expansion of a recipe is checked
against a declarative reading of the documents; encoding and decoding of values
against the abstract tree, for every tree and for every sequence of bytes near one;
an envelope is altered on its way in one place; environments are paired with a
permuted or different twin.  Digests are injective by construction.

## 3. Runs

| Run | Instance | Shows |
| --- | --- | --- |
| `fence` | 3 callers, 2 instances, 3 objects | exclusive, no leak, no loss, every waiter leaves; implements `FenceLock` |
| `build_btrfs` | 3 jobs, one warm, one inheritor, btrfs | builds are serialised, a published state is whole, success means published, every job ends |
| `build_copy` | 3 jobs, one warm, one inheritor, an evictor, a restart, copy | seal and row agree and publication is exclusive although the lock is not; implements `SealedState` |
| `lifecycle` | both runtimes, user, deletion, cancellation, retention, a restart | order of secret, intent, role, row; use is protected; retirement is final and leaves nothing at its paths; the runner ends |
| `jobs_psql` | 2 scripts, 2 versions, edits, a restart | states are truthful, success is whole, tasks keep their order |
| `jobs_requests` | Liquibase job of one changeset, cancel, delete, retention, a restart | the job ends, unless its end could not be stored or it waits for a lock a stopped engine left; a forced delete returns |
| `events` | 1 task, 2 heartbeat goroutines, one heartbeat, one failed append, one broken connection, deletion | no lost wake-up, at most one live heartbeat, the client learns the outcome |
| `live` | seven components, about 530,000 states | `BasesSafe`, `PartialBaseKept`, `RemovalSafe`, `ServiceSafe`, `ConnectedIsServed`, and `WaitsEnd`: every wait ends |
| `stores` | nine components, about 930,000 states | `StoresSafe`, `SetupSafe`, `CommandSafe` |
| `inputs` | eight components, about 1,300,000 states | `InputsSafe`, `ContractSafe` |

What the composite properties say, component by component:

| Property | Component | Part | Meaning |
| --- | --- | --- | --- |
| `BasesSafe` | `ManagedBase` | `ClonedBaseFits` | a job clones only a finished base whose password is the stored one |
| | `BaseDir` | `OneInitdb`, `MarkedBaseWhole` | one initdb at a time, and only a killed one can leave a marked base that is not whole |
| `PartialBaseKept` | `ManagedBase` | | a base whose initialisation was given up is neither completed nor reset |
| `RemovalSafe` | `Eviction` | `EvictionMeasured`, `EvictionSpares`, `EvictedToBudget` | success is reported only when the cache is within its budget; parents and exempt states are spared; at most one state more than asked for is evicted, because the first is chosen with the figures from before the wait |
| | `DeleteTree` | `NothingUnlisted`, `ConnectedSpared`, `OrphansAreLate` | files, containers and the directories at their paths never outlive their row, whatever fails; no instance seen with a connection is retired without force; an orphan can only be a child published after the listing |
| `ServiceSafe` | `EngineStart` | `ServingDiscoverable` | an engine that serves is the one in `engine.json` |
| | `WatchControl` | `WatchSafe` | the outcome reported is the job's, an event is shown once, a job is stopped only after a confirmation |
| | `RemoteSource` | `SyncTruthful` | a blob is what its digest says, and what a request said of a path is never taken back |
| `ConnectedIsServed` | `EngineStart` | | a CLI connects only to an engine that accepts its token |
| `WaitsEnd` | all seven | | evictors, base jobs, deleters, CLIs, watchers and uploads return |
| `StoresSafe` | `StateFiles` | `PublishedWhole`, `ServedIsPublished`, `SnapshotOfStopped` | a published state holds the whole step from a stopped server on every back end, and on btrfs nothing else; a server that serves it runs on that content |
| | `Containers` | `ManagedStopClean`, `StoppedIsGone` | a managed container is removed only after its PostgreSQL has stopped, and a stop without error leaves none |
| | `Resolver` | `ResolverSafe` | a digest taken from the cache or from a read is a content the file had during the call, as long as no two edits share a tick of the change time (`FineStamps`), and an artifact has the content that was resolved |
| | `LineageStore` | `LineageSafe` | pages give every row of the first page's time once, in order; a trace is the lineage |
| `SetupSafe` | `AuthSession` | `AuthSafe` | a session belongs to its account, stays reachable and keeps its newest token |
| | `LinuxStore`, `WslStore` | | data is not formatted away without `--reinit`; a store that is served is on btrfs; an interrupted Linux set-up can be resumed, and a WSL configuration has its disk and unit |
| `CommandSafe` | `CliStages` | `CliStagesSafe` | success is clean, files outlive the job, prepared instances are removed, provenance tells the truth |
| | `AliasFiles` | `AliasFilesSafe` | an alias names the files its command named; a checked alias runs; a listed ref resolves; creation is exclusive |
| `InputsSafe` | `PsqlInputs`, `LiquibaseInputs` | | what is hashed or planned is what is read and applied; the CLI's closure is the engine's |
| | `Discovery` | `DiscoverySafe` | suggestions can be applied, cover every root, and a second discovery is quiet |
| | `ConfigStore` | `ConfigSafe` | the file can always be read, memory and file agree, and watermarks set one at a time, each by exactly its path, stay in order |
| `ContractSafe` | the four contract modules | | expansion is substitution, a value has one encoding, an identity arrives whole, environments with different meanings have different identities |

Bounds.  Three jobs are the least with which a waiter, a builder whose lock was
removed and a newcomer meet; two fence objects per instance the least with which
a stale pointer could exist.  One restart reaches every durable state that a
restart can find, and the recovery after it runs to its end; the proofs cover any
number.  Two scripts
in two versions are the least for which order, chain and drift matter.  One
heartbeat event is enough for a stale one to be appended after every event of the
runner.  In `live`, two evictors over a parent, its child and a third state are the
least with which a stale list, a stolen lock and a protected parent meet; two CLIs,
two engines and two ports the least for an old engine that shuts down while another
starts; two contents and a file that includes another for a manifest that changes
under way.  In `stores`, two restarts let every back end find the files of another;
two logins, refreshes or creators meet in every order; three set-ups are one that
succeeds, one that is cut short and one more.  In `inputs` the cases are all
requests over a small alphabet of arguments and a handful of workspaces; limits such
as `MaxMembers` or `MaxExpanded` are small enough to be exceeded.  `CHECK_DEADLOCK
FALSE` is given where the modelled system comes to rest: a job ends, a watcher
leaves, a command returns.

### Where the code departs from its documentation

Two runs are expected to violate a property that a document or a comment
states; `PROJECT.json` quotes each line under "findings".

| Run | What TLC finds |
| --- | --- |
| `lifecycle_retention` | trimming a job removes the data directory of its published instance |
| `lifecycle_cancelled` | a failure after publication stops the published container, access still verified |

The models show more, which have no run of their own.  Those of the first table
state their property in the module; each is found within two minutes when it is
checked with the constants given.

| Property | Constants of | What TLC finds |
| --- | --- | --- |
| `StateBuild!Serialized` | `build_copy` | an inherited marker makes a waiter remove the builder's lock; two builds overlap (`docs/architecture/engine-internals.md:277`) |
| `StateBuild!BuildersFinish` | `build_btrfs`, `MaxCrashes = 1` | a lock file left by a stopped engine is waited for without end (`docs/architecture/engine-internals.md:278`) |
| `PrepareJobs!SealTruthful` | `jobs_requests`, with edits | an edited changeset is sealed under the name of its planned version (`docs/architecture/liquibase-integration.md:120`) |
| `StateBuild!CachedIsWhole` | `build_copy` | a state whose files were removed, and whose row was not yet, is a cache hit (`docs/architecture/engine-internals.md:297` says such a state is rebuilt) |
| `PrepareJobs!CancelledStays` | `jobs_requests` | a cancel before the runner is registered is overwritten by the runner (`docs/architecture/prepare-job-events-flow.md:59`) |
| `PrepareJobs!StartedNotDeleted` | `jobs_requests` | a delete without `--force` removes a job whose task has started (`docs/user-guides/sqlrs-rm.md:66`) |
| `PrepareJobs!PlanResumes` | `jobs_psql` | a half-written task list is refused by recovery (`docs/architecture/engine-internals.md:278`) |
| `JobEvents!HeartbeatStops` | `events` | a stale heartbeat revives the heartbeat of an ended job (`docs/architecture/prepare-job-events-component-structure.md:56`) |
| `WatchExits` without `faults > 0` | `events` | if the terminal event cannot be written the watcher reconnects forever (`docs/user-guides/sqlrs-watch.md:29`) |
| `WatchExits` without `row = "gone"` | `events` | a deleted job never wakes its sleeping stream (`docs/user-guides/sqlrs-watch.md:62`) |
| `PsqlInputs!EnforcedDefaults` | `inputs` | `-X` and `ON_ERROR_STOP=1` are appended after the `-f` and `-c` of the request (`prepare/psql.go:84-89`), and a step takes only the flags before its file (`prepare/psql_steps.go:15-77`): the steps run without them (`docs/user-guides/sqlrs-prepare-psql.md:42-46`) |
| `InstanceLifecycle!RetiredLeavesNoData` | `lifecycle` | data renamed to a stale name and not removed stays on disk after its instance is retired (`deletion/manager.go:389-392`) |
| `DeleteTree!NothingAside` | `live` | the same for the directory of a deleted instance, whose deletion reports success |
| `PrepareJobs!JobAlwaysEnds` | `jobs_requests` | a job whose terminal status cannot be stored stays running without a runner (`prepare/manager.go:1589, 1641`); one that finds the lock of a stopped engine waits for ever (`prepare/execution.go:1347`) |
| `StateFiles!PublishedExact` | `stores` | a copied snapshot is merged into what an aborted attempt left at its path (`snapshot/copy.go:86-120`) |
| `ConfigStore!ConfigOrdered` | `inputs` | `cache.capacity.lowWatermark.` or a path with blanks sets a low mark above the high one (`config.go:340, 470` compare the path, `503-561` parse it) |
| `CliStages!WorktreeRemoved` | `stores` | an early return of the stage pipeline leaves the worktree (`docs/architecture/ref-flow.md:190-191`) |
| `Discovery!CoveredNotSuggested` | `inputs` | what existing aliases read is looked up by the path of the alias that would be created (`cli/discover/aliases_phases.go:52`): a covered script is suggested again under another name (`docs/user-guides/sqlrs-discover.md:73`) |

Others are excepted in the properties, each by a history variable or a condition
that names it, so that the properties say exactly what is left:

| Module | What the model shows |
| --- | --- |
| `Eviction` | usage measured before the wait for the lock decides after it (`capacity.go:84-99`; `docs/architecture/state-cache-capacity-control.md:87`); a lock judged stale may by then be somebody else's, so two passes may run; after a row that could not be deleted the pass goes on without measuring; what is published or referred to after the listing is not looked at |
| `BaseDir` | an initdb that was killed or cancelled leaves PG_VERSION, which `InitBase` and `ensureBaseState` take for a finished base and mark; the init lock of a dead engine is waited for without end |
| `Containers` | a `docker run -d` that fails may leave the container it created; an unmanaged start that is cancelled cleans up with the cancelled context, and the container stays |
| `DeleteTree` | a child published after the listing becomes an orphan; two deletions and a republication leave files without a row; a row refused by a foreign key is left without its files; a directory renamed to a stale name may stay |
| `StateFiles` | a state made as a plain directory cannot be cloned once btrfs is chosen; a read-only subvolume left under copy makes every rebuild fail; a removal that got halfway keeps its row, and `invalidateDirtyCachedState`, which would look at the files of a cached state, has no caller in production code; copies merge with leftovers; a dirty clone is not cleaned up |
| `WatchControl` | the goroutine of an ended stream may swallow an interrupt; a refused connection during a reconnect ends the watch; a lost answer to a cancel is reported as an error; a terminal status is final here, while a cancel before the runner is registered may be overwritten (`CancelledStays` above) |
| `AuthSession` | a refresh that spans a logout writes the session back, one that spans a login overwrites the new session, a logout that spans one removes it; a crash between the answer and the store loses a rotated token; a migration may copy a token that is being replaced |
| `RemoteSource` | a manifest may mix files read before and after an edit |
| `ConfigStore` | another spelling of a watermark's path, `Remove` and a `Set` of a whole object do not check the order of the watermarks; a directory that cannot be opened after the rename leaves the file changed and the memory not |
| `LineageStore` | a relative put may store a lineage with more transforms, or more bytes, than `TraceLineage` reads, which then calls it corrupt (`store/sqlite/runtime_v2_state.go:194,215`) |
| `LinuxStore` | `--reinit` does not reformat a mounted store or an unmounted btrfs device (`docs/user-guides/sqlrs-init.md:160-161, 173-175`); where blkid may not read the medium it is taken for empty and formatted; exit status 32 of umount is taken for unmounted |
| `WslStore` | the disk is recognised by its size alone; a set-up interrupted between creation and formatting needs `--reinit`; a partition for which blkid prints nothing is formatted without it; a `--reinit` that is cut short leaves a configuration without its disk |
| `Resolver` | two changes within one tick of the change time look like one; a publisher that found a damaged artifact may remove the good one that replaced it |
| `CliStages` | a composite command with an unknown `run:<kind>` leaves the instance (`docs/user-guides/sqlrs-run.md:197-198`); a ref is resolved by name twice; files are removed while a lost job still runs; the engine's job of a plan, which holds nothing, is left out |
| `AliasFiles` | a creator that dies leaves an empty alias that is listed as ok; a name with an upper-case suffix is listed under a ref that does not resolve; `-f -@2` is stdin to one parser and a file to the other |
| `PsqlInputs` | plain includes are hashed from the directory of the first file and executed from that of their own, and resolved from the current directory by the CLI; flags after the last file are dropped |
| `LiquibaseInputs` | a user's own `--count` is refused because the engine adds another; a container gets only the files that were named, not what they include |
| `Discovery` | started outside the workspace, the aliases analyzer fails; two roots in one directory share one ref |
| `IdentityEnvelope` | how much of a field may be shown is covered by no commitment |

### Mutants

Every property of a passing run has a mutant in `PROJECT.json`, a plausible bug for
which TLC reports that property.  A composite property has one there; the
definitions marked "Mutant of" in the modules break its other parts in the same run:

| Property | Further mutants |
| --- | --- |
| `BasesSafe` | `InspectBaseMarks`, `ResolveRegenerates` |
| `RemovalSafe` | `CheckInstancesOnly`, `ListNodeShallow`, `RemoveStateDirLater`, `EvictableWithChildren`, `RemeasureUsageSkipped` |
| `ServiceSafe` | `RemoveStateUnlocked`, `ReadEventAgain`, `confirmPrepareStopDefault` |
| `WaitsEnd` | `ReleaseInitLockOnSuccess`, `MissForever`, `DeleteFailsLocked`, `StatEvictLockFresh`, `EndRoundAlways`, `ReadEventIgnores` |
| `StoresSafe` | `AdmittedAny`, `TraceLineageShort`, `ResetStateSubvolume`, `verifyStoppedSkipped`, `ConfirmContainerGuesses`, `InspectManagedForgets`, `ContinuousByTime`, `ConfirmEvidenceAfter`, `PublishArtifactUnverified` |
| `SetupSafe` | `StableNameByEndpoint`, `StoreRefreshTokenOnly`, `CommitProfileLast`, `ensureBtrfsOnPartitionAgain`, `FormatMediumAlways` |
| `CommandSafe` | `RelPathFlat`, `invocationRefBase`, `OpenAliasAnyway`, `CheckTargetShallow`, `AllowControlsAlways`, `ReleasedOnError` |
| `InputsSafe` | `addLeafAgain`, `ConstraintsOfLow`, `SyncTempSkipped`, `InboundSelf`, `AliasFindingsTwice` |
| `ContractSafe` | `WalkBaseSelf`, `EmitStepOuter`, `DecodeFieldTrusting`, `SecretSoundOneWay` |

### Fairness

Weak fairness of a runner, of the server's handler, of the client and of accepted
requests: each is a goroutine or process that is scheduled, and the calls it
makes return because they carry deadlines.  The exception is the wait for a build lock
that a stopped engine left, which is a place of its own in `PrepareJobs` (`AwaitLock`);
`JobEvents` is about jobs whose executions return.  Nothing obliges a user, an editor, an
eviction, a cancel or a crash to happen.  `InstanceFence` needs weak fairness
of a caller's own steps and strong fairness of taking the gate (Go serves the
senders blocked on a channel in order); `InstanceLifecycle` uses strong fairness
for the two waits on the fence for that reason.  Commands that use an instance,
and deletions that have begun, are assumed to end.  Heartbeat goroutines are only
assumed to finish the append they have begun.

In `MCLive` the steps of every evictor, base job, deleter, CLI and upload are weakly
fair, and so are two clocks: the eviction lock ages (`EvictLockAges`) and the startup
deadline passes (`Deadline`).  For the watcher the job is assumed to end and to
announce it, and a user in front of the prompt to press a key that means something;
`PromptKey` itself, which also takes any other key, is not fair.  Engines, edits,
kills and failures are not fair.  A base job is not asked to end after an engine died
(`BaseLockFreed`), since then it does not.

## 4. Proofs

All theorems hold for every value of the constants under the assumptions named
in the modules (distinct markers such as `None`, natural bounds, finitely many
callers).

* **Fence.** `FenceInv` says that a registered object belongs to one reference,
  that `users` equals the number of callers that point to the object, that such a
  caller's object is the registered one, and that the gate is full exactly when
  one of them is in an owning step.  The count is what makes deletion of the
  registry entry sound, so the cardinality of the set of users is part of the
  induction.  From it: `FenceExclusive`, `FenceRegistryExact`, and the refinement
  `FenceRefinement` with owners as the refinement mapping.
* **State building.** `SealMatchesRow` and `PublishExclusive` are not inductive:
  a seal may be replaced when its owner is retired, so one must know that a job
  between its seal and its publication has a running journal entry
  (`RuntimeOwned`) and that a sealed job never starts a runtime again
  (`SealJournalled`).  `BuildInv` is their conjunction; it does not mention the
  lock file, which is the point: publication is exclusive without it.
  `BuildRefinement` maps every step to a step of `SealedState` or a stutter.
  `BuildersSerialized`, `RowsHaveSnapshots`, `SuccessIsPublished` and `HitsAreWhole`
  are about the lock file, and hold where it works: on btrfs, where no runtime
  brings another state's marker along, and without removers, which delete the
  directory under a reader.  `LockInv` says why: until the state is published there
  is no marker and the lock has one holder; afterwards nobody builds.
* **Instance lifecycle.** `LifecycleInv` adds to the properties who owns the fence
  in which step (`FenceOwned`), what the runner and the deletion may rely on while
  they hold it (`RunnerKnows`, `DeletionKnows`), and how access rows relate to
  runtimes (`BindingSane`).  `RetiredAreGone` says that a retired instance has no
  container and no data at its path; data renamed aside is outside of it.
  `RetirementFinal` follows as an action property.
* **Jobs.** `StatesAreTruthful`: for psql jobs of any number of scripts, what a
  sealed state, the live runtime and the instance contain is what they are named
  after, with edits and restarts anywhere.  `OrderIsKept` and `SuccessIsWhole` need
  `JobInv`, which relates the stored rows to the runner's copy and its place in it:
  what is behind the runner has succeeded, what is ahead is as it was loaded, and
  its output has as many scripts applied as it has passed (`LoopInv`, `OutInv`).
* **Events** (`EngineProofs`).  `HeartbeatUnique` from `BeatInv` (the cancel function of every live
  goroutine is held, and of one at most) and `WakeupsArrive` from `WakeInv`: the
  stream subscribes before it counts, so that an event it has not seen is in the
  buffer or its emitter has still to notify.
* **Settings** (`EngineProofs`).  `WholeInv` says that a file put in place was written
  out before, so that what a power failure may bring back is a whole file too;
  `AgreeInv` that an engine that serves has the settings of the file wherever a change
  stands, but for one that failed after the rename; `OrderInv` that while watermarks
  are set one at a time, each by exactly its path, memory, file, directory and the change
  under way all have them in order, with the defaults where nothing is set (`cfUnchecked`
  remembers any other change of them).  From them `ConfigIsSafe`.
* **Identities** (in `EngineProofs` too).  A digest covers the fields in the order of
  their names, so `IdentitiesAreSafe` rests on lemmas that such an order exists, is
  unique, and is what the reader's check of neighbours accepts (`SortExists`,
  `SortUnique`, `OrderSorts`), and that equal digests have equal commitments, field by
  field (`DigestTells`).  `EnvelopeInv` then says what the builder may hold (`BuilderInv`),
  that the identity is what it held when it was sealed (`BuiltInv`), that whatever is
  altered on the way the digest stays that of the identity (`WireInv`), and that what
  was accepted commits to the fields of the identity and was recomputed from its
  payloads (`ReadInv`).  Payloads, schemas and calls are any; the names are the five of
  `NameOrder`, of which a schema may use three and extensions two.
* **Bases, engines, watchers, uploads** (`LiveProofs`).  `BaseInv` gives every place
  of the holder of `managedMu` what it has done to secret, row and directory, and the
  directory its generation and password; `DirInv` says that before the marker the lock
  file keeps all but one job out, and that later arrivals, whose lock may have been
  removed, find nothing left to do; `StartInv` that an engine which has taken the
  store lock is the one `engine.json` names until it closes; `WatchInv` that what was
  shown is the events up to `resume`, and a stop was confirmed; `SyncInv` that what is
  put under a digest was compared with it.  From them `BasesAreSafe`,
  `PartialBasesStay`, `EngineDiscoverable`, `ConnectionIsServed`, `ServicesAreSafe`.
* **Removals** (in `LiveProofs` too).  `EvictionIsSafe`: the invariant ties the plan of a
  pass to the states it may take and the figures it goes by to those it measured.
  `DeletionIsSafe`: the plan of a deletion covers the tree it judged, in an order that
  puts children first, and a locked instance is the one at its head (`PlanInv`,
  `HeadInv`, `SeenInv`), for trees of any shape and any number of deletions.
* **Stores** (`StoresProofs`).  `LinuxInv` and `WslInv` say how far a set-up has come
  and what the medium is by then.  `AuthInv` says where the session of a login can be
  (`PlaceInv`), that one nobody gave up is where the profile looks (`ReachInv`), and
  who holds the token that replaces another (`FreshInv`, `BackedInv`).
  `ContainerInv` relates the steps of a start and a stop to the daemon and to the map
  of this process.  `FilesInv` follows the content of base, runtime and state through
  a build on whatever back end, from a state path that may hold leftovers; `removeAll`
  and its relatives get a lemma each.
  `ResolveInv` says that a recorded digest fits its evidence and that a reader knows
  which content each half it has read belongs to.  It needs `StrongFS` and
  `FineStamps`, that is, change times and file ids, and no two changes at one time,
  because that is what the code takes as proof that a file was not touched; the table
  of section 3 says what happens otherwise.  `LineageInv` says that the histories
  stored are closed under prefixes, and that what a listing has returned and what it
  may still return are together what there was at the first page.  Rows in order are
  a CHOOSE, so it rests on lemmas that an ordered enumeration of a finite set of
  numbers exists and is unique (`EnumerationExists`, `EnumerationUnique`, by the least
  element that two enumerations would disagree on) and that the rows of a page are
  the first ones, with at least one among them (`PageIs`).
* **Commands** (`CommandProofs`).  `CliInv` says what a command holds at each of its
  steps (`TakenInv`: nothing given back before the end of a stage; `EngineInv`: a job
  runs on only where somebody waits, left it or lost it; `RunInv`: a run stage starts
  from an instance and a watch nobody left; `ProvenanceInv`), and gives `StagesAreSafe`
  by three lemmas on what a step is: it goes on, is refused, or fails and gives back.
* **Alias files** (`CommandProofs`).  `AliasInv` says that a creator past its `O_EXCL`
  holds a path no other creator holds; from it `CreationIsExclusive`.  What an alias
  means is a matter of paths, and rests on their algebra: joining a directory and the
  relative path that leads from it to a target gives the target (`JoinRel`, by following
  the walk up to the deepest common directory and down again); a canonical path is met
  by no link, is its own canonical path, and so are the directories above it (`CanonIs`,
  `PartClean`); below a canonical directory, canonical paths are taken name by name
  (`CanonUnder`).  `SameValue` follows: a value that `alias create` made relative and
  the run side joined again names what it named.  `AliasIInv` then carries through every
  step what the properties compare: a creator at work still has the request it was given
  and the payload computed from it (`AskedInv`), its file is empty until it is written
  (`WriteInv`), files lie at canonical paths and hold well-formed arguments (`DiskInv`),
  what a run loaded is what the file holds (`RanInv`), what a check accepted names files
  that are there or were taken back (`CheckedInv`), and a listed path, class and ref
  belong to one canonical file (`ListedInv`).  These are stable because a file
  changes only in the hands of the creator that opened it, before it is an alias
  (`Effect`, one lemma per step).  `CommandsAreSafe` puts stages and aliases together.

In a composition every component is proved by itself: `LiveStep`, `StoresStep` and
`CommandStep` say that a step of the whole is, for each component, one of its steps or
leaves its variables alone, and the composite properties follow from the theorems of
the components.

Assumptions beyond types and distinct markers (`JobsAssumption`, `AuthAssumption`,
`EngineStartAssumption`: the marker is none of the records it stands beside).
`EvictAssumption`: the cache is not larger without the files of a state, and parents
are states; `TreeAssumption`: finitely many states and instances, and a state that is
there from the start has a parent that is; `ResolverAssumption`: a replacement is two
halves; `LineageAssumption`: a reader asks for at least one row, and a record that is
admitted fits a page (4 MB documents and 32 MB pages in the code); `AliasPlaces`: no
link stands on the way to the target of another or below it, so that a path meets one
at most, and `/dev/stdin` is not in the workspace; `AliasCommands`: directories and
absolute paths are clean, as the CLI makes them before it uses them, and a directory of
the workspace that a command is given exists; `ConfigConstants`: watermarks are
numbers, and the default of the low one is below that of the high one;
`EnvelopeAssumption`: a schema that its author's validation admits is a list of field
definitions.  TLC evaluates all of them in the runs.

What the attempts showed.  `RotationKept` used to except every session whose token
had ever been lost; the invariant could not be made inductive without saying which
token, and the property now names it.  `TraceLineage` was modelled without its limit
in bytes; comparing the lemma on its rows with the code showed it, and `LineageTraced`
now says for which lineages a trace must succeed.  `CheckedAliasRuns` was false of a
checked alias that names a file which a creator failed to write and took back before the
run, and now excepts it.  `ListedRefResolves` compared paths that differ
when the listing starts behind a link, and joined stems and suffixes as if no file were
called `x.prep` and `x.prep.prep`; suffixes are now a part of every name.
`ConfigStore` made the directory entry durable whenever `syncDir` returned; reading it for
the lemma on that step showed that it returns without an error when the sync fails,
and now the entry may stay volatile.

Only model-checked: liveness (`WaitersLeave`, `BuildersFinish`, `RunnerFinishes`,
`JobEnds`, `DeleteReturns`, `WatchExits`, `WaitsEnd`), because fairness is out of the
prover's reach; `InputsSafe` and `ContractSafe` as wholes, much of which compares what
recursive functions compute and would need induction over data (their parts
`ConfigSafe` and `IdentityEnvelopeSafe` are theorems of their components); the state
building properties about the lock file in `build_copy`, where they do not hold;
`SealTruthful` of Liquibase jobs, where it does not hold either; and the resolver on
file systems without strong evidence, where TLC has the counterexample of section 3.

## 5. Not modelled

* Docker, PostgreSQL, psql, Liquibase, git and host tools beyond what the code relies
  on: success, failure and what they leave behind.
* The lexers: psql meta-commands inside a line, YAML, XML and JSON changelogs, JSON
  declarations with their limits.  They are text processing without state; the models
  take parsed lines and records.
* The unmanaged `run` that recreates a missing container (`run/manager.go`), image
  resolution, schema migrations, the listings and their filters (`ls`, jobs, tasks),
  `diff`, the remaining HTTP routes and client calls: one call, one answer, no order
  to get wrong.
* Managed identity strings, registry, connection counting, token comparison, id and
  stream helpers: stateless.
* Schema tables, conformance bundles and test vectors of the contract library; hash
  collisions; text normalisation of identities.
* Windows services and installers of the engine under WSL beyond the installed file
  being good or bad; formatting, progress output and logging.

Eviction is not part of `PrepareJobs`: a cached state that vanishes makes a step fail
there as any other error does.

## 6. Plan

Modelled first were the parts every prepare goes through, then the components around
them; then the invariants of the components were proved one by one.  What is left:

1. Abstract specifications for the composed components (a served engine, a base that
   is initialised once, a store that only grows) with refinements like
   `BuildRefinement`.
2. Of the contract library, the lemmas that need no induction: one step of expansion
   is substitution, different execution environments have different identities.
