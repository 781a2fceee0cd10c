# Cadder: verification project

Cadder runs local web projects behind one Caddy process. Each project starts a
*shim* in place of `caddy`; the shim registers the project's Caddyfile with one
daemon (`cadderd`), which composes the routes of all projects, owns the real Caddy
child, and remembers in SQLite what the operator enabled and disabled. This
directory models the daemon, its clients and what lies between them in TLA+, checks
the models with TLC on small instances, and proves the most important results for
every value of the constants with TLAPS. Source references are relative to
`crates/cadder-daemon/src/` unless they start with `src/`.

## 1. The system

### Parts, state, operations

| Part | State | Operations | Modules |
|---|---|---|---|
| Operation fence (`operation_fence.rs`) | authority: epoch number and phase (active, draining); per fence: commit permit (active, committing, finalized, revoked), cancellation token | issue, begin_drain, try_revoke, complete, commit, commit_final, begin_final_commit, guard commit and drop | `OperationFence` |
| Registration service (`state/registrations.rs`, `state.rs`) | `registrations` behind one lock, the coordinator behind another, the semaphore `config_operation` | register, unregister, set entrypoint, set domain (one transaction each), heartbeat, disconnect cleanup | `Registrations` |
| Caddy configuration (`caddy/configuration.rs`) | routes and diagnostics per registration, published status and hash | prepare, commit_prepared_registration, begin_apply, finish_idle, finish_runtime_apply | `CaddyConfig` |
| Process runtime (`runtime/process.rs` and below) | the owned child, its log readers, the receipt of a transition | begin_apply_config, begin_stop, start, reload, stop_until, force_stop; receipts accept and rollback | `ProcessRuntime` |
| Effective file (`runtime_file.rs`) | `effective.json` and staged candidates | stage, promote, read, restore, remove | `ProcessRuntime` |
| Caddy resolution (`caddy/resolver.rs`, `caddy_image.rs`) | the pinned image | resolve, probe, pin, verify before each use | `CaddyResolver` |
| SQLite (`database.rs`) | entrypoints and domains (one row per directory), log rows | open, restore, persist, call with a deadline; append_log, query_logs | `CaddyConfig`, `LogStore` |
| Mutation supervision (`ipc/supervision.rs`) | a worker task, its supervisor, a deadline | select between drain, cancellation, next frame, worker, deadline; answer the client | `Registrations`, `Connections`, `Session` |
| Connections (`ipc/connection.rs`, `ipc/authorization.rs`) | the entries a connection owns, its mutations in flight, the registry of worker and cleanup tasks | accept, handle_connection, begin_mutation, insert, remove, disconnect_and_take_entries, spawn, close | `Connections` |
| Server and shutdown (`ipc.rs`, `lib.rs`, `state/shutdown.rs`) | accept loop, shutdown timeline, the failures seen so far | run_until, drain handlers, stop and kill Caddy, close storage | `Server` |
| Endpoint lease (`ipc.rs`, `ipc_unix_security.rs`) | the claim lock, the socket file, the listener | claim, probe, reclaim, release | `Attach` |
| Client and launch (`ipc/client.rs`, `ipc/daemon_launch.rs`, `src/crates/cadder-api/src/service.rs`) | one session; confirmations of a stop | probe, spawn, wait until ready, stop, restart | `Attach`, `ClientErrors` |
| One session (`ipc/handshake.rs`, `ipc/framing.rs`, `ipc/dispatch.rs`, `src/crates/cadder-shim`) | the two queues of a stream, the session, the shim's progress | hello, register, heartbeat, interrupt, unregister, query, shutdown | `Session`, `ClientErrors` |
| TUI (`src/crates/cadder-client/src/tui.rs`, `app.rs`) | screen, selection, confirmation, pending action, spawned effects | key, tick, refresh, start, stop, restart, toggle | `Tui` |

### How they interact

A client connects to the endpoint that one daemon has claimed under an advisory lock.
If nobody listens, it spawns a daemon and waits until the handshake succeeds; the
daemon may lose its claim to another one and leave. A shim keeps its one session
open and sends heartbeats over it; an operator's client makes one request per session.

A mutation reaches a connection handler, which issues a fence and spawns a worker
and supervises it. The worker takes `config_operation`, copies the published state,
edits the copy, and executes a transaction: compose, let Caddy load the candidate,
take both locks, begin the final commit of the fence, promote the effective file,
write SQLite, publish. Whatever fails after the runtime command is undone by the
receipt; if that fails too, Caddy is stopped and the daemon drains. Meanwhile the
supervisor may meet the request deadline, the drain or a cancelled connection, and
asks the *fence* whether the mutation can still be revoked. Heartbeats bypass the
semaphore and write to the published map while a transaction works on its copy.

The runtime command itself is a sequence with deadlines: verify the pinned image,
spawn, verify again, wait until the child survived its first moments, deliver the
configuration; or ask it to stop, wait, kill it, wait again, join its log readers.
Those readers and the runtime append log rows, bounded per stream and in total.

A worker is not part of its connection: when the deadline passes or the client leaves,
the handler goes and the worker runs on. Each connection therefore has a third task,
spawned first, which wakes when the handler is gone, waits for the worker, and
unregisters what the connection still owns. A shutdown closes the registry in which
workers and cleanups run, waits for all of them until a deadline, and then stops Caddy
and closes SQLite beside whatever is left.

### What is hard

* **Three parties without a common lock** decide one mutation: worker, supervisor,
  drain.
* **Four copies of one truth**: memory, Caddy, the effective file, SQLite. Each can
  fail between the others, and errors may hide an effect that happened.
* **Copies taken before awaits** and published after them.
* **Crashes and restarts** between any two steps; only the disk survives, and a socket
  file without its listener is part of the disk.
* **Both sides give up on their own clock**: the client's deadlines retire a session
  while the daemon may still commit, answer or close.
* **A child that does not cooperate**: it exits, hangs, holds its pipes, or is replaced
  on disk between check and execution.
* **Long sequences of legal calls**: sessions that share a directory, ids that move,
  restored intent that contradicts what the client sent.
* **Effects joined in any order** by a terminal interface whose operator keeps typing.
* **Liveness through a drain**: everybody waits for somebody.

PROJECT.json, `hazards`, lists 39 of them at their lines with the properties that cover
them.

### What makes each part correct

* Fence: a revoked mutation never commits; decisions are final; a drain stops new
  commits but not one whose guard was taken.
* Registration service: domains are exclusive; an owner is never replaced; answers
  are truthful; heartbeats are not lost; the state changes only by a commit.
* Caddy, file, coordinator: between transactions they agree; "applied" means applied.
* Runtime: a stop that says it is quiet leaves nothing; only the pinned image is
  admitted; every operation ends although Caddy does not cooperate.
* SQLite: it holds the published desired state; errors leave nothing behind; log
  retention drops the oldest rows and no others.
* Supervision and scheduling: admitted mutations end; clients are answered.
* Connections: while the daemon serves, every registration is known to a cleanup that
  has still to run; the cleanup of a lost connection ends; the connection limit bounds
  the tasks behind the connections as well.
* Server: a shutdown ends whatever its workers do; Ok means that nothing is left; nobody
  starts Caddy again once it was stopped.
* Endpoint: whoever listens is reachable, so there is one daemon; claims end; a launch
  ends with a daemon; a restart ends with another one.
* Session: an answer belongs to its request; what a client concludes is true; the
  registration of a client that is gone goes too.
* TUI: at most one action at a time, the one on the screen; the screen catches up.

## 2. Modules

| Module | Models | Kind |
|---|---|---|
| `OperationFence` | the authority and its fences; also the abstract specification of how everybody else may use them | state machine |
| `CaddyConfig` | composition, conflicts, coordinator results, SQLite rows, heartbeat merge | pure operators |
| `Ownership` | whom a registration id belongs to: each change is the commit of a mutation that asks for it; extends `OperationFence` | abstract specification |
| `Registrations` | the daemon around a mutation; extends the first two, implements `Ownership` and `OperationFence` | state machine |
| `Connections` | handlers, workers, cleanups and the task registry; extends and implements `Ownership` | state machine |
| `Server` | `run_until` and Caddy around `Connections`, which it implements | state machine |
| `ClientErrors` | the errors a client can meet, their retryability, and what each caller takes them for | pure operators |
| `Attach` | daemon processes and client processes around one endpoint; extends `ClientErrors` | state machine |
| `Session` | one client and the handler that serves it, frame by frame; extends `ClientErrors` | state machine |
| `CaddyResolver` | which executable is taken for Caddy, what is pinned and verified | pure operators |
| `ProcessRuntime` | the Caddy child, the candidate files and the receipt, step by step; extends `CaddyResolver` | state machine |
| `LogStore` | opening the database, log rows, retention and queries | state machine |
| `Tui` | the event loop of the terminal interface and its effects | state machine |
| `MC...` | constants for TLC | |
| `OperationFence_proofs`, `Registrations_proofs`, `Server_proofs`, `Attach_proofs`, `Session_proofs`, `ProcessRuntime_proofs`, `LogStore_proofs`, `Tui_proofs` | theorems about the module of that name; `Registrations_proofs` begins with the lemmas about `CaddyConfig`, `ProcessRuntime_proofs` with those about `CaddyResolver`, and the first half of `Server_proofs` is about `Connections` | proofs |

Several modules look at the same code from two sides, each with the detail that its
properties need.

* `Registrations` has the whole transaction and reduces the connections to "a cleanup
  may ask for anything"; `Connections` has the connections and reduces the transaction
  to where it holds `config_operation`, asks its fence, publishes, fails and rolls back.
  What they must agree on is who owns an id: both are shown to implement `Ownership`.
  It sees their fences and what each fence is for (`job`), so it is not enough that an
  owner changes by a legal step: the mutation that commits its fence in that step must be
  one of the session that gains or gives up the id. Only a new process, with new fences,
  forgets owners. So one id is enough for TLC to see a withdrawal by the wrong session.
* `ProcessRuntime` has the steps of start, reload, stop, accept and rollback that
  `Registrations` and `Server` take at once, with the outcomes those steps can have.
* `Attach` ends where a handshake begins, and `Session` begins there: in `Attach` a
  connection is queued, accepted, answered or dead; in `Session` there is one client.
* `Tui` sees of the service API only what one request can bring.

### State and actions against the code

`OperationFence`: an element of `Ops` is a slot for one fence. One action per method;
`Release` is the drop of the last clone, `FenceRestart` the authority of the next
process. A fence's token is a child of the authority's, so `Cancelled` is derived.
`committed` and `verdict` are history variables.

`CaddyConfig`: a BTreeMap is a function on a subset of `Ids`. A rendered
configuration is the set of `<<registration, host>>` pairs it routes, which is what
the properties can tell apart. Activation has three values: a domain is not known to
the registration, or `ActivationState::is_enabled` of it is true or false.

`Registrations`: a slot has a mutation (`request`), its worker (`worker`) and what
its supervisor told the client (`client`). The semaphore admits one transaction, so
its locals are plain variables and `step` is its program counter:

| step | code | actions |
|---|---|---|
| idle | semaphore free | `BeginEdit`, `BeginRegister`, `FencedAtStart` |
| prepare | adapter runs (`registrations.rs:58`) | `Prepare` |
| begin | `begin_apply`, then `fence.commit` (`:170-197`) | `KeepCurrent`, `BeginRuntime`, `BeginRuntimeFails`, `FencedBeforeRuntime` |
| transition | start, reload or stop (`process.rs:233-262`) | `Transition`, `TransitionFails` |
| publish | both locks, merge, begin_final_commit (`:117-122`) | `Publish`, `FencedBeforeCommit` |
| accept | promote or remove the file (`:123-127`) | `Accept`, `AcceptFails` |
| persist | SQLite (`:128-133`) | `Persist`, `PersistFails` |
| commit | the guard's closure (`:134-137`) | `Commit` |
| undo | the receipt's rollback (`:602-622`) | `Rollback`, `RollbackFails` |

A heartbeat is one step that needs the inner lock, which a transaction holds from
`accept` to `commit`. Supervisor actions follow the arms of the `select!` in
`supervise_owned_mutation_request`; when the deadline and another arm are both ready
the order is free. `CancelWorker` and `CancelConnection` are the two cancellations
past the shutdown grace. `Restart` ends the process, by a crash or after a drain, and is
the only step that `PublishedOnlyByCommit` and `Ownership` let publish without a commit.
The owner is checked again after the adapter (`:63`); since the semaphore is held and
heartbeats change no owner, that check finds what the first one found.

`Connections`: a slot of `Ops` is one connection with one fence and one job, because a
connection has one request at a time and its cleanup begins after its last mutation.
`handler`, `cleanup` and `worker` are the program counters of its three tasks:

| task | states | code |
|---|---|---|
| handler | accepted, open, supervising, awaiting, closed | `serve_accepted_connection`, `handle_connection_loop`, `supervise_owned_mutation_request`, the join of the cleanup (`connection.rs:280-284`) |
| worker | admitted, queued, prepared, applied, committing, undoing, accepted | issued and counted but not spawned; waiting for the semaphore; the transaction up to the fence, the final commit, the publication; its rollback; published but not yet recorded in the entries (`supervision.rs:543-570`) |
| cleanup | waiting, taking, removing | for the guard to drop; for `active_mutations = 0`; entry by entry |

`entries` is `by_registration_id`, `taken` the local copy that the cleanup works off.
`active_mutations` is 1 exactly while the worker is not "none", which is why it is not a
variable of its own: the guard moves into the worker and drops with it, also when it
panics. `begin_mutation` cannot find the connection disconnected, since the cleanup
sets that only after the handler has gone. A cleanup's unregister takes the same worker
states; `Settled` is what becomes of its entry. Queries, heartbeats and activation
requests own nothing and are left out here; so is a panic of the cleanup task.

`Server`: `phase` is where `run_until` stands.

| phase | code (`ipc.rs`) | actions |
|---|---|---|
| serving | the loop, `:423-494` | `ConnStep`, `RequestShutdown`, `LoopEnds` |
| handlers | drain and join, `:500-553` | `RefuseWork`, `GraceOver`, `HandlersJoined`, `HandlersLate` |
| runtime, stopping | `prepare_shutdown_until`, `:555` | `AcquireOperation`, `AcquireLate`, `StopCaddy`, `StopFails` |
| force | `force_stop_runtime`, `:556-564` | `ForceStop`, `ForceStopFails` |
| storage | `shutdown_storage_until` and the result, `:565-577` | `CloseStorage` |
| returned | the process ends | `ServerRestart` |

A deadline is an alternative that may be taken at any time in its phase. A worker,
handler or cleanup takes its steps in every phase, with the Caddy process as their
effect (`CaddyStep`).

`Attach`: `Daemons` and `Clients` are process slots. `daemon[d]` is how far a process is
and `socket` says whose listener the file names.

| daemon | code | actions |
|---|---|---|
| spawned | waits for the lock of `SocketClaimGuard` | `AcquireLock` |
| claiming, checking, reclaiming, rebinding | `RuntimeEndpointLease::claim`: bind, ask whether somebody listens, unlink, bind again | `Bind`, `BindFails`, `CheckListener`, `RemoveStaleSocket`, `Rebind` |
| losing | `wait_for_daemon_runtime_ready` | `LoserLeaves` |
| starting | `run_daemon` up to `run_until` | `Serve`, `StartFails` |
| serving, stopping, draining | the accept loop; after a shutdown request; after the loop | `Accept`, `Drain`, `Exit` |

`client[c]` is the loop the client is in: attach, probe, spawn, await and reattach
(`open_managed_run_target`, `ensure_daemon_running`), stop and confirm (`stop_daemon`,
`wait_for_daemon_stop`). An attempt is `Connect`, then `Accept` and `Answer` or one of
the failures `DeadlinePasses`, `ConnectionDies`, `StopAnswerLost`; `Ends` is what the
loop makes of its result, by the classifications of `ClientErrors`. `Crash` ends a daemon
at any point: lock and listener go, the socket file stays. `stopped` and `troubled` are
history variables.

`Session`: `toDaemon` and `toClient` are the stream, `session` is `CadderSession`, `client`
the shim's or operator's progress, `handler` and `job` the connection task, `worker` the
mutation behind it with what becomes of it. `Send` and `Receive` are one exchange;
`ExchangeFails` is a deadline, a closed stream or a frame that cannot be read, which
retires the session. On the daemon's side `AcceptHello`, `Dispatch` and its parts
(`RefuseDrained`, `DenyRequest`, `Supervise`, `Work`), `Reply`, `GiveUp` and `GiveUpLate` (the
request deadline, with the fence open or already committing), `GiveUpUnary`, `WorkerEnds`,
`Cleanup`. `ProgramOf` is the shim's command policy. `Again` puts a new client in the place
of one that is over.

`ProcessRuntime`: the operations are serialised by `config_operation`, so the daemon is
one program counter `pc` with one `txn` (kind, phase, target, previous).

| pc | code | actions |
|---|---|---|
| spawn, exec, reverify, check, initial, cleanup | `ProcessRuntime::start` | `Verify`, `Exec`, `ExecFails`, `Reverify`, `StartCheckElapses`, `ChildExitsInStart`, `InitialConfigAccepted`, `InitialDeadlinePasses`, `Cleanup` |
| reload | `reload` | `Reload`, `ReloadUnverified` |
| stop, waiting, killwait, join | `stop_until` | `StopNothing`, `AskToStop`, `ChildExitsInStop`, `StopDeadlinePasses`, `NotQuiescent`, `ReadersJoined` |
| force, forcewait, forcejoin | `force_stop` | `ForceStop`, `ForcedExit`, `ForcedReadersJoined`, `ForceFails` |
| receipt, restore | `ProcessRuntimeApplyReceipt` | `AcceptReceipt`, `RollBackReceipt`, `Restore`, `RestoreFails` |
| exit | the daemon leaves, `kill_on_drop` | `Exit` |

Around it Caddy boots, exits and dies, pipes close, `inspect` looks, the executable is
replaced and the daemon crashes. `CaddyResolver` decides at `Open` which file is pinned, and
`Verified` is asked before every spawn and reload.

`LogStore`: a row is its stream and its sequence number. `AppendLog` inserts, trims its
stream, trims the table, in one SQLite transaction; `OpenDatabase` accepts a file as
`Database::open` does; `QueryLogs` is the answer to a query.

`Tui`: `effects` is the JoinSet, `screen` what is displayed. `Key` is one key, `Tick` the
refresh interval, `Join` the completion of an effect with everything `apply` does,
`Advance` an effect's next request, `Others` any change of the daemon by somebody else.

`Faults` switches the environment on per run: failing adapter, Caddy command (with or
without effect), file, storage, rollback step, late SQLite, Caddy exits, deadlines,
lost connections and answers, refused spawns, replaced executables, drain, crash.

### Abstractions and assumptions

* Routes, upstreams, listeners, log attribution and the text of messages are left
  out. A configuration is rebuilt from the candidate; nothing else enters it.
* A shim sends an enabled registration without domains, as `build_registration` does;
  the adapter supplies them.
* `Registrations`, `Connections` and `Server` assume that Caddy ends with its daemon. That
  is what the process tree is for; a daemon killed outright on Unix leaves it running.
* In `Registrations`, a reload that answers with an error may or may not have been
  loaded; a failed start leaves no process; a stop that misses its deadline killed the
  process or did not. A step of the fail-closed cleanup may fail as a whole.
  `ProcessRuntime` has those steps and leaves these outcomes.
* In `ProcessRuntime` a killed process is gone before the next spawn, and a Caddy that
  survives a crash has ended when the next daemon starts one.
* The file system is atomic per rename and a failed replacement may have happened.
* The kernel gives a lock back when its process ends and queues connections for a
  listener that accepts nothing yet.
* A file's identity and digest decide whether it is the pinned image; a file that is
  replaced and put back between two verifications is not noticed, by code or model, but
  `Upgrades` of the run contain no way back.
* Attempts of a waiting client are not counted: it may run out whenever it waits.
* The refusal of a mutation before its worker exists changes nothing and is left out of
  `Registrations`; it is in `Session`.
* In `Registrations` a lost connection may ask for the cleanup of any registration, also
  twice or too late: more than `Connections` allows, hence sound for safety.
* In `Connections` a job that does not change Caddy asks its fence once more than the
  code does (`begin_apply` may answer `Current`); the final commit would reject it anyway.
* In `Session` the transaction behind a mutation is one step, and no client pipelines.
* In `Server` the process ends with `run_until`, and Caddy with the process.

## 3. Runs

| Run | Bounds (distinct states) | Shows |
|---|---|---|
| `transactions` | 1 mutation at a time, 2 ids, 2 directories (each session its own, or both one), 2 domains, 13 requests, 7 faults (1.0M) | type, `DomainExclusive`, `RuntimeMatchesPublished`, `AppliedServesActiveDomains`, `StorageMatchesPublished` |
| `races` | 2 concurrent mutations of one id by 2 sessions, heartbeats, 2 clock values, deadlines, disconnect, drain, restart, storage failures (387k) | fences: `RevokedNeverCommits`, `DrainMakesStale`, `DrainStopsNewCommits`, `DecisionIsFinal`, `FencesRefined`; service: `AnswersAreTruthful`, `OwnersRefined`, `PublishedOnlyByCommit`, `HeartbeatNeverGoesBack` |
| `progress` | 2 mutations, failing runtime and rollback, deadlines, drain; fairness (37k) | `MutationsEnd`, `ClientsAreAnswered` |
| `connections` | 2 connections, 1 id, 2 sessions, rejections, failed rollbacks, request deadlines, drain and restart; symmetry (1.3M) | type, `AccountedFor`, `PermitCoversTasks`, `OwnershipRefined` |
| `cleanup` | 2 connections of 1 session, rejections, deadlines, panics; fairness (143k) | `LostConnectionsAreCleaned` |
| `shutdown` | `run_until` with 1 connection and all nine faults; fairness (100k) | `OkMeansQuiescent`, `StoppedForGood`, `ConnectionsRefined`, `ShutdownEnds` |
| `attach` | 2 clients with any goal, 2 daemon processes, the code's 3 confirmations, all seven faults; fairness (121k) | `OwnerIsReachable`, `RestartIsFresh`, `ClaimsEnd`, `LaunchSucceeds` |
| `session` | 1 client after the other: a shim of each policy, an operator with a query or a shutdown, 3 kinds of peer, all seven faults; fairness (1.8k) | `UsableIsClean`, `ClientIsRight`, `GoneIsForgotten` |
| `runtime` | 2 configurations, 3 installations, 1 upgrade, 2 pipes, all six faults; fairness (64k) | `QuietMeansGone`, `RestsAsFiled`, `AdmittedIsPinned`, `TransactionsEnd` |
| `logs` | 3 streams, 2 rows per stream, 4 in all, 8 inserts, 9 databases (4.4k) | `LogsBounded`, `LogsKeepNewest` |
| `tui` | 1 project with 1 domain, 2 effects in flight, any daemon; fairness (107k) | `OneAction`, `CatchesUp` |
| `storage_deadline` | violation expected | `StorageMatchesPublished` with SQLite deadlines |

`OperationFence` has no run of its own: its properties are checked where the fences are
used, in `races`, and proved for any number of fences. The type definitions of
`Attach`, `LogStore`, `Connections`, `Server`, `Session` and `ProcessRuntime` are proved, and
no run is spent on them. Of `Tui` the effects, the pending action and the daemon are proved
to be well typed (`EffectsTyped`); the rest of `TuiTypeOK` describes the state: the rows of
its table come from `SelectSeq`, whose range is a matter of induction over data.

**Why the bounds are enough.** Transactions are serialised, so what several mutations
can do to the four copies is a matter of sequences, not of concurrency: one slot
explores all sequences because nothing bounds their length. A conflict needs two
registrations and one domain; a composition that is wrong in part needs a second
domain. The race of worker, supervisor and drain is per mutation; two slots add the
waiting worker and the second session. The clock is cut (`MaxTick`); the epoch number
takes two values because a restart resets it.
Two connections give every race about an id: a new owner against the cleanup of the old
one, two cleanups, a worker left behind against a new connection in the other slot. A
connection's tasks interact with other connections through the semaphore and the owners
only, so a second id would add no new order of steps. `MaxConnections` equals the number of
slots, and a slot is not reused before its tasks are gone; what `PermitCoversTasks` asks
is that the slot's permit outlives them. For `run_until`, other connections are more of
the same work to wait for; one suffices to outlive every phase.
Two daemon processes are a claimer and an owner, or two claimers; since a slot is used
again, a third process comes after one of them has gone. What is proved does not depend
on the number. Two pipes are what Caddy has. Two configurations are the one
that runs and the one that is wanted, and the idle runtime is a third value.
`PerStream` and `Total` are so small that both bounds are reached, in either order, by two
streams against a third; eight inserts evict every row of the first fill; what is proved
holds for every bound. Two effects are two refreshes in flight or a refresh and an
action; the screen allows one action. `MaxEffects` cuts the refreshes that an operator can
pile up.

**Deadlock** is checked in every run but `logs`, which stops at `MaxSequence`: elsewhere a
slot can always be used again, and a restart is possible once the daemon drains or
`run_until` has returned.

**Symmetry** is used on slots and, in `connections`, on nonces, never with liveness.

**Fairness.** In `Registrations`, `WF(Advance(o))`: a worker that holds the semaphore makes
progress, because every adapter run, Caddy command and SQLite call has a timeout in
the code and ends in success or in an error, both of which are actions.
`SF(Start(o))`: tokio's semaphore and mutex are FIFO queues, so a waiting worker is
not overtaken for ever although the lock is taken again and again.
`WF(SuperviseWorker(o) \/ AnswerAwaited(o))`: the supervisor is a task of its own
that is woken when its worker ends. Nothing is assumed of clients, deadlines,
the drain, Caddy or restarts.

In `Connections`, `SF(Refuse(c) \/ Begin(c))` is the same FIFO semaphore,
`WF(ReleaseOperation)` says that the stop of Caddy gives it back (it has a deadline), and
`WF(Unattended(c))` that what needs no client goes on: a transaction that holds the
semaphore, the cleanup task, the join of the cleanup. Handlers need no fairness.
`FairServerSpec` assumes only `WF(Teardown)`: `run_until` is polled and its deadlines pass.
Nothing is assumed of workers, cleanups, clients or Caddy, so `ShutdownEnds` holds
although a worker hangs for ever.

In `Attach`, processes run: `WF(OwnStep(d))`, `WF(ClientStep(c))`; a listener serves its
queue: `WF(Accept(d, c))`; and `SF(AcquireLock(d))`, because the kernel gives an advisory
lock to one waiter after the other while new processes keep asking for it. Nobody has to
crash, fail, stop or leave. In `Session` only `WF(DaemonStep)`: the daemon's tasks run and
the transactions behind them end; clients may stop for ever. In `ProcessRuntime`
`WF(DaemonStep)`, since each of its waits has a deadline, and `WF(KilledDies)`, since the
system removes a killed process; nothing is assumed of pipes, files or a live Caddy. In
`Tui` every request of an effect has a deadline (`WF(Advance)`, `WF(Join)`), and
`SF(Tick)`: `select!` takes a ready branch at random, so an interval that elapses again
and again is not passed over for ever.

**The violation.** *`storage_deadline`*: `Database::call` waits for an operation past its
deadline and drops its result, then reports that it "was rolled back" (`database.rs:391`);
if the commit finished first, SQLite keeps the state of a mutation that was rejected.

### Observations without a run

Things met while modelling; the models contain the behaviour.

Registrations and storage.
* `detect_conflicts` and the second owner check never fire after the first checks; the
  placeholder route of `compose_config` is never reached for an enabled registration; a
  failed adaptation erases the stored domain intent of its directory; two registrations
  of a directory share a row and the larger id wins; an id that moves to another
  directory can meet `registration_id UNIQUE`.
* While an enabled project has a diagnostic, `begin_apply` returns `Current` and the
  transaction persists and publishes without a Caddy command
  (`caddy/configuration.rs:332`); `docs/ARCHITECTURE.md:34` promises persistence "only
  after Caddy accepts the candidate configuration".
* The cleanup of a lost connection makes one attempt per entry and logs a warning if it is
  rejected (`state/registrations.rs:301`); the registration then stays until the daemon
  restarts, against REG-001 (`openspec/specs/project-registration/spec.md:9`).
  `AccountedFor` says that this warning is the only way: `warned` holds a warning until
  the next commit of the id it is about.
* The daemon lets a session register again on a second connection with its nonce, and
  the cleanup of the first connection then removes the new registration; no client of
  the repository does that.
* A failed rollback ends in a shutdown of the daemon, not in the "read-only drain" of
  `docs/ARCHITECTURE.md:34`. A stop that had to kill Caddy but met an error on the way
  counts as failed, and is rolled back although Caddy is gone.
* A dropped database call releases the gate while its closure still runs, so the
  interrupt of the next caller may hit the earlier closure. An append that missed its
  deadline may be in although it was reported as failed; any later success clears the
  durability error. `snapshot_from_parts` reads registrations and configuration under
  different locks. The daemon leaves the effective file of its predecessor in place.

Shutdown and runtime.
* A transaction that holds `config_operation` through the runtime phase and the
  force-stop, or a force-stop that fails, makes `run_until` return at the `?` of
  `ipc.rs:562-563` without closing SQLite; RUN-003
  (`openspec/specs/daemon-lifecycle/spec.md:27`) continues the teardown.
* Path verification does not notice an image that is replaced and put back between two
  looks. After an upgrade of Caddy in place every later spawn fails until the daemon is
  restarted.
* A Caddy orphaned by SIGKILL of its daemon on Unix keeps `localhost:2019`
  (CADDY-002, `openspec/specs/caddy-runtime/spec.md:18-20`).

Clients.
* A restart takes the stop as confirmed (`service.rs:172`) when queries fail in a way that
  says so, while the stopped daemon may still listen and drain (`service.rs:199`;
  `openspec/specs/operator-tui/spec.md:31`). `RestartIsFresh` says why that is harmless: it
  accepts none of the restart's connections. A query that reaches a draining handler gets
  `shutting_down`, which is not retryable, and the restart fails.
* A daemon that lost its claim never claims again, also when the winner fails to start. An
  end of file in the handshake is a permanent error of a launch.
* A unary handler that is dropped in the middle of its response is followed by an error
  frame on the same stream, which the client cannot decode and does not retry; an answer
  over 1 MiB closes the connection, which invites a retry.
* A shim ignores the errors of its heartbeats, never reconnects, and does not look at
  `accepted` of its unregister. The daemon closes a connection after a timeout while the
  client keeps its session. Handshakes are still accepted while the daemon drains.
* TUI: if a start is pending while a refresh answers "connected" and the start then fails,
  `last_start_failed` makes it ignore every later "unavailable"
  (`app/lifecycle.rs:30`), which `CatchesUp` therefore exempts. Of two starts in a row of a
  daemon that accepts handshakes but answers nothing else, one may succeed and the next
  fail before the refresh of the first is joined, so the screen need not settle for an
  operator who never stops starting one; `CatchesUp` exempts this as well. TUI-004 says that Space
  toggles, but it does nothing; the selection is a row index, so a refresh moves another
  row under the cursor; a confirmation is not rechecked against the connection; a failed
  action triggers no refresh; manual refreshes are not limited.

## 4. Proofs

Every invariant and every action property that a passing run checks is stated by a theorem
here, so that the run shows it on a small instance and the theorem for every value of the
constants. Section 3 says what TLC adds: liveness, and that what is stated is not empty.

### Assumptions

`IdsAssumption` (ids are ordered) and `NoneAssumption` of `CaddyConfig` (the null is no
configuration), `RequestsAssumption` (the null is no request), `AdaptationsAssumption`;
for `Connections` `HoldersAssumption` (nobody, the stopper and the connections are different holders of the
semaphore); for `Server` `ShutdownAssumption` (a shutdown may be requested at any time, which
`Connections` calls a fault); for `Attach` `ConfirmationsAssumption` (at least one),
`GoalsAssumption` and `SlotsAssumption`; for `Session` `PeersAssumption`,
`RequestsAssumption` (which peers and requests there are) and `NoneAssumption`; for
`LogStore` `RetentionAssumption` (both bounds are positive); for `ProcessRuntime`
`ConfigsAssumption`; for `Tui` `RowsAssumption`, `BoundAssumption` (one effect may be in
flight) and `NoneAssumption`. `Ops`, `Dirs`, `Domains`, `Nonces`, `Requests`, `Daemons`,
`Clients`, `Streams`, `Configs`, `Installations`, `Upgrades` and `Faults` are otherwise
arbitrary, also infinite. TLC evaluates every assumption in the runs.

Two theorems have a hypothesis of their own, and both need it:

* `StorageMatchesPublishedThm` has `"deadline" \notin Faults`: no SQLite call ends after its
  deadline. With that fault the property is false, which is the run `storage_deadline`.
* `AdmittedIsPinnedThm` has `UpgradesDiffer`: what an upgrade puts in place has another
  identity or digest than the pinned image. If it may put the pinned image back, the code
  does not notice that another one was executed in between, and TLC finds the property
  violated. The run `runtime` satisfies it (`UpgradesAssumption` in `MCRuntime`).

### Fences, in themselves and in the service

* **Fence** (`OperationFence_proofs`). `FenceTypeCorrect`. `RevokedNeverCommits` alone is
  not inductive, because a verdict "Revoked" says nothing of the permit. The strengthening
  is `PermitRemembers`: a committed fence has a finalized permit, a verdict that says
  revoked has a revoked one, and a free slot has no verdict. `DrainMakesStaleThm` needs
  instead that no live fence is ahead of its authority. `DrainStopsNewCommitsThm` and
  `DecisionIsFinalThm` follow from the type step by step.
* **Refinement** (`FencesRefinedThm`). Every step of the registration service is, on
  the fence's variables, a step of `FenceSpec` or a stutter: the two modules share the
  variables, so the mapping is the identity, and `NextFences` has one case per
  action. `FencesHoldInService` carries the four results over: they hold of every mutation
  of the daemon, which is where `races` checks them.

### Registration service

* **Types** (`TypeCorrect`). The invariant is `TypeOK` with `OneTransaction`: at most
  one worker is running, and only if a step is. It is needed because the transaction's
  locals are not indexed by slot. The lemmas about `CaddyConfig` say what `Pruned`,
  `Persisted`, `Restored`, `MergeLiveHeartbeats`... return; `LastInDir` is a CHOOSE, and
  `GreatestExists` shows that it chooses something, because a finite set of ids has a
  greatest element.
* **Domain exclusivity** (`DomainExclusiveThm`). Not inductive alone: the published map
  is replaced by a candidate, so the invariant `CandidateExclusive` says it of the
  transaction's copy as well. Its lemmas are about the operations: dropping a
  registration, disabling, enabling after the conflict check (`EditedExclusive`),
  inserting a restored registration after it (`PreparedExclusive`), merging heartbeats
  (`MergeExclusive`). So the check of one id, skipped for disables and removals, is
  enough, and it may run before the awaits of the transaction.
* **Ownership, from the transactions** (`OwnersRefinedThm`). The published map is replaced
  as a whole by a copy that was edited under the semaphore, while heartbeats write to the
  original. The invariant `CandidateOwned` says that a transaction's copy is what its own
  mutation may make of the published owners (`Moves`), from its first step to its commit;
  the commit is then that step of `Ownership`, and everything else stutters. That the fence
  had not committed before is `PermitRemembers`.
* **Answers** (`AnswersAreTruthfulThm`). An answer is given when the worker has ended, or
  when the supervisor did not wait for it. `AnswersTracked` says that an accepted or
  rejected answer repeats the worker's end, that a refusal follows a revoked permit, and
  that how a worker stands tells whether its fence has committed. With `RevokedNeverCommits`
  of the service a refused mutation then never commits, although its worker runs on.
* **Who publishes** (`PublishedOnlyByCommitThm`). `WhoPublishes` goes through the actions:
  `registrations` changes only at a commit, a heartbeat and a restart. That the committing
  worker had not committed before is `AnswersTracked` again.
* **Heartbeats** (`HeartbeatNeverGoesBackThm`). A transaction publishes a copy that it took
  before its awaits. `HeartbeatsFollow`: no heartbeat is of the future; the candidate is of
  the same sessions as what is published, so that the merge finds every live heartbeat; and
  while the inner lock is held, from the merge to the commit, the candidate is not behind.
* **Routes** (`AppliedServesActiveDomainsThm`). "Applied" is set long after the routes were
  computed. `RoutesFollow`: the routes of a registration serve every domain that it knows,
  in what is published and in the candidate, through every edit, restore and merge
  (`Routed`), and from the runtime transition on the candidate's hash is what its active
  domains are (`Serves`).
* **Caddy, file, coordinator** (`RuntimeMatchesPublishedThm`). They agree only between
  transactions. `RuntimeFollows` says what holds instead at each step: before the
  transition nothing has touched Caddy; after it, the candidate agrees with the kind of
  the transition (`RuntimeReady`), and the receipt leads back to what is published
  (`ReceiptLeadsBack`), so that a rollback restores the agreement. It is claimed of an active
  daemon only, since one that failed to roll back drains.
* **SQLite** (`StorageMatchesPublishedThm`). `StorageFollows`: between the write and the
  commit SQLite holds the candidate, otherwise what is published.

### Connections and server

* **Connections** (`ConnTypeCorrect`, `OwnershipRefinedThm`). The owner check of a job is
  made at `Begin` and used at `Commit`. The invariant `Isolated` says that a job past its
  check holds `config_operation` and that the check still holds; since only the holder
  publishes, it survives the steps of every other connection, and of the shutdown, which
  takes the semaphore like a job does. A commit is then a claim or a withdrawal of the job
  whose fence commits, for the first time by `PermitRemembers`. The result holds for any
  number of connections, whatever their handlers do.
* **Permits** (`PermitCoversTasksThm`). `TasksCovered` orders the three tasks of a
  connection: a worker only under a cleanup that is still to come, a cleanup that waits as
  long as its handler may admit another mutation. So a handler that has joined its cleanup
  leaves no task, whatever became of its worker.
* **Orphans** (`AccountedForThm`). `CleanupFollows`: a cleanup that removes has taken
  everything there was to take, and its jobs withdraw just that. `OwnersKept` then says who
  knows each owner, in terms of the entry as it will be once a worker has recorded it:
  between the publication and the record only the worker knows, and it may overwrite an
  entry whose registration another session owns by then.
* **Server as connections** (`ConnectionsRefinedThm`). Every step of `run_until` is a step of
  `Connections` or leaves its variables alone. A handler or a worker acts in every phase;
  `PhaseFollows` supplies what `Connections` asks of the others: the daemon drains from the
  end of its loop on, and the registry is closed once the handlers are over, so that a
  daemon that follows finds it so. By `ServedConnectionsHold` everything above holds of the
  connections that `run_until` drives.
* **End of the daemon** (`ServerTypeCorrect`, `StoppedForGoodThm`, `OkMeansQuiescentThm`). A
  stop of Caddy that comes before the tasks have ended says nothing, because a worker can
  start Caddy again. `EndFollows`: from the storage phase on there is no child and no
  connection is past its fence; after the handlers, a drain that has not failed has left no
  task. It is kept because the stop needs `config_operation`, by `Isolated` nobody works
  without it (`NobodyHolds`), and whoever gets it later meets a drained fence
  (`NoWorkBegins`, `NobodyStarts`); a closed registry lets no task return (`NoTaskReturns`).

### Endpoint and sessions

* **One daemon** (`OwnerIsReachableThm`). That the socket leads to every listener is not
  inductive: a claimer could unlink what it found stale after somebody else has bound
  it. `ClaimInv` adds `Locked` (whoever claims or starts holds the lock) and `StaleForGood`
  (while a claimer has found the socket stale, nobody listens; whoever could start to
  listen waits for its lock). `ClientsClaimNothing` reduces all the steps of clients to
  four ways a daemon's state may move.
* **Restart** (`RestartIsFreshThm`). A restart may believe that its daemon is gone while it
  still drains. `StoppedForGood`: the daemon it has told to stop never serves again.
  `ConfirmsWithIt`: while that one still accepts, the socket leads to it, by
  `OwnerIsReachable`, so each query goes to it and is answered, and the count starts over.
  `NotAccepted`: hence, once the restart goes on, that daemon has left the accept loop
  and holds none of the restart's connections as accepted. `Roles` keeps the goals apart.
* **Session** (`UsableIsCleanThm`, `ClientIsRightThm`, over `SessionInvariant`). Both sides
  give up on their own, so what a client may conclude depends on where the other side can
  be. `WorkerFollows` and `EndsFollow` tie worker, handler and ends of the stream together.
  `OneAtATime`: a request, the work on it and its answer exclude each other, so a session
  that is usable again has an empty stream. `ClientFollows`, `SentFollows`, `HelloFollows`
  and `ExchangeFollows` say which request is on its way at each step of the client, and
  that no error on it invites the retry of a request that must go out once. `AskedFollows`:
  an accepted shutdown is its own exchange, which the drain cannot refuse.
  `RegistrationFollows`: the connection owns what the daemon has registered, and once the
  registration has been accepted it is there for as long as the session lives.

### Runtime, logs, terminal interface

* **Stops** (`QuietMeansGoneThm`). `ChildInv` adds who owns the child at each step of
  `start` (`StartOwns`), that its cleanup has killed it before it drops the handle
  (`CleanupKilled`), that nobody runs or waits to be reaped without an owner (`Unowned`), and
  that the join of the readers begins when the handle is gone (`JoinedIdle`).
  `ResolvedIsNoShim` is about the operators of `CaddyResolver` alone.
* **Transactions of the runtime** (`RestsAsFiledThm`). What Caddy serves and what the
  effective file says differ during an operation. `FiledInv` says which operation takes
  which step in which phase (`PhaseFollows`), what Caddy serves when a receipt is about to
  be accepted, restored or closed (`ServedFollows`), and that a Caddy that has not booted is
  still with `start` (`BootingStarts`).
* **Image** (`AdmittedIsPinnedThm`). `ImageFollows`: the path holds the pinned image, or what
  it holds does not verify. `LaunchedFollows`: what was executed is the pinned image, or the
  second verification is still to come and will fail.
* **Logs** (`LogsBoundedThm`, `LogsKeepNewestThm`). `NewestOf(R, n)` is defined by counting,
  so its lemmas are about cardinalities: it has at most n rows (`NewestOfBounded`, by taking
  the oldest row of the result), what it keeps is newer than what it drops
  (`NewestAreNewer`), and it drops nothing unless n rows stay (`DropsFromFull`). The
  invariant is the type with the bounds; the action property follows from the order of
  the two cuts and from numbers being given once.
* **Terminal interface** (`OneActionThm`). An action is spawned from its key or from the
  confirmation that the key has opened, and much can happen in between. `ConfirmedAlone`
  says that nothing is pending while a confirmation is open. What a step can do to the
  effects is one of three things, add one, move one on or join one, and each keeps the
  correspondence between the pending action and the effects.

### Only model-checked

The liveness properties: `MutationsEnd`, `ClientsAreAnswered`, `LostConnectionsAreCleaned`,
`ShutdownEnds`, `ClaimsEnd`, `LaunchSucceeds`, `GoneIsForgotten`, `TransactionsEnd`,
`CatchesUp`. Liveness under fairness and ENABLED are out of the prover's reach. So is what
recursive definitions compute for every input; none of these modules has one, but see `Tui`
in section 3.

## 5. Not modelled

PROJECT.json says it per component. In short:

* Byte framing, JSON validation, the rendering of configurations, screens and command
  output, argument parsing: data and formatting without a protocol of their own.
* File permissions, peer authentication, security descriptors and named pipes of Windows:
  calls into the operating system that keep no state here. A named pipe has no stale file;
  the claim on Windows is the part of `Attach` without reclaiming.
* Job objects and descendants of Caddy, beyond pipes that stay open after its death.
* The delegation of a shim's command to the real Caddy, which is a process exec.
* The in-memory log store, `coordinator.apply`, `DaemonState::shutdown`: no production path
  uses them.
* Packaging, scripts and the documentation site.

## 6. Plan

Done: every component with a protocol is modelled and checked; every safety property and
every action property of the runs is proved (section 4). What would add most, in this order:

1. `RegistrationService`: the abstract specification in which a mutation is one atomic
   step on the published state and SQLite that succeeds or leaves no trace, and the proof
   that `Registrations` implements it.
2. `ProcessRuntime` shown to implement the outcomes that `Registrations` takes at once.
3. The rest of `TuiTypeOK`, as far as it does not depend on `SelectSeq`.
