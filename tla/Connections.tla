---------------------------- MODULE Connections -----------------------------
(***************************************************************************)
(* The connections of the daemon and the registrations that they own       *)
(* (ipc/connection.rs, ipc/authorization.rs, ipc/supervision.rs).  A       *)
(* handler task reads requests, a worker task executes a mutation and may  *)
(* outlive its handler, and a cleanup task, spawned before the first       *)
(* request, unregisters what the connection still owns once the handler is *)
(* gone.  All of them run in a registry that a shutdown closes.            *)
(*                                                                         *)
(* A slot of Ops is one connection.  It has at most one request at a time, *)
(* and its cleanup starts after its last mutation, so one fence and one    *)
(* job per slot are enough.  The registration service is Ownership: the    *)
(* transaction of a job is cut down to where it holds config_operation,    *)
(* asks its fence and publishes (see Registrations).  Heartbeats and       *)
(* activation changes own nothing and are left out.                        *)
(***************************************************************************)
EXTENDS Ownership, FiniteSets

CONSTANTS
  Stopper,        \* run_until, as a holder of config_operation
  Faults,         \* "reject": a transaction fails; "rollback": so does its
                  \* rollback; "panic": a worker panics; "timeout": a request
                  \* deadline passes; "shutdown": the daemon may shut down
  MaxConnections  \* IpcLimits.max_connections

Conns == Ops

VARIABLES
  handler,   \* handler[c]: the connection task
  cleanup,   \* cleanup[c]: its disconnect cleanup task
  entries,   \* ConnectionOwnershipState.by_registration_id
  taken,     \* the entries that the cleanup took and has not dealt with
  worker,    \* worker[c]: how far it is
  operation, \* who holds config_operation
  registry,  \* MutationTaskRegistryState
  drained,   \* request_drain is cancelled
  cancelled, \* mutation_cancellation and connection_cancellation are
  warned     \* the "ipc-disconnect-cleanup" warnings in the log since the
             \* last commit of the id they are about

connVars ==
  <<handler, cleanup, entries, taken, job, worker, operation, registry,
    drained, cancelled, warned>>
vars == <<fenceVars, owner, connVars>>

Job == [kind : {"register", "unregister"}, id : Ids, nonce : Nonces]
ASSUME HoldersAssumption == None \notin Job /\ {None, Stopper} \cap Ops = {}

Entries == [Ids -> Nonces \cup {None}]
NoEntries == Unowned

Listening == {"open", "supervising", "awaiting"}
Holding == {"prepared", "applied", "committing", "undoing"}

TypeOK ==
  /\ FenceTypeOK
  /\ owner \in Entries
  /\ handler \in [Conns -> {"none", "accepted", "closed"} \cup Listening]
  /\ cleanup \in [Conns -> {"none", "waiting", "taking", "removing"}]
  /\ entries \in [Conns -> Entries]
  /\ taken \in [Conns -> Entries]
  /\ job \in [Conns -> Job \cup {None}]
  /\ worker \in
       [Conns -> {"none", "admitted", "queued", "accepted"} \cup Holding]
  /\ \A c \in Conns : worker[c] = "none" <=> job[c] = None
  /\ operation \in Conns \cup {None, Stopper}
  /\ registry \in [closed : BOOLEAN, panicked : BOOLEAN]
  /\ drained \in BOOLEAN
  /\ cancelled \in BOOLEAN
  /\ warned \subseteq Ids \X Nonces

-----------------------------------------------------------------------------
ConnInit ==
  /\ FenceInit
  /\ OwnershipInit
  /\ handler = [c \in Conns |-> "none"]
  /\ cleanup = [c \in Conns |-> "none"]
  /\ entries = [c \in Conns |-> NoEntries]
  /\ taken = [c \in Conns |-> NoEntries]
  /\ job = [c \in Conns |-> None]
  /\ worker = [c \in Conns |-> "none"]
  /\ operation = None
  /\ registry = [closed |-> FALSE, panicked |-> FALSE]
  /\ drained = FALSE
  /\ cancelled = FALSE
  /\ warned = {}

shutdownVars == <<registry, drained, cancelled>>
ownedVars == <<entries, taken, warned>>

Handler(c, at) ==
  /\ handler' = [handler EXCEPT ![c] = at]
  /\ UNCHANGED <<owner, cleanup, ownedVars, operation, shutdownVars>>

(* A slot is free once every task of its last connection has ended.        *)
Free(c) == handler[c] = "none" /\ cleanup[c] = "none" /\ worker[c] = "none"

-----------------------------------------------------------------------------
(* The handler task.                                                       *)

(* run_until accepts: a connection beyond the limit is dropped at once.    *)
Accept(c) ==
  /\ Free(c) /\ permit[c] = "none"
  /\ Cardinality({d \in Conns : handler[d] # "none"}) < MaxConnections
  /\ Handler(c, "accepted")
  /\ UNCHANGED <<fenceVars, job, worker>>

(* The peer is not authenticated in time, or the server is cancelled.      *)
Deny(c) ==
  /\ handler[c] = "accepted"
  /\ Handler(c, "none")
  /\ UNCHANGED <<fenceVars, job, worker>>

(* handle_connection spawns the cleanup before it reads anything.          *)
Open(c) ==
  /\ handler[c] = "accepted"
  /\ handler' = [handler EXCEPT ![c] = IF registry.closed THEN "none" ELSE "open"]
  /\ cleanup' = [cleanup EXCEPT ![c] = IF registry.closed THEN "none" ELSE "waiting"]
  /\ UNCHANGED <<fenceVars, owner, ownedVars, job, worker, operation, shutdownVars>>

(* The client leaves, sends what is no request, or the server drains: the  *)
(* loop ends and the cleanup guard is dropped.                             *)
Close(c) ==
  /\ handler[c] = "open"
  /\ Handler(c, "closed")
  /\ UNCHANGED <<fenceVars, job, worker>>

(* A mutation is admitted: its fence is issued, begin_mutation counts it.  *)
Request(c) ==
  /\ handler[c] = "open" /\ worker[c] = "none"
  /\ ~drained
  /\ Issue(c)
  /\ \E j \in Job : job' = [job EXCEPT ![c] = j]
  /\ worker' = [worker EXCEPT ![c] = "admitted"]
  /\ Handler(c, "supervising")

(* ... and its worker spawned, unless the registry was closed in between.  *)
Spawn(c) ==
  /\ worker[c] = "admitted"
  /\ IF registry.closed
     THEN /\ TryRevoke(c)
          /\ worker' = [worker EXCEPT ![c] = "none"]
          /\ job' = [job EXCEPT ![c] = None]
          /\ Handler(c, "closed")
     ELSE /\ worker' = [worker EXCEPT ![c] = "queued"]
          /\ UNCHANGED <<fenceVars, owner, handler, cleanup, ownedVars, job,
                         operation, shutdownVars>>

(* The worker has ended and the handler writes what it returned; an Err, a *)
(* pipelined frame or a failed write ends the connection.                  *)
Answer(c) ==
  /\ handler[c] = "supervising" /\ worker[c] = "none"
  /\ Complete(c)
  /\ Handler(c, "open") \/ Handler(c, "closed")
  /\ UNCHANGED <<job, worker>>

(* The request deadline passes or the server drains: a worker that cannot  *)
(* commit any more is left behind, any other is awaited.                   *)
GiveUp(c) ==
  /\ handler[c] = "supervising" /\ worker[c] # "admitted"
  /\ drained \/ "timeout" \in Faults
  /\ TryRevoke(c)
  /\ Handler(c, IF RevokeOutcome(permit[c]) = "Finalized" THEN "awaiting" ELSE "closed")
  /\ UNCHANGED <<job, worker>>

(* The fence was cancelled by the drain or by the worker.                  *)
AwaitCancelled(c) ==
  /\ handler[c] = "supervising" /\ worker[c] # "admitted"
  /\ Cancelled(c)
  /\ Handler(c, "awaiting")
  /\ UNCHANGED <<fenceVars, job, worker>>

AnswerLate(c) ==
  /\ handler[c] = "awaiting" /\ worker[c] = "none"
  /\ Handler(c, "closed")
  /\ UNCHANGED <<fenceVars, job, worker>>

(* Mutant of Leave: does not join the cleanup.                             *)
LeaveEarly(c) ==
  /\ handler[c] = "closed"
  /\ Handler(c, "none")
  /\ UNCHANGED <<fenceVars, job, worker>>

(* The connection task joins the cleanup and returns its permit.           *)
Leave(c) ==
  /\ handler[c] = "closed" /\ cleanup[c] = "none"
  /\ Handler(c, "none")
  /\ UNCHANGED <<fenceVars, job, worker>>

(* connection_cancellation, or abort_all, which does not wait for cleanup. *)
CancelHandler(c) ==
  /\ cancelled
  /\ handler[c] # "none" /\ worker[c] # "admitted"
  /\ Handler(c, "none") \/ (handler[c] \in Listening /\ Handler(c, "closed"))
  /\ UNCHANGED <<fenceVars, job, worker>>

(* The last clone of the fence is dropped with its worker and supervisor.  *)
DropFence(c) ==
  /\ worker[c] = "none" /\ handler[c] \notin {"supervising", "awaiting"}
  /\ Release(c)
  /\ UNCHANGED <<owner, connVars>>

HandlerNext(c) ==
  \/ Deny(c)
  \/ Open(c)
  \/ Close(c)
  \/ Request(c)
  \/ Spawn(c)
  \/ Answer(c)
  \/ GiveUp(c)
  \/ AwaitCancelled(c)
  \/ AnswerLate(c)
  \/ Leave(c)
  \/ CancelHandler(c)
  \/ DropFence(c)

-----------------------------------------------------------------------------
(* A job, of the client or of the cleanup.                                 *)
Cleaning(c) == cleanup[c] = "removing"

(* Mutant of Settled: tries again to remove what was rejected.             *)
SettledOrRetried(c, published) ==
  /\ taken' = IF Cleaning(c) /\ published THEN [taken EXCEPT ![c][job[c].id] = None] ELSE taken
  /\ UNCHANGED <<entries, warned>>

(* What becomes of an entry that the cleanup has dealt with, and of the    *)
(* warnings about the id.                                                  *)
Settled(c, published) ==
  /\ taken' = IF Cleaning(c) THEN [taken EXCEPT ![c][job[c].id] = None] ELSE taken
  /\ warned' =
       CASE published                 -> warned \ ({job[c].id} \X Nonces)
         [] ~published /\ Cleaning(c) ->
              warned \cup {<<job[c].id, job[c].nonce>>}
         [] OTHER                     -> warned
  /\ entries' = entries

(* The job ends without having been published.                             *)
End(c) ==
  /\ worker' = [worker EXCEPT ![c] = "none"]
  /\ job' = [job EXCEPT ![c] = None]
  /\ operation' = IF operation = c THEN None ELSE operation
  /\ Settled(c, FALSE)
  /\ UNCHANGED <<owner, handler, cleanup>>

Progress(c, to) ==
  /\ worker' = [worker EXCEPT ![c] = to]
  /\ UNCHANGED <<owner, handler, cleanup, ownedVars, job, shutdownVars>>

(* Mutant of Admissible: any session may unregister an id.                 *)
AdmissibleToAnyone(c) ==
  CASE job[c].kind = "register"   -> owner[job[c].id] \in {None, job[c].nonce}
    [] job[c].kind = "unregister" -> CanCommit(c)

(* register_fenced and unregister_fenced before their transaction.         *)
Admissible(c) ==
  CASE job[c].kind = "register"   -> owner[job[c].id] \in {None, job[c].nonce}
    [] job[c].kind = "unregister" -> CanCommit(c) /\ owner[job[c].id] = job[c].nonce

Refuse(c) ==
  /\ worker[c] = "queued" /\ operation = None
  /\ ~Admissible(c)
  /\ End(c)
  /\ UNCHANGED <<fenceVars, shutdownVars>>

(* Mutant of Begin: does not wait for config_operation.                    *)
BeginAtOnce(c) ==
  /\ worker[c] = "queued"
  /\ Admissible(c)
  /\ operation' = c
  /\ Progress(c, "prepared")
  /\ UNCHANGED fenceVars

Begin(c) ==
  /\ worker[c] = "queued" /\ operation = None
  /\ Admissible(c)
  /\ operation' = c
  /\ Progress(c, "prepared")
  /\ UNCHANGED fenceVars

(* Mutant of Apply: begins the runtime transition without the fence.       *)
ApplyUnfenced(c) ==
  /\ worker[c] = "prepared"
  /\ Progress(c, "applied")
  /\ UNCHANGED <<fenceVars, operation>>

(* The runtime transition, if the fence still permits it.                  *)
Apply(c) ==
  /\ worker[c] = "prepared"
  /\ CanCommit(c)
  /\ Progress(c, "applied")
  /\ UNCHANGED <<fenceVars, operation>>

Publish(c) ==
  /\ worker[c] = "applied"
  /\ BeginFinalCommit(c)
  /\ Progress(c, "committing")
  /\ UNCHANGED operation

(* The transaction ends before it has touched Caddy ...                    *)
Abandon(c) ==
  /\ worker[c] = "prepared"
  /\ "reject" \in Faults \/ ~CanCommit(c)
  /\ End(c)
  /\ UNCHANGED <<fenceVars, shutdownVars>>

(* ... or a later step fails or finds the fence closed, and what was done  *)
(* is rolled back before the job is rejected.                              *)
Fail(c) ==
  /\ \/ /\ worker[c] = "applied"
        /\ "reject" \in Faults \/ ~CanCommit(c)
        /\ UNCHANGED fenceVars
     \/ /\ worker[c] = "committing"
        /\ "reject" \in Faults
        /\ GuardDrop(c)
  /\ Progress(c, "undoing")
  /\ UNCHANGED operation

Undo(c) ==
  /\ worker[c] = "undoing"
  /\ End(c)
  /\ UNCHANGED <<fenceVars, shutdownVars>>

(* The rollback fails too: the worker drains the authority (and asks for a *)
(* shutdown, see Server).                                                  *)
UndoFails(c) ==
  /\ "rollback" \in Faults
  /\ worker[c] = "undoing"
  /\ BeginDrain
  /\ End(c)
  /\ UNCHANGED shutdownVars

(* Whom the id belongs to once the job is done.                            *)
Registered(j) == IF j.kind = "register" THEN j.nonce ELSE None

(* Mutant of Commit: the job is dropped before its entry is recorded.      *)
CommitForgets(c) ==
  /\ worker[c] = "committing"
  /\ GuardCommit(c)
  /\ owner' = [owner EXCEPT ![job[c].id] = Registered(job[c])]
  /\ operation' = None
  /\ worker' = [worker EXCEPT ![c] = IF Cleaning(c) THEN "none" ELSE "accepted"]
  /\ job' = [job EXCEPT ![c] = None]
  /\ Settled(c, TRUE)
  /\ UNCHANGED <<handler, cleanup, shutdownVars>>

Commit(c) ==
  /\ worker[c] = "committing"
  /\ GuardCommit(c)
  /\ owner' = [owner EXCEPT ![job[c].id] = Registered(job[c])]
  /\ operation' = None
  /\ worker' = [worker EXCEPT ![c] = IF Cleaning(c) THEN "none" ELSE "accepted"]
  /\ job' = IF Cleaning(c) THEN [job EXCEPT ![c] = None] ELSE job
  /\ Settled(c, TRUE)
  /\ UNCHANGED <<handler, cleanup, shutdownVars>>

(* ConnectionOwnership follows, and the worker's mutation guard drops.     *)
Record(c) ==
  /\ worker[c] = "accepted"
  /\ entries' = [entries EXCEPT ![c][job[c].id] = Registered(job[c])]
  /\ worker' = [worker EXCEPT ![c] = "none"]
  /\ job' = [job EXCEPT ![c] = None]
  /\ UNCHANGED <<fenceVars, owner, handler, cleanup, taken, warned, operation,
                 shutdownVars>>

(* The registry catches the panic; unwinding drops guards and permits.     *)
Panic(c) ==
  /\ "panic" \in Faults
  /\ worker[c] \in {"queued", "accepted"} \cup Holding /\ ~Cleaning(c)
  /\ IF worker[c] = "committing" THEN GuardDrop(c) ELSE UNCHANGED fenceVars
  /\ End(c)
  /\ registry' = [registry EXCEPT !.panicked = TRUE]
  /\ UNCHANGED <<drained, cancelled>>

(* Past the grace a worker revokes its own fence and runs to its end.      *)
CancelWorker(c) ==
  /\ cancelled
  /\ worker[c] \in {"queued"} \cup Holding /\ ~Cleaning(c)
  /\ TryRevoke(c)
  /\ UNCHANGED <<owner, connVars>>

JobNext(c) ==
  \/ Refuse(c)
  \/ Begin(c)
  \/ Apply(c)
  \/ Publish(c)
  \/ Abandon(c)
  \/ Fail(c)
  \/ Undo(c)
  \/ UndoFails(c)
  \/ Commit(c)
  \/ Record(c)
  \/ Panic(c)
  \/ CancelWorker(c)

-----------------------------------------------------------------------------
(* The cleanup task.                                                       *)
Cleanup(c, at) ==
  /\ cleanup' = [cleanup EXCEPT ![c] = at]
  /\ UNCHANGED <<fenceVars, owner, handler, warned, job, worker, operation,
                 shutdownVars>>

(* The handler has dropped its guard: no mutation begins any more.         *)
Disconnect(c) ==
  /\ cleanup[c] = "waiting" /\ handler[c] \notin Listening
  /\ Cleanup(c, "taking")
  /\ UNCHANGED <<entries, taken>>

(* Mutant of Take: does not wait for the mutation in flight.               *)
TakeAtOnce(c) ==
  /\ cleanup[c] = "taking"
  /\ taken' = [taken EXCEPT ![c] = entries[c]]
  /\ entries' = [entries EXCEPT ![c] = NoEntries]
  /\ Cleanup(c, "removing")

(* disconnect_and_take_entries waits for active_mutations = 0.             *)
Take(c) ==
  /\ cleanup[c] = "taking" /\ worker[c] = "none"
  /\ taken' = [taken EXCEPT ![c] = entries[c]]
  /\ entries' = [entries EXCEPT ![c] = NoEntries]
  /\ Cleanup(c, "removing")

(* unregister_for_ipc_disconnect, entry by entry.                          *)
Remove(c) ==
  /\ Cleaning(c) /\ worker[c] = "none"
  /\ \E i \in Ids :
       /\ taken[c][i] # None
       /\ job' = [job EXCEPT ![c] =
                    [kind |-> "unregister", id |-> i, nonce |-> taken[c][i]]]
  /\ Issue(c)
  /\ worker' = [worker EXCEPT ![c] = "queued"]
  /\ UNCHANGED <<owner, handler, cleanup, ownedVars, operation, shutdownVars>>

(* No fence is issued to it once the daemon drains.                        *)
Skip(c) ==
  /\ Cleaning(c) /\ worker[c] = "none"
  /\ lifecycle.phase = "draining"
  /\ \E i \in Ids :
       taken[c][i] # None /\ taken' = [taken EXCEPT ![c][i] = None]
  /\ entries' = entries
  /\ Cleanup(c, "removing")

Finish(c) ==
  /\ Cleaning(c) /\ worker[c] = "none"
  /\ taken[c] = NoEntries
  /\ Cleanup(c, "none")
  /\ UNCHANGED <<entries, taken>>

CleanupNext(c) ==
  \/ Disconnect(c)
  \/ Take(c)
  \/ Remove(c)
  \/ Skip(c)
  \/ Finish(c)

-----------------------------------------------------------------------------
(* A shutdown as the connections see it (run_until after its loop).        *)

BeginShutdown ==
  /\ BeginDrain
  /\ UNCHANGED <<owner, connVars>>

tasks == <<owner, handler, cleanup, ownedVars, job, worker, operation>>

CancelRequests ==
  /\ lifecycle.phase = "draining" /\ ~drained
  /\ drained' = TRUE
  /\ UNCHANGED <<fenceVars, tasks, registry, cancelled>>

CloseRegistry ==
  /\ drained /\ ~registry.closed
  /\ registry' = [registry EXCEPT !.closed = TRUE]
  /\ UNCHANGED <<fenceVars, tasks, drained, cancelled>>

(* The grace is over: cancel mutations and connections, abort the tasks.   *)
CancelHandlers ==
  /\ registry.closed /\ ~cancelled
  /\ cancelled' = TRUE
  /\ UNCHANGED <<fenceVars, tasks, registry, drained>>

(* prepare_shutdown_until and force_stop_runtime hold config_operation.    *)
HoldOperation ==
  /\ registry.closed /\ operation = None
  /\ operation' = Stopper
  /\ UNCHANGED <<fenceVars, owner, handler, cleanup, ownedVars, job, worker,
                 shutdownVars>>

ReleaseOperation ==
  /\ operation = Stopper
  /\ operation' = None
  /\ UNCHANGED <<fenceVars, owner, handler, cleanup, ownedVars, job, worker,
                 shutdownVars>>

(* The process ends with its shutdown; the next one starts from nothing.   *)
Restart ==
  /\ registry.closed
  /\ ForgetOwners
  /\ handler' = [c \in Conns |-> "none"]
  /\ cleanup' = [c \in Conns |-> "none"]
  /\ entries' = [c \in Conns |-> NoEntries]
  /\ taken' = [c \in Conns |-> NoEntries]
  /\ job' = [c \in Conns |-> None]
  /\ worker' = [c \in Conns |-> "none"]
  /\ operation' = None
  /\ registry' = [closed |-> FALSE, panicked |-> FALSE]
  /\ drained' = FALSE
  /\ cancelled' = FALSE
  /\ warned' = {}

ShutdownNext ==
  \/ "shutdown" \in Faults /\ BeginShutdown
  \/ CancelRequests
  \/ CloseRegistry
  \/ CancelHandlers
  \/ HoldOperation
  \/ ReleaseOperation

ConnNext(c) ==
  \/ ~drained /\ Accept(c)
  \/ HandlerNext(c)
  \/ JobNext(c)
  \/ CleanupNext(c)

Next == ShutdownNext \/ Restart \/ \E c \in Conns : ConnNext(c)

Spec == ConnInit /\ [][Next]_vars

(* What goes on by itself once the transaction of c has config_operation,  *)
(* or its connection is gone: every command and SQLite call has a deadline,*)
(* and the cleanup is a task of its own.                                   *)
Unattended(c) ==
  \/ Apply(c)
  \/ Publish(c)
  \/ Abandon(c)
  \/ Fail(c)
  \/ Undo(c)
  \/ Commit(c)
  \/ Record(c)
  \/ CleanupNext(c)
  \/ DropFence(c)
  \/ Leave(c)

(* config_operation is a fair queue.                                       *)
FairSpec ==
  /\ Spec
  /\ WF_vars(ReleaseOperation)
  /\ \A c \in Conns :
       /\ SF_vars(Refuse(c) \/ Begin(c))
       /\ WF_vars(Unattended(c))

-----------------------------------------------------------------------------
(* The cleanup of c knows that (i, s) is registered through c.             *)
Knows(c, i, s) ==
  \/ s \in {entries[c][i], taken[c][i]}
  \/ /\ worker[c] = "accepted"
     /\ job[c] = [kind |-> "register", id |-> i, nonce |-> s]

Watched(i) == \E c \in Conns : cleanup[c] # "none" /\ Knows(c, i, owner[i])

Serving == lifecycle.phase = "active" /\ ~registry.panicked

(* While the daemon serves, every registration is known to a cleanup that  *)
(* has still to run, or the log says since then that its cleanup failed: a *)
(* that commits after its client is gone, and records the id only after it *)
(* has committed (supervision.rs, execute), leaves no orphan.              *)
AccountedFor ==
  Serving =>
    \A i \in Ids : owner[i] # None => Watched(i) \/ <<i, owner[i]>> \in warned

(* A connection that has given its permit back has no task left behind, so *)
(* that max_connections bounds the workers and the cleanups as well; only  *)
(* the abort at the end of a shutdown breaks this.                         *)
PermitCoversTasks ==
  ~cancelled =>
    \A c \in Conns :
      handler[c] \in {"none", "accepted"} => cleanup[c] = "none" /\ worker[c] = "none"

(* Owners change as the registration service promises, although the owner  *)
(* is checked before the transaction and replaced at its end.              *)
OwnershipRefined == OwnershipSpec

(* A lost connection is cleaned up, whatever its mutation was doing.       *)
LostConnectionsAreCleaned ==
  \A c \in Conns :
    cleanup[c] # "none" /\ handler[c] \notin Listening ~> cleanup[c] = "none"
=============================================================================
