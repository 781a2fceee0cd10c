--------------------------- MODULE Registrations ----------------------------
(***************************************************************************)
(* The registration service of one cadder daemon and what surrounds it: a  *)
(* mutation arrives on a local IPC connection, a worker task executes it   *)
(* as a transaction (candidate state, Caddy, effective file, SQLite,       *)
(* publication, or a rollback), and a supervisor task decides what the     *)
(* client is told.  state/registrations.rs, runtime/process.rs and its     *)
(* receipts, database.rs, ipc/supervision.rs.                              *)
(*                                                                         *)
(* A slot of Ops holds one mutation: its fence (OperationFence), its       *)
(* worker and its supervisor.  config_operation admits one transaction at  *)
(* a time, so the locals of the transaction are the variables step, txn,   *)
(* receipt and outcome; they belong to the worker that is "running".       *)
(*                                                                         *)
(* Faults lists what the environment may do: "adapt" (caddy adapt fails),  *)
(* "runtime" (a Caddy command or check fails, perhaps after it took        *)
(* effect), "file" (the effective file cannot be replaced), "storage"      *)
(* (SQLite fails), "deadline" (a SQLite call ends after its deadline),     *)
(* "rollback" (a rollback step fails), "caddyExit", "timeout" (a request   *)
(* deadline passes), "disconnect" (the cleanup of a lost connection runs), *)
(* "drain" (a shutdown is requested) and "crash".                          *)
(***************************************************************************)
EXTENDS OperationFence, CaddyConfig

CONSTANTS
  Requests,    \* the mutations that clients may ask for
  Adaptations, \* the sets of hosts that a Caddyfile may be adapted to
  Faults,
  MaxTick      \* bound on the clock

VARIABLES
  registrations, \* DaemonInner.registrations
  coordinator,   \* the published CaddyConfigCoordinator
  request,       \* request[o]: the mutation in slot o
  worker,        \* worker[o]: its worker task
  client,        \* client[o]: what its supervisor has told the client
  step,          \* where the transaction stands; "idle": semaphore free
  txn,           \* RegistrationTransaction: the candidate state
  receipt,       \* RuntimeTransitionReceipt
  outcome,       \* how the worker ends once the rollback is done
  child,         \* the owned Caddy process
  served,        \* the configuration that process has loaded
  effective,     \* the effective config file
  stored,        \* desired state in SQLite
  clock          \* Utc::now

published == <<registrations, coordinator>>
tasks == <<request, worker, client>>
txnVars == <<step, txn, receipt, outcome>>
caddy == <<child, served>>
disk == <<effective, stored>>
vars == <<fenceVars, published, tasks, txnVars, caddy, disk, clock>>

Kinds == {"register", "unregister", "entrypoint", "domain", "heartbeat"}

Request ==
  [kind : Kinds, id : Ids, nonce : Nonces \cup {None}, dir : Dirs,
   domain : Domains, on : BOOLEAN]

ASSUME RequestsAssumption ==
  /\ Requests \subseteq Request /\ None \notin Requests
  /\ \A r \in Requests : r.kind = "register" => r.nonce \in Nonces
ASSUME AdaptationsAssumption == Adaptations \subseteq SUBSET Domains

Pending == {"queued", "running"}
Ended == {"accepted", "rejected", "fenced"}
Supervised == {"waiting", "awaiting"}
Steps ==
  {"idle", "prepare", "begin", "transition", "publish", "accept", "persist",
   "commit", "undo"}

IsTransaction(t) ==
  /\ t \in [registrations : {t.registrations}, coordinator : Coordinator]
  /\ IsRegistrations(t.registrations)

Receipt ==
  [kind : {"none", "apply", "stop"}, previous : {None} \cup Configs,
   wasRunning : BOOLEAN]

NoTransaction ==
  [registrations |-> EmptyMap, coordinator |-> InitialCoordinator]
NoReceipt == [kind |-> "none", previous |-> None, wasRunning |-> FALSE]

Answers == {"accepted", "rejected", "refused", "closed"}

TasksTypeOK ==
  /\ request \in [Ops -> Requests \cup {None}]
  /\ worker \in [Ops -> {"none"} \cup Pending \cup Ended]
  /\ client \in [Ops -> {"none"} \cup Supervised \cup Answers]
  /\ \A o \in Ops : worker[o] # "none" => request[o] \in Requests

TransactionTypeOK ==
  /\ step \in Steps
  /\ IsTransaction(txn)
  /\ receipt \in Receipt
  /\ outcome \in {"none", "rejected", "fenced"}
  /\ step = "undo" => outcome # "none"

TypeOK ==
  /\ FenceTypeOK
  /\ IsRegistrations(registrations) /\ coordinator \in Coordinator
  /\ TasksTypeOK
  /\ TransactionTypeOK
  /\ child \in {"none", "running", "exited"}
  /\ {served, effective} \subseteq {None} \cup Configs
  /\ stored \in DesiredState
  /\ clock \in Nat

-----------------------------------------------------------------------------
Init ==
  /\ FenceInit
  /\ registrations = EmptyMap
  /\ coordinator = InitialCoordinator
  /\ request = [o \in Ops |-> None]
  /\ worker = [o \in Ops |-> "none"]
  /\ client = [o \in Ops |-> "none"]
  /\ step = "idle"
  /\ txn = NoTransaction
  /\ receipt = NoReceipt
  /\ outcome = "none"
  /\ child = "none"
  /\ served = None
  /\ effective = None
  /\ stored = EmptyMap
  /\ clock = 0

-----------------------------------------------------------------------------
(* A worker ends: it drops the transaction and releases config_operation.  *)
End(o, result) ==
  /\ worker' = [worker EXCEPT ![o] = result]
  /\ step' = "idle"
  /\ txn' = NoTransaction
  /\ receipt' = NoReceipt
  /\ outcome' = "none"
  /\ UNCHANGED <<request, client>>

Running(o, at) == worker[o] = "running" /\ step = at

(* The candidate goes on to the next step of its transaction.              *)
Continue(next) ==
  /\ step' = next
  /\ UNCHANGED <<tasks, outcome>>

(* The runtime transition must be undone before the worker ends.           *)
Fail(result) ==
  /\ step' = "undo"
  /\ outcome' = result
  /\ UNCHANGED <<tasks, txn, receipt>>

-----------------------------------------------------------------------------
(* Requests arrive.  A mutation is only admitted while its fence can be    *)
(* issued; the cleanup of a lost connection has no client to answer.       *)

(* Mutant of Arrive: admits a mutation while the daemon drains.            *)
ArriveUnfenced(o, r, told) ==
  /\ worker[o] = "none"
  /\ permit[o] = "none"
  /\ permit' = [permit EXCEPT ![o] = "active"]
  /\ epoch' = [epoch EXCEPT ![o] = lifecycle.number]
  /\ request' = [request EXCEPT ![o] = r]
  /\ worker' = [worker EXCEPT ![o] = "queued"]
  /\ client' = [client EXCEPT ![o] = told]
  /\ UNCHANGED <<lifecycle, committed, verdict, published, txnVars, caddy,
                 disk, clock>>

Arrive(o, r, told) ==
  /\ worker[o] = "none"
  /\ Issue(o)
  /\ request' = [request EXCEPT ![o] = r]
  /\ worker' = [worker EXCEPT ![o] = "queued"]
  /\ client' = [client EXCEPT ![o] = told]
  /\ UNCHANGED <<published, txnVars, caddy, disk, clock>>

Submit(o) == \E r \in Requests : Arrive(o, r, "waiting")

SubmitCleanup(o) ==
  /\ "disconnect" \in Faults
  /\ \E r \in Requests : r.kind = "unregister" /\ Arrive(o, r, "closed")

-----------------------------------------------------------------------------
(* Which registration a mutation is about, and what it makes of it.        *)

(* Mutant of DifferentOwner: takes the project for the owner.              *)
DifferentProject(regs, r) ==
  r.id \in DOMAIN regs /\ regs[r.id].dir # r.dir

DifferentOwner(regs, r) ==
  r.id \in DOMAIN regs /\ regs[r.id].nonce # r.nonce

(* Mutant of Found: any session may unregister an id.                      *)
FoundByAnyone(regs, r) ==
  /\ r.id \in DOMAIN regs
  /\ r.kind = "domain" => regs[r.id].domains[r.domain] # "absent"

Found(regs, r) ==
  /\ r.id \in DOMAIN regs
  /\ CASE r.kind = "domain"     -> regs[r.id].domains[r.domain] # "absent"
       [] r.kind = "entrypoint" -> r.nonce \in {None, regs[r.id].nonce}
       [] OTHER                 -> r.nonce = regs[r.id].nonce

Edited(regs, r) ==
  CASE r.kind = "unregister" -> Drop(regs, r.id)
    [] r.kind = "entrypoint" -> [regs EXCEPT ![r.id].enabled = r.on]
    [] r.kind = "domain"     ->
         [regs EXCEPT ![r.id].domains[r.domain] = Activate(r.on)]

(* Mutant of Refused: does not check an entrypoint that is enabled.        *)
RefusedUnlessEntrypoint(regs, r) ==
  \/ ~Found(regs, r)
  \/ r.kind = "domain" /\ r.on /\ Conflict(Edited(regs, r), r.id)

(* Only a mutation that enables something is checked for a conflict.       *)
Refused(regs, r) ==
  \/ ~Found(regs, r)
  \/ r.kind # "unregister" /\ r.on /\ Conflict(Edited(regs, r), r.id)

Edits == {"unregister", "entrypoint", "domain"}

(* unregister_fenced, set_entrypoint_enabled_fenced and                    *)
(* set_domain_enabled_fenced, up to the transaction.                       *)
BeginEdit(o) ==
  /\ worker[o] = "queued"
  /\ request[o].kind \in Edits
  /\ step = "idle"
  /\ CanCommit(o)
  /\ IF Refused(registrations, request[o])
     THEN End(o, "rejected")
     ELSE /\ worker' = [worker EXCEPT ![o] = "running"]
          /\ step' = "begin"
          /\ txn' = [registrations |-> Edited(registrations, request[o]),
                     coordinator |-> coordinator]
          /\ UNCHANGED <<request, client, receipt, outcome>>
  /\ UNCHANGED <<fenceVars, published, caddy, disk, clock>>

(* register_fenced, up to the adapter.                                     *)
BeginRegister(o) ==
  /\ worker[o] = "queued"
  /\ request[o].kind = "register"
  /\ step = "idle"
  /\ IF DifferentOwner(registrations, request[o])
     THEN End(o, "rejected")
     ELSE /\ worker' = [worker EXCEPT ![o] = "running"]
          /\ step' = "prepare"
          /\ UNCHANGED <<request, client, txn, receipt, outcome>>
  /\ UNCHANGED <<fenceVars, published, caddy, disk, clock>>

(* The registration that a shim sends: enabled, its domains not yet known. *)
SentBy(r, hosts) ==
  [nonce |-> r.nonce, dir |-> r.dir, enabled |-> TRUE,
   domains |-> [d \in Domains |-> IF d \in hosts THEN "active" ELSE "absent"],
   heartbeat |-> clock]

(* The rest of register_fenced up to the transaction, with the coordinator *)
(* and the registration that the adapter's result leads to.                *)
Prepared(o, adapted, reg) ==
  LET r == request[o]
      candidate == Put(registrations, r.id, Restored(stored, reg))
  IN  IF DifferentOwner(registrations, r) \/ Conflict(candidate, r.id)
      THEN End(o, "rejected")
      ELSE /\ txn' = [registrations |-> candidate, coordinator |-> adapted]
           /\ receipt' = receipt
           /\ Continue("begin")

Prepare(o) ==
  /\ Running(o, "prepare")
  /\ \/ \E hosts \in Adaptations :
          Prepared(o, Adapted(coordinator, request[o].id, hosts),
                      SentBy(request[o], hosts))
     \/ /\ "adapt" \in Faults
        /\ Prepared(o, Diagnosed(coordinator, request[o].id),
                       SentBy(request[o], {}))
     \/ /\ "storage" \in Faults
        /\ End(o, "rejected")
  /\ UNCHANGED <<fenceVars, published, caddy, disk, clock>>

-----------------------------------------------------------------------------
(* apply_runtime_transition.                                               *)

Candidate == Pruned(txn.coordinator, txn.registrations)
Target == Compose(txn.coordinator, txn.registrations)

(* Mutant of KeepCurrent: leaves the published status as it was.           *)
KeepCurrentSilently(o) ==
  /\ Running(o, "begin")
  /\ Blocked(Candidate, txn.registrations)
  /\ txn' = [txn EXCEPT !.coordinator = Candidate]
  /\ receipt' = receipt
  /\ Continue("publish")
  /\ UNCHANGED <<fenceVars, published, caddy, disk, clock>>

(* begin_apply returns Current: nothing is asked of Caddy.                 *)
KeepCurrent(o) ==
  /\ Running(o, "begin")
  /\ Blocked(Candidate, txn.registrations)
  /\ txn' = [txn EXCEPT !.coordinator = FinishFailed(Candidate)]
  /\ receipt' = receipt
  /\ Continue("publish")
  /\ UNCHANGED <<fenceVars, published, caddy, disk, clock>>

(* begin_stop will not stop a process that it could not start again.       *)
NoWayBack ==
  NothingToServe(txn.registrations) /\ child = "running" /\ effective = None

(* begin_apply_config and begin_stop up to the command: read the effective *)
(* file, stage the candidate, see whether the owned process still runs.    *)
BeginRuntime(o) ==
  /\ Running(o, "begin")
  /\ ~Blocked(Candidate, txn.registrations)
  /\ CanCommit(o)
  /\ txn' = [txn EXCEPT !.coordinator = Candidate]
  /\ receipt' =
       [kind |-> IF NothingToServe(txn.registrations) THEN "stop" ELSE "apply",
        previous |-> effective,
        wasRunning |-> child = "running"]
  /\ ~NoWayBack
  /\ child' = IF child = "exited" THEN "none" ELSE child
  /\ Continue("transition")
  /\ UNCHANGED <<fenceVars, published, served, disk, clock>>

BeginRuntimeFails(o) ==
  /\ Running(o, "begin")
  /\ ~Blocked(Candidate, txn.registrations)
  /\ CanCommit(o)
  /\ "runtime" \in Faults \/ NoWayBack
  /\ End(o, "rejected")
  /\ UNCHANGED <<fenceVars, published, caddy, disk, clock>>

Reloading == receipt.kind = "apply" /\ receipt.wasRunning
Starting == receipt.kind = "apply" /\ ~receipt.wasRunning
Stopping == receipt.kind = "stop"

(* reload, start or stop, when it returns Ok.                              *)
Transition(o) ==
  /\ Running(o, "transition")
  /\ Reloading => child = "running"
  /\ IF Stopping
     THEN /\ child' = "none"
          /\ served' = None
          /\ txn' = [txn EXCEPT !.coordinator = FinishIdle(@)]
     ELSE /\ child' = "running"
          /\ served' = Target
          /\ txn' = [txn EXCEPT !.coordinator = FinishApplied(@, Target)]
  /\ receipt' = receipt
  /\ Continue("publish")
  /\ UNCHANGED <<fenceVars, published, disk, clock>>

(* Mutant of TransitionFails: returns the error without a rollback.        *)
TransitionFailsAndLeaves(o) ==
  /\ Running(o, "transition")
  /\ "runtime" \in Faults
  /\ Reloading
  /\ served' \in {served, Target}
  /\ End(o, "rejected")
  /\ UNCHANGED <<fenceVars, published, child, disk, clock>>

(* ... and when it returns Err.  A reload whose answer is lost may have    *)
(* been loaded, a failed start leaves no process, and a stop that missed   *)
(* its deadline has killed the process or not.                             *)
TransitionFails(o) ==
  /\ Running(o, "transition")
  /\ "runtime" \in Faults \/ (Reloading /\ child # "running")
  /\ \/ /\ Reloading
        /\ served' \in (IF child = "running" THEN {served, Target} ELSE {None})
        /\ child' = child
     \/ /\ Starting
        /\ UNCHANGED caddy
     \/ /\ Stopping /\ receipt.wasRunning
        /\ \/ child' = "none" /\ served' = None
           \/ UNCHANGED caddy
  /\ Fail("rejected")
  /\ UNCHANGED <<fenceVars, published, disk, clock>>

-----------------------------------------------------------------------------
(* execute_registration_transaction after the runtime transition.  From    *)
(* here to the commit or the failure the worker holds the coordinator and  *)
(* the inner lock, so that no heartbeat gets in between.                   *)
Publish(o) ==
  /\ Running(o, "publish")
  /\ BeginFinalCommit(o)
  /\ txn' = [txn EXCEPT !.registrations =
               MergeLiveHeartbeats(@, registrations)]
  /\ receipt' = receipt
  /\ Continue("accept")
  /\ UNCHANGED <<published, caddy, disk, clock>>

InnerLocked == step \in {"accept", "persist", "commit"}

(* The file that the receipt leaves behind when it is accepted.            *)
AcceptedFile ==
  CASE receipt.kind = "apply" -> Target
    [] receipt.kind = "stop"  -> None
    [] receipt.kind = "none"  -> effective

Accept(o) ==
  /\ Running(o, "accept")
  /\ effective' = AcceptedFile
  /\ UNCHANGED <<txn, receipt>>
  /\ Continue("persist")
  /\ UNCHANGED <<fenceVars, published, caddy, stored, clock>>

(* The file may have been replaced before the error.                       *)
AcceptFails(o) ==
  /\ Running(o, "accept")
  /\ "file" \in Faults
  /\ receipt.kind # "none"
  /\ effective' \in {effective, AcceptedFile}
  /\ GuardDrop(o)
  /\ Fail("rejected")
  /\ UNCHANGED <<published, caddy, stored, clock>>

(* Mutant of Persist: publishes as soon as SQLite has the new state.       *)
PersistAndPublish(o) ==
  /\ Running(o, "persist")
  /\ stored' = Persisted(stored, txn.registrations)
  /\ registrations' = txn.registrations
  /\ UNCHANGED <<txn, receipt>>
  /\ Continue("commit")
  /\ UNCHANGED <<fenceVars, coordinator, caddy, effective, clock>>

Persist(o) ==
  /\ Running(o, "persist")
  /\ ~UniqueViolated(stored, txn.registrations)
  /\ stored' = Persisted(stored, txn.registrations)
  /\ UNCHANGED <<txn, receipt>>
  /\ Continue("commit")
  /\ UNCHANGED <<fenceVars, published, caddy, effective, clock>>

(* Mutant of PersistFails: the rows written before the error stay.         *)
PersistFailsHalfway(o) ==
  /\ Running(o, "persist")
  /\ "storage" \in Faults
  /\ stored' = Persisted(stored, txn.registrations)
  /\ GuardDrop(o)
  /\ Fail("rejected")
  /\ UNCHANGED <<published, caddy, effective, clock>>

(* persist_desired_state returns Err.  Database::call lets an operation    *)
(* that outlives its deadline run to its end and drops its result.         *)
PersistFails(o) ==
  /\ Running(o, "persist")
  /\ \/ /\ "storage" \in Faults \/ UniqueViolated(stored, txn.registrations)
        /\ stored' = stored
     \/ /\ "deadline" \in Faults
        /\ ~UniqueViolated(stored, txn.registrations)
        /\ stored' = Persisted(stored, txn.registrations)
  /\ GuardDrop(o)
  /\ Fail("rejected")
  /\ UNCHANGED <<published, caddy, effective, clock>>

Commit(o) ==
  /\ Running(o, "commit")
  /\ GuardCommit(o)
  /\ registrations' = txn.registrations
  /\ coordinator' = txn.coordinator
  /\ End(o, "accepted")
  /\ UNCHANGED <<caddy, disk, clock>>

-----------------------------------------------------------------------------
(* rollback_runtime_transition.                                            *)

(* reload needs a live process; start refuses to own a second one; both    *)
(* need a previous configuration.                                          *)
CanRollback ==
  CASE receipt.kind = "none" -> TRUE
    [] Reloading -> child = "running" /\ receipt.previous # None
    [] Starting  -> TRUE
    [] Stopping  ->
         receipt.wasRunning => child = "none" /\ receipt.previous # None

Rollback(o) ==
  /\ Running(o, "undo")
  /\ CanRollback
  /\ IF receipt.kind = "none"
     THEN UNCHANGED <<caddy, effective>>
     ELSE /\ effective' = receipt.previous
          /\ child' = IF receipt.wasRunning THEN "running" ELSE "none"
          /\ served' = IF receipt.wasRunning THEN receipt.previous ELSE None
  /\ End(o, outcome)
  /\ UNCHANGED <<fenceVars, published, stored, clock>>

(* The fail-closed cleanup: stop Caddy and restore the file, either of     *)
(* which may fail as well, and drain the daemon.                           *)
RollbackFails(o) ==
  /\ Running(o, "undo")
  /\ receipt.kind # "none"
  /\ "rollback" \in Faults \/ ~CanRollback
  /\ \/ /\ child' = "none"
        /\ served' = None
        /\ effective' = receipt.previous
     \/ "rollback" \in Faults /\ UNCHANGED <<caddy, effective>>
  /\ BeginDrain
  /\ End(o, outcome)
  /\ UNCHANGED <<published, stored, clock>>

-----------------------------------------------------------------------------
(* The worker meets a fence that no longer lets it commit: before a        *)
(* transaction, before the runtime command, or before publication.         *)

WantsFence(o) ==
  CASE request[o].kind = "heartbeat" -> ~InnerLocked
    [] request[o].kind = "register"  -> FALSE
    [] OTHER                         -> step = "idle"

(* Mutant of FencedAtStart: waits for the end of the drain.                *)
FencedWhileActive(o) ==
  /\ worker[o] = "queued"
  /\ WantsFence(o)
  /\ lifecycle.phase = "active" /\ ~CanCommit(o)
  /\ worker' = [worker EXCEPT ![o] = "fenced"]
  /\ UNCHANGED <<fenceVars, published, request, client, txnVars, caddy, disk,
                 clock>>

FencedAtStart(o) ==
  /\ worker[o] = "queued"
  /\ WantsFence(o)
  /\ ~CanCommit(o)
  /\ worker' = [worker EXCEPT ![o] = "fenced"]
  /\ UNCHANGED <<fenceVars, published, request, client, txnVars, caddy, disk,
                 clock>>

FencedBeforeRuntime(o) ==
  /\ Running(o, "begin")
  /\ ~Blocked(Candidate, txn.registrations)
  /\ ~CanCommit(o)
  /\ End(o, "fenced")
  /\ UNCHANGED <<fenceVars, published, caddy, disk, clock>>

FencedBeforeCommit(o) ==
  /\ Running(o, "publish")
  /\ ~CanCommit(o)
  /\ Fail("fenced")
  /\ UNCHANGED <<fenceVars, published, caddy, disk, clock>>

(* heartbeat_fenced.                                                       *)
Heartbeat(o) ==
  /\ worker[o] = "queued"
  /\ request[o].kind = "heartbeat"
  /\ ~InnerLocked
  /\ CommitFinal(o)
  /\ IF Found(registrations, request[o])
     THEN /\ worker' = [worker EXCEPT ![o] = "accepted"]
          /\ registrations' =
               [registrations EXCEPT ![request[o].id].heartbeat = clock]
     ELSE /\ worker' = [worker EXCEPT ![o] = "rejected"]
          /\ UNCHANGED registrations
  /\ UNCHANGED <<coordinator, request, client, txnVars, caddy, disk, clock>>

-----------------------------------------------------------------------------
(* supervise_owned_mutation_request and write_owned_mutation_result.       *)

Told(o, answer) ==
  /\ client' = [client EXCEPT ![o] = answer]
  /\ UNCHANGED <<published, request, worker, txnVars, caddy, disk, clock>>

(* Mutant of SuperviseWorker: loses the Err of a worker.                   *)
SuperviseWorkerUnlessFenced(o) ==
  /\ client[o] = "waiting"
  /\ worker[o] \in Ended \ {"fenced"}
  /\ Told(o, worker[o])
  /\ Complete(o)

(* The worker ends first.  An Err from it closes the connection.           *)
SuperviseWorker(o) ==
  /\ client[o] = "waiting"
  /\ worker[o] \in Ended
  /\ IF worker[o] = "fenced"
     THEN Told(o, "closed") /\ UNCHANGED fenceVars
     ELSE Told(o, worker[o]) /\ Complete(o)

(* Mutant of SuperviseTimeout: answers without looking at the outcome.     *)
SuperviseTimeoutBlindly(o) ==
  /\ "timeout" \in Faults
  /\ client[o] = "waiting"
  /\ Told(o, "refused")
  /\ TryRevoke(o)

(* The request deadline passes first, or before the answer is written.     *)
SuperviseTimeout(o) ==
  /\ "timeout" \in Faults
  /\ client[o] = "waiting"
  /\ Told(o, CASE RevokeOutcome(permit[o]) = "Finalized"      -> "awaiting"
               [] RevokeOutcome(permit[o]) = "Revoked"        -> "refused"
               [] RevokeOutcome(permit[o]) = "AlreadyRevoked" -> "closed")
  /\ TryRevoke(o)

(* request_drain is cancelled once the daemon drains.                      *)
SuperviseShutdown(o) ==
  /\ client[o] = "waiting"
  /\ lifecycle.phase = "draining"
  /\ Told(o, IF RevokeOutcome(permit[o]) = "Finalized"
             THEN "awaiting"
             ELSE "refused")
  /\ TryRevoke(o)

SuperviseCancelled(o) ==
  /\ client[o] = "waiting"
  /\ Cancelled(o)
  /\ Told(o, "awaiting")
  /\ UNCHANGED fenceVars

(* The supervisor gave up the race and writes whatever the worker returns. *)
AnswerAwaited(o) ==
  /\ client[o] = "awaiting"
  /\ worker[o] \in Ended
  /\ Told(o, IF worker[o] = "fenced" THEN "closed" ELSE worker[o])
  /\ UNCHANGED fenceVars

(* Past the shutdown grace: mutation_cancellation makes the worker revoke  *)
(* its own fence, connection_cancellation drops the supervisor.            *)
CancelWorker(o) ==
  /\ lifecycle.phase = "draining"
  /\ worker[o] \in Pending
  /\ TryRevoke(o)
  /\ UNCHANGED <<published, tasks, txnVars, caddy, disk, clock>>

CancelConnection(o) ==
  /\ lifecycle.phase = "draining"
  /\ client[o] \in Supervised
  /\ Told(o, "closed")
  /\ UNCHANGED fenceVars

(* Worker and supervisor are gone, and with them the fence.                *)
Forget(o) ==
  /\ worker[o] \in Ended
  /\ client[o] \notin Supervised
  /\ Release(o)
  /\ request' = [request EXCEPT ![o] = None]
  /\ worker' = [worker EXCEPT ![o] = "none"]
  /\ client' = [client EXCEPT ![o] = "none"]
  /\ UNCHANGED <<published, txnVars, caddy, disk, clock>>

-----------------------------------------------------------------------------
Drain ==
  /\ "drain" \in Faults
  /\ lifecycle.phase = "active"
  /\ BeginDrain
  /\ UNCHANGED <<published, tasks, txnVars, caddy, disk, clock>>

CaddyExits ==
  /\ "caddyExit" \in Faults
  /\ child = "running"
  /\ child' = "exited"
  /\ served' = None
  /\ UNCHANGED <<fenceVars, published, tasks, txnVars, disk, clock>>

Tick ==
  /\ clock < MaxTick
  /\ clock' = clock + 1
  /\ UNCHANGED <<fenceVars, published, tasks, txnVars, caddy, disk>>

(* The process ends, at the end of its shutdown or by a crash, and its     *)
(* Caddy with it; the next one starts from the disk alone.                 *)
Restart ==
  /\ lifecycle.phase = "draining" \/ "crash" \in Faults
  /\ FenceRestart
  /\ registrations' = EmptyMap
  /\ coordinator' = InitialCoordinator
  /\ request' = [o \in Ops |-> None]
  /\ worker' = [o \in Ops |-> "none"]
  /\ client' = [o \in Ops |-> "none"]
  /\ step' = "idle"
  /\ txn' = NoTransaction
  /\ receipt' = NoReceipt
  /\ outcome' = "none"
  /\ child' = "none"
  /\ served' = None
  /\ UNCHANGED <<disk, clock>>

Start(o) ==
  \/ BeginEdit(o)
  \/ BeginRegister(o)
  \/ FencedAtStart(o)
  \/ Heartbeat(o)

Advance(o) ==
  \/ Prepare(o)
  \/ KeepCurrent(o)
  \/ BeginRuntime(o)
  \/ BeginRuntimeFails(o)
  \/ FencedBeforeRuntime(o)
  \/ Transition(o)
  \/ TransitionFails(o)
  \/ Publish(o)
  \/ FencedBeforeCommit(o)
  \/ Accept(o)
  \/ AcceptFails(o)
  \/ Persist(o)
  \/ PersistFails(o)
  \/ Commit(o)
  \/ Rollback(o)
  \/ RollbackFails(o)

Supervise(o) ==
  \/ SuperviseWorker(o)
  \/ SuperviseTimeout(o)
  \/ SuperviseShutdown(o)
  \/ SuperviseCancelled(o)
  \/ AnswerAwaited(o)
  \/ CancelWorker(o)
  \/ CancelConnection(o)

OpNext(o) ==
  \/ Submit(o)
  \/ SubmitCleanup(o)
  \/ Start(o)
  \/ Advance(o)
  \/ Supervise(o)
  \/ Forget(o)

Next == Drain \/ CaddyExits \/ Tick \/ Restart \/ \E o \in Ops : OpNext(o)

Spec == Init /\ [][Next]_vars

(* config_operation and the inner lock are fair queues, every command and  *)
(* every SQLite call has a deadline, and the supervisor is a task of its   *)
(* own: a mutation that has been admitted is executed to its end.          *)
FairSpec ==
  /\ Spec
  /\ \A o \in Ops :
       /\ SF_vars(Start(o))
       /\ WF_vars(Advance(o))
       /\ WF_vars(SuperviseWorker(o) \/ AnswerAwaited(o))

-----------------------------------------------------------------------------
(* No transaction is in progress and the daemon has not given up on Caddy. *)
Settled == step = "idle" /\ lifecycle.phase = "active"

(* At no time do two enabled entrypoints claim the same domain in the      *)
(* published state, although the conflict check (registrations.rs,         *)
(* active_domain_ownership_conflict) only looks at the candidate of one    *)
(* mutation, before the awaits of its transaction, and is skipped by       *)
(* mutations that disable or remove.                                       *)
DomainExclusive == Exclusive(registrations)

(* What a client is told is what happened, whoever won the race between    *)
(* its worker, its deadline and the drain: an accepted mutation has been   *)
(* published, and one that was refused or (heartbeats, which commit the    *)
(* lookup itself, apart) rejected has not and will not be.                 *)
AnswersAreTruthful ==
  \A o \in Ops :
    /\ client[o] = "accepted" => committed[o]
    /\ client[o] = "refused" => ~committed[o]
    /\ client[o] = "rejected" /\ request[o].kind # "heartbeat"
         => ~committed[o]

(* Between transactions the published hash, the effective file and the     *)
(* configuration that the owned Caddy has loaded are one and the same,     *)
(* whatever failed, was rolled back or exited before.                      *)
RuntimeMatchesPublished ==
  Settled =>
    /\ coordinator.hash # None => effective = coordinator.hash
    /\ child = "running" => served = coordinator.hash /\ served # None

(* While the daemon reports "applied", the configuration it reports routes *)
(* exactly the active domains of the enabled entrypoints: no adaptation,   *)
(* activation or removal was published without its routes, and none of     *)
(* those routes is the placeholder or has lost its hosts.                  *)
AppliedServesActiveDomains ==
  coordinator.status = "applied" =>
    coordinator.hash =
      {p \in (DOMAIN registrations) \X Domains :
         Claims(registrations, p[1], p[2])}

(* Between transactions SQLite holds the desired state of every directory  *)
(* that has a registration: a mutation that was answered with an error has *)
(* left nothing behind in it.                                              *)
StorageMatchesPublished ==
  Settled =>
    \A dir \in UsedDirs(registrations) :
      /\ dir \in DOMAIN stored
      /\ stored[dir] = RowOf(registrations, LastInDir(registrations, dir))

(* A published heartbeat never goes back, although a transaction works on  *)
(* a copy of the registrations that it took before its awaits.             *)
HeartbeatNeverGoesBack ==
  [][\A i \in DOMAIN registrations \cap DOMAIN registrations' :
       registrations'[i].heartbeat >= registrations[i].heartbeat]_vars

(* Whom a registration belongs to.                                         *)
OwnerOf(regs) ==
  [i \in Ids |-> IF i \in DOMAIN regs THEN regs[i].nonce ELSE None]

Owners ==
  INSTANCE Ownership WITH owner <- OwnerOf(registrations), job <- request

(* A registration never changes hands: the whole service, with its copies, *)
(* transactions and rollbacks, changes owners only as Ownership specifies: *)
(* by the commit of a mutation of the session that gains or gives up the   *)
(* id, so that another session gets it only after its owner, or the        *)
(* cleanup of its connection, has withdrawn it.                            *)
OwnersRefined == Owners!OwnershipSpec

(* The published state changes only by a mutation that commits in that     *)
(* step, and once the daemon drains only by one whose final commit had     *)
(* begun before; or it starts empty with a new process.                    *)
Emptied ==
  FenceRestart /\ registrations' = EmptyMap /\ coordinator' = InitialCoordinator
PublishedOnlyByCommit ==
  [][published' # published /\ ~Emptied =>
       \E o \in Ops :
         /\ ~committed[o] /\ committed'[o]
         /\ lifecycle.phase = "active" \/ permit[o] = "committing"]_vars

(* Every fence of the daemon behaves as OperationFence specifies.          *)
FencesRefined == FenceSpec

(* A mutation that has been admitted is executed to its end ...            *)
MutationsEnd ==
  \A o \in Ops : worker[o] \in Pending ~> worker[o] \notin Pending

(* ... and its client is answered, or its connection closed.               *)
ClientsAreAnswered ==
  \A o \in Ops : client[o] \in Supervised ~> client[o] \notin Supervised
=============================================================================
