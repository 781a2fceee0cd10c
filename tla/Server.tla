------------------------------- MODULE Server -------------------------------
(***************************************************************************)
(* The life of one daemon server (ipc.rs, run_until; state/shutdown.rs):   *)
(* it serves connections until it is asked to stop or fails, then drains   *)
(* the handlers, stops Caddy, closes SQLite and returns.  Each phase has a *)
(* deadline, which may pass at any time; work that outlives its phase goes *)
(* on beside the next ones.  Connections models the handlers; what this    *)
(* module adds to their steps is the Caddy process.                        *)
(***************************************************************************)
EXTENDS Connections

\* Faults may also hold "accept" (the listener fails), "caddyExit", "stop" (Caddy
\* does not stop as asked) and "storage" (SQLite does not close in time).
ASSUME ShutdownAssumption == "shutdown" \in Faults

VARIABLES
  requested,     \* ShutdownSignal, or the signal of the terminal
  phase,         \* where run_until stands
  child,         \* the owned Caddy process runs
  storage,       \* the SQLite connection
  stopAccepted,  \* ShutdownPreparation.response.accepted
  handlerFailed, \* handler_failure
  serverFailed,  \* server_failure
  result         \* what run_until returned

outcomeVars == <<stopAccepted, handlerFailed, serverFailed, result>>
allVars == <<vars, requested, phase, child, storage, outcomeVars>>

ServerTypeOK ==
  /\ TypeOK
  /\ requested \in BOOLEAN
  /\ phase \in {"serving", "handlers", "runtime", "stopping", "force",
                "storage", "returned"}
  /\ child \in BOOLEAN
  /\ storage \in {"open", "closed", "failed"}
  /\ {stopAccepted, handlerFailed, serverFailed} \subseteq BOOLEAN
  /\ result \in {"none", "ok", "error"}

ServerInit ==
  /\ ConnInit
  /\ requested = FALSE
  /\ phase = "serving"
  /\ child = FALSE
  /\ storage = "open"
  /\ stopAccepted = FALSE
  /\ handlerFailed = FALSE
  /\ serverFailed = FALSE
  /\ result = "none"

-----------------------------------------------------------------------------
(* Steps of the connections, with what they do to Caddy.  A transaction    *)
(* starts, reloads or stops it; a rollback may find it gone or start it    *)
(* again, and one that fails asks the daemon to shut down.                 *)
CaddyStep(c) ==
  /\ Apply(c) \/ Undo(c)
  /\ child' \in BOOLEAN
  /\ UNCHANGED requested

FailClosed(c) ==
  /\ UndoFails(c)
  /\ child' \in {FALSE, child}
  /\ requested' = TRUE

OtherJob(c) ==
  \/ Refuse(c)
  \/ Begin(c)
  \/ Abandon(c)
  \/ Publish(c)
  \/ Fail(c)
  \/ Commit(c)
  \/ Record(c)
  \/ Panic(c)
  \/ CancelWorker(c)

ConnStep(c) ==
  /\ \/ CaddyStep(c)
     \/ FailClosed(c)
     \/ /\ \/ phase = "serving" /\ Accept(c)
           \/ HandlerNext(c)
           \/ OtherJob(c)
           \/ CleanupNext(c)
        /\ UNCHANGED <<child, requested>>
  /\ UNCHANGED <<phase, storage, outcomeVars>>

CaddyExits ==
  /\ "caddyExit" \in Faults
  /\ child
  /\ child' = FALSE
  /\ UNCHANGED <<vars, requested, phase, storage, outcomeVars>>

-----------------------------------------------------------------------------
(* run_until, from the request to the end of the handlers.                 *)
RequestShutdown ==
  /\ phase = "serving" /\ ~requested
  /\ requested' = TRUE
  /\ UNCHANGED <<vars, phase, child, storage, outcomeVars>>

(* The loop ends, for whichever of its reasons select! sees first.         *)
LoopEnds ==
  /\ phase = "serving"
  /\ \/ requested /\ UNCHANGED serverFailed
     \/ (registry.panicked \/ "accept" \in Faults) /\ serverFailed' = TRUE
  /\ phase' = "handlers"
  /\ BeginShutdown
  /\ UNCHANGED <<requested, child, storage, stopAccepted, handlerFailed, result>>

(* request_drain.cancel(), then mutation_tasks.close().                    *)
RefuseWork ==
  /\ phase = "handlers"
  /\ CancelRequests \/ CloseRegistry
  /\ UNCHANGED <<requested, phase, child, storage, outcomeVars>>

GraceOver ==
  /\ phase = "handlers"
  /\ CancelHandlers
  /\ UNCHANGED <<requested, phase, child, storage, outcomeVars>>

TasksEnded == \A c \in Conns : Free(c)

HandlersOver(failed) ==
  /\ phase = "handlers" /\ registry.closed
  /\ phase' = "runtime"
  /\ handlerFailed' = failed
  /\ UNCHANGED <<vars, requested, child, storage, stopAccepted, serverFailed, result>>

(* Mutant of HandlersJoined: joins the connection tasks only.              *)
ConnectionsJoined ==
  /\ \A c \in Conns : handler[c] = "none"
  /\ HandlersOver(registry.panicked)

(* drain_handler_tasks joins connections, workers and cleanups.            *)
HandlersJoined ==
  /\ TasksEnded
  /\ HandlersOver(registry.panicked)

(* Mutant of HandlersLate: waits for them without a deadline.              *)
HandlersAwaited ==
  /\ cancelled /\ TasksEnded
  /\ HandlersOver(registry.panicked)

HandlersLate ==
  /\ cancelled /\ ~TasksEnded
  /\ HandlersOver(TRUE)

-----------------------------------------------------------------------------
(* prepare_shutdown_until, force_stop_runtime, shutdown_storage_until.     *)
Enter(at) ==
  /\ phase' = at
  /\ UNCHANGED <<requested, storage, handlerFailed, serverFailed, result>>

(* Mutant of AcquireOperation: does not wait for a transaction.            *)
SeizeOperation ==
  /\ phase = "runtime"
  /\ operation' = Stopper
  /\ UNCHANGED <<fenceVars, owner, handler, cleanup, ownedVars, job, worker,
                 shutdownVars>>
  /\ Enter("stopping")
  /\ UNCHANGED <<child, stopAccepted>>

AcquireOperation ==
  /\ phase = "runtime"
  /\ HoldOperation
  /\ Enter("stopping")
  /\ UNCHANGED <<child, stopAccepted>>

(* A transaction holds config_operation until the deadline.                *)
AcquireLate ==
  /\ phase = "runtime" /\ operation # None
  /\ Enter("force")
  /\ UNCHANGED <<vars, child, stopAccepted>>

(* stop_until ends quiescent; a Caddy that had to be killed is an error.   *)
StopCaddy ==
  /\ phase = "stopping"
  /\ child' = FALSE
  /\ stopAccepted' \in {TRUE, "stop" \notin Faults}
  /\ ReleaseOperation
  /\ Enter("storage")

StopFails ==
  /\ phase = "stopping" /\ "stop" \in Faults
  /\ child' \in {FALSE, child}
  /\ ReleaseOperation
  /\ Enter("force")
  /\ UNCHANGED stopAccepted

(* It has config_operation for itself while it kills Caddy.                *)
ForceStop ==
  /\ phase = "force" /\ operation = None
  /\ child' = FALSE
  /\ Enter("storage")
  /\ UNCHANGED <<vars, stopAccepted>>

Return(value) ==
  /\ phase' = "returned"
  /\ result' = value
  /\ UNCHANGED <<vars, requested, stopAccepted, handlerFailed, serverFailed>>

(* The force-stop fails or cannot begin in time: run_until returns there.  *)
ForceStopFails ==
  /\ phase = "force"
  /\ operation # None \/ "stop" \in Faults
  /\ child' \in {child, child /\ operation # None}
  /\ Return("error")
  /\ UNCHANGED storage

CloseDatabase ==
  /\ phase = "storage"
  /\ storage' \in {"closed"} \cup (IF "storage" \in Faults THEN {"failed"} ELSE {})
  /\ UNCHANGED child

CloseStorage ==
  /\ CloseDatabase
  /\ Return(IF /\ stopAccepted /\ storage' = "closed"
               /\ ~handlerFailed /\ ~serverFailed
            THEN "ok" ELSE "error")

(* The process ends, taking Caddy with it, and the next daemon starts.     *)
ServerRestart ==
  /\ phase = "returned"
  /\ Restart
  /\ requested' = FALSE
  /\ phase' = "serving"
  /\ child' = FALSE
  /\ storage' = "open"
  /\ stopAccepted' = FALSE
  /\ handlerFailed' = FALSE
  /\ serverFailed' = FALSE
  /\ result' = "none"

Teardown ==
  \/ LoopEnds
  \/ RefuseWork
  \/ GraceOver
  \/ HandlersJoined
  \/ HandlersLate
  \/ AcquireOperation
  \/ AcquireLate
  \/ StopCaddy
  \/ StopFails
  \/ ForceStop
  \/ ForceStopFails
  \/ CloseStorage

ServerNext ==
  \/ Teardown
  \/ RequestShutdown
  \/ CaddyExits
  \/ ServerRestart
  \/ \E c \in Conns : ConnStep(c)

ServerSpec == ServerInit /\ [][ServerNext]_allVars

(* run_until is polled and its deadlines pass.  Nothing is assumed of      *)
(* clients, workers, cleanups or Caddy.                                    *)
FairServerSpec == ServerSpec /\ WF_allVars(Teardown)

-----------------------------------------------------------------------------
(* The server drives its connections only as Connections allows, in the    *)
(* order of its phases: what is shown of Connections holds here as well.   *)
ConnectionsRefined == Spec

(* run_until returns Ok only when nothing of the daemon is left: no Caddy, *)
(* no open database, no handler, worker or cleanup that may still act.     *)
OkMeansQuiescent ==
  result = "ok" => ~child /\ storage = "closed" /\ TasksEnded

(* Once Caddy is stopped no transaction starts it again, not even one that *)
(* outlived every deadline and gets config_operation only now, and none is *)
(* past its fence when SQLite closes.                                      *)
StoppedForGood ==
  phase = "storage" \/ storage # "open" =>
    /\ ~child
    /\ \A c \in Conns : worker[c] \notin {"applied", "committing", "undoing"}

(* A requested shutdown ends, whatever clients and workers do (ipc.rs,     *)
(* ShutdownTimeline).                                                      *)
ShutdownEnds == requested ~> phase = "returned"
=============================================================================
