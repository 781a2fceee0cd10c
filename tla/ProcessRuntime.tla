--------------------------- MODULE ProcessRuntime ---------------------------
(***************************************************************************)
(* The one Caddy child of a daemon (runtime/process.rs and below it,       *)
(* runtime_file.rs, process_tree.rs, caddy_image.rs), step by step: how it *)
(* is started, verified, reloaded, stopped, killed and joined, the         *)
(* candidate files of a transaction, and the receipt by which the caller   *)
(* accepts or rolls back.  Registrations uses the same operations as       *)
(* single steps.                                                           *)
(*                                                                         *)
(* The operations of the runtime are serialized by config_operation: the   *)
(* daemon is one program with a program counter.  Around it, Caddy exits   *)
(* or becomes ready when it likes, log readers read, the Caddy executable  *)
(* is upgraded in place, and the daemon crashes.                           *)
(*                                                                         *)
(* A wait of the code is a step that an event enables and another that its *)
(* deadline takes.  The lock of the child is never waited for, because     *)
(* inspect only tries it.  A process that was killed is gone before the    *)
(* next one is spawned, and a Caddy that survives a crash of its daemon    *)
(* (as it does on Unix) has ended when the next daemon starts one: no      *)
(* other program has the admin endpoint.                                   *)
(*                                                                         *)
(* What the readers and the operations log goes to LogStore.               *)
(***************************************************************************)
EXTENDS CaddyResolver, FiniteSets

CONSTANTS
  Configs,       \* rendered configurations
  Installations, \* what a daemon may find when it starts
  Upgrades,      \* executables that may be put in the place of the pinned one
  Channels,      \* streams of the child's pipes: "stdout", "stderr"
  Faults,        \* "spawn", "reload", "file", "system", "upgrade", "crash";
                 \* see the actions
  None

ASSUME ConfigsAssumption == None \notin Configs

VARIABLES
  process,    \* the Caddy last spawned: "none", "booting", "up", "killed",
              \* or "exited" and not yet reaped
  serves,     \* the configuration it was given last
  launched,   \* the executable it was spawned from
  pinned,     \* the executable the daemon has pinned
  image,      \* what its path holds now
  handle,     \* who owns the ProcessTreeChild: "start", "runtime" or None
  readers,    \* running tasks of log_tasks
  effective,  \* the effective configuration file
  candidates, \* candidate files on disk: "staged", "rollback"
  pc,         \* where the daemon is
  txn,        \* the operation it performs: see Txns
  stopError,  \* stop_error of stop_until
  snapshot,   \* the runtime state inspect falls back to
  quiet       \* the last stop ended with quiescent = true

childVars == <<process, serves, launched, handle, readers, quiet>>
fileVars == <<effective, candidates>>
imageVars == <<pinned, image>>
vars == <<childVars, fileVars, imageVars, pc, txn, stopError, snapshot>>

Alive == process \in {"booting", "up", "killed"}

(* Running, and in the slot of the runtime.                                *)
Owned == handle = "runtime" /\ Alive

Steps ==
  {"closed", "idle", "spawn", "exec", "reverify", "check", "initial",
   "cleanup", "reload", "stop", "waiting", "killwait", "join", "force",
   "forcewait", "forcejoin", "receipt", "restore", "exit"}

(* The kinds of operation and the phases they go through.  result is what  *)
(* the caller was told last: "done", "undone" (failed, and rolled back) or *)
(* "unclean" (failed, and so did something of the fail-closed cleanup).    *)
Txns ==
  [kind : {"none", "apply", "stop", "close"},
   phase : {"forward", "back", "closing"},
   target : Configs \cup {None}, previous : Configs \cup {None},
   was : BOOLEAN, ok : BOOLEAN, result : {"done", "undone", "unclean"}]

Begun(kind, target, was, result) ==
  [kind |-> kind, phase |-> "forward", target |-> target,
   previous |-> IF kind = "close" THEN None ELSE effective,
   was |-> was, ok |-> TRUE, result |-> result]

Ended(result) ==
  [kind |-> "none", phase |-> "forward", target |-> None, previous |-> None,
   was |-> FALSE, ok |-> TRUE, result |-> result]

RuntimeTypeOK ==
  /\ process \in {"none", "booting", "up", "killed", "exited"}
  /\ serves \in Configs \cup {None}
  /\ handle \in {"start", "runtime", "none"}
  /\ readers \subseteq Channels
  /\ effective \in Configs \cup {None}
  /\ candidates \subseteq {"staged", "rollback"}
  /\ pc \in Steps
  /\ txn \in Txns
  /\ stopError \in BOOLEAN
  /\ snapshot \in {"idle", "running", "unhealthy"}
  /\ quiet \in BOOLEAN

Init ==
  /\ process = "none" /\ serves = None /\ launched = NoReference
  /\ pinned = NoReference /\ image = NoReference
  /\ handle = "none" /\ readers = {} /\ quiet = TRUE
  /\ effective = None /\ candidates = {}
  /\ pc = "closed" /\ txn = Ended("done") /\ stopError = FALSE
  /\ snapshot = "idle"

-----------------------------------------------------------------------------
(* Where a step of the program goes.                                       *)

Goto(step) == pc' = step /\ UNCHANGED <<txn, candidates>>

Finish(result) == pc' = "idle" /\ txn' = Ended(result) /\ candidates' = {}

(* rollback failed: its candidates are dropped, Caddy is stopped, and the  *)
(* file is restored, whatever else is wrong.                               *)
FailClosed ==
  /\ txn' = [txn EXCEPT !.phase = "closing"]
  /\ pc' = "stop"
  /\ candidates' = {}

(* start, reload or stop returns to the phase that called it.              *)
Return(ok) ==
  \/ txn.kind = "close" /\ Goto("exit")
  \/ /\ txn.kind # "close" /\ txn.phase = "forward"
     /\ pc' = "receipt" /\ txn' = [txn EXCEPT !.ok = ok]
     /\ UNCHANGED candidates
  \/ txn.kind # "close" /\ txn.phase = "back" /\ ok /\ Goto("restore")
  \/ txn.kind # "close" /\ txn.phase = "back" /\ ~ok /\ FailClosed
  \/ /\ txn.kind # "close" /\ txn.phase = "closing"
     /\ pc' = "restore" /\ txn' = [txn EXCEPT !.ok = ok]
     /\ UNCHANGED candidates

(* The configuration that this phase starts or reloads.                    *)
Wanted == IF txn.phase = "forward" THEN txn.target ELSE txn.previous

(* verify_for_spawn, and the check after a spawn.                          *)
ImageVerified == Verified(pinned, image)

(* The child has been waited for and its handle is dropped, if there is    *)
(* one.                                                                    *)
Reaped ==
  /\ process' = IF handle = "none" THEN process ELSE "none"
  /\ handle' = "none"
  /\ serves' = None /\ launched' = NoReference
  /\ UNCHANGED <<readers, quiet>>

(* start_kill of the owned child.                                          *)
Killed ==
  /\ process' = IF Alive THEN "killed" ELSE process
  /\ UNCHANGED <<serves, launched, handle, readers, quiet>>

SystemFails == "system" \in Faults

-----------------------------------------------------------------------------
(* start: the pinned image is verified before and after it is executed.    *)

Verify ==
  /\ pc = "spawn"
  /\ IF handle = "none" /\ ImageVerified THEN Goto("exec") ELSE Return(FALSE)
  /\ UNCHANGED <<childVars, effective, imageVars, stopError, snapshot>>

Exec ==
  /\ pc = "exec" /\ process = "none"
  /\ process' = "booting" /\ serves' = Wanted /\ launched' = image
  /\ handle' = "start" /\ quiet' = FALSE
  /\ Goto("reverify")
  /\ UNCHANGED <<readers, effective, imageVars, stopError, snapshot>>

ExecFails ==
  /\ pc = "exec" /\ "spawn" \in Faults
  /\ Return(FALSE)
  /\ UNCHANGED <<childVars, effective, imageVars, stopError, snapshot>>

(* The log readers are spawned once the image is known to be the pinned    *)
(* one; otherwise the child is terminated.                                 *)
Reverify ==
  /\ pc = "reverify"
  /\ IF ImageVerified
     THEN /\ readers' = Channels /\ Goto("check")
          /\ UNCHANGED <<process, serves, launched, handle, quiet>>
     ELSE Killed /\ Goto("cleanup")
  /\ UNCHANGED <<effective, imageVars, stopError, snapshot>>

StartCheckElapses ==
  /\ pc = "check" /\ process # "exited"
  /\ Goto("initial")
  /\ UNCHANGED <<childVars, effective, imageVars, stopError, snapshot>>

ChildExitsInStart ==
  /\ pc \in {"check", "initial"} /\ process = "exited"
  /\ Reaped /\ Return(FALSE)
  /\ UNCHANGED <<effective, imageVars, stopError, snapshot>>

(* The Caddy at the admin endpoint has taken the configuration.            *)
Delivered == process = "up" /\ serves' = Wanted

InitialConfigAccepted ==
  /\ pc = "initial" /\ ImageVerified /\ Delivered
  /\ handle' = "runtime" /\ snapshot' = "running"
  /\ Return(TRUE)
  /\ UNCHANGED <<process, launched, readers, quiet, effective, imageVars,
                 stopError>>

InitialDeadlinePasses ==
  /\ pc = "initial" /\ process # "exited"
  /\ Killed /\ Goto("cleanup")
  /\ UNCHANGED <<effective, imageVars, stopError, snapshot>>

(* terminate_and_join, at its end or at its deadline.  The handle of a     *)
(* child that is not joined in time is dropped.                            *)
Cleanup ==
  /\ pc = "cleanup"
  /\ handle' = "none"
  /\ process' = IF process = "exited" THEN "none" ELSE process
  /\ serves' = None /\ launched' = NoReference
  /\ UNCHANGED <<readers, quiet>>
  /\ Return(FALSE)
  /\ UNCHANGED <<effective, imageVars, stopError, snapshot>>

(* reload by a helper process.  A helper that is late is killed, which     *)
(* takes nothing back from a Caddy that has the configuration already.     *)
Reload ==
  /\ pc = "reload" /\ ImageVerified
  /\ \/ Delivered /\ Return(TRUE)
     \/ "reload" \in Faults /\ Delivered /\ Return(FALSE)
     \/ /\ "reload" \in Faults \/ process # "up"
        /\ UNCHANGED serves /\ Return(FALSE)
  /\ UNCHANGED <<process, launched, handle, readers, quiet, effective,
                 imageVars, stopError, snapshot>>

ReloadUnverified ==
  /\ pc = "reload" /\ ~ImageVerified
  /\ Return(FALSE)
  /\ UNCHANGED <<childVars, effective, imageVars, stopError, snapshot>>

-----------------------------------------------------------------------------
(* stop_until, and the force_stop that follows when it was not quiescent.  *)

Joining == pc' = "join" /\ snapshot' = "idle" /\ UNCHANGED <<txn, candidates>>

StopNothing ==
  /\ pc = "stop" /\ ~Owned
  /\ Reaped /\ stopError' = FALSE /\ Joining
  /\ UNCHANGED <<effective, imageVars>>

(* `caddy stop` is refused, or Caddy goes, now or later or never.          *)
AskToStop ==
  /\ pc = "stop" /\ Owned
  /\ Goto("waiting")
  /\ \/ stopError' = TRUE /\ UNCHANGED process
     \/ /\ ImageVerified /\ process = "up"
        /\ stopError' = FALSE /\ process' \in {"up", "exited"}
  /\ UNCHANGED <<serves, launched, handle, readers, quiet, effective,
                 imageVars, snapshot>>

ChildExitsInStop ==
  /\ pc \in {"waiting", "killwait"} /\ process = "exited"
  /\ Reaped /\ Joining
  /\ stopError' = (stopError \/ pc = "killwait")
  /\ UNCHANGED <<effective, imageVars>>

StopDeadlinePasses ==
  /\ pc = "waiting" /\ process # "exited"
  /\ Killed /\ Goto("killwait")
  /\ UNCHANGED <<effective, imageVars, stopError, snapshot>>

(* The kill or the readers are not joined in time, or a call on the child  *)
(* fails: not quiescent.                                                   *)
NotQuiescent ==
  /\ \/ pc \in {"killwait", "join"}
     \/ SystemFails /\ pc \in {"stop", "waiting"} /\ handle = "runtime"
  /\ Goto("force")
  /\ UNCHANGED <<childVars, effective, imageVars, stopError, snapshot>>

(* Mutant: the log readers are not waited for.                             *)
ReadersForgotten ==
  /\ pc = "join"
  /\ quiet' = TRUE /\ Return(~stopError)
  /\ UNCHANGED <<process, serves, launched, handle, readers, effective,
                 imageVars, stopError, snapshot>>

ReadersJoined ==
  /\ pc = "join" /\ readers = {}
  /\ quiet' = TRUE /\ Return(~stopError)
  /\ UNCHANGED <<process, serves, launched, handle, readers, effective,
                 imageVars, stopError, snapshot>>

ForceStop ==
  /\ pc = "force"
  /\ IF Owned
     THEN Killed /\ Goto("forcewait") /\ UNCHANGED snapshot
     ELSE Reaped /\ Goto("forcejoin") /\ snapshot' = "idle"
  /\ UNCHANGED <<effective, imageVars, stopError>>

ForcedExit ==
  /\ pc = "forcewait" /\ process = "exited"
  /\ Reaped /\ Goto("forcejoin") /\ snapshot' = "idle"
  /\ UNCHANGED <<effective, imageVars, stopError>>

ForcedReadersJoined ==
  /\ pc = "forcejoin" /\ readers = {}
  /\ quiet' = TRUE /\ Return(FALSE)
  /\ UNCHANGED <<process, serves, launched, handle, readers, effective,
                 imageVars, stopError, snapshot>>

(* Mutant: nothing bounds the wait for the readers of a stopped Caddy.     *)
ForceFailsUnlessJoining ==
  /\ pc = "forcewait" \/ (SystemFails /\ pc = "force")
  /\ Return(FALSE)
  /\ UNCHANGED <<childVars, effective, imageVars, stopError, snapshot>>

ForceFails ==
  /\ pc \in {"forcewait", "forcejoin"} \/ (SystemFails /\ pc = "force")
  /\ Return(FALSE)
  /\ UNCHANGED <<childVars, effective, imageVars, stopError, snapshot>>

-----------------------------------------------------------------------------
(* The operations, their receipts, and how they end.                       *)

(* begin_apply_config and begin_stop.  A child found dead is reaped first. *)
Begin(kind, target) ==
  LET was == Owned IN
  /\ pc = "idle"
  /\ kind = "stop" /\ was => effective # None
  /\ txn' = Begun(kind, target, was, txn.result)
  /\ candidates' = IF kind = "apply" THEN {"staged"} ELSE {}
  /\ pc' = IF kind = "apply" THEN (IF was THEN "reload" ELSE "spawn")
                             ELSE (IF was THEN "stop" ELSE "receipt")
  /\ IF handle = "runtime" /\ ~was
     THEN Reaped
     ELSE UNCHANGED childVars
  /\ UNCHANGED <<effective, imageVars, stopError, snapshot>>

BeginClose ==
  /\ pc = "idle"
  /\ txn' = Begun("close", None, FALSE, txn.result)
  /\ pc' = "stop"
  /\ UNCHANGED <<childVars, fileVars, imageVars, stopError, snapshot>>

(* Mutant: the candidate is never promoted.                                *)
AcceptUnpromoted ==
  /\ pc = "receipt" /\ txn.ok
  /\ UNCHANGED effective
  /\ Finish("done")
  /\ UNCHANGED <<childVars, imageVars, stopError, snapshot>>

AcceptReceipt ==
  /\ pc = "receipt" /\ txn.ok
  /\ effective' = txn.target
  /\ Finish("done")
  /\ UNCHANGED <<childVars, imageVars, stopError, snapshot>>

(* rollback, from a receipt whose file may be in place already: renaming   *)
(* the candidate is atomic, and the flush of the directory after it may    *)
(* fail.                                                                   *)
RollBack(filed, staged) ==
  /\ pc = "receipt"
  /\ filed => txn.ok /\ "file" \in Faults
  /\ effective' = IF filed THEN txn.target ELSE effective
  /\ LET left == IF filed THEN {} ELSE candidates IN
     IF txn.kind = "apply" /\ ~txn.was
     THEN /\ txn' = [txn EXCEPT !.phase = "back"] /\ pc' = "stop"
          /\ candidates' = left
     ELSE IF ~txn.was
     THEN /\ txn' = [txn EXCEPT !.phase = "back"] /\ pc' = "restore"
          /\ candidates' = left
     ELSE IF staged /\ txn.previous # None
     THEN /\ txn' = [txn EXCEPT !.phase = "back"]
          /\ pc' = IF txn.kind = "apply" THEN "reload" ELSE "spawn"
          /\ candidates' = left \cup {"rollback"}
     ELSE FailClosed /\ (staged \/ "file" \in Faults)
  /\ UNCHANGED <<childVars, imageVars, stopError, snapshot>>

RollBackReceipt == \E filed, staged \in BOOLEAN : RollBack(filed, staged)

(* The previous file is put back: promoted, restored or removed.           *)
Restore ==
  /\ pc = "restore"
  /\ effective' = txn.previous
  /\ Finish(IF txn.ok \/ txn.phase = "back" THEN "undone" ELSE "unclean")
  /\ UNCHANGED <<childVars, imageVars, stopError, snapshot>>

RestoreFails ==
  /\ pc = "restore" /\ "file" \in Faults
  /\ effective' \in {effective, txn.previous}
  /\ IF txn.phase = "back" THEN FailClosed ELSE Finish("unclean")
  /\ UNCHANGED <<childVars, imageVars, stopError, snapshot>>

(* The daemon ends, and with it the child it still owns (KillOnDrop).      *)
Gone ==
  /\ process' = "none" /\ serves' = None /\ launched' = NoReference
  /\ handle' = "none" /\ readers' = {} /\ quiet' = TRUE
  /\ pc' = "closed" /\ txn' = Ended("done")
  /\ stopError' = FALSE /\ snapshot' = "idle"

Exit == pc = "exit" /\ Gone /\ UNCHANGED <<fileVars, imageVars>>

-----------------------------------------------------------------------------
(* What happens around the daemon.                                         *)

(* Pins a Caddy and removes the candidates of an earlier daemon.           *)
Open ==
  /\ pc = "closed"
  /\ \E i \in Installations :
       /\ Pin(i).ok
       /\ pinned' = Pin(i).file /\ image' = Pin(i).file
  /\ candidates' = {} /\ pc' = "idle"
  /\ UNCHANGED <<childVars, effective, txn, stopError, snapshot>>

ChildReady ==
  /\ process = "booting"
  /\ process' = "up"
  /\ UNCHANGED <<serves, launched, handle, readers, quiet, fileVars, imageVars,
                 pc, txn, stopError, snapshot>>

Dies ==
  /\ process' = IF handle = "none" THEN "none" ELSE "exited"
  /\ UNCHANGED <<serves, launched, handle, readers, quiet, fileVars, imageVars,
                 pc, txn, stopError, snapshot>>

ChildExits == process \in {"booting", "up"} /\ Dies
KilledDies == process = "killed" /\ Dies

(* A pipe closes with the last process that holds it, which may be a       *)
(* descendant of Caddy.                                                    *)
ReaderEnds ==
  /\ process \in {"none", "exited"}
  /\ \E c \in readers : readers' = readers \ {c}
  /\ UNCHANGED <<process, serves, launched, handle, quiet, fileVars, imageVars,
                 pc, txn, stopError, snapshot>>

(* inspect needs the lock of the child, which a stop holds.                *)
Inspect ==
  /\ pc \notin {"closed", "waiting", "killwait", "forcewait"}
  /\ snapshot' = IF handle # "runtime" THEN "idle"
                 ELSE IF Alive THEN "running" ELSE "unhealthy"
  /\ UNCHANGED <<childVars, fileVars, imageVars, pc, txn, stopError>>

(* The executable is replaced, or rewritten in its place, and stays so.    *)
Upgrade ==
  /\ "upgrade" \in Faults /\ pc # "closed"
  /\ \E file \in Upgrades : image' = file
  /\ UNCHANGED <<childVars, fileVars, pinned, pc, txn, stopError,
                 snapshot>>

(* The daemon is killed.                                                   *)
Crash ==
  /\ "crash" \in Faults /\ pc # "closed"
  /\ Gone
  /\ UNCHANGED <<fileVars, imageVars>>

Starting ==
  Verify \/ Exec \/ ExecFails \/ Reverify \/ StartCheckElapses
    \/ ChildExitsInStart \/ InitialConfigAccepted \/ InitialDeadlinePasses
    \/ Cleanup
Reloading == Reload \/ ReloadUnverified
Stopping ==
  StopNothing \/ AskToStop \/ ChildExitsInStop \/ StopDeadlinePasses
    \/ NotQuiescent \/ ReadersJoined \/ ForceStop \/ ForcedExit
    \/ ForcedReadersJoined \/ ForceFails
Ending ==
  AcceptReceipt \/ RollBackReceipt \/ Restore \/ RestoreFails \/ Exit

DaemonStep == Starting \/ Reloading \/ Stopping \/ Ending

Beginning ==
  \/ \E c \in Configs : Begin("apply", c)
  \/ Begin("stop", None)
  \/ BeginClose

World ==
  Open \/ ChildReady \/ ChildExits \/ KilledDies \/ ReaderEnds \/ Inspect
    \/ Upgrade \/ Crash

Next == DaemonStep \/ Beginning \/ World

Spec == Init /\ [][Next]_vars

(* The daemon goes on: every one of its waits has a deadline.  A process   *)
(* that was killed ends.  Nothing is assumed of pipes, files or Caddy.     *)
Fairness == WF_vars(DaemonStep) /\ WF_vars(KilledDies)

FairSpec == Spec /\ Fairness

-----------------------------------------------------------------------------
(* A stop that reports quiescence leaves no Caddy that is still running,   *)
(* no handle, no log reader and no running state for inspect to report;    *)
(* and no Caddy of this daemon runs without a handle that can stop it.     *)
QuietMeansGone ==
  /\ quiet => /\ process \in {"none", "killed"} /\ handle = "none"
              /\ readers = {} /\ snapshot = "idle"
  /\ process \in {"booting", "up"} => handle # "none"

(* Between operations, the Caddy that listens serves what the effective    *)
(* file says, unless the last operation reported that its cleanup failed;  *)
(* and no candidate file is left (CADDY-003).                              *)
RestsAsFiled ==
  pc = "idle" =>
    /\ candidates = {}
    /\ process = "up" /\ txn.result # "unclean" => serves = effective

(* An upgrade puts another file in the place of the pinned one.  One that  *)
(* is undone before the next look at the path would not be noticed.        *)
UpgradesDiffer ==
  \A i \in Installations, file \in Upgrades :
    Pin(i).ok => \/ file.identity # Pin(i).file.identity
                 \/ file.digest # Pin(i).file.digest

(* The Caddy that is admitted was executed from the pinned image: an       *)
(* upgrade between the check and the execution does not slip through.      *)
AdmittedIsPinned == handle = "runtime" => launched = pinned

(* Every operation ends, with or without the cooperation of Caddy.         *)
TransactionsEnd == pc \notin {"idle", "closed"} ~> pc \in {"idle", "closed"}
=============================================================================
