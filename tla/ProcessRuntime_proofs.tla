----------------------- MODULE ProcessRuntime_proofs ------------------------
(***************************************************************************)
(* Proofs about CaddyResolver and ProcessRuntime, for every installation,  *)
(* every set of configurations and every choice of Faults.                 *)
(***************************************************************************)
EXTENDS ProcessRuntime, NaturalsInduction, WellFoundedInduction, TLAPS

-----------------------------------------------------------------------------
(* Resolution.                                                             *)

LEMMA FirstIsIn ==
  ASSUME NEW S \in SUBSET Nat, S # {} PROVE First(S) \in S
<1> DEFINE less == OpToRel(<, Nat)
<1>1. \A i, j \in Nat : <<i, j>> \notin less => j <= i
  BY DEF OpToRel
<1>2. IsWellFoundedOn(less, Nat)
  BY NatLessThanWellFounded
<1> HIDE DEF less
<1>3. PICK n \in S : \A m \in S : ~(<<m, n>> \in less)
  BY <1>2, WFMin
<1>4. \A m \in S : n <= m
  BY <1>1, <1>3
<1> QED
  BY <1>4 DEF First

LEMMA CommandIsAcceptable ==
  ASSUME NEW i, DOMAIN i.path \subseteq Nat, NEW command, NEW source,
         ResolveCommand(command, source, i).ok
  PROVE  Acceptable(ResolveCommand(command, source, i).file, i)
<1> DEFINE hits == {n \in DOMAIN i.path : Usable(i.path[n], command, i)}
           hit == First(hits)
<1>1. command.single /\ hits # {}
  BY DEF ResolveCommand, Failure
<1>2. hit \in hits
  BY <1>1, FirstIsIn
<1>3. ResolveCommand(command, source, i).file
        = i.path[hit].programs[command.name]
  BY <1>1 DEF ResolveCommand, Found
<1>4. Usable(i.path[hit], command, i)
  BY <1>2
<1> QED
  BY <1>3, <1>4 DEF Usable

LEMMA SelectedIsAcceptable ==
  ASSUME NEW i, NEW reference, NEW source,
         ResolveSelected(reference, source, i).ok
  PROVE  Acceptable(ResolveSelected(reference, source, i).file, i)
  BY DEF ResolveSelected, Found, Failure

(* Whatever is configured, and in whatever order the directories of PATH   *)
(* name it, the daemon never takes itself or a shim for the real Caddy     *)
(* (caddy/resolver.rs, resolve).                                           *)
THEOREM ResolvedIsNoShim ==
  ASSUME NEW i, DOMAIN i.path \subseteq Nat, Resolve(i).ok
  PROVE  Executable(Resolve(i).file) /\ ~IsShim(Resolve(i).file, i)
<1>1. CASE i.override.given
  BY <1>1, SelectedIsAcceptable DEF Resolve, Acceptable
<1>2. CASE ~i.override.given /\ Deciding(i) # {}
  <2> DEFINE n == First(Deciding(i))
             c == i.configs[n]
  <2>1. Resolve(i) = Configured(n, i)
    BY <1>2 DEF Resolve
  <2>2. CASE c.state # "read" \/ (c.command.given /\ c.path.given)
    BY <2>1, <2>2 DEF Configured, Failure
  <2>3. CASE ~(c.state # "read" \/ (c.command.given /\ c.path.given))
    <3>1. CASE c.command.given
      BY <2>1, <2>3, <3>1, CommandIsAcceptable DEF Configured, Acceptable
    <3>2. CASE ~c.command.given
      BY <2>1, <2>3, <3>2, SelectedIsAcceptable DEF Configured, Acceptable
    <3> QED
      BY <3>1, <3>2
  <2> QED
    BY <2>2, <2>3
<1>3. CASE ~i.override.given /\ Deciding(i) = {}
  BY <1>3, CommandIsAcceptable DEF Resolve, Acceptable
<1> QED
  BY <1>1, <1>2, <1>3

-----------------------------------------------------------------------------
(* The child.                                                              *)

(* start owns the child from its spawn until it hands it over or drops it. *)
StartOwns ==
  handle = "start" <=> pc \in {"reverify", "check", "initial", "cleanup"}

CleanupKilled == pc = "cleanup" => process \notin {"booting", "up"}

(* Nobody runs, or waits to be reaped, without an owner.                   *)
Unowned == process \in {"booting", "up", "exited"} => handle # "none"

(* While stop and force_stop wait for the readers, Caddy is gone.          *)
JoinedIdle ==
  pc \in {"join", "forcejoin"} => handle = "none" /\ snapshot = "idle"

Processes == {"none", "booting", "up", "killed", "exited"}
ChildType ==
  /\ process \in Processes /\ handle \in {"start", "runtime", "none"}
  /\ quiet \in BOOLEAN

ChildInv ==
  /\ ChildType /\ StartOwns /\ CleanupKilled /\ Unowned /\ JoinedIdle
  /\ QuietMeansGone

(* Where a finished operation of the runtime goes: nowhere that matters to *)
(* the child.                                                              *)
Settled == {"exit", "receipt", "restore", "stop"}

LEMMA ReturnSettles ==
  ASSUME NEW ok \in BOOLEAN, Return(ok) PROVE pc' \in Settled
  BY DEF Return, Goto, FailClosed, Settled

(* What each step of a transaction knows of the child, its handle and its *)
(* log readers (runtime/process.rs).                                      *)
THEOREM ChildInvariant == Spec => []ChildInv
<1> USE DEF ChildInv, ChildType, StartOwns, CleanupKilled, Unowned,
        JoinedIdle, QuietMeansGone, Processes
<1>1. Init => ChildInv
  BY DEF Init
<1>2. ChildInv /\ [Next]_vars => ChildInv'
  <2> SUFFICES ASSUME ChildInv, [Next]_vars PROVE ChildInv'
    OBVIOUS
  <2> USE DEF childVars, imageVars, fileVars, Settled
  <2>1. CASE Starting
    <3> USE DEF Goto
    <3>1. CASE Verify
      BY <3>1, ReturnSettles DEF Verify
    <3>2. CASE Exec
      BY <3>2 DEF Exec
    <3>3. CASE ExecFails
      BY <3>3, ReturnSettles DEF ExecFails
    <3>4. CASE Reverify
      BY <3>4 DEF Reverify, Killed, Alive
    <3>5. CASE StartCheckElapses
      BY <3>5 DEF StartCheckElapses
    <3>6. CASE ChildExitsInStart
      BY <3>6, ReturnSettles DEF ChildExitsInStart, Reaped
    <3>7. CASE InitialConfigAccepted
      BY <3>7, ReturnSettles DEF InitialConfigAccepted, Delivered
    <3>8. CASE InitialDeadlinePasses
      BY <3>8 DEF InitialDeadlinePasses, Killed, Alive
    <3>9. CASE Cleanup
      BY <3>9, ReturnSettles DEF Cleanup
    <3> QED
      BY <2>1, <3>1, <3>2, <3>3, <3>4, <3>5, <3>6, <3>7, <3>8, <3>9
         DEF Starting
  <2>2. CASE Reloading
    <3>1. pc' \in Settled
      BY <2>2 DEF Reloading, Reload, ReloadUnverified, Return, Goto, FailClosed
    <3>2. pc = "reload" /\ UNCHANGED <<process, handle, readers, quiet, snapshot>>
      BY <2>2 DEF Reloading, Reload, ReloadUnverified
    <3> QED
      BY <3>1, <3>2
  <2>3. CASE Stopping
    <3> USE DEF Goto, Owned, Alive, Joining
    <3>1. CASE StopNothing
      BY <3>1 DEF StopNothing, Reaped
    <3>2. CASE AskToStop
      BY <3>2 DEF AskToStop
    <3>3. CASE ChildExitsInStop
      BY <3>3 DEF ChildExitsInStop, Reaped
    <3>4. CASE StopDeadlinePasses
      BY <3>4 DEF StopDeadlinePasses, Killed
    <3>5. CASE NotQuiescent
      BY <3>5 DEF NotQuiescent
    <3>6. CASE ReadersJoined
      <4>1. pc' \in Settled
        BY <3>6 DEF ReadersJoined, Return, FailClosed
      <4> QED
        BY <3>6, <4>1 DEF ReadersJoined
    <3>7. CASE ForceStop
      BY <3>7 DEF ForceStop, Killed, Reaped
    <3>8. CASE ForcedExit
      BY <3>8 DEF ForcedExit, Reaped
    <3>9. CASE ForcedReadersJoined
      BY <3>9, ReturnSettles DEF ForcedReadersJoined
    <3>10. CASE ForceFails
      BY <3>10, ReturnSettles DEF ForceFails
    <3> QED
      BY <2>3, <3>1, <3>2, <3>3, <3>4, <3>5, <3>6, <3>7, <3>8, <3>9, <3>10
         DEF Stopping
  <2>4. CASE Ending
    <3>1. CASE AcceptReceipt
      BY <3>1 DEF AcceptReceipt, Finish
    <3>2. CASE RollBackReceipt
      BY <3>2 DEF RollBackReceipt, RollBack, FailClosed
    <3>3. CASE Restore \/ RestoreFails
      BY <3>3 DEF Restore, RestoreFails, Finish, FailClosed
    <3>4. CASE Exit
      BY <3>4 DEF Exit, Gone
    <3> QED
      BY <2>4, <3>1, <3>2, <3>3, <3>4 DEF Ending
  <2>5. CASE Beginning
    <3>1. ASSUME NEW kind, NEW target, Begin(kind, target) PROVE ChildInv'
      BY <3>1 DEF Begin, Reaped, Owned, Alive
    <3>2. CASE BeginClose
      BY <3>2 DEF BeginClose
    <3> QED
      BY <2>5, <3>1, <3>2 DEF Beginning
  <2>6. CASE World
    <3>1. CASE Open \/ Upgrade \/ Inspect
      BY <3>1 DEF Open, Upgrade, Inspect, Alive
    <3>2. CASE ChildReady \/ ReaderEnds
      BY <3>2 DEF ChildReady, ReaderEnds
    <3>3. CASE ChildExits \/ KilledDies
      BY <3>3 DEF ChildExits, KilledDies, Dies
    <3>4. CASE Crash
      BY <3>4 DEF Crash, Gone
    <3> QED
      BY <2>6, <3>1, <3>2, <3>3, <3>4 DEF World
  <2>7. CASE UNCHANGED vars
    BY <2>7 DEF vars
  <2> QED
    BY <2>1, <2>2, <2>3, <2>4, <2>5, <2>6, <2>7 DEF Next, DaemonStep
<1> QED
  BY <1>1, <1>2, PTL DEF Spec

(* Through every failure and every deadline of start, stop and force_stop, *)
(* a stop that reports quiescence has left no Caddy, no handle and no log  *)
(* reader, and no Caddy runs without a handle (runtime/process.rs,         *)
(* stop_until and force_stop).                                             *)
THEOREM QuietMeansGoneThm == Spec => []QuietMeansGone
  BY ChildInvariant, PTL DEF ChildInv

-----------------------------------------------------------------------------
(* The effective file and what Caddy serves.                               *)

(* Caddy answers only after start has been given its handle.               *)
BootingStarts == process = "booting" => handle = "start"

Serves(config) == process = "up" => serves = config

StartSteps == {"spawn", "exec", "reverify", "check", "initial", "cleanup"}
StopSteps ==
  {"stop", "waiting", "killwait", "join", "force", "forcewait", "forcejoin"}

(* Which operation, in which of its phases, takes which step.              *)
PhaseFollows ==
  /\ pc \in StartSteps \cup {"reload"} =>
       \/ txn.kind = "apply" /\ txn.phase = "forward"
       \/ txn.kind \in {"apply", "stop"} /\ txn.phase = "back"
  /\ pc \in StopSteps =>
       \/ txn.kind = "close"
       \/ txn.kind = "stop" /\ txn.phase = "forward" /\ txn.was
       \/ txn.kind \in {"apply", "stop"} /\ txn.phase \in {"back", "closing"}
  /\ pc = "receipt" => txn.kind \in {"apply", "stop"} /\ txn.phase = "forward"
  /\ pc = "restore" =>
       txn.kind \in {"apply", "stop"} /\ txn.phase \in {"back", "closing"}
  /\ pc = "exit" => txn.kind = "close"

(* What Caddy serves when an operation is about to be accepted, undone, or *)
(* closed.                                                                 *)
ServedFollows ==
  /\ pc = "closed" => process = "none"
  /\ pc = "receipt" =>
       /\ txn.ok /\ txn.kind = "apply" => Serves(txn.target)
       /\ txn.kind = "stop" /\ (txn.ok \/ ~txn.was) => process # "up"
  /\ pc = "restore" =>
       /\ txn.phase = "back" => Serves(txn.previous)
       /\ txn.phase = "closing" /\ txn.ok => process # "up"

FiledInv ==
  RuntimeTypeOK /\ BootingStarts /\ PhaseFollows /\ ServedFollows /\ RestsAsFiled

LEMMA TxnTypes ==
  ASSUME txn \in Txns
  PROVE  /\ \A ok \in BOOLEAN : [txn EXCEPT !.ok = ok] \in Txns
         /\ \A phase \in {"forward", "back", "closing"} :
              [txn EXCEPT !.phase = phase] \in Txns
         /\ \A result \in {"done", "undone", "unclean"} : Ended(result) \in Txns
  BY DEF Txns, Ended

(* What an operation of the runtime owes to the phase that has called it.  *)
LEMMA ReturnsFiled ==
  ASSUME FiledInv, NEW ok \in BOOLEAN, Return(ok), UNCHANGED effective,
         \/ /\ pc \in StartSteps \cup {"reload"}
            /\ ok /\ process' = "up" => serves' = Wanted
         \/ pc \in StopSteps /\ (ok => process' # "up")
  PROVE  /\ txn' \in Txns /\ candidates' \subseteq {"staged", "rollback"}
         /\ pc' \in Steps /\ PhaseFollows' /\ ServedFollows' /\ RestsAsFiled'
<1> USE DEF FiledInv, RuntimeTypeOK
<1>1. txn \in Txns
  OBVIOUS
<1>2. CASE txn.kind = "close"
  <2>1. pc' = "exit" /\ UNCHANGED <<txn, candidates>>
    BY <1>2 DEF Return, Goto
  <2> QED
    BY <1>2, <2>1 DEF PhaseFollows, ServedFollows, RestsAsFiled, Steps,
       StartSteps, StopSteps
<1>3. CASE txn.kind # "close" /\ txn.phase = "forward"
  <2>1. /\ pc' = "receipt" /\ txn' = [txn EXCEPT !.ok = ok]
        /\ UNCHANGED candidates
    BY <1>3 DEF Return, Goto
  <2>2. /\ txn' \in Txns /\ txn'.ok = ok /\ txn'.kind = txn.kind
        /\ txn'.phase = txn.phase /\ txn'.was = txn.was /\ txn'.target = txn.target
    BY <1>1, <2>1, TxnTypes DEF Txns
  <2> QED
    BY <1>3, <2>1, <2>2 DEF PhaseFollows, ServedFollows, RestsAsFiled, Steps,
       StartSteps, StopSteps, Serves, Wanted
<1>4. CASE txn.kind # "close" /\ txn.phase = "back" /\ ok
  <2>1. pc' = "restore" /\ UNCHANGED <<txn, candidates>>
    BY <1>4 DEF Return, Goto
  <2> QED
    BY <1>4, <2>1 DEF PhaseFollows, ServedFollows, RestsAsFiled, Steps,
       StartSteps, StopSteps, Serves, Wanted
<1>5. CASE txn.kind # "close" /\ txn.phase = "back" /\ ~ok
  <2>1. FailClosed
    BY <1>5 DEF Return
  <2>2. txn' \in Txns /\ txn'.kind = txn.kind /\ txn'.phase = "closing"
    BY <1>1, <2>1, TxnTypes DEF FailClosed, Txns
  <2> QED
    BY <1>5, <2>1, <2>2 DEF FailClosed, PhaseFollows, ServedFollows,
       RestsAsFiled, Steps, StartSteps, StopSteps
<1>6. CASE txn.kind # "close" /\ txn.phase = "closing"
  <2>1. /\ pc' = "restore" /\ txn' = [txn EXCEPT !.ok = ok]
        /\ UNCHANGED candidates
    BY <1>6 DEF Return
  <2>2. /\ txn' \in Txns /\ txn'.ok = ok /\ txn'.kind = txn.kind
        /\ txn'.phase = txn.phase
    BY <1>1, <2>1, TxnTypes DEF Txns
  <2> QED
    BY <1>6, <2>1, <2>2 DEF PhaseFollows, ServedFollows, RestsAsFiled, Steps,
       StartSteps, StopSteps
<1> QED
  BY <1>1, <1>2, <1>3, <1>4, <1>5, <1>6 DEF Txns

(* A step within an operation of the runtime owes nothing.                 *)
LEMMA GoesOnFiled ==
  ASSUME FiledInv, UNCHANGED <<txn, candidates, effective>>,
         \/ pc \in StartSteps \cup {"reload"} /\ pc' \in StartSteps
         \/ pc \in StopSteps /\ pc' \in StopSteps
  PROVE  /\ txn' \in Txns /\ candidates' \subseteq {"staged", "rollback"}
         /\ pc' \in Steps /\ PhaseFollows' /\ ServedFollows' /\ RestsAsFiled'
  BY DEF FiledInv, RuntimeTypeOK, PhaseFollows, ServedFollows, RestsAsFiled,
     Steps, StartSteps, StopSteps

LEMMA StartFiled ==
  ASSUME FiledInv, ChildInv, Starting
  PROVE  FiledInv'
<1> USE DEF Goto
<1> DEFINE TypeRest ==
       /\ process' \in Processes /\ serves' \in Configs \cup {None}
       /\ handle' \in {"start", "runtime", "none"} /\ readers' \subseteq Channels
       /\ effective' = effective /\ stopError' = stopError
       /\ snapshot' \in {"idle", "running", "unhealthy"} /\ quiet' \in BOOLEAN
       /\ BootingStarts'
<1>1. txn \in Txns /\ Wanted \in Configs \cup {None}
  BY DEF FiledInv, RuntimeTypeOK, Txns, Wanted
<1>2. SUFFICES
        /\ TypeRest
        /\ txn' \in Txns /\ candidates' \subseteq {"staged", "rollback"}
        /\ pc' \in Steps /\ PhaseFollows' /\ ServedFollows' /\ RestsAsFiled'
  BY DEF FiledInv, RuntimeTypeOK, Processes
<1>3. CASE Verify
  <2>1. TypeRest
    BY <1>3 DEF Verify, childVars, FiledInv, RuntimeTypeOK, BootingStarts,
       ChildInv, ChildType, Processes
  <2>2. CASE Return(FALSE)
    BY <1>3, <2>1, <2>2, ReturnsFiled DEF Verify, StartSteps
  <2>3. CASE ~Return(FALSE)
    BY <1>3, <2>1, <2>3, GoesOnFiled DEF Verify, StartSteps
  <2> QED
    BY <2>2, <2>3
<1>4. CASE Exec
  <2>1. TypeRest
    BY <1>1, <1>4 DEF Exec, FiledInv, RuntimeTypeOK, BootingStarts, Processes
  <2> QED
    BY <1>4, <2>1, GoesOnFiled DEF Exec, StartSteps
<1>5. CASE ExecFails
  <2>1. TypeRest
    BY <1>5 DEF ExecFails, childVars, FiledInv, RuntimeTypeOK, BootingStarts,
       Processes
  <2> QED
    BY <1>5, <2>1, ReturnsFiled DEF ExecFails, StartSteps
<1>6. CASE Reverify \/ InitialDeadlinePasses
  <2>1. TypeRest
    BY <1>6 DEF Reverify, InitialDeadlinePasses, Killed, Alive, FiledInv,
       RuntimeTypeOK, BootingStarts, Processes
  <2> QED
    BY <1>6, <2>1, GoesOnFiled DEF Reverify, InitialDeadlinePasses, StartSteps
<1>7. CASE StartCheckElapses
  <2>1. TypeRest
    BY <1>7 DEF StartCheckElapses, childVars, FiledInv, RuntimeTypeOK,
       BootingStarts, Processes
  <2> QED
    BY <1>7, <2>1, GoesOnFiled DEF StartCheckElapses, StartSteps
<1>8. CASE ChildExitsInStart
  <2>1. TypeRest
    BY <1>8 DEF ChildExitsInStart, Reaped, FiledInv, RuntimeTypeOK,
       BootingStarts, Processes
  <2> QED
    BY <1>8, <2>1, ReturnsFiled DEF ChildExitsInStart, StartSteps
<1>9. CASE InitialConfigAccepted
  <2>1. TypeRest
    BY <1>1, <1>9 DEF InitialConfigAccepted, Delivered, FiledInv, RuntimeTypeOK,
       BootingStarts, Processes
  <2> QED
    BY <1>9, <2>1, ReturnsFiled DEF InitialConfigAccepted, Delivered, StartSteps
<1>10. CASE Cleanup
  <2>1. TypeRest
    BY <1>10 DEF Cleanup, FiledInv, RuntimeTypeOK, BootingStarts, Processes,
       ChildInv, CleanupKilled
  <2> QED
    BY <1>10, <2>1, ReturnsFiled DEF Cleanup, StartSteps
<1> QED
  BY <1>3, <1>4, <1>5, <1>6, <1>7, <1>8, <1>9, <1>10 DEF Starting

LEMMA ReloadFiled ==
  ASSUME FiledInv, ChildInv, Reloading
  PROVE  FiledInv'
<1>1. Wanted \in Configs \cup {None}
  BY DEF FiledInv, RuntimeTypeOK, Txns, Wanted
<1>2. /\ pc = "reload" /\ \E ok \in BOOLEAN :
            Return(ok) /\ (ok => serves' = Wanted)
      /\ serves' \in {serves, Wanted}
      /\ UNCHANGED <<process, handle, readers, quiet, effective, stopError,
                    snapshot>>
  BY DEF Reloading, Reload, ReloadUnverified, Delivered, childVars
<1>3. /\ txn' \in Txns /\ candidates' \subseteq {"staged", "rollback"}
      /\ pc' \in Steps /\ PhaseFollows' /\ ServedFollows' /\ RestsAsFiled'
  BY <1>2, ReturnsFiled
<1> QED
  BY <1>1, <1>2, <1>3 DEF FiledInv, RuntimeTypeOK, BootingStarts

LEMMA StopFiled ==
  ASSUME FiledInv, ChildInv, Stopping
  PROVE  FiledInv'
<1> USE DEF Goto
<1> DEFINE TypeRest ==
       /\ process' \in Processes /\ serves' \in Configs \cup {None}
       /\ handle' \in {"start", "runtime", "none"} /\ readers' \subseteq Channels
       /\ effective' = effective
       /\ snapshot' \in {"idle", "running", "unhealthy"}
       /\ BootingStarts'
<1>1. stopError' \in BOOLEAN
  <2>1. \/ stopError' \in {stopError, TRUE, FALSE}
        \/ stopError' = (stopError \/ pc = "killwait")
    BY Zenon DEF Stopping, StopNothing, AskToStop, ChildExitsInStop,
       StopDeadlinePasses, NotQuiescent, ReadersJoined, ForceStop, ForcedExit,
       ForcedReadersJoined, ForceFails
  <2>2. stopError \in BOOLEAN
    BY DEF FiledInv, RuntimeTypeOK
  <2> QED
    BY <2>1, <2>2, Zenon
<1>2. quiet' \in BOOLEAN
  <2>1. quiet' \in {quiet, TRUE}
    BY Zenon DEF Stopping, StopNothing, AskToStop, ChildExitsInStop,
       StopDeadlinePasses, NotQuiescent, ReadersJoined, ForceStop, ForcedExit,
       ForcedReadersJoined, ForceFails, Reaped, Killed, childVars
  <2>2. quiet \in BOOLEAN
    BY DEF FiledInv, RuntimeTypeOK
  <2> QED
    BY <2>1, <2>2, Zenon
<1>3. SUFFICES
        /\ TypeRest
        /\ txn' \in Txns /\ candidates' \subseteq {"staged", "rollback"}
        /\ pc' \in Steps /\ PhaseFollows' /\ ServedFollows' /\ RestsAsFiled'
  BY <1>1, <1>2 DEF FiledInv, RuntimeTypeOK, Processes
<1>4. TypeRest
  BY DEF Stopping, StopNothing, AskToStop, ChildExitsInStop, StopDeadlinePasses,
     NotQuiescent, ReadersJoined, ForceStop, ForcedExit, ForcedReadersJoined,
     ForceFails, Reaped, Killed, Alive, Owned, Joining, childVars, FiledInv,
     RuntimeTypeOK, BootingStarts, Processes, ChildInv, StartOwns
<1>5. CASE StopNothing \/ AskToStop \/ ChildExitsInStop \/ StopDeadlinePasses
             \/ NotQuiescent \/ ForceStop \/ ForcedExit
  <2>1. /\ pc \in StopSteps /\ pc' \in StopSteps
        /\ UNCHANGED <<txn, candidates, effective>>
    BY <1>5 DEF StopNothing, AskToStop, ChildExitsInStop, StopDeadlinePasses,
       NotQuiescent, ForceStop, ForcedExit, Joining, StopSteps
  <2> QED
    BY <1>4, <2>1, GoesOnFiled
<1>6. CASE ReadersJoined
  <2>1. process' # "up"
    BY <1>6 DEF ReadersJoined, ChildInv, JoinedIdle, Unowned
  <2>2. (~stopError) \in BOOLEAN
    OBVIOUS
  <2> QED
    BY <1>4, <1>6, <2>1, <2>2, ReturnsFiled DEF ReadersJoined, StopSteps
<1>7. CASE ForcedReadersJoined \/ ForceFails
  <2>1. pc \in StopSteps /\ Return(FALSE)
    BY <1>7 DEF ForcedReadersJoined, ForceFails, StopSteps
  <2> QED
    BY <1>4, <2>1, ReturnsFiled
<1> QED
  BY <1>5, <1>6, <1>7 DEF Stopping

LEMMA EndingFiled ==
  ASSUME FiledInv, ChildInv, Ending
  PROVE  FiledInv'
<1>1. /\ txn \in Txns /\ effective \in Configs \cup {None}
      /\ txn.target \in Configs \cup {None} /\ txn.previous \in Configs \cup {None}
  BY DEF FiledInv, RuntimeTypeOK, Txns
<1>2. CASE ~Exit
  <2>1. /\ UNCHANGED <<childVars, stopError, snapshot>>
        /\ effective' \in Configs \cup {None}
    BY <1>1, <1>2 DEF Ending, AcceptReceipt, RollBackReceipt, RollBack, Restore,
       RestoreFails
  <2> DEFINE Rest ==
         /\ txn' \in Txns /\ candidates' \subseteq {"staged", "rollback"}
         /\ pc' \in Steps /\ PhaseFollows' /\ ServedFollows' /\ RestsAsFiled'
  <2>2. SUFFICES Rest
    BY <2>1 DEF FiledInv, RuntimeTypeOK, childVars, BootingStarts
  <2>3. ASSUME NEW result \in {"done", "undone", "unclean"}, Finish(result),
               result # "unclean" => (process = "up" => serves = effective')
        PROVE  Rest
    <3>1. txn' \in Txns /\ txn'.result = result
      BY <1>1, <2>3, TxnTypes DEF Finish, Ended
    <3> QED
      BY <2>1, <2>3, <3>1 DEF Finish, PhaseFollows, ServedFollows, RestsAsFiled,
         Steps, StartSteps, StopSteps, childVars
  <2>4. ASSUME FailClosed, pc \in {"receipt", "restore"}
        PROVE  Rest
    <3>1. txn' \in Txns /\ txn'.kind = txn.kind /\ txn'.phase = "closing"
      BY <1>1, <2>4, TxnTypes DEF FailClosed, Txns
    <3> QED
      BY <2>1, <2>4, <3>1 DEF FailClosed, FiledInv, PhaseFollows, ServedFollows,
         RestsAsFiled, Steps, StartSteps, StopSteps
  <2>5. CASE AcceptReceipt
    <3>1. Finish("done") /\ (process = "up" => serves = effective')
      BY <2>5 DEF AcceptReceipt, FiledInv, PhaseFollows, ServedFollows, Serves
    <3> QED
      BY <2>3, <3>1
  <2>6. CASE RollBackReceipt
    <3>1. PICK filed, staged \in BOOLEAN : RollBack(filed, staged)
      BY <2>6 DEF RollBackReceipt
    <3>2. CASE FailClosed
      BY <2>4, <3>1, <3>2 DEF RollBack
    <3>3. CASE ~FailClosed
      <4>1. /\ pc = "receipt" /\ txn' = [txn EXCEPT !.phase = "back"]
            /\ candidates' \subseteq candidates \cup {"rollback"}
            /\ \/ txn.kind = "apply" /\ pc' \in {"stop", "reload"}
               \/ txn.kind = "stop" /\ ~txn.was /\ pc' = "restore"
               \/ txn.kind = "stop" /\ pc' = "spawn"
        BY <3>1, <3>3 DEF RollBack, FiledInv, PhaseFollows
      <4>2. /\ txn' \in Txns /\ txn'.kind = txn.kind /\ txn'.phase = "back"
            /\ txn'.previous = txn.previous
        BY <1>1, <4>1, TxnTypes DEF Txns
      <4> QED
        BY <2>1, <4>1, <4>2 DEF FiledInv, RuntimeTypeOK, PhaseFollows, ServedFollows,
           RestsAsFiled, Steps, StartSteps, StopSteps, Serves, childVars
    <3> QED
      BY <3>2, <3>3
  <2>7. CASE Restore
    <3>1. PICK result \in {"undone", "unclean"} :
            /\ Finish(result)
            /\ result # "unclean" => txn.ok \/ txn.phase = "back"
      BY <2>7 DEF Restore
    <3>2. result # "unclean" => (process = "up" => serves = effective')
      BY <2>7, <3>1 DEF Restore, FiledInv, PhaseFollows, ServedFollows, Serves
    <3> QED
      BY <2>3, <3>1, <3>2
  <2>8. CASE RestoreFails
    BY <2>3, <2>4, <2>8 DEF RestoreFails
  <2> QED
    BY <1>2, <2>5, <2>6, <2>7, <2>8 DEF Ending
<1>3. CASE Exit
  <2>1. quiet' \in BOOLEAN /\ stopError' \in BOOLEAN
    BY <1>3, Zenon DEF Exit, Gone
  <2> QED
    BY <1>3, <2>1, TxnTypes DEF Exit, Gone, fileVars, FiledInv, RuntimeTypeOK,
       BootingStarts, PhaseFollows, ServedFollows, RestsAsFiled, Steps,
       StartSteps, StopSteps
<1> QED
  BY <1>2, <1>3

LEMMA BeginningFiled ==
  ASSUME FiledInv, ChildInv, Beginning
  PROVE  FiledInv'
<1>1. txn \in Txns /\ pc = "idle" /\ (Owned <=> handle = "runtime" /\ Alive)
  BY DEF FiledInv, RuntimeTypeOK, Beginning, Begin, BeginClose, Owned
<1>2. ASSUME NEW kind \in {"apply", "stop"}, NEW target \in Configs \cup {None},
             Begin(kind, target)
      PROVE  FiledInv'
  <2>1. Owned \in BOOLEAN
    BY DEF Owned, Alive
  <2>2. /\ txn' \in Txns /\ txn'.kind = kind /\ txn'.phase = "forward"
        /\ txn'.was = Owned
    BY <1>1, <1>2, <2>1 DEF Begin, Begun, Txns, FiledInv, RuntimeTypeOK
  <2>3. /\ process' \in {process, "none"} /\ serves' \in {serves, None}
        /\ handle' \in {handle, "none"} /\ (process' = "booting" => handle' = handle)
        /\ UNCHANGED <<readers, effective, stopError, snapshot, quiet>>
        /\ candidates' \subseteq {"staged", "rollback"}
    BY <1>2 DEF Begin, Reaped, Owned, Alive, childVars
  <2>4. \/ kind = "apply" /\ pc' \in {"reload", "spawn"}
        \/ kind = "stop" /\ Owned /\ pc' = "stop"
        \/ kind = "stop" /\ ~Owned /\ pc' = "receipt"
    BY <1>2 DEF Begin
  <2>5. ~Owned => process' # "up"
    BY <1>1, <1>2 DEF Begin, Reaped, Owned, Alive, childVars, ChildInv, ChildType,
       StartOwns, Unowned
  <2> QED
    BY <2>2, <2>3, <2>4, <2>5 DEF FiledInv, RuntimeTypeOK, BootingStarts,
       PhaseFollows, ServedFollows, RestsAsFiled, Steps, StartSteps, StopSteps
<1>3. CASE BeginClose
  <2>1. txn' \in Txns /\ txn'.kind = "close"
    BY <1>1, <1>3 DEF BeginClose, Begun, Txns
  <2> QED
    BY <1>3, <2>1 DEF BeginClose, childVars, fileVars, FiledInv, RuntimeTypeOK,
       BootingStarts, PhaseFollows, ServedFollows, RestsAsFiled, Steps,
       StartSteps, StopSteps
<1> QED
  BY <1>2, <1>3 DEF Beginning

LEMMA WorldFiled ==
  ASSUME FiledInv, ChildInv, World
  PROVE  FiledInv'
<1>1. CASE Open
  BY <1>1 DEF Open, childVars, FiledInv, RuntimeTypeOK, BootingStarts,
     PhaseFollows, ServedFollows, RestsAsFiled, Steps, StartSteps, StopSteps
<1>2. CASE Crash
  <2>1. quiet' \in BOOLEAN /\ stopError' \in BOOLEAN
    BY <1>2, Zenon DEF Crash, Gone
  <2> QED
    BY <1>2, <2>1, TxnTypes DEF Crash, Gone, fileVars, FiledInv, RuntimeTypeOK,
       BootingStarts, PhaseFollows, ServedFollows, RestsAsFiled, Steps,
       StartSteps, StopSteps
<1>3. CASE ChildReady
  BY <1>3 DEF ChildReady, fileVars, FiledInv, RuntimeTypeOK, BootingStarts,
     PhaseFollows, ServedFollows, RestsAsFiled, Serves, ChildInv, StartOwns
<1>4. CASE ChildExits \/ KilledDies
  <2>1. /\ process' \in {"none", "exited"} /\ process # "none"
        /\ UNCHANGED <<serves, handle, readers, quiet, fileVars, pc, txn,
                      stopError, snapshot>>
    BY <1>4 DEF ChildExits, KilledDies, Dies
  <2> QED
    BY <2>1 DEF fileVars, FiledInv, RuntimeTypeOK, BootingStarts, PhaseFollows,
       ServedFollows, RestsAsFiled, Serves
<1>5. CASE ReaderEnds \/ Inspect \/ Upgrade
  <2>1. /\ readers' \subseteq readers
        /\ snapshot' \in {snapshot, "idle", "running", "unhealthy"}
        /\ UNCHANGED <<process, serves, handle, quiet, fileVars, pc, txn, stopError>>
    BY <1>5 DEF ReaderEnds, Inspect, Upgrade, childVars
  <2> QED
    BY <2>1 DEF fileVars, FiledInv, RuntimeTypeOK, BootingStarts, PhaseFollows,
       ServedFollows, RestsAsFiled, Serves
<1> QED
  BY <1>1, <1>2, <1>3, <1>4, <1>5 DEF World

(* What the file, the child and the receipt of an operation know of each   *)
(* other at each of its steps (runtime/process.rs, runtime_file.rs).       *)
THEOREM FiledInvariant == Spec => []FiledInv
<1>1. Init => FiledInv
  <2> SUFFICES ASSUME Init PROVE FiledInv
    OBVIOUS
  <2>1. quiet \in BOOLEAN /\ stopError \in BOOLEAN
    BY Zenon DEF Init
  <2> QED
    BY <2>1 DEF Init, Ended, Txns, FiledInv, RuntimeTypeOK, BootingStarts,
       PhaseFollows, ServedFollows, RestsAsFiled, Steps, StartSteps, StopSteps
<1>2. FiledInv /\ ChildInv /\ [Next]_vars => FiledInv'
  <2>1. FiledInv /\ UNCHANGED vars => FiledInv'
    BY DEF vars, childVars, fileVars, FiledInv, RuntimeTypeOK, BootingStarts,
       PhaseFollows, ServedFollows, RestsAsFiled, Serves
  <2> QED
    BY <2>1, StartFiled, ReloadFiled, StopFiled, EndingFiled, BeginningFiled,
       WorldFiled DEF Next, DaemonStep
<1> QED
  BY <1>1, <1>2, ChildInvariant, PTL DEF Spec

(* Whichever step of an operation fails, is late or is rolled back, once   *)
(* it is over Caddy serves what the effective file says and no candidate   *)
(* file is left, unless the caller was told that the cleanup failed        *)
(* (runtime/process.rs, accept and rollback of the receipts).              *)
THEOREM RestsAsFiledThm == Spec => []RestsAsFiled
  BY FiledInvariant, PTL DEF FiledInv

-----------------------------------------------------------------------------
(* The executable that Caddy was spawned from.                             *)

PinnedFollows ==
  pc # "closed" => \E i \in Installations : Pin(i).ok /\ pinned = Pin(i).file

(* An upgrade is noticed, or has not happened.                             *)
ImageFollows == image = pinned \/ ~Verified(pinned, image)

LaunchedFollows ==
  /\ pc = "closed" => handle = "none"
  /\ pc = "reverify" => launched = pinned \/ ~Verified(pinned, image)
  /\ pc \in {"check", "initial"} \/ handle = "runtime" => launched = pinned

ImageInv == PinnedFollows /\ ImageFollows /\ LaunchedFollows

LEMMA ImageStep ==
  ASSUME UpgradesDiffer, ChildInv, ImageInv, [Next]_vars
  PROVE  ImageInv'
<1> USE DEF ImageInv, PinnedFollows, ImageFollows, LaunchedFollows, imageVars,
        Settled
<1>1. CASE Starting
  <2> USE DEF Goto, ImageVerified
  <2>1. CASE Verify
    BY <2>1, ReturnSettles DEF Verify, childVars
  <2>2. CASE Exec
    BY <2>2 DEF Exec
  <2>3. CASE ExecFails
    BY <2>3, ReturnSettles DEF ExecFails, childVars
  <2>4. CASE Reverify
    BY <2>4 DEF Reverify, Killed
  <2>5. CASE StartCheckElapses
    BY <2>5 DEF StartCheckElapses, childVars
  <2>6. CASE ChildExitsInStart
    BY <2>6, ReturnSettles DEF ChildExitsInStart, Reaped
  <2>7. CASE InitialConfigAccepted
    BY <2>7, ReturnSettles DEF InitialConfigAccepted
  <2>8. CASE InitialDeadlinePasses
    BY <2>8 DEF InitialDeadlinePasses, Killed
  <2>9. CASE Cleanup
    BY <2>9, ReturnSettles DEF Cleanup
  <2> QED
    BY <1>1, <2>1, <2>2, <2>3, <2>4, <2>5, <2>6, <2>7, <2>8, <2>9 DEF Starting
<1>2. CASE Reloading
  <2>1. pc' \in Settled
    BY <1>2 DEF Reloading, Reload, ReloadUnverified, Return, Goto, FailClosed
  <2>2. pc # "closed" /\ UNCHANGED <<launched, handle, imageVars>>
    BY <1>2 DEF Reloading, Reload, ReloadUnverified, childVars
  <2> QED
    BY <2>1, <2>2
<1>3. CASE Stopping
  <2>1. pc # "closed" /\ pc' \in StopSteps \cup Settled
    BY <1>3, ReturnSettles DEF Stopping, StopNothing, AskToStop, ChildExitsInStop,
       StopDeadlinePasses, NotQuiescent, ReadersJoined, ForceStop, ForcedExit,
       ForcedReadersJoined, ForceFails, Joining, Goto, StopSteps
  <2>2. UNCHANGED imageVars /\ (handle' = "none" \/ UNCHANGED <<handle, launched>>)
    BY <1>3 DEF Stopping, StopNothing, AskToStop, ChildExitsInStop,
       StopDeadlinePasses, NotQuiescent, ReadersJoined, ForceStop, ForcedExit,
       ForcedReadersJoined, ForceFails, Reaped, Killed, childVars
  <2> QED
    BY <2>1, <2>2 DEF StopSteps
<1>4. CASE Ending \/ Beginning \/ Crash
  <2>1. /\ UNCHANGED imageVars /\ pc # "closed"
        /\ pc' \notin {"reverify", "check", "initial"}
        /\ pc' = "closed" => handle' = "none"
        /\ handle' = "none" \/ UNCHANGED <<handle, launched>>
    BY <1>4 DEF Ending, AcceptReceipt, RollBackReceipt, RollBack, Restore,
       RestoreFails, Exit, Gone, Finish, FailClosed, Beginning, Begin, BeginClose,
       Reaped, childVars, Crash
  <2> QED
    BY <2>1
<1>5. CASE Open
  BY <1>5 DEF Open, childVars
<1>6. CASE Upgrade
  BY <1>6 DEF Upgrade, UpgradesDiffer, Verified, childVars
<1>7. CASE ChildReady \/ ChildExits \/ KilledDies \/ ReaderEnds \/ Inspect
  BY <1>7 DEF ChildReady, ChildExits, KilledDies, Dies, ReaderEnds, Inspect,
     childVars
<1>8. CASE UNCHANGED vars
  BY <1>8 DEF vars, childVars
<1> QED
  BY <1>1, <1>2, <1>3, <1>4, <1>5, <1>6, <1>7, <1>8 DEF Next, DaemonStep, World

(* However upgrades of the executable interleave with the start of Caddy,  *)
(* the process that is admitted was executed from the pinned image         *)
(* (runtime/process.rs, start; caddy_image.rs, verify_for_spawn).          *)
THEOREM AdmittedIsPinnedThm ==
  ASSUME UpgradesDiffer PROVE Spec => []AdmittedIsPinned
<1>1. Init => ImageInv
  BY DEF Init, ImageInv, PinnedFollows, ImageFollows, LaunchedFollows
<1>2. ChildInv /\ ImageInv /\ [Next]_vars => ImageInv'
  BY ImageStep
<1>3. ImageInv => AdmittedIsPinned
  BY DEF ImageInv, LaunchedFollows, AdmittedIsPinned
<1> QED
  BY <1>1, <1>2, <1>3, ChildInvariant, PTL DEF Spec
=============================================================================
