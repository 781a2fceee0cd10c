---------------------------- MODULE Server_proofs ----------------------------
(***************************************************************************)
(* Proofs about Connections and about the Server that drives them, for     *)
(* every number of connections, ids and sessions and every choice of       *)
(* Faults.  The first half speaks of Spec, any order in which connections  *)
(* and a shutdown may interleave; the second of ServerSpec, which refines  *)
(* it.                                                                     *)
(***************************************************************************)
EXTENDS Server, OperationFence_proofs

-----------------------------------------------------------------------------
(* Fences.                                                                 *)

LEMMA HandlerFences ==
  ASSUME NEW c \in Conns, HandlerNext(c)
  PROVE  [FenceNext]_fenceVars
<1> USE DEF Conns, fenceVars, FenceNext, FenceOpNext
<1>1. CASE \/ Deny(c) \/ Open(c) \/ Close(c) \/ AwaitCancelled(c)
           \/ AnswerLate(c) \/ Leave(c) \/ CancelHandler(c)
  BY <1>1 DEF Deny, Open, Close, AwaitCancelled, AnswerLate, Leave,
     CancelHandler
<1>2. CASE Request(c) \/ Answer(c) \/ GiveUp(c) \/ DropFence(c)
  BY <1>2 DEF Request, Answer, GiveUp, DropFence
<1>3. CASE Spawn(c)
  BY <1>3 DEF Spawn
<1> QED
  BY <1>1, <1>2, <1>3 DEF HandlerNext

LEMMA JobFences ==
  ASSUME NEW c \in Conns, JobNext(c)
  PROVE  [FenceNext]_fenceVars
<1> USE DEF Conns, fenceVars, FenceNext, FenceOpNext
<1>1. CASE Refuse(c) \/ Begin(c) \/ Apply(c) \/ Abandon(c) \/ Undo(c) \/ Record(c)
  BY <1>1 DEF Refuse, Begin, Apply, Abandon, Undo, Record
<1>2. CASE Publish(c) \/ Fail(c) \/ UndoFails(c) \/ Commit(c)
  BY <1>2 DEF Publish, Fail, UndoFails, Commit
<1>3. CASE Panic(c) \/ CancelWorker(c)
  BY <1>3 DEF Panic, CancelWorker
<1> QED
  BY <1>1, <1>2, <1>3 DEF JobNext

(* The connections use their fences as OperationFence allows.              *)
LEMMA ConnFences == [Next]_vars => [FenceNext]_fenceVars
<1> SUFFICES ASSUME [Next]_vars PROVE [FenceNext]_fenceVars
  OBVIOUS
<1>1. CASE UNCHANGED vars
  BY <1>1 DEF vars, fenceVars
<1>2. CASE Restart
  BY <1>2 DEF Restart, ForgetOwners, FenceNext
<1>3. CASE ShutdownNext
  BY <1>3 DEF ShutdownNext, BeginShutdown, CancelRequests, CloseRegistry,
     CancelHandlers, HoldOperation, ReleaseOperation, FenceNext, fenceVars
<1>4. ASSUME NEW c \in Conns, ConnNext(c) PROVE [FenceNext]_fenceVars
  <2>1. CASE Accept(c)
    BY <2>1 DEF Accept, fenceVars
  <2>2. CASE CleanupNext(c)
    <3>1. CASE Remove(c)
      BY <3>1 DEF Remove, FenceNext, FenceOpNext, Conns
    <3>2. CASE Disconnect(c) \/ Take(c) \/ Skip(c) \/ Finish(c)
      BY <3>2 DEF Disconnect, Take, Skip, Finish, Cleanup, fenceVars
    <3> QED
      BY <2>2, <3>1, <3>2 DEF CleanupNext
  <2> QED
    BY <1>4, <2>1, <2>2, HandlerFences, JobFences DEF ConnNext
<1> QED
  BY <1>1, <1>2, <1>3, <1>4 DEF Next

-----------------------------------------------------------------------------
(* Types.                                                                  *)

LEMMA HandlerType ==
  ASSUME TypeOK, FenceTypeOK', NEW c \in Conns, HandlerNext(c)
  PROVE  TypeOK'
<1> USE DEF TypeOK, Conns
<1>1. CASE \/ Deny(c) \/ Close(c) \/ Answer(c) \/ GiveUp(c)
           \/ AwaitCancelled(c) \/ AnswerLate(c) \/ Leave(c)
           \/ CancelHandler(c)
  <2>1. \E at \in {"none", "closed", "open", "awaiting"} : Handler(c, at)
    BY <1>1 DEF Deny, Close, Answer, GiveUp, AwaitCancelled, AnswerLate,
       Leave, CancelHandler
  <2>2. UNCHANGED <<job, worker>>
    BY <1>1 DEF Deny, Close, Answer, GiveUp, AwaitCancelled, AnswerLate,
       Leave, CancelHandler
  <2> QED
    BY <2>1, <2>2 DEF Handler, Listening, ownedVars, shutdownVars
<1>2. CASE Open(c)
  BY <1>2 DEF Open, Listening, ownedVars, shutdownVars
<1>3. CASE Request(c)
  BY <1>3, HoldersAssumption
     DEF Request, Handler, Listening, ownedVars, shutdownVars
<1>4. CASE Spawn(c)
  BY <1>4 DEF Spawn, Handler, Listening, ownedVars, shutdownVars
<1>5. CASE DropFence(c)
  BY <1>5 DEF DropFence, connVars
<1> QED
  BY <1>1, <1>2, <1>3, <1>4, <1>5 DEF HandlerNext

(* A worker that is there has a job.                                       *)
LEMMA HasJob ==
  ASSUME TypeOK, NEW c \in Conns, worker[c] # "none"
  PROVE  job[c] \in Job /\ job[c].id \in Ids /\ job[c].nonce \in Nonces
BY DEF TypeOK, Job

LEMMA SettledType ==
  ASSUME TypeOK, NEW c \in Conns, worker[c] # "none", NEW published, Settled(c, published)
  PROVE  /\ entries' \in [Conns -> Entries]
         /\ taken' \in [Conns -> Entries]
         /\ warned' \subseteq Ids \X Nonces
<1>1. job[c].id \in Ids /\ job[c].nonce \in Nonces
  BY HasJob
<1>2. taken' \in [Conns -> Entries]
  BY <1>1 DEF TypeOK, Settled, Entries
<1> QED
  BY <1>1, <1>2 DEF TypeOK, Settled

LEMMA EndType ==
  ASSUME TypeOK, FenceTypeOK', NEW c \in Conns, worker[c] # "none", End(c),
         registry' \in [closed : BOOLEAN, panicked : BOOLEAN],
         UNCHANGED <<drained, cancelled>>
  PROVE  TypeOK'
<1>1. /\ entries' \in [Conns -> Entries]
      /\ taken' \in [Conns -> Entries]
      /\ warned' \subseteq Ids \X Nonces
  BY SettledType DEF End
<1> QED
  BY <1>1 DEF End, TypeOK

LEMMA JobType ==
  ASSUME TypeOK, FenceTypeOK', NEW c \in Conns, JobNext(c)
  PROVE  TypeOK'
<1>1. CASE Refuse(c) \/ Abandon(c) \/ Undo(c) \/ UndoFails(c)
  <2>1. worker[c] # "none" /\ End(c) /\ UNCHANGED shutdownVars
    BY <1>1 DEF Refuse, Abandon, Undo, UndoFails
  <2> QED
    BY <2>1, EndType DEF shutdownVars, TypeOK
<1>2. CASE Panic(c)
  <2>1. worker[c] # "none" /\ End(c) /\ UNCHANGED <<drained, cancelled>>
    BY <1>2 DEF Panic, Holding
  <2>2. registry' \in [closed : BOOLEAN, panicked : BOOLEAN]
    BY <1>2 DEF Panic, TypeOK
  <2> QED
    BY <2>1, <2>2, EndType
<1>3. CASE Begin(c) \/ Apply(c) \/ Publish(c) \/ Fail(c)
  <2>1. \E to \in Holding : Progress(c, to)
    BY <1>3 DEF Begin, Apply, Publish, Fail, Holding
  <2>2. worker[c] # "none" /\ operation' \in {operation, c}
    BY <1>3 DEF Begin, Apply, Publish, Fail
  <2> QED
    BY <2>1, <2>2 DEF Progress, Holding, ownedVars, shutdownVars, TypeOK
<1>4. CASE Commit(c)
  <2>1. worker[c] = "committing" /\ Settled(c, TRUE)
    BY <1>4 DEF Commit
  <2>2. /\ entries' \in [Conns -> Entries]
        /\ taken' \in [Conns -> Entries]
        /\ warned' \subseteq Ids \X Nonces
    BY <2>1, SettledType
  <2>3. owner' \in Entries
    BY <1>4, <2>1, HasJob DEF Commit, Registered, Entries, TypeOK
  <2> QED
    BY <1>4, <2>1, <2>2, <2>3 DEF Commit, shutdownVars, TypeOK
<1>5. CASE Record(c)
  <2>1. Registered(job[c]) \in Nonces \cup {None} /\ job[c].id \in Ids
    BY <1>5, HasJob DEF Record, Registered
  <2>2. entries' \in [Conns -> Entries]
    BY <1>5, <2>1 DEF Record, Entries, TypeOK
  <2> QED
    BY <1>5, <2>2 DEF Record, shutdownVars, TypeOK
<1>6. CASE CancelWorker(c)
  BY <1>6 DEF CancelWorker, connVars, TypeOK
<1> QED
  BY <1>1, <1>2, <1>3, <1>4, <1>5, <1>6 DEF JobNext

LEMMA CleanupType ==
  ASSUME TypeOK, FenceTypeOK', NEW c \in Conns, CleanupNext(c)
  PROVE  TypeOK'
<1> USE DEF TypeOK
<1>1. NoEntries \in Entries
  BY DEF NoEntries, Unowned, Entries
<1>2. CASE Disconnect(c) \/ Finish(c)
  BY <1>2 DEF Disconnect, Finish, Cleanup, shutdownVars
<1>3. CASE Take(c)
  BY <1>1, <1>3 DEF Take, Cleanup, shutdownVars
<1>4. CASE Skip(c)
  <2>1. taken' \in [Conns -> Entries]
    BY <1>4 DEF Skip, Entries
  <2> QED
    BY <1>4, <2>1 DEF Skip, Cleanup, shutdownVars
<1>5. CASE Remove(c)
  <2>1. PICK i \in Ids :
          /\ taken[c][i] # None
          /\ job' = [job EXCEPT ![c] =
                       [kind |-> "unregister", id |-> i, nonce |-> taken[c][i]]]
    BY <1>5 DEF Remove
  <2>2. taken[c][i] \in Nonces
    BY <2>1 DEF Entries
  <2>3. [kind |-> "unregister", id |-> i, nonce |-> taken[c][i]] \in Job
    BY <2>2 DEF Job
  <2> QED
    BY <1>5, <2>1, <2>3, HoldersAssumption
       DEF Remove, ownedVars, shutdownVars
<1> QED
  BY <1>2, <1>3, <1>4, <1>5 DEF CleanupNext

LEMMA NextType ==
  ASSUME TypeOK, FenceTypeOK', [Next]_vars
  PROVE  TypeOK'
<1>1. CASE UNCHANGED vars
  BY <1>1 DEF TypeOK, vars, connVars
<1>2. CASE Restart
  <2>1. NoEntries \in Entries
    BY DEF NoEntries, Unowned, Entries
  <2> QED
    BY <1>2, <2>1 DEF Restart, ForgetOwners, NoEntries, TypeOK
<1>3. CASE ShutdownNext
  BY <1>3 DEF ShutdownNext, BeginShutdown, CancelRequests, CloseRegistry,
     CancelHandlers, HoldOperation, ReleaseOperation, tasks, shutdownVars,
     connVars, ownedVars, TypeOK
<1>4. ASSUME NEW c \in Conns, ConnNext(c) PROVE TypeOK'
  <2>1. CASE Accept(c)
    BY <2>1 DEF Accept, Handler, ownedVars, shutdownVars, TypeOK
  <2> QED
    BY <1>4, <2>1, HandlerType, JobType, CleanupType DEF ConnNext
<1> QED
  BY <1>1, <1>2, <1>3, <1>4 DEF Next

(* The handlers, workers, cleanups and the registry of a daemon always     *)
(* have their types, and a worker always has its job (ipc/supervision.rs). *)
THEOREM ConnTypeCorrect == Spec => []TypeOK
<1>1. ConnInit => TypeOK /\ FenceInit
  <2>1. NoEntries \in Entries
    BY DEF NoEntries, Unowned, Entries
  <2>2. FenceInit => FenceTypeOK
    BY DEF FenceInit, FenceTypeOK, Permits, Verdicts
  <2>3. ConnInit => registry \in [closed : BOOLEAN, panicked : BOOLEAN]
    BY DEF ConnInit
  <2>4. ConnInit => drained \in BOOLEAN /\ cancelled \in BOOLEAN
    BY Zenon DEF ConnInit
  <2>5. ConnInit =>
          /\ FenceInit
          /\ owner \in Entries
          /\ handler \in [Conns -> {"none", "accepted", "closed"} \cup Listening]
          /\ cleanup \in [Conns -> {"none", "waiting", "taking", "removing"}]
          /\ entries \in [Conns -> Entries]
          /\ taken \in [Conns -> Entries]
          /\ job \in [Conns -> Job \cup {None}]
          /\ worker \in
               [Conns -> {"none", "admitted", "queued", "accepted"} \cup Holding]
          /\ \A c \in Conns : worker[c] = "none" <=> job[c] = None
          /\ operation \in Conns \cup {None, Stopper}
          /\ warned \subseteq Ids \X Nonces
    BY <2>1 DEF ConnInit, OwnershipInit, NoEntries
  <2> QED
    BY <2>2, <2>3, <2>4, <2>5, Zenon DEF TypeOK
<1>2. TypeOK /\ FenceTypeOK' /\ [Next]_vars => TypeOK'
  BY NextType
<1>3. Spec => FenceSpec
  BY <1>1, ConnFences, PTL DEF Spec, FenceSpec
<1>4. Spec => []FenceTypeOK
  BY <1>3, FenceTypeCorrect, PTL
<1> QED
  BY <1>1, <1>2, <1>4, PTL DEF Spec

-----------------------------------------------------------------------------
(* Owners.                                                                 *)

OwnerAllows(c) ==
  IF job[c].kind = "register"
  THEN owner[job[c].id] \in {None, job[c].nonce}
  ELSE owner[job[c].id] = job[c].nonce

(* What makes OwnershipRefined inductive: a job that is past its check has *)
(* config_operation, and what it has checked is still so.                  *)
Isolated ==
  \A c \in Conns : worker[c] \in Holding => operation = c /\ OwnerAllows(c)

LEMMA IsolatedElsewhere ==
  ASSUME TypeOK, Isolated, NEW c \in Conns,
         \A d \in Conns \ {c} : worker'[d] = worker[d] /\ job'[d] = job[d],
         worker'[c] \notin Holding,
         owner' = owner,
         operation' = operation \/ operation = c
  PROVE  Isolated'
BY HoldersAssumption DEF Isolated, OwnerAllows, Conns

LEMMA IsolatedHandlers ==
  ASSUME TypeOK, Isolated, NEW c \in Conns, HandlerNext(c)
  PROVE  Isolated'
<1>1. owner' = owner /\ operation' = operation
  BY DEF HandlerNext, Deny, Open, Close, Request, Spawn, Answer, GiveUp,
     AwaitCancelled, AnswerLate, Leave, CancelHandler, DropFence, Handler,
     connVars
<1>2. CASE UNCHANGED <<job, worker>>
  BY <1>1, <1>2 DEF Isolated, OwnerAllows
<1>3. CASE Request(c)
  BY <1>1, <1>3, IsolatedElsewhere DEF Request, Holding, TypeOK
<1>4. CASE Spawn(c)
  BY <1>1, <1>4, IsolatedElsewhere DEF Spawn, Holding, TypeOK
<1> QED
  BY <1>2, <1>3, <1>4
     DEF HandlerNext, Deny, Open, Close, Answer, GiveUp, AwaitCancelled,
         AnswerLate, Leave, CancelHandler, DropFence, connVars

LEMMA IsolatedCleanups ==
  ASSUME TypeOK, Isolated, NEW c \in Conns, CleanupNext(c)
  PROVE  Isolated'
<1>1. CASE Disconnect(c) \/ Take(c) \/ Skip(c) \/ Finish(c)
  BY <1>1 DEF Disconnect, Take, Skip, Finish, Cleanup, Isolated, OwnerAllows
<1>2. CASE Remove(c)
  <2>1. /\ worker'[c] = "queued"
        /\ \A d \in Conns \ {c} : worker'[d] = worker[d] /\ job'[d] = job[d]
    BY <1>2 DEF Remove, TypeOK
  <2> QED
    BY <1>2, <2>1, IsolatedElsewhere DEF Remove, Holding
<1> QED
  BY <1>1, <1>2 DEF CleanupNext

LEMMA IsolatedJobs ==
  ASSUME TypeOK, Isolated, NEW c \in Conns, JobNext(c)
  PROVE  Isolated'
<1>1. CASE Refuse(c) \/ Abandon(c) \/ Undo(c) \/ UndoFails(c) \/ Panic(c)
  <2>1. End(c)
    BY <1>1 DEF Refuse, Abandon, Undo, UndoFails, Panic
  <2> QED
    BY <2>1, IsolatedElsewhere DEF End, Holding, TypeOK
<1>2. CASE Begin(c)
  <2>1. \A d \in Conns : worker[d] \notin Holding
    BY <1>2, HoldersAssumption DEF Begin, Isolated, Conns
  <2>2. OwnerAllows(c)
    BY <1>2, HasJob DEF Begin, Admissible, OwnerAllows, Job, TypeOK
  <2> QED
    BY <1>2, <2>1, <2>2 DEF Begin, Progress, Isolated, OwnerAllows, TypeOK
<1>3. CASE Apply(c) \/ Publish(c) \/ Fail(c)
  <2>1. worker[c] \in Holding
    BY <1>3 DEF Apply, Publish, Fail, Holding
  <2>2. \E to \in Holding : Progress(c, to)
    BY <1>3 DEF Apply, Publish, Fail, Holding
  <2>3. operation' = operation
    BY <1>3 DEF Apply, Publish, Fail
  <2> QED
    BY <2>1, <2>2, <2>3 DEF Progress, Isolated, OwnerAllows, TypeOK
<1>4. CASE Commit(c)
  <2>1. operation = c
    BY <1>4 DEF Commit, Isolated, Holding
  <2>2. \A d \in Conns \ {c} : worker'[d] \notin Holding
    BY <1>4, <2>1 DEF Commit, Isolated, TypeOK
  <2>3. worker'[c] \notin Holding
    BY <1>4 DEF Commit, Holding, TypeOK
  <2> QED
    BY <2>2, <2>3 DEF Isolated
<1>5. CASE Record(c)
  BY <1>5, IsolatedElsewhere DEF Record, Holding, TypeOK
<1>6. CASE CancelWorker(c)
  BY <1>6 DEF CancelWorker, connVars, Isolated, OwnerAllows
<1> QED
  BY <1>1, <1>2, <1>3, <1>4, <1>5, <1>6 DEF JobNext

LEMMA IsolatedStep ==
  ASSUME TypeOK, Isolated, [Next]_vars
  PROVE  Isolated'
<1>1. CASE UNCHANGED vars
  BY <1>1 DEF vars, connVars, Isolated, OwnerAllows
<1>2. CASE Restart
  BY <1>2 DEF Restart, Isolated, Holding
<1>3. CASE ShutdownNext
  <2>1. CASE \/ BeginShutdown \/ CancelRequests \/ CloseRegistry
             \/ CancelHandlers
    BY <2>1 DEF BeginShutdown, CancelRequests, CloseRegistry, CancelHandlers,
       tasks, connVars, Isolated, OwnerAllows
  <2>2. CASE HoldOperation \/ ReleaseOperation
    <3>1. \A c \in Conns : worker[c] \notin Holding
      BY <2>2, HoldersAssumption
         DEF HoldOperation, ReleaseOperation, Isolated, Conns
    <3> QED
      BY <2>2, <3>1 DEF HoldOperation, ReleaseOperation, Isolated
  <2> QED
    BY <1>3, <2>1, <2>2 DEF ShutdownNext
<1>4. ASSUME NEW c \in Conns, ConnNext(c) PROVE Isolated'
  <2>1. CASE Accept(c)
    BY <2>1 DEF Accept, Handler, Isolated, OwnerAllows
  <2> QED
    BY <1>4, <2>1, IsolatedHandlers, IsolatedJobs, IsolatedCleanups
       DEF ConnNext
<1> QED
  BY <1>1, <1>2, <1>3, <1>4 DEF Next

(* Owners are changed by commits and restarts only.                        *)
LEMMA OwnershipStep ==
  ASSUME TypeOK, PermitRemembers, Isolated, [Next]_vars
  PROVE  [OwnershipNext]_owner
<1>1. CASE Restart
  BY <1>1 DEF Restart, OwnershipNext
<1>2. ASSUME NEW c \in Conns, Commit(c) PROVE OwnershipNext
  <2>1. /\ job[c] \in Job
        /\ OwnerAllows(c)
        /\ owner' = [owner EXCEPT ![job[c].id] = Registered(job[c])]
    BY <1>2, HasJob DEF Commit, Isolated, Holding
  <2>2. Commits(c)
    BY <1>2, <2>1, HoldersAssumption
       DEF Commit, GuardCommit, PermitRemembers, Commits, Conns, TypeOK,
           FenceTypeOK
  <2>3. ASSUME job[c].kind = "register" PROVE Claim(job[c])
    BY <2>1, <2>3 DEF OwnerAllows, Registered, Claim
  <2>4. ASSUME job[c].kind = "unregister" PROVE Withdraw(job[c])
    BY <2>1, <2>4 DEF OwnerAllows, Registered, Withdraw
  <2>5. job[c].kind \in {"register", "unregister"}
    BY <2>1 DEF Job
  <2> QED
    BY <2>2, <2>3, <2>4, <2>5 DEF OwnershipNext, Conns
<1>3. ASSUME NEW c \in Conns, JobNext(c), ~Commit(c) PROVE owner' = owner
  BY <1>3 DEF JobNext, Refuse, Begin, Apply, Publish, Abandon, Fail, Undo,
     UndoFails, Record, Panic, CancelWorker, End, Progress
<1>4. ASSUME NEW c \in Conns, HandlerNext(c) \/ CleanupNext(c) \/ Accept(c)
      PROVE  owner' = owner
  BY <1>4 DEF HandlerNext, Deny, Open, Close, Request, Spawn, Answer, GiveUp,
     AwaitCancelled, AnswerLate, Leave, CancelHandler, DropFence, Handler,
     connVars, CleanupNext, Disconnect, Take, Remove, Skip, Finish, Cleanup,
     Accept
<1>5. CASE ShutdownNext \/ UNCHANGED vars
  BY <1>5 DEF ShutdownNext, BeginShutdown, CancelRequests, CloseRegistry,
     CancelHandlers, HoldOperation, ReleaseOperation, tasks, vars
<1> QED
  BY <1>1, <1>2, <1>3, <1>4, <1>5 DEF Next, ConnNext

(* The owners of registrations change as Ownership specifies, for any      *)
(* number of connections, cleanups and workers that were left behind: what *)
(* a job has checked holds until it commits (state/registrations.rs,       *)
(* config_operation).                                                      *)
THEOREM OwnershipRefinedThm == Spec => OwnershipRefined
<1>1. ConnInit => OwnershipInit /\ Isolated
  BY DEF ConnInit, Isolated, Holding
<1>2. TypeOK /\ Isolated /\ [Next]_vars => Isolated'
  BY IsolatedStep
<1>3. TypeOK /\ PermitRemembers /\ Isolated /\ [Next]_vars
        => [OwnershipNext]_owner
  BY OwnershipStep
<1>4. Spec => FenceSpec
  BY ConnFences, PTL DEF Spec, ConnInit, FenceSpec
<1> QED
  BY <1>1, <1>2, <1>3, <1>4, ConnTypeCorrect, PermitAlwaysRemembers, PTL
     DEF Spec, OwnershipRefined, OwnershipSpec

-----------------------------------------------------------------------------
(* Tasks.                                                                  *)

(* What makes PermitCoversTasks inductive: a worker runs only under a      *)
(* cleanup that is still to come, and the cleanup waits for as long as the *)
(* handler may admit another mutation.                                     *)
TasksCovered ==
  \A c \in Conns :
    /\ cleanup[c] = "none" => worker[c] = "none"
    /\ handler[c] \in Listening => cleanup[c] = "waiting"
    /\ handler[c] = "accepted" => cleanup[c] = "none"
    /\ ~cancelled /\ handler[c] = "none" => cleanup[c] = "none"

(* One connection moves, and still has its tasks covered.                  *)
LEMMA TasksCoveredElsewhere ==
  ASSUME TasksCovered, NEW c \in Conns,
         \A d \in Conns \ {c} : /\ handler'[d] = handler[d]
                                /\ cleanup'[d] = cleanup[d]
                                /\ worker'[d] = worker[d],
         cleanup'[c] = "none" => worker'[c] = "none",
         handler'[c] \in Listening => cleanup'[c] = "waiting",
         handler'[c] = "accepted" => cleanup'[c] = "none",
         ~cancelled /\ handler'[c] = "none" => cleanup'[c] = "none",
         UNCHANGED cancelled
  PROVE  TasksCovered'
BY DEF TasksCovered, Conns

LEMMA TasksCoveredHandlers ==
  ASSUME TypeOK, TasksCovered, NEW c \in Conns, HandlerNext(c)
  PROVE  TasksCovered'
<1> USE DEF Listening, Handler, shutdownVars
<1>1. /\ cleanup[c] = "none" => worker[c] = "none"
      /\ handler[c] \in Listening => cleanup[c] = "waiting"
      /\ handler[c] = "accepted" => cleanup[c] = "none"
      /\ ~cancelled /\ handler[c] = "none" => cleanup[c] = "none"
  BY DEF TasksCovered
<1>2. CASE \/ Deny(c) \/ Close(c) \/ Answer(c) \/ GiveUp(c)
           \/ AwaitCancelled(c) \/ AnswerLate(c) \/ Leave(c)
           \/ CancelHandler(c)
  <2>1. /\ UNCHANGED <<worker, cleanup, cancelled>>
        /\ handler' = [handler EXCEPT ![c] = handler'[c]]
    BY <1>2 DEF Deny, Close, Answer, GiveUp, AwaitCancelled, AnswerLate,
       Leave, CancelHandler, TypeOK
  <2>2. /\ handler'[c] \in Listening => handler[c] \in Listening
        /\ handler'[c] # "accepted"
        /\ ~cancelled /\ handler'[c] = "none" =>
             handler[c] = "accepted" \/ cleanup[c] = "none"
    BY <1>2 DEF Deny, Close, Answer, GiveUp, AwaitCancelled, AnswerLate,
       Leave, CancelHandler, TypeOK
  <2>3. \A d \in Conns \ {c} : handler'[d] = handler[d]
    BY <2>1 DEF TypeOK
  <2> QED
    BY <1>1, <2>1, <2>2, <2>3, TasksCoveredElsewhere
<1>3. CASE Open(c)
  BY <1>1, <1>3, TasksCoveredElsewhere DEF Open, TypeOK
<1>4. CASE Request(c)
  BY <1>1, <1>4, TasksCoveredElsewhere DEF Request, TypeOK
<1>5. CASE Spawn(c)
  <2>1. CASE registry.closed
    BY <1>1, <1>5, <2>1, TasksCoveredElsewhere DEF Spawn, TypeOK
  <2>2. CASE ~registry.closed
    BY <1>1, <1>5, <2>2, TasksCoveredElsewhere DEF Spawn, TypeOK
  <2> QED
    BY <2>1, <2>2
<1>6. CASE DropFence(c)
  BY <1>6 DEF DropFence, connVars, TasksCovered
<1> QED
  BY <1>2, <1>3, <1>4, <1>5, <1>6 DEF HandlerNext

LEMMA TasksCoveredJobs ==
  ASSUME TypeOK, TasksCovered, NEW c \in Conns, JobNext(c)
  PROVE  TasksCovered'
<1>1. CASE CancelWorker(c)
  BY <1>1 DEF CancelWorker, connVars, TasksCovered
<1>2. CASE ~CancelWorker(c)
  <2>1. /\ worker[c] # "none"
        /\ UNCHANGED <<handler, cleanup, cancelled>>
        /\ \E at : worker' = [worker EXCEPT ![c] = at]
    BY <1>2 DEF JobNext, Refuse, Begin, Apply, Publish, Abandon, Fail, Undo,
       UndoFails, Commit, Record, Panic, End, Progress, Holding, shutdownVars
  <2>2. \A d \in Conns \ {c} : worker'[d] = worker[d]
    BY <2>1 DEF TypeOK
  <2> QED
    BY <2>1, <2>2 DEF TasksCovered
<1> QED
  BY <1>1, <1>2

LEMMA TasksCoveredCleanups ==
  ASSUME TypeOK, TasksCovered, NEW c \in Conns, CleanupNext(c)
  PROVE  TasksCovered'
<1> USE DEF Listening, Cleanup, Cleaning, shutdownVars
<1>1. CASE Disconnect(c)
  BY <1>1, TasksCoveredElsewhere DEF Disconnect, TasksCovered, TypeOK
<1>2. CASE Take(c)
  BY <1>2, TasksCoveredElsewhere DEF Take, TasksCovered, TypeOK
<1>3. CASE Remove(c)
  BY <1>3, TasksCoveredElsewhere DEF Remove, TasksCovered, TypeOK
<1>4. CASE Skip(c)
  BY <1>4, TasksCoveredElsewhere DEF Skip, TasksCovered, TypeOK
<1>5. CASE Finish(c)
  BY <1>5, TasksCoveredElsewhere DEF Finish, TasksCovered, TypeOK
<1> QED
  BY <1>1, <1>2, <1>3, <1>4, <1>5 DEF CleanupNext

LEMMA TasksCoveredStep ==
  ASSUME TypeOK, TasksCovered, [Next]_vars
  PROVE  TasksCovered'
<1>1. CASE UNCHANGED vars
  BY <1>1 DEF vars, connVars, TasksCovered
<1>2. CASE Restart
  BY <1>2 DEF Restart, TasksCovered, Listening
<1>3. CASE ShutdownNext
  BY <1>3 DEF ShutdownNext, BeginShutdown, CancelRequests, CloseRegistry,
     CancelHandlers, HoldOperation, ReleaseOperation, tasks, shutdownVars,
     connVars, TasksCovered
<1>4. ASSUME NEW c \in Conns, ConnNext(c) PROVE TasksCovered'
  <2>1. CASE Accept(c)
    BY <2>1, TasksCoveredElsewhere
       DEF Accept, Free, Handler, shutdownVars, Listening, TypeOK
  <2> QED
    BY <1>4, <2>1, TasksCoveredHandlers, TasksCoveredJobs,
       TasksCoveredCleanups DEF ConnNext
<1> QED
  BY <1>1, <1>2, <1>3, <1>4 DEF Next

(* No worker outlives its cleanup, and no cleanup starts before its        *)
(* handler has stopped listening (ipc/connection.rs, handle_connection).   *)
THEOREM TasksAlwaysCovered == Spec => []TasksCovered
<1>1. ConnInit => TasksCovered
  BY DEF ConnInit, TasksCovered, Listening
<1>2. TypeOK /\ TasksCovered /\ [Next]_vars => TasksCovered'
  BY TasksCoveredStep
<1> QED
  BY <1>1, <1>2, ConnTypeCorrect, PTL DEF Spec

(* A connection that has given its permit back has left no task behind,    *)
(* for any number of connections, so that max_connections bounds the       *)
(* workers and the cleanups as well (ipc/connection.rs).                   *)
THEOREM PermitCoversTasksThm == Spec => []PermitCoversTasks
<1>1. TasksCovered => PermitCoversTasks
  BY DEF TasksCovered, PermitCoversTasks
<1> QED
  BY <1>1, TasksAlwaysCovered, PTL

-----------------------------------------------------------------------------
(* Who still knows a registration.                                         *)

(* A cleanup that removes has taken everything there was to take, and its  *)
(* jobs withdraw what it has taken; before that it has taken nothing.      *)
CleanupFollows ==
  \A c \in Conns :
    IF Cleaning(c)
    THEN /\ entries[c] = NoEntries
         /\ worker[c] # "accepted"
         /\ worker[c] # "none" => /\ job[c].kind = "unregister"
                                  /\ job[c].nonce = taken[c][job[c].id]
    ELSE taken[c] = NoEntries

(* Another connection's move leaves them alone.                            *)
LEMMA CleanupFollowsElsewhere ==
  ASSUME CleanupFollows, NEW c \in Conns,
         \A d \in Conns \ {c} :
           /\ cleanup'[d] = cleanup[d] /\ worker'[d] = worker[d]
           /\ job'[d] = job[d]
           /\ entries'[d] = entries[d] /\ taken'[d] = taken[d],
         cleanup'[c] = "removing" =>
           /\ entries'[c] = NoEntries
           /\ worker'[c] # "accepted"
           /\ worker'[c] # "none" => /\ job'[c].kind = "unregister"
                                     /\ job'[c].nonce = taken'[c][job'[c].id],
         cleanup'[c] # "removing" => taken'[c] = NoEntries
  PROVE  CleanupFollows'
BY DEF CleanupFollows, Cleaning, Conns, NoEntries, Unowned

LEMMA CleanupFollowsHandlers ==
  ASSUME TypeOK, TasksCovered, CleanupFollows, NEW c \in Conns, HandlerNext(c)
  PROVE  CleanupFollows'
<1> USE DEF Handler, ownedVars
<1>1. CASE \/ Deny(c) \/ Close(c) \/ Answer(c) \/ GiveUp(c)
           \/ AwaitCancelled(c) \/ AnswerLate(c) \/ Leave(c)
           \/ CancelHandler(c) \/ DropFence(c)
  BY <1>1 DEF Deny, Close, Answer, GiveUp, AwaitCancelled, AnswerLate,
     Leave, CancelHandler, DropFence, connVars, CleanupFollows, Cleaning
<1>2. CASE Open(c)
  BY <1>2, CleanupFollowsElsewhere
     DEF Open, TasksCovered, CleanupFollows, Cleaning, TypeOK
<1>3. CASE Request(c)
  BY <1>3, CleanupFollowsElsewhere
     DEF Request, TasksCovered, Listening, CleanupFollows, Cleaning, TypeOK
<1>4. CASE Spawn(c)
  <2>1. CASE registry.closed
    BY <1>4, <2>1, CleanupFollowsElsewhere
       DEF Spawn, CleanupFollows, Cleaning, TypeOK
  <2>2. CASE ~registry.closed
    BY <1>4, <2>2, CleanupFollowsElsewhere
       DEF Spawn, CleanupFollows, Cleaning, TypeOK
  <2> QED
    BY <2>1, <2>2
<1> QED
  BY <1>1, <1>2, <1>3, <1>4 DEF HandlerNext

LEMMA CleanupFollowsJobs ==
  ASSUME TypeOK, CleanupFollows, NEW c \in Conns, JobNext(c)
  PROVE  CleanupFollows'
<1>1. CASE Refuse(c) \/ Abandon(c) \/ Undo(c) \/ UndoFails(c) \/ Panic(c)
  <2>1. End(c)
    BY <1>1 DEF Refuse, Abandon, Undo, UndoFails, Panic
  <2> QED
    BY <2>1, CleanupFollowsElsewhere
       DEF End, Settled, CleanupFollows, Cleaning, TypeOK
<1>2. CASE Begin(c) \/ Apply(c) \/ Publish(c) \/ Fail(c)
  <2>1. \E to \in Holding : Progress(c, to)
    BY <1>2 DEF Begin, Apply, Publish, Fail, Holding
  <2>2. worker[c] # "none"
    BY <1>2 DEF Begin, Apply, Publish, Fail
  <2> QED
    BY <2>1, <2>2, CleanupFollowsElsewhere
       DEF Progress, Holding, ownedVars, CleanupFollows, Cleaning, TypeOK
<1>3. CASE Commit(c)
  BY <1>3, CleanupFollowsElsewhere
     DEF Commit, Settled, CleanupFollows, Cleaning, TypeOK
<1>4. CASE Record(c)
  BY <1>4, CleanupFollowsElsewhere
     DEF Record, CleanupFollows, Cleaning, TypeOK
<1>5. CASE CancelWorker(c)
  BY <1>5 DEF CancelWorker, connVars, CleanupFollows, Cleaning
<1> QED
  BY <1>1, <1>2, <1>3, <1>4, <1>5 DEF JobNext

LEMMA CleanupFollowsCleanups ==
  ASSUME TypeOK, CleanupFollows, NEW c \in Conns, CleanupNext(c)
  PROVE  CleanupFollows'
<1> USE DEF Cleanup, Cleaning
<1>1. CASE Disconnect(c)
  BY <1>1, CleanupFollowsElsewhere DEF Disconnect, CleanupFollows, TypeOK
<1>2. CASE Take(c)
  BY <1>2, CleanupFollowsElsewhere DEF Take, TypeOK
<1>3. CASE Remove(c)
  <2>1. PICK i \in Ids :
          job' = [job EXCEPT ![c] =
                    [kind |-> "unregister", id |-> i, nonce |-> taken[c][i]]]
    BY <1>3 DEF Remove
  <2>2. /\ job'[c].kind = "unregister"
        /\ job'[c].nonce = taken[c][job'[c].id]
        /\ \A d \in Conns \ {c} : job'[d] = job[d]
    BY <2>1 DEF TypeOK
  <2> QED
    BY <1>3, <2>2, CleanupFollowsElsewhere
       DEF Remove, ownedVars, CleanupFollows, TypeOK
<1>4. CASE Skip(c)
  BY <1>4, CleanupFollowsElsewhere DEF Skip, CleanupFollows, TypeOK
<1>5. CASE Finish(c)
  BY <1>5, CleanupFollowsElsewhere DEF Finish, CleanupFollows, TypeOK
<1> QED
  BY <1>1, <1>2, <1>3, <1>4, <1>5 DEF CleanupNext

LEMMA CleanupFollowsStep ==
  ASSUME TypeOK, TasksCovered, CleanupFollows, [Next]_vars
  PROVE  CleanupFollows'
<1>1. CASE UNCHANGED vars
  BY <1>1 DEF vars, connVars, CleanupFollows, Cleaning
<1>2. CASE Restart
  BY <1>2 DEF Restart, CleanupFollows, Cleaning
<1>3. CASE ShutdownNext
  BY <1>3 DEF ShutdownNext, BeginShutdown, CancelRequests, CloseRegistry,
     CancelHandlers, HoldOperation, ReleaseOperation, tasks, ownedVars,
     connVars, CleanupFollows, Cleaning
<1>4. ASSUME NEW c \in Conns, ConnNext(c) PROVE CleanupFollows'
  <2>1. CASE Accept(c)
    BY <2>1 DEF Accept, Handler, ownedVars, CleanupFollows, Cleaning
  <2> QED
    BY <1>4, <2>1, CleanupFollowsHandlers, CleanupFollowsJobs,
       CleanupFollowsCleanups DEF ConnNext
<1> QED
  BY <1>1, <1>2, <1>3, <1>4 DEF Next

(* A cleanup removes exactly what it took (ipc/authorization.rs,           *)
(* disconnect_and_take_entries).                                           *)
THEOREM CleanupAlwaysFollows == Spec => []CleanupFollows
<1>1. ConnInit => CleanupFollows
  BY DEF ConnInit, CleanupFollows, Cleaning
<1>2. TypeOK /\ TasksCovered /\ CleanupFollows /\ [Next]_vars
        => CleanupFollows'
  BY CleanupFollowsStep
<1> QED
  BY <1>1, <1>2, ConnTypeCorrect, TasksAlwaysCovered, PTL DEF Spec

(* What the entry of an id is, or will be once the worker has recorded it. *)
Entry(c, i) ==
  IF worker[c] = "accepted" /\ job[c].id = i
  THEN Registered(job[c])
  ELSE entries[c][i]

KeptBy(c, i) == cleanup[c] # "none" /\ owner[i] \in {Entry(c, i), taken[c][i]}

(* What makes AccountedFor inductive: it is the entry as it will be that   *)
(* counts, since a worker that is late to record may overwrite an entry    *)
(* that another session owns by then.                                      *)
OwnersKept ==
  Serving =>
    \A i \in Ids :
      owner[i] # None => \/ \E c \in Conns : KeptBy(c, i)
                         \/ <<i, owner[i]>> \in warned

(* A move of one connection that changes no owner keeps them if it keeps   *)
(* those that it knows.                                                    *)
LEMMA OwnersKeptElsewhere ==
  ASSUME OwnersKept, NEW c \in Conns,
         \A d \in Conns \ {c} :
           /\ cleanup'[d] = cleanup[d] /\ worker'[d] = worker[d]
           /\ job'[d] = job[d]
           /\ entries'[d] = entries[d] /\ taken'[d] = taken[d],
         UNCHANGED owner, warned \subseteq warned', Serving' => Serving,
         \A i \in Ids : Serving' /\ owner[i] # None /\ KeptBy(c, i)
           => KeptBy(c, i)' \/ <<i, owner[i]>> \in warned'
  PROVE  OwnersKept'
<1> SUFFICES ASSUME Serving', NEW i \in Ids, owner[i] # None
             PROVE  \/ \E d \in Conns : KeptBy(d, i)'
                    \/ <<i, owner[i]>> \in warned'
  BY DEF OwnersKept
<1>1. CASE <<i, owner[i]>> \in warned
  BY <1>1
<1>2. ASSUME NEW d \in Conns, KeptBy(d, i)
      PROVE  \/ \E e \in Conns : KeptBy(e, i)'
             \/ <<i, owner[i]>> \in warned'
  <2>1. CASE d = c
    BY <1>2, <2>1
  <2>2. CASE d # c
    BY <1>2, <2>2 DEF KeptBy, Entry, Registered
  <2> QED
    BY <2>1, <2>2
<1> QED
  BY <1>1, <1>2 DEF OwnersKept

LEMMA OwnersKeptHandlers ==
  ASSUME TypeOK, TasksCovered, OwnersKept, NEW c \in Conns, HandlerNext(c)
  PROVE  OwnersKept'
<1> USE DEF Handler, ownedVars, shutdownVars, Conns
<1>1. /\ UNCHANGED <<owner, entries, taken, warned>>
      /\ Serving' => Serving
  BY DEF HandlerNext, Deny, Open, Close, Request, Spawn, Answer, GiveUp,
     AwaitCancelled, AnswerLate, Leave, CancelHandler, DropFence, connVars,
     fenceVars, Issue, TryRevoke, Complete, Release, Serving
<1>2. CASE \/ Deny(c) \/ Close(c) \/ Answer(c) \/ GiveUp(c)
           \/ AwaitCancelled(c) \/ AnswerLate(c) \/ Leave(c)
           \/ CancelHandler(c) \/ DropFence(c)
  <2>1. UNCHANGED <<job, worker, cleanup>>
    BY <1>2 DEF Deny, Close, Answer, GiveUp, AwaitCancelled, AnswerLate,
       Leave, CancelHandler, DropFence, connVars
  <2> QED
    BY <1>1, <2>1 DEF OwnersKept, KeptBy, Entry, Registered
<1>3. CASE Open(c)
  <2>1. /\ cleanup[c] = "none" /\ UNCHANGED <<job, worker>>
        /\ \A d \in Conns \ {c} : cleanup'[d] = cleanup[d]
    BY <1>3 DEF Open, TasksCovered, TypeOK
  <2> QED
    BY <1>1, <2>1, OwnersKeptElsewhere DEF KeptBy
<1>4. CASE Request(c)
  <2>1. /\ worker[c] = "none" /\ worker'[c] = "admitted"
        /\ UNCHANGED cleanup
        /\ \A d \in Conns \ {c} : worker'[d] = worker[d] /\ job'[d] = job[d]
    BY <1>4 DEF Request, TypeOK
  <2> QED
    BY <1>1, <2>1, OwnersKeptElsewhere DEF KeptBy, Entry
<1>5. CASE Spawn(c)
  <2>1. /\ worker[c] = "admitted" /\ worker'[c] \in {"none", "queued"}
        /\ UNCHANGED cleanup
        /\ \A d \in Conns \ {c} : worker'[d] = worker[d] /\ job'[d] = job[d]
    <3>1. CASE registry.closed
      BY <1>5, <3>1 DEF Spawn, TypeOK
    <3>2. CASE ~registry.closed
      BY <1>5, <3>2 DEF Spawn, TypeOK
    <3> QED
      BY <3>1, <3>2
  <2> QED
    BY <1>1, <2>1, OwnersKeptElsewhere DEF KeptBy, Entry
<1> QED
  BY <1>2, <1>3, <1>4, <1>5 DEF HandlerNext

(* A job that ends unpublished leaves what its cleanup took in the log.    *)
LEMMA OwnersKeptAtEnd ==
  ASSUME TypeOK, CleanupFollows, OwnersKept, NEW c \in Conns,
         worker[c] \notin {"none", "accepted"}, End(c), Serving' => Serving
  PROVE  OwnersKept'
<1>1. /\ \A d \in Conns \ {c} : worker'[d] = worker[d] /\ job'[d] = job[d]
      /\ worker'[c] = "none"
      /\ UNCHANGED <<owner, cleanup, entries>>
  BY DEF End, Settled, TypeOK
<1>2. CASE ~Cleaning(c)
  BY <1>1, <1>2, OwnersKeptElsewhere DEF End, Settled, KeptBy, Entry
<1>3. CASE Cleaning(c)
  <2>1. /\ warned' = warned \cup {<<job[c].id, taken[c][job[c].id]>>}
        /\ taken' = [taken EXCEPT ![c][job[c].id] = None]
    BY <1>3 DEF End, Settled, CleanupFollows
  <2>2. \A d \in Conns \ {c} : taken'[d] = taken[d]
    BY <2>1 DEF TypeOK
  <2>3. \A i \in Ids \ {job[c].id} : taken'[c][i] = taken[c][i]
    BY <2>1 DEF TypeOK, Entries
  <2>4. \A i \in Ids : Entry(c, i) = None /\ Entry(c, i)' = None
    <3>1. entries[c] = NoEntries
      BY <1>3 DEF CleanupFollows
    <3> QED
      BY <1>1, <3>1 DEF Entry, NoEntries, Unowned
  <2>5. ASSUME NEW i \in Ids, owner[i] # None, KeptBy(c, i)
        PROVE  KeptBy(c, i)' \/ <<i, owner[i]>> \in warned'
    <3>1. owner[i] = taken[c][i] /\ cleanup[c] # "none"
      BY <2>4, <2>5 DEF KeptBy
    <3>2. CASE i = job[c].id
      BY <2>1, <3>1, <3>2
    <3>3. CASE i # job[c].id
      BY <1>1, <2>3, <3>1, <3>3 DEF KeptBy
    <3> QED
      BY <3>2, <3>3
  <2> QED
    BY <1>1, <2>1, <2>2, <2>5, OwnersKeptElsewhere
<1> QED
  BY <1>2, <1>3

(* A commit makes its own worker, or nobody, know the owner.               *)
LEMMA OwnersKeptCommit ==
  ASSUME TypeOK, TasksCovered, CleanupFollows, OwnersKept,
         NEW c \in Conns, Commit(c)
  PROVE  OwnersKept'
<1> DEFINE j == job[c].id
<1>1. /\ worker[c] = "committing" /\ cleanup[c] # "none"
      /\ job[c] \in Job /\ j \in Ids
  BY HasJob DEF Commit, TasksCovered
<1>2. /\ owner' = [owner EXCEPT ![j] = Registered(job[c])]
      /\ UNCHANGED <<cleanup, entries>>
      /\ warned' = warned \ ({j} \X Nonces)
      /\ Serving' => Serving
  BY DEF Commit, Settled, GuardCommit, Serving, shutdownVars
<1>3. \A d \in Conns \ {c} : /\ worker'[d] = worker[d] /\ job'[d] = job[d]
                             /\ taken'[d] = taken[d]
  BY DEF Commit, Settled, TypeOK
<1>4. owner'[j] = Registered(job[c]) /\ \A i \in Ids \ {j} : owner'[i] = owner[i]
  BY <1>1, <1>2 DEF TypeOK, Entries
<1>5. CASE Cleaning(c)
  <2>1. owner'[j] = None
    BY <1>1, <1>4, <1>5 DEF CleanupFollows, Registered
  <2>2. /\ worker'[c] = "none"
        /\ \A i \in Ids \ {j} : taken'[c][i] = taken[c][i]
    BY <1>1, <1>5 DEF Commit, Settled, TypeOK, Entries
  <2>3. ASSUME NEW i \in Ids \ {j}, NEW d \in Conns, KeptBy(d, i)
        PROVE  KeptBy(d, i)'
    <3>1. CASE d = c
      BY <1>1, <1>2, <1>4, <2>2, <2>3, <3>1 DEF KeptBy, Entry
    <3>2. CASE d # c
      BY <1>2, <1>3, <1>4, <2>3, <3>2 DEF KeptBy, Entry, Registered
    <3> QED
      BY <3>1, <3>2
  <2> QED
    BY <1>2, <1>4, <2>1, <2>3 DEF OwnersKept
<1>6. CASE ~Cleaning(c)
  <2>1. /\ worker'[c] = "accepted" /\ job' = job /\ taken' = taken
    BY <1>6 DEF Commit, Settled, TypeOK
  <2>2. KeptBy(c, j)'
    BY <1>1, <1>2, <1>4, <2>1 DEF KeptBy, Entry, Registered
  <2>3. ASSUME NEW i \in Ids \ {j}, NEW d \in Conns, KeptBy(d, i)
        PROVE  KeptBy(d, i)'
    <3>1. CASE d = c
      BY <1>1, <1>2, <1>4, <2>1, <2>3, <3>1 DEF KeptBy, Entry
    <3>2. CASE d # c
      BY <1>2, <1>3, <1>4, <2>3, <3>2 DEF KeptBy, Entry, Registered
    <3> QED
      BY <3>1, <3>2
  <2>4. ASSUME Serving', NEW i \in Ids, owner'[i] # None
        PROVE  \/ \E d \in Conns : KeptBy(d, i)'
               \/ <<i, owner'[i]>> \in warned'
    <3>1. CASE i = j
      BY <2>1, <2>2, <3>1
    <3>2. CASE i # j
      <4>1. Serving /\ i \in Ids \ {j} /\ owner'[i] = owner[i] /\ owner[i] # None
        BY <1>2, <1>4, <2>4, <3>2
      <4>2. CASE <<i, owner[i]>> \in warned
        BY <1>2, <4>1, <4>2
      <4>3. ASSUME NEW d \in Conns, KeptBy(d, i)
            PROVE  KeptBy(d, i)'
        BY <2>3, <4>1, <4>3
      <4> QED
        BY <4>1, <4>2, <4>3 DEF OwnersKept
    <3> QED
      BY <3>1, <3>2
  <2> QED
    BY <2>4 DEF OwnersKept
<1> QED
  BY <1>5, <1>6

LEMMA OwnersKeptJobs ==
  ASSUME TypeOK, TasksCovered, CleanupFollows, OwnersKept,
         NEW c \in Conns, JobNext(c)
  PROVE  OwnersKept'
<1>1. CASE Refuse(c) \/ Abandon(c) \/ Undo(c)
  <2>1. /\ worker[c] \notin {"none", "accepted"} /\ End(c)
        /\ Serving' => Serving
    BY <1>1 DEF Refuse, Abandon, Undo, Serving, fenceVars, shutdownVars
  <2> QED
    BY <2>1, OwnersKeptAtEnd
<1>2. CASE UndoFails(c) \/ Panic(c)
  <2>1. ~Serving'
    BY <1>2 DEF UndoFails, BeginDrain, DrainedLifecycle, Panic, Serving,
       TypeOK, FenceTypeOK
  <2> QED
    BY <2>1 DEF OwnersKept
<1>3. CASE Begin(c) \/ Apply(c) \/ Publish(c) \/ Fail(c)
  <2>1. \E to \in Holding : Progress(c, to)
    BY <1>3 DEF Begin, Apply, Publish, Fail, Holding
  <2>2. worker[c] # "accepted" /\ (Serving' => Serving)
    BY <1>3 DEF Begin, Apply, Publish, BeginFinalCommit, Fail, GuardDrop,
       Progress, Serving, fenceVars, shutdownVars
  <2>3. /\ worker'[c] # "accepted"
        /\ UNCHANGED <<owner, cleanup, entries, taken, warned, job>>
        /\ \A d \in Conns \ {c} : worker'[d] = worker[d]
    BY <2>1 DEF Progress, Holding, ownedVars, TypeOK
  <2> QED
    BY <2>2, <2>3, OwnersKeptElsewhere DEF KeptBy, Entry
<1>4. CASE Commit(c)
  BY <1>4, OwnersKeptCommit
<1>5. CASE Record(c)
  <2>1. /\ worker[c] = "accepted" /\ worker'[c] = "none"
        /\ entries' = [entries EXCEPT ![c][job[c].id] = Registered(job[c])]
        /\ UNCHANGED <<owner, cleanup, taken, warned>>
        /\ job[c].id \in Ids
        /\ Serving' => Serving
    BY <1>5, HasJob DEF Record, Serving, fenceVars, shutdownVars, TypeOK
  <2>2. \A d \in Conns \ {c} : /\ worker'[d] = worker[d] /\ job'[d] = job[d]
                               /\ entries'[d] = entries[d]
    BY <1>5 DEF Record, TypeOK
  <2>3. \A i \in Ids : Entry(c, i)' = Entry(c, i)
    BY <2>1 DEF Entry, TypeOK, Entries
  <2> QED
    BY <2>1, <2>2, <2>3, OwnersKeptElsewhere DEF KeptBy
<1>6. CASE CancelWorker(c)
  BY <1>6 DEF CancelWorker, TryRevoke, connVars, OwnersKept, Serving, KeptBy,
     Entry, Registered
<1> QED
  BY <1>1, <1>2, <1>3, <1>4, <1>5, <1>6 DEF JobNext

LEMMA OwnersKeptCleanups ==
  ASSUME TypeOK, CleanupFollows, OwnersKept, NEW c \in Conns, CleanupNext(c)
  PROVE  OwnersKept'
<1> USE DEF Cleanup, Cleaning, shutdownVars
<1>1. UNCHANGED <<owner, warned>> /\ (Serving' => Serving)
  BY DEF CleanupNext, Disconnect, Take, Remove, Skip, Finish, Issue, Serving,
     fenceVars, ownedVars
<1>2. CASE Disconnect(c)
  <2>1. /\ UNCHANGED <<job, worker, entries, taken>>
        /\ cleanup[c] # "none" /\ cleanup'[c] # "none"
        /\ \A d \in Conns \ {c} : cleanup'[d] = cleanup[d]
    BY <1>2 DEF Disconnect, TypeOK
  <2> QED
    BY <1>1, <2>1, OwnersKeptElsewhere DEF KeptBy, Entry, Registered
<1>3. CASE Take(c)
  <2>1. /\ UNCHANGED <<job, worker>> /\ worker[c] = "none"
        /\ cleanup'[c] # "none"
        /\ taken'[c] = entries[c] /\ taken[c] = NoEntries
    BY <1>3 DEF Take, CleanupFollows, TypeOK
  <2>2. \A d \in Conns \ {c} : /\ cleanup'[d] = cleanup[d]
                               /\ entries'[d] = entries[d]
                               /\ taken'[d] = taken[d]
    BY <1>3 DEF Take, TypeOK
  <2>3. ASSUME NEW i \in Ids, owner[i] # None, KeptBy(c, i)
        PROVE  KeptBy(c, i)'
    BY <1>1, <2>1, <2>3 DEF KeptBy, Entry, NoEntries, Unowned
  <2> QED
    BY <1>1, <2>1, <2>2, <2>3, OwnersKeptElsewhere
<1>4. CASE Remove(c)
  <2>1. /\ UNCHANGED <<cleanup, entries, taken>>
        /\ worker[c] = "none" /\ worker'[c] = "queued"
        /\ \A d \in Conns \ {c} : worker'[d] = worker[d] /\ job'[d] = job[d]
    BY <1>4 DEF Remove, ownedVars, TypeOK
  <2> QED
    BY <1>1, <2>1, OwnersKeptElsewhere DEF KeptBy, Entry
<1>5. CASE Skip(c)
  <2>1. ~Serving'
    BY <1>5 DEF Skip, Serving, fenceVars
  <2> QED
    BY <2>1 DEF OwnersKept
<1>6. CASE Finish(c)
  <2>1. /\ UNCHANGED <<job, worker, entries, taken>> /\ worker[c] = "none"
        /\ entries[c] = NoEntries /\ taken[c] = NoEntries
        /\ \A d \in Conns \ {c} : cleanup'[d] = cleanup[d]
    BY <1>6 DEF Finish, CleanupFollows, TypeOK
  <2>2. \A i \in Ids : KeptBy(c, i) => owner[i] = None
    BY <2>1 DEF KeptBy, Entry, NoEntries, Unowned
  <2> QED
    BY <1>1, <2>1, <2>2, OwnersKeptElsewhere
<1> QED
  BY <1>2, <1>3, <1>4, <1>5, <1>6 DEF CleanupNext

LEMMA OwnersKeptStep ==
  ASSUME TypeOK, TasksCovered, CleanupFollows, OwnersKept, [Next]_vars
  PROVE  OwnersKept'
<1>1. CASE UNCHANGED vars
  BY <1>1 DEF vars, fenceVars, connVars, OwnersKept, Serving, KeptBy, Entry,
     Registered
<1>2. CASE Restart
  BY <1>2 DEF Restart, ForgetOwners, Unowned, OwnersKept
<1>3. CASE ShutdownNext
  <2>1. UNCHANGED <<owner, cleanup, entries, taken, warned, job, worker>>
    BY <1>3 DEF ShutdownNext, BeginShutdown, CancelRequests, CloseRegistry,
       CancelHandlers, HoldOperation, ReleaseOperation, tasks, ownedVars,
       connVars
  <2>2. Serving' => Serving
    BY <1>3 DEF ShutdownNext, BeginShutdown, BeginDrain, DrainedLifecycle,
       CancelRequests, CloseRegistry, CancelHandlers, HoldOperation,
       ReleaseOperation, fenceVars, connVars, shutdownVars, Serving, TypeOK,
       FenceTypeOK
  <2> QED
    BY <2>1, <2>2 DEF OwnersKept, KeptBy, Entry, Registered
<1>4. ASSUME NEW c \in Conns, ConnNext(c) PROVE OwnersKept'
  <2>1. CASE Accept(c)
    BY <2>1 DEF Accept, Handler, ownedVars, shutdownVars, fenceVars,
       OwnersKept, Serving, KeptBy, Entry, Registered
  <2> QED
    BY <1>4, <2>1, OwnersKeptHandlers, OwnersKeptJobs, OwnersKeptCleanups
       DEF ConnNext
<1> QED
  BY <1>1, <1>2, <1>3, <1>4 DEF Next

(* While the daemon serves, every registration is known to a cleanup that  *)
(* has still to run, or the log says that its cleanup failed: for any      *)
(* number of connections and workers left behind, no session that is gone  *)
(* leaves an orphan (ipc/supervision.rs, execute, and                      *)
(* ipc/authorization.rs, disconnect_and_take_entries).                     *)
THEOREM AccountedForThm == Spec => []AccountedFor
<1>1. ConnInit => OwnersKept
  BY DEF ConnInit, OwnershipInit, Unowned, OwnersKept
<1>2. TypeOK /\ TasksCovered /\ CleanupFollows /\ OwnersKept /\ [Next]_vars
        => OwnersKept'
  BY OwnersKeptStep
<1>3. TypeOK /\ OwnersKept => AccountedFor
  <2> SUFFICES ASSUME TypeOK, OwnersKept, Serving, NEW i \in Ids,
                      owner[i] # None, <<i, owner[i]>> \notin warned
               PROVE  Watched(i)
    BY DEF AccountedFor
  <2>1. PICK c \in Conns : KeptBy(c, i)
    BY DEF OwnersKept
  <2>2. CASE owner[i] \in {entries[c][i], taken[c][i]}
    BY <2>1, <2>2 DEF KeptBy, Watched, Knows
  <2>3. CASE owner[i] \notin {entries[c][i], taken[c][i]}
    <3>1. /\ worker[c] = "accepted" /\ job[c].id = i
          /\ owner[i] = Registered(job[c])
      BY <2>1, <2>3 DEF KeptBy, Entry
    <3>2. job[c] \in Job /\ job[c].kind = "register" /\ owner[i] = job[c].nonce
      BY <3>1, HasJob DEF Registered, Job
    <3>3. job[c] = [kind |-> "register", id |-> i, nonce |-> owner[i]]
      BY <3>1, <3>2 DEF Job
    <3> QED
      BY <2>1, <3>1, <3>3 DEF KeptBy, Watched, Knows
  <2> QED
    BY <2>2, <2>3
<1> QED
  BY <1>1, <1>2, <1>3, ConnTypeCorrect, TasksAlwaysCovered,
     CleanupAlwaysFollows, PTL DEF Spec

-----------------------------------------------------------------------------
(* The server refines the connections.                                     *)

(* A step of the server's tasks is one of Connections, but for Accept.     *)
LEMMA ConnStepCases ==
  ASSUME NEW c \in Conns, ConnStep(c)
  PROVE  /\ UNCHANGED <<phase, storage, outcomeVars>>
         /\ \/ phase = "serving" /\ Accept(c)
            \/ HandlerNext(c)
            \/ JobNext(c)
            \/ CleanupNext(c)
BY DEF ConnStep, CaddyStep, FailClosed, OtherJob, JobNext

(* What the server does to its connections, of what Connections allows:    *)
(* every other step leaves them alone.                                     *)
LEMMA TeardownCases ==
  ASSUME Teardown
  PROVE  \/ UNCHANGED vars
         \/ BeginShutdown /\ phase = "serving" /\ phase' = "handlers"
         \/ CancelRequests /\ phase = "handlers" /\ phase' = "handlers"
         \/ CloseRegistry /\ phase = "handlers" /\ phase' = "handlers"
         \/ CancelHandlers /\ phase = "handlers" /\ phase' = "handlers"
         \/ HoldOperation /\ phase' = "stopping"
         \/ ReleaseOperation /\ phase = "stopping" /\ phase' \in {"force", "storage"}
<1>1. CASE LoopEnds \/ RefuseWork \/ GraceOver
  BY <1>1 DEF LoopEnds, RefuseWork, GraceOver
<1>2. CASE HandlersJoined \/ HandlersLate
  BY <1>2 DEF HandlersJoined, HandlersLate, HandlersOver
<1>3. CASE AcquireOperation \/ AcquireLate
  BY <1>3 DEF AcquireOperation, AcquireLate, Enter
<1>4. CASE StopCaddy \/ StopFails \/ ForceStop
  BY <1>4 DEF StopCaddy, StopFails, ForceStop, Enter
<1>5. CASE ForceStopFails \/ CloseStorage
  BY <1>5 DEF ForceStopFails, CloseStorage, Return
<1> QED
  BY <1>1, <1>2, <1>3, <1>4, <1>5 DEF Teardown

(* The daemon drains from the end of its loop on, and the registry is      *)
(* closed once the handlers are over.                                      *)
PhaseFollows ==
  /\ registry \in [closed : BOOLEAN, panicked : BOOLEAN]
  /\ phase = "serving" => ~drained
  /\ phase # "serving" => lifecycle.phase = "draining"
  /\ phase \notin {"serving", "handlers"} => registry.closed

LEMMA ConnStepShutdown ==
  ASSUME registry \in [closed : BOOLEAN, panicked : BOOLEAN],
         NEW c \in Conns, ConnStep(c)
  PROVE  /\ drained' = drained
         /\ registry' \in [closed : BOOLEAN, panicked : BOOLEAN]
         /\ registry'.closed = registry.closed
         /\ lifecycle.phase = "draining" => lifecycle'.phase = "draining"
<1>1. CASE Accept(c)
  BY <1>1 DEF Accept, Handler, shutdownVars, fenceVars
<1>2. CASE HandlerNext(c)
  BY <1>2 DEF HandlerNext, Deny, Open, Close, Request, Spawn, Answer, GiveUp,
     AwaitCancelled, AnswerLate, Leave, CancelHandler, DropFence, Handler,
     Issue, TryRevoke, Complete, Release, shutdownVars, fenceVars, connVars
<1>3. CASE JobNext(c)
  <2>1. CASE \/ Refuse(c) \/ Begin(c) \/ Apply(c) \/ Publish(c)
             \/ Abandon(c) \/ Fail(c)
    BY <2>1 DEF Refuse, Begin, Apply, Publish, Abandon, Fail, End, Progress,
       BeginFinalCommit, GuardDrop, shutdownVars, fenceVars
  <2>2. CASE \/ Undo(c) \/ UndoFails(c) \/ Commit(c) \/ Record(c)
             \/ CancelWorker(c)
    BY <2>2 DEF Undo, UndoFails, Commit, Record, CancelWorker, End, BeginDrain,
       DrainedLifecycle, GuardCommit, TryRevoke, shutdownVars, fenceVars,
       connVars
  <2>3. CASE Panic(c)
    BY <2>3 DEF Panic, GuardDrop, fenceVars
  <2> QED
    BY <1>3, <2>1, <2>2, <2>3 DEF JobNext
<1>4. CASE CleanupNext(c)
  BY <1>4 DEF CleanupNext, Disconnect, Take, Remove, Skip, Finish, Cleanup,
     Issue, shutdownVars, fenceVars
<1> QED
  BY <1>1, <1>2, <1>3, <1>4, ConnStepCases

LEMMA PhaseFollowsStep ==
  ASSUME PhaseFollows, [ServerNext]_allVars
  PROVE  PhaseFollows'
<1>1. CASE UNCHANGED allVars
  BY <1>1 DEF allVars, vars, fenceVars, connVars, PhaseFollows
<1>2. CASE RequestShutdown \/ CaddyExits
  BY <1>2 DEF RequestShutdown, CaddyExits, vars, fenceVars, connVars,
     PhaseFollows
<1>3. CASE ServerRestart
  BY <1>3 DEF ServerRestart, Restart, PhaseFollows
<1>4. ASSUME NEW c \in Conns, ConnStep(c) PROVE PhaseFollows'
  BY <1>4, ConnStepCases, ConnStepShutdown DEF PhaseFollows
<1>5. CASE Teardown
  <2>1. CASE LoopEnds
    BY <2>1 DEF LoopEnds, BeginShutdown, BeginDrain, DrainedLifecycle,
       connVars, PhaseFollows
  <2>2. CASE RefuseWork
    BY <2>2 DEF RefuseWork, CancelRequests, CloseRegistry, fenceVars,
       PhaseFollows
  <2>3. CASE GraceOver
    BY <2>3 DEF GraceOver, CancelHandlers, fenceVars, PhaseFollows
  <2>4. CASE HandlersJoined \/ HandlersLate
    BY <2>4 DEF HandlersJoined, HandlersLate, HandlersOver, vars, fenceVars,
       connVars, PhaseFollows
  <2>5. CASE AcquireOperation \/ AcquireLate
    BY <2>5 DEF AcquireOperation, AcquireLate, Enter, HoldOperation, vars,
       fenceVars, connVars, shutdownVars, PhaseFollows
  <2>6. CASE StopCaddy \/ StopFails \/ ForceStop
    BY <2>6 DEF StopCaddy, StopFails, ForceStop, Enter, ReleaseOperation,
       vars, fenceVars, connVars, shutdownVars, PhaseFollows
  <2>7. CASE ForceStopFails \/ CloseStorage
    BY <2>7 DEF ForceStopFails, CloseStorage, CloseDatabase, Return, vars,
       fenceVars, connVars, PhaseFollows
  <2> QED
    BY <1>5, <2>1, <2>2, <2>3, <2>4, <2>5, <2>6, <2>7 DEF Teardown
<1> QED
  BY <1>1, <1>2, <1>3, <1>4, <1>5 DEF ServerNext

LEMMA RefinementStep ==
  ASSUME PhaseFollows, [ServerNext]_allVars
  PROVE  [Next]_vars
<1>1. CASE UNCHANGED allVars
  BY <1>1 DEF allVars
<1>2. CASE RequestShutdown \/ CaddyExits
  BY <1>2 DEF RequestShutdown, CaddyExits
<1>3. CASE ServerRestart
  BY <1>3 DEF ServerRestart, Next
<1>4. ASSUME NEW c \in Conns, ConnStep(c) PROVE Next
  BY <1>4, ConnStepCases DEF PhaseFollows, Next, ConnNext
<1>5. CASE Teardown
  BY <1>5, TeardownCases, ShutdownAssumption DEF Next, ShutdownNext
<1> QED
  BY <1>1, <1>2, <1>3, <1>4, <1>5 DEF ServerNext

(* The server drives its connections only as Connections allows, in every  *)
(* order in which its deadlines may pass (ipc.rs, run_until): it accepts   *)
(* nothing once it has drained, and every daemon that follows another      *)
(* finds a closed registry behind it.  So what is shown of Connections     *)
(* holds of the server's connections as well.                              *)
THEOREM ConnectionsRefinedThm == ServerSpec => ConnectionsRefined
<1>1. ServerInit => ConnInit /\ PhaseFollows
  BY DEF ServerInit, ConnInit, PhaseFollows
<1>2. PhaseFollows /\ [ServerNext]_allVars => PhaseFollows' /\ [Next]_vars
  BY PhaseFollowsStep, RefinementStep
<1> QED
  BY <1>1, <1>2, PTL DEF ServerSpec, ConnectionsRefined, Spec

-----------------------------------------------------------------------------
(* What the server takes over from Connections.                            *)

LEMMA ConnectionsHold == ServerSpec => [](TypeOK /\ Isolated)
<1>1. ConnInit => Isolated
  BY DEF ConnInit, Isolated, Holding
<1>2. TypeOK /\ Isolated /\ [Next]_vars => Isolated'
  BY IsolatedStep
<1>3. Spec => []TypeOK
  BY ConnTypeCorrect
<1>4. Spec => []Isolated
  BY <1>1, <1>2, <1>3, PTL DEF Spec
<1> QED
  BY <1>3, <1>4, ConnectionsRefinedThm, PTL DEF ConnectionsRefined

(* What the connections promise, they promise while run_until drives them: *)
(* no session that is gone leaves an orphan, no task outlives its permit,  *)
(* and owners change as Ownership specifies (ipc.rs, run_until).           *)
THEOREM ServedConnectionsHold ==
  ServerSpec => [](AccountedFor /\ PermitCoversTasks) /\ OwnershipRefined
BY ConnectionsRefinedThm, AccountedForThm, PermitCoversTasksThm,
   OwnershipRefinedThm, PTL DEF ConnectionsRefined

LEMMA PhaseAlwaysFollows == ServerSpec => []PhaseFollows
<1>1. ServerInit => PhaseFollows
  BY DEF ServerInit, ConnInit, PhaseFollows
<1>2. PhaseFollows /\ [ServerNext]_allVars => PhaseFollows'
  BY PhaseFollowsStep
<1> QED
  BY <1>1, <1>2, PTL DEF ServerSpec

(* The variables of the server alone.                                      *)
OwnTypeOK ==
  /\ requested \in BOOLEAN
  /\ phase \in {"serving", "handlers", "runtime", "stopping", "force",
                "storage", "returned"}
  /\ child \in BOOLEAN
  /\ storage \in {"open", "closed", "failed"}
  /\ stopAccepted \in BOOLEAN
  /\ handlerFailed \in BOOLEAN
  /\ serverFailed \in BOOLEAN
  /\ result \in {"none", "ok", "error"}

LEMMA OwnTypeStep ==
  ASSUME TypeOK, OwnTypeOK, [ServerNext]_allVars
  PROVE  OwnTypeOK'
<1> USE DEF OwnTypeOK, outcomeVars
<1>1. CASE UNCHANGED allVars
  BY <1>1 DEF allVars
<1>2. CASE RequestShutdown \/ CaddyExits
  BY <1>2, Zenon DEF RequestShutdown, CaddyExits
<1>3. CASE ServerRestart
  BY <1>3, Zenon DEF ServerRestart
<1>4. ASSUME NEW c \in Conns, ConnStep(c) PROVE OwnTypeOK'
  <2>1. child' \in BOOLEAN /\ requested' \in BOOLEAN
    BY <1>4, Zenon DEF ConnStep, CaddyStep, FailClosed
  <2> QED
    BY <1>4, <2>1, ConnStepCases
<1>5. CASE LoopEnds
  <2>1. serverFailed' \in BOOLEAN
    BY <1>5, Zenon DEF LoopEnds
  <2> QED
    BY <1>5, <2>1 DEF LoopEnds
<1>6. CASE RefuseWork \/ GraceOver
  BY <1>6 DEF RefuseWork, GraceOver
<1>7. CASE HandlersJoined \/ HandlersLate
  <2>1. registry.panicked \in BOOLEAN
    BY DEF TypeOK
  <2>2. handlerFailed' \in BOOLEAN
    BY <1>7, <2>1, Zenon DEF HandlersJoined, HandlersLate, HandlersOver
  <2> QED
    BY <1>7, <2>2 DEF HandlersJoined, HandlersLate, HandlersOver
<1>8. CASE AcquireOperation \/ AcquireLate
  BY <1>8 DEF AcquireOperation, AcquireLate, Enter
<1>9. CASE StopCaddy \/ StopFails \/ ForceStop
  <2>1. child' \in BOOLEAN /\ stopAccepted' \in BOOLEAN
    BY <1>9, Zenon DEF StopCaddy, StopFails, ForceStop
  <2> QED
    BY <1>9, <2>1 DEF StopCaddy, StopFails, ForceStop, Enter
<1>10. CASE ForceStopFails
  <2>1. child' \in BOOLEAN
    BY <1>10 DEF ForceStopFails
  <2> QED
    BY <1>10, <2>1 DEF ForceStopFails, Return
<1>11. CASE CloseStorage
  BY <1>11 DEF CloseStorage, CloseDatabase, Return
<1> QED
  BY <1>1, <1>2, <1>3, <1>4, <1>5, <1>6, <1>7, <1>8, <1>9, <1>10, <1>11
     DEF ServerNext, Teardown

(* run_until is always in one of its phases, and what it has seen and done *)
(* of Caddy, SQLite and its handlers keeps its type (ipc.rs, run_until).   *)
THEOREM ServerTypeCorrect == ServerSpec => []ServerTypeOK
<1>1. ServerInit => OwnTypeOK
  BY Zenon DEF ServerInit, OwnTypeOK
<1>2. TypeOK /\ OwnTypeOK /\ [ServerNext]_allVars => OwnTypeOK'
  BY OwnTypeStep
<1>3. TypeOK /\ OwnTypeOK => ServerTypeOK
  BY DEF OwnTypeOK, ServerTypeOK
<1> QED
  BY <1>1, <1>2, <1>3, ConnectionsHold, PTL DEF ServerSpec

(* Whoever stops Caddy has config_operation, or finds it free, and then no *)
(* transaction is past its check.                                          *)
LEMMA NobodyHolds ==
  ASSUME TypeOK, Isolated, operation \in {None, Stopper}
  PROVE  \A c \in Conns : worker[c] \notin Holding
BY HoldersAssumption DEF Isolated, Conns

-----------------------------------------------------------------------------
(* The end.                                                                *)

Working(c) == worker[c] \in {"applied", "committing", "undoing"}

(* A step of one connection leaves the tasks of the others alone.          *)
LEMMA ConnStepElsewhere ==
  ASSUME TypeOK, NEW c \in Conns, ConnStep(c)
  PROVE  \A d \in Conns \ {c} : /\ handler'[d] = handler[d]
                                /\ cleanup'[d] = cleanup[d]
                                /\ worker'[d] = worker[d]
<1> USE DEF TypeOK
<1>1. CASE Accept(c)
  BY <1>1 DEF Accept, Handler
<1>2. CASE HandlerNext(c)
  BY <1>2 DEF HandlerNext, Deny, Open, Close, Request, Spawn, Answer, GiveUp,
     AwaitCancelled, AnswerLate, Leave, CancelHandler, DropFence, Handler,
     connVars
<1>3. CASE JobNext(c)
  BY <1>3 DEF JobNext, Refuse, Begin, Apply, Publish, Abandon, Fail, Undo,
     UndoFails, Commit, Record, Panic, CancelWorker, End, Progress, connVars
<1>4. CASE CleanupNext(c)
  BY <1>4 DEF CleanupNext, Disconnect, Take, Remove, Skip, Finish, Cleanup
<1> QED
  BY <1>1, <1>2, <1>3, <1>4, ConnStepCases

(* No worker of a draining daemon begins to work.                          *)
LEMMA NoWorkBegins ==
  ASSUME TypeOK, lifecycle.phase = "draining", NEW c \in Conns, ConnStep(c)
  PROVE  \A d \in Conns : Working(d)' => Working(d)
<1> SUFFICES Working(c)' => Working(c)
  BY ConnStepElsewhere DEF Working
<1> USE DEF TypeOK, Working
<1>1. CASE Accept(c)
  BY <1>1 DEF Accept
<1>2. CASE HandlerNext(c)
  BY <1>2 DEF HandlerNext, Deny, Open, Close, Request, Spawn, Answer, GiveUp,
     AwaitCancelled, AnswerLate, Leave, CancelHandler, DropFence, connVars
<1>3. CASE JobNext(c)
  BY <1>3 DEF JobNext, Refuse, Begin, Apply, Publish, Abandon, Fail, Undo,
     UndoFails, Commit, Record, Panic, CancelWorker, End, Progress, CanCommit,
     Admitted, connVars
<1>4. CASE CleanupNext(c)
  BY <1>4 DEF CleanupNext, Disconnect, Take, Remove, Skip, Finish, Cleanup
<1> QED
  BY <1>1, <1>2, <1>3, <1>4, ConnStepCases

(* Without a worker that works, nobody starts Caddy while it drains.       *)
LEMMA NobodyStarts ==
  ASSUME lifecycle.phase = "draining", NEW c \in Conns, ConnStep(c),
         ~Working(c)
  PROVE  child' = child
BY DEF ConnStep, CaddyStep, FailClosed, Apply, Undo, UndoFails, CanCommit,
   Admitted, Working

(* Once every task of the handlers has ended, none comes back.             *)
LEMMA NoTaskReturns ==
  ASSUME TypeOK, phase # "serving", TasksEnded, NEW c \in Conns, ConnStep(c)
  PROVE  TasksEnded'
<1>1. handler[c] = "none" /\ cleanup[c] = "none" /\ worker[c] = "none"
  BY DEF TasksEnded, Free
<1>2. ~JobNext(c)
  BY <1>1 DEF JobNext, Refuse, Begin, Apply, Publish, Abandon, Fail, Undo,
     UndoFails, Commit, Record, Panic, CancelWorker, Holding
<1>3. ~CleanupNext(c)
  BY <1>1 DEF CleanupNext, Disconnect, Take, Remove, Skip, Finish, Cleaning
<1>4. HandlerNext(c) => DropFence(c)
  BY <1>1 DEF HandlerNext, Deny, Open, Close, Request, Spawn, Answer, GiveUp,
     AwaitCancelled, AnswerLate, Leave, CancelHandler
<1>5. DropFence(c)
  BY <1>2, <1>3, <1>4, ConnStepCases
<1> QED
  BY <1>5 DEF DropFence, connVars, TasksEnded, Free

(* What the phases have settled for good: SQLite closes last and Caddy     *)
(* before it, and a drain that did not fail has left no task.              *)
EndFollows ==
  /\ storage # "open" => phase = "returned"
  /\ phase = "storage" \/ storage # "open" =>
       ~child /\ \A c \in Conns : ~Working(c)
  /\ phase \notin {"serving", "handlers"} /\ ~handlerFailed => TasksEnded
  /\ result = "ok" =>
       phase = "returned" /\ storage = "closed" /\ ~handlerFailed

LEMMA EndFollowsConnStep ==
  ASSUME TypeOK, PhaseFollows, EndFollows, NEW c \in Conns, ConnStep(c)
  PROVE  EndFollows'
<1>1. UNCHANGED <<phase, storage, handlerFailed, result>>
  BY ConnStepCases DEF outcomeVars
<1>2. CASE phase = "serving"
  BY <1>1, <1>2 DEF EndFollows
<1>3. CASE phase # "serving"
  <2>1. lifecycle.phase = "draining"
    BY <1>3 DEF PhaseFollows
  <2>2. ~child /\ (\A d \in Conns : ~Working(d))
          => ~child' /\ \A d \in Conns : ~Working(d)'
    BY <2>1, NoWorkBegins, NobodyStarts
  <2>3. TasksEnded => TasksEnded'
    BY <1>3, NoTaskReturns
  <2> QED
    BY <1>1, <2>2, <2>3, Zenon DEF EndFollows
<1> QED
  BY <1>2, <1>3

LEMMA EndFollowsTeardown ==
  ASSUME TypeOK, Isolated, EndFollows, Teardown
  PROVE  EndFollows'
<1> DEFINE Tasks == <<handler, cleanup, worker>>
<1>1. UNCHANGED Tasks => (TasksEnded' <=> TasksEnded)
                         /\ \A c \in Conns : Working(c)' <=> Working(c)
  BY DEF TasksEnded, Free, Working
<1>2. CASE LoopEnds
  BY <1>2 DEF LoopEnds, EndFollows
<1>3. CASE RefuseWork
  BY <1>3 DEF RefuseWork, outcomeVars, EndFollows
<1>4. CASE GraceOver
  BY <1>4 DEF GraceOver, outcomeVars, EndFollows
<1>5. CASE HandlersJoined
  BY <1>1, <1>5 DEF HandlersJoined, HandlersOver, vars, connVars, EndFollows
<1>6. CASE HandlersLate
  BY <1>6 DEF HandlersLate, HandlersOver, EndFollows
<1>7. CASE AcquireOperation
  BY <1>1, <1>7 DEF AcquireOperation, HoldOperation, Enter, EndFollows
<1>8. CASE AcquireLate
  BY <1>1, <1>8 DEF AcquireLate, Enter, vars, connVars, EndFollows
<1>9. CASE StopCaddy
  <2>1. \A c \in Conns : ~Working(c)
    BY <1>9, NobodyHolds DEF StopCaddy, ReleaseOperation, Working, Holding
  <2>2. ~child'
    BY <1>9 DEF StopCaddy
  <2> QED
    BY <1>1, <1>9, <2>1, <2>2
       DEF StopCaddy, ReleaseOperation, Enter, EndFollows
<1>10. CASE StopFails
  BY <1>1, <1>10 DEF StopFails, ReleaseOperation, Enter, EndFollows
<1>11. CASE ForceStop
  <2>1. \A c \in Conns : ~Working(c)
    BY <1>11, NobodyHolds DEF ForceStop, Working, Holding
  <2>2. ~child'
    BY <1>11 DEF ForceStop
  <2> QED
    BY <1>1, <1>11, <2>1, <2>2
       DEF ForceStop, Enter, vars, connVars, EndFollows
<1>12. CASE ForceStopFails
  BY <1>1, <1>12 DEF ForceStopFails, Return, vars, connVars, EndFollows
<1>13. CASE CloseStorage
  <2>1. /\ phase = "storage" /\ phase' = "returned"
        /\ UNCHANGED <<child, handlerFailed>> /\ UNCHANGED Tasks
        /\ result' = "ok" => storage' = "closed" /\ ~handlerFailed
    BY <1>13 DEF CloseStorage, CloseDatabase, Return, vars, connVars
  <2> QED
    BY <1>1, <2>1, Zenon DEF EndFollows
<1> QED
  BY <1>2, <1>3, <1>4, <1>5, <1>6, <1>7, <1>8, <1>9, <1>10, <1>11, <1>12,
     <1>13 DEF Teardown

LEMMA EndFollowsStep ==
  ASSUME TypeOK, Isolated, PhaseFollows, EndFollows, [ServerNext]_allVars
  PROVE  EndFollows'
<1>1. CASE UNCHANGED allVars \/ RequestShutdown
  BY <1>1 DEF RequestShutdown, allVars, vars, connVars, outcomeVars,
     EndFollows, TasksEnded, Free, Working
<1>2. CASE CaddyExits
  BY <1>2 DEF CaddyExits, vars, connVars, outcomeVars, EndFollows,
     TasksEnded, Free, Working
<1>3. CASE ServerRestart
  BY <1>3 DEF ServerRestart, EndFollows
<1> QED
  BY <1>1, <1>2, <1>3, EndFollowsConnStep, EndFollowsTeardown DEF ServerNext

(* SQLite closes after Caddy has stopped and Caddy stops with nobody past  *)
(* its fence, whichever deadlines pass (ipc.rs, run_until; shutdown.rs).   *)
THEOREM EndAlwaysFollows == ServerSpec => []EndFollows
<1>1. ServerInit => EndFollows
  BY DEF ServerInit, EndFollows
<1>2. TypeOK /\ Isolated /\ PhaseFollows /\ EndFollows
        /\ [ServerNext]_allVars => EndFollows'
  BY EndFollowsStep
<1> QED
  BY <1>1, <1>2, ConnectionsHold, PhaseAlwaysFollows, PTL DEF ServerSpec

(* Once Caddy is stopped no transaction starts it again, not even one that *)
(* outlived every deadline and gets config_operation only now, and none is *)
(* past its fence when SQLite closes (state/shutdown.rs,                   *)
(* prepare_shutdown_until and force_stop_runtime).                         *)
THEOREM StoppedForGoodThm == ServerSpec => []StoppedForGood
<1>1. EndFollows => StoppedForGood
  BY DEF EndFollows, StoppedForGood, Working
<1> QED
  BY <1>1, EndAlwaysFollows, PTL

(* run_until returns Ok only when nothing of the daemon is left: no Caddy, *)
(* no open database, and no handler, worker or cleanup that may still act  *)
(* (ipc.rs, run_until), for any number of connections.                     *)
THEOREM OkMeansQuiescentThm == ServerSpec => []OkMeansQuiescent
<1>1. EndFollows => OkMeansQuiescent
  BY DEF EndFollows, OkMeansQuiescent
<1> QED
  BY <1>1, EndAlwaysFollows, PTL

=============================================================================
