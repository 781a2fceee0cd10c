------------------------- MODULE Registrations_proofs ------------------------
(***************************************************************************)
(* What holds of the registration service for any set of registrations,    *)
(* requests, adaptations and faults, after lemmas about the operators of   *)
(* CaddyConfig: what type each of them returns, and which of them keep the *)
(* ownership of domains exclusive.                                         *)
(***************************************************************************)
EXTENDS Registrations, OperationFence_proofs, FiniteSetTheorems,
        WellFoundedInduction

-----------------------------------------------------------------------------
(* The configuration of Caddy.                                             *)

(* A finite set of ids that is not empty has a greatest element, so that   *)
(* "the last registration of a directory" exists.                          *)
LEMMA GreatestExists ==
  ASSUME NEW T \in SUBSET Nat, T # {}, IsFiniteSet(T)
  PROVE  \E m \in T : \A n \in T : n <= m
<1> DEFINE Above(m) == {n \in T : n > m}
           Aboves == {Above(m) : m \in T}
<1>1. Aboves \subseteq FiniteSubsetsOf(T) /\ Aboves # {}
  <2>1. FiniteSubsetsOf(T) = SUBSET T
    BY FS_FiniteSubsetsOfFinite
  <2>2. \A m \in T : Above(m) \in SUBSET T
    OBVIOUS
  <2>3. \E m \in T : Above(m) \in Aboves
    OBVIOUS
  <2> HIDE DEF Above
  <2> QED
    BY <2>1, <2>2, <2>3
<1>2. PICK A \in Aboves :
        \A B \in Aboves : ~ (<<B, A>> \in StrictSubsetOrdering(T))
  <2> HIDE DEF Aboves
  <2> QED
    BY <1>1, FS_StrictSubsetOrderingWellFounded, WFMin
<1>3. PICK m \in T : A = Above(m)
  BY <1>2
<1>4. ASSUME NEW n \in T, n > m PROVE FALSE
  <2>1. n \in Nat /\ m \in Nat /\ T \subseteq Nat
    BY <1>4
  <2>2. n \in Above(m) /\ n \notin Above(n)
    BY <1>4, <2>1
  <2>3. Above(n) \subseteq Above(m)
    <3> SUFFICES ASSUME NEW p \in T, p > n PROVE p > m
      OBVIOUS
    <3> QED
      BY <1>4, <2>1
  <2>4. <<Above(n), A>> \in StrictSubsetOrdering(T)
    BY <1>3, <2>2, <2>3 DEF StrictSubsetOrdering
  <2> QED
    BY <1>2, <2>4
<1> QED
  BY <1>4

-----------------------------------------------------------------------------
(* Maps.                                                                   *)

LEMMA MapsMember ==
  ASSUME NEW S, NEW T, NEW f
  PROVE  f \in Maps(S, T) <=> DOMAIN f \in SUBSET S /\ f \in [DOMAIN f -> T]
BY DEF Maps

LEMMA EmptyMapType ==
  ASSUME NEW S, NEW T
  PROVE  EmptyMap \in Maps(S, T) /\ DOMAIN EmptyMap = {}
BY DEF Maps, EmptyMap

LEMMA PutType ==
  ASSUME NEW S, NEW T, NEW f \in Maps(S, T), NEW k \in S, NEW v \in T
  PROVE  /\ Put(f, k, v) \in Maps(S, T)
         /\ DOMAIN Put(f, k, v) = DOMAIN f \cup {k}
         /\ Put(f, k, v)[k] = v
         /\ \A i \in DOMAIN f : i # k => Put(f, k, v)[i] = f[i]
<1>1. DOMAIN f \in SUBSET S /\ f \in [DOMAIN f -> T]
  BY MapsMember
<1>2. Put(f, k, v) \in [DOMAIN f \cup {k} -> T]
  BY <1>1 DEF Put
<1> QED
  BY <1>1, <1>2, MapsMember DEF Put

LEMMA RestrictType ==
  ASSUME NEW S, NEW T, NEW f \in Maps(S, T), NEW K \in SUBSET DOMAIN f
  PROVE  Restrict(f, K) \in Maps(S, T) /\ DOMAIN Restrict(f, K) = K
<1>1. DOMAIN f \in SUBSET S /\ f \in [DOMAIN f -> T]
  BY MapsMember
<1>2. Restrict(f, K) \in [K -> T]
  BY <1>1 DEF Restrict
<1> QED
  BY <1>1, <1>2, MapsMember DEF Restrict

LEMMA DropType ==
  ASSUME NEW S, NEW T, NEW f \in Maps(S, T), NEW k
  PROVE  /\ Drop(f, k) \in Maps(S, T)
         /\ DOMAIN Drop(f, k) = DOMAIN f \ {k}
         /\ \A i \in DOMAIN Drop(f, k) : Drop(f, k)[i] = f[i]
BY RestrictType DEF Drop, Restrict

-----------------------------------------------------------------------------
(* Registrations.                                                          *)

LEMMA EmptyRegistrations == IsRegistrations(EmptyMap)
<1>1. DOMAIN EmptyMap = {}
  BY DEF EmptyMap
<1>2. EmptyMap \in [{} -> EntrypointRegistration]
  BY DEF EmptyMap
<1> QED
  BY <1>1, <1>2, FS_EmptySet DEF IsRegistrations

LEMMA PutRegistration ==
  ASSUME NEW regs, IsRegistrations(regs),
         NEW i \in Ids, NEW reg \in EntrypointRegistration
  PROVE  IsRegistrations(Put(regs, i, reg))
<1>1. DOMAIN Put(regs, i, reg) = DOMAIN regs \cup {i}
  BY DEF Put
<1>2. Put(regs, i, reg) \in [DOMAIN regs \cup {i} -> EntrypointRegistration]
  BY DEF Put, IsRegistrations
<1>3. IsFiniteSet(DOMAIN regs \cup {i})
  BY FS_AddElement DEF IsRegistrations
<1>4. DOMAIN regs \cup {i} \subseteq Ids
  BY DEF IsRegistrations
<1> QED
  BY <1>1, <1>2, <1>3, <1>4 DEF IsRegistrations

LEMMA DropRegistration ==
  ASSUME NEW regs, IsRegistrations(regs), NEW i
  PROVE  IsRegistrations(Drop(regs, i))
<1>1. DOMAIN Drop(regs, i) = DOMAIN regs \ {i}
  BY DEF Drop, Restrict
<1>2. Drop(regs, i) \in [DOMAIN regs \ {i} -> EntrypointRegistration]
  BY DEF Drop, Restrict, IsRegistrations
<1>3. IsFiniteSet(DOMAIN regs \ {i})
  BY FS_RemoveElement DEF IsRegistrations
<1>4. DOMAIN regs \ {i} \subseteq Ids
  BY DEF IsRegistrations
<1> QED
  BY <1>1, <1>2, <1>3, <1>4 DEF IsRegistrations

(* Replacing what is registered under ids that exist.                      *)
LEMMA SameDomainRegistrations ==
  ASSUME NEW regs, IsRegistrations(regs),
         NEW f \in [DOMAIN regs -> EntrypointRegistration]
  PROVE  IsRegistrations(f)
<1>1. DOMAIN f = DOMAIN regs
  OBVIOUS
<1> QED
  BY <1>1 DEF IsRegistrations

LEMMA MergeType ==
  ASSUME NEW regs, IsRegistrations(regs), NEW live, IsRegistrations(live)
  PROVE  IsRegistrations(MergeLiveHeartbeats(regs, live))
<1> DEFINE merged == MergeLiveHeartbeats(regs, live)
<1>1. ASSUME NEW i \in DOMAIN regs PROVE merged[i] \in EntrypointRegistration
  <2>1. regs[i] \in EntrypointRegistration
    BY DEF IsRegistrations
  <2>2. CASE SameSession(regs, i, live)
    <3>1. live[i] \in EntrypointRegistration
      BY <2>2 DEF SameSession, IsRegistrations
    <3> QED
      BY <2>1, <2>2, <3>1
         DEF MergeLiveHeartbeats, Later, EntrypointRegistration
  <2>3. CASE ~SameSession(regs, i, live)
    BY <2>1, <2>3 DEF MergeLiveHeartbeats
  <2> QED
    BY <2>2, <2>3
<1>2. merged \in [DOMAIN regs -> EntrypointRegistration]
  BY <1>1 DEF MergeLiveHeartbeats
<1> QED
  BY <1>2, SameDomainRegistrations

LEMMA RestoredType ==
  ASSUME NEW desired \in DesiredState, NEW reg \in EntrypointRegistration
  PROVE  Restored(desired, reg) \in EntrypointRegistration
<1>1. CASE reg.dir \notin DOMAIN desired
  BY <1>1 DEF Restored
<1>2. CASE reg.dir \in DOMAIN desired
  <2>1. desired[reg.dir] \in Row
    BY <1>2, MapsMember DEF DesiredState
  <2> QED
    BY <1>2, <2>1 DEF Restored, Row, EntrypointRegistration
<1> QED
  BY <1>1, <1>2

-----------------------------------------------------------------------------
(* The coordinator.                                                        *)

LEMMA InitialCoordinatorType == InitialCoordinator \in Coordinator
BY EmptyMapType DEF Coordinator, InitialCoordinator

LEMMA AdaptedType ==
  ASSUME NEW c \in Coordinator, NEW i \in Ids, NEW hosts \in SUBSET Domains
  PROVE  Adapted(c, i, hosts) \in Coordinator
BY PutType DEF Coordinator, Adapted

LEMMA DiagnosedType ==
  ASSUME NEW c \in Coordinator, NEW i \in Ids
  PROVE  Diagnosed(c, i) \in Coordinator
BY DropType DEF Coordinator, Diagnosed

LEMMA PrunedType ==
  ASSUME NEW c \in Coordinator, NEW regs
  PROVE  Pruned(c, regs) \in Coordinator
BY RestrictType DEF Coordinator, Pruned

LEMMA ComposeType ==
  ASSUME NEW c, NEW regs, IsRegistrations(regs)
  PROVE  Compose(c, regs) \in Configs
BY DEF Compose, Configs, IsRegistrations

LEMMA FinishType ==
  ASSUME NEW c \in Coordinator, NEW config \in Configs
  PROVE  /\ FinishFailed(c) \in Coordinator
         /\ FinishIdle(c) \in Coordinator
         /\ FinishApplied(c, config) \in Coordinator
BY DEF Coordinator, FinishFailed, FinishIdle, FinishApplied

-----------------------------------------------------------------------------
(* Desired state.                                                          *)

LEMMA LastInDirIsInDir ==
  ASSUME NEW regs, IsRegistrations(regs), NEW dir \in UsedDirs(regs)
  PROVE  /\ LastInDir(regs, dir) \in InDir(regs, dir)
         /\ \A j \in InDir(regs, dir) : j <= LastInDir(regs, dir)
         /\ InDir(regs, dir) \in SUBSET Nat
<1>1. InDir(regs, dir) \in SUBSET DOMAIN regs /\ InDir(regs, dir) # {}
  BY DEF InDir, UsedDirs
<1>2. InDir(regs, dir) \in SUBSET Nat
  BY <1>1, IdsAssumption DEF IsRegistrations
<1>3. IsFiniteSet(InDir(regs, dir))
  BY <1>1, FS_Subset DEF IsRegistrations
<1>4. \E i \in InDir(regs, dir) : \A j \in InDir(regs, dir) : j <= i
  BY <1>1, <1>2, <1>3, GreatestExists
<1> QED
  BY <1>2, <1>4 DEF LastInDir

LEMMA PersistedType ==
  ASSUME NEW desired \in DesiredState, NEW regs, IsRegistrations(regs)
  PROVE  Persisted(desired, regs) \in DesiredState
<1> DEFINE dirs == DOMAIN desired \cup UsedDirs(regs)
<1>1. ASSUME NEW dir \in UsedDirs(regs)
      PROVE  dir \in Dirs /\ RowOf(regs, LastInDir(regs, dir)) \in Row
  <2>1. /\ LastInDir(regs, dir) \in DOMAIN regs
        /\ regs[LastInDir(regs, dir)].dir = dir
    BY <1>1, LastInDirIsInDir DEF InDir
  <2> QED
    BY <2>1 DEF IsRegistrations, RowOf, Row, EntrypointRegistration
<1>2. DOMAIN desired \in SUBSET Dirs /\ desired \in [DOMAIN desired -> Row]
  BY MapsMember DEF DesiredState
<1>3. Persisted(desired, regs) \in [dirs -> Row] /\ dirs \in SUBSET Dirs
  BY <1>1, <1>2 DEF Persisted
<1> QED
  BY <1>3, MapsMember DEF DesiredState

-----------------------------------------------------------------------------
(* Ownership of domains.                                                   *)

(* A change of one registration keeps the ownership exclusive when that    *)
(* registration claims nothing new, or when no conflict is found for it:   *)
(* the registrations that are not looked at need no check of their own.    *)
LEMMA ExclusiveAfterChange ==
  ASSUME NEW regs, Exclusive(regs), NEW new, NEW i,
         \A j \in DOMAIN new \ {i}, d \in Domains :
           j \in DOMAIN regs /\ (Claims(new, j, d) => Claims(regs, j, d)),
         \/ i \in DOMAIN new => ~Conflict(new, i)
         \/ i \in DOMAIN new =>
              /\ i \in DOMAIN regs
              /\ \A d \in Domains : Claims(new, i, d) => Claims(regs, i, d)
  PROVE  Exclusive(new)
<1> SUFFICES ASSUME NEW j \in DOMAIN new, NEW k \in DOMAIN new,
                    NEW d \in Domains, Claims(new, j, d), Claims(new, k, d),
                    j # k
             PROVE  FALSE
  BY DEF Exclusive
<1>1. CASE j # i /\ k # i
  BY <1>1 DEF Exclusive
<1>2. CASE i \in DOMAIN new /\ ~Conflict(new, i)
  BY <1>1, <1>2 DEF Conflict
<1>3. CASE /\ i \in DOMAIN regs
           /\ \A e \in Domains : Claims(new, i, e) => Claims(regs, i, e)
  BY <1>3 DEF Exclusive
<1> QED
  BY <1>1, <1>2, <1>3

LEMMA EmptyExclusive == Exclusive(EmptyMap)
BY DEF Exclusive, EmptyMap

LEMMA PutExclusive ==
  ASSUME NEW regs, IsRegistrations(regs), Exclusive(regs),
         NEW i \in Ids, NEW reg, ~Conflict(Put(regs, i, reg), i)
  PROVE  Exclusive(Put(regs, i, reg))
<1>1. \A j \in DOMAIN Put(regs, i, reg) \ {i} :
        j \in DOMAIN regs /\ Put(regs, i, reg)[j] = regs[j]
  BY DEF Put
<1> QED
  BY <1>1, ExclusiveAfterChange DEF Claims

LEMMA DropExclusive ==
  ASSUME NEW regs, Exclusive(regs), NEW i
  PROVE  Exclusive(Drop(regs, i))
BY DEF Exclusive, Drop, Restrict, Claims

LEMMA MergeExclusive ==
  ASSUME NEW regs, IsRegistrations(regs), Exclusive(regs), NEW live
  PROVE  Exclusive(MergeLiveHeartbeats(regs, live))
<1> DEFINE merged == MergeLiveHeartbeats(regs, live)
<1>1. \A i \in DOMAIN regs :
        /\ merged[i].enabled = regs[i].enabled
        /\ merged[i].domains = regs[i].domains
  BY DEF MergeLiveHeartbeats, IsRegistrations, EntrypointRegistration
<1>2. DOMAIN merged = DOMAIN regs
  BY DEF MergeLiveHeartbeats
<1> QED
  BY <1>1, <1>2 DEF Exclusive, Claims

-----------------------------------------------------------------------------
(* The fences.                                                             *)

(* A step of a transaction leaves the fence alone, or takes the guard of   *)
(* the final commit, commits it, drops it, or drains the daemon.           *)
LEMMA AdvanceFences ==
  ASSUME NEW o \in Ops, Advance(o)
  PROVE  [FenceNext]_fenceVars
<1> USE DEF fenceVars
<1>1. CASE Prepare(o)
  BY <1>1 DEF Prepare
<1>2. CASE KeepCurrent(o)
  BY <1>2 DEF KeepCurrent
<1>3. CASE BeginRuntime(o)
  BY <1>3 DEF BeginRuntime
<1>4. CASE BeginRuntimeFails(o)
  BY <1>4 DEF BeginRuntimeFails
<1>5. CASE FencedBeforeRuntime(o)
  BY <1>5 DEF FencedBeforeRuntime
<1>6. CASE Transition(o)
  BY <1>6 DEF Transition
<1>7. CASE TransitionFails(o)
  BY <1>7 DEF TransitionFails
<1>8. CASE Publish(o)
  BY <1>8 DEF Publish, FenceNext, FenceOpNext
<1>9. CASE FencedBeforeCommit(o)
  BY <1>9 DEF FencedBeforeCommit
<1>10. CASE Accept(o)
  BY <1>10 DEF Accept
<1>11. CASE AcceptFails(o)
  BY <1>11 DEF AcceptFails, FenceNext, FenceOpNext
<1>12. CASE Persist(o)
  BY <1>12 DEF Persist
<1>13. CASE PersistFails(o)
  BY <1>13 DEF PersistFails, FenceNext, FenceOpNext
<1>14. CASE Commit(o)
  BY <1>14 DEF Commit, FenceNext, FenceOpNext
<1>15. CASE Rollback(o)
  BY <1>15 DEF Rollback
<1>16. CASE RollbackFails(o)
  BY <1>16 DEF RollbackFails, FenceNext
<1> QED
  BY <1>1, <1>2, <1>3, <1>4, <1>5, <1>6, <1>7, <1>8, <1>9, <1>10, <1>11,
     <1>12, <1>13, <1>14, <1>15, <1>16 DEF Advance

(* So does a step of a supervisor: it revokes or completes the permit.     *)
LEMMA SuperviseFences ==
  ASSUME NEW o \in Ops, Supervise(o)
  PROVE  [FenceNext]_fenceVars
<1> USE DEF FenceNext, FenceOpNext
<1>1. CASE SuperviseWorker(o)
  BY <1>1 DEF SuperviseWorker
<1>2. CASE SuperviseTimeout(o)
  BY <1>2 DEF SuperviseTimeout
<1>3. CASE SuperviseShutdown(o)
  BY <1>3 DEF SuperviseShutdown
<1>4. CASE SuperviseCancelled(o)
  BY <1>4 DEF SuperviseCancelled
<1>5. CASE AnswerAwaited(o)
  BY <1>5 DEF AnswerAwaited
<1>6. CASE CancelWorker(o)
  BY <1>6 DEF CancelWorker
<1>7. CASE CancelConnection(o)
  BY <1>7 DEF CancelConnection
<1> QED
  BY <1>1, <1>2, <1>3, <1>4, <1>5, <1>6, <1>7 DEF Supervise

(* Every step of the service is a step of its fences, or leaves them       *)
(* alone.                                                                  *)
LEMMA NextFences == [Next]_vars => [FenceNext]_fenceVars
<1> SUFFICES ASSUME [Next]_vars PROVE [FenceNext]_fenceVars
  OBVIOUS
<1>1. CASE Drain
  BY <1>1 DEF Drain, FenceNext
<1>2. CASE CaddyExits
  BY <1>2 DEF CaddyExits
<1>3. CASE Tick
  BY <1>3 DEF Tick
<1>4. CASE Restart
  BY <1>4 DEF Restart, FenceNext
<1>5. ASSUME NEW o \in Ops, OpNext(o) PROVE [FenceNext]_fenceVars
  <2>1. CASE Submit(o) \/ SubmitCleanup(o)
    BY <2>1 DEF Submit, SubmitCleanup, Arrive, FenceNext, FenceOpNext
  <2>2. CASE BeginEdit(o)
    BY <2>2 DEF BeginEdit
  <2>3. CASE BeginRegister(o)
    BY <2>3 DEF BeginRegister
  <2>4. CASE FencedAtStart(o)
    BY <2>4 DEF FencedAtStart
  <2>5. CASE Heartbeat(o)
    BY <2>5 DEF Heartbeat, FenceNext, FenceOpNext
  <2>6. CASE Forget(o)
    BY <2>6 DEF Forget, FenceNext, FenceOpNext
  <2> QED
    BY <1>5, <2>1, <2>2, <2>3, <2>4, <2>5, <2>6, AdvanceFences,
       SuperviseFences DEF OpNext, Start
<1>6. CASE UNCHANGED vars
  BY <1>6 DEF vars, fenceVars
<1> QED
  BY <1>1, <1>2, <1>3, <1>4, <1>5, <1>6 DEF Next

(* The fences of the daemon behave as OperationFence specifies: whatever   *)
(* is proved of FenceSpec holds of every mutation (operation_fence.rs, as  *)
(* used by state/registrations.rs and ipc/supervision.rs).                 *)
THEOREM FencesRefinedThm == Spec => FencesRefined
<1>1. Init => FenceInit
  BY DEF Init
<1> QED
  BY <1>1, NextFences, PTL DEF Spec, FencesRefined, FenceSpec

(* In the daemon as a whole, a mutation whose supervisor was told that it  *)
(* is revoked never commits, a drain makes every live fence stale and lets *)
(* no new commit begin, and a decision stands (ipc/supervision.rs,         *)
(* supervise_owned_mutation_request; operation_fence.rs, commit).          *)
THEOREM FencesHoldInService ==
  Spec => /\ [](RevokedNeverCommits /\ DrainMakesStale)
          /\ DrainStopsNewCommits
          /\ DecisionIsFinal
BY FencesRefinedThm, RevokedNeverCommitsThm, DrainMakesStaleThm,
   DrainStopsNewCommitsThm, DecisionIsFinalThm, PTL DEF FencesRefined

-----------------------------------------------------------------------------
(* Types.                                                                  *)

CaddyTypeOK ==
  /\ child \in {"none", "running", "exited"}
  /\ {served, effective} \subseteq {None} \cup Configs
  /\ stored \in DesiredState

LEMMA NoTransactionType == IsTransaction(NoTransaction)
BY EmptyRegistrations, InitialCoordinatorType DEF IsTransaction, NoTransaction

LEMMA NoReceiptType == NoReceipt \in Receipt
BY DEF NoReceipt, Receipt

(* The ways in which a worker leaves a step of its transaction.            *)
LEMMA EndType ==
  ASSUME TasksTypeOK, NEW o \in Ops, NEW result \in Ended, End(o, result),
         request[o] \in Requests
  PROVE  TasksTypeOK' /\ TransactionTypeOK'
<1>1. TasksTypeOK'
  BY DEF End, TasksTypeOK
<1>2. TransactionTypeOK'
  BY NoTransactionType, NoReceiptType DEF End, TransactionTypeOK, Steps
<1> QED
  BY <1>1, <1>2

LEMMA ContinueType ==
  ASSUME TasksTypeOK, TransactionTypeOK,
         NEW next \in Steps \ {"undo"}, Continue(next),
         IsTransaction(txn'), receipt' \in Receipt
  PROVE  TasksTypeOK' /\ TransactionTypeOK'
BY DEF Continue, tasks, TasksTypeOK, TransactionTypeOK

LEMMA FailType ==
  ASSUME TasksTypeOK, TransactionTypeOK,
         NEW result \in {"rejected", "fenced"}, Fail(result)
  PROVE  TasksTypeOK' /\ TransactionTypeOK'
BY DEF Fail, tasks, TasksTypeOK, TransactionTypeOK, Steps, IsTransaction

(* The transaction of a worker that runs is well-formed, and its parts     *)
(* are.                                                                    *)
LEMMA TransactionParts ==
  ASSUME NEW regs, IsRegistrations(regs), NEW c \in Coordinator
  PROVE  IsTransaction([registrations |-> regs, coordinator |-> c])
BY DEF IsTransaction

LEMMA TransactionUpdate ==
  ASSUME NEW t, IsTransaction(t)
  PROVE  /\ IsRegistrations(t.registrations) /\ t.coordinator \in Coordinator
         /\ \A c \in Coordinator : IsTransaction([t EXCEPT !.coordinator = c])
         /\ \A regs : IsRegistrations(regs) =>
              /\ IsTransaction([t EXCEPT !.registrations = regs])
              /\ [t EXCEPT !.registrations = regs].registrations = regs
         /\ \A c : [t EXCEPT !.coordinator = c].registrations
                     = t.registrations
BY DEF IsTransaction

LEMMA EditedType ==
  ASSUME NEW regs, IsRegistrations(regs), NEW r \in Requests,
         r.kind \in Edits, Found(regs, r)
  PROVE  IsRegistrations(Edited(regs, r))
<1>1. /\ r \in Request /\ r.id \in DOMAIN regs
      /\ regs[r.id] \in EntrypointRegistration
  BY RequestsAssumption DEF Found, IsRegistrations
<1>2. CASE r.kind = "unregister"
  BY <1>2, DropRegistration DEF Edited
<1>3. CASE r.kind = "entrypoint"
  <2>1. [regs EXCEPT ![r.id].enabled = r.on]
          \in [DOMAIN regs -> EntrypointRegistration]
    BY <1>1 DEF IsRegistrations, EntrypointRegistration, Request
  <2> QED
    BY <1>3, <2>1, SameDomainRegistrations DEF Edited
<1>4. CASE r.kind = "domain"
  <2>1. [regs EXCEPT ![r.id].domains[r.domain] = Activate(r.on)]
          \in [DOMAIN regs -> EntrypointRegistration]
    BY <1>1 DEF IsRegistrations, EntrypointRegistration, Request, Activate,
       Activation
  <2> QED
    BY <1>4, <2>1, SameDomainRegistrations DEF Edited
<1> QED
  BY <1>2, <1>3, <1>4 DEF Edits

LEMMA SentByType ==
  ASSUME TypeOK, NEW r \in Requests, r.kind = "register", NEW hosts
  PROVE  SentBy(r, hosts) \in EntrypointRegistration
<1>1. r \in Request /\ r.nonce \in Nonces
  BY RequestsAssumption
<1> QED
  BY <1>1 DEF SentBy, TypeOK, Request, EntrypointRegistration, Activation

LEMMA PreparedType ==
  ASSUME TypeOK, NEW o \in Ops, request[o] \in Requests,
         NEW adapted \in Coordinator, NEW reg \in EntrypointRegistration,
         Prepared(o, adapted, reg)
  PROVE  TasksTypeOK' /\ TransactionTypeOK'
<1> DEFINE r == request[o]
           candidate == Put(registrations, r.id, Restored(stored, reg))
<1>1. CASE End(o, "rejected")
  BY <1>1, EndType DEF TypeOK, Ended
<1>2. CASE /\ txn' = [registrations |-> candidate, coordinator |-> adapted]
           /\ receipt' = receipt
           /\ Continue("begin")
  <2>1. IsRegistrations(candidate)
    <3>1. r.id \in Ids
      BY RequestsAssumption DEF Request
    <3> QED
      BY <3>1, RestoredType, PutRegistration DEF TypeOK
  <2>2. IsTransaction(txn') /\ receipt' \in Receipt
    BY <1>2, <2>1, TransactionParts DEF TypeOK, TransactionTypeOK
  <2> QED
    BY <1>2, <2>2, ContinueType DEF TypeOK, Steps
<1> QED
  BY <1>1, <1>2 DEF Prepared

(* The steps that begin a mutation keep the types.                         *)
LEMMA StartType ==
  ASSUME TypeOK, FenceTypeOK', NEW o \in Ops, Start(o)
  PROVE  TypeOK'
<1>1. CASE BeginEdit(o)
  <2>1. request[o] \in Requests
    BY <1>1 DEF BeginEdit, TypeOK, TasksTypeOK
  <2>2. CASE Refused(registrations, request[o])
    BY <1>1, <2>1, <2>2, EndType
       DEF BeginEdit, TypeOK, Ended, published, caddy, disk
  <2>3. CASE ~Refused(registrations, request[o])
    <3>1. IsTransaction(txn')
      BY <1>1, <2>1, <2>3, EditedType, TransactionParts
         DEF BeginEdit, Refused, TypeOK
    <3> QED
      BY <1>1, <2>1, <2>3, <3>1
         DEF BeginEdit, TypeOK, TasksTypeOK, TransactionTypeOK, Pending,
             Steps, published, caddy, disk
  <2> QED
    BY <2>2, <2>3
<1>2. CASE BeginRegister(o)
  <2>1. request[o] \in Requests
    BY <1>2 DEF BeginRegister, TypeOK, TasksTypeOK
  <2>2. CASE DifferentOwner(registrations, request[o])
    BY <1>2, <2>1, <2>2, EndType
       DEF BeginRegister, TypeOK, Ended, published, caddy, disk
  <2>3. CASE ~DifferentOwner(registrations, request[o])
    BY <1>2, <2>1, <2>3
       DEF BeginRegister, TypeOK, TasksTypeOK, TransactionTypeOK, Pending,
           Steps, published, caddy, disk
  <2> QED
    BY <2>2, <2>3
<1>3. CASE FencedAtStart(o)
  BY <1>3 DEF FencedAtStart, TypeOK, TasksTypeOK, TransactionTypeOK, Ended,
     Pending, published, txnVars, caddy, disk
<1>4. CASE Heartbeat(o)
  <2>1. IsRegistrations(registrations')
    <3>1. CASE Found(registrations, request[o])
      <4>1. [registrations EXCEPT ![request[o].id].heartbeat = clock]
              \in [DOMAIN registrations -> EntrypointRegistration]
        BY DEF TypeOK, IsRegistrations, EntrypointRegistration
      <4> QED
        BY <1>4, <3>1, <4>1, SameDomainRegistrations DEF Heartbeat, TypeOK
    <3>2. CASE ~Found(registrations, request[o])
      BY <1>4, <3>2 DEF Heartbeat, TypeOK
    <3> QED
      BY <3>1, <3>2
  <2>2. TasksTypeOK'
    BY <1>4 DEF Heartbeat, TypeOK, TasksTypeOK, Ended, Pending
  <2> QED
    BY <1>4, <2>1, <2>2
       DEF Heartbeat, TypeOK, TransactionTypeOK, txnVars, caddy, disk
<1> QED
  BY <1>1, <1>2, <1>3, <1>4 DEF Start

LEMMA AcceptedFileType ==
  ASSUME TypeOK
  PROVE  AcceptedFile \in {None} \cup Configs /\ Target \in Configs
<1>1. Target \in Configs
  BY TransactionUpdate, ComposeType DEF Target, TypeOK, TransactionTypeOK
<1> QED
  BY <1>1 DEF AcceptedFile, TypeOK, TransactionTypeOK, Receipt

LEMMA CandidateType ==
  ASSUME TypeOK
  PROVE  Candidate \in Coordinator /\ FinishFailed(Candidate) \in Coordinator
<1>1. Candidate \in Coordinator
  BY TransactionUpdate, PrunedType
     DEF Candidate, TypeOK, TransactionTypeOK
<1> QED
  BY <1>1, FinishType, AcceptedFileType

(* config_operation admits one transaction at a time: the locals of a      *)
(* transaction belong to the one worker that is running.                   *)
OneTransaction ==
  /\ \A o, p \in Ops : worker[o] = "running" /\ worker[p] = "running" => o = p
  /\ \A o \in Ops : worker[o] = "running" => step # "idle"
  /\ \A o \in Ops :
       Running(o, "prepare") => request[o].kind = "register"

LEMMA PrepareType ==
  ASSUME TypeOK, OneTransaction, NEW o \in Ops, Prepare(o)
  PROVE  TasksTypeOK' /\ TransactionTypeOK'
<1> USE DEF TypeOK
<1>1. request[o] \in Requests /\ request[o].kind = "register"
  BY DEF Prepare, Running, OneTransaction, TasksTypeOK
<1>2. request[o].id \in Ids
  BY <1>1, RequestsAssumption DEF Request
<1>3. ASSUME NEW hosts \in Adaptations,
             Prepared(o, Adapted(coordinator, request[o].id, hosts),
                         SentBy(request[o], hosts))
      PROVE  TasksTypeOK' /\ TransactionTypeOK'
  <2>1. Adapted(coordinator, request[o].id, hosts) \in Coordinator
    BY <1>2, AdaptedType, AdaptationsAssumption
  <2> QED
    BY <1>1, <1>3, <2>1, SentByType, PreparedType
<1>4. CASE Prepared(o, Diagnosed(coordinator, request[o].id),
                       SentBy(request[o], {}))
  <2>1. Diagnosed(coordinator, request[o].id) \in Coordinator
    BY <1>2, DiagnosedType
  <2> QED
    BY <1>1, <1>4, <2>1, SentByType, PreparedType
<1>5. CASE End(o, "rejected")
  BY <1>1, <1>5, EndType DEF Ended
<1> QED
  BY <1>3, <1>4, <1>5 DEF Prepare

(* The steps of a transaction keep the types.                              *)
LEMMA AdvanceType ==
  ASSUME TypeOK, OneTransaction, FenceTypeOK', NEW o \in Ops, Advance(o)
  PROVE  TypeOK'
<1> USE DEF TypeOK, published, disk, caddy
<1>0. ASSUME worker[o] = "running" PROVE request[o] \in Requests
  BY <1>0 DEF TasksTypeOK
<1>1. CASE Prepare(o)
  BY <1>1, PrepareType DEF Prepare
<1>2. CASE KeepCurrent(o)
  <2>1. IsTransaction(txn') /\ receipt' \in Receipt
    BY <1>2, CandidateType, TransactionUpdate
       DEF KeepCurrent, TransactionTypeOK
  <2> QED
    BY <1>2, <2>1, ContinueType DEF KeepCurrent, Steps
<1>3. CASE BeginRuntime(o)
  <2>1. IsTransaction(txn')
    BY <1>3, CandidateType, TransactionUpdate
       DEF BeginRuntime, TransactionTypeOK
  <2>2. receipt' \in Receipt
    BY <1>3 DEF BeginRuntime, Receipt
  <2> QED
    BY <1>3, <2>1, <2>2, ContinueType DEF BeginRuntime, Steps
<1>4. CASE BeginRuntimeFails(o)
  BY <1>0, <1>4, EndType DEF BeginRuntimeFails, Running, Ended
<1>5. CASE FencedBeforeRuntime(o)
  BY <1>0, <1>5, EndType DEF FencedBeforeRuntime, Running, Ended
<1>6. CASE Transition(o)
  <2>1. /\ FinishIdle(txn.coordinator) \in Coordinator
        /\ FinishApplied(txn.coordinator, Target) \in Coordinator
    BY AcceptedFileType, FinishType, TransactionUpdate DEF TransactionTypeOK
  <2>2. IsTransaction(txn') /\ receipt' \in Receipt
    BY <1>6, <2>1, TransactionUpdate DEF Transition, TransactionTypeOK
  <2>3. TasksTypeOK' /\ TransactionTypeOK'
    BY <1>6, <2>2, ContinueType DEF Transition, Steps
  <2> QED
    BY <1>6, <2>3, AcceptedFileType DEF Transition
<1>7. CASE TransitionFails(o)
  <2>1. TasksTypeOK' /\ TransactionTypeOK'
    BY <1>7, FailType DEF TransitionFails
  <2> QED
    BY <1>7, <2>1, AcceptedFileType DEF TransitionFails
<1>8. CASE Publish(o)
  <2>1. IsTransaction(txn') /\ receipt' \in Receipt
    BY <1>8, MergeType, TransactionUpdate DEF Publish, TransactionTypeOK
  <2> QED
    BY <1>8, <2>1, ContinueType DEF Publish, Steps
<1>9. CASE FencedBeforeCommit(o)
  BY <1>9, FailType DEF FencedBeforeCommit
<1>10. CASE Accept(o)
  <2>1. TasksTypeOK' /\ TransactionTypeOK'
    BY <1>10, ContinueType DEF Accept, Steps, TransactionTypeOK
  <2> QED
    BY <1>10, <2>1, AcceptedFileType DEF Accept
<1>11. CASE AcceptFails(o)
  <2>1. TasksTypeOK' /\ TransactionTypeOK'
    BY <1>11, FailType DEF AcceptFails
  <2> QED
    BY <1>11, <2>1, AcceptedFileType DEF AcceptFails
<1>12. CASE Persist(o)
  <2>1. TasksTypeOK' /\ TransactionTypeOK'
    BY <1>12, ContinueType DEF Persist, Steps, TransactionTypeOK
  <2>2. stored' \in DesiredState
    BY <1>12, PersistedType, TransactionUpdate DEF Persist, TransactionTypeOK
  <2> QED
    BY <1>12, <2>1, <2>2 DEF Persist
<1>13. CASE PersistFails(o)
  <2>1. TasksTypeOK' /\ TransactionTypeOK'
    BY <1>13, FailType DEF PersistFails
  <2>2. stored' \in DesiredState
    BY <1>13, PersistedType, TransactionUpdate
       DEF PersistFails, TransactionTypeOK
  <2> QED
    BY <1>13, <2>1, <2>2 DEF PersistFails
<1>14. CASE Commit(o)
  <2>1. TasksTypeOK' /\ TransactionTypeOK'
    BY <1>0, <1>14, EndType DEF Commit, Running, Ended
  <2> QED
    BY <1>14, <2>1, TransactionUpdate DEF Commit, TransactionTypeOK
<1>15. CASE Rollback(o)
  <2>1. TasksTypeOK' /\ TransactionTypeOK'
    BY <1>0, <1>15, EndType DEF Rollback, Running, Ended, TransactionTypeOK
  <2> QED
    BY <1>15, <2>1 DEF Rollback, TransactionTypeOK, Receipt
<1>16. CASE RollbackFails(o)
  <2>1. TasksTypeOK' /\ TransactionTypeOK'
    BY <1>0, <1>16, EndType
       DEF RollbackFails, Running, Ended, TransactionTypeOK
  <2> QED
    BY <1>16, <2>1 DEF RollbackFails, TransactionTypeOK, Receipt
<1> QED
  BY <1>1, <1>2, <1>3, <1>4, <1>5, <1>6, <1>7, <1>8, <1>9, <1>10, <1>11,
     <1>12, <1>13, <1>14, <1>15, <1>16 DEF Advance

LEMMA ToldType ==
  ASSUME TypeOK, FenceTypeOK', NEW o \in Ops,
         NEW answer \in Supervised \cup Answers, Told(o, answer)
  PROVE  TypeOK'
BY DEF Told, TypeOK, TasksTypeOK, TransactionTypeOK, published, txnVars,
   caddy, disk

(* The steps of a supervisor keep the types.                               *)
LEMMA SuperviseType ==
  ASSUME TypeOK, FenceTypeOK', NEW o \in Ops, Supervise(o)
  PROVE  TypeOK'
<1> USE DEF Supervised, Answers, Ended
<1>1. CASE SuperviseWorker(o)
  BY <1>1, ToldType DEF SuperviseWorker
<1>2. CASE SuperviseTimeout(o)
  BY <1>2, ToldType DEF SuperviseTimeout, RevokeOutcome
<1>3. CASE SuperviseShutdown(o)
  BY <1>3, ToldType DEF SuperviseShutdown
<1>4. CASE SuperviseCancelled(o)
  BY <1>4, ToldType DEF SuperviseCancelled
<1>5. CASE AnswerAwaited(o)
  BY <1>5, ToldType DEF AnswerAwaited
<1>6. CASE CancelWorker(o)
  BY <1>6 DEF CancelWorker, TypeOK, TasksTypeOK, TransactionTypeOK,
     published, tasks, txnVars, caddy, disk
<1>7. CASE CancelConnection(o)
  BY <1>7, ToldType DEF CancelConnection
<1> QED
  BY <1>1, <1>2, <1>3, <1>4, <1>5, <1>6, <1>7 DEF Supervise

(* Every step keeps the types.                                             *)
LEMMA NextType ==
  ASSUME TypeOK, OneTransaction, FenceTypeOK', [Next]_vars
  PROVE  TypeOK'
<1>1. CASE Drain
  BY <1>1 DEF Drain, TypeOK, TasksTypeOK, TransactionTypeOK, published,
     tasks, txnVars, caddy, disk
<1>2. CASE CaddyExits
  BY <1>2 DEF CaddyExits, TypeOK, TasksTypeOK, TransactionTypeOK, published,
     tasks, txnVars, disk
<1>3. CASE Tick
  BY <1>3 DEF Tick, TypeOK, TasksTypeOK, TransactionTypeOK, published,
     tasks, txnVars, caddy, disk
<1>4. CASE Restart
  BY <1>4, EmptyRegistrations, InitialCoordinatorType, NoTransactionType,
     NoReceiptType
     DEF Restart, TypeOK, TasksTypeOK, TransactionTypeOK, Steps, disk
<1>5. ASSUME NEW o \in Ops, OpNext(o) PROVE TypeOK'
  <2>1. ASSUME NEW r \in Requests, NEW told \in Supervised \cup Answers,
               Arrive(o, r, told)
        PROVE  TypeOK'
    BY <2>1 DEF Arrive, TypeOK, TasksTypeOK, TransactionTypeOK, Pending,
       published, txnVars, caddy, disk
  <2>2. CASE Submit(o)
    BY <2>1, <2>2 DEF Submit, Supervised
  <2>3. CASE SubmitCleanup(o)
    BY <2>1, <2>3 DEF SubmitCleanup, Answers
  <2>4. CASE Forget(o)
    BY <2>4 DEF Forget, TypeOK, TasksTypeOK, TransactionTypeOK, published,
       txnVars, caddy, disk
  <2> QED
    BY <1>5, <2>2, <2>3, <2>4, StartType, AdvanceType, SuperviseType
       DEF OpNext
<1>6. CASE UNCHANGED vars
  BY <1>6 DEF vars, TypeOK, TasksTypeOK, TransactionTypeOK, published, tasks,
     txnVars, caddy, disk
<1> QED
  BY <1>1, <1>2, <1>3, <1>4, <1>5, <1>6 DEF Next

(* No step lets a second transaction in.                                   *)
LEMMA OneTransactionStep ==
  ASSUME TypeOK, OneTransaction, [Next]_vars
  PROVE  OneTransaction'
<1> USE DEF OneTransaction, TypeOK, TasksTypeOK, TransactionTypeOK, Running
<1>1. CASE Drain \/ CaddyExits \/ Tick \/ UNCHANGED vars
  BY <1>1 DEF Drain, CaddyExits, Tick, vars, tasks, txnVars
<1>2. CASE Restart
  BY <1>2 DEF Restart
<1>3. ASSUME NEW o \in Ops, OpNext(o) PROVE OneTransaction'
  <2>1. ASSUME NEW result \in Ended, worker[o] = "running", End(o, result)
        PROVE  OneTransaction'
    BY <2>1 DEF End, Ended
  <2>2. CASE \/ UNCHANGED <<worker, request, step>>
             \/ \E next \in Steps \ {"idle", "prepare"} : Continue(next)
             \/ \E result : Fail(result)
    BY <1>3, <2>2 DEF Continue, Fail, tasks
  <2>3. CASE Submit(o) \/ SubmitCleanup(o)
    BY <2>3 DEF Submit, SubmitCleanup, Arrive, txnVars
  <2>4. CASE Start(o)
    <3>1. CASE BeginEdit(o)
      BY <2>4, <3>1 DEF BeginEdit, End
    <3>2. CASE BeginRegister(o)
      BY <2>4, <3>2 DEF BeginRegister, End
    <3>3. CASE FencedAtStart(o)
      BY <2>4, <3>3 DEF FencedAtStart, txnVars
    <3>4. CASE Heartbeat(o)
      BY <2>4, <3>4 DEF Heartbeat, txnVars
    <3> QED
      BY <2>4, <3>1, <3>2, <3>3, <3>4 DEF Start
  <2>5. CASE Advance(o)
    <3>1. CASE Prepare(o)
      BY <2>1, <2>2, <3>1 DEF Prepare, Prepared, Steps, Ended
    <3>2. CASE \/ KeepCurrent(o) \/ BeginRuntime(o) \/ Transition(o)
               \/ Publish(o) \/ Accept(o) \/ Persist(o)
      <4>1. \E next \in Steps \ {"idle", "prepare"} : Continue(next)
        BY <3>2 DEF KeepCurrent, BeginRuntime, Transition, Publish, Accept,
           Persist, Steps
      <4> QED
        BY <2>2, <4>1
    <3>3. CASE \/ TransitionFails(o) \/ FencedBeforeCommit(o)
               \/ AcceptFails(o) \/ PersistFails(o)
      <4>1. \E result : Fail(result)
        BY <3>3 DEF TransitionFails, FencedBeforeCommit, AcceptFails,
           PersistFails
      <4> QED
        BY <2>2, <4>1
    <3>4. CASE \/ BeginRuntimeFails(o) \/ FencedBeforeRuntime(o)
               \/ Commit(o) \/ Rollback(o) \/ RollbackFails(o)
      <4>1. worker[o] = "running" /\ \E result \in Ended : End(o, result)
        BY <3>4 DEF BeginRuntimeFails, FencedBeforeRuntime, Commit, Rollback,
           RollbackFails, Ended
      <4> QED
        BY <2>1, <4>1
    <3> QED
      BY <2>5, <3>1, <3>2, <3>3, <3>4 DEF Advance
  <2>6. CASE Supervise(o) \/ Forget(o)
    BY <2>2, <2>6
       DEF Supervise, SuperviseWorker, SuperviseTimeout, SuperviseShutdown,
           SuperviseCancelled, AnswerAwaited, CancelWorker, CancelConnection,
           Told, Forget, tasks, txnVars
  <2> QED
    BY <1>3, <2>3, <2>4, <2>5, <2>6 DEF OpNext
<1> QED
  BY <1>1, <1>2, <1>3 DEF Next

Typed == TypeOK /\ OneTransaction

(* Every reachable state of the daemon has its type, and one transaction   *)
(* at most is open in it (state/registrations.rs, config_operation).       *)
THEOREM AlwaysTyped == Spec => []Typed
<1>1. Init => Typed
  <2> SUFFICES ASSUME Init PROVE Typed
    OBVIOUS
  <2>1. FenceTypeOK
    BY DEF Init, FenceInit, FenceTypeOK, Permits, Verdicts
  <2>2. TasksTypeOK /\ OneTransaction
    BY DEF Init, TasksTypeOK, OneTransaction, Running
  <2>3. TransactionTypeOK
    BY NoTransactionType, NoReceiptType DEF Init, TransactionTypeOK, Steps
  <2>4. stored \in DesiredState
    BY EmptyMapType DEF Init, DesiredState
  <2> QED
    BY <2>1, <2>2, <2>3, <2>4, EmptyRegistrations, InitialCoordinatorType
       DEF Init, Typed, TypeOK
<1>2. Typed /\ FenceTypeOK' /\ [Next]_vars => Typed'
  BY NextType, OneTransactionStep DEF Typed
<1>3. Spec => []FenceTypeOK
  BY FencesRefinedThm, FenceTypeCorrect, PTL DEF FencesRefined
<1> QED
  BY <1>1, <1>2, <1>3, PTL DEF Spec

(* The variables of the daemon always have their types.                    *)
THEOREM TypeCorrect == Spec => []TypeOK
<1>1. Typed => TypeOK
  BY DEF Typed
<1> QED
  BY <1>1, AlwaysTyped, PTL

-----------------------------------------------------------------------------
(* Ownership of domains.                                                   *)

(* What makes DomainExclusive inductive: the candidate of the transaction  *)
(* is exclusive as well.                                                   *)
CandidateExclusive ==
  Exclusive(registrations) /\ Exclusive(txn.registrations)

LEMMA EditedExclusive ==
  ASSUME NEW regs, IsRegistrations(regs), Exclusive(regs),
         NEW r \in Requests, r.kind \in Edits, ~Refused(regs, r)
  PROVE  Exclusive(Edited(regs, r))
<1>1. /\ r \in Request /\ r.id \in DOMAIN regs
      /\ regs \in [DOMAIN regs -> EntrypointRegistration]
  BY RequestsAssumption DEF Refused, Found, IsRegistrations
<1>2. CASE r.kind = "unregister"
  BY <1>2, DropExclusive DEF Edited
<1>3. CASE r.kind \in {"entrypoint", "domain"}
  <2> DEFINE new == Edited(regs, r)
  <2>1. /\ DOMAIN new = DOMAIN regs
        /\ \A j \in DOMAIN regs \ {r.id} : new[j] = regs[j]
    BY <1>1, <1>3 DEF Edited
  <2>2. CASE r.on
    <3>1. ~Conflict(new, r.id)
      BY <1>3, <2>2 DEF Refused
    <3> QED
      BY <2>1, <3>1, ExclusiveAfterChange DEF Claims
  <2>3. CASE ~r.on
    <3>1. ASSUME NEW d \in Domains, Claims(new, r.id, d)
          PROVE  Claims(regs, r.id, d)
      BY <1>1, <1>3, <2>3, <3>1
         DEF Claims, Edited, Activate, EntrypointRegistration, Request
    <3> QED
      BY <1>1, <2>1, <3>1, ExclusiveAfterChange DEF Claims
  <2> QED
    BY <2>2, <2>3
<1> QED
  BY <1>2, <1>3 DEF Edits

LEMMA CandidateExclusiveAtEnd ==
  ASSUME CandidateExclusive, NEW o \in Ops, NEW result, End(o, result),
         registrations' = registrations \/ registrations' = txn.registrations
  PROVE  CandidateExclusive'
BY EmptyExclusive DEF End, NoTransaction, CandidateExclusive

LEMMA PreparedExclusive ==
  ASSUME TypeOK, CandidateExclusive, NEW o \in Ops, request[o] \in Requests,
         NEW adapted, NEW reg, Prepared(o, adapted, reg),
         registrations' = registrations
  PROVE  CandidateExclusive'
<1> DEFINE r == request[o]
           candidate == Put(registrations, r.id, Restored(stored, reg))
<1>1. CASE End(o, "rejected")
  BY <1>1, CandidateExclusiveAtEnd
<1>2. CASE /\ ~Conflict(candidate, r.id)
           /\ txn' = [registrations |-> candidate, coordinator |-> adapted]
  <2>1. r.id \in Ids
    BY RequestsAssumption DEF Request
  <2>2. Exclusive(candidate)
    BY <1>2, <2>1, PutExclusive DEF CandidateExclusive, TypeOK
  <2> QED
    BY <1>2, <2>2 DEF CandidateExclusive
<1> QED
  BY <1>1, <1>2 DEF Prepared

(* Every step keeps both the published registrations and the candidate     *)
(* exclusive.                                                              *)
LEMMA CandidateExclusiveStep ==
  ASSUME Typed, CandidateExclusive, [Next]_vars
  PROVE  CandidateExclusive'
<1> USE DEF Typed
<1>1. CASE UNCHANGED <<registrations, txn>>
  BY <1>1 DEF CandidateExclusive
<1>2. CASE Drain \/ CaddyExits \/ Tick \/ UNCHANGED vars
  BY <1>1, <1>2 DEF Drain, CaddyExits, Tick, vars, published, txnVars
<1>3. CASE Restart
  BY <1>3, EmptyExclusive DEF Restart, NoTransaction, CandidateExclusive
<1>4. ASSUME NEW o \in Ops, OpNext(o) PROVE CandidateExclusive'
  <2>1. CASE \/ Submit(o) \/ SubmitCleanup(o) \/ Supervise(o) \/ Forget(o)
             \/ FencedAtStart(o)
    BY <1>1, <2>1
       DEF Submit, SubmitCleanup, Arrive, Supervise, SuperviseWorker,
           SuperviseTimeout, SuperviseShutdown, SuperviseCancelled,
           AnswerAwaited, CancelWorker, CancelConnection, Told, Forget,
           FencedAtStart, published, txnVars
  <2>2. CASE BeginEdit(o)
    <3>1. request[o] \in Requests
      BY <2>2 DEF BeginEdit, TypeOK, TasksTypeOK
    <3>2. CASE Refused(registrations, request[o])
      BY <2>2, <3>2, CandidateExclusiveAtEnd DEF BeginEdit, published
    <3>3. CASE ~Refused(registrations, request[o])
      <4>1. Exclusive(Edited(registrations, request[o]))
        BY <2>2, <3>1, <3>3, EditedExclusive
           DEF BeginEdit, TypeOK, CandidateExclusive
      <4> QED
        BY <2>2, <3>3, <4>1 DEF BeginEdit, published, CandidateExclusive
    <3> QED
      BY <3>2, <3>3
  <2>3. CASE BeginRegister(o)
    BY <1>1, <2>3, CandidateExclusiveAtEnd DEF BeginRegister, published
  <2>4. CASE Heartbeat(o)
    <3>1. CASE Found(registrations, request[o])
      <4>1. /\ DOMAIN registrations' = DOMAIN registrations
            /\ \A i \in DOMAIN registrations :
                 /\ registrations'[i].enabled = registrations[i].enabled
                 /\ registrations'[i].domains = registrations[i].domains
        BY <2>4, <3>1 DEF Heartbeat, TypeOK, IsRegistrations,
           EntrypointRegistration
      <4> QED
        BY <2>4, <4>1
           DEF Heartbeat, txnVars, CandidateExclusive, Exclusive, Claims
    <3>2. CASE ~Found(registrations, request[o])
      BY <1>1, <2>4, <3>2 DEF Heartbeat, txnVars
    <3> QED
      BY <3>1, <3>2
  <2>5. CASE Advance(o)
    <3>1. CASE Prepare(o)
      <4>1. request[o] \in Requests /\ registrations' = registrations
        BY <3>1 DEF Prepare, Running, TypeOK, TasksTypeOK, published
      <4>2. ASSUME NEW adapted, NEW reg, Prepared(o, adapted, reg)
            PROVE  CandidateExclusive'
        BY <4>1, <4>2, PreparedExclusive
      <4>3. ASSUME End(o, "rejected")
            PROVE  CandidateExclusive'
        BY <4>1, <4>3, CandidateExclusiveAtEnd
      <4>4. \/ \E adapted, reg : Prepared(o, adapted, reg)
            \/ End(o, "rejected")
        <5>1. CASE \E hosts \in Adaptations :
                     Prepared(o, Adapted(coordinator, request[o].id, hosts),
                                 SentBy(request[o], hosts))
          BY <5>1
        <5> QED
          BY <3>1, <5>1 DEF Prepare
      <4> QED
        BY <4>2, <4>3, <4>4
    <3>2. CASE KeepCurrent(o) \/ BeginRuntime(o) \/ Transition(o)
      <4>1. \A c : [txn EXCEPT !.coordinator = c].registrations
                    = txn.registrations
        BY TransactionUpdate DEF TypeOK, TransactionTypeOK
      <4>2. registrations' = registrations
        BY <3>2 DEF KeepCurrent, BeginRuntime, Transition, published
      <4>3. txn'.registrations = txn.registrations
        <5>1. CASE KeepCurrent(o)
          BY <5>1, <4>1 DEF KeepCurrent
        <5>2. CASE BeginRuntime(o)
          BY <5>2, <4>1 DEF BeginRuntime
        <5>3. CASE Transition(o)
          <6>1. CASE Stopping
            BY <5>3, <6>1, <4>1 DEF Transition
          <6>2. CASE ~Stopping
            BY <5>3, <6>2, <4>1 DEF Transition
          <6> QED
            BY <6>1, <6>2
        <5> QED
          BY <3>2, <5>1, <5>2, <5>3
      <4> QED
        BY <4>2, <4>3 DEF CandidateExclusive
    <3>3. CASE Publish(o)
      <4>1. /\ registrations' = registrations
            /\ txn'.registrations
                 = MergeLiveHeartbeats(txn.registrations, registrations)
        BY <3>3, TransactionUpdate, MergeType
           DEF Publish, published, TypeOK, TransactionTypeOK
      <4>2. Exclusive(MergeLiveHeartbeats(txn.registrations, registrations))
        BY MergeExclusive, TransactionUpdate
           DEF CandidateExclusive, TypeOK, TransactionTypeOK
      <4> QED
        BY <4>1, <4>2 DEF CandidateExclusive
    <3>4. CASE \/ Accept(o) \/ Persist(o) \/ TransitionFails(o)
               \/ FencedBeforeCommit(o) \/ AcceptFails(o) \/ PersistFails(o)
      BY <1>1, <3>4 DEF Accept, Persist, TransitionFails, FencedBeforeCommit,
         AcceptFails, PersistFails, Fail, published
    <3>5. CASE \/ BeginRuntimeFails(o) \/ FencedBeforeRuntime(o)
               \/ Rollback(o) \/ RollbackFails(o) \/ Commit(o)
      BY <3>5, CandidateExclusiveAtEnd
         DEF BeginRuntimeFails, FencedBeforeRuntime, Rollback, RollbackFails,
             Commit, published
    <3> QED
      BY <2>5, <3>1, <3>2, <3>3, <3>4, <3>5 DEF Advance
  <2> QED
    BY <1>4, <2>1, <2>2, <2>3, <2>4, <2>5 DEF OpNext, Start
<1> QED
  BY <1>2, <1>3, <1>4 DEF Next

(* Two enabled entrypoints never claim the same domain in the published    *)
(* state, for any number of sessions, mutations in flight and faults       *)
(* (state/registrations.rs, active_domain_ownership_conflict).             *)
THEOREM DomainExclusiveThm == Spec => []DomainExclusive
<1>1. Init => CandidateExclusive
  BY EmptyExclusive DEF Init, NoTransaction, CandidateExclusive
<1>2. Typed /\ CandidateExclusive /\ [Next]_vars => CandidateExclusive'
  BY CandidateExclusiveStep
<1>3. CandidateExclusive => DomainExclusive
  BY DEF CandidateExclusive, DomainExclusive
<1> QED
  BY <1>1, <1>2, <1>3, AlwaysTyped, PTL DEF Spec

-----------------------------------------------------------------------------
(* Owners of registrations.                                                *)

(* What the mutation r may make of the owners a.                           *)
Moves(r, a, b) ==
  \/ b = a
  \/ /\ r.kind = "register"
     /\ a[r.id] \in {None, r.nonce} /\ b = [a EXCEPT ![r.id] = r.nonce]
  \/ /\ r.kind = "unregister"
     /\ a[r.id] = r.nonce /\ b = [a EXCEPT ![r.id] = None]

Carrying == Steps \ {"idle", "prepare", "undo"}

(* What makes OwnersRefined inductive: at every step of a transaction, what*)
(* it will publish is what its own mutation may make of what is published. *)
CandidateOwned ==
  step \in Carrying =>
    \A o \in Ops :
      worker[o] = "running" =>
        Moves(request[o], OwnerOf(registrations), OwnerOf(txn.registrations))

(* A step that begins no transaction and changes no owner.                 *)
LEMMA CandidateKept ==
  ASSUME CandidateOwned,
         step' \in Carrying => step \in Carrying,
         \A p \in Ops : worker'[p] = "running" =>
                        worker[p] = "running" /\ request'[p] = request[p],
         OwnerOf(registrations') = OwnerOf(registrations),
         OwnerOf(txn'.registrations) = OwnerOf(txn.registrations)
  PROVE  CandidateOwned'
BY DEF CandidateOwned

LEMMA EditedOwners ==
  ASSUME NEW regs, IsRegistrations(regs), NEW r \in Requests,
         r.kind \in Edits, Found(regs, r)
  PROVE  Moves(r, OwnerOf(regs), OwnerOf(Edited(regs, r)))
<1>1. /\ r \in Request /\ r.id \in DOMAIN regs /\ r.id \in Ids
      /\ regs \in [DOMAIN regs -> EntrypointRegistration]
      /\ regs[r.id] \in EntrypointRegistration
  BY RequestsAssumption DEF Found, IsRegistrations
<1>2. CASE r.kind = "unregister"
  <2>1. OwnerOf(regs)[r.id] = r.nonce /\ r.nonce \in Nonces
    BY <1>1, <1>2 DEF OwnerOf, Found, EntrypointRegistration
  <2>2. OwnerOf(Drop(regs, r.id)) = [OwnerOf(regs) EXCEPT ![r.id] = None]
    BY <1>1 DEF OwnerOf, Drop, Restrict
  <2> QED
    BY <1>1, <1>2, <2>1, <2>2 DEF Edited, Moves
<1>3. CASE r.kind = "entrypoint"
  BY <1>1, <1>3 DEF Edited, Moves, OwnerOf, EntrypointRegistration
<1>4. CASE r.kind = "domain"
  BY <1>1, <1>4 DEF Edited, Moves, OwnerOf, EntrypointRegistration
<1> QED
  BY <1>2, <1>3, <1>4 DEF Edits

LEMMA PutOwners ==
  ASSUME NEW regs, NEW r \in Requests, r.kind = "register",
         ~DifferentOwner(regs, r), NEW reg, reg.nonce = r.nonce
  PROVE  Moves(r, OwnerOf(regs), OwnerOf(Put(regs, r.id, reg)))
<1>1. r.id \in Ids /\ r.nonce \in Nonces
  BY RequestsAssumption DEF Request
<1>2. OwnerOf(regs)[r.id] \in {None, r.nonce}
  BY <1>1 DEF OwnerOf, DifferentOwner
<1>3. OwnerOf(Put(regs, r.id, reg)) = [OwnerOf(regs) EXCEPT ![r.id] = r.nonce]
  BY <1>1 DEF OwnerOf, Put
<1> QED
  BY <1>2, <1>3 DEF Moves

LEMMA MergeOwners ==
  ASSUME NEW regs, IsRegistrations(regs), NEW live
  PROVE  OwnerOf(MergeLiveHeartbeats(regs, live)) = OwnerOf(regs)
<1>1. DOMAIN MergeLiveHeartbeats(regs, live) = DOMAIN regs
  BY DEF MergeLiveHeartbeats
<1>2. \A i \in DOMAIN regs :
        MergeLiveHeartbeats(regs, live)[i].nonce = regs[i].nonce
  BY DEF MergeLiveHeartbeats, IsRegistrations, EntrypointRegistration
<1> QED
  BY <1>1, <1>2 DEF OwnerOf

LEMMA HeartbeatOwners ==
  ASSUME NEW i, IsRegistrations(registrations),
         registrations' = [registrations EXCEPT ![i].heartbeat = clock]
  PROVE  OwnerOf(registrations') = OwnerOf(registrations)
<1>1. /\ DOMAIN registrations' = DOMAIN registrations
      /\ \A j \in DOMAIN registrations :
           registrations'[j].nonce = registrations[j].nonce
  BY DEF IsRegistrations, EntrypointRegistration
<1> QED
  BY <1>1 DEF OwnerOf

LEMMA PreparedOwned ==
  ASSUME Typed, NEW o \in Ops, Running(o, "prepare"),
         request[o] \in Requests, request[o].kind = "register",
         NEW adapted, NEW reg \in EntrypointRegistration,
         reg.nonce = request[o].nonce,
         Prepared(o, adapted, reg), registrations' = registrations
  PROVE  CandidateOwned'
<1> DEFINE r == request[o]
           candidate == Put(registrations, r.id, Restored(stored, reg))
<1>1. CASE End(o, "rejected")
  BY <1>1 DEF End, CandidateOwned, Carrying
<1>2. CASE /\ ~DifferentOwner(registrations, r)
           /\ txn' = [registrations |-> candidate, coordinator |-> adapted]
           /\ UNCHANGED tasks
  <2>1. Restored(stored, reg).nonce = r.nonce
    BY DEF Restored, EntrypointRegistration
  <2>2. Moves(r, OwnerOf(registrations), OwnerOf(candidate))
    BY <1>2, <2>1, PutOwners
  <2>3. \A p \in Ops : worker'[p] = "running" => p = o
    BY <1>2 DEF tasks, Running, Typed, OneTransaction
  <2> QED
    BY <1>2, <2>2, <2>3 DEF CandidateOwned, tasks
<1> QED
  BY <1>1, <1>2 DEF Prepared, Continue

(* A transaction that begins is the only one.                              *)
LEMMA BegunOwned ==
  ASSUME Typed, NEW o \in Ops, BeginEdit(o)
  PROVE  CandidateOwned'
<1> USE DEF Typed
<1>1. request[o] \in Requests
  BY DEF BeginEdit, TypeOK, TasksTypeOK
<1>2. CASE Refused(registrations, request[o])
  BY <1>2 DEF BeginEdit, End, CandidateOwned, Carrying
<1>3. CASE ~Refused(registrations, request[o])
  <2>1. Moves(request[o], OwnerOf(registrations),
              OwnerOf(Edited(registrations, request[o])))
    BY <1>1, <1>3, EditedOwners DEF BeginEdit, Refused, TypeOK
  <2>2. \A p \in Ops : worker'[p] = "running" => p = o
    BY <1>3 DEF BeginEdit, OneTransaction, TypeOK, TasksTypeOK
  <2> QED
    BY <1>3, <2>1, <2>2 DEF BeginEdit, published, CandidateOwned
<1> QED
  BY <1>2, <1>3

(* Every step keeps the candidate within what its mutation may do.         *)
LEMMA CandidateOwnedStep ==
  ASSUME Typed, CandidateOwned, [Next]_vars
  PROVE  CandidateOwned'
<1> USE DEF Typed
<1>1. CASE UNCHANGED <<registrations, tasks, step, txn>>
  BY <1>1 DEF CandidateOwned, tasks
<1>2. CASE Drain \/ CaddyExits \/ Tick \/ UNCHANGED vars
  BY <1>1, <1>2 DEF Drain, CaddyExits, Tick, vars, published, txnVars
<1>3. CASE Restart
  BY <1>3 DEF Restart, CandidateOwned, Carrying
<1>4. ASSUME NEW o \in Ops, OpNext(o) PROVE CandidateOwned'
  <2>1. CASE \/ Submit(o) \/ SubmitCleanup(o) \/ Supervise(o) \/ Forget(o)
             \/ FencedAtStart(o)
    <3>1. UNCHANGED <<registrations, step, txn>>
      BY <2>1
         DEF Submit, SubmitCleanup, Arrive, Supervise, SuperviseWorker,
             SuperviseTimeout, SuperviseShutdown, SuperviseCancelled,
             AnswerAwaited, CancelWorker, CancelConnection, Told, Forget,
             FencedAtStart, published, txnVars
    <3>2. \A p \in Ops : worker'[p] = "running" =>
                         worker[p] = "running" /\ request'[p] = request[p]
      BY <2>1
         DEF Submit, SubmitCleanup, Arrive, Supervise, SuperviseWorker,
             SuperviseTimeout, SuperviseShutdown, SuperviseCancelled,
             AnswerAwaited, CancelWorker, CancelConnection, Told, Forget,
             FencedAtStart, tasks, TypeOK, TasksTypeOK
    <3> QED
      BY <3>1, <3>2, CandidateKept
  <2>2. ASSUME NEW result, End(o, result) PROVE CandidateOwned'
    BY <2>2 DEF End, CandidateOwned, Carrying
  <2>3. CASE BeginEdit(o)
    BY <2>3, BegunOwned
  <2>4. CASE BeginRegister(o)
    BY <2>2, <2>4 DEF BeginRegister, CandidateOwned, Carrying
  <2>5. CASE Heartbeat(o)
    <3>1. OwnerOf(registrations') = OwnerOf(registrations)
      BY <2>5, HeartbeatOwners DEF Heartbeat, TypeOK
    <3>2. \A p \in Ops : worker'[p] = "running" =>
                         worker[p] = "running" /\ request'[p] = request[p]
      BY <2>5 DEF Heartbeat, TypeOK, TasksTypeOK
    <3> QED
      BY <2>5, <3>1, <3>2, CandidateKept DEF Heartbeat, txnVars
  <2>6. CASE Prepare(o)
    <3>1. /\ request[o] \in Requests /\ request[o].kind = "register"
          /\ Running(o, "prepare")
          /\ registrations' = registrations
      BY <2>6 DEF Prepare, Running, OneTransaction, TypeOK, TasksTypeOK,
         published
    <3>2. ASSUME NEW hosts, NEW adapted,
                 Prepared(o, adapted, SentBy(request[o], hosts))
          PROVE  CandidateOwned'
      <4>1. SentBy(request[o], hosts) \in EntrypointRegistration
        BY <3>1, SentByType
      <4>2. SentBy(request[o], hosts).nonce = request[o].nonce
        BY DEF SentBy
      <4> QED
        BY <3>1, <3>2, <4>1, <4>2, PreparedOwned
    <3> QED
      BY <2>2, <2>6, <3>2 DEF Prepare
  <2>7. CASE KeepCurrent(o) \/ BeginRuntime(o) \/ Transition(o)
    <3>1. \A c : [txn EXCEPT !.coordinator = c].registrations
                  = txn.registrations
      BY TransactionUpdate DEF TypeOK, TransactionTypeOK
    <3>2. txn'.registrations = txn.registrations
      <4>1. CASE KeepCurrent(o)
        BY <3>1, <4>1 DEF KeepCurrent
      <4>2. CASE BeginRuntime(o)
        BY <3>1, <4>2 DEF BeginRuntime
      <4>3. CASE Transition(o) /\ Stopping
        BY <3>1, <4>3 DEF Transition
      <4>4. CASE Transition(o) /\ ~Stopping
        BY <3>1, <4>4 DEF Transition
      <4> QED
        BY <2>7, <4>1, <4>2, <4>3, <4>4
    <3>3. /\ registrations' = registrations /\ step \in Carrying
          /\ UNCHANGED tasks
      BY <2>7 DEF KeepCurrent, BeginRuntime, Transition, Running, Continue,
         published, Carrying, Steps
    <3> QED
      BY <3>2, <3>3, CandidateKept DEF tasks
  <2>8. CASE Publish(o)
    <3>1. /\ registrations' = registrations /\ step \in Carrying
          /\ UNCHANGED tasks
          /\ txn'.registrations
               = MergeLiveHeartbeats(txn.registrations, registrations)
      BY <2>8, TransactionUpdate, MergeType
         DEF Publish, Running, Continue, published, Carrying, Steps, TypeOK,
             TransactionTypeOK
    <3>2. OwnerOf(txn'.registrations) = OwnerOf(txn.registrations)
      BY <3>1, MergeOwners, TransactionUpdate DEF TypeOK, TransactionTypeOK
    <3> QED
      BY <3>1, <3>2, CandidateKept DEF tasks
  <2>9. CASE Accept(o) \/ Persist(o)
    <3>1. UNCHANGED <<registrations, txn, tasks>> /\ step \in Carrying
      BY <2>9 DEF Accept, Persist, Running, Continue, published, Carrying,
         Steps
    <3> QED
      BY <3>1, CandidateKept DEF tasks
  <2>10. CASE \/ TransitionFails(o) \/ FencedBeforeCommit(o)
              \/ AcceptFails(o) \/ PersistFails(o)
    BY <2>10 DEF TransitionFails, FencedBeforeCommit, AcceptFails,
       PersistFails, Fail, CandidateOwned, Carrying
  <2>11. CASE \/ BeginRuntimeFails(o) \/ FencedBeforeRuntime(o)
              \/ Rollback(o) \/ RollbackFails(o) \/ Commit(o)
    BY <2>2, <2>11 DEF BeginRuntimeFails, FencedBeforeRuntime, Rollback,
       RollbackFails, Commit
  <2> QED
    BY <1>4, <2>1, <2>3, <2>4, <2>5, <2>6, <2>7, <2>8, <2>9, <2>10, <2>11
       DEF OpNext, Start, Advance
<1> QED
  BY <1>2, <1>3, <1>4 DEF Next

(* Every step changes the owners as Ownership allows, or not at all.       *)
LEMMA OwnersStep ==
  ASSUME Typed, PermitRemembers, CandidateOwned, [Next]_vars
  PROVE  [Owners!OwnershipNext]_(OwnerOf(registrations))
<1> USE DEF Typed
<1>1. CASE registrations' = registrations
  BY <1>1 DEF OwnerOf
<1>2. CASE Restart
  <2>1. OwnerOf(registrations') = [i \in Ids |-> None]
    BY <1>2 DEF Restart, OwnerOf, EmptyMap
  <2> QED
    BY <1>2, <2>1 DEF Restart, FenceRestart, OwnerOf, Owners!OwnershipNext,
       Owners!ForgetOwners, Owners!FenceRestart, Owners!Unowned
<1>3. CASE OwnerOf(registrations') = OwnerOf(registrations)
  BY <1>3 DEF OwnerOf
<1>4. ASSUME NEW o \in Ops, Heartbeat(o)
      PROVE  OwnerOf(registrations') = OwnerOf(registrations)
  BY <1>4, HeartbeatOwners DEF Heartbeat, TypeOK
<1>5. ASSUME NEW o \in Ops, Commit(o)
      PROVE  [Owners!OwnershipNext]_(OwnerOf(registrations))
  <2>1. Moves(request[o], OwnerOf(registrations), OwnerOf(registrations'))
    BY <1>5 DEF Commit, Running, CandidateOwned, Carrying, Steps
  <2>2. request[o] # None
    BY <1>5, RequestsAssumption
       DEF Commit, Running, TypeOK, TasksTypeOK
  <2>3. Owners!Commits(o)
    BY <1>5, <2>2 DEF Commit, GuardCommit, PermitRemembers, TypeOK,
       FenceTypeOK, Owners!Commits
  <2>4. \/ OwnerOf(registrations') = OwnerOf(registrations)
        \/ Owners!Claim(request[o])
        \/ Owners!Withdraw(request[o])
    BY <2>1 DEF Moves, OwnerOf, Owners!Claim, Owners!Withdraw
  <2> QED
    BY <1>3, <2>3, <2>4 DEF Owners!OwnershipNext
<1>6. ASSUME NEW o \in Ops, OpNext(o), ~Heartbeat(o), ~Commit(o)
      PROVE  registrations' = registrations
  BY <1>6 DEF OpNext, Submit, SubmitCleanup, Arrive, Start, BeginEdit,
     BeginRegister, FencedAtStart, Advance, Prepare, KeepCurrent,
     BeginRuntime, BeginRuntimeFails, FencedBeforeRuntime, Transition,
     TransitionFails, Publish, FencedBeforeCommit, Accept, AcceptFails,
     Persist, PersistFails, Rollback, RollbackFails, Supervise,
     SuperviseWorker, SuperviseTimeout, SuperviseShutdown,
     SuperviseCancelled, AnswerAwaited, CancelWorker, CancelConnection, Told,
     Forget, published
<1>7. CASE Drain \/ CaddyExits \/ Tick \/ UNCHANGED vars
  BY <1>1, <1>7 DEF Drain, CaddyExits, Tick, vars, published
<1> QED
  BY <1>1, <1>2, <1>3, <1>4, <1>5, <1>6, <1>7 DEF Next

(* The registration service implements Ownership: whatever its copies,     *)
(* transactions, rollbacks and races do, an id passes from one session to  *)
(* another only through a withdrawal (state/registrations.rs,              *)
(* registration_has_different_owner).                                      *)
THEOREM OwnersRefinedThm == Spec => OwnersRefined
<1>1. Init => CandidateOwned /\ Owners!OwnershipInit
  BY DEF Init, CandidateOwned, OwnerOf, EmptyMap, Owners!OwnershipInit,
     Owners!Unowned
<1>2. Typed /\ CandidateOwned /\ [Next]_vars => CandidateOwned'
  BY CandidateOwnedStep
<1>3. Typed /\ PermitRemembers /\ CandidateOwned /\ [Next]_vars
        => [Owners!OwnershipNext]_(OwnerOf(registrations))
  BY OwnersStep
<1>4. Spec => []PermitRemembers
  BY FencesRefinedThm, PermitAlwaysRemembers, PTL DEF FencesRefined
<1> QED
  BY <1>1, <1>2, <1>3, <1>4, AlwaysTyped, PTL
     DEF Spec, OwnersRefined, Owners!OwnershipSpec

-----------------------------------------------------------------------------
(* Answers.                                                                *)

(* What makes AnswersAreTruthful inductive: an answer repeats how the      *)
(* worker ended, or the permit was revoked before it was given, and how a  *)
(* worker stands tells whether its fence has committed.                    *)
AnswersTracked ==
  \A o \in Ops :
    /\ client[o] \in {"accepted", "rejected"} => worker[o] = client[o]
    /\ client[o] = "refused" => permit[o] = "revoked"
    /\ worker[o] = "accepted" => committed[o]
    /\ worker[o] = "rejected" /\ request[o].kind # "heartbeat"
         => ~committed[o]
    /\ worker[o] \in {"none", "fenced"} \cup Pending => ~committed[o]

(* A step that commits nothing keeps it when it only ends a worker with an *)
(* error.                                                                  *)
LEMMA AnswersTrackedAtError ==
  ASSUME Typed, AnswersTracked, NEW o \in Ops, worker[o] \in Pending,
         NEW result \in Pending \cup {"rejected", "fenced"},
         worker' = [worker EXCEPT ![o] = result],
         UNCHANGED <<request, client, committed>>,
         \A p \in Ops : permit[p] = "revoked" => permit'[p] = "revoked"
  PROVE  AnswersTracked'
<1> SUFFICES ASSUME NEW p \in Ops
             PROVE  /\ client[p] \in {"accepted", "rejected"}
                         => worker'[p] = client[p]
                    /\ client[p] = "refused" => permit'[p] = "revoked"
                    /\ worker'[p] = "accepted" => committed[p]
                    /\ worker'[p] = "rejected" /\ request[p].kind # "heartbeat"
                         => ~committed[p]
                    /\ worker'[p] \in {"none", "fenced"} \cup Pending
                         => ~committed[p]
  BY DEF AnswersTracked
<1> USE DEF AnswersTracked, Typed, TypeOK, TasksTypeOK, Pending
<1>1. CASE p = o
  BY <1>1
<1>2. CASE p # o
  BY <1>2
<1> QED
  BY <1>1, <1>2

(* No step of a transaction but the commit moves a revoked permit, ends a  *)
(* worker as accepted, or commits.                                         *)
LEMMA AdvanceWithoutCommit ==
  ASSUME Typed, NEW o \in Ops, Advance(o), ~Commit(o)
  PROVE  /\ worker[o] \in Pending
         /\ \E result \in Pending \cup {"rejected", "fenced"} :
              worker' = [worker EXCEPT ![o] = result]
         /\ UNCHANGED <<request, client, committed>>
         /\ \A p \in Ops : permit[p] = "revoked" => permit'[p] = "revoked"
<1> USE DEF Typed, TypeOK, TasksTypeOK, FenceTypeOK, Pending, Running
<1>1. ASSUME worker[o] = "running", UNCHANGED <<request, client>>,
             \/ UNCHANGED worker
             \/ \E result \in {"rejected", "fenced"} :
                  worker' = [worker EXCEPT ![o] = result]
      PROVE  /\ worker[o] \in Pending
             /\ \E result \in Pending \cup {"rejected", "fenced"} :
                  worker' = [worker EXCEPT ![o] = result]
             /\ UNCHANGED <<request, client>>
  <2>1. CASE UNCHANGED worker
    <3>1. worker' = [worker EXCEPT ![o] = "running"]
      BY <1>1, <2>1
    <3> QED
      BY <1>1, <3>1
  <2> QED
    BY <1>1, <2>1
<1>2. /\ worker[o] = "running" /\ UNCHANGED <<request, client>>
      /\ \/ UNCHANGED worker
         \/ \E result \in {"rejected", "fenced"} :
              worker' = [worker EXCEPT ![o] = result]
  <2>1. CASE Prepare(o)
    BY <2>1 DEF Prepare, Prepared, End, Continue, tasks
  <2>2. CASE \/ KeepCurrent(o) \/ BeginRuntime(o) \/ Transition(o)
             \/ Publish(o) \/ Accept(o) \/ Persist(o)
    BY <2>2 DEF KeepCurrent, BeginRuntime, Transition, Publish, Accept,
       Persist, Continue, tasks
  <2>3. CASE \/ TransitionFails(o) \/ FencedBeforeCommit(o)
             \/ AcceptFails(o) \/ PersistFails(o)
    BY <2>3 DEF TransitionFails, FencedBeforeCommit, AcceptFails,
       PersistFails, Fail, tasks
  <2>4. CASE BeginRuntimeFails(o) \/ FencedBeforeRuntime(o)
    BY <2>4 DEF BeginRuntimeFails, FencedBeforeRuntime, End
  <2>5. CASE Rollback(o) \/ RollbackFails(o)
    <3>1. outcome \in {"rejected", "fenced"}
      BY <2>5 DEF Rollback, RollbackFails, TransactionTypeOK
    <3> QED
      BY <2>5, <3>1 DEF Rollback, RollbackFails, End
  <2> QED
    BY <2>1, <2>2, <2>3, <2>4, <2>5 DEF Advance
<1>3. /\ UNCHANGED committed
      /\ \A p \in Ops : permit[p] = "revoked" => permit'[p] = "revoked"
  <2>1. CASE \/ Prepare(o) \/ KeepCurrent(o) \/ BeginRuntime(o)
             \/ BeginRuntimeFails(o) \/ FencedBeforeRuntime(o)
             \/ Transition(o) \/ TransitionFails(o) \/ FencedBeforeCommit(o)
             \/ Accept(o) \/ Persist(o) \/ Rollback(o)
    BY <2>1 DEF Prepare, KeepCurrent, BeginRuntime, BeginRuntimeFails,
       FencedBeforeRuntime, Transition, TransitionFails, FencedBeforeCommit,
       Accept, Persist, Rollback, fenceVars
  <2>2. CASE Publish(o)
    BY <2>2 DEF Publish, BeginFinalCommit, CanCommit
  <2>3. CASE AcceptFails(o) \/ PersistFails(o)
    BY <2>3 DEF AcceptFails, PersistFails, GuardDrop
  <2>4. CASE RollbackFails(o)
    BY <2>4 DEF RollbackFails, BeginDrain
  <2> QED
    BY <2>1, <2>2, <2>3, <2>4 DEF Advance
<1> QED
  BY <1>1, <1>2, <1>3

(* A supervisor tells its client how the worker ended, or that it has      *)
(* revoked the fence.                                                      *)
LEMMA AnswersTrackedBySupervisor ==
  ASSUME Typed, AnswersTracked, NEW o \in Ops, Supervise(o)
  PROVE  AnswersTracked'
<1> USE DEF Typed, TypeOK, TasksTypeOK, FenceTypeOK, Permits
<1>1. UNCHANGED <<request, worker, committed>>
  BY DEF Supervise, SuperviseWorker, SuperviseTimeout, SuperviseShutdown,
     SuperviseCancelled, AnswerAwaited, CancelWorker, CancelConnection, Told,
     TryRevoke, Complete, fenceVars, tasks
<1>2. \A p \in Ops : permit[p] = "revoked" => permit'[p] = "revoked"
  BY DEF Supervise, SuperviseWorker, SuperviseTimeout, SuperviseShutdown,
     SuperviseCancelled, AnswerAwaited, CancelWorker, CancelConnection,
     TryRevoke, Complete, RevokedPermit, fenceVars
<1>3. ASSUME NEW answer \in Supervised \cup Answers, Told(o, answer),
             answer \in {"accepted", "rejected"} => worker[o] = answer,
             answer = "refused" => permit'[o] = "revoked"
      PROVE  AnswersTracked'
  BY <1>1, <1>2, <1>3 DEF Told, AnswersTracked
<1> USE DEF Supervised, Answers, Ended
<1>4. CASE SuperviseWorker(o)
  <2>1. CASE worker[o] = "fenced"
    BY <1>3, <1>4, <2>1 DEF SuperviseWorker
  <2>2. CASE worker[o] # "fenced"
    BY <1>3, <1>4, <2>2 DEF SuperviseWorker
  <2> QED
    BY <2>1, <2>2
<1>5. CASE SuperviseTimeout(o)
  <2>1. CASE permit[o] = "active"
    BY <1>3, <1>5, <2>1
       DEF SuperviseTimeout, RevokeOutcome, TryRevoke, RevokedPermit
  <2>2. CASE permit[o] = "revoked"
    BY <1>3, <1>5, <2>2 DEF SuperviseTimeout, RevokeOutcome
  <2>3. CASE permit[o] \notin {"active", "revoked"}
    BY <1>3, <1>5, <2>3 DEF SuperviseTimeout, RevokeOutcome
  <2> QED
    BY <2>1, <2>2, <2>3
<1>6. CASE SuperviseShutdown(o)
  <2>1. CASE permit[o] \in {"active", "revoked"}
    BY <1>3, <1>6, <2>1
       DEF SuperviseShutdown, RevokeOutcome, TryRevoke, RevokedPermit
  <2>2. CASE permit[o] \notin {"active", "revoked"}
    BY <1>3, <1>6, <2>2 DEF SuperviseShutdown, RevokeOutcome
  <2> QED
    BY <2>1, <2>2
<1>7. CASE SuperviseCancelled(o)
  BY <1>3, <1>7 DEF SuperviseCancelled
<1>8. CASE AnswerAwaited(o)
  <2>1. CASE worker[o] = "fenced"
    BY <1>3, <1>8, <2>1 DEF AnswerAwaited
  <2>2. CASE worker[o] # "fenced"
    BY <1>3, <1>8, <2>2 DEF AnswerAwaited
  <2> QED
    BY <2>1, <2>2
<1>9. CASE CancelWorker(o)
  BY <1>1, <1>2, <1>9 DEF CancelWorker, tasks, AnswersTracked
<1>10. CASE CancelConnection(o)
  BY <1>3, <1>10 DEF CancelConnection
<1> QED
  BY <1>4, <1>5, <1>6, <1>7, <1>8, <1>9, <1>10 DEF Supervise

(* Every step keeps the answers true.                                      *)
LEMMA AnswersTrackedStep ==
  ASSUME Typed, PermitRemembers, AnswersTracked, [Next]_vars
  PROVE  AnswersTracked'
<1> USE DEF Typed, TypeOK, TasksTypeOK, FenceTypeOK
<1>1. CASE Drain \/ CaddyExits \/ Tick \/ UNCHANGED vars
  BY <1>1 DEF Drain, CaddyExits, Tick, BeginDrain, vars, fenceVars, tasks,
     AnswersTracked
<1>2. CASE Restart
  BY <1>2 DEF Restart, FenceRestart, AnswersTracked
<1>3. ASSUME NEW o \in Ops, OpNext(o) PROVE AnswersTracked'
  <2>1. CASE Submit(o) \/ SubmitCleanup(o)
    BY <2>1 DEF Submit, SubmitCleanup, Arrive, Issue, AnswersTracked, Pending
  <2>2. CASE Forget(o)
    BY <2>2 DEF Forget, Release, AnswersTracked, Pending, Permits
  <2>3. CASE BeginEdit(o) \/ BeginRegister(o) \/ FencedAtStart(o)
    <3>1. \E result \in Pending \cup {"rejected", "fenced"} :
            worker' = [worker EXCEPT ![o] = result]
      BY <2>3 DEF BeginEdit, BeginRegister, FencedAtStart, End, Pending
    <3>2. worker[o] \in Pending /\ UNCHANGED <<request, client, fenceVars>>
      BY <2>3 DEF BeginEdit, BeginRegister, FencedAtStart, End, Pending
    <3> QED
      BY <3>1, <3>2, AnswersTrackedAtError DEF fenceVars
  <2>4. CASE Heartbeat(o)
    BY <2>4 DEF Heartbeat, CommitFinal, CanCommit, AnswersTracked, Pending,
       Ended
  <2>5. CASE Commit(o)
    BY <2>5 DEF Commit, Running, End, GuardCommit, AnswersTracked, Pending,
       Ended
  <2>6. CASE Advance(o) /\ ~Commit(o)
    BY <2>6, AdvanceWithoutCommit, AnswersTrackedAtError
  <2>7. CASE Supervise(o)
    BY <2>7, AnswersTrackedBySupervisor
  <2> QED
    BY <1>3, <2>1, <2>2, <2>3, <2>4, <2>5, <2>6, <2>7 DEF OpNext, Start
<1> QED
  BY <1>1, <1>2, <1>3 DEF Next

(* What a client is told and how its worker stands always agree with what  *)
(* the fence has committed (ipc/supervision.rs, operation_fence.rs).       *)
THEOREM AnswersAlwaysTracked == Spec => []AnswersTracked
<1>1. Init => AnswersTracked
  BY DEF Init, FenceInit, AnswersTracked
<1>2. Typed /\ PermitRemembers /\ AnswersTracked /\ [Next]_vars
        => AnswersTracked'
  BY AnswersTrackedStep
<1>3. Spec => []PermitRemembers
  BY FencesRefinedThm, PermitAlwaysRemembers, PTL DEF FencesRefined
<1> QED
  BY <1>1, <1>2, <1>3, AlwaysTyped, PTL DEF Spec

(* Whoever wins the race between the worker, the request deadline, the     *)
(* drain and a lost connection, no client is told that a mutation failed   *)
(* that was published, or that one was accepted that was not               *)
(* (ipc/supervision.rs, supervise_owned_mutation_request).                 *)
THEOREM AnswersAreTruthfulThm == Spec => []AnswersAreTruthful
<1>1. PermitRemembers /\ AnswersTracked => AnswersAreTruthful
  BY DEF PermitRemembers, AnswersTracked, AnswersAreTruthful
<1>2. Spec => []PermitRemembers
  BY FencesRefinedThm, PermitAlwaysRemembers, PTL DEF FencesRefined
<1> QED
  BY <1>1, <1>2, AnswersAlwaysTracked, PTL

-----------------------------------------------------------------------------
(* Publication.                                                            *)

(* Only a heartbeat and the commit of a transaction publish anything; a    *)
(* new daemon process starts with nothing.                                 *)
LEMMA WhoPublishes ==
  ASSUME [Next]_vars
  PROVE  \/ UNCHANGED published
         \/ Restart
         \/ \E o \in Ops : Heartbeat(o) \/ Commit(o)
<1>1. CASE Drain \/ CaddyExits \/ Tick \/ UNCHANGED vars
  BY <1>1 DEF Drain, CaddyExits, Tick, vars
<1>2. ASSUME NEW o \in Ops, OpNext(o), ~Heartbeat(o), ~Commit(o)
      PROVE  UNCHANGED published
  BY <1>2 DEF OpNext, Submit, SubmitCleanup, Arrive, Start, BeginEdit,
     BeginRegister, FencedAtStart, Advance, Prepare, KeepCurrent,
     BeginRuntime, BeginRuntimeFails, FencedBeforeRuntime, Transition,
     TransitionFails, Publish, FencedBeforeCommit, Accept, AcceptFails,
     Persist, PersistFails, Rollback, RollbackFails, Supervise,
     SuperviseWorker, SuperviseTimeout, SuperviseShutdown,
     SuperviseCancelled, AnswerAwaited, CancelWorker, CancelConnection, Told,
     Forget, published
<1> QED
  BY <1>1, <1>2 DEF Next

(* The published state changes only by a mutation that commits in that     *)
(* step, and while the daemon drains only by one whose final commit had    *)
(* begun (state/registrations.rs, execute_registration_transaction).       *)
THEOREM PublishedOnlyByCommitThm == Spec => PublishedOnlyByCommit
<1> DEFINE ByCommit ==
      published' # published /\ ~Emptied =>
        \E o \in Ops :
          /\ ~committed[o] /\ committed'[o]
          /\ lifecycle.phase = "active" \/ permit[o] = "committing"
<1>1. Typed /\ AnswersTracked /\ [Next]_vars => [ByCommit]_vars
  <2> SUFFICES ASSUME Typed, AnswersTracked, [Next]_vars PROVE ByCommit
    OBVIOUS
  <2> USE DEF Typed, TypeOK, FenceTypeOK
  <2>1. CASE UNCHANGED published
    BY <2>1
  <2>2. CASE Restart
    BY <2>2 DEF Restart, Emptied
  <2>3. ASSUME NEW o \in Ops, Heartbeat(o) PROVE ByCommit
    BY <2>3 DEF Heartbeat, CommitFinal, CanCommit, Admitted, AnswersTracked,
       Pending
  <2>4. ASSUME NEW o \in Ops, Commit(o) PROVE ByCommit
    BY <2>4 DEF Commit, Running, GuardCommit, AnswersTracked, Pending
  <2> QED
    BY <2>1, <2>2, <2>3, <2>4, WhoPublishes
<1> QED
  BY <1>1, AlwaysTyped, AnswersAlwaysTracked, PTL
     DEF Spec, PublishedOnlyByCommit

-----------------------------------------------------------------------------
(* Heartbeats.                                                             *)

(* The steps at which the transaction has a candidate that may still be    *)
(* published, and those after its runtime transition.                      *)
Publishing == {"publish", "accept", "persist", "commit"}
Candidates == {"begin", "transition"} \cup Publishing

(* Of two versions of the registrations, the one does not change the       *)
(* session of a registration of the other ...                              *)
SameSessions(old, new) ==
  \A i \in DOMAIN old \cap DOMAIN new : new[i].nonce = old[i].nonce

(* ... or does not take back its heartbeat.                                *)
NotBehind(old, new) ==
  \A i \in DOMAIN old \cap DOMAIN new :
    new[i].heartbeat >= old[i].heartbeat

UpTo(regs, t) == \A i \in DOMAIN regs : regs[i].heartbeat <= t

(* What makes HeartbeatNeverGoesBack inductive: no heartbeat is of the     *)
(* future, the candidate is of the same sessions, so that the merge finds  *)
(* every live heartbeat, and nothing gets between the merge and the commit.*)
HeartbeatsFollow ==
  /\ UpTo(registrations, clock) /\ UpTo(txn.registrations, clock)
  /\ step \in Candidates => SameSessions(registrations, txn.registrations)
  /\ InnerLocked => NotBehind(registrations, txn.registrations)

LEMMA EditedHeartbeats ==
  ASSUME NEW regs, IsRegistrations(regs), NEW r \in Requests,
         r.kind \in Edits, Found(regs, r), NEW t, UpTo(regs, t)
  PROVE  /\ UpTo(Edited(regs, r), t)
         /\ SameSessions(regs, Edited(regs, r))
<1>1. r.id \in DOMAIN regs /\ regs \in [DOMAIN regs -> EntrypointRegistration]
  BY DEF Found, IsRegistrations
<1> DEFINE new == Edited(regs, r)
<1>2. /\ DOMAIN new \subseteq DOMAIN regs
      /\ \A i \in DOMAIN new : /\ new[i].heartbeat = regs[i].heartbeat
                               /\ new[i].nonce = regs[i].nonce
  <2>1. CASE r.kind = "unregister"
    BY <1>1, <2>1 DEF Edited, Drop, Restrict
  <2>2. CASE r.kind = "entrypoint"
    BY <1>1, <2>2 DEF Edited, EntrypointRegistration
  <2>3. CASE r.kind = "domain"
    BY <1>1, <2>3 DEF Edited, EntrypointRegistration
  <2> QED
    BY <2>1, <2>2, <2>3 DEF Edits
<1> QED
  BY <1>2 DEF UpTo, SameSessions

LEMMA MergeHeartbeats ==
  ASSUME NEW regs, IsRegistrations(regs), NEW live, IsRegistrations(live),
         NEW t \in Nat, UpTo(regs, t), UpTo(live, t), SameSessions(live, regs)
  PROVE  /\ UpTo(MergeLiveHeartbeats(regs, live), t)
         /\ SameSessions(live, MergeLiveHeartbeats(regs, live))
         /\ NotBehind(live, MergeLiveHeartbeats(regs, live))
<1> DEFINE new == MergeLiveHeartbeats(regs, live)
<1>1. DOMAIN new = DOMAIN regs
  BY DEF MergeLiveHeartbeats
<1>2. ASSUME NEW i \in DOMAIN regs
      PROVE  /\ new[i].nonce = regs[i].nonce
             /\ new[i].heartbeat <= t
             /\ i \in DOMAIN live => new[i].heartbeat >= live[i].heartbeat
  <2>1. /\ regs[i] \in EntrypointRegistration
        /\ i \in DOMAIN live => live[i] \in EntrypointRegistration
    BY DEF IsRegistrations
  <2>2. regs[i].heartbeat \in Nat /\ regs[i].heartbeat <= t
    BY <2>1 DEF EntrypointRegistration, UpTo
  <2>3. CASE i \in DOMAIN live
    <3>1. live[i].heartbeat \in Nat /\ live[i].heartbeat <= t
      BY <2>1, <2>3 DEF EntrypointRegistration, UpTo
    <3>2. SameSession(regs, i, live)
      BY <2>3 DEF SameSession, SameSessions
    <3>3. new[i] = [regs[i] EXCEPT !.heartbeat =
                      Later(regs[i].heartbeat, live[i].heartbeat)]
      BY <3>2 DEF MergeLiveHeartbeats
    <3>4. /\ new[i].nonce = regs[i].nonce
          /\ new[i].heartbeat = Later(regs[i].heartbeat, live[i].heartbeat)
      BY <2>1, <3>3 DEF EntrypointRegistration
    <3> QED
      BY <2>2, <3>1, <3>4 DEF Later
  <2>4. CASE i \notin DOMAIN live
    BY <2>2, <2>4 DEF MergeLiveHeartbeats, SameSession
  <2> QED
    BY <2>3, <2>4
<1> QED
  BY <1>1, <1>2 DEF UpTo, SameSessions, NotBehind

LEMMA PreparedHeartbeats ==
  ASSUME Typed, HeartbeatsFollow, NEW o \in Ops, Running(o, "prepare"),
         NEW adapted, NEW hosts, Prepared(o, adapted, SentBy(request[o], hosts)),
         UNCHANGED <<published, clock>>
  PROVE  HeartbeatsFollow'
<1> DEFINE r == request[o]
           reg == Restored(stored, SentBy(r, hosts))
           candidate == Put(registrations, r.id, reg)
<1> USE DEF Typed, TypeOK
<1>1. r \in Requests /\ r.kind = "register" /\ r.id \in Ids
  BY RequestsAssumption DEF Running, OneTransaction, TasksTypeOK, Request
<1>2. SentBy(r, hosts) \in EntrypointRegistration
  BY <1>1, SentByType
<1>3. reg.nonce = r.nonce /\ reg.heartbeat = clock
  <2>1. SentBy(r, hosts).nonce = r.nonce /\ SentBy(r, hosts).heartbeat = clock
    BY DEF SentBy
  <2> QED
    BY <1>2, <2>1 DEF Restored, EntrypointRegistration
<1>4. CASE End(o, "rejected")
  BY <1>4 DEF End, NoTransaction, EmptyMap, HeartbeatsFollow, UpTo,
     Candidates, Publishing, InnerLocked, published
<1>5. CASE /\ ~DifferentOwner(registrations, r)
           /\ txn' = [registrations |-> candidate, coordinator |-> adapted]
           /\ Continue("begin")
  <2>1. UpTo(candidate, clock)
    BY <1>3 DEF HeartbeatsFollow, UpTo, Put
  <2>2. SameSessions(registrations, candidate)
    BY <1>3, <1>5 DEF SameSessions, Put, DifferentOwner
  <2> QED
    BY <1>5, <2>1, <2>2
       DEF HeartbeatsFollow, Continue, InnerLocked, published
<1> QED
  BY <1>4, <1>5 DEF Prepared

(* A step that drops the candidate, or leaves the registrations alone.     *)
LEMMA HeartbeatsFollowAtEnd ==
  ASSUME HeartbeatsFollow, NEW o, NEW result, End(o, result),
         UpTo(registrations', clock), UNCHANGED clock
  PROVE  HeartbeatsFollow'
BY DEF End, NoTransaction, EmptyMap, HeartbeatsFollow, UpTo, Candidates,
   Publishing, InnerLocked

(* Every step of a transaction keeps the heartbeats of its candidate.      *)
LEMMA HeartbeatsFollowAdvance ==
  ASSUME Typed, HeartbeatsFollow, NEW o \in Ops, Advance(o)
  PROVE  HeartbeatsFollow'
<1> USE DEF Typed, TypeOK, TransactionTypeOK
<1>0. ASSUME UNCHANGED <<published, clock>>,
             txn'.registrations = txn.registrations,
             step' \in Candidates => step \in Candidates,
             InnerLocked' => InnerLocked
      PROVE  HeartbeatsFollow'
  BY <1>0 DEF HeartbeatsFollow, published
<1>1. CASE Prepare(o)
  <2>1. CASE End(o, "rejected")
    BY <1>1, <2>1, HeartbeatsFollowAtEnd DEF Prepare, published,
       HeartbeatsFollow
  <2> QED
    BY <1>1, <2>1, PreparedHeartbeats DEF Prepare
<1>2. CASE KeepCurrent(o) \/ BeginRuntime(o) \/ Transition(o)
  <2>1. \A c : [txn EXCEPT !.coordinator = c].registrations
                = txn.registrations
    BY TransactionUpdate
  <2>2. txn'.registrations = txn.registrations
    <3>1. CASE KeepCurrent(o)
      BY <2>1, <3>1 DEF KeepCurrent
    <3>2. CASE BeginRuntime(o)
      BY <2>1, <3>2 DEF BeginRuntime
    <3>3. CASE Transition(o) /\ Stopping
      BY <2>1, <3>3 DEF Transition
    <3>4. CASE Transition(o) /\ ~Stopping
      BY <2>1, <3>4 DEF Transition
    <3> QED
      BY <1>2, <3>1, <3>2, <3>3, <3>4
  <2> QED
    BY <1>0, <1>2, <2>2 DEF KeepCurrent, BeginRuntime, Transition, Running,
       Continue, Candidates, InnerLocked
<1>3. CASE Publish(o)
  <2> DEFINE merged == MergeLiveHeartbeats(txn.registrations, registrations)
  <2>1. txn'.registrations = merged
    BY <1>3, TransactionUpdate, MergeType DEF Publish
  <2>2. /\ UpTo(merged, clock)
        /\ SameSessions(registrations, merged)
        /\ NotBehind(registrations, merged)
    BY <1>3, TransactionUpdate, MergeHeartbeats
       DEF Publish, Running, HeartbeatsFollow, Candidates, Publishing
  <2> QED
    BY <1>3, <2>1, <2>2 DEF Publish, HeartbeatsFollow, published
<1>4. CASE Accept(o) \/ Persist(o)
  BY <1>0, <1>4 DEF Accept, Persist, Running, Continue, Candidates,
     Publishing, InnerLocked
<1>5. CASE \/ TransitionFails(o) \/ FencedBeforeCommit(o)
           \/ AcceptFails(o) \/ PersistFails(o)
  BY <1>0, <1>5 DEF TransitionFails, FencedBeforeCommit, AcceptFails,
     PersistFails, Fail, Candidates, Publishing, InnerLocked
<1>6. CASE \/ BeginRuntimeFails(o) \/ FencedBeforeRuntime(o)
           \/ Rollback(o) \/ RollbackFails(o)
  BY <1>6, HeartbeatsFollowAtEnd DEF BeginRuntimeFails, FencedBeforeRuntime,
     Rollback, RollbackFails, published, HeartbeatsFollow
<1>7. CASE Commit(o)
  BY <1>7, HeartbeatsFollowAtEnd DEF Commit, HeartbeatsFollow
<1> QED
  BY <1>1, <1>2, <1>3, <1>4, <1>5, <1>6, <1>7 DEF Advance

(* The heartbeat of a published registration is the time of the last call. *)
LEMMA HeartbeatMoves ==
  ASSUME Typed, HeartbeatsFollow, NEW o \in Ops, Heartbeat(o)
  PROVE  /\ DOMAIN registrations' = DOMAIN registrations
         /\ UpTo(registrations', clock)
         /\ SameSessions(registrations, registrations')
         /\ NotBehind(registrations, registrations')
<1> USE DEF Typed, TypeOK
<1>1. /\ registrations \in [DOMAIN registrations -> EntrypointRegistration]
      /\ \A i \in DOMAIN registrations :
           /\ registrations[i].heartbeat \in Nat
           /\ registrations[i].heartbeat <= clock
  BY DEF IsRegistrations, EntrypointRegistration, HeartbeatsFollow, UpTo
<1>2. CASE UNCHANGED registrations
  BY <1>1, <1>2 DEF UpTo, SameSessions, NotBehind
<1>3. CASE registrations' =
             [registrations EXCEPT ![request[o].id].heartbeat = clock]
  <2>1. /\ DOMAIN registrations' = DOMAIN registrations
        /\ \A i \in DOMAIN registrations :
             /\ registrations'[i].nonce = registrations[i].nonce
             /\ registrations'[i].heartbeat
                  \in {registrations[i].heartbeat, clock}
    BY <1>1, <1>3 DEF EntrypointRegistration
  <2> QED
    BY <1>1, <2>1 DEF UpTo, SameSessions, NotBehind
<1> QED
  BY <1>2, <1>3 DEF Heartbeat

(* Every step keeps the heartbeats in order.                               *)
LEMMA HeartbeatsFollowStep ==
  ASSUME Typed, HeartbeatsFollow, [Next]_vars
  PROVE  HeartbeatsFollow'
<1> USE DEF Typed, TypeOK
<1>1. CASE UNCHANGED <<registrations, step, txn, clock>>
  BY <1>1 DEF HeartbeatsFollow, InnerLocked
<1>2. CASE Drain \/ CaddyExits \/ UNCHANGED vars
  BY <1>1, <1>2 DEF Drain, CaddyExits, vars, published, txnVars
<1>3. CASE Tick
  <2>1. ASSUME NEW regs, IsRegistrations(regs), UpTo(regs, clock)
        PROVE  UpTo(regs, clock + 1)
    BY <2>1 DEF UpTo, IsRegistrations, EntrypointRegistration
  <2> QED
    BY <1>3, <2>1 DEF Tick, published, txnVars, HeartbeatsFollow, InnerLocked,
       TransactionTypeOK, IsTransaction
<1>4. CASE Restart
  BY <1>4 DEF Restart, HeartbeatsFollow, UpTo, EmptyMap, NoTransaction,
     Candidates, Publishing, InnerLocked
<1>5. ASSUME NEW o \in Ops, OpNext(o) PROVE HeartbeatsFollow'
  <2>1. CASE \/ Submit(o) \/ SubmitCleanup(o) \/ Supervise(o) \/ Forget(o)
             \/ FencedAtStart(o)
    BY <1>1, <2>1
       DEF Submit, SubmitCleanup, Arrive, Supervise, SuperviseWorker,
           SuperviseTimeout, SuperviseShutdown, SuperviseCancelled,
           AnswerAwaited, CancelWorker, CancelConnection, Told, Forget,
           FencedAtStart, published, txnVars
  <2>2. CASE BeginEdit(o)
    <3>1. request[o] \in Requests
      BY <2>2 DEF BeginEdit, TasksTypeOK
    <3>2. CASE Refused(registrations, request[o])
      BY <2>2, <3>2, HeartbeatsFollowAtEnd
         DEF BeginEdit, published, HeartbeatsFollow
    <3>3. CASE ~Refused(registrations, request[o])
      <4>1. /\ UpTo(Edited(registrations, request[o]), clock)
            /\ SameSessions(registrations, Edited(registrations, request[o]))
        BY <2>2, <3>1, <3>3, EditedHeartbeats
           DEF BeginEdit, Refused, HeartbeatsFollow
      <4> QED
        BY <2>2, <3>3, <4>1
           DEF BeginEdit, published, HeartbeatsFollow, InnerLocked
    <3> QED
      BY <3>2, <3>3
  <2>3. CASE BeginRegister(o)
    BY <2>3, HeartbeatsFollowAtEnd
       DEF BeginRegister, published, HeartbeatsFollow, InnerLocked,
           Candidates, Publishing
  <2>4. CASE Heartbeat(o)
    <3>1. /\ step' = step /\ txn' = txn /\ clock' = clock /\ ~InnerLocked
      BY <2>4 DEF Heartbeat, txnVars
    <3>2. step \in Candidates => SameSessions(registrations', txn.registrations)
      BY <2>4, HeartbeatMoves DEF HeartbeatsFollow, SameSessions
    <3> QED
      BY <2>4, <3>1, <3>2, HeartbeatMoves DEF HeartbeatsFollow, InnerLocked
  <2>5. CASE Advance(o)
    BY <2>5, HeartbeatsFollowAdvance
  <2> QED
    BY <1>5, <2>1, <2>2, <2>3, <2>4, <2>5 DEF OpNext, Start
<1> QED
  BY <1>2, <1>3, <1>4, <1>5 DEF Next

(* A published heartbeat never goes back, for any number of sessions and   *)
(* any interleaving of their heartbeats with the transactions, each of     *)
(* which publishes a copy that it took before its awaits                   *)
(* (state/registrations.rs, merge_live_heartbeats).                        *)
THEOREM HeartbeatNeverGoesBackThm == Spec => HeartbeatNeverGoesBack
<1>1. Init => HeartbeatsFollow
  BY DEF Init, HeartbeatsFollow, UpTo, EmptyMap, NoTransaction, Candidates,
     Publishing, InnerLocked
<1>2. Typed /\ HeartbeatsFollow /\ [Next]_vars => HeartbeatsFollow'
  BY HeartbeatsFollowStep
<1>3. Typed /\ HeartbeatsFollow /\ [Next]_vars
        => NotBehind(registrations, registrations')
  <2> SUFFICES ASSUME Typed, HeartbeatsFollow, [Next]_vars
               PROVE  NotBehind(registrations, registrations')
    OBVIOUS
  <2>1. CASE UNCHANGED published
    BY <2>1 DEF published, NotBehind, Typed, TypeOK, IsRegistrations,
       EntrypointRegistration
  <2>2. CASE Restart
    BY <2>2 DEF Restart, NotBehind, EmptyMap
  <2>3. ASSUME NEW o \in Ops, Heartbeat(o)
        PROVE  NotBehind(registrations, registrations')
    BY <2>3, HeartbeatMoves
  <2>4. ASSUME NEW o \in Ops, Commit(o)
        PROVE  NotBehind(registrations, registrations')
    BY <2>4 DEF Commit, Running, HeartbeatsFollow, InnerLocked
  <2> QED
    BY <2>1, <2>2, <2>3, <2>4, WhoPublishes
<1>4. NotBehind(registrations, registrations')
        <=> \A i \in DOMAIN registrations \cap DOMAIN registrations' :
              registrations'[i].heartbeat >= registrations[i].heartbeat
  BY DEF NotBehind
<1> QED
  BY <1>1, <1>2, <1>3, <1>4, AlwaysTyped, PTL
     DEF Spec, HeartbeatNeverGoesBack

-----------------------------------------------------------------------------
(* Routes.                                                                 *)

(* The routes of a registration serve every domain that it knows.          *)
Routed(c, regs) ==
  \A i \in DOMAIN regs \cap DOMAIN c.routes, d \in Domains :
    regs[i].domains[d] # "absent" => d \in c.routes[i]

ActivePairs(regs) ==
  {p \in (DOMAIN regs) \X Domains : Claims(regs, p[1], p[2])}

Serves(c, regs) == c.status = "applied" => c.hash = ActivePairs(regs)

(* What makes AppliedServesActiveDomains inductive: routes and domains of  *)
(* a registration are adapted together and stay together, in what is       *)
(* published and in the candidate, and from its runtime transition on the  *)
(* candidate reports what it composed.                                     *)
RoutesFollow ==
  /\ Routed(coordinator, registrations) /\ Serves(coordinator, registrations)
  /\ step \in Candidates => Routed(txn.coordinator, txn.registrations)
  /\ step \in Publishing => Serves(txn.coordinator, txn.registrations)

(* A configuration composed from such routes leaves no active domain out.  *)
LEMMA ComposeRouted ==
  ASSUME NEW c, NEW regs, Routed(c, regs)
  PROVE  Compose(c, regs) = ActivePairs(regs)
BY DEF Compose, ActivePairs, Routed, Claims

(* Pruning the coordinator and filing a result leave the routes of what is *)
(* registered alone.                                                       *)
LEMMA CoordinatorRouted ==
  ASSUME NEW c \in Coordinator, NEW regs, Routed(c, regs), NEW config
  PROVE  /\ Routed(Pruned(c, regs), regs)
         /\ Routed(FinishFailed(c), regs)
         /\ Routed(FinishIdle(c), regs)
         /\ Routed(FinishApplied(c, config), regs)
<1>1. /\ FinishFailed(c).routes = c.routes
      /\ FinishIdle(c).routes = c.routes
      /\ FinishApplied(c, config).routes = c.routes
  BY DEF FinishFailed, FinishIdle, FinishApplied, Coordinator
<1>2. Pruned(c, regs).routes
        = Restrict(c.routes, DOMAIN c.routes \cap DOMAIN regs)
  BY DEF Pruned, Coordinator
<1> QED
  BY <1>1, <1>2 DEF Routed, Restrict

LEMMA FinishReports ==
  ASSUME NEW c \in Coordinator, NEW regs
  PROVE  /\ Serves(FinishFailed(c), regs)
         /\ Serves(FinishIdle(c), regs)
         /\ Serves(FinishApplied(c, ActivePairs(regs)), regs)
BY DEF FinishFailed, FinishIdle, FinishApplied, Coordinator, Serves

(* Nor do a heartbeat and a merge change what is served.                   *)
SameDomains(old, new) ==
  /\ DOMAIN new = DOMAIN old
  /\ \A i \in DOMAIN old :
       new[i].enabled = old[i].enabled /\ new[i].domains = old[i].domains

LEMMA SameDomainsRouted ==
  ASSUME NEW c, NEW old, NEW new, SameDomains(old, new)
  PROVE  /\ Routed(c, old) => Routed(c, new)
         /\ ActivePairs(new) = ActivePairs(old)
         /\ Serves(c, old) => Serves(c, new)
         /\ Compose(c, new) = Compose(c, old)
<1>1. \A i \in DOMAIN old : \A d : Claims(new, i, d) <=> Claims(old, i, d)
  BY DEF SameDomains, Claims
<1>2. ActivePairs(new) = ActivePairs(old)
  BY <1>1 DEF SameDomains, ActivePairs
<1>3. Compose(c, new) = Compose(c, old)
  BY <1>1 DEF SameDomains, Compose
<1> QED
  BY <1>2, <1>3 DEF SameDomains, Routed, Serves

LEMMA MergeSameDomains ==
  ASSUME NEW regs, IsRegistrations(regs), NEW live
  PROVE  SameDomains(regs, MergeLiveHeartbeats(regs, live))
BY DEF MergeLiveHeartbeats, SameDomains, IsRegistrations,
   EntrypointRegistration

LEMMA HeartbeatSameDomains ==
  ASSUME NEW regs, IsRegistrations(regs), NEW i, NEW t
  PROVE  SameDomains(regs, [regs EXCEPT ![i].heartbeat = t])
BY DEF SameDomains, IsRegistrations, EntrypointRegistration

(* An edit only changes domains that the registration knows.               *)
LEMMA EditedRouted ==
  ASSUME NEW c, NEW regs, IsRegistrations(regs), NEW r \in Requests,
         r.kind \in Edits, Found(regs, r), Routed(c, regs)
  PROVE  Routed(c, Edited(regs, r))
<1> DEFINE new == Edited(regs, r)
<1>1. r.id \in DOMAIN regs /\ regs \in [DOMAIN regs -> EntrypointRegistration]
  BY DEF Found, IsRegistrations
<1>2. /\ DOMAIN new \subseteq DOMAIN regs
      /\ \A i \in DOMAIN new, d \in Domains :
           new[i].domains[d] # "absent" => regs[i].domains[d] # "absent"
  <2>1. CASE r.kind = "unregister"
    BY <1>1, <2>1 DEF Edited, Drop, Restrict
  <2>2. CASE r.kind = "entrypoint"
    BY <1>1, <2>2 DEF Edited, EntrypointRegistration
  <2>3. CASE r.kind = "domain"
    BY <1>1, <2>3 DEF Edited, EntrypointRegistration, Found
  <2> QED
    BY <2>1, <2>2, <2>3 DEF Edits
<1> QED
  BY <1>2 DEF Routed

(* What SQLite restores of a registration knows no more domains than were  *)
(* adapted.                                                                *)
LEMMA RestoredDomains ==
  ASSUME NEW reg \in EntrypointRegistration, NEW d \in Domains,
         Restored(stored, reg).domains[d] # "absent"
  PROVE  reg.domains[d] # "absent"
<1>1. CASE reg.dir \notin DOMAIN stored
  BY <1>1 DEF Restored
<1>2. CASE reg.dir \in DOMAIN stored
  BY <1>2 DEF Restored, EntrypointRegistration
<1> QED
  BY <1>1, <1>2

LEMMA PutRouted ==
  ASSUME NEW c, NEW regs, Routed(c, regs), NEW i, NEW reg, NEW new,
         DOMAIN new.routes \subseteq DOMAIN c.routes \cup {i},
         \A j \in DOMAIN new.routes \ {i} : new.routes[j] = c.routes[j],
         i \in DOMAIN new.routes =>
           \A d \in Domains :
             reg.domains[d] # "absent" => d \in new.routes[i]
  PROVE  Routed(new, Put(regs, i, reg))
BY DEF Routed, Put

LEMMA PreparedRouted ==
  ASSUME Typed, RoutesFollow, NEW o \in Ops, Prepare(o)
  PROVE  RoutesFollow'
<1> DEFINE r == request[o]
<1> USE DEF Typed, TypeOK
<1>1. /\ r \in Requests /\ r.kind = "register" /\ r.id \in Ids
      /\ UNCHANGED published
  BY RequestsAssumption DEF Prepare, Running, OneTransaction, TasksTypeOK,
     Request
<1>2. CASE End(o, "rejected")
  BY <1>1, <1>2 DEF End, RoutesFollow, Candidates, Publishing, published
<1>3. ASSUME NEW new, NEW hosts,
             Prepared(o, new, SentBy(r, hosts)), ~End(o, "rejected"),
             DOMAIN new.routes \subseteq DOMAIN coordinator.routes \cup {r.id},
             \A j \in DOMAIN new.routes \ {r.id} :
               new.routes[j] = coordinator.routes[j],
             r.id \in DOMAIN new.routes => new.routes[r.id] = hosts
      PROVE  RoutesFollow'
  <2> DEFINE reg == Restored(stored, SentBy(r, hosts))
             candidate == Put(registrations, r.id, reg)
  <2>1. SentBy(r, hosts) \in EntrypointRegistration
    BY <1>1, SentByType
  <2>2. ASSUME NEW d \in Domains, reg.domains[d] # "absent"
        PROVE  d \in hosts
    <3>1. SentBy(r, hosts).domains[d] # "absent"
      BY <2>1, <2>2, RestoredDomains
    <3> QED
      BY <3>1 DEF SentBy
  <2>3. Routed(new, candidate)
    BY <1>3, <2>2, PutRouted DEF RoutesFollow
  <2>4. /\ txn' = [registrations |-> candidate, coordinator |-> new]
        /\ step' = "begin"
    BY <1>3 DEF Prepared, Continue
  <2> QED
    BY <1>1, <2>3, <2>4 DEF RoutesFollow, Publishing, published
<1>4. ASSUME NEW hosts \in Adaptations,
             Prepared(o, Adapted(coordinator, r.id, hosts), SentBy(r, hosts)),
             ~End(o, "rejected")
      PROVE  RoutesFollow'
  <2> DEFINE new == Adapted(coordinator, r.id, hosts)
  <2>1. new.routes = Put(coordinator.routes, r.id, hosts)
    BY DEF Adapted, Coordinator
  <2>2. /\ DOMAIN new.routes \subseteq DOMAIN coordinator.routes \cup {r.id}
        /\ \A j \in DOMAIN new.routes \ {r.id} :
             new.routes[j] = coordinator.routes[j]
        /\ new.routes[r.id] = hosts
    BY <2>1 DEF Put
  <2> QED
    BY <1>3, <1>4, <2>2
<1>5. CASE /\ Prepared(o, Diagnosed(coordinator, r.id), SentBy(r, {}))
           /\ ~End(o, "rejected")
  <2> DEFINE new == Diagnosed(coordinator, r.id)
  <2>1. new.routes = Drop(coordinator.routes, r.id)
    BY DEF Diagnosed, Coordinator
  <2>2. /\ DOMAIN new.routes = DOMAIN coordinator.routes \ {r.id}
        /\ \A j \in DOMAIN new.routes : new.routes[j] = coordinator.routes[j]
    BY <2>1 DEF Drop, Restrict
  <2> QED
    BY <1>3, <1>5, <2>2
<1> QED
  BY <1>2, <1>4, <1>5 DEF Prepare

(* Every step of a transaction keeps the routes of its candidate.          *)
LEMMA RoutesFollowAdvance ==
  ASSUME Typed, RoutesFollow, NEW o \in Ops, Advance(o)
  PROVE  RoutesFollow'
<1> USE DEF Typed, TypeOK, TransactionTypeOK, RoutesFollow
<1> DEFINE regs == txn.registrations
           c == txn.coordinator
<1>0. /\ IsRegistrations(regs) /\ c \in Coordinator
      /\ \A new : /\ [txn EXCEPT !.coordinator = new].registrations = regs
                  /\ [txn EXCEPT !.coordinator = new].coordinator = new
  BY TransactionUpdate DEF IsTransaction
<1>1. CASE Prepare(o)
  BY <1>1, PreparedRouted
<1>2. CASE KeepCurrent(o)
  <2>1. /\ txn'.registrations = regs
        /\ txn'.coordinator = FinishFailed(Candidate)
    BY <1>0, <1>2 DEF KeepCurrent
  <2>2. Routed(Candidate, regs) /\ Candidate \in Coordinator
    BY <1>0, <1>2, CoordinatorRouted, PrunedType
       DEF KeepCurrent, Running, Candidates, Candidate
  <2>3. /\ Routed(FinishFailed(Candidate), regs)
        /\ Serves(FinishFailed(Candidate), regs)
    BY <2>2, CoordinatorRouted, FinishReports
  <2> QED
    BY <1>2, <2>1, <2>3 DEF KeepCurrent, published
<1>3. CASE BeginRuntime(o)
  <2>1. txn'.registrations = regs /\ txn'.coordinator = Candidate
    BY <1>0, <1>3 DEF BeginRuntime
  <2>2. Routed(Candidate, regs)
    BY <1>0, <1>3, CoordinatorRouted
       DEF BeginRuntime, Running, Candidates, Candidate
  <2> QED
    BY <1>3, <2>1, <2>2 DEF BeginRuntime, Continue, Publishing, published
<1>4. CASE Transition(o)
  <2>1. Routed(c, regs)
    BY <1>4 DEF Transition, Running, Candidates
  <2>2. Target = ActivePairs(regs)
    BY <2>1, ComposeRouted DEF Target
  <2>3. CASE Stopping
    <3>1. txn'.registrations = regs /\ txn'.coordinator = FinishIdle(c)
      BY <1>0, <1>4, <2>3 DEF Transition
    <3> QED
      BY <1>0, <1>4, <2>1, <3>1, CoordinatorRouted, FinishReports
         DEF Transition, published
  <2>4. CASE ~Stopping
    <3>1. /\ txn'.registrations = regs
          /\ txn'.coordinator = FinishApplied(c, ActivePairs(regs))
      BY <1>0, <1>4, <2>2, <2>4 DEF Transition
    <3> QED
      BY <1>0, <1>4, <2>1, <3>1, CoordinatorRouted, FinishReports
         DEF Transition, published
  <2> QED
    BY <2>3, <2>4
<1>5. CASE Publish(o)
  <2>1. /\ txn'.registrations = MergeLiveHeartbeats(regs, registrations)
        /\ txn'.coordinator = c
    BY <1>5, TransactionUpdate, MergeType DEF Publish, IsTransaction
  <2>2. SameDomains(regs, txn'.registrations)
    BY <1>0, <2>1, MergeSameDomains
  <2> QED
    BY <1>5, <2>1, <2>2, SameDomainsRouted
       DEF Publish, Running, Candidates, Publishing, published
<1>6. CASE Accept(o) \/ Persist(o)
  BY <1>6 DEF Accept, Persist, Running, Continue, Candidates, Publishing,
     published
<1>7. CASE \/ TransitionFails(o) \/ FencedBeforeCommit(o)
           \/ AcceptFails(o) \/ PersistFails(o)
  BY <1>7 DEF TransitionFails, FencedBeforeCommit, AcceptFails,
     PersistFails, Fail, Candidates, Publishing, published
<1>8. CASE \/ BeginRuntimeFails(o) \/ FencedBeforeRuntime(o)
           \/ Rollback(o) \/ RollbackFails(o)
  BY <1>8 DEF BeginRuntimeFails, FencedBeforeRuntime, Rollback,
     RollbackFails, End, Candidates, Publishing, published
<1>9. CASE Commit(o)
  BY <1>9 DEF Commit, Running, End, Candidates, Publishing
<1> QED
  BY <1>1, <1>2, <1>3, <1>4, <1>5, <1>6, <1>7, <1>8, <1>9 DEF Advance

(* Every step keeps routes and domains together.                           *)
LEMMA RoutesFollowStep ==
  ASSUME Typed, RoutesFollow, [Next]_vars
  PROVE  RoutesFollow'
<1> USE DEF Typed, TypeOK
<1>1. CASE UNCHANGED <<published, step, txn>>
  BY <1>1 DEF RoutesFollow, published
<1>2. CASE Drain \/ CaddyExits \/ Tick \/ UNCHANGED vars
  BY <1>1, <1>2 DEF Drain, CaddyExits, Tick, vars, txnVars
<1>3. CASE Restart
  BY <1>3 DEF Restart, RoutesFollow, Routed, Serves, EmptyMap,
     InitialCoordinator, Candidates, Publishing
<1>4. ASSUME NEW o \in Ops, OpNext(o) PROVE RoutesFollow'
  <2>1. CASE \/ Submit(o) \/ SubmitCleanup(o) \/ Supervise(o) \/ Forget(o)
             \/ FencedAtStart(o)
    BY <1>1, <2>1
       DEF Submit, SubmitCleanup, Arrive, Supervise, SuperviseWorker,
           SuperviseTimeout, SuperviseShutdown, SuperviseCancelled,
           AnswerAwaited, CancelWorker, CancelConnection, Told, Forget,
           FencedAtStart, txnVars
  <2>2. CASE BeginEdit(o)
    <3>1. request[o] \in Requests
      BY <2>2 DEF BeginEdit, TasksTypeOK
    <3>2. CASE Refused(registrations, request[o])
      BY <2>2, <3>2 DEF BeginEdit, End, RoutesFollow, Candidates, Publishing,
         published
    <3>3. CASE ~Refused(registrations, request[o])
      <4>1. Routed(coordinator, Edited(registrations, request[o]))
        BY <2>2, <3>1, <3>3, EditedRouted DEF BeginEdit, Refused, RoutesFollow
      <4> QED
        BY <2>2, <3>3, <4>1 DEF BeginEdit, RoutesFollow, Publishing, published
    <3> QED
      BY <3>2, <3>3
  <2>3. CASE BeginRegister(o)
    BY <2>3 DEF BeginRegister, End, RoutesFollow, Candidates, Publishing,
       published
  <2>4. CASE Heartbeat(o)
    <3>1. \/ UNCHANGED registrations
          \/ SameDomains(registrations, registrations')
      BY <2>4, HeartbeatSameDomains DEF Heartbeat
    <3>2. UNCHANGED <<coordinator, step, txn>>
      BY <2>4 DEF Heartbeat, txnVars
    <3> QED
      BY <3>1, <3>2, SameDomainsRouted DEF RoutesFollow
  <2>5. CASE Advance(o)
    BY <2>5, RoutesFollowAdvance
  <2> QED
    BY <1>4, <2>1, <2>2, <2>3, <2>4, <2>5 DEF OpNext, Start
<1> QED
  BY <1>2, <1>3, <1>4 DEF Next

(* Routes and domains of a registration always stay together               *)
(* (caddy/configuration.rs, commit_prepared_registration).                 *)
THEOREM RoutesAlwaysFollow == Spec => []RoutesFollow
<1>1. Init => RoutesFollow
  BY DEF Init, RoutesFollow, Routed, Serves, EmptyMap, InitialCoordinator,
     Candidates, Publishing
<1>2. Typed /\ RoutesFollow /\ [Next]_vars => RoutesFollow'
  BY RoutesFollowStep
<1> QED
  BY <1>1, <1>2, AlwaysTyped, PTL DEF Spec

(* While the daemon reports "applied" it routes exactly the active domains *)
(* of the enabled entrypoints, whatever was adapted, edited, restored from *)
(* SQLite or rolled back before (caddy/configuration.rs, compose_config).  *)
THEOREM AppliedServesActiveDomainsThm == Spec => []AppliedServesActiveDomains
<1>1. RoutesFollow => AppliedServesActiveDomains
  BY DEF RoutesFollow, Serves, ActivePairs, AppliedServesActiveDomains
<1> QED
  BY <1>1, RoutesAlwaysFollow, PTL

-----------------------------------------------------------------------------
(* What Caddy serves.                                                      *)

(* Nothing has touched Caddy since the last settled state.                 *)
RuntimeUntouched ==
  /\ coordinator.hash # None => effective = coordinator.hash
  /\ child = "running" => served = coordinator.hash /\ served # None

(* The receipt leads back to what is published.                            *)
ReceiptLeadsBack ==
  /\ coordinator.hash # None => receipt.previous = coordinator.hash
  /\ receipt.wasRunning => coordinator.hash # None

(* The runtime and the candidate agree with the kind of the transition.    *)
RuntimeReady ==
  CASE receipt.kind = "none"  -> txn.coordinator.hash = coordinator.hash
    [] receipt.kind = "apply" ->
         /\ txn.coordinator.hash = Target
         /\ child = "running" => served = Target
         /\ step \in {"persist", "commit"} => effective = Target
    [] receipt.kind = "stop"  ->
         txn.coordinator.hash = None /\ child # "running"

RuntimeStages ==
  /\ step \in {"idle", "prepare", "begin"} => receipt.kind = "none"
  /\ step = "transition" => receipt.kind # "none"
  /\ step \in {"begin", "transition"} =>
       txn.coordinator.hash = coordinator.hash
  /\ IF receipt.kind = "none" THEN RuntimeUntouched ELSE ReceiptLeadsBack
  /\ step \in Publishing => RuntimeReady

(* What makes RuntimeMatchesPublished inductive: at each step of a         *)
(* transaction, what Caddy, the file, the receipt and the candidate have   *)
(* to do with one another.  A daemon that gave up on a rollback drains, so *)
(* that nothing is promised of it any more.                                *)
RuntimeFollows == lifecycle.phase = "active" => RuntimeStages

(* Whoever is active was active before, unless it is a new process.        *)
LEMMA StillActive ==
  ASSUME Typed, [Next]_vars, ~Restart, lifecycle'.phase = "active"
  PROVE  lifecycle.phase = "active"
<1>1. CASE Drain \/ CaddyExits \/ Tick \/ UNCHANGED vars
  BY <1>1 DEF Drain, CaddyExits, Tick, BeginDrain, DrainedLifecycle, vars,
     fenceVars
<1>2. ASSUME NEW o \in Ops, OpNext(o), ~RollbackFails(o)
      PROVE  UNCHANGED lifecycle
  <2>1. CASE Submit(o) \/ SubmitCleanup(o) \/ Start(o) \/ Forget(o)
    BY <2>1 DEF Submit, SubmitCleanup, Arrive, Issue, Start, BeginEdit,
       BeginRegister, FencedAtStart, Heartbeat, CommitFinal, Forget, Release,
       fenceVars
  <2>2. CASE Advance(o)
    BY <1>2, <2>2 DEF Advance, Prepare, KeepCurrent, BeginRuntime,
       BeginRuntimeFails, FencedBeforeRuntime, Transition, TransitionFails,
       Publish, BeginFinalCommit, FencedBeforeCommit, Accept, AcceptFails,
       Persist, PersistFails, GuardDrop, Commit, GuardCommit, Rollback,
       fenceVars
  <2>3. CASE Supervise(o)
    BY <2>3 DEF Supervise, SuperviseWorker, SuperviseTimeout,
       SuperviseShutdown, SuperviseCancelled, AnswerAwaited, CancelWorker,
       CancelConnection, TryRevoke, Complete, fenceVars
  <2> QED
    BY <1>2, <2>1, <2>2, <2>3 DEF OpNext
<1>3. ASSUME NEW o \in Ops, RollbackFails(o)
      PROVE  FALSE
  BY <1>3 DEF RollbackFails, BeginDrain, DrainedLifecycle, Typed, TypeOK,
     FenceTypeOK
<1> QED
  BY <1>1, <1>2, <1>3 DEF Next

(* Between two transactions, and before one has asked anything of Caddy.   *)
LEMMA RuntimeStagesAtRest ==
  ASSUME RuntimeUntouched', receipt'.kind = "none",
         step' \in {"idle", "prepare", "begin"},
         step' = "begin" => txn'.coordinator.hash = coordinator'.hash
  PROVE  RuntimeStages'
BY DEF RuntimeStages, Publishing

LEMMA RuntimeStagesAtEnd ==
  ASSUME NEW o, NEW result, End(o, result), RuntimeUntouched'
  PROVE  RuntimeStages'
BY RuntimeStagesAtRest DEF End, NoReceipt

LEMMA RuntimeStagesPrepare ==
  ASSUME Typed, RuntimeStages, NEW o \in Ops, Prepare(o)
  PROVE  RuntimeStages'
<1> USE DEF Typed, TypeOK
<1>1. /\ receipt.kind = "none" /\ RuntimeUntouched
      /\ UNCHANGED <<published, caddy, disk>>
  BY DEF Prepare, Running, RuntimeStages
<1>2. RuntimeUntouched'
  BY <1>1 DEF RuntimeUntouched, published, caddy, disk
<1>3. CASE End(o, "rejected")
  BY <1>2, <1>3, RuntimeStagesAtEnd
<1>4. ASSUME NEW new, NEW reg, new.hash = coordinator.hash,
             Prepared(o, new, reg), ~End(o, "rejected")
      PROVE  RuntimeStages'
  <2>1. receipt' = receipt /\ step' = "begin" /\ txn'.coordinator = new
    BY <1>4 DEF Prepared, Continue
  <2> QED
    BY <1>1, <1>2, <1>4, <2>1, RuntimeStagesAtRest DEF published
<1>5. \A i, hosts : /\ Adapted(coordinator, i, hosts).hash = coordinator.hash
                    /\ Diagnosed(coordinator, i).hash = coordinator.hash
  BY DEF Adapted, Diagnosed, Coordinator
<1> QED
  BY <1>3, <1>4, <1>5 DEF Prepare

(* A rollback, when it succeeds, restores what is published.               *)
LEMMA RollbackRestores ==
  ASSUME Typed, RuntimeStages, NEW o \in Ops, Rollback(o)
  PROVE  RuntimeStages'
<1> USE DEF Typed, TypeOK, TransactionTypeOK, Receipt
<1>1. UNCHANGED coordinator
  BY DEF Rollback, published
<1>2. CASE receipt.kind = "none"
  <2>1. RuntimeUntouched'
    BY <1>1, <1>2 DEF Rollback, RuntimeStages, RuntimeUntouched, caddy
  <2> QED
    BY <2>1, RuntimeStagesAtEnd DEF Rollback
<1>3. CASE receipt.kind # "none"
  <2>1. /\ effective' = receipt.previous
        /\ child' = IF receipt.wasRunning THEN "running" ELSE "none"
        /\ served' = IF receipt.wasRunning THEN receipt.previous ELSE None
    BY <1>3 DEF Rollback
  <2>2. RuntimeUntouched'
    BY <1>1, <1>3, <2>1 DEF RuntimeStages, ReceiptLeadsBack, RuntimeUntouched
  <2> QED
    BY <2>2, RuntimeStagesAtEnd DEF Rollback
<1> QED
  BY <1>2, <1>3

(* Every step of a transaction keeps the stages.                           *)
LEMMA RuntimeStagesAdvance ==
  ASSUME Typed, RuntimeStages, NEW o \in Ops, Advance(o), ~RollbackFails(o)
  PROVE  RuntimeStages'
<1> USE DEF Typed, TypeOK, TransactionTypeOK
<1> DEFINE regs == txn.registrations
           c == txn.coordinator
<1>0. /\ IsRegistrations(regs) /\ c \in Coordinator
      /\ \A new : /\ [txn EXCEPT !.coordinator = new].registrations = regs
                  /\ [txn EXCEPT !.coordinator = new].coordinator = new
  BY TransactionUpdate DEF IsTransaction
<1>1. /\ Candidate \in Coordinator /\ Candidate.hash = c.hash
      /\ FinishFailed(Candidate).hash = c.hash
      /\ FinishIdle(c).hash = None
      /\ FinishApplied(c, Target).hash = Target
      /\ FinishApplied(c, Target).routes = c.routes
  BY <1>0, CandidateType DEF Candidate, Pruned, FinishFailed, FinishIdle,
     FinishApplied, Coordinator
<1>2. CASE Prepare(o)
  BY <1>2, RuntimeStagesPrepare
<1>3. CASE KeepCurrent(o)
  <2>1. /\ txn'.coordinator.hash = c.hash
        /\ UNCHANGED <<receipt, coordinator, child, served, effective>>
        /\ step = "begin" /\ step' = "publish"
    BY <1>0, <1>1, <1>3 DEF KeepCurrent, Running, Continue, published, caddy,
       disk
  <2> QED
    BY <2>1 DEF RuntimeStages, RuntimeUntouched, RuntimeReady
<1>4. CASE BeginRuntime(o)
  <2>1. /\ txn'.coordinator.hash = c.hash
        /\ step = "begin" /\ step' = "transition"
        /\ receipt'.kind \in {"apply", "stop"}
        /\ receipt'.previous = effective
        /\ receipt'.wasRunning = (child = "running")
        /\ UNCHANGED coordinator
    BY <1>0, <1>1, <1>4 DEF BeginRuntime, Running, Continue, published
  <2>2. RuntimeUntouched
    BY <2>1 DEF RuntimeStages
  <2>3. ReceiptLeadsBack'
    BY <2>1, <2>2 DEF RuntimeUntouched, ReceiptLeadsBack
  <2> QED
    BY <2>1, <2>3 DEF RuntimeStages, Publishing
<1>5. CASE BeginRuntimeFails(o) \/ FencedBeforeRuntime(o)
  <2>1. RuntimeUntouched'
    BY <1>5 DEF BeginRuntimeFails, FencedBeforeRuntime, Running,
       RuntimeStages, RuntimeUntouched, published, caddy, disk
  <2> QED
    BY <1>5, <2>1, RuntimeStagesAtEnd DEF BeginRuntimeFails,
       FencedBeforeRuntime
<1>6. CASE Transition(o)
  <2>1. /\ step = "transition" /\ step' = "publish"
        /\ UNCHANGED <<receipt, coordinator, effective>>
        /\ receipt.kind # "none" /\ ReceiptLeadsBack
    BY <1>6 DEF Transition, Running, Continue, published, disk, RuntimeStages
  <2>2. CASE Stopping
    <3>1. txn'.coordinator.hash = None /\ child' = "none"
      BY <1>0, <1>1, <1>6, <2>2 DEF Transition
    <3> QED
      BY <2>1, <2>2, <3>1 DEF RuntimeStages, ReceiptLeadsBack, RuntimeReady,
         Stopping
  <2>3. CASE ~Stopping
    <3>1. /\ txn'.coordinator = FinishApplied(c, Target)
          /\ txn'.registrations = regs
          /\ served' = Target
      BY <1>0, <1>6, <2>3 DEF Transition
    <3>2. Target' = Target
      BY <1>1, <3>1 DEF Target, Compose
    <3>3. receipt.kind = "apply"
      BY <2>1, <2>3 DEF Stopping, Receipt
    <3> QED
      BY <1>1, <2>1, <3>1, <3>2, <3>3
         DEF RuntimeStages, ReceiptLeadsBack, RuntimeReady
  <2> QED
    BY <2>2, <2>3
<1>7. CASE Publish(o)
  <2>1. /\ txn'.registrations = MergeLiveHeartbeats(regs, registrations)
        /\ txn'.coordinator = c
    BY <1>7, TransactionUpdate, MergeType DEF Publish, IsTransaction
  <2>2. Target' = Target
    BY <1>0, <2>1, MergeSameDomains, SameDomainsRouted DEF Target
  <2> QED
    BY <1>7, <2>1, <2>2 DEF Publish, Running, Continue, Publishing,
       RuntimeStages, RuntimeUntouched, ReceiptLeadsBack, RuntimeReady,
       published, caddy, disk
<1>8. CASE Accept(o)
  <2>1. /\ step = "accept" /\ step' = "persist"
        /\ UNCHANGED <<txn, receipt, coordinator, child, served>>
        /\ effective' = AcceptedFile
    BY <1>8 DEF Accept, Running, Continue, published, caddy
  <2>2. UNCHANGED Target
    BY <2>1 DEF Target
  <2>3. CASE receipt.kind = "none"
    BY <2>1, <2>2, <2>3 DEF AcceptedFile, Publishing, RuntimeStages,
       RuntimeUntouched, RuntimeReady
  <2>4. CASE receipt.kind = "apply"
    BY <2>1, <2>2, <2>4 DEF AcceptedFile, Publishing, RuntimeStages,
       ReceiptLeadsBack, RuntimeReady
  <2>5. CASE receipt.kind = "stop"
    BY <2>1, <2>2, <2>5 DEF AcceptedFile, Publishing, RuntimeStages,
       ReceiptLeadsBack, RuntimeReady
  <2> QED
    BY <2>3, <2>4, <2>5 DEF Receipt
<1>9. CASE Persist(o)
  <2>1. /\ step = "persist" /\ step' = "commit"
        /\ UNCHANGED <<txn, receipt, coordinator, child, served, effective>>
    BY <1>9 DEF Persist, Running, Continue, published, caddy
  <2>2. UNCHANGED Target
    BY <2>1 DEF Target
  <2> QED
    BY <2>1, <2>2 DEF Publishing, RuntimeStages, RuntimeUntouched,
       ReceiptLeadsBack, RuntimeReady
<1>10. CASE \/ TransitionFails(o) \/ FencedBeforeCommit(o)
            \/ AcceptFails(o) \/ PersistFails(o)
  <2>1. step' = "undo" /\ UNCHANGED <<receipt, coordinator>>
    BY <1>10 DEF TransitionFails, FencedBeforeCommit, AcceptFails,
       PersistFails, Fail, published
  <2>2. CASE receipt.kind = "none"
    <3>1. UNCHANGED <<child, served, effective>>
      BY <1>10, <2>2 DEF TransitionFails, FencedBeforeCommit, AcceptFails,
         PersistFails, Running, RuntimeStages, Publishing, caddy, disk
    <3> QED
      BY <2>1, <2>2, <3>1 DEF RuntimeStages, RuntimeUntouched, Publishing
  <2>3. CASE receipt.kind # "none"
    BY <2>1, <2>3 DEF RuntimeStages, ReceiptLeadsBack, Publishing
  <2> QED
    BY <2>2, <2>3
<1>11. CASE Commit(o)
  <2>1. /\ step = "commit" /\ RuntimeReady
        /\ coordinator' = c /\ UNCHANGED <<child, served, effective>>
    BY <1>11 DEF Commit, Running, RuntimeStages, Publishing, caddy, disk
  <2>2. RuntimeUntouched'
    <3>1. CASE receipt.kind = "none"
      BY <2>1, <3>1 DEF RuntimeReady, RuntimeStages, RuntimeUntouched
    <3>2. CASE receipt.kind = "apply"
      <4>1. Target # None
        BY AcceptedFileType, NoneAssumption
      <4> QED
        BY <2>1, <3>2, <4>1 DEF RuntimeReady, RuntimeUntouched
    <3>3. CASE receipt.kind = "stop"
      BY <2>1, <3>3 DEF RuntimeReady, RuntimeUntouched
    <3> QED
      BY <3>1, <3>2, <3>3 DEF Receipt
  <2> QED
    BY <1>11, <2>2, RuntimeStagesAtEnd DEF Commit
<1>12. CASE Rollback(o)
  BY <1>12, RollbackRestores
<1> QED
  BY <1>2, <1>3, <1>4, <1>5, <1>6, <1>7, <1>8, <1>9, <1>10, <1>11, <1>12
     DEF Advance

(* Every step keeps the stages, or drains the daemon.                      *)
LEMMA RuntimeFollowsStep ==
  ASSUME Typed, RuntimeFollows, [Next]_vars
  PROVE  RuntimeFollows'
<1> SUFFICES ASSUME lifecycle'.phase = "active" PROVE RuntimeStages'
  BY DEF RuntimeFollows
<1> USE DEF Typed, TypeOK
<1>1. CASE Restart
  <2>1. RuntimeUntouched'
    BY <1>1 DEF Restart, RuntimeUntouched, InitialCoordinator
  <2> QED
    BY <1>1, <2>1, RuntimeStagesAtRest DEF Restart, NoReceipt
<1>2. CASE ~Restart
  <2>1. RuntimeStages
    BY <1>2, StillActive DEF RuntimeFollows
  <2>2. CASE UNCHANGED <<coordinator, txnVars, caddy, effective>>
    BY <2>1, <2>2 DEF RuntimeStages, RuntimeUntouched, ReceiptLeadsBack,
       RuntimeReady, Target, txnVars, caddy
  <2>3. CASE Drain \/ Tick \/ UNCHANGED vars
    BY <2>2, <2>3 DEF Drain, Tick, vars, published, disk
  <2>4. CASE CaddyExits
    <3>1. /\ child' = "exited"
          /\ UNCHANGED <<coordinator, step, txn, receipt, effective>>
      BY <2>4 DEF CaddyExits, published, txnVars, disk
    <3>2. UNCHANGED Target
      BY <3>1 DEF Target
    <3>3. step \in Publishing => RuntimeReady'
      BY <2>1, <3>1, <3>2 DEF RuntimeStages, RuntimeReady, TransactionTypeOK,
         Receipt
    <3>4. IF receipt.kind = "none" THEN RuntimeUntouched' ELSE ReceiptLeadsBack'
      BY <2>1, <3>1 DEF RuntimeStages, RuntimeUntouched, ReceiptLeadsBack
    <3> QED
      BY <2>1, <3>1, <3>3, <3>4 DEF RuntimeStages
  <2>5. ASSUME NEW o \in Ops, OpNext(o) PROVE RuntimeStages'
    <3>1. CASE \/ Submit(o) \/ SubmitCleanup(o) \/ Supervise(o) \/ Forget(o)
               \/ FencedAtStart(o) \/ Heartbeat(o)
      BY <2>2, <3>1
         DEF Submit, SubmitCleanup, Arrive, Supervise, SuperviseWorker,
             SuperviseTimeout, SuperviseShutdown, SuperviseCancelled,
             AnswerAwaited, CancelWorker, CancelConnection, Told, Forget,
             FencedAtStart, Heartbeat, published, disk
    <3>2. CASE BeginEdit(o) \/ BeginRegister(o)
      <4>1. RuntimeUntouched' /\ receipt.kind = "none"
        BY <2>1, <3>2 DEF BeginEdit, BeginRegister, RuntimeStages,
           RuntimeUntouched, published, caddy, disk
      <4>2. CASE End(o, "rejected")
        BY <4>1, <4>2, RuntimeStagesAtEnd
      <4>3. CASE ~End(o, "rejected")
        BY <3>2, <4>1, <4>3, RuntimeStagesAtRest
           DEF BeginEdit, BeginRegister, published
      <4> QED
        BY <4>2, <4>3
    <3>3. CASE Advance(o)
      <4>1. ~RollbackFails(o)
        BY DEF RollbackFails, BeginDrain, DrainedLifecycle, FenceTypeOK
      <4> QED
        BY <2>1, <3>3, <4>1, RuntimeStagesAdvance
    <3> QED
      BY <2>5, <3>1, <3>2, <3>3 DEF OpNext, Start
  <2> QED
    BY <1>2, <2>3, <2>4, <2>5 DEF Next
<1> QED
  BY <1>1, <1>2

(* While the daemon is active, Caddy, the effective file, the receipt and  *)
(* the candidate agree at every step of every transaction                  *)
(* (runtime/process.rs and its receipts).                                  *)
THEOREM RuntimeAlwaysFollows == Spec => []RuntimeFollows
<1>1. Init => RuntimeFollows
  BY DEF Init, RuntimeFollows, RuntimeStages, RuntimeUntouched, NoReceipt,
     InitialCoordinator, Publishing
<1>2. Typed /\ RuntimeFollows /\ [Next]_vars => RuntimeFollows'
  BY RuntimeFollowsStep
<1> QED
  BY <1>1, <1>2, AlwaysTyped, PTL DEF Spec

(* Between transactions the published hash, the effective file and what    *)
(* the owned Caddy has loaded are one configuration, whichever step of     *)
(* whichever transaction failed, was fenced or was rolled back before      *)
(* (state/registrations.rs, execute_registration_transaction and           *)
(* rollback_runtime_transition).                                           *)
THEOREM RuntimeMatchesPublishedThm == Spec => []RuntimeMatchesPublished
<1>1. RuntimeFollows => RuntimeMatchesPublished
  BY DEF RuntimeFollows, RuntimeStages, RuntimeUntouched, Settled,
     RuntimeMatchesPublished
<1> QED
  BY <1>1, RuntimeAlwaysFollows, PTL

-----------------------------------------------------------------------------
(* What SQLite remembers.                                                  *)

(* SQLite holds the desired state of every directory in use.               *)
Remembers(regs) ==
  \A dir \in UsedDirs(regs) :
    dir \in DOMAIN stored /\ stored[dir] = RowOf(regs, LastInDir(regs, dir))

(* What makes StorageMatchesPublished inductive: between the write and the *)
(* commit SQLite is ahead of what is published, and holds the candidate.   *)
StorageFollows ==
  IF step = "commit"
  THEN Remembers(txn.registrations)
  ELSE Remembers(registrations)

LEMMA PersistedRemembers ==
  ASSUME NEW regs, stored' = Persisted(stored, regs)
  PROVE  \A dir \in UsedDirs(regs) :
           /\ dir \in DOMAIN stored'
           /\ stored'[dir] = RowOf(regs, LastInDir(regs, dir))
BY DEF Persisted

(* A heartbeat is no part of the desired state.                            *)
LEMMA HeartbeatRemembered ==
  ASSUME NEW regs, IsRegistrations(regs), NEW i, NEW t \in Nat,
         Remembers(regs)
  PROVE  Remembers([regs EXCEPT ![i].heartbeat = t])
<1> DEFINE new == [regs EXCEPT ![i].heartbeat = t]
<1>1. /\ DOMAIN new = DOMAIN regs
      /\ \A j \in DOMAIN regs :
           /\ new[j].dir = regs[j].dir
           /\ new[j].enabled = regs[j].enabled
           /\ new[j].domains = regs[j].domains
  BY DEF IsRegistrations, EntrypointRegistration
<1>2. UsedDirs(new) = UsedDirs(regs)
  BY <1>1 DEF UsedDirs
<1>3. IsRegistrations(new)
  <2>1. new \in [DOMAIN regs -> EntrypointRegistration]
    BY DEF IsRegistrations, EntrypointRegistration
  <2> QED
    BY <2>1, SameDomainRegistrations
<1>4. ASSUME NEW dir \in UsedDirs(regs)
      PROVE  /\ LastInDir(new, dir) = LastInDir(regs, dir)
             /\ LastInDir(regs, dir) \in DOMAIN regs
  <2>1. InDir(new, dir) = InDir(regs, dir)
    BY <1>1 DEF InDir
  <2> HIDE DEF new
  <2>2. /\ LastInDir(new, dir) \in InDir(regs, dir)
        /\ \A j \in InDir(regs, dir) : j <= LastInDir(new, dir)
    BY <1>2, <1>3, <2>1, LastInDirIsInDir
  <2>3. /\ LastInDir(regs, dir) \in InDir(regs, dir)
        /\ \A j \in InDir(regs, dir) : j <= LastInDir(regs, dir)
        /\ InDir(regs, dir) \in SUBSET Nat
    BY LastInDirIsInDir
  <2>4. LastInDir(regs, dir) \in DOMAIN regs
    BY <2>3 DEF InDir
  <2> QED
    BY <2>2, <2>3, <2>4
<1>5. \A dir \in UsedDirs(regs) :
        RowOf(new, LastInDir(new, dir)) = RowOf(regs, LastInDir(regs, dir))
  BY <1>1, <1>4 DEF RowOf
<1> QED
  BY <1>2, <1>5 DEF Remembers

(* Without late results every step keeps SQLite and the candidate in step. *)
LEMMA StorageFollowsStep ==
  ASSUME "deadline" \notin Faults, Typed, StorageFollows, [Next]_vars
  PROVE  StorageFollows'
<1> USE DEF Typed, TypeOK
<1>1. CASE UNCHANGED <<registrations, stored>> /\ step' # "commit"
           /\ step # "commit"
  BY <1>1 DEF StorageFollows, Remembers
<1>2. CASE UNCHANGED <<registrations, stored, txn, step>>
  BY <1>2 DEF StorageFollows, Remembers
<1>3. CASE Drain \/ CaddyExits \/ Tick \/ UNCHANGED vars
  BY <1>2, <1>3 DEF Drain, CaddyExits, Tick, vars, published, txnVars, disk
<1>4. CASE Restart
  BY <1>4 DEF Restart, StorageFollows, Remembers, UsedDirs, EmptyMap
<1>5. ASSUME NEW o \in Ops, OpNext(o) PROVE StorageFollows'
  <2>1. CASE \/ Submit(o) \/ SubmitCleanup(o) \/ Supervise(o) \/ Forget(o)
             \/ FencedAtStart(o)
    BY <1>2, <2>1
       DEF Submit, SubmitCleanup, Arrive, Supervise, SuperviseWorker,
           SuperviseTimeout, SuperviseShutdown, SuperviseCancelled,
           AnswerAwaited, CancelWorker, CancelConnection, Told, Forget,
           FencedAtStart, published, txnVars, disk
  <2>2. CASE BeginEdit(o) \/ BeginRegister(o)
    BY <1>1, <2>2 DEF BeginEdit, BeginRegister, End, published, disk
  <2>3. CASE Heartbeat(o)
    <3>1. step # "commit" /\ UNCHANGED <<step, stored>>
      BY <2>3 DEF Heartbeat, InnerLocked, txnVars, disk
    <3>2. Remembers([registrations EXCEPT ![request[o].id].heartbeat = clock])
      BY <3>1, HeartbeatRemembered DEF StorageFollows
    <3>3. \/ UNCHANGED registrations
          \/ registrations' =
               [registrations EXCEPT ![request[o].id].heartbeat = clock]
      BY <2>3 DEF Heartbeat
    <3> QED
      BY <3>1, <3>2, <3>3 DEF StorageFollows, Remembers
  <2>4. CASE \/ Prepare(o) \/ KeepCurrent(o) \/ BeginRuntime(o)
             \/ Transition(o) \/ Publish(o) \/ Accept(o)
    BY <1>1, <2>4 DEF Prepare, Prepared, KeepCurrent, BeginRuntime,
       Transition, Publish, Accept, Running, End, Continue, published, disk
  <2>5. CASE \/ TransitionFails(o) \/ FencedBeforeCommit(o)
             \/ AcceptFails(o) \/ PersistFails(o)
    BY <1>1, <2>5 DEF TransitionFails, FencedBeforeCommit, AcceptFails,
       PersistFails, Running, Fail, published, disk
  <2>6. CASE \/ BeginRuntimeFails(o) \/ FencedBeforeRuntime(o)
             \/ Rollback(o) \/ RollbackFails(o)
    BY <1>1, <2>6 DEF BeginRuntimeFails, FencedBeforeRuntime, Rollback,
       RollbackFails, Running, End, published, disk
  <2>7. CASE Persist(o)
    BY <2>7, PersistedRemembers DEF Persist, Continue, StorageFollows,
       Remembers
  <2>8. CASE Commit(o)
    BY <2>8 DEF Commit, Running, End, StorageFollows, Remembers, disk
  <2> QED
    BY <1>5, <2>1, <2>2, <2>3, <2>4, <2>5, <2>6, <2>7, <2>8
       DEF OpNext, Start, Advance
<1> QED
  BY <1>3, <1>4, <1>5 DEF Next

(* Between transactions SQLite holds the desired state of every directory  *)
(* in use, if no SQLite call ends after its deadline: the one fault that   *)
(* breaks it, of all those that the model has (database.rs, call and       *)
(* persist_desired_state).                                                 *)
THEOREM StorageMatchesPublishedThm ==
  ASSUME "deadline" \notin Faults
  PROVE  Spec => []StorageMatchesPublished
<1>1. Init => StorageFollows
  BY DEF Init, StorageFollows, Remembers, UsedDirs, EmptyMap
<1>2. Typed /\ StorageFollows /\ [Next]_vars => StorageFollows'
  BY StorageFollowsStep
<1>3. StorageFollows => StorageMatchesPublished
  BY DEF StorageFollows, Remembers, Settled, StorageMatchesPublished
<1> QED
  BY <1>1, <1>2, <1>3, AlwaysTyped, PTL DEF Spec

=============================================================================
