--------------------------- MODULE OperationFence ---------------------------
(***************************************************************************)
(* The operation fence of cadder-daemon (operation_fence.rs): one          *)
(* OperationFenceAuthority per daemon process and one OperationFence per   *)
(* mutation.  A fence lets three parties that share no lock agree on a     *)
(* mutation: the worker that wants to commit, the supervisor that may give *)
(* up on it (timeout, drain, lost client), and the daemon that starts to   *)
(* drain.                                                                  *)
(*                                                                         *)
(* An element of Ops is a slot that holds one fence at a time; "none"      *)
(* means that every clone of its fence has been dropped.  The cancellation *)
(* token of a fence is a child of the authority's token, so it is          *)
(* cancelled exactly when the permit is revoked or the daemon drains: see  *)
(* Cancelled.                                                              *)
(*                                                                         *)
(* "committed" and "verdict" are history: whether the closure given to the *)
(* final commit has run, and what the first try_revoke of the fence        *)
(* returned to its caller.                                                 *)
(***************************************************************************)
EXTENDS Integers

CONSTANT Ops

VARIABLES
  lifecycle, \* LifecycleEpoch: its number and its phase
  permit,    \* permit[o]: CommitPermitState of the fence in slot o
  epoch,     \* epoch[o]: the lifecycle number the fence was issued under
  committed, \* committed[o]: the final commit of the fence has run
  verdict    \* verdict[o]: what the first try_revoke of the fence returned

fenceVars == <<lifecycle, permit, epoch, committed, verdict>>

Permits == {"none", "active", "committing", "finalized", "revoked"}
Verdicts == {"none", "Revoked", "AlreadyRevoked", "Finalized"}

FenceTypeOK ==
  /\ lifecycle \in [number : Nat, phase : {"active", "draining"}]
  /\ permit \in [Ops -> Permits]
  /\ epoch \in [Ops -> Nat]
  /\ committed \in [Ops -> BOOLEAN]
  /\ verdict \in [Ops -> Verdicts]

-----------------------------------------------------------------------------
(* The checks that commit and begin_final_commit share, in their order.    *)
Fresh(o) == epoch[o] = lifecycle.number
Admitted(o) == lifecycle.phase = "active"

(* Mutant of CanCommit: looks at the permit alone, not at the lifecycle.   *)
CanCommitAnyEpoch(o) == permit[o] = "active"

CanCommit(o) == Fresh(o) /\ Admitted(o) /\ permit[o] = "active"

Cancelled(o) == permit[o] = "revoked" \/ lifecycle.phase = "draining"

(* Mutant of RevokeOutcome: believes that a commit in progress can still   *)
(* be revoked.                                                             *)
RevokeOutcomeOptimistic(p) ==
  CASE p \in {"active", "committing"} -> "Revoked"
    [] p = "revoked"                  -> "AlreadyRevoked"
    [] OTHER                          -> "Finalized"

(* What try_revoke answers when it finds the permit in state p.            *)
RevokeOutcome(p) ==
  CASE p = "active"  -> "Revoked"
    [] p = "revoked" -> "AlreadyRevoked"
    [] OTHER         -> "Finalized"

-----------------------------------------------------------------------------
FenceInit ==
  /\ lifecycle = [number |-> 0, phase |-> "active"]
  /\ permit = [o \in Ops |-> "none"]
  /\ epoch = [o \in Ops |-> 0]
  /\ committed = [o \in Ops |-> FALSE]
  /\ verdict = [o \in Ops |-> "none"]

Issue(o) ==
  /\ permit[o] = "none"
  /\ lifecycle.phase # "draining"
  /\ permit' = [permit EXCEPT ![o] = "active"]
  /\ epoch' = [epoch EXCEPT ![o] = lifecycle.number]
  /\ UNCHANGED <<lifecycle, committed, verdict>>

(* Mutant of DrainedLifecycle: the number stays.                           *)
DrainedLifecycleSameNumber == [lifecycle EXCEPT !.phase = "draining"]

(* Draining a daemon that already drains changes nothing.                  *)
DrainedLifecycle ==
  IF lifecycle.phase = "draining"
  THEN lifecycle
  ELSE [number |-> lifecycle.number + 1, phase |-> "draining"]

BeginDrain ==
  /\ lifecycle' = DrainedLifecycle
  /\ UNCHANGED <<permit, epoch, committed, verdict>>

RevokedPermit(p) == IF p = "active" THEN "revoked" ELSE p

TryRevoke(o) ==
  /\ permit[o] # "none"
  /\ permit' = [permit EXCEPT ![o] = RevokedPermit(@)]
  /\ verdict' = [verdict EXCEPT ![o] =
                   IF @ = "none" THEN RevokeOutcome(permit[o]) ELSE @]
  /\ UNCHANGED <<lifecycle, epoch, committed>>

(* Mutant of Complete: finalizes whatever the permit was.                  *)
CompleteAlways(o) ==
  /\ permit[o] # "none"
  /\ permit' = [permit EXCEPT ![o] = "finalized"]
  /\ UNCHANGED <<lifecycle, epoch, committed, verdict>>

Complete(o) ==
  /\ permit[o] # "none"
  /\ permit' = [permit EXCEPT ![o] = IF @ = "active" THEN "finalized" ELSE @]
  /\ UNCHANGED <<lifecycle, epoch, committed, verdict>>

BeginFinalCommit(o) ==
  /\ CanCommit(o)
  /\ permit' = [permit EXCEPT ![o] = "committing"]
  /\ UNCHANGED <<lifecycle, epoch, committed, verdict>>

(* FinalCommitGuard::commit.                                               *)
GuardCommit(o) ==
  /\ permit[o] = "committing"
  /\ permit' = [permit EXCEPT ![o] = "finalized"]
  /\ committed' = [committed EXCEPT ![o] = TRUE]
  /\ UNCHANGED <<lifecycle, epoch, verdict>>

(* FinalCommitGuard::drop without a commit.                                *)
GuardDrop(o) ==
  /\ permit[o] = "committing"
  /\ permit' = [permit EXCEPT ![o] = "revoked"]
  /\ UNCHANGED <<lifecycle, epoch, committed, verdict>>

(* commit_final: begin_final_commit and the guard's commit in one          *)
(* synchronous call.  Neither a drain nor a try_revoke that falls between  *)
(* the two can change what it does, so they are one step.                  *)
CommitFinal(o) ==
  /\ CanCommit(o)
  /\ permit' = [permit EXCEPT ![o] = "finalized"]
  /\ committed' = [committed EXCEPT ![o] = TRUE]
  /\ UNCHANGED <<lifecycle, epoch, verdict>>

(* The last clone of the fence is dropped: no guard is alive then.         *)
Release(o) ==
  /\ permit[o] \notin {"none", "committing"}
  /\ permit' = [permit EXCEPT ![o] = "none"]
  /\ epoch' = [epoch EXCEPT ![o] = 0]
  /\ committed' = [committed EXCEPT ![o] = FALSE]
  /\ verdict' = [verdict EXCEPT ![o] = "none"]
  /\ UNCHANGED lifecycle

(* A new daemon process has a new authority and none of the old fences.    *)
FenceRestart ==
  /\ lifecycle' = [number |-> 0, phase |-> "active"]
  /\ permit' = [o \in Ops |-> "none"]
  /\ epoch' = [o \in Ops |-> 0]
  /\ committed' = [o \in Ops |-> FALSE]
  /\ verdict' = [o \in Ops |-> "none"]

FenceOpNext(o) ==
  \/ Issue(o)
  \/ TryRevoke(o)
  \/ Complete(o)
  \/ BeginFinalCommit(o)
  \/ GuardCommit(o)
  \/ GuardDrop(o)
  \/ CommitFinal(o)
  \/ Release(o)

FenceNext == BeginDrain \/ FenceRestart \/ \E o \in Ops : FenceOpNext(o)

FenceSpec == FenceInit /\ [][FenceNext]_fenceVars

-----------------------------------------------------------------------------
(* A supervisor that revoked a fence tells the client that the mutation    *)
(* did not happen.  It never happens afterwards, whatever the worker is    *)
(* doing at that moment (operation_fence.rs, try_revoke and commit).       *)
RevokedNeverCommits ==
  \A o \in Ops : verdict[o] \in {"Revoked", "AlreadyRevoked"} => ~committed[o]

(* The epoch number alone fences a drained daemon: no live fence of a      *)
(* draining authority has the current number, so the Draining check of     *)
(* commit is never the one that rejects.                                   *)
DrainMakesStale ==
  \A o \in Ops :
    permit[o] # "none" => (Fresh(o) <=> lifecycle.phase = "active")

(* Once an authority drains no commit begins, and the only commits left to *)
(* happen are those whose guard was taken before.                          *)
DrainStopsNewCommits ==
  [][lifecycle.phase = "draining" =>
       \A o \in Ops :
         permit'[o] = "committing" \/ (committed'[o] /\ ~committed[o])
           => permit[o] = "committing"]_fenceVars

(* A permit that has been revoked or finalized never changes its mind      *)
(* while a clone of the fence is alive.                                    *)
DecisionIsFinal ==
  [][\A o \in Ops :
       permit[o] \in {"finalized", "revoked"}
         => permit'[o] \in {permit[o], "none"}]_fenceVars
=============================================================================
