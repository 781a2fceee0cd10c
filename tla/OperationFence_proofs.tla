------------------------ MODULE OperationFence_proofs -----------------------
(***************************************************************************)
(* The properties of the operation fence, for any set of mutations.        *)
(***************************************************************************)
EXTENDS OperationFence, TLAPS

(* Every reachable state of the fence has its type (operation_fence.rs).   *)
THEOREM FenceTypeCorrect == FenceSpec => []FenceTypeOK
<1>1. FenceInit => FenceTypeOK
  BY DEF FenceInit, FenceTypeOK, Permits, Verdicts
<1>2. FenceTypeOK /\ [FenceNext]_fenceVars => FenceTypeOK'
  <2> SUFFICES ASSUME FenceTypeOK, [FenceNext]_fenceVars
               PROVE  FenceTypeOK'
    OBVIOUS
  <2> USE DEF FenceTypeOK, Permits, Verdicts
  <2>1. CASE BeginDrain
    BY <2>1 DEF BeginDrain, DrainedLifecycle
  <2>2. CASE FenceRestart
    BY <2>2 DEF FenceRestart
  <2>3. ASSUME NEW o \in Ops, FenceOpNext(o) PROVE FenceTypeOK'
    <3>1. CASE Issue(o)
      BY <3>1 DEF Issue
    <3>2. CASE TryRevoke(o)
      BY <3>2 DEF TryRevoke, RevokeOutcome, RevokedPermit
    <3>3. CASE Complete(o)
      BY <3>3 DEF Complete
    <3>4. CASE BeginFinalCommit(o)
      BY <3>4 DEF BeginFinalCommit, CanCommit
    <3>5. CASE GuardCommit(o)
      BY <3>5 DEF GuardCommit
    <3>6. CASE GuardDrop(o)
      BY <3>6 DEF GuardDrop
    <3>7. CASE CommitFinal(o)
      BY <3>7 DEF CommitFinal, CanCommit
    <3>8. CASE Release(o)
      BY <3>8 DEF Release
    <3> QED
      BY <2>3, <3>1, <3>2, <3>3, <3>4, <3>5, <3>6, <3>7, <3>8 DEF FenceOpNext
  <2>4. CASE UNCHANGED fenceVars
    BY <2>4 DEF fenceVars
  <2> QED
    BY <2>1, <2>2, <2>3, <2>4 DEF FenceNext
<1> QED
  BY <1>1, <1>2, PTL DEF FenceSpec

-----------------------------------------------------------------------------
(* What makes RevokedNeverCommits inductive: the permit itself remembers   *)
(* both the commit and the verdict.                                        *)
PermitRemembers ==
  \A o \in Ops :
    /\ committed[o] => permit[o] = "finalized"
    /\ verdict[o] \in {"Revoked", "AlreadyRevoked"} => permit[o] = "revoked"
    /\ permit[o] = "none" => verdict[o] = "none"

(* One step of a fence keeps it.                                           *)
LEMMA PermitRemembersStep ==
  ASSUME FenceTypeOK, PermitRemembers, [FenceNext]_fenceVars
  PROVE  PermitRemembers'
<1> USE DEF FenceTypeOK, Permits, Verdicts, PermitRemembers
<1>1. CASE BeginDrain
  BY <1>1 DEF BeginDrain
<1>2. CASE FenceRestart
  BY <1>2 DEF FenceRestart
<1>3. ASSUME NEW o \in Ops, FenceOpNext(o) PROVE PermitRemembers'
  <2>1. CASE Issue(o)
    BY <2>1 DEF Issue
  <2>2. CASE TryRevoke(o)
    BY <2>2 DEF TryRevoke, RevokeOutcome, RevokedPermit
  <2>3. CASE Complete(o)
    BY <2>3 DEF Complete
  <2>4. CASE BeginFinalCommit(o)
    BY <2>4 DEF BeginFinalCommit, CanCommit
  <2>5. CASE GuardCommit(o)
    BY <2>5 DEF GuardCommit
  <2>6. CASE GuardDrop(o)
    BY <2>6 DEF GuardDrop
  <2>7. CASE CommitFinal(o)
    BY <2>7 DEF CommitFinal, CanCommit
  <2>8. CASE Release(o)
    BY <2>8 DEF Release
  <2> QED
    BY <1>3, <2>1, <2>2, <2>3, <2>4, <2>5, <2>6, <2>7, <2>8 DEF FenceOpNext
<1>4. CASE UNCHANGED fenceVars
  BY <1>4 DEF fenceVars
<1> QED
  BY <1>1, <1>2, <1>3, <1>4 DEF FenceNext

(* The permit of a reachable fence remembers its commit and its verdict.   *)
THEOREM PermitAlwaysRemembers == FenceSpec => []PermitRemembers
<1>1. FenceInit => PermitRemembers
  BY DEF FenceInit, PermitRemembers
<1>2. FenceTypeOK /\ PermitRemembers /\ [FenceNext]_fenceVars
        => PermitRemembers'
  BY PermitRemembersStep
<1> QED
  BY <1>1, <1>2, FenceTypeCorrect, PTL DEF FenceSpec

(* A supervisor that was told "Revoked" or "AlreadyRevoked" may tell its   *)
(* client that nothing happened: the fence has not committed and never     *)
(* will (operation_fence.rs, try_revoke and begin_final_commit).           *)
THEOREM RevokedNeverCommitsThm == FenceSpec => []RevokedNeverCommits
<1>1. PermitRemembers => RevokedNeverCommits
  BY DEF PermitRemembers, RevokedNeverCommits
<1> QED
  BY <1>1, PermitAlwaysRemembers, PTL

-----------------------------------------------------------------------------
(* The epoch number alone fences a drained daemon.                         *)
THEOREM DrainMakesStaleThm == FenceSpec => []DrainMakesStale
<1> USE DEF DrainMakesStale, Fresh
<1>1. FenceInit => DrainMakesStale
  BY DEF FenceInit
<1>2. FenceTypeOK /\ DrainMakesStale /\ [FenceNext]_fenceVars
        => DrainMakesStale'
  <2> SUFFICES ASSUME FenceTypeOK, DrainMakesStale, [FenceNext]_fenceVars
               PROVE  DrainMakesStale'
    OBVIOUS
  <2> USE DEF FenceTypeOK
  <2>1. CASE BeginDrain
    BY <2>1 DEF BeginDrain, DrainedLifecycle
  <2>2. CASE FenceRestart
    BY <2>2 DEF FenceRestart
  <2>3. ASSUME NEW o \in Ops, FenceOpNext(o) PROVE DrainMakesStale'
    <3>1. CASE Issue(o)
      BY <3>1 DEF Issue
    <3>2. CASE TryRevoke(o)
      BY <3>2 DEF TryRevoke, RevokeOutcome, RevokedPermit
    <3>3. CASE Complete(o)
      BY <3>3 DEF Complete
    <3>4. CASE BeginFinalCommit(o)
      BY <3>4 DEF BeginFinalCommit, CanCommit
    <3>5. CASE GuardCommit(o)
      BY <3>5 DEF GuardCommit
    <3>6. CASE GuardDrop(o)
      BY <3>6 DEF GuardDrop
    <3>7. CASE CommitFinal(o)
      BY <3>7 DEF CommitFinal, CanCommit
    <3>8. CASE Release(o)
      BY <3>8 DEF Release
    <3> QED
      BY <2>3, <3>1, <3>2, <3>3, <3>4, <3>5, <3>6, <3>7, <3>8 DEF FenceOpNext
  <2>4. CASE UNCHANGED fenceVars
    BY <2>4 DEF fenceVars
  <2> QED
    BY <2>1, <2>2, <2>3, <2>4 DEF FenceNext
<1> QED
  BY <1>1, <1>2, FenceTypeCorrect, PTL DEF FenceSpec

(* Once an authority drains, no commit begins and no commit happens whose  *)
(* guard was not already taken.                                            *)
THEOREM DrainStopsNewCommitsThm == FenceSpec => DrainStopsNewCommits
<1> DEFINE Stops ==
      lifecycle.phase = "draining" =>
        \A o \in Ops :
          permit'[o] = "committing" \/ (committed'[o] /\ ~committed[o])
            => permit[o] = "committing"
<1>1. FenceTypeOK /\ [FenceNext]_fenceVars => [Stops]_fenceVars
  <2> SUFFICES ASSUME FenceTypeOK, FenceNext PROVE Stops
    OBVIOUS
  <2> USE DEF FenceTypeOK
  <2>1. CASE BeginDrain
    BY <2>1 DEF BeginDrain
  <2>2. CASE FenceRestart
    BY <2>2 DEF FenceRestart
  <2>3. ASSUME NEW o \in Ops, FenceOpNext(o) PROVE Stops
    <3>1. CASE Issue(o)
      BY <3>1 DEF Issue
    <3>2. CASE TryRevoke(o)
      BY <3>2 DEF TryRevoke, RevokeOutcome, RevokedPermit
    <3>3. CASE Complete(o)
      BY <3>3 DEF Complete
    <3>4. CASE BeginFinalCommit(o)
      BY <3>4 DEF BeginFinalCommit, CanCommit, Admitted
    <3>5. CASE GuardCommit(o)
      BY <3>5 DEF GuardCommit
    <3>6. CASE GuardDrop(o)
      BY <3>6 DEF GuardDrop
    <3>7. CASE CommitFinal(o)
      BY <3>7 DEF CommitFinal, CanCommit, Admitted
    <3>8. CASE Release(o)
      BY <3>8 DEF Release
    <3> QED
      BY <2>3, <3>1, <3>2, <3>3, <3>4, <3>5, <3>6, <3>7, <3>8 DEF FenceOpNext
  <2> QED
    BY <2>1, <2>2, <2>3 DEF FenceNext
<1> QED
  BY <1>1, FenceTypeCorrect, PTL DEF FenceSpec, DrainStopsNewCommits

(* A permit that has been revoked or finalized stays so for as long as any *)
(* clone of its fence lives.                                               *)
THEOREM DecisionIsFinalThm == FenceSpec => DecisionIsFinal
<1> DEFINE Final ==
      \A o \in Ops :
        permit[o] \in {"finalized", "revoked"}
          => permit'[o] \in {permit[o], "none"}
<1>1. FenceTypeOK /\ [FenceNext]_fenceVars => [Final]_fenceVars
  <2> SUFFICES ASSUME FenceTypeOK, FenceNext PROVE Final
    OBVIOUS
  <2> USE DEF FenceTypeOK
  <2>1. CASE BeginDrain
    BY <2>1 DEF BeginDrain
  <2>2. CASE FenceRestart
    BY <2>2 DEF FenceRestart
  <2>3. ASSUME NEW o \in Ops, FenceOpNext(o) PROVE Final
    <3>1. CASE Issue(o)
      BY <3>1 DEF Issue
    <3>2. CASE TryRevoke(o)
      BY <3>2 DEF TryRevoke, RevokeOutcome, RevokedPermit
    <3>3. CASE Complete(o)
      BY <3>3 DEF Complete
    <3>4. CASE BeginFinalCommit(o)
      BY <3>4 DEF BeginFinalCommit, CanCommit
    <3>5. CASE GuardCommit(o)
      BY <3>5 DEF GuardCommit
    <3>6. CASE GuardDrop(o)
      BY <3>6 DEF GuardDrop
    <3>7. CASE CommitFinal(o)
      BY <3>7 DEF CommitFinal, CanCommit
    <3>8. CASE Release(o)
      BY <3>8 DEF Release
    <3> QED
      BY <2>3, <3>1, <3>2, <3>3, <3>4, <3>5, <3>6, <3>7, <3>8 DEF FenceOpNext
  <2> QED
    BY <2>1, <2>2, <2>3 DEF FenceNext
<1> QED
  BY <1>1, FenceTypeCorrect, PTL DEF FenceSpec, DecisionIsFinal
=============================================================================
