----------------------------- MODULE Ownership ------------------------------
(***************************************************************************)
(* What the registration service promises about the owners of its          *)
(* registrations, in one step per mutation (state/registrations.rs): an id *)
(* belongs to the shim session that claimed it until that session, or the  *)
(* cleanup of its connection, withdraws it.  Whatever happens to an owner, *)
(* a mutation that asks for just that commits its fence in the same step.  *)
(* Registrations implements this with transactions, Connections relies on  *)
(* it.                                                                     *)
(***************************************************************************)
EXTENDS OperationFence

CONSTANTS
  Ids,    \* registration ids
  Nonces, \* shim session nonces
  None    \* no session, no mutation

VARIABLES
  owner, \* owner[i]: the session that id i is registered to
  job    \* job[o]: the mutation that the fence in slot o is for

Unowned == [i \in Ids |-> None]

OwnershipInit == owner = Unowned

Commits(o) == job[o] # None /\ ~committed[o] /\ committed'[o]

(* register_fenced: a new registration, or the same session once more.     *)
Claim(j) ==
  /\ j.kind = "register"
  /\ owner[j.id] \in {None, j.nonce}
  /\ owner' = [owner EXCEPT ![j.id] = j.nonce]

(* unregister_fenced: only with the nonce of the session.                  *)
Withdraw(j) ==
  /\ j.kind = "unregister"
  /\ owner[j.id] = j.nonce
  /\ owner' = [owner EXCEPT ![j.id] = None]

(* Registrations are never restored as live (database.rs): the next        *)
(* process, whose fences are all new, begins without owners.               *)
ForgetOwners == FenceRestart /\ owner' = Unowned

OwnershipNext ==
  \/ ForgetOwners
  \/ \E o \in Ops : Commits(o) /\ (Claim(job[o]) \/ Withdraw(job[o]))

OwnershipSpec == OwnershipInit /\ [][OwnershipNext]_owner
=============================================================================
