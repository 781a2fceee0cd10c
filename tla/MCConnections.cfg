\* Two connections, one id that two sessions want; transactions and rollbacks fail,
\* request deadlines pass, the daemon shuts down and restarts at any time.
CONSTANTS
  None = None
  Stopper = Stopper
  Ops = {c1, c2}
  Ids = {i1}
  Nonces = {s1, s2}
  Faults = {"reject", "rollback", "timeout", "shutdown"}
  MaxConnections = 2
SPECIFICATION Spec
SYMMETRY ConnSymmetry
INVARIANTS
  TypeOK
  AccountedFor
  PermitCoversTasks
PROPERTY
  OwnershipRefined
