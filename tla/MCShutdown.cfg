\* One connection, everything that may go wrong.
CONSTANTS
  None = None
  Stopper = Stopper
  Ops = {c1}
  Ids = {i1}
  Nonces = {s1}
  Faults = {"shutdown", "reject", "rollback", "panic", "timeout", "accept", "caddyExit", "stop", "storage"}
  MaxConnections = 1
SPECIFICATION FairServerSpec
INVARIANTS
  OkMeansQuiescent
  StoppedForGood
PROPERTIES
  ConnectionsRefined
  ShutdownEnds
