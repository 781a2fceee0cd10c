\* Two connections of one session, whose mutations may fail in every way.
CONSTANTS
  None = None
  Stopper = Stopper
  Ops = {c1, c2}
  Ids = {i1}
  Nonces = {s1}
  Faults = {"reject", "timeout", "panic"}
  MaxConnections = 2
SPECIFICATION FairSpec
PROPERTY
  LostConnectionsAreCleaned
