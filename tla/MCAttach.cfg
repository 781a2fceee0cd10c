\* Two clients that want anything and two processes for daemons; everything may fail.
CONSTANTS
  None = None
  Stale = Stale
  Daemons = {d1, d2}
  Clients = {c1, c2}
  Goals = {"launch", "restart", "run"}
  Faults = {"crash", "signal", "start", "spawn", "bind", "late", "lost"}
  Confirmations = 3
SPECIFICATION FairSpec
INVARIANTS
  OwnerIsReachable
PROPERTIES
  RestartIsFresh
  ClaimsEnd
  LaunchSucceeds
