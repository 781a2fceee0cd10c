\* One client after the other; deadlines, drains, crashes, denied and rejected requests,
\* frames that are too large.
CONSTANTS
  None = None
  Peers = {"same", "other-version", "other-runtime"}
  Commands = {"run", "validate", "fmt", "reload", "bogus"}
  Requests = {"query-state", "shutdown"}
  Faults = {"drain", "crash", "kill", "deadline", "reject", "deny", "large"}
SPECIFICATION FairSpec
INVARIANTS
  UsableIsClean
  ClientIsRight
PROPERTY
  GoneIsForgotten
