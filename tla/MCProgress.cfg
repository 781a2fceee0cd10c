SPECIFICATION FairSpec
CONSTANTS
  n1 = n1
  n2 = n2
  d1 = d1
  d2 = d2
  a = a
  b = b
  Nonces = {n1, n2}
  Dirs = {d1, d2}
  None = None
  Ops = {o1, o2}
  Ids = {1}
  Domains = {a}
  MaxTick = 0
  Requests <- ProgressRequests
  Faults <- ProgressFaults
  Adaptations <- OneAdaptation
PROPERTIES
  MutationsEnd
  ClientsAreAnswered
