SPECIFICATION Spec
CONSTANTS
  n1 = n1
  n2 = n2
  d1 = d1
  d2 = d2
  a = a
  b = b
  Nonces = {n1, n2}
  Dirs = {d1, d2}
  None = None
  Ops = {o1}
  Ids = {1, 2}
  Domains = {a, b}
  MaxTick = 0
  Requests <- TransactionRequests
  Faults <- TransactionFaults
  Adaptations <- TwoAdaptations
INVARIANTS
  TypeOK
  DomainExclusive
  RuntimeMatchesPublished
  AppliedServesActiveDomains
  StorageMatchesPublished
