SPECIFICATION Spec
CONSTANTS
  n1 = n1
  n2 = n2
  d1 = d1
  d2 = d2
  a = a
  b = b
  Nonces = {n1, n2}
  Dirs = {d1, d2}
  None = None
  Ops = {o1, o2}
  Ids = {1}
  Domains = {a}
  MaxTick = 1
  Requests <- RaceRequests
  Faults <- RaceFaults
  Adaptations <- OneAdaptation
SYMMETRY OpsSymmetry
INVARIANTS
  RevokedNeverCommits
  DrainMakesStale
  AnswersAreTruthful
PROPERTIES
  OwnersRefined
  PublishedOnlyByCommit
  FencesRefined
  DrainStopsNewCommits
  DecisionIsFinal
  HeartbeatNeverGoesBack
