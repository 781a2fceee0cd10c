\* One project with one domain; two refreshes, or a refresh
\* and an action, may be in flight.
SPECIFICATION FairSpec
CONSTANTS
  None = None
  p = p
  x = x
  Order <- OneProject
  MaxEffects = 2
INVARIANT
  OneAction
PROPERTIES
  CatchesUp
