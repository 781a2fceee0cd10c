SPECIFICATION FairSpec
CONSTANTS
  None = None
  Configs = {x, y}
  Installations <- RuntimeInstallations
  Upgrades <- RuntimeUpgrades
  Channels = {"stdout", "stderr"}
  Faults = {"spawn", "reload", "file", "system", "upgrade", "crash"}
INVARIANTS
  QuietMeansGone
  RestsAsFiled
  AdmittedIsPinned
PROPERTIES
  TransactionsEnd
