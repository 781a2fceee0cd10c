----------------------------- MODULE MCRuntime ------------------------------
EXTENDS ProcessRuntime

File(identity, digest, version) ==
  [identity |-> identity, digest |-> digest, regular |-> TRUE,
   executable |-> TRUE, version |-> version, modules |-> RequiredModules]

Caddy2 == File("caddy", 1, 2)
Caddy3 == File("caddy", 2, 3)
Caddy4 == File("caddy", 3, 4)
Shim == File("shim", 4, 2)
Absent == [File("absent", 0, 0) EXCEPT !.regular = FALSE]

Refer(file) == [given |-> TRUE, absolute |-> TRUE, file |-> file]
NoConfig == [state |-> "absent", command |-> NoReference, path |-> NoReference]

Directory(file) == [absolute |-> TRUE, programs |-> [caddy |-> file]]

(* The shim comes first on PATH, as it does after an installation.         *)
OnPath ==
  [override |-> NoReference, configs |-> <<NoConfig, NoConfig, NoConfig>>,
   path |-> <<Directory(Shim), Directory(Absent), Directory(Caddy2)>>,
   shims |-> {"shim"}]

RuntimeInstallations ==
  {OnPath, [OnPath EXCEPT !.override = Refer(Shim)],
   [OnPath EXCEPT !.override = Refer(Caddy3)]}
RuntimeUpgrades == {Caddy4}

ASSUME UpgradesAssumption == UpgradesDiffer
=============================================================================
