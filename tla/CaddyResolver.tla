--------------------------- MODULE CaddyResolver ---------------------------
(***************************************************************************)
(* Which executable the daemon takes for the real Caddy, and what it pins  *)
(* of it (caddy/resolver.rs, config.rs, caddy_path_trust.rs,               *)
(* caddy_image.rs).  Everything here is a function of the installation a   *)
(* daemon finds when it starts:                                            *)
(*                                                                         *)
(*   override  a reference from --real-caddy, or NoReference               *)
(*   configs   the portable, the user's and the system's configuration     *)
(*   path      the directories of PATH: whether the name is absolute, and  *)
(*             the program each command would name there                   *)
(*   shims     the identities of cadderd and of the shims beside it        *)
(*                                                                         *)
(* A file has an identity, so that a link to the shim is the shim.  An     *)
(* identity that cannot be compared counts as the shim's.  Versions are    *)
(* numbers; the check of the probe revision compares a constant to itself. *)
(***************************************************************************)
EXTENDS Naturals, Sequences

Sources == <<"portable", "user", "system">>

MINIMUM_CADDY_VERSION == 2
NextMajor == 3
RequiredModules == {"http", "tls"}

NoReference == [given |-> FALSE]
Failure == [ok |-> FALSE]
Found(file, source) == [ok |-> TRUE, file |-> file, source |-> source]

(* validate_caddy_executable, and the comparison with the shims.           *)
Executable(file) == file.regular /\ file.executable
IsShim(file, i) == file.identity \in i.shims
Acceptable(file, i) == Executable(file) /\ ~IsShim(file, i)

First(S) == CHOOSE n \in S : \A m \in S : n <= m

(* An explicit path must be right: nothing else is tried after it.         *)
ResolveSelected(reference, source, i) ==
  IF reference.absolute /\ Acceptable(reference.file, i)
  THEN Found(reference.file, source)
  ELSE Failure

(* A command must be one name; the first acceptable candidate on PATH is   *)
(* taken.  Relative directories and unusable candidates are passed over.   *)
Usable(directory, command, i) ==
  directory.absolute /\ Acceptable(directory.programs[command.name], i)

ResolveCommand(command, source, i) ==
  LET hits == {n \in DOMAIN i.path : Usable(i.path[n], command, i)} IN
  IF command.single /\ hits # {}
  THEN Found(i.path[First(hits)].programs[command.name], source)
  ELSE Failure

Caddy == [given |-> TRUE, name |-> "caddy", single |-> TRUE]

(* A configuration that is absent or selects nothing passes the choice on; *)
(* one that cannot be read, or selects twice, is an error.                 *)
PassesOn(c) ==
  c.state = "absent" \/ (c.state = "read" /\ ~c.command.given /\ ~c.path.given)

Configured(n, i) ==
  LET c == i.configs[n] IN
  IF c.state # "read" \/ (c.command.given /\ c.path.given) THEN Failure
  ELSE IF c.command.given THEN ResolveCommand(c.command, Sources[n], i)
  ELSE ResolveSelected(c.path, Sources[n], i)

Deciding(i) == {n \in 1..3 : ~PassesOn(i.configs[n])}

Resolve(i) ==
  IF i.override.given THEN ResolveSelected(i.override, "override", i)
  ELSE IF Deciding(i) # {} THEN Configured(First(Deciding(i)), i)
  ELSE ResolveCommand(Caddy, "PATH", i)

(* The pinned image: the resolved file, if what it says of itself will do. *)
Compatible(file) ==
  /\ MINIMUM_CADDY_VERSION <= file.version /\ file.version < NextMajor
  /\ RequiredModules \subseteq file.modules

Pin(i) ==
  IF Resolve(i).ok /\ Compatible(Resolve(i).file) THEN Resolve(i) ELSE Failure

(* Mutant: the file is known by its identity alone.                        *)
VerifiedByIdentity(pinned, file) ==
  Executable(file) /\ file.identity = pinned.identity

(* Every later spawn compares the file at the pinned path with the pin.    *)
Verified(pinned, file) ==
  /\ Executable(file)
  /\ file.identity = pinned.identity /\ file.digest = pinned.digest
=============================================================================
