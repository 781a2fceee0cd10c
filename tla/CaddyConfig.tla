---------------------------- MODULE CaddyConfig -----------------------------
(***************************************************************************)
(* The pure part of cadder-daemon: what a set of entrypoint registrations  *)
(* means for Caddy (caddy/configuration.rs), when it is admissible         *)
(* (state/registrations.rs), and what SQLite remembers of it (database.rs). *)
(*                                                                         *)
(* A registration is what one shim session owns: a project directory, an   *)
(* activation, and the domains that its Caddyfile was adapted to, each     *)
(* with an activation.  A BTreeMap keyed by registration id is a function  *)
(* whose domain is a subset of Ids.  The rendered JSON that is hashed,     *)
(* staged and loaded is abstracted to the set of <<registration, host>>    *)
(* pairs it routes: two configurations that differ route different pairs.  *)
(***************************************************************************)
EXTENDS Naturals, FiniteSets, Functions

CONSTANTS
  Ids,     \* registration ids, ordered as the BTreeMap orders them
  Nonces,  \* shim session nonces
  Dirs,    \* source working directories, the keys of the entrypoints table
  Domains, \* canonical host names
  None     \* an absent configuration, hash, file or nonce

Configs == SUBSET (Ids \X Domains)

ASSUME IdsAssumption == Ids \subseteq Nat
ASSUME NoneAssumption == \A config \in Configs : config # None

Activation == {"absent", "active", "inactive"}

EntrypointRegistration ==
  [nonce     : Nonces,
   dir       : Dirs,
   enabled   : BOOLEAN,
   domains   : [Domains -> Activation],
   heartbeat : Nat]

(* The maps with keys in S and values in T.                                *)
Maps(S, T) == UNION {[keys -> T] : keys \in SUBSET S}

IsRegistrations(regs) ==
  /\ DOMAIN regs \subseteq Ids
  /\ regs \in [DOMAIN regs -> EntrypointRegistration]
  /\ IsFiniteSet(DOMAIN regs)

(* BTreeMap::insert.                                                       *)
Put(f, key, value) ==
  [k \in DOMAIN f \cup {key} |-> IF k = key THEN value ELSE f[k]]

(* BTreeMap::remove.                                                       *)
Drop(f, key) == Restrict(f, DOMAIN f \ {key})

EmptyMap == [k \in {} |-> None]

(* Mutant of Activate: a state that ActivationState does not have.         *)
ActivateUnknown(on) == IF on THEN "active" ELSE "disabled"

Activate(on) == IF on THEN "active" ELSE "inactive"

-----------------------------------------------------------------------------
(* Ownership of domains.                                                   *)

Claims(regs, i, d) == regs[i].enabled /\ regs[i].domains[d] = "active"

(* active_domain_ownership_conflict finds an owner other than i.           *)
Conflict(regs, i) ==
  \E d \in Domains :
    /\ Claims(regs, i, d)
    /\ \E j \in DOMAIN regs \ {i} : Claims(regs, j, d)

(* detect_conflicts finds nothing.                                         *)
Exclusive(regs) ==
  \A i, j \in DOMAIN regs, d \in Domains :
    Claims(regs, i, d) /\ Claims(regs, j, d) => i = j

-----------------------------------------------------------------------------
(* The coordinator: the adapted routes of each registration, those whose   *)
(* adaptation failed, and the published ConfigState.                       *)

Coordinator ==
  [routes    : Maps(Ids, SUBSET Domains),
   diagnosed : SUBSET Ids,
   status    : {"idle", "applied", "failed"},
   hash      : {None} \cup Configs]

InitialCoordinator ==
  [routes |-> EmptyMap, diagnosed |-> {}, status |-> "idle", hash |-> None]

(* commit_prepared_registration, for an adaptation that found hosts ...    *)
Adapted(c, i, hosts) ==
  [c EXCEPT !.routes = Put(c.routes, i, hosts),
            !.diagnosed = @ \ {i}]

(* ... and for one that failed.                                            *)
Diagnosed(c, i) ==
  [c EXCEPT !.routes = Drop(c.routes, i),
            !.diagnosed = @ \cup {i},
            !.status = "failed"]

(* The first part of begin_apply: forget what is no longer registered.     *)
Pruned(c, regs) ==
  [c EXCEPT !.routes = Restrict(c.routes, DOMAIN c.routes \cap DOMAIN regs),
            !.diagnosed = @ \cap DOMAIN regs]

(* begin_apply returns Current: an enabled registration has a diagnostic.  *)
Blocked(c, regs) ==
  \/ \E i \in c.diagnosed \cap DOMAIN regs : regs[i].enabled
  \/ ~Exclusive(regs)

(* begin_apply returns Stop: no enabled registration has an active domain. *)
NothingToServe(regs) ==
  \A i \in DOMAIN regs, d \in Domains : ~Claims(regs, i, d)

(* compose_config: the adapted routes restricted to the active domains, or *)
(* a placeholder for each of them when the registration has no routes.     *)
Compose(c, regs) ==
  {p \in (DOMAIN regs) \X Domains :
     /\ Claims(regs, p[1], p[2])
     /\ p[1] \in DOMAIN c.routes => p[2] \in c.routes[p[1]]}

FinishFailed(c) == [c EXCEPT !.status = "failed"]
FinishIdle(c) == [c EXCEPT !.status = "idle", !.hash = None]
FinishApplied(c, config) == [c EXCEPT !.status = "applied", !.hash = config]

-----------------------------------------------------------------------------
(* Desired state in SQLite: one entrypoints row per directory, its domains *)
(* rows beside it.                                                         *)

Row ==
  [id : Ids, enabled : BOOLEAN, domains : [Domains -> Activation]]

DesiredState == Maps(Dirs, Row)

InDir(regs, dir) == {i \in DOMAIN regs : regs[i].dir = dir}

RowOf(regs, i) ==
  [id |-> i, enabled |-> regs[i].enabled, domains |-> regs[i].domains]

(* persist_desired_state upserts in the order of the ids, so that the last *)
(* registration of a directory wins.                                       *)
LastInDir(regs, dir) ==
  CHOOSE i \in InDir(regs, dir) : \A j \in InDir(regs, dir) : j <= i

UsedDirs(regs) == {regs[i].dir : i \in DOMAIN regs}

Persisted(stored, regs) ==
  [dir \in DOMAIN stored \cup UsedDirs(regs) |->
     IF dir \in UsedDirs(regs)
     THEN RowOf(regs, LastInDir(regs, dir))
     ELSE stored[dir]]

(* The upsert of i meets registration_id UNIQUE: the row of another        *)
(* directory still holds i when its turn comes.                            *)
UniqueViolated(stored, regs) ==
  \E i \in DOMAIN regs, dir \in DOMAIN stored :
    /\ regs[i].dir # dir
    /\ stored[dir].id = i
    /\ \A j \in InDir(regs, dir) : j > i

(* restore_desired_state: what SQLite knows of the directory overrides the *)
(* activation that the client sent, domain by domain.                      *)
Restored(stored, reg) ==
  IF reg.dir \notin DOMAIN stored
  THEN reg
  ELSE [reg EXCEPT
          !.enabled = stored[reg.dir].enabled,
          !.domains = [d \in Domains |->
             IF "absent" \in {reg.domains[d], stored[reg.dir].domains[d]}
             THEN reg.domains[d]
             ELSE stored[reg.dir].domains[d]]]

-----------------------------------------------------------------------------
(* merge_live_heartbeats.                                                  *)
Later(s, t) == IF s >= t THEN s ELSE t

SameSession(regs, i, live) ==
  i \in DOMAIN live /\ live[i].nonce = regs[i].nonce

(* Mutant of MergeLiveHeartbeats: publishes the copies as they are.        *)
MergeNothing(regs, live) == regs

MergeLiveHeartbeats(regs, live) ==
  [i \in DOMAIN regs |->
     IF SameSession(regs, i, live)
     THEN [regs[i] EXCEPT !.heartbeat = Later(@, live[i].heartbeat)]
     ELSE regs[i]]
=============================================================================
