-------------------------- MODULE MCRegistrations ---------------------------
EXTENDS Registrations, TLC

CONSTANTS n1, n2, d1, d2, a, b

OpsSymmetry == Permutations(Ops)

Ask(kind, id, nonce, dir, domain, on) ==
  [kind |-> kind, id |-> id, nonce |-> nonce, dir |-> dir,
   domain |-> domain, on |-> on]

Register(id, nonce, dir) == Ask("register", id, nonce, dir, a, TRUE)
Unregister(id, nonce) == Ask("unregister", id, nonce, d1, a, FALSE)
Entrypoint(id, on) == Ask("entrypoint", id, None, d1, a, on)
Domain(id, domain, on) == Ask("domain", id, None, d1, domain, on)
Beat(id, nonce) == Ask("heartbeat", id, nonce, d1, a, FALSE)

OneAdaptation == {{a}}
TwoAdaptations == {{a, b}, {b}}

(* One mutation at a time, in every order, with everything that can fail.  *)
(* Two projects, or two sessions of one project that share a row in SQLite.*)
TransactionRequests ==
  {Register(1, n1, d1), Register(2, n2, d1), Register(2, n2, d2), Unregister(1, n1),
   Entrypoint(1, FALSE), Entrypoint(1, TRUE),
   Domain(1, a, FALSE), Domain(1, a, TRUE), Unregister(2, n2),
   Entrypoint(2, FALSE), Entrypoint(2, TRUE), Domain(2, b, FALSE),
   Domain(2, b, TRUE)}
TransactionFaults ==
  {"adapt", "runtime", "file", "storage", "rollback", "caddyExit", "crash"}

(* Fewer, for a counterexample that is easy to follow.                     *)
SharedRequests ==
  {Register(1, n1, d1), Register(2, n2, d1), Register(2, n2, d2),
   Unregister(1, n1), Unregister(2, n2), Domain(1, a, FALSE), Domain(1, a, TRUE)}
DeadlineFaults == {"deadline"}

(* Two mutations and heartbeats race each other, their deadlines and the   *)
(* drain.                                                                  *)
RaceRequests ==
  {Register(1, n1, d1), Register(1, n2, d1), Unregister(1, n1), Beat(1, n1)}
RaceFaults == {"storage", "timeout", "disconnect", "drain"}

ProgressRequests == {Register(1, n1, d1), Beat(1, n1)}
ProgressFaults == {"runtime", "rollback", "timeout", "drain"}
=============================================================================
