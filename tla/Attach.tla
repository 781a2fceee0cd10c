------------------------------- MODULE Attach -------------------------------
(***************************************************************************)
(* How daemons claim the one local endpoint of a runtime and how clients   *)
(* find, start, stop and restart them (ipc.rs, lib.rs, daemon_launch.rs,   *)
(* ipc_unix_security.rs, cadder-api/service.rs, cadder-shim/main.rs).      *)
(*                                                                         *)
(* A daemon is a process: it takes the advisory lock next to the socket,   *)
(* binds or finds the name taken, asks whether somebody listens there, and *)
(* reclaims a name that nobody listens to.  A socket file outlives its     *)
(* listener.  A listener accepts nothing while its daemon starts or        *)
(* drains, but the kernel queues connections for it.  A client is a        *)
(* process, too: a launcher, a restart, or a shim, which attaches, starts  *)
(* a missing daemon once and attaches again.                               *)
(*                                                                         *)
(* Attempts are not counted: a client or a losing daemon may run out of    *)
(* them whenever it waits.  What a daemon does with a connection after the *)
(* handshake is Session; how it drains is Server.                          *)
(***************************************************************************)
EXTENDS ClientErrors, Naturals, FiniteSets

CONSTANTS
  Daemons,       \* process slots for daemons
  Clients,       \* process slots for clients
  Goals,         \* what clients want: "launch", "restart", "run"
  Faults,        \* "crash", "signal", "start", "spawn", "bind", "late",
                 \* "lost"; see the actions
  Confirmations, \* DAEMON_STOP_CONFIRMATIONS
  None, Stale

ASSUME ConfirmationsAssumption == Confirmations \in Nat \ {0}
ASSUME GoalsAssumption == Goals \subseteq {"launch", "restart", "run"}
ASSUME SlotsAssumption == {None, Stale} \cap Daemons = {} /\ None # Stale

Open == [to : Daemons, at : {"queued", "accepted"}]
Connections == Open \cup {None}

ASSUME NoneAssumption == None \notin Open

VARIABLES
  daemon,    \* daemon[d]: how far the process is
  lock,      \* who holds the lock of SocketClaimGuard
  socket,    \* whose listener the socket file names, or Stale, or None
  client,    \* client[c]: where the process is
  goal,      \* goal[c]: what it was started for
  conn,      \* conn[c]: the connection it has open
  confirmed, \* confirmed[c]: stopped_confirmations of wait_for_daemon_stop
  stopped,   \* stopped[c]: the daemon that a restart has told to stop
  troubled   \* a daemon left, or a deadline or a fault hit somebody

vars ==
  <<daemon, lock, socket, client, goal, conn, confirmed, stopped, troubled>>

Claiming == {"claiming", "checking", "reclaiming", "rebinding"}
Listening == {"starting", "serving", "stopping", "draining"}
Alive == {"spawned", "losing"} \cup Claiming \cup Listening

(* The places where a client opens a connection.                           *)
Connecting == {"attach", "probe", "await", "reattach", "stop", "confirm"}

TypeOK ==
  /\ daemon \in [Daemons -> Alive \cup {"none"}]
  /\ lock \in Daemons \cup {None}
  /\ socket \in Daemons \cup {Stale, None}
  /\ client \in
       [Clients -> Connecting \cup {"none", "spawn", "ready", "failed"}]
  /\ goal \in [Clients -> Goals \cup {None}]
  /\ conn \in [Clients -> Connections]
  /\ confirmed \in [Clients -> 0..Confirmations]
  /\ stopped \in [Clients -> Daemons \cup {None}]
  /\ troubled \in BOOLEAN

Init ==
  /\ daemon = [d \in Daemons |-> "none"]
  /\ lock = None
  /\ socket \in {None, Stale}
  /\ client = [c \in Clients |-> "none"]
  /\ goal = [c \in Clients |-> None]
  /\ conn = [c \in Clients |-> None]
  /\ confirmed = [c \in Clients |-> 0]
  /\ stopped = [c \in Clients |-> None]
  /\ troubled = FALSE

clientVars == <<client, goal, conn, confirmed, stopped>>
daemonVars == <<daemon, lock, socket>>

Live(d) == d \in Daemons /\ daemon[d] \in Listening

-----------------------------------------------------------------------------
(* A daemon.                                                               *)

Becomes(d, at) == daemon' = [daemon EXCEPT ![d] = at]

(* The process ends: its lock and its listener go, its socket file stays.  *)
Gone(d) ==
  /\ Becomes(d, "none")
  /\ lock' = IF lock = d THEN None ELSE lock
  /\ socket' = IF socket = d THEN Stale ELSE socket

(* Mutant: two processes hold the lock at once.                            *)
AcquireLockShared(d) ==
  /\ daemon[d] = "spawned"
  /\ lock' = d
  /\ Becomes(d, "claiming")
  /\ UNCHANGED <<socket, clientVars, troubled>>

(* RuntimeEndpointLease::claim.                                            *)
AcquireLock(d) ==
  /\ daemon[d] = "spawned" /\ lock = None
  /\ lock' = d
  /\ Becomes(d, "claiming")
  /\ UNCHANGED <<socket, clientVars, troubled>>

Bind(d) ==
  /\ daemon[d] = "claiming"
  /\ IF socket = None
     THEN socket' = d /\ Becomes(d, "starting")
     ELSE UNCHANGED socket /\ Becomes(d, "checking")
  /\ UNCHANGED <<lock, clientVars, troubled>>

(* create binds but cannot secure the socket: the listener is dropped and  *)
(* "permission denied" is treated like a name that is taken.               *)
BindFails(d) ==
  /\ "bind" \in Faults
  /\ daemon[d] = "claiming" /\ socket = None
  /\ socket' = Stale
  /\ Becomes(d, "checking")
  /\ troubled' = TRUE
  /\ UNCHANGED <<lock, clientVars>>

(* endpoint_listener_exists; the loser's lease, and its lock, are dropped. *)
CheckListener(d) ==
  /\ daemon[d] = "checking"
  /\ IF Live(socket)
     THEN lock' = None /\ Becomes(d, "losing")
     ELSE UNCHANGED lock /\ Becomes(d, "reclaiming")
  /\ UNCHANGED <<socket, clientVars, troubled>>

RemoveStaleSocket(d) ==
  /\ daemon[d] = "reclaiming"
  /\ IF socket = None
     THEN Gone(d)
     ELSE socket' = None /\ Becomes(d, "rebinding") /\ UNCHANGED lock
  /\ UNCHANGED <<clientVars, troubled>>

Rebind(d) ==
  /\ daemon[d] = "rebinding"
  /\ IF socket = None
     THEN socket' = d /\ Becomes(d, "starting") /\ UNCHANGED lock
     ELSE Gone(d)
  /\ UNCHANGED <<clientVars, troubled>>

(* wait_for_daemon_runtime_ready: the loser leaves when it has seen the    *)
(* owner ready, or an error, or has no attempt left.  It never claims      *)
(* again.                                                                  *)
LoserLeaves(d) ==
  /\ daemon[d] = "losing"
  /\ Gone(d)
  /\ UNCHANGED <<clientVars, troubled>>

(* run_daemon: Caddy is pinned and storage opened under the lease.         *)
StartFails(d) ==
  /\ "start" \in Faults
  /\ daemon[d] = "starting"
  /\ Gone(d)
  /\ troubled' = TRUE
  /\ UNCHANGED clientVars

(* Mutant: the lock is held as long as the daemon serves.                  *)
ServeLocked(d) ==
  /\ daemon[d] = "starting"
  /\ Becomes(d, "serving")
  /\ UNCHANGED <<lock, socket, clientVars, troubled>>

(* run_until gives the lock back and accepts.                              *)
Serve(d) ==
  /\ daemon[d] = "starting"
  /\ Becomes(d, "serving")
  /\ lock' = IF lock = d THEN None ELSE lock
  /\ UNCHANGED <<socket, clientVars, troubled>>

Accept(d, c) ==
  /\ daemon[d] \in {"serving", "stopping"}
  /\ conn[c] = [to |-> d, at |-> "queued"]
  /\ conn' = [conn EXCEPT ![c].at = "accepted"]
  /\ UNCHANGED <<daemonVars, client, goal, confirmed, stopped, troubled>>

(* The loop ends: it has noticed the shutdown request, or a signal.        *)
Drain(d) ==
  /\ \/ daemon[d] = "stopping"
     \/ "signal" \in Faults /\ daemon[d] = "serving"
  /\ Becomes(d, "draining")
  /\ troubled' = TRUE
  /\ UNCHANGED <<lock, socket, clientVars>>

(* run_until returns and the listener is dropped.                          *)
Exit(d) ==
  /\ daemon[d] = "draining"
  /\ Gone(d)
  /\ UNCHANGED <<clientVars, troubled>>

Crash(d) ==
  /\ "crash" \in Faults
  /\ daemon[d] \in Alive
  /\ Gone(d)
  /\ troubled' = TRUE
  /\ UNCHANGED clientVars

OwnStep(d) ==
  \/ AcquireLock(d) \/ Bind(d) \/ CheckListener(d) \/ RemoveStaleSocket(d)
  \/ Rebind(d) \/ Serve(d) \/ LoserLeaves(d)
  \/ daemon[d] = "stopping" /\ Drain(d)
  \/ Exit(d)

-----------------------------------------------------------------------------
(* A client.                                                               *)

Connected == NoError
Unavailable == ConnectionError("ConnectionRefused")

Fresh(d) ==
  /\ daemon[d] = "none"
  /\ \A c \in Clients : stopped[c] # d /\ (conn[c] # None => conn[c].to # d)

(* What ensure_daemon_running makes of one connection attempt.             *)
AfterProbe(c, result) ==
  CASE result = Connected -> IF goal[c] = "run" THEN "reattach" ELSE "ready"
    [] NotReadyYet(result) ->
         IF client[c] = "probe" THEN "spawn" ELSE "await"
    [] OTHER -> "failed"

(* What open_managed_run_target makes of its two attempts.                 *)
AfterAttach(c, result) ==
  CASE result = Connected -> "ready"
    [] client[c] = "attach" /\ IsDaemonUnavailable(result) -> "probe"
    [] OTHER -> "failed"

(* One attempt of c ends with a result, and its connection with it.        *)
AttemptEnds(c, result) ==
  /\ client[c] \in {"attach", "reattach", "probe", "await"}
  /\ client' = [client EXCEPT ![c] =
       IF client[c] \in {"attach", "reattach"}
       THEN AfterAttach(c, result) ELSE AfterProbe(c, result)]
  /\ UNCHANGED <<confirmed, stopped>>

(* stop_daemon: whatever goes wrong, the restart ends.                     *)
StopEnds(c, result) ==
  /\ client[c] = "stop"
  /\ client' = [client EXCEPT ![c] = IF result = Connected THEN "confirm" ELSE "failed"]
  /\ stopped' = [stopped EXCEPT ![c] = IF result = Connected THEN conn[c].to ELSE None]
  /\ confirmed' = [confirmed EXCEPT ![c] = 0]

(* Mutant: a restart that is told so by an answer takes the daemon to have *)
(* stopped.                                                                *)
ConfirmEndsEarly(c, result) ==
  /\ client[c] = "confirm"
  /\ client' = [client EXCEPT ![c] = "probe"]
  /\ UNCHANGED <<confirmed, stopped>>

(* wait_for_daemon_stop: one query of its loop.                            *)
ConfirmEnds(c, result) ==
  LET count == IF result = Connected THEN 0 ELSE confirmed[c] + 1
  IN /\ client[c] = "confirm"
     /\ IF result = Connected \/ SaysStopped(result)
        THEN /\ confirmed' = [confirmed EXCEPT ![c] = count]
             /\ client' = [client EXCEPT ![c] =
                             IF count = Confirmations THEN "probe" ELSE "confirm"]
             /\ UNCHANGED stopped
        ELSE /\ client' = [client EXCEPT ![c] = "failed"]
             /\ UNCHANGED <<confirmed, stopped>>

Ends(c, result) ==
  /\ AttemptEnds(c, result) \/ StopEnds(c, result) \/ ConfirmEnds(c, result)
  /\ conn' = [conn EXCEPT ![c] = None]
  /\ UNCHANGED goal

Begin(c) ==
  /\ client[c] = "none"
  /\ \E g \in Goals :
       /\ goal' = [goal EXCEPT ![c] = g]
       /\ client' = [client EXCEPT ![c] =
            CASE g = "launch" -> "probe"
              [] g = "restart" -> "stop"
              [] g = "run" -> "attach"]
  /\ UNCHANGED <<daemonVars, conn, confirmed, stopped, troubled>>

(* Stream::connect: at once an error, or a place in the listener's queue.  *)
Connect(c) ==
  /\ client[c] \in Connecting /\ conn[c] = None
  /\ IF Live(socket)
     THEN /\ conn' = [conn EXCEPT ![c] = [to |-> socket, at |-> "queued"]]
          /\ UNCHANGED <<client, goal, confirmed, stopped>>
     ELSE Ends(c, Unavailable)
  /\ UNCHANGED <<daemonVars, troubled>>

(* The handshake is done.  It is all that an attach or a probe wants; a    *)
(* drain does not stop it, but it turns a request down.                    *)
Answer(c) ==
  /\ conn[c] # None /\ conn[c].at = "accepted"
  /\ LET d == conn[c].to
         asks == client[c] \in {"stop", "confirm"}
         refused == asks /\ daemon[d] = "draining"
     IN /\ daemon[d] \in {"serving", "stopping", "draining"}
        /\ Ends(c, IF refused THEN ShuttingDown ELSE Connected)
        /\ daemon' = IF client[c] = "stop" /\ daemon[d] = "serving"
                     THEN [daemon EXCEPT ![d] = "stopping"] ELSE daemon
        /\ troubled' = (troubled \/ client[c] = "stop")
  /\ UNCHANGED <<lock, socket>>

(* The shutdown request took effect, but its answer is lost.               *)
StopAnswerLost(c) ==
  /\ "lost" \in Faults
  /\ client[c] = "stop"
  /\ conn[c] # None /\ conn[c].at = "accepted"
  /\ daemon[conn[c].to] = "serving"
  /\ Becomes(conn[c].to, "stopping")
  /\ Ends(c, ResponseEof("shutdown"))
  /\ troubled' = TRUE
  /\ UNCHANGED <<lock, socket>>

(* The connect deadline passes while nobody accepts.  "late": also while   *)
(* somebody does; but a daemon that was told to stop notices it in time.   *)
DeadlinePasses(c) ==
  /\ conn[c] # None /\ conn[c].at = "queued"
  /\ \/ daemon[conn[c].to] \in {"starting", "draining"}
     \/ "late" \in Faults /\ daemon[conn[c].to] = "serving"
  /\ troubled' = (troubled \/ daemon[conn[c].to] = "serving")
  /\ Ends(c, ConnectionTimeout)
  /\ UNCHANGED daemonVars

(* The daemon of an open connection is gone, or its drain ends the handler *)
(* before the handshake: a reset or an end of file, depending on how far   *)
(* the client was.                                                         *)
ConnectionDies(c) ==
  /\ conn[c] # None
  /\ \/ ~Live(conn[c].to)
     \/ conn[c].at = "accepted" /\ daemon[conn[c].to] = "draining"
  /\ \E result \in {Unavailable, HandshakeReadError, HandshakeEof} :
       Ends(c, result)
  /\ UNCHANGED <<daemonVars, troubled>>

(* ensure_daemon_running starts a daemon; the child may not start.         *)
Spawn(c) ==
  /\ client[c] = "spawn"
  /\ \E d \in Daemons : Fresh(d) /\ Becomes(d, "spawned")
  /\ client' = [client EXCEPT ![c] = "await"]
  /\ UNCHANGED <<lock, socket, goal, conn, confirmed, stopped, troubled>>

SpawnFails(c) ==
  /\ "spawn" \in Faults
  /\ client[c] = "spawn"
  /\ client' = [client EXCEPT ![c] = "failed"]
  /\ troubled' = TRUE
  /\ UNCHANGED <<daemonVars, goal, conn, confirmed, stopped>>

(* The last attempt of a wait failed.                                      *)
RunsOut(c) ==
  /\ "late" \in Faults
  /\ client[c] \in {"await", "confirm"} /\ conn[c] = None
  /\ client' = [client EXCEPT ![c] = "failed"]
  /\ troubled' = TRUE
  /\ UNCHANGED <<daemonVars, goal, conn, confirmed, stopped>>

(* The client process ends with the session, or the error, it has got.     *)
Leave(c) ==
  /\ client[c] \in {"ready", "failed"}
  /\ client' = [client EXCEPT ![c] = "none"]
  /\ goal' = [goal EXCEPT ![c] = None]
  /\ stopped' = [stopped EXCEPT ![c] = None]
  /\ confirmed' = [confirmed EXCEPT ![c] = 0]
  /\ UNCHANGED <<daemonVars, conn, troubled>>

ClientStep(c) ==
  \/ Connect(c) \/ Answer(c) \/ DeadlinePasses(c) \/ ConnectionDies(c)
  \/ Spawn(c)

-----------------------------------------------------------------------------
DaemonNext ==
  \E d \in Daemons :
    \/ AcquireLock(d) \/ Bind(d) \/ BindFails(d) \/ CheckListener(d)
    \/ RemoveStaleSocket(d) \/ Rebind(d) \/ LoserLeaves(d) \/ StartFails(d)
    \/ Serve(d) \/ Drain(d) \/ Exit(d) \/ Crash(d)
    \/ \E c \in Clients : Accept(d, c)

ClientNext ==
  \E c \in Clients :
    \/ Begin(c) \/ ClientStep(c) \/ StopAnswerLost(c) \/ SpawnFails(c)
    \/ RunsOut(c) \/ Leave(c)

Next == DaemonNext \/ ClientNext

Spec == Init /\ [][Next]_vars

(* The lock is given to one waiter after the other, the queue of a socket  *)
(* is a queue, and processes run.                                          *)
Fairness ==
  /\ \A d \in Daemons : WF_vars(OwnStep(d)) /\ SF_vars(AcquireLock(d))
  /\ \A c \in Clients : WF_vars(ClientStep(c))
  /\ \A d \in Daemons, c \in Clients : WF_vars(Accept(d, c))

FairSpec == Spec /\ Fairness

-----------------------------------------------------------------------------
(* Whoever has a listener has the name: no claim, however it overlaps with *)
(* another one, with a crash or with a daemon that starts or drains,       *)
(* unlinks or replaces the socket of a daemon that still listens (claim).  *)
OwnerIsReachable ==
  \A d \in Daemons : daemon[d] \in Listening => socket = d

(* A restart never reports success with the daemon that it has stopped,    *)
(* although that one may still accept connections when it answers and      *)
(* finishes their handshakes while it drains (restart_daemon).             *)
RestartIsFresh ==
  [][\A c \in Clients :
       goal[c] = "restart" /\ client[c] # "ready" /\ client'[c] = "ready"
         => conn[c].to # stopped[c]]_vars

(* Nobody waits for the lock for ever: its owner gives it back before it   *)
(* serves, and the kernel when it dies (SocketClaimGuard).                 *)
ClaimsEnd ==
  \A d \in Daemons : daemon[d] = "spawned" ~> daemon[d] \in {"none", "serving"}

(* A client that starts a daemon finds one, also when its own loses the    *)
(* claim to somebody else's, unless a daemon leaves, something fails, or a *)
(* deadline of a serving daemon passes (wait_for_daemon_ready).            *)
LaunchSucceeds ==
  \A c \in Clients : client[c] = "spawn" ~> client[c] = "ready" \/ troubled
=============================================================================
