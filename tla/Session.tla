------------------------------ MODULE Session -------------------------------
(***************************************************************************)
(* One client and the connection handler that serves it, frame by frame    *)
(* (ipc/client.rs, ipc/client/protocol.rs, ipc/handshake.rs,               *)
(* ipc/connection.rs, ipc/control.rs, ipc/supervision.rs, ipc/dispatch.rs, *)
(* ipc_codec.rs, cadder-shim/main.rs and command_policy.rs).               *)
(*                                                                         *)
(* The client is a shim or an operator.  A managed shim shakes hands,      *)
(* registers its project, sends heartbeats whose errors it ignores, and    *)
(* unregisters when it is interrupted.  A shim that inspects shakes hands, *)
(* and an operator makes one request.  A session is retired as soon as the *)
(* outcome of an exchange is unknown, and nobody opens another one.        *)
(*                                                                         *)
(* The socket is two queues of frames that either side may close.  The     *)
(* transaction behind a mutation is one step (see Registrations), so a     *)
(* fence is revoked or final when its supervisor asks it.  A client does   *)
(* not pipeline requests.                                                  *)
(***************************************************************************)
EXTENDS ClientErrors, Naturals, Sequences

CONSTANTS
  Peers,    \* what clients and daemons run: "same", "other-version",
            \* "other-runtime"
  Commands, \* what shims are called with
  Requests, \* what operators ask for, a subset of Unary
  Faults,   \* "drain", "crash", "kill", "deadline", "reject", "deny",
            \* "large"; see the actions
  None

(* What a connection handler does itself; all else gets a worker.          *)
Unary == {"query-state", "query-logs", "shutdown"}

ASSUME PeersAssumption == Peers \subseteq {"same", "other-version", "other-runtime"}
ASSUME NoneAssumption == None \notin [op : Operations, n : {0, 1}]
ASSUME RequestsAssumption == Requests \subseteq Unary

VARIABLES
  program,    \* what the client is to do: "run", "inspect" or a request
  client,     \* how far it is
  stopping,   \* the shim was interrupted
  session,    \* CadderSession: "connecting", "usable", "exchanging", "retired"
  sent,       \* the last request of the session
  error,      \* the error its last call returned, or NoError
  toDaemon, toClient,          \* frames on the wire
  clientClosed, daemonClosed,  \* who has closed its end
  handler,    \* the connection task
  job,        \* the request that it supervises
  worker,     \* what becomes of it: "none", "running", "revoked", or an answer
  registered, \* the daemon holds the client's registration
  owned,      \* the connection's entry of it
  asked,      \* the session has requested a shutdown
  drained     \* request_drain is cancelled

vars ==
  <<program, client, stopping, session, sent, error, toDaemon, toClient,
    clientClosed, daemonClosed, handler, job, worker, registered, owned, asked,
    drained>>

Request == [op : Operations, n : {0, 1}]
Hello(peer) == [hello |-> peer]
Answer(to, result) == [to |-> to, result |-> result]

Accepted == NoError
Refused == Daemon("not-accepted", FALSE)  \* a response with accepted = false
Garbled == ResponseDecodeError            \* two frames written into one
Results ==
  {Accepted, Refused, Garbled, ShuttingDown, AccessDenied,
   IncompatibleVersion, StaleInstance} \cup
  {OperationTimeout(op) : op \in Operations}

(* SHIM_COMMAND_POLICY_TABLE.                                              *)
Managed == {"run"}
ReadOnlyInspection ==
  {"adapt", "build-info", "environ", "help", "list-modules", "validate",
   "version"}
ExplicitPassthrough ==
  {"completion", "file-server", "fmt", "manpage", "reverse-proxy"}

(* A shim opens a session for a command that Cadder manages, and to see    *)
(* whether a daemon is there before the real Caddy inspects something.     *)
(* Everything else is handed to the real Caddy, or turned down: what the   *)
(* table calls unsupported, and what it does not name.                     *)
ProgramOf(command) ==
  CASE command \in Managed -> "run"
    [] command \in ReadOnlyInspection -> "inspect"
    [] command \in ExplicitPassthrough -> "delegate"
    [] OTHER -> "reject"

Programs ==
  ({ProgramOf(c) : c \in Commands} \cap {"run", "inspect"}) \cup Requests

(* What a call of the client may return.                                   *)
Errors ==
  {SessionClosed, RequestFrameError, ResponseViolation, ConnectionTimeout,
   StaleHandshake} \cup HandshakeErrors \cup Results \cup
  UNION {ExchangeErrors(op) \cup LateErrors(op) : op \in Operations}

TypeOK ==
  /\ program \in Programs
  /\ client \in {"attaching", "registering", "running", "beating",
                 "unregistering", "asking", "done", "failed"}
  /\ stopping \in BOOLEAN
  /\ session \in {"connecting", "usable", "exchanging", "retired"}
  /\ sent \in Request \cup {None}
  /\ error \in Errors
  /\ toDaemon \in Seq(Request \cup {Hello(p) : p \in Peers})
  /\ toClient \in Seq({Answer(r, v) : r \in Request \cup {None}, v \in Results})
  /\ clientClosed \in BOOLEAN /\ daemonClosed \in BOOLEAN
  /\ handler \in {"handshake", "open", "busy", "closed"}
  /\ job \in Request \cup {None}
  /\ worker \in {"none", "running", "revoked", "accepted", "refused"}
  /\ registered \in BOOLEAN /\ owned \in BOOLEAN
  /\ asked \in BOOLEAN /\ drained \in BOOLEAN
  /\ Len(toDaemon) <= 1 /\ Len(toClient) <= 1

(* Stream::connect has succeeded, the connection is authenticated and the  *)
(* hello is on its way.                                                    *)
Init ==
  /\ program \in Programs /\ client = "attaching" /\ stopping = FALSE
  /\ session = "connecting" /\ sent = None /\ error = NoError
  /\ \E p \in Peers : toDaemon = <<Hello(p)>>
  /\ toClient = <<>>
  /\ clientClosed = FALSE /\ daemonClosed = FALSE
  /\ handler = "handshake"
  /\ job = None /\ worker = "none"
  /\ registered = FALSE /\ owned = FALSE
  /\ asked = FALSE /\ drained = FALSE

clientVars == <<program, client, stopping, session, sent, error>>
held == <<registered, owned, asked, drained>>
daemonVars == <<handler, job, worker, held>>
wireVars == <<toDaemon, toClient, clientClosed, daemonClosed>>

-----------------------------------------------------------------------------
(* The session of the client.                                              *)

(* The halves of a retired session are dropped; the process may run on.    *)
Retire ==
  /\ session' = "retired"
  /\ clientClosed' = TRUE
  /\ toClient' = <<>>

(* CadderSession::request: a retired session fails at once, a write to a   *)
(* daemon that has closed its end may fail, and from the first byte on the *)
(* session is not usable.                                                  *)
Send(op) ==
  LET request == [op |-> op, n |-> IF sent = None THEN 0 ELSE 1 - sent.n]
  IN /\ session = "usable"
     /\ session' = "exchanging"
     /\ sent' = request /\ error' = NoError
     /\ toDaemon' = IF daemonClosed THEN toDaemon ELSE Append(toDaemon, request)
     /\ UNCHANGED <<toClient, clientClosed, daemonClosed, daemonVars>>

(* What becomes of the client when its request has failed.                 *)
Failed == IF client = "beating" THEN "running" ELSE "failed"

(* Mutant: run_managed_until takes every answer to its register for a yes. *)
AnsweredWithYes(result) ==
  CASE client \in {"beating", "registering"} -> "running"
    [] client \in {"unregistering", "asking"} ->
         IF result \in {Accepted, Refused} THEN "done" ELSE "failed"

(* ... or is answered: run_managed_until looks at the register response    *)
(* only.                                                                   *)
Answered(result) ==
  CASE client = "beating" -> "running"
    [] client = "registering" -> IF result = Accepted THEN "running" ELSE "failed"
    [] client \in {"unregistering", "asking"} ->
         IF result \in {Accepted, Refused} THEN "done" ELSE "failed"

(* A process that ends closes its connection.                              *)
Leaves(at) == at \in {"done", "failed"}

(* read_client_response: an answer for this request, or a daemon error for *)
(* it, restores the session.                                               *)
Receive ==
  /\ session = "exchanging" /\ toClient # <<>>
  /\ LET answer == Head(toClient)
         next == Answered(answer.result)
     IN IF answer.to = sent /\ answer.result # Garbled
        THEN /\ client' = next
             /\ session' = IF Leaves(next) THEN "retired" ELSE "usable"
             /\ clientClosed' = Leaves(next)
             /\ toClient' = Tail(toClient)
             /\ error' = IF answer.result \in {Accepted, Refused}
                         THEN NoError ELSE answer.result
        ELSE /\ Retire /\ client' = Failed
             /\ error' = IF answer.result = Garbled
                         THEN Garbled ELSE ResponseViolation
  /\ UNCHANGED <<program, stopping, sent, toDaemon, daemonClosed, daemonVars>>

(* Mutant: an exchange whose deadline passes leaves the session usable.    *)
ExchangeFailsSoftly ==
  /\ session = "exchanging"
  /\ "deadline" \in Faults /\ error' \in LateErrors(sent.op)
  /\ session' = "usable"
  /\ client' = Failed
  /\ UNCHANGED <<program, stopping, sent, wireVars, daemonVars>>

(* The connection ends, the write fails, or the deadline passes: the       *)
(* outcome is unknown.                                                     *)
ExchangeFails ==
  /\ session = "exchanging"
  /\ \/ daemonClosed /\ toClient = <<>> /\ error' \in ExchangeErrors(sent.op)
     \/ "deadline" \in Faults /\ error' \in LateErrors(sent.op)
  /\ Retire
  /\ client' = Failed
  /\ UNCHANGED <<program, stopping, sent, toDaemon, daemonClosed, daemonVars>>

(* perform_client_handshake: the answer to the hello, or a rejection.  A   *)
(* shim that inspects wants no more, and goes on without it.               *)
Unattached == IF program = "inspect" THEN "done" ELSE "failed"

ReceiveHello ==
  /\ session = "connecting" /\ toClient # <<>>
  /\ LET answer == Head(toClient).result IN
       \/ /\ answer = Accepted /\ program # "inspect"
          /\ session' = "usable"
          /\ toClient' = Tail(toClient)
          /\ UNCHANGED <<client, clientClosed, error>>
       \/ /\ answer = Accepted /\ program = "inspect"
          /\ Retire /\ client' = "done"
          /\ UNCHANGED error
       \/ /\ answer # Accepted
          /\ Retire /\ client' = Unattached
          /\ error' = IF IsStaleInstance(answer) THEN StaleHandshake ELSE answer
  /\ UNCHANGED <<program, stopping, sent, toDaemon, daemonClosed, daemonVars>>

HandshakeFails ==
  /\ session = "connecting"
  /\ \/ daemonClosed /\ toClient = <<>> /\ error' \in HandshakeErrors
     \/ "deadline" \in Faults /\ error' = ConnectionTimeout
  /\ Retire
  /\ client' = Unattached
  /\ UNCHANGED <<program, stopping, sent, toDaemon, daemonClosed, daemonVars>>

-----------------------------------------------------------------------------
(* run_managed_until, and a request of an operator.                        *)

(* PreparedClientRequest: a project that does not fit a frame.             *)
RegisterTooLarge ==
  /\ "large" \in Faults
  /\ program = "run" /\ client = "attaching" /\ session = "usable"
  /\ Retire
  /\ client' = "failed" /\ error' = RequestFrameError
  /\ UNCHANGED <<program, stopping, sent, toDaemon, daemonClosed, daemonVars>>

(* CadderClient::request.                                                  *)
Ask ==
  /\ program \in Requests /\ client = "attaching"
  /\ Send(program)
  /\ client' = "asking"
  /\ UNCHANGED <<program, stopping>>

Register ==
  /\ program = "run" /\ client = "attaching"
  /\ Send("register")
  /\ client' = "registering"
  /\ UNCHANGED <<program, stopping>>

(* The next tick of the heartbeat loop, which a stop signal overtakes.     *)
Beat ==
  /\ client = "running" /\ ~stopping
  /\ Send("heartbeat")
  /\ client' = "beating"
  /\ UNCHANGED <<program, stopping>>

Interrupt ==
  /\ client \in {"running", "beating"} /\ ~stopping
  /\ stopping' = TRUE
  /\ UNCHANGED <<program, client, session, sent, error, wireVars, daemonVars>>

(* The heartbeat loop has been joined, so no heartbeat is in flight.       *)
Unregister ==
  /\ client = "running" /\ stopping
  /\ Send("unregister")
  /\ client' = "unregistering"
  /\ UNCHANGED <<program, stopping>>

(* ... on a retired session it fails at once, and the process ends.        *)
UnregisterUnusable ==
  /\ client = "running" /\ stopping /\ session = "retired"
  /\ client' = "failed" /\ error' = SessionClosed
  /\ UNCHANGED <<program, stopping, session, sent, wireVars, daemonVars>>

Killed ==
  /\ "kill" \in Faults
  /\ client \notin {"done", "failed"}
  /\ client' = "failed"
  /\ Retire
  /\ UNCHANGED <<program, stopping, sent, error, toDaemon, daemonClosed, daemonVars>>

-----------------------------------------------------------------------------
(* The connection handler.                                                 *)

(* A frame is lost when the client has closed its end.                     *)
Write(to, result) ==
  toClient' = IF clientClosed THEN toClient
              ELSE Append(toClient, Answer(to, result))

Closes == handler' = "closed" /\ daemonClosed' = TRUE
Stays(at) == handler' = at /\ UNCHANGED daemonClosed

(* accept_client_handshake.                                                *)
AcceptHello ==
  /\ handler = "handshake" /\ toDaemon # <<>>
  /\ LET peer == Head(toDaemon).hello
     IN CASE peer = "other-runtime" -> Write(None, StaleInstance) /\ Closes
          [] peer = "other-version" -> Write(None, IncompatibleVersion) /\ Closes
          [] peer = "same" -> Write(None, Accepted) /\ Stays("open")
  /\ toDaemon' = Tail(toDaemon)
  /\ UNCHANGED <<clientVars, clientClosed, job, worker, held>>

(* The first bytes or the hello do not come in time, a client leaves, or   *)
(* the drain waits for a request until its deadline.                       *)
CloseIdle ==
  /\ handler \in {"handshake", "open"}
  /\ \/ handler = "handshake" /\ "deadline" \in Faults
     \/ clientClosed /\ toDaemon = <<>>
     \/ drained /\ toDaemon = <<>>
  /\ Closes
  /\ UNCHANGED <<clientVars, toDaemon, toClient, clientClosed, job, worker, held>>

(* handle_connection_loop reads a request.                                 *)
Reads(request) ==
  /\ handler = "open" /\ toDaemon # <<>>
  /\ request = Head(toDaemon) /\ toDaemon' = Tail(toDaemon)
  /\ UNCHANGED <<clientVars, clientClosed, held>>

RefuseDrained ==
  \E request \in Request :
    /\ Reads(request) /\ drained
    /\ Write(request, ShuttingDown) /\ Closes
    /\ UNCHANGED <<job, worker>>

(* authorize_or_reject: the policy turns it down.                          *)
DenyRequest ==
  \E request \in Request :
    /\ Reads(request) /\ ~drained /\ "deny" \in Faults
    /\ Write(request, AccessDenied) /\ Stays("open")
    /\ UNCHANGED <<job, worker>>

Supervise ==
  \E request \in Request :
    /\ Reads(request) /\ ~drained
    /\ job' = request /\ worker' = "running"
    /\ Stays("busy")
    /\ UNCHANGED toClient

(* Mutant: the connection records an entry only while its client is there. *)
WorkUnrecorded ==
  /\ worker = "running" /\ job.op \notin Unary
  /\ job.op = "register" \/ registered
  /\ worker' = "accepted"
  /\ registered' = (job.op # "unregister")
  /\ owned' = (job.op # "unregister" /\ ~clientClosed)
  /\ UNCHANGED <<clientVars, wireVars, handler, job, asked, drained>>

(* The mutation is committed, or rejected, while or after its handler      *)
(* supervises it.                                                          *)
Work ==
  /\ worker = "running" /\ job.op \notin Unary
  /\ \/ /\ \/ job.op = "register"
           \/ registered /\ job.op \in {"heartbeat", "unregister"}
        /\ worker' = "accepted"
        /\ registered' = (job.op # "unregister")
        /\ owned' = (job.op # "unregister")
     \/ /\ \/ job.op = "heartbeat" /\ ~registered
           \/ job.op = "unregister" /\ ~registered
           \/ job.op # "heartbeat" /\ "reject" \in Faults
        /\ worker' = "refused"
        /\ UNCHANGED <<registered, owned>>
  /\ UNCHANGED <<clientVars, wireVars, handler, job, asked, drained>>

(* dispatch_authorized_request: an answer is read from the state, or the   *)
(* shutdown requested, before the answer is written.                       *)
Dispatch ==
  /\ worker = "running" /\ job.op \in Unary
  /\ worker' = "accepted"
  /\ asked' = (asked \/ job.op = "shutdown")
  /\ UNCHANGED <<clientVars, wireVars, handler, job, registered, owned, drained>>

Worked == worker \in {"accepted", "refused"}
Result == IF worker = "accepted" THEN Accepted ELSE Refused

JobEnds == job' = None /\ worker' = "none"

(* The response is written; the handler closes after a shutdown, or if it  *)
(* has seen the client leave meanwhile.                                    *)
Reply ==
  /\ handler = "busy" /\ Worked
  /\ Write(job, Result)
  /\ JobEnds
  /\ IF clientClosed \/ job.op = "shutdown" THEN Closes ELSE Stays("open")
  /\ UNCHANGED <<clientVars, toDaemon, clientClosed, held>>

(* The response makes no progress, or does not fit a frame.                *)
ReplyFails ==
  /\ handler = "busy" /\ Worked
  /\ \/ "deadline" \in Faults
     \/ "large" \in Faults /\ job.op \in {"query-state", "query-logs"}
  /\ JobEnds
  /\ Closes
  /\ UNCHANGED <<clientVars, toDaemon, toClient, clientClosed, held>>

(* The operation deadline or the drain: what the fence can still revoke is *)
(* answered with an error, what is final with its response.                *)
GiveUp ==
  /\ handler = "busy" /\ worker = "running" /\ job.op \notin Unary
  /\ \/ drained /\ Write(job, ShuttingDown)
     \/ "deadline" \in Faults /\ Write(job, OperationTimeout(job.op))
  /\ worker' = "revoked"
  /\ Closes
  /\ UNCHANGED <<clientVars, toDaemon, clientClosed, job, held>>

GiveUpLate ==
  /\ handler = "busy" /\ Worked /\ job.op \notin Unary
  /\ drained \/ "deadline" \in Faults
  /\ Write(job, Result)
  /\ JobEnds
  /\ Closes
  /\ UNCHANGED <<clientVars, toDaemon, clientClosed, held>>

(* Mutant: a shutdown is drained like everything else.                     *)
DrainsEverything == drained

(* wait_for_request_drain: the drain does not interrupt its own request.   *)
Drains == drained /\ job.op # "shutdown"

(* A handler without a worker is dropped, in the middle of its response if *)
(* need be, to which the error is then appended.                           *)
GiveUpUnary ==
  /\ handler = "busy" /\ job.op \in Unary
  /\ \/ Drains /\ Write(job, ShuttingDown)
     \/ "deadline" \in Faults /\ Write(job, OperationTimeout(job.op))
     \/ /\ Drains \/ "deadline" \in Faults
        /\ worker = "accepted" /\ Write(job, Garbled)
  /\ JobEnds
  /\ Closes
  /\ UNCHANGED <<clientVars, toDaemon, clientClosed, held>>

(* A revoked worker ends without a commit.                                 *)
WorkerEnds ==
  /\ worker = "revoked"
  /\ JobEnds
  /\ UNCHANGED <<clientVars, wireVars, handler, held>>

(* The disconnect cleanup: after the handler and its last mutation.        *)
Cleanup ==
  /\ handler = "closed" /\ worker = "none" /\ owned
  /\ registered' = FALSE /\ owned' = FALSE
  /\ UNCHANGED <<clientVars, wireVars, handler, job, worker, asked, drained>>

BeginDrain ==
  /\ asked \/ "drain" \in Faults
  /\ ~drained
  /\ drained' = TRUE
  /\ UNCHANGED <<clientVars, wireVars, handler, job, worker, registered, owned,
                 asked>>

(* The daemon process dies, or leaves after its drain: registrations live  *)
(* in memory, and restored rows are intent, not registrations.             *)
DaemonGone ==
  /\ handler # "closed" \/ worker # "none" \/ registered
  /\ "crash" \in Faults
  /\ handler' = "closed" /\ daemonClosed' = TRUE
  /\ toDaemon' = <<>>
  /\ JobEnds
  /\ registered' = FALSE /\ owned' = FALSE
  /\ UNCHANGED <<clientVars, toClient, clientClosed, asked, drained>>

(* Another client, with a session of its own, once everything is over.     *)
Again ==
  /\ client \in {"done", "failed"} /\ handler = "closed" /\ worker = "none"
  /\ ~registered
  /\ program' \in Programs /\ client' = "attaching" /\ stopping' = FALSE
  /\ session' = "connecting" /\ sent' = None /\ error' = NoError
  /\ \E p \in Peers : toDaemon' = <<Hello(p)>>
  /\ toClient' = <<>>
  /\ clientClosed' = FALSE /\ daemonClosed' = FALSE
  /\ handler' = "handshake"
  /\ asked' = FALSE /\ drained' = FALSE
  /\ UNCHANGED <<job, worker, registered, owned>>

-----------------------------------------------------------------------------
ClientNext ==
  \/ ReceiveHello \/ HandshakeFails \/ RegisterTooLarge \/ Ask \/ Register
  \/ Beat \/ Interrupt \/ Unregister \/ UnregisterUnusable \/ Receive
  \/ ExchangeFails \/ Killed

DaemonStep ==
  \/ AcceptHello \/ CloseIdle \/ RefuseDrained \/ DenyRequest \/ Supervise
  \/ Work \/ Dispatch \/ Reply \/ GiveUpLate \/ WorkerEnds \/ Cleanup

Next ==
  \/ ClientNext \/ DaemonStep \/ ReplyFails \/ GiveUp \/ GiveUpUnary
  \/ BeginDrain \/ DaemonGone \/ Again

Spec == Init /\ [][Next]_vars

(* The daemon's tasks run, and the transactions behind them end.           *)
FairSpec == Spec /\ WF_vars(DaemonStep)

-----------------------------------------------------------------------------
(* A session that may be used again has nothing on the wire and nothing    *)
(* behind it that may still commit: the next answer it reads is the one to *)
(* its next request, whatever deadline passed before on either side.       *)
UsableIsClean ==
  session = "usable" =>
    toDaemon = <<>> /\ toClient = <<>> /\ worker \in {"none", "revoked"}

(* A client knows what it has done: while a shim's session is usable and   *)
(* the daemon has not closed the connection, "running" means registered;   *)
(* a shim that ends with success, although it does not look at the answer  *)
(* to its unregister, leaves only what the cleanup of its connection       *)
(* removes; an error that invites a retry is never that of a request which *)
(* the daemon may still carry out, and which must not be carried out       *)
(* twice; and a shutdown is not turned down by the drain that it began.    *)
ClientIsRight ==
  /\ client = "running" /\ session = "usable" /\ handler \in {"open", "busy"}
       => registered
  /\ client = "done" /\ registered => owned
  /\ error.retryable =>
       sent = None \/ sent.op \notin {"register", "unregister", "shutdown"}
  /\ asked => error # ShuttingDown

(* What a client leaves behind when its session ends, by any interleaving  *)
(* of a lost answer, a late commit and its own death, is removed.          *)
GoneIsForgotten == session = "retired" ~> ~registered
=============================================================================
