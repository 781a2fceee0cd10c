---------------------------- MODULE ClientErrors ----------------------------
(***************************************************************************)
(* The failures that a client of the daemon sees (ipc_client_error.rs,     *)
(* ipc/client/protocol.rs, ipc/handshake.rs) and how its callers classify  *)
(* them.  Messages and guidance are left out: a failure is where it came   *)
(* from, its phase, its code and whether it calls itself retryable.        *)
(***************************************************************************)

Local(phase, code, retryable) ==
  [from |-> "local", phase |-> phase, code |-> code, retryable |-> retryable]

Daemon(kind, retryable) ==
  [from |-> "daemon", phase |-> "none", code |-> kind, retryable |-> retryable]

-----------------------------------------------------------------------------
NoError == Daemon("none", FALSE)

(* The registry of operations.                                             *)
Operations ==
  {"register", "unregister", "heartbeat", "query-state", "set-entrypoint",
   "set-domain", "query-logs", "shutdown"}

OperationRetryable(op) == op \in {"heartbeat", "query-state", "query-logs"}

-----------------------------------------------------------------------------
(* Opening a connection: nothing was sent yet.                             *)

NotReadyKinds ==
  {"NotFound", "ConnectionRefused", "ConnectionReset", "ConnectionAborted",
   "NotConnected", "AddrNotAvailable"}

ConnectionError(io) ==
  LET code == CASE io = "PermissionDenied" -> "permission-denied"
                [] io = "TimedOut" -> "timeout"
                [] io \in NotReadyKinds -> "daemon-unavailable"
                [] OTHER -> "transport-connect"
  IN Local("connect", code, code \in {"timeout", "daemon-unavailable"})

ConnectionTimeout == Local("connect", "timeout", TRUE)

(* The handshake: no operation was sent.  A connection that is lost here   *)
(* is not "unavailable", although the caller may retry.                    *)
HandshakeWriteError == Local("request-write", "transport-write", TRUE)
HandshakeReadError == Local("response-read", "transport-read", TRUE)
HandshakeEof == Local("response-read", "unexpected-eof", TRUE)
HandshakeFrameError == Local("response-read", "frame", FALSE)
StaleHandshake == Local("response-validate", "stale-instance", TRUE)

HandshakeErrors ==
  {HandshakeWriteError, HandshakeReadError, HandshakeEof, HandshakeFrameError}

-----------------------------------------------------------------------------
(* An exchange: once a byte is written the outcome is unknown, and only an *)
(* operation that may be repeated says that it can be retried.             *)
SessionClosed == Local("connect", "connection-closed", TRUE)
RequestFrameError == Local("request-encode", "frame", FALSE)
RequestWriteError(op) ==
  Local("request-write", "transport-write", OperationRetryable(op))
RequestWriteTimeout(op) ==
  Local("request-write", "timeout", OperationRetryable(op))
ResponseReadError(op) ==
  Local("response-read", "transport-read", OperationRetryable(op))
ResponseEof(op) ==
  Local("response-read", "unexpected-eof", OperationRetryable(op))
ResponseTimeout(op) ==
  Local("response-read", "timeout", OperationRetryable(op))
ResponseFrameError == Local("response-read", "frame", FALSE)
ResponseDecodeError == Local("response-decode", "frame", FALSE)
ResponseViolation == Local("response-validate", "protocol-violation", FALSE)

(* How an exchange ends with its connection, and with its deadline.        *)
ExchangeErrors(op) ==
  {RequestWriteError(op), ResponseReadError(op), ResponseEof(op),
   ResponseFrameError}
LateErrors(op) == {RequestWriteTimeout(op), ResponseTimeout(op)}

(* What a daemon answers instead of a response.                            *)
ShuttingDown == Daemon("shutting-down", FALSE)
OperationTimeout(op) == Daemon("timeout", OperationRetryable(op))
AccessDenied == Daemon("access-denied", FALSE)
IncompatibleVersion == Daemon("incompatible-protocol", FALSE)
StaleInstance == Daemon("stale-instance", TRUE)

-----------------------------------------------------------------------------
(* How callers read them.                                                  *)

IsDaemonUnavailable(e) == e.from = "local" /\ e.code = "daemon-unavailable"

IsStaleInstance(e) == e.code = "stale-instance"

(* Mutant: a connection that nobody accepts in time is a permanent error.  *)
NotReadyUnlessSlow(e) == IsStaleInstance(e) \/ IsDaemonUnavailable(e)

NotReadyYet(e) ==
  \/ IsStaleInstance(e)
  \/ IsDaemonUnavailable(e)
  \/ e.from = "local" /\ e.phase = "connect" /\ e.code = "timeout"

(* wait_for_daemon_stop: this answer says that the daemon has stopped.     *)
SaysStopped(e) == e.retryable \/ IsDaemonUnavailable(e) \/ IsStaleInstance(e)
=============================================================================
