--------------------------- MODULE Session_proofs ---------------------------
(***************************************************************************)
(* Proofs about Session, for any commands, requests and faults.            *)
(***************************************************************************)
EXTENDS Session, SequenceTheorems, TLAPS

(* The worker of a request is at work exactly while the handler supervises *)
(* it; one that was revoked is all that a closed connection leaves behind. *)
WorkerFollows ==
  /\ handler = "busy" <=> worker \in {"running", "accepted", "refused"}
  /\ worker = "revoked" => handler = "closed"
  /\ job = None <=> worker = "none"

EndsFollow ==
  /\ clientClosed <=> session = "retired"
  /\ daemonClosed <=> handler = "closed"
  /\ clientClosed => toClient = <<>>

(* A client does not pipeline: its request, the work on it and its answer  *)
(* exclude each other.                                                     *)
OneAtATime ==
  /\ toDaemon # <<>> => handler # "busy" /\ toClient = <<>>
  /\ handler = "busy" => toClient = <<>>
  /\ session = "usable" =>
       toDaemon = <<>> /\ toClient = <<>> /\ handler \in {"open", "closed"}

(* Where the client may be while its session is in each of its states.     *)
ClientFollows ==
  /\ session = "connecting" => client = "attaching"
  /\ session = "usable" => client \in {"attaching", "running"}
  /\ session = "exchanging" =>
       client \in {"registering", "beating", "unregistering", "asking"}
  /\ session = "retired" => client \in {"running", "done", "failed"}
  /\ client = "attaching" => sent = None

(* The request that a client is waiting for, or has been.                  *)
SentFollows ==
  /\ client = "registering" => sent # None /\ sent.op = "register"
  /\ client = "beating" => sent # None /\ sent.op = "heartbeat"
  /\ client = "unregistering" => sent # None /\ sent.op = "unregister"
  /\ client = "asking" => sent # None /\ sent.op \in Unary
  /\ client = "running" /\ session = "retired" => sent.op = "heartbeat"

(* The hello is all that is on the wire of a handshake.                    *)
HelloFollows ==
  /\ handler = "handshake" =>
       /\ session \in {"connecting", "retired"}
       /\ \E p \in Peers : toDaemon = <<Hello(p)>>
  /\ session = "connecting" =>
       /\ handler # "busy" /\ worker = "none" /\ ~asked
       /\ handler = "open" => toDaemon = <<>>

Once(op) == op \in {"register", "unregister", "shutdown"}

(* What is on its way in an exchange belongs to the request that was sent. *)
ExchangeFollows ==
  session = "exchanging" =>
    /\ sent # None /\ error = NoError
    /\ toDaemon # <<>> => toDaemon = <<sent>>
    /\ handler = "busy" => job = sent
    /\ toClient # <<>> =>
         LET result == Head(toClient).result IN
           /\ result.retryable => ~Once(sent.op)
           /\ asked => result # ShuttingDown

ErrorFollows ==
  error.retryable => sent = None \/ ~Once(sent.op)

(* A shutdown that was asked for is its own exchange, which the drain      *)
(* cannot turn down any more.                                              *)
AskedFollows ==
  /\ asked => /\ \/ handler = "closed"
                 \/ handler = "busy" /\ job.op = "shutdown" /\ worker = "accepted"
              /\ error # ShuttingDown
  /\ toDaemon # <<>> \/ handler = "busy" => error # ShuttingDown

(* The register has been accepted, and the daemon knows it.                *)
RegisterAccepted ==
  \/ client \in {"running", "beating"}
  \/ /\ client = "registering"
     /\ \/ worker = "accepted"
        \/ toClient # <<>> /\ Head(toClient).result = Accepted

RegistrationFollows ==
  /\ owned = registered
  /\ /\ session \in {"usable", "exchanging"} /\ handler \in {"open", "busy"}
     /\ RegisterAccepted
     => registered

SessionInv ==
  /\ WorkerFollows /\ EndsFollow /\ OneAtATime /\ ClientFollows
  /\ SentFollows /\ HelloFollows /\ ExchangeFollows /\ ErrorFollows
  /\ AskedFollows /\ RegistrationFollows

-----------------------------------------------------------------------------
(* Queues that hold one frame at most.                                     *)

LEMMA OneFrame ==
  ASSUME NEW S, NEW q \in Seq(S), Len(q) <= 1, q # <<>>
  PROVE  q = <<Head(q)>> /\ Head(q) \in S /\ Tail(q) = <<>>
<1>1. Len(q) \in Nat \ {0}
  BY EmptySeq
<1>2. Len(q) = 1
  BY <1>1
<1>3. q = [i \in 1..1 |-> q[i]]
  BY <1>2
<1>4. Head(q) \in S /\ Len(Tail(q)) = 0 /\ Tail(q) \in Seq(S)
  BY <1>2, HeadTailProperties
<1>5. Tail(q) = <<>>
  BY <1>4, EmptySeq
<1> QED
  BY <1>3, <1>4, <1>5

LEMMA FrameWritten ==
  ASSUME NEW S, NEW m \in S
  PROVE  /\ Append(<<>>, m) = <<m>> /\ <<m>> \in Seq(S) /\ <<>> \in Seq(S)
         /\ Len(<<m>>) = 1 /\ Len(<<>>) = 0
         /\ Head(<<m>>) = m /\ <<m>> # <<>>
  OBVIOUS

Frames == Request \cup {Hello(p) : p \in Peers}
Answers == {Answer(r, v) : r \in Request \cup {None}, v \in Results}

LEMMA Wire ==
  ASSUME TypeOK
  PROVE  /\ toDaemon # <<>> =>
              /\ toDaemon = <<Head(toDaemon)>> /\ Head(toDaemon) \in Frames
              /\ Tail(toDaemon) = <<>>
         /\ toClient # <<>> =>
              /\ toClient = <<Head(toClient)>> /\ Head(toClient) \in Answers
              /\ Tail(toClient) = <<>>
<1>1. /\ toDaemon \in Seq(Frames) /\ Len(toDaemon) <= 1
      /\ toClient \in Seq(Answers) /\ Len(toClient) <= 1
  BY DEF TypeOK, Frames, Answers
<1> QED
  BY <1>1, OneFrame

(* A frame goes on an empty queue.                                         *)
LEMMA Written ==
  ASSUME toClient = <<>>, NEW to \in Request \cup {None}, NEW result \in Results,
         Write(to, result)
  PROVE  /\ toClient' = IF clientClosed THEN <<>> ELSE <<Answer(to, result)>>
         /\ toClient' \in Seq(Answers) /\ Len(toClient') <= 1
<1>1. Answer(to, result) \in Answers
  BY DEF Answers
<1> QED
  BY <1>1, FrameWritten DEF Write

-----------------------------------------------------------------------------
(* Errors.                                                                 *)

LEMMA ExchangeErrorsAre ==
  ASSUME NEW op \in Operations, NEW e \in ExchangeErrors(op) \cup LateErrors(op)
  PROVE  /\ e \in Errors /\ e # ShuttingDown
         /\ e.retryable => ~Once(op)
<1>1. e \in Errors
  BY DEF Errors
<1>2. \E phase, code : \/ e = Local(phase, code, OperationRetryable(op))
                       \/ e = Local(phase, code, FALSE)
  BY DEF ExchangeErrors, LateErrors, RequestWriteError, ResponseReadError,
     ResponseEof, ResponseFrameError, RequestWriteTimeout, ResponseTimeout
<1>3. e # ShuttingDown
  BY <1>2 DEF Local, ShuttingDown, Daemon
<1>4. e.retryable => OperationRetryable(op)
  BY <1>2 DEF Local
<1> QED
  BY <1>1, <1>3, <1>4 DEF OperationRetryable, Once

LEMMA LocalErrorsAre ==
  ASSUME NEW e \in {SessionClosed, RequestFrameError, ResponseViolation,
                    ConnectionTimeout, StaleHandshake, Garbled}
                   \cup HandshakeErrors
  PROVE  e \in Errors /\ e # ShuttingDown
<1>1. e \in Errors
  BY DEF Errors, Results
<1>2. \E phase, code, retryable : e = Local(phase, code, retryable)
  BY DEF SessionClosed, RequestFrameError, ResponseViolation, Garbled,
     ConnectionTimeout, StaleHandshake, ResponseDecodeError, HandshakeErrors,
     HandshakeWriteError, HandshakeReadError, HandshakeEof, HandshakeFrameError
<1> QED
  BY <1>1, <1>2 DEF Local, ShuttingDown, Daemon

LEMMA ResultsAre ==
  /\ Results \subseteq Errors
  /\ {Accepted, Refused, ShuttingDown, AccessDenied, Garbled} \subseteq Results
  /\ \A op \in Operations : OperationTimeout(op) \in Results
  /\ ~Accepted.retryable /\ ~Refused.retryable /\ ~ShuttingDown.retryable
  /\ ~AccessDenied.retryable /\ ~Garbled.retryable
  /\ \A op : OperationTimeout(op).retryable => ~Once(op)
  /\ Refused # Accepted /\ ShuttingDown # Accepted /\ AccessDenied # Accepted
  /\ Garbled # Accepted /\ Refused # ShuttingDown /\ Garbled # ShuttingDown
  /\ \A op : OperationTimeout(op) \notin {Accepted, ShuttingDown}
<1>1. Results \subseteq Errors
  BY DEF Errors
<1>2. /\ {Accepted, Refused, ShuttingDown, AccessDenied, Garbled} \subseteq Results
      /\ \A op \in Operations : OperationTimeout(op) \in Results
  BY DEF Results
<1>3. /\ ~Accepted.retryable /\ ~Refused.retryable /\ ~ShuttingDown.retryable
      /\ ~AccessDenied.retryable /\ ~Garbled.retryable
  BY DEF Accepted, NoError, Refused, ShuttingDown, AccessDenied, Garbled,
     ResponseDecodeError, Daemon, Local
<1>4. \A op : OperationTimeout(op).retryable => ~Once(op)
  BY DEF OperationTimeout, Daemon, OperationRetryable, Once
<1>5. /\ Refused # Accepted /\ ShuttingDown # Accepted /\ AccessDenied # Accepted
      /\ Garbled # Accepted /\ Refused # ShuttingDown /\ Garbled # ShuttingDown
  BY DEF Accepted, NoError, Refused, ShuttingDown, AccessDenied, Garbled,
     ResponseDecodeError, Daemon, Local
<1>6. \A op : OperationTimeout(op) \notin {Accepted, ShuttingDown}
  BY DEF OperationTimeout, Accepted, NoError, ShuttingDown, Daemon
<1> QED
  BY <1>1, <1>2, <1>3, <1>4, <1>5, <1>6

-----------------------------------------------------------------------------
(* The client.                                                             *)

(* It retires the session, and knows why.                                  *)
LEMMA Retires ==
  ASSUME TypeOK, SessionInv, Retire, session # "retired",
         client' \in {"running", "done", "failed"},
         client' = "running" => client = "beating",
         error' \in Errors,
         asked \/ toDaemon # <<>> \/ handler = "busy" => error' # ShuttingDown,
         error'.retryable => sent = None \/ ~Once(sent.op),
         UNCHANGED <<program, stopping, sent, toDaemon, daemonClosed, daemonVars>>
  PROVE  TypeOK' /\ SessionInv'
<1> USE DEF daemonVars, held, Retire
<1>1. TypeOK'
  BY FrameWritten DEF TypeOK
<1>2. WorkerFollows' /\ EndsFollow' /\ OneAtATime' /\ ClientFollows'
  BY DEF SessionInv, WorkerFollows, EndsFollow, OneAtATime, ClientFollows
<1>3. SentFollows' /\ HelloFollows' /\ ExchangeFollows' /\ ErrorFollows'
  BY DEF SessionInv, SentFollows, HelloFollows, ExchangeFollows, ErrorFollows,
     ClientFollows, OneAtATime
<1>4. AskedFollows' /\ RegistrationFollows'
  BY DEF SessionInv, AskedFollows, RegistrationFollows
<1> QED
  BY <1>1, <1>2, <1>3, <1>4 DEF SessionInv

LEMMA Sends ==
  ASSUME TypeOK, SessionInv, NEW op \in Operations, Send(op),
         \/ client' = "registering" /\ op = "register"
         \/ client' = "beating" /\ op = "heartbeat" /\ client = "running"
         \/ client' = "unregistering" /\ op = "unregister"
         \/ client' = "asking" /\ op \in Unary,
         UNCHANGED <<program, stopping>>
  PROVE  TypeOK' /\ SessionInv'
<1> USE DEF daemonVars, held
<1>1. sent' \in Request /\ sent'.op = op /\ sent' # None
  BY NoneAssumption DEF Send, Request, TypeOK
<1>2. /\ session = "usable" /\ session' = "exchanging" /\ error' = NoError
      /\ toDaemon' = (IF daemonClosed THEN <<>> ELSE <<sent'>>)
      /\ toDaemon' \in Seq(Frames) /\ Len(toDaemon') <= 1
      /\ UNCHANGED <<toClient, clientClosed, daemonClosed, daemonVars>>
  <2>1. sent' \in Frames /\ toDaemon = <<>>
    BY <1>1 DEF Send, Frames, SessionInv, OneAtATime
  <2> QED
    BY <2>1, FrameWritten DEF Send
<1>3. NoError \in Errors /\ NoError # ShuttingDown /\ ~NoError.retryable
  BY ResultsAre DEF Accepted
<1>4. TypeOK'
  BY <1>1, <1>2, <1>3 DEF TypeOK, Frames
<1>5. WorkerFollows' /\ EndsFollow' /\ OneAtATime' /\ ClientFollows'
  BY <1>1, <1>2 DEF SessionInv, WorkerFollows, EndsFollow, OneAtATime, ClientFollows
<1>6. SentFollows' /\ HelloFollows' /\ ExchangeFollows' /\ ErrorFollows'
  BY <1>1, <1>2, <1>3 DEF SessionInv, SentFollows, HelloFollows, ExchangeFollows,
     ErrorFollows, OneAtATime, EndsFollow
<1>7. AskedFollows'
  BY <1>1, <1>2, <1>3 DEF SessionInv, AskedFollows
<1>8. RegistrationFollows'
  BY <1>1, <1>2 DEF SessionInv, RegistrationFollows, RegisterAccepted, OneAtATime,
     WorkerFollows
<1> QED
  BY <1>4, <1>5, <1>6, <1>7, <1>8 DEF SessionInv

(* The answer that an exchange receives.                                   *)
LEMMA Receives ==
  ASSUME TypeOK, SessionInv, Receive
  PROVE  TypeOK' /\ SessionInv'
<1> DEFINE answer == Head(toClient)
           next == Answered(answer.result)
<1>1. /\ session = "exchanging" /\ toClient # <<>> /\ Tail(toClient) = <<>>
      /\ answer.result \in Results
      /\ UNCHANGED <<program, stopping, sent, toDaemon, daemonClosed, daemonVars>>
  BY Wire DEF Receive, Answers, Answer
<1>2. /\ toDaemon = <<>> /\ handler # "busy" /\ sent # None
      /\ sent \in Request /\ handler # "handshake"
      /\ client \in {"registering", "beating", "unregistering", "asking"}
  BY <1>1 DEF SessionInv, OneAtATime, ExchangeFollows, ClientFollows, TypeOK,
     HelloFollows
<1>3. /\ answer.result.retryable => ~Once(sent.op)
      /\ asked => answer.result # ShuttingDown
  BY <1>1 DEF SessionInv, ExchangeFollows
<1>4. CASE answer.to = sent /\ answer.result # Garbled
  <2>1. /\ client' = next
        /\ session' = (IF Leaves(next) THEN "retired" ELSE "usable")
        /\ clientClosed' = Leaves(next) /\ toClient' = <<>>
        /\ error' = (IF answer.result \in {Accepted, Refused}
                     THEN NoError ELSE answer.result)
    BY <1>1, <1>4 DEF Receive
  <2>2. next \in {"running", "done", "failed"}
    BY <1>2 DEF Answered
  <2>3. /\ error' \in Errors /\ (error'.retryable => ~Once(sent.op))
        /\ asked => error' # ShuttingDown
    BY <1>1, <1>3, <2>1, ResultsAre DEF Accepted
  <2>4. TypeOK'
    BY <1>1, <2>1, <2>2, <2>3, FrameWritten DEF TypeOK, daemonVars, held, Leaves
  <2>5. WorkerFollows' /\ EndsFollow' /\ OneAtATime'
    BY <1>1, <1>2, <2>1 DEF SessionInv, WorkerFollows, EndsFollow, OneAtATime,
       daemonVars, held, TypeOK
  <2>6. ClientFollows' /\ SentFollows' /\ HelloFollows'
    BY <1>1, <1>2, <2>1, <2>2 DEF SessionInv, ClientFollows, SentFollows,
       HelloFollows, Leaves, daemonVars, held
  <2>7. ExchangeFollows' /\ ErrorFollows' /\ AskedFollows'
    BY <1>1, <1>2, <2>1, <2>3 DEF SessionInv, ExchangeFollows, ErrorFollows,
       AskedFollows, Leaves, daemonVars, held
  <2>8. RegistrationFollows'
    <3>1. next = "running" =>
            \/ client = "beating"
            \/ client = "registering" /\ answer.result = Accepted
      <4>1. CASE client = "registering"
        BY <4>1 DEF Answered
      <4>2. CASE client \in {"unregistering", "asking"}
        BY <4>2 DEF Answered
      <4> QED
        BY <1>2, <4>1, <4>2
    <3> QED
      BY <1>1, <1>2, <2>1, <2>2, <3>1 DEF SessionInv, RegistrationFollows,
         RegisterAccepted, daemonVars, held
  <2> QED
    BY <2>4, <2>5, <2>6, <2>7, <2>8 DEF SessionInv
<1>5. CASE ~(answer.to = sent /\ answer.result # Garbled)
  <2>1. /\ Retire /\ client' = Failed
        /\ error' \in {Garbled, ResponseViolation}
    BY <1>1, <1>5 DEF Receive
  <2>2. /\ error' \in Errors /\ error' # ShuttingDown /\ ~error'.retryable
    BY <2>1, LocalErrorsAre DEF Garbled, ResponseViolation, ResponseDecodeError,
       Local
  <2> QED
    BY <1>1, <2>1, <2>2, Retires DEF Failed
<1> QED
  BY <1>4, <1>5

LEMMA ReceivesHello ==
  ASSUME TypeOK, SessionInv, ReceiveHello
  PROVE  TypeOK' /\ SessionInv'
<1> DEFINE answer == Head(toClient).result
<1>1. /\ session = "connecting" /\ toClient # <<>> /\ Tail(toClient) = <<>>
      /\ answer \in Results
      /\ UNCHANGED <<program, stopping, sent, toDaemon, daemonClosed, daemonVars>>
  BY Wire DEF ReceiveHello, Answers, Answer
<1>2. /\ toDaemon = <<>> /\ handler \in {"open", "closed"} /\ sent = None
      /\ client = "attaching" /\ ~asked /\ worker = "none"
  BY <1>1 DEF SessionInv, OneAtATime, HelloFollows, ClientFollows, TypeOK
<1>3. CASE UNCHANGED <<client, clientClosed, error>>
  <2>1. /\ session' = "usable" /\ toClient' = <<>>
        /\ UNCHANGED <<client, clientClosed, error>>
    BY <1>1, <1>3 DEF ReceiveHello, Retire, SessionInv, EndsFollow
  <2>2. TypeOK'
    BY <1>1, <2>1, FrameWritten DEF TypeOK, daemonVars, held
  <2> QED
    BY <1>1, <1>2, <2>1, <2>2 DEF SessionInv, WorkerFollows, EndsFollow, OneAtATime,
       ClientFollows, SentFollows, HelloFollows, ExchangeFollows, ErrorFollows,
       AskedFollows, RegistrationFollows, RegisterAccepted, daemonVars, held
<1>4. CASE ~UNCHANGED <<client, clientClosed, error>>
  <2>1. /\ Retire /\ client' \in {"done", "failed"}
        /\ error' \in {error, StaleHandshake, answer}
    BY <1>1, <1>4 DEF ReceiveHello, Unattached
  <2>2. error' \in Errors
    BY <1>1, <2>1, LocalErrorsAre, ResultsAre DEF TypeOK
  <2> QED
    BY <1>1, <1>2, <2>1, <2>2, Retires
<1> QED
  BY <1>3, <1>4

LEMMA ClientSteps ==
  ASSUME TypeOK, SessionInv, ClientNext
  PROVE  TypeOK' /\ SessionInv'
<1>1. CASE ReceiveHello \/ Receive
  BY <1>1, ReceivesHello, Receives
<1>2. CASE HandshakeFails
  <2>1. error' \in {ConnectionTimeout} \cup HandshakeErrors
    BY <1>2 DEF HandshakeFails
  <2>2. error' \in Errors /\ error' # ShuttingDown
    BY <2>1, LocalErrorsAre
  <2> QED
    BY <1>2, <2>2, Retires DEF HandshakeFails, Unattached, SessionInv, ClientFollows
<1>3. CASE RegisterTooLarge
  BY <1>3, LocalErrorsAre, Retires DEF RegisterTooLarge, SessionInv, ClientFollows
<1>4. CASE Ask \/ Register \/ Beat \/ Unregister
  BY <1>4, Sends, RequestsAssumption DEF Ask, Register, Beat, Unregister,
     Operations, Unary
<1>5. CASE Interrupt
  <2>1. TypeOK'
    BY <1>5 DEF Interrupt, TypeOK, wireVars, daemonVars, held
  <2> QED
    BY <1>5, <2>1 DEF Interrupt, wireVars, daemonVars, held, SessionInv,
       WorkerFollows, EndsFollow, OneAtATime, ClientFollows, SentFollows,
       HelloFollows, ExchangeFollows, ErrorFollows, AskedFollows,
       RegistrationFollows, RegisterAccepted
<1>6. CASE UnregisterUnusable
  <2>1. /\ SessionClosed \in Errors /\ SessionClosed # ShuttingDown
        /\ sent.op = "heartbeat"
    BY <1>6, LocalErrorsAre DEF UnregisterUnusable, SessionInv, SentFollows
  <2>2. TypeOK'
    BY <1>6, <2>1 DEF UnregisterUnusable, TypeOK, wireVars, daemonVars, held
  <2> QED
    BY <1>6, <2>1, <2>2 DEF UnregisterUnusable, wireVars, daemonVars, held,
       SessionInv, WorkerFollows, EndsFollow, OneAtATime, ClientFollows,
       SentFollows, HelloFollows, ExchangeFollows, ErrorFollows, AskedFollows,
       RegistrationFollows, Once
<1>7. CASE ExchangeFails
  <2>1. session = "exchanging" /\ sent # None /\ sent.op \in Operations
    BY <1>7 DEF ExchangeFails, SessionInv, ExchangeFollows, TypeOK, Request
  <2>2. /\ error' \in Errors /\ error' # ShuttingDown
        /\ error'.retryable => ~Once(sent.op)
    BY <1>7, <2>1, ExchangeErrorsAre DEF ExchangeFails
  <2> QED
    BY <1>7, <2>1, <2>2, Retires DEF ExchangeFails, Failed
<1>8. CASE Killed
  <2>1. CASE session # "retired"
    BY <1>8, <2>1, Retires DEF Killed, TypeOK, SessionInv, ErrorFollows,
       AskedFollows
  <2>2. CASE session = "retired"
    <3>1. TypeOK'
      BY <1>8, FrameWritten DEF Killed, Retire, TypeOK, daemonVars, held
    <3> QED
      BY <1>8, <2>2, <3>1 DEF Killed, Retire, daemonVars, held, SessionInv,
         WorkerFollows, EndsFollow, OneAtATime, ClientFollows, SentFollows,
         HelloFollows, ExchangeFollows, ErrorFollows, AskedFollows,
         RegistrationFollows
  <2> QED
    BY <2>1, <2>2
<1> QED
  BY <1>1, <1>2, <1>3, <1>4, <1>5, <1>6, <1>7, <1>8 DEF ClientNext

-----------------------------------------------------------------------------
(* The connection handler.                                                 *)

(* The supervision of a request ends, with an answer or without one.       *)
LEMMA Ends ==
  ASSUME TypeOK, SessionInv, handler = "busy",
         \/ job' = None /\ worker' = "none"
         \/ job' = job /\ worker' = "revoked" /\ handler' = "closed",
         handler' \in {"open", "closed"},
         daemonClosed' \in BOOLEAN, daemonClosed' <=> handler' = "closed",
         \/ toClient' = toClient
         \/ \E result \in Results :
              /\ Write(job, result)
              /\ result.retryable => ~Once(job.op)
              /\ asked => result # ShuttingDown
              /\ result = Accepted /\ handler' = "open" => worker = "accepted",
         asked => handler' = "closed",
         UNCHANGED <<clientVars, toDaemon, clientClosed, held>>
  PROVE  TypeOK' /\ SessionInv'
<1> USE DEF clientVars, held
<1>1. /\ toDaemon = <<>> /\ toClient = <<>> /\ job \in Request /\ job # None
      /\ session \in {"exchanging", "retired"}
  BY DEF SessionInv, OneAtATime, WorkerFollows, HelloFollows, TypeOK
<1> DEFINE Fits(result) ==
             /\ result.retryable => ~Once(job.op)
             /\ asked => result # ShuttingDown
             /\ result = Accepted /\ handler' = "open" => worker = "accepted"
<1>2. /\ toClient' \in Seq(Answers) /\ Len(toClient') <= 1
      /\ toClient' # <<>> => ~clientClosed /\ Fits(Head(toClient').result)
  <2>1. CASE toClient' = toClient
    BY <1>1, <2>1, FrameWritten
  <2>2. CASE toClient' # toClient
    <3>1. PICK result \in Results : Write(job, result) /\ Fits(result)
      BY <2>2
    <3>2. /\ toClient' = IF clientClosed THEN <<>> ELSE <<Answer(job, result)>>
          /\ toClient' \in Seq(Answers) /\ Len(toClient') <= 1
      BY <1>1, <3>1, Written
    <3>3. ~clientClosed => Head(toClient').result = result
      BY <3>2, FrameWritten DEF Answer
    <3> QED
      BY <3>1, <3>2, <3>3
  <2> QED
    BY <2>1, <2>2
<1>3. TypeOK'
  BY <1>1, <1>2, FrameWritten DEF TypeOK, Answers
<1>4. WorkerFollows' /\ EndsFollow' /\ OneAtATime' /\ ClientFollows'
  BY <1>1, <1>2 DEF SessionInv, WorkerFollows, EndsFollow, OneAtATime, ClientFollows
<1>5. SentFollows' /\ HelloFollows' /\ ErrorFollows' /\ AskedFollows'
  BY <1>1 DEF SessionInv, SentFollows, HelloFollows, ErrorFollows, AskedFollows
<1>6. ExchangeFollows'
  BY <1>1, <1>2 DEF SessionInv, ExchangeFollows
<1>7. RegistrationFollows'
  BY <1>1, <1>2 DEF SessionInv, RegistrationFollows, RegisterAccepted
<1> QED
  BY <1>3, <1>4, <1>5, <1>6, <1>7 DEF SessionInv

LEMMA EndingSteps ==
  ASSUME TypeOK, SessionInv,
         Reply \/ ReplyFails \/ GiveUp \/ GiveUpLate \/ GiveUpUnary
  PROVE  TypeOK' /\ SessionInv'
<1> USE DEF JobEnds, Closes, Stays
<1>1. handler = "busy"
  BY DEF Reply, ReplyFails, GiveUp, GiveUpLate, GiveUpUnary
<1>2. /\ job \in Request /\ job.op \in Operations
      /\ asked => job.op = "shutdown" /\ worker = "accepted"
  BY <1>1 DEF SessionInv, AskedFollows, WorkerFollows, TypeOK, Request
<1>3. CASE Reply
  <2>1. /\ Result \in Results /\ ~Result.retryable /\ Result # ShuttingDown
        /\ Result = Accepted => worker = "accepted"
    BY ResultsAre DEF Result
  <2>2. /\ handler' \in {"open", "closed"}
        /\ daemonClosed' <=> handler' = "closed"
        /\ asked => handler' = "closed"
    BY <1>1, <1>2, <1>3 DEF Reply, SessionInv, EndsFollow
  <2>5. daemonClosed' \in BOOLEAN
    <3>1. daemonClosed' = TRUE \/ daemonClosed' = daemonClosed
      BY <1>3, Zenon DEF Reply
    <3>2. daemonClosed \in BOOLEAN
      BY DEF TypeOK
    <3> QED
      BY <3>1, <3>2, Zenon
  <2>3. /\ Write(job, Result) /\ JobEnds
        /\ UNCHANGED <<clientVars, toDaemon, clientClosed, held>>
    BY <1>3 DEF Reply
  <2>4. \E result \in Results :
          /\ Write(job, result)
          /\ result.retryable => ~Once(job.op)
          /\ asked => result # ShuttingDown
          /\ result = Accepted /\ handler' = "open" => worker = "accepted"
    BY <2>1, <2>3
  <2> QED
    BY <1>1, <2>2, <2>3, <2>4, <2>5, Ends
<1>4. CASE ReplyFails
  BY <1>1, <1>2, <1>4, Ends DEF ReplyFails
<1>5. CASE GiveUp
  <2>1. ~asked
    BY <1>2, <1>5 DEF GiveUp
  <2>2. \E result \in {ShuttingDown, OperationTimeout(job.op)} : Write(job, result)
    BY <1>5 DEF GiveUp
  <2>3. \A result \in {ShuttingDown, OperationTimeout(job.op)} :
          result \in Results /\ (result.retryable => ~Once(job.op))
    BY <1>2, ResultsAre
  <2> QED
    BY <1>1, <1>5, <2>1, <2>2, <2>3, Ends DEF GiveUp
<1>6. CASE GiveUpLate
  <2>1. Result \in Results /\ ~Result.retryable /\ Result # ShuttingDown
    BY ResultsAre DEF Result
  <2> QED
    BY <1>1, <1>2, <1>6, <2>1, Ends DEF GiveUpLate
<1>7. CASE GiveUpUnary
  <2>1. \E result \in {ShuttingDown, OperationTimeout(job.op), Garbled} :
          Write(job, result) /\ (result = ShuttingDown => job.op # "shutdown")
    BY <1>7, ResultsAre DEF GiveUpUnary, Drains
  <2>2. \A result \in {ShuttingDown, OperationTimeout(job.op), Garbled} :
          result \in Results /\ (result.retryable => ~Once(job.op))
    BY <1>2, ResultsAre
  <2> QED
    BY <1>1, <1>2, <1>7, <2>1, <2>2, Ends DEF GiveUpUnary
<1> QED
  BY <1>3, <1>4, <1>5, <1>6, <1>7

(* It reads what is on the wire, and answers it at once or supervises it.  *)
LEMMA ReadingSteps ==
  ASSUME TypeOK, SessionInv, RefuseDrained \/ DenyRequest \/ Supervise
  PROVE  TypeOK' /\ SessionInv'
<1> USE DEF Closes, Stays, clientVars, held
<1>1. PICK request \in Request :
        /\ Reads(request)
        /\ \/ /\ \/ Write(request, ShuttingDown) /\ Closes
                 \/ Write(request, AccessDenied) /\ Stays("open")
              /\ UNCHANGED <<job, worker>>
           \/ /\ job' = request /\ worker' = "running"
              /\ Stays("busy") /\ UNCHANGED toClient
  BY DEF RefuseDrained, DenyRequest, Supervise
<1>2. /\ handler = "open" /\ toDaemon = <<request>> /\ toDaemon' = <<>>
      /\ toClient = <<>> /\ worker = "none" /\ job = None /\ ~asked
      /\ request # None
      /\ UNCHANGED <<clientVars, clientClosed, held>>
  <2>1. /\ handler = "open" /\ toDaemon # <<>> /\ request = Head(toDaemon)
        /\ toDaemon' = Tail(toDaemon)
        /\ UNCHANGED <<clientVars, clientClosed, held>>
    BY <1>1 DEF Reads
  <2>2. /\ toClient = <<>> /\ worker = "none" /\ job = None /\ ~asked
    BY <2>1 DEF SessionInv, OneAtATime, WorkerFollows, AskedFollows, TypeOK
  <2> QED
    BY <2>1, <2>2, Wire, NoneAssumption DEF Request
<1>3. /\ session \in {"exchanging", "retired"}
      /\ session = "exchanging" => request = sent
  BY <1>2, FrameWritten DEF TypeOK, SessionInv, OneAtATime, ExchangeFollows,
     HelloFollows
<1>4. CASE handler' = "busy"
  <2>1. job' = request /\ worker' = "running" /\ UNCHANGED <<toClient, daemonClosed>>
    BY <1>1, <1>4
  <2>2. TypeOK'
    BY <1>2, <1>4, <2>1, FrameWritten DEF TypeOK
  <2> QED
    BY <1>2, <1>3, <1>4, <2>1, <2>2 DEF SessionInv, WorkerFollows, EndsFollow,
       OneAtATime, ClientFollows, SentFollows, HelloFollows, ExchangeFollows,
       ErrorFollows, AskedFollows, RegistrationFollows, RegisterAccepted
<1>5. CASE handler' # "busy"
  <2>1. PICK result \in {ShuttingDown, AccessDenied} : Write(request, result)
    BY <1>1, <1>5
  <2>2. /\ toClient' = (IF clientClosed THEN <<>> ELSE <<Answer(request, result)>>)
        /\ toClient' \in Seq(Answers) /\ Len(toClient') <= 1
        /\ ~result.retryable /\ result # Accepted
    BY <1>2, <2>1, Written, ResultsAre
  <2>3. /\ toClient' # <<>> => Head(toClient').result = result
    BY <2>2, FrameWritten DEF Answer
  <2>4. /\ handler' \in {"open", "closed"} /\ UNCHANGED <<job, worker>>
        /\ daemonClosed' <=> handler' = "closed"
    BY <1>1, <1>2, <1>5 DEF SessionInv, EndsFollow
  <2>6. daemonClosed' \in BOOLEAN
    <3>1. daemonClosed' = TRUE \/ daemonClosed' = daemonClosed
      BY <1>1, <1>5, Zenon
    <3>2. daemonClosed \in BOOLEAN
      BY DEF TypeOK
    <3> QED
      BY <3>1, <3>2, Zenon
  <2>5. TypeOK'
    BY <1>2, <2>2, <2>4, <2>6, FrameWritten DEF TypeOK, Answers
  <2> QED
    BY <1>2, <1>3, <2>2, <2>3, <2>4, <2>5 DEF SessionInv, WorkerFollows, EndsFollow,
       OneAtATime, ClientFollows, SentFollows, HelloFollows, ExchangeFollows,
       ErrorFollows, AskedFollows, RegistrationFollows, RegisterAccepted
<1> QED
  BY <1>4, <1>5

LEMMA OtherDaemonSteps ==
  ASSUME TypeOK, SessionInv,
         CloseIdle \/ Work \/ Dispatch \/ WorkerEnds \/ Cleanup \/ BeginDrain
  PROVE  TypeOK' /\ SessionInv'
<1> USE DEF clientVars, wireVars, held, Closes, JobEnds
<1> DEFINE Inv == WorkerFollows /\ EndsFollow /\ OneAtATime /\ ClientFollows
                    /\ SentFollows /\ HelloFollows
<1>1. CASE CloseIdle
  <2>1. TypeOK'
    BY <1>1 DEF CloseIdle, TypeOK
  <2> QED
    BY <1>1, <2>1 DEF CloseIdle, SessionInv, WorkerFollows, EndsFollow,
       OneAtATime, ClientFollows, SentFollows, HelloFollows, ExchangeFollows,
       ErrorFollows, AskedFollows, RegistrationFollows, RegisterAccepted
<1>2. CASE Work
  <2>1. TypeOK'
    <3>1. CASE worker' = "accepted" /\ job.op = "unregister"
      BY <1>2, <3>1 DEF Work, TypeOK
    <3>2. CASE worker' = "accepted" /\ job.op # "unregister"
      BY <1>2, <3>2 DEF Work, TypeOK
    <3>3. CASE worker' = "refused"
      BY <1>2, <3>3 DEF Work, TypeOK
    <3> QED
      BY <1>2, <3>1, <3>2, <3>3 DEF Work
  <2>2. Inv'
    BY <1>2 DEF Work, SessionInv, WorkerFollows, EndsFollow, OneAtATime,
       ClientFollows, SentFollows, HelloFollows
  <2>3. ExchangeFollows' /\ ErrorFollows' /\ AskedFollows'
    BY <1>2 DEF Work, SessionInv, ExchangeFollows, ErrorFollows, AskedFollows
  <2>4. RegistrationFollows'
    <3>1. CASE worker' = "refused"
      BY <1>2, <3>1 DEF Work, SessionInv, RegistrationFollows, RegisterAccepted,
         ExchangeFollows, SentFollows, WorkerFollows, OneAtATime
    <3>2. CASE worker' = "accepted" /\ job.op # "unregister"
      <4>1. registered' /\ owned'  /\ registered' = owned'
        BY <1>2, <3>2 DEF Work
      <4> QED
        BY <4>1 DEF RegistrationFollows
    <3>3. CASE worker' = "accepted" /\ job.op = "unregister"
      <4>1. /\ registered' = FALSE /\ owned' = FALSE
            /\ handler = "busy" /\ UNCHANGED <<client, session, handler, sent>>
        BY <1>2, <3>3 DEF Work, SessionInv, WorkerFollows
      <4>2. session = "exchanging" => client = "unregistering"
        BY <3>3, <4>1 DEF SessionInv, ExchangeFollows, ClientFollows, SentFollows, Unary
      <4> QED
        BY <4>1, <4>2 DEF RegistrationFollows, RegisterAccepted, SessionInv, OneAtATime
    <3> QED
      BY <1>2, <3>1, <3>2, <3>3 DEF Work
  <2> QED
    BY <2>1, <2>2, <2>3, <2>4 DEF SessionInv
<1>3. CASE Dispatch
  <2>1. TypeOK'
    BY <1>3 DEF Dispatch, TypeOK
  <2>2. Inv'
    BY <1>3 DEF Dispatch, SessionInv, WorkerFollows, EndsFollow, OneAtATime,
       ClientFollows, SentFollows, HelloFollows
  <2>3. ExchangeFollows' /\ ErrorFollows' /\ AskedFollows'
    BY <1>3 DEF Dispatch, SessionInv, ExchangeFollows, ErrorFollows, AskedFollows,
       OneAtATime, WorkerFollows
  <2>4. RegistrationFollows'
    BY <1>3 DEF Dispatch, SessionInv, RegistrationFollows, RegisterAccepted,
       ExchangeFollows, SentFollows, WorkerFollows, OneAtATime, Unary
  <2> QED
    BY <2>1, <2>2, <2>3, <2>4 DEF SessionInv
<1>4. CASE WorkerEnds
  <2>1. TypeOK'
    BY <1>4 DEF WorkerEnds, TypeOK
  <2> QED
    BY <1>4, <2>1 DEF WorkerEnds, SessionInv, WorkerFollows, EndsFollow,
       OneAtATime, ClientFollows, SentFollows, HelloFollows, ExchangeFollows,
       ErrorFollows, AskedFollows, RegistrationFollows, RegisterAccepted
<1>6. CASE Cleanup
  <2>1. TypeOK'
    <3>1. registered' \in BOOLEAN /\ owned' \in BOOLEAN
      BY <1>6, Zenon DEF Cleanup
    <3> QED
      BY <1>6, <3>1 DEF Cleanup, TypeOK
  <2> QED
    BY <1>6, <2>1 DEF Cleanup, SessionInv, WorkerFollows, EndsFollow,
       OneAtATime, ClientFollows, SentFollows, HelloFollows, ExchangeFollows,
       ErrorFollows, AskedFollows, RegistrationFollows, RegisterAccepted
<1>5. CASE BeginDrain
  <2>1. TypeOK'
    BY <1>5 DEF BeginDrain, TypeOK
  <2> QED
    BY <1>5, <2>1 DEF BeginDrain, SessionInv, WorkerFollows, EndsFollow,
       OneAtATime, ClientFollows, SentFollows, HelloFollows, ExchangeFollows,
       ErrorFollows, AskedFollows, RegistrationFollows, RegisterAccepted
<1> QED
  BY <1>1, <1>2, <1>3, <1>4, <1>5, <1>6

LEMMA AcceptsHello ==
  ASSUME TypeOK, SessionInv, AcceptHello
  PROVE  TypeOK' /\ SessionInv'
<1> USE DEF clientVars, held, Closes, Stays
<1>1. PICK peer \in Peers : toDaemon = <<Hello(peer)>>
  BY DEF AcceptHello, SessionInv, HelloFollows
<1>2. /\ handler = "handshake" /\ Head(toDaemon).hello = peer
      /\ toDaemon' = <<>> /\ toClient = <<>> /\ worker = "none" /\ ~asked
      /\ UNCHANGED <<clientVars, clientClosed, job, worker, held>>
  BY <1>1 DEF AcceptHello, Hello, SessionInv, OneAtATime, WorkerFollows,
     AskedFollows, TypeOK
<1>3. \E result \in Results :
        /\ Write(None, result)
        /\ \/ handler' = "closed" /\ daemonClosed'
           \/ handler' = "open" /\ UNCHANGED daemonClosed
  BY <1>1, <1>2, PeersAssumption DEF AcceptHello, Results
<1>4. toClient' \in Seq(Answers) /\ Len(toClient') <= 1 /\ (clientClosed => toClient' = <<>>)
  BY <1>2, <1>3, Written
<1>6. daemonClosed' \in BOOLEAN
  <2>1. daemonClosed' = TRUE \/ daemonClosed' = daemonClosed
    BY <1>1, <1>2, PeersAssumption, Zenon DEF AcceptHello
  <2>2. daemonClosed \in BOOLEAN
    BY DEF TypeOK
  <2> QED
    BY <2>1, <2>2, Zenon
<1>5. TypeOK'
  BY <1>2, <1>3, <1>4, <1>6, FrameWritten DEF TypeOK, Answers
<1> QED
  BY <1>2, <1>3, <1>4, <1>5 DEF SessionInv, WorkerFollows, EndsFollow,
     OneAtATime, ClientFollows, SentFollows, HelloFollows, ExchangeFollows,
     ErrorFollows, AskedFollows, RegistrationFollows, RegisterAccepted

(* The daemon dies, and another client comes when all is over.             *)
LEMMA EndSteps ==
  ASSUME TypeOK, SessionInv, DaemonGone \/ Again
  PROVE  TypeOK' /\ SessionInv'
<1>1. CASE DaemonGone
  <2> USE DEF DaemonGone, JobEnds, clientVars
  <2>1. /\ registered' \in BOOLEAN /\ owned' \in BOOLEAN
        /\ daemonClosed' \in BOOLEAN
    BY <1>1, Zenon
  <2>2. TypeOK'
    BY <1>1, <2>1, FrameWritten DEF TypeOK
  <2> QED
    BY <1>1, <2>2 DEF SessionInv, WorkerFollows, EndsFollow, OneAtATime,
       ClientFollows, SentFollows, HelloFollows, ExchangeFollows, ErrorFollows,
       AskedFollows, RegistrationFollows, RegisterAccepted
<1>2. CASE Again
  <2>1. PICK peer \in Peers : toDaemon' = <<Hello(peer)>>
    BY <1>2 DEF Again
  <2>2. /\ toDaemon' \in Seq(Frames) /\ Len(toDaemon') <= 1
        /\ toClient' = <<>> /\ toClient' \in Seq(Answers) /\ Len(toClient') <= 1
    BY <1>2, <2>1, FrameWritten DEF Again, Frames
  <2>3. /\ {stopping', clientClosed', daemonClosed', asked', drained'} \subseteq BOOLEAN
    BY <1>2, Zenon DEF Again
  <2>4. NoError \in Errors /\ NoError # ShuttingDown /\ ~NoError.retryable
    BY ResultsAre DEF Accepted
  <2>5. TypeOK'
    BY <1>2, <2>2, <2>3, <2>4 DEF Again, TypeOK, Frames, Answers
  <2> QED
    BY <1>2, <2>1, <2>4, <2>5 DEF Again, SessionInv, WorkerFollows, EndsFollow,
       OneAtATime, ClientFollows, SentFollows, HelloFollows, ExchangeFollows,
       ErrorFollows, AskedFollows, RegistrationFollows, RegisterAccepted, TypeOK
<1> QED
  BY <1>1, <1>2

LEMMA SessionBegins == Init => TypeOK /\ SessionInv
<1> SUFFICES ASSUME Init PROVE TypeOK /\ SessionInv
  OBVIOUS
<1>1. PICK peer \in Peers : toDaemon = <<Hello(peer)>>
  BY DEF Init
<1>2. /\ toDaemon \in Seq(Frames) /\ Len(toDaemon) <= 1
      /\ toClient = <<>> /\ toClient \in Seq(Answers) /\ Len(toClient) <= 1
  BY <1>1, FrameWritten DEF Init, Frames
<1>3. {stopping, clientClosed, daemonClosed, registered, owned, asked, drained}
        \subseteq BOOLEAN
  BY Zenon DEF Init
<1>4. NoError \in Errors /\ NoError # ShuttingDown /\ ~NoError.retryable
  BY ResultsAre DEF Accepted
<1>5. TypeOK
  BY <1>2, <1>3, <1>4 DEF Init, TypeOK, Frames, Answers
<1> QED
  BY <1>1, <1>4, <1>5 DEF Init, SessionInv, WorkerFollows, EndsFollow,
     OneAtATime, ClientFollows, SentFollows, HelloFollows, ExchangeFollows,
     ErrorFollows, AskedFollows, RegistrationFollows, RegisterAccepted

LEMMA SessionStutters ==
  ASSUME TypeOK, SessionInv, UNCHANGED vars
  PROVE  TypeOK' /\ SessionInv'
<1>1. TypeOK'
  BY DEF TypeOK, vars
<1> QED
  BY <1>1 DEF vars, SessionInv, WorkerFollows, EndsFollow, OneAtATime,
     ClientFollows, SentFollows, HelloFollows, ExchangeFollows, ErrorFollows,
     AskedFollows, RegistrationFollows, RegisterAccepted

-----------------------------------------------------------------------------
(* Where a client, its connection and the request between them can be in   *)
(* relation to each other, whatever fails on either side                   *)
(* (ipc/client/protocol.rs, ipc/connection.rs, ipc/supervision.rs).        *)
THEOREM SessionInvariant == Spec => [](TypeOK /\ SessionInv)
<1>1. Init => TypeOK /\ SessionInv
  BY SessionBegins
<1>2. TypeOK /\ SessionInv /\ [Next]_vars => TypeOK' /\ SessionInv'
  BY ClientSteps, ReadingSteps, AcceptsHello, EndingSteps, OtherDaemonSteps,
     EndSteps, SessionStutters DEF Next, DaemonStep
<1> QED
  BY <1>1, <1>2, PTL DEF Spec

(* A session that may be used again reads the answer to its next request   *)
(* and no other, whatever deadline has passed or process has died before   *)
(* (CadderSession, in ipc/client.rs; handle_connection_loop).              *)
THEOREM UsableIsCleanThm == Spec => []UsableIsClean
<1>1. TypeOK /\ SessionInv => UsableIsClean
  BY DEF TypeOK, SessionInv, OneAtATime, WorkerFollows, UsableIsClean
<1> QED
  BY <1>1, SessionInvariant, PTL

(* A client may believe what its session told it: that it is registered,   *)
(* that what it leaves behind is cleaned up, that a retry is safe, and     *)
(* that its shutdown was not refused by the drain it began                 *)
(* (cadder-shim/main.rs, run_managed_until; ipc_client_error.rs;           *)
(* ipc/supervision.rs, wait_for_request_drain).                            *)
THEOREM ClientIsRightThm == Spec => []ClientIsRight
<1>1. TypeOK /\ SessionInv => ClientIsRight
  BY DEF SessionInv, RegistrationFollows, RegisterAccepted, ErrorFollows,
     AskedFollows, Once, ClientIsRight
<1> QED
  BY <1>1, SessionInvariant, PTL
=============================================================================
