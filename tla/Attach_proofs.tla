--------------------------- MODULE Attach_proofs ----------------------------
(***************************************************************************)
(* Proofs about Attach, for every number of daemons and clients, whatever  *)
(* the clients want and whatever may go wrong.                             *)
(***************************************************************************)
EXTENDS Attach, TLAPS

-----------------------------------------------------------------------------
(* Types.                                                                  *)

(* A restart that still asks has not counted to the end.                   *)
CountsOn ==
  \A c \in Clients : client[c] = "confirm" => confirmed[c] < Confirmations

LEMMA UnavailableIsNoAnswer == Unavailable # Connected
  BY DEF Unavailable, Connected, ConnectionError, NotReadyKinds, NoError,
     Local, Daemon

LEMMA DaemonKeepsTypes ==
  ASSUME TypeOK, DaemonNext PROVE TypeOK'
<1> PICK d \in Daemons :
      \/ AcquireLock(d) \/ Bind(d) \/ BindFails(d) \/ CheckListener(d)
      \/ RemoveStaleSocket(d) \/ Rebind(d) \/ LoserLeaves(d) \/ StartFails(d)
      \/ Serve(d) \/ Drain(d) \/ Exit(d) \/ Crash(d)
      \/ \E c \in Clients : Accept(d, c)
  BY DEF DaemonNext
<1> USE DEF TypeOK, Alive, Claiming, Listening, Becomes, Gone, clientVars,
        daemonVars
<1>1. CASE AcquireLock(d) \/ Bind(d) \/ BindFails(d)
  BY <1>1 DEF AcquireLock, Bind, BindFails
<1>2. CASE CheckListener(d) \/ RemoveStaleSocket(d) \/ Rebind(d)
  BY <1>2 DEF CheckListener, RemoveStaleSocket, Rebind
<1>3. CASE LoserLeaves(d) \/ StartFails(d) \/ Serve(d)
  BY <1>3 DEF LoserLeaves, StartFails, Serve
<1>4. CASE Drain(d) \/ Exit(d) \/ Crash(d)
  BY <1>4 DEF Drain, Exit, Crash
<1>5. CASE \E c \in Clients : Accept(d, c)
  <2> PICK c \in Clients : Accept(d, c)
    BY <1>5
  <2>1. conn[c] = [to |-> d, at |-> "queued"]
        /\ conn' = [conn EXCEPT ![c].at = "accepted"]
    BY DEF Accept
  <2>2. [conn[c] EXCEPT !.at = "accepted"] = [to |-> d, at |-> "accepted"]
    BY <2>1
  <2>3. conn' = [conn EXCEPT ![c] = [to |-> d, at |-> "accepted"]]
    BY <2>1, <2>2
  <2>4. conn' \in [Clients -> Connections]
    BY <2>3 DEF Connections, Open
  <2> QED
    BY <2>4 DEF Accept
<1> QED
  BY <1>1, <1>2, <1>3, <1>4, <1>5

(* The variables of a client after an attempt that ends.                   *)
LEMMA EndsTypes ==
  ASSUME TypeOK, CountsOn, NEW c \in Clients, NEW result, Ends(c, result),
         result = Connected => conn[c] # None
  PROVE  /\ client' \in
              [Clients -> Connecting \cup {"none", "spawn", "ready", "failed"}]
         /\ goal' \in [Clients -> Goals \cup {None}]
         /\ conn' \in [Clients -> Connections]
         /\ confirmed' \in [Clients -> 0..Confirmations]
         /\ stopped' \in [Clients -> Daemons \cup {None}]
         /\ CountsOn'
<1> USE ConfirmationsAssumption DEF TypeOK, CountsOn, Connecting
<1>1. goal' = goal /\ conn' \in [Clients -> Connections]
  BY DEF Ends, Connections
<1>2. CASE AttemptEnds(c, result)
  BY <1>1, <1>2 DEF AttemptEnds, AfterAttach, AfterProbe
<1>3. CASE StopEnds(c, result)
  <2>1. result = Connected => conn[c].to \in Daemons
    BY DEF Connections, Open
  <2> QED
    BY <1>1, <1>3, <2>1 DEF StopEnds
<1>4. CASE ConfirmEnds(c, result)
  <2> DEFINE count == IF result = Connected THEN 0 ELSE confirmed[c] + 1
  <2>1. client[c] = "confirm" /\ count \in 0..Confirmations
    BY <1>4 DEF ConfirmEnds
  <2>2. CASE result = Connected \/ SaysStopped(result)
    <3>1. confirmed' = [confirmed EXCEPT ![c] = count]
      BY <1>4, <2>2 DEF ConfirmEnds
    <3>2. client' = [client EXCEPT ![c] =
                       IF count = Confirmations THEN "probe" ELSE "confirm"]
      BY <1>4, <2>2 DEF ConfirmEnds
    <3>3. stopped' = stopped
      BY <1>4, <2>2 DEF ConfirmEnds
    <3> HIDE DEF count
    <3> QED
      BY <1>1, <2>1, <3>1, <3>2, <3>3
  <2>3. CASE ~(result = Connected \/ SaysStopped(result))
    BY <1>1, <1>4, <2>3 DEF ConfirmEnds
  <2> QED
    BY <2>2, <2>3
<1> QED
  BY <1>2, <1>3, <1>4 DEF Ends

LEMMA ClientKeepsTypes ==
  ASSUME TypeOK, CountsOn, ClientNext PROVE TypeOK' /\ CountsOn'
<1> PICK c \in Clients :
      \/ Begin(c) \/ ClientStep(c) \/ StopAnswerLost(c) \/ SpawnFails(c)
      \/ RunsOut(c) \/ Leave(c)
  BY DEF ClientNext
<1> USE ConfirmationsAssumption DEF daemonVars
<1>1. CASE Begin(c)
  BY <1>1, GoalsAssumption DEF Begin, TypeOK, CountsOn, Connecting
<1>2. CASE Connect(c)
  <2>1. CASE Live(socket)
    BY <1>2, <2>1 DEF Connect, Live, TypeOK, CountsOn,
       Connections, Open
  <2>2. CASE ~Live(socket)
    <3>1. Ends(c, Unavailable)
      BY <1>2, <2>2 DEF Connect
    <3> QED
      BY <1>2, <3>1, EndsTypes, UnavailableIsNoAnswer DEF Connect, TypeOK
  <2> QED
    BY <2>1, <2>2
<1>3. CASE Answer(c)
  <2>1. PICK result : Ends(c, result)
    BY <1>3 DEF Answer
  <2> QED
    BY <1>3, <2>1, EndsTypes DEF Answer, TypeOK, Alive, Listening
<1>4. CASE StopAnswerLost(c)
  BY <1>4, EndsTypes DEF StopAnswerLost, Becomes, TypeOK, Alive, Listening
<1>5. CASE DeadlinePasses(c)
  BY <1>5, EndsTypes DEF DeadlinePasses, TypeOK
<1>6. CASE ConnectionDies(c)
  BY <1>6, EndsTypes DEF ConnectionDies, TypeOK
<1>7. CASE Spawn(c)
  BY <1>7 DEF Spawn, Becomes, TypeOK, CountsOn, Alive, Connecting
<1>8. CASE SpawnFails(c)
  BY <1>8 DEF SpawnFails, TypeOK, CountsOn
<1>9. CASE RunsOut(c)
  BY <1>9 DEF RunsOut, TypeOK, CountsOn
<1>10. CASE Leave(c)
  BY <1>10 DEF Leave, TypeOK, CountsOn
<1> QED
  BY <1>1, <1>2, <1>3, <1>4, <1>5, <1>6, <1>7, <1>8, <1>9, <1>10
     DEF ClientStep

LEMMA TypesStep ==
  ASSUME TypeOK, CountsOn, [Next]_vars PROVE TypeOK' /\ CountsOn'
<1>1. CASE DaemonNext
  <2>1. client' = client /\ confirmed' = confirmed
    BY <1>1 DEF DaemonNext, AcquireLock, Bind, BindFails, CheckListener,
       RemoveStaleSocket, Rebind, LoserLeaves, StartFails, Serve, Drain,
       Exit, Crash, Accept, clientVars
  <2> QED
    BY <1>1, <2>1, DaemonKeepsTypes DEF CountsOn
<1>2. CASE ClientNext
  BY <1>2, ClientKeepsTypes
<1>3. CASE UNCHANGED vars
  BY <1>3 DEF vars, TypeOK, CountsOn
<1> QED
  BY <1>1, <1>2, <1>3 DEF Next

(* Daemons, clients and their connections stay well typed, and a restart   *)
(* stops counting at DAEMON_STOP_CONFIRMATIONS.                            *)
THEOREM AttachTypeCorrect == Spec => []TypeOK
<1>1. Init => TypeOK /\ CountsOn
  <2> SUFFICES ASSUME Init PROVE TypeOK /\ CountsOn
    OBVIOUS
  <2>1. 0 \in 0..Confirmations /\ None \in Connections
    BY ConfirmationsAssumption DEF Connections, Open
  <2> QED
    BY <2>1 DEF Init, TypeOK, CountsOn
<1>2. TypeOK /\ CountsOn /\ [Next]_vars => (TypeOK /\ CountsOn)'
  BY TypesStep
<1> QED
  BY <1>1, <1>2, PTL DEF Spec

-----------------------------------------------------------------------------
(* The claim.                                                              *)

(* A daemon claims under the lock.                                         *)
Locked ==
  \A d \in Daemons : daemon[d] \in Claiming \cup {"starting"} => lock = d

(* Nobody listens while a claimer has found the socket stale: whoever could*)
(* start to listen waits for the claimer's lock.                           *)
StaleForGood ==
  \A d, e \in Daemons :
    daemon[d] \in {"reclaiming", "rebinding"} => daemon[e] \notin Listening

ClaimInv == TypeOK /\ CountsOn /\ Locked /\ StaleForGood /\ OwnerIsReachable

(* A client moves no daemon in a way that matters to the claim: it starts a*)
(* process, or tells one that listens to stop.                             *)
LEMMA ClientsClaimNothing ==
  ASSUME TypeOK, ClientNext
  PROVE  /\ UNCHANGED <<lock, socket>>
         /\ \A d \in Daemons :
              \/ daemon'[d] = daemon[d]
              \/ daemon[d] = "none" /\ daemon'[d] = "spawned"
              \/ daemon[d] = "serving" /\ daemon'[d] = "stopping"
<1> PICK c \in Clients :
      \/ Begin(c) \/ ClientStep(c) \/ StopAnswerLost(c) \/ SpawnFails(c)
      \/ RunsOut(c) \/ Leave(c)
  BY DEF ClientNext
<1> USE DEF daemonVars, TypeOK, Becomes
<1>1. CASE Begin(c) \/ Connect(c) \/ DeadlinePasses(c) \/ ConnectionDies(c)
  BY <1>1 DEF Begin, Connect, DeadlinePasses, ConnectionDies
<1>2. CASE SpawnFails(c) \/ RunsOut(c) \/ Leave(c)
  BY <1>2 DEF SpawnFails, RunsOut, Leave
<1>3. CASE Answer(c)
  BY <1>3 DEF Answer
<1>4. CASE StopAnswerLost(c)
  BY <1>4 DEF StopAnswerLost
<1>5. CASE Spawn(c)
  BY <1>5 DEF Spawn, Fresh
<1> QED
  BY <1>1, <1>2, <1>3, <1>4, <1>5 DEF ClientStep

LEMMA DaemonsClaim ==
  ASSUME ClaimInv, DaemonNext
  PROVE  Locked' /\ StaleForGood' /\ OwnerIsReachable'
<1> PICK d \in Daemons :
      \/ AcquireLock(d) \/ Bind(d) \/ BindFails(d) \/ CheckListener(d)
      \/ RemoveStaleSocket(d) \/ Rebind(d) \/ LoserLeaves(d) \/ StartFails(d)
      \/ Serve(d) \/ Drain(d) \/ Exit(d) \/ Crash(d)
      \/ \E c \in Clients : Accept(d, c)
  BY DEF DaemonNext
<1> USE SlotsAssumption
    DEF ClaimInv, TypeOK, Locked, StaleForGood, OwnerIsReachable, Claiming,
        Listening, Becomes
<1>1. CASE AcquireLock(d)
  BY <1>1 DEF AcquireLock
<1>2. CASE Bind(d)
  BY <1>2 DEF Bind
<1>3. CASE BindFails(d)
  BY <1>3 DEF BindFails
<1>4. CASE CheckListener(d)
  BY <1>4 DEF CheckListener, Live
<1>5. ASSUME Gone(d) PROVE Locked' /\ StaleForGood' /\ OwnerIsReachable'
  BY <1>5 DEF Gone
<1>6. CASE RemoveStaleSocket(d)
  BY <1>5, <1>6 DEF RemoveStaleSocket
<1>7. CASE Rebind(d)
  BY <1>5, <1>7 DEF Rebind
<1>8. CASE LoserLeaves(d) \/ StartFails(d) \/ Exit(d) \/ Crash(d)
  BY <1>5, <1>8 DEF LoserLeaves, StartFails, Exit, Crash
<1>9. CASE Serve(d)
  BY <1>9 DEF Serve
<1>10. CASE Drain(d)
  BY <1>10 DEF Drain
<1>11. CASE \E c \in Clients : Accept(d, c)
  BY <1>11 DEF Accept, daemonVars
<1> QED
  BY <1>1, <1>2, <1>3, <1>4, <1>6, <1>7, <1>8, <1>9, <1>10, <1>11

(* The lock has one holder, the socket leads to whoever listens, and what *)
(* is on disk without a listener is stale for good (ipc_unix_security.rs).*)
THEOREM ClaimInvariant == Spec => []ClaimInv
<1>1. Init => ClaimInv
  <2> SUFFICES ASSUME Init PROVE ClaimInv
    OBVIOUS
  <2>1. 0 \in 0..Confirmations /\ None \in Connections
    BY ConfirmationsAssumption DEF Connections, Open
  <2> QED
    BY <2>1 DEF Init, ClaimInv, TypeOK, CountsOn, Locked, StaleForGood,
       OwnerIsReachable, Claiming, Listening
<1>2. ClaimInv /\ [Next]_vars => ClaimInv'
  <2> SUFFICES ASSUME ClaimInv, [Next]_vars PROVE ClaimInv'
    OBVIOUS
  <2>1. TypeOK' /\ CountsOn'
    BY TypesStep DEF ClaimInv
  <2>2. CASE DaemonNext
    BY <2>1, <2>2, DaemonsClaim DEF ClaimInv
  <2>3. CASE ClientNext
    <3>1. Locked' /\ StaleForGood' /\ OwnerIsReachable'
      BY <2>3, ClientsClaimNothing
         DEF ClaimInv, Locked, StaleForGood, OwnerIsReachable, Claiming,
             Listening
    <3> QED
      BY <2>1, <3>1 DEF ClaimInv
  <2>4. CASE UNCHANGED vars
    BY <2>1, <2>4 DEF vars, ClaimInv, Locked, StaleForGood, OwnerIsReachable
  <2> QED
    BY <2>2, <2>3, <2>4 DEF Next
<1> QED
  BY <1>1, <1>2, PTL DEF Spec

(* For any number of daemons that claim, start, drain, fail and crash, the *)
(* socket leads to every daemon that listens, so that there is only one    *)
(* (ipc.rs, RuntimeEndpointLease::claim).                                  *)
THEOREM OwnerIsReachableThm == Spec => []OwnerIsReachable
  BY ClaimInvariant, PTL DEF ClaimInv

-----------------------------------------------------------------------------
(* The restart.                                                            *)

(* A daemon that a restart has told to stop never serves again, as long as *)
(* the restart knows its process.                                          *)
StoppedForGood ==
  \A c \in Clients :
    stopped[c] # None => daemon[stopped[c]] \in {"stopping", "draining", "none"}

(* While it still listens, every query of the restart goes to it.          *)
ConfirmsWithIt ==
  \A c \in Clients :
    client[c] = "confirm" /\ stopped[c] # None /\ conn[c] # None
      /\ daemon[stopped[c]] = "stopping" => conn[c].to = stopped[c]

(* Once the restart believes that the daemon is gone, the daemon accepts   *)
(* none of its connections.                                                *)
NotAccepted ==
  \A c \in Clients :
    client[c] \in {"probe", "spawn", "await"} /\ stopped[c] # None =>
      /\ daemon[stopped[c]] # "stopping"
      /\ conn[c] # [to |-> stopped[c], at |-> "accepted"]

(* Only a restart stops a daemon, and it never attaches.                   *)
Roles ==
  \A c \in Clients :
    /\ goal[c] = "restart" => client[c] \notin {"attach", "reattach"}
    /\ goal[c] # "restart" => stopped[c] = None
    /\ client[c] \in {"stop", "confirm"} => goal[c] = "restart"
    /\ client[c] \in {"none", "stop"} => stopped[c] = None

RestartInv == StoppedForGood /\ ConfirmsWithIt /\ NotAccepted /\ Roles

LEMMA DaemonKeepsRestart ==
  ASSUME TypeOK, RestartInv, DaemonNext PROVE RestartInv'
<1> PICK d \in Daemons :
      \/ AcquireLock(d) \/ Bind(d) \/ BindFails(d) \/ CheckListener(d)
      \/ RemoveStaleSocket(d) \/ Rebind(d) \/ LoserLeaves(d) \/ StartFails(d)
      \/ Serve(d) \/ Drain(d) \/ Exit(d) \/ Crash(d)
      \/ \E c \in Clients : Accept(d, c)
  BY DEF DaemonNext
<1> DEFINE Down == {"stopping", "draining", "none"}
<1>1. \A e \in Daemons :
        daemon[e] \in Down =>
          /\ daemon'[e] \in Down
          /\ daemon'[e] = "stopping" => daemon[e] = "stopping"
  <2> USE DEF TypeOK, Becomes
  <2>1. CASE AcquireLock(d) \/ Bind(d) \/ BindFails(d)
    BY <2>1 DEF AcquireLock, Bind, BindFails
  <2>2. CASE CheckListener(d) \/ RemoveStaleSocket(d) \/ Rebind(d)
    BY <2>2 DEF CheckListener, RemoveStaleSocket, Rebind, Gone
  <2>3. CASE LoserLeaves(d) \/ StartFails(d) \/ Serve(d)
    BY <2>3 DEF LoserLeaves, StartFails, Serve, Gone
  <2>4. CASE Drain(d) \/ Exit(d) \/ Crash(d)
    BY <2>4 DEF Drain, Exit, Crash, Gone
  <2>5. CASE \E c \in Clients : Accept(d, c)
    BY <2>5 DEF Accept, daemonVars
  <2> QED
    BY <2>1, <2>2, <2>3, <2>4, <2>5
<1> HIDE DEF Down
<1>2. CASE UNCHANGED clientVars
  BY <1>1, <1>2 DEF clientVars, TypeOK, RestartInv, StoppedForGood,
     ConfirmsWithIt, NotAccepted, Roles, Down
<1>3. CASE \E c \in Clients : Accept(d, c)
  <2> PICK c \in Clients : Accept(d, c)
    BY <1>3
  <2>1. /\ UNCHANGED <<daemon, client, goal, stopped>>
        /\ daemon[d] \in {"serving", "stopping"}
        /\ conn[c] = [to |-> d, at |-> "queued"]
        /\ conn' = [conn EXCEPT ![c].at = "accepted"]
    BY DEF Accept, daemonVars
  <2>2. [conn[c] EXCEPT !.at = "accepted"] = [to |-> d, at |-> "accepted"]
    BY <2>1
  <2>3. conn' = [conn EXCEPT ![c] = [to |-> d, at |-> "accepted"]]
    BY <2>1, <2>2
  <2>4. ConfirmsWithIt'
    <3>1. conn[c] # None => conn'[c].to = conn[c].to
      BY <2>1, <2>3 DEF TypeOK
    <3>2. conn[c] # None
      BY <2>1, NoneAssumption DEF Open
    <3> QED
      BY <2>1, <2>3, <3>1, <3>2 DEF RestartInv, ConfirmsWithIt, TypeOK
  <2>5. NotAccepted'
    <3>1. stopped[c] = d => daemon[d] = "stopping"
      BY <2>1, SlotsAssumption DEF RestartInv, StoppedForGood
    <3> QED
      BY <2>1, <2>3, <3>1 DEF RestartInv, NotAccepted, TypeOK
  <2> QED
    BY <2>1, <2>4, <2>5 DEF RestartInv, StoppedForGood, Roles
<1>4. CASE ~(\E c \in Clients : Accept(d, c))
  <2>1. UNCHANGED clientVars
    BY <1>4 DEF AcquireLock, Bind, BindFails, CheckListener,
       RemoveStaleSocket, Rebind, LoserLeaves, StartFails, Serve, Drain,
       Exit, Crash
  <2> QED
    BY <1>2, <2>1
<1> QED
  BY <1>3, <1>4

(* What an attempt that ends leaves behind, if the daemon that the restart *)
(* has stopped gives it no reason to believe that it is gone.              *)
LEMMA EndsKeepsRestart ==
  ASSUME TypeOK, RestartInv, NEW c \in Clients, NEW result, Ends(c, result),
         \A e \in Daemons :
           daemon[e] \in {"stopping", "draining", "none"}
             => daemon'[e] = daemon[e],
         client[c] = "confirm" /\ result # Connected /\ stopped[c] # None
           => daemon[stopped[c]] # "stopping",
         client[c] = "stop" /\ result = Connected
           => conn[c].to \in Daemons /\ daemon'[conn[c].to] = "stopping"
  PROVE  RestartInv'
<1> USE DEF TypeOK, RestartInv, StoppedForGood, ConfirmsWithIt, NotAccepted,
        Roles
<1>1. conn' = [conn EXCEPT ![c] = None] /\ goal' = goal
  BY DEF Ends
<1>2. CASE AttemptEnds(c, result)
  <2>1. client'[c] = "reattach" => goal[c] = "run"
    BY <1>2 DEF AttemptEnds, AfterAttach, AfterProbe
  <2>2. client'[c] \in {"ready", "reattach", "spawn", "await", "failed", "probe"}
    BY <1>2 DEF AttemptEnds, AfterAttach, AfterProbe
  <2>3. client'[c] = "probe" => client[c] = "attach"
    BY <1>2 DEF AttemptEnds, AfterAttach, AfterProbe
  <2>4. \A x \in Clients : x # c => client'[x] = client[x]
    BY <1>2 DEF AttemptEnds
  <2>5. client[c] \in {"attach", "reattach", "probe", "await"} /\ stopped' = stopped
    BY <1>2 DEF AttemptEnds
  <2> QED
    BY <1>1, <2>1, <2>2, <2>3, <2>4, <2>5, NoneAssumption DEF Open
<1>3. CASE StopEnds(c, result)
  BY <1>1, <1>3 DEF StopEnds
<1>4. CASE ConfirmEnds(c, result)
  <2>1. client[c] = "confirm" /\ stopped' = stopped
    BY <1>4 DEF ConfirmEnds
  <2>2. \A x \in Clients : x # c => client'[x] = client[x]
    BY <1>4 DEF ConfirmEnds
  <2>3. client'[c] \in {"probe", "confirm", "failed"}
    BY <1>4 DEF ConfirmEnds
  <2>4. client'[c] = "probe" => result # Connected
    BY <1>4, ConfirmationsAssumption DEF ConfirmEnds
  <2> QED
    BY <1>1, <2>1, <2>2, <2>3, <2>4, NoneAssumption DEF Open
<1> QED
  BY <1>2, <1>3, <1>4 DEF Ends

LEMMA OthersAreNoAnswer ==
  Connected \notin {Unavailable, ConnectionTimeout, HandshakeReadError,
                   HandshakeEof, ShuttingDown, ResponseEof("shutdown")}
  BY DEF Connected, NoError, Unavailable, ConnectionError, ConnectionTimeout,
     HandshakeReadError, HandshakeEof, ShuttingDown, ResponseEof, Local,
     Daemon, NotReadyKinds

(* There is only one daemon that listens.                                  *)
LEMMA OneListens ==
  ASSUME OwnerIsReachable, NEW d \in Daemons, NEW e \in Daemons,
         daemon[d] \in Listening, daemon[e] \in Listening
  PROVE  d = e
  BY DEF OwnerIsReachable

LEMMA ClientKeepsRestart ==
  ASSUME TypeOK, OwnerIsReachable, RestartInv, ClientNext PROVE RestartInv'
<1> PICK c \in Clients :
      \/ Begin(c) \/ ClientStep(c) \/ StopAnswerLost(c) \/ SpawnFails(c)
      \/ RunsOut(c) \/ Leave(c)
  BY DEF ClientNext
<1> USE DEF daemonVars
<1> DEFINE Inv == /\ TypeOK /\ RestartInv /\ StoppedForGood
                  /\ ConfirmsWithIt /\ NotAccepted /\ Roles
<1>0. Inv
  BY DEF RestartInv
<1>s. stopped[c] # None =>
        stopped[c] \in Daemons
        /\ daemon[stopped[c]] \in {"stopping", "draining", "none"}
  BY DEF TypeOK, RestartInv, StoppedForGood
<1>c. conn[c] # None => conn[c] \in Open /\ conn[c].to \in Daemons
  BY DEF TypeOK, Connections, Open
<1>1. CASE Begin(c)
  BY <1>0, <1>1, GoalsAssumption DEF Begin, TypeOK, StoppedForGood, ConfirmsWithIt,
     NotAccepted, Roles, RestartInv
<1>2. CASE Connect(c)
  <2>1. CASE Live(socket)
    <3>1. /\ UNCHANGED <<daemon, client, goal, stopped>>
          /\ conn' = [conn EXCEPT ![c] = [to |-> socket, at |-> "queued"]]
      BY <1>2, <2>1 DEF Connect
    <3>2. stopped[c] # None /\ daemon[stopped[c]] = "stopping"
            => socket = stopped[c]
      BY <1>s DEF OwnerIsReachable, Listening
    <3> QED
      BY <1>0, <3>1, <3>2 DEF TypeOK, StoppedForGood, ConfirmsWithIt,
         NotAccepted, Roles, RestartInv
  <2>2. CASE ~Live(socket)
    <3>1. Ends(c, Unavailable) /\ daemon' = daemon
      BY <1>2, <2>2 DEF Connect
    <3>2. stopped[c] # None => daemon[stopped[c]] # "stopping"
      BY <1>s, <2>2 DEF OwnerIsReachable, Listening, Live
    <3> QED
      BY <3>1, <3>2, OthersAreNoAnswer, EndsKeepsRestart
  <2> QED
    BY <2>1, <2>2
<1>3. CASE Answer(c)
  <2> DEFINE d == conn[c].to
             refused == client[c] \in {"stop", "confirm"} /\ daemon[d] = "draining"
             result == IF refused THEN ShuttingDown ELSE Connected
  <2>1. /\ conn[c] # None /\ Ends(c, result)
        /\ daemon[d] \in {"serving", "stopping", "draining"}
        /\ daemon' = IF client[c] = "stop" /\ daemon[d] = "serving"
                     THEN [daemon EXCEPT ![d] = "stopping"] ELSE daemon
    BY <1>3 DEF Answer
  <2>2. d \in Daemons
    BY <1>c, <2>1
  <2>3. \A e \in Daemons :
          daemon[e] \in {"stopping", "draining", "none"} => daemon'[e] = daemon[e]
    BY <2>1, <2>2 DEF TypeOK
  <2>4. client[c] = "confirm" /\ result # Connected /\ stopped[c] # None
          => daemon[stopped[c]] # "stopping"
    <3> SUFFICES ASSUME result # Connected, stopped[c] # None,
                        daemon[stopped[c]] = "stopping"
                 PROVE  FALSE
      OBVIOUS
    <3>1. daemon[d] = "draining"
      OBVIOUS
    <3>2. stopped[c] = d
      BY <1>s, <2>2, <3>1, OneListens DEF Listening
    <3> QED
      BY <3>1, <3>2
  <2>5. client[c] = "stop" /\ result = Connected => daemon'[d] = "stopping"
    BY <2>1, <2>2, OthersAreNoAnswer DEF TypeOK
  <2> HIDE DEF result, d
  <2> QED
    BY <2>1, <2>2, <2>3, <2>4, <2>5, EndsKeepsRestart DEF d
<1>4. CASE StopAnswerLost(c)
  <2>1. /\ Ends(c, ResponseEof("shutdown")) /\ client[c] = "stop"
        /\ daemon[conn[c].to] = "serving"
        /\ daemon' = [daemon EXCEPT ![conn[c].to] = "stopping"]
    BY <1>4 DEF StopAnswerLost, Becomes
  <2>2. \A e \in Daemons :
          daemon[e] \in {"stopping", "draining", "none"} => daemon'[e] = daemon[e]
    BY <2>1 DEF TypeOK
  <2> QED
    BY <2>1, <2>2, OthersAreNoAnswer, EndsKeepsRestart
<1>5. CASE DeadlinePasses(c)
  <2>1. /\ Ends(c, ConnectionTimeout) /\ daemon' = daemon /\ conn[c] # None
        /\ daemon[conn[c].to] \in {"starting", "draining", "serving"}
    BY <1>5 DEF DeadlinePasses
  <2>2. stopped[c] # None => daemon[stopped[c]] # "stopping"
    BY <1>s, <1>c, <2>1, OneListens DEF Listening
  <2> QED
    BY <2>1, <2>2, OthersAreNoAnswer, EndsKeepsRestart
<1>6. CASE ConnectionDies(c)
  <2>1. PICK result \in {Unavailable, HandshakeReadError, HandshakeEof} :
          Ends(c, result)
    BY <1>6 DEF ConnectionDies
  <2>2. /\ daemon' = daemon /\ conn[c] # None
        /\ ~Live(conn[c].to) \/ daemon[conn[c].to] = "draining"
    BY <1>6 DEF ConnectionDies
  <2>3. client[c] = "confirm" /\ stopped[c] # None
          => daemon[stopped[c]] # "stopping"
    <3>1. CASE ~Live(conn[c].to)
      BY <1>0, <1>s, <2>2, <3>1 DEF ConfirmsWithIt, Live, Listening
    <3>2. CASE daemon[conn[c].to] = "draining"
      BY <1>s, <1>c, <2>2, <3>2, OneListens DEF Listening
    <3> QED
      BY <2>2, <3>1, <3>2
  <2> QED
    BY <2>1, <2>2, <2>3, OthersAreNoAnswer, EndsKeepsRestart
<1>7. CASE Spawn(c)
  <2>1. PICK d \in Daemons :
          Fresh(d) /\ daemon' = [daemon EXCEPT ![d] = "spawned"]
    BY <1>7 DEF Spawn, Becomes
  <2>2. /\ client[c] = "spawn" /\ client' = [client EXCEPT ![c] = "await"]
        /\ UNCHANGED <<conn, goal, stopped>>
    BY <1>7 DEF Spawn
  <2> QED
    BY <1>0, <2>1, <2>2 DEF Fresh, TypeOK, StoppedForGood, ConfirmsWithIt,
       NotAccepted, Roles, RestartInv
<1>8. CASE SpawnFails(c) \/ RunsOut(c)
  <2>1. /\ client' = [client EXCEPT ![c] = "failed"]
        /\ UNCHANGED <<daemon, conn, goal, stopped>>
    BY <1>8 DEF SpawnFails, RunsOut
  <2> QED
    BY <1>0, <2>1 DEF TypeOK, StoppedForGood, ConfirmsWithIt, NotAccepted,
       Roles, RestartInv
<1>9. CASE Leave(c)
  BY <1>0, <1>9 DEF Leave, TypeOK, StoppedForGood, ConfirmsWithIt,
     NotAccepted, Roles, RestartInv
<1> QED
  BY <1>1, <1>2, <1>3, <1>4, <1>5, <1>6, <1>7, <1>8, <1>9 DEF ClientStep

(* The daemon that a restart has told to stop accepts nothing any more,   *)
(* and no later connection of that restart is with it (service.rs,        *)
(* restart_daemon).                                                       *)
THEOREM RestartInvariant == Spec => []RestartInv
<1>1. Init => RestartInv
  BY DEF Init, RestartInv, StoppedForGood, ConfirmsWithIt, NotAccepted, Roles
<1>2. TypeOK /\ OwnerIsReachable /\ RestartInv /\ [Next]_vars => RestartInv'
  <2> SUFFICES ASSUME TypeOK, OwnerIsReachable, RestartInv, [Next]_vars
               PROVE  RestartInv'
    OBVIOUS
  <2>1. CASE UNCHANGED vars
    BY <2>1 DEF vars, RestartInv, StoppedForGood, ConfirmsWithIt,
       NotAccepted, Roles
  <2> QED
    BY <2>1, DaemonKeepsRestart, ClientKeepsRestart DEF Next
<1> QED
  BY <1>1, <1>2, ClaimInvariant, PTL DEF Spec, ClaimInv

(* A restart never ends with the daemon that it has told to stop: that one *)
(* may still listen when the restart believes that it is gone, but it      *)
(* accepts nothing any more (cadder-api/service.rs, restart_daemon).       *)
THEOREM RestartIsFreshThm == Spec => RestartIsFresh
<1> DEFINE Anew ==
      \A c \in Clients :
        goal[c] = "restart" /\ client[c] # "ready" /\ client'[c] = "ready"
          => conn[c].to # stopped[c]
<1>1. TypeOK /\ RestartInv /\ [Next]_vars => [Anew]_vars
  <2> SUFFICES ASSUME TypeOK, RestartInv, Next,
                      NEW c \in Clients, goal[c] = "restart",
                      client[c] # "ready", client'[c] = "ready"
               PROVE  conn[c].to # stopped[c]
    OBVIOUS
  <2>1. ~DaemonNext
    BY DEF DaemonNext, AcquireLock, Bind, BindFails, CheckListener,
       RemoveStaleSocket, Rebind, LoserLeaves, StartFails, Serve, Drain,
       Exit, Crash, Accept, clientVars
  <2>2. PICK x \in Clients :
          \/ Begin(x) \/ ClientStep(x) \/ StopAnswerLost(x) \/ SpawnFails(x)
          \/ RunsOut(x) \/ Leave(x)
    BY <2>1 DEF Next, ClientNext
  <2>3. ~(Begin(x) \/ Spawn(x) \/ SpawnFails(x) \/ RunsOut(x) \/ Leave(x))
    <3>1. ~Begin(x)
      BY GoalsAssumption DEF Begin, TypeOK
    <3> QED
      BY <3>1 DEF Spawn, SpawnFails, RunsOut, Leave, TypeOK
  <2>4. ASSUME NEW result, Ends(x, result)
        PROVE  /\ x = c /\ result = Connected
               /\ client[c] \in {"probe", "await"}
    <3>1. x = c
      BY <2>4 DEF Ends, AttemptEnds, StopEnds, ConfirmEnds, TypeOK
    <3>2. AttemptEnds(c, result)
      BY <2>4, <3>1 DEF Ends, StopEnds, ConfirmEnds, TypeOK
    <3>3. client[c] \in {"probe", "await"}
      BY <3>2 DEF AttemptEnds, RestartInv, Roles
    <3>4. AfterProbe(c, result) = "ready"
      BY <3>2, <3>3 DEF AttemptEnds, TypeOK
    <3> QED
      BY <3>1, <3>3, <3>4 DEF AfterProbe
  <2>5. Answer(x)
    <3>1. ~StopAnswerLost(x)
      BY <2>4, OthersAreNoAnswer DEF StopAnswerLost
    <3>2. ~DeadlinePasses(x)
      BY <2>4, OthersAreNoAnswer DEF DeadlinePasses
    <3>3. ~ConnectionDies(x)
      BY <2>4, OthersAreNoAnswer DEF ConnectionDies
    <3>4. ~Connect(x)
      BY <2>4, OthersAreNoAnswer DEF Connect
    <3> QED
      BY <2>2, <2>3, <3>1, <3>2, <3>3, <3>4 DEF ClientStep
  <2>6. /\ x = c /\ client[c] \in {"probe", "await"}
        /\ conn[c] # None /\ conn[c].at = "accepted"
    BY <2>4, <2>5 DEF Answer
  <2>7. conn[c] = [to |-> conn[c].to, at |-> "accepted"] /\ conn[c].to \in Daemons
    BY <2>6 DEF TypeOK, Connections, Open
  <2> QED
    BY <2>6, <2>7, SlotsAssumption DEF RestartInv, NotAccepted
<1> QED
  BY <1>1, AttachTypeCorrect, RestartInvariant, PTL DEF Spec, RestartIsFresh
=============================================================================
