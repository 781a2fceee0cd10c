-------------------------------- MODULE Tui --------------------------------
(***************************************************************************)
(* The operator's terminal interface (cadder-client: tui.rs and below it,  *)
(* app.rs, data.rs): one task that draws, reads keys, and joins the        *)
(* effects it has spawned.  The effects are tasks of their own: they talk  *)
(* to the daemon through the service API, and their results are joined in  *)
(* any order.                                                              *)
(*                                                                         *)
(* Of the daemon, only what a request meets is here: it is down, it runs   *)
(* but answers with an error (it drains, hangs, or has another version),   *)
(* or it is up with a snapshot.  Shims and other operators change that at  *)
(* any time.                                                               *)
(*                                                                         *)
(* A snapshot is the set of registered projects and the rows that are      *)
(* enabled.  What is drawn of it, the texts, and the notice line are left  *)
(* out; so is the animation.                                               *)
(***************************************************************************)
EXTENDS Naturals, Sequences, FiniteSets

CONSTANTS
  Order,      \* all rows there may be, in the order of the table
  MaxEffects, \* bound on the spawned effects
  None

Rows == {Order[n] : n \in DOMAIN Order}
Projects == {row.project : row \in Rows}

(* A row without a domain is that of the project itself.                   *)
ASSUME RowsAssumption ==
  /\ Order \in Seq([project : Projects, domain : {row.domain : row \in Rows}])
  /\ \A m, n \in DOMAIN Order : Order[m] = Order[n] => m = n
ASSUME BoundAssumption == MaxEffects \in Nat \ {0}

Of(projects) == {row \in Rows : row.project \in projects}

Snapshots ==
  UNION {[projects : {P}, enabled : SUBSET Of(P)] : P \in SUBSET Projects}

Down == [connection |-> "offline", snapshot |-> None]
Unwell == [connection |-> "error", snapshot |-> None]
Up(s) == [connection |-> "connected", snapshot |-> s]

(* What load_refresh makes of a daemon in this state.                      *)
Daemons == {Down, Unwell} \cup {Up(s) : s \in Snapshots}

Empty == [projects |-> {}, enabled |-> {}]

VARIABLES
  daemon,
  screen,          \* runtime_status.connection and the snapshot displayed
  selected,        \* the selected row's number, or 0
  confirmation,    \* the lifecycle action to confirm, or None
  pending,         \* pending_message: the action that is in flight, or None
  lastStartFailed,
  refreshInFlight,
  effects,         \* the JoinSet
  quit

uiVars == <<screen, selected, confirmation, pending, lastStartFailed>>
vars == <<daemon, uiVars, refreshInFlight, effects, quit>>

Actions == {"start", "stop", "restart", "mutate"}
Slots == 1..MaxEffects

(* An effect has sent its request, is past its first request, or is done.  *)
Effects ==
  [kind : {"refresh"}, at : {"sent"}] \cup
  [kind : {"refresh"}, at : {"done"}, outcome : Daemons] \cup
  [kind : {"start", "stop", "restart"}, at : {"sent", "between"}] \cup
  [kind : {"mutate"}, at : {"sent", "between"}, row : Rows,
   enabled : BOOLEAN] \cup
  [kind : Actions, at : {"done"}, ok : BOOLEAN]

ASSUME NoneAssumption == None \notin Effects \cup Actions

Table(s) ==
  IF s = None THEN <<>>
  ELSE SelectSeq(Order, LAMBDA row : row.project \in s.projects)

Least(m, n) == IF m < n THEN m ELSE n

TuiTypeOK ==
  /\ daemon \in Daemons
  /\ screen \in Daemons \cup
       {[connection |-> "connecting", snapshot |-> None]}
  /\ selected \in 0..Len(Table(screen.snapshot))
  /\ selected = 0 <=> Table(screen.snapshot) = <<>>
  /\ confirmation \in {None, "stop", "restart"}
  /\ pending \in Actions \cup {None}
  /\ lastStartFailed \in BOOLEAN /\ refreshInFlight \in BOOLEAN
  /\ effects \in [Slots -> Effects \cup {None}]
  /\ quit \in BOOLEAN

Sent(kind) == [kind |-> kind, at |-> "sent"]

Init ==
  /\ daemon \in Daemons
  /\ screen = [connection |-> "connecting", snapshot |-> None]
  /\ selected = 0 /\ confirmation = None /\ pending = None
  /\ lastStartFailed = FALSE
  /\ refreshInFlight = TRUE
  /\ effects = [i \in Slots |-> IF i = 1 THEN Sent("refresh") ELSE None]
  /\ quit = FALSE

-----------------------------------------------------------------------------
(* The effects of the event loop.                                          *)

Free(f) == {i \in Slots : f[i] = None}

Spawned(f, e) ==
  [f EXCEPT ![CHOOSE i \in Free(f) : \A j \in Free(f) : i <= j] = e]

Spawn(e) == Free(effects) # {} /\ effects' = Spawned(effects, e)

(* The refresh interval; it is checked again after every event.            *)
Tick ==
  /\ ~quit /\ ~refreshInFlight /\ pending = None
  /\ refreshInFlight' = TRUE /\ Spawn(Sent("refresh"))
  /\ UNCHANGED <<daemon, uiVars, quit>>

(* ensure_selected_row: the number of the row is kept, not the row.        *)
Clamped(n, table) ==
  IF table = <<>> THEN 0 ELSE Least(IF n = 0 THEN 1 ELSE n, Len(table))

(* apply_refresh: after a failed start, its message stays on the screen    *)
(* until the daemon answers.                                               *)
ApplyRefresh(outcome) ==
  IF outcome.connection # "connected" /\ lastStartFailed
  THEN UNCHANGED <<screen, selected, lastStartFailed>>
  ELSE /\ screen' = outcome
       /\ selected' = Clamped(selected, Table(outcome.snapshot))
       /\ lastStartFailed' = FALSE

JoinRefresh(i) ==
  /\ effects[i].kind = "refresh"
  /\ refreshInFlight' = FALSE
  /\ ApplyRefresh(effects[i].outcome)
  /\ effects' = [effects EXCEPT ![i] = None]
  /\ UNCHANGED <<confirmation, pending>>

(* Mutant: the flag is set for a refresh that is not spawned.              *)
JoinActionMarked(i) ==
  LET e == effects[i] IN
  /\ e.kind \in Actions
  /\ pending' = None
  /\ lastStartFailed' = (lastStartFailed \/ (e.kind = "start" /\ ~e.ok))
  /\ effects' = [effects EXCEPT ![i] = None]
  /\ refreshInFlight' = (refreshInFlight \/ e.ok)
  /\ UNCHANGED <<screen, selected, confirmation>>

(* complete_daemon_start, complete_mutation and complete_lifecycle.        *)
JoinAction(i) ==
  LET e == effects[i] IN
  /\ e.kind \in Actions
  /\ pending' = None
  /\ lastStartFailed' = (lastStartFailed \/ (e.kind = "start" /\ ~e.ok))
  /\ LET left == [effects EXCEPT ![i] = None] IN
     IF e.ok /\ ~refreshInFlight
     THEN refreshInFlight' = TRUE /\ effects' = Spawned(left, Sent("refresh"))
     ELSE effects' = left /\ UNCHANGED refreshInFlight
  /\ UNCHANGED <<screen, selected, confirmation>>

Join(i) ==
  /\ ~quit /\ effects[i] # None /\ effects[i].at = "done"
  /\ JoinRefresh(i) \/ JoinAction(i)
  /\ UNCHANGED <<daemon, quit>>

-----------------------------------------------------------------------------
(* The keys.  A confirmation takes all of them but those that quit.        *)

(* Leaving the event loop aborts the effects that are still running.       *)
Quit ==
  /\ quit' = TRUE
  /\ effects' = [i \in Slots |-> None]
  /\ UNCHANGED <<daemon, uiVars, refreshInFlight>>

PressQuit == ~quit /\ Quit

PressEscape ==
  /\ ~quit
  /\ IF confirmation = None THEN Quit
     ELSE /\ confirmation' = None
          /\ UNCHANGED <<daemon, screen, selected, pending, lastStartFailed,
                         refreshInFlight, effects, quit>>

Keeps == ~quit /\ UNCHANGED <<daemon, screen, selected, refreshInFlight, quit>>

(* What was confirmed is not checked again against the connection.         *)
ConfirmLifecycle ==
  /\ Keeps /\ confirmation # None
  /\ Spawn(Sent(confirmation))
  /\ pending' = confirmation /\ confirmation' = None
  /\ UNCHANGED lastStartFailed

CanStart == pending = None /\ screen.connection = "offline"

StartDaemon ==
  /\ Keeps /\ confirmation = None /\ CanStart
  /\ lastStartFailed' = FALSE /\ pending' = "start"
  /\ Spawn(Sent("start"))
  /\ UNCHANGED confirmation

ToggleCurrent ==
  /\ Keeps /\ confirmation = None
  /\ pending = None /\ screen.connection = "connected" /\ selected # 0
  /\ \E row \in Rows :
       /\ row = Table(screen.snapshot)[selected]
       /\ Spawn([kind |-> "mutate", at |-> "sent", row |-> row,
                 enabled |-> row \notin screen.snapshot.enabled])
  /\ pending' = "mutate"
  /\ UNCHANGED <<confirmation, lastStartFailed>>

PressEnter == ConfirmLifecycle \/ StartDaemon \/ ToggleCurrent

PressRefresh ==
  /\ ~quit /\ confirmation = None
  /\ refreshInFlight' = TRUE /\ Spawn(Sent("refresh"))
  /\ UNCHANGED <<daemon, uiVars, quit>>

(* Mutant: the key works while an action is pending.                       *)
PrepareLifecycleAnyTime(action) ==
  /\ Keeps /\ confirmation = None
  /\ screen.connection = "connected"
  /\ confirmation' = action
  /\ UNCHANGED <<pending, lastStartFailed, effects>>

PrepareLifecycle(action) ==
  /\ Keeps /\ confirmation = None
  /\ pending = None /\ screen.connection = "connected"
  /\ confirmation' = action
  /\ UNCHANGED <<pending, lastStartFailed, effects>>

Select(n) ==
  /\ ~quit /\ confirmation = None /\ selected # 0
  /\ selected' = n
  /\ UNCHANGED <<daemon, screen, confirmation, pending, lastStartFailed,
                 refreshInFlight, effects, quit>>

PressUp == selected > 1 /\ Select(selected - 1)
PressDown == Select(Least(selected + 1, Len(Table(screen.snapshot))))

Key ==
  \/ PressQuit \/ PressEscape \/ PressEnter \/ PressRefresh
  \/ \E action \in {"stop", "restart"} : PrepareLifecycle(action)
  \/ PressUp \/ PressDown

-----------------------------------------------------------------------------
(* The effects, and the daemon they meet.                                  *)

Becomes(i, e) == effects' = [effects EXCEPT ![i] = e]
Done(i, ok) == Becomes(i, [kind |-> effects[i].kind, at |-> "done", ok |-> ok])

LoadRefresh(i) ==
  /\ effects[i] = Sent("refresh")
  /\ Becomes(i, [kind |-> "refresh", at |-> "done", outcome |-> daemon])
  /\ UNCHANGED daemon

(* ensure_daemon_running, of a start or at the end of a restart.  It ends  *)
(* with a handshake, which a daemon that drains still accepts.             *)
EnsureRunning(i) ==
  /\ \/ effects[i] = Sent("start")
     \/ effects[i].kind = "restart" /\ effects[i].at = "between"
  /\ \/ daemon # Down /\ Done(i, TRUE) /\ UNCHANGED daemon
     \/ daemon = Down /\ daemon' = Up(Empty) /\ Done(i, TRUE)
     \/ Done(i, FALSE) /\ UNCHANGED daemon

(* stop_daemon is answered when the daemon begins to stop; restart_daemon  *)
(* then waits for it.                                                      *)
StopDaemon(i) ==
  /\ effects[i] \in {Sent("stop"), Sent("restart")}
  /\ \/ Done(i, FALSE) /\ UNCHANGED daemon
     \/ /\ daemon.connection = "connected"
        /\ IF effects[i].kind = "stop" THEN Done(i, TRUE)
           ELSE Becomes(i, [effects[i] EXCEPT !.at = "between"])
        /\ daemon' \in {Down, Unwell}

(* set_domain_enabled looks the domain up in a snapshot of its own before  *)
(* it sends the mutation; set_entrypoint_enabled sends it at once.         *)
Here(row) ==
  /\ daemon.connection = "connected"
  /\ row.project \in daemon.snapshot.projects

SelectDomain(i) ==
  LET e == effects[i] IN
  /\ e.kind = "mutate" /\ e.at = "sent" /\ e.row.domain # None
  /\ IF Here(e.row) THEN Becomes(i, [e EXCEPT !.at = "between"])
     ELSE Done(i, FALSE)
  /\ UNCHANGED daemon

SetEnabled(i) ==
  LET e == effects[i] IN
  /\ e.kind = "mutate" /\ e.at # "done"
  /\ e.at = (IF e.row.domain = None THEN "sent" ELSE "between")
  /\ \/ Done(i, FALSE) /\ UNCHANGED daemon
     \/ /\ Here(e.row)
        /\ daemon' = [daemon EXCEPT !.snapshot.enabled =
             IF e.enabled THEN @ \cup {e.row} ELSE @ \ {e.row}]
        /\ Done(i, TRUE)

Advance(i) ==
  /\ effects[i] # None
  /\ \/ LoadRefresh(i) \/ EnsureRunning(i) \/ StopDaemon(i)
     \/ SelectDomain(i) \/ SetEnabled(i)
  /\ UNCHANGED <<uiVars, refreshInFlight, quit>>

(* Everybody else.                                                         *)
Others ==
  /\ \E d \in Daemons \ {daemon} : daemon' = d
  /\ UNCHANGED <<uiVars, refreshInFlight, effects, quit>>

Next ==
  \/ Tick \/ Key \/ Others
  \/ \E i \in Slots : Join(i) \/ Advance(i)

Spec == Init /\ [][Next]_vars

(* Every request an effect makes has a deadline, and select! takes a ready *)
(* branch at random: an interval that has elapsed is not passed over for   *)
(* ever, though an operator who keeps starting actions that fail disables  *)
(* it again and again.  Nothing is assumed of the operator.                *)
Fairness ==
  SF_vars(Tick) /\ \A i \in Slots : WF_vars(Join(i)) /\ WF_vars(Advance(i))

FairSpec == Spec /\ Fairness

-----------------------------------------------------------------------------
InFlight == {i \in Slots : effects[i] # None /\ effects[i].kind \in Actions}

(* At most one action is in flight, and it is the one the screen says is   *)
(* pending: two actions of one operator never race each other, and the     *)
(* screen neither waits for nothing nor forgets an action.                 *)
OneAction ==
  ~quit =>
    IF pending = None THEN InFlight = {}
    ELSE \E i \in Slots : InFlight = {i} /\ effects[i].kind = pending

(* The screen catches up with the daemon: whatever was in flight, and in   *)
(* whatever order it was joined, once the daemon stays as it is, that is   *)
(* what is displayed.  But a failed start stays on the screen, and what    *)
(* was there before it, until the daemon is up or is started again; and of *)
(* two starts of a daemon that only answers handshakes, one may succeed    *)
(* and the next fail before the refresh of the first is joined.            *)
Displayed(d) ==
  \/ screen = d
  \/ d.connection # "connected" /\ (lastStartFailed \/ pending = "start")

CatchesUp ==
  \A d \in Daemons :
    <>[](daemon = d /\ ~quit) =>
      \/ <>[]Displayed(d)
      \/ d = Unwell /\ []<>(pending = "start")
=============================================================================
