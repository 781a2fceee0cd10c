------------------------------ MODULE Tui_proofs -----------------------------
(***************************************************************************)
(* Proofs about Tui, for any table of rows and any number of effects.      *)
(***************************************************************************)
EXTENDS Tui, WellFoundedInduction, TLAPS

-----------------------------------------------------------------------------
(* Types.                                                                  *)

LEMMA SlotsAreNat == Slots \subseteq Nat
BY BoundAssumption DEF Slots

(* What becomes of an effect keeps its kind.                               *)
LEMMA EffectKinds ==
  ASSUME NEW e \in Effects
  PROVE  /\ e.kind \in Actions \cup {"refresh"}
         /\ e # None
         /\ \A ok \in BOOLEAN : e.kind \in Actions =>
              [kind |-> e.kind, at |-> "done", ok |-> ok] \in Effects
         /\ e.kind \in {"stop", "restart", "mutate"} /\ e.at = "sent"
              => [e EXCEPT !.at = "between"] \in Effects
<1>1. e.kind \in Actions \cup {"refresh"}
  BY DEF Effects, Actions
<1>2. e # None
  BY NoneAssumption
<1>3. ASSUME NEW ok \in BOOLEAN, e.kind \in Actions
      PROVE  [kind |-> e.kind, at |-> "done", ok |-> ok] \in Effects
  BY <1>3 DEF Effects
<1>4. ASSUME e.kind \in {"stop", "restart", "mutate"}, e.at = "sent"
      PROVE  [e EXCEPT !.at = "between"] \in Effects
  BY <1>4 DEF Effects, Actions
<1> QED
  BY <1>1, <1>2, <1>3, <1>4

LEMMA SentEffects ==
  ASSUME NEW kind \in {"refresh", "start", "stop", "restart"}
  PROVE  Sent(kind) \in Effects
BY DEF Sent, Effects

(* An effect is spawned into a slot that is free.                          *)
LEMMA SpawnedSlot ==
  ASSUME NEW f, NEW e, Free(f) # {}
  PROVE  \E i \in Slots : f[i] = None /\ Spawned(f, e) = [f EXCEPT ![i] = e]
<1> DEFINE less == OpToRel(<, Nat)
           first == CHOOSE i \in Free(f) : \A j \in Free(f) : i <= j
<1>1. Free(f) \subseteq Slots /\ Free(f) \subseteq Nat
  BY SlotsAreNat DEF Free
<1>2. \A i, j \in Nat : <<i, j>> \notin less => j <= i
  BY DEF OpToRel
<1>3. IsWellFoundedOn(less, Nat)
  BY NatLessThanWellFounded
<1> HIDE DEF less
<1>4. PICK n \in Free(f) : \A m \in Free(f) : ~(<<m, n>> \in less)
  BY <1>1, <1>3, WFMin
<1>5. \A m \in Free(f) : n <= m
  BY <1>1, <1>2, <1>4
<1>6. first \in Free(f)
  BY <1>5
<1> HIDE DEF first
<1>7. first \in Slots /\ f[first] = None
  BY <1>6 DEF Free
<1>8. Spawned(f, e) = [f EXCEPT ![first] = e]
  BY DEF Spawned, first
<1> QED
  BY <1>7, <1>8

(* What the effects and what waits for them can be.                        *)
EffectsTyped ==
  /\ daemon \in Daemons
  /\ effects \in [Slots -> Effects \cup {None}]
  /\ pending \in Actions \cup {None}

(* An effect is spawned, moves on, or is joined.                           *)
LEMMA Placed ==
  ASSUME NEW f \in [Slots -> Effects \cup {None}], NEW i \in Slots,
         NEW e \in Effects \cup {None}
  PROVE  [f EXCEPT ![i] = e] \in [Slots -> Effects \cup {None}]
OBVIOUS

LEMMA ConnectedDaemons ==
  ASSUME NEW d \in Daemons, d.connection = "connected"
  PROVE  \E s \in Snapshots : d = Up(s)
BY DEF Daemons, Down, Unwell, Up

(* A mutation leaves a snapshot of the same projects.                      *)
LEMMA MutatedDaemon ==
  ASSUME NEW d \in Daemons, d.connection = "connected",
         NEW row \in Rows, row.project \in d.snapshot.projects, NEW enabled
  PROVE  [d EXCEPT !.snapshot.enabled =
            IF enabled THEN @ \cup {row} ELSE @ \ {row}] \in Daemons
<1> DEFINE new == IF enabled THEN d.snapshot.enabled \cup {row}
                  ELSE d.snapshot.enabled \ {row}
<1>1. PICK s \in Snapshots : d = Up(s)
  BY ConnectedDaemons
<1>2. PICK P \in SUBSET Projects : s \in [projects : {P}, enabled : SUBSET Of(P)]
  BY DEF Snapshots
<1>3. row \in Of(P) /\ s.enabled \subseteq Of(P) /\ s.projects = P
  BY <1>1, <1>2 DEF Of, Up
<1>4. new \subseteq Of(P)
  BY <1>1, <1>3 DEF Up
<1> HIDE DEF new
<1>5. [s EXCEPT !.enabled = new] \in [projects : {P}, enabled : SUBSET Of(P)]
  BY <1>2, <1>4
<1>6. [s EXCEPT !.enabled = new] \in Snapshots
  BY <1>5 DEF Snapshots
<1>7. Up([s EXCEPT !.enabled = new]) = [d EXCEPT !.snapshot.enabled = new]
  BY <1>1, <1>2 DEF Up
<1> QED
  BY <1>6, <1>7 DEF Daemons, new

-----------------------------------------------------------------------------
(* How the steps move effects.                                             *)

IsAction(e) == e # None /\ e.kind \in Actions

(* An effect of the kind it was is put where it was.                       *)
Moves(i) ==
  /\ effects[i] \in Effects
  /\ \E e \in Effects : /\ e.kind = effects[i].kind
                        /\ effects' = [effects EXCEPT ![i] = e]

LEMMA AdvanceMoves ==
  ASSUME EffectsTyped, NEW i \in Slots, Advance(i)
  PROVE  daemon' \in Daemons /\ Moves(i)
<1> DEFINE e == effects[i]
<1>1. e \in Effects
  BY DEF Advance, EffectsTyped
<1>2. CASE LoadRefresh(i)
  <2>1. e.kind = "refresh"
    BY <1>2 DEF LoadRefresh, Sent
  <2>2. [kind |-> "refresh", at |-> "done", outcome |-> daemon] \in Effects
    BY DEF EffectsTyped, Effects
  <2> QED
    BY <1>1, <1>2, <2>1, <2>2 DEF LoadRefresh, Becomes, Moves, EffectsTyped
<1>3. ASSUME NEW ok \in BOOLEAN, Done(i, ok), e.kind \in Actions
      PROVE  Moves(i)
  <2>1. [kind |-> e.kind, at |-> "done", ok |-> ok] \in Effects
    BY <1>1, <1>3, EffectKinds
  <2> QED
    BY <1>1, <1>3, <2>1 DEF Done, Becomes, Moves
<1>4. CASE EnsureRunning(i)
  <2>1. e.kind \in Actions
    BY <1>4 DEF EnsureRunning, Sent, Actions
  <2>2. \E ok \in BOOLEAN : Done(i, ok)
    BY <1>4 DEF EnsureRunning
  <2>3. Up(Empty) \in Daemons
    BY DEF Daemons, Snapshots, Empty, Of
  <2> QED
    BY <1>3, <1>4, <2>1, <2>2, <2>3 DEF EnsureRunning, EffectsTyped
<1>5. CASE StopDaemon(i)
  <2>1. e.kind \in {"stop", "restart"} /\ e.at = "sent"
    BY <1>5 DEF StopDaemon, Sent
  <2>2. daemon' \in Daemons
    BY <1>5 DEF StopDaemon, EffectsTyped, Daemons
  <2>3. \/ \E ok \in BOOLEAN : Done(i, ok)
        \/ Becomes(i, [e EXCEPT !.at = "between"])
    BY <1>5 DEF StopDaemon
  <2>4. [e EXCEPT !.at = "between"] \in Effects
    BY <1>1, <2>1, EffectKinds
  <2>5. [e EXCEPT !.at = "between"].kind = e.kind
    BY <1>1
  <2>6. e.kind \in Actions
    BY <2>1 DEF Actions
  <2> HIDE DEF e
  <2>7. ASSUME Becomes(i, [e EXCEPT !.at = "between"]) PROVE Moves(i)
    BY <1>1, <2>4, <2>5, <2>7 DEF Becomes, Moves, e
  <2> QED
    BY <1>3, <2>2, <2>3, <2>6, <2>7
<1>6. CASE SelectDomain(i)
  <2>1. e.kind = "mutate" /\ e.at = "sent" /\ daemon' = daemon
    BY <1>6 DEF SelectDomain
  <2>2. \/ Done(i, FALSE)
        \/ Becomes(i, [e EXCEPT !.at = "between"])
    BY <1>6 DEF SelectDomain
  <2>4. [e EXCEPT !.at = "between"] \in Effects
    BY <1>1, <2>1, EffectKinds
  <2>5. [e EXCEPT !.at = "between"].kind = e.kind
    BY <1>1
  <2>6. e.kind \in Actions
    BY <2>1 DEF Actions
  <2> HIDE DEF e
  <2>7. ASSUME Becomes(i, [e EXCEPT !.at = "between"]) PROVE Moves(i)
    BY <1>1, <2>4, <2>5, <2>7 DEF Becomes, Moves, e
  <2> QED
    BY <1>3, <2>1, <2>2, <2>6, <2>7 DEF EffectsTyped
<1>7. CASE SetEnabled(i)
  <2>1. e.kind = "mutate" /\ e.kind \in Actions
    BY <1>7 DEF SetEnabled, Actions
  <2>2. \E ok \in BOOLEAN : Done(i, ok)
    BY <1>7 DEF SetEnabled
  <2>3. e.at # "done" /\ e.row \in Rows
    BY <1>1, <1>7, <2>1 DEF SetEnabled, Effects
  <2>4. daemon' \in Daemons
    BY <1>7, <2>3, MutatedDaemon DEF SetEnabled, Here, EffectsTyped
  <2> QED
    BY <1>3, <2>1, <2>2, <2>4
<1> QED
  BY <1>2, <1>4, <1>5, <1>6, <1>7 DEF Advance

(* A new effect is spawned beside those there are.                         *)
Adds(e) ==
  \E i \in Slots : effects[i] = None /\ effects' = [effects EXCEPT ![i] = e]

LEMMA SpawnAdds == ASSUME NEW e, Spawn(e) PROVE Adds(e)
BY SpawnedSlot DEF Spawn, Adds

(* Only what may follow an action that is over waits to be confirmed.      *)
ConfirmedAlone ==
  confirmation # None => confirmation \in {"stop", "restart"} /\ pending = None

(* An action is asked for when none is pending.                            *)
Asks ==
  /\ pending = None /\ pending' \in Actions
  /\ \E e \in Effects : e.kind = pending' /\ Adds(e)

LEMMA KeyMoves ==
  ASSUME EffectsTyped, ConfirmedAlone, Key
  PROVE  /\ daemon' = daemon
         /\ \/ UNCHANGED <<effects, pending, quit>>
            \/ Adds(Sent("refresh")) /\ UNCHANGED <<pending, quit>>
            \/ Asks /\ UNCHANGED quit
            \/ /\ quit' = TRUE /\ UNCHANGED pending
               /\ effects' = [i \in Slots |-> None]
<1>1. CASE PressQuit \/ PressEscape
  BY <1>1 DEF PressQuit, PressEscape, Quit, uiVars
<1>2. CASE ConfirmLifecycle
  <2>1. /\ confirmation \in {"stop", "restart"} /\ pending = None
        /\ pending' = confirmation
    BY <1>2 DEF ConfirmLifecycle, ConfirmedAlone
  <2>2. Sent(confirmation) \in Effects /\ Sent(confirmation).kind = pending'
    BY <2>1, SentEffects DEF Sent
  <2>3. Adds(Sent(confirmation))
    BY <1>2, SpawnAdds DEF ConfirmLifecycle
  <2> QED
    BY <1>2, <2>1, <2>2, <2>3 DEF ConfirmLifecycle, Keeps, Asks, Actions
<1>3. CASE StartDaemon
  <2>1. pending = None /\ pending' = "start"
    BY <1>3 DEF StartDaemon, CanStart
  <2>2. Sent("start") \in Effects /\ Sent("start").kind = "start"
    BY SentEffects DEF Sent
  <2>3. Adds(Sent("start"))
    BY <1>3, SpawnAdds DEF StartDaemon
  <2> QED
    BY <1>3, <2>1, <2>2, <2>3 DEF StartDaemon, Keeps, Asks, Actions
<1>4. CASE ToggleCurrent
  <2>1. pending = None /\ pending' = "mutate"
    BY <1>4 DEF ToggleCurrent
  <2>2. PICK row \in Rows :
          Spawn([kind |-> "mutate", at |-> "sent", row |-> row,
                 enabled |-> row \notin screen.snapshot.enabled])
    BY <1>4 DEF ToggleCurrent
  <2> DEFINE e == [kind |-> "mutate", at |-> "sent", row |-> row,
                   enabled |-> row \notin screen.snapshot.enabled]
  <2>3. e \in Effects /\ e.kind = "mutate"
    BY DEF Effects
  <2> HIDE DEF e
  <2>4. Adds(e)
    BY <2>2, SpawnAdds DEF e
  <2> QED
    BY <1>4, <2>1, <2>3, <2>4 DEF ToggleCurrent, Keeps, Asks, Actions
<1>5. CASE PressRefresh
  BY <1>5, SpawnAdds DEF PressRefresh, uiVars
<1>6. ASSUME NEW action \in {"stop", "restart"}, PrepareLifecycle(action)
      PROVE  UNCHANGED <<daemon, effects, pending, quit>>
  BY <1>6 DEF PrepareLifecycle, Keeps
<1>7. CASE PressUp \/ PressDown
  BY <1>7 DEF PressUp, PressDown, Select
<1> QED
  BY <1>1, <1>2, <1>3, <1>4, <1>5, <1>6, <1>7 DEF Key, PressEnter

(* What a joined effect leaves behind.                                     *)
LEMMA JoinMoves ==
  ASSUME EffectsTyped, NEW i \in Slots, Join(i)
  PROVE  /\ effects[i] \in Effects
         /\ UNCHANGED <<daemon, quit>>
         /\ pending' = IF effects[i].kind = "refresh" THEN pending ELSE None
         /\ \/ effects' = [effects EXCEPT ![i] = None]
            \/ \E j \in Slots :
                 /\ j = i \/ effects[j] = None
                 /\ effects' = [[effects EXCEPT ![i] = None]
                                  EXCEPT ![j] = Sent("refresh")]
<1>1. effects[i] \in Effects /\ UNCHANGED <<daemon, quit>>
  BY DEF Join, EffectsTyped
<1>2. CASE JoinRefresh(i)
  BY <1>1, <1>2 DEF JoinRefresh
<1>3. CASE JoinAction(i)
  <2> DEFINE left == [effects EXCEPT ![i] = None]
  <2>1. effects[i].kind # "refresh" /\ pending' = None
    BY <1>3 DEF JoinAction, Actions
  <2>2. effects' = left \/ effects' = Spawned(left, Sent("refresh"))
    BY <1>3 DEF JoinAction
  <2>3. left[i] = None /\ \A j \in Slots \ {i} : left[j] = effects[j]
    BY DEF EffectsTyped
  <2>4. i \in Free(left)
    BY <2>3 DEF Free
  <2> HIDE DEF left
  <2>5. \E j \in Slots : /\ left[j] = None
                         /\ Spawned(left, Sent("refresh")) =
                              [left EXCEPT ![j] = Sent("refresh")]
    BY <2>4, SpawnedSlot
  <2>6. \/ effects' = left
        \/ \E j \in Slots : /\ j = i \/ effects[j] = None
                            /\ effects' = [left EXCEPT ![j] = Sent("refresh")]
    BY <2>2, <2>3, <2>5
  <2> QED
    BY <1>1, <2>1, <2>6 DEF left
<1> QED
  BY <1>2, <1>3 DEF Join

(* The daemon, the effects and the pending action keep their types.        *)
LEMMA EffectsTypedStep ==
  ASSUME EffectsTyped, ConfirmedAlone, [Next]_vars
  PROVE  EffectsTyped'
<1> USE DEF EffectsTyped
<1>1. ASSUME NEW e \in Effects, Adds(e)
      PROVE  effects' \in [Slots -> Effects \cup {None}]
  BY <1>1 DEF Adds
<1>2. Sent("refresh") \in Effects
  BY SentEffects
<1>3. CASE UNCHANGED vars
  BY <1>3 DEF vars, uiVars
<1>4. CASE Tick
  BY <1>1, <1>2, <1>4, SpawnAdds DEF Tick, uiVars
<1>5. CASE Key
  BY <1>1, <1>2, <1>5, KeyMoves DEF Asks
<1>6. CASE Others
  BY <1>6 DEF Others, uiVars
<1>7. ASSUME NEW i \in Slots, Join(i) PROVE EffectsTyped'
  BY <1>2, <1>7, JoinMoves
<1>8. ASSUME NEW i \in Slots, Advance(i) PROVE EffectsTyped'
  BY <1>8, AdvanceMoves DEF Moves, Advance, uiVars
<1> QED
  BY <1>3, <1>4, <1>5, <1>6, <1>7, <1>8 DEF Next

LEMMA ConfirmedAloneStep ==
  ASSUME ConfirmedAlone, [Next]_vars
  PROVE  ConfirmedAlone'
<1> USE DEF ConfirmedAlone
<1>1. CASE UNCHANGED vars
  BY <1>1 DEF vars, uiVars
<1>2. CASE Tick \/ Others
  BY <1>2 DEF Tick, Others, uiVars
<1>3. CASE PressQuit \/ PressEscape \/ PressRefresh \/ PressUp \/ PressDown
  BY <1>3 DEF PressQuit, PressEscape, Quit, PressRefresh, PressUp, PressDown,
     Select, uiVars
<1>4. CASE PressEnter
  BY <1>4 DEF PressEnter, ConfirmLifecycle, StartDaemon, ToggleCurrent
<1>5. ASSUME NEW action \in {"stop", "restart"}, PrepareLifecycle(action)
      PROVE  ConfirmedAlone'
  BY <1>5 DEF PrepareLifecycle
<1>6. ASSUME NEW i \in Slots, Join(i) PROVE ConfirmedAlone'
  BY <1>6 DEF Join, JoinRefresh, JoinAction
<1>7. ASSUME NEW i \in Slots, Advance(i) PROVE ConfirmedAlone'
  BY <1>7 DEF Advance, uiVars
<1> QED
  BY <1>1, <1>2, <1>3, <1>4, <1>5, <1>6, <1>7 DEF Next, Key

-----------------------------------------------------------------------------
(* One action.                                                             *)

(* A slot that changes is in flight afterwards if it holds an action then. *)
LEMMA InFlightMoves ==
  ASSUME EffectsTyped, NEW i \in Slots, NEW e \in Effects \cup {None},
         effects' = [effects EXCEPT ![i] = e]
  PROVE  /\ InFlight' = IF IsAction(e) THEN InFlight \cup {i}
                        ELSE InFlight \ {i}
         /\ effects'[i] = e
         /\ \A j \in Slots \ {i} : effects'[j] = effects[j]
<1>1. effects'[i] = e /\ \A j \in Slots \ {i} : effects'[j] = effects[j]
  BY DEF EffectsTyped
<1> QED
  BY <1>1 DEF InFlight, IsAction

LEMMA OneActionStep ==
  ASSUME EffectsTyped, ConfirmedAlone, OneAction, [Next]_vars
  PROVE  OneAction'
<1> SUFFICES ASSUME ~quit'
             PROVE  IF pending' = None THEN InFlight' = {}
                    ELSE \E i \in Slots :
                           InFlight' = {i} /\ effects'[i].kind = pending'
  BY DEF OneAction
<1>1. Sent("refresh") \in Effects /\ ~IsAction(Sent("refresh"))
  BY SentEffects DEF IsAction, Sent, Actions
<1>2. ASSUME ~quit, UNCHANGED <<effects, pending>> PROVE OneAction'
  BY <1>2 DEF OneAction, InFlight
<1>3. ASSUME ~quit, Adds(Sent("refresh")), UNCHANGED pending PROVE OneAction'
  <2>1. PICK i \in Slots : /\ effects[i] = None
                           /\ effects' = [effects EXCEPT ![i] = Sent("refresh")]
    BY <1>3 DEF Adds
  <2>2. i \notin InFlight
    BY <2>1 DEF InFlight
  <2>3. InFlight' = InFlight /\ \A j \in InFlight : effects'[j] = effects[j]
    BY <1>1, <2>1, <2>2, InFlightMoves DEF InFlight
  <2> QED
    BY <1>3, <2>3 DEF OneAction
<1>4. ASSUME ~quit, Asks PROVE OneAction'
  <2>1. PICK e \in Effects : e.kind = pending' /\ Adds(e)
    BY <1>4 DEF Asks
  <2>2. PICK i \in Slots : effects' = [effects EXCEPT ![i] = e]
    BY <2>1 DEF Adds
  <2>3. InFlight = {} /\ pending' # None /\ IsAction(e)
    BY <1>4, <2>1, NoneAssumption DEF Asks, OneAction, IsAction
  <2>4. InFlight' = {i} /\ effects'[i] = e
    BY <2>2, <2>3, InFlightMoves
  <2> QED
    BY <2>1, <2>3, <2>4 DEF OneAction
<1>5. ASSUME ~quit, NEW i \in Slots, Moves(i), UNCHANGED pending
      PROVE  OneAction'
  <2>1. PICK e \in Effects : /\ e.kind = effects[i].kind
                             /\ effects' = [effects EXCEPT ![i] = e]
    BY <1>5 DEF Moves
  <2>2. IsAction(e) <=> i \in InFlight
    BY <1>5, <2>1, NoneAssumption DEF Moves, InFlight, IsAction
  <2>3. InFlight' = InFlight
    <3>1. InFlight' = IF IsAction(e) THEN InFlight \cup {i} ELSE InFlight \ {i}
      BY <2>1, InFlightMoves
    <3> QED
      BY <2>2, <3>1
  <2>4. \A j \in Slots : effects'[j].kind = effects[j].kind
    BY <2>1, InFlightMoves
  <2> QED
    BY <1>5, <2>3, <2>4 DEF OneAction
<1>6. ASSUME ~quit, NEW i \in Slots, Join(i) PROVE OneAction'
  <2> DEFINE left == [effects EXCEPT ![i] = None]
  <2>1. /\ effects[i] \in Effects
        /\ pending' = IF effects[i].kind = "refresh" THEN pending ELSE None
    BY <1>6, JoinMoves
  <2>2. InFlight' = InFlight \ {i}
        /\ \A j \in Slots \ {i} : j \in InFlight => effects'[j] = effects[j]
    <3>1. ASSUME effects' = left
          PROVE  InFlight' = InFlight \ {i}
                 /\ \A j \in Slots \ {i} : effects'[j] = effects[j]
      BY <3>1, InFlightMoves DEF IsAction
    <3>2. ASSUME NEW j \in Slots, j = i \/ effects[j] = None,
                 effects' = [left EXCEPT ![j] = Sent("refresh")]
          PROVE  InFlight' = InFlight \ {i}
                 /\ \A k \in Slots \ {i} :
                      k \in InFlight => effects'[k] = effects[k]
      <4>1. /\ effects'[j] = Sent("refresh")
            /\ j # i => effects'[i] = None
            /\ \A k \in Slots \ {i, j} : effects'[k] = effects[k]
        BY <3>2 DEF EffectsTyped
      <4> QED
        BY <1>1, <3>2, <4>1 DEF InFlight, IsAction
    <3> QED
      BY <1>6, <3>1, <3>2, JoinMoves
  <2>3. CASE effects[i].kind = "refresh"
    <3>1. i \notin InFlight
      BY <2>3 DEF InFlight, Actions
    <3> QED
      BY <1>6, <2>1, <2>2, <2>3, <3>1 DEF OneAction, InFlight
  <2>4. CASE effects[i].kind # "refresh"
    <3>1. i \in InFlight
      BY <2>1, <2>4, EffectKinds DEF InFlight
    <3>2. InFlight = {i}
      BY <1>6, <3>1 DEF OneAction
    <3> QED
      BY <2>1, <2>2, <2>4, <3>2 DEF OneAction
  <2> QED
    BY <2>3, <2>4
<1>7. CASE UNCHANGED vars
  BY <1>2, <1>7 DEF vars, uiVars, OneAction
<1>8. CASE Tick
  BY <1>3, <1>8, SpawnAdds DEF Tick, uiVars, OneAction
<1>9. CASE Key
  BY <1>2, <1>3, <1>4, <1>9, KeyMoves DEF OneAction
<1>10. CASE Others
  BY <1>2, <1>10 DEF Others, uiVars, OneAction
<1>11. ASSUME NEW i \in Slots, Join(i) PROVE OneAction'
  BY <1>6, <1>11 DEF Join
<1>12. ASSUME NEW i \in Slots, Advance(i) PROVE OneAction'
  BY <1>5, <1>12, AdvanceMoves DEF Advance, uiVars
<1> QED
  BY <1>7, <1>8, <1>9, <1>10, <1>11, <1>12 DEF Next, OneAction

(* At most one action of the operator is in flight, and it is the one the  *)
(* screen says is pending, in whatever order the effects end and whatever  *)
(* keys are pressed between them (app.rs; tui.rs, the event loop): a       *)
(* confirmation that was asked for before is no way around it.             *)
THEOREM OneActionThm == Spec => []OneAction
<1>1. Init => EffectsTyped /\ ConfirmedAlone /\ OneAction
  <2> SUFFICES ASSUME Init PROVE EffectsTyped /\ ConfirmedAlone /\ OneAction
    OBVIOUS
  <2>1. Sent("refresh") \in Effects /\ Sent("refresh").kind \notin Actions
    BY SentEffects DEF Sent, Actions
  <2>2. EffectsTyped /\ ConfirmedAlone
    BY <2>1 DEF Init, EffectsTyped, ConfirmedAlone
  <2>3. InFlight = {}
    BY <2>1 DEF Init, InFlight
  <2> QED
    BY <2>2, <2>3 DEF Init, OneAction
<1>2. EffectsTyped /\ ConfirmedAlone /\ OneAction /\ [Next]_vars
        => EffectsTyped' /\ ConfirmedAlone' /\ OneAction'
  BY EffectsTypedStep, ConfirmedAloneStep, OneActionStep
<1> QED
  BY <1>1, <1>2, PTL DEF Spec

=============================================================================
