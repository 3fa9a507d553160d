------------------------ MODULE PlayerBotTurns_proofs ------------------------
(***************************************************************************)
(* Proofs about PlayerBotTurns, for any delays and any length of time.     *)
(*                                                                         *)
(* The invariant says what is true of the timers: one at most carries the  *)
(* current generation, it is neither stopped nor older than its deadline,  *)
(* and every other one carries a generation that will not come back.  A    *)
(* retained search carries the generation of the one turn that may go on   *)
(* with it.                                                                *)
(***************************************************************************)
EXTENDS PlayerBotTurns, TLAPS

\* The pending event and the requests it stands for.
EventOK ==
    /\ event \in {0, generation}
    /\ event = 0 <=> requested = {}
    /\ event # 0 => deadline \in requested /\ \A at \in requested : deadline <= at

\* The one timer that can still start a turn.
CurrentOK ==
    /\ event # 0 => \E t \in tasks : t.gen = generation
    /\ \A t \in tasks : t.gen = generation =>
        event # 0 /\ t.stage \in {"timer", "queued"} /\ t.due = deadline
    /\ \A t, u \in tasks : t.gen = generation /\ u.gen = generation => t = u

\* The timers that cannot.
StaleOK ==
    \A t \in tasks :
        /\ t.gen <= generation
        /\ t.stage = "timer" => t.gen = generation
        /\ t.stage = "queued" => t.due <= now

\* A stopped controller has no turn, and has said so once.
StoppedOK ==
    /\ terminal = 0 <=> lifecycle # "Stopped"
    /\ lifecycle = "Stopped" => event = 0

SearchOK ==
    /\ search # NoSearch => search.stamp <= generation
    /\ Continues => IF InTurn THEN turns = search.turn + 1 /\ event = 0
                             ELSE turns = search.turn \/ event = 0

TurnsInv == TypeOK /\ EventOK /\ CurrentOK /\ StaleOK /\ StoppedOK /\ SearchOK

-----------------------------------------------------------------------------

\* Installing a turn keeps the invariant's parts that are about timers, when it
\* is due before the one it replaces.
LEMMA InstallKeeps ==
    ASSUME TurnsInv, NEW at \in Nat, ~KeepEarliest(at), Install(at),
           requested' = requested \cup {at}, now' = now, lifecycle' = lifecycle,
           lifecycle # "Stopped", terminal' = terminal
    PROVE  /\ event' \in Nat /\ generation' \in Nat /\ deadline' \in Nat
           /\ tasks' \in SUBSET Task /\ requested' \in SUBSET Nat
           /\ event' = generation + 1 /\ generation' = generation + 1
           /\ EventOK' /\ CurrentOK' /\ StaleOK' /\ StoppedOK'
<1> USE DEF TurnsInv, TypeOK
<1>1. event' = generation + 1 /\ generation' = generation + 1 /\ deadline' = at
    BY DEF Install
<1>2. NewTimer(at) \in Task /\ NewTimer(at).gen = generation + 1 /\ NewTimer(at).due = at
      /\ NewTimer(at).stage = "timer"
    BY DEF NewTimer, Task
<1>3. ASSUME NEW u \in StopEvent(tasks, event)
      PROVE  u \in Task /\ u.gen <= generation /\ u.stage # "timer"
             /\ (u.stage = "queued" => u.due <= now)
    <2>1. PICK t \in tasks : u = IF t.gen = event /\ t.stage = "timer"
                                 THEN [t EXCEPT !.stage = "cancelled"] ELSE t
        BY DEF StopEvent
    <2>2. t \in Task /\ t.gen <= generation
        BY DEF StaleOK
    <2>3. CASE t.stage = "timer"
        <3>1. t.gen = generation /\ event # 0
            BY <2>3 DEF StaleOK, CurrentOK
        <3>2. t.gen = event
            BY <3>1 DEF EventOK
        <3>3. u = [t EXCEPT !.stage = "cancelled"]
            BY <2>1, <2>3, <3>2
        <3> QED BY <2>2, <3>3 DEF Task
    <2>4. CASE t.stage # "timer"
        BY <2>1, <2>2, <2>4 DEF StaleOK
    <2> QED BY <2>3, <2>4
<1>4. tasks' = StopEvent(tasks, event) \cup {NewTimer(at)}
    BY DEF Install
<1>5. tasks' \in SUBSET Task
    BY <1>2, <1>3, <1>4
<1>6. EventOK'
    <2>1. event' \in {0, generation'} /\ event' # 0 /\ requested' # {} /\ deadline' \in requested'
        BY <1>1
    <2>2. ASSUME NEW a \in requested' PROVE deadline' <= a
        <3>1. CASE event = 0
            BY <3>1, <1>1, <2>2 DEF EventOK
        <3>2. CASE event # 0
            <4>1. at < deadline
                BY <3>2 DEF KeepEarliest
            <4> QED BY <4>1, <3>2, <1>1, <2>2 DEF EventOK
        <3> QED BY <3>1, <3>2
    <2> QED BY <2>1, <2>2 DEF EventOK
<1>7. CurrentOK'
    <2>1. ASSUME NEW t \in tasks', t.gen = generation' PROVE t = NewTimer(at)
        BY <1>1, <1>3, <1>4, <2>1 DEF Task
    <2>2. NewTimer(at) \in tasks' /\ NewTimer(at).gen = generation' /\ event' # 0
        BY <1>1, <1>2, <1>4
    <2> QED BY <1>1, <1>2, <2>1, <2>2 DEF CurrentOK
<1>8. StaleOK'
    BY <1>1, <1>2, <1>3, <1>4 DEF StaleOK, Task
<1>9. StoppedOK'
    BY <1>1 DEF StoppedOK
<1> QED BY <1>1, <1>5, <1>6, <1>7, <1>8, <1>9

\* A request either leaves the pending turn as it is or installs one.
LEMMA RequestKeeps ==
    ASSUME TurnsInv, RequestTurn, Running, now' = now, lifecycle' = lifecycle, terminal' = terminal
    PROVE  /\ event' \in Nat /\ generation' \in Nat /\ deadline' \in Nat
           /\ tasks' \in SUBSET Task /\ requested' \in SUBSET Nat
           /\ event' # 0 /\ event' = generation'
           /\ generation' = generation \/ generation' = generation + 1
           /\ event = 0 => generation' = generation + 1
           /\ EventOK' /\ CurrentOK' /\ StaleOK' /\ StoppedOK'
<1>1. PICK interval \in Intervals :
        LET at == now + interval IN
        /\ at <= MaxTime
        /\ requested' = requested \cup {at}
        /\ IF KeepEarliest(at) THEN UNCHANGED <<event, generation, deadline, tasks>>
                               ELSE Install(at)
    BY DEF RequestTurn
<1> DEFINE at == now + interval
<1>2. at \in Nat
    BY TurnsAssumption DEF TurnsInv, TypeOK
<1>3. CASE ~KeepEarliest(at)
    <2>1. Install(at) /\ requested' = requested \cup {at}
        BY <1>1, <1>3
    <2>2. lifecycle # "Stopped"
        BY DEF Running
    <2> HIDE DEF at
    <2>3. generation \in Nat
        BY DEF TurnsInv, TypeOK
    <2> QED BY <1>2, <1>3, <2>1, <2>2, <2>3, InstallKeeps
<1>4. CASE KeepEarliest(at)
    <2>1. UNCHANGED <<event, generation, deadline, tasks>> /\ requested' = requested \cup {at}
        BY <1>1, <1>4
    <2>2. event # 0 /\ deadline <= at
        BY <1>4 DEF KeepEarliest
    <2>3. EventOK'
        BY <2>1, <2>2 DEF TurnsInv, EventOK
    <2>4. CurrentOK' /\ StaleOK' /\ StoppedOK'
        BY <2>1 DEF TurnsInv, CurrentOK, StaleOK, StoppedOK
    <2> HIDE DEF at
    <2> QED BY <1>2, <2>1, <2>2, <2>3, <2>4 DEF TurnsInv, TypeOK, EventOK
<1> QED BY <1>3, <1>4

\* The initial state.
LEMMA TurnsInvInit == Init => TurnsInv
<1> SUFFICES ASSUME Init PROVE TurnsInv
    OBVIOUS
<1>1. TypeOK
    <2>1. now \in 0..MaxTime
        BY TurnsAssumption DEF Init
    <2>2. search \in [stamp : Nat, turn : Nat]
        BY DEF Init, NoSearch
    <2>3. tasks \in SUBSET Task /\ requested \in SUBSET Nat
        BY DEF Init
    <2> QED BY <2>1, <2>2, <2>3 DEF Init, TypeOK
<1>2. EventOK /\ CurrentOK /\ StaleOK /\ StoppedOK
    BY DEF Init, EventOK, CurrentOK, StaleOK, StoppedOK
<1>3. SearchOK
    BY DEF Init, SearchOK, Continues
<1> QED BY <1>1, <1>2, <1>3 DEF TurnsInv

\* Every step keeps the invariant.
LEMMA TurnsInvNext == TurnsInv /\ [Next]_vars => TurnsInv'
<1> SUFFICES ASSUME TurnsInv, [Next]_vars PROVE TurnsInv'
    OBVIOUS
<1>1. CASE Tick
    <2>1. now < MaxTime /\ now' = now + 1
          /\ UNCHANGED <<timerVars, controlVars, search, frame, worldVars, turns>>
        BY <1>1 DEF Tick
    <2>2. TypeOK'
        BY <2>1, TurnsAssumption DEF TurnsInv, TypeOK, timerVars, controlVars, worldVars
    <2>3. EventOK' /\ CurrentOK' /\ StoppedOK'
        BY <2>1 DEF TurnsInv, EventOK, CurrentOK, StoppedOK, timerVars, controlVars
    <2>4. SearchOK'
        BY <2>1 DEF TurnsInv, SearchOK, Continues, InTurn, timerVars
    <2>5. StaleOK'
        <3>1. \A t \in tasks : t.due \in Nat
            BY DEF TurnsInv, TypeOK, Task
        <3> QED BY <2>1, <3>1 DEF TurnsInv, TypeOK, StaleOK, timerVars
    <2> QED BY <2>2, <2>3, <2>4, <2>5 DEF TurnsInv
<1>2. CASE Expire
    <2>1. PICK t \in tasks : /\ t.stage \in {"timer", "cancelled"} /\ Due(t)
                             /\ tasks' = (tasks \ {t}) \cup {[t EXCEPT !.stage = "queued"]}
        BY <1>2 DEF Expire
    <2>2. UNCHANGED <<now, event, generation, deadline, requested, controlVars, search, frame, worldVars, turns>>
        BY <1>2 DEF Expire
    <2> DEFINE u == [t EXCEPT !.stage = "queued"]
    <2>3. t \in Task /\ u \in Task /\ u.gen = t.gen /\ u.due = t.due /\ u.stage = "queued" /\ u.due <= now
        BY <2>1 DEF TurnsInv, TypeOK, Task, Due
    <2> HIDE DEF u
    <2>4. tasks' = (tasks \ {t}) \cup {u}
        BY <2>1 DEF u
    <2>5. TypeOK'
        BY <2>2, <2>3, <2>4 DEF TurnsInv, TypeOK, controlVars, worldVars
    <2>6. EventOK' /\ StoppedOK' /\ SearchOK'
        BY <2>2 DEF TurnsInv, EventOK, StoppedOK, SearchOK, Continues, InTurn, controlVars
    <2>7. CurrentOK'
        BY <2>2, <2>3, <2>4 DEF TurnsInv, CurrentOK
    <2>8. StaleOK'
        BY <2>2, <2>3, <2>4 DEF TurnsInv, StaleOK
    <2> QED BY <2>5, <2>6, <2>7, <2>8 DEF TurnsInv
<1>3. CASE Abort
    <2>1. PICK t \in tasks : t.stage = "cancelled" /\ tasks' = tasks \ {t}
        BY <1>3 DEF Abort
    <2>2. UNCHANGED <<now, event, generation, deadline, requested, controlVars, search, frame, worldVars, turns>>
        BY <1>3 DEF Abort
    <2>3. CurrentOK'
        BY <2>1, <2>2 DEF TurnsInv, CurrentOK
    <2> QED BY <2>1, <2>2, <2>3 DEF TurnsInv, TypeOK, EventOK, StaleOK, StoppedOK, SearchOK,
            Continues, InTurn, controlVars, worldVars
<1>4. CASE DispatchTurn
    <2>1. PICK t \in tasks : Dispatch(t)
        BY <1>4 DEF DispatchTurn
    <2>2. CASE CurrentTurn(t)
        <3>1. event' = 0 /\ requested' = {} /\ tasks' = tasks \ {t} /\ ~InTurn
              /\ UNCHANGED <<now, generation, deadline, deathObserved, search, worldVars>>
            BY <2>1, <2>2 DEF Dispatch
        <3>2. event # 0 /\ event = generation
            BY <2>2 DEF TurnsInv, CurrentOK, EventOK, CurrentTurn
        <3>3. lifecycle # "Stopped" /\ terminal = 0
            BY <3>2 DEF TurnsInv, StoppedOK
        <3>4. \/ UNCHANGED <<lifecycle, terminal>>
              \/ lifecycle' = "Stopped" /\ terminal' = 1
            BY <2>1, <3>3 DEF Dispatch
        <3>5. \/ UNCHANGED <<frame, turns>>
              \/ frame' = "acting" /\ turns' = turns + 1
            BY <2>1 DEF Dispatch
        <3>6. TypeOK'
            BY <3>1, <3>4, <3>5 DEF TurnsInv, TypeOK, worldVars
        <3>7. EventOK' /\ StoppedOK'
            BY <3>1, <3>3, <3>4 DEF TurnsInv, EventOK, StoppedOK
        <3>8. CurrentOK'
            BY <2>2, <3>1 DEF TurnsInv, CurrentOK, CurrentTurn
        <3>9. StaleOK'
            BY <3>1 DEF TurnsInv, StaleOK
        <3>10. SearchOK'
            BY <3>1, <3>2, <3>5 DEF TurnsInv, TypeOK, SearchOK, Continues, InTurn
        <3> QED BY <3>6, <3>7, <3>8, <3>9, <3>10 DEF TurnsInv
    <2>3. CASE ~CurrentTurn(t)
        <3>1. UNCHANGED <<event, requested, frame, turns, lifecycle, terminal,
                          now, generation, deadline, deathObserved, search, worldVars>>
              /\ tasks' = tasks \ {t}
            BY <2>1, <2>3 DEF Dispatch
        <3>2. CurrentOK'
            BY <2>3, <3>1 DEF TurnsInv, CurrentOK, CurrentTurn
        <3> QED BY <3>1, <3>2 DEF TurnsInv, TypeOK, EventOK, StaleOK, StoppedOK, SearchOK,
                Continues, InTurn, worldVars
    <2> QED BY <2>2, <2>3
<1>5. CASE Schedule
    <2>1. RequestTurn /\ Running /\ InTurn
          /\ UNCHANGED <<now, controlVars, search, frame, worldVars, turns>>
        BY <1>5 DEF Schedule
    <2>2. now' = now /\ lifecycle' = lifecycle /\ terminal' = terminal
        BY <2>1 DEF controlVars
    <2>3. /\ event' \in Nat /\ generation' \in Nat /\ deadline' \in Nat
          /\ tasks' \in SUBSET Task /\ requested' \in SUBSET Nat
          /\ generation' = generation \/ generation' = generation + 1
          /\ event = 0 => generation' = generation + 1
          /\ EventOK' /\ CurrentOK' /\ StaleOK' /\ StoppedOK'
        BY <2>1, <2>2, RequestKeeps
    <2>4. TypeOK'
        BY <2>1, <2>3 DEF TurnsInv, TypeOK, controlVars, worldVars
    <2>5. SearchOK'
        BY <2>1, <2>3 DEF TurnsInv, TypeOK, SearchOK, Continues, InTurn
    <2> QED BY <2>3, <2>4, <2>5 DEF TurnsInv
<1>6. CASE Stop
    <2>1. /\ terminal = 0 /\ lifecycle' = "Stopped" /\ terminal' = terminal + 1 /\ requested' = {}
          /\ UNCHANGED <<now, deadline, deathObserved, search, frame, worldVars, turns>>
        BY <1>6 DEF Stop, StopController, MayStop
    <2>2. CASE event = 0
        <3>1. UNCHANGED <<event, generation, tasks>>
            BY <1>6, <2>2 DEF Stop, StopController
        <3> QED BY <2>1, <2>2, <3>1 DEF TurnsInv, TypeOK, EventOK, CurrentOK, StaleOK, StoppedOK,
                SearchOK, Continues, InTurn, worldVars
    <2>3. CASE event # 0
        <3>1. tasks' = StopEvent(tasks, event) /\ event' = 0 /\ generation' = generation + 1
            BY <1>6, <2>3 DEF Stop, StopController
        <3>2. ASSUME NEW u \in tasks'
              PROVE  u \in Task /\ u.gen <= generation /\ u.stage # "timer"
                     /\ (u.stage = "queued" => u.due <= now)
            <4>1. PICK t \in tasks : u = IF t.gen = event /\ t.stage = "timer"
                                         THEN [t EXCEPT !.stage = "cancelled"] ELSE t
                BY <3>1 DEF StopEvent
            <4>2. t \in Task /\ t.gen <= generation
                BY DEF TurnsInv, TypeOK, StaleOK
            <4>3. t.stage = "timer" => t.gen = event
                BY <2>3 DEF TurnsInv, StaleOK, EventOK
            <4>4. t.stage = "queued" => t.due <= now
                BY DEF TurnsInv, StaleOK
            <4>5. CASE t.stage = "timer"
                <5>1. u = [t EXCEPT !.stage = "cancelled"]
                    BY <4>1, <4>3, <4>5
                <5> QED BY <4>2, <5>1 DEF Task
            <4>6. CASE t.stage # "timer"
                BY <4>1, <4>2, <4>4, <4>6
            <4> QED BY <4>5, <4>6
        <3>3. TypeOK'
            BY <2>1, <3>1, <3>2 DEF TurnsInv, TypeOK, worldVars
        <3>4. CurrentOK' /\ StaleOK'
            BY <2>1, <3>1, <3>2 DEF TurnsInv, TypeOK, CurrentOK, StaleOK, Task
        <3>5. EventOK' /\ StoppedOK'
            BY <2>1, <3>1 DEF EventOK, StoppedOK
        <3>6. SearchOK'
            BY <2>1, <3>1 DEF TurnsInv, TypeOK, SearchOK, Continues, InTurn
        <3> QED BY <3>3, <3>4, <3>5, <3>6 DEF TurnsInv
    <2> QED BY <2>2, <2>3
<1>7. CASE Pause
    BY <1>7 DEF Pause, Running, timerVars, worldVars, TurnsInv, TypeOK, EventOK, CurrentOK, StaleOK,
       StoppedOK, SearchOK, Continues, InTurn
<1>8. CASE Return
    BY <1>8 DEF Return, timerVars, controlVars, worldVars, TurnsInv, TypeOK, EventOK, CurrentOK, StaleOK,
       StoppedOK, SearchOK, Continues, InTurn
<1>9. CASE EnterTraversal
    BY <1>9 DEF EnterTraversal, timerVars, controlVars, worldVars, TurnsInv, TypeOK, EventOK, CurrentOK,
       StaleOK, StoppedOK, SearchOK, Continues, InTurn
<1>10. CASE PatrolSearch
    <2>1. RequestTurn /\ Running /\ frame' = "idle" /\ search' = [stamp |-> generation', turn |-> turns]
          /\ UNCHANGED <<now, controlVars, worldVars, turns>>
        BY <1>10 DEF PatrolSearch, Stamp
    <2>2. now' = now /\ lifecycle' = lifecycle /\ terminal' = terminal
        BY <2>1 DEF controlVars
    <2>3. /\ event' \in Nat /\ generation' \in Nat /\ deadline' \in Nat
          /\ tasks' \in SUBSET Task /\ requested' \in SUBSET Nat
          /\ EventOK' /\ CurrentOK' /\ StaleOK' /\ StoppedOK'
        BY <2>1, <2>2, RequestKeeps
    <2>4. TypeOK'
        BY <2>1, <2>3 DEF TurnsInv, TypeOK, controlVars, worldVars
    <2>5. SearchOK'
        BY <2>1, <2>3 DEF TurnsInv, TypeOK, SearchOK, Continues, InTurn
    <2> QED BY <2>3, <2>4, <2>5 DEF TurnsInv
<1>11. CASE LeaveTraversal
    BY <1>11 DEF LeaveTraversal, NoSearch, timerVars, controlVars, worldVars, TurnsInv, TypeOK, EventOK,
       CurrentOK, StaleOK, StoppedOK, SearchOK, Continues, InTurn
<1>12. CASE Dies
    BY <1>12 DEF Dies, timerVars, controlVars, TurnsInv, TypeOK, EventOK, CurrentOK, StaleOK,
       StoppedOK, SearchOK, Continues, InTurn
<1>13. CASE OnDeath
    BY <1>13 DEF OnDeath, timerVars, worldVars, TurnsInv, TypeOK, EventOK, CurrentOK, StaleOK,
       StoppedOK, SearchOK, Continues, InTurn
<1>14. CASE Leaves
    BY <1>14 DEF Leaves, timerVars, controlVars, TurnsInv, TypeOK, EventOK, CurrentOK, StaleOK,
       StoppedOK, SearchOK, Continues, InTurn
<1>15. CASE Shutdown
    BY <1>15 DEF Shutdown, timerVars, controlVars, TurnsInv, TypeOK, EventOK, CurrentOK, StaleOK,
       StoppedOK, SearchOK, Continues, InTurn
<1>16. CASE UNCHANGED vars
    BY <1>16 DEF vars, timerVars, controlVars, worldVars, TurnsInv, TypeOK, EventOK, CurrentOK, StaleOK,
       StoppedOK, SearchOK, Continues, InTurn
<1> QED BY <1>1, <1>2, <1>3, <1>4, <1>5, <1>6, <1>7, <1>8, <1>9, <1>10, <1>11, <1>12, <1>13, <1>14,
        <1>15, <1>16 DEF Next

-----------------------------------------------------------------------------

\* The timers, the event and the retained search agree in every reachable
\* state, whatever a turn asks for and however late a cancellation is read.
THEOREM Invariance == Spec => []TurnsInv
<1>1. Init => TurnsInv
    BY TurnsInvInit
<1>2. TurnsInv /\ [Next]_vars => TurnsInv'
    BY TurnsInvNext
<1> QED BY <1>1, <1>2, PTL DEF Spec

\* Every variable keeps its type, and at most one terminal event is emitted.
THEOREM TypeCorrect == Spec => []TypeOK
<1>1. TurnsInv => TypeOK
    BY DEF TurnsInv
<1> QED BY <1>1, Invariance, PTL

\* One turn is on its way, for the earliest of the deadlines that were asked for.
THEOREM EarliestTurnScheduled == Spec => []EarliestTurn
<1>1. TurnsInv => EarliestTurn
    <2> SUFFICES ASSUME TurnsInv PROVE EarliestTurn
        OBVIOUS
    <2> DEFINE ahead == {t \in tasks : Valid(t)}
    <2>1. CASE requested = {}
        <3>1. ahead = {}
            BY <2>1 DEF Valid, CurrentTurn, TurnsInv, EventOK, CurrentOK
        <3> QED BY <2>1, <3>1 DEF EarliestTurn
    <2>2. CASE requested # {}
        <3>1. event # 0 /\ deadline \in requested /\ \A at \in requested : deadline <= at
            BY <2>2 DEF TurnsInv, EventOK
        <3>2. PICK t \in tasks : t.gen = generation
            BY <3>1 DEF TurnsInv, CurrentOK
        <3>3. t \in ahead /\ t.due = deadline
            BY <3>2 DEF TurnsInv, CurrentOK, Valid, CurrentTurn
        <3>4. ahead = {t}
            BY <3>2, <3>3 DEF TurnsInv, CurrentOK, Valid, CurrentTurn
        <3>5. \E v \in ahead : ahead = {v} /\ v.due \in requested /\ \A at \in requested : v.due <= at
            BY <3>1, <3>3, <3>4
        <3> QED BY <2>2, <3>5 DEF EarliestTurn
    <2> QED BY <2>1, <2>2
<1> QED BY <1>1, Invariance, PTL

\* A turn runs only when one was asked for since the turn before, its time has
\* come, and the controller is running.
THEOREM TurnsAreOwed == Spec => TurnIsOwed
<1>1. TurnsInv /\ [Next]_vars => [turns' # turns => Running /\ \E at \in requested : at <= now]_vars
    <2> SUFFICES ASSUME TurnsInv, Next, turns' # turns
                 PROVE  Running /\ \E at \in requested : at <= now
        OBVIOUS
    <2>1. DispatchTurn
        BY DEF Next, Tick, Expire, Abort, Schedule, Stop, Pause, Return, EnterTraversal, PatrolSearch,
           LeaveTraversal, Dies, OnDeath, Leaves, Shutdown
    <2>2. PICK t \in tasks : Dispatch(t)
        BY <2>1 DEF DispatchTurn
    <2>3. t.stage = "queued" /\ CurrentTurn(t) /\ ~Suppressed
        BY <2>2 DEF Dispatch
    <2>4. t.due = deadline /\ event # 0 /\ t.due <= now
        BY <2>3 DEF TurnsInv, CurrentOK, StaleOK, CurrentTurn
    <2>5. deadline \in requested
        BY <2>4 DEF TurnsInv, EventOK
    <2> QED BY <2>3, <2>4, <2>5 DEF Suppressed
<1> QED BY <1>1, Invariance, PTL DEF Spec, TurnIsOwed

\* A retained patrol search is gone on with by the very next turn or never.
THEOREM SearchesAreContinuous == Spec => []SearchContinuous
<1>1. TurnsInv => SearchContinuous
    BY DEF TurnsInv, TypeOK, SearchOK, SearchContinuous, InTurn
<1> QED BY <1>1, Invariance, PTL

-----------------------------------------------------------------------------
(* The wait for a turn *)

\* The turn t is on its way still: as it was, expired, or replaced by one that
\* is due before it.  One that has expired is not replaced any more.
Nearer(t) ==
    \/ t \in tasks' /\ Valid(t)'
    \/ /\ t.stage = "timer"
       /\ \E u \in tasks' : /\ Valid(u)'
                            /\ \/ u = [t EXCEPT !.stage = "queued"]
                               \/ u.due < t.due

\* A turn that was asked for only comes nearer, and the wait for it ends in the
\* turn itself or in the controller's stop.
TurnAdvances ==
    [][/\ \A t \in tasks : Valid(t) /\ requested' # {} => Nearer(t)
       /\ requested # {} /\ requested' = {} =>
            Stop \/ \E t \in tasks : Valid(t) /\ Dispatch(t)]_vars

\* A request keeps the turn that is on its way or brings an earlier one.
LEMMA RequestComesNearer ==
    ASSUME TurnsInv, TurnsInv', RequestTurn, NEW t \in tasks, Valid(t)
    PROVE  Nearer(t)
<1>1. PICK interval \in Intervals :
        LET at == now + interval IN
        IF KeepEarliest(at) THEN UNCHANGED <<event, generation, deadline, tasks>>
                            ELSE Install(at)
    BY DEF RequestTurn
<1> DEFINE at == now + interval
<1>2. at \in Nat /\ now \in Nat /\ now < at
    BY TurnsAssumption DEF TurnsInv, TypeOK
<1>3. t.gen = generation /\ event # 0 /\ t.due = deadline /\ t.stage \in {"timer", "queued"}
    BY DEF TurnsInv, CurrentOK, Valid, CurrentTurn
<1>4. CASE KeepEarliest(at)
    BY <1>1, <1>4 DEF Nearer, Valid, CurrentTurn
<1>5. CASE ~KeepEarliest(at)
    <2>1. deadline \in Nat /\ at < deadline
        BY <1>2, <1>3, <1>5 DEF KeepEarliest, TurnsInv, TypeOK
    <2>2. t.stage = "timer"
        BY <1>2, <1>3, <2>1 DEF TurnsInv, StaleOK
    <2>3. Install(at)
        BY <1>1, <1>5
    <2> HIDE DEF at
    <2>4. NewTimer(at) \in tasks' /\ generation' = generation + 1
        BY <2>3 DEF Install
    <2>5. NewTimer(at).due < t.due /\ NewTimer(at).gen = generation'
          /\ NewTimer(at).stage = "timer"
        BY <1>3, <2>1, <2>4 DEF NewTimer
    <2> QED BY <2>2, <2>4, <2>5 DEF Nearer, Valid, CurrentTurn
<1> QED BY <1>4, <1>5

\* TurnAdvances: schedule() never postpones a turn, whatever it is called with,
\* and one whose timer has expired reaches the dispatcher unless the controller
\* is stopped first.
THEOREM TurnsComeNearer == Spec => TurnAdvances
<1>1. TurnsInv /\ TurnsInv' /\ [Next]_vars =>
        [/\ \A t \in tasks : Valid(t) /\ requested' # {} => Nearer(t)
         /\ requested # {} /\ requested' = {} =>
              Stop \/ \E t \in tasks : Valid(t) /\ Dispatch(t)]_vars
    <2> SUFFICES ASSUME TurnsInv, TurnsInv', Next
                 PROVE  /\ \A t \in tasks : Valid(t) /\ requested' # {} => Nearer(t)
                        /\ requested # {} /\ requested' = {} =>
                             Stop \/ \E t \in tasks : Valid(t) /\ Dispatch(t)
        OBVIOUS
    <2>1. ASSUME requested # {}, requested' = {}
          PROVE  Stop \/ \E t \in tasks : Valid(t) /\ Dispatch(t)
        <3>1. Stop \/ DispatchTurn
            BY <2>1 DEF Next, Tick, Expire, Abort, Schedule, RequestTurn, Pause, Return,
               EnterTraversal, PatrolSearch, LeaveTraversal, Dies, OnDeath, Leaves, Shutdown, timerVars
        <3>2. ASSUME NEW t \in tasks, Dispatch(t) PROVE Valid(t)
            BY <2>1, <3>2 DEF Dispatch, Valid
        <3> QED BY <3>1, <3>2 DEF DispatchTurn
    <2>2. ASSUME NEW t \in tasks, Valid(t), requested' # {} PROVE Nearer(t)
        <3> DEFINE Still == tasks' = tasks /\ generation' = generation
        <3>1. CASE Schedule \/ PatrolSearch
            BY <2>2, <3>1, RequestComesNearer DEF Schedule, PatrolSearch
        <3>2. CASE Expire
            <4>1. PICK u \in tasks : /\ u.stage \in {"timer", "cancelled"}
                                     /\ tasks' = (tasks \ {u}) \cup {[u EXCEPT !.stage = "queued"]}
                BY <3>2 DEF Expire
            <4>2. generation' = generation
                BY <3>2 DEF Expire
            <4>3. CASE u = t
                <5>1. [t EXCEPT !.stage = "queued"].gen = t.gen
                      /\ [t EXCEPT !.stage = "queued"].stage = "queued"
                    BY DEF TurnsInv, TypeOK, Task
                <5>2. t.stage = "timer"
                    BY <2>2, <4>1, <4>3 DEF Valid
                <5> QED BY <2>2, <4>1, <4>2, <4>3, <5>1, <5>2 DEF Nearer, Valid, CurrentTurn
            <4>4. CASE u # t
                BY <2>2, <4>1, <4>2, <4>4 DEF Nearer, Valid, CurrentTurn
            <4> QED BY <4>3, <4>4
        <3>3. CASE Abort
            BY <2>2, <3>3 DEF Abort, Nearer, Valid, CurrentTurn
        <3>4. CASE DispatchTurn
            <4>1. PICK u \in tasks : Dispatch(u)
                BY <3>4 DEF DispatchTurn
            <4>2. ~CurrentTurn(u) /\ tasks' = tasks \ {u} /\ generation' = generation
                BY <2>2, <4>1 DEF Dispatch
            <4> QED BY <2>2, <4>2 DEF Nearer, Valid, CurrentTurn
        <3>5. CASE Stop
            BY <2>2, <3>5 DEF Stop, StopController
        <3>6. CASE Still
            BY <2>2, <3>6 DEF Nearer, Valid, CurrentTurn
        <3>7. Tick \/ Pause \/ Return \/ EnterTraversal \/ LeaveTraversal \/ Dies \/ OnDeath
              \/ Leaves \/ Shutdown => Still
            BY DEF Tick, Pause, Return, EnterTraversal, LeaveTraversal, Dies, OnDeath, Leaves,
               Shutdown, timerVars
        <3> QED BY <3>1, <3>2, <3>3, <3>4, <3>5, <3>6, <3>7 DEF Next
    <2> QED BY <2>1, <2>2
<1> QED BY <1>1, Invariance, PTL DEF Spec, TurnAdvances
=============================================================================
