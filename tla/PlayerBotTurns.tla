---------------------------- MODULE PlayerBotTurns ----------------------------
(***************************************************************************)
(* The turns of one PlayerBotController: schedule(), the timer callback,   *)
(* navigate()'s guards, stop(), pause(), onDeath(), and the patrol route   *)
(* search that processTraversal() keeps from one turn to the next.         *)
(*                                                                         *)
(* A turn is a dispatcher task that a timer of the scheduler thread hands  *)
(* over; stopping the timer only posts a cancellation.  A turn calls       *)
(* schedule() any number of times with any intervals, and the clock goes   *)
(* on while it runs, so a turn is spread over several steps.               *)
(*                                                                         *)
(* An event id is named by the generation it was scheduled with.           *)
(***************************************************************************)
EXTENDS Naturals, FiniteSets

CONSTANTS
    Intervals,      \* the delays schedule() is called with
    MaxTime         \* bound: the clock stops here, and nothing is due later

ASSUME TurnsAssumption ==
    /\ Intervals \subseteq Nat \ {0}
    /\ MaxTime \in Nat

VARIABLES
    now,            \* steady_clock
    lifecycle,      \* PlayerBotTurnRouter::controllerLifecycle
    event,          \* scheduledTurnEvent, 0 = none
    generation,     \* scheduledTurnGeneration
    deadline,       \* scheduledTurnDeadline
    terminal,       \* how many terminal events were emitted
    deathObserved,
    search,         \* huntPatrolRouteSearch
    tasks,          \* turn tasks in the scheduler or the dispatcher
    frame,          \* what the dispatcher is executing
    player,         \* "alive", "dead" (isDead() or the death hook), "gone"
    shutdown,       \* GAME_STATE_SHUTDOWN
    requested,      \* history: the deadlines asked for since the last turn
    turns           \* history: turns that got past the guards of navigate()

timerVars == <<event, generation, deadline, tasks, requested>>
worldVars == <<player, shutdown>>
controlVars == <<lifecycle, terminal, deathObserved>>
vars == <<now, timerVars, controlVars, search, frame, worldVars, turns>>

NoSearch == [stamp |-> 0, turn |-> 0]

Task == [gen : Nat, due : Nat, stage : {"timer", "cancelled", "queued"}]

TypeOK ==
    /\ now \in 0..MaxTime
    /\ lifecycle \in {"Running", "Paused", "Stopped"}
    /\ event \in Nat /\ generation \in Nat /\ deadline \in Nat
    /\ terminal \in {0, 1} /\ deathObserved \in BOOLEAN
    /\ search \in [stamp : Nat, turn : Nat]
    /\ tasks \in SUBSET Task
    /\ frame \in {"idle", "acting", "traversal"}
    /\ player \in {"alive", "dead", "gone"} /\ shutdown \in BOOLEAN
    /\ requested \in SUBSET Nat /\ turns \in Nat

\* start() runs like a turn: it may pick a goal, stop, and schedule the first turn.
Init ==
    /\ now = 0
    /\ lifecycle = "Running"
    /\ event = 0 /\ generation = 0 /\ deadline = 0 /\ tasks = {}
    /\ terminal = 0 /\ deathObserved = FALSE
    /\ search = NoSearch
    /\ frame = "acting" /\ turns = 0
    /\ player = "alive" /\ shutdown = FALSE
    /\ requested = {}

Running == lifecycle = "Running"
InTurn == frame # "idle"

-----------------------------------------------------------------------------
(* The scheduler                                                             *)

\* Scheduler::stopEvent posts a cancellation.
StopEvent(ts, id) ==
    {IF t.gen = id /\ t.stage = "timer" THEN [t EXCEPT !.stage = "cancelled"] ELSE t : t \in ts}

NewTimer(due) == [gen |-> generation + 1, due |-> due, stage |-> "timer"]

Due(t) == now >= t.due

\* The timer expires; one that was cancelled does, too, when the scheduler
\* thread has not read the cancellation yet.
Expire ==
    /\ \E t \in tasks :
        /\ t.stage \in {"timer", "cancelled"} /\ Due(t)
        /\ tasks' = (tasks \ {t}) \cup {[t EXCEPT !.stage = "queued"]}
    /\ UNCHANGED <<now, event, generation, deadline, requested, controlVars, search, frame, worldVars, turns>>

\* operation_aborted
Abort ==
    /\ \E t \in tasks : t.stage = "cancelled" /\ tasks' = tasks \ {t}
    /\ UNCHANGED <<now, event, generation, deadline, requested, controlVars, search, frame, worldVars, turns>>

Tick ==
    /\ now < MaxTime
    /\ now' = now + 1
    /\ UNCHANGED <<timerVars, controlVars, search, frame, worldVars, turns>>

-----------------------------------------------------------------------------
(* What a turn may call                                                      *)

\* Mutants: the new timer is the one that gets cancelled; a later deadline
\* replaces an earlier one.
ReplaceWrongTimer(at) ==
    /\ generation' = generation + 1
    /\ event' = generation + 1
    /\ deadline' = at
    /\ tasks' = IF event = 0 THEN tasks \cup {NewTimer(at)}
                ELSE StopEvent(tasks \cup {NewTimer(at)}, generation + 1)
KeepLatest(at) == event # 0 /\ deadline >= at

\* A turn that is due no later is already scheduled.
KeepEarliest(at) == event # 0 /\ deadline <= at

\* stopEvent of the turn that is due later, and addEvent
Install(at) ==
    /\ generation' = generation + 1
    /\ event' = generation + 1
    /\ deadline' = at
    /\ tasks' = StopEvent(tasks, event) \cup {NewTimer(at)}

\* schedule(interval) of a running controller
RequestTurn ==
    \E interval \in Intervals :
        LET at == now + interval IN
        /\ at <= MaxTime
        /\ requested' = requested \cup {at}
        /\ IF KeepEarliest(at) THEN UNCHANGED <<event, generation, deadline, tasks>>
                               ELSE Install(at)

Schedule ==
    /\ InTurn /\ Running
    /\ RequestTurn
    /\ UNCHANGED <<now, controlVars, search, frame, worldVars, turns>>

\* Mutant: every call emits a terminal event.
StopAgain == TRUE

\* stop() does nothing once the terminal event is out.
MayStop == terminal = 0

\* stop(): the router, the pending turn, the terminal event
StopController ==
    /\ lifecycle' = "Stopped"
    /\ terminal' = terminal + 1
    /\ IF event = 0 THEN UNCHANGED <<event, generation, tasks>>
       ELSE /\ tasks' = StopEvent(tasks, event)
            /\ event' = 0
            /\ generation' = generation + 1
    /\ requested' = {}
    /\ UNCHANGED deadline

\* A turn stops its controller (no path, no supplies, no money), or the manager
\* does between two turns.
Stop ==
    /\ MayStop
    /\ StopController
    /\ UNCHANGED <<now, deathObserved, search, frame, worldVars, turns>>

\* pause(): the turn that is scheduled stays in place
Pause ==
    /\ InTurn /\ Running
    /\ lifecycle' = "Paused"
    /\ UNCHANGED <<now, timerVars, terminal, deathObserved, search, frame, worldVars, turns>>

-----------------------------------------------------------------------------
(* The turn                                                                  *)

\* Mutant: any timer starts a turn.
AnyTurn(t) == TRUE

CurrentTurn(t) == t.gen = generation

\* navigate() returns: the death hook, which knows the killer, is yet to come.
Suppressed == shutdown \/ ~Running \/ (player = "dead" /\ ~deathObserved)
\* navigate() stops: the death hook has run, or the player is not its own any more.
Unowned == ~Suppressed /\ (deathObserved \/ player = "gone")

\* The timer's callback and the guards of navigate()
Dispatch(t) ==
    /\ t.stage = "queued" /\ ~InTurn
    /\ tasks' = tasks \ {t}
    /\ event' = IF CurrentTurn(t) THEN 0 ELSE event
    /\ requested' = IF CurrentTurn(t) THEN {} ELSE requested
    /\ IF CurrentTurn(t) /\ ~Suppressed /\ ~Unowned
       THEN frame' = "acting" /\ turns' = turns + 1
       ELSE UNCHANGED <<frame, turns>>
    /\ IF CurrentTurn(t) /\ Unowned /\ MayStop
       THEN lifecycle' = "Stopped" /\ terminal' = terminal + 1
       ELSE UNCHANGED <<lifecycle, terminal>>
    /\ UNCHANGED <<now, generation, deadline, deathObserved, search, worldVars>>

DispatchTurn == \E t \in tasks : Dispatch(t)

\* Healing, food, travel safety and others end the turn before processTraversal().
Return ==
    /\ frame = "acting"
    /\ frame' = "idle"
    /\ UNCHANGED <<now, timerVars, controlVars, search, worldVars, turns>>

EnterTraversal ==
    /\ frame = "acting" /\ turns > 0
    /\ frame' = "traversal"
    /\ UNCHANGED <<now, timerVars, controlVars, search, worldVars, turns>>

\* Mutant: the search is taken up whenever there is one.
AnySearch == search # NoSearch

\* The search of the turn before is the one to go on with.
Continues == search # NoSearch /\ search.stamp = generation

\* PatrolSearchGuard stamps the retained search when the turn is over.
Stamp == generation'

\* The patrol preflight goes on with the retained search or starts another one,
\* and yields before it is done.
PatrolSearch ==
    /\ frame = "traversal" /\ Running
    /\ RequestTurn
    /\ frame' = "idle"
    /\ search' = [stamp |-> Stamp, turn |-> turns]
    /\ UNCHANGED <<now, controlVars, worldVars, turns>>

\* Every other way out of processTraversal() drops the search.
LeaveTraversal ==
    /\ frame = "traversal"
    /\ frame' = "idle"
    /\ search' = NoSearch
    /\ UNCHANGED <<now, timerVars, controlVars, worldVars, turns>>

-----------------------------------------------------------------------------
(* The world                                                                 *)

\* Health reaches zero, in a turn's fight or between turns.
Dies ==
    /\ player = "alive"
    /\ player' = "dead"
    /\ UNCHANGED <<now, timerVars, controlVars, search, frame, shutdown, turns>>

\* executeDeath, a dispatcher task, calls onDeath(); the manager stops the
\* controller afterwards.
OnDeath ==
    /\ ~InTurn /\ player = "dead" /\ ~deathObserved
    /\ deathObserved' = TRUE
    /\ UNCHANGED <<now, timerVars, lifecycle, terminal, search, frame, worldVars, turns>>

\* The player is removed or taken over.
Leaves ==
    /\ ~InTurn /\ player # "gone"
    /\ player' = "gone"
    /\ UNCHANGED <<now, timerVars, controlVars, search, frame, shutdown, turns>>

Shutdown ==
    /\ ~InTurn /\ ~shutdown
    /\ shutdown' = TRUE
    /\ UNCHANGED <<now, timerVars, controlVars, search, frame, player, turns>>

Next ==
    \/ Tick \/ Expire \/ Abort \/ DispatchTurn
    \/ Schedule \/ Stop \/ Pause \/ Return \/ EnterTraversal \/ PatrolSearch \/ LeaveTraversal
    \/ Dies \/ OnDeath \/ Leaves \/ Shutdown

Spec == Init /\ [][Next]_vars

\* The clock goes on, both threads serve what has come to them, and a turn ends.
FairSpec ==
    /\ Spec
    /\ WF_vars(Tick) /\ WF_vars(Expire) /\ WF_vars(Abort) /\ WF_vars(DispatchTurn)
    /\ WF_vars(Return) /\ WF_vars(LeaveTraversal)

-----------------------------------------------------------------------------
(* Properties                                                                *)

\* Can still start a turn when it reaches the dispatcher.
Valid(t) == CurrentTurn(t) /\ t.stage \in {"timer", "queued"}

\* "schedule() keeps the earliest due turn" (playerbotcombat.cpp:3208): what a
\* turn asked for in whatever order, one turn is on its way, for the earliest
\* deadline, and without a request none is.
EarliestTurn ==
    LET ahead == {t \in tasks : Valid(t)} IN
    IF requested = {} THEN ahead = {}
    ELSE \E t \in ahead :
            /\ ahead = {t}
            /\ t.due \in requested
            /\ \A at \in requested : t.due <= at

\* A turn runs only in a controller that was neither stopped nor paused, and
\* only when one was asked for since the turn before and its time has come;
\* the timer of a turn that was replaced or stopped starts nothing, even when
\* it had expired before it could be cancelled.
TurnIsOwed ==
    [][turns' # turns => Running /\ \E at \in requested : at <= now]_vars

\* A retained patrol search is gone on with only by the turn right after the
\* one that yielded: a turn in between, spent on healing or a fight, makes it
\* start over, for the world has changed under its evidence.
SearchContinuous ==
    frame = "traversal" /\ Continues => turns = search.turn + 1

\* A turn that was asked for comes, unless the controller is stopped.
TurnComes == requested # {} ~> requested = {}
=============================================================================
