------------------------- MODULE PlayerBotLifecycle -------------------------
(***************************************************************************)
(* PlayerBotManager (playerbot.h, playerbot.cpp) over the lifecycle clock  *)
(* and phase machine of playerbotlifecycle.h: the roster reservation, the  *)
(* staggered activation, death and bounded recovery, external removal and  *)
(* shutdown of server-controlled players.                                  *)
(*                                                                         *)
(* Everything the manager does runs on the dispatcher thread, but two      *)
(* things make it hard.  Its timers live on the scheduler thread, so a     *)
(* stopped timer may already have been handed to the dispatcher; and most  *)
(* of its handlers call into the game (place a player, remove one, start a *)
(* controller), where scripts run that can remove a bot or shut the server *)
(* down before the handler goes on.  `frame` is the handler suspended in   *)
(* such a call, with the locals it will use when the call returns.         *)
(*                                                                         *)
(* A body is a Player object placed for a bot; bodies of one bot are       *)
(* numbered 1, 2, ... and a controller is named by the body it drives.     *)
(***************************************************************************)
EXTENDS Naturals, FiniteSets

CONSTANTS
    Bots,               \* the valid identities of the player_bots roster
    NoBot,              \* no identity: the idle frame's
    Renamable,          \* those whose database row an operator may edit
    DeathLimit,         \* PLAYERBOT_MAX_CONSECUTIVE_DEATHS
    MaximumRelogAttempts,
    MaxBodies           \* bound: a bot's body with this number cannot die

ASSUME LifecycleAssumption ==
    /\ NoBot \notin Bots
    /\ Renamable \subseteq Bots
    /\ DeathLimit \in Nat \ {0}
    /\ MaximumRelogAttempts \in Nat \ {0}
    /\ MaxBodies \in Nat

VARIABLES
    phase,          \* Record::state, "Unlisted" before start()
    controller,     \* Record::controller, 0 when the pointer is empty
    eventId,        \* Record::lifecycleEventId, named by its token, 0 = none
    generation,     \* Record::lifecycleGeneration
    deaths,         \* Record::consecutiveDeaths
    awaiting,       \* Record::awaitingDeathRemoval
    removing,       \* Record::removingForRecovery
    issued,         \* PlayerBotLifecycleClock::issued
    stopping,       \* PlayerBotManager::stopping
    unscheduled,    \* roster entries the loop of start() has yet to visit
    unremoved,      \* records the loop of shutdown() has yet to visit
    live,           \* controllers that have not emitted their terminal event
    body,           \* the bot's body in the game world, 0 = none
    bodies,         \* how many bodies have been placed for the bot
    human,          \* a human plays the character (same GUID)
    renamed,        \* the database row no longer matches the reservation
    tasks,          \* lifecycle tasks in the scheduler or the dispatcher
    frame           \* the suspended dispatcher handler

recordVars == <<phase, controller, eventId, generation, deaths, awaiting,
                removing, issued>>
loopVars == <<stopping, unscheduled, unremoved>>
worldVars == <<live, body, bodies>>
dbVars == <<human, renamed>>
vars == <<recordVars, loopVars, worldVars, dbVars, tasks, frame>>

Phases == {"Unlisted", "Reserved", "Active", "Recovering", "Terminal"}
Task == [bot : Bots, kind : {"activate", "recover", "finalize"}, token : Nat,
         attempt : Nat, stage : {"timer", "cancelled", "queued"}]
IdleFrame == [pc |-> "idle", bot |-> NoBot, attempt |-> 0, token |-> 0]
Frame == {IdleFrame} \cup
    [pc : {"boot", "load", "login", "starting", "failed", "evicting",
           "finalizing", "dying"},
     bot : Bots, attempt : Nat, token : Nat]

TypeOK ==
    /\ phase \in [Bots -> Phases]
    /\ controller \in [Bots -> Nat] /\ eventId \in [Bots -> Nat]
    /\ generation \in [Bots -> Nat] /\ deaths \in [Bots -> Nat]
    /\ awaiting \in [Bots -> BOOLEAN] /\ removing \in [Bots -> BOOLEAN]
    /\ issued \in Nat /\ stopping \in BOOLEAN
    /\ unscheduled \in SUBSET Bots /\ unremoved \in SUBSET Bots
    /\ live \in [Bots -> SUBSET Nat]
    /\ body \in [Bots -> Nat] /\ bodies \in [Bots -> Nat]
    /\ human \in [Bots -> BOOLEAN] /\ renamed \in [Bots -> BOOLEAN]
    /\ tasks \in SUBSET Task
    /\ frame \in Frame

-----------------------------------------------------------------------------
(* The phase machine, the clock and the scheduler the handlers are built on *)

Managed(b) == phase[b] \in {"Reserved", "Active", "Recovering"}

\* Mutant: the event id that addEvent returns is dropped.
ScheduleUnowned(b, kind, attempt) ==
    /\ issued' = issued + 1
    /\ generation' = [generation EXCEPT ![b] = issued + 1]
    /\ tasks' = tasks \cup {[bot |-> b, kind |-> kind, token |-> issued + 1,
                             attempt |-> attempt, stage |-> "timer"]}
    /\ UNCHANGED eventId

\* lifecycleClock.renew followed by g_scheduler.addEvent
Schedule(b, kind, attempt) ==
    /\ issued' = issued + 1
    /\ generation' = [generation EXCEPT ![b] = issued + 1]
    /\ eventId' = [eventId EXCEPT ![b] = issued + 1]
    /\ tasks' = tasks \cup {[bot |-> b, kind |-> kind, token |-> issued + 1,
                             attempt |-> attempt, stage |-> "timer"]}

\* stopEvent only posts a cancellation: a timer that expires before the
\* scheduler thread reads it still reaches the dispatcher.
StopEvent(id) ==
    {IF t.token = id /\ t.stage = "timer"
     THEN [t EXCEPT !.stage = "cancelled"] ELSE t : t \in tasks}

CancelEvent(b) ==
    /\ issued' = issued + 1
    /\ generation' = [generation EXCEPT ![b] = issued + 1]
    /\ tasks' = StopEvent(eventId[b])
    /\ eventId' = [eventId EXCEPT ![b] = 0]

\* PlayerBotController::stop as the manager sees it: the terminal event is
\* emitted once, by a controller that had not emitted it.
StopController(b) == live' = [live EXCEPT ![b] = @ \ {controller[b]}]

\* Mutant: a terminal record is reserved again.
SuspendAny(b) == phase' = [phase EXCEPT ![b] = "Reserved"]

Suspend(b) ==
    phase' = [phase EXCEPT ![b] = IF Managed(b) THEN "Reserved" ELSE @]

-----------------------------------------------------------------------------
(* The dispatcher's call stack *)

Idle == frame.pc = "idle" /\ unscheduled = {} /\ unremoved = {}

\* The game runs scripts: between two tasks, and inside the calls that place
\* or remove a player, start a controller or process a death.
ScriptsRun ==
    /\ unremoved = {}
    /\ \/ Idle
       \/ frame.pc \in {"login", "starting", "evicting", "finalizing", "dying"}

Call(pc, b, attempt, token) ==
    frame' = [pc |-> pc, bot |-> b, attempt |-> attempt, token |-> token]
Goto(pc) == frame' = [frame EXCEPT !.pc = pc]
Finish == frame' = IdleFrame

Init ==
    /\ phase = [b \in Bots |-> "Unlisted"]
    /\ controller = [b \in Bots |-> 0] /\ eventId = [b \in Bots |-> 0]
    /\ generation = [b \in Bots |-> 0] /\ deaths = [b \in Bots |-> 0]
    /\ awaiting = [b \in Bots |-> FALSE] /\ removing = [b \in Bots |-> FALSE]
    /\ issued = 0 /\ stopping = FALSE
    /\ unscheduled = Bots /\ unremoved = {}
    /\ live = [b \in Bots |-> {}]
    /\ body = [b \in Bots |-> 0] /\ bodies = [b \in Bots |-> 0]
    /\ human = [b \in Bots |-> FALSE] /\ renamed = [b \in Bots |-> FALSE]
    /\ tasks = {}
    /\ frame \in [pc : {"boot"}, bot : Bots, attempt : {0}, token : {0}]

-----------------------------------------------------------------------------
(* start(): reserve the whole roster, then activate the first entry at once *)
(* and the others from timers 1.5 s apart                                   *)

Start ==
    /\ frame.pc = "boot"
    /\ phase' = [b \in Bots |-> "Reserved"]
    /\ issued' = issued + 1
    /\ generation' = [generation EXCEPT ![frame.bot] = issued + 1]
    /\ Call("load", frame.bot, 0, issued + 1)
    /\ unscheduled' = unscheduled \ {frame.bot}
    /\ UNCHANGED <<controller, eventId, deaths, awaiting, removing, stopping,
                   unremoved, worldVars, dbVars, tasks>>

\* No phase is tested here: a script of the first activation may already have
\* shut the server down.
ScheduleActivation(b) ==
    /\ frame.pc = "idle" /\ unremoved = {} /\ b \in unscheduled
    /\ Schedule(b, "activate", 0)
    /\ unscheduled' = unscheduled \ {b}
    /\ UNCHANGED <<phase, controller, deaths, awaiting, removing, stopping,
                   unremoved, worldVars, dbVars, frame>>

-----------------------------------------------------------------------------
(* The scheduler thread *)

\* A timer expires, or expires before its cancellation is read.
Expire(t) ==
    /\ t \in tasks /\ t.stage # "queued"
    /\ tasks' = (tasks \ {t}) \cup {[t EXCEPT !.stage = "queued"]}
    /\ UNCHANGED <<recordVars, loopVars, worldVars, dbVars, frame>>

\* Mutant: the aborted timer leaves its task behind.
AbortLeavesTask(t) ==
    /\ t \in tasks /\ t.stage = "cancelled"
    /\ tasks' = (tasks \ {t}) \cup {[t EXCEPT !.stage = "aborted"]}
    /\ UNCHANGED <<recordVars, loopVars, worldVars, dbVars, frame>>

\* The cancellation is read first: the aborted timer deletes its task.
Abort(t) ==
    /\ t \in tasks /\ t.stage = "cancelled"
    /\ tasks' = tasks \ {t}
    /\ UNCHANGED <<recordVars, loopVars, worldVars, dbVars, frame>>

-----------------------------------------------------------------------------
(* Dispatched lifecycle tasks *)

Dispatched(t, kind) == Idle /\ t \in tasks /\ t.stage = "queued" /\ t.kind = kind

\* The guard every task callback opens with.
Accepts(t) ==
    /\ IF t.kind = "activate" THEN Managed(t.bot) ELSE phase[t.bot] = "Recovering"
    /\ generation[t.bot] # 0 /\ generation[t.bot] = t.token
    /\ ~stopping

DiscardStale(t) ==
    /\ Idle /\ t \in tasks /\ t.stage = "queued" /\ ~Accepts(t)
    /\ tasks' = tasks \ {t}
    /\ UNCHANGED <<recordVars, loopVars, worldVars, dbVars, frame>>

\* Mutant: the callback does not forget the event that has just fired.
TakeKeepsEvent(t) ==
    /\ Accepts(t)
    /\ tasks' = tasks \ {t}
    /\ UNCHANGED eventId

Take(t) ==
    /\ Accepts(t)
    /\ tasks' = tasks \ {t}
    /\ eventId' = [eventId EXCEPT ![t.bot] = 0]

Enter(pc, t) == Call(pc, t.bot, t.attempt, t.token)

Activate(t) ==
    /\ Dispatched(t, "activate") /\ Take(t)
    /\ Enter("load", t)
    /\ UNCHANGED <<phase, controller, generation, deaths, awaiting, removing,
                   issued, loopVars, worldVars, dbVars>>

\* recover(): the registration lookup failed or the character changed hands.
\* The lookup is a database query, which may fail at any time.
RecoverConflict(t) ==
    /\ Dispatched(t, "recover") /\ Take(t)
    /\ StopController(t.bot)
    /\ controller' = [controller EXCEPT ![t.bot] = 0]
    /\ Suspend(t.bot)
    /\ UNCHANGED <<generation, deaths, awaiting, removing, issued, loopVars,
                   body, bodies, dbVars, frame>>

\* removeCreature under removingForRecovery: onPlayerRemoved runs at once and
\* at most consumes awaitingDeathRemoval.
BeginEviction(b) ==
    /\ removing' = [removing EXCEPT ![b] = TRUE]
    /\ awaiting' = [awaiting EXCEPT ![b] = @ /\ controller[b] # body[b]]

\* recover(): the dead body is still in the world and is removed first.
RecoverEvict(t) ==
    /\ Dispatched(t, "recover") /\ Take(t)
    /\ ~renamed[t.bot] /\ ~human[t.bot] /\ body[t.bot] # 0
    /\ StopController(t.bot)
    /\ BeginEviction(t.bot)
    /\ Enter("evicting", t)
    /\ UNCHANGED <<phase, controller, generation, deaths, issued, loopVars,
                   body, bodies, dbVars>>

RecoverReload(t) ==
    /\ Dispatched(t, "recover") /\ Take(t)
    /\ ~renamed[t.bot] /\ ~human[t.bot] /\ body[t.bot] = 0
    /\ StopController(t.bot)
    /\ controller' = [controller EXCEPT ![t.bot] = 0]
    /\ Enter("load", t)
    /\ UNCHANGED <<phase, generation, deaths, awaiting, removing, issued,
                   loopVars, body, bodies, dbVars>>

\* The removal has returned.  removingForRecovery kept onPlayerRemoved and a
\* nested remove() away from the body.
EvictReturns ==
    LET b == frame.bot IN
    /\ frame.pc = "evicting" /\ unremoved = {}
    /\ body' = [body EXCEPT ![b] = 0]
    /\ removing' = [removing EXCEPT ![b] = FALSE]
    /\ awaiting' = [awaiting EXCEPT ![b] = FALSE]
    /\ StopController(b)
    /\ controller' = [controller EXCEPT ![b] = 0]
    /\ IF generation[b] = frame.token THEN Goto("load") ELSE Finish
    /\ UNCHANGED <<phase, eventId, generation, deaths, issued, loopVars, bodies,
                   dbVars, tasks>>

\* finalizeAbandonedDeath(), with the body already gone ...
Finalize(t) ==
    /\ Dispatched(t, "finalize") /\ Take(t) /\ body[t.bot] = 0
    /\ StopController(t.bot)
    /\ controller' = [controller EXCEPT ![t.bot] = 0]
    /\ Suspend(t.bot)
    /\ UNCHANGED <<generation, deaths, awaiting, removing, issued, loopVars,
                   body, bodies, dbVars, frame>>

\* ... or with a body to remove first.
FinalizeEvict(t) ==
    /\ Dispatched(t, "finalize") /\ Take(t) /\ body[t.bot] # 0
    /\ StopController(t.bot)
    /\ BeginEviction(t.bot)
    /\ Enter("finalizing", t)
    /\ UNCHANGED <<phase, controller, generation, deaths, issued, loopVars,
                   body, bodies, dbVars>>

FinalizeReturns ==
    LET b == frame.bot IN
    /\ frame.pc = "finalizing" /\ unremoved = {}
    /\ body' = [body EXCEPT ![b] = 0]
    /\ removing' = [removing EXCEPT ![b] = FALSE]
    /\ controller' = [controller EXCEPT ![b] = 0]
    /\ Suspend(b)
    /\ Finish
    /\ UNCHANGED <<eventId, generation, deaths, awaiting, issued, loopVars, live, bodies,
                   dbVars, tasks>>

-----------------------------------------------------------------------------
(* load(): the checks, the placement, the login scripts, the new controller *)

\* Mutant: the search for an online player with the same GUID is missing.
LoadPlacesUnchecked ==
    LET b == frame.bot IN
    /\ frame.pc = "load"
    /\ Managed(b) /\ controller[b] = 0 /\ body[b] = 0 /\ ~renamed[b]
    /\ bodies' = [bodies EXCEPT ![b] = @ + 1]
    /\ body' = [body EXCEPT ![b] = bodies[b] + 1]
    /\ Call("login", b, frame.attempt, generation[b])
    /\ UNCHANGED <<recordVars, loopVars, live, dbVars, tasks>>

LoadPlaces ==
    LET b == frame.bot IN
    /\ frame.pc = "load"
    /\ Managed(b) /\ controller[b] = 0 /\ body[b] = 0 /\ ~human[b] /\ ~renamed[b]
    /\ bodies' = [bodies EXCEPT ![b] = @ + 1]
    /\ body' = [body EXCEPT ![b] = bodies[b] + 1]
    /\ Call("login", b, frame.attempt, generation[b])
    /\ UNCHANGED <<recordVars, loopVars, live, dbVars, tasks>>

\* One of the checks fails; the queries and the placement may always fail.
LoadFails ==
    /\ frame.pc = "load"
    /\ Goto("failed")
    /\ UNCHANGED <<recordVars, loopVars, worldVars, dbVars, tasks>>

\* Mutant: the record is not looked at again after the login scripts.
LoginAcceptedUnchecked ==
    LET b == frame.bot IN
    /\ frame.pc = "login" /\ unremoved = {}
    /\ controller' = [controller EXCEPT ![b] = bodies[b]]
    /\ live' = [live EXCEPT ![b] = @ \cup {bodies[b]}]
    /\ phase' = [phase EXCEPT ![b] =
                    IF @ \in {"Reserved", "Recovering"} THEN "Active" ELSE @]
    /\ Goto("starting")
    /\ UNCHANGED <<eventId, generation, deaths, awaiting, removing, issued,
                   loopVars, body, bodies, dbVars, tasks>>

\* The login scripts have returned with the player in the world and the
\* record as it was: install the controller, then start it.
LoginAccepted ==
    LET b == frame.bot IN
    /\ frame.pc = "login" /\ unremoved = {}
    /\ Managed(b) /\ generation[b] = frame.token /\ body[b] = bodies[b]
    /\ controller' = [controller EXCEPT ![b] = bodies[b]]
    /\ live' = [live EXCEPT ![b] = @ \cup {bodies[b]}]
    /\ phase' = [phase EXCEPT ![b] =
                    IF @ \in {"Reserved", "Recovering"} THEN "Active" ELSE @]
    /\ Goto("starting")
    /\ UNCHANGED <<eventId, generation, deaths, awaiting, removing, issued,
                   loopVars, body, bodies, dbVars, tasks>>

LoginRejected ==
    LET b == frame.bot IN
    /\ frame.pc = "login" /\ unremoved = {}
    /\ ~(Managed(b) /\ generation[b] = frame.token /\ body[b] = bodies[b])
    /\ body' = [body EXCEPT ![b] = 0]
    /\ Goto("failed")
    /\ UNCHANGED <<recordVars, loopVars, live, bodies, dbVars, tasks>>

\* The controller's start() has returned; load() reports whether its record,
\* controller and player are still the ones it installed.
StartReturns ==
    LET b == frame.bot
        kept == /\ Managed(b) /\ generation[b] = frame.token
                /\ controller[b] = bodies[b] /\ body[b] = bodies[b]
    IN
    /\ frame.pc = "starting" /\ unremoved = {}
    /\ IF kept THEN Finish ELSE Goto("failed")
    /\ UNCHANGED <<recordVars, loopVars, worldVars, dbVars, tasks>>

\* load() returned false: activate() ignores it, and so does a recover() whose
\* record has moved on.
FailureIgnored ==
    /\ frame.pc = "failed"
    /\ frame.attempt = 0 \/ generation[frame.bot] # frame.token
    /\ Finish
    /\ UNCHANGED <<recordVars, loopVars, worldVars, dbVars, tasks>>

RelogRetried ==
    LET b == frame.bot IN
    /\ frame.pc = "failed" /\ generation[b] = frame.token
    /\ frame.attempt # 0 /\ frame.attempt < MaximumRelogAttempts
    /\ Schedule(b, "recover", frame.attempt + 1)
    /\ Finish
    /\ UNCHANGED <<phase, controller, deaths, awaiting, removing, loopVars,
                   worldVars, dbVars>>

\* Mutant: the last attempt has failed and the record keeps recovering.
RelogAbandonedSilently ==
    /\ frame.pc = "failed" /\ generation[frame.bot] = frame.token
    /\ frame.attempt >= MaximumRelogAttempts
    /\ Finish
    /\ UNCHANGED <<recordVars, loopVars, worldVars, dbVars, tasks>>

RelogAbandoned ==
    LET b == frame.bot IN
    /\ frame.pc = "failed" /\ generation[b] = frame.token
    /\ frame.attempt >= MaximumRelogAttempts
    /\ Suspend(b)
    /\ Finish
    /\ UNCHANGED <<controller, eventId, generation, deaths, awaiting, removing,
                   issued, loopVars, worldVars, dbVars, tasks>>

-----------------------------------------------------------------------------
(* A death: onDeath, then the corpse and its scripts, then either the body  *)
(* is removed or (an arena death) it stays, and onDeathComplete             *)

Dying(b) ==
    /\ Idle /\ body[b] # 0
    /\ Call("dying", b, 0, 0)

\* byPlayerId finds the record, and onDeath goes on.
Mourned(b) ==
    /\ phase[b] = "Active" /\ controller[b] = body[b] /\ controller[b] \in live[b]

DeathIgnored(b) ==
    /\ Dying(b) /\ ~Mourned(b)
    /\ UNCHANGED <<recordVars, loopVars, worldVars, dbVars, tasks>>

\* `stable`: the life lasted stableLifetimeReset, so the count starts again.
Death(b, stable) ==
    LET count == IF stable THEN 1 ELSE deaths[b] + 1 IN
    /\ Dying(b) /\ Mourned(b) /\ body[b] < MaxBodies
    /\ deaths' = [deaths EXCEPT ![b] = count]
    /\ phase' = [phase EXCEPT ![b] = "Recovering"]
    /\ awaiting' = [awaiting EXCEPT ![b] = TRUE]
    /\ IF count > DeathLimit THEN Schedule(b, "finalize", 0)
       ELSE IF eventId[b] = 0 THEN Schedule(b, "recover", 1)
       ELSE UNCHANGED <<issued, generation, eventId, tasks>>
    /\ StopController(b)
    /\ UNCHANGED <<controller, removing, loopVars, body, bodies, dbVars>>

-----------------------------------------------------------------------------
(* onPlayerRemoved, which Game::removeCreature calls before it removes      *)

\* No record, or a terminal one.
RemovalUnmanaged(b) ==
    /\ ~Managed(b)
    /\ UNCHANGED <<recordVars, live, tasks>>

\* A login script rejected the placement before the controller existed.
RemovalBeforeController(b) ==
    /\ Managed(b) /\ controller[b] # body[b]
    /\ IF phase[b] = "Recovering" THEN UNCHANGED <<issued, generation, tasks, eventId>>
       ELSE CancelEvent(b)
    /\ UNCHANGED <<phase, controller, deaths, awaiting, removing, live>>

RemovalAfterDeath(b) ==
    /\ Managed(b) /\ controller[b] = body[b] /\ awaiting[b]
    /\ awaiting' = [awaiting EXCEPT ![b] = FALSE]
    /\ UNCHANGED <<phase, controller, eventId, generation, deaths, removing,
                   issued, live, tasks>>

\* Mutant: the controller is dropped without being stopped.
RemovalDropsController(b) ==
    /\ Managed(b) /\ controller[b] = body[b] /\ ~awaiting[b] /\ ~removing[b]
    /\ phase' = [phase EXCEPT ![b] = "Terminal"]
    /\ CancelEvent(b)
    /\ controller' = [controller EXCEPT ![b] = 0]
    /\ UNCHANGED <<deaths, awaiting, removing, live>>

\* The external removal of the bot: its record is terminal.
RemovalTerminates(b) ==
    /\ Managed(b) /\ controller[b] = body[b] /\ ~awaiting[b] /\ ~removing[b]
    /\ phase' = [phase EXCEPT ![b] = "Terminal"]
    /\ CancelEvent(b)
    /\ StopController(b)
    /\ controller' = [controller EXCEPT ![b] = 0]
    /\ UNCHANGED <<deaths, awaiting, removing>>

RemoveBody(b) ==
    /\ body[b] # 0
    /\ body' = [body EXCEPT ![b] = 0]
    /\ \/ RemovalUnmanaged(b)
       \/ RemovalBeforeController(b)
       \/ RemovalAfterDeath(b)
       \/ RemovalTerminates(b)
    /\ UNCHANGED <<bodies, loopVars, dbVars>>

\* The corpse drops: removeCreature, then onDeathComplete, which finds either
\* no record or awaitingDeathRemoval already consumed.
CorpseDrops ==
    /\ frame.pc = "dying" /\ unremoved = {}
    /\ RemoveBody(frame.bot)
    /\ Finish

\* No removal: the death happened in a PvP arena, or a death script removed
\* the player already.
DeathCompletes ==
    LET b == frame.bot IN
    /\ frame.pc = "dying" /\ unremoved = {}
    /\ awaiting' = [awaiting EXCEPT ![b] = @ /\ ~(phase[b] = "Recovering" /\ controller[b] # 0)]
    /\ Finish
    /\ UNCHANGED <<phase, controller, eventId, generation, deaths, removing,
                   issued, loopVars, worldVars, dbVars, tasks>>

\* A kick, a script or an administrator removes the player; so may a script of
\* another bot's removal while shutdown() goes through the records.
Kick(b) ==
    /\ ScriptsRun \/ unremoved # {}
    /\ ~(frame.pc \in {"evicting", "finalizing"} /\ frame.bot = b)
    /\ RemoveBody(b)
    /\ UNCHANGED frame

\* The controller stops itself: it ends its scenario, cannot go on, or a
\* fixture ends it.  Its record stays active.
ControllerStops(b) ==
    /\ ScriptsRun /\ controller[b] # 0 /\ controller[b] \in live[b]
    /\ Idle \/ (frame.pc = "starting" /\ frame.bot = b)
    /\ StopController(b)
    /\ UNCHANGED <<recordVars, loopVars, body, bodies, dbVars, tasks, frame>>

-----------------------------------------------------------------------------
(* shutdown() and remove(), and the people around the bots                  *)

Shutdown ==
    /\ ScriptsRun /\ ~stopping
    /\ stopping' = TRUE
    /\ unremoved' = {b \in Bots : phase[b] # "Unlisted"}
    /\ UNCHANGED <<recordVars, unscheduled, worldVars, dbVars, tasks, frame>>

RemoveTerminal(b) ==
    /\ b \in unremoved /\ ~Managed(b)
    /\ unremoved' = unremoved \ {b}
    /\ UNCHANGED <<recordVars, stopping, unscheduled, worldVars, dbVars, tasks, frame>>

\* Mutant: an active bot's record ends and its player stays.
RemoveKeepsPlayer(b) ==
    /\ b \in unremoved /\ Managed(b)
    /\ unremoved' = unremoved \ {b}
    /\ phase' = [phase EXCEPT ![b] = "Terminal"]
    /\ CancelEvent(b)
    /\ StopController(b)
    /\ controller' = [controller EXCEPT ![b] = 0]
    /\ UNCHANGED <<deaths, awaiting, removing, stopping, unscheduled, body,
                   bodies, dbVars, frame>>

\* remove(): the record is terminal before the player is removed, so
\* onPlayerRemoved ignores that removal.
Remove(b) ==
    /\ b \in unremoved /\ Managed(b)
    /\ unremoved' = unremoved \ {b}
    /\ phase' = [phase EXCEPT ![b] = "Terminal"]
    /\ CancelEvent(b)
    /\ StopController(b)
    /\ controller' = [controller EXCEPT ![b] = 0]
    /\ body' = [body EXCEPT ![b] = IF removing[b] THEN @ ELSE 0]
    /\ UNCHANGED <<deaths, awaiting, removing, stopping, unscheduled, bodies,
                   dbVars, frame>>

\* The manager owns the reserved name for as long as the process lives, and a
\* person is only refused by name: under a new one the login goes through.
HumanLogin(b) ==
    /\ Idle /\ renamed[b] /\ ~human[b]
    /\ human' = [human EXCEPT ![b] = TRUE]
    /\ UNCHANGED <<recordVars, loopVars, worldVars, renamed, tasks, frame>>

HumanLogout(b) ==
    /\ Idle /\ human[b]
    /\ human' = [human EXCEPT ![b] = FALSE]
    /\ UNCHANGED <<recordVars, loopVars, worldVars, renamed, tasks, frame>>

\* Assumed: an operator renames a character, or back, only while no bot has it
\* in the game.
EditRow(b) ==
    /\ Idle /\ b \in Renamable /\ body[b] = 0
    /\ renamed' = [renamed EXCEPT ![b] = ~@]
    /\ UNCHANGED <<recordVars, loopVars, worldVars, human, tasks, frame>>

-----------------------------------------------------------------------------

SchedulerThread(t) == Expire(t) \/ Abort(t)

RunTask(t) ==
    \/ DiscardStale(t) \/ Activate(t)
    \/ RecoverConflict(t) \/ RecoverEvict(t) \/ RecoverReload(t)
    \/ Finalize(t) \/ FinalizeEvict(t)

\* The suspended handler goes on.
Return ==
    \/ EvictReturns \/ FinalizeReturns
    \/ LoadPlaces \/ LoadFails \/ LoginAccepted \/ LoginRejected \/ StartReturns
    \/ FailureIgnored \/ RelogRetried \/ RelogAbandoned
    \/ CorpseDrops \/ DeathCompletes

LoopStep(b) == ScheduleActivation(b) \/ RemoveTerminal(b) \/ Remove(b)

World(b) ==
    \/ DeathIgnored(b) \/ \E stable \in BOOLEAN : Death(b, stable)
    \/ Kick(b) \/ ControllerStops(b)
    \/ HumanLogin(b) \/ HumanLogout(b) \/ EditRow(b)

Next ==
    \/ Start \/ Return \/ Shutdown
    \/ \E t \in tasks : SchedulerThread(t) \/ RunTask(t)
    \/ \E b \in Bots : LoopStep(b) \/ World(b)

Spec == Init /\ [][Next]_vars

\* A handler returns and a loop ends; a timer expires; the dispatcher's list is
\* first in, first out, so a queued task is not passed over for ever.
Fairness ==
    /\ WF_vars(Start) /\ WF_vars(Return)
    /\ WF_vars(\E b \in Bots : LoopStep(b))
    /\ \A b \in Bots :
        /\ WF_vars(\E t \in tasks : t.bot = b /\ SchedulerThread(t))
        /\ SF_vars(\E t \in tasks : t.bot = b /\ RunTask(t))

FairSpec == Spec /\ Fairness

-----------------------------------------------------------------------------
(* Properties *)

\* The pending tasks the dispatcher would still run for b.
Pending(b) == {t \in tasks : t.bot = b /\ t.token = generation[b]}

\* The handler of b that has taken its task and has not finished.
InHand(b) ==
    frame.bot = b /\ frame.pc \in {"load", "login", "failed", "evicting", "finalizing"}

\* A timer that was stopped, or that a later one replaced, does nothing even
\* when it had already escaped to the dispatcher: the only task that can act
\* on a managed record is the one its lifecycleEventId names.
OnlyOwnedTimerActs ==
    \A t \in tasks : Managed(t.bot) /\ t.token = generation[t.bot] =>
        t.stage # "cancelled" /\ eventId[t.bot] = t.token

\* No death strands its bot: a recovering record is being worked on, or a task
\* that will work on it is pending.
RecoveryNotStranded ==
    \A b \in Bots : phase[b] = "Recovering" =>
        InHand(b) \/ \E t \in Pending(b) : t.kind # "activate" /\ t.stage # "cancelled"

\* A controller that can still act is the one its record holds, and it drives
\* the body that is in the world, for a record that is active.  No handler
\* drops a controller without ending it.
LiveControllerDrivesBody ==
    \A b \in Bots : \A n \in live[b] :
        controller[b] = n /\ body[b] = n /\ phase[b] = "Active"

\* A terminal record has let go of the game: no player, no controller.
TerminalReleasesPlayer ==
    \A b \in Bots : phase[b] = "Terminal" /\ frame.bot # b =>
        body[b] = 0 /\ controller[b] = 0 /\ ~removing[b]

\* The character is never played twice, whenever an operator renames it offline:
\* a login and a reload look for each other by different keys.
NoDoubleLogin == \A b \in Bots : ~(body[b] # 0 /\ human[b])

\* Terminal is for ever, and nothing is scheduled or started for it again
\* except by the loop of start() that a script shut down half-way.
TerminalIsFinal ==
    [][\A b \in Bots : phase[b] = "Terminal" =>
        /\ phase'[b] = "Terminal" /\ controller'[b] = 0
        /\ bodies'[b] = bodies[b]
        /\ eventId'[b] = eventId[b] \/ b \in unscheduled]_vars

\* Death keeps the character under server ownership: removing a corpse does
\* not end a record that is recovering.
DeathRetainsOwnership ==
    [][\A b \in Bots : phase[b] = "Recovering" /\ frame.bot = b /\ frame.pc = "dying"
        /\ frame'.pc = "idle" => phase'[b] # "Terminal"]_vars

\* Seen from outside, every run of the manager is a run of the reservation.
Reservation == INSTANCE PlayerBotReservation WITH
    status <- phase,
    seat <- [b \in Bots |-> IF body[b] # 0 THEN "bot"
                            ELSE IF human[b] THEN "human" ELSE "empty"]

ReservationSpec == Reservation!Spec

\* Recovery is bounded: it ends in a relog, a suspension or a removal.
RecoveryEnds == \A b \in Bots : phase[b] = "Recovering" ~> phase[b] # "Recovering"

\* A shutdown ends every record and empties the world of bots, also when it
\* starts inside a handler that was placing, removing or starting one.
ShutdownEnds ==
    stopping ~> \A b \in Bots : phase[b] = "Terminal" /\ body[b] = 0 /\ live[b] = {}

=============================================================================
