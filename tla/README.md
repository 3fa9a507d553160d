# Playerbots: a TLA+ development

This directory holds TLA+ models of the playerbot runtime of `src/server/src`
(`playerbot*.h`, `playerbot*.cpp`), the TLC configurations that check them on
small instances, and machine-checked TLAPS proofs about them. `PROJECT.json`
maps every definition that stands for code to its file and lines; all paths
below are under `src/server/src` unless they say otherwise.

A playerbot is an ordinary server `Player` driven by a scheduled controller
instead of a network client. Everything a bot does runs on one thread, the
dispatcher; timers come from a second thread, the scheduler, and saves go to a
third, the database worker. So the code has few data races and many *orderings*: state is kept across turns, and between two
turns anything may happen to the world, to other bots and to the bot itself; and
a call into the game runs scripts that may call back into the caller's own state
before it returns. The models are about these two things, and about the threads underneath.

## 1. Inventory

### 1.1 The parts

| Part | State it keeps | Operations | What makes it correct |
|---|---|---|---|
| Lifecycle manager (`playerbot.*`, `playerbotlifecycle.h`) | one entry per roster row: phase, the controller it owns, the timer it owns, death and retry counters, awaiting-removal and awaiting-death flags | start, load, death and its completion, external removal, recovery and its retries, shutdown | one body at most per character; a controller only drives a body the manager owns; a recovering bot always has a timer or a call that will go on with it; terminal is final |
| Scheduler, dispatcher, database threads (`scheduler.*`, `tasks.*`, `thread_holder_base.h`, `databasetasks.*`) | timers by id, a FIFO task list, a database queue, a state per thread | addEvent, stopEvent, addTask, flush, shutdown | every accepted task and query runs, and once; a cancelled timer may still be in the list; a shutdown ends |
| Planning budget (`playerbotplanningbudget.h`) | microsecond credit (negative: debt), a line of waiting bots, the head's lease | request, finish, cancel | the server spends at most its share on planning; nobody waits for ever behind an absent bot |
| Route journal and shared caches (`playerbotroutechanges.h`, `playerbotroutecache.h`) | numbered tile changes, an epoch, the open scopes; results with the tiles they rest on | observe, invalidate, valid, absorb, lookup, take, insert | a result is only used if none of its tiles changed since it was computed |
| Resumable searches and travel evidence (`playerbothuntwalk.h`, `playerbothunttravel.cpp`, `playerbothunttravelevidence.h`) | suspended searches, a segment in progress, evidence kept for execution | start, advance, restart, retain, take | every answer holds on the map of the turn that uses it |
| Controller turns (`playerbotcontroller.*`) | run state, next deadline, generation, retained patrol search | schedule, the timer's callback, navigate, pause, stop, onDeath | one turn on its way, the earliest asked for; no stale timer acts; one terminal event |
| Turn router, goal arbiter (`playerbotturnrouter.*`, `playerbotgoalarbiter.*`) | phase of the turn, current goal, decision ids, cooldowns | route, decide, apply | fixed priority of concerns; a decision is applied in the turn that makes it |
| Navigation runtime (`playerbotnavigationruntime.*`, `playerbotnavigationsession.*`) | the plan, its position, pending step, stall counters | plan, step, verify | a blocked step ends in a new plan or a report |
| Path search, topology | none between calls | A*, coarse graph | optimality and admissibility of the heuristics |
| Corpse loot (`playerbotlootworkflow.*`, `playerbotlootsession.*`, `playerbotlootpolicy.*`, `playerbotloot.cpp`) | corpse at hand, pending loot, pending discard, replacement plan, unavailable items, counters, suspension | begin, evaluate and execute a turn, verify, reject | cargo given up for loot is replaced, taken back or reported; the work ends |
| Depot work (`playerbotdepot*`, adapters in `playerbotservice.cpp`) | session (stage, attempts, locker, suppressed approaches, pending move), discovery pass with its risk fallback | discover, approach, open, deposit, verify, discard | risky routes are the last resort; nothing that arrived is dropped; every turn leads to another one or to an end |
| NPC service (`playerbotservice*`, `playerbotnpcsession.*`) | dialogue step, receipt, route retry | visit, speak, trade, verify | each purchase is counted once; late answers are not mistaken for the next |
| Hunt coordination, regions, policy | region cooldowns, kept per bot in its record; candidate under validation | select, plan, return | bounded retries; a failed region is left alone until its cooldown ends |
| Combat, survival, spells, damage models | target, suppressed targets, cast being verified | choose, attack, verify | a target is given up in bounded time |
| Supply recovery, preparation | attempt counters, loadout transaction | start, step, restart | attempts bounded over restarts that look new |
| Progression, trainers, equipment, economy | staged procedure | plan, execute | each stage verified before the next |
| Travel safety, raid hazards | sightings and clearances with expiry | observe, score | fresh threats override clearance |
| Telemetry, fixtures and test policy | counters, scenario scripts | record | one terminal event per bot |
| Game engine (`game.cpp`, `player.cpp`, `creature.cpp`, `map.cpp`, `protocolgame.cpp`) | world, players | placeCreature, removeCreature, executeDeath, login, getTile | inherited server |
| Client, tools (`src/client`, `src/scripts`) | | | vendored client; scripts that run scenarios |

### 1.2 How the parts interact

* The **scheduler** posts expired timers to the **dispatcher**'s list; the
  manager's activation, recovery and finalize timers and each controller's turn
  are such tasks. `stopEvent` only asks the scheduler: a timer that has
  already expired still runs and has to be recognised as stale by its token.
* The **manager** calls the **game** (place, login, remove), which calls the manager
  back (`onDeath`, `onDeathComplete`, `onPlayerRemoved`) in the middle of the
  manager's own handler; and it calls `controller->start()`, whose first turn may
  kill or stop the bot.
* A **controller** turn asks the shared **planning budget** for a slice, runs its
  **search** inside it, and pays what it really took. A refusal carries the
  time at which to come back; the caller may come back later than that.
* A **search** reads tiles through the **journal**, which adds each tile to all
  scopes that are open; a cached result that is reused adds *its* tiles.
  Several bots share the caches, none shares a watch.
* A controller's **turn** calls `schedule` from anywhere in it, any number of times;
  each call may cancel the timer of an earlier one. The turn's activities
  (traversal, depot, loot) are entered again from the top in the next turn and
  recognise by a stamp or a stage what is still theirs.
* **Depot** turns alternate between a pure workflow (`advance`) that answers with a
  command and adapters that run it on the game; the bot can be pushed, attacked or lose
  items between any two of them.
* A **task** may submit queries to the **database worker**, or run them itself
  (`flush`); a query's callback is again a dispatcher task. Shutdown is a task too: it
  stops the threads from one of them.
* The **loot** workflow sees snapshots of corpse and bag, returns a
  command, and the adapter (`playerbotloot.cpp`) runs it as ordinary game moves,
  which may refuse silently; the next turn compares.

### 1.3 What is hard about it

PROJECT.json lists the hazards with the lines where they bite. In short:

* **Re-entrancy** (protocol_sequence, stale_state): scripts run inside
  `placeCreature`, `removeCreature`, `controller->start()` and after a death.
* **A cancelled timer that still fires** (interleaving).
* **A death without a corpse** (arena) leaves the body in the world while the
  record is already recovering.
* **Retries that come back later than they were told** (timeout_retry) against
  a lease that prunes whoever is late.
* **Debt**: an over-long slice is paid afterwards, in half-microsecond
  arithmetic whose odd unit must survive.
* **Staleness through nesting**: a segment found inside a search found inside a turn.
* **A bounded journal** that forgets the oldest change (resource_bound).
* **Turns asked for in any order** while the timer they replace is already on its way.
* **Displacement**: the place of a bot is tested against the approach in one layer and
  against the locker in another.
* **Counts compared over a turn**: the bag changes by itself between a deposit and its
  verification (partial_failure).
* **Lost wakeups**: nobody remembers a notification, and the threads' states are tested
  without the lock.
* **Two-phase exchange** (partial_failure): cargo is put down before the better
  loot is picked up, and the second step may fail in many ways.

## 2. Modules

| Module | Models | Proofs |
|---|---|---|
| `PlayerBotReservation` | abstract: what the manager promises about a roster identity | |
| `PlayerBotLifecycle` | the manager, its timers and the calls into the game | `PlayerBotLifecycle_proofs` |
| `PlayerBotPlanningBudget` | the shared budget with its clients | `PlayerBotPlanningBudget_proofs` |
| `PlayerBotRouteCache` | journal, scopes, caches, resumable searches, evidence | `PlayerBotRouteCache_proofs` |
| `PlayerBotLoot` | the loot workflow, its adapter and the world around a corpse | `PlayerBotLoot_proofs` |
| `PlayerBotTurns` | one controller's turns and timers, and its retained patrol search | `PlayerBotTurns_proofs` |
| `PlayerBotDepot` | depot work: discovery, approach, opening, deposits | `PlayerBotDepot_proofs` |
| `TfsService` | abstract: what the two threads promise to the game | |
| `TfsThreads` | dispatcher and database threads with their shutdown | `TfsThreads_proofs` |
| `MCLifecycle`, `MCPlanningBudget`, `MCRouteCache`, `MCLoot`, `MCTurns`, `MCDepot`, `MCThreads` | constants and symmetry for TLC | |

The definitions whose names say what goes wrong (`ScheduleUnowned`,
`CheckedLate`, `FinishUncharged`, ...) stand next to the definition they
vary. They are not used by any specification: each is a plausible bug of the
code, and replacing the definition by it makes TLC report the property that
PROJECT.json pairs with it.

### 2.1 PlayerBotLifecycle

`phase`, `controller`, `eventId`, `generation`, `deaths`, `awaiting`... are the
fields of the manager's entry, `live` the controllers that have not stopped, `body`
the creature in the world (numbered, so that an old body is not a new one),
`tasks` every timer on its way through scheduler and dispatcher
(`stage`), and `frame` the C++ call in progress: while the manager is inside
`placeCreature`, `start()` or a removal, `frame.pc` says where it will
continue, and only what scripts can do (`World`) happens until it returns. Each
handler is one action up to the next such call and one for its return:
`Activate`, `LoadPlaces`/`LoadFails`, `LoginAccepted`/`LoginRejected`,
`StartReturns`, `RecoverEvict`/`EvictReturns`/`RecoverReload`, `Finalize`...,
`Shutdown`/`Remove`. Timers go `Expire` -> task or `Abort`;
`DiscardStale`/`Take` is the token test at the head of every task.

Abstractions. `Death` is one step: `executeDeath` is a dispatcher task and the
manager's part of it is not interrupted; scripts after it are covered by the
open frames. What `load()` reads from the database is only whether the row still
names the character (`renamed`). A rejected login removes a body that the manager
hardly ever still owns; the action is kept with the code's test. The manager refuses human
logins by name only, and the game finds an online player by name or by GUID; so a person can
play a character that was renamed while offline, and `load()` must notice. Assumed of
operators: a character is renamed, or renamed back, only while no bot of it is in the game. A
row renamed under an online bot is not covered.

`PlayerBotReservation` says in two functions, `status` and `seat`, what the rest
of the server may rely on: the whole roster is reserved in one step; a bot sits down
only in an empty seat, and only then becomes active; the seat of an active bot
empties only together with its reservation; a human sits down only in an empty seat
of a bot that is not active; nothing follows `Terminal` but the seat's own emptying.
`ReservationSpec` is that specification with `status` mapped to `phase` and `seat`
to who plays the character (`body`, `human`).

### 2.2 PlayerBotPlanningBudget

The arithmetic of `refill`, `request`, `finish` and `cancel` is the code's, with
one tick for the microsecond: two ticks earn one unit of credit, the odd tick is kept in
`remainder`. Clients are modelled with it because the properties are about the
two together: a client asks when `due`, a refusal gives it a time, `Floor[c]` is
the least delay its caller retries after (short for the hunt planner, 500 ms for
service routes), `MaxLate` how late a due turn runs, `Wanderers` are controllers that
other activities may take over for `Away`. A planning slice is synchronous on the
dispatcher, so requests arrive only while none is `active`; cancelling the
active slice is `finish` without a continuation. `GiveUp` and `Cancel` are the
controller's stop and the planner's reset. `asked` and `overtaken` are history:
who keeps asking, and how often each other client was admitted meanwhile.

### 2.3 PlayerBotRouteCache

`revision`, `epoch` and `changes` are the journal; `edit` is the world: for each tile
the revision that last edited it. A watch is a record with the code's fields (`live`,
`revision`, `epoch`, `own`, tiles) and one ghost, `facts`: the tiles together with
the edit that was really seen. `turn` is the controller whose turn it is,
`work`/`segment`/`searching` its suspended search and the inner one,
`cache` the three shared caches (segments, trees, which are taken out and put back,
and danger samples), `retained` the evidence kept for execution. Map changes
(`Changed`, `Invalidate`) happen between turns: both run on the dispatcher.
`Valid` is the code's incremental test, with its off-by-one sensitive comparison for
a change that fell off the journal.

Abstracted: LRU order and byte weights become "any entry may be evicted, any insert
refused". Left out: the size shortcut in `absorb()` for large imports, the
per-policy map of local danger samples, IgnoreReads/Suppress, and the geometry
observer. The watch around a whole region search and the one inside travel work are one (`work`).

### 2.4 PlayerBotLoot

`loot` is the workflow record (pending loot, pending discard, replacement plan,
`discarded`, `needsRecovery`, unavailable items, search, failure and suspension
counters), `where` the place of each item, `bag`/`opened` the open containers,
`corpse`/`corpseOpen` the corpse, `fate` a ghost: what became of each
piece of cargo. A turn verifies first (`Verified`), then does one
thing: recover cargo, walk, search, open, or choose; `ready` is whether the
game lets the player act. The adapter's refusal is part of the turn, and the
silent refusal of `RecoverCargo` too. `Mishap`s are what others do: take, push,
decay, close the bag, or a fight that resets the work (`Interrupted`).

Items are single units ordered by value density; slots and capacity are one
number, `Room`; all open containers are one bag, and opening a nested one adds a
slot. Which lesser cargo is given up is nondeterministic among those of lower value.

### 2.5 PlayerBotTurns

`event`, `generation` and `deadline` are the controller's three fields, `tasks` its
turns on their way (`timer`, `cancelled` but not yet seen by the scheduler thread,
`queued` in the dispatcher's list), `frame` what the dispatcher runs of the
controller, `player` and `shutdown` what `navigate()`'s guards look at. `Schedule` is
one call of `schedule()` from within a turn, at any time and with any of
`Intervals`; the clock ticks while a turn runs. `Dispatch` is the timer's callback
with the guards; `EnterTraversal`, `PatrolSearch` and `LeaveTraversal` the part of
`processTraversal()` that keeps a search over turns, with the stamp its guard
writes. `Stop`, `Pause`, `Dies`, `OnDeath`, `Leaves` and `Shutdown` come
when the code lets them. There is no resume in the code: a paused controller is
only stopped. What a turn does otherwise (healing, food, travel safety) is only that it
schedules and returns. `requested` and `turns` are history.

### 2.6 PlayerBotDepot

`stage`, `attempts`, `selected`, `rejected` and `move` are `PlayerBotDepotSession`,
`pass` the candidates, fallback and flags of the workflow's discovery pass. A turn is
spread over several steps (`pc`), because the adapters call `advance()` several
times in it, the first time with an empty observation, which already changes
stage and attempts; the world acts between turns only. Lockers are numbered, and a
number stands for the one approach to it that the search prefers; `pos` is relative to
the selected one: "at" it, "slid" (within one tile of the approach and not
of the locker), or "away". Boxes close when they go out of reach. `MoveDeposit` lets
the engine move all, some or none of a stack; `Mishap`s push the bot, change its bag, or
attack it. Routes are found, refused, or found at a risk, nondeterministically.

Left out: the withdrawal of goods to be sold and the source route of a sale, upgrades
put on at the depot, fixtures. Distances between lockers, which order the candidates, are
a choice.

### 2.7 TfsThreads

`dState`, `taskList` and `batch` are the dispatcher's state, list and local list,
`dpc`/`cur` where its thread is; `dbState`, `queries`, `wpc`, `taken` the same for the
worker; `flushed` is the query that `flush()` has taken out. A region under a lock is
one step; every access outside it is a step of its own (`Test`, `WorkerTest`,
`NotifyDispatcher`, `NotifyWorker`). `AddTask` is used by everyone who posts: the
threads outside (`Post`), a callback (`RunTask`) and the shutdown (`PushEnd`).
`Close` is the task that calls `setGameState(GAME_STATE_SHUTDOWN)`, `End` is
`Game::shutdown`, `Terminate` the task that `Dispatcher::shutdown` leaves.
A task submits one query, saves (`flush`), or shuts down; a late task is dropped
(`Expired`). The scheduler thread, whose io_context serves what is posted to it in order,
and the statistics thread are left out.

`TfsService` says what the game may rely on, without threads, locks or wakeups: tasks
execute in the order in which they were posted, each once; a query is accepted from its own
task, runs once, and is answered while the server is open; answers and the
task that ends the dispatcher are not for anyone to post (`Postable`). The latter is added only
after the server has closed, when all accepted queries have run but possibly one, the worker's;
neither a task nor a query comes behind it. `ServiceSpec` is that specification with `todo` mapped to what is left of the batch
followed by the list, `done` to the executed tasks, and `accepted` and `ran` to the
queries' own history.

## 3. Runs

| Run | Instance | Distinct states | Shows |
|---|---|---|---|
| `lifecycle_safety` | 2 bots, 3 bodies, 1 death allowed, 2 attempts, rows may be renamed | 1.3 M | all safety of the manager, and the refinement of the reservation |
| `lifecycle_liveness` | the same without renaming, fair | 0.5 M | a recovery ends; a shutdown ends |
| `arena_death` | 1 bot | stops at the violation | finding 1 |
| `planning_budget` | 3 clients, line of 2, 10 ticks | 2.3 M | spending envelope, debts paid when told, honest line, fair turns |
| `planning_starvation` | a prompt and a slow client, 60 ticks | stops at the violation | finding 2 |
| `route_cache` | 2 tiles, 1 search, one key of each kind, journal of 1, 2 changes | 2.5 M | freshness of cache, evidence and turn, nesting, and no needless drop |
| `route_cache_shared` | 2 tiles, 2 searches sharing a segment key | 5.0 M | freshness of the shared results when two bots fill the same key |
| `loot` | 3 items, 1 slot and a pouch, a near and a far place, limits 2/3/2, 2 mishaps | 0.6 M | one move at a time, cargo accounted for, failures final, the work ends |
| `turns` | intervals 1, 2, 3; nothing due after time 4 | 1.6 M | one turn on its way, the earliest; no stale turn; continuous searches; the turn comes |
| `depot` | 2 lockers, risks 0 and 1, a stack of 2, 3 attempts, 2 discoveries, 2 validations a turn, 3 mishaps | 4.5 M | risky routes last; only refused goods are dropped |
| `depot_displaced` | the same | stops at the violation | finding 3 |
| `threads` | 2 queries, 1 with a callback, 1 save, a shutdown | 0.16 M | a query runs once, and the threads implement the abstract service; nothing that was accepted is lost; the shutdown ends |

**Why the bounds are enough.** *Lifecycle*: two bots interleave in the
dispatcher's list and in the loop of `shutdown`; three bodies allow a death, a
recovery and a death again, with the limit of consecutive deaths reached;
two attempts allow a failed retry and giving up. *Budget*: a slice of 4 against
a burst of 3 makes debt that outlasts a lease of 3; a line of 2 with three clients
is full; the away client loses its turn. The clock stops at `Horizon`, which is why
deadlock is not checked. *Route cache*: a journal of 1 with two changes overflows;
two tiles tell a change of a watched tile from one of another. *Loot*: three items are cargo, better
loot and one more; two mishaps allow a push away and back, or a theft and a decay.
*Turns*: three intervals replace a deadline by an earlier one and then by one in between; in
four ticks a timer outlives two of its successors. *Depot*: with two lockers one can be
suppressed while the other is risky, and two risks make a fallback that is replaced;
a stack of two can move in part; three mishaps are a gain, a loss and a push, and with three
attempts a move is retried and then refused. *Threads*: two queries keep
`flush()` and the worker busy at the same time; the save and the shutdown flush after one
another; threads outside post until everything has been sent.
`CHECK_DEADLOCK FALSE` also where the system really stops: after the lifecycle's
shutdown with every body that may die used; when a controller is stopped and its clock
has run out; when depot work is done or stopped (or, finding 3, without a turn); when both threads have
ended, or the worker sleeps after the end (observation G below).

**Properties.** `OnlyOwnedTimerActs`: the only task that can still act on a managed
record is the one its event id names, also when a stopped one has already reached the dispatcher. `RecoveryNotStranded`: a recovering bot always has
its pending timer or a call in progress that goes on with it. `LiveControllerDrivesBody`:
a running controller is the record's, and its body is in the world.
`TerminalReleasesPlayer`: once the manager's handler is done, a terminal record has
no player in the world and no controller. `NoDoubleLogin`: never a human and a bot as the same character, although a login and a reload look for each other by different keys.
`TerminalIsFinal`: nothing is started or scheduled for a terminal record again, but by the loop of `start()`
that a script has shut down half-way. `RecoveryEnds`: a recovery ends in a relog, a suspension or a removal. `ShutdownEnds`: every record ends and the world is emptied of bots.
`Envelope`: between slices, planning has consumed at most the burst less the admission
threshold, plus half the elapsed time, plus half of one slice. `EligibleWhenTold`: a head that waits
for its credit has it at the time it was told, though each request or cancellation of others
refills, and halves, a part of the wait. `QueueHonest`: nobody stands in line twice, nor
after giving up or while being served. `PunctualKeepsTurn`: a client whose retries, however late,
fall within a lease leaves the line only by being admitted or giving up. `FairTurns`: nobody is admitted twice while a punctual client waits.
`CacheIsFresh`, `EvidenceIsFresh`, `TurnIsFresh`: whatever the test calls valid was seen on
the present map. `ScopesNest`: an inner watch is contained in the outer one. `CacheIsPrecise`: an entry whose tiles did not
change since it was checked, with the journal not overflown, stays valid.
`EarliestTurn`: whatever was asked for in whatever order, exactly one
turn is on its way, for the earliest deadline. `TurnIsOwed`: a turn starts only in a running
controller, when one was asked for and is due; cancelled timers that escaped start
nothing. `SearchContinuous`: only the turn right after the one that yielded goes on with its patrol search.
`TurnComes`: a turn that was asked for comes, unless the controller is stopped. `FallbackIsLast`: a route
known to be risky is taken only when no untried locker is left or under attack, and it is
the least risky one met since the scan. `DiscardsOnlyRefused`: goods are dropped only if the engine refused
the very move that is verified. `EverythingRuns`: what either thread has accepted runs.
`ThreadsEnd`: a shutdown ends the dispatcher, with every accepted query run.
`ServiceSpec`: the threads implement `TfsService`.
`TypeOK` of `TfsThreads` also says that a query is in one hand and runs once.
`OneMoveAtATime`: never two moves in flight. `NoSilentLoss`: cargo that was put down is
replaced, back, reported, on the record to be taken back, or left by an interruption.
`NotTriedAgain`: an item that was refused or failed once is never the one being moved again. `LootEnds`: work begun at a corpse ends.

**Fairness.** Lifecycle: weak fairness of every return from a call, of the loops of
startup and shutdown and of the scheduler thread (threads run); strong
fairness of running a queued task, because the dispatcher's list is first in first
out and a task in it is reached whatever other tasks do. No fairness of deaths,
scripts, humans or edits. Loot: weak fairness of a turn in which the player may act
(`canDoAction` becomes true by the clock), and of the clock's own timeouts. Nothing is
assumed of other players or monsters; their number is bounded by `MaxMishaps`.
Turns: the clock advances, the scheduler and dispatcher threads serve what has come to them,
and a turn ends; none of schedule calls, deaths or stops. Threads: weak fairness of
each thread, for a thread that can run is run, and of a notification that has to be sent,
for the thread that owes it goes on; none of posts or of spurious wakeups, so a lost
wakeup would show.

### 3.1 Disagreements between the documentation and the code

1. `src/docs/playerbots.md:102` says that a death keeps server ownership while
   recovery reloads the character. After a death in an arena the body
   stays in the world (`player.cpp:2060`); if it dies again before the
   recovery timer runs, the second death is ignored and removing that
   corpse terminates the record (`playerbot.cpp:323`): the bot never comes back. Run `arena_death`.
2. `src/docs/playerbots.md:62` and `playerbotplanningbudget.h:45-46` say that
   continuations queue fairly and that legitimate long waits keep their turn. The
   service, depot and trainer callers raise every delay to 500 ms
   (`playerbotservice.cpp:1525`), twice the head's lease: they lose their turn to
   a prompt caller again and again. Run `planning_starvation`. For
   punctual callers the statement holds (`FairTurns`, `PunctualKeepsTurn`).
3. `src/docs/playerbots.md:100` says that running controllers schedule bounded
   turns. A bot that is pushed to a tile near its approach and not near its
   locker during a deposit gets the command Navigate from the workflow, which no branch of
   `processDeposit` handles: it returns without `schedule()`
   (`playerbotservice.cpp:3019`), and the controller is running with no turn to come. Run `depot_displaced`.

Seen while modelling, and in the models, without a run of their own:

* (A) The same document, line 90, lets a bot scan for another locker when its approach is
  occupied or it stalls. After a displacement during a deposit the stage is not
  Approach, and the stall is ignored.
* (B) The comment at `playerbotservice.cpp:2541` speaks of retrying discovery while the
  shared suppression is active. After exhaustion the list of candidates is kept, so
  lockers are not scanned again in the attempts that follow.
* (C) The limit of attempts never stops the opening of a chest that does not open: the empty
  observation at the start of a turn takes the stage back from OpenChest to
  OpenLocker, and seeing the locker open starts the attempts over.
* (D) Opening the boxes again and refused moves share one counter. After a displacement a
  single refusal can lead to a discard, though
  `src/scripts/playerbot-gameplay/scenarios-service.ps1:255` expects three requests.
* (E) `DatabaseTasks::flush` does not wait for the query that the worker has already taken out.
* (F) So that query's callback may come after the dispatcher has closed, and is dropped.
* (G) A worker that tested its state just before `DatabaseTasks::shutdown` and found no
  query goes to sleep after the notification. It has no work left, but its thread does not end, and
  `g_databaseTasks.join()` waits for it. `ThreadsEnd` therefore allows a worker that sleeps; with
  `wpc = "ended"` in its place TLC finds this behaviour.

## 4. Proofs

Every theorem is `Spec => []...` (or a formula on steps) for all values of the constants that satisfy the
named assumption of its module (`LifecycleAssumption`, `BudgetAssumption`,
`RouteAssumption`, `LootAssumption`, `TurnsAssumption`, `DepotAssumption`, `ThreadsAssumption`): limits are naturals, the null values are not
members, the sets of keys or places are disjoint, and the items, the bags among them and the lockers are finitely
many (the measures count them). The number of bots, clients,
tiles, keys, items, lockers and queries is arbitrary otherwise, and so are the delays. Each invariant `IInv` is proved to hold
initially and to be preserved by every action; the theorems follow from `Invariance`.

* **Lifecycle** (1594 obligations). The safety properties are not inductive by themselves. `TokenInv`: tokens are
  fresh, an event id is its record's current token, a token names one task; `PendingInv`: the
  pending task of a record fits its phase; `PhaseInv`: what each phase keeps; `FrameInv`:
  what a handler suspended in a call may still rely on when the scripts have run and it goes
  on; `SeatInv`: a body in the game has its row's name and no other player; `Promises`: the properties themselves. From these
  `TypeCorrect`, `StaleTimersAreInert`, `NoBotIsStranded`, `ControllersAreOwned`, `TerminalIsReleased`, `NoCharacterPlayedTwice`.
  With `ActiveInv` (an active record's body is its own, in the game) every step but the reservation of the roster is
  shown to be *tame*: it concerns one record, and does to its status and seat what one action of
  `PlayerBotReservation` does, or nothing. Hence the refinement (`Refinement`) and `TerminalForEver`.
  Of `ShutdownEnds`: when the loop of `shutdown()` and the handler it interrupted are through, every
  record is terminal and the game is empty (`ShutdownLeavesNothing`), and stays so (`ShutdownIsFinal`).
  Of `RecoveryEnds`: `Rank` is a natural number, seven for each attempt left and less
  with each of an attempt's steps (timer, task, eviction, load, login, failure); while a
  record recovers, each step of its own handler or task lowers the rank, and all the others
  leave its task, handler and rank alone (`RecoveryComesToAnEnd`, with `AttemptsAreBounded`).
* **Budget** (1527). The sum 2 * (credit + consumed) + remainder never exceeds
  2 * Burst + the time last updated: every refill keeps it, every charge moves between
  its terms. With the bound on a running slice this gives
  `PlanningStaysInEnvelope` and `DebtIsBounded` (between slices no debt is deeper than one), for any
  number of clients and any horizon. Each refill below the burst keeps 2 * credit + remainder minus
  the time exactly, so the wait told to a head loses nothing by being cut; `EligibleInv` adds that a
  head does not come back sooner, so nobody is admitted and charged in between (`DebtIsWaitedOut`).
  The line needs its own invariant, `LineInv`: `QueueHonest`, which is almost inductive; `TurnInv`, that a
  punctual head comes back before its lease ends, and one further behind within a lease of
  any moment at which it may become head; and `OrderInv`, that whoever was admitted while a
  punctual client waited stands behind it. Lemmas say what taking the head, joining, and leaving from
  the middle do to the order. Theorems `LineIsHonest`, `TurnsAreFair`, `PunctualTurnsAreKept`.
* **Route cache** (777). A watch is `Sound` when its epoch has gone by, or each fact it rests on
  is current or its tile was edited after the watch's revision. `JournalInv` says that the
  journal holds the latest edits without a gap, so a sound watch that passes `Valid` is current
  (`ValidIsCurrent`). `HoldersInv`: the watch of every search, segment, cache entry and piece of
  evidence is sound; `TurnInv`: a turn's own watch has been checked; `NestInv`: the inner watch
  is contained in the outer one. Theorems `SharedResultsAreFresh`,
  `RetainedEvidenceIsFresh`, `ResumedSearchesAreFresh`, `DependenciesAreInherited`, `CacheDropsOnlyStale`.
* **Loot** (1680). `NoSilentLoss` and `OneMoveAtATime` are strengthened to `Tracked`,
  a relation between the workflow record, the items' places and their fates; verification
  turns a tracked record into a `Reviewed` one, which has no move in flight, and each of
  the turn's choices makes a tracked one again. Theorems `MovesDoNotOverlap`, `CargoIsAccountedFor`, `FailuresAreFinal`.
  Of `LootEnds`: `Measure` counts the items that are still worth a try, the stage of the
  transaction for one of them, and the tries left at opening and searching. A new stage
  may be further back only when an item is used up. Without a mishap no step of a turn raises it,
  and every turn that is ready lowers it unless it walks, which its timeout
  bounds (`LootingComesToAnEnd`).
* **Turns** (521). `CurrentOK`: at most one timer carries the current generation, it has not been
  stopped, and its due time is the deadline; `StaleOK`: all others carry a generation
  that does not come back; `EventOK`: the deadline is the least of those requested; `SearchOK`:
  which turn may go on with the retained search. Theorems `EarliestTurnScheduled`, `TurnsAreOwed`, `SearchesAreContinuous`.
  Of `TurnComes`: a turn on its way is only replaced by an earlier one, not at all once its
  timer has expired, and the wait ends in the turn or in a stop (`TurnsComeNearer`).
* **Depot** (1199). `FallbackOK`: the fallback is the least of the offers met in the pass; `GoodsOK`:
  a pending move was refused or the chest has more than before, for nothing is taken out of it; `SelectedOK`. The
  parts are about different variables, and a frame lemma names the actions that change
  them. Theorems `FallbackIsTheLeast`, `OnlyRefusedIsDropped`. `SearchInv` relates the pass to the
  turn: candidates, route and fallback are different lockers, none of them
  rejected (`RejectedIsLeftAlone`); so each locker is looked at once, the fallback once more, and a
  pass ends (`PassComesToAnEnd`). Finding 3 is the only one of its kind: `StrandInv` says
  that a running controller without a turn is depositing and something has happened to it
  (`OnlyDisplacedAreStranded`), and the return of `Displaced` is the only step
  that loses a turn, for good (`DisplacementIsTheOnlyHole`).
* **Threads** (1789). `TasksInv`: a work task is in the list, the batch or in hand, once, and only if it was
  sent; `QueriesInv`: so its query is accepted at most once, and is then in one of four places:
  the list, taken out by `flush()`, taken out by the worker, or run. Theorems `QueriesRunOnce`, `NoQueryIsLost`.
  Of `EverythingRuns`: a thread that sleeps over work is about to be notified (`NoWakeupIsLost`), and a
  task that was taken is in one place until it is executed (`TasksRunOnce`). Of `ThreadsEnd`: what
  is true in each phase of a shutdown, up to the end of the dispatcher with nothing left
  (`NothingIsLeft`). With these every step is one of `TfsService` or leaves its state alone (`Refinement`).

**Model-checked only**: the liveness properties (`RecoveryEnds`, `ShutdownEnds`,
`LootEnds`, `TurnComes`, `EverythingRuns`, `ThreadsEnd`) themselves, which need fairness and ENABLED; the safety that each
rests on is proved, as said above: a measure that falls or a turn that comes nearer, no
lost wakeup, and what holds at the end. That the fair steps are enabled while the measure has not reached its end is left to TLC. Every
safety and step property of the passing runs is proved; that they say something of the
code is shown by the mutants, which TLC refutes.

## 5. Not modelled

* **NPC dialogue, trade and receipts; progression and trainers.** Their steps are told apart by the
  wording of replies, prices and stock; what makes them right is in those data.
* **Hunt coordination, regions and scoring; survival, spells, damage; equipment,
  supply and economy policies; goal planners.** Choices computed from estimates of the world,
  in floating point; a small instance would represent none of it. The goal arbiter's
  decisions are applied in the turn that makes them, so none can be overtaken.
* **Supply recovery and preparation.** Their budgets of attempts span goals that are chosen from those estimates.
* **Navigation runtime, path search, topology.** Algorithms over the map; the runtime keeps
  and verifies what they find.
* **`absorb()`'s shortcut** for an import of 64 tiles or more it has seen in the same size: it rests on
  watches that only grow, which holds in `PlayerBotRouteCache`; a watch of 64 tiles is out of
  reach of its instances. LRU order and byte weights of the caches are "any entry may go".
* **`Scheduler::shutdown`** and the start-up of a server that never came up; the timers themselves
  are in `PlayerBotLifecycle` and `PlayerBotTurns`.
* **Telemetry, fixtures, the game engine** beyond its calls to and from bots, **the client and the scripts.**
