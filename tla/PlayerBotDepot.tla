---------------------------- MODULE PlayerBotDepot ----------------------------
(***************************************************************************)
(* Depot work: finding a locker, walking to it, opening it, and depositing *)
(* (playerbotdepotworkflow, playerbotdepotsession, and their adapters      *)
(* discoverDepot, depotApproachStalled, openDepotLocker, openDepotChest    *)
(* and processDeposit of playerbotservice.cpp).                            *)
(*                                                                         *)
(* A turn is one dispatcher task.  It advances the workflow several times, *)
(* first with an empty observation, so it is spread over several steps     *)
(* here (`pc`); the world acts only between turns.                         *)
(*                                                                         *)
(* A locker stands for one approach to it.  The bot's place is taken       *)
(* relative to the locker that is selected: "at" it, "slid" (still within  *)
(* one tile of the approach, but not of the locker) or "away".             *)
(***************************************************************************)
EXTENDS Naturals, FiniteSets

CONSTANTS
    Lockers,            \* the lockers, numbered
    Risks,              \* how dangerous a route may be
    Items,              \* what may be deposited
    Stack,              \* bound: units of an item in the bag
    MaxAttempts,        \* maximumDepotAttempts
    DiscoveryAttempts,  \* maximumDepotDiscoveryAttempts
    Validations,        \* depotRouteValidationsPerDecision
    MaxMishaps          \* bound: what the world does to the bot

None == 0

ASSUME DepotAssumption ==
    /\ Lockers \subseteq Nat \ {None} /\ IsFiniteSet(Lockers)
    /\ Risks \subseteq Nat
    /\ None \notin Items
    /\ Stack \in Nat /\ MaxMishaps \in Nat
    /\ MaxAttempts \in Nat \ {0} /\ DiscoveryAttempts \in Nat \ {0}
    /\ Validations \in Nat \ {0}

VARIABLES
    phase,          \* "Return", "Deposit", "Done" or "Stopped"
    stage, attempts, selected,      \* PlayerBotDepotSession
    rejected,       \* rejectedApproachTimes, without those that expired
    pass,           \* the candidates of the workflow's discovery pass
    move,           \* pendingMove
    exit,           \* huntReturnDestination's locker, None once it was tried
    forced,         \* HuntTravelBudgetPhase::ReturnToDepot
    attacked,       \* depotDiscoveryUnderAttack
    bag, chest, ground,             \* units of every item
    open,           \* "none", "locker" or "chest" (inside the open locker)
    pos,
    pc, validations, preferred,     \* the turn: where it is, and its locals
    turn,           \* a turn is scheduled
    mishaps,
    offers,         \* history: the risky routes of the pass that may be taken
    refused         \* history: the engine refused the move that is pending

passVars == <<rejected, pass, offers>>
sessionVars == <<stage, attempts, selected>>
goodsVars == <<bag, chest, ground, move, refused>>
boxVars == <<open, pos>>
returnVars == <<exit, forced, attacked>>
localVars == <<validations, preferred>>
vars == <<phase, sessionVars, passVars, goodsVars, boxVars, returnVars,
          pc, localVars, turn, mishaps>>

\* The routes with a risk; one that is unknown ranks behind all that are known.
Offer == [at : Lockers, unknown : BOOLEAN, risk : Risks]
NoOffer == [at |-> None, unknown |-> FALSE, risk |-> 0]

NoPass == [scanned |-> FALSE, candidates |-> {}, route |-> None, validating |-> FALSE,
           fallback |-> NoOffer, suppressed |-> FALSE]
Pass == [scanned : BOOLEAN, candidates : SUBSET Lockers, route : Lockers \cup {None},
         validating : BOOLEAN, fallback : Offer \cup {NoOffer}, suppressed : BOOLEAN]
NoMove == [item |-> None, bag |-> 0, chest |-> 0]
Move == [item : Items, bag : Nat, chest : Nat]

TypeOK ==
    /\ phase \in {"Return", "Deposit", "Done", "Stopped"}
    /\ stage \in {"Discover", "Approach", "OpenLocker", "OpenChest", "Deposit", "VerifyMove", "Depart"}
    /\ attempts \in Nat /\ selected \in Lockers \cup {None}
    /\ rejected \in SUBSET Lockers /\ pass \in Pass
    /\ move \in Move \cup {NoMove}
    /\ exit \in Lockers \cup {None} /\ forced \in BOOLEAN /\ attacked \in BOOLEAN
    /\ bag \in [Items -> Nat] /\ chest \in [Items -> Nat] /\ ground \in [Items -> Nat]
    /\ open \in {"none", "locker", "chest"} /\ pos \in {"at", "slid", "away"}
    /\ pc \in {"idle", "discover", "scan", "validate", "next", "approach", "deposit", "select"}
    /\ validations \in Nat /\ preferred \in BOOLEAN /\ turn \in BOOLEAN
    /\ mishaps \in 0..MaxMishaps
    /\ offers \in SUBSET Offer /\ refused \in BOOLEAN
    /\ stage = "Discover" <=> selected = None

\* beginReturn()
Init ==
    /\ phase = "Return"
    /\ stage = "Discover" /\ attempts = 0 /\ selected = None
    /\ rejected = {} /\ pass = NoPass /\ offers = {}
    /\ move = NoMove /\ refused = FALSE
    /\ exit \in Lockers \cup {None} /\ forced \in BOOLEAN /\ attacked = FALSE
    /\ bag \in [Items -> 0..Stack]
    /\ chest = [i \in Items |-> 0] /\ ground = [i \in Items |-> 0]
    /\ open = "none" /\ pos = "away"
    /\ pc = "idle" /\ validations = 0 /\ preferred = FALSE /\ turn = TRUE
    /\ mishaps = 0

Working == phase \in {"Return", "Deposit"}

-----------------------------------------------------------------------------
(* How a turn ends                                                           *)

\* schedule() and return
EndTurn == turn' = TRUE /\ pc' = "idle" /\ validations' = 0 /\ preferred' = FALSE

\* return without schedule()
EndWithoutTurn == UNCHANGED turn /\ pc' = "idle" /\ validations' = 0 /\ preferred' = FALSE

Go(where) == pc' = where /\ UNCHANGED <<turn, localVars>>

\* stop(); it cancels the turn that is scheduled.
StopWork == phase' = "Stopped" /\ turn' = FALSE /\ pc' = "idle" /\ validations' = 0 /\ preferred' = FALSE

Starts ==
    /\ pc = "idle" /\ turn /\ Working
    /\ turn' = FALSE /\ pc' = "discover"
    /\ UNCHANGED <<phase, sessionVars, passVars, goodsVars, boxVars, returnVars, localVars, mishaps>>

-----------------------------------------------------------------------------
(* Discovery                                                                 *)

\* clearDiscovery()
ForgetPass == pass' = NoPass /\ offers' = {}

\* travelRetryAt has not come.
Deferred ==
    /\ pc = "discover"
    /\ EndTurn
    /\ UNCHANGED <<phase, sessionVars, passVars, goodsVars, boxVars, returnVars, mishaps>>

\* advance({}): where discovery stands
Continue ==
    /\ pc = "discover"
    /\ Go(IF selected # None THEN "approach"
          ELSE IF pass.route # None THEN "validate"
          ELSE IF pass.scanned THEN "next" ELSE "scan")
    /\ UNCHANGED <<phase, sessionVars, passVars, goodsVars, boxVars, returnVars, mishaps>>

\* SelectedLockerUnavailable: the locker is not there any more, nor is what was
\* open in it.  A pending move stays pending.
LockerGone ==
    /\ pc = "discover" /\ selected # None /\ mishaps < MaxMishaps
    /\ ForgetPass
    /\ stage' = "Discover" /\ attempts' = 0 /\ selected' = None
    /\ open' = "none" /\ pos' = "away" /\ mishaps' = mishaps + 1
    /\ Go("scan")
    /\ UNCHANGED <<phase, rejected, goodsVars, returnVars>>

\* PlayerBotDepotCommandType::Fail of the discovery: the controller stops, or
\* waits while creatures on the way are avoided, or gives its sale up.
FailDiscovery ==
    \/ StopWork
    \/ EndTurn /\ UNCHANGED phase

\* A counter of attempts is only compared with its limit, and stops there.
Bump(n, limit) == IF n < limit THEN n + 1 ELSE n

\* No candidate: all are suppressed for a while, or the scan counts as a failure.
NothingFound(suppressed) ==
    IF suppressed THEN EndTurn /\ UNCHANGED <<phase, attempts>>
    ELSE /\ attempts' = Bump(attempts, DiscoveryAttempts)
         /\ IF attempts + 1 >= DiscoveryAttempts THEN FailDiscovery
                                                 ELSE EndTurn /\ UNCHANGED phase

\* A scan finds the lockers with a tile to stand on.
Scan ==
    /\ pc = "scan" /\ (exit = None \/ ~forced)
    /\ offers' = {}
    /\ \E found \in SUBSET Lockers :
        LET suppressed == found \cap rejected # {}
            candidates == found \ rejected
        IN  IF candidates = {}
            THEN /\ pass' = [NoPass EXCEPT !.suppressed = suppressed]
                 /\ NothingFound(suppressed)
            ELSE /\ \E first \in candidates :
                        pass' = [NoPass EXCEPT !.scanned = TRUE, !.candidates = candidates \ {first},
                                               !.route = first, !.suppressed = suppressed]
                 /\ Go("validate")
                 /\ UNCHANGED <<phase, attempts>>
    /\ UNCHANGED <<stage, selected, rejected, goodsVars, boxVars, returnVars, mishaps>>

\* PlayerBotDepotSession::reset(): suppressed approaches and a pending move are
\* forgotten, too.
ResetSession ==
    attempts' = 0 /\ rejected' = {} /\ stage' = "Discover" /\ selected' = None /\ move' = NoMove

\* The hunt's validated exit is tried before other lockers, once.
ScanExit ==
    /\ pc = "scan" /\ exit # None /\ forced
    /\ exit' = None /\ offers' = {}
    /\ \/ /\ exit \notin rejected
          /\ pass' = [NoPass EXCEPT !.scanned = TRUE, !.route = exit]
          /\ pc' = "validate" /\ preferred' = TRUE
          /\ UNCHANGED <<attempts, rejected, stage, selected, move>>
       \/ \* not to be stood at: depotWorkflow.reset() and a full scan
          /\ pass' = NoPass /\ ResetSession
          /\ pc' = "scan" /\ UNCHANGED preferred
    /\ UNCHANGED <<phase, bag, chest, ground, refused, boxVars, forced, attacked, validations, turn, mishaps>>

\* Mutant: the stage of the session is not set.
SelectOnly ==
    /\ selected' = pass.route /\ attempts' = 0 /\ UNCHANGED stage
    /\ pass' = [pass EXCEPT !.route = None, !.validating = FALSE, !.scanned = FALSE, !.candidates = {}]
    /\ pos' \in {"at", "slid", "away"}

\* select(): the bot stands somewhere relative to the locker.
Select ==
    /\ selected' = pass.route /\ stage' = "Approach" /\ attempts' = 0
    /\ pass' = [pass EXCEPT !.route = None, !.validating = FALSE, !.scanned = FALSE, !.candidates = {}]
    /\ pos' \in {"at", "slid", "away"}

Reached ==
    /\ pc = "validate" /\ pass.route # None /\ validations < Validations
    /\ Select
    /\ Go("approach")
    /\ UNCHANGED <<phase, rejected, offers, goodsVars, open, returnVars, mishaps>>

\* No budget, a threat that will pass, a route search that takes more turns, or
\* the validations of this turn are used up: the candidate stays pending.
ValidationWaits ==
    /\ pc = "validate"
    /\ EndTurn
    /\ UNCHANGED <<phase, sessionVars, passVars, goodsVars, boxVars, returnVars, mishaps>>

Less(o, p) ==
    IF o.unknown # p.unknown THEN p.unknown
    ELSE IF o.risk # p.risk THEN o.risk < p.risk ELSE o.at < p.at

\* Mutant: the last risky route is remembered, not the least.
Latest(o) == o

\* recordFallbackCandidate()
Better(o) == IF pass.fallback = NoOffer \/ Less(o, pass.fallback) THEN o ELSE pass.fallback

WithoutRoute(p) == [p EXCEPT !.route = None, !.validating = FALSE]

\* The route has a risk: a first look keeps it as a fallback.  A forced return
\* accepts it at the second look, and at the exit of the hunt.
Risky ==
    /\ pc = "validate" /\ pass.route # None /\ validations < Validations
    /\ ~pass.validating /\ ~preferred
    /\ \E o \in Offer :
        /\ o.at = pass.route /\ (o.unknown => forced)
        /\ pass' = [WithoutRoute(pass) EXCEPT !.fallback = Better(o)]
        /\ offers' = offers \cup {o}
    /\ pc' = "next" /\ validations' = validations + 1
    /\ UNCHANGED <<phase, sessionVars, rejected, goodsVars, boxVars, returnVars, preferred, turn, mishaps>>

\* No route, or one whose risk is not accepted even now.
Unreachable ==
    /\ pc = "validate" /\ pass.route # None /\ validations < Validations
    /\ ~preferred
    /\ rejected' = rejected \cup {pass.route}
    /\ pass' = WithoutRoute(pass)
    /\ pc' = "next" /\ validations' = validations + 1
    /\ UNCHANGED <<phase, sessionVars, offers, goodsVars, boxVars, returnVars, preferred, turn, mishaps>>

\* The exit is not reached: depotWorkflow.reset() and a full scan
ExitFails ==
    /\ pc = "validate" /\ pass.route # None /\ validations < Validations
    /\ preferred
    /\ ForgetPass /\ ResetSession
    /\ pc' = "scan" /\ validations' = validations + 1 /\ preferred' = FALSE
    /\ UNCHANGED <<phase, bag, chest, ground, refused, boxVars, returnVars, turn, mishaps>>

\* emergencyReturn
Hurries == forced /\ attacked

\* The fallback is looked at once more: at once under attack, else when no
\* candidate is left.
TakeFallback ==
    /\ pc = "next" /\ pass.fallback # NoOffer /\ (Hurries \/ pass.candidates = {})
    /\ pass' = [pass EXCEPT !.route = pass.fallback.at, !.fallback = NoOffer, !.validating = TRUE]
    /\ offers' = {}
    /\ Go("validate")
    /\ UNCHANGED <<phase, sessionVars, rejected, goodsVars, boxVars, returnVars, mishaps>>

TakeCandidate ==
    /\ pc = "next" /\ ~(Hurries /\ pass.fallback # NoOffer)
    /\ \E l \in pass.candidates :
        pass' = [pass EXCEPT !.route = l, !.candidates = @ \ {l}]
    /\ Go("validate")
    /\ UNCHANGED <<phase, sessionVars, rejected, offers, goodsVars, boxVars, returnVars, mishaps>>

\* The pass is over: it counts as a failure, and the next turn scans again
\* unless it was the last.
Exhausted ==
    /\ pc = "next" /\ pass.candidates = {} /\ pass.fallback = NoOffer
    /\ attempts' = Bump(attempts, DiscoveryAttempts)
    /\ IF attempts + 1 >= DiscoveryAttempts
       THEN FailDiscovery /\ UNCHANGED <<pass, offers>>
       ELSE ForgetPass /\ EndTurn /\ UNCHANGED phase
    /\ UNCHANGED <<stage, selected, rejected, goodsVars, boxVars, returnVars, mishaps>>

-----------------------------------------------------------------------------
(* The way to the locker                                                     *)

Pending == move # NoMove

\* processDeposit() starts with advance({}): a locker that is not observed sends
\* OpenChest back to OpenLocker.  At the locker the return is over.
ToDeposit(stageNow) ==
    /\ phase' = "Deposit" /\ Go("deposit")
    /\ stage' = IF stageNow = "OpenChest" THEN "OpenLocker" ELSE stageNow

\* A walk leaves what is out of reach.
Moves ==
    /\ pos' \in {"at", "slid", "away"}
    /\ open' \in IF pos' = "slid" THEN {"none"} ELSE {open, "none"}

\* setCyclePhase(ReturnToDepot)
ReturnAgain == phase' = "Return" /\ forced' = TRUE /\ attacked' = FALSE /\ UNCHANGED exit

\* The approach is taken, or the walk does not get on.  The workflow looks at
\* that only while it approaches; after a displacement it keeps its locker.
ApproachStalled ==
    /\ pc = "approach"
    /\ IF phase = "Return" THEN UNCHANGED <<phase, returnVars>> ELSE pos = "away" /\ ReturnAgain
    /\ IF stage = "Approach"
       THEN /\ rejected' = rejected \cup {selected} /\ ForgetPass
            /\ selected' = None /\ stage' = "Discover" /\ UNCHANGED attempts
       ELSE UNCHANGED <<sessionVars, passVars>>
    /\ EndTurn
    /\ UNCHANGED <<goodsVars, boxVars, mishaps>>

\* processNavigation() takes a step, or waits for one.
Walk ==
    /\ pc = "approach"
    /\ IF phase = "Return" THEN UNCHANGED <<phase, returnVars>> ELSE pos = "away" /\ ReturnAgain
    /\ Moves
    /\ EndTurn
    /\ UNCHANGED <<sessionVars, passVars, goodsVars, mishaps>>

\* The bot stands on its approach.
Arrive ==
    /\ pc = "approach" /\ phase = "Return" /\ pos = "at"
    /\ ToDeposit(stage)
    /\ forced' = FALSE
    /\ UNCHANGED <<attempts, selected, passVars, goodsVars, boxVars, exit, attacked, mishaps>>

\* It still stands within one tile of the approach, not always of the locker.
StillNear ==
    /\ pc = "approach" /\ phase = "Deposit" /\ pos # "away"
    /\ ToDeposit(stage)
    /\ forced' = (forced /\ pos # "at")
    /\ UNCHANGED <<attempts, selected, passVars, goodsVars, boxVars, exit, attacked, mishaps>>

-----------------------------------------------------------------------------
(* Opening the locker and the chest                                          *)

\* openDepotLocker: the engine walks up to a locker that is out of reach.
UseLocker ==
    \/ pos = "at" /\ open' \in {"none", "locker"} /\ UNCHANGED <<phase, returnVars, pos>> /\ EndTurn
    \/ pos # "at" /\ pos' \in {pos, "at"} /\ UNCHANGED <<phase, returnVars, open>> /\ EndTurn
    \/ \* the locker's tile or identity has changed
       ReturnAgain /\ UNCHANGED boxVars /\ EndTurn

\* openDepotChest
UseChest ==
    \/ open' \in {"locker", "chest"} /\ UNCHANGED <<phase, returnVars, pos>> /\ EndTurn
    \/ StopWork /\ UNCHANGED <<returnVars, boxVars>>

UseBox == IF open = "none" THEN UseLocker ELSE UseChest

WaitForAction == EndTurn /\ UNCHANGED <<phase, attempts, returnVars, boxVars>>

\* MoveDestinationUnavailable: the chest was closed before the move could be
\* verified; the move is forgotten and the box opened again.
DestinationShut ==
    /\ pc = "deposit" /\ Pending /\ open # "chest"
    /\ move' = NoMove
    /\ stage' = IF open = "locker" THEN "OpenChest" ELSE "OpenLocker"
    /\ \/ WaitForAction
       \/ /\ attempts < MaxAttempts /\ attempts' = Bump(attempts, MaxAttempts)
          /\ UseBox
    /\ UNCHANGED <<selected, passVars, bag, chest, ground, refused, mishaps>>

\* What advance() makes of the stage: it opens what is not open yet.
Opened ==
    IF stage = "OpenLocker" \/ (stage = "Approach" /\ pos = "at")
    THEN IF open = "none" THEN "OpenLocker" ELSE IF open = "locker" THEN "OpenChest" ELSE "Deposit"
    ELSE stage

\* The attempts start over with each box that is found open.
AttemptsNow == IF Opened # stage /\ Opened # "OpenLocker" THEN 0 ELSE attempts

\* The command is Navigate, and processDeposit() returns.
Displaced ==
    /\ pc = "deposit" /\ ~Pending /\ pos # "at"
    /\ stage' = Opened /\ attempts' = AttemptsNow
    /\ EndWithoutTurn
    /\ UNCHANGED <<phase, selected, passVars, goodsVars, boxVars, returnVars, mishaps>>

OpenBox ==
    /\ pc = "deposit" /\ ~Pending /\ pos = "at" /\ open # "chest"
    /\ stage' = Opened
    /\ \/ EndTurn /\ attempts' = AttemptsNow /\ UNCHANGED <<phase, returnVars, boxVars>>
       \/ /\ AttemptsNow >= MaxAttempts /\ attempts' = AttemptsNow
          /\ StopWork /\ UNCHANGED <<returnVars, boxVars>>
       \/ /\ AttemptsNow < MaxAttempts /\ attempts' = Bump(AttemptsNow, MaxAttempts)
          /\ UseBox
    /\ UNCHANGED <<selected, passVars, goodsVars, mishaps>>

ChestOpen ==
    /\ pc = "deposit" /\ ~Pending /\ pos = "at" /\ open = "chest" /\ stage # "Depart"
    /\ stage' = Opened /\ attempts' = AttemptsNow
    /\ Go("select")
    /\ UNCHANGED <<phase, selected, passVars, goodsVars, boxVars, returnVars, mishaps>>

\* The boxes are closed and another goal begins; or the planning of a sale takes
\* more turns.
Depart ==
    /\ pc = "deposit" /\ ~Pending /\ pos = "at" /\ open = "chest" /\ stage = "Depart"
    /\ \/ phase' = "Done" /\ open' = "none" /\ turn' = TRUE
       \/ UNCHANGED <<phase, open>> /\ turn' = TRUE
    /\ pc' = "idle" /\ validations' = 0 /\ preferred' = FALSE
    /\ UNCHANGED <<sessionVars, passVars, goodsVars, pos, returnVars, mishaps>>

-----------------------------------------------------------------------------
(* Depositing                                                                *)

\* The chest is not that of the depot, an upgrade is put on first, the item's
\* container is not open, or the bot may not act yet.
SelectWaits ==
    /\ pc = "select"
    /\ EndTurn
    /\ UNCHANGED <<phase, sessionVars, passVars, goodsVars, boxVars, returnVars, mishaps>>

\* There is no backpack; or there is nothing to deposit, yet too little capacity.
SelectStops ==
    /\ pc = "select"
    /\ StopWork
    /\ UNCHANGED <<sessionVars, passVars, goodsVars, boxVars, returnVars, mishaps>>

NothingToDeposit ==
    /\ pc = "select" /\ \A i \in Items : bag[i] = 0
    /\ stage' = "Depart"
    /\ Go("deposit")
    /\ UNCHANGED <<phase, attempts, selected, passVars, goodsVars, boxVars, returnVars, mishaps>>

\* beginMove() takes the counts down, and the engine moves all, some or none.
MoveDeposit ==
    /\ pc = "select"
    /\ \E i \in Items : \E moved \in 0..bag[i] :
        /\ bag[i] > 0
        /\ move' = [item |-> i, bag |-> bag[i], chest |-> chest[i]]
        /\ bag' = [bag EXCEPT ![i] = @ - moved]
        /\ chest' = [chest EXCEPT ![i] = @ + moved]
        /\ refused' = (moved = 0)
    /\ stage' = "VerifyMove"
    /\ EndTurn
    /\ UNCHANGED <<phase, attempts, selected, passVars, ground, boxVars, returnVars, mishaps>>

Verifies == pc = "deposit" /\ Pending /\ open = "chest"

\* A count that went the other way reads as none moved.
Drop(from, to) == IF from > to THEN from - to ELSE 0
Taken == Drop(move.bag, bag[move.item])
Received == Drop(chest[move.item], move.chest)

\* Mutant: what the chest received is not looked at.
UnchangedBag == Taken = 0

MoveMatches == Taken # 0 /\ Taken = Received
MoveUnchanged == Taken = 0 /\ Received = 0

Moved ==
    /\ Verifies /\ MoveMatches
    /\ move' = NoMove /\ stage' = "Deposit" /\ attempts' = 0
    /\ Go("select")
    /\ UNCHANGED <<phase, selected, passVars, bag, chest, ground, refused, boxVars, returnVars, mishaps>>

Mismatch ==
    /\ Verifies /\ ~MoveMatches /\ ~MoveUnchanged
    /\ StopWork
    /\ UNCHANGED <<sessionVars, passVars, goodsVars, boxVars, returnVars, mishaps>>

Retry ==
    /\ Verifies /\ ~MoveMatches /\ MoveUnchanged /\ attempts + 1 < MaxAttempts
    /\ move' = NoMove /\ stage' = "Deposit" /\ attempts' = attempts + 1
    /\ EndTurn
    /\ UNCHANGED <<phase, selected, passVars, bag, chest, ground, refused, boxVars, returnVars, mishaps>>

Rejected == Verifies /\ ~MoveMatches /\ MoveUnchanged /\ attempts + 1 >= MaxAttempts

\* The move stays pending, and is verified again.
RejectedWaits ==
    /\ Rejected
    /\ attempts' = Bump(attempts, MaxAttempts)
    /\ EndTurn
    /\ UNCHANGED <<phase, stage, selected, passVars, goodsVars, boxVars, returnVars, mishaps>>

\* What the depot refused is dropped where the bot stands; when that does not
\* succeed in full, the controller stops.
Discard ==
    /\ Rejected
    /\ \E dropped \in 0..bag[move.item] :
        /\ bag' = [bag EXCEPT ![move.item] = @ - dropped]
        /\ ground' = [ground EXCEPT ![move.item] = @ + dropped]
        /\ \/ /\ dropped > 0
              /\ move' = NoMove /\ stage' = "Deposit" /\ attempts' = 0
              /\ EndTurn /\ UNCHANGED phase
           \/ /\ attempts' = Bump(attempts, MaxAttempts)
              /\ StopWork /\ UNCHANGED <<move, stage>>
    /\ UNCHANGED <<selected, passVars, chest, refused, boxVars, returnVars, mishaps>>

-----------------------------------------------------------------------------
(* The world, between two turns                                              *)

Mishap == pc = "idle" /\ Working /\ mishaps < MaxMishaps /\ mishaps' = mishaps + 1

\* A creature or a player pushes the bot.
Pushed ==
    /\ Mishap /\ selected # None
    /\ Moves /\ pos' # pos
    /\ UNCHANGED <<phase, sessionVars, passVars, goodsVars, returnVars, pc, localVars, turn>>

\* What the bot carries changes by itself: a trade, an item that expires.
BagChanges ==
    /\ Mishap
    /\ \E i \in Items :
        \/ bag[i] < Stack /\ bag' = [bag EXCEPT ![i] = @ + 1]
        \/ bag[i] > 0 /\ bag' = [bag EXCEPT ![i] = @ - 1]
    /\ UNCHANGED <<phase, sessionVars, passVars, chest, ground, move, refused, boxVars, returnVars,
                   pc, localVars, turn>>

\* The health falls while a locker is searched for.
Attacked ==
    /\ Mishap /\ ~attacked /\ attacked' = TRUE
    /\ UNCHANGED <<phase, sessionVars, passVars, goodsVars, boxVars, exit, forced, pc, localVars, turn>>

\* depotApproachSuppression has passed.
SuppressionEnds ==
    /\ pc = "idle" /\ Working
    /\ \E l \in rejected : rejected' = rejected \ {l}
    /\ UNCHANGED <<phase, sessionVars, pass, offers, goodsVars, boxVars, returnVars, pc, localVars, turn, mishaps>>

Discover ==
    \/ Deferred \/ Continue \/ LockerGone \/ Scan \/ ScanExit
    \/ Reached \/ ValidationWaits \/ Risky \/ Unreachable \/ ExitFails
    \/ TakeFallback \/ TakeCandidate \/ Exhausted

Deposit ==
    \/ DestinationShut \/ Displaced \/ OpenBox \/ ChestOpen \/ Depart
    \/ SelectWaits \/ SelectStops \/ NothingToDeposit \/ MoveDeposit
    \/ Moved \/ Mismatch \/ Retry \/ RejectedWaits \/ Discard

Next ==
    \/ Starts \/ Discover \/ ApproachStalled \/ Walk \/ Arrive \/ StillNear \/ Deposit
    \/ Pushed \/ BagChanges \/ Attacked \/ SuppressionEnds

Spec == Init /\ [][Next]_vars

-----------------------------------------------------------------------------
(* Properties                                                                *)

\* A risky route is tried again only as the last resort: it is the least risky
\* of those met since the lockers were scanned, a known risk before an unknown
\* one, and no untried locker is left, unless the bot flees from an attack.
FallbackIsLast ==
    [][~pass.validating /\ pass'.validating =>
        /\ Hurries \/ pass.candidates = {}
        /\ \E o \in offers :
              o.at = pass'.route /\ \A p \in offers : p = o \/ Less(o, p)]_vars

\* Goods are dropped on the ground only when the engine refused the very move
\* that is verified, whatever was pushed, closed, gained or lost meanwhile:
\* nothing the chest has taken is paid for a second time.
DiscardsOnlyRefused == [][ground' # ground => refused]_vars

\* "Running controllers schedule bounded turns." (docs/playerbots.md:100)
RunningHasTurn == pc = "idle" /\ Working => turn
=============================================================================
