---------------------------- MODULE PlayerBotLoot ----------------------------
(***************************************************************************)
(* Looting a corpse (playerbotlootworkflow, playerbotlootsession and the   *)
(* adapter lootCorpse of playerbotloot.cpp).                               *)
(*                                                                         *)
(* A turn looks at the world, verifies the move of the turn before, picks  *)
(* the next command and carries it out.  A full bag makes looting a        *)
(* transaction over several turns: cargo is dropped on the ground, the     *)
(* better loot is taken, and when that fails the cargo is picked up again. *)
(* Between two turns the bot is pushed around, others take things, corpses *)
(* decay and fights interrupt.                                             *)
(*                                                                         *)
(* An item is one unit and is named by its value for its weight; room is   *)
(* slots and capacity together, and all open containers are one bag.       *)
(***************************************************************************)
EXTENDS Naturals, FiniteSets

CONSTANTS
    Items,          \* what bags and corpses may hold
    Slots,          \* the room of the bag
    Near, Far,      \* places within one tile of the corpse, and others
    Nowhere,
    Nested,         \* closed containers in the bag, with room for one each
    SearchLimit,    \* maxCorpseSearchAttempts
    FailureLimit,   \* maximumCorpseNavigationFailures
    SuspendLimit,   \* corpseNavigationSuspendThreshold
    MaxMishaps      \* bound: what others do, and fights, during all corpses

Places == Near \cup Far
None == 0           \* no item

ASSUME LootAssumption ==
    /\ Items \subseteq Nat \ {None} /\ IsFiniteSet(Items) /\ IsFiniteSet(Nested)
    /\ Slots \in Nat /\ MaxMishaps \in Nat
    /\ SearchLimit \in Nat /\ FailureLimit \in Nat /\ SuspendLimit \in Nat
    /\ Near \cap Far = {} /\ Nowhere \notin Places
    /\ Places \cap {"unborn", "corpse", "bag", "away"} = {}

VARIABLES
    active,         \* the controller is in the stage LootCorpse
    loot,           \* PlayerBotLootWorkflow with its session
    pos,            \* where the bot stands
    where,          \* where an item is
    corpse,         \* "hidden" (not to be found yet), "there" or "gone"
    corpseOpen, bag,
    opened,         \* nested containers that are open
    expired,        \* corpseLootTimeout has passed since begin()
    retryDue,       \* corpseNavigationRetryInterval has passed since the walk was suspended
    mishaps,
    fate            \* what became of an item as cargo: "kept", "dropped" or,
                    \* once dropped, "exchanged", "reported" or "abandoned"

bodyVars == <<corpse, expired, mishaps>>
vars == <<active, loot, pos, where, corpse, corpseOpen, bag, opened, expired, retryDue, mishaps, fate>>

NoDiscard == [cargo |-> None, incoming |-> None, at |-> Nowhere]
NoPlan == [cargo |-> None, incoming |-> None]

\* The session and the transaction of one corpse.
Workflow ==
    [pendingLoot : Items \cup {None}, pendingRecovery : Items \cup {None},
     pendingDiscard : [cargo : Items, incoming : Items, at : Places] \cup {NoDiscard},
     plan : [cargo : Items, incoming : Items] \cup {NoPlan},     \* replacementPlan
     discarded : Places \cup {Nowhere},                          \* discardedGroundItem
     needsRecovery : BOOLEAN,                                    \* replacementNeedsRecovery
     unavailable : SUBSET Items, attempted : SUBSET Nested,
     observed : BOOLEAN, searches : Nat, opens : Nat,
     failures : Nat, streak : Nat, failedAt : Places, paused : BOOLEAN]

\* begin() and reset()
Fresh(at) ==
    [pendingLoot |-> None, pendingRecovery |-> None, pendingDiscard |-> NoDiscard,
     plan |-> NoPlan, discarded |-> Nowhere, needsRecovery |-> FALSE,
     unavailable |-> {}, attempted |-> {},
     observed |-> FALSE, searches |-> 0, opens |-> 0,
     failures |-> 0, streak |-> 0, failedAt |-> at, paused |-> FALSE]

TypeOK ==
    /\ active \in BOOLEAN
    /\ loot \in Workflow
    /\ pos \in Places
    /\ where \in [Items -> Places \cup {"unborn", "corpse", "bag", "away"}]
    /\ corpse \in {"hidden", "there", "gone"}
    /\ corpseOpen \in BOOLEAN /\ bag \in {"none", "closed", "open"}
    /\ opened \subseteq Nested
    /\ expired \in BOOLEAN /\ retryDue \in BOOLEAN /\ mishaps \in 0..MaxMishaps
    /\ fate \in [Items -> {"kept", "dropped", "exchanged", "reported", "abandoned"}]

In(place) == {i \in Items : where[i] = place}
Room == Cardinality(In("bag")) < Slots + Cardinality(opened)

Init ==
    /\ active = FALSE
    /\ pos \in Places
    /\ loot = Fresh(pos)
    /\ \E cargo \in SUBSET Items :
        /\ Cardinality(cargo) <= Slots
        /\ where = [i \in Items |-> IF i \in cargo THEN "bag" ELSE "unborn"]
    /\ corpse = "gone" /\ corpseOpen = FALSE
    /\ bag \in {"none", "closed", "open"} /\ opened = {}
    /\ expired = FALSE /\ retryDue = FALSE /\ mishaps = 0
    /\ fate = [i \in Items |-> "kept"]

-----------------------------------------------------------------------------
(* What a turn concludes about the move of the turn before                   *)

\* verifyLootMove(): only an open bag shows what arrived in it.
LootMoved == loot.pendingLoot # None /\ where[loot.pendingLoot] = "bag" /\ bag = "open"
LootFailed == loot.pendingLoot # None /\ ~LootMoved

\* verifyDiscardMove(): the ground is looked at where the bot stands now.
Discarded ==
    /\ loot.pendingDiscard # NoDiscard
    /\ where[loot.pendingDiscard.cargo] = loot.pendingDiscard.at
    /\ pos = loot.pendingDiscard.at
DiscardFailed == loot.pendingDiscard # NoDiscard /\ ~Discarded

\* verifyRecoveryMove()
RecoveryFailed ==
    /\ loot.pendingRecovery # None
    /\ ~(where[loot.pendingRecovery] = "bag" /\ bag = "open")

\* The better loot is in the bag and the plan still holds the dropped cargo.
HoldsCargo(w) == w.plan # NoPlan /\ w.discarded # Nowhere

\* Mutant: the next plan inherits the need for a recovery.
WithoutPlanStillOwing(w) == [w EXCEPT !.plan = NoPlan, !.discarded = Nowhere]

\* replacementPlan.reset() with all that belongs to the plan
WithoutPlan(w) == [w EXCEPT !.plan = NoPlan, !.discarded = Nowhere, !.needsRecovery = FALSE]

\* Mutants: the item is looked up in a plan that may have been reset; it is
\* not put down at all.
SuppressPlanned(w, i) == [w EXCEPT !.unavailable = @ \cup {w.plan.incoming}]
SuppressNothing(w, i) == w

\* suppressLootItem()
Suppress(w, i) == [w EXCEPT !.unavailable = @ \cup {i}]

\* The workflow once the pending move has been judged.
Judged ==
    LET idle == [loot EXCEPT !.pendingLoot = None, !.pendingDiscard = NoDiscard,
                             !.pendingRecovery = None]
    IN  CASE LootMoved -> WithoutPlan(idle)
          [] LootFailed -> Suppress([idle EXCEPT !.needsRecovery = @ \/ HoldsCargo(idle)],
                                    loot.pendingLoot)
          [] Discarded -> [idle EXCEPT !.discarded = pos]
          [] DiscardFailed -> Suppress(WithoutPlan(idle), loot.pendingDiscard.incoming)
          [] loot.pendingRecovery # None -> WithoutPlan(idle)
          [] OTHER -> idle

\* A suspended walk is taken up again, and a corpse that is seen noted.
Verified ==
    [Judged EXCEPT !.paused = FALSE,
                   !.streak = IF loot.paused THEN 0 ELSE @,
                   !.observed = @ \/ (corpse = "there" /\ ~RecoveryFailed)]

\* What the adapter has told about the cargo by then.
Settled ==
    [i \in Items |->
        CASE fate[i] # "dropped" -> fate[i]
          [] LootMoved /\ loot.plan.cargo = i -> "exchanged"
          [] DiscardFailed /\ loot.pendingDiscard.cargo = i -> "reported"
          [] RecoveryFailed /\ loot.pendingRecovery = i -> "reported"
          [] OTHER -> "dropped"]

-----------------------------------------------------------------------------
(* The commands of a turn                                                    *)

\* The turn ends with the workflow w and has touched nothing.
Conclude(w) ==
    /\ loot' = w /\ fate' = Settled /\ retryDue' = FALSE
    /\ UNCHANGED <<active, pos, where, corpseOpen, bag, opened, bodyVars>>

\* finishLoot() and finishLootFailure()
Leave ==
    /\ active' = FALSE /\ loot' = Fresh(pos) /\ corpseOpen' = FALSE
    /\ expired' = FALSE /\ retryDue' = FALSE
    /\ UNCHANGED <<pos, where, corpse, bag, opened, mishaps>>

Finish == Leave /\ fate' = Settled

\* A command that moves item i to a place, or not: the game may refuse it.
Carry(w, i, to, told) ==
    /\ loot' = w
    /\ \/ where' = [where EXCEPT ![i] = to] /\ fate' = told
       \/ where' = where /\ fate' = Settled
    /\ retryDue' = FALSE
    /\ UNCHANGED <<active, pos, corpseOpen, bag, opened, bodyVars>>

\* Mutants: a rejected move ends the plan; the plan is not told.
CancelLootAndPlan(w, i) == Suppress(WithoutPlan(w), i)
CancelLootOnly(w, i) == Suppress(w, i)

\* cancelPendingLootMove(), with the move itself already noted in the session
CancelLoot(w, i) == Suppress([w EXCEPT !.needsRecovery = @ \/ HoldsCargo(w)], i)

\* issueMove() and MoveItem
MoveItem(i) ==
    \/ Carry([Verified EXCEPT !.pendingLoot = i], i, "bag", Settled)
    \/ Conclude(CancelLoot(Verified, i))

\* cancelPendingDiscardMove()
CancelDiscard(w, i) == Suppress(WithoutPlan(w), i)

\* beginDiscardMove() and DiscardCargo: the cargo goes where the bot stands.
DiscardCargo(c, i) ==
    \/ Carry([Verified EXCEPT !.plan = [cargo |-> c, incoming |-> i],
                              !.pendingDiscard = [cargo |-> c, incoming |-> i, at |-> pos]],
             c, pos, [Settled EXCEPT ![c] = "dropped"])
    \/ Conclude(CancelDiscard(Verified, i))

\* recoverDiscardedCargo() and RecoverCargo: the loot is given up, and the
\* cargo picked up if it lies at the bot's feet and still fits.
RecoverCargo(ready) ==
    LET c == Verified.plan.cargo
        feasible == where[c] = Verified.discarded /\ pos = Verified.discarded
                    /\ Room /\ bag = "open"
        given == Suppress(WithoutPlan(Verified), Verified.plan.incoming)
    IN  \/ /\ feasible /\ ~ready
           /\ Conclude(Verified)
        \/ /\ feasible /\ ready
           /\ Carry([given EXCEPT !.pendingRecovery = c], c, "bag", [Settled EXCEPT ![c] = "kept"])
        \/ /\ ~feasible
           /\ loot' = given /\ fate' = [Settled EXCEPT ![c] = "reported"] /\ retryDue' = FALSE
           /\ UNCHANGED <<active, pos, where, corpseOpen, bag, opened, bodyVars>>

-----------------------------------------------------------------------------
(* A turn, in the order advance() decides                                    *)

\* A suspended walk is resumed from another place or when its retry is due.
Awake == active /\ (loot.paused => ~expired /\ (pos # loot.failedAt \/ retryDue))

\* The walk was suspended, and the corpse has timed out.
SuspendedExpires == active /\ loot.paused /\ expired /\ Leave /\ UNCHANGED fate

\* A failed recovery is reported and nothing else happens.
RecoveryLost == Awake /\ RecoveryFailed /\ Conclude(Verified)

Held == Awake /\ ~RecoveryFailed /\ HoldsCargo(Verified)

\* The second half of a replacement: take the loot the cargo made room for.
TakePlanned(ready) ==
    LET i == Verified.plan.incoming
        possible == ~Verified.needsRecovery /\ corpseOpen /\ where[i] = "corpse"
                    /\ bag = "open" /\ Room
    IN  /\ Held
        /\ \/ possible /\ ready /\ MoveItem(i)
           \/ possible /\ ~ready /\ Conclude(Verified)
           \/ ~possible /\ RecoverCargo(ready)

Free == Awake /\ ~RecoveryFailed /\ ~HoldsCargo(Verified)

\* Away from the corpse: walk on.  What counts as a failure is observed with
\* the position the turn began at.
Walk ==
    LET failed == [Verified EXCEPT !.failures = @ + 1,
                                   !.streak = IF pos = loot.failedAt THEN @ + 1 ELSE 1,
                                   !.failedAt = pos]
    IN  /\ Free /\ pos \notin Near
        /\ \/ expired /\ Finish
           \/ /\ ~expired
              /\ pos' \in Places
              /\ loot' = Verified /\ fate' = Settled /\ retryDue' = FALSE
              /\ UNCHANGED <<active, where, corpseOpen, bag, opened, bodyVars>>
           \/ /\ ~expired /\ failed.failures >= FailureLimit
              /\ Finish
           \/ /\ ~expired /\ failed.failures < FailureLimit
              /\ Conclude([failed EXCEPT !.paused = failed.streak >= SuspendLimit])

AtCorpse == Free /\ pos \in Near

\* The corpse is not to be seen: it has gone, or has yet to appear.
Search ==
    /\ AtCorpse /\ corpse # "there"
    /\ \/ (Verified.observed \/ loot.searches + 1 >= SearchLimit) /\ Finish
       \/ /\ ~Verified.observed /\ loot.searches + 1 < SearchLimit
          /\ Conclude([Verified EXCEPT !.searches = @ + 1])

\* Opening it may fail, twice.
OpenCorpse(ready) ==
    /\ AtCorpse /\ corpse = "there" /\ ~corpseOpen
    /\ \/ ~ready /\ Conclude(Verified)
       \/ ready /\ loot.opens + 1 > 2 /\ Finish
       \/ /\ ready /\ loot.opens + 1 <= 2
          /\ loot' = [Verified EXCEPT !.opens = @ + 1]
          /\ corpseOpen' \in BOOLEAN
          /\ fate' = Settled /\ retryDue' = FALSE
          /\ UNCHANGED <<active, pos, where, bag, opened, bodyVars>>

Open == AtCorpse /\ corpse = "there" /\ corpseOpen

\* Nothing in it, nothing to put it in, or nothing that is wanted.
Wanted == In("corpse") \ Verified.unavailable
Exhausted ==
    /\ Open
    /\ In("corpse") = {} \/ bag = "none" \/ (bag = "open" /\ Wanted = {})
    /\ Finish

OpenBackpack(ready) ==
    /\ Open /\ In("corpse") # {} /\ bag = "closed"
    /\ \/ ~ready /\ Conclude(Verified)
       \/ /\ ready
          /\ loot' = Verified /\ bag' = "open" /\ fate' = Settled /\ retryDue' = FALSE
          /\ UNCHANGED <<active, pos, where, corpseOpen, opened, bodyVars>>

\* select(): the most valuable of what is wanted.
Best(i) == \A j \in Wanted : j <= i

\* replacementFor(): saleable cargo of less value.
Lesser(i) == {c \in In("bag") : c < i}

\* Closed containers are opened first, each once.  Then the item is taken if
\* there is room, exchanged for a lesser one, or put out of mind: protected
\* cargo stays, and no drop may split a stack on the ground.
Choose(ready) ==
    /\ Open /\ bag = "open" /\ Wanted # {}
    /\ \/ \E n \in Nested \ (Verified.attempted \cup opened) :
            \/ ~ready /\ Conclude(Verified)
            \/ /\ ready
               /\ loot' = [Verified EXCEPT !.attempted = @ \cup {n}]
               /\ opened' \in {opened, opened \cup {n}}
               /\ fate' = Settled /\ retryDue' = FALSE
               /\ UNCHANGED <<active, pos, where, corpseOpen, bag, bodyVars>>
       \/ /\ Nested \subseteq Verified.attempted \cup opened
          /\ \E i \in Wanted :
            /\ Best(i)
            /\ \/ Room /\ ready /\ MoveItem(i)
               \/ Room /\ ~ready /\ Conclude(Verified)
               \/ ~Room /\ ready /\ \E c \in Lesser(i) : DiscardCargo(c, i)
               \/ ~Room /\ ~ready /\ Lesser(i) # {} /\ Conclude(Verified)
               \/ ~Room /\ Conclude(Suppress(Verified, i))

Turn(ready) ==
    \/ SuspendedExpires \/ RecoveryLost \/ TakePlanned(ready) \/ Walk \/ Search
    \/ OpenCorpse(ready) \/ Exhausted \/ OpenBackpack(ready) \/ Choose(ready)

-----------------------------------------------------------------------------
(* What else happens                                                         *)

\* beginLoot(): a creature died; its corpse may appear later, or never.
Begin ==
    /\ ~active
    /\ active' = TRUE /\ loot' = Fresh(pos)
    /\ \E content \in SUBSET In("unborn") :
        where' = [i \in Items |-> IF i \in content THEN "corpse"
                                  ELSE IF where[i] = "corpse" THEN "away" ELSE where[i]]
    /\ corpse' \in {"hidden", "there"} /\ corpseOpen' = FALSE
    /\ expired' = FALSE /\ retryDue' = FALSE
    /\ UNCHANGED <<pos, bag, opened, mishaps, fate>>

CorpseAppears ==
    /\ active /\ corpse = "hidden" /\ corpse' = "there"
    /\ UNCHANGED <<active, loot, pos, where, corpseOpen, bag, opened, expired, retryDue, mishaps, fate>>

Expire ==
    /\ active /\ ~expired /\ expired' = TRUE
    /\ UNCHANGED <<active, loot, pos, where, corpse, corpseOpen, bag, opened, retryDue, mishaps, fate>>

RetryDue ==
    /\ active /\ loot.paused /\ ~retryDue /\ retryDue' = TRUE
    /\ UNCHANGED <<active, loot, pos, where, corpse, corpseOpen, bag, opened, expired, mishaps, fate>>

Mishap == active /\ mishaps < MaxMishaps /\ mishaps' = mishaps + 1

\* Others loot the corpse or pick up what lies there; the bot uses what it carries.
Vanishes ==
    /\ Mishap
    /\ \E i \in Items \ (In("unborn") \cup In("away")) : where' = [where EXCEPT ![i] = "away"]
    /\ UNCHANGED <<active, loot, pos, corpse, corpseOpen, bag, opened, expired, retryDue, fate>>

\* A container on the ground closes when the bot leaves its side.
Pushed ==
    /\ Mishap
    /\ pos' \in Places \ {pos}
    /\ corpseOpen' = (corpseOpen /\ pos' \in Near)
    /\ UNCHANGED <<active, loot, where, corpse, bag, opened, expired, retryDue, fate>>

Decays ==
    /\ Mishap /\ corpse = "there"
    /\ corpse' = "gone" /\ corpseOpen' = FALSE
    /\ where' = [i \in Items |-> IF where[i] = "corpse" THEN "away" ELSE where[i]]
    /\ UNCHANGED <<active, loot, pos, bag, opened, expired, retryDue, fate>>

BagCloses ==
    /\ Mishap /\ bag = "open" /\ bag' = "closed"
    /\ UNCHANGED <<active, loot, pos, where, corpse, corpseOpen, opened, expired, retryDue, fate>>

\* resetLoot() outside a loot turn: a fight outlasts the corpse, or a service
\* run, a level interrupt or a departure takes the hunt over.  Whatever the
\* transaction still owed is forgotten.
Interrupted ==
    /\ Mishap
    /\ active' = FALSE /\ loot' = Fresh(pos) /\ corpseOpen' = FALSE
    /\ expired' = FALSE /\ retryDue' = FALSE
    /\ fate' = [i \in Items |-> IF fate[i] = "dropped" THEN "abandoned" ELSE fate[i]]
    /\ UNCHANGED <<pos, where, corpse, bag, opened>>

World ==
    \/ Begin \/ CorpseAppears \/ Expire \/ RetryDue
    \/ Vanishes \/ Pushed \/ Decays \/ BagCloses \/ Interrupted

Next == (\E ready \in BOOLEAN : Turn(ready)) \/ World

Spec == Init /\ [][Next]_vars

\* Turns keep coming, time passes, and the bot's action delay runs out.
Fairness == WF_vars(Turn(TRUE)) /\ WF_vars(Expire) /\ WF_vars(RetryDue)
FairSpec == Spec /\ Fairness

-----------------------------------------------------------------------------
(* Properties                                                                *)

\* A turn never leaves two unverified moves behind, and a plan without
\* dropped cargo lasts only while its discard is unverified: advance() judges
\* one kind of move after the other as though the others were not there.
OneMoveAtATime ==
    /\ loot.pendingLoot # None => loot.pendingDiscard = NoDiscard /\ loot.pendingRecovery = None
    /\ loot.pendingDiscard # NoDiscard => loot.pendingRecovery = None
    /\ loot.plan # NoPlan => (loot.discarded # Nowhere \/ loot.pendingDiscard # NoDiscard)
    /\ loot.needsRecovery => HoldsCargo(loot)
    /\ loot.paused => loot.plan = NoPlan /\ loot.pendingLoot = None /\ loot.pendingRecovery = None

\* Cargo the bot has dropped is under the transaction's control until it is
\* picked up, better loot is seen in its place, its loss is reported, or the
\* whole stage was interrupted: no order of refused moves, pushes, thefts and
\* decay makes a loot turn forget it.
NoSilentLoss ==
    \A i \in Items : fate[i] = "dropped" =>
        /\ active
        /\ \/ loot.pendingDiscard.cargo = i
           \/ loot.pendingRecovery = i
           \/ HoldsCargo(loot) /\ loot.plan.cargo = i

\* What was refused or failed once is not tried again at this corpse: the
\* item of an unverified move has not been suppressed.
NotTriedAgain ==
    /\ loot.pendingLoot \notin loot.unavailable
    /\ loot.pendingDiscard.incoming \notin loot.unavailable

\* Looting always ends: refusals, a walk that is suspended and resumed, lost
\* races and a full bag never keep the bot at one corpse.
LootEnds == active ~> ~active

=============================================================================
