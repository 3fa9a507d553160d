------------------------ MODULE PlayerBotLoot_proofs ------------------------
(***************************************************************************)
(* Proofs about the loot workflow, for any items, room, places and limits. *)
(*                                                                         *)
(* The invariant is stated of a workflow, a fate and a distribution of the *)
(* items, so that it can be said of what a turn concludes before its       *)
(* command (Verified, Settled) as well as of the state.                    *)
(***************************************************************************)
EXTENDS PlayerBotLoot, FiniteSetTheorems, TLAPS

Fates == [Items -> {"kept", "dropped", "exchanged", "reported", "abandoned"}]
Distributions == [Items -> Places \cup {"unborn", "corpse", "bag", "away"}]

\* A plan belongs to its discard, its loot has not been put out of mind unless
\* the cargo is to be recovered, and dropped cargo is on the ground or taken.
Tracked(w, g, h) ==
    /\ w.pendingLoot # None => w.pendingDiscard = NoDiscard /\ w.pendingRecovery = None
    /\ w.pendingDiscard # NoDiscard =>
        /\ w.pendingRecovery = None /\ ~w.needsRecovery
        /\ w.plan = [cargo |-> w.pendingDiscard.cargo, incoming |-> w.pendingDiscard.incoming]
    /\ w.pendingRecovery # None => w.plan = NoPlan
    /\ w.plan # NoPlan => (w.discarded # Nowhere \/ w.pendingDiscard # NoDiscard)
    /\ w.needsRecovery => HoldsCargo(w)
    /\ w.plan # NoPlan /\ ~w.needsRecovery => w.plan.incoming \notin w.unavailable
    /\ w.pendingLoot \notin w.unavailable
    /\ w.paused => w.plan = NoPlan /\ w.pendingLoot = None /\ w.pendingRecovery = None
    /\ \A i \in Items : g[i] = "dropped" =>
        /\ h[i] \in Places \cup {"away"}
        /\ \/ w.pendingDiscard.cargo = i
           \/ w.pendingRecovery = i
           \/ HoldsCargo(w) /\ w.plan.cargo = i

\* Nothing is waiting to be verified.
Idle(w) == w.pendingLoot = None /\ w.pendingDiscard = NoDiscard /\ w.pendingRecovery = None

WorkInv == TypeOK /\ Tracked(loot, fate, where)

\* Nothing is left open between two corpses.
RestInv == ~active => \A i \in Items : fate[i] # "dropped"

IInv == WorkInv /\ RestInv

-----------------------------------------------------------------------------
(* The operations on the workflow                                            *)

\* reset() leaves a well-formed, idle workflow without a plan.
LEMMA FreshFields ==
    ASSUME NEW at \in Places
    PROVE  /\ Fresh(at) \in Workflow /\ Idle(Fresh(at))
           /\ Fresh(at).plan = NoPlan /\ ~Fresh(at).needsRecovery
           /\ Fresh(at).unavailable = {} /\ ~Fresh(at).paused
BY DEF Fresh, Workflow, Idle

\* Resetting the plan touches nothing else.
LEMMA WithoutPlanFields ==
    ASSUME NEW w \in Workflow
    PROVE  /\ WithoutPlan(w) \in Workflow
           /\ WithoutPlan(w).plan = NoPlan /\ WithoutPlan(w).discarded = Nowhere
           /\ ~WithoutPlan(w).needsRecovery
           /\ WithoutPlan(w).unavailable = w.unavailable
           /\ WithoutPlan(w).pendingLoot = w.pendingLoot
           /\ WithoutPlan(w).pendingDiscard = w.pendingDiscard
           /\ WithoutPlan(w).pendingRecovery = w.pendingRecovery
           /\ WithoutPlan(w).paused = w.paused
BY DEF WithoutPlan, Workflow

\* Suppressing an item touches nothing else.
LEMMA SuppressFields ==
    ASSUME NEW w \in Workflow, NEW i \in Items
    PROVE  /\ Suppress(w, i) \in Workflow
           /\ Suppress(w, i).unavailable = w.unavailable \cup {i}
           /\ Suppress(w, i).plan = w.plan /\ Suppress(w, i).discarded = w.discarded
           /\ Suppress(w, i).needsRecovery = w.needsRecovery
           /\ Suppress(w, i).pendingLoot = w.pendingLoot
           /\ Suppress(w, i).pendingDiscard = w.pendingDiscard
           /\ Suppress(w, i).pendingRecovery = w.pendingRecovery
           /\ Suppress(w, i).paused = w.paused
BY DEF Suppress, Workflow

-----------------------------------------------------------------------------
(* Verification                                                              *)

\* What is known of a workflow and a fate once a turn has judged the move
\* before: nothing is pending, a plan holds its cargo, its loot may be tried
\* unless the cargo is to be recovered, and dropped cargo is in the plan.
Reviewed(w, g, h) ==
    /\ Idle(w)
    /\ w.plan # NoPlan => w.discarded # Nowhere
    /\ w.needsRecovery => HoldsCargo(w)
    /\ w.plan # NoPlan /\ ~w.needsRecovery => w.plan.incoming \notin w.unavailable
    /\ \A i \in Items : g[i] = "dropped" =>
        /\ h[i] \in Places \cup {"away"}
        /\ HoldsCargo(w) /\ w.plan.cargo = i

\* What the adapter tells is one fate for each item.
LEMMA SettledType ==
    ASSUME TypeOK
    PROVE  Settled \in Fates
<1>1. \A i \in Items : Settled[i] \in {"kept", "dropped", "exchanged", "reported", "abandoned"}
  BY DEF Settled, TypeOK
<1> QED BY <1>1 DEF Settled, Fates

\* Cargo whose fate is still open was tracked, and no verdict closes it.
LEMMA SettledDropped ==
    ASSUME WorkInv, NEW i \in Items, Settled[i] = "dropped"
    PROVE  /\ where[i] \in Places \cup {"away"} /\ where[i] # "bag"
           /\ DiscardFailed => loot.pendingDiscard.cargo # i
           /\ \/ loot.pendingDiscard.cargo = i /\ loot.pendingDiscard # NoDiscard
              \/ loot.pendingRecovery = i /\ ~RecoveryFailed
              \/ HoldsCargo(loot) /\ loot.plan.cargo = i /\ ~LootMoved
<1>1. /\ fate[i] = "dropped"
      /\ ~(LootMoved /\ loot.plan.cargo = i)
      /\ ~(DiscardFailed /\ loot.pendingDiscard.cargo = i)
      /\ ~(RecoveryFailed /\ loot.pendingRecovery = i)
  BY DEF Settled, WorkInv, TypeOK
<1>2. /\ where[i] \in Places \cup {"away"}
      /\ loot.pendingDiscard.cargo = i \/ loot.pendingRecovery = i
         \/ (HoldsCargo(loot) /\ loot.plan.cargo = i)
  BY <1>1 DEF WorkInv, Tracked
<1>3. where[i] # "bag"
  BY <1>2, LootAssumption
<1>4. NoDiscard.cargo # i
  BY LootAssumption DEF NoDiscard
<1> QED BY <1>1, <1>2, <1>3, <1>4

\* Judging the pending move keeps the cargo in sight.
LEMMA JudgedIsReviewed ==
    ASSUME WorkInv
    PROVE  Judged \in Workflow /\ Judged.paused = loot.paused /\ Reviewed(Judged, Settled, where)
<1> DEFINE idle == [loot EXCEPT !.pendingLoot = None, !.pendingDiscard = NoDiscard,
                                !.pendingRecovery = None]
<1>0. loot \in Workflow /\ None \notin Items
  BY LootAssumption DEF WorkInv, TypeOK, None
<1>1. /\ idle \in Workflow /\ Idle(idle)
      /\ idle.plan = loot.plan /\ idle.discarded = loot.discarded
      /\ idle.needsRecovery = loot.needsRecovery
      /\ idle.unavailable = loot.unavailable /\ idle.paused = loot.paused
  BY <1>0 DEF Workflow, Idle
<1>2. HoldsCargo(idle) <=> HoldsCargo(loot)
  BY <1>1 DEF HoldsCargo
<1> HIDE DEF idle
<1>3. /\ loot.pendingLoot \in Items \cup {None} /\ loot.pendingRecovery \in Items \cup {None}
      /\ loot.pendingDiscard \in [cargo : Items, incoming : Items, at : Places] \cup {NoDiscard}
      /\ loot.plan \in [cargo : Items, incoming : Items] \cup {NoPlan}
      /\ loot.discarded \in Places \cup {Nowhere} /\ loot.needsRecovery \in BOOLEAN
  BY <1>0 DEF Workflow
<1>4. Tracked(loot, fate, where)
  BY DEF WorkInv
<1>m. /\ LootMoved => ~LootFailed
      /\ LootMoved \/ LootFailed =>
            ~Discarded /\ ~DiscardFailed /\ ~(loot.pendingRecovery # None)
      /\ Discarded => ~DiscardFailed
      /\ Discarded \/ DiscardFailed => ~(loot.pendingRecovery # None)
  BY <1>4 DEF Tracked, LootMoved, LootFailed, Discarded, DiscardFailed
<1>5. CASE LootMoved
  <2>1. Judged = WithoutPlan(idle)
    BY <1>5, <1>m DEF Judged, idle
  <2>2. loot.pendingDiscard = NoDiscard /\ loot.pendingRecovery = None
    BY <1>4, <1>5 DEF Tracked, LootMoved
  <2>3. \A i \in Items : Settled[i] # "dropped"
    BY <1>0, <1>5, <2>2, SettledDropped
  <2> QED BY <1>1, <2>1, <2>3, WithoutPlanFields DEF Reviewed, Idle, HoldsCargo
<1>6. CASE LootFailed
  <2> DEFINE owing == [idle EXCEPT !.needsRecovery = @ \/ HoldsCargo(idle)]
  <2>1. Judged = Suppress(owing, loot.pendingLoot)
    BY <1>6, <1>m DEF Judged, idle
  <2>2. /\ owing \in Workflow /\ Idle(owing) /\ owing.paused = loot.paused
        /\ owing.plan = loot.plan /\ owing.discarded = loot.discarded
        /\ owing.needsRecovery = (loot.needsRecovery \/ HoldsCargo(loot))
    BY <1>1, <1>2 DEF Workflow, Idle
  <2>3. loot.pendingLoot \in Items
    BY <1>3, <1>6 DEF LootFailed
  <2> HIDE DEF owing
  <2>4. loot.pendingDiscard = NoDiscard /\ loot.pendingRecovery = None
    BY <1>4, <1>6 DEF Tracked, LootFailed
  <2>5. /\ Judged \in Workflow /\ Judged.plan = loot.plan /\ Judged.discarded = loot.discarded
        /\ Idle(Judged) /\ Judged.paused = loot.paused
        /\ Judged.needsRecovery = (loot.needsRecovery \/ HoldsCargo(loot))
    BY <2>1, <2>2, <2>3, SuppressFields DEF Idle
  <2>6. HoldsCargo(Judged) <=> HoldsCargo(loot)
    BY <2>5 DEF HoldsCargo
  <2>7. loot.plan # NoPlan => HoldsCargo(loot)
    BY <1>4, <2>4 DEF Tracked, HoldsCargo
  <2>8. \A i \in Items : Settled[i] = "dropped" =>
            /\ where[i] \in Places \cup {"away"}
            /\ HoldsCargo(loot) /\ loot.plan.cargo = i
    BY <1>0, <2>4, SettledDropped
  <2>9. Judged.needsRecovery => HoldsCargo(Judged)
    BY <1>4, <2>5, <2>6 DEF Tracked
  <2>10. Judged.plan # NoPlan => Judged.needsRecovery /\ Judged.discarded # Nowhere
    BY <2>5, <2>7 DEF HoldsCargo
  <2> QED BY <2>5, <2>6, <2>8, <2>9, <2>10 DEF Reviewed
<1>7. CASE Discarded /\ ~LootMoved /\ ~LootFailed
  <2>1. Judged = [idle EXCEPT !.discarded = pos]
    BY <1>7, <1>m DEF Judged, idle
  <2>2. pos \in Places /\ Nowhere \notin Places
    BY LootAssumption DEF WorkInv, TypeOK
  <2>3. /\ Judged \in Workflow /\ Idle(Judged) /\ Judged.plan = loot.plan
        /\ Judged.discarded = pos /\ Judged.needsRecovery = loot.needsRecovery
        /\ Judged.unavailable = loot.unavailable /\ Judged.paused = loot.paused
    BY <1>1, <2>1, <2>2 DEF Workflow, Idle
  <2>4. loot.pendingDiscard # NoDiscard
    BY <1>7 DEF Discarded
  <2>5. /\ loot.pendingRecovery = None
        /\ loot.plan = [cargo |-> loot.pendingDiscard.cargo, incoming |-> loot.pendingDiscard.incoming]
    BY <1>4, <2>4 DEF Tracked
  <2>6. loot.pendingDiscard.cargo \in Items
    BY <1>3, <2>4
  <2>7. loot.plan # NoPlan /\ loot.plan.cargo = loot.pendingDiscard.cargo
    BY <1>0, <2>5, <2>6 DEF NoPlan
  <2>8. HoldsCargo(Judged)
    BY <2>2, <2>3, <2>7 DEF HoldsCargo
  <2>9. \A i \in Items : Settled[i] = "dropped" =>
            where[i] \in Places \cup {"away"} /\ loot.plan.cargo = i
    BY <1>0, <2>5, <2>7, SettledDropped
  <2>10. Judged.plan # NoPlan /\ ~Judged.needsRecovery => Judged.plan.incoming \notin Judged.unavailable
    BY <1>4, <2>3 DEF Tracked
  <2> QED BY <2>3, <2>8, <2>9, <2>10 DEF Reviewed, HoldsCargo
<1>8. CASE DiscardFailed /\ ~LootMoved /\ ~LootFailed
  <2>1. Judged = Suppress(WithoutPlan(idle), loot.pendingDiscard.incoming)
    BY <1>8, <1>m DEF Judged, idle
  <2>2. loot.pendingDiscard # NoDiscard
    BY <1>8 DEF DiscardFailed
  <2>3. loot.pendingDiscard.incoming \in Items /\ loot.pendingDiscard.cargo \in Items
    BY <1>3, <2>2
  <2>4. /\ loot.pendingRecovery = None
        /\ loot.plan.cargo = loot.pendingDiscard.cargo
    BY <1>4, <2>2 DEF Tracked
  <2>5. \A i \in Items : Settled[i] # "dropped"
    BY <1>0, <1>8, <2>4, SettledDropped
  <2>6. WithoutPlan(idle) \in Workflow
    BY <1>1, WithoutPlanFields
  <2> QED BY <1>1, <2>1, <2>3, <2>5, <2>6, WithoutPlanFields, SuppressFields
          DEF Reviewed, Idle, HoldsCargo
<1>9. CASE /\ ~LootMoved /\ ~LootFailed /\ ~Discarded /\ ~DiscardFailed
           /\ loot.pendingRecovery # None
  <2>1. Judged = WithoutPlan(idle)
    BY <1>9 DEF Judged, idle
  <2>2. /\ loot.pendingLoot = None /\ loot.pendingDiscard = NoDiscard
    BY <1>9 DEF LootMoved, LootFailed, Discarded, DiscardFailed
  <2>3. loot.plan = NoPlan
    BY <1>4, <1>9 DEF Tracked
  <2>4. ~HoldsCargo(loot)
    BY <2>3 DEF HoldsCargo
  <2>5. \A i \in Items : Settled[i] # "dropped"
    <3>1. SUFFICES ASSUME NEW i \in Items, Settled[i] = "dropped" PROVE FALSE
      OBVIOUS
    <3>2. where[i] # "bag" /\ loot.pendingRecovery = i /\ ~RecoveryFailed
      BY <2>2, <2>4, <3>1, SettledDropped
    <3> QED BY <1>9, <3>2 DEF RecoveryFailed
  <2> QED BY <1>1, <2>1, <2>5, WithoutPlanFields DEF Reviewed, Idle, HoldsCargo
<1>10. CASE /\ ~LootMoved /\ ~LootFailed /\ ~Discarded /\ ~DiscardFailed
            /\ loot.pendingRecovery = None
  <2>1. Judged = idle
    BY <1>10 DEF Judged, idle
  <2>2. /\ loot.pendingLoot = None /\ loot.pendingDiscard = NoDiscard
    BY <1>10 DEF LootMoved, LootFailed, Discarded, DiscardFailed
  <2>3. loot.plan # NoPlan => loot.discarded # Nowhere
    BY <1>4, <2>2 DEF Tracked
  <2>4. loot.needsRecovery => HoldsCargo(idle)
    BY <1>2, <1>4 DEF Tracked
  <2>5. \A i \in Items : Settled[i] = "dropped" =>
            where[i] \in Places \cup {"away"} /\ HoldsCargo(idle) /\ loot.plan.cargo = i
    BY <1>0, <1>2, <1>10, <2>2, SettledDropped
  <2>6. loot.plan # NoPlan /\ ~loot.needsRecovery => loot.plan.incoming \notin loot.unavailable
    BY <1>4 DEF Tracked
  <2> QED BY <1>1, <2>1, <2>3, <2>4, <2>5, <2>6 DEF Reviewed
<1> QED BY <1>5, <1>6, <1>7, <1>8, <1>9, <1>10

\* So does the rest of the verification.
LEMMA VerifiedIsReviewed ==
    ASSUME WorkInv
    PROVE  Verified \in Workflow /\ ~Verified.paused /\ Reviewed(Verified, Settled, where)
<1>1. Judged \in Workflow /\ Reviewed(Judged, Settled, where)
  BY JudgedIsReviewed
<1>2. /\ Verified \in Workflow /\ ~Verified.paused
      /\ Idle(Judged) => Idle(Verified)
      /\ Verified.plan = Judged.plan /\ Verified.discarded = Judged.discarded
      /\ Verified.needsRecovery = Judged.needsRecovery
      /\ Verified.unavailable = Judged.unavailable
  BY <1>1 DEF Verified, Workflow, Idle
<1> QED BY <1>1, <1>2 DEF Reviewed, HoldsCargo

\* A reviewed workflow satisfies the invariant of the state.
LEMMA ReviewedIsTracked ==
    ASSUME NEW w \in Workflow, NEW g, NEW h, Reviewed(w, g, h), w.paused => w.plan = NoPlan
    PROVE  Tracked(w, g, h)
<1>1. None \notin Items /\ w.unavailable \subseteq Items
  BY LootAssumption DEF Workflow
<1> QED BY <1>1 DEF Reviewed, Tracked, Idle

-----------------------------------------------------------------------------
(* The commands                                                              *)

\* A turn that only thinks leaves a reviewed workflow behind.
LEMMA ConcludeStep ==
    ASSUME WorkInv, NEW w \in Workflow, Reviewed(w, Settled, where),
           w.paused => w.plan = NoPlan, Conclude(w)
    PROVE  WorkInv'
<1>1. Tracked(loot, fate, where)'
  BY ReviewedIsTracked DEF Conclude
<1>2. TypeOK'
  BY SettledType DEF WorkInv, TypeOK, Conclude, Fates, bodyVars
<1> QED BY <1>1, <1>2 DEF WorkInv

\* The corpse is left with nothing dropped, or everything dropped accounted for.
LEMMA LeaveStep ==
    ASSUME WorkInv, Leave, fate' \in Fates, \A i \in Items : fate'[i] # "dropped"
    PROVE  WorkInv'
<1>1. /\ Fresh(pos) \in Workflow /\ Idle(Fresh(pos)) /\ Fresh(pos).plan = NoPlan
      /\ ~Fresh(pos).needsRecovery /\ Fresh(pos).unavailable = {} /\ ~Fresh(pos).paused
  BY FreshFields DEF WorkInv, TypeOK
<1>2. Reviewed(Fresh(pos), fate', where')
  BY <1>1 DEF Reviewed
<1>3. Tracked(Fresh(pos), fate', where')
  BY <1>1, <1>2, ReviewedIsTracked
<1>4. Tracked(loot, fate, where)'
  BY <1>3 DEF Leave
<1>5. TypeOK'
  BY <1>1 DEF WorkInv, TypeOK, Leave, Fates
<1> QED BY <1>4, <1>5 DEF WorkInv

\* finishLoot() in a turn that holds no cargo.
LEMMA FinishStep ==
    ASSUME WorkInv, ~HoldsCargo(Verified), Finish
    PROVE  WorkInv'
<1>1. fate' \in Fates /\ \A i \in Items : fate'[i] # "dropped"
  BY VerifiedIsReviewed, SettledType DEF Finish, Reviewed, WorkInv
<1> QED BY <1>1, LeaveStep DEF Finish

\* A move into the bag is noted before it is carried out, and if the adapter
\* rejects it a held plan turns to recovery.
LEMMA MoveItemStep ==
    ASSUME WorkInv, NEW i \in Items, i \notin Verified.unavailable, where[i] = "corpse", MoveItem(i)
    PROVE  WorkInv'
<1> DEFINE moving == [Verified EXCEPT !.pendingLoot = i]
<1> DEFINE owing == [Verified EXCEPT !.needsRecovery = @ \/ HoldsCargo(Verified)]
<1>1. /\ Verified \in Workflow /\ ~Verified.paused /\ Idle(Verified)
      /\ Reviewed(Verified, Settled, where)
  BY VerifiedIsReviewed DEF Reviewed
<1>2. /\ moving \in Workflow /\ ~moving.paused
      /\ moving.pendingLoot = i /\ moving.pendingDiscard = NoDiscard
      /\ moving.pendingRecovery = None
      /\ moving.plan = Verified.plan /\ moving.discarded = Verified.discarded
      /\ moving.needsRecovery = Verified.needsRecovery
      /\ moving.unavailable = Verified.unavailable
  BY <1>1 DEF Workflow, Idle
<1>3. /\ owing \in Workflow /\ ~owing.paused /\ Idle(owing)
      /\ owing.plan = Verified.plan /\ owing.discarded = Verified.discarded
      /\ owing.needsRecovery = (Verified.needsRecovery \/ HoldsCargo(Verified))
  BY <1>1 DEF Workflow, Idle
<1> HIDE DEF moving, owing
<1>4. CASE Carry(moving, i, "bag", Settled)
  <2>1. /\ loot' = moving /\ fate' = Settled
        /\ where' = where \/ where' = [where EXCEPT ![i] = "bag"]
    BY <1>4 DEF Carry
  <2>2. \A j \in Items : fate'[j] = "dropped" =>
            where'[j] \in Places \cup {"away"} /\ HoldsCargo(moving) /\ moving.plan.cargo = j
    <3>1. SUFFICES ASSUME NEW j \in Items, Settled[j] = "dropped"
                   PROVE  where'[j] \in Places \cup {"away"} /\ HoldsCargo(moving) /\ moving.plan.cargo = j
      BY <2>1
    <3>2. where[j] \in Places \cup {"away"} /\ HoldsCargo(Verified) /\ Verified.plan.cargo = j
      BY <1>1, <3>1 DEF Reviewed
    <3>3. j # i
      BY <3>2, LootAssumption
    <3>4. where'[j] = where[j]
      BY <2>1, <3>3 DEF WorkInv, TypeOK
    <3> QED BY <1>2, <3>2, <3>4 DEF HoldsCargo
  <2>3. Tracked(moving, fate', where')
    BY <1>1, <1>2, <2>2 DEF Tracked, Reviewed, HoldsCargo
  <2>4. TypeOK'
    BY <1>2, <1>4, <2>1, SettledType DEF WorkInv, TypeOK, Carry, Fates, bodyVars
  <2> QED BY <2>1, <2>3, <2>4 DEF WorkInv
<1>5. CASE Conclude(CancelLoot(Verified, i))
  <2>1. CancelLoot(Verified, i) = Suppress(owing, i)
    BY DEF CancelLoot, owing
  <2> DEFINE w == CancelLoot(Verified, i)
  <2>2. /\ w \in Workflow /\ ~w.paused /\ Idle(w)
        /\ w.plan = Verified.plan /\ w.discarded = Verified.discarded
        /\ w.needsRecovery = (Verified.needsRecovery \/ HoldsCargo(Verified))
    BY <1>3, <2>1, SuppressFields DEF Idle
  <2> HIDE DEF w
  <2>3. Reviewed(w, Settled, where)
    BY <1>1, <2>2 DEF Reviewed, HoldsCargo
  <2> QED BY <1>5, <2>2, <2>3, ConcludeStep DEF w
<1> QED BY <1>4, <1>5 DEF MoveItem, moving

\* Without held cargo there is no plan, and nothing dropped is left open.
LEMMA NothingHeld ==
    ASSUME WorkInv, ~HoldsCargo(Verified)
    PROVE  /\ Verified.plan = NoPlan /\ ~Verified.needsRecovery
           /\ \A j \in Items : Settled[j] # "dropped"
BY VerifiedIsReviewed DEF Reviewed, HoldsCargo

\* A discard starts a plan whose cargo is tracked by the pending move.
LEMMA DiscardCargoStep ==
    ASSUME WorkInv, ~HoldsCargo(Verified), NEW i \in Items, i \notin Verified.unavailable,
           NEW c \in Items, DiscardCargo(c, i)
    PROVE  WorkInv'
<1> DEFINE move == [cargo |-> c, incoming |-> i, at |-> pos]
<1> DEFINE dropping == [Verified EXCEPT !.plan = [cargo |-> c, incoming |-> i],
                                        !.pendingDiscard = move]
<1>1. /\ Verified \in Workflow /\ ~Verified.paused /\ Idle(Verified)
  BY VerifiedIsReviewed DEF Reviewed
<1>2. pos \in Places /\ None \notin Items
  BY LootAssumption DEF WorkInv, TypeOK
<1>3. /\ dropping \in Workflow /\ ~dropping.paused
      /\ dropping.pendingLoot = None /\ dropping.pendingRecovery = None
      /\ dropping.pendingDiscard = move
      /\ dropping.plan = [cargo |-> c, incoming |-> i]
      /\ dropping.needsRecovery = Verified.needsRecovery
      /\ dropping.unavailable = Verified.unavailable
  BY <1>1, <1>2 DEF Workflow, Idle
<1> HIDE DEF dropping
<1>4. move # NoDiscard /\ move.cargo = c /\ move.incoming = i
  BY <1>2 DEF NoDiscard
<1> HIDE DEF move
<1>5. CASE Carry(dropping, c, pos, [Settled EXCEPT ![c] = "dropped"])
  <2>1. /\ loot' = dropping
        /\ \/ where' = [where EXCEPT ![c] = pos] /\ fate' = [Settled EXCEPT ![c] = "dropped"]
           \/ where' = where /\ fate' = Settled
    BY <1>5 DEF Carry
  <2>2. \A j \in Items : fate'[j] = "dropped" =>
            where'[j] \in Places \cup {"away"} /\ dropping.pendingDiscard.cargo = j
    <3>1. SUFFICES ASSUME NEW j \in Items, fate'[j] = "dropped"
                   PROVE  where'[j] \in Places \cup {"away"} /\ move.cargo = j
      BY <1>3
    <3>2. Settled \in Fates /\ Settled[j] # "dropped"
      BY NothingHeld, SettledType DEF WorkInv
    <3>3. j = c /\ where' = [where EXCEPT ![c] = pos]
      BY <2>1, <3>1, <3>2 DEF Fates
    <3> QED BY <1>2, <1>4, <3>3 DEF WorkInv, TypeOK
  <2>3. None \notin dropping.unavailable
    BY <1>2, <1>3 DEF Workflow
  <2>4. Tracked(dropping, fate', where')
    BY <1>3, <1>4, <2>2, <2>3, NothingHeld DEF Tracked
  <2>5. TypeOK'
    BY <1>2, <1>3, <1>5, <2>1, SettledType DEF WorkInv, TypeOK, Carry, Fates, bodyVars
  <2> QED BY <2>1, <2>4, <2>5 DEF WorkInv
<1>6. CASE Conclude(CancelDiscard(Verified, i))
  <2> DEFINE w == CancelDiscard(Verified, i)
  <2>1. w \in Workflow /\ ~w.paused /\ Idle(w) /\ w.plan = NoPlan /\ ~w.needsRecovery
    BY <1>1, WithoutPlanFields, SuppressFields DEF CancelDiscard, Idle
  <2> HIDE DEF w
  <2>2. Reviewed(w, Settled, where)
    BY <2>1, NothingHeld DEF Reviewed
  <2> QED BY <1>6, <2>1, <2>2, ConcludeStep DEF w
<1> QED BY <1>5, <1>6 DEF DiscardCargo, dropping, move

\* A recovery ends the plan: the cargo is tracked by the pending move, back in
\* the bag, or reported.
LEMMA RecoverCargoStep ==
    ASSUME WorkInv, HoldsCargo(Verified), NEW ready, RecoverCargo(ready)
    PROVE  WorkInv'
<1> DEFINE c == Verified.plan.cargo
<1> DEFINE given == Suppress(WithoutPlan(Verified), Verified.plan.incoming)
<1> DEFINE fetching == [given EXCEPT !.pendingRecovery = c]
<1>1. /\ Verified \in Workflow /\ ~Verified.paused /\ Idle(Verified)
      /\ Reviewed(Verified, Settled, where)
  BY VerifiedIsReviewed DEF Reviewed
<1>2. c \in Items /\ Verified.plan.incoming \in Items
  BY <1>1 DEF HoldsCargo, Workflow
<1>3. given \in Workflow /\ ~given.paused /\ Idle(given) /\ given.plan = NoPlan /\ ~given.needsRecovery
  BY <1>1, <1>2, WithoutPlanFields, SuppressFields DEF Idle
<1>4. \A j \in Items : Settled[j] = "dropped" => where[j] \in Places \cup {"away"} /\ j = c
  BY <1>1 DEF Reviewed
<1> HIDE DEF c, given
<1>5. /\ fetching \in Workflow /\ ~fetching.paused /\ fetching.plan = NoPlan /\ ~fetching.needsRecovery
      /\ fetching.pendingRecovery = c /\ fetching.pendingLoot = None
      /\ fetching.pendingDiscard = NoDiscard
  BY <1>2, <1>3 DEF Workflow, Idle
<1> HIDE DEF fetching
<1>6. None \notin Items /\ Settled \in Fates
  BY LootAssumption, SettledType DEF WorkInv
<1>7. CASE Conclude(Verified)
  BY <1>1, <1>7, ConcludeStep
<1>8. CASE Carry(fetching, c, "bag", [Settled EXCEPT ![c] = "kept"])
  <2>1. /\ loot' = fetching
        /\ \/ where' = [where EXCEPT ![c] = "bag"] /\ fate' = [Settled EXCEPT ![c] = "kept"]
           \/ where' = where /\ fate' = Settled
    BY <1>8 DEF Carry
  <2>2. \A j \in Items : fate'[j] = "dropped" =>
            where'[j] \in Places \cup {"away"} /\ fetching.pendingRecovery = j
    BY <1>2, <1>4, <1>5, <1>6, <2>1 DEF Fates
  <2>3. None \notin fetching.unavailable
    BY <1>5, <1>6 DEF Workflow
  <2>4. Tracked(fetching, fate', where')
    BY <1>5, <2>2, <2>3 DEF Tracked
  <2>5. TypeOK'
    BY <1>2, <1>5, <1>6, <1>8, <2>1 DEF WorkInv, TypeOK, Carry, Fates, bodyVars
  <2> QED BY <2>1, <2>4, <2>5 DEF WorkInv
<1>9. CASE /\ loot' = given /\ fate' = [Settled EXCEPT ![c] = "reported"] /\ retryDue' = FALSE
           /\ UNCHANGED <<active, pos, where, corpseOpen, bag, opened, bodyVars>>
  <2>1. \A j \in Items : fate'[j] # "dropped"
    BY <1>2, <1>4, <1>6, <1>9 DEF Fates
  <2>2. Reviewed(given, fate', where')
    BY <1>3, <2>1 DEF Reviewed
  <2>3. Tracked(given, fate', where')
    BY <1>3, <2>2, ReviewedIsTracked
  <2>4. TypeOK'
    BY <1>3, <1>6, <1>9 DEF WorkInv, TypeOK, Fates, bodyVars
  <2> QED BY <1>9, <2>3, <2>4 DEF WorkInv
<1> QED BY <1>7, <1>8, <1>9 DEF RecoverCargo, c, given, fetching

-----------------------------------------------------------------------------
(* The turn                                                                  *)

\* The workflow may be put down as verified, or with an item out of mind.
LEMMA VerifiedStep ==
    ASSUME WorkInv, Conclude(Verified)
    PROVE  WorkInv'
BY VerifiedIsReviewed, ConcludeStep

LEMMA SuppressStep ==
    ASSUME WorkInv, ~HoldsCargo(Verified), NEW i \in Items, Conclude(Suppress(Verified, i))
    PROVE  WorkInv'
<1> DEFINE w == Suppress(Verified, i)
<1>1. w \in Workflow /\ ~w.paused /\ Idle(w) /\ w.plan = NoPlan /\ ~w.needsRecovery
  BY VerifiedIsReviewed, NothingHeld, SuppressFields DEF Idle, Reviewed
<1> HIDE DEF w
<1>2. Reviewed(w, Settled, where)
  BY <1>1, NothingHeld DEF Reviewed
<1> QED BY <1>1, <1>2, ConcludeStep DEF w

\* A turn that only counts, walks or opens something: the workflow keeps what
\* is known of its transaction, and no item moves.
LEMMA CountingStep ==
    ASSUME WorkInv, NEW w \in Workflow, Idle(w), ~HoldsCargo(Verified),
           w.plan = Verified.plan, w.needsRecovery = Verified.needsRecovery,
           loot' = w, fate' = Settled, retryDue' = FALSE,
           pos' \in Places, corpseOpen' \in BOOLEAN, bag' \in {"none", "closed", "open"},
           opened' \subseteq Nested, UNCHANGED <<active, where, bodyVars>>
    PROVE  WorkInv'
<1>1. w.plan = NoPlan /\ ~w.needsRecovery /\ \A j \in Items : Settled[j] # "dropped"
  BY NothingHeld
<1>2. Reviewed(w, Settled, where)
  BY <1>1 DEF Reviewed
<1>3. Tracked(loot, fate, where)'
  BY <1>1, <1>2, ReviewedIsTracked
<1>4. TypeOK'
  BY SettledType DEF WorkInv, TypeOK, Fates, bodyVars
<1> QED BY <1>3, <1>4 DEF WorkInv

\* A suspended walk holds no transaction.
LEMMA SuspendedOwesNothing ==
    ASSUME WorkInv, loot.paused
    PROVE  \A i \in Items : fate[i] # "dropped"
<1>1. /\ loot.plan = NoPlan /\ loot.pendingRecovery = None /\ None \notin Items
      /\ loot.pendingDiscard # NoDiscard =>
            loot.plan = [cargo |-> loot.pendingDiscard.cargo, incoming |-> loot.pendingDiscard.incoming]
  BY LootAssumption DEF WorkInv, Tracked
<1>2. loot.pendingDiscard \in [cargo : Items, incoming : Items, at : Places] \cup {NoDiscard}
  BY DEF WorkInv, TypeOK, Workflow
<1>3. loot.pendingDiscard = NoDiscard
  BY <1>1, <1>2 DEF NoPlan
<1> QED BY <1>1, <1>3 DEF WorkInv, Tracked, NoDiscard, HoldsCargo

\* Each decision of a turn preserves the invariant.
LEMMA TurnStep ==
    ASSUME WorkInv, NEW ready \in BOOLEAN, Turn(ready)
    PROVE  WorkInv'
<1>1. /\ Verified \in Workflow /\ ~Verified.paused /\ Idle(Verified)
      /\ Reviewed(Verified, Settled, where)
  BY VerifiedIsReviewed DEF Reviewed
<1>2. TypeOK
  BY DEF WorkInv
<1>3. CASE SuspendedExpires
  <2>1. loot.paused /\ Leave /\ fate' = fate
    BY <1>3 DEF SuspendedExpires
  <2>2. \A i \in Items : fate[i] # "dropped"
    BY <2>1, SuspendedOwesNothing
  <2> QED BY <1>2, <2>1, <2>2, LeaveStep DEF TypeOK, Fates
<1>4. CASE RecoveryLost
  BY <1>4, VerifiedStep DEF RecoveryLost
<1>5. CASE TakePlanned(ready)
  <2> DEFINE i == Verified.plan.incoming
  <2>1. HoldsCargo(Verified)
    BY <1>5 DEF TakePlanned, Held
  <2>2. i \in Items
    BY <1>1, <2>1 DEF HoldsCargo, Workflow
  <2>3. ~Verified.needsRecovery => i \notin Verified.unavailable
    BY <1>1, <2>1 DEF Reviewed, HoldsCargo
  <2>4. CASE ~Verified.needsRecovery /\ where[i] = "corpse" /\ MoveItem(i)
    BY <2>2, <2>3, <2>4, MoveItemStep
  <2>5. CASE Conclude(Verified)
    BY <2>5, VerifiedStep
  <2>6. CASE RecoverCargo(ready)
    BY <2>1, <2>6, RecoverCargoStep
  <2> QED BY <1>5, <2>4, <2>5, <2>6 DEF TakePlanned
<1>6. CASE Walk
  <2> DEFINE failed == [Verified EXCEPT !.failures = @ + 1,
                                        !.streak = IF pos = loot.failedAt THEN @ + 1 ELSE 1,
                                        !.failedAt = pos]
  <2> DEFINE halted == [failed EXCEPT !.paused = failed.streak >= SuspendLimit]
  <2>1. ~HoldsCargo(Verified)
    BY <1>6 DEF Walk, Free
  <2>2. Verified.failures \in Nat /\ Verified.streak \in Nat /\ pos \in Places
    BY <1>1, <1>2 DEF Workflow, TypeOK
  <2>3. failed \in Workflow /\ Idle(failed) /\ failed.plan = Verified.plan
        /\ failed.needsRecovery = Verified.needsRecovery
    <3> DEFINE count == Verified.failures + 1
    <3> DEFINE row == IF pos = loot.failedAt THEN Verified.streak + 1 ELSE 1
    <3> DEFINE counted == [Verified EXCEPT !.failures = count, !.streak = row, !.failedAt = pos]
    <3>1. count \in Nat /\ row \in Nat
      BY <2>2
    <3>2. failed = counted
      OBVIOUS
    <3> HIDE DEF count, row
    <3>3. counted \in Workflow /\ Idle(counted) /\ counted.plan = Verified.plan
          /\ counted.needsRecovery = Verified.needsRecovery
      BY <1>1, <2>2, <3>1 DEF Workflow, Idle
    <3> QED BY <3>2, <3>3
  <2> HIDE DEF failed
  <2>4. (failed.streak >= SuspendLimit) \in BOOLEAN
    OBVIOUS
  <2>5. halted \in Workflow /\ Idle(halted) /\ halted.plan = Verified.plan
        /\ halted.needsRecovery = Verified.needsRecovery
    BY <2>3, <2>4 DEF Workflow, Idle
  <2> HIDE DEF halted
  <2>6. CASE Finish
    BY <2>1, <2>6, FinishStep
  <2>7. CASE /\ pos' \in Places /\ loot' = Verified /\ fate' = Settled /\ retryDue' = FALSE
             /\ UNCHANGED <<active, where, corpseOpen, bag, opened, bodyVars>>
    BY <1>1, <1>2, <2>1, <2>7, CountingStep DEF TypeOK
  <2>8. CASE Conclude(halted)
    BY <1>2, <2>1, <2>5, <2>8, CountingStep DEF TypeOK, Conclude
  <2> QED BY <1>6, <2>6, <2>7, <2>8 DEF Walk, failed, halted
<1>7. CASE Search
  <2> DEFINE w == [Verified EXCEPT !.searches = @ + 1]
  <2>1. ~HoldsCargo(Verified)
    BY <1>7 DEF Search, AtCorpse, Free
  <2>2. w \in Workflow /\ Idle(w) /\ w.plan = Verified.plan /\ w.needsRecovery = Verified.needsRecovery
    BY <1>1 DEF Workflow, Idle
  <2> HIDE DEF w
  <2>3. CASE Finish
    BY <2>1, <2>3, FinishStep
  <2>4. CASE Conclude(w)
    BY <1>2, <2>1, <2>2, <2>4, CountingStep DEF TypeOK, Conclude
  <2> QED BY <1>7, <2>3, <2>4 DEF Search, w
<1>8. CASE OpenCorpse(ready)
  <2> DEFINE w == [Verified EXCEPT !.opens = @ + 1]
  <2>1. ~HoldsCargo(Verified)
    BY <1>8 DEF OpenCorpse, AtCorpse, Free
  <2>2. w \in Workflow /\ Idle(w) /\ w.plan = Verified.plan /\ w.needsRecovery = Verified.needsRecovery
    BY <1>1 DEF Workflow, Idle
  <2> HIDE DEF w
  <2>3. CASE Conclude(Verified)
    BY <2>3, VerifiedStep
  <2>4. CASE Finish
    BY <2>1, <2>4, FinishStep
  <2>5. CASE /\ loot' = w /\ corpseOpen' \in BOOLEAN /\ fate' = Settled /\ retryDue' = FALSE
             /\ UNCHANGED <<active, pos, where, bag, opened, bodyVars>>
    BY <1>2, <2>1, <2>2, <2>5, CountingStep DEF TypeOK
  <2> QED BY <1>8, <2>3, <2>4, <2>5 DEF OpenCorpse, w
<1>9. CASE Exhausted
  BY <1>9, FinishStep DEF Exhausted, Open, AtCorpse, Free
<1>10. CASE OpenBackpack(ready)
  <2>1. ~HoldsCargo(Verified)
    BY <1>10 DEF OpenBackpack, Open, AtCorpse, Free
  <2>2. CASE Conclude(Verified)
    BY <2>2, VerifiedStep
  <2>3. CASE /\ loot' = Verified /\ bag' = "open" /\ fate' = Settled /\ retryDue' = FALSE
             /\ UNCHANGED <<active, pos, where, corpseOpen, opened, bodyVars>>
    BY <1>1, <1>2, <2>1, <2>3, CountingStep DEF TypeOK
  <2> QED BY <1>10, <2>2, <2>3 DEF OpenBackpack
<1>11. CASE Choose(ready)
  <2>1. ~HoldsCargo(Verified)
    BY <1>11 DEF Choose, Open, AtCorpse, Free
  <2>2. \A i \in Wanted : i \in Items /\ where[i] = "corpse" /\ i \notin Verified.unavailable
    BY DEF Wanted, In
  <2>3. CASE Conclude(Verified)
    BY <2>3, VerifiedStep
  <2>4. ASSUME NEW n \in Nested,
               loot' = [Verified EXCEPT !.attempted = @ \cup {n}],
               opened' \in {opened, opened \cup {n}}, fate' = Settled, retryDue' = FALSE,
               UNCHANGED <<active, pos, where, corpseOpen, bag, bodyVars>>
        PROVE  WorkInv'
    <3> DEFINE w == [Verified EXCEPT !.attempted = @ \cup {n}]
    <3>1. w \in Workflow /\ Idle(w) /\ w.plan = Verified.plan /\ w.needsRecovery = Verified.needsRecovery
      BY <1>1 DEF Workflow, Idle
    <3>2. opened' \subseteq Nested
      BY <1>2, <2>4 DEF TypeOK
    <3>3. loot' = w
      BY <2>4
    <3> HIDE DEF w
    <3> QED BY <1>2, <2>1, <2>4, <3>1, <3>2, <3>3, CountingStep DEF TypeOK
  <2>5. ASSUME NEW i \in Wanted, MoveItem(i)
        PROVE  WorkInv'
    BY <2>2, <2>5, MoveItemStep
  <2>6. ASSUME NEW i \in Wanted, NEW c \in Lesser(i), DiscardCargo(c, i)
        PROVE  WorkInv'
    BY <2>1, <2>2, <2>6, DiscardCargoStep DEF Lesser, In
  <2>7. ASSUME NEW i \in Wanted, Conclude(Suppress(Verified, i))
        PROVE  WorkInv'
    BY <2>1, <2>2, <2>7, SuppressStep
  <2> QED BY <1>11, <2>3, <2>4, <2>5, <2>6, <2>7 DEF Choose
<1> QED BY <1>3, <1>4, <1>5, <1>6, <1>7, <1>8, <1>9, <1>10, <1>11 DEF Turn

-----------------------------------------------------------------------------
(* The world, and the theorems                                               *)

\* A turn leaves the stage only with every fate settled.
LEMMA TurnRests ==
    ASSUME IInv, NEW ready \in BOOLEAN, Turn(ready)
    PROVE  RestInv'
<1>1. WorkInv /\ active
  BY DEF IInv, Turn, SuspendedExpires, RecoveryLost, TakePlanned, Held, Walk, Search,
         OpenCorpse, Exhausted, OpenBackpack, Choose, Open, AtCorpse, Free, Awake
<1>2. CASE SuspendedExpires
  <2>1. fate' = fate /\ loot.paused
    BY <1>2 DEF SuspendedExpires
  <2> QED BY <1>1, <2>1, SuspendedOwesNothing DEF RestInv
<1>3. CASE ~HoldsCargo(Verified) /\ Finish
  BY <1>1, <1>3, NothingHeld DEF Finish, RestInv
<1>4. CASE active' = active
  BY <1>1, <1>4 DEF RestInv
<1>5. SuspendedExpires \/ (~HoldsCargo(Verified) /\ Finish) \/ active' = active
  <2>1. CASE RecoveryLost
    BY <2>1 DEF RecoveryLost, Conclude
  <2>2. CASE TakePlanned(ready)
    BY <2>2 DEF TakePlanned, MoveItem, RecoverCargo, Carry, Conclude
  <2>3. CASE Walk
    BY <2>3 DEF Walk, Free, Conclude
  <2>4. CASE Search
    BY <2>4 DEF Search, AtCorpse, Free, Conclude
  <2>5. CASE OpenCorpse(ready)
    BY <2>5 DEF OpenCorpse, AtCorpse, Free, Conclude
  <2>6. CASE Exhausted
    BY <2>6 DEF Exhausted, Open, AtCorpse, Free
  <2>7. CASE OpenBackpack(ready)
    BY <2>7 DEF OpenBackpack, Conclude
  <2>8. CASE Choose(ready)
    BY <2>8 DEF Choose, MoveItem, DiscardCargo, Carry, Conclude
  <2> QED BY <2>1, <2>2, <2>3, <2>4, <2>5, <2>6, <2>7, <2>8 DEF Turn
<1> QED BY <1>2, <1>3, <1>4, <1>5

\* What happens between two turns moves dropped cargo nowhere but away.
LEMMA WorldStep ==
    ASSUME IInv, World
    PROVE  IInv'
<1>1. TypeOK /\ Tracked(loot, fate, where) /\ RestInv
  BY DEF IInv, WorkInv
<1>2. /\ Fresh(pos) \in Workflow /\ Idle(Fresh(pos)) /\ Fresh(pos).plan = NoPlan
      /\ ~Fresh(pos).needsRecovery /\ ~Fresh(pos).paused
  BY <1>1, FreshFields DEF TypeOK
<1>3. CASE Begin
  <2>1. \A i \in Items : fate'[i] # "dropped"
    BY <1>1, <1>3 DEF Begin, RestInv
  <2>2. Tracked(Fresh(pos), fate', where')
    BY <1>2, <2>1, ReviewedIsTracked DEF Reviewed
  <2>3. PICK content \in SUBSET In("unborn") :
            where' = [i \in Items |-> IF i \in content THEN "corpse"
                                      ELSE IF where[i] = "corpse" THEN "away" ELSE where[i]]
    BY <1>3 DEF Begin
  <2>4. where' \in Distributions
    <3>1. \A i \in Items : (IF i \in content THEN "corpse"
                            ELSE IF where[i] = "corpse" THEN "away" ELSE where[i])
                           \in Places \cup {"unborn", "corpse", "bag", "away"}
      BY <1>1 DEF TypeOK
    <3> QED BY <2>3, <3>1 DEF Distributions
  <2>5. TypeOK'
    BY <1>1, <1>2, <1>3, <2>4 DEF Begin, TypeOK, Distributions
  <2> QED BY <1>3, <2>1, <2>2, <2>5 DEF IInv, WorkInv, RestInv, Begin
<1>4. ASSUME UNCHANGED <<active, loot, fate, where>>, TypeOK'
      PROVE  IInv'
  BY <1>1, <1>4 DEF IInv, WorkInv, RestInv, Tracked, HoldsCargo
<1>5. CASE CorpseAppears
  BY <1>1, <1>4, <1>5 DEF TypeOK, CorpseAppears
<1>6. CASE Expire
  BY <1>1, <1>4, <1>6 DEF TypeOK, Expire
<1>7. CASE RetryDue
  BY <1>1, <1>4, <1>7 DEF TypeOK, RetryDue
<1>8. Mishap => mishaps' \in 0..MaxMishaps
  BY <1>1, LootAssumption DEF TypeOK, Mishap
<1>9. CASE BagCloses
  BY <1>1, <1>4, <1>8, <1>9 DEF TypeOK, BagCloses, Mishap
<1>10. CASE Pushed
  <2>1. pos' \in Places /\ corpseOpen' \in BOOLEAN /\ active' = active
    BY <1>1, <1>10 DEF Pushed, TypeOK, Mishap
  <2> QED BY <1>1, <1>4, <1>8, <1>10, <2>1 DEF TypeOK, Pushed, Mishap
<1>11. ASSUME UNCHANGED <<active, loot, fate>>, where' \in Distributions, TypeOK',
              \A i \in Items : where'[i] = where[i] \/ where'[i] = "away"
       PROVE  IInv'
  BY <1>1, <1>11 DEF IInv, WorkInv, RestInv, Tracked, HoldsCargo
<1>12. CASE Vanishes
  <2>1. PICK i \in Items : where' = [where EXCEPT ![i] = "away"]
    BY <1>12 DEF Vanishes
  <2>2. where' \in Distributions /\ \A j \in Items : where'[j] = where[j] \/ where'[j] = "away"
    BY <1>1, <2>1 DEF TypeOK, Distributions
  <2>3. TypeOK'
    BY <1>1, <1>8, <1>12, <2>2 DEF TypeOK, Vanishes, Distributions, Mishap
  <2> QED BY <1>11, <1>12, <2>2, <2>3 DEF Vanishes, Mishap
<1>13. CASE Decays
  <2>1. where' \in Distributions /\ \A j \in Items : where'[j] = where[j] \/ where'[j] = "away"
    <3>1. where' = [i \in Items |-> IF where[i] = "corpse" THEN "away" ELSE where[i]]
      BY <1>13 DEF Decays
    <3>2. \A i \in Items : (IF where[i] = "corpse" THEN "away" ELSE where[i])
                           \in Places \cup {"unborn", "corpse", "bag", "away"}
      BY <1>1 DEF TypeOK
    <3> QED BY <3>1, <3>2 DEF Distributions
  <2>2. TypeOK'
    BY <1>1, <1>8, <1>13, <2>1 DEF TypeOK, Decays, Distributions, Mishap
  <2> QED BY <1>11, <1>13, <2>1, <2>2 DEF Decays, Mishap
<1>14. CASE Interrupted
  <2>1. fate' \in Fates /\ \A i \in Items : fate'[i] # "dropped"
    BY <1>1, <1>14 DEF Interrupted, TypeOK, Fates
  <2>2. Tracked(Fresh(pos), fate', where')
    BY <1>2, <2>1, ReviewedIsTracked DEF Reviewed
  <2>3. TypeOK'
    BY <1>1, <1>2, <1>8, <1>14, <2>1 DEF Interrupted, TypeOK, Fates
  <2> QED BY <1>14, <2>1, <2>2, <2>3 DEF IInv, WorkInv, RestInv, Interrupted
<1> QED BY <1>3, <1>5, <1>6, <1>7, <1>9, <1>10, <1>12, <1>13, <1>14 DEF World

\* No step of the code's or the world's breaks the invariant.
THEOREM Invariance == Spec => []IInv
<1>1. Init => IInv
  <2> SUFFICES ASSUME Init PROVE IInv
    OBVIOUS
  <2>1. /\ Fresh(pos) \in Workflow /\ Idle(Fresh(pos)) /\ Fresh(pos).plan = NoPlan
        /\ ~Fresh(pos).needsRecovery /\ ~Fresh(pos).paused
    BY FreshFields DEF Init
  <2>2. fate \in Fates /\ \A i \in Items : fate[i] # "dropped"
    BY DEF Init, Fates
  <2>3. Tracked(Fresh(pos), fate, where)
    BY <2>1, <2>2, ReviewedIsTracked DEF Reviewed
  <2>4. where \in Distributions
    BY DEF Init, Distributions
  <2>5. loot \in Workflow /\ mishaps \in 0..MaxMishaps
    BY <2>1, LootAssumption DEF Init
  <2>6. TypeOK
    BY <2>2, <2>4, <2>5 DEF Init, TypeOK, Fates, Distributions
  <2> QED BY <2>2, <2>3, <2>6 DEF Init, IInv, WorkInv, RestInv
<1>2. IInv /\ [Next]_vars => IInv'
  <2> SUFFICES ASSUME IInv, [Next]_vars PROVE IInv'
    OBVIOUS
  <2>1. ASSUME NEW ready \in BOOLEAN, Turn(ready) PROVE IInv'
    BY <2>1, TurnStep, TurnRests DEF IInv
  <2>2. CASE World
    BY <2>2, WorldStep
  <2>3. CASE UNCHANGED vars
    BY <2>3 DEF vars, bodyVars, IInv, WorkInv, RestInv, TypeOK, Tracked, HoldsCargo
  <2> QED BY <2>1, <2>2, <2>3 DEF Next
<1> QED BY <1>1, <1>2, PTL DEF Spec

\* Every variable keeps its type, whatever the limits and the items.
THEOREM TypeCorrect == Spec => []TypeOK
BY Invariance, PTL DEF IInv, WorkInv

\* The three kinds of pending move never overlap, and no plan or debt survives
\* the transaction it belongs to.
THEOREM MovesDoNotOverlap == Spec => []OneMoveAtATime
<1>1. IInv => OneMoveAtATime
  BY DEF IInv, WorkInv, Tracked, OneMoveAtATime
<1> QED BY <1>1, Invariance, PTL

\* Dropped cargo is never forgotten by a turn, in whatever order moves are
\* refused and others interfere.
THEOREM CargoIsAccountedFor == Spec => []NoSilentLoss
<1>1. IInv => NoSilentLoss
  BY DEF IInv, WorkInv, RestInv, Tracked, NoSilentLoss
<1> QED BY <1>1, Invariance, PTL

\* Loot that failed or was refused is not tried again at the same corpse.
THEOREM FailuresAreFinal == Spec => []NotTriedAgain
<1>1. IInv => NotTriedAgain
  <2> SUFFICES ASSUME IInv PROVE NotTriedAgain
    OBVIOUS
  <2>1. /\ loot \in Workflow /\ None \notin Items /\ Tracked(loot, fate, where)
    BY LootAssumption DEF IInv, WorkInv, TypeOK
  <2>2. CASE loot.pendingDiscard = NoDiscard
    BY <2>1, <2>2 DEF Workflow, NoDiscard, Tracked, NotTriedAgain
  <2>3. CASE loot.pendingDiscard # NoDiscard
    <3>1. loot.pendingDiscard.cargo \in Items
      BY <2>1, <2>3 DEF Workflow
    <3>2. loot.plan # NoPlan /\ loot.plan.incoming = loot.pendingDiscard.incoming
      BY <2>1, <2>3, <3>1 DEF Tracked, NoPlan
    <3> QED BY <2>1, <2>3, <3>2 DEF Tracked, NotTriedAgain
  <2> QED BY <2>2, <2>3
<1> QED BY <1>1, Invariance, PTL

-----------------------------------------------------------------------------
(* The way to the end.  Looting ends because a turn always uses something    *)
(* up: an item that is still worth a try, a stage of the transaction for     *)
(* one, or a try at opening or finding things.                               *)

\* The items that lie in the corpse or are being fetched from it, and have not
\* been put out of mind.
Untried(w, h) ==
    ({i \in Items : h[i] = "corpse"} \cup {w.pendingLoot, w.plan.incoming})
        \ (w.unavailable \cup {None})

\* How far the transaction for one item is: recover the cargo (6, 5), nothing
\* (4), drop the cargo (3), take the loot (2), see it arrive (1).
Stage(w) ==
    IF w.needsRecovery THEN 6
    ELSE IF w.pendingRecovery # None THEN 5
    ELSE IF w.pendingLoot # None THEN 1
    ELSE IF w.pendingDiscard # NoDiscard THEN 3
    ELSE IF HoldsCargo(w) THEN 2
    ELSE 4

Short(limit, n) == IF n < limit THEN limit - n ELSE 0

\* What is left to open and to look for.
Effort(w, b) ==
    Cardinality(Nested \ w.attempted) + Short(2, w.opens) + Short(SearchLimit, w.searches)
        + (IF b = "closed" THEN 1 ELSE 0)

Weight(w, h, b) == 7 * Cardinality(Untried(w, h)) + Stage(w) + Effort(w, b)
Measure == Weight(loot, where, bag)

\* The second workflow, distribution and bag are no further from the end than
\* the first; strictly nearer.
NoFurther(w1, h1, b1, w, h, b) ==
    /\ Untried(w1, h1) \subseteq Untried(w, h)
    /\ Untried(w1, h1) # Untried(w, h) \/ Stage(w1) <= Stage(w)
    /\ Effort(w1, b1) <= Effort(w, b)
Nearer(w1, h1, b1, w, h, b) ==
    /\ NoFurther(w1, h1, b1, w, h, b)
    /\ \/ Untried(w1, h1) # Untried(w, h) \/ Stage(w1) < Stage(w)
       \/ Effort(w1, b1) < Effort(w, b)

\* While a corpse is looted nothing but a mishap takes the bot back: every turn
\* that is ready to act brings it nearer to the end, unless it walks.
LootAdvances ==
    [][active /\ active' /\ mishaps' = mishaps =>
        /\ Measure' <= Measure
        /\ Turn(TRUE) => Measure' < Measure \/ (Walk /\ ~expired)]_vars

LEMMA UntriedFinite ==
    ASSUME NEW w \in Workflow, NEW h
    PROVE  Untried(w, h) \subseteq Items /\ IsFiniteSet(Untried(w, h))
<1>1. w.pendingLoot \in Items \cup {None} /\ w.plan.incoming \in Items \cup {None}
  BY DEF Workflow, NoPlan
<1>2. Untried(w, h) \subseteq Items
  BY <1>1 DEF Untried
<1> QED BY <1>2, LootAssumption, FS_Subset

LEMMA EffortType ==
    ASSUME NEW w \in Workflow, NEW b
    PROVE  Effort(w, b) \in Nat
<1>1. w.opens \in Nat /\ w.searches \in Nat /\ SearchLimit \in Nat
  BY LootAssumption DEF Workflow
<1>2. Short(2, w.opens) \in Nat /\ Short(SearchLimit, w.searches) \in Nat
  BY <1>1 DEF Short
<1>3. Cardinality(Nested \ w.attempted) \in Nat
  BY LootAssumption, FS_Subset, FS_CardinalityType
<1> QED BY <1>2, <1>3 DEF Effort

LEMMA StageType ==
    ASSUME NEW w
    PROVE  Stage(w) \in 1..6
BY DEF Stage

\* Nearer to the end means a smaller weight.
LEMMA WeightFalls ==
    ASSUME NEW w \in Workflow, NEW h, NEW b, NEW w1 \in Workflow, NEW h1, NEW b1,
           NoFurther(w1, h1, b1, w, h, b)
    PROVE  /\ Weight(w1, h1, b1) <= Weight(w, h, b)
           /\ Nearer(w1, h1, b1, w, h, b) => Weight(w1, h1, b1) < Weight(w, h, b)
<1> DEFINE n == Cardinality(Untried(w, h))
           n1 == Cardinality(Untried(w1, h1))
           e == Effort(w, b)
           e1 == Effort(w1, b1)
           s == Stage(w)
           s1 == Stage(w1)
<1>1. /\ IsFiniteSet(Untried(w, h)) /\ IsFiniteSet(Untried(w1, h1))
      /\ Untried(w1, h1) \subseteq Untried(w, h)
  BY UntriedFinite DEF NoFurther
<1>2. n \in Nat /\ n1 \in Nat /\ n1 <= n
  BY <1>1, FS_CardinalityType, FS_Subset
<1>3. n1 = n => Untried(w1, h1) = Untried(w, h)
  BY <1>1, FS_Subset
<1>4. e \in Nat /\ e1 \in Nat /\ s \in 1..6 /\ s1 \in 1..6
  BY EffortType, StageType
<1>5. n1 < n \/ s1 <= s
  BY <1>2, <1>3 DEF NoFurther
<1>6. e1 <= e
  BY DEF NoFurther
<1>7. Nearer(w1, h1, b1, w, h, b) => n1 < n \/ s1 < s \/ e1 < e
  BY <1>2, <1>3 DEF Nearer
<1>8. Weight(w, h, b) = 7 * n + s + e /\ Weight(w1, h1, b1) = 7 * n1 + s1 + e1
  BY DEF Weight
<1> HIDE DEF n, n1, e, e1, s, s1
<1>9. 7 * n1 + s1 + e1 <= 7 * n + s + e
  BY <1>2, <1>4, <1>5, <1>6
<1>10. (n1 < n \/ s1 < s \/ e1 < e) => 7 * n1 + s1 + e1 < 7 * n + s + e
  BY <1>2, <1>4, <1>5, <1>6
<1> QED BY <1>7, <1>8, <1>9, <1>10

\* Being nearer to the end is an order.
LEMMA NearerStill ==
    ASSUME NEW w \in Workflow, NEW h, NEW b, NEW w1 \in Workflow, NEW h1, NEW b1,
           NEW w2 \in Workflow, NEW h2, NEW b2,
           NoFurther(w1, h1, b1, w, h, b), NoFurther(w2, h2, b2, w1, h1, b1)
    PROVE  /\ NoFurther(w2, h2, b2, w, h, b)
           /\ Nearer(w1, h1, b1, w, h, b) \/ Nearer(w2, h2, b2, w1, h1, b1)
                => Nearer(w2, h2, b2, w, h, b)
<1>1. /\ Effort(w, b) \in Nat /\ Effort(w1, b1) \in Nat /\ Effort(w2, b2) \in Nat
      /\ Stage(w) \in 1..6 /\ Stage(w1) \in 1..6 /\ Stage(w2) \in 1..6
  BY EffortType, StageType
<1>2. /\ Untried(w2, h2) \subseteq Untried(w, h)
      /\ Untried(w2, h2) = Untried(w, h) =>
            Untried(w1, h1) = Untried(w, h) /\ Untried(w2, h2) = Untried(w1, h1)
  BY DEF NoFurther
<1>3. Untried(w2, h2) # Untried(w, h) \/ Stage(w2) <= Stage(w)
  BY <1>1, <1>2 DEF NoFurther
<1>4. Effort(w2, b2) <= Effort(w, b)
  BY <1>1 DEF NoFurther
<1>5. NoFurther(w2, h2, b2, w, h, b)
  BY <1>2, <1>3, <1>4 DEF NoFurther
<1>6. ASSUME Nearer(w1, h1, b1, w, h, b), Untried(w2, h2) = Untried(w, h)
      PROVE  Stage(w2) < Stage(w) \/ Effort(w2, b2) < Effort(w, b)
  BY <1>1, <1>2, <1>6 DEF NoFurther, Nearer
<1>7. ASSUME Nearer(w2, h2, b2, w1, h1, b1), Untried(w2, h2) = Untried(w, h)
      PROVE  Stage(w2) < Stage(w) \/ Effort(w2, b2) < Effort(w, b)
  BY <1>1, <1>2, <1>7 DEF NoFurther, Nearer
<1> QED BY <1>5, <1>6, <1>7 DEF Nearer

\* What judging leaves alone.
LEMMA JudgedFields ==
    ASSUME WorkInv
    PROVE  /\ Verified.attempted = loot.attempted
           /\ Verified.opens = loot.opens /\ Verified.searches = loot.searches
           /\ Verified.plan = Judged.plan /\ Verified.discarded = Judged.discarded
           /\ Verified.needsRecovery = Judged.needsRecovery
           /\ Verified.unavailable = Judged.unavailable
<1>0. loot \in Workflow /\ Judged \in Workflow
  BY JudgedIsReviewed DEF WorkInv, TypeOK
<1>1. /\ Judged.attempted = loot.attempted
      /\ Judged.opens = loot.opens /\ Judged.searches = loot.searches
  BY <1>0 DEF Judged, Suppress, WithoutPlan, Workflow
<1> QED BY <1>0, <1>1 DEF Verified, Workflow

\* The verdict on each kind of move.
LEMMA Verdicts ==
    ASSUME WorkInv
    PROVE  /\ LootMoved => /\ Verified.plan = NoPlan /\ ~Verified.needsRecovery
                           /\ Verified.unavailable = loot.unavailable
           /\ LootFailed => /\ Verified.plan = loot.plan
                            /\ Verified.unavailable = loot.unavailable \cup {loot.pendingLoot}
           /\ Discarded => /\ Verified.plan = loot.plan /\ Verified.discarded # Nowhere
                           /\ ~Verified.needsRecovery
                           /\ Verified.unavailable = loot.unavailable
           /\ DiscardFailed =>
                /\ Verified.plan = NoPlan /\ ~Verified.needsRecovery
                /\ Verified.unavailable = loot.unavailable \cup {loot.pendingDiscard.incoming}
           /\ loot.pendingRecovery # None =>
                /\ Verified.plan = NoPlan /\ ~Verified.needsRecovery
                /\ Verified.unavailable = loot.unavailable
           /\ Idle(loot) => /\ Verified.plan = loot.plan /\ Verified.discarded = loot.discarded
                            /\ Verified.needsRecovery = loot.needsRecovery
                            /\ Verified.unavailable = loot.unavailable
<1> DEFINE idle == [loot EXCEPT !.pendingLoot = None, !.pendingDiscard = NoDiscard,
                                !.pendingRecovery = None]
           owing == [idle EXCEPT !.needsRecovery = @ \/ HoldsCargo(idle)]
<1>0. loot \in Workflow /\ Tracked(loot, fate, where) /\ pos \in Places /\ Nowhere \notin Places
  BY LootAssumption DEF WorkInv, TypeOK
<1>1. /\ idle \in Workflow /\ owing \in Workflow
      /\ owing.plan = loot.plan /\ owing.unavailable = loot.unavailable
      /\ idle.plan = loot.plan /\ idle.discarded = loot.discarded
      /\ idle.needsRecovery = loot.needsRecovery /\ idle.unavailable = loot.unavailable
  BY <1>0 DEF Workflow
<1>2. /\ LootMoved => ~LootFailed
      /\ LootMoved \/ LootFailed =>
            ~Discarded /\ ~DiscardFailed /\ ~(loot.pendingRecovery # None)
      /\ Discarded => ~DiscardFailed
      /\ Discarded \/ DiscardFailed => ~(loot.pendingRecovery # None)
      /\ Idle(loot) => ~LootMoved /\ ~LootFailed /\ ~Discarded /\ ~DiscardFailed
  BY <1>0 DEF Tracked, LootMoved, LootFailed, Discarded, DiscardFailed, Idle
<1>3. LootMoved => Judged = WithoutPlan(idle)
  BY <1>2 DEF Judged
<1>4. LootFailed => Judged = Suppress(owing, loot.pendingLoot)
  BY <1>2 DEF Judged
<1>5. Discarded => Judged = [idle EXCEPT !.discarded = pos]
  BY <1>2 DEF Judged
<1>6. DiscardFailed => Judged = Suppress(WithoutPlan(idle), loot.pendingDiscard.incoming)
  BY <1>2 DEF Judged
<1>7. loot.pendingRecovery # None => Judged = WithoutPlan(idle)
  BY <1>2 DEF Judged
<1>8. Idle(loot) => Judged = idle
  BY <1>2 DEF Judged, Idle
<1>9. loot.pendingLoot # None => loot.pendingLoot \in Items
  BY <1>0 DEF Workflow
<1>10. loot.pendingDiscard # NoDiscard => loot.pendingDiscard.incoming \in Items
  BY <1>0 DEF Workflow
<1>11. Discarded => ~loot.needsRecovery
  BY <1>0 DEF Discarded, Tracked
<1> HIDE DEF idle, owing
<1>a. LootMoved => /\ Judged.plan = NoPlan /\ ~Judged.needsRecovery
                   /\ Judged.unavailable = loot.unavailable
  BY <1>1, <1>3, WithoutPlanFields
<1>b. LootFailed => /\ Judged.plan = loot.plan
                    /\ Judged.unavailable = loot.unavailable \cup {loot.pendingLoot}
  BY <1>1, <1>4, <1>9, SuppressFields DEF LootFailed
<1>c. Discarded => /\ Judged.plan = loot.plan /\ Judged.discarded # Nowhere
                   /\ ~Judged.needsRecovery /\ Judged.unavailable = loot.unavailable
  BY <1>0, <1>1, <1>5, <1>11 DEF Workflow
<1>d. DiscardFailed =>
        /\ Judged.plan = NoPlan /\ ~Judged.needsRecovery
        /\ Judged.unavailable = loot.unavailable \cup {loot.pendingDiscard.incoming}
  <2> SUFFICES ASSUME DiscardFailed
               PROVE  /\ Judged.plan = NoPlan /\ ~Judged.needsRecovery
                      /\ Judged.unavailable = loot.unavailable \cup {loot.pendingDiscard.incoming}
    OBVIOUS
  <2>1. loot.pendingDiscard.incoming \in Items
    BY <1>10 DEF DiscardFailed
  <2>2. WithoutPlan(idle) \in Workflow
    BY <1>1, WithoutPlanFields
  <2> QED BY <1>1, <1>6, <2>1, <2>2, WithoutPlanFields, SuppressFields
<1>e. loot.pendingRecovery # None => /\ Judged.plan = NoPlan /\ ~Judged.needsRecovery
                                     /\ Judged.unavailable = loot.unavailable
  BY <1>1, <1>7, WithoutPlanFields
<1>f. Idle(loot) => /\ Judged.plan = loot.plan /\ Judged.discarded = loot.discarded
                    /\ Judged.needsRecovery = loot.needsRecovery
                    /\ Judged.unavailable = loot.unavailable
  BY <1>1, <1>8
<1> QED BY <1>a, <1>b, <1>c, <1>d, <1>e, <1>f, JudgedFields

\* Every verdict on a pending move brings the bot nearer to the end, and a turn
\* with nothing to judge starts from where the last one stopped.
LEMMA VerifiedIsNearer ==
    ASSUME WorkInv
    PROVE  /\ NoFurther(Verified, where, bag, loot, where, bag)
           /\ ~Idle(loot) => Nearer(Verified, where, bag, loot, where, bag)
<1> DEFINE old == Untried(loot, where)
           new == Untried(Verified, where)
<1>0. /\ loot \in Workflow /\ Tracked(loot, fate, where)
      /\ Verified \in Workflow /\ Reviewed(Verified, Settled, where) /\ Idle(Verified)
      /\ None \notin Items
  BY VerifiedIsReviewed, LootAssumption DEF WorkInv, TypeOK, Reviewed, None
<1>1. Effort(Verified, bag) = Effort(loot, bag)
  BY JudgedFields DEF Effort
<1>2. Effort(loot, bag) \in Nat
  BY <1>0, EffortType
<1>3. Stage(Verified) = IF Verified.needsRecovery THEN 6 ELSE IF HoldsCargo(Verified) THEN 2 ELSE 4
  BY <1>0 DEF Stage, Idle
<1>4. loot.pendingLoot \in Items \cup {None} /\ loot.pendingLoot \notin loot.unavailable
  BY <1>0 DEF Workflow, Tracked
<1>5. new = ({i \in Items : where[i] = "corpse"} \cup {Verified.plan.incoming})
                \ (Verified.unavailable \cup {None})
  BY <1>0 DEF Untried, Idle
<1>6. NoPlan.incoming = None
  BY DEF NoPlan
<1>7. CASE LootMoved
  <2>1. loot.pendingLoot \in old
    BY <1>4, <1>7 DEF LootMoved, Untried
  <2>2. where[loot.pendingLoot] # "corpse" /\ loot.pendingLoot # None
    BY <1>7 DEF LootMoved
  <2>3. loot.pendingLoot \notin new
    BY <1>5, <1>6, <1>7, <2>2, Verdicts
  <2>4. new \subseteq old
    BY <1>5, <1>6, <1>7, Verdicts DEF Untried
  <2> QED BY <1>1, <1>2, <2>1, <2>3, <2>4 DEF NoFurther, Nearer
<1>8. CASE LootFailed
  <2>1. loot.pendingLoot \in old
    BY <1>4, <1>8 DEF LootFailed, Untried
  <2>2. loot.pendingLoot \notin new
    BY <1>5, <1>8, Verdicts
  <2>3. new \subseteq old
    BY <1>5, <1>8, Verdicts DEF Untried
  <2> QED BY <1>1, <1>2, <2>1, <2>2, <2>3 DEF NoFurther, Nearer
<1>9. CASE Discarded
  <2>1. loot.pendingDiscard # NoDiscard
    BY <1>9 DEF Discarded
  <2>2. /\ loot.pendingLoot = None /\ loot.pendingRecovery = None /\ ~loot.needsRecovery
        /\ loot.plan = [cargo |-> loot.pendingDiscard.cargo,
                        incoming |-> loot.pendingDiscard.incoming]
    BY <1>0, <2>1 DEF Tracked
  <2>3. loot.pendingDiscard.cargo \in Items
    BY <1>0, <2>1 DEF Workflow
  <2>4. loot.plan # NoPlan
    BY <1>0, <2>2, <2>3 DEF NoPlan
  <2>5. Stage(loot) = 3
    BY <2>1, <2>2 DEF Stage
  <2>6. Stage(Verified) = 2
    BY <1>3, <1>9, <2>4, Verdicts DEF HoldsCargo
  <2>7. new \subseteq old
    BY <1>5, <1>9, Verdicts DEF Untried
  <2> QED BY <1>1, <1>2, <2>5, <2>6, <2>7 DEF NoFurther, Nearer
<1>10. CASE DiscardFailed
  <2>1. loot.pendingDiscard # NoDiscard
    BY <1>10 DEF DiscardFailed
  <2>2. /\ ~loot.needsRecovery
        /\ loot.plan = [cargo |-> loot.pendingDiscard.cargo,
                        incoming |-> loot.pendingDiscard.incoming]
    BY <1>0, <2>1 DEF Tracked
  <2>3. loot.pendingDiscard.cargo \in Items /\ loot.pendingDiscard.incoming \in Items
    BY <1>0, <2>1 DEF Workflow
  <2>4. loot.plan # NoPlan /\ loot.plan.incoming = loot.pendingDiscard.incoming
    BY <1>0, <2>2, <2>3 DEF NoPlan
  <2>5. loot.plan.incoming \in old
    BY <1>0, <2>2, <2>3, <2>4 DEF Tracked, Untried
  <2>6. loot.plan.incoming \notin new
    BY <1>5, <1>10, <2>4, Verdicts
  <2>7. new \subseteq old
    BY <1>5, <1>6, <1>10, Verdicts DEF Untried
  <2> QED BY <1>1, <1>2, <2>5, <2>6, <2>7 DEF NoFurther, Nearer
<1>11. CASE loot.pendingRecovery # None
  <2>1. loot.plan = NoPlan
    BY <1>0, <1>11 DEF Tracked
  <2>2. ~loot.needsRecovery
    BY <1>0, <2>1 DEF Tracked, HoldsCargo
  <2>3. Stage(loot) = 5
    BY <1>11, <2>2 DEF Stage
  <2>4. Stage(Verified) = 4
    BY <1>3, <1>11, Verdicts DEF HoldsCargo
  <2>5. new \subseteq old
    BY <1>5, <1>6, <1>11, Verdicts DEF Untried
  <2> QED BY <1>1, <1>2, <2>3, <2>4, <2>5 DEF NoFurther, Nearer
<1>12. CASE Idle(loot)
  <2>1. Stage(loot) = IF loot.needsRecovery THEN 6 ELSE IF HoldsCargo(loot) THEN 2 ELSE 4
    BY <1>12 DEF Stage, Idle
  <2>2. Stage(Verified) = Stage(loot)
    BY <1>3, <1>12, <2>1, Verdicts DEF HoldsCargo
  <2>3. new \subseteq old
    BY <1>5, <1>12, Verdicts DEF Untried
  <2>4. Stage(loot) \in 1..6
    BY StageType
  <2> QED BY <1>1, <1>2, <1>12, <2>2, <2>3, <2>4 DEF NoFurther
<1>13. LootMoved \/ LootFailed \/ Discarded \/ DiscardFailed \/ loot.pendingRecovery # None \/ Idle(loot)
  BY DEF LootFailed, DiscardFailed, Idle
<1> QED BY <1>7, <1>8, <1>9, <1>10, <1>11, <1>12, <1>13 DEF Nearer

\* Opening and finding things is counted apart from the transaction.
SameEffort(w1, w) ==
    w1.attempted = w.attempted /\ w1.opens = w.opens /\ w1.searches = w.searches
SameTransaction(w1, w) ==
    /\ w1.pendingLoot = w.pendingLoot /\ w1.pendingDiscard = w.pendingDiscard
    /\ w1.pendingRecovery = w.pendingRecovery /\ w1.plan = w.plan
    /\ w1.discarded = w.discarded /\ w1.needsRecovery = w.needsRecovery
    /\ w1.unavailable = w.unavailable

\* No item has come into the corpse.
NothingAdded(h1, h) == \A i \in Items : h1[i] = "corpse" => h[i] = "corpse"

\* Without a step of the transaction only the tries count.
LEMMA TryIsNoFurther ==
    ASSUME NEW w \in Workflow, NEW w1 \in Workflow, NEW h, NEW b, NEW b1,
           SameTransaction(w1, w), Effort(w1, b1) <= Effort(w, b)
    PROVE  /\ NoFurther(w1, h, b1, w, h, b)
           /\ Effort(w1, b1) < Effort(w, b) => Nearer(w1, h, b1, w, h, b)
<1>1. Untried(w1, h) = Untried(w, h) /\ Stage(w1) = Stage(w)
  BY DEF SameTransaction, Untried, Stage, HoldsCargo
<1>2. Stage(w) \in 1..6
  BY StageType
<1> QED BY <1>1, <1>2 DEF NoFurther, Nearer

LEMMA SameIsNoFurther ==
    ASSUME NEW w \in Workflow, NEW w1 \in Workflow, NEW h, NEW b,
           SameTransaction(w1, w), SameEffort(w1, w)
    PROVE  NoFurther(w1, h, b, w, h, b)
<1>1. Effort(w1, b) = Effort(w, b) /\ Effort(w, b) \in Nat
  BY EffortType DEF SameEffort, Effort
<1> QED BY <1>1, TryIsNoFurther

\* An item put out of mind is one less, whatever becomes of the transaction.
LEMMA SuppressedIsNearer ==
    ASSUME NEW w \in Workflow, NEW w1 \in Workflow, NEW h, NEW h1, NEW b,
           NEW i \in Untried(w, h), i \in w1.unavailable, w.unavailable \subseteq w1.unavailable,
           w1.pendingLoot \in {w.pendingLoot, None},
           w1.plan.incoming \in {w.plan.incoming, None},
           NothingAdded(h1, h), SameEffort(w1, w)
    PROVE  Nearer(w1, h1, b, w, h, b)
<1>1. Effort(w1, b) = Effort(w, b) /\ Effort(w, b) \in Nat
  BY EffortType DEF SameEffort, Effort
<1>2. Untried(w1, h1) \subseteq Untried(w, h) /\ i \notin Untried(w1, h1)
  BY DEF Untried, NothingAdded
<1> QED BY <1>1, <1>2 DEF NoFurther, Nearer

\* A stage of the transaction is one less if no other item is brought in.
LEMMA StageIsNearer ==
    ASSUME NEW w \in Workflow, NEW w1 \in Workflow, NEW h, NEW h1, NEW b,
           w.unavailable \subseteq w1.unavailable,
           w1.pendingLoot \in Untried(w, h) \cup {w.pendingLoot, None},
           w1.plan.incoming \in Untried(w, h) \cup {w.plan.incoming, None},
           NothingAdded(h1, h), SameEffort(w1, w), Stage(w1) < Stage(w)
    PROVE  Nearer(w1, h1, b, w, h, b)
<1>1. Effort(w1, b) = Effort(w, b) /\ Effort(w, b) \in Nat
  BY EffortType DEF SameEffort, Effort
<1>2. Untried(w1, h1) \subseteq Untried(w, h)
  BY DEF Untried, NothingAdded
<1>3. Stage(w1) \in 1..6 /\ Stage(w) \in 1..6
  BY StageType
<1> QED BY <1>1, <1>2, <1>3 DEF NoFurther, Nearer

\* The operations leave the tries alone.
LEMMA EffortFields ==
    ASSUME NEW w \in Workflow
    PROVE  /\ SameEffort(WithoutPlan(w), w)
           /\ \A i : SameEffort(Suppress(w, i), w)
BY DEF WithoutPlan, Suppress, SameEffort, Workflow

-----------------------------------------------------------------------------
(* The commands bring the end nearer                                         *)

\* The stage of a workflow with nothing left to verify.
LEMMA IdleStage ==
    ASSUME WorkInv
    PROVE  Stage(Verified) =
            IF Verified.needsRecovery THEN 6 ELSE IF HoldsCargo(Verified) THEN 2 ELSE 4
BY VerifiedIsReviewed DEF Reviewed, Idle, Stage

\* What lies in the corpse and has not been put out of mind is worth a try.
LEMMA WantedIsUntried ==
    ASSUME WorkInv, NEW i \in Items, where[i] = "corpse", i \notin Verified.unavailable
    PROVE  i \in Untried(Verified, where)
BY LootAssumption DEF Untried, None

\* Taking loot: it is on its way, or refused and put out of mind.
LEMMA MoveItemNearer ==
    ASSUME WorkInv, ~Verified.needsRecovery, NEW i \in Items, i \notin Verified.unavailable,
           where[i] = "corpse", MoveItem(i)
    PROVE  Nearer(loot', where', bag', Verified, where, bag)
<1> DEFINE moving == [Verified EXCEPT !.pendingLoot = i]
           owing == [Verified EXCEPT !.needsRecovery = @ \/ HoldsCargo(Verified)]
<1>0. /\ Verified \in Workflow /\ Idle(Verified) /\ i # None /\ where \in Distributions
      /\ i \in Untried(Verified, where)
  BY VerifiedIsReviewed, WantedIsUntried, LootAssumption
     DEF Reviewed, None, WorkInv, TypeOK, Distributions
<1>1. CASE Carry(moving, i, "bag", Settled)
  <2>1. /\ moving \in Workflow /\ moving.pendingLoot = i /\ moving.plan = Verified.plan
        /\ moving.unavailable = Verified.unavailable /\ SameEffort(moving, Verified)
        /\ moving.needsRecovery = Verified.needsRecovery /\ moving.pendingRecovery = None
    BY <1>0 DEF Workflow, SameEffort, Idle
  <2>2. loot' = moving /\ bag' = bag /\ NothingAdded(where', where)
    BY <1>0, <1>1 DEF Carry, NothingAdded, Distributions
  <2> HIDE DEF moving
  <2>3. Stage(moving) = 1
    BY <1>0, <2>1 DEF Stage
  <2>4. Stage(Verified) \in {2, 4}
    BY IdleStage
  <2> QED BY <1>0, <2>1, <2>2, <2>3, <2>4, StageIsNearer
<1>2. CASE Conclude(CancelLoot(Verified, i))
  <2>1. owing \in Workflow /\ owing.plan = Verified.plan /\ owing.pendingLoot = None
        /\ owing.unavailable = Verified.unavailable /\ SameEffort(owing, Verified)
    BY <1>0 DEF Workflow, SameEffort, Idle
  <2> HIDE DEF owing
  <2> DEFINE w1 == Suppress(owing, i)
  <2>2. /\ w1 \in Workflow /\ w1.plan = Verified.plan /\ w1.pendingLoot = None
        /\ w1.unavailable = Verified.unavailable \cup {i} /\ SameEffort(w1, Verified)
    BY <2>1, SuppressFields, EffortFields DEF SameEffort
  <2>3. loot' = w1 /\ bag' = bag /\ NothingAdded(where', where)
    BY <1>2 DEF Conclude, CancelLoot, NothingAdded, owing
  <2> HIDE DEF w1
  <2> QED BY <1>0, <2>2, <2>3, SuppressedIsNearer
<1> QED BY <1>1, <1>2 DEF MoveItem

\* Dropping cargo for loot: it is on the ground, or the loot is out of mind.
LEMMA DiscardCargoNearer ==
    ASSUME WorkInv, ~HoldsCargo(Verified), NEW i \in Items, i \notin Verified.unavailable,
           where[i] = "corpse", NEW c \in Items, DiscardCargo(c, i)
    PROVE  Nearer(loot', where', bag', Verified, where, bag)
<1> DEFINE move == [cargo |-> c, incoming |-> i, at |-> pos]
           plan == [cargo |-> c, incoming |-> i]
           moving == [Verified EXCEPT !.plan = plan, !.pendingDiscard = move]
<1>0. /\ Verified \in Workflow /\ Idle(Verified) /\ where \in Distributions
      /\ i \in Untried(Verified, where) /\ ~Verified.needsRecovery
      /\ pos \in Places /\ "corpse" \notin Places /\ c # None
  BY VerifiedIsReviewed, NothingHeld, WantedIsUntried, LootAssumption
     DEF Reviewed, None, WorkInv, TypeOK, Distributions
<1>m. /\ move \in [cargo : Items, incoming : Items, at : Places] /\ move # NoDiscard
      /\ plan \in [cargo : Items, incoming : Items] /\ plan.incoming = i
  BY <1>0 DEF NoDiscard
<1> HIDE DEF move, plan
<1>1. CASE Carry(moving, c, pos, [Settled EXCEPT ![c] = "dropped"])
  <2>1. /\ moving \in Workflow /\ moving.pendingLoot = None /\ moving.plan.incoming = i
        /\ moving.unavailable = Verified.unavailable /\ SameEffort(moving, Verified)
        /\ ~moving.needsRecovery /\ moving.pendingRecovery = None
        /\ moving.pendingDiscard # NoDiscard
    BY <1>0, <1>m DEF Workflow, SameEffort, Idle
  <2>2. loot' = moving /\ bag' = bag /\ NothingAdded(where', where)
    BY <1>0, <1>1 DEF Carry, NothingAdded, Distributions
  <2> HIDE DEF moving
  <2>3. Stage(moving) = 3
    BY <2>1 DEF Stage
  <2>4. Stage(Verified) = 4
    BY <1>0, IdleStage
  <2> QED BY <1>0, <2>1, <2>2, <2>3, <2>4, StageIsNearer
<1>2. CASE Conclude(CancelDiscard(Verified, i))
  <2> DEFINE w0 == WithoutPlan(Verified)
  <2>1. /\ w0 \in Workflow /\ w0.plan = NoPlan /\ w0.pendingLoot = None
        /\ w0.unavailable = Verified.unavailable /\ SameEffort(w0, Verified)
    BY <1>0, WithoutPlanFields, EffortFields DEF Idle
  <2> HIDE DEF w0
  <2> DEFINE w1 == Suppress(w0, i)
  <2>2. /\ w1 \in Workflow /\ w1.plan = NoPlan /\ w1.pendingLoot = None
        /\ w1.unavailable = Verified.unavailable \cup {i} /\ SameEffort(w1, Verified)
    BY <2>1, SuppressFields, EffortFields DEF SameEffort
  <2>3. loot' = w1 /\ bag' = bag /\ NothingAdded(where', where)
    BY <1>2 DEF Conclude, CancelDiscard, NothingAdded, w0
  <2>4. w1.plan.incoming = None
    BY <2>2 DEF NoPlan
  <2> HIDE DEF w1
  <2> QED BY <1>0, <2>2, <2>3, <2>4, SuppressedIsNearer
<1> QED BY <1>1, <1>2 DEF DiscardCargo, moving, move, plan

\* Going back for the cargo: the loot is given up, or was before.
LEMMA RecoverCargoNearer ==
    ASSUME WorkInv, HoldsCargo(Verified), NEW ready \in BOOLEAN, RecoverCargo(ready)
    PROVE  /\ NoFurther(loot', where', bag', Verified, where, bag)
           /\ ready => Nearer(loot', where', bag', Verified, where, bag)
<1> DEFINE c == Verified.plan.cargo
           i == Verified.plan.incoming
           w0 == WithoutPlan(Verified)
           given == Suppress(w0, i)
           fetching == [given EXCEPT !.pendingRecovery = c]
<1>0. /\ Verified \in Workflow /\ Idle(Verified) /\ where \in Distributions
      /\ ~Verified.needsRecovery => i \notin Verified.unavailable
      /\ Verified.plan \in [cargo : Items, incoming : Items] /\ None \notin Items
  BY VerifiedIsReviewed, LootAssumption
     DEF Reviewed, None, WorkInv, TypeOK, Distributions, HoldsCargo, Workflow
<1>1. i \in Items /\ c \in Items /\ i # None /\ c # None
  BY <1>0
<1>2. /\ w0 \in Workflow /\ w0.plan = NoPlan /\ w0.pendingLoot = None
      /\ w0.pendingDiscard = NoDiscard /\ w0.pendingRecovery = None /\ ~w0.needsRecovery
      /\ w0.unavailable = Verified.unavailable /\ SameEffort(w0, Verified)
  BY <1>0, WithoutPlanFields, EffortFields DEF Idle
<1>3. ~Verified.needsRecovery => i \in Untried(Verified, where)
  BY <1>0, <1>1 DEF Untried
<1> HIDE DEF w0, c, i
<1>4. /\ given \in Workflow /\ given.plan = NoPlan /\ given.pendingLoot = None
      /\ given.pendingDiscard = NoDiscard /\ given.pendingRecovery = None
      /\ ~given.needsRecovery
      /\ given.unavailable = Verified.unavailable \cup {i} /\ SameEffort(given, Verified)
  BY <1>1, <1>2, SuppressFields, EffortFields DEF SameEffort
<1>5. NoPlan.incoming = None
  BY DEF NoPlan
<1> HIDE DEF given
<1>6. /\ fetching \in Workflow /\ fetching.plan = NoPlan /\ fetching.pendingLoot = None
      /\ fetching.pendingRecovery = c /\ ~fetching.needsRecovery
      /\ fetching.unavailable = Verified.unavailable \cup {i} /\ SameEffort(fetching, Verified)
  BY <1>1, <1>4 DEF Workflow, SameEffort
<1> HIDE DEF fetching
<1>7. Stage(given) = 4 /\ Stage(fetching) = 5
  BY <1>1, <1>4, <1>6 DEF Stage, HoldsCargo
<1>8. Verified.needsRecovery => Stage(Verified) = 6
  BY IdleStage
<1>9. CASE Conclude(Verified) /\ ~ready
  BY <1>0, <1>9, SameIsNoFurther DEF Conclude, SameTransaction, SameEffort
<1>10. CASE Carry(fetching, c, "bag", [Settled EXCEPT ![c] = "kept"])
  <2>1. loot' = fetching /\ bag' = bag /\ NothingAdded(where', where)
    BY <1>0, <1>10 DEF Carry, NothingAdded, Distributions
  <2>2. CASE Verified.needsRecovery
    BY <1>0, <1>5, <1>6, <1>7, <1>8, <2>1, <2>2, StageIsNearer DEF Nearer
  <2>3. CASE ~Verified.needsRecovery
    BY <1>0, <1>3, <1>5, <1>6, <2>1, <2>3, SuppressedIsNearer DEF Nearer
  <2> QED BY <2>2, <2>3
<1>11. CASE loot' = given /\ UNCHANGED <<where, bag>>
  <2>1. NothingAdded(where', where)
    BY <1>11 DEF NothingAdded
  <2>2. CASE Verified.needsRecovery
    BY <1>0, <1>4, <1>5, <1>7, <1>8, <1>11, <2>1, <2>2, StageIsNearer DEF Nearer
  <2>3. CASE ~Verified.needsRecovery
    BY <1>0, <1>3, <1>4, <1>5, <1>11, <2>1, <2>3, SuppressedIsNearer DEF Nearer
  <2> QED BY <2>2, <2>3
<1> QED BY <1>9, <1>10, <1>11 DEF RecoverCargo, c, i, w0, given, fetching

\* A try that is used up, whichever kind it is.
LEMMA TryIsNearer ==
    ASSUME NEW w \in Workflow, NEW w1 \in Workflow, NEW h, NEW b \in {"none", "closed", "open"},
           NEW b1 \in {"none", "closed", "open"}, SameTransaction(w1, w),
           \/ /\ SameEffort(w1, w) /\ b = "closed" /\ b1 = "open"
           \/ /\ w1.attempted = w.attempted /\ w1.opens = w.opens /\ b1 = b
              /\ w1.searches = w.searches + 1 /\ w.searches + 1 < SearchLimit
           \/ /\ w1.attempted = w.attempted /\ w1.searches = w.searches /\ b1 = b
              /\ w1.opens = w.opens + 1 /\ w.opens + 1 <= 2
           \/ /\ w1.opens = w.opens /\ w1.searches = w.searches /\ b1 = b
              /\ \E n \in Nested \ w.attempted : w1.attempted = w.attempted \cup {n}
    PROVE  Nearer(w1, h, b1, w, h, b)
<1> DEFINE left == Cardinality(Nested \ w.attempted)
           left1 == Cardinality(Nested \ w1.attempted)
           opens == Short(2, w.opens)
           opens1 == Short(2, w1.opens)
           finds == Short(SearchLimit, w.searches)
           finds1 == Short(SearchLimit, w1.searches)
           bags == IF b = "closed" THEN 1 ELSE 0
           bags1 == IF b1 = "closed" THEN 1 ELSE 0
<1>0. /\ w.opens \in Nat /\ w1.opens \in Nat /\ w.searches \in Nat /\ w1.searches \in Nat
      /\ SearchLimit \in Nat
  BY LootAssumption DEF Workflow
<1>1. /\ opens \in Nat /\ opens1 \in Nat /\ finds \in Nat /\ finds1 \in Nat
      /\ bags \in Nat /\ bags1 \in Nat
  BY <1>0 DEF Short
<1>2. IsFiniteSet(Nested \ w.attempted) /\ IsFiniteSet(Nested \ w1.attempted)
  BY LootAssumption, FS_Subset
<1>3. left \in Nat /\ left1 \in Nat
  BY <1>2, FS_CardinalityType
<1>4. Effort(w, b) = left + opens + finds + bags /\ Effort(w1, b1) = left1 + opens1 + finds1 + bags1
  BY DEF Effort
<1>5. w.searches + 1 < SearchLimit /\ w1.searches = w.searches + 1 => finds1 < finds
  BY <1>0 DEF Short
<1>6. w.opens + 1 <= 2 /\ w1.opens = w.opens + 1 => opens1 < opens
  BY <1>0 DEF Short
<1>7. ASSUME NEW n \in Nested \ w.attempted, w1.attempted = w.attempted \cup {n}
      PROVE  left1 < left
  <2>1. Nested \ w1.attempted = (Nested \ w.attempted) \ {n}
    BY <1>7
  <2>2. left1 = left - 1
    BY <1>2, <2>1, FS_RemoveElement
  <2> QED BY <1>3, <2>2
<1>8. /\ w1.attempted = w.attempted => left1 = left
      /\ w1.opens = w.opens => opens1 = opens
      /\ w1.searches = w.searches => finds1 = finds
      /\ b1 = b => bags1 = bags
      /\ b = "closed" /\ b1 = "open" => bags1 < bags
  OBVIOUS
<1> HIDE DEF left, left1, opens, opens1, finds, finds1, bags, bags1
<1>9. \/ left1 = left /\ opens1 = opens /\ finds1 = finds /\ bags1 < bags
      \/ left1 = left /\ opens1 = opens /\ finds1 < finds /\ bags1 = bags
      \/ left1 = left /\ opens1 < opens /\ finds1 = finds /\ bags1 = bags
      \/ left1 < left /\ opens1 = opens /\ finds1 = finds /\ bags1 = bags
  BY <1>5, <1>6, <1>7, <1>8 DEF SameEffort
<1>10. Effort(w1, b1) < Effort(w, b) /\ Effort(w1, b1) <= Effort(w, b)
  BY <1>1, <1>3, <1>4, <1>9
<1> QED BY <1>10, TryIsNoFurther

\* Each decision of a turn that stays at the corpse, from the verified workflow
\* on: none leads back, and one that is ready to act leads on, except that
\* walking and reporting a failed recovery change nothing more.
LEMMA DecisionNearer ==
    ASSUME WorkInv, NEW ready \in BOOLEAN, Turn(ready), active'
    PROVE  /\ NoFurther(loot', where', bag', Verified, where, bag)
           /\ ready => \/ Nearer(loot', where', bag', Verified, where, bag)
                       \/ Walk /\ ~expired
                       \/ RecoveryLost
<1>0. /\ Verified \in Workflow /\ Idle(Verified) /\ Reviewed(Verified, Settled, where)
      /\ bag \in {"none", "closed", "open"} /\ loot' \in Workflow
      /\ Verified.searches = loot.searches /\ Verified.opens = loot.opens
  BY VerifiedIsReviewed, JudgedFields, TurnStep DEF Reviewed, WorkInv, TypeOK
<1>1. ASSUME loot' = Verified, where' = where, bag' = bag
      PROVE  NoFurther(loot', where', bag', Verified, where, bag)
  BY <1>0, <1>1, SameIsNoFurther DEF SameTransaction, SameEffort
<1>2. ~Finish /\ ~SuspendedExpires
  BY DEF Finish, SuspendedExpires, Leave
<1>3. CASE RecoveryLost
  BY <1>1, <1>3 DEF RecoveryLost, Conclude
<1>4. CASE TakePlanned(ready)
  <2>1. HoldsCargo(Verified)
    BY <1>4 DEF TakePlanned, Held
  <2>2. Verified.plan.incoming \in Items
    BY <1>0, <2>1 DEF HoldsCargo, Workflow
  <2>3. ~Verified.needsRecovery => Verified.plan.incoming \notin Verified.unavailable
    BY <1>0, <2>1 DEF Reviewed, HoldsCargo
  <2>4. CASE /\ ~Verified.needsRecovery /\ where[Verified.plan.incoming] = "corpse"
             /\ MoveItem(Verified.plan.incoming)
    BY <2>2, <2>3, <2>4, MoveItemNearer DEF Nearer
  <2>5. CASE ~ready /\ Conclude(Verified)
    BY <1>1, <2>5 DEF Conclude
  <2>6. CASE RecoverCargo(ready)
    BY <2>1, <2>6, RecoverCargoNearer
  <2> QED BY <1>4, <2>4, <2>5, <2>6 DEF TakePlanned
<1>5. CASE Walk
  <2> DEFINE failed == [Verified EXCEPT !.failures = @ + 1,
                                        !.streak = IF pos = loot.failedAt THEN @ + 1 ELSE 1,
                                        !.failedAt = pos]
             halted == [failed EXCEPT !.paused = failed.streak >= SuspendLimit]
  <2>1. SameTransaction(halted, Verified) /\ SameEffort(halted, Verified)
    BY <1>0 DEF SameTransaction, SameEffort, Workflow
  <2>2. ASSUME loot' = halted, where' = where, bag' = bag
        PROVE  NoFurther(loot', where', bag', Verified, where, bag)
    <3> HIDE DEF halted
    <3> QED BY <1>0, <2>1, <2>2, SameIsNoFurther
  <2>3. NoFurther(loot', where', bag', Verified, where, bag)
    BY <1>1, <1>2, <1>5, <2>2 DEF Walk, Conclude
  <2> QED BY <1>2, <1>5, <2>3 DEF Walk
<1>6. CASE Search
  <2> DEFINE w == [Verified EXCEPT !.searches = @ + 1]
  <2>1. /\ SameTransaction(w, Verified) /\ w.attempted = Verified.attempted
        /\ w.opens = Verified.opens /\ w.searches = Verified.searches + 1
    BY <1>0 DEF SameTransaction, Workflow
  <2>2. loot' = w /\ where' = where /\ bag' = bag /\ Verified.searches + 1 < SearchLimit
    BY <1>0, <1>2, <1>6 DEF Search, Conclude
  <2> HIDE DEF w
  <2> QED BY <1>0, <2>1, <2>2, TryIsNearer DEF Nearer
<1>7. CASE OpenCorpse(ready)
  <2> DEFINE w == [Verified EXCEPT !.opens = @ + 1]
  <2>1. /\ SameTransaction(w, Verified) /\ w.attempted = Verified.attempted
        /\ w.searches = Verified.searches /\ w.opens = Verified.opens + 1
    BY <1>0 DEF SameTransaction, Workflow
  <2>2. CASE ~ready /\ Conclude(Verified)
    BY <1>1, <2>2 DEF Conclude
  <2>3. CASE loot' = w /\ where' = where /\ bag' = bag /\ loot.opens + 1 <= 2
    <3> HIDE DEF w
    <3> QED BY <1>0, <2>1, <2>3, TryIsNearer DEF Nearer
  <2> QED BY <1>2, <1>7, <2>2, <2>3 DEF OpenCorpse
<1>8. CASE OpenBackpack(ready)
  <2>1. CASE ~ready /\ Conclude(Verified)
    BY <1>1, <2>1 DEF Conclude
  <2>2. CASE loot' = Verified /\ where' = where /\ bag = "closed" /\ bag' = "open"
    BY <1>0, <2>2, TryIsNearer DEF Nearer, SameTransaction, SameEffort
  <2> QED BY <1>8, <2>1, <2>2 DEF OpenBackpack
<1>9. CASE Choose(ready)
  <2>1. ~HoldsCargo(Verified) /\ ~Verified.needsRecovery
    BY <1>9, NothingHeld DEF Choose, Open, AtCorpse, Free
  <2>2. \A i \in Wanted : i \in Items /\ where[i] = "corpse" /\ i \notin Verified.unavailable
    BY DEF Wanted, In
  <2>3. CASE ~ready /\ Conclude(Verified)
    BY <1>1, <2>3 DEF Conclude
  <2>4. ASSUME NEW n \in Nested \ (Verified.attempted \cup opened),
               loot' = [Verified EXCEPT !.attempted = @ \cup {n}], where' = where, bag' = bag
        PROVE  Nearer(loot', where', bag', Verified, where, bag)
    <3> DEFINE w == [Verified EXCEPT !.attempted = @ \cup {n}]
    <3>1. /\ SameTransaction(w, Verified) /\ w.attempted = Verified.attempted \cup {n}
          /\ w.searches = Verified.searches /\ w.opens = Verified.opens
      BY <1>0 DEF SameTransaction, Workflow
    <3>2. loot' = w
      BY <2>4
    <3> HIDE DEF w
    <3> QED BY <1>0, <2>4, <3>1, <3>2, TryIsNearer
  <2>5. ASSUME NEW i \in Wanted, MoveItem(i)
        PROVE  Nearer(loot', where', bag', Verified, where, bag)
    BY <2>1, <2>2, <2>5, MoveItemNearer
  <2>6. ASSUME NEW i \in Wanted, NEW c \in Lesser(i), DiscardCargo(c, i)
        PROVE  Nearer(loot', where', bag', Verified, where, bag)
    BY <2>1, <2>2, <2>6, DiscardCargoNearer DEF Lesser, In
  <2>7. ASSUME NEW i \in Wanted, Conclude(Suppress(Verified, i))
        PROVE  Nearer(loot', where', bag', Verified, where, bag)
    <3> DEFINE w == Suppress(Verified, i)
    <3>1. /\ w.unavailable = Verified.unavailable \cup {i} /\ SameEffort(w, Verified)
          /\ w.pendingLoot = Verified.pendingLoot /\ w.plan = Verified.plan
      BY <1>0, <2>2, SuppressFields, EffortFields
    <3>2. /\ loot' = w /\ bag' = bag /\ NothingAdded(where', where)
          /\ i \in Untried(Verified, where)
      BY <2>2, <2>7, WantedIsUntried DEF Conclude, NothingAdded
    <3> HIDE DEF w
    <3> QED BY <1>0, <3>1, <3>2, SuppressedIsNearer
  <2>8. CASE Nearer(loot', where', bag', Verified, where, bag)
    BY <2>8 DEF Nearer
  <2> QED BY <1>9, <2>3, <2>4, <2>5, <2>6, <2>7, <2>8 DEF Choose
<1> QED BY <1>2, <1>3, <1>4, <1>5, <1>6, <1>7, <1>8, <1>9 DEF Turn, Exhausted

\* A whole turn, from the state it found.
LEMMA TurnNearer ==
    ASSUME WorkInv, NEW ready \in BOOLEAN, Turn(ready), active'
    PROVE  /\ Measure' <= Measure
           /\ ready => Measure' < Measure \/ (Walk /\ ~expired)
<1>0. loot \in Workflow /\ Verified \in Workflow /\ loot' \in Workflow
  BY VerifiedIsReviewed, TurnStep DEF WorkInv, TypeOK
<1>1. NoFurther(loot', where', bag', Verified, where, bag)
  BY DecisionNearer
<1>2. NoFurther(Verified, where, bag, loot, where, bag)
  BY VerifiedIsNearer
<1>3. /\ NoFurther(loot', where', bag', loot, where, bag)
      /\ \/ Nearer(loot', where', bag', Verified, where, bag)
         \/ Nearer(Verified, where, bag, loot, where, bag)
         => Nearer(loot', where', bag', loot, where, bag)
  BY <1>0, <1>1, <1>2, NearerStill
<1>4. RecoveryLost => Nearer(Verified, where, bag, loot, where, bag)
  BY VerifiedIsNearer DEF RecoveryLost, RecoveryFailed, Idle
<1>5. Measure' = Weight(loot', where', bag')
  BY DEF Measure, Weight, Untried, Stage, Effort, HoldsCargo, Short
<1>6. /\ Weight(loot', where', bag') <= Weight(loot, where, bag)
      /\ Nearer(loot', where', bag', loot, where, bag)
            => Weight(loot', where', bag') < Weight(loot, where, bag)
  BY <1>0, <1>3, WeightFalls
<1> QED BY <1>3, <1>4, <1>5, <1>6, DecisionNearer DEF Measure

\* Nothing but a mishap takes the bot back, and every turn that is ready to act
\* and does not walk brings it nearer to the end of the corpse: no order of
\* refused moves, full bags, closed containers and recoveries makes it go round
\* in circles.  Only so many turns can follow one another, whatever there is to
\* loot.
THEOREM LootingComesToAnEnd == Spec => LootAdvances
<1>1. ASSUME IInv, [Next]_vars, active, active', mishaps' = mishaps
      PROVE  /\ Measure' <= Measure
             /\ Turn(TRUE) => Measure' < Measure \/ (Walk /\ ~expired)
  <2>1. Measure \in Nat
    <3>1. loot \in Workflow
      BY <1>1 DEF IInv, WorkInv, TypeOK
    <3>2. Cardinality(Untried(loot, where)) \in Nat
      BY <3>1, UntriedFinite, FS_CardinalityType
    <3>3. Effort(loot, bag) \in Nat /\ Stage(loot) \in 1..6
      BY <3>1, EffortType, StageType
    <3> QED BY <3>2, <3>3 DEF Measure, Weight
  <2>2. ASSUME NEW ready \in BOOLEAN, Turn(ready) PROVE Measure' <= Measure
    BY <1>1, <2>2, TurnNearer DEF IInv
  <2>3. Turn(TRUE) => Measure' < Measure \/ (Walk /\ ~expired)
    BY <1>1, TurnNearer DEF IInv
  <2>4. ASSUME loot' = loot, where' = where, bag' = bag
        PROVE  Measure' <= Measure
    <3>1. Measure' = Measure
      BY <2>4 DEF Measure, Weight, Untried, Stage, Effort, HoldsCargo, Short
    <3> QED BY <2>1, <3>1
  <2>5. CASE World
    <3>1. mishaps \in 0..MaxMishaps
      BY <1>1 DEF IInv, WorkInv, TypeOK
    <3>2. ~Begin /\ ~Mishap
      BY <1>1, <3>1, LootAssumption DEF Begin, Mishap
    <3>3. CorpseAppears \/ Expire \/ RetryDue
      BY <2>5, <3>2 DEF World, Vanishes, Pushed, Decays, BagCloses, Interrupted
    <3> QED BY <2>3, <2>4, <3>3 DEF CorpseAppears, Expire, RetryDue
  <2>6. CASE UNCHANGED vars
    BY <2>3, <2>4, <2>6 DEF vars
  <2> QED BY <1>1, <2>2, <2>3, <2>5, <2>6 DEF Next
<1>2. IInv /\ [Next]_vars =>
        [active /\ active' /\ mishaps' = mishaps =>
            /\ Measure' <= Measure
            /\ Turn(TRUE) => Measure' < Measure \/ (Walk /\ ~expired)]_vars
  BY <1>1
<1> QED BY <1>2, Invariance, PTL DEF Spec, LootAdvances

=============================================================================
