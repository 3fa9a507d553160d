------------------------- MODULE PlayerBotRouteCache -------------------------
(***************************************************************************)
(* PlayerBotRouteChanges and PlayerBotRouteCache (playerbotroutechanges.h, *)
(* playerbotroutecache.h) with the resumable searches that use them: route *)
(* work that yields between dispatcher turns while the map changes, and    *)
(* completed results shared by every bot.                                  *)
(*                                                                         *)
(* A result rests on the tiles that were looked at.  Its watch remembers   *)
(* which; the bounded journal of changes says whether one of them has      *)
(* changed since.  `facts` is what was really seen: which edit of a tile,  *)
(* under which rules.  No code reads it; the properties compare it with    *)
(* the world.                                                              *)
(***************************************************************************)
EXTENDS Naturals, Sequences

CONSTANTS
    Tiles,
    Works,          \* controllers with route work of their own
    NoWork,
    SegmentKeys,    \* keys of the shared caches: walked segments,
    TreeKeys,       \* source trees, which are taken out, grown and put back,
    SampleKeys,     \* and danger samples
    NoKey,
    JournalLimit,   \* 4096
    MaxChanges      \* bound: edits of the map and reloads

Keys == SegmentKeys \cup TreeKeys \cup SampleKeys

ASSUME RouteAssumption ==
    /\ NoWork \notin Works /\ NoKey \notin Keys
    /\ SegmentKeys \cap TreeKeys = {} /\ SegmentKeys \cap SampleKeys = {}
    /\ TreeKeys \cap SampleKeys = {}
    /\ JournalLimit \in Nat \ {0}
    /\ MaxChanges \in Nat

VARIABLES
    revision,       \* PlayerBotRouteChanges::revision
    epoch,          \* PlayerBotRouteChanges::epoch
    changes,        \* the journal: the tiles of the latest revisions, oldest first
    edit,           \* the world: the revision that last edited the tile
    turn,           \* whose planning turn the dispatcher is running
    work,           \* the pending request and its watch
    segment,        \* the computation nested in it, whose scope is the inner one
    searching,      \* the key it is for
    cache,          \* the shared results
    retained        \* the evidence kept of the last completed request

journalVars == <<revision, epoch, changes, edit>>
vars == <<journalVars, turn, work, segment, searching, cache, retained>>

Fact == [tile : Tiles, edit : Nat, epoch : Nat]
\* A watch with its result.  A cached tree has a watch of its own, of which the
\* entry's is a copy: `own` is its revision.
Proof == [live : BOOLEAN, revision : Nat, epoch : Nat, own : Nat,
          tiles : SUBSET Tiles, facts : SUBSET Fact]

TypeOK ==
    /\ revision \in Nat /\ epoch \in Nat
    /\ changes \in Seq(Tiles) /\ Len(changes) <= JournalLimit
    /\ edit \in [Tiles -> Nat]
    /\ turn \in Works \cup {NoWork}
    /\ work \in [Works -> Proof] /\ segment \in [Works -> Proof]
    /\ searching \in [Works -> Keys \cup {NoKey}]
    /\ cache \in [Keys -> Proof]
    /\ retained \in [Works -> Proof]

Nothing == [live |-> FALSE, revision |-> 0, epoch |-> 0, own |-> 0,
            tiles |-> {}, facts |-> {}]

Init ==
    /\ revision = 0 /\ epoch = 0 /\ changes = <<>>
    /\ edit = [t \in Tiles |-> 0]
    /\ turn = NoWork
    /\ work = [w \in Works |-> Nothing] /\ segment = [w \in Works |-> Nothing]
    /\ searching = [w \in Works |-> NoKey]
    /\ cache = [k \in Keys |-> Nothing]
    /\ retained = [w \in Works |-> Nothing]

-----------------------------------------------------------------------------
(* PlayerBotRouteChanges                                                     *)

\* The journal holds the revisions First..revision, one entry each.
First == revision - Len(changes) + 1
ChangedAt(i) == First + i - 1

\* Mutant: one dropped revision goes unnoticed.
CheckedLate(p) ==
    /\ p.epoch = epoch
    /\ Len(changes) = 0 \/ p.revision + 2 >= First
    /\ \A i \in DOMAIN changes : ChangedAt(i) > p.revision => changes[i] \notin p.tiles

\* Mutant: the revision just before the journal counts as lost.
CheckedEarly(p) ==
    /\ p.epoch = epoch
    /\ Len(changes) = 0 \/ p.revision >= First
    /\ \A i \in DOMAIN changes : ChangedAt(i) > p.revision => changes[i] \notin p.tiles

\* Watch::check(): the same rules, no revision missing from the journal, and no
\* later change to a tile of the watch.
Valid(p) ==
    /\ p.epoch = epoch
    /\ Len(changes) = 0 \/ p.revision + 1 >= First
    /\ \A i \in DOMAIN changes : ChangedAt(i) > p.revision => changes[i] \notin p.tiles

\* A check that passes need not look at the same changes again.
Checked(p) == [p EXCEPT !.revision = revision]

\* A new watch.
Fresh == [live |-> TRUE, revision |-> revision, epoch |-> epoch, own |-> 0,
          tiles |-> {}, facts |-> {}]

Seen(tiles) == {[tile |-> t, edit |-> edit[t], epoch |-> epoch] : t \in tiles}

\* read(), in the scope of the watch.
Reading(p, tiles) ==
    [p EXCEPT !.tiles = @ \cup tiles, !.facts = @ \cup Seen(tiles)]

\* Mutant: the reader of a cached result does not take over its dependencies.
AbsorbingFacts(p, q) == [p EXCEPT !.facts = @ \cup q.facts]

\* absorb(): whoever uses a result depends on what it depends on.
Absorbing(p, q) ==
    [p EXCEPT !.tiles = @ \cup q.tiles, !.facts = @ \cup q.facts]

\* Mutant: the journal keeps one entry too many.
ChangedUntrimmed(t) ==
    /\ turn = NoWork /\ revision + epoch < MaxChanges
    /\ revision' = revision + 1
    /\ edit' = [edit EXCEPT ![t] = revision + 1]
    /\ changes' = IF Len(changes) > JournalLimit THEN Append(Tail(changes), t)
                  ELSE Append(changes, t)
    /\ UNCHANGED <<epoch, turn, work, segment, searching, cache, retained>>

\* changed(): a revision for the journal, which forgets its oldest.
Changed(t) ==
    /\ turn = NoWork /\ revision + epoch < MaxChanges
    /\ revision' = revision + 1
    /\ edit' = [edit EXCEPT ![t] = revision + 1]
    /\ changes' = IF Len(changes) = JournalLimit THEN Append(Tail(changes), t)
                  ELSE Append(changes, t)
    /\ UNCHANGED <<epoch, turn, work, segment, searching, cache, retained>>

\* invalidate(): houses, actions, items or monsters are reloaded.
Invalidate ==
    /\ turn = NoWork /\ revision + epoch < MaxChanges
    /\ epoch' = epoch + 1
    /\ UNCHANGED <<revision, changes, edit, turn, work, segment, searching,
                   cache, retained>>

-----------------------------------------------------------------------------
(* A request of one controller: its turns                                    *)

\* The request is new.
StartWork(w) ==
    /\ turn = NoWork /\ ~work[w].live
    /\ work' = [work EXCEPT ![w] = Fresh]
    /\ turn' = w
    /\ UNCHANGED <<journalVars, segment, searching, cache, retained>>

\* Mutant: the request is resumed without a look at the journal.
ResumeUnchecked(w) ==
    /\ turn = NoWork /\ work[w].live
    /\ work' = [work EXCEPT ![w] = Checked(@)]
    /\ turn' = w
    /\ UNCHANGED <<journalVars, segment, searching, cache, retained>>

\* Its frontier is still good.
ResumeWork(w) ==
    /\ turn = NoWork /\ work[w].live /\ Valid(work[w])
    /\ work' = [work EXCEPT ![w] = Checked(@)]
    /\ turn' = w
    /\ UNCHANGED <<journalVars, segment, searching, cache, retained>>

\* It is not: the request starts over with nothing.
RestartWork(w) ==
    /\ turn = NoWork /\ work[w].live /\ ~Valid(work[w])
    /\ work' = [work EXCEPT ![w] = Fresh]
    /\ segment' = [segment EXCEPT ![w] = Nothing]
    /\ searching' = [searching EXCEPT ![w] = NoKey]
    /\ turn' = w
    /\ UNCHANGED <<journalVars, cache, retained>>

\* The controller stops planning, or the request has restarted too often.
AbandonWork(w) ==
    /\ turn = NoWork /\ work[w].live
    /\ work' = [work EXCEPT ![w] = Nothing]
    /\ segment' = [segment EXCEPT ![w] = Nothing]
    /\ searching' = [searching EXCEPT ![w] = NoKey]
    /\ UNCHANGED <<journalVars, turn, cache, retained>>

\* The slice ends.
Yield(w) ==
    /\ turn = w /\ turn' = NoWork
    /\ UNCHANGED <<journalVars, work, segment, searching, cache, retained>>

\* The route is complete; its evidence is kept for execution.
FinishWork(w) ==
    /\ turn = w /\ ~segment[w].live
    /\ retained' = [retained EXCEPT ![w] = work[w]]
    /\ work' = [work EXCEPT ![w] = Nothing]
    /\ turn' = NoWork
    /\ UNCHANGED <<journalVars, segment, searching, cache>>

-----------------------------------------------------------------------------
(* Inside a turn                                                             *)

\* A result is used in the scopes that are open.
Using(w, p) ==
    /\ work' = [work EXCEPT ![w] = Absorbing(@, p)]
    /\ segment' = [segment EXCEPT ![w] = IF @.live THEN Absorbing(@, p) ELSE @]

\* Mutant: only the innermost scope records the read.
ReadInner(w, t) ==
    /\ turn = w
    /\ work' = [work EXCEPT ![w] = IF segment[w].live THEN @ ELSE Reading(@, {t})]
    /\ segment' = [segment EXCEPT ![w] = IF @.live THEN Reading(@, {t}) ELSE @]
    /\ UNCHANGED <<journalVars, turn, searching, cache, retained>>

\* Map::getTile: every open scope records the read.
Read(w, t) ==
    /\ turn = w
    /\ work' = [work EXCEPT ![w] = Reading(@, {t})]
    /\ segment' = [segment EXCEPT ![w] = IF @.live THEN Reading(@, {t}) ELSE @]
    /\ UNCHANGED <<journalVars, turn, searching, cache, retained>>

Cached(k) == cache[k].live /\ Valid(cache[k])

\* lookup() finds nothing, or something stale that it erases: the segment is
\* searched for, in a scope of its own.
SearchSegment(w, k) ==
    /\ turn = w /\ ~segment[w].live /\ k \in SegmentKeys \cup TreeKeys /\ ~Cached(k)
    /\ cache' = [cache EXCEPT ![k] = Nothing]
    /\ segment' = [segment EXCEPT ![w] = Fresh]
    /\ searching' = [searching EXCEPT ![w] = k]
    /\ UNCHANGED <<journalVars, turn, work, retained>>

\* lookup() finds a segment.  The steps are tried on the live map; when one of
\* them is refused the segment is searched for after all.
ReuseSegment(w, k, accepted) ==
    /\ turn = w /\ ~segment[w].live /\ k \in SegmentKeys /\ Cached(k)
    /\ cache' = [cache EXCEPT ![k] = Checked(@)]
    /\ work' = [work EXCEPT ![w] = Absorbing(@, cache[k])]
    /\ segment' = [segment EXCEPT ![w] = IF accepted THEN @ ELSE Fresh]
    /\ searching' = [searching EXCEPT ![w] = IF accepted THEN @ ELSE k]
    /\ UNCHANGED <<journalVars, turn, retained>>

\* take(): a tree is checked out, with its own watch, to be grown.
TakeTree(w, k) ==
    /\ turn = w /\ ~segment[w].live /\ k \in TreeKeys /\ Cached(k)
    /\ cache' = [cache EXCEPT ![k] = Nothing]
    /\ work' = [work EXCEPT ![w] = Absorbing(@, cache[k])]
    /\ segment' = [segment EXCEPT ![w] = [cache[k] EXCEPT !.revision = cache[k].own, !.own = 0]]
    /\ searching' = [searching EXCEPT ![w] = k]
    /\ UNCHANGED <<journalVars, turn, retained>>

\* A danger sample another bot has computed, or a tree that has been grown as far
\* as the request allows: it is used where it is.
ReuseResult(w, k) ==
    /\ turn = w /\ k \in SampleKeys \cup TreeKeys /\ Cached(k)
    /\ k \in TreeKeys => ~segment[w].live
    /\ cache' = [cache EXCEPT ![k] = Checked(@)]
    /\ Using(w, cache[k])
    /\ UNCHANGED <<journalVars, turn, searching, retained>>

\* The new entry of a key.
Entry(k, p) == [Checked(p) EXCEPT !.own = IF k \in TreeKeys THEN p.revision ELSE 0]

\* insert() refuses a stale result, or one that is too large, and otherwise
\* replaces the entry and evicts others for its room.
Inserted(before, k, p) ==
    \/ cache' = before
    \/ /\ Valid(p)
       /\ \E evicted \in SUBSET (Keys \ {k}) :
            cache' = [j \in Keys |-> IF j = k THEN Entry(k, p)
                                     ELSE IF j \in evicted THEN Nothing ELSE before[j]]

\* A danger sample is computed, its line of sight crosses `tiles`.
ComputeSample(w, k, tiles) ==
    LET sample == Reading(Fresh, tiles) IN
    /\ turn = w /\ k \in SampleKeys /\ ~Cached(k)
    /\ Using(w, sample)
    /\ Inserted([cache EXCEPT ![k] = Nothing], k, sample)
    /\ UNCHANGED <<journalVars, turn, searching, retained>>

\* The nested search is complete: it is offered to the cache, and used.
FinishSegment(w) ==
    /\ turn = w /\ segment[w].live
    /\ Inserted(cache, searching[w], segment[w])
    /\ segment' = [segment EXCEPT ![w] = Nothing]
    /\ searching' = [searching EXCEPT ![w] = NoKey]
    /\ UNCHANGED <<journalVars, turn, work, retained>>

\* It failed: nothing is cached.
DropSegment(w) ==
    /\ turn = w /\ segment[w].live
    /\ segment' = [segment EXCEPT ![w] = Nothing]
    /\ searching' = [searching EXCEPT ![w] = NoKey]
    /\ UNCHANGED <<journalVars, turn, work, cache, retained>>

\* The evidence of an earlier request is still good and becomes part of this one.
ReuseEvidence(w) ==
    /\ turn = w /\ ~segment[w].live /\ retained[w].live /\ Valid(retained[w])
    /\ retained' = [retained EXCEPT ![w] = Checked(@)]
    /\ work' = [work EXCEPT ![w] = Absorbing(@, retained[w])]
    /\ UNCHANGED <<journalVars, turn, segment, searching, cache>>

DropEvidence(w) ==
    /\ turn = w /\ ~segment[w].live /\ retained[w].live /\ ~Valid(retained[w])
    /\ retained' = [retained EXCEPT ![w] = Nothing]
    /\ UNCHANGED <<journalVars, turn, work, segment, searching, cache>>

-----------------------------------------------------------------------------

Turns(w) ==
    \/ StartWork(w) \/ ResumeWork(w) \/ RestartWork(w) \/ AbandonWork(w)
    \/ Yield(w) \/ FinishWork(w)

Planning(w) ==
    \/ FinishSegment(w) \/ DropSegment(w) \/ ReuseEvidence(w) \/ DropEvidence(w)
    \/ \E t \in Tiles : Read(w, t)
    \/ \E k \in Keys :
        \/ SearchSegment(w, k) \/ TakeTree(w, k) \/ ReuseResult(w, k)
        \/ \E accepted \in BOOLEAN : ReuseSegment(w, k, accepted)
        \/ \E tiles \in SUBSET Tiles \ {{}} : ComputeSample(w, k, tiles)

Next ==
    \/ Invalidate \/ \E t \in Tiles : Changed(t)
    \/ \E w \in Works : Turns(w) \/ Planning(w)

Spec == Init /\ [][Next]_vars

-----------------------------------------------------------------------------
(* Properties *)

\* What was seen is how things are.
Current(p) == \A f \in p.facts : edit[f.tile] = f.edit /\ f.epoch = epoch

\* A shared result that a lookup would return rests on the map as it is now,
\* whoever computed it, over however many turns, from whatever other results.
CacheIsFresh == \A k \in Keys : Cached(k) => Current(cache[k])

\* So does the evidence that execution accepts.
EvidenceIsFresh ==
    \A w \in Works : retained[w].live /\ Valid(retained[w]) => Current(retained[w])

\* During its turn a request rests on nothing that has changed since its
\* earlier turns, be it seen directly or through a nested or cached result.
TurnIsFresh == turn # NoWork => Current(work[turn])

\* A request never rests on less than the computation nested in it.
ScopesNest ==
    \A w \in Works : segment[w].live =>
        segment[w].tiles \subseteq work[w].tiles /\ segment[w].facts \subseteq work[w].facts

\* Only what had to go goes: an entry none of whose tiles has changed is
\* returned until the journal has run over.
CacheIsPrecise ==
    \A k \in Keys :
        LET p == cache[k] IN
        p.live /\ p.epoch = epoch /\ revision - p.revision <= JournalLimit
            /\ (\A t \in p.tiles : edit[t] <= p.revision) => Cached(k)

=============================================================================
