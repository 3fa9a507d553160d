---------------------- MODULE PlayerBotRouteCache_proofs ----------------------
(***************************************************************************)
(* Proofs about PlayerBotRouteCache: whatever the tiles, the controllers,  *)
(* the keys and the length of the journal, a result that passes its check  *)
(* rests on the map as it is.                                              *)
(***************************************************************************)
EXTENDS PlayerBotRouteCache, SequenceTheorems, TLAPS

\* The journal is the record of the latest revisions: an edit it could still hold
\* is in it, under its own revision.
JournalInv ==
    /\ Len(changes) <= revision
    /\ Len(changes) = 0 => revision = 0
    /\ revision > Len(changes) => Len(changes) = JournalLimit
    /\ \A t \in Tiles : edit[t] <= revision
    /\ \A t \in Tiles : edit[t] >= First => changes[edit[t] - First + 1] = t
    /\ \A i \in DOMAIN changes : edit[changes[i]] >= ChangedAt(i)

\* A watch covers what was seen, and what has changed since has changed after
\* the revision the watch was last checked at.
Sound(p) ==
    /\ p.revision <= revision /\ p.own <= p.revision /\ p.epoch <= epoch
    /\ \A f \in p.facts : f.tile \in p.tiles
    /\ p.epoch = epoch =>
        \A f \in p.facts :
            f.epoch = epoch /\ (f.edit = edit[f.tile] \/ edit[f.tile] > p.revision)

HoldersInv ==
    /\ \A w \in Works : Sound(work[w]) /\ Sound(segment[w]) /\ Sound(retained[w])
    /\ \A k \in Keys : Sound(cache[k])

\* In its turn a request has been checked, and the map waits.
TurnInv ==
    turn # NoWork =>
        work[turn].live /\ work[turn].epoch = epoch /\ work[turn].revision = revision

NestInv ==
    /\ ScopesNest
    /\ \A w \in Works : segment[w].live => work[w].live /\ searching[w] \in Keys

IInv == TypeOK /\ JournalInv /\ HoldersInv /\ TurnInv /\ NestInv

-----------------------------------------------------------------------------
(* Watches                                                                   *)

\* The numbers of the journal are integers, and its entries are tiles.
LEMMA JournalIsTyped ==
    ASSUME TypeOK
    PROVE  /\ First \in Int /\ Len(changes) \in Nat /\ DOMAIN changes = 1..Len(changes)
           /\ \A i \in DOMAIN changes : changes[i] \in Tiles /\ ChangedAt(i) \in Int
BY DEF TypeOK, First, ChangedAt

\* What a check lets pass rests on nothing that has changed.
LEMMA ValidIsCurrent ==
    ASSUME TypeOK, JournalInv, NEW p \in Proof, Sound(p), Valid(p)
    PROVE  Current(p)
<1>1. SUFFICES ASSUME NEW f \in p.facts, edit[f.tile] > p.revision
               PROVE  FALSE
  BY DEF Current, Sound, Valid
<1>2. f.tile \in Tiles /\ f.tile \in p.tiles /\ edit[f.tile] \in Nat /\ p.revision \in Nat
  BY <1>1 DEF Proof, Fact, Sound, TypeOK
<1> DEFINE i == edit[f.tile] - First + 1
<1>3. edit[f.tile] >= First
  <2>1. CASE Len(changes) = 0
    BY <2>1, <1>1, <1>2 DEF JournalInv, TypeOK
  <2>2. CASE p.revision + 1 >= First
    BY <2>2, <1>1, <1>2, JournalIsTyped
  <2>. QED BY <2>1, <2>2 DEF Valid
<1>4. i \in DOMAIN changes /\ ChangedAt(i) = edit[f.tile]
  BY <1>2, <1>3, JournalIsTyped DEF JournalInv, First, ChangedAt, TypeOK
<1>5. changes[i] = f.tile
  BY <1>2, <1>3 DEF JournalInv
<1>. QED BY <1>1, <1>2, <1>4, <1>5 DEF Valid

LEMMA NothingIsSound ==
    ASSUME TypeOK
    PROVE  Nothing \in Proof /\ Sound(Nothing)
BY DEF Nothing, Proof, Sound, TypeOK

LEMMA FreshIsSound ==
    ASSUME TypeOK
    PROVE  Fresh \in Proof /\ Sound(Fresh)
BY DEF Fresh, Proof, Sound, TypeOK

\* What has been checked is sound at the revision of the check.
LEMMA CheckedIsSound ==
    ASSUME TypeOK, JournalInv, NEW p \in Proof, Sound(p), Valid(p)
    PROVE  Checked(p) \in Proof /\ Sound(Checked(p))
<1>1. Current(p)
  BY ValidIsCurrent
<1>2. Checked(p) \in Proof
  BY DEF Checked, Proof, TypeOK
<1>3. /\ Checked(p).revision = revision /\ Checked(p).own = p.own
      /\ Checked(p).epoch = p.epoch /\ Checked(p).tiles = p.tiles
      /\ Checked(p).facts = p.facts
  BY DEF Checked, Proof
<1>4. revision \in Nat /\ p.revision \in Nat /\ p.own \in Nat
  BY DEF Proof, TypeOK
<1>. QED BY <1>1, <1>2, <1>3, <1>4 DEF Sound, Current

LEMMA ReadingIsSound ==
    ASSUME TypeOK, NEW p \in Proof, Sound(p), NEW tiles \in SUBSET Tiles
    PROVE  Reading(p, tiles) \in Proof /\ Sound(Reading(p, tiles))
<1>1. \A f \in Seen(tiles) : /\ f \in Fact /\ f.tile \in tiles
                             /\ f.epoch = epoch /\ f.edit = edit[f.tile]
  BY DEF Seen, Fact, TypeOK
<1>2. Seen(tiles) \subseteq Fact
  BY <1>1
<1>. QED BY <1>1, <1>2 DEF Reading, Proof, Sound

LEMMA AbsorbingIsSound ==
    ASSUME TypeOK, NEW p \in Proof, Sound(p), NEW q \in Proof, Sound(q), Current(q)
    PROVE  Absorbing(p, q) \in Proof /\ Sound(Absorbing(p, q))
BY DEF Absorbing, Proof, Sound, Current

LEMMA EntryIsSound ==
    ASSUME TypeOK, JournalInv, NEW k \in Keys, NEW p \in Proof, Sound(p), Valid(p)
    PROVE  Entry(k, p) \in Proof /\ Sound(Entry(k, p))
<1>1. Checked(p) \in Proof /\ Sound(Checked(p)) /\ Checked(p).revision = revision
  BY CheckedIsSound DEF Checked, Proof
<1>2. p.revision \in Nat /\ p.revision <= revision /\ revision \in Nat
  BY DEF Proof, Sound, TypeOK
<1>. QED BY <1>1, <1>2 DEF Entry, Proof, Sound

-----------------------------------------------------------------------------
(* Steps that leave the map alone                                            *)

\* What a planning step leaves behind: sound watches, and the journal as it was.
Quiet ==
    /\ UNCHANGED journalVars
    /\ work' \in [Works -> Proof] /\ \A w \in Works : Sound(work'[w])
    /\ segment' \in [Works -> Proof] /\ \A w \in Works : Sound(segment'[w])
    /\ retained' \in [Works -> Proof] /\ \A w \in Works : Sound(retained'[w])
    /\ cache' \in [Keys -> Proof] /\ \A k \in Keys : Sound(cache'[k])

LEMMA QuietKeepsHolders ==
    ASSUME IInv, Quiet, turn' \in Works \cup {NoWork},
           searching' \in [Works -> Keys \cup {NoKey}]
    PROVE  TypeOK' /\ JournalInv' /\ HoldersInv'
<1>1. TypeOK'
  BY DEF IInv, TypeOK, Quiet, journalVars
<1>2. JournalInv'
  BY DEF IInv, JournalInv, Quiet, journalVars, First, ChangedAt
<1>3. HoldersInv'
  BY DEF HoldersInv, Sound, Quiet, journalVars
<1>. QED BY <1>1, <1>2, <1>3

\* The watches of the state are sound, and those that pass their check current.
LEMMA HoldersAreSound ==
    ASSUME IInv
    PROVE  /\ \A w \in Works : /\ work[w] \in Proof /\ Sound(work[w])
                               /\ segment[w] \in Proof /\ Sound(segment[w])
                               /\ retained[w] \in Proof /\ Sound(retained[w])
           /\ \A k \in Keys : cache[k] \in Proof /\ Sound(cache[k])
BY DEF IInv, TypeOK, HoldersInv

LEMMA TurnStarts ==
    ASSUME IInv, NEW w \in Works,
           \/ StartWork(w) \/ ResumeWork(w) \/ RestartWork(w)
    PROVE  IInv'
<1>1. Fresh \in Proof /\ Sound(Fresh) /\ Fresh.live /\ Fresh.revision = revision /\ Fresh.epoch = epoch
  BY FreshIsSound DEF IInv, Fresh
<1>2. Nothing \in Proof /\ Sound(Nothing) /\ ~Nothing.live
  BY NothingIsSound DEF IInv, Nothing
<1>3. ASSUME Valid(work[w]), work[w].live
      PROVE  /\ Checked(work[w]) \in Proof /\ Sound(Checked(work[w])) /\ Checked(work[w]).live
             /\ Checked(work[w]).revision = revision /\ Checked(work[w]).epoch = epoch
             /\ Checked(work[w]).tiles = work[w].tiles /\ Checked(work[w]).facts = work[w].facts
  <2>1. work[w] \in Proof /\ Sound(work[w])
    BY HoldersAreSound
  <2>2. Checked(work[w]) \in Proof /\ Sound(Checked(work[w]))
    BY <1>3, <2>1, CheckedIsSound DEF IInv
  <2>. QED BY <1>3, <2>1, <2>2 DEF Checked, Proof, Valid
<1>4. CASE StartWork(w)
  <2>1. Quiet
    BY <1>1, <1>4, HoldersAreSound DEF StartWork, Quiet, IInv, TypeOK
  <2>2. TypeOK' /\ JournalInv' /\ HoldersInv'
    BY <1>4, <2>1, QuietKeepsHolders DEF StartWork, IInv, TypeOK
  <2>3. TurnInv'
    BY <1>1, <1>4 DEF StartWork, TurnInv, journalVars, IInv, TypeOK
  <2>4. NestInv'
    BY <1>1, <1>4 DEF StartWork, NestInv, ScopesNest, IInv, TypeOK
  <2>. QED BY <2>2, <2>3, <2>4 DEF IInv
<1>5. CASE ResumeWork(w)
  <2>1. Quiet
    BY <1>3, <1>5, HoldersAreSound DEF ResumeWork, Quiet, IInv, TypeOK
  <2>2. TypeOK' /\ JournalInv' /\ HoldersInv'
    BY <1>5, <2>1, QuietKeepsHolders DEF ResumeWork, IInv, TypeOK
  <2>3. TurnInv'
    BY <1>3, <1>5 DEF ResumeWork, TurnInv, journalVars, IInv, TypeOK
  <2>4. NestInv'
    BY <1>3, <1>5 DEF ResumeWork, NestInv, ScopesNest, IInv, TypeOK
  <2>. QED BY <2>2, <2>3, <2>4 DEF IInv
<1>6. CASE RestartWork(w)
  <2>1. Quiet
    BY <1>1, <1>2, <1>6, HoldersAreSound DEF RestartWork, Quiet, IInv, TypeOK
  <2>2. TypeOK' /\ JournalInv' /\ HoldersInv'
    BY <1>6, <2>1, QuietKeepsHolders DEF RestartWork, IInv, TypeOK
  <2>3. TurnInv'
    BY <1>1, <1>6 DEF RestartWork, TurnInv, journalVars, IInv, TypeOK
  <2>4. NestInv'
    BY <1>1, <1>2, <1>6 DEF RestartWork, NestInv, ScopesNest, IInv, TypeOK
  <2>. QED BY <2>2, <2>3, <2>4 DEF IInv
<1>. QED BY <1>4, <1>5, <1>6

LEMMA TurnEnds ==
    ASSUME IInv, NEW w \in Works,
           \/ AbandonWork(w) \/ Yield(w) \/ FinishWork(w)
    PROVE  IInv'
<1>1. Nothing \in Proof /\ Sound(Nothing) /\ ~Nothing.live
  BY NothingIsSound DEF IInv, Nothing
<1>2. CASE AbandonWork(w)
  <2>1. Quiet
    BY <1>1, <1>2, HoldersAreSound DEF AbandonWork, Quiet, IInv, TypeOK
  <2>2. TypeOK' /\ JournalInv' /\ HoldersInv'
    BY <1>2, <2>1, QuietKeepsHolders DEF AbandonWork, IInv, TypeOK
  <2>3. TurnInv' /\ NestInv'
    BY <1>1, <1>2 DEF AbandonWork, TurnInv, NestInv, ScopesNest, IInv, TypeOK
  <2>. QED BY <2>2, <2>3 DEF IInv
<1>3. CASE Yield(w)
  <2>1. Quiet
    BY <1>3, HoldersAreSound DEF Yield, Quiet, IInv, TypeOK
  <2>2. TypeOK' /\ JournalInv' /\ HoldersInv'
    BY <1>3, <2>1, QuietKeepsHolders DEF Yield, IInv, TypeOK
  <2>3. TurnInv' /\ NestInv'
    BY <1>3 DEF Yield, TurnInv, NestInv, ScopesNest, IInv, TypeOK
  <2>. QED BY <2>2, <2>3 DEF IInv
<1>4. CASE FinishWork(w)
  <2>1. Quiet
    BY <1>1, <1>4, HoldersAreSound DEF FinishWork, Quiet, IInv, TypeOK
  <2>2. TypeOK' /\ JournalInv' /\ HoldersInv'
    BY <1>4, <2>1, QuietKeepsHolders DEF FinishWork, IInv, TypeOK
  <2>3. TurnInv' /\ NestInv'
    BY <1>1, <1>4 DEF FinishWork, TurnInv, NestInv, ScopesNest, IInv, TypeOK
  <2>. QED BY <2>2, <2>3 DEF IInv
<1>. QED BY <1>2, <1>3, <1>4

-----------------------------------------------------------------------------
(* Steps within a turn                                                       *)

\* A turn does not move while it lasts: reading, absorbing and caching leave the
\* request checked, alive, and at least as dependent as it was.
Grows(w) ==
    /\ turn = w /\ turn' = turn /\ UNCHANGED journalVars
    /\ \A v \in Works \ {w} : work'[v] = work[v] /\ segment'[v] = segment[v]
                              /\ searching'[v] = searching[v]
    /\ work'[w].live = work[w].live /\ work'[w].epoch = work[w].epoch
    /\ work'[w].revision = work[w].revision
    /\ segment'[w].live =>
        /\ segment'[w].tiles \subseteq work'[w].tiles
        /\ segment'[w].facts \subseteq work'[w].facts
        /\ searching'[w] \in Keys

LEMMA GrowingKeepsIInv ==
    ASSUME IInv, NEW w \in Works, Quiet, Grows(w),
           searching' \in [Works -> Keys \cup {NoKey}]
    PROVE  IInv'
<1>1. TypeOK' /\ JournalInv' /\ HoldersInv'
  BY QuietKeepsHolders DEF IInv, TypeOK, Grows
<1>2. w # NoWork
  BY RouteAssumption
<1>3. TurnInv'
  BY <1>2 DEF IInv, TurnInv, Grows, journalVars
<1>4. NestInv'
  BY <1>2 DEF IInv, NestInv, ScopesNest, TurnInv, Grows
<1>. QED BY <1>1, <1>3, <1>4 DEF IInv

\* The fields of a watch that reading and absorbing leave alone, and those they grow.
LEMMA ReadingGrows ==
    ASSUME NEW p \in Proof, NEW tiles
    PROVE  /\ Reading(p, tiles).live = p.live /\ Reading(p, tiles).epoch = p.epoch
           /\ Reading(p, tiles).revision = p.revision
           /\ Reading(p, tiles).tiles = p.tiles \cup tiles
           /\ Reading(p, tiles).facts = p.facts \cup Seen(tiles)
BY DEF Reading, Proof

LEMMA AbsorbingGrows ==
    ASSUME NEW p \in Proof, NEW q \in Proof
    PROVE  /\ Absorbing(p, q).live = p.live /\ Absorbing(p, q).epoch = p.epoch
           /\ Absorbing(p, q).revision = p.revision
           /\ Absorbing(p, q).tiles = p.tiles \cup q.tiles
           /\ Absorbing(p, q).facts = p.facts \cup q.facts
BY DEF Absorbing, Proof

LEMMA ReadKeepsIInv ==
    ASSUME IInv, NEW w \in Works, NEW t \in Tiles, Read(w, t)
    PROVE  IInv'
<1> DEFINE grown(p) == Reading(p, {t})
<1>1. \A p \in Proof : Sound(p) => grown(p) \in Proof /\ Sound(grown(p))
  BY ReadingIsSound DEF IInv
<1>2. \A p \in Proof : /\ grown(p).live = p.live /\ grown(p).epoch = p.epoch
                       /\ grown(p).revision = p.revision
                       /\ grown(p).tiles = p.tiles \cup {t}
                       /\ grown(p).facts = p.facts \cup Seen({t})
  BY ReadingGrows
<1> HIDE DEF grown
<1>3. /\ turn = w /\ UNCHANGED <<journalVars, turn, searching, cache, retained>>
      /\ work' = [work EXCEPT ![w] = grown(work[w])]
      /\ segment' = [segment EXCEPT ![w] = IF segment[w].live THEN grown(segment[w]) ELSE segment[w]]
  BY DEF Read, grown
<1>4. Quiet
  BY <1>1, <1>3, HoldersAreSound DEF Quiet, IInv, TypeOK
<1>5. Grows(w)
  BY <1>2, <1>3, HoldersAreSound DEF Grows, IInv, TypeOK, NestInv, ScopesNest
<1>. QED BY <1>3, <1>4, <1>5, GrowingKeepsIInv DEF IInv, TypeOK

\* A cached result, checked, is current.
LEMMA CachedIsCurrent ==
    ASSUME IInv, NEW k \in Keys, Cached(k)
    PROVE  /\ Current(cache[k])
           /\ Checked(cache[k]) \in Proof /\ Sound(Checked(cache[k]))
           /\ cache[k].live /\ cache[k].epoch = epoch
<1>1. cache[k] \in Proof /\ Sound(cache[k]) /\ Valid(cache[k])
  BY HoldersAreSound DEF Cached
<1>. QED BY <1>1, ValidIsCurrent, CheckedIsSound DEF Cached, Valid, IInv

LEMMA SearchKeepsIInv ==
    ASSUME IInv, NEW w \in Works, NEW k \in Keys, SearchSegment(w, k)
    PROVE  IInv'
<1>1. /\ Fresh \in Proof /\ Sound(Fresh) /\ Fresh.tiles = {} /\ Fresh.facts = {}
      /\ Nothing \in Proof /\ Sound(Nothing)
  BY FreshIsSound, NothingIsSound DEF IInv, Fresh
<1>2. Quiet
  BY <1>1, HoldersAreSound DEF SearchSegment, Quiet, IInv, TypeOK
<1>3. Grows(w)
  BY <1>1 DEF SearchSegment, Grows, IInv, TypeOK
<1>. QED BY <1>2, <1>3, GrowingKeepsIInv DEF SearchSegment, IInv, TypeOK

LEMMA ReuseSegmentKeepsIInv ==
    ASSUME IInv, NEW w \in Works, NEW k \in Keys, NEW accepted \in BOOLEAN,
           ReuseSegment(w, k, accepted)
    PROVE  IInv'
<1>1. Fresh \in Proof /\ Sound(Fresh) /\ Fresh.tiles = {} /\ Fresh.facts = {}
  BY FreshIsSound DEF IInv, Fresh
<1>2. Current(cache[k]) /\ Checked(cache[k]) \in Proof /\ Sound(Checked(cache[k]))
  BY CachedIsCurrent DEF ReuseSegment
<1> DEFINE grown == Absorbing(work[w], cache[k])
<1>3. grown \in Proof /\ Sound(grown)
  BY <1>2, AbsorbingIsSound, HoldersAreSound DEF IInv
<1>4. grown.live = work[w].live /\ grown.epoch = work[w].epoch /\ grown.revision = work[w].revision
  BY AbsorbingGrows, HoldersAreSound
<1> HIDE DEF grown
<1>5. work' = [work EXCEPT ![w] = grown]
  BY DEF ReuseSegment, grown
<1>6. Quiet
  BY <1>1, <1>2, <1>3, <1>5, HoldersAreSound DEF ReuseSegment, Quiet, IInv, TypeOK
<1>7. Grows(w)
  BY <1>1, <1>4, <1>5 DEF ReuseSegment, Grows, IInv, TypeOK
<1>. QED BY <1>6, <1>7, GrowingKeepsIInv DEF ReuseSegment, IInv, TypeOK

LEMMA TakeKeepsIInv ==
    ASSUME IInv, NEW w \in Works, NEW k \in Keys, TakeTree(w, k)
    PROVE  IInv'
<1> DEFINE grown == Absorbing(work[w], cache[k])
           tree == [cache[k] EXCEPT !.revision = cache[k].own, !.own = 0]
<1>1. Current(cache[k]) /\ cache[k] \in Proof /\ Sound(cache[k]) /\ work[w] \in Proof /\ Sound(work[w])
  BY CachedIsCurrent, HoldersAreSound DEF TakeTree
<1>2. grown \in Proof /\ Sound(grown)
  BY <1>1, AbsorbingIsSound DEF IInv
<1>3. /\ grown.live = work[w].live /\ grown.epoch = work[w].epoch
      /\ grown.revision = work[w].revision
      /\ cache[k].tiles \subseteq grown.tiles /\ cache[k].facts \subseteq grown.facts
  BY <1>1, AbsorbingGrows
<1>4. /\ tree \in Proof /\ tree.revision = cache[k].own /\ tree.own = 0
      /\ tree.epoch = cache[k].epoch /\ tree.tiles = cache[k].tiles /\ tree.facts = cache[k].facts
  BY <1>1 DEF Proof
<1>5. Sound(tree)
  <2>1. cache[k].own \in Nat /\ cache[k].revision \in Nat /\ revision \in Nat
    BY <1>1 DEF Proof, IInv, TypeOK
  <2>2. \A f \in cache[k].facts : f.epoch = epoch /\ f.edit = edit[f.tile]
    BY <1>1 DEF Current
  <2>. QED BY <1>1, <1>4, <2>1, <2>2 DEF Sound
<1>6. Nothing \in Proof /\ Sound(Nothing)
  BY NothingIsSound DEF IInv
<1>7. /\ work' = [work EXCEPT ![w] = grown] /\ segment' = [segment EXCEPT ![w] = tree]
  BY DEF TakeTree
<1> HIDE DEF grown, tree
<1>8. Quiet
  BY <1>2, <1>4, <1>5, <1>6, <1>7, HoldersAreSound DEF TakeTree, Quiet, IInv, TypeOK
<1>9. Grows(w)
  BY <1>3, <1>4, <1>7 DEF TakeTree, Grows, IInv, TypeOK
<1>. QED BY <1>8, <1>9, GrowingKeepsIInv DEF TakeTree, IInv, TypeOK

\* Using a sound and current result, the rest being sound, keeps the invariant.
LEMMA UsingKeepsIInv ==
    ASSUME IInv, NEW w \in Works, turn = w,
           NEW p \in Proof, Sound(p), Current(p), Using(w, p),
           UNCHANGED <<journalVars, turn, searching, retained>>,
           cache' \in [Keys -> Proof], \A k \in Keys : Sound(cache'[k])
    PROVE  IInv'
<1> DEFINE grown(q) == Absorbing(q, p)
<1>1. \A q \in Proof : Sound(q) => grown(q) \in Proof /\ Sound(grown(q))
  BY AbsorbingIsSound DEF IInv
<1>2. \A q \in Proof : /\ grown(q).live = q.live /\ grown(q).epoch = q.epoch
                       /\ grown(q).revision = q.revision
                       /\ grown(q).tiles = q.tiles \cup p.tiles
                       /\ grown(q).facts = q.facts \cup p.facts
  BY AbsorbingGrows
<1>3. /\ work' = [work EXCEPT ![w] = grown(work[w])]
      /\ segment' = [segment EXCEPT ![w] = IF segment[w].live THEN grown(segment[w]) ELSE segment[w]]
  BY DEF Using, grown
<1> HIDE DEF grown
<1>4. Quiet
  BY <1>1, <1>3, HoldersAreSound DEF Quiet, IInv, TypeOK
<1>5. Grows(w)
  BY <1>2, <1>3, HoldersAreSound DEF Grows, IInv, TypeOK, NestInv, ScopesNest
<1>. QED BY <1>4, <1>5, GrowingKeepsIInv DEF IInv, TypeOK

LEMMA ReuseResultKeepsIInv ==
    ASSUME IInv, NEW w \in Works, NEW k \in Keys, ReuseResult(w, k)
    PROVE  IInv'
<1>1. /\ Current(cache[k]) /\ cache[k] \in Proof /\ Sound(cache[k])
      /\ Checked(cache[k]) \in Proof /\ Sound(Checked(cache[k]))
  BY CachedIsCurrent, HoldersAreSound DEF ReuseResult
<1>2. cache' \in [Keys -> Proof] /\ \A j \in Keys : Sound(cache'[j])
  BY <1>1, HoldersAreSound DEF ReuseResult, IInv, TypeOK
<1>. QED BY <1>1, <1>2, UsingKeepsIInv DEF ReuseResult

\* insert() leaves sound entries.
LEMMA InsertedIsSound ==
    ASSUME IInv, NEW k \in Keys, NEW p \in Proof, Sound(p),
           NEW before \in [Keys -> Proof], \A j \in Keys : Sound(before[j]),
           Inserted(before, k, p)
    PROVE  cache' \in [Keys -> Proof] /\ \A j \in Keys : Sound(cache'[j])
<1>1. Nothing \in Proof /\ Sound(Nothing)
  BY NothingIsSound DEF IInv
<1>2. CASE cache' = before
  BY <1>2
<1>3. ASSUME Valid(p), NEW evicted \in SUBSET (Keys \ {k}),
             cache' = [j \in Keys |-> IF j = k THEN Entry(k, p)
                                      ELSE IF j \in evicted THEN Nothing ELSE before[j]]
      PROVE  cache' \in [Keys -> Proof] /\ \A j \in Keys : Sound(cache'[j])
  <2>1. Entry(k, p) \in Proof /\ Sound(Entry(k, p))
    BY <1>3, EntryIsSound DEF IInv
  <2>. QED BY <1>1, <1>3, <2>1
<1>. QED BY <1>2, <1>3 DEF Inserted

LEMMA ComputeKeepsIInv ==
    ASSUME IInv, NEW w \in Works, NEW k \in Keys, NEW tiles \in SUBSET Tiles,
           ComputeSample(w, k, tiles)
    PROVE  IInv'
<1> DEFINE sample == Reading(Fresh, tiles)
           erased == [cache EXCEPT ![k] = Nothing]
<1>1. Fresh \in Proof /\ Sound(Fresh) /\ Fresh.facts = {} /\ Nothing \in Proof /\ Sound(Nothing)
  BY FreshIsSound, NothingIsSound DEF IInv, Fresh
<1>2. sample \in Proof /\ Sound(sample)
  BY <1>1, ReadingIsSound DEF IInv
<1>3. Current(sample)
  BY <1>1, ReadingGrows DEF Current, Seen
<1>4. erased \in [Keys -> Proof] /\ \A j \in Keys : Sound(erased[j])
  BY <1>1, HoldersAreSound DEF IInv, TypeOK
<1>5. /\ turn = w /\ Using(w, sample) /\ Inserted(erased, k, sample)
      /\ UNCHANGED <<journalVars, turn, searching, retained>>
  BY DEF ComputeSample
<1> HIDE DEF sample, erased
<1>6. cache' \in [Keys -> Proof] /\ \A j \in Keys : Sound(cache'[j])
  BY <1>2, <1>4, <1>5, InsertedIsSound
<1>. QED BY <1>2, <1>3, <1>5, <1>6, UsingKeepsIInv

LEMMA SegmentEndsKeepsIInv ==
    ASSUME IInv, NEW w \in Works, FinishSegment(w) \/ DropSegment(w)
    PROVE  IInv'
<1>1. Nothing \in Proof /\ Sound(Nothing) /\ ~Nothing.live
  BY NothingIsSound DEF IInv, Nothing
<1>2. cache' \in [Keys -> Proof] /\ \A j \in Keys : Sound(cache'[j])
  <2>1. CASE FinishSegment(w)
    <3>1. searching[w] \in Keys
      BY <2>1 DEF FinishSegment, IInv, NestInv
    <3>2. cache \in [Keys -> Proof] /\ \A j \in Keys : Sound(cache[j])
      BY HoldersAreSound DEF IInv, TypeOK
    <3>. QED BY <2>1, <3>1, <3>2, HoldersAreSound, InsertedIsSound DEF FinishSegment
  <2>2. CASE DropSegment(w)
    BY <2>2, HoldersAreSound DEF DropSegment, IInv, TypeOK
  <2>. QED BY <2>1, <2>2
<1>3. /\ turn = w /\ UNCHANGED <<journalVars, turn, work, retained>>
      /\ segment' = [segment EXCEPT ![w] = Nothing]
      /\ searching' = [searching EXCEPT ![w] = NoKey]
  BY DEF FinishSegment, DropSegment
<1>4. Quiet
  BY <1>1, <1>2, <1>3, HoldersAreSound DEF Quiet, IInv, TypeOK
<1>5. Grows(w)
  BY <1>1, <1>3 DEF Grows, IInv, TypeOK
<1>. QED BY <1>3, <1>4, <1>5, GrowingKeepsIInv DEF IInv, TypeOK

LEMMA EvidenceKeepsIInv ==
    ASSUME IInv, NEW w \in Works, ReuseEvidence(w) \/ DropEvidence(w)
    PROVE  IInv'
<1>1. CASE ReuseEvidence(w)
  <2> DEFINE grown == Absorbing(work[w], retained[w])
  <2>1. /\ work[w] \in Proof /\ Sound(work[w])
        /\ retained[w] \in Proof /\ Sound(retained[w]) /\ Valid(retained[w])
    BY <1>1, HoldersAreSound DEF ReuseEvidence
  <2>2. /\ Current(retained[w])
        /\ Checked(retained[w]) \in Proof /\ Sound(Checked(retained[w]))
    BY <2>1, ValidIsCurrent, CheckedIsSound DEF IInv
  <2>3. grown \in Proof /\ Sound(grown)
    BY <2>1, <2>2, AbsorbingIsSound DEF IInv
  <2>4. grown.live = work[w].live /\ grown.epoch = work[w].epoch /\ grown.revision = work[w].revision
    BY <2>1, AbsorbingGrows
  <2> HIDE DEF grown
  <2>5. work' = [work EXCEPT ![w] = grown]
    BY <1>1 DEF ReuseEvidence, grown
  <2>6. Quiet
    BY <1>1, <2>2, <2>3, <2>5, HoldersAreSound DEF ReuseEvidence, Quiet, IInv, TypeOK
  <2>7. Grows(w)
    BY <1>1, <2>4, <2>5 DEF ReuseEvidence, Grows, IInv, TypeOK
  <2>. QED BY <1>1, <2>6, <2>7, GrowingKeepsIInv DEF ReuseEvidence, IInv, TypeOK
<1>2. CASE DropEvidence(w)
  <2>1. Nothing \in Proof /\ Sound(Nothing)
    BY NothingIsSound DEF IInv
  <2>2. Quiet
    BY <1>2, <2>1, HoldersAreSound DEF DropEvidence, Quiet, IInv, TypeOK
  <2>3. Grows(w)
    BY <1>2 DEF DropEvidence, Grows, IInv, TypeOK
  <2>. QED BY <1>2, <2>2, <2>3, GrowingKeepsIInv DEF DropEvidence, IInv, TypeOK
<1>. QED BY <1>1, <1>2

-----------------------------------------------------------------------------
(* The map changes                                                           *)

LEMMA InvalidateKeepsIInv ==
    ASSUME IInv, Invalidate
    PROVE  IInv'
<1>1. TypeOK'
  BY DEF IInv, TypeOK, Invalidate
<1>2. JournalInv'
  BY DEF IInv, JournalInv, Invalidate, First, ChangedAt
<1>3. \A p \in Proof : Sound(p) => Sound(p)'
  BY DEF Sound, Invalidate, IInv, TypeOK, Proof
<1>4. HoldersInv'
  BY <1>3, HoldersAreSound DEF Invalidate, HoldersInv
<1>5. TurnInv' /\ NestInv'
  BY DEF IInv, TurnInv, NestInv, ScopesNest, Invalidate
<1>. QED BY <1>1, <1>2, <1>4, <1>5 DEF IInv

\* Where the entries of the journal go when one is added and `shift` are dropped.
LEMMA IndexArithmetic ==
    ASSUME NEW r \in Nat, NEW l \in Nat, NEW n \in Nat, NEW shift \in Nat,
           NEW first \in Int, n = l + 1 - shift, first = r - l + 1
    PROVE  \A i \in Nat : i > 0 /\ i < n => i \in 1..(n - 1) /\ i + shift \in 1..l
OBVIOUS

\* Where the edit `e` is found afterwards.
LEMMA EditArithmetic ==
    ASSUME NEW r \in Nat, NEW l \in Nat, NEW n \in Nat, NEW shift \in Nat, NEW first \in Int,
           n = l + 1 - shift, first = r - l + 1,
           NEW e \in Nat, e <= r, e >= first + shift
    PROVE  /\ e - (first + shift) + 1 \in 1..(n - 1)
           /\ e - (first + shift) + 1 + shift = e - first + 1
OBVIOUS

LEMMA ChangedKeepsIInv ==
    ASSUME IInv, NEW t \in Tiles, Changed(t)
    PROVE  IInv'
<1>1. /\ revision \in Nat /\ JournalLimit \in Nat /\ JournalLimit > 0
      /\ changes \in Seq(Tiles) /\ Len(changes) \in Nat /\ Len(changes) <= JournalLimit
      /\ edit \in [Tiles -> Nat]
      /\ revision' = revision + 1 /\ edit' = [edit EXCEPT ![t] = revision + 1]
      /\ turn = NoWork
  BY RouteAssumption DEF IInv, TypeOK, Changed
<1> DEFINE n == Len(changes')
           shift == Len(changes) + 1 - n
<1>2. /\ changes' \in Seq(Tiles) /\ n \in 1..JournalLimit /\ shift \in {0, 1}
      /\ changes'[n] = t
      /\ \A i \in 1..(n - 1) : changes'[i] = changes[i + shift]
      /\ shift = 1 => n = JournalLimit
  <2>1. CASE Len(changes) = JournalLimit
    <3>1. changes' = Append(Tail(changes), t) /\ changes # <<>>
      BY <1>1, <2>1 DEF Changed
    <3>2. Tail(changes) \in Seq(Tiles) /\ Len(Tail(changes)) = Len(changes) - 1
      BY <1>1, <3>1
    <3>. QED BY <1>1, <2>1, <3>1, <3>2
  <2>2. CASE Len(changes) # JournalLimit
    <3>1. changes' = Append(changes, t)
      BY <2>2 DEF Changed
    <3>. QED BY <1>1, <2>2, <3>1
  <2>. QED BY <2>1, <2>2
<1>3. /\ n \in Nat /\ n > 0 /\ shift \in Nat /\ n = Len(changes) + 1 - shift
      /\ First' = First + shift /\ First = revision - Len(changes) + 1 /\ First \in Int
  BY <1>1, <1>2 DEF First
<1>4. TypeOK'
  BY <1>1, <1>2 DEF IInv, TypeOK, Changed
<1>. HIDE DEF shift
<1>5. JournalInv'
  <2>1. n <= revision + 1 /\ (revision + 1 > n => n = JournalLimit)
    BY <1>1, <1>2, <1>3 DEF IInv, JournalInv
  <2>2. \A u \in Tiles : edit'[u] <= revision + 1
    BY <1>1 DEF IInv, JournalInv
  <2>3. ASSUME NEW u \in Tiles, edit'[u] >= First'
        PROVE  changes'[edit'[u] - First' + 1] = u
    <3>1. CASE u = t
      <4>1. edit'[u] - First' + 1 = n
        BY <1>1, <1>2, <1>3, <3>1
      <4>. QED BY <1>2, <3>1, <4>1
    <3>2. CASE u # t
      <4>1. edit'[u] = edit[u] /\ edit[u] \in Nat /\ edit[u] <= revision
        BY <1>1, <3>2 DEF IInv, JournalInv
      <4> DEFINE i == edit[u] - First' + 1
      <4>2. i \in 1..(n - 1) /\ i + shift = edit[u] - First + 1
        <5>1. edit[u] >= First + shift
          BY <1>3, <2>3, <4>1
        <5>2. i = edit[u] - (First + shift) + 1
          BY <1>3
        <5>3. Len(changes) \in Nat /\ revision \in Nat
          BY <1>1
        <5> HIDE DEF i, n
        <5>4. /\ edit[u] - (First + shift) + 1 \in 1..(n - 1)
              /\ edit[u] - (First + shift) + 1 + shift = edit[u] - First + 1
          BY <1>3, <4>1, <5>1, <5>3, EditArithmetic
        <5>. QED BY <5>2, <5>4
      <4>3. edit[u] >= First
        BY <1>1, <1>2, <1>3, <2>3, <4>1
      <4>4. changes[edit[u] - First + 1] = u
        BY <4>3 DEF IInv, JournalInv
      <4>5. changes'[i] = changes[i + shift]
        BY <1>2, <4>2
      <4>. QED BY <4>1, <4>2, <4>4, <4>5
    <3>. QED BY <3>1, <3>2
  <2>4. ASSUME NEW i \in 1..n
        PROVE  edit'[changes'[i]] >= First' + i - 1
    <3>1. CASE i = n
      BY <1>1, <1>2, <1>3, <3>1
    <3>2. CASE i # n
      <4>1. i \in 1..(n - 1) /\ i + shift \in 1..Len(changes)
        <5>1. i \in Nat /\ i > 0 /\ i < n
          BY <1>3, <3>2
        <5>. QED BY <1>1, <1>3, <5>1, IndexArithmetic
      <4>2. changes'[i] = changes[i + shift] /\ changes[i + shift] \in Tiles
        BY <1>1, <1>2, <4>1, ElementOfSeq
      <4>3. edit[changes[i + shift]] >= First + (i + shift) - 1
        BY <1>1, <4>1, JournalIsTyped DEF IInv, JournalInv, ChangedAt
      <4>4. edit[changes[i + shift]] <= revision
        BY <4>2 DEF IInv, JournalInv
      <4>5. edit'[changes'[i]] >= edit[changes[i + shift]]
        BY <1>1, <4>2, <4>4
      <4>6. edit'[changes'[i]] \in Nat /\ edit[changes[i + shift]] \in Nat
        BY <1>1, <4>2
      <4>7. i \in Nat
        BY <4>1
      <4> DEFINE old == edit[changes[i + shift]]
                 new == edit'[changes'[i]]
      <4>8. new >= old /\ new \in Nat /\ old \in Nat /\ old >= First + (i + shift) - 1
        BY <4>3, <4>5, <4>6, Zenon
      <4>9. shift \in Nat /\ First \in Int /\ First' = First + shift
        BY <1>3, Zenon
      <4> HIDE DEF n, old, new
      <4>10. new >= (First + shift) + i - 1
        BY <4>7, <4>8, <4>9
      <4>11. new >= First' + i - 1
        BY <4>9, <4>10, Zenon
      <4>. QED BY <4>11, Zenon DEF new
    <3>. QED BY <3>1, <3>2
  <2>5. DOMAIN changes' = 1..n
    BY <1>2
  <2>6. \A i \in DOMAIN changes' : edit'[changes'[i]] >= ChangedAt(i)'
    BY <2>4, <2>5, Zenon DEF ChangedAt
  <2>7. /\ Len(changes') <= revision' /\ (Len(changes') = 0 => revision' = 0)
        /\ revision' > Len(changes') => Len(changes') = JournalLimit
    <3>1. n <= revision' /\ (revision' > n => n = JournalLimit)
      BY <1>1, <2>1, Zenon
    <3>2. n # 0
      BY <1>3
    <3>. QED BY <3>1, <3>2, Zenon
  <2>8. \A u \in Tiles : edit'[u] <= revision'
    BY <1>1, <2>2, Zenon
  <2>9. \A u \in Tiles : edit'[u] >= First' => changes'[edit'[u] - First' + 1] = u
    BY <2>3, Zenon
  <2>. QED BY <2>6, <2>7, <2>8, <2>9, Zenon DEF JournalInv
<1>6. \A p \in Proof : Sound(p) => Sound(p)'
  <2>1. SUFFICES ASSUME NEW p \in Proof, Sound(p), p.epoch = epoch, NEW f \in p.facts
                 PROVE  /\ p.revision <= revision' /\ f.epoch = epoch
                        /\ f.edit = edit'[f.tile] \/ edit'[f.tile] > p.revision
    <3>1. epoch' = epoch
      BY DEF Changed
    <3>2. \A p \in Proof : Sound(p) => p.revision <= revision'
      BY <1>1 DEF Sound, Proof
    <3>. QED BY <3>1, <3>2, <2>1 DEF Sound
  <2>2. f.tile \in Tiles /\ edit[f.tile] \in Nat /\ p.revision \in Nat
    BY <1>1 DEF Proof, Fact
  <2>. QED BY <1>1, <2>1, <2>2 DEF Sound
<1>7. HoldersInv'
  BY <1>6, HoldersAreSound DEF Changed, HoldersInv
<1>8. TurnInv' /\ NestInv'
  BY <1>1 DEF IInv, TurnInv, NestInv, ScopesNest, Changed
<1>. QED BY <1>4, <1>5, <1>7, <1>8 DEF IInv

-----------------------------------------------------------------------------
(* The theorems                                                              *)

LEMMA IInvInit == Init => IInv
<1> SUFFICES ASSUME Init PROVE IInv
  OBVIOUS
<1>1. Nothing \in Proof /\ Nothing.revision = 0 /\ Nothing.own = 0 /\ Nothing.epoch = 0
      /\ Nothing.facts = {} /\ ~Nothing.live
  BY DEF Nothing, Proof
<1>2. TypeOK
  BY <1>1, RouteAssumption DEF Init, TypeOK
<1>3. JournalInv
  BY DEF Init, JournalInv, First, ChangedAt
<1>4. HoldersInv
  BY <1>1 DEF Init, HoldersInv, Sound
<1>5. TurnInv /\ NestInv
  BY <1>1 DEF Init, TurnInv, NestInv, ScopesNest
<1>. QED BY <1>2, <1>3, <1>4, <1>5 DEF IInv

LEMMA IInvStep == IInv /\ [Next]_vars => IInv'
<1> SUFFICES ASSUME IInv, [Next]_vars PROVE IInv'
  OBVIOUS
<1>1. CASE Invalidate
  BY <1>1, InvalidateKeepsIInv
<1>2. ASSUME NEW t \in Tiles, Changed(t) PROVE IInv'
  BY <1>2, ChangedKeepsIInv
<1>3. ASSUME NEW w \in Works, Turns(w) PROVE IInv'
  BY <1>3, TurnStarts, TurnEnds DEF Turns
<1>4. ASSUME NEW w \in Works, Planning(w) PROVE IInv'
  BY <1>4, SegmentEndsKeepsIInv, EvidenceKeepsIInv, ReadKeepsIInv, SearchKeepsIInv,
     TakeKeepsIInv, ReuseResultKeepsIInv, ReuseSegmentKeepsIInv, ComputeKeepsIInv
     DEF Planning
<1>5. CASE UNCHANGED vars
  <2>1. Quiet
    BY <1>5, HoldersAreSound DEF vars, Quiet, journalVars, IInv, TypeOK
  <2>2. TypeOK' /\ JournalInv' /\ HoldersInv'
    BY <1>5, <2>1, QuietKeepsHolders DEF vars, IInv, TypeOK
  <2>3. TurnInv' /\ NestInv'
    BY <1>5 DEF vars, journalVars, IInv, TurnInv, NestInv, ScopesNest
  <2>. QED BY <2>2, <2>3 DEF IInv
<1>. QED BY <1>1, <1>2, <1>3, <1>4, <1>5 DEF Next

\* The inductive invariant: the journal holds every edit it could still hold, and
\* every watch is sound.
THEOREM Invariance == Spec => []IInv
BY IInvInit, IInvStep, PTL DEF Spec

\* Every variable keeps its type, and the journal its bound.
THEOREM TypeCorrect == Spec => []TypeOK
<1>1. IInv => TypeOK
  BY DEF IInv
<1>. QED BY <1>1, Invariance, PTL

\* What lookup() and take() return rests on the map as it is, whichever controller
\* computed it and however long the journal.
THEOREM SharedResultsAreFresh == Spec => []CacheIsFresh
<1>1. IInv => CacheIsFresh
  BY CachedIsCurrent DEF CacheIsFresh
<1>. QED BY <1>1, Invariance, PTL

\* So does the evidence that execution is given.
THEOREM RetainedEvidenceIsFresh == Spec => []EvidenceIsFresh
<1>1. IInv => EvidenceIsFresh
  BY HoldersAreSound, ValidIsCurrent DEF EvidenceIsFresh, IInv
<1>. QED BY <1>1, Invariance, PTL

\* A request in its turn rests on nothing that has changed since its earlier turns.
THEOREM ResumedSearchesAreFresh == Spec => []TurnIsFresh
<1>1. ASSUME IInv, turn # NoWork PROVE Current(work[turn])
  <2>1. turn \in Works /\ work[turn] \in Proof /\ Sound(work[turn])
        /\ work[turn].epoch = epoch /\ work[turn].revision = revision
    BY <1>1, HoldersAreSound DEF IInv, TypeOK, TurnInv
  <2>2. \A f \in work[turn].facts : edit[f.tile] <= revision /\ edit[f.tile] \in Nat
    BY <1>1, <2>1 DEF IInv, JournalInv, TypeOK, Proof, Fact
  <2>3. revision \in Nat
    BY <1>1 DEF IInv, TypeOK
  <2>. QED BY <2>1, <2>2, <2>3 DEF Sound, Current
<1>2. IInv => TurnIsFresh
  BY <1>1 DEF TurnIsFresh
<1>. QED BY <1>2, Invariance, PTL

\* An enclosing search depends on all that a nested or shared one depends on.
THEOREM DependenciesAreInherited == Spec => []ScopesNest
<1>1. IInv => ScopesNest
  BY DEF IInv, NestInv
<1>. QED BY <1>1, Invariance, PTL

\* The journal drops no result early: until it has run over, an entry none of whose
\* tiles has changed is still returned.
THEOREM CacheDropsOnlyStale == Spec => []CacheIsPrecise
<1>1. ASSUME IInv, NEW k \in Keys, cache[k].live, cache[k].epoch = epoch,
             revision - cache[k].revision <= JournalLimit,
             \A t \in cache[k].tiles : edit[t] <= cache[k].revision
      PROVE  Cached(k)
  <2> DEFINE p == cache[k]
  <2>1. /\ p.revision \in Nat /\ p.revision <= revision /\ revision \in Nat
        /\ JournalLimit \in Nat /\ edit \in [Tiles -> Nat]
    BY <1>1, HoldersAreSound, RouteAssumption DEF Proof, Sound, IInv, TypeOK
  <2>2. Len(changes) = 0 \/ p.revision + 1 >= First
    <3>1. /\ Len(changes) \in Nat /\ First = revision - Len(changes) + 1
          /\ revision > Len(changes) => Len(changes) = JournalLimit
          /\ Len(changes) <= revision
      BY <1>1, JournalIsTyped DEF IInv, JournalInv, First
    <3>2. revision - p.revision <= JournalLimit
      BY <1>1
    <3> HIDE DEF p
    <3>. QED BY <2>1, <3>1, <3>2
  <2>3. ASSUME NEW i \in DOMAIN changes, ChangedAt(i) > p.revision, changes[i] \in p.tiles
        PROVE  FALSE
    <3>1. ChangedAt(i) \in Int /\ changes[i] \in Tiles
      BY <1>1, JournalIsTyped DEF IInv
    <3>2. edit[changes[i]] >= ChangedAt(i) /\ edit[changes[i]] <= p.revision
          /\ edit[changes[i]] \in Nat
      BY <1>1, <2>1, <2>3, <3>1 DEF IInv, JournalInv
    <3>. QED BY <2>1, <2>3, <3>1, <3>2
  <2>. QED BY <1>1, <2>2, <2>3 DEF Cached, Valid
<1>2. IInv => CacheIsPrecise
  BY <1>1 DEF CacheIsPrecise
<1>. QED BY <1>2, Invariance, PTL

=============================================================================
