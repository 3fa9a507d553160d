------------------------ MODULE PlayerBotDepot_proofs ------------------------
(***************************************************************************)
(* Proofs about PlayerBotDepot, for any lockers, risks, items and limits.  *)
(*                                                                         *)
(* The invariant is the type, the places in the turn at which a locker is  *)
(* selected, that the fallback is the least of the risky routes met in the *)
(* pass, and that a pending move was refused or has filled the chest.  Its *)
(* parts are about different variables: a frame lemma names the actions    *)
(* that change them, and the others need no case.                          *)
(***************************************************************************)
EXTENDS PlayerBotDepot, FiniteSetTheorems, TLAPS

\* The type, by the variables that change together.
TurnType ==
    /\ phase \in {"Return", "Deposit", "Done", "Stopped"}
    /\ pc \in {"idle", "discover", "scan", "validate", "next", "approach", "deposit", "select"}
    /\ validations \in Nat /\ preferred \in BOOLEAN /\ turn \in BOOLEAN
SessionType ==
    /\ stage \in {"Discover", "Approach", "OpenLocker", "OpenChest", "Deposit", "VerifyMove", "Depart"}
    /\ attempts \in Nat /\ selected \in Lockers \cup {None}
    /\ stage = "Discover" <=> selected = None
PassType == rejected \in SUBSET Lockers /\ pass \in Pass /\ offers \in SUBSET Offer
GoodsType ==
    /\ move \in Move \cup {NoMove} /\ refused \in BOOLEAN
    /\ bag \in [Items -> Nat] /\ chest \in [Items -> Nat] /\ ground \in [Items -> Nat]
PlaceType ==
    /\ exit \in Lockers \cup {None} /\ forced \in BOOLEAN /\ attacked \in BOOLEAN
    /\ open \in {"none", "locker", "chest"} /\ pos \in {"at", "slid", "away"}
    /\ mishaps \in 0..MaxMishaps

\* Past discovery, a locker is selected.
SelectedOK == pc \in {"approach", "deposit", "select"} => selected # None

\* The fallback is the least of what was on offer.
FallbackOK ==
    IF pass.fallback = NoOffer THEN offers = {}
    ELSE pass.fallback \in offers /\ \A p \in offers : p = pass.fallback \/ Less(pass.fallback, p)

\* The chest only ever fills.
GoodsOK == Pending => refused \/ chest[move.item] > move.chest

TypeParts == TurnType /\ SessionType /\ PassType /\ GoodsType /\ PlaceType
DepotInv == TypeParts /\ SelectedOK /\ FallbackOK /\ GoodsOK

LEMMA PartsAreType == TypeParts <=> TypeOK
    BY DEF TypeParts, TurnType, SessionType, PassType, GoodsType, PlaceType, TypeOK

\* A pass that has not begun.
LEMMA FreshPass ==
    NoPass \in Pass /\ NoPass.fallback = NoOffer /\ NoPass.validating = FALSE
    BY DEF NoPass, Pass

LEMMA FreshExit ==
    ASSUME NEW l \in Lockers, NEW p, p = [NoPass EXCEPT !.scanned = TRUE, !.route = l]
    PROVE  p \in Pass /\ p.fallback = NoOffer /\ p.validating = FALSE
    BY DEF NoPass, Pass

LEMMA InitInv == Init => DepotInv
<1> SUFFICES ASSUME Init PROVE DepotInv
    OBVIOUS
<1> USE DepotAssumption DEF Init
<1>1. TurnType /\ SessionType
    BY DEF TurnType, SessionType
<1>2. PassType
    BY DEF PassType, Pass, NoPass
<1>3. GoodsType
    <2>1. bag \in [Items -> Nat]
        OBVIOUS
    <2> QED BY <2>1 DEF GoodsType
<1>4. PlaceType
    <2>1. mishaps \in 0..MaxMishaps
        OBVIOUS
    <2> QED BY <2>1 DEF PlaceType
<1>5. SelectedOK /\ FallbackOK /\ GoodsOK
    BY DEF SelectedOK, FallbackOK, GoodsOK, Pending, NoPass
<1> QED BY <1>1, <1>2, <1>3, <1>4, <1>5 DEF DepotInv, TypeParts

-----------------------------------------------------------------------------
(* The session                                                               *)

\* The actions that change the session
LEMMA SessionFrame ==
    Next =>
        \/ UNCHANGED sessionVars
        \/ LockerGone \/ Scan \/ ScanExit \/ Reached \/ ExitFails \/ Exhausted
        \/ ApproachStalled \/ Arrive \/ StillNear \/ DestinationShut
        \/ Displaced \/ OpenBox \/ ChestOpen \/ NothingToDeposit
        \/ MoveDeposit \/ Moved \/ Retry \/ RejectedWaits \/ Discard
    BY DEF Next, Discover, Deposit, Starts, Deferred, Continue,
           ValidationWaits, Risky, Unreachable, TakeFallback, TakeCandidate,
           Walk, Depart, SelectWaits, SelectStops, Mismatch, Pushed,
           BagChanges, Attacked, SuppressionEnds

\* The session keeps its type.
LEMMA SessionStep == TypeParts /\ SelectedOK /\ Next => SessionType'
<1> SUFFICES ASSUME TypeParts, SelectedOK, Next PROVE SessionType'
    OBVIOUS
<1> USE DepotAssumption DEF TypeParts, SessionType, SelectedOK, None
<1>Other. CASE UNCHANGED sessionVars
    BY <1>Other DEF sessionVars
<1>LockerGone. CASE LockerGone
    BY <1>LockerGone DEF LockerGone
<1>Scan. CASE Scan
    <2>1. UNCHANGED <<stage, selected>>
        BY <1>Scan DEF Scan
    <2>2. attempts' \in {attempts, Bump(attempts, DiscoveryAttempts)}
        BY <1>Scan DEF Scan, NothingFound
    <2>3. attempts' \in Nat
        BY <2>2 DEF Bump
    <2> QED BY <2>1, <2>3
<1>ScanExit. CASE ScanExit
    BY <1>ScanExit DEF ScanExit, ResetSession
<1>Reached. CASE Reached
    BY <1>Reached DEF Reached, Select, PassType, Pass
<1>ExitFails. CASE ExitFails
    BY <1>ExitFails DEF ExitFails, ResetSession
<1>Exhausted. CASE Exhausted
    BY <1>Exhausted DEF Exhausted, FailDiscovery, Bump
<1>ApproachStalled. CASE ApproachStalled
    BY <1>ApproachStalled DEF ApproachStalled, sessionVars
<1>Arrive. CASE Arrive
    BY <1>Arrive DEF Arrive, ToDeposit
<1>StillNear. CASE StillNear
    BY <1>StillNear DEF StillNear, ToDeposit
<1>DestinationShut. CASE DestinationShut
    BY <1>DestinationShut DEF DestinationShut, WaitForAction, Bump
<1>Displaced. CASE Displaced
    BY <1>Displaced DEF Displaced, Opened, AttemptsNow
<1>OpenBox. CASE OpenBox
    BY <1>OpenBox DEF OpenBox, Opened, AttemptsNow, Bump
<1>ChestOpen. CASE ChestOpen
    BY <1>ChestOpen DEF ChestOpen, Opened, AttemptsNow
<1>NothingToDeposit. CASE NothingToDeposit
    BY <1>NothingToDeposit DEF NothingToDeposit
<1>MoveDeposit. CASE MoveDeposit
    BY <1>MoveDeposit DEF MoveDeposit
<1>Moved. CASE Moved
    BY <1>Moved DEF Moved, Verifies
<1>Retry. CASE Retry
    BY <1>Retry DEF Retry, Verifies
<1>RejectedWaits. CASE RejectedWaits
    BY <1>RejectedWaits DEF RejectedWaits, Rejected, Verifies, Bump
<1>Discard. CASE Discard
    BY <1>Discard DEF Discard, Rejected, Verifies, Bump
<1> QED
    BY <1>Other, <1>LockerGone, <1>Scan, <1>ScanExit, <1>Reached, <1>ExitFails,
       <1>Exhausted, <1>ApproachStalled, <1>Arrive, <1>StillNear, <1>DestinationShut,
       <1>Displaced, <1>OpenBox, <1>ChestOpen, <1>NothingToDeposit, <1>MoveDeposit,
       <1>Moved, <1>Retry, <1>RejectedWaits, <1>Discard, SessionFrame

\* selected changes, or the turn gets past discovery, in few places.
LEMMA SelectedFrame ==
    Next =>
        \/ selected' = selected /\ pc' \in {pc, "idle", "discover", "validate", "next"}
        \/ Continue \/ LockerGone \/ Scan \/ ScanExit \/ Reached \/ ExitFails \/ ApproachStalled
        \/ Arrive \/ StillNear \/ ChestOpen \/ NothingToDeposit \/ Moved
    BY DEF Next, Discover, Deposit, Starts, Deferred, ValidationWaits, Risky, Unreachable,
           TakeFallback, TakeCandidate, Exhausted, Walk, DestinationShut, Displaced, OpenBox,
           Depart, SelectWaits, SelectStops, MoveDeposit, Mismatch, Retry, RejectedWaits, Discard,
           Pushed, BagChanges, Attacked, SuppressionEnds, Mishap, sessionVars, EndTurn,
           EndWithoutTurn, StopWork, Go, FailDiscovery, WaitForAction, UseBox, UseLocker, UseChest

\* Past discovery, a locker stays selected.
LEMMA SelectedStep == TypeParts /\ SelectedOK /\ Next => SelectedOK'
<1> SUFFICES ASSUME TypeParts, SelectedOK, Next PROVE SelectedOK'
    OBVIOUS
<1> USE DepotAssumption DEF SelectedOK, None
<1>Other. CASE selected' = selected /\ pc' \in {pc, "idle", "discover", "validate", "next"}
    BY <1>Other
<1>Continue. CASE Continue
    BY <1>Continue DEF Continue, Go, sessionVars
<1>LockerGone. CASE LockerGone
    BY <1>LockerGone DEF LockerGone, Go
<1>Scan. CASE Scan
    BY <1>Scan DEF Scan, NothingFound, FailDiscovery, StopWork, EndTurn, Go
<1>ScanExit. CASE ScanExit
    BY <1>ScanExit DEF ScanExit
<1>Reached. CASE Reached
    BY <1>Reached DEF Reached, Select, TypeParts, PassType, Pass
<1>ExitFails. CASE ExitFails
    BY <1>ExitFails DEF ExitFails
<1>ApproachStalled. CASE ApproachStalled
    BY <1>ApproachStalled DEF ApproachStalled, EndTurn
<1>Arrive. CASE Arrive
    BY <1>Arrive DEF Arrive
<1>StillNear. CASE StillNear
    BY <1>StillNear DEF StillNear
<1>ChestOpen. CASE ChestOpen
    BY <1>ChestOpen DEF ChestOpen
<1>NothingToDeposit. CASE NothingToDeposit
    BY <1>NothingToDeposit DEF NothingToDeposit
<1>Moved. CASE Moved
    BY <1>Moved DEF Moved, Verifies
<1> QED
    BY <1>Other, <1>Continue, <1>LockerGone, <1>Scan, <1>ScanExit, <1>Reached, <1>ExitFails,
       <1>ApproachStalled, <1>Arrive, <1>StillNear, <1>ChestOpen, <1>NothingToDeposit,
       <1>Moved, SelectedFrame

-----------------------------------------------------------------------------
(* The pass                                                                  *)

\* The actions that change the pass
LEMMA PassFrame ==
    Next =>
        \/ UNCHANGED passVars
        \/ LockerGone \/ Scan \/ ScanExit \/ Reached \/ Risky \/ Unreachable
        \/ ExitFails \/ TakeFallback \/ TakeCandidate \/ Exhausted
        \/ ApproachStalled \/ SuppressionEnds
    BY DEF Next, Discover, Deposit, Starts, Deferred, Continue,
           ValidationWaits, Walk, Arrive, StillNear, DestinationShut,
           Displaced, OpenBox, ChestOpen, Depart, SelectWaits, SelectStops,
           NothingToDeposit, MoveDeposit, Moved, Mismatch, Retry,
           RejectedWaits, Discard, Pushed, BagChanges, Attacked

\* The pass keeps its type.
LEMMA PassStep == TypeParts /\ SelectedOK /\ Next => PassType'
<1> SUFFICES ASSUME TypeParts, SelectedOK, Next PROVE PassType'
    OBVIOUS
<1> USE DepotAssumption DEF TypeParts, PassType, Pass, None
<1>Other. CASE UNCHANGED passVars
    BY <1>Other DEF passVars
<1>LockerGone. CASE LockerGone
    BY <1>LockerGone DEF LockerGone, ForgetPass, NoPass
<1>Scan. CASE Scan
    <2>1. rejected' = rejected /\ offers' = {}
        BY <1>Scan DEF Scan
    <2>2. PICK found \in SUBSET Lockers, suppressed \in BOOLEAN, candidates \in SUBSET Lockers,
               first \in Lockers \cup {None} :
              \/ pass' = [NoPass EXCEPT !.suppressed = suppressed]
              \/ pass' = [NoPass EXCEPT !.scanned = TRUE, !.candidates = candidates,
                                       !.route = first, !.suppressed = suppressed]
        BY <1>Scan DEF Scan
    <2>3. pass' \in Pass
        BY <2>2 DEF NoPass, NoOffer
    <2> QED BY <2>1, <2>3
<1>ScanExit. CASE ScanExit
    <2>1. exit \in Lockers /\ offers' = {} /\ rejected' \in {rejected, {}}
        BY <1>ScanExit DEF ScanExit, ResetSession, PlaceType
    <2>2. pass' = [NoPass EXCEPT !.scanned = TRUE, !.route = exit] \/ pass' = NoPass
        BY <1>ScanExit DEF ScanExit
    <2>3. pass' \in Pass
        BY <2>1, <2>2, FreshPass, FreshExit
    <2> QED BY <2>1, <2>3
<1>Reached. CASE Reached
    BY <1>Reached DEF Reached, Select
<1>Risky. CASE Risky
    BY <1>Risky DEF Risky, Better, WithoutRoute
<1>Unreachable. CASE Unreachable
    BY <1>Unreachable DEF Unreachable, WithoutRoute
<1>ExitFails. CASE ExitFails
    BY <1>ExitFails DEF ExitFails, ResetSession, ForgetPass, NoPass
<1>TakeFallback. CASE TakeFallback
    BY <1>TakeFallback DEF TakeFallback, Offer
<1>TakeCandidate. CASE TakeCandidate
    BY <1>TakeCandidate DEF TakeCandidate
<1>Exhausted. CASE Exhausted
    <2>1. rejected' = rejected /\ (UNCHANGED <<pass, offers>> \/ ForgetPass)
        BY <1>Exhausted DEF Exhausted
    <2> QED BY <2>1, FreshPass DEF ForgetPass
<1>ApproachStalled. CASE ApproachStalled
    <2>1. selected \in Lockers
        BY <1>ApproachStalled DEF ApproachStalled, SelectedOK, SessionType
    <2>2. UNCHANGED passVars \/ (rejected' = rejected \cup {selected} /\ ForgetPass)
        BY <1>ApproachStalled DEF ApproachStalled
    <2> QED BY <2>1, <2>2, FreshPass DEF ForgetPass, passVars
<1>SuppressionEnds. CASE SuppressionEnds
    BY <1>SuppressionEnds DEF SuppressionEnds
<1> QED
    BY <1>Other, <1>LockerGone, <1>Scan, <1>ScanExit, <1>Reached, <1>Risky, <1>Unreachable,
       <1>ExitFails, <1>TakeFallback, <1>TakeCandidate, <1>Exhausted, <1>ApproachStalled,
       <1>SuppressionEnds, PassFrame

\* Routes are ordered by their risk: the order is transitive and total.
LEMMA LessTransitive ==
    ASSUME NEW o \in Offer, NEW p \in Offer, NEW q \in Offer, Less(o, p), Less(p, q)
    PROVE  Less(o, q)
<1>1. \A r \in Offer : r.at \in Nat /\ r.risk \in Nat /\ r.unknown \in BOOLEAN
    BY DepotAssumption DEF Offer
<1>2. CASE o.unknown # q.unknown
    BY <1>1, <1>2, Zenon DEF Less
<1>3. CASE o.unknown = q.unknown
    <2>1. p.unknown = o.unknown
        BY <1>1, <1>3, Zenon DEF Less
    <2>2. IF o.risk # p.risk THEN o.risk < p.risk ELSE o.at < p.at
        BY <2>1 DEF Less
    <2>3. IF p.risk # q.risk THEN p.risk < q.risk ELSE p.at < q.at
        BY <2>1, <1>3 DEF Less
    <2>4. IF o.risk # q.risk THEN o.risk < q.risk ELSE o.at < q.at
        BY <2>2, <2>3, <1>1
    <2> QED BY <2>4, <1>3 DEF Less
<1> QED BY <1>2, <1>3

LEMMA LessTotal ==
    ASSUME NEW o \in Offer, NEW p \in Offer
    PROVE  o = p \/ Less(o, p) \/ Less(p, o)
<1>1. \A r \in Offer : r.at \in Nat /\ r.risk \in Nat /\ r.unknown \in BOOLEAN
    BY DepotAssumption DEF Offer
<1>2. CASE o.unknown # p.unknown
    BY <1>1, <1>2, Zenon DEF Less
<1>3. CASE o.unknown = p.unknown
    <2>1. CASE o.risk = p.risk /\ o.at = p.at
        BY <2>1, <1>3 DEF Offer
    <2>2. CASE o.risk # p.risk \/ o.at # p.at
        <3>1. (IF o.risk # p.risk THEN o.risk < p.risk ELSE o.at < p.at)
                \/ (IF p.risk # o.risk THEN p.risk < o.risk ELSE p.at < o.at)
            BY <2>2, <1>1
        <3> QED BY <3>1, <1>3 DEF Less
    <2> QED BY <2>1, <2>2
<1> QED BY <1>2, <1>3

\* The fallback stays the least of the offers.
LEMMA FallbackStep == TypeParts /\ FallbackOK /\ Next => FallbackOK'
<1> SUFFICES ASSUME TypeParts, FallbackOK, Next PROVE FallbackOK'
    OBVIOUS
<1>0. pass \in Pass /\ offers \in SUBSET Offer /\ NoOffer \notin Offer
    BY DepotAssumption DEF TypeParts, PassType, NoOffer, Offer, None
<1>Same. ASSUME pass'.fallback = pass.fallback, offers' = offers PROVE FallbackOK'
    BY <1>Same DEF FallbackOK, Less
<1>Reset. ASSUME pass'.fallback = NoOffer, offers' = {} PROVE FallbackOK'
    BY <1>Reset DEF FallbackOK
<1>Other. CASE UNCHANGED passVars
    BY <1>Other, <1>Same DEF passVars
<1>Risky. CASE Risky
    <2>1. PICK o \in Offer :
            /\ pass' = [WithoutRoute(pass) EXCEPT !.fallback = Better(o)]
            /\ offers' = offers \cup {o}
        BY <1>Risky DEF Risky
    <2>2. pass'.fallback = Better(o)
        BY <2>1, <1>0 DEF WithoutRoute, Pass
    <2>3. CASE pass.fallback = NoOffer
        BY <2>1, <2>2, <2>3, <1>0 DEF Better, FallbackOK
    <2>4. CASE pass.fallback # NoOffer
        <3>1. pass.fallback \in offers /\ pass.fallback \in Offer
            BY <2>4, <1>0 DEF FallbackOK
        <3>2. \A p \in offers : p = pass.fallback \/ Less(pass.fallback, p)
            BY <2>4 DEF FallbackOK
        <3>3. CASE Less(o, pass.fallback)
            <4>1. \A p \in offers : Less(o, p)
                BY <3>1, <3>2, <3>3, <1>0, LessTransitive
            <4>2. pass'.fallback = o
                BY <2>2, <3>3 DEF Better
            <4> QED BY <4>1, <4>2, <2>1, <1>0 DEF FallbackOK
        <3>4. CASE ~Less(o, pass.fallback)
            <4>1. pass'.fallback = pass.fallback
                BY <2>2, <2>4, <3>4 DEF Better
            <4>2. o = pass.fallback \/ Less(pass.fallback, o)
                BY <3>1, <3>4, LessTotal
            <4> QED BY <4>1, <4>2, <3>1, <3>2, <2>1, <2>4 DEF FallbackOK
        <3> QED BY <3>3, <3>4
    <2> QED BY <2>3, <2>4
<1>LockerGone. CASE LockerGone
    BY <1>LockerGone, <1>Reset, <1>0 DEF LockerGone, ForgetPass, NoPass
<1>Scan. CASE Scan
    BY <1>Scan, <1>Reset, <1>0 DEF Scan, NoPass
<1>ScanExit. CASE ScanExit
    <2>1. offers' = {} /\ (pass' = [NoPass EXCEPT !.scanned = TRUE, !.route = exit] \/ pass' = NoPass)
        BY <1>ScanExit DEF ScanExit
    <2>2. exit \in Lockers
        BY <1>ScanExit DEF ScanExit, TypeParts, PlaceType
    <2> QED BY <2>1, <2>2, <1>Reset, FreshPass, FreshExit
<1>Reached. CASE Reached
    BY <1>Reached, <1>Same, <1>0 DEF Reached, Select, Pass
<1>Unreachable. CASE Unreachable
    BY <1>Unreachable, <1>Same, <1>0 DEF Unreachable, WithoutRoute, Pass
<1>ExitFails. CASE ExitFails
    BY <1>ExitFails, <1>Reset, <1>0 DEF ExitFails, ForgetPass, NoPass
<1>TakeFallback. CASE TakeFallback
    BY <1>TakeFallback, <1>Reset, <1>0 DEF TakeFallback, Pass
<1>TakeCandidate. CASE TakeCandidate
    BY <1>TakeCandidate, <1>Same, <1>0 DEF TakeCandidate, Pass
<1>Exhausted. CASE Exhausted
    BY <1>Exhausted, <1>Same, <1>Reset DEF Exhausted, ForgetPass, NoPass
<1>ApproachStalled. CASE ApproachStalled
    BY <1>ApproachStalled, <1>Same, <1>Reset DEF ApproachStalled, ForgetPass, NoPass, passVars
<1>SuppressionEnds. CASE SuppressionEnds
    BY <1>SuppressionEnds, <1>Same, <1>0 DEF SuppressionEnds
<1> QED
    BY <1>Other, <1>LockerGone, <1>Scan, <1>ScanExit, <1>Reached, <1>Risky, <1>Unreachable,
       <1>ExitFails, <1>TakeFallback, <1>TakeCandidate, <1>Exhausted, <1>ApproachStalled,
       <1>SuppressionEnds, PassFrame

-----------------------------------------------------------------------------
(* The goods                                                                 *)

\* The actions that change the goods
LEMMA GoodsFrame ==
    Next =>
        \/ UNCHANGED goodsVars
        \/ ScanExit \/ ExitFails
        \/ DestinationShut \/ MoveDeposit \/ Moved \/ Retry \/ Discard
        \/ BagChanges
    BY DEF Next, Discover, Deposit, Starts, Deferred, Continue, LockerGone,
           Scan, Reached, ValidationWaits, Risky, Unreachable,
           TakeFallback, TakeCandidate, Exhausted,
           ApproachStalled, Walk, Arrive, StillNear, Displaced, OpenBox,
           ChestOpen, Depart, SelectWaits, SelectStops, NothingToDeposit,
           Mismatch, RejectedWaits, Pushed, Attacked, SuppressionEnds

\* The goods keep their type, and a move that is pending was refused or shows in
\* the chest.
LEMMA GoodsStep == TypeParts /\ GoodsOK /\ Next => GoodsType' /\ GoodsOK'
<1> SUFFICES ASSUME TypeParts, GoodsOK, Next PROVE GoodsType' /\ GoodsOK'
    OBVIOUS
<1> USE DEF GoodsType, GoodsOK, Pending
<1>0. GoodsType
    BY DEF TypeParts
<1>Other. CASE UNCHANGED goodsVars
    BY <1>0, <1>Other DEF goodsVars
<1>Exit. CASE ScanExit \/ ExitFails
    <2>1. UNCHANGED <<bag, chest, ground, refused>> /\ move' \in {move, NoMove}
        BY <1>Exit DEF ScanExit, ExitFails, ResetSession
    <2> QED BY <1>0, <2>1
<1>DestinationShut. CASE DestinationShut
    BY <1>0, <1>DestinationShut DEF DestinationShut
<1>MoveDeposit. CASE MoveDeposit
    <2>0. PICK i \in Items : \E moved \in 0..bag[i] :
            /\ move' = [item |-> i, bag |-> bag[i], chest |-> chest[i]]
            /\ bag' = [bag EXCEPT ![i] = @ - moved]
            /\ chest' = [chest EXCEPT ![i] = @ + moved]
            /\ refused' = (moved = 0)
        BY <1>MoveDeposit DEF MoveDeposit
    <2>1. PICK moved \in 0..bag[i] :
            /\ move' = [item |-> i, bag |-> bag[i], chest |-> chest[i]]
            /\ bag' = [bag EXCEPT ![i] = @ - moved]
            /\ chest' = [chest EXCEPT ![i] = @ + moved]
            /\ refused' = (moved = 0)
        BY <2>0
    <2>2. ground' = ground
        BY <1>MoveDeposit DEF MoveDeposit
    <2>3. bag[i] \in Nat /\ chest[i] \in Nat
        BY <1>0
    <2>4. bag' \in [Items -> Nat] /\ chest' \in [Items -> Nat] /\ move' \in Move
        BY <1>0, <2>1, <2>3 DEF Move
    <2>5. move'.item = i /\ move'.chest = chest[i]
        BY <2>1
    <2>7. chest'[i] = chest[i] + moved
        BY <1>0, <2>1
    <2>6. refused' \/ chest'[move'.item] > move'.chest
        <3>1. CASE moved = 0
            BY <2>1, <3>1
        <3>2. CASE moved # 0
            BY <2>3, <2>5, <2>7, <3>2
        <3> QED BY <3>1, <3>2
    <2> QED BY <1>0, <2>1, <2>2, <2>4, <2>6
<1>Moved. CASE Moved
    BY <1>0, <1>Moved DEF Moved
<1>Retry. CASE Retry
    BY <1>0, <1>Retry DEF Retry
<1>Discard. CASE Discard
    <2>1. move \in Move /\ move.item \in Items
        BY <1>0, <1>Discard DEF Discard, Rejected, Verifies, Move
    <2>2. PICK dropped \in 0..bag[move.item] :
            /\ bag' = [bag EXCEPT ![move.item] = @ - dropped]
            /\ ground' = [ground EXCEPT ![move.item] = @ + dropped]
        BY <1>Discard DEF Discard
    <2>3. bag[move.item] \in Nat /\ ground[move.item] \in Nat
        BY <1>0, <2>1
    <2>4. bag' \in [Items -> Nat] /\ ground' \in [Items -> Nat]
        BY <1>0, <2>1, <2>2, <2>3
    <2>5. chest' = chest /\ refused' = refused /\ move' \in {move, NoMove}
        BY <1>Discard DEF Discard
    <2> QED BY <1>0, <2>4, <2>5
<1>BagChanges. CASE BagChanges
    <2>1. UNCHANGED <<chest, ground, move, refused>>
        BY <1>BagChanges DEF BagChanges
    <2>2. bag' \in [Items -> Nat]
        BY <1>0, <1>BagChanges DEF BagChanges
    <2> QED BY <1>0, <2>1, <2>2
<1> QED
    BY <1>Other, <1>Exit, <1>DestinationShut, <1>MoveDeposit, <1>Moved, <1>Retry, <1>Discard,
       <1>BagChanges, GoodsFrame

-----------------------------------------------------------------------------
(* The turn and the place                                                    *)

\* The turn keeps its type.
LEMMA TurnStep == TypeParts /\ Next => TurnType'
<1> SUFFICES ASSUME TypeParts, Next PROVE TurnType'
    OBVIOUS
<1>0. TurnType
    BY DEF TypeParts
<1>Ended. ASSUME EndTurn, phase' \in {phase, "Return", "Deposit", "Done"} PROVE TurnType'
    BY <1>0, <1>Ended DEF TurnType, EndTurn
<1>Halted. ASSUME StopWork PROVE TurnType'
    BY <1>Halted DEF TurnType, StopWork
<1>Goes. ASSUME NEW where \in {"scan", "validate", "next", "approach", "deposit", "select"}, Go(where),
                phase' \in {phase, "Deposit"}
         PROVE  TurnType'
    BY <1>0, <1>Goes DEF TurnType, Go, localVars
<1>Stays. ASSUME pc' \in {pc, "discover", "scan", "validate", "next"}, validations' \in {validations, validations + 1},
                 preferred' \in BOOLEAN, turn' \in BOOLEAN, phase' = phase
          PROVE  TurnType'
    BY <1>0, <1>Stays DEF TurnType
<1>1. CASE Discover
    <2>1. CASE Deferred \/ ValidationWaits
        BY <2>1, <1>Ended DEF Deferred, ValidationWaits
    <2>2. CASE Continue
        BY <2>2, <1>Goes DEF Continue
    <2>3. CASE LockerGone \/ Reached \/ TakeFallback \/ TakeCandidate
        BY <2>3, <1>Goes DEF LockerGone, Reached, TakeFallback, TakeCandidate
    <2>4. CASE Scan
        BY <2>4, <1>Goes, <1>Ended, <1>Halted DEF Scan, NothingFound, FailDiscovery
    <2>5. CASE ScanExit
        BY <2>5, <1>0, <1>Stays DEF ScanExit, TurnType
    <2>6. CASE Risky \/ Unreachable \/ ExitFails
        BY <2>6, <1>0, <1>Stays DEF Risky, Unreachable, ExitFails, TurnType
    <2>7. CASE Exhausted
        BY <2>7, <1>Ended, <1>Halted DEF Exhausted, FailDiscovery
    <2> QED BY <1>1, <2>1, <2>2, <2>3, <2>4, <2>5, <2>6, <2>7 DEF Discover
<1>2. CASE Deposit
    <2>0. ASSUME UseBox PROVE TurnType'
        BY <2>0, <1>Ended, <1>Halted DEF UseBox, UseLocker, UseChest, ReturnAgain
    <2>1. CASE DestinationShut \/ OpenBox
        BY <2>1, <2>0, <1>Ended, <1>Halted DEF DestinationShut, OpenBox, WaitForAction
    <2>2. CASE Displaced
        BY <2>2, <1>0 DEF Displaced, EndWithoutTurn, TurnType
    <2>3. CASE ChestOpen \/ NothingToDeposit \/ Moved
        BY <2>3, <1>Goes DEF ChestOpen, NothingToDeposit, Moved
    <2>4. CASE Depart
        BY <2>4, <1>0 DEF Depart, TurnType
    <2>5. CASE SelectWaits \/ MoveDeposit \/ Retry \/ RejectedWaits
        BY <2>5, <1>Ended DEF SelectWaits, MoveDeposit, Retry, RejectedWaits
    <2>6. CASE SelectStops \/ Mismatch \/ Discard
        BY <2>6, <1>Ended, <1>Halted DEF SelectStops, Mismatch, Discard
    <2> QED BY <1>2, <2>1, <2>2, <2>3, <2>4, <2>5, <2>6 DEF Deposit
<1>3. CASE Starts \/ ApproachStalled \/ Walk \/ Arrive \/ StillNear
    <2>1. CASE Starts
        BY <2>1, <1>0, <1>Stays DEF Starts, TurnType, localVars
    <2>2. CASE ApproachStalled \/ Walk
        BY <2>2, <1>Ended DEF ApproachStalled, Walk, ReturnAgain
    <2>3. CASE Arrive \/ StillNear
        BY <2>3, <1>Goes DEF Arrive, StillNear, ToDeposit
    <2> QED BY <1>3, <2>1, <2>2, <2>3
<1>4. CASE Pushed \/ BagChanges \/ Attacked \/ SuppressionEnds
    BY <1>0, <1>4 DEF TurnType, localVars, Pushed, BagChanges, Attacked, SuppressionEnds
<1> QED BY <1>1, <1>2, <1>3, <1>4 DEF Next

\* The place keeps its type.
LEMMA PlaceStep == TypeParts /\ Next => PlaceType'
<1> SUFFICES ASSUME TypeParts, Next PROVE PlaceType'
    OBVIOUS
<1>0. PlaceType
    BY DEF TypeParts
<1> USE DEF PlaceType, boxVars, returnVars
<1>Same. ASSUME UNCHANGED <<returnVars, boxVars, mishaps>> PROVE PlaceType'
    BY <1>0, <1>Same
<1>1. CASE Discover
    <2>1. CASE LockerGone
        <3>1. mishaps' \in 0..MaxMishaps
            BY <2>1, <1>0, DepotAssumption DEF LockerGone
        <3> QED BY <2>1, <3>1, <1>0 DEF LockerGone
    <2>2. CASE ScanExit
        BY <2>2, <1>0 DEF ScanExit
    <2>3. CASE Reached
        BY <2>3, <1>0 DEF Reached, Select
    <2> QED
        BY <1>1, <2>1, <2>2, <2>3, <1>Same
           DEF Discover, Deferred, Continue, Scan, ValidationWaits, Risky, Unreachable, ExitFails,
               TakeFallback, TakeCandidate, Exhausted
<1>2. CASE Deposit
    <2>0. ASSUME UseBox, mishaps' = mishaps PROVE PlaceType'
        BY <2>0, <1>0 DEF UseBox, UseLocker, UseChest, ReturnAgain
    <2>1. CASE DestinationShut \/ OpenBox
        BY <2>1, <2>0, <1>Same DEF DestinationShut, OpenBox, WaitForAction
    <2>2. CASE Depart
        BY <2>2, <1>0 DEF Depart
    <2> QED
        BY <1>2, <2>1, <2>2, <1>Same
           DEF Deposit, Displaced, ChestOpen, SelectWaits, SelectStops, NothingToDeposit, MoveDeposit,
               Moved, Mismatch, Retry, RejectedWaits, Discard
<1>3. CASE Starts \/ ApproachStalled \/ Walk \/ Arrive \/ StillNear
    <2>1. CASE Starts \/ ApproachStalled
        BY <2>1, <1>0, <1>Same DEF Starts, ApproachStalled, ReturnAgain
    <2>2. CASE Walk
        BY <2>2, <1>0 DEF Walk, Moves, ReturnAgain
    <2>3. CASE Arrive \/ StillNear
        BY <2>3, <1>0 DEF Arrive, StillNear
    <2> QED BY <1>3, <2>1, <2>2, <2>3
<1>4. CASE Pushed \/ BagChanges \/ Attacked
    <2>1. mishaps' \in 0..MaxMishaps
        BY <1>4, <1>0, DepotAssumption DEF Pushed, BagChanges, Attacked, Mishap
    <2> QED BY <1>4, <2>1, <1>0 DEF Pushed, Moves, BagChanges, Attacked
<1>5. CASE SuppressionEnds
    BY <1>5, <1>Same DEF SuppressionEnds
<1> QED BY <1>1, <1>2, <1>3, <1>4, <1>5 DEF Next

-----------------------------------------------------------------------------
(* Theorems                                                                  *)

\* A step that changes nothing keeps everything.
LEMMA StutterInv == DepotInv /\ UNCHANGED vars => DepotInv'
<1> SUFFICES ASSUME DepotInv, UNCHANGED vars PROVE DepotInv'
    OBVIOUS
<1> USE DEF vars, sessionVars, passVars, goodsVars, boxVars, returnVars, localVars, DepotInv, TypeParts
<1>1. TurnType' /\ SessionType' /\ PlaceType'
    BY DEF TurnType, SessionType, PlaceType
<1>2. PassType' /\ GoodsType'
    BY DEF PassType, GoodsType
<1>3. SelectedOK' /\ GoodsOK'
    BY DEF SelectedOK, GoodsOK, Pending
<1>4. FallbackOK'
    BY DEF FallbackOK, Less
<1> QED BY <1>1, <1>2, <1>3, <1>4

\* The inductive invariant holds.
THEOREM Invariance == Spec => []DepotInv
<1>1. DepotInv /\ [Next]_vars => DepotInv'
    BY SessionStep, SelectedStep, PassStep, FallbackStep, GoodsStep, TurnStep, PlaceStep, StutterInv
       DEF DepotInv, TypeParts
<1> QED BY InitInv, <1>1, PTL DEF Spec

\* Every variable of the depot work keeps its type, and a locker is selected
\* exactly when it is not searched for.
THEOREM TypeCorrect == Spec => []TypeOK
<1>1. DepotInv => TypeOK
    BY PartsAreType DEF DepotInv
<1> QED BY Invariance, <1>1, PTL

\* Whatever the order in which the lockers are tried, a risky route is taken up
\* again only as the last resort, and it is the least risky one.
THEOREM FallbackIsTheLeast == Spec => FallbackIsLast
<1>1. DepotInv /\ [Next]_vars =>
        (~pass.validating /\ pass'.validating =>
            /\ Hurries \/ pass.candidates = {}
            /\ \E o \in offers :
                  o.at = pass'.route /\ \A p \in offers : p = o \/ Less(o, p))
    <2> SUFFICES ASSUME DepotInv, [Next]_vars, ~pass.validating, pass'.validating
                 PROVE  /\ Hurries \/ pass.candidates = {}
                        /\ \E o \in offers :
                              o.at = pass'.route /\ \A p \in offers : p = o \/ Less(o, p)
        OBVIOUS
    <2>1. pass \in Pass /\ FallbackOK
        BY DEF DepotInv, TypeParts, PassType
    <2>2. pass' # pass
        OBVIOUS
    <2>3. ~UNCHANGED passVars /\ Next
        BY <2>2 DEF passVars, vars
    <2>4. ~(LockerGone \/ ScanExit \/ ExitFails)
        <3>1. PlaceType
            BY DEF DepotInv, TypeParts
        <3>2. ScanExit => exit \in Lockers
            BY <3>1 DEF ScanExit, PlaceType
        <3> QED BY <3>2, FreshPass, FreshExit DEF LockerGone, ScanExit, ExitFails, ForgetPass
    <2>5. ~Scan
        BY DEF Scan, NoPass
    <2>6. ~(Reached \/ Risky)
        BY <2>1 DEF Reached, Select, Risky, WithoutRoute, Pass
    <2>7. ~(Unreachable \/ TakeCandidate)
        BY <2>1 DEF Unreachable, TakeCandidate, WithoutRoute, Pass
    <2>8. ~(Exhausted \/ ApproachStalled \/ SuppressionEnds)
        BY <2>1 DEF Exhausted, ApproachStalled, SuppressionEnds, ForgetPass, NoPass, passVars
    <2>9. TakeFallback
        BY <2>3, <2>4, <2>5, <2>6, <2>7, <2>8, PassFrame
    <2>10. Hurries \/ pass.candidates = {}
        BY <2>9 DEF TakeFallback
    <2>11. pass.fallback \in offers /\ \A p \in offers : p = pass.fallback \/ Less(pass.fallback, p)
        BY <2>1, <2>9 DEF FallbackOK, TakeFallback
    <2>12. pass'.route = pass.fallback.at
        BY <2>1, <2>9 DEF TakeFallback, Pass
    <2> QED BY <2>10, <2>11, <2>12
<1> QED BY Invariance, <1>1, PTL DEF Spec, FallbackIsLast

\* Goods are dropped only when the engine refused the move that is verified.
THEOREM OnlyRefusedIsDropped == Spec => DiscardsOnlyRefused
<1>1. DepotInv /\ [Next]_vars => (ground' # ground => refused)
    <2> SUFFICES ASSUME DepotInv, [Next]_vars, ground' # ground PROVE refused
        OBVIOUS
    <2>1. Discard
        BY GoodsFrame DEF vars, goodsVars, ScanExit, ExitFails, MoveDeposit, Moved, DestinationShut, Retry, BagChanges
    <2>2. Pending /\ Received = 0
        BY <2>1 DEF Discard, Rejected, Verifies, MoveUnchanged
    <2>3. chest[move.item] \in Nat /\ move.chest \in Nat
        BY <2>2 DEF DepotInv, TypeParts, GoodsType, Pending, Move
    <2>4. ~(chest[move.item] > move.chest)
        BY <2>2, <2>3 DEF Received, Drop
    <2> QED BY <2>2, <2>4 DEF DepotInv, GoodsOK
<1> QED BY Invariance, <1>1, PTL DEF Spec, DiscardsOnlyRefused
-----------------------------------------------------------------------------
(* The search for a locker                                                   *)

\* Where the turn is, and how far the pass has got.
Searching ==
    /\ pc \in {"scan", "validate", "next"} => selected = None
    /\ pc \in {"validate", "next"} => pass.scanned
    /\ pc = "scan" => ~pass.scanned
    /\ pc = "next" => pass.route = None
    /\ pass.route # None => pass.scanned
    /\ pass.scanned => selected = None
    /\ pass.validating => pass.route # None

\* The candidates, the route that is looked at and the fallback are different
\* lockers.
OnceEach ==
    /\ pass.route \notin pass.candidates
    /\ pass.fallback.at \notin pass.candidates
    /\ pass.route # None => pass.route # pass.fallback.at

\* A locker that could not be reached is no candidate, is not looked at, is not
\* the fallback and is not walked to before its suppression has passed.
RejectedLeftAlone ==
    rejected \cap (pass.candidates \cup {pass.route, pass.fallback.at, selected}) = {}

SearchInv == Searching /\ OnceEach /\ RejectedLeftAlone

\* The looks that a pass has left: two for each locker, the second only for the
\* fallback.
Looks ==
    4 * Cardinality(pass.candidates)
        + (IF pass.route = None THEN 0 ELSE IF pass.validating THEN 1 ELSE 3)
        + (IF pass.fallback = NoOffer THEN 0 ELSE 2)

\* A pass over the lockers goes one way: whatever it does, in whatever turn, uses
\* up a look.
PassAdvances == [][pass.scanned /\ pass'.scanned /\ pass' # pass => Looks' < Looks]_vars

\* The actions that the search is about
LEMMA SearchFrame ==
    Next =>
        \/ UNCHANGED <<selected, passVars>> /\ pc' \in {pc, "idle", "discover", "approach", "deposit", "select"}
        \/ Continue \/ LockerGone \/ Scan \/ ScanExit \/ Reached \/ Risky \/ Unreachable
        \/ ExitFails \/ TakeFallback \/ TakeCandidate \/ Exhausted
        \/ ApproachStalled \/ SuppressionEnds
    BY DEF Next, Discover, Deposit, Starts, Deferred, ValidationWaits, Walk, Arrive, StillNear,
           DestinationShut, Displaced, OpenBox, ChestOpen, Depart, SelectWaits, SelectStops,
           NothingToDeposit, MoveDeposit, Moved, Mismatch, Retry, RejectedWaits, Discard,
           Pushed, BagChanges, Attacked, Mishap, sessionVars, EndTurn, EndWithoutTurn, StopWork,
           Go, FailDiscovery, WaitForAction, UseBox, UseLocker, UseChest, ToDeposit

\* A pass that has not begun breaks nothing.
LEMMA NoPassSearch ==
    ASSUME rejected \subseteq Lockers, selected = None, pass.route = None, pass.candidates = {},
           pass.fallback = NoOffer, ~pass.scanned, ~pass.validating,
           pc \notin {"validate", "next"}
    PROVE  SearchInv
    BY DepotAssumption DEF SearchInv, Searching, OnceEach, RejectedLeftAlone, NoOffer, None

LEMMA SearchInit == Init => SearchInv
    BY NoPassSearch DEF Init, NoPass

\* Every step keeps the lockers of a pass apart from each other and from those
\* that were rejected.
LEMMA SearchStep == TypeParts /\ SelectedOK /\ SearchInv /\ Next => SearchInv'
<1> SUFFICES ASSUME TypeParts, SelectedOK, SearchInv, Next PROVE SearchInv'
    OBVIOUS
<1>0. /\ pass \in Pass /\ rejected \subseteq Lockers /\ None \notin Lockers
      /\ selected \in Lockers \cup {None}
    BY DepotAssumption DEF TypeParts, PassType, SessionType, None
<1>1. /\ pass.candidates \subseteq Lockers /\ pass.route \in Lockers \cup {None}
      /\ pass.fallback \in Offer \cup {NoOffer} /\ pass.fallback.at \in Lockers \cup {None}
    BY <1>0 DEF Pass, Offer, NoOffer
<1>2. NoOffer.at = None
    BY DEF NoOffer
<1>3. PassType' /\ SelectedOK'
    BY PassStep, SelectedStep
<1> USE DEF SearchInv, Searching, OnceEach, RejectedLeftAlone
<1>Other. CASE UNCHANGED <<selected, passVars>> /\ pc' \in {pc, "idle", "discover", "approach", "deposit", "select"}
    BY <1>Other DEF passVars
<1>Continue. CASE Continue
    BY <1>Continue DEF Continue, Go, sessionVars, passVars
<1>Fresh. ASSUME pass' = NoPass, selected' = None, pc' \notin {"validate", "next"} PROVE SearchInv'
    <2>1. rejected' \subseteq Lockers
        BY <1>3 DEF PassType
    <2> QED BY <1>0, <1>2, <1>Fresh, <2>1 DEF NoPass
<1>LockerGone. CASE LockerGone
    BY <1>Fresh, <1>LockerGone DEF LockerGone, ForgetPass, Go
<1>Scan. CASE Scan
    <2>1. rejected' = rejected /\ selected' = selected /\ selected = None /\ ~pass.scanned
        BY <1>Scan DEF Scan
    <2>2. PICK found \in SUBSET Lockers :
            LET suppressed == found \cap rejected # {}
                candidates == found \ rejected
            IN  IF candidates = {}
                THEN /\ pass' = [NoPass EXCEPT !.suppressed = suppressed]
                     /\ NothingFound(suppressed)
                ELSE /\ \E first \in candidates :
                            pass' = [NoPass EXCEPT !.scanned = TRUE, !.candidates = candidates \ {first},
                                                   !.route = first, !.suppressed = suppressed]
                     /\ Go("validate")
                     /\ UNCHANGED <<phase, attempts>>
        BY <1>Scan DEF Scan
    <2>3. CASE found \ rejected = {}
        <3>1. pass'.route = None /\ pass'.candidates = {} /\ pass'.fallback = NoOffer
              /\ ~pass'.scanned /\ ~pass'.validating
            BY <2>2, <2>3 DEF NoPass
        <3>2. pc' = "idle"
            BY <2>2, <2>3 DEF NothingFound, FailDiscovery, EndTurn, StopWork
        <3> QED BY <1>0, <1>2, <2>1, <3>1, <3>2
    <2>4. CASE found \ rejected # {}
        <3>1. PICK first \in found \ rejected, suppressed \in BOOLEAN :
                pass' = [NoPass EXCEPT !.scanned = TRUE, !.candidates = (found \ rejected) \ {first},
                                       !.route = first, !.suppressed = suppressed]
            BY <2>2, <2>4
        <3>2. /\ pass'.route = first /\ pass'.candidates = (found \ rejected) \ {first}
              /\ pass'.fallback = NoOffer /\ pass'.scanned /\ ~pass'.validating
            BY <3>1 DEF NoPass
        <3>3. pc' = "validate"
            BY <2>2, <2>4 DEF Go
        <3> QED BY <1>0, <1>2, <2>1, <3>2, <3>3
    <2> QED BY <2>3, <2>4
<1>ScanExit. CASE ScanExit
    <2>1. CASE pass' = NoPass
        <3>1. pc' = "scan" /\ selected' = None
            BY <2>1, <1>ScanExit DEF ScanExit, ResetSession, NoPass
        <3> QED BY <1>Fresh, <2>1, <3>1
    <2>2. CASE pass' # NoPass
        <3>1. /\ exit \notin rejected /\ pass' = [NoPass EXCEPT !.scanned = TRUE, !.route = exit]
              /\ pc' = "validate" /\ rejected' = rejected /\ selected' = selected /\ selected = None
              /\ exit # None
            BY <2>2, <1>ScanExit DEF ScanExit
        <3>2. /\ pass'.route = exit /\ pass'.candidates = {} /\ pass'.fallback = NoOffer
              /\ pass'.scanned /\ ~pass'.validating
            BY <3>1 DEF NoPass
        <3> QED BY <1>0, <1>2, <3>1, <3>2
    <2> QED BY <2>1, <2>2
<1>Reached. CASE Reached
    <2>1. /\ pass'.route = None /\ pass'.candidates = {} /\ pass'.fallback = pass.fallback
          /\ ~pass'.scanned /\ ~pass'.validating
        BY <1>0, <1>Reached DEF Reached, Select, Pass
    <2>2. selected' = pass.route /\ rejected' = rejected /\ pc' = "approach"
        BY <1>Reached DEF Reached, Select, Go
    <2> QED BY <1>0, <1>1, <2>1, <2>2
<1>Risky. CASE Risky
    <2>1. PICK o \in Offer :
            /\ o.at = pass.route
            /\ pass' = [WithoutRoute(pass) EXCEPT !.fallback = Better(o)]
        BY <1>Risky DEF Risky
    <2>2. /\ pass'.route = None /\ pass'.candidates = pass.candidates
          /\ pass'.fallback = Better(o) /\ pass'.scanned = pass.scanned /\ ~pass'.validating
        BY <1>0, <2>1 DEF WithoutRoute, Pass
    <2>3. pass'.fallback.at \in {pass.route, pass.fallback.at}
        BY <2>1, <2>2 DEF Better
    <2>4. pc = "validate" /\ pc' = "next" /\ selected' = selected /\ rejected' = rejected
        BY <1>Risky DEF Risky, sessionVars
    <2> QED BY <1>0, <1>1, <2>2, <2>3, <2>4
<1>Unreachable. CASE Unreachable
    <2>1. /\ pass'.route = None /\ pass'.candidates = pass.candidates
          /\ pass'.fallback = pass.fallback /\ pass'.scanned = pass.scanned /\ ~pass'.validating
        BY <1>0, <1>Unreachable DEF Unreachable, WithoutRoute, Pass
    <2>2. /\ pc = "validate" /\ pc' = "next" /\ selected' = selected /\ pass.route # None
          /\ rejected' = rejected \cup {pass.route}
        BY <1>Unreachable DEF Unreachable, sessionVars
    <2> QED BY <1>0, <1>1, <2>1, <2>2
<1>ExitFails. CASE ExitFails
    BY <1>Fresh, <1>ExitFails DEF ExitFails, ResetSession, ForgetPass
<1>TakeFallback. CASE TakeFallback
    <2>1. /\ pass'.route = pass.fallback.at /\ pass'.candidates = pass.candidates
          /\ pass'.fallback = NoOffer /\ pass'.scanned = pass.scanned
        BY <1>0, <1>TakeFallback DEF TakeFallback, Pass
    <2>2. /\ pc = "next" /\ pc' = "validate" /\ selected' = selected /\ rejected' = rejected
          /\ pass.fallback # NoOffer
        BY <1>TakeFallback DEF TakeFallback, Go, sessionVars
    <2>3. pass.fallback.at \in Lockers
        BY <1>1, <2>2 DEF Offer
    <2> QED BY <1>0, <1>1, <1>2, <2>1, <2>2, <2>3
<1>TakeCandidate. CASE TakeCandidate
    <2>1. PICK l \in pass.candidates : pass' = [pass EXCEPT !.route = l, !.candidates = @ \ {l}]
        BY <1>TakeCandidate DEF TakeCandidate
    <2>2. /\ pass'.route = l /\ pass'.candidates = pass.candidates \ {l}
          /\ pass'.fallback = pass.fallback /\ pass'.scanned = pass.scanned
        BY <1>0, <2>1 DEF Pass
    <2>3. pc = "next" /\ pc' = "validate" /\ selected' = selected /\ rejected' = rejected
        BY <1>TakeCandidate DEF TakeCandidate, Go, sessionVars
    <2> QED BY <1>0, <1>1, <2>2, <2>3
<1>Exhausted. CASE Exhausted
    <2>1. selected' = selected /\ rejected' = rejected /\ pc' = "idle" /\ selected = None
        BY <1>Exhausted DEF Exhausted, FailDiscovery, EndTurn, StopWork
    <2>2. CASE pass' = pass
        BY <2>1, <2>2
    <2>3. CASE pass' = NoPass
        BY <1>Fresh, <2>1, <2>3
    <2> QED BY <1>Exhausted, <2>2, <2>3 DEF Exhausted, ForgetPass
<1>ApproachStalled. CASE ApproachStalled
    <2>1. pc' = "idle"
        BY <1>ApproachStalled DEF ApproachStalled, EndTurn
    <2>2. CASE pass' = NoPass /\ selected' = None
        BY <1>Fresh, <2>1, <2>2
    <2>3. CASE UNCHANGED <<sessionVars, passVars>>
        BY <2>1, <2>3 DEF sessionVars, passVars
    <2> QED BY <1>ApproachStalled, <2>2, <2>3 DEF ApproachStalled, ForgetPass
<1>SuppressionEnds. CASE SuppressionEnds
    <2>1. UNCHANGED <<selected, pass, pc>> /\ rejected' \subseteq rejected
        BY <1>SuppressionEnds DEF SuppressionEnds, sessionVars
    <2> QED BY <2>1
<1> QED
    BY <1>Other, <1>Continue, <1>LockerGone, <1>Scan, <1>ScanExit, <1>Reached, <1>Risky,
       <1>Unreachable, <1>ExitFails, <1>TakeFallback, <1>TakeCandidate, <1>Exhausted,
       <1>ApproachStalled, <1>SuppressionEnds, SearchFrame

LEMMA SearchAlways == Spec => []SearchInv
<1>1. DepotInv /\ SearchInv /\ [Next]_vars => SearchInv'
    <2>1. SearchInv /\ UNCHANGED vars => SearchInv'
        BY DEF vars, sessionVars, passVars, SearchInv, Searching, OnceEach, RejectedLeftAlone
    <2> QED BY <2>1, SearchStep DEF DepotInv
<1> QED BY Invariance, SearchInit, <1>1, PTL DEF Spec

\* A locker that could not be reached is left alone until its suppression has
\* passed: not by the pass that rejected it, nor by the passes after a locker
\* that vanished, a walk that stalled or an exit that failed.
THEOREM RejectedIsLeftAlone == Spec => []RejectedLeftAlone
<1>1. SearchInv => RejectedLeftAlone
    BY DEF SearchInv
<1> QED BY SearchAlways, <1>1, PTL

\* The search cannot go round in circles over the lockers of one scan, however
\* its turns are cut: each is looked at once, and the least risky once more.
THEOREM PassComesToAnEnd == Spec => PassAdvances
<1>1. DepotInv /\ SearchInv /\ [Next]_vars =>
        (pass.scanned /\ pass'.scanned /\ pass' # pass => Looks' < Looks)
    <2> SUFFICES ASSUME DepotInv, SearchInv, [Next]_vars, pass.scanned, pass'.scanned, pass' # pass
                 PROVE  Looks' < Looks
        OBVIOUS
    <2>0. /\ pass \in Pass /\ None \notin Lockers /\ IsFiniteSet(pass.candidates)
          /\ exit \in Lockers \cup {None} /\ NoOffer \notin Offer
        <3>1. pass \in Pass /\ exit \in Lockers \cup {None}
            BY DEF DepotInv, TypeParts, PassType, PlaceType
        <3>2. pass.candidates \in SUBSET Lockers
            BY <3>1 DEF Pass
        <3>3. IsFiniteSet(pass.candidates)
            BY <3>2, DepotAssumption, FS_Subset
        <3>4. NoOffer \notin Offer
            BY DepotAssumption DEF NoOffer, Offer, None
        <3> QED BY <3>1, <3>3, <3>4, DepotAssumption DEF None
    <2> DEFINE n == Cardinality(pass.candidates)
    <2>1. n \in Nat
        BY <2>0, FS_CardinalityType
    <2>2. ~UNCHANGED passVars /\ Next
        BY DEF passVars, vars
    <2>3. ~(LockerGone \/ ExitFails \/ Exhausted \/ ApproachStalled \/ SuppressionEnds)
        BY DEF LockerGone, ExitFails, Exhausted, ApproachStalled, SuppressionEnds, ForgetPass,
               NoPass, passVars
    <2>4. ~(Scan \/ ScanExit)
        BY DEF Scan, ScanExit, SearchInv, Searching
    <2>5. ~Reached
        BY <2>0 DEF Reached, Select, Pass
    <2>6. CASE Risky
        <3>1. PICK o \in Offer : pass' = [WithoutRoute(pass) EXCEPT !.fallback = Better(o)]
            BY <2>6 DEF Risky
        <3>2. pass'.route = None /\ pass'.candidates = pass.candidates
            BY <2>0, <3>1 DEF WithoutRoute, Pass
        <3>3. pass.route # None /\ ~pass.validating
            BY <2>6 DEF Risky
        <3>4. Looks' <= 4 * n + 2 /\ Looks >= 4 * n + 3
            BY <2>1, <3>2, <3>3 DEF Looks
        <3>5. Looks' \in Nat /\ Looks \in Nat
            BY <2>1, <3>2 DEF Looks
        <3> HIDE DEF n
        <3> QED BY <2>1, <3>4, <3>5
    <2>7. CASE Unreachable
        <3>1. /\ pass'.route = None /\ pass'.candidates = pass.candidates
              /\ pass'.fallback = pass.fallback
            BY <2>0, <2>7 DEF Unreachable, WithoutRoute, Pass
        <3>2. pass.route # None
            BY <2>7 DEF Unreachable
        <3> QED BY <2>1, <3>1, <3>2 DEF Looks
    <2>8. CASE TakeFallback
        <3>1. /\ pass'.candidates = pass.candidates /\ pass'.fallback = NoOffer
              /\ pass'.validating = TRUE
            BY <2>0, <2>8 DEF TakeFallback, Pass
        <3>2. pass.route = None /\ pass.fallback # NoOffer
            BY <2>8 DEF TakeFallback, SearchInv, Searching
        <3> QED BY <2>1, <3>1, <3>2 DEF Looks
    <2>9. CASE TakeCandidate
        <3>1. PICK l \in pass.candidates : pass' = [pass EXCEPT !.route = l, !.candidates = @ \ {l}]
            BY <2>9 DEF TakeCandidate
        <3>2. pass'.candidates = pass.candidates \ {l} /\ pass'.fallback = pass.fallback
            BY <2>0, <3>1 DEF Pass
        <3>3. pass.route = None
            BY <2>9 DEF TakeCandidate, SearchInv, Searching
        <3>4. Cardinality(pass'.candidates) = n - 1
            BY <2>0, <3>2, FS_RemoveElement
        <3> QED BY <2>1, <3>2, <3>3, <3>4 DEF Looks
    <2> QED BY <2>2, <2>3, <2>4, <2>5, <2>6, <2>7, <2>8, <2>9, PassFrame
<1> QED BY Invariance, SearchAlways, <1>1, PTL DEF Spec, PassAdvances


-----------------------------------------------------------------------------
(* A controller without a turn                                               *)

\* The work is not over, and no turn is scheduled to go on with it.
Stranded == pc = "idle" /\ Working /\ ~turn

\* Depositing, the bot stands at its locker until something has happened to it.
StandsOK == phase = "Deposit" /\ mishaps = 0 =>
    pos = "at" /\ selected # None /\ pc \notin {"scan", "validate", "next"}
StrandInv ==
    /\ pc \in {"deposit", "select"} => phase = "Deposit"
    /\ StandsOK
    /\ Stranded => phase = "Deposit" /\ mishaps # 0

\* A turn is lost in one place of processDeposit(), and once lost it is lost
\* for good.
LostByDisplacement ==
    [][/\ ~Stranded /\ Stranded' => Displaced
       /\ Stranded => Stranded']_vars

\* A step that ends a turn schedules another one, ends the work, or is the
\* return after a displacement; the world takes no turn away.
LEMMA TurnsLeadOn ==
    Next => \/ Displaced \/ pc' # "idle" \/ phase' \in {"Done", "Stopped"} \/ turn'
            \/ pc = "idle" /\ UNCHANGED <<turn, phase>>
<1> SUFFICES ASSUME Next, ~Displaced
             PROVE  \/ pc' # "idle" \/ phase' \in {"Done", "Stopped"} \/ turn'
                    \/ pc = "idle" /\ UNCHANGED <<turn, phase>>
    OBVIOUS
<1> DEFINE Leads == \/ pc' # "idle" \/ phase' \in {"Done", "Stopped"} \/ turn'
                    \/ pc = "idle" /\ UNCHANGED <<turn, phase>>
<1>Ended. EndTurn \/ StopWork => Leads
    BY DEF EndTurn, StopWork
<1>Goes. \A where \in {"scan", "validate", "next", "approach", "deposit", "select"} :
            Go(where) => Leads
    BY DEF Go
<1> SUFFICES Leads
    OBVIOUS
<1> HIDE DEF Leads
<1>1. CASE Discover
    <2>1. CASE Deferred \/ Continue \/ LockerGone \/ Scan \/ Reached \/ ValidationWaits
               \/ TakeFallback \/ TakeCandidate \/ Exhausted
        BY <2>1, <1>Ended, <1>Goes DEF Deferred, Continue, LockerGone, Scan, NothingFound,
           FailDiscovery, Reached, ValidationWaits, TakeFallback, TakeCandidate, Exhausted
    <2>2. CASE ScanExit \/ Risky \/ Unreachable \/ ExitFails
        BY <2>2 DEF ScanExit, Risky, Unreachable, ExitFails, Leads
    <2> QED BY <1>1, <2>1, <2>2 DEF Discover
<1>2. CASE Deposit
    <2>0. UseBox \/ WaitForAction => Leads
        BY <1>Ended DEF UseBox, UseLocker, UseChest, WaitForAction
    <2>1. CASE DestinationShut \/ OpenBox
        BY <2>1, <2>0, <1>Ended DEF DestinationShut, OpenBox
    <2>2. CASE ChestOpen \/ NothingToDeposit \/ Moved
        BY <2>2, <1>Goes DEF ChestOpen, NothingToDeposit, Moved
    <2>3. CASE Depart
        BY <2>3 DEF Depart, Leads
    <2>4. CASE SelectWaits \/ SelectStops \/ MoveDeposit \/ Mismatch \/ Retry
               \/ RejectedWaits \/ Discard
        BY <2>4, <1>Ended DEF SelectWaits, SelectStops, MoveDeposit, Mismatch, Retry,
           RejectedWaits, Discard
    <2> QED BY <1>2, <2>1, <2>2, <2>3, <2>4 DEF Deposit
<1>3. CASE Starts \/ ApproachStalled \/ Walk \/ Arrive \/ StillNear
    BY <1>3, <1>Ended, <1>Goes DEF Starts, ApproachStalled, Walk, Arrive, StillNear, ToDeposit,
       Leads
<1>4. CASE Pushed \/ BagChanges \/ Attacked \/ SuppressionEnds
    BY <1>4 DEF Pushed, BagChanges, Attacked, SuppressionEnds, Mishap, Leads
<1> QED BY <1>1, <1>2, <1>3, <1>4 DEF Next

\* What happened stays on the record.
LEMMA MishapsStay == TypeParts /\ Next /\ mishaps' = 0 => mishaps = 0
<1> SUFFICES ASSUME TypeParts, Next, mishaps' = 0 PROVE mishaps = 0
    OBVIOUS
<1>1. mishaps \in Nat
    BY DepotAssumption DEF TypeParts, PlaceType
<1>2. mishaps' = mishaps \/ mishaps' = mishaps + 1
    BY DEF Next, Discover, Deposit, Starts, Deferred, Continue, LockerGone, Scan, ScanExit, Reached,
       ValidationWaits, Risky, Unreachable, ExitFails, TakeFallback, TakeCandidate, Exhausted,
       ApproachStalled, Walk, Arrive, StillNear, DestinationShut, Displaced, OpenBox, ChestOpen,
       Depart, SelectWaits, SelectStops, NothingToDeposit, MoveDeposit, Moved, Mismatch, Retry,
       RejectedWaits, Discard, Pushed, BagChanges, Attacked, SuppressionEnds, Mishap
<1> QED BY <1>1, <1>2

\* The turn gets to the deposit, and the work to its phase, in few places.
LEMMA DepositFrame ==
    Next => \/ pc' \notin {"deposit", "select"} /\ phase' # "Deposit"
            \/ pc' \notin {"deposit", "select"} /\ phase' = phase
            \/ Arrive \/ StillNear \/ ChestOpen \/ NothingToDeposit \/ Moved
<1> SUFFICES ASSUME Next, ~Arrive, ~StillNear, ~ChestOpen, ~NothingToDeposit, ~Moved
             PROVE  pc' \notin {"deposit", "select"} /\ (phase' # "Deposit" \/ phase' = phase)
    OBVIOUS
<1> USE DEF EndTurn, EndWithoutTurn, StopWork, Go
<1>1. CASE Discover
    BY <1>1 DEF Discover, Deferred, Continue, LockerGone, Scan, NothingFound, FailDiscovery, ScanExit,
       Reached, ValidationWaits, Risky, Unreachable, ExitFails, TakeFallback, TakeCandidate, Exhausted
<1>2. CASE Deposit
    BY <1>2 DEF Deposit, DestinationShut, WaitForAction, UseBox, UseLocker, UseChest, ReturnAgain,
       Displaced, OpenBox, Depart, SelectWaits, SelectStops, MoveDeposit, Mismatch, Retry,
       RejectedWaits, Discard
<1>3. CASE Starts \/ ApproachStalled \/ Walk
    BY <1>3 DEF Starts, ApproachStalled, Walk, ReturnAgain
<1>4. CASE Pushed \/ BagChanges \/ Attacked \/ SuppressionEnds
    BY <1>4 DEF Pushed, BagChanges, Attacked, SuppressionEnds, Mishap
<1> QED BY <1>1, <1>2, <1>3, <1>4 DEF Next

\* Until something happens to it, the bot stands at its locker.
LEMMA StandsStep ==
    ASSUME TypeParts, SelectedOK, StrandInv, Next, phase' = "Deposit", mishaps' = 0
    PROVE  pos' = "at" /\ selected' # None /\ pc' \notin {"scan", "validate", "next"}
<1>0. mishaps = 0 /\ mishaps \in Nat
    BY MishapsStay, DepotAssumption DEF TypeParts, PlaceType
<1>1. CASE Arrive
    BY <1>1 DEF Arrive, ToDeposit, Go, boxVars, SelectedOK
<1>2. CASE ~Arrive
    <2>1. phase = "Deposit"
        BY <1>2, DepositFrame DEF StillNear, ChestOpen, NothingToDeposit, Moved, Verifies, StrandInv
    <2>2. pos = "at" /\ selected # None /\ pc \notin {"scan", "validate", "next"}
        BY <2>1, <1>0 DEF StrandInv, StandsOK
    <2> USE <1>0, <2>1, <2>2 DEF boxVars, sessionVars, Go, EndTurn, EndWithoutTurn, StopWork
    <2>3. CASE Discover
        <3>1. Deferred \/ Continue \/ LockerGone
            BY <2>3 DEF Discover, Scan, ScanExit, Reached, ValidationWaits, Risky, Unreachable,
               ExitFails, TakeFallback, TakeCandidate, Exhausted
        <3>2. CASE Deferred
            BY <3>2 DEF Deferred
        <3>3. CASE Continue
            BY <3>3 DEF Continue
        <3>4. CASE LockerGone
            BY <3>4 DEF LockerGone
        <3> QED BY <3>1, <3>2, <3>3, <3>4
    <2>4. CASE Deposit
        BY <2>4 DEF Deposit, DestinationShut, WaitForAction, UseBox, UseLocker, UseChest,
           Displaced, OpenBox, ChestOpen, Depart, SelectWaits, SelectStops, NothingToDeposit,
           MoveDeposit, Moved, Mismatch, Retry, RejectedWaits, Discard
    <2>5. CASE Starts \/ ApproachStalled \/ Walk \/ StillNear
        BY <2>5 DEF Starts, ApproachStalled, Walk, StillNear, ToDeposit
    <2>6. CASE Pushed \/ BagChanges \/ Attacked \/ SuppressionEnds
        BY <2>6 DEF Pushed, BagChanges, Attacked, SuppressionEnds, Mishap
    <2> QED BY <1>2, <2>3, <2>4, <2>5, <2>6 DEF Next
<1> QED BY <1>1, <1>2

LEMMA StrandStep == TypeParts /\ SelectedOK /\ StrandInv /\ Next => StrandInv'
<1> SUFFICES ASSUME TypeParts, SelectedOK, StrandInv, Next PROVE StrandInv'
    OBVIOUS
<1>1. (pc \in {"deposit", "select"} => phase = "Deposit")'
    <2>1. CASE Arrive \/ StillNear
        BY <2>1 DEF Arrive, StillNear, ToDeposit
    <2>2. CASE ChestOpen \/ NothingToDeposit \/ Moved
        BY <2>2 DEF ChestOpen, NothingToDeposit, Moved, Verifies, StrandInv
    <2> QED BY <2>1, <2>2, DepositFrame
<1>2. StandsOK'
    BY StandsStep DEF StandsOK
<1>3. (Stranded => phase = "Deposit" /\ mishaps # 0)'
    <2> SUFFICES ASSUME Stranded' PROVE phase' = "Deposit" /\ mishaps' # 0
        OBVIOUS
    <2>1. CASE Displaced
        <3>1. phase = "Deposit" /\ mishaps # 0 /\ phase' = phase /\ mishaps' = mishaps
            BY <2>1 DEF Displaced, StrandInv, StandsOK
        <3> QED BY <3>1
    <2>2. CASE pc = "idle" /\ UNCHANGED <<turn, phase>>
        <3>1. Stranded
            BY <2>2 DEF Stranded, Working
        <3> QED BY <2>2, <3>1, MishapsStay DEF StrandInv
    <2> QED BY <2>1, <2>2, TurnsLeadOn DEF Stranded, Working
<1> QED BY <1>1, <1>2, <1>3 DEF StrandInv

\* A running depot controller has a turn to come until, in the deposit phase,
\* it has been pushed or its locker has gone: nothing else in discovery, walk,
\* opening and deposit forgets to schedule.
THEOREM OnlyDisplacedAreStranded == Spec => []StrandInv
<1>1. Init => StrandInv
    BY DEF Init, StrandInv, StandsOK, Stranded
<1>2. DepotInv /\ StrandInv /\ [Next]_vars => StrandInv'
    <2> SUFFICES ASSUME DepotInv, StrandInv, [Next]_vars PROVE StrandInv'
        OBVIOUS
    <2>1. CASE Next
        BY <2>1, StrandStep DEF DepotInv
    <2>2. CASE UNCHANGED vars
        BY <2>2 DEF vars, sessionVars, boxVars, StrandInv, StandsOK, Stranded, Working
    <2> QED BY <2>1, <2>2
<1> QED BY <1>1, <1>2, Invariance, PTL DEF Spec

\* LostByDisplacement: the return of processDeposit() for the command Navigate
\* is the only step that leaves a running controller without a turn, and after
\* it no step of the controller or the world gives it one.
THEOREM DisplacementIsTheOnlyHole == Spec => LostByDisplacement
<1>1. DepotInv /\ [Next]_vars =>
        [/\ ~Stranded /\ Stranded' => Displaced
         /\ Stranded => Stranded']_vars
    <2> SUFFICES ASSUME DepotInv, Next
                 PROVE  /\ ~Stranded /\ Stranded' => Displaced
                        /\ Stranded => Stranded'
        OBVIOUS
    <2>1. ~Stranded /\ Stranded' => Displaced
        BY TurnsLeadOn DEF Stranded, Working
    <2>2. ASSUME Stranded PROVE Stranded'
        <3>1. Pushed \/ BagChanges \/ Attacked \/ SuppressionEnds
            BY <2>2 DEF Stranded, Next, Discover, Deposit, Starts, Deferred, Continue, LockerGone,
               Scan, ScanExit, Reached, ValidationWaits, Risky, Unreachable, ExitFails,
               TakeFallback, TakeCandidate, Exhausted, ApproachStalled, Walk, Arrive, StillNear,
               DestinationShut, Displaced, OpenBox, ChestOpen, Depart, SelectWaits, SelectStops,
               NothingToDeposit, MoveDeposit, Moved, Verifies, Mismatch, Retry, RejectedWaits,
               Rejected, Discard
        <3> QED BY <2>2, <3>1 DEF Stranded, Working, Pushed, BagChanges, Attacked, SuppressionEnds,
                   Mishap
    <2> QED BY <2>1, <2>2
<1> QED BY <1>1, Invariance, PTL DEF Spec, LostByDisplacement
=============================================================================
