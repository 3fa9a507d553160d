--------------------- MODULE PlayerBotLifecycle_proofs ---------------------
(***************************************************************************)
(* The inductive invariant of PlayerBotLifecycle and its safety theorems,  *)
(* for any roster and any limits.                                          *)
(***************************************************************************)
EXTENDS PlayerBotLifecycle, TLAPS

\* Tokens: every renewal is fresh, an event id is its record's current token,
\* and a token names one task.
TokenInv ==
    /\ \A b \in Bots : generation[b] <= issued
    /\ \A b \in Bots : eventId[b] \in {0, generation[b]}
    /\ \A b, c \in Bots : generation[b] = generation[c] /\ generation[b] # 0 => b = c
    /\ \A t \in tasks : t.token # 0 /\ t.token <= issued
    /\ \A t, u \in tasks : t.token = u.token => t = u

\* The pending task of a managed record fits the record's phase.
PendingInv ==
    /\ OnlyOwnedTimerActs
    /\ \A t \in tasks : Managed(t.bot) /\ t.token = generation[t.bot] =>
        phase[t.bot] = IF t.kind = "activate" THEN "Reserved" ELSE "Recovering"
    /\ \A t \in tasks : (t.kind = "recover") <=> (t.attempt # 0)
    /\ \A b \in Bots : phase[b] = "Active" => eventId[b] = 0

\* What each phase keeps.
PhaseInv ==
    /\ \A b \in Bots : phase[b] = "Unlisted" <=> frame.pc = "boot"
    /\ \A b \in Bots : phase[b] \in {"Unlisted", "Reserved", "Terminal"} => controller[b] = 0
    /\ \A b \in Bots : phase[b] = "Terminal" => removing[b] \/ body[b] = 0
    /\ \A b \in Bots : awaiting[b] /\ Managed(b) =>
        /\ phase[b] = "Recovering" /\ controller[b] # 0 /\ body[b] = controller[b]
        /\ frame.bot = b /\ frame.pc = "dying"
    /\ \A b \in Bots : removing[b] <=> frame.bot = b /\ frame.pc \in {"evicting", "finalizing"}
    /\ \A b \in Bots : b \in unscheduled => phase[b] \notin {"Active", "Recovering"}
    /\ unremoved # {} => frame.pc \notin {"boot", "load", "failed"}
    /\ stopping => \A b \in Bots : Managed(b) => b \in unremoved
    /\ \A b \in Bots : 0 \notin live[b]

\* What the suspended handler may rely on when it goes on.
FrameInv ==
    LET b == frame.bot
        ours == generation[b] = frame.token
    IN
    /\ frame.token <= issued
    /\ frame.pc = "boot" => /\ tasks = {} /\ ~stopping /\ frame.attempt = 0
                           /\ \A c \in Bots : generation[c] = 0 /\ ~awaiting[c]
    /\ frame.pc \notin {"boot", "idle"} => b \notin unscheduled
    /\ frame.pc \in {"load", "login", "failed", "evicting", "finalizing"} /\ Managed(b) =>
        eventId[b] = 0
    /\ frame.pc \in {"load", "login", "failed"} => controller[b] = 0
    /\ frame.pc = "load" =>
        ours /\ phase[b] = IF frame.attempt = 0 THEN "Reserved" ELSE "Recovering"
    /\ frame.pc = "login" => bodies[b] # 0
    /\ frame.pc \in {"login", "failed"} =>
        IF frame.attempt = 0 THEN phase[b] \in {"Reserved", "Terminal"}
        ELSE (phase[b] = "Recovering" /\ ours) \/ (phase[b] = "Terminal" /\ ~ours)
    /\ frame.pc = "evicting" =>
        /\ frame.attempt # 0
        /\ (phase[b] = "Recovering" /\ ours) \/ (phase[b] = "Terminal" /\ ~ours)
    /\ frame.pc = "finalizing" => phase[b] \in {"Recovering", "Terminal"}
    /\ frame.pc = "starting" =>
        \/ phase[b] = "Active" /\ ours /\ controller[b] = bodies[b] /\ body[b] = bodies[b]
        \/ phase[b] = "Terminal" /\ ~ours

\* A body in the game has its row's name and nobody else at the keyboard.
SeatInv == \A b \in Bots : body[b] # 0 => ~human[b] /\ ~renamed[b]

\* What the manager promises.
Promises ==
    /\ RecoveryNotStranded
    /\ LiveControllerDrivesBody
    /\ SeatInv

IInv ==
    /\ TypeOK
    /\ TokenInv
    /\ PendingInv
    /\ PhaseInv
    /\ FrameInv
    /\ Promises

\* Task u will finish the recovery of b.
Rescues(u, b) ==
    u.bot = b /\ u.token = generation[b] /\ u.kind # "activate" /\ u.stage # "cancelled"

-----------------------------------------------------------------------------
(* Proofs *)

USE LifecycleAssumption

\* Every initial state satisfies the inductive invariant.
LEMMA IInvInit == Init => IInv
<1> SUFFICES ASSUME Init PROVE IInv
    OBVIOUS
<1> USE DEF Init, TypeOK, Frame, Phases, Managed
<1>1. TypeOK
  <2>1. frame \in [pc : {"boot", "load", "login", "starting", "failed", "evicting",
                          "finalizing", "dying"}, bot : Bots, attempt : Nat, token : Nat]
    OBVIOUS
  <2> QED BY <2>1
<1>2. TokenInv /\ PendingInv
    BY DEF TokenInv, PendingInv, OnlyOwnedTimerActs
<1>3. PhaseInv /\ FrameInv
    BY DEF PhaseInv, FrameInv
<1>4. Promises
    BY DEF Promises, RecoveryNotStranded, LiveControllerDrivesBody, SeatInv
<1> QED BY <1>1, <1>2, <1>3, <1>4 DEF IInv

\* Cancelling an event renews its record's token and names no task.
LEMMA CancelTokens ==
    ASSUME TypeOK, TokenInv, NEW b \in Bots, CancelEvent(b)
    PROVE  TokenInv'
<1> USE DEF TypeOK, Task, TokenInv
<1>1. /\ issued' = issued + 1 /\ issued \in Nat
      /\ generation' = [generation EXCEPT ![b] = issued + 1]
      /\ eventId' = [eventId EXCEPT ![b] = 0]
    BY DEF CancelEvent
<1>2. /\ \A c \in Bots : generation'[c] <= issued'
      /\ \A c \in Bots : eventId'[c] \in {0, generation'[c]}
      /\ \A c, d \in Bots : generation'[c] = generation'[d] /\ generation'[c] # 0 => c = d
    BY <1>1
<1>3. \A u \in tasks' : \E t \in tasks :
        u = IF t.token = eventId[b] /\ t.stage = "timer"
            THEN [t EXCEPT !.stage = "cancelled"] ELSE t
    BY DEF CancelEvent, StopEvent
<1>4. \A t \in tasks' : t.token # 0 /\ t.token <= issued'
    BY <1>1, <1>3
<1>5. \A t, u \in tasks' : t.token = u.token => t = u
    BY <1>3
<1> QED BY <1>2, <1>4, <1>5

\* Whatever removes a bot's player from the world (a kick, a script, a corpse)
\* keeps the tokens right: onPlayerRemoved either leaves them or renews one.
LEMMA RemovalTokens ==
    ASSUME IInv, NEW b \in Bots, RemoveBody(b)
    PROVE  (TokenInv /\ PendingInv)'
<1> USE DEF IInv, TypeOK, Task, Phases, Managed, RemoveBody, TokenInv, PendingInv,
            OnlyOwnedTimerActs
<1>1. CASE RemovalUnmanaged(b)
    BY <1>1 DEF RemovalUnmanaged, recordVars
<1>2. CASE RemovalBeforeController(b)
  <2>1. CASE phase[b] = "Recovering"
    BY <1>2, <2>1 DEF RemovalBeforeController
  <2>2. CASE CancelEvent(b)
    <3>1. TokenInv'
      BY <2>2, CancelTokens
    <3>2. PendingInv'
      BY <1>2, <2>2 DEF RemovalBeforeController, CancelEvent, StopEvent
    <3> QED BY <3>1, <3>2
  <2> QED BY <1>2, <2>1, <2>2 DEF RemovalBeforeController
<1>3. CASE RemovalAfterDeath(b)
    BY <1>3 DEF RemovalAfterDeath
<1>4. CASE RemovalTerminates(b)
  <2>1. TokenInv'
    BY <1>4, CancelTokens DEF RemovalTerminates
  <2>2. PendingInv'
    BY <1>4 DEF RemovalTerminates, CancelEvent, StopEvent
  <2> QED BY <2>1, <2>2
<1> QED BY <1>1, <1>2, <1>3, <1>4

\* It also keeps the state well typed, if the handler goes on well typed.
LEMMA RemovalType ==
    ASSUME TypeOK, NEW b \in Bots, RemoveBody(b), frame' \in Frame
    PROVE  TypeOK'
<1> USE DEF TypeOK, Task, Phases, Managed, loopVars, dbVars, RemoveBody
<1>1. CASE RemovalUnmanaged(b)
    BY <1>1 DEF RemovalUnmanaged, recordVars
<1>2. CASE RemovalBeforeController(b)
    BY <1>2 DEF RemovalBeforeController, CancelEvent, StopEvent
<1>3. CASE RemovalAfterDeath(b)
    BY <1>3 DEF RemovalAfterDeath
<1>4. CASE RemovalTerminates(b)
    BY <1>4 DEF RemovalTerminates, CancelEvent, StopEvent, StopController
<1> QED BY <1>1, <1>2, <1>3, <1>4

\* And what the manager promises survives it, if no handler lets go of b.
LEMMA RemovalPromises ==
    ASSUME IInv, NEW b \in Bots, RemoveBody(b), TypeOK', \A c \in Bots : InHand(c) => InHand(c)'
    PROVE  Promises'
<1> USE DEF IInv, TypeOK, Task, Phases, Managed, RemoveBody, Promises, loopVars, dbVars
<1>1. SeatInv'
    BY DEF SeatInv
<1>2. CASE RemovalUnmanaged(b)
    BY <1>1, <1>2 DEF RemovalUnmanaged, recordVars, RecoveryNotStranded,
       LiveControllerDrivesBody, Pending
<1>3. CASE RemovalBeforeController(b)
  <2>1. LiveControllerDrivesBody'
    BY <1>3 DEF RemovalBeforeController, LiveControllerDrivesBody
  <2>2. RecoveryNotStranded'
    BY <1>3 DEF RemovalBeforeController, CancelEvent, StopEvent, RecoveryNotStranded, Pending,
       TokenInv
  <2> QED BY <1>1, <2>1, <2>2
<1>4. CASE RemovalAfterDeath(b)
    BY <1>1, <1>4 DEF RemovalAfterDeath, RecoveryNotStranded, LiveControllerDrivesBody,
       Pending, PhaseInv
<1>5. CASE RemovalTerminates(b)
  <2>1. LiveControllerDrivesBody'
    BY <1>5 DEF RemovalTerminates, StopController, LiveControllerDrivesBody
  <2>2. RecoveryNotStranded'
    BY <1>5 DEF RemovalTerminates, CancelEvent, StopEvent, RecoveryNotStranded, Pending,
       TokenInv
  <2> QED BY <1>1, <2>1, <2>2
<1> QED BY <1>2, <1>3, <1>4, <1>5

\* No step of the manager, the scheduler or the world breaks the invariant.
LEMMA IInvStep == IInv /\ [Next]_vars => IInv'
<1> SUFFICES ASSUME IInv, [Next]_vars PROVE IInv'
    OBVIOUS
<1> USE DEF IInv, TypeOK, Task, Frame, Phases, Managed, recordVars, loopVars, worldVars,
            dbVars, IdleFrame
<1>1. CASE Start
  <2>1. TypeOK'
    BY <1>1 DEF Start, Call
  <2>2. (TokenInv /\ PendingInv)'
    BY <1>1, <2>1 DEF Start, Call, TokenInv, PendingInv, OnlyOwnedTimerActs,
           FrameInv
  <2>3. (PhaseInv /\ FrameInv)'
    BY <1>1, <2>1 DEF Start, Call, PhaseInv, FrameInv, TokenInv, PendingInv
  <2>4. Promises'
    BY <1>1, <2>1 DEF Start, Call, Promises, RecoveryNotStranded,
           LiveControllerDrivesBody, SeatInv, InHand, Pending, FrameInv,
           PendingInv, PhaseInv, OnlyOwnedTimerActs, TokenInv
  <2> QED BY <2>1, <2>2, <2>3, <2>4
<1>2. ASSUME NEW b \in Bots, ScheduleActivation(b) PROVE IInv'
  <2>1. TypeOK'
    BY <1>2 DEF ScheduleActivation, Schedule
  <2>2. (TokenInv /\ PendingInv)'
    BY <1>2, <2>1 DEF ScheduleActivation, Schedule, TokenInv, PendingInv,
          OnlyOwnedTimerActs, PhaseInv
  <2>3. (PhaseInv /\ FrameInv)'
    BY <1>2, <2>1 DEF ScheduleActivation, Schedule, PhaseInv, FrameInv, TokenInv,
           PendingInv
  <2>4. Promises'
    BY <1>2, <2>1 DEF ScheduleActivation, Schedule, Promises, RecoveryNotStranded,
           LiveControllerDrivesBody, SeatInv, InHand, Pending, FrameInv,
           PendingInv, PhaseInv, OnlyOwnedTimerActs, TokenInv
  <2> QED BY <2>1, <2>2, <2>3, <2>4
<1>3. ASSUME NEW t \in tasks, Expire(t) PROVE IInv'
  <2>1. TypeOK'
    BY <1>3 DEF Expire
  <2>2. (TokenInv /\ PendingInv)'
    BY <1>3, <2>1 DEF Expire, TokenInv, PendingInv, OnlyOwnedTimerActs, FrameInv
  <2>3. (PhaseInv /\ FrameInv)'
    BY <1>3, <2>1 DEF Expire, PhaseInv, FrameInv, TokenInv, PendingInv
  <2>4. Promises'
    <3>1. SUFFICES ASSUME NEW b \in Bots, phase[b] = "Recovering", ~InHand(b)
                   PROVE  \E u \in tasks' : Rescues(u, b)
      BY <1>3 DEF Expire, Promises, RecoveryNotStranded, LiveControllerDrivesBody,
             SeatInv, InHand, Pending, Rescues
    <3>2. PICK u \in tasks : Rescues(u, b)
      BY <3>1 DEF Promises, RecoveryNotStranded, Pending, Rescues
    <3>3. CASE u = t
      <4>1. [t EXCEPT !.stage = "queued"] \in tasks'
        BY <1>3 DEF Expire
      <4> QED BY <3>2, <3>3, <4>1 DEF Rescues
    <3>4. CASE u # t
      BY <1>3, <3>2, <3>4 DEF Expire
    <3> QED BY <3>3, <3>4
  <2> QED BY <2>1, <2>2, <2>3, <2>4
<1>4. ASSUME NEW t \in tasks, Abort(t) PROVE IInv'
  <2>1. TypeOK'
    BY <1>4 DEF Abort
  <2>2. (TokenInv /\ PendingInv)'
    BY <1>4, <2>1 DEF Abort, TokenInv, PendingInv, OnlyOwnedTimerActs, FrameInv
  <2>3. (PhaseInv /\ FrameInv)'
    BY <1>4, <2>1 DEF Abort, PhaseInv, FrameInv, TokenInv, PendingInv
  <2>4. Promises'
    BY <1>4, <2>1 DEF Abort, Promises, RecoveryNotStranded,
           LiveControllerDrivesBody, SeatInv, InHand, Pending, FrameInv,
           PendingInv, PhaseInv, OnlyOwnedTimerActs, TokenInv
  <2> QED BY <2>1, <2>2, <2>3, <2>4
<1>5. ASSUME NEW t \in tasks, DiscardStale(t) PROVE IInv'
  <2>1. TypeOK'
    BY <1>5 DEF DiscardStale, Idle, Accepts
  <2>2. (TokenInv /\ PendingInv)'
    BY <1>5, <2>1 DEF DiscardStale, Idle, Accepts, TokenInv, PendingInv,
           OnlyOwnedTimerActs, FrameInv
  <2>3. (PhaseInv /\ FrameInv)'
    BY <1>5, <2>1 DEF DiscardStale, Idle, Accepts, PhaseInv, FrameInv, TokenInv,
           PendingInv
  <2>4. Promises'
    BY <1>5, <2>1 DEF DiscardStale, Idle, Accepts, Promises, RecoveryNotStranded,
           LiveControllerDrivesBody, SeatInv, InHand, Pending, FrameInv,
           PendingInv, PhaseInv, OnlyOwnedTimerActs, TokenInv
  <2> QED BY <2>1, <2>2, <2>3, <2>4
<1>6. ASSUME NEW t \in tasks, Activate(t) PROVE IInv'
  <2>1. TypeOK'
    BY <1>6 DEF Activate, Dispatched, Idle, Take, Accepts, Enter, Call
  <2>2. (TokenInv /\ PendingInv)'
    BY <1>6, <2>1 DEF Activate, Dispatched, Idle, Take, Accepts, Enter, Call,
           TokenInv, PendingInv, OnlyOwnedTimerActs, FrameInv
  <2>3. (PhaseInv /\ FrameInv)'
    BY <1>6, <2>1 DEF Activate, Dispatched, Idle, Take, Accepts, Enter, Call,
           PhaseInv, FrameInv, TokenInv, PendingInv
  <2>4. Promises'
    BY <1>6, <2>1 DEF Activate, Dispatched, Idle, Take, Accepts, Enter, Call,
           Promises, RecoveryNotStranded, LiveControllerDrivesBody, SeatInv,
           InHand, Pending, FrameInv, PendingInv, PhaseInv, OnlyOwnedTimerActs,
           TokenInv
  <2> QED BY <2>1, <2>2, <2>3, <2>4
<1>7. ASSUME NEW t \in tasks, RecoverConflict(t) PROVE IInv'
  <2>1. TypeOK'
    BY <1>7 DEF RecoverConflict, Dispatched, Idle, Take, Accepts, StopController,
           Suspend
  <2>2. (TokenInv /\ PendingInv)'
    BY <1>7, <2>1 DEF RecoverConflict, Dispatched, Idle, Take, Accepts,
           StopController, Suspend, TokenInv, PendingInv, OnlyOwnedTimerActs,
           FrameInv
  <2>3. (PhaseInv /\ FrameInv)'
    BY <1>7, <2>1 DEF RecoverConflict, Dispatched, Idle, Take, Accepts,
           StopController, Suspend, PhaseInv, FrameInv, TokenInv, PendingInv
  <2>4. Promises'
    BY <1>7, <2>1 DEF RecoverConflict, Dispatched, Idle, Take, Accepts,
           StopController, Suspend, Promises, RecoveryNotStranded,
           LiveControllerDrivesBody, SeatInv, InHand, Pending, FrameInv,
           PendingInv, PhaseInv, OnlyOwnedTimerActs, TokenInv
  <2> QED BY <2>1, <2>2, <2>3, <2>4
<1>8. ASSUME NEW t \in tasks, RecoverEvict(t) PROVE IInv'
  <2>1. TypeOK'
    BY <1>8 DEF RecoverEvict, Dispatched, Idle, Take, Accepts, StopController,
           BeginEviction, Enter, Call
  <2>2. (TokenInv /\ PendingInv)'
    BY <1>8, <2>1 DEF RecoverEvict, Dispatched, Idle, Take, Accepts, StopController,
           BeginEviction, Enter, Call, TokenInv, PendingInv, OnlyOwnedTimerActs,
           FrameInv
  <2>3. (PhaseInv /\ FrameInv)'
    BY <1>8, <2>1 DEF RecoverEvict, Dispatched, Idle, Take, Accepts, StopController,
           BeginEviction, Enter, Call, PhaseInv, FrameInv, TokenInv, PendingInv
  <2>4. Promises'
    BY <1>8, <2>1 DEF RecoverEvict, Dispatched, Idle, Take, Accepts, StopController,
           BeginEviction, Enter, Call, Promises, RecoveryNotStranded,
           LiveControllerDrivesBody, SeatInv, InHand, Pending, FrameInv,
           PendingInv, PhaseInv, OnlyOwnedTimerActs, TokenInv
  <2> QED BY <2>1, <2>2, <2>3, <2>4
<1>9. ASSUME NEW t \in tasks, RecoverReload(t) PROVE IInv'
  <2>1. TypeOK'
    BY <1>9 DEF RecoverReload, Dispatched, Idle, Take, Accepts, StopController,
           Enter, Call
  <2>2. (TokenInv /\ PendingInv)'
    BY <1>9, <2>1 DEF RecoverReload, Dispatched, Idle, Take, Accepts,
           StopController, Enter, Call, TokenInv, PendingInv, OnlyOwnedTimerActs,
           FrameInv
  <2>3. (PhaseInv /\ FrameInv)'
    BY <1>9, <2>1 DEF RecoverReload, Dispatched, Idle, Take, Accepts,
           StopController, Enter, Call, PhaseInv, FrameInv, TokenInv, PendingInv
  <2>4. Promises'
    BY <1>9, <2>1 DEF RecoverReload, Dispatched, Idle, Take, Accepts,
           StopController, Enter, Call, Promises, RecoveryNotStranded,
           LiveControllerDrivesBody, SeatInv, InHand, Pending, FrameInv,
           PendingInv, PhaseInv, OnlyOwnedTimerActs, TokenInv
  <2> QED BY <2>1, <2>2, <2>3, <2>4
<1>10. CASE EvictReturns
  <2>1. TypeOK'
    BY <1>10 DEF EvictReturns, StopController, Goto, Finish
  <2>2. (TokenInv /\ PendingInv)'
    BY <1>10, <2>1 DEF EvictReturns, StopController, Goto, Finish, TokenInv,
           PendingInv, OnlyOwnedTimerActs, FrameInv
  <2>3. (PhaseInv /\ FrameInv)'
    BY <1>10, <2>1 DEF EvictReturns, StopController, Goto, Finish, PhaseInv,
           FrameInv, TokenInv, PendingInv
  <2>4. Promises'
    BY <1>10, <2>1 DEF EvictReturns, StopController, Goto, Finish, Promises,
           RecoveryNotStranded, LiveControllerDrivesBody, SeatInv, InHand,
           Pending, FrameInv, PendingInv, PhaseInv, OnlyOwnedTimerActs, TokenInv
  <2> QED BY <2>1, <2>2, <2>3, <2>4
<1>11. ASSUME NEW t \in tasks, Finalize(t) PROVE IInv'
  <2>1. TypeOK'
    BY <1>11 DEF Finalize, Dispatched, Idle, Take, Accepts, StopController, Suspend
  <2>2. (TokenInv /\ PendingInv)'
    BY <1>11, <2>1 DEF Finalize, Dispatched, Idle, Take, Accepts, StopController,
           Suspend, TokenInv, PendingInv, OnlyOwnedTimerActs, FrameInv
  <2>3. (PhaseInv /\ FrameInv)'
    BY <1>11, <2>1 DEF Finalize, Dispatched, Idle, Take, Accepts, StopController,
           Suspend, PhaseInv, FrameInv, TokenInv, PendingInv
  <2>4. Promises'
    BY <1>11, <2>1 DEF Finalize, Dispatched, Idle, Take, Accepts, StopController,
           Suspend, Promises, RecoveryNotStranded, LiveControllerDrivesBody,
           SeatInv, InHand, Pending, FrameInv, PendingInv, PhaseInv,
           OnlyOwnedTimerActs, TokenInv
  <2> QED BY <2>1, <2>2, <2>3, <2>4
<1>12. ASSUME NEW t \in tasks, FinalizeEvict(t) PROVE IInv'
  <2>1. TypeOK'
    BY <1>12 DEF FinalizeEvict, Dispatched, Idle, Take, Accepts, StopController,
           BeginEviction, Enter, Call
  <2>2. (TokenInv /\ PendingInv)'
    BY <1>12, <2>1 DEF FinalizeEvict, Dispatched, Idle, Take, Accepts,
           StopController, BeginEviction, Enter, Call, TokenInv, PendingInv,
           OnlyOwnedTimerActs, FrameInv
  <2>3. (PhaseInv /\ FrameInv)'
    BY <1>12, <2>1 DEF FinalizeEvict, Dispatched, Idle, Take, Accepts,
           StopController, BeginEviction, Enter, Call, PhaseInv, FrameInv, TokenInv,
           PendingInv
  <2>4. Promises'
    BY <1>12, <2>1 DEF FinalizeEvict, Dispatched, Idle, Take, Accepts,
           StopController, BeginEviction, Enter, Call, Promises,
           RecoveryNotStranded, LiveControllerDrivesBody, SeatInv, InHand,
           Pending, FrameInv, PendingInv, PhaseInv, OnlyOwnedTimerActs, TokenInv
  <2> QED BY <2>1, <2>2, <2>3, <2>4
<1>13. CASE FinalizeReturns
  <2>1. TypeOK'
    BY <1>13 DEF FinalizeReturns, Finish, Suspend
  <2>2. (TokenInv /\ PendingInv)'
    BY <1>13, <2>1 DEF FinalizeReturns, Finish, Suspend, TokenInv, PendingInv,
           OnlyOwnedTimerActs, FrameInv
  <2>3. (PhaseInv /\ FrameInv)'
    BY <1>13, <2>1 DEF FinalizeReturns, Finish, Suspend, PhaseInv, FrameInv,
           TokenInv, PendingInv
  <2>4. Promises'
    BY <1>13, <2>1 DEF FinalizeReturns, Finish, Suspend, Promises,
           RecoveryNotStranded, LiveControllerDrivesBody, SeatInv, InHand,
           Pending, FrameInv, PendingInv, PhaseInv, OnlyOwnedTimerActs, TokenInv
  <2> QED BY <2>1, <2>2, <2>3, <2>4
<1>14. CASE LoadPlaces
  <2>1. TypeOK'
    BY <1>14 DEF LoadPlaces, Call
  <2>2. (TokenInv /\ PendingInv)'
    BY <1>14, <2>1 DEF LoadPlaces, Call, TokenInv, PendingInv, OnlyOwnedTimerActs,
           FrameInv
  <2>3. (PhaseInv /\ FrameInv)'
    BY <1>14, <2>1 DEF LoadPlaces, Call, PhaseInv, FrameInv, TokenInv, PendingInv
  <2>4. Promises'
    BY <1>14, <2>1 DEF LoadPlaces, Call, Promises, RecoveryNotStranded,
           LiveControllerDrivesBody, SeatInv, InHand, Pending, FrameInv,
           PendingInv, PhaseInv, OnlyOwnedTimerActs, TokenInv
  <2> QED BY <2>1, <2>2, <2>3, <2>4
<1>15. CASE LoadFails
  <2>1. TypeOK'
    BY <1>15 DEF LoadFails, Goto
  <2>2. (TokenInv /\ PendingInv)'
    BY <1>15, <2>1 DEF LoadFails, Goto, TokenInv, PendingInv, OnlyOwnedTimerActs,
           FrameInv
  <2>3. (PhaseInv /\ FrameInv)'
    BY <1>15, <2>1 DEF LoadFails, Goto, PhaseInv, FrameInv, TokenInv, PendingInv
  <2>4. Promises'
    BY <1>15, <2>1 DEF LoadFails, Goto, Promises, RecoveryNotStranded,
           LiveControllerDrivesBody, SeatInv, InHand, Pending, FrameInv,
           PendingInv, PhaseInv, OnlyOwnedTimerActs, TokenInv
  <2> QED BY <2>1, <2>2, <2>3, <2>4
<1>16. CASE LoginAccepted
  <2>1. TypeOK'
    BY <1>16 DEF LoginAccepted, Goto
  <2>2. (TokenInv /\ PendingInv)'
    BY <1>16, <2>1 DEF LoginAccepted, Goto, TokenInv, PendingInv,
           OnlyOwnedTimerActs, FrameInv
  <2>3. (PhaseInv /\ FrameInv)'
    BY <1>16, <2>1 DEF LoginAccepted, Goto, PhaseInv, FrameInv, TokenInv, PendingInv
  <2>4. Promises'
    BY <1>16, <2>1 DEF LoginAccepted, Goto, Promises, RecoveryNotStranded,
           LiveControllerDrivesBody, SeatInv, InHand, Pending, FrameInv,
           PendingInv, PhaseInv, OnlyOwnedTimerActs, TokenInv
  <2> QED BY <2>1, <2>2, <2>3, <2>4
<1>17. CASE LoginRejected
  <2>1. TypeOK'
    BY <1>17 DEF LoginRejected, Goto
  <2>2. (TokenInv /\ PendingInv)'
    BY <1>17, <2>1 DEF LoginRejected, Goto, TokenInv, PendingInv,
           OnlyOwnedTimerActs, FrameInv
  <2>3. (PhaseInv /\ FrameInv)'
    BY <1>17, <2>1 DEF LoginRejected, Goto, PhaseInv, FrameInv, TokenInv, PendingInv
  <2>4. Promises'
    BY <1>17, <2>1 DEF LoginRejected, Goto, Promises, RecoveryNotStranded,
           LiveControllerDrivesBody, SeatInv, InHand, Pending, FrameInv,
           PendingInv, PhaseInv, OnlyOwnedTimerActs, TokenInv
  <2> QED BY <2>1, <2>2, <2>3, <2>4
<1>18. CASE StartReturns
  <2>1. TypeOK'
    BY <1>18 DEF StartReturns, Goto, Finish
  <2>2. (TokenInv /\ PendingInv)'
    BY <1>18, <2>1 DEF StartReturns, Goto, Finish, TokenInv, PendingInv,
           OnlyOwnedTimerActs, FrameInv
  <2>3. (PhaseInv /\ FrameInv)'
    BY <1>18, <2>1 DEF StartReturns, Goto, Finish, PhaseInv, FrameInv, TokenInv,
           PendingInv
  <2>4. Promises'
    BY <1>18, <2>1 DEF StartReturns, Goto, Finish, Promises, RecoveryNotStranded,
           LiveControllerDrivesBody, SeatInv, InHand, Pending, FrameInv,
           PendingInv, PhaseInv, OnlyOwnedTimerActs, TokenInv
  <2> QED BY <2>1, <2>2, <2>3, <2>4
<1>19. CASE FailureIgnored
  <2>1. TypeOK'
    BY <1>19 DEF FailureIgnored, Finish
  <2>2. (TokenInv /\ PendingInv)'
    BY <1>19, <2>1 DEF FailureIgnored, Finish, TokenInv, PendingInv,
           OnlyOwnedTimerActs, FrameInv
  <2>3. (PhaseInv /\ FrameInv)'
    BY <1>19, <2>1 DEF FailureIgnored, Finish, PhaseInv, FrameInv, TokenInv,
           PendingInv
  <2>4. Promises'
    BY <1>19, <2>1 DEF FailureIgnored, Finish, Promises, RecoveryNotStranded,
           LiveControllerDrivesBody, SeatInv, InHand, Pending, FrameInv,
           PendingInv, PhaseInv, OnlyOwnedTimerActs, TokenInv
  <2> QED BY <2>1, <2>2, <2>3, <2>4
<1>20. CASE RelogRetried
  <2>1. TypeOK'
    BY <1>20 DEF RelogRetried, Finish, Schedule
  <2>2. (TokenInv /\ PendingInv)'
    BY <1>20, <2>1 DEF RelogRetried, Finish, Schedule, TokenInv, PendingInv,
           OnlyOwnedTimerActs, FrameInv
  <2>3. (PhaseInv /\ FrameInv)'
    BY <1>20, <2>1 DEF RelogRetried, Finish, Schedule, PhaseInv, FrameInv, TokenInv,
           PendingInv
  <2>4. Promises'
    <3> DEFINE new == [bot |-> frame.bot, kind |-> "recover", token |-> issued + 1,
                       attempt |-> frame.attempt + 1, stage |-> "timer"]
    <3>1. new \in tasks' /\ tasks \subseteq tasks' /\ generation'[frame.bot] = issued + 1
      BY <1>20 DEF RelogRetried, Schedule
    <3>2. \A b \in Bots : b # frame.bot => generation'[b] = generation[b]
      BY <1>20 DEF RelogRetried, Schedule
    <3> QED BY <1>20, <3>1, <3>2 DEF RelogRetried, Finish, Promises, RecoveryNotStranded,
               LiveControllerDrivesBody, SeatInv, InHand, Pending
  <2> QED BY <2>1, <2>2, <2>3, <2>4
<1>21. CASE RelogAbandoned
  <2>1. TypeOK'
    BY <1>21 DEF RelogAbandoned, Finish, Suspend
  <2>2. (TokenInv /\ PendingInv)'
    BY <1>21, <2>1 DEF RelogAbandoned, Finish, Suspend, TokenInv, PendingInv,
           OnlyOwnedTimerActs, FrameInv
  <2>3. (PhaseInv /\ FrameInv)'
    BY <1>21, <2>1 DEF RelogAbandoned, Finish, Suspend, PhaseInv, FrameInv,
           TokenInv, PendingInv
  <2>4. Promises'
    BY <1>21, <2>1 DEF RelogAbandoned, Finish, Suspend, Promises,
           RecoveryNotStranded, LiveControllerDrivesBody, SeatInv, InHand,
           Pending, FrameInv, PendingInv, PhaseInv, OnlyOwnedTimerActs, TokenInv
  <2> QED BY <2>1, <2>2, <2>3, <2>4
<1>22. ASSUME NEW b \in Bots, DeathIgnored(b) PROVE IInv'
  <2>1. TypeOK'
    BY <1>22 DEF DeathIgnored, Dying, Idle, Mourned, Call
  <2>2. (TokenInv /\ PendingInv)'
    BY <1>22, <2>1 DEF DeathIgnored, Dying, Idle, Mourned, Call, TokenInv,
           PendingInv, OnlyOwnedTimerActs, FrameInv
  <2>3. (PhaseInv /\ FrameInv)'
    BY <1>22, <2>1 DEF DeathIgnored, Dying, Idle, Mourned, Call, PhaseInv, FrameInv,
           TokenInv, PendingInv
  <2>4. Promises'
    BY <1>22, <2>1 DEF DeathIgnored, Dying, Idle, Mourned, Call, Promises,
           RecoveryNotStranded, LiveControllerDrivesBody, SeatInv, InHand,
           Pending, FrameInv, PendingInv, PhaseInv, OnlyOwnedTimerActs, TokenInv
  <2> QED BY <2>1, <2>2, <2>3, <2>4
<1>23. ASSUME NEW b \in Bots, NEW s \in BOOLEAN, Death(b, s) PROVE IInv'
  <2>0. PICK k \in {"finalize", "recover"}, n \in {0, 1} :
            Schedule(b, k, n) /\ (k = "recover" <=> n = 1)
    BY <1>23 DEF Death, Mourned, PendingInv
  <2>1. TypeOK'
    BY <1>23 DEF Death, Dying, Idle, Mourned, Call, Schedule, StopController
  <2>2. (TokenInv /\ PendingInv)'
    BY <1>23, <2>0, <2>1 DEF Death, Dying, Idle, Mourned, Schedule, TokenInv, PendingInv,
          OnlyOwnedTimerActs
  <2>3. (PhaseInv /\ FrameInv)'
    BY <1>23, <2>1 DEF Death, Dying, Idle, Mourned, Call, Schedule, StopController,
           PhaseInv, FrameInv, TokenInv, PendingInv
  <2>4. Promises'
    <3> DEFINE new == [bot |-> b, kind |-> k, token |-> issued + 1, attempt |-> n,
                       stage |-> "timer"]
    <3>1. new \in tasks' /\ tasks \subseteq tasks' /\ generation'[b] = issued + 1
      BY <2>0 DEF Schedule
    <3>2. \A c \in Bots : c # b => generation'[c] = generation[c] /\ phase'[c] = phase[c]
      BY <1>23, <2>0 DEF Death, Schedule
    <3>3. RecoveryNotStranded'
      BY <1>23, <2>0, <3>1, <3>2 DEF Death, Dying, Idle, Call, Promises, RecoveryNotStranded,
         InHand, Pending
    <3> QED BY <1>23, <3>3 DEF Death, Mourned, StopController, Promises,
               LiveControllerDrivesBody, SeatInv
  <2> QED BY <2>1, <2>2, <2>3, <2>4
<1>24. CASE DeathCompletes
  <2>1. TypeOK'
    BY <1>24 DEF DeathCompletes, Finish
  <2>2. (TokenInv /\ PendingInv)'
    BY <1>24, <2>1 DEF DeathCompletes, Finish, TokenInv, PendingInv,
           OnlyOwnedTimerActs, FrameInv
  <2>3. (PhaseInv /\ FrameInv)'
    BY <1>24, <2>1 DEF DeathCompletes, Finish, PhaseInv, FrameInv, TokenInv,
           PendingInv
  <2>4. Promises'
    BY <1>24, <2>1 DEF DeathCompletes, Finish, Promises, RecoveryNotStranded,
           LiveControllerDrivesBody, SeatInv, InHand, Pending, FrameInv,
           PendingInv, PhaseInv, OnlyOwnedTimerActs, TokenInv
  <2> QED BY <2>1, <2>2, <2>3, <2>4
<1>25. ASSUME NEW b \in Bots, ControllerStops(b) PROVE IInv'
  <2>1. TypeOK'
    BY <1>25 DEF ControllerStops, ScriptsRun, Idle, StopController
  <2>2. (TokenInv /\ PendingInv)'
    BY <1>25, <2>1 DEF ControllerStops, ScriptsRun, Idle, StopController, TokenInv,
           PendingInv, OnlyOwnedTimerActs, FrameInv
  <2>3. (PhaseInv /\ FrameInv)'
    BY <1>25, <2>1 DEF ControllerStops, ScriptsRun, Idle, StopController, PhaseInv,
           FrameInv, TokenInv, PendingInv
  <2>4. Promises'
    BY <1>25, <2>1 DEF ControllerStops, ScriptsRun, Idle, StopController, Promises,
           RecoveryNotStranded, LiveControllerDrivesBody, SeatInv, InHand,
           Pending, FrameInv, PendingInv, PhaseInv, OnlyOwnedTimerActs, TokenInv
  <2> QED BY <2>1, <2>2, <2>3, <2>4
<1>26. CASE Shutdown
  <2>1. TypeOK'
    BY <1>26 DEF Shutdown, ScriptsRun, Idle
  <2>2. (TokenInv /\ PendingInv)'
    BY <1>26, <2>1 DEF Shutdown, ScriptsRun, Idle, TokenInv, PendingInv,
           OnlyOwnedTimerActs, FrameInv
  <2>3. (PhaseInv /\ FrameInv)'
    BY <1>26, <2>1 DEF Shutdown, ScriptsRun, Idle, PhaseInv, FrameInv, TokenInv,
           PendingInv
  <2>4. Promises'
    BY <1>26, <2>1 DEF Shutdown, ScriptsRun, Idle, Promises, RecoveryNotStranded,
           LiveControllerDrivesBody, SeatInv, InHand, Pending, FrameInv,
           PendingInv, PhaseInv, OnlyOwnedTimerActs, TokenInv
  <2> QED BY <2>1, <2>2, <2>3, <2>4
<1>27. ASSUME NEW b \in Bots, RemoveTerminal(b) PROVE IInv'
  <2>1. TypeOK'
    BY <1>27 DEF RemoveTerminal
  <2>2. (TokenInv /\ PendingInv)'
    BY <1>27, <2>1 DEF RemoveTerminal, TokenInv, PendingInv, OnlyOwnedTimerActs,
           FrameInv
  <2>3. (PhaseInv /\ FrameInv)'
    BY <1>27, <2>1 DEF RemoveTerminal, PhaseInv, FrameInv, TokenInv, PendingInv
  <2>4. Promises'
    BY <1>27, <2>1 DEF RemoveTerminal, Promises, RecoveryNotStranded,
           LiveControllerDrivesBody, SeatInv, InHand, Pending, FrameInv,
           PendingInv, PhaseInv, OnlyOwnedTimerActs, TokenInv
  <2> QED BY <2>1, <2>2, <2>3, <2>4
<1>28. ASSUME NEW b \in Bots, Remove(b) PROVE IInv'
  <2>1. TypeOK'
    BY <1>28 DEF Remove, CancelEvent, StopEvent, StopController
  <2>2. (TokenInv /\ PendingInv)'
    <3>1. TokenInv'
      BY <1>28, CancelTokens DEF Remove
    <3>2. PendingInv'
      BY <1>28, <2>1 DEF Remove, CancelEvent, StopEvent, TokenInv, PendingInv, OnlyOwnedTimerActs
    <3> QED BY <3>1, <3>2
  <2>3. (PhaseInv /\ FrameInv)'
    BY <1>28, <2>1 DEF Remove, CancelEvent, StopEvent, StopController, PhaseInv,
           FrameInv, TokenInv, PendingInv
  <2>4. Promises'
    BY <1>28, <2>1 DEF Remove, CancelEvent, StopEvent, StopController, Promises,
           RecoveryNotStranded, LiveControllerDrivesBody, SeatInv, InHand,
           Pending, FrameInv, PendingInv, PhaseInv, OnlyOwnedTimerActs, TokenInv
  <2> QED BY <2>1, <2>2, <2>3, <2>4
<1>29. ASSUME NEW b \in Bots, HumanLogin(b) PROVE IInv'
  <2>1. TypeOK'
    BY <1>29 DEF HumanLogin, Idle
  <2>2. (TokenInv /\ PendingInv)'
    BY <1>29, <2>1 DEF HumanLogin, Idle, TokenInv, PendingInv, OnlyOwnedTimerActs,
           FrameInv
  <2>3. (PhaseInv /\ FrameInv)'
    BY <1>29, <2>1 DEF HumanLogin, Idle, PhaseInv, FrameInv, TokenInv, PendingInv
  <2>4. Promises'
    BY <1>29, <2>1 DEF HumanLogin, Idle, Promises, RecoveryNotStranded,
           LiveControllerDrivesBody, SeatInv, InHand, Pending, FrameInv,
           PendingInv, PhaseInv, OnlyOwnedTimerActs, TokenInv
  <2> QED BY <2>1, <2>2, <2>3, <2>4
<1>30. ASSUME NEW b \in Bots, HumanLogout(b) PROVE IInv'
  <2>1. TypeOK'
    BY <1>30 DEF HumanLogout, Idle
  <2>2. (TokenInv /\ PendingInv)'
    BY <1>30, <2>1 DEF HumanLogout, Idle, TokenInv, PendingInv, OnlyOwnedTimerActs,
           FrameInv
  <2>3. (PhaseInv /\ FrameInv)'
    BY <1>30, <2>1 DEF HumanLogout, Idle, PhaseInv, FrameInv, TokenInv, PendingInv
  <2>4. Promises'
    BY <1>30, <2>1 DEF HumanLogout, Idle, Promises, RecoveryNotStranded,
           LiveControllerDrivesBody, SeatInv, InHand, Pending, FrameInv,
           PendingInv, PhaseInv, OnlyOwnedTimerActs, TokenInv
  <2> QED BY <2>1, <2>2, <2>3, <2>4
<1>31. ASSUME NEW b \in Bots, EditRow(b) PROVE IInv'
  <2>1. TypeOK'
    BY <1>31 DEF EditRow, Idle
  <2>2. (TokenInv /\ PendingInv)'
    BY <1>31, <2>1 DEF EditRow, Idle, TokenInv, PendingInv, OnlyOwnedTimerActs,
           FrameInv
  <2>3. (PhaseInv /\ FrameInv)'
    BY <1>31, <2>1 DEF EditRow, Idle, PhaseInv, FrameInv, TokenInv, PendingInv
  <2>4. Promises'
    BY <1>31, <2>1 DEF EditRow, Idle, Promises, RecoveryNotStranded,
           LiveControllerDrivesBody, SeatInv, InHand, Pending, FrameInv,
           PendingInv, PhaseInv, OnlyOwnedTimerActs, TokenInv
  <2> QED BY <2>1, <2>2, <2>3, <2>4
<1>32. ASSUME NEW b \in Bots, Kick(b) PROVE IInv'
  <2>1. RemoveBody(b) /\ frame' = frame /\ b \in Bots
    BY <1>32 DEF Kick
  <2>2. TypeOK'
    BY <2>1, RemovalType
  <2>3. (TokenInv /\ PendingInv)'
    BY <2>1, RemovalTokens
  <2>4. (PhaseInv /\ FrameInv)'
    <3>1. CASE RemovalUnmanaged(b)
      BY <1>32, <2>1, <2>2, <3>1 DEF RemovalUnmanaged, RemoveBody, PhaseInv, FrameInv
    <3>2. CASE RemovalBeforeController(b)
      BY <1>32, <2>1, <2>2, <3>2 DEF Kick, ScriptsRun, Idle, RemovalBeforeController, CancelEvent,
         RemoveBody, PhaseInv, FrameInv, TokenInv
    <3>3. CASE RemovalAfterDeath(b)
      BY <1>32, <2>1, <2>2, <3>3 DEF RemovalAfterDeath, RemoveBody, PhaseInv, FrameInv
    <3>4. CASE RemovalTerminates(b)
      BY <1>32, <2>1, <2>2, <3>4 DEF Kick, ScriptsRun, Idle, RemovalTerminates, CancelEvent, StopController,
         RemoveBody, PhaseInv, FrameInv, TokenInv
    <3> QED BY <2>1, <3>1, <3>2, <3>3, <3>4 DEF RemoveBody
  <2>5. Promises'
    BY <2>1, <2>2, RemovalPromises DEF InHand
  <2> QED BY <2>2, <2>3, <2>4, <2>5
<1>33. CASE CorpseDrops
  <2> DEFINE b == frame.bot
  <2>1. RemoveBody(b) /\ frame' = IdleFrame /\ b \in Bots /\ frame.pc = "dying" /\ unremoved = {}
    BY <1>33 DEF CorpseDrops, Finish
  <2>2. TypeOK'
    BY <2>1, RemovalType
  <2>3. (TokenInv /\ PendingInv)'
    BY <2>1, RemovalTokens
  <2>4. (PhaseInv /\ FrameInv)'
    <3>1. CASE RemovalUnmanaged(b)
      BY <2>1, <2>2, <3>1 DEF RemovalUnmanaged, RemoveBody, PhaseInv, FrameInv
    <3>2. CASE RemovalBeforeController(b)
      BY <2>1, <2>2, <3>2 DEF RemovalBeforeController, CancelEvent, RemoveBody, PhaseInv, FrameInv
    <3>3. CASE RemovalAfterDeath(b)
      BY <2>1, <2>2, <3>3 DEF RemovalAfterDeath, RemoveBody, PhaseInv, FrameInv
    <3>4. CASE RemovalTerminates(b)
      BY <2>1, <2>2, <3>4 DEF RemovalTerminates, CancelEvent, StopController, RemoveBody, PhaseInv,
         FrameInv
    <3> QED BY <2>1, <3>1, <3>2, <3>3, <3>4 DEF RemoveBody
  <2>5. Promises'
    BY <2>1, <2>2, RemovalPromises DEF InHand
  <2> QED BY <2>2, <2>3, <2>4, <2>5
<1>34. CASE UNCHANGED vars
    BY <1>34 DEF vars, TokenInv, PendingInv, OnlyOwnedTimerActs, PhaseInv, FrameInv, Promises,
       RecoveryNotStranded, LiveControllerDrivesBody, SeatInv, InHand, Pending
<1> QED
    BY <1>1, <1>2, <1>3, <1>4, <1>5, <1>6, <1>7, <1>8, <1>9, <1>10, <1>11, <1>12, <1>13, <1>14, <1>15, <1>16, <1>17, <1>18, <1>19, <1>20, <1>21, <1>22, <1>23, <1>24, <1>25, <1>26, <1>27, <1>28, <1>29, <1>30, <1>31, <1>32, <1>33, <1>34
    DEF Next, Return, SchedulerThread, RunTask, LoopStep, World

\* The invariant holds of every behaviour.
THEOREM Invariance == Spec => []IInv
<1>1. IInv /\ [Next]_vars => IInv'
    BY IInvStep
<1> QED BY <1>1, IInvInit, PTL DEF Spec

\* TypeOK: every variable keeps its type, with rosters and counters of any size.
THEOREM TypeCorrect == Spec => []TypeOK
<1>1. IInv => TypeOK
    BY DEF IInv
<1> QED BY <1>1, Invariance, PTL

\* OnlyOwnedTimerActs: a stopped or replaced timer of PlayerBotManager does
\* nothing, even when it had already escaped to the dispatcher.
THEOREM StaleTimersAreInert == Spec => []OnlyOwnedTimerActs
<1>1. IInv => OnlyOwnedTimerActs
    BY DEF IInv, PendingInv
<1> QED BY <1>1, Invariance, PTL

\* RecoveryNotStranded: while a record recovers, a handler has it in hand or a
\* task that recover() or finalizeAbandonedDeath() will accept is pending.
THEOREM NoBotIsStranded == Spec => []RecoveryNotStranded
<1>1. IInv => RecoveryNotStranded
    BY DEF IInv, Promises
<1> QED BY <1>1, Invariance, PTL

\* LiveControllerDrivesBody: no path of load(), recover(), remove() or
\* onPlayerRemoved() leaves a controller acting for a body it does not drive.
THEOREM ControllersAreOwned == Spec => []LiveControllerDrivesBody
<1>1. IInv => LiveControllerDrivesBody
    BY DEF IInv, Promises
<1> QED BY <1>1, Invariance, PTL

\* TerminalReleasesPlayer: however a record became terminal, also inside a
\* script of its own login or eviction, it holds no player and no controller.
THEOREM TerminalIsReleased == Spec => []TerminalReleasesPlayer
<1>1. IInv => TerminalReleasesPlayer
    BY DEF IInv, TypeOK, PhaseInv, TerminalReleasesPlayer
<1> QED BY <1>1, Invariance, PTL

\* NoDoubleLogin: load() never places a character somebody is playing under
\* another name, and nobody gets into a character that a bot is playing.
THEOREM NoCharacterPlayedTwice == Spec => []NoDoubleLogin
<1>1. IInv => NoDoubleLogin
    BY DEF IInv, Promises, SeatInv, NoDoubleLogin
<1> QED BY <1>1, Invariance, PTL

-----------------------------------------------------------------------------
(* The reservation *)

\* An active record has its controller, which drives the body in the world.
ActiveInv == \A b \in Bots : phase[b] = "Active" => controller[b] # 0 /\ body[b] = controller[b]

\* Who plays b
Seat(b) == IF body[b] # 0 THEN "bot" ELSE IF human[b] THEN "human" ELSE "empty"

\* Nothing of the reservation changes but, perhaps, what concerns b.
Only(b) == \A c \in Bots \ {b} : phase'[c] = phase[c] /\ Seat(c)' = Seat(c)

\* One step of the reservation of b, or none.
Stay(b) == phase'[b] = phase[b] /\ Seat(b)' = Seat(b)
ReservationStep(b) ==
    \/ Stay(b)
    \/ /\ phase[b] \in {"Reserved", "Recovering"} /\ phase'[b] = phase[b]
       /\ Seat(b) = "empty" /\ Seat(b)' = "bot"
    \/ /\ phase[b] \in {"Reserved", "Recovering"} /\ phase'[b] = "Active"
       /\ Seat(b) = "bot" /\ Seat(b)' = "bot"
    \/ phase[b] = "Active" /\ phase'[b] = "Recovering" /\ Seat(b)' = Seat(b)
    \/ /\ phase[b] # "Active" /\ phase'[b] = phase[b]
       /\ Seat(b) = "bot" /\ Seat(b)' = "empty"
    \/ /\ phase[b] = "Recovering" /\ phase'[b] = "Reserved"
       /\ \/ Seat(b)' = Seat(b)
          \/ Seat(b) = "bot" /\ Seat(b)' = "empty"
    \/ /\ Managed(b) /\ phase'[b] = "Terminal"
       /\ \/ phase[b] # "Active" /\ Seat(b)' = Seat(b)
          \/ Seat(b) = "bot" /\ Seat(b)' = "empty"
    \/ /\ phase[b] # "Active" /\ phase'[b] = phase[b]
       /\ Seat(b) = "empty" /\ Seat(b)' = "human"
    \/ phase'[b] = phase[b] /\ Seat(b) = "human" /\ Seat(b)' = "empty"

\* Such a step is one that PlayerBotReservation allows.
LEMMA StepIsReservation ==
    ASSUME TypeOK, TypeOK', NEW b \in Bots, Only(b), ReservationStep(b)
    PROVE  [Reservation!Next]_Reservation!vars
<1> DEFINE seats == [c \in Bots |-> IF body[c] # 0 THEN "bot" ELSE IF human[c] THEN "human" ELSE "empty"]
<1>1. /\ phase \in [Bots -> Phases] /\ phase' \in [Bots -> Phases]
      /\ seats \in [Bots -> {"bot", "human", "empty"}]
      /\ seats' = [c \in Bots |-> Seat(c)']
      /\ \A c \in Bots : seats[c] = Seat(c) /\ seats'[c] = Seat(c)'
    BY DEF TypeOK, Seat
<1>2. phase' = [phase EXCEPT ![b] = phase'[b]]
    BY <1>1 DEF Only
<1>3. seats' = [seats EXCEPT ![b] = Seat(b)']
  <2>1. \A c \in Bots : c # b => seats'[c] = seats[c]
    BY <1>1 DEF Only
  <2> HIDE DEF seats
  <2> QED BY <1>1, <2>1
<1>4. phase[b] = phase'[b] => phase' = phase
    BY <1>1, <1>2
<1>5. Seat(b)' = Seat(b) => seats' = seats
    BY <1>1, <1>3
<1>6. \/ phase' = phase /\ seats' = seats
      \/ Reservation!SitDown(b) \/ Reservation!TakeOver(b) \/ Reservation!Die(b)
      \/ Reservation!StandUp(b) \/ Reservation!GiveUp(b) \/ Reservation!End(b)
      \/ Reservation!HumanSits(b) \/ Reservation!HumanLeaves(b)
  <2>1. Reservation!SitDown(b) <=>
           /\ phase[b] \in {"Reserved", "Recovering"} /\ seats[b] = "empty"
           /\ seats' = [seats EXCEPT ![b] = "bot"] /\ phase' = phase
    BY DEF Reservation!SitDown
  <2>2. Reservation!TakeOver(b) <=>
           /\ phase[b] \in {"Reserved", "Recovering"} /\ seats[b] = "bot"
           /\ phase' = [phase EXCEPT ![b] = "Active"] /\ seats' = seats
    BY DEF Reservation!TakeOver
  <2>3. Reservation!Die(b) <=>
           /\ phase[b] = "Active" /\ phase' = [phase EXCEPT ![b] = "Recovering"] /\ seats' = seats
    BY DEF Reservation!Die
  <2>4. Reservation!StandUp(b) <=>
           /\ phase[b] # "Active" /\ seats[b] = "bot"
           /\ seats' = [seats EXCEPT ![b] = "empty"] /\ phase' = phase
    BY DEF Reservation!StandUp
  <2>5. Reservation!GiveUp(b) <=>
           /\ phase[b] = "Recovering" /\ phase' = [phase EXCEPT ![b] = "Reserved"]
           /\ \/ seats' = seats
              \/ seats[b] = "bot" /\ seats' = [seats EXCEPT ![b] = "empty"]
    BY DEF Reservation!GiveUp
  <2>6. Reservation!End(b) <=>
           /\ phase[b] \in {"Reserved", "Active", "Recovering"}
           /\ phase' = [phase EXCEPT ![b] = "Terminal"]
           /\ \/ phase[b] # "Active" /\ seats' = seats
              \/ seats[b] = "bot" /\ seats' = [seats EXCEPT ![b] = "empty"]
    BY DEF Reservation!End
  <2>7. Reservation!HumanSits(b) <=>
           /\ phase[b] # "Active" /\ seats[b] = "empty"
           /\ seats' = [seats EXCEPT ![b] = "human"] /\ phase' = phase
    BY DEF Reservation!HumanSits
  <2>8. Reservation!HumanLeaves(b) <=>
           /\ seats[b] = "human" /\ seats' = [seats EXCEPT ![b] = "empty"] /\ phase' = phase
    BY DEF Reservation!HumanLeaves
  <2>9. seats[b] = Seat(b)
    BY <1>1
  <2> HIDE DEF seats
  <2> QED
    BY <1>2, <1>3, <1>4, <1>5, <2>1, <2>2, <2>3, <2>4, <2>5, <2>6, <2>7, <2>8, <2>9
       DEF ReservationStep, Stay, Managed
<1>7. phase' = phase /\ seats' = seats => UNCHANGED Reservation!vars
    BY DEF Reservation!vars
<1> QED BY <1>6, <1>7 DEF Reservation!Next

\* The actions that leave the reservation alone
Quiet ==
    \/ \E t \in tasks :
        \/ Expire(t) \/ Abort(t) \/ DiscardStale(t) \/ Activate(t)
        \/ RecoverEvict(t) \/ RecoverReload(t)
    \/ \E b \in Bots :
        \/ ScheduleActivation(b) \/ RemoveTerminal(b) \/ DeathIgnored(b)
        \/ ControllerStops(b) \/ EditRow(b)
    \/ LoadFails \/ StartReturns \/ FailureIgnored \/ RelogRetried \/ DeathCompletes
    \/ Shutdown \/ UNCHANGED vars

\* They stop no active controller, place no body and schedule nothing for a
\* terminal record, the loop of start() excepted.
LEMMA QuietStep ==
    ASSUME IInv, Quiet
    PROVE  /\ UNCHANGED <<phase, body, bodies, human>>
           /\ \A b \in Bots : \/ controller'[b] = controller[b]
                              \/ phase[b] = "Recovering" /\ controller'[b] = 0
           /\ \A b \in Bots : phase[b] = "Terminal" => eventId'[b] = eventId[b] \/ b \in unscheduled
<1> USE DEF IInv, TypeOK, Task, recordVars, worldVars, dbVars, loopVars, vars
<1>1. UNCHANGED <<phase, body, bodies, human>>
    BY DEF Quiet, Expire, Abort, DiscardStale, Activate, RecoverEvict, RecoverReload,
           ScheduleActivation, RemoveTerminal, DeathIgnored, ControllerStops, EditRow,
           LoadFails, StartReturns, FailureIgnored, RelogRetried, DeathCompletes, Shutdown
<1>2. ASSUME NEW t \in tasks, RecoverReload(t)
      PROVE  /\ phase[t.bot] = "Recovering" /\ t.bot \in Bots
             /\ controller' = [controller EXCEPT ![t.bot] = 0]
    BY <1>2 DEF RecoverReload, Dispatched, Take, Accepts
<1>3. \/ controller' = controller
      \/ \E t \in tasks : RecoverReload(t)
    BY DEF Quiet, Expire, Abort, DiscardStale, Activate, RecoverEvict,
           ScheduleActivation, RemoveTerminal, DeathIgnored, ControllerStops, EditRow,
           LoadFails, StartReturns, FailureIgnored, RelogRetried, DeathCompletes, Shutdown
<1>4. \A b \in Bots : \/ controller'[b] = controller[b]
                      \/ phase[b] = "Recovering" /\ controller'[b] = 0
  <2>1. ASSUME NEW t \in tasks, RecoverReload(t), NEW b \in Bots
        PROVE  \/ controller'[b] = controller[b]
               \/ phase[b] = "Recovering" /\ controller'[b] = 0
    <3>1. controller' = [controller EXCEPT ![t.bot] = 0] /\ phase[t.bot] = "Recovering"
      BY <1>2, <2>1
    <3> QED BY <3>1
  <2> QED BY <1>3, <2>1
<1>5. \A b \in Bots : phase[b] = "Terminal" => eventId'[b] = eventId[b] \/ b \in unscheduled
  <2>1. ASSUME NEW t \in tasks, Take(t), NEW b \in Bots, phase[b] = "Terminal"
        PROVE  eventId'[b] = eventId[b]
    BY <2>1 DEF Take, Accepts, Managed
  <2>2. ASSUME NEW c \in Bots, ScheduleActivation(c), NEW b \in Bots
        PROVE  eventId'[b] = eventId[b] \/ b \in unscheduled
    BY <2>2 DEF ScheduleActivation, Schedule
  <2>3. ASSUME RelogRetried, NEW b \in Bots, phase[b] = "Terminal"
        PROVE  eventId'[b] = eventId[b]
    <3>1. phase[frame.bot] # "Terminal" /\ frame.bot \in Bots
      BY <2>3 DEF RelogRetried, FrameInv, Frame, IdleFrame
    <3> QED BY <2>3, <3>1 DEF RelogRetried, Schedule
  <2>4. \/ eventId' = eventId
        \/ \E t \in tasks : Take(t)
        \/ \E c \in Bots : ScheduleActivation(c)
        \/ RelogRetried
    BY DEF Quiet, Expire, Abort, DiscardStale, Activate, RecoverEvict, RecoverReload,
           RemoveTerminal, DeathIgnored, ControllerStops, EditRow,
           LoadFails, StartReturns, FailureIgnored, DeathCompletes, Shutdown
  <2> QED BY <2>1, <2>2, <2>3, <2>4
<1> QED BY <1>1, <1>4, <1>5

\* What a step may do to b when nothing happens to the others: a step of its
\* reservation, an active record keeps its controller, a terminal one is left
\* alone.
Tame(b) ==
    /\ Only(b) /\ ReservationStep(b)
    /\ \A c \in Bots \ {b} :
          body'[c] = body[c] /\ controller'[c] = controller[c] /\ bodies'[c] = bodies[c]
    /\ phase'[b] = "Active" => controller'[b] # 0 /\ body'[b] = controller'[b]
    /\ phase[b] = "Terminal" => controller'[b] = 0 /\ bodies'[b] = bodies[b]
    /\ \A c \in Bots : phase[c] = "Terminal" => eventId'[c] = eventId[c]

\* Whoever removes the player, its seat empties with its reservation.
LEMMA RemovalIsTame ==
    ASSUME IInv, ActiveInv, NEW b \in Bots, RemoveBody(b)
    PROVE  Tame(b)
<1> USE DEF IInv, TypeOK, Managed, RemoveBody, dbVars, loopVars
<1>1. /\ body' = [body EXCEPT ![b] = 0] /\ body[b] # 0 /\ human' = human /\ ~human[b]
      /\ bodies' = bodies
    BY DEF Promises, SeatInv
<1>2. /\ Seat(b) = "bot" /\ Seat(b)' = "empty"
      /\ \A c \in Bots \ {b} : Seat(c)' = Seat(c) /\ body'[c] = body[c]
    BY <1>1 DEF Seat
<1>3. phase[b] = "Active" => controller[b] = body[b] /\ ~awaiting[b]
    BY DEF ActiveInv, PhaseInv
<1>4. phase[b] = "Terminal" => controller[b] = 0
    BY DEF PhaseInv
<1>5. CASE RemovalUnmanaged(b)
    BY <1>1, <1>2, <1>4, <1>5
       DEF RemovalUnmanaged, recordVars, Tame, Only, ReservationStep, Phases
<1>6. CASE RemovalBeforeController(b)
    BY <1>1, <1>2, <1>3, <1>6
       DEF RemovalBeforeController, CancelEvent, Tame, Only, ReservationStep
<1>7. CASE RemovalAfterDeath(b)
    BY <1>1, <1>2, <1>3, <1>7 DEF RemovalAfterDeath, Tame, Only, ReservationStep
<1>8. CASE RemovalTerminates(b)
    BY <1>1, <1>2, <1>8
       DEF RemovalTerminates, CancelEvent, Tame, Only, ReservationStep
<1> QED BY <1>5, <1>6, <1>7, <1>8

\* Every other step is one of the reservation of one bot.
LEMMA OthersAreTame ==
    ASSUME IInv, ActiveInv, Next, ~Start, ~Quiet
    PROVE  \E b \in Bots : Tame(b)
<1> USE DEF IInv, TypeOK, Task, Managed, recordVars, worldVars, dbVars, loopVars
<1>1. ASSUME NEW t \in tasks, RecoverConflict(t) PROVE Tame(t.bot) /\ t.bot \in Bots
    BY <1>1 DEF RecoverConflict, Dispatched, Take, Accepts, Suspend, Tame, Only,
                ReservationStep, Seat
<1>2. ASSUME NEW t \in tasks, Finalize(t) PROVE Tame(t.bot) /\ t.bot \in Bots
    BY <1>2 DEF Finalize, Dispatched, Take, Accepts, Suspend, Tame, Only,
                ReservationStep, Seat
<1>3. ASSUME NEW t \in tasks, FinalizeEvict(t) PROVE Tame(t.bot) /\ t.bot \in Bots
    BY <1>3 DEF FinalizeEvict, Dispatched, Take, Accepts, Tame, Only,
                ReservationStep, Stay, Seat
<1>4. CASE EvictReturns
  <2>0. PICK b \in Bots : b = frame.bot
    BY <1>4 DEF EvictReturns, Frame, IdleFrame
  <2>1. phase[b] \in {"Recovering", "Terminal"}
    BY <1>4, <2>0 DEF EvictReturns, Frame, IdleFrame, FrameInv
  <2>2. body[b] # 0 => ~human[b]
    BY <2>1 DEF Promises, SeatInv
  <2>3. Tame(b)
    BY <1>4, <2>0, <2>1, <2>2 DEF EvictReturns, Tame, Only, ReservationStep, Stay, Seat
  <2> QED BY <2>1, <2>3
<1>5. CASE FinalizeReturns
  <2>0. PICK b \in Bots : b = frame.bot
    BY <1>5 DEF FinalizeReturns, Frame, IdleFrame
  <2>1. phase[b] \in {"Recovering", "Terminal"}
    BY <1>5, <2>0 DEF FinalizeReturns, Frame, IdleFrame, FrameInv
  <2>2. body[b] # 0 => ~human[b]
    BY <2>1 DEF Promises, SeatInv
  <2>3. Tame(b)
    BY <1>5, <2>0, <2>1, <2>2 DEF FinalizeReturns, Suspend, Tame, Only, ReservationStep, Stay, Seat
  <2> QED BY <2>1, <2>3
<1>6. CASE LoadPlaces
  <2>0. PICK b \in Bots : b = frame.bot
    BY <1>6 DEF LoadPlaces, Frame, IdleFrame
  <2>1. phase[b] \in {"Reserved", "Recovering"}
    BY <1>6, <2>0 DEF LoadPlaces, Frame, IdleFrame, FrameInv
  <2>2. Tame(b)
    BY <1>6, <2>0, <2>1 DEF LoadPlaces, Tame, Only, ReservationStep, Seat
  <2> QED BY <2>1, <2>2
<1>7. CASE LoginAccepted
  <2>0. PICK b \in Bots : b = frame.bot
    BY <1>7 DEF LoginAccepted, Frame, IdleFrame
  <2>1. /\ phase[b] \in {"Reserved", "Recovering"}
        /\ bodies[b] # 0 /\ body[b] = bodies[b]
    BY <1>7, <2>0 DEF LoginAccepted, Frame, IdleFrame, FrameInv
  <2>2. Tame(b)
    BY <1>7, <2>0, <2>1 DEF LoginAccepted, Tame, Only, ReservationStep, Seat
  <2> QED BY <2>1, <2>2
<1>8. CASE LoginRejected
  <2>0. PICK b \in Bots : b = frame.bot
    BY <1>8 DEF LoginRejected, Frame, IdleFrame
  <2>1. /\ phase[b] \in {"Reserved", "Recovering", "Terminal"}
        /\ controller[b] = 0
    BY <1>8, <2>0 DEF LoginRejected, Frame, IdleFrame, FrameInv
  <2>2. body[b] # 0 => ~human[b]
    BY <2>1 DEF Promises, SeatInv
  <2>3. Tame(b)
    BY <1>8, <2>0, <2>1, <2>2 DEF LoginRejected, Tame, Only, ReservationStep, Stay, Seat
  <2> QED BY <2>1, <2>3
<1>9. CASE RelogAbandoned
  <2>0. PICK b \in Bots : b = frame.bot
    BY <1>9 DEF RelogAbandoned, Frame, IdleFrame
  <2>1. /\ phase[b] # "Active"
    BY <1>9, <2>0 DEF RelogAbandoned, Frame, IdleFrame, FrameInv
  <2>2. controller[b] = 0
    BY <1>9, <2>0 DEF RelogAbandoned, FrameInv
  <2>3. Tame(b)
    BY <1>9, <2>0, <2>1, <2>2 DEF RelogAbandoned, Suspend, Tame, Only, ReservationStep, Stay, Seat
  <2> QED BY <2>1, <2>3
<1>10. CASE CorpseDrops
  <2>1. frame.bot \in Bots
    BY <1>10 DEF CorpseDrops, Frame, IdleFrame
  <2> QED BY <1>10, <2>1, RemovalIsTame DEF CorpseDrops
<1>11. ASSUME NEW b \in Bots, Remove(b) PROVE Tame(b)
  <2>1. phase[b] = "Active" => body[b] # 0 /\ ~removing[b]
    <3>1. removing[b] => phase[b] # "Active"
      BY DEF PhaseInv, FrameInv
    <3> QED BY <3>1 DEF ActiveInv
  <2>2. body[b] # 0 => ~human[b]
    BY DEF Promises, SeatInv
  <2> QED BY <1>11, <2>1, <2>2 DEF Remove, CancelEvent, Tame, Only, ReservationStep, Seat
<1>12. ASSUME NEW b \in Bots, NEW stable \in BOOLEAN, Death(b, stable) PROVE Tame(b)
  <2>1. \A c \in Bots : phase[c] = "Terminal" => eventId'[c] = eventId[c]
    BY <1>12 DEF Death, Mourned, Schedule
  <2> QED BY <1>12, <2>1 DEF Death, Dying, Mourned, Tame, Only, ReservationStep, Seat
<1>13. ASSUME NEW b \in Bots, Kick(b) PROVE Tame(b)
    BY <1>13, RemovalIsTame DEF Kick
<1>14. ASSUME NEW b \in Bots, HumanLogin(b) PROVE Tame(b)
  <2>1. body[b] = 0 /\ phase[b] # "Active"
    BY <1>14 DEF HumanLogin, Promises, SeatInv, ActiveInv
  <2>2. phase[b] = "Terminal" => controller[b] = 0
    BY DEF PhaseInv
  <2> QED BY <1>14, <2>1, <2>2 DEF HumanLogin, Tame, Only, ReservationStep, Seat
<1>15. ASSUME NEW b \in Bots, HumanLogout(b) PROVE Tame(b)
  <2>1. body[b] = 0
    BY <1>15 DEF HumanLogout, Promises, SeatInv
  <2>2. phase[b] = "Terminal" => controller[b] = 0
    BY DEF PhaseInv
  <2> QED BY <1>15, <2>1, <2>2 DEF HumanLogout, Tame, Only, ReservationStep, Seat, ActiveInv
<1> QED
    BY <1>1, <1>2, <1>3, <1>4, <1>5, <1>6, <1>7, <1>8, <1>9, <1>10, <1>11, <1>12, <1>13,
       <1>14, <1>15
    DEF Next, Return, SchedulerThread, RunTask, LoopStep, World, Quiet

\* ActiveInv holds from the start, and no step breaks it.
LEMMA ActiveStep == IInv /\ ActiveInv /\ [Next]_vars => ActiveInv'
<1> SUFFICES ASSUME IInv, ActiveInv, [Next]_vars PROVE ActiveInv'
    OBVIOUS
<1>1. CASE Start
    BY <1>1 DEF Start, ActiveInv
<1>2. CASE Quiet
    BY <1>2, QuietStep DEF ActiveInv
<1>3. CASE ~Start /\ ~Quiet
  <2>1. Next
    BY <1>3 DEF Quiet
  <2>2. PICK b \in Bots : Tame(b)
    BY <1>3, <2>1, OthersAreTame
  <2> QED BY <2>2 DEF Tame, Only, ActiveInv
<1> QED BY <1>1, <1>2, <1>3

\* Every step of the manager is one of the reservation, or leaves it alone.
LEMMA StepSimulation ==
    ASSUME IInv, IInv', ActiveInv, [Next]_vars
    PROVE  [Reservation!Next]_Reservation!vars
<1> USE DEF IInv
<1>1. CASE Start
  <2>1. \A b \in Bots : phase[b] = "Unlisted"
    BY <1>1 DEF Start, PhaseInv
  <2>2. /\ phase' = [b \in Bots |-> "Reserved"] /\ UNCHANGED <<body, human>>
    BY <1>1 DEF Start, worldVars, dbVars
  <2>3. Reservation!Reserve
    BY <2>1, <2>2 DEF Reservation!Reserve
  <2> QED BY <2>3 DEF Reservation!Next
<1>2. CASE Quiet
  <2>1. UNCHANGED <<phase, body, human>>
    BY <1>2, QuietStep
  <2> QED BY <2>1 DEF Reservation!vars
<1>3. CASE ~Start /\ ~Quiet
  <2>1. Next
    BY <1>3 DEF Quiet
  <2>2. PICK b \in Bots : Tame(b)
    BY <1>3, <2>1, OthersAreTame
  <2> QED BY <2>2, StepIsReservation DEF Tame
<1> QED BY <1>1, <1>2, <1>3

\* What a step may do to a terminal record.
LEMMA TerminalStep ==
    ASSUME IInv, ActiveInv, [Next]_vars, NEW b \in Bots, phase[b] = "Terminal"
    PROVE  /\ phase'[b] = "Terminal" /\ controller'[b] = 0
           /\ bodies'[b] = bodies[b]
           /\ eventId'[b] = eventId[b] \/ b \in unscheduled
<1> USE DEF IInv
<1>1. controller[b] = 0
    BY DEF PhaseInv
<1>2. CASE Start
    BY <1>2 DEF Start, PhaseInv
<1>3. CASE Quiet
    BY <1>1, <1>3, QuietStep
<1>4. CASE ~Start /\ ~Quiet
  <2>1. Next
    BY <1>4 DEF Quiet
  <2>2. PICK c \in Bots : Tame(c)
    BY <1>4, <2>1, OthersAreTame
  <2>3. CASE b = c
    BY <2>2, <2>3 DEF Tame, ReservationStep, Stay, Managed
  <2>4. CASE b # c
    BY <1>1, <2>2, <2>4 DEF Tame, Only
  <2> QED BY <2>3, <2>4
<1> QED BY <1>2, <1>3, <1>4

\* Active records own the body they play, in every behaviour.
THEOREM ActiveInvariance == Spec => []ActiveInv
<1>1. Init => ActiveInv
    BY DEF Init, ActiveInv
<1>2. IInv /\ ActiveInv /\ [Next]_vars => ActiveInv'
    BY ActiveStep
<1> QED BY <1>1, <1>2, Invariance, PTL DEF Spec

\* TerminalIsFinal: whatever timers, scripts and shutdown do, a terminal record
\* gets no body, no controller and no timer again, save by the loop of start().
THEOREM TerminalForEver == Spec => TerminalIsFinal
<1>1. IInv /\ ActiveInv /\ [Next]_vars =>
        [\A b \in Bots : phase[b] = "Terminal" =>
            /\ phase'[b] = "Terminal" /\ controller'[b] = 0
            /\ bodies'[b] = bodies[b]
            /\ eventId'[b] = eventId[b] \/ b \in unscheduled]_vars
    BY TerminalStep
<1> QED BY <1>1, Invariance, ActiveInvariance, PTL DEF Spec, TerminalIsFinal

\* ReservationSpec: PlayerBotLifecycle implements PlayerBotReservation.
THEOREM Refinement == Spec => ReservationSpec
<1>1. Init => Reservation!Init
    BY DEF Init, Reservation!Init
<1>2. IInv /\ IInv' /\ ActiveInv /\ [Next]_vars => [Reservation!Next]_Reservation!vars
    BY StepSimulation
<1> QED BY <1>1, <1>2, Invariance, ActiveInvariance, PTL DEF Spec, ReservationSpec, Reservation!Spec

-----------------------------------------------------------------------------
(* The end of a shutdown *)

\* Every record is terminal, and the game is empty of bots and controllers.
Settled == \A b \in Bots : phase[b] = "Terminal" /\ body[b] = 0 /\ live[b] = {}

\* Once the loop of shutdown() and the handler it interrupted are through,
\* nothing is left.
ShutdownSettles == stopping /\ unremoved = {} /\ frame.pc = "idle" => Settled

\* What has settled stays so.
SettledStays == [][Settled => Settled']_vars

\* A terminal record without a player gets none.
LEMMA TerminalStaysOut ==
    ASSUME IInv, ActiveInv, [Next]_vars, NEW b \in Bots, phase[b] = "Terminal", body[b] = 0
    PROVE  body'[b] = 0
<1>1. CASE Start
    BY <1>1 DEF Start, worldVars
<1>2. CASE Quiet
    BY <1>2, QuietStep
<1>3. CASE ~Start /\ ~Quiet
  <2>1. PICK c \in Bots : Tame(c)
    BY <1>3, OthersAreTame DEF Quiet
  <2>2. CASE b = c
    BY <2>1, <2>2 DEF Tame, ReservationStep, Stay, Managed, Seat
  <2>3. CASE b # c
    BY <2>1, <2>3 DEF Tame
  <2> QED BY <2>2, <2>3
<1> QED BY <1>1, <1>2, <1>3

\* ShutdownSettles: a shutdown that starts inside a handler, or inside start()
\* before the whole roster is scheduled, still ends every record.
THEOREM ShutdownLeavesNothing == Spec => []ShutdownSettles
<1>1. IInv => ShutdownSettles
  <2> SUFFICES ASSUME IInv, stopping, unremoved = {}, frame.pc = "idle", NEW b \in Bots
               PROVE  phase[b] = "Terminal" /\ body[b] = 0 /\ live[b] = {}
    BY DEF ShutdownSettles, Settled
  <2>1. phase[b] = "Terminal"
    BY DEF IInv, TypeOK, Phases, PhaseInv, Managed
  <2>2. body[b] = 0
    BY <2>1 DEF IInv, PhaseInv
  <2>3. live[b] = {}
    BY <2>1 DEF IInv, TypeOK, Promises, LiveControllerDrivesBody
  <2> QED BY <2>1, <2>2, <2>3
<1> QED BY <1>1, Invariance, PTL

\* SettledStays: no timer, script or activation brings a bot back.
THEOREM ShutdownIsFinal == Spec => SettledStays
<1>1. IInv /\ IInv' /\ ActiveInv /\ [Next]_vars => [Settled => Settled']_vars
  <2> SUFFICES ASSUME IInv, IInv', ActiveInv, [Next]_vars, Settled, NEW b \in Bots
               PROVE  (phase[b] = "Terminal" /\ body[b] = 0 /\ live[b] = {})'
    BY DEF Settled
  <2>1. phase'[b] = "Terminal"
    BY TerminalStep DEF Settled
  <2>2. body'[b] = 0
    BY TerminalStaysOut DEF Settled
  <2>3. live'[b] = {}
    BY <2>1 DEF IInv, TypeOK, Promises, LiveControllerDrivesBody
  <2> QED BY <2>1, <2>2, <2>3
<1> QED BY <1>1, Invariance, ActiveInvariance, PTL DEF Spec, SettledStays

-----------------------------------------------------------------------------
(* The way to the end of a recovery *)

\* No relog is attempted more often than the limit allows.
AttemptInv ==
    /\ frame.attempt <= MaximumRelogAttempts
    /\ \A t \in tasks : t.attempt <= MaximumRelogAttempts

\* How far a recovery is from its end: a finalization is nearer than any relog,
\* a later attempt nearer than an earlier one, and an attempt is a timer, a
\* queued task, an eviction, a load, a login and a failure.
Left(attempt) == 7 * (MaximumRelogAttempts - attempt)
HandRank ==
    IF frame.pc = "finalizing" THEN 0
    ELSE Left(frame.attempt) +
         IF frame.pc = "evicting" THEN 4
         ELSE IF frame.pc = "load" THEN 3 ELSE IF frame.pc = "login" THEN 2 ELSE 1
TaskRank(t) ==
    IF t.kind = "finalize" THEN IF t.stage = "queued" THEN 1 ELSE 2
    ELSE Left(t.attempt) + IF t.stage = "queued" THEN 5 ELSE 6
ThePending(b) == CHOOSE t \in Pending(b) : TRUE
Rank(b) == IF InHand(b) THEN HandRank ELSE TaskRank(ThePending(b))

\* A step of the handler that recovers b, or of the task that will.
Serves(b) ==
    \/ InHand(b) /\ Return
    \/ \E t \in Pending(b) : SchedulerThread(t) \/ RunTask(t)

\* While b recovers, no step leads away from the end, and every step that
\* serves its recovery leads towards it.
RecoveryAdvances ==
    [][\A b \in Bots : phase[b] = "Recovering" /\ phase'[b] = "Recovering" =>
        /\ Rank(b)' <= Rank(b)
        /\ Serves(b) => Rank(b)' < Rank(b)]_vars

\* The attempts are bounded from the start, and by every step.
LEMMA AttemptInit == Init => AttemptInv
    BY DEF Init, AttemptInv

LEMMA AttemptStep == IInv /\ AttemptInv /\ [Next]_vars => AttemptInv'
<1> SUFFICES ASSUME IInv, AttemptInv, [Next]_vars PROVE AttemptInv'
    OBVIOUS
<1> USE DEF IInv, TypeOK, AttemptInv, recordVars, loopVars, worldVars, dbVars, IdleFrame
<1>1. ASSUME NEW b \in Bots, RemoveBody(b) PROVE \A t \in tasks' : t.attempt <= MaximumRelogAttempts
    BY <1>1 DEF RemoveBody, RemovalUnmanaged, RemovalBeforeController, RemovalAfterDeath,
               RemovalTerminates, CancelEvent, StopEvent, Task
<1>2. CASE Start
    BY <1>2 DEF Start, Call
<1>3. CASE Return
  <2>1. CASE RelogRetried
    <3>1. frame.attempt \in Nat /\ frame.bot \in Bots
      BY <2>1 DEF RelogRetried, Frame
    <3> QED BY <2>1, <3>1 DEF RelogRetried, Schedule, Finish
  <2>2. CASE CorpseDrops
    <3>1. frame.bot \in Bots
      BY <2>2 DEF CorpseDrops, Frame
    <3> QED BY <2>2, <3>1, <1>1 DEF CorpseDrops, Finish
  <2>3. CASE EvictReturns
    BY <2>3 DEF EvictReturns, Goto, Finish, Frame
  <2>4. CASE FinalizeReturns \/ FailureIgnored \/ RelogAbandoned \/ DeathCompletes
    BY <2>4 DEF FinalizeReturns, FailureIgnored, RelogAbandoned, DeathCompletes, Finish
  <2>5. CASE LoadPlaces \/ LoadFails \/ LoginAccepted \/ LoginRejected \/ StartReturns
    BY <2>5 DEF LoadPlaces, LoadFails, LoginAccepted, LoginRejected, StartReturns, Call, Goto,
               Finish, Frame
  <2> QED BY <1>3, <2>1, <2>2, <2>3, <2>4, <2>5 DEF Return
<1>4. CASE Shutdown \/ UNCHANGED vars
    BY <1>4 DEF Shutdown, vars
<1>5. ASSUME NEW t \in tasks, SchedulerThread(t) \/ RunTask(t) PROVE AttemptInv'
    BY <1>5 DEF SchedulerThread, Expire, Abort, RunTask, DiscardStale, Activate, RecoverConflict,
               RecoverEvict, RecoverReload, Finalize, FinalizeEvict, Take, Enter, Call, Task
<1>6. ASSUME NEW b \in Bots, LoopStep(b) PROVE AttemptInv'
    BY <1>6 DEF LoopStep, ScheduleActivation, Schedule, RemoveTerminal, Remove, CancelEvent,
               StopEvent, Task
<1>7. ASSUME NEW b \in Bots, World(b) PROVE AttemptInv'
  <2>1. CASE Kick(b)
    BY <2>1, <1>1 DEF Kick
  <2>2. ASSUME NEW stable \in BOOLEAN, Death(b, stable) PROVE AttemptInv'
    BY <2>2 DEF Death, Dying, Call, Schedule
  <2>3. CASE DeathIgnored(b)
    BY <2>3 DEF DeathIgnored, Dying, Call
  <2>4. CASE ControllerStops(b) \/ HumanLogin(b) \/ HumanLogout(b) \/ EditRow(b)
    BY <2>4 DEF ControllerStops, HumanLogin, HumanLogout, EditRow
  <2> QED BY <1>7, <2>1, <2>2, <2>3, <2>4 DEF World
<1> QED BY <1>2, <1>3, <1>4, <1>5, <1>6, <1>7 DEF Next

\* The one element of a set is the one that is chosen.
LEMMA TheOne ==
    ASSUME NEW S, NEW t \in S, \A u \in S : u = t
    PROVE  (CHOOSE u \in S : TRUE) = t
    OBVIOUS

\* A record has one pending task at most; while it recovers, that task is a
\* live one that recovers or finalizes, and no handler has the record in hand.
LEMMA PendingTask ==
    ASSUME IInv, AttemptInv, NEW b \in Bots, phase[b] = "Recovering", NEW t \in Pending(b)
    PROVE  /\ t \in tasks /\ t.bot = b /\ t.token = generation[b]
           /\ t.kind \in {"recover", "finalize"} /\ t.stage \in {"timer", "queued"}
           /\ t.attempt \in 0..MaximumRelogAttempts
           /\ generation[b] # 0 /\ eventId[b] = generation[b]
           /\ ThePending(b) = t /\ ~InHand(b)
<1>1. t \in tasks /\ t.bot = b /\ t.token = generation[b] /\ Managed(b)
    BY DEF Pending, Managed
<1>2. /\ t.kind \in {"recover", "finalize"} /\ t.stage \in {"timer", "queued"}
      /\ t.attempt \in 0..MaximumRelogAttempts
      /\ generation[b] # 0 /\ eventId[b] = generation[b]
    BY <1>1 DEF IInv, TypeOK, Task, TokenInv, PendingInv, OnlyOwnedTimerActs, AttemptInv
<1>3. ThePending(b) = t
  <2>1. \A u \in Pending(b) : u = t
    BY DEF Pending, IInv, TokenInv
  <2> QED BY <2>1, TheOne DEF ThePending
<1>4. ~InHand(b)
    BY <1>1, <1>2 DEF IInv, FrameInv, InHand
<1> QED BY <1>1, <1>2, <1>3, <1>4

\* The rank of a recovery is a natural number, so it cannot fall for ever.
LEMMA RankIsNatural ==
    ASSUME IInv, AttemptInv, NEW b \in Bots, phase[b] = "Recovering"
    PROVE  Rank(b) \in Nat
<1>1. CASE InHand(b)
  <2>1. frame.attempt \in Nat /\ frame.attempt <= MaximumRelogAttempts
    BY <1>1 DEF IInv, TypeOK, Frame, IdleFrame, InHand, AttemptInv
  <2> QED BY <1>1, <2>1 DEF Rank, HandRank, Left
<1>2. CASE ~InHand(b)
  <2>1. PICK t \in Pending(b) : TRUE
    BY <1>2 DEF IInv, Promises, RecoveryNotStranded
  <2>2. ThePending(b) = t /\ t.attempt \in 0..MaximumRelogAttempts
    BY <2>1, PendingTask
  <2>3. TaskRank(t) \in Nat
    BY <2>2 DEF TaskRank, Left
  <2> QED BY <1>2, <2>2, <2>3 DEF Rank
<1> QED BY <1>1, <1>2

\* Nothing of b's recovery changes.
Untouched(b) ==
    /\ Pending(b)' = Pending(b)
    /\ InHand(b)' <=> InHand(b)
    /\ InHand(b) => frame' = frame

LEMMA UntouchedRank ==
    ASSUME NEW b \in Bots, Untouched(b)
    PROVE  Rank(b)' = Rank(b)
<1>1. ThePending(b)' = ThePending(b)
    BY DEF Untouched, ThePending
<1>2. CASE InHand(b)
    BY <1>2 DEF Untouched, Rank, HandRank
<1>3. CASE ~InHand(b)
    BY <1>1, <1>3 DEF Untouched, Rank, TaskRank
<1> QED BY <1>2, <1>3

\* What is scheduled or cancelled for one bot leaves the tasks of the others.
LEMMA ScheduleElsewhere ==
    ASSUME IInv, NEW b \in Bots, NEW c \in Bots \ {b}, NEW kind, NEW attempt,
           Schedule(c, kind, attempt)
    PROVE  Pending(b)' = Pending(b)
    BY DEF Schedule, Pending, IInv, TypeOK

LEMMA CancelElsewhere ==
    ASSUME IInv, NEW b \in Bots, NEW c \in Bots \ {b}, CancelEvent(c)
    PROVE  Pending(b)' = Pending(b)
<1> DEFINE Struck(u) == IF u.token = eventId[c] /\ u.stage = "timer"
                        THEN [u EXCEPT !.stage = "cancelled"] ELSE u
<1>1. generation'[b] = generation[b] /\ tasks' = {Struck(u) : u \in tasks}
    BY DEF CancelEvent, StopEvent, IInv, TypeOK
<1>2. \A u \in tasks : Struck(u).bot = u.bot /\ Struck(u).token = u.token
    BY DEF IInv, TypeOK, Task
<1>3. \A u \in Pending(b) : Struck(u) = u
    BY DEF IInv, TypeOK, TokenInv, Pending
<1> HIDE DEF Struck
<1> QED BY <1>1, <1>2, <1>3 DEF Pending

\* A player that is removed leaves every recovery as it was, its own included.
LEMMA RemovalElsewhere ==
    ASSUME IInv, NEW b \in Bots, phase[b] = "Recovering", phase'[b] = "Recovering",
           NEW c \in Bots, RemoveBody(c)
    PROVE  Pending(b)' = Pending(b)
<1>1. CASE b = c
    BY <1>1 DEF IInv, TypeOK, Managed, Pending, RemoveBody, RemovalUnmanaged,
               RemovalBeforeController, RemovalAfterDeath, RemovalTerminates
<1>2. CASE b # c
  <2>1. CASE CancelEvent(c)
    BY <1>2, <2>1, CancelElsewhere
  <2>2. CASE ~CancelEvent(c)
    BY <2>2 DEF Pending, RemoveBody, RemovalUnmanaged, recordVars, RemovalBeforeController,
               RemovalAfterDeath, RemovalTerminates
  <2> QED BY <2>1, <2>2
<1> QED BY <1>1, <1>2

\* A handler of b that goes on ends the recovery or is one step nearer.
LEMMA HandAdvances ==
    ASSUME IInv, IInv', AttemptInv, AttemptInv', Return, NEW b \in Bots,
           phase[b] = "Recovering", phase'[b] = "Recovering", InHand(b)
    PROVE  Rank(b)' < Rank(b)
<1>1. /\ frame.bot = b /\ frame \in Frame \ {IdleFrame} /\ Managed(b)
      /\ frame.attempt \in 0..MaximumRelogAttempts
    BY DEF InHand, IInv, TypeOK, Frame, IdleFrame, Managed, AttemptInv
<1>2. Rank(b) = HandRank
    BY DEF Rank
<1>3. frame.pc \in {"load", "login", "failed", "evicting"} =>
        generation[b] = frame.token /\ frame.attempt # 0
    BY <1>1 DEF IInv, FrameInv
<1>4. CASE EvictReturns
    BY <1>1, <1>2, <1>3, <1>4 DEF EvictReturns, Goto, Frame, Rank, InHand, HandRank, Left
<1>5. CASE LoadPlaces
    BY <1>1, <1>2, <1>5 DEF LoadPlaces, Call, Rank, InHand, HandRank, Left
<1>6. CASE LoadFails
    BY <1>1, <1>2, <1>6 DEF LoadFails, Goto, Frame, Rank, InHand, HandRank, Left
<1>7. CASE LoginRejected
    BY <1>1, <1>2, <1>7 DEF LoginRejected, Goto, Frame, Rank, InHand, HandRank, Left
<1>8. CASE RelogRetried
  <2> DEFINE t == [bot |-> b, kind |-> "recover", token |-> issued + 1,
                   attempt |-> frame.attempt + 1, stage |-> "timer"]
  <2>1. t \in Pending(b)' /\ ~InHand(b)'
    BY <1>1, <1>8 DEF RelogRetried, Schedule, Finish, Pending, InHand, IInv, TypeOK, IdleFrame
  <2>2. ThePending(b)' = t
    <3>1. \A u \in Pending(b)' : u = t
      BY <2>1 DEF Pending, IInv, TokenInv
    <3> HIDE DEF t
    <3> QED BY <2>1, <3>1, TheOne DEF ThePending
  <2>3. Rank(b)' = Left(frame.attempt + 1) + 6
    BY <2>1, <2>2 DEF Rank, TaskRank, Left
  <2>4. Rank(b) = Left(frame.attempt) + 1
    BY <1>2, <1>8 DEF RelogRetried, HandRank
  <2> QED BY <1>1, <2>3, <2>4 DEF Left
<1>9. CASE FinalizeReturns \/ RelogAbandoned
    BY <1>1, <1>9 DEF FinalizeReturns, RelogAbandoned, Suspend, IInv, TypeOK
<1>10. CASE LoginAccepted
    BY <1>1, <1>10 DEF LoginAccepted, IInv, TypeOK
<1>11. CASE FailureIgnored
    BY <1>1, <1>3, <1>11 DEF FailureIgnored
<1>12. CASE StartReturns \/ CorpseDrops \/ DeathCompletes
    BY <1>12 DEF StartReturns, CorpseDrops, DeathCompletes, InHand
<1> QED
    BY <1>4, <1>5, <1>6, <1>7, <1>8, <1>9, <1>10, <1>11, <1>12 DEF Return

\* So does the pending task of b: it is never discarded and never aborted.
LEMMA TaskAdvances ==
    ASSUME IInv, IInv', AttemptInv, AttemptInv', NEW b \in Bots,
           phase[b] = "Recovering", phase'[b] = "Recovering",
           NEW t \in Pending(b), SchedulerThread(t) \/ RunTask(t)
    PROVE  Rank(b)' < Rank(b)
<1>1. /\ t \in tasks /\ t.bot = b /\ t.token = generation[b]
      /\ t.kind \in {"recover", "finalize"} /\ t.stage \in {"timer", "queued"}
      /\ t.attempt \in 0..MaximumRelogAttempts
      /\ generation[b] # 0 /\ ThePending(b) = t /\ ~InHand(b)
    BY PendingTask
<1>2. Rank(b) = TaskRank(t)
    BY <1>1 DEF Rank
<1>3. CASE Expire(t)
  <2> DEFINE u == [t EXCEPT !.stage = "queued"]
  <2>1. u \in Pending(b)' /\ ~InHand(b)'
    BY <1>1, <1>3 DEF Expire, recordVars, Pending, InHand, IInv, TypeOK, Task
  <2>2. ThePending(b)' = u
    <3>1. \A v \in Pending(b)' : v = u
      BY <2>1 DEF Pending, IInv, TokenInv
    <3> HIDE DEF u
    <3> QED BY <2>1, <3>1, TheOne DEF ThePending
  <2>3. /\ u.stage = "queued" /\ u.kind = t.kind /\ u.attempt = t.attempt
        /\ t.stage = "timer"
    BY <1>1, <1>3 DEF Expire, IInv, TypeOK, Task
  <2> HIDE DEF u
  <2>4. Rank(b)' = TaskRank(u)
    BY <2>1, <2>2 DEF Rank, TaskRank, Left
  <2> QED BY <1>1, <1>2, <2>3, <2>4 DEF TaskRank, Left
<1>4. CASE RecoverEvict(t)
    BY <1>1, <1>2, <1>4 DEF RecoverEvict, Dispatched, Enter, Call, Rank, InHand, HandRank,
               TaskRank, Left
<1>5. CASE RecoverReload(t)
    BY <1>1, <1>2, <1>5 DEF RecoverReload, Dispatched, Enter, Call, Rank, InHand, HandRank,
               TaskRank, Left
<1>6. CASE FinalizeEvict(t)
    BY <1>1, <1>2, <1>6 DEF FinalizeEvict, Dispatched, Enter, Call, Rank, InHand, HandRank,
               TaskRank, Left
<1>7. CASE DiscardStale(t)
  <2>1. stopping /\ unremoved = {}
    BY <1>1, <1>7 DEF DiscardStale, Accepts, Idle
  <2> QED BY <2>1 DEF IInv, PhaseInv, Managed
<1>8. CASE Abort(t) \/ Activate(t)
    BY <1>1, <1>8 DEF Abort, Activate, Dispatched
<1>9. CASE RecoverConflict(t) \/ Finalize(t)
    BY <1>1, <1>9 DEF RecoverConflict, Finalize, Suspend, Managed, IInv, TypeOK
<1> QED
    BY <1>3, <1>4, <1>5, <1>6, <1>7, <1>8, <1>9 DEF SchedulerThread, RunTask

\* Every other step leaves the recovery of b alone.
LEMMA OthersLeaveItAlone ==
    ASSUME IInv, AttemptInv, Next, NEW b \in Bots,
           phase[b] = "Recovering", phase'[b] = "Recovering", ~Serves(b)
    PROVE  Untouched(b)
<1> USE DEF IInv, TypeOK, recordVars, loopVars, worldVars, dbVars, Untouched, IdleFrame
<1>1. CASE Start
    BY <1>1 DEF Start, PhaseInv
<1>2. CASE Return
  <2>1. ~InHand(b)
    BY <1>2 DEF Serves
  <2>2. frame.pc # "idle" /\ frame.bot \in Bots
    BY <1>2 DEF Return, EvictReturns, FinalizeReturns, LoadPlaces, LoadFails, LoginAccepted,
               LoginRejected, StartReturns, FailureIgnored, RelogRetried, RelogAbandoned,
               CorpseDrops, DeathCompletes, Frame
  <2>3. CASE CorpseDrops
    BY <2>1, <2>2, <2>3, RemovalElsewhere DEF CorpseDrops, Finish, InHand
  <2>4. CASE DeathCompletes
    BY <2>1, <2>4 DEF DeathCompletes, Finish, InHand, Pending
  <2>5. CASE ~CorpseDrops /\ ~DeathCompletes
    <3>1. frame.bot # b
      BY <1>2, <2>1, <2>5 DEF Return, EvictReturns, FinalizeReturns, LoadPlaces, LoadFails,
               LoginAccepted, LoginRejected, StartReturns, FailureIgnored, RelogRetried,
               RelogAbandoned, InHand, FrameInv
    <3>2. CASE RelogRetried
      BY <2>1, <2>2, <3>1, <3>2, ScheduleElsewhere DEF RelogRetried, Finish, InHand
    <3>3. CASE EvictReturns \/ FinalizeReturns \/ StartReturns
      BY <2>1, <2>2, <3>1, <3>3 DEF EvictReturns, FinalizeReturns, StartReturns, Goto, Finish,
               InHand, Pending, Frame
    <3>4. CASE LoadPlaces \/ LoadFails \/ LoginAccepted \/ LoginRejected
      BY <2>1, <2>2, <3>1, <3>4 DEF LoadPlaces, LoadFails, LoginAccepted, LoginRejected, Goto,
               Call, InHand, Pending, Frame
    <3>5. CASE FailureIgnored \/ RelogAbandoned
      BY <2>1, <2>2, <3>1, <3>5 DEF FailureIgnored, RelogAbandoned, Finish, InHand, Pending
    <3> QED BY <1>2, <2>5, <3>2, <3>3, <3>4, <3>5 DEF Return
  <2> QED BY <2>3, <2>4, <2>5
<1>3. CASE Shutdown
    BY <1>3 DEF Shutdown, Pending, InHand
<1>4. ASSUME NEW t \in tasks, SchedulerThread(t) \/ RunTask(t) PROVE Untouched(b)
  <2>1. t \notin Pending(b)
    BY <1>4 DEF Serves
  <2>2. CASE Expire(t)
    <3>1. [t EXCEPT !.stage = "queued"].bot = t.bot /\ [t EXCEPT !.stage = "queued"].token = t.token
      BY DEF Task
    <3> QED BY <2>1, <2>2, <3>1 DEF Expire, Pending, InHand
  <2>3. CASE Abort(t) \/ DiscardStale(t)
    BY <2>1, <2>3 DEF Abort, DiscardStale, Pending, InHand
  <2>4. CASE RunTask(t) /\ ~DiscardStale(t)
    <3>1. Idle /\ Take(t)
      BY <2>4 DEF RunTask, Activate, RecoverConflict, RecoverEvict, RecoverReload, Finalize,
               FinalizeEvict, Dispatched
    <3>2. t.bot # b /\ tasks' = tasks \ {t} /\ frame.pc = "idle"
      BY <2>1, <3>1 DEF Take, Accepts, Idle, Pending
    <3>3. generation' = generation /\ (frame' = frame \/ frame'.bot = t.bot)
      BY <2>4 DEF RunTask, Activate, RecoverConflict, RecoverEvict, RecoverReload, Finalize,
               FinalizeEvict, Enter, Call
    <3> QED BY <2>1, <3>2, <3>3 DEF Pending, InHand
  <2> QED BY <1>4, <2>2, <2>3, <2>4 DEF SchedulerThread
<1>5. ASSUME NEW c \in Bots, LoopStep(c) PROVE Untouched(b)
  <2>1. CASE ScheduleActivation(c)
    <3>1. c # b
      BY <2>1 DEF ScheduleActivation, PhaseInv
    <3> QED BY <2>1, <3>1, ScheduleElsewhere DEF ScheduleActivation, InHand
  <2>2. CASE RemoveTerminal(c)
    BY <2>2 DEF RemoveTerminal, Pending, InHand
  <2>3. CASE Remove(c)
    <3>1. c # b
      BY <2>3 DEF Remove
    <3> QED BY <2>3, <3>1, CancelElsewhere DEF Remove, InHand
  <2> QED BY <1>5, <2>1, <2>2, <2>3 DEF LoopStep
<1>6. ASSUME NEW c \in Bots, World(c) PROVE Untouched(b)
  <2>1. CASE Kick(c)
    BY <2>1, RemovalElsewhere DEF Kick, InHand
  <2>2. ASSUME NEW stable \in BOOLEAN, Death(c, stable) PROVE Untouched(b)
    <3>1. c # b
      BY <2>2 DEF Death, Mourned
    <3>2. ~InHand(b) /\ ~InHand(b)'
      BY <2>2 DEF Death, Dying, Idle, Call, InHand
    <3>3. Pending(b)' = Pending(b)
      <4>1. CASE UNCHANGED <<issued, generation, eventId, tasks>>
        BY <4>1 DEF Pending
      <4>2. CASE ~UNCHANGED <<issued, generation, eventId, tasks>>
        BY <2>2, <3>1, <4>2, ScheduleElsewhere DEF Death
      <4> QED BY <4>1, <4>2
    <3> QED BY <3>2, <3>3
  <2>3. CASE DeathIgnored(c)
    BY <2>3 DEF DeathIgnored, Dying, Idle, Call, InHand, Pending
  <2>4. CASE ControllerStops(c) \/ HumanLogin(c) \/ HumanLogout(c) \/ EditRow(c)
    BY <2>4 DEF ControllerStops, HumanLogin, HumanLogout, EditRow, InHand, Pending
  <2> QED BY <1>6, <2>1, <2>2, <2>3, <2>4 DEF World
<1> QED BY <1>2, <1>1, <1>3, <1>4, <1>5, <1>6 DEF Next

\* The attempts stay bounded in every behaviour.
THEOREM AttemptsAreBounded == Spec => []AttemptInv
<1>1. IInv /\ AttemptInv /\ [Next]_vars => AttemptInv'
    BY AttemptStep
<1> QED BY <1>1, AttemptInit, Invariance, PTL DEF Spec

\* RecoveryAdvances: no death, kick, shutdown or stale timer of another bot
\* delays the recovery of a record, and each step of its own brings it nearer
\* to a relog, a suspension or a removal; ranks are natural numbers.
THEOREM RecoveryComesToAnEnd == Spec => RecoveryAdvances
<1> DEFINE Natural == \A b \in Bots : phase[b] = "Recovering" => Rank(b) \in Nat
<1>a. IInv /\ AttemptInv => Natural
    BY RankIsNatural
<1>0. IInv' /\ AttemptInv' => Natural'
    BY <1>a, PTL
<1>1. IInv /\ IInv' /\ AttemptInv /\ AttemptInv' /\ [Next]_vars =>
        [\A b \in Bots : phase[b] = "Recovering" /\ phase'[b] = "Recovering" =>
            /\ Rank(b)' <= Rank(b)
            /\ Serves(b) => Rank(b)' < Rank(b)]_vars
  <2> SUFFICES ASSUME IInv, IInv', AttemptInv, AttemptInv', Next, NEW b \in Bots,
                      phase[b] = "Recovering", phase'[b] = "Recovering"
               PROVE  /\ Rank(b)' <= Rank(b)
                      /\ Serves(b) => Rank(b)' < Rank(b)
    OBVIOUS
  <2>1. Rank(b) \in Nat
    BY RankIsNatural
  <2>2. CASE Serves(b)
    <3>1. Rank(b)' < Rank(b)
      BY <2>2, HandAdvances, TaskAdvances DEF Serves
    <3>2. Rank(b)' \in Nat
      BY <1>0
    <3> QED BY <2>1, <3>1, <3>2
  <2>3. CASE ~Serves(b)
    BY <2>1, <2>3, OthersLeaveItAlone, UntouchedRank
  <2> QED BY <2>2, <2>3
<1> QED BY <1>1, AttemptsAreBounded, Invariance, PTL DEF Spec, RecoveryAdvances

=============================================================================
