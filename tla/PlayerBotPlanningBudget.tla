----------------------- MODULE PlayerBotPlanningBudget -----------------------
(***************************************************************************)
(* PlayerBotPlanningBudget (playerbotplanningbudget.h): cooperative        *)
(* admission of route and hunt planning, shared by every controller, and   *)
(* the controllers' side of the protocol: when a denied one asks again.    *)
(*                                                                         *)
(* Time is a count of ticks; a tick of work costs one unit of credit and   *)
(* two ticks of clock earn one.  A turn's planning slice is synchronous:   *)
(* while one client is admitted no other client takes a turn.              *)
(***************************************************************************)
EXTENDS Integers, Sequences

CONSTANTS
    Clients,        \* controllers, by their (nonzero) player id
    NoClient,       \* `active` = 0
    Burst,          \* burstUs
    Admission,      \* admissionUs
    MaxWaiting,     \* maxWaiting
    PollDelay,      \* pollDelay
    HeadLease,      \* headLease
    Floor,          \* per client: the least delay its caller retries after
    Wanderers,      \* those whose turn other activities may take over
    Away,           \* ... for this long
    MaxLate,        \* how late the dispatcher may run a due turn
    MaxSlice,       \* bound: the length of one planning slice
    Horizon         \* bound: the clock stops here

ASSUME BudgetAssumption ==
    /\ NoClient \notin Clients
    /\ Burst \in Nat /\ Admission \in Nat /\ Admission <= Burst
    /\ MaxWaiting \in Nat /\ PollDelay \in Nat \ {0} /\ HeadLease \in Nat \ {0}
    /\ Floor \in [Clients -> Nat \ {0}]
    /\ Wanderers \subseteq Clients /\ Away \in Nat
    /\ MaxLate \in Nat /\ MaxSlice \in Nat /\ Horizon \in Nat

VARIABLES
    now,            \* the steady clock
    updated,        \* when credit was last refilled
    credit,         \* tokensUs, negative in debt
    remainder,      \* refillRemainder
    consumed,       \* consumedUs
    active, started,
    waiting, headDeadline,
    stage,          \* per client: "idle", "asking" or "working"
    due,            \* when an asking client's next turn is scheduled, else 0
    asked,          \* the clients that have queued and not been admitted since
    overtaken       \* overtaken[c][d]: admissions of d since c asked, up to 2

accountVars == <<updated, credit, remainder, consumed>>
slotVars == <<active, started>>
queueVars == <<waiting, headDeadline>>
ghostVars == <<asked, overtaken>>
vars == <<now, accountVars, slotVars, queueVars, stage, due, ghostVars>>

Waiting == {waiting[i] : i \in DOMAIN waiting}

TypeOK ==
    /\ now \in Nat /\ updated \in Nat /\ started \in Nat /\ headDeadline \in Nat
    /\ credit \in Int /\ remainder \in {0, 1} /\ consumed \in Nat
    /\ active \in Clients \cup {NoClient}
    /\ waiting \in Seq(Clients)
    /\ stage \in [Clients -> {"idle", "asking", "working"}]
    /\ due \in [Clients -> Nat]
    /\ asked \in SUBSET Clients
    /\ overtaken \in [Clients -> [Clients -> 0..2]]

Never == [d \in Clients |-> 0]

Init ==
    /\ now = 0 /\ updated = 0 /\ credit = Burst /\ remainder = 0 /\ consumed = 0
    /\ active = NoClient /\ started = 0
    /\ waiting = <<>> /\ headDeadline = HeadLease
    /\ stage = [c \in Clients |-> "idle"] /\ due = [c \in Clients |-> 0]
    /\ asked = {} /\ overtaken = [c \in Clients |-> Never]

-----------------------------------------------------------------------------
(* refill(): half of the elapsed time, saturating at the burst; an odd tick  *)
(* is carried into the next refill                                           *)

\* Mutant: a carried tick is not forgotten when it is spent.
RefilledTwice(amount, odd, elapsed) ==
    LET base == IF elapsed \div 2 >= Burst - amount THEN Burst
                ELSE amount + elapsed \div 2
        extra == elapsed % 2 = 1 /\ base < Burst
    IN  [credit |-> IF extra /\ odd = 1 THEN base + 1 ELSE base,
         remainder |-> IF extra THEN odd + 1 ELSE odd]

\* Mutant: an odd tick is not carried into the next refill.
RefilledRounded(amount, odd, elapsed) ==
    LET base == IF elapsed \div 2 >= Burst - amount THEN Burst
                ELSE amount + elapsed \div 2
    IN  [credit |-> base, remainder |-> 0]

Refilled(amount, odd, elapsed) ==
    LET base == IF elapsed \div 2 >= Burst - amount THEN Burst
                ELSE amount + elapsed \div 2
        extra == elapsed % 2 = 1 /\ base < Burst
        sum == IF extra /\ odd = 1 THEN base + 1 ELSE base
    IN  [credit |-> sum,
         remainder |-> IF sum = Burst \/ (extra /\ odd = 1) THEN 0
                       ELSE IF extra THEN 1 ELSE odd]

Credited == Refilled(credit, remainder, now - updated)

Refill ==
    /\ credit' = Credited.credit
    /\ remainder' = Credited.remainder
    /\ updated' = now

-----------------------------------------------------------------------------
(* request()                                                                 *)

\* pruneHead: a head that has let its lease run out is dropped.
HeadExpired == active = NoClient /\ waiting # <<>> /\ now >= headDeadline
Line == IF HeadExpired THEN Tail(waiting) ELSE waiting

\* The client joins the line unless it is in it already, or the line is full.
InLine(c) == \E i \in DOMAIN Line : Line[i] = c
Joined(c) == IF InLine(c) \/ Len(Line) = MaxWaiting THEN Line ELSE Append(Line, c)
Leased(c) ==
    IF HeadExpired \/ (Line = <<>> /\ Joined(c) # <<>>)
    THEN now + HeadLease ELSE headDeadline

\* A turn of c that reaches a planning step.
TurnOf(c) ==
    /\ active = NoClient
    /\ stage[c] = "asking" /\ due[c] <= now

\* Denied: the caller schedules its next turn after the returned delay, or
\* after its own least delay when that is longer.
RetryAfter(c, delay) ==
    due' = [due EXCEPT ![c] = now + (IF delay > Floor[c] THEN delay ELSE Floor[c])]

Ask(c) == asked' = asked \cup {c}

\* No room: maxWaiting others are in line.
RequestRefused(c) ==
    /\ TurnOf(c) /\ ~InLine(c) /\ Len(Line) = MaxWaiting
    /\ Refill
    /\ waiting' = Line /\ headDeadline' = Leased(c)
    /\ RetryAfter(c, PollDelay)
    /\ UNCHANGED <<now, consumed, slotVars, stage, ghostVars>>

\* Another client is at the head.
RequestQueued(c) ==
    /\ TurnOf(c)
    /\ Joined(c) # <<>> /\ Head(Joined(c)) # c
    /\ InLine(c) \/ Len(Line) < MaxWaiting
    /\ Refill
    /\ waiting' = Joined(c) /\ headDeadline' = Leased(c)
    /\ RetryAfter(c, PollDelay)
    /\ Ask(c)
    /\ UNCHANGED <<now, consumed, slotVars, stage, overtaken>>

\* Mutant: waiting for credit does not extend the head's lease.
RequestOwingUnextended(c) ==
    /\ TurnOf(c)
    /\ Joined(c) # <<>> /\ Head(Joined(c)) = c /\ Credited.credit < Admission
    /\ Refill
    /\ waiting' = Joined(c) /\ headDeadline' = Leased(c)
    /\ RetryAfter(c, 2 * (Admission - Credited.credit))
    /\ Ask(c)
    /\ UNCHANGED <<now, consumed, slotVars, stage, overtaken>>

\* The head, but the credit does not reach the admission threshold yet.
RequestOwing(c) ==
    LET delay == 2 * (Admission - Credited.credit) IN
    /\ TurnOf(c)
    /\ Joined(c) # <<>> /\ Head(Joined(c)) = c /\ Credited.credit < Admission
    /\ Refill
    /\ waiting' = Joined(c) /\ headDeadline' = now + delay + HeadLease
    /\ RetryAfter(c, delay)
    /\ Ask(c)
    /\ UNCHANGED <<now, consumed, slotVars, stage, overtaken>>

RequestAdmitted(c) ==
    /\ TurnOf(c)
    /\ Joined(c) # <<>> /\ Head(Joined(c)) = c /\ Credited.credit >= Admission
    /\ Refill
    /\ waiting' = Tail(Joined(c))
    /\ active' = c /\ started' = now
    /\ headDeadline' = IF Tail(Joined(c)) # <<>> THEN now + HeadLease ELSE Leased(c)
    /\ stage' = [stage EXCEPT ![c] = "working"]
    /\ asked' = asked \ {c}
    /\ overtaken' = [d \in Clients |->
                        IF d = c THEN Never
                        ELSE IF d \in asked /\ overtaken[d][c] < 2
                        THEN [overtaken[d] EXCEPT ![c] = @ + 1] ELSE overtaken[d]]
    /\ due' = [due EXCEPT ![c] = 0]
    /\ UNCHANGED <<now, consumed>>

-----------------------------------------------------------------------------
(* finish() and cancel()                                                     *)

Charged == Refilled(credit - (now - started), remainder, now - updated)

\* Mutant: the work is recorded but not paid for.
FinishUncharged(c, again) ==
    /\ active = c /\ stage[c] = "working"
    /\ Refill
    /\ consumed' = consumed + (now - started)
    /\ active' = NoClient
    /\ headDeadline' = IF waiting # <<>> THEN now + HeadLease ELSE headDeadline
    /\ stage' = [stage EXCEPT ![c] = IF again THEN "asking" ELSE "idle"]
    /\ due' = [due EXCEPT ![c] = IF again THEN now + 1 ELSE 0]
    /\ UNCHANGED <<now, started, waiting, ghostVars>>

\* Mutant: the head's lease runs on during somebody else's slice.
FinishKeepsLease(c, again) ==
    /\ active = c /\ stage[c] = "working"
    /\ credit' = Charged.credit /\ remainder' = Charged.remainder /\ updated' = now
    /\ consumed' = consumed + (now - started)
    /\ active' = NoClient
    /\ stage' = [stage EXCEPT ![c] = IF again THEN "asking" ELSE "idle"]
    /\ due' = [due EXCEPT ![c] = IF again THEN now + 1 ELSE 0]
    /\ UNCHANGED <<now, started, queueVars, ghostVars>>

\* The slice ends: its time is charged before the credit it earned meanwhile.
\* A plan that is not complete is continued on the client's next turn.
Finish(c, again) ==
    /\ active = c /\ stage[c] = "working"
    /\ credit' = Charged.credit /\ remainder' = Charged.remainder /\ updated' = now
    /\ consumed' = consumed + (now - started)
    /\ active' = NoClient
    /\ headDeadline' = IF waiting # <<>> THEN now + HeadLease ELSE headDeadline
    /\ stage' = [stage EXCEPT ![c] = IF again THEN "asking" ELSE "idle"]
    /\ due' = [due EXCEPT ![c] = IF again THEN now + 1 ELSE 0]
    /\ UNCHANGED <<now, started, waiting, ghostVars>>

Erase(s, i) == SubSeq(s, 1, i - 1) \o SubSeq(s, i + 1, Len(s))

GiveUp(c) ==
    /\ stage[c] = "asking"
    /\ stage' = [stage EXCEPT ![c] = "idle"]
    /\ asked' = asked \ {c}
    /\ overtaken' = [overtaken EXCEPT ![c] = Never]
    /\ due' = [due EXCEPT ![c] = 0]
    /\ Refill
    /\ UNCHANGED <<now, consumed, slotVars>>

\* Mutant: the abandoned request stays in line.
CancelKeepsPlace(c) ==
    /\ c \in Waiting
    /\ GiveUp(c)
    /\ UNCHANGED queueVars

\* The controller stops, pauses or abandons its plan: it leaves the line, and
\* a new head starts a lease of its own.
Cancel(c) ==
    \E i \in DOMAIN waiting :
        /\ waiting[i] = c
        /\ GiveUp(c)
        /\ waiting' = Erase(waiting, i)
        /\ headDeadline' = IF i = 1 /\ Len(waiting) > 1 THEN now + HeadLease
                           ELSE headDeadline

\* The same for a client that is not in line.
CancelAbsent(c) ==
    /\ c \notin Waiting
    /\ GiveUp(c)
    /\ UNCHANGED queueVars

-----------------------------------------------------------------------------
(* The controllers and the clock                                             *)

\* A controller starts to plan; its turn is at hand.
Wake(c) ==
    /\ active = NoClient /\ stage[c] = "idle"
    /\ stage' = [stage EXCEPT ![c] = "asking"]
    /\ due' = [due EXCEPT ![c] = now]
    /\ UNCHANGED <<now, accountVars, slotVars, queueVars, ghostVars>>

\* Its turn goes to something more urgent, a fight for instance; it keeps its
\* place in line.
Wander(c) ==
    /\ c \in Wanderers /\ TurnOf(c)
    /\ due' = [due EXCEPT ![c] = now + Away]
    /\ UNCHANGED <<now, accountVars, slotVars, queueVars, stage, ghostVars>>

\* Time passes inside a slice, or while no turn is overdue.
Pass ==
    /\ now < Horizon
    /\ IF active # NoClient THEN now - started < MaxSlice
       ELSE \A c \in Clients : stage[c] = "asking" => now < due[c] + MaxLate
    /\ now' = now + 1
    /\ UNCHANGED <<accountVars, slotVars, queueVars, stage, due, ghostVars>>

Request(c) ==
    RequestRefused(c) \/ RequestQueued(c) \/ RequestOwing(c) \/ RequestAdmitted(c)

Next ==
    \/ Pass
    \/ \E c \in Clients :
        \/ Request(c) \/ \E again \in BOOLEAN : Finish(c, again)
        \/ Cancel(c) \/ CancelAbsent(c) \/ Wake(c) \/ Wander(c)

Spec == Init /\ [][Next]_vars

-----------------------------------------------------------------------------
(* Properties *)

\* A client is punctual when its retries, however late, fall within a lease.
Punctual ==
    {c \in Clients \ Wanderers :
        (IF PollDelay > Floor[c] THEN PollDelay ELSE Floor[c]) + MaxLate < HeadLease}

\* Whatever slices overrun, planning takes no more than the initial burst, half
\* of the elapsed time, and half of one slice.
Envelope ==
    active = NoClient => 2 * consumed <= 2 * (Burst - Admission) + now + MaxSlice

\* When a head that waits for its credit was told to come back: "Debt waits
\* extend its lease to the next eligible time" (playerbotplanningbudget.h:45).
ToldTime == headDeadline - HeadLease

\* It is eligible then: the credit has reached the threshold, into however many
\* refills the requests and cancellations of the others have cut the wait.
EligibleWhenTold ==
    updated < ToldTime => 2 * credit + remainder + (ToldTime - updated) >= 2 * Admission

\* Who is in line wants to plan: nobody twice, and neither a client that gave
\* up nor the one being served.
QueueHonest ==
    /\ \A i, j \in DOMAIN waiting : waiting[i] = waiting[j] => i = j
    /\ \A c \in Waiting : stage[c] = "asking" /\ c # active

\* A client that asks again in time keeps its place until it is admitted or
\* gives up, also while others overrun their slices, cancel, or stay away.
PunctualKeepsTurn ==
    [][\A c \in Punctual : c \in Waiting /\ c \notin Waiting' =>
        active' = c \/ stage'[c] = "idle"]_vars

\* Nobody is admitted twice while a punctual client waits.
FairTurns == \A c \in Punctual : \A d \in Clients : overtaken[c][d] <= 1

\* "Queues continuations fairly": the same for every client that retries after
\* the delay its caller chooses.
ContinuationsQueueFairly ==
    \A c \in Clients \ Wanderers : \A d \in Clients : overtaken[c][d] <= 1

=============================================================================
