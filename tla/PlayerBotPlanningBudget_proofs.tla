-------------------- MODULE PlayerBotPlanningBudget_proofs --------------------
(***************************************************************************)
(* The account of PlayerBotPlanningBudget, for any number of controllers,  *)
(* any limits, and slices and lateness of any length.                      *)
(***************************************************************************)
EXTENDS PlayerBotPlanningBudget, SequenceTheorems, TLAPS

\* Credit and consumption together never outgrow the burst and half the clock.
AccountInv ==
    /\ updated <= now
    /\ credit <= Burst
    /\ 2 * (credit + consumed) + remainder <= 2 * Burst + updated

\* A slice began with the threshold in hand, and pays when it ends.
SliceInv ==
    /\ active # NoClient =>
        /\ started <= updated /\ now - started <= MaxSlice
        /\ credit >= Admission
        /\ 2 * consumed <= 2 * (Burst - Admission) + started
    /\ active = NoClient => credit >= Admission - MaxSlice
    /\ Envelope

IInv == TypeOK /\ AccountInv /\ SliceInv

-----------------------------------------------------------------------------
(* The pure parts *)

\* A delay until the threshold is reached is not negative.
LEMMA GapIsNat ==
    ASSUME NEW have \in Int, NEW need \in Int, have < need
    PROVE  2 * (need - have) \in Nat
    OBVIOUS

\* What the account can hold when the refilled credit grows by no more than
\* half of the elapsed time.
LEMMA AccountArithmetic ==
    ASSUME NEW before \in Int, NEW after \in Int, NEW spent \in Int,
           NEW odd \in Int, NEW rest \in Int, NEW limit \in Int,
           NEW then \in Int, NEW time \in Int,
           2 * (before + spent) + odd <= 2 * limit + then,
           2 * after + rest <= 2 * before + odd + (time - then)
    PROVE  2 * (after + spent) + rest <= 2 * limit + time
    OBVIOUS

\* A slice that starts with the threshold in hand leaves room for it.
LEMMA RoomArithmetic ==
    ASSUME NEW have \in Int, NEW spent \in Int, NEW rest \in {0, 1},
           NEW limit \in Int, NEW need \in Int, NEW time \in Int,
           2 * (have + spent) + rest <= 2 * limit + time, have >= need
    PROVE  2 * spent <= 2 * (limit - need) + time
    OBVIOUS

USE BudgetAssumption

\* refill() adds half of the elapsed time, counting the carried tick, and carries
\* what is left; it never loses credit and never passes the burst.
LEMMA RefillBounds ==
    ASSUME NEW amount \in Int, amount <= Burst, NEW odd \in {0, 1}, NEW elapsed \in Nat
    PROVE  /\ Refilled(amount, odd, elapsed).credit \in Int
           /\ Refilled(amount, odd, elapsed).remainder \in {0, 1}
           /\ amount <= Refilled(amount, odd, elapsed).credit
           /\ Refilled(amount, odd, elapsed).credit <= Burst
           /\ 2 * Refilled(amount, odd, elapsed).credit
                + Refilled(amount, odd, elapsed).remainder <= 2 * amount + odd + elapsed
           /\ \/ Refilled(amount, odd, elapsed).credit = Burst
              \/ 2 * Refilled(amount, odd, elapsed).credit
                   + Refilled(amount, odd, elapsed).remainder = 2 * amount + odd + elapsed
<1> DEFINE half == elapsed \div 2
           rest == elapsed % 2
<1>1. half \in Nat /\ rest \in {0, 1} /\ elapsed = 2 * half + rest
    OBVIOUS
<1> HIDE DEF half, rest
<1>2. Refilled(amount, odd, elapsed) =
        LET base == IF half >= Burst - amount THEN Burst ELSE amount + half
            extra == rest = 1 /\ base < Burst
            sum == IF extra /\ odd = 1 THEN base + 1 ELSE base
        IN  [credit |-> sum,
             remainder |-> IF sum = Burst \/ (extra /\ odd = 1) THEN 0
                           ELSE IF extra THEN 1 ELSE odd]
    BY DEF Refilled, half, rest
<1>3. CASE half >= Burst - amount
    BY <1>1, <1>2, <1>3
<1>4. CASE ~(half >= Burst - amount) /\ rest = 0
    BY <1>1, <1>2, <1>4
<1>5. CASE ~(half >= Burst - amount) /\ rest = 1
    BY <1>1, <1>2, <1>5
<1> QED BY <1>1, <1>3, <1>4, <1>5

\* Every call that refills keeps the account.
LEMMA RefillKeepsAccount ==
    ASSUME TypeOK, AccountInv, Refill, UNCHANGED <<now, consumed>>
    PROVE  /\ AccountInv' /\ credit <= credit'
           /\ credit' \in Int /\ remainder' \in {0, 1} /\ updated' = now
<1>1. /\ now - updated \in Nat /\ credit \in Int /\ credit <= Burst
      /\ remainder \in {0, 1}
    BY DEF TypeOK, AccountInv
<1>2. /\ credit' \in Int /\ remainder' \in {0, 1}
      /\ credit <= credit' /\ credit' <= Burst
      /\ 2 * credit' + remainder' <= 2 * credit + remainder + (now - updated)
  <2>1. credit' = Refilled(credit, remainder, now - updated).credit
    BY DEF Refill, Credited
  <2>2. remainder' = Refilled(credit, remainder, now - updated).remainder
    BY DEF Refill, Credited
  <2> HIDE DEF Refilled
  <2> QED BY <1>1, <2>1, <2>2, RefillBounds
<1>3. AccountInv'
  <2>1. updated' = now /\ now' = now /\ consumed' = consumed
    BY DEF Refill
  <2>2. /\ now \in Nat /\ updated \in Nat /\ consumed \in Nat
        /\ 2 * (credit + consumed) + remainder <= 2 * Burst + updated
    BY DEF TypeOK, AccountInv
  <2>3. 2 * (credit' + consumed) + remainder' <= 2 * Burst + now
    <3>1. /\ now \in Int /\ updated \in Int /\ consumed \in Int
          /\ remainder \in Int /\ remainder' \in Int /\ Burst \in Int
      BY <1>1, <1>2, <2>2
    <3> QED BY <1>1, <1>2, <2>2, <3>1, AccountArithmetic
  <2>4. updated' <= now'
    BY <2>1, <2>2
  <2> QED BY <1>2, <2>1, <2>3, <2>4 DEF AccountInv
<1> QED BY <1>2, <1>3 DEF Refill

\* What a request leaves in line is a line of clients.
LEMMA LineIsTyped ==
    ASSUME TypeOK, NEW c \in Clients
    PROVE  /\ Line \in Seq(Clients) /\ Joined(c) \in Seq(Clients)
           /\ Leased(c) \in Nat
           /\ Joined(c) # <<>> => Tail(Joined(c)) \in Seq(Clients)
<1>1. Line \in Seq(Clients)
    BY DEF TypeOK, Line, HeadExpired
<1>2. Joined(c) \in Seq(Clients)
    BY <1>1 DEF Joined
<1>3. Leased(c) \in Nat
    BY DEF TypeOK, Leased
<1> QED BY <1>1, <1>2, <1>3

\* A retry is scheduled at a time.
LEMMA RetryIsTyped ==
    ASSUME TypeOK, NEW c \in Clients, NEW delay \in Int, RetryAfter(c, delay)
    PROVE  due' \in [Clients -> Nat]
<1>1. Floor[c] \in Nat /\ now \in Nat
    BY DEF TypeOK
<1>2. now + (IF delay > Floor[c] THEN delay ELSE Floor[c]) \in Nat
    BY <1>1
<1> QED BY <1>2 DEF TypeOK, RetryAfter

-----------------------------------------------------------------------------
(* The inductive invariant *)

\* Every initial state satisfies the invariant.
LEMMA IInvInit == Init => IInv
    BY DEF Init, IInv, TypeOK, AccountInv, SliceInv, Envelope, Never

\* With no slice in progress, a step that refills and starts none keeps the
\* slice part.
LEMMA IdleKeepsSlice ==
    ASSUME TypeOK, SliceInv, active = NoClient, active' = NoClient,
           now' = now, consumed' = consumed, credit' \in Int, credit <= credit'
    PROVE  SliceInv'
<1>1. credit' >= Admission - MaxSlice
    BY DEF TypeOK, SliceInv
<1>2. Envelope'
    BY DEF SliceInv, Envelope
<1> QED BY <1>1, <1>2 DEF SliceInv

\* A denied request changes the line and refills, no more.
LEMMA DeniedKeepsIInv ==
    ASSUME IInv, NEW c \in Clients,
           RequestRefused(c) \/ RequestQueued(c) \/ RequestOwing(c)
    PROVE  IInv'
<1>1. TypeOK /\ AccountInv /\ SliceInv
    BY DEF IInv
<1>2. /\ active = NoClient /\ active' = active /\ started' = started
      /\ now' = now /\ consumed' = consumed /\ stage' = stage /\ overtaken' = overtaken
      /\ asked' \in {asked, asked \cup {c}}
      /\ waiting' \in {Line, Joined(c)}
      /\ Refill
    BY DEF RequestRefused, RequestQueued, RequestOwing, TurnOf, slotVars, ghostVars, Ask
<1>3. /\ AccountInv' /\ credit <= credit' /\ updated' = now
      /\ credit' \in Int /\ remainder' \in {0, 1}
    BY <1>1, <1>2, RefillKeepsAccount
<1>4. due' \in [Clients -> Nat] /\ headDeadline' \in Nat
  <2>1. CASE RequestOwing(c)
    <3> DEFINE delay == 2 * (Admission - credit')
    <3>1. credit' = Credited.credit
      BY <1>2 DEF Refill
    <3>2. credit' < Admission /\ headDeadline' = now + delay + HeadLease
          /\ RetryAfter(c, delay)
      BY <2>1, <3>1 DEF RequestOwing
    <3>3. delay \in Nat
      <4>1. credit' \in Int /\ credit' < Admission
        BY <1>3, <3>2
      <4>2. Admission \in Int
        OBVIOUS
      <4> QED BY <4>1, <4>2, GapIsNat
    <3> HIDE DEF delay
    <3>4. now \in Nat
      BY <1>1 DEF TypeOK
    <3>5. headDeadline' \in Nat
      BY <3>2, <3>3, <3>4
    <3> QED BY <1>1, <3>2, <3>3, <3>5, RetryIsTyped
  <2>2. CASE RequestRefused(c) \/ RequestQueued(c)
    <3>1. headDeadline' = Leased(c) /\ RetryAfter(c, PollDelay)
      BY <2>2 DEF RequestRefused, RequestQueued
    <3>2. PollDelay \in Int
      OBVIOUS
    <3> QED BY <1>1, <3>1, <3>2, LineIsTyped, RetryIsTyped
  <2> QED BY <2>1, <2>2
<1>5. waiting' \in Seq(Clients)
    BY <1>1, <1>2, LineIsTyped
<1>6. TypeOK'
    BY <1>1, <1>2, <1>3, <1>4, <1>5 DEF TypeOK
<1>7. SliceInv'
    BY <1>1, <1>2, <1>3, IdleKeepsSlice
<1> QED BY <1>3, <1>6, <1>7 DEF IInv

\* An admission starts a slice with the threshold in hand.
LEMMA AdmittedKeepsIInv ==
    ASSUME IInv, NEW c \in Clients, RequestAdmitted(c)
    PROVE  IInv'
<1>1. TypeOK /\ AccountInv /\ SliceInv
    BY DEF IInv
<1>2. /\ active = NoClient /\ active' = c /\ started' = now
      /\ now' = now /\ consumed' = consumed
      /\ asked' = asked \ {c} /\ stage' = [stage EXCEPT ![c] = "working"]
      /\ due' = [due EXCEPT ![c] = 0]
      /\ Joined(c) # <<>> /\ waiting' = Tail(Joined(c))
      /\ headDeadline' \in {now + HeadLease, Leased(c)}
      /\ Credited.credit >= Admission
      /\ Refill
    BY DEF RequestAdmitted, TurnOf
<1>3. /\ AccountInv' /\ credit <= credit' /\ updated' = now
      /\ credit' \in Int /\ remainder' \in {0, 1}
    BY <1>1, <1>2, RefillKeepsAccount
<1>4. overtaken' \in [Clients -> [Clients -> 0..2]]
  <2> DEFINE row(d) ==
        IF d = c THEN Never
        ELSE IF d \in asked /\ overtaken[d][c] < 2
        THEN [overtaken[d] EXCEPT ![c] = @ + 1] ELSE overtaken[d]
  <2>1. overtaken' = [d \in Clients |-> row(d)]
    BY DEF RequestAdmitted
  <2>2. ASSUME NEW d \in Clients PROVE row(d) \in [Clients -> 0..2]
    <3>1. overtaken[d] \in [Clients -> 0..2]
      BY <1>1 DEF TypeOK
    <3>2. overtaken[d][c] < 2 => overtaken[d][c] + 1 \in 0..2
      BY <3>1
    <3>3. Never \in [Clients -> 0..2]
      BY DEF Never
    <3> QED BY <3>1, <3>2, <3>3
  <2> HIDE DEF row
  <2> QED BY <2>1, <2>2
<1>5. TypeOK'
  <2>1. waiting' \in Seq(Clients) /\ headDeadline' \in Nat
    BY <1>1, <1>2, LineIsTyped DEF TypeOK
  <2> QED BY <1>1, <1>2, <1>3, <1>4, <2>1 DEF TypeOK
<1>6. SliceInv'
  <2>1. active' # NoClient
    BY <1>2
  <2>2. credit' >= Admission
    BY <1>2 DEF Refill
  <2>3. 2 * consumed <= 2 * (Burst - Admission) + now
    <3>1. /\ credit' \in Int /\ remainder' \in {0, 1} /\ now \in Nat /\ consumed \in Nat
          /\ 2 * (credit' + consumed) + remainder' <= 2 * Burst + now
      BY <1>1, <1>2, <1>3 DEF TypeOK, AccountInv
    <3>2. now \in Int /\ consumed \in Int /\ Burst \in Int /\ Admission \in Int
      BY <3>1
    <3> QED BY <2>2, <3>1, <3>2, RoomArithmetic
  <2>4. started' <= updated' /\ now' - started' <= MaxSlice
    BY <1>1, <1>2, <1>3 DEF TypeOK
  <2> QED BY <1>2, <2>1, <2>2, <2>3, <2>4 DEF SliceInv, Envelope
<1> QED BY <1>3, <1>5, <1>6 DEF IInv

\* Finishing charges the slice before it refills.
LEMMA FinishKeepsIInv ==
    ASSUME IInv, NEW c \in Clients, NEW again \in BOOLEAN, Finish(c, again)
    PROVE  IInv'
<1> USE DEF IInv, Finish
<1> DEFINE cost == now - started
<1>1. active # NoClient /\ cost \in Nat /\ credit - cost \in Int /\ credit - cost <= Burst
      /\ now - updated \in Nat /\ cost <= MaxSlice
    BY DEF TypeOK, AccountInv, SliceInv
<1>2. /\ credit' \in Int /\ remainder' \in {0, 1} /\ credit' <= Burst
      /\ credit - cost <= credit'
      /\ 2 * credit' + remainder' <= 2 * (credit - cost) + remainder + (now - updated)
    BY <1>1, RefillBounds DEF Charged, TypeOK
<1>3. TypeOK'
    BY <1>1, <1>2 DEF TypeOK, ghostVars
<1>4. AccountInv'
    BY <1>1, <1>2 DEF TypeOK, AccountInv
<1>5. SliceInv'
    BY <1>1, <1>2 DEF TypeOK, SliceInv, Envelope
<1> QED BY <1>3, <1>4, <1>5

\* Leaving the line leaves a line of clients.
LEMMA EraseIsTyped ==
    ASSUME NEW s \in Seq(Clients), NEW i \in DOMAIN s
    PROVE  Erase(s, i) \in Seq(Clients)
<1>1. i \in 1..Len(s) /\ Len(s) \in Nat
    OBVIOUS
<1>2. SubSeq(s, 1, i - 1) \in Seq(Clients)
    BY <1>1
<1>3. SubSeq(s, i + 1, Len(s)) \in Seq(Clients)
    BY <1>1
<1> QED BY <1>2, <1>3 DEF Erase

\* Giving up refills and leaves the line; the slice in progress goes on.
LEMMA CancelKeepsIInv ==
    ASSUME IInv, NEW c \in Clients, Cancel(c) \/ CancelAbsent(c)
    PROVE  IInv'
<1>1. TypeOK /\ AccountInv /\ SliceInv
    BY DEF IInv
<1>2. GiveUp(c)
    BY DEF Cancel, CancelAbsent
<1>3. /\ Refill /\ now' = now /\ consumed' = consumed
      /\ active' = active /\ started' = started
      /\ stage' = [stage EXCEPT ![c] = "idle"] /\ asked' = asked \ {c}
      /\ overtaken' = [overtaken EXCEPT ![c] = Never]
      /\ due' = [due EXCEPT ![c] = 0]
    BY <1>2 DEF GiveUp, slotVars
<1>4. /\ AccountInv' /\ credit <= credit' /\ updated' = now
      /\ credit' \in Int /\ remainder' \in {0, 1}
    BY <1>1, <1>3, RefillKeepsAccount
<1>5. waiting' \in Seq(Clients) /\ headDeadline' \in Nat
  <2>1. CASE Cancel(c)
    <3>1. PICK i \in DOMAIN waiting :
            /\ waiting' = Erase(waiting, i)
            /\ headDeadline' \in {now + HeadLease, headDeadline}
      BY <2>1 DEF Cancel
    <3>2. waiting \in Seq(Clients) /\ now + HeadLease \in Nat /\ headDeadline \in Nat
      BY <1>1 DEF TypeOK
    <3> QED BY <3>1, <3>2, EraseIsTyped
  <2>2. CASE CancelAbsent(c)
    BY <1>1, <2>2 DEF CancelAbsent, queueVars, TypeOK
  <2> QED BY <2>1, <2>2
<1>6. TypeOK'
    BY <1>1, <1>3, <1>4, <1>5 DEF TypeOK, Never
<1>7. SliceInv'
  <2>1. CASE active = NoClient
    BY <1>1, <1>3, <1>4, <2>1, IdleKeepsSlice
  <2>2. CASE active # NoClient
    <3>1. started' <= updated' /\ now' - started' <= MaxSlice
      BY <1>1, <1>3, <1>4, <2>2 DEF TypeOK, AccountInv, SliceInv
    <3>2. credit' >= Admission
      BY <1>1, <1>4, <2>2 DEF TypeOK, SliceInv
    <3> QED BY <1>1, <1>3, <2>2, <3>1, <3>2 DEF SliceInv, Envelope
  <2> QED BY <2>1, <2>2
<1> QED BY <1>4, <1>6, <1>7 DEF IInv

\* Every step keeps the invariant.
LEMMA IInvStep == IInv /\ [Next]_vars => IInv'
<1> SUFFICES ASSUME IInv, [Next]_vars PROVE IInv'
    OBVIOUS
<1> USE DEF IInv, accountVars, slotVars, queueVars, ghostVars
<1>1. CASE Pass
  <2>1. TypeOK'
    BY <1>1 DEF Pass, TypeOK
  <2>2. AccountInv' /\ SliceInv'
    BY <1>1 DEF Pass, TypeOK, AccountInv, SliceInv, Envelope
  <2> QED BY <2>1, <2>2
<1>2. ASSUME NEW c \in Clients, Request(c) PROVE IInv'
    BY <1>2, DeniedKeepsIInv, AdmittedKeepsIInv DEF Request
<1>3. ASSUME NEW c \in Clients, NEW again \in BOOLEAN, Finish(c, again) PROVE IInv'
    BY <1>3, FinishKeepsIInv
<1>4. ASSUME NEW c \in Clients, Cancel(c) \/ CancelAbsent(c) PROVE IInv'
    BY <1>4, CancelKeepsIInv
<1>5. ASSUME NEW c \in Clients, Wake(c) \/ Wander(c) PROVE IInv'
  <2>1. stage' \in [Clients -> {"idle", "asking", "working"}]
    BY <1>5 DEF Wake, Wander, TypeOK
  <2>2. due' \in [Clients -> Nat]
    <3>1. now \in Nat /\ now + Away \in Nat
      BY DEF TypeOK
    <3> QED BY <1>5, <3>1 DEF Wake, Wander, TypeOK
  <2>3. UNCHANGED <<now, accountVars, slotVars, queueVars, ghostVars>>
    BY <1>5 DEF Wake, Wander
  <2>4. TypeOK'
    BY <2>1, <2>2, <2>3 DEF TypeOK
  <2>5. AccountInv' /\ SliceInv'
    BY <2>3 DEF AccountInv, SliceInv, Envelope
  <2> QED BY <2>4, <2>5
<1>6. CASE UNCHANGED vars
    BY <1>6 DEF vars, TypeOK, AccountInv, SliceInv, Envelope
<1> QED BY <1>1, <1>2, <1>3, <1>4, <1>5, <1>6 DEF Next

\* The invariant holds of every behaviour.
THEOREM Invariance == Spec => []IInv
<1>1. IInv /\ [Next]_vars => IInv'
    BY IInvStep
<1> QED BY <1>1, IInvInit, PTL DEF Spec

-----------------------------------------------------------------------------
(* The line                                                                  *)

Distinct(s) == \A i, j \in DOMAIN s : s[i] = s[j] => i = j
Elements(s) == {s[i] : i \in DOMAIN s}

\* a does not stand behind b.
Before(s, a, b) == \A i, j \in DOMAIN s : s[i] = a /\ s[j] = b => i <= j

\* The head leaves: nothing else moves.
LEMMA TailKeepsOrder ==
    ASSUME NEW s \in Seq(Clients), s # <<>>, Distinct(s)
    PROVE  /\ Tail(s) \in Seq(Clients) /\ Distinct(Tail(s))
           /\ Elements(Tail(s)) = Elements(s) \ {Head(s)}
           /\ \A a, b : Before(s, a, b) => Before(Tail(s), a, b)
<1>1. /\ Tail(s) \in Seq(Clients) /\ DOMAIN Tail(s) = 1..(Len(s) - 1)
      /\ DOMAIN s = 1..Len(s) /\ Len(s) \in Nat \ {0} /\ Head(s) = s[1]
      /\ \A i \in 1..(Len(s) - 1) : Tail(s)[i] = s[i + 1]
    OBVIOUS
<1>2. Distinct(Tail(s))
    BY <1>1 DEF Distinct
<1>3. Elements(Tail(s)) \subseteq Elements(s) \ {Head(s)}
    BY <1>1 DEF Distinct, Elements
<1>4. Elements(s) \ {Head(s)} \subseteq Elements(Tail(s))
  <2> SUFFICES ASSUME NEW i \in DOMAIN s, s[i] # Head(s) PROVE s[i] \in Elements(Tail(s))
    BY DEF Elements
  <2>1. i - 1 \in DOMAIN Tail(s) /\ Tail(s)[i - 1] = s[i]
    BY <1>1
  <2> QED BY <2>1 DEF Elements
<1>5. ASSUME NEW a, NEW b, Before(s, a, b) PROVE Before(Tail(s), a, b)
    BY <1>1, <1>5 DEF Before
<1> QED BY <1>1, <1>2, <1>3, <1>4, <1>5

\* Whoever joins stands behind all others.
LEMMA AppendKeepsOrder ==
    ASSUME NEW s \in Seq(Clients), Distinct(s), NEW c \in Clients, c \notin Elements(s)
    PROVE  /\ Append(s, c) \in Seq(Clients) /\ Distinct(Append(s, c))
           /\ Elements(Append(s, c)) = Elements(s) \cup {c}
           /\ \A a, b : a # c /\ Before(s, a, b) => Before(Append(s, c), a, b)
<1>1. /\ Append(s, c) \in Seq(Clients) /\ DOMAIN Append(s, c) = 1..(Len(s) + 1)
      /\ DOMAIN s = 1..Len(s) /\ Len(s) \in Nat
      /\ \A i \in 1..Len(s) : Append(s, c)[i] = s[i]
      /\ Append(s, c)[Len(s) + 1] = c
    OBVIOUS
<1>2. \A i \in DOMAIN s : s[i] # c
    BY DEF Elements
<1>3. Distinct(Append(s, c))
    BY <1>1, <1>2 DEF Distinct
<1>4. Elements(Append(s, c)) = Elements(s) \cup {c}
    BY <1>1 DEF Elements
<1>5. ASSUME NEW a, NEW b, a # c, Before(s, a, b) PROVE Before(Append(s, c), a, b)
    BY <1>1, <1>5 DEF Before
<1> QED BY <1>1, <1>3, <1>4, <1>5

\* One client leaves from wherever it stands.
LEMMA EraseKeepsOrder ==
    ASSUME NEW s \in Seq(Clients), Distinct(s), NEW k \in DOMAIN s
    PROVE  /\ Distinct(Erase(s, k))
           /\ Elements(Erase(s, k)) = Elements(s) \ {s[k]}
           /\ \A a, b : Before(s, a, b) => Before(Erase(s, k), a, b)
           /\ k # 1 /\ Erase(s, k) # <<>> => Head(Erase(s, k)) = Head(s)
           /\ k = 1 /\ Erase(s, k) # <<>> => Len(s) > 1
<1> DEFINE t == Erase(s, k)
           old(i) == IF i < k THEN i ELSE i + 1
<1>1. DOMAIN s = 1..Len(s) /\ Len(s) \in Nat /\ k \in 1..Len(s)
    OBVIOUS
<1>2. /\ DOMAIN t = 1..(Len(s) - 1) /\ Len(t) = Len(s) - 1 /\ t \in Seq(Clients)
      /\ \A i \in 1..(Len(s) - 1) : t[i] = s[old(i)]
  <2> DEFINE l == SubSeq(s, 1, k - 1)
             r == SubSeq(s, k + 1, Len(s))
  <2>1. l \in Seq(Clients) /\ Len(l) = k - 1 /\ \A i \in 1..(k - 1) : l[i] = s[i]
    BY <1>1
  <2>2. /\ r \in Seq(Clients) /\ Len(r) = Len(s) - k
        /\ \A i \in 1..(Len(s) - k) : r[i] = s[k + i]
    <3>1. /\ \A i \in (k + 1)..Len(s) : s[i] \in Clients
          /\ k + 1 \in Int /\ Len(s) \in Int
      BY <1>1
    <3>2. /\ r \in Seq(Clients)
          /\ Len(r) = IF k + 1 <= Len(s) THEN Len(s) - (k + 1) + 1 ELSE 0
          /\ \A i \in 1 .. (Len(s) - (k + 1) + 1) : r[i] = s[(k + 1) + i - 1]
      BY <3>1, SubSeqProperties
    <3> HIDE DEF r
    <3>3. Len(s) - (k + 1) + 1 = Len(s) - k
      BY <1>1
    <3>4. Len(r) = Len(s) - k
      <4>1. CASE k + 1 <= Len(s)
        <5>1. Len(r) = Len(s) - (k + 1) + 1
          BY <3>2, <4>1, Zenon
        <5> QED BY <3>3, <5>1, Zenon
      <4>2. CASE ~(k + 1 <= Len(s))
        <5>1. Len(r) = 0
          BY <3>2, <4>2, Zenon
        <5>2. Len(s) - k = 0
          BY <1>1, <4>2
        <5> QED BY <5>1, <5>2, Zenon
      <4> QED BY <4>1, <4>2
    <3>5. ASSUME NEW i \in 1..(Len(s) - k) PROVE r[i] = s[k + i]
      <4>1. (k + 1) + i - 1 = k + i
        BY <1>1
      <4> QED BY <3>2, <3>3, <4>1
    <3> QED BY <3>2, <3>4, <3>5
  <2>3. t = l \o r
    BY DEF Erase
  <2> HIDE DEF l, r, t
  <2>4. /\ t \in Seq(Clients) /\ Len(t) = Len(s) - 1 /\ DOMAIN t = 1..Len(t)
        /\ \A i \in 1..Len(t) : t[i] = IF i <= Len(l) THEN l[i] ELSE r[i - Len(l)]
    <3>1. /\ t \in Seq(Clients) /\ Len(t) = Len(l) + Len(r)
          /\ \A i \in 1..(Len(l) + Len(r)) : t[i] = IF i <= Len(l) THEN l[i] ELSE r[i - Len(l)]
      <4>1. l \in Seq(Clients) /\ r \in Seq(Clients)
        BY <2>1, <2>2
      <4> QED BY <2>3, <4>1, ConcatProperties, Zenon
    <3>2. Len(l) + Len(r) = Len(s) - 1
      BY <1>1, <2>1, <2>2
    <3>3. DOMAIN t = 1..Len(t)
      BY <3>1, LenProperties
    <3> QED BY <3>1, <3>2, <3>3
  <2>5. ASSUME NEW i \in 1..(Len(s) - 1) PROVE t[i] = s[old(i)]
    <3>1. CASE i < k
      BY <1>1, <2>1, <2>4, <3>1
    <3>2. CASE ~(i < k)
      <4>1. t[i] = r[i - (k - 1)] /\ i - (k - 1) \in 1..(Len(s) - k)
        <5>1. i \in 1..Len(t) /\ ~(i <= Len(l)) /\ Len(l) = k - 1
          BY <1>1, <2>1, <2>4, <3>2
        <5>2. t[i] = r[i - Len(l)]
          BY <2>4, <5>1
        <5>3. i - (k - 1) \in 1..(Len(s) - k)
          BY <1>1, <3>2
        <5> QED BY <5>1, <5>2, <5>3
      <4>2. r[i - (k - 1)] = s[k + (i - (k - 1))] /\ k + (i - (k - 1)) = i + 1
        BY <1>1, <2>2, <4>1
      <4> QED BY <3>2, <4>1, <4>2
    <3> QED BY <3>1, <3>2
  <2> QED BY <2>4, <2>5
<1>3. /\ \A i \in DOMAIN t : old(i) \in DOMAIN s \ {k}
      /\ \A i, j \in DOMAIN t : (old(i) = old(j) => i = j) /\ (old(i) <= old(j) => i <= j)
      /\ \A i \in DOMAIN s \ {k} : \E j \in DOMAIN t : old(j) = i
  <2>1. ASSUME NEW i \in DOMAIN s \ {k} PROVE \E j \in DOMAIN t : old(j) = i
    <3>1. CASE i < k
      <4>1. i \in DOMAIN t /\ old(i) = i
        BY <1>1, <1>2, <3>1
      <4> QED BY <4>1
    <3>2. CASE i > k
      <4>1. i - 1 \in DOMAIN t /\ old(i - 1) = i
        BY <1>1, <1>2, <3>2
      <4> QED BY <4>1
    <3> QED BY <1>1, <3>1, <3>2
  <2>2. ASSUME NEW i \in DOMAIN t PROVE old(i) \in DOMAIN s \ {k} /\ i \in Int
    BY <1>1, <1>2 DEF old
  <2>3. ASSUME NEW i \in DOMAIN t, NEW j \in DOMAIN t
        PROVE  (old(i) = old(j) => i = j) /\ (old(i) <= old(j) => i <= j)
    <3>1. i \in Int /\ j \in Int /\ k \in Int
      BY <1>1, <1>2
    <3> QED BY <3>1 DEF old
  <2> QED BY <2>1, <2>2, <2>3
<1>4. \A i \in DOMAIN t : t[i] = s[old(i)]
    BY <1>2
<1>5. k # 1 /\ t # <<>> => Head(t) = Head(s)
  <2> SUFFICES ASSUME k # 1, t # <<>> PROVE Head(t) = Head(s)
    OBVIOUS
  <2>1. 1 \in DOMAIN t /\ old(1) = 1 /\ Head(t) = t[1] /\ Head(s) = s[1]
    BY <1>1, <1>2
  <2> QED BY <1>4, <2>1
<1>6. k = 1 /\ t # <<>> => Len(s) > 1
  <2>1. t # <<>> => Len(t) # 0
    BY <1>2, EmptySeq
  <2> QED BY <1>1, <1>2, <2>1
<1> HIDE DEF t, old
<1>7. Distinct(t)
    BY <1>3, <1>4 DEF Distinct
<1>8. Elements(t) = Elements(s) \ {s[k]}
  <2>1. Elements(t) \subseteq Elements(s) \ {s[k]}
    BY <1>3, <1>4 DEF Distinct, Elements
  <2>2. Elements(s) \ {s[k]} \subseteq Elements(t)
    BY <1>3, <1>4 DEF Elements
  <2> QED BY <2>1, <2>2
<1>9. ASSUME NEW a, NEW b, Before(s, a, b) PROVE Before(t, a, b)
    BY <1>3, <1>4, <1>9 DEF Before
<1> QED BY <1>5, <1>6, <1>7, <1>8, <1>9 DEF t

-----------------------------------------------------------------------------
(* Turns                                                                     *)

\* The head asks again before its lease ends; who stands behind it would, if
\* the lease of a new head began now.
TurnInv ==
    \A c \in Punctual : c \in Waiting =>
        /\ active = NoClient /\ Head(waiting) = c =>
              now < headDeadline /\ due[c] + MaxLate < headDeadline
        /\ active # NoClient \/ Head(waiting) # c =>
              due[c] + MaxLate < now + HeadLease

\* A punctual client that has asked stands in line, and whoever was admitted
\* since stands behind it.
OrderInv ==
    \A c \in Punctual :
        /\ c \in asked => c \in Waiting
        /\ c \notin asked => overtaken[c] = Never
        /\ \A d \in Clients : overtaken[c][d] # 0 =>
              overtaken[c][d] = 1 /\ Before(waiting, c, d)

LineInv == QueueHonest /\ TurnInv /\ OrderInv

\* The clients that count as punctual ask again within a lease.
LEMMA PunctualRetries ==
    ASSUME NEW c \in Punctual
    PROVE  /\ c \in Clients
           /\ PollDelay + MaxLate < HeadLease /\ Floor[c] + MaxLate < HeadLease
           /\ Floor[c] \in Nat
    BY DEF Punctual

\* The line as sets and orders.
LEMMA WaitingIsDistinct ==
    ASSUME TypeOK, QueueHonest
    PROVE  /\ waiting \in Seq(Clients) /\ Distinct(waiting) /\ Elements(waiting) = Waiting
           /\ Waiting \subseteq Clients
           /\ waiting # <<>> => Head(waiting) \in Waiting
<1>1. waiting \in Seq(Clients)
    BY DEF TypeOK
<1>2. Distinct(waiting) /\ Elements(waiting) = Waiting
    BY DEF QueueHonest, Distinct, Elements, Waiting
<1>3. Waiting \subseteq Clients
    BY <1>1 DEF Waiting
<1>4. waiting # <<>> => Head(waiting) \in Waiting
    BY <1>1, EmptySeq DEF Waiting
<1> QED BY <1>1, <1>2, <1>3, <1>4

\* What pruning leaves.
LEMMA LineIsOrdered ==
    ASSUME TypeOK, QueueHonest
    PROVE  /\ Line \in Seq(Clients) /\ Distinct(Line)
           /\ HeadExpired => Elements(Line) = Waiting \ {Head(waiting)}
           /\ ~HeadExpired => Line = waiting
           /\ Elements(Line) \subseteq Waiting
           /\ \A a, b : Before(waiting, a, b) => Before(Line, a, b)
<1>1. CASE HeadExpired
  <2>1. Line = Tail(waiting) /\ waiting # <<>>
    BY <1>1 DEF Line, HeadExpired
  <2> QED BY <1>1, <2>1, WaitingIsDistinct, TailKeepsOrder
<1>2. CASE ~HeadExpired
  <2>1. Line = waiting
    BY <1>2 DEF Line
  <2> QED BY <1>2, <2>1, WaitingIsDistinct
<1> QED BY <1>1, <1>2

\* What a request adds to it.
LEMMA JoinedIsOrdered ==
    ASSUME TypeOK, QueueHonest, NEW c \in Clients
    PROVE  /\ Joined(c) \in Seq(Clients) /\ Distinct(Joined(c))
           /\ Elements(Line) \subseteq Elements(Joined(c))
           /\ Elements(Joined(c)) \subseteq Elements(Line) \cup {c}
           /\ InLine(c) \/ Len(Line) < MaxWaiting => c \in Elements(Joined(c))
           /\ Line # <<>> => Head(Joined(c)) = Head(Line)
           /\ \A a, b : a \in Elements(Line) /\ Before(waiting, a, b) => Before(Joined(c), a, b)
<1>1. InLine(c) <=> c \in Elements(Line)
    BY DEF InLine, Elements
<1>2. /\ Line \in Seq(Clients) /\ Distinct(Line)
      /\ \A a, b : Before(waiting, a, b) => Before(Line, a, b)
    BY LineIsOrdered
<1>3. CASE InLine(c) \/ Len(Line) = MaxWaiting
  <2>1. Joined(c) = Line
    BY <1>3 DEF Joined
  <2>2. InLine(c) \/ Len(Line) < MaxWaiting => InLine(c)
    BY <1>2, <1>3
  <2> QED BY <1>1, <1>2, <2>1, <2>2
<1>4. CASE ~InLine(c) /\ Len(Line) # MaxWaiting
  <2>1. Joined(c) = Append(Line, c) /\ c \notin Elements(Line)
    BY <1>1, <1>4 DEF Joined
  <2>2. /\ Joined(c) \in Seq(Clients) /\ Distinct(Joined(c))
        /\ Elements(Joined(c)) = Elements(Line) \cup {c}
        /\ \A a, b : a # c /\ Before(Line, a, b) => Before(Joined(c), a, b)
    BY <1>2, <2>1, AppendKeepsOrder
  <2>3. Line # <<>> => Head(Joined(c)) = Head(Line)
    BY <1>2, <2>1
  <2> QED BY <1>2, <2>1, <2>2, <2>3
<1> QED BY <1>3, <1>4

\* A punctual client in line is never pruned.
LEMMA PunctualStay ==
    ASSUME TypeOK, LineInv, active = NoClient, NEW c \in Punctual, c \in Waiting
    PROVE  /\ c \in Elements(Line)
           /\ HeadExpired => Head(waiting) # c
<1>1. HeadExpired => Head(waiting) # c
    BY DEF LineInv, TurnInv, HeadExpired, TypeOK
<1> QED BY <1>1, LineIsOrdered, WaitingIsDistinct DEF LineInv

\* Who comes to the head without asking has a lease of its own.
LEMMA LeaseIsFresh ==
    ASSUME TypeOK, LineInv, active = NoClient, NEW c \in Clients, NEW d \in Punctual,
           d \in Waiting, d # c \/ d \in Elements(Line), Head(Joined(c)) = d
    PROVE  now < Leased(c) /\ due[d] + MaxLate < Leased(c)
<1>1. d \in Elements(Line) /\ (HeadExpired => Head(waiting) # d)
    BY PunctualStay
<1>2. Line # <<>> /\ Head(Line) = d
  <2>1. Line \in Seq(Clients) /\ DOMAIN Line = 1..Len(Line)
    BY LineIsOrdered DEF LineInv
  <2>2. Line # <<>>
    BY <1>1, <2>1 DEF Elements
  <2> QED BY <2>2, JoinedIsOrdered DEF LineInv
<1>3. now \in Nat /\ HeadLease \in Nat \ {0} /\ headDeadline \in Nat /\ due[d] \in Nat
  <2>1. d \in Clients
    BY DEF Punctual
  <2> QED BY <2>1 DEF TypeOK
<1>4. CASE HeadExpired
  <2>1. due[d] + MaxLate < now + HeadLease
    BY <1>1, <1>4 DEF LineInv, TurnInv
  <2>2. Leased(c) = now + HeadLease
    BY <1>4 DEF Leased
  <2> QED BY <1>3, <2>1, <2>2
<1>5. CASE ~HeadExpired
  <2>1. Line = waiting
    BY <1>5 DEF Line
  <2>2. now < headDeadline /\ due[d] + MaxLate < headDeadline
    BY <1>2, <2>1 DEF LineInv, TurnInv
  <2>3. Leased(c) = headDeadline
    BY <1>2, <1>5 DEF Leased
  <2> QED BY <2>2, <2>3
<1> QED BY <1>4, <1>5

\* A request leaves each punctual client in time for the head's lease, whether
\* it is at the head or not.
LEMMA RequestKeepsTime ==
    ASSUME TypeOK, LineInv, active = NoClient, NEW c \in Clients,
           NEW d \in Punctual, d \in Waiting
    PROVE  /\ Head(Joined(c)) = d => now < Leased(c) /\ due[d] + MaxLate < Leased(c)
           /\ Head(Joined(c)) # d => due[d] + MaxLate < now + HeadLease
<1>1. d \in Elements(Line) /\ (HeadExpired => Head(waiting) # d)
    BY PunctualStay
<1>2. Head(Joined(c)) = d => now < Leased(c) /\ due[d] + MaxLate < Leased(c)
    BY <1>1, LeaseIsFresh
<1>3. ASSUME Head(Joined(c)) # d PROVE Head(waiting) # d
  <2>1. CASE HeadExpired
    BY <1>1, <2>1
  <2>2. CASE ~HeadExpired
    <3>1. Line = waiting /\ QueueHonest
      BY <2>2 DEF Line, LineInv
    <3>2. waiting # <<>>
      BY DEF Waiting
    <3> QED BY <1>3, <3>1, <3>2, JoinedIsOrdered
  <2> QED BY <2>1, <2>2
<1> QED BY <1>2, <1>3 DEF LineInv, TurnInv

\* An honest line, from what it contains.
LEMMA HonestFromLine ==
    ASSUME Distinct(waiting)',
           \A d \in Elements(waiting)' : stage'[d] = "asking" /\ d # active'
    PROVE  QueueHonest'
    BY DEF QueueHonest, Distinct, Elements, Waiting

\* Two names for who stands in line.
LEMMA WaitingIsElements == Waiting = Elements(waiting)
    BY DEF Waiting, Elements

\* What the property of the turns says of one step.
Kept ==
    \A c \in Punctual : c \in Waiting /\ c \notin Waiting' =>
        active' = c \/ stage'[c] = "idle"

\* A denied request: nobody loses its place, whoever was late is dropped.
LEMMA DeniedKeepsLine ==
    ASSUME IInv, LineInv, NEW c \in Clients,
           RequestRefused(c) \/ RequestQueued(c) \/ RequestOwing(c)
    PROVE  LineInv' /\ Kept
<1>1. /\ active = NoClient /\ active' = active /\ now' = now
      /\ stage' = stage /\ stage[c] = "asking" /\ overtaken' = overtaken
    BY DEF RequestRefused, RequestQueued, RequestOwing, TurnOf, slotVars, ghostVars
<1>2. /\ TypeOK /\ QueueHonest /\ TurnInv /\ OrderInv
      /\ now \in Nat /\ due \in [Clients -> Nat] /\ headDeadline \in Nat
    BY DEF LineInv, IInv, TypeOK
<1>3. c # NoClient
    OBVIOUS
<1>4. /\ Distinct(waiting')
      /\ Elements(Line) \subseteq Elements(waiting')
      /\ Elements(waiting') \subseteq Elements(Line) \cup {c}
      /\ \A a, b : a \in Elements(Line) /\ Before(waiting, a, b) => Before(waiting', a, b)
      /\ waiting' = Joined(c)
  <2>1. waiting' = Joined(c)
    <3>1. CASE RequestRefused(c)
      BY <3>1 DEF RequestRefused, Joined
    <3>2. CASE RequestQueued(c) \/ RequestOwing(c)
      BY <3>2 DEF RequestQueued, RequestOwing
    <3> QED BY <3>1, <3>2
  <2> QED BY <1>2, <2>1, JoinedIsOrdered
<1>5. /\ asked' \subseteq asked \cup {c}
      /\ asked \subseteq asked'
      /\ c \in asked' => c \in asked \/ c \in Elements(waiting')
  <2>1. CASE RequestRefused(c)
    BY <2>1 DEF RequestRefused, ghostVars
  <2>2. CASE RequestQueued(c)
    <3>1. c \in Elements(Joined(c))
      BY <1>2, <2>2, JoinedIsOrdered DEF RequestQueued
    <3> QED BY <1>4, <2>2, <3>1 DEF RequestQueued, Ask
  <2>3. CASE RequestOwing(c)
    <3>1. c \in Elements(Joined(c))
      <4>1. Joined(c) \in Seq(Clients) /\ Joined(c) # <<>> /\ Head(Joined(c)) = c
        BY <1>2, <2>3, JoinedIsOrdered DEF RequestOwing
      <4> QED BY <4>1, EmptySeq DEF Elements
    <3> QED BY <1>4, <2>3, <3>1 DEF RequestOwing, Ask
  <2> QED BY <2>1, <2>2, <2>3
<1>6. QueueHonest'
  <2>1. \A d \in Elements(waiting') : stage[d] = "asking" /\ d # active
    <3>1. Elements(Line) \subseteq Waiting
      BY <1>2, LineIsOrdered
    <3> QED BY <1>1, <1>2, <1>3, <1>4, <3>1 DEF QueueHonest
  <2> QED BY <1>1, <1>4, <2>1, HonestFromLine
<1>7. TurnInv'
  <2> SUFFICES ASSUME NEW d \in Punctual, d \in Elements(waiting')
               PROVE  /\ Head(waiting') = d =>
                            now < headDeadline' /\ due'[d] + MaxLate < headDeadline'
                      /\ Head(waiting') # d => due'[d] + MaxLate < now + HeadLease
    BY <1>1, WaitingIsElements DEF TurnInv, Waiting, Elements
  <2>1. CASE d # c
    <3>1. d \in Waiting /\ due'[d] = due[d]
      <4>1. Elements(Line) \subseteq Waiting
        BY <1>2, LineIsOrdered
      <4> QED BY <1>2, <1>4, <2>1, <4>1, PunctualRetries
              DEF RequestRefused, RequestQueued, RequestOwing, RetryAfter
    <3>2. Head(waiting') = d => headDeadline' = Leased(c)
      BY <1>4, <2>1 DEF RequestRefused, RequestQueued, RequestOwing
    <3> QED BY <1>1, <1>2, <1>4, <3>1, <3>2, RequestKeepsTime
  <2>2. CASE d = c
    <3> DEFINE after(delay) == now + (IF delay > Floor[c] THEN delay ELSE Floor[c])
    <3>1. CASE RequestRefused(c)
      <4>1. c \notin Elements(Line)
        BY <3>1 DEF RequestRefused, InLine, Elements
      <4> QED BY <2>2, <3>1, <4>1 DEF RequestRefused
    <3>2. CASE RequestQueued(c)
      <4>1. due'[c] = after(PollDelay) /\ Head(waiting') # c
        BY <1>2, <3>2 DEF RequestQueued, RetryAfter
      <4>2. after(PollDelay) + MaxLate < now + HeadLease
        BY <1>2, <2>2, PunctualRetries
      <4> QED BY <2>2, <4>1, <4>2
    <3>3. CASE RequestOwing(c)
      <4> DEFINE delay == 2 * (Admission - Credited.credit)
      <4>1. /\ due'[c] = after(delay) /\ Head(waiting') = c
            /\ headDeadline' = now + delay + HeadLease
        BY <1>2, <3>3 DEF RequestOwing, RetryAfter
      <4>2. delay \in Nat
        <5>1. Credited.credit \in Int /\ Credited.credit < Admission
          <6>1. credit' \in Int
            BY <1>1, <3>3, RefillKeepsAccount DEF RequestOwing, IInv, slotVars
          <6> QED BY <3>3, <6>1 DEF RequestOwing, Refill
        <5> QED BY <5>1, GapIsNat
      <4> HIDE DEF delay
      <4>3. after(delay) + MaxLate < now + delay + HeadLease
        BY <1>2, <2>2, <4>2, PunctualRetries
      <4>4. now < now + delay + HeadLease
        BY <1>2, <4>2
      <4> QED BY <2>2, <4>1, <4>3, <4>4
    <3> QED BY <3>1, <3>2, <3>3
  <2> QED BY <2>1, <2>2
<1>8. OrderInv'
  <2> SUFFICES ASSUME NEW d \in Punctual
               PROVE  /\ d \in asked' => d \in Elements(waiting')
                      /\ d \notin asked' => overtaken[d] = Never
                      /\ \A e \in Clients : overtaken[d][e] # 0 =>
                            overtaken[d][e] = 1 /\ Before(waiting', d, e)
    BY <1>1, WaitingIsElements DEF OrderInv, Waiting, Elements, Before
  <2>1. CASE d \in asked
    <3>1. d \in Elements(Line)
      BY <1>1, <1>2, <2>1, PunctualStay DEF OrderInv
    <3> QED BY <1>2, <1>4, <1>5, <2>1, <3>1 DEF OrderInv
  <2>2. CASE d \notin asked
    <3>1. overtaken[d] = Never
      BY <1>2, <2>2 DEF OrderInv
    <3> QED BY <1>5, <2>2, <3>1 DEF Never
  <2> QED BY <2>1, <2>2
<1>9. Kept
  <2> SUFFICES ASSUME NEW d \in Punctual, d \in Waiting PROVE d \in Elements(waiting')
    BY WaitingIsElements DEF Kept, Waiting, Elements
  <2> QED BY <1>1, <1>2, <1>4, PunctualStay
<1> QED BY <1>6, <1>7, <1>8, <1>9 DEF LineInv

\* An admission takes the head out of the line and counts for all that wait.
LEMMA AdmittedKeepsLine ==
    ASSUME IInv, LineInv, NEW c \in Clients, RequestAdmitted(c)
    PROVE  LineInv' /\ Kept
<1>1. /\ active = NoClient /\ active' = c /\ now' = now
      /\ stage' = [stage EXCEPT ![c] = "working"] /\ due' = [due EXCEPT ![c] = 0]
      /\ asked' = asked \ {c}
      /\ Joined(c) # <<>> /\ Head(Joined(c)) = c /\ waiting' = Tail(Joined(c))
    BY DEF RequestAdmitted, TurnOf
<1>2. /\ TypeOK /\ QueueHonest /\ TurnInv /\ OrderInv
      /\ now \in Nat /\ due \in [Clients -> Nat]
      /\ stage \in [Clients -> {"idle", "asking", "working"}]
      /\ overtaken \in [Clients -> [Clients -> 0..2]]
    BY DEF LineInv, IInv, TypeOK
<1>3. c # NoClient
    OBVIOUS
<1>4. /\ Joined(c) \in Seq(Clients) /\ Distinct(Joined(c))
      /\ Elements(Line) \subseteq Elements(Joined(c))
      /\ Elements(Joined(c)) \subseteq Elements(Line) \cup {c}
      /\ \A a, b : a \in Elements(Line) /\ Before(waiting, a, b) => Before(Joined(c), a, b)
      /\ Elements(Line) \subseteq Waiting
    BY <1>2, JoinedIsOrdered, LineIsOrdered
<1>5. /\ Distinct(waiting')
      /\ Elements(waiting') = Elements(Joined(c)) \ {c}
      /\ \A a, b : a \in Elements(Line) /\ Before(waiting, a, b) => Before(waiting', a, b)
    BY <1>1, <1>4, TailKeepsOrder
<1>6. QueueHonest'
  <2>1. \A d \in Elements(waiting') : stage'[d] = "asking" /\ d # c
    <3>1. Waiting \subseteq Clients
      BY <1>2, WaitingIsDistinct
    <3> QED BY <1>1, <1>2, <1>4, <1>5, <3>1 DEF QueueHonest
  <2> QED BY <1>1, <1>5, <2>1, HonestFromLine
<1>7. TurnInv'
  <2> SUFFICES ASSUME NEW d \in Punctual, d \in Elements(waiting')
               PROVE  due'[d] + MaxLate < now + HeadLease
    BY <1>1, <1>3, WaitingIsElements DEF TurnInv, Waiting, Elements
  <2>1. d \in Waiting /\ d # c /\ due'[d] = due[d]
    BY <1>1, <1>2, <1>4, <1>5, PunctualRetries
  <2> QED BY <1>1, <1>2, <2>1, RequestKeepsTime
<1>8. OrderInv'
  <2> SUFFICES ASSUME NEW d \in Punctual
               PROVE  /\ d \in asked' => d \in Elements(waiting')
                      /\ d \notin asked' => overtaken'[d] = Never
                      /\ \A e \in Clients : overtaken'[d][e] # 0 =>
                            overtaken'[d][e] = 1 /\ Before(waiting', d, e)
    BY WaitingIsElements DEF OrderInv, Waiting, Elements, Before
  <2>1. d \in Clients
    BY PunctualRetries
  <2>2. CASE d = c
    <3>1. overtaken'[d] = Never
      BY <2>1, <2>2 DEF RequestAdmitted
    <3> QED BY <1>1, <2>2, <3>1 DEF Never
  <2>3. CASE d # c /\ d \notin asked
    <3>1. overtaken'[d] = overtaken[d]
      BY <2>1, <2>3 DEF RequestAdmitted
    <3>2. overtaken[d] = Never
      BY <1>2, <2>3 DEF OrderInv
    <3> QED BY <1>1, <2>3, <3>1, <3>2 DEF Never
  <2>4. CASE d # c /\ d \in asked
    <3>1. d \in Waiting /\ d \in Elements(Line)
      BY <1>1, <1>2, <2>4, PunctualStay DEF OrderInv
    <3>2. overtaken[d][c] = 0
      <4> SUFFICES ASSUME overtaken[d][c] # 0 PROVE FALSE
        OBVIOUS
      <4>1. Before(Joined(c), d, c)
        BY <1>2, <1>4, <3>1 DEF OrderInv
      <4>2. PICK i \in DOMAIN Joined(c) : Joined(c)[i] = d
        BY <1>4, <3>1 DEF Elements
      <4>3. 1 \in DOMAIN Joined(c) /\ Joined(c)[1] = c /\ i \in Nat /\ i >= 1
        BY <1>1, <1>4
      <4>4. i <= 1
        BY <4>1, <4>2, <4>3 DEF Before
      <4> QED BY <2>4, <4>2, <4>3, <4>4
    <3>3. /\ overtaken'[d] = [overtaken[d] EXCEPT ![c] = @ + 1]
          /\ overtaken[d] \in [Clients -> 0..2]
      <4>1. overtaken' = [b \in Clients |->
                IF b = c THEN Never
                ELSE IF b \in asked /\ overtaken[b][c] < 2
                THEN [overtaken[b] EXCEPT ![c] = @ + 1] ELSE overtaken[b]]
        BY DEF RequestAdmitted
      <4>2. overtaken[d] \in [Clients -> 0..2]
        BY <1>2, <2>1
      <4>3. overtaken[d][c] < 2
        BY <3>2
      <4> QED BY <2>1, <2>4, <4>1, <4>2, <4>3
    <3>4. ASSUME NEW e \in Clients, overtaken'[d][e] # 0
          PROVE  overtaken'[d][e] = 1 /\ Before(waiting', d, e)
      <4>1. CASE e = c
        <5>1. c \notin Elements(waiting')
          BY <1>5
        <5>2. Before(waiting', d, c)
          BY <5>1 DEF Before, Elements
        <5> QED BY <3>2, <3>3, <4>1, <5>2
      <4>2. CASE e # c
        <5>1. overtaken[d][e] # 0 /\ overtaken'[d][e] = overtaken[d][e]
          BY <3>3, <3>4, <4>2
        <5>2. overtaken[d][e] = 1 /\ Before(waiting, d, e)
          BY <1>2, <5>1 DEF OrderInv
        <5> QED BY <1>5, <3>1, <5>1, <5>2
      <4> QED BY <4>1, <4>2
    <3> QED BY <1>1, <1>4, <1>5, <2>4, <3>1, <3>4
  <2> QED BY <2>2, <2>3, <2>4
<1>9. Kept
  <2> SUFFICES ASSUME NEW d \in Punctual, d \in Waiting, d # c PROVE d \in Elements(waiting')
    BY <1>1, WaitingIsElements DEF Kept, Waiting, Elements
  <2> QED BY <1>1, <1>2, <1>4, <1>5, PunctualStay
<1> QED BY <1>6, <1>7, <1>8, <1>9 DEF LineInv

\* When a slice ends, the head's lease begins anew.
LEMMA FinishKeepsLine ==
    ASSUME IInv, LineInv, NEW c \in Clients, NEW again \in BOOLEAN, Finish(c, again)
    PROVE  LineInv' /\ Kept
<1>1. /\ active = c /\ active' = NoClient /\ now' = now /\ waiting' = waiting
      /\ asked' = asked /\ overtaken' = overtaken
      /\ \A d \in Clients : d # c => stage'[d] = stage[d] /\ due'[d] = due[d]
      /\ waiting # <<>> => headDeadline' = now + HeadLease
    BY DEF Finish, ghostVars, IInv, TypeOK
<1>2. /\ QueueHonest /\ TurnInv /\ OrderInv /\ now \in Nat
      /\ c \notin Waiting /\ Waiting \subseteq Clients /\ c # NoClient
      /\ Waiting' = Waiting
    BY <1>1, WaitingIsDistinct DEF LineInv, IInv, TypeOK, QueueHonest, Waiting
<1>3. QueueHonest'
    BY <1>1, <1>2 DEF QueueHonest
<1>4. TurnInv'
  <2> SUFFICES ASSUME NEW d \in Punctual, d \in Waiting
               PROVE  /\ now < headDeadline' /\ due'[d] + MaxLate < headDeadline'
                      /\ due'[d] + MaxLate < now + HeadLease
    BY <1>1, <1>2 DEF TurnInv
  <2>1. waiting # <<>>
    BY DEF Waiting
  <2>2. due'[d] = due[d] /\ due[d] + MaxLate < now + HeadLease
    BY <1>1, <1>2 DEF TurnInv
  <2> QED BY <1>1, <1>2, <2>1, <2>2
<1>5. OrderInv' /\ Kept
    BY <1>1, <1>2 DEF OrderInv, Before, Kept
<1> QED BY <1>3, <1>4, <1>5 DEF LineInv

\* Giving up frees one place.
LEMMA CancelKeepsLine ==
    ASSUME IInv, LineInv, NEW c \in Clients, Cancel(c) \/ CancelAbsent(c)
    PROVE  LineInv' /\ Kept
<1>1. /\ active' = active /\ now' = now /\ asked' = asked \ {c}
      /\ stage' = [stage EXCEPT ![c] = "idle"] /\ due' = [due EXCEPT ![c] = 0]
      /\ overtaken' = [overtaken EXCEPT ![c] = Never]
    BY DEF Cancel, CancelAbsent, GiveUp, slotVars
<1>2. /\ TypeOK /\ QueueHonest /\ TurnInv /\ OrderInv
      /\ now \in Nat /\ headDeadline \in Nat
      /\ stage \in [Clients -> {"idle", "asking", "working"}] /\ due \in [Clients -> Nat]
      /\ overtaken \in [Clients -> [Clients -> 0..2]]
      /\ waiting \in Seq(Clients) /\ Distinct(waiting) /\ Waiting = Elements(waiting)
      /\ Waiting \subseteq Clients
    BY WaitingIsDistinct DEF LineInv, IInv, TypeOK
<1>3. /\ Distinct(waiting') /\ Elements(waiting') = Waiting \ {c}
      /\ \A a, b : Before(waiting, a, b) => Before(waiting', a, b)
      /\ \/ waiting' = waiting /\ headDeadline' = headDeadline
         \/ waiting' # <<>> =>
               \/ Head(waiting) = c /\ headDeadline' = now + HeadLease
               \/ Head(waiting') = Head(waiting) /\ headDeadline' = headDeadline
  <2>1. CASE CancelAbsent(c)
    <3>1. c \notin Waiting /\ waiting' = waiting /\ headDeadline' = headDeadline
      BY <2>1 DEF CancelAbsent, queueVars
    <3> QED BY <1>2, <3>1
  <2>2. CASE Cancel(c)
    <3>1. PICK i \in DOMAIN waiting :
            /\ waiting[i] = c /\ waiting' = Erase(waiting, i)
            /\ headDeadline' = IF i = 1 /\ Len(waiting) > 1 THEN now + HeadLease
                               ELSE headDeadline
      BY <2>2 DEF Cancel
    <3>2. /\ Distinct(waiting') /\ Elements(waiting') = Waiting \ {c}
          /\ \A a, b : Before(waiting, a, b) => Before(waiting', a, b)
          /\ i # 1 /\ waiting' # <<>> => Head(waiting') = Head(waiting)
          /\ i = 1 /\ waiting' # <<>> => Len(waiting) > 1
      BY <1>2, <3>1, EraseKeepsOrder
    <3>3. i = 1 => Head(waiting) = c
      BY <1>2, <3>1
    <3> QED BY <3>1, <3>2, <3>3
  <2> QED BY <2>1, <2>2
<1>4. QueueHonest'
  <2>1. \A d \in Elements(waiting') : stage'[d] = "asking" /\ d # active'
    BY <1>1, <1>2, <1>3 DEF QueueHonest
  <2> QED BY <1>3, <2>1, HonestFromLine
<1>5. TurnInv'
  <2> SUFFICES ASSUME NEW d \in Punctual, d \in Elements(waiting')
               PROVE  /\ active = NoClient /\ Head(waiting') = d =>
                            now < headDeadline' /\ due'[d] + MaxLate < headDeadline'
                      /\ active # NoClient \/ Head(waiting') # d =>
                            due'[d] + MaxLate < now + HeadLease
    BY <1>1, WaitingIsElements DEF TurnInv, Waiting, Elements
  <2>1. d \in Waiting /\ d # c /\ due'[d] = due[d] /\ waiting' # <<>>
    <3>1. d \in Waiting /\ d # c
      BY <1>3
    <3>2. waiting' # <<>>
      BY DEF Elements
    <3> QED BY <1>1, <1>2, <3>1, <3>2
  <2>2. /\ active = NoClient /\ Head(waiting) = d =>
              now < headDeadline /\ due[d] + MaxLate < headDeadline
        /\ active # NoClient \/ Head(waiting) # d => due[d] + MaxLate < now + HeadLease
    BY <1>2, <2>1 DEF TurnInv
  <2>3. CASE waiting' = waiting /\ headDeadline' = headDeadline
    BY <2>1, <2>2, <2>3
  <2>4. CASE Head(waiting) = c /\ headDeadline' = now + HeadLease
    BY <1>2, <2>1, <2>2, <2>4
  <2>5. CASE Head(waiting') = Head(waiting) /\ headDeadline' = headDeadline
    BY <2>1, <2>2, <2>5
  <2> QED BY <1>3, <2>1, <2>3, <2>4, <2>5
<1>6. OrderInv'
  <2> SUFFICES ASSUME NEW d \in Punctual
               PROVE  /\ d \in asked' => d \in Elements(waiting')
                      /\ d \notin asked' => overtaken'[d] = Never
                      /\ \A e \in Clients : overtaken'[d][e] # 0 =>
                            overtaken'[d][e] = 1 /\ Before(waiting', d, e)
    BY WaitingIsElements DEF OrderInv, Waiting, Elements, Before
  <2>1. CASE d = c
    <3>1. overtaken'[d] = Never
      BY <1>1, <1>2, <2>1
    <3> QED BY <1>1, <2>1, <3>1 DEF Never
  <2>2. CASE d # c
    <3>1. overtaken'[d] = overtaken[d]
      BY <1>1, <1>2, <2>2, PunctualRetries
    <3> QED BY <1>1, <1>2, <1>3, <2>2, <3>1 DEF OrderInv
  <2> QED BY <2>1, <2>2
<1>7. Kept
  <2> SUFFICES ASSUME NEW d \in Punctual, d \in Waiting, stage'[d] # "idle"
               PROVE  d \in Elements(waiting')
    BY WaitingIsElements DEF Kept, Waiting, Elements
  <2>1. d # c
    BY <1>1, <1>2
  <2> QED BY <1>3, <2>1
<1> QED BY <1>4, <1>5, <1>6, <1>7 DEF LineInv

\* Time passes only while no turn is overdue; other turns leave the line alone.
LEMMA OthersKeepLine ==
    ASSUME IInv, LineInv, NEW c,
           \/ Pass
           \/ c \in Clients /\ (Wake(c) \/ Wander(c))
           \/ UNCHANGED vars
    PROVE  LineInv' /\ Kept
<1>1. /\ active' = active /\ waiting' = waiting /\ headDeadline' = headDeadline
      /\ asked' = asked /\ overtaken' = overtaken
      /\ now \in Nat /\ headDeadline \in Nat /\ due \in [Clients -> Nat]
      /\ stage \in [Clients -> {"idle", "asking", "working"}]
    BY DEF Pass, Wake, Wander, vars, slotVars, queueVars, ghostVars, IInv, TypeOK
<1>2. /\ QueueHonest /\ TurnInv /\ OrderInv /\ Waiting \subseteq Clients
      /\ Waiting' = Waiting
    BY <1>1, WaitingIsDistinct DEF LineInv, IInv, Waiting
<1>3. \A d \in Waiting : stage'[d] = "asking"
    BY <1>1, <1>2 DEF Pass, Wake, Wander, vars, QueueHonest
<1>4. QueueHonest'
    BY <1>1, <1>2, <1>3 DEF QueueHonest
<1>5. OrderInv' /\ Kept
    BY <1>1, <1>2 DEF OrderInv, Before, Kept
<1>6. TurnInv'
  <2> SUFFICES ASSUME NEW d \in Punctual, d \in Waiting
               PROVE  /\ active = NoClient /\ Head(waiting) = d =>
                            now' < headDeadline /\ due'[d] + MaxLate < headDeadline
                      /\ active # NoClient \/ Head(waiting) # d =>
                            due'[d] + MaxLate < now' + HeadLease
    BY <1>1, <1>2 DEF TurnInv
  <2>1. d \in Clients /\ d \notin Wanderers /\ due[d] \in Nat
    BY <1>1 DEF Punctual
  <2>2. due'[d] = due[d]
    BY <1>1, <1>2, <2>1 DEF Pass, Wake, Wander, vars, QueueHonest
  <2>3. CASE Pass
    <3>1. now' = now + 1 /\ (active = NoClient => now < due[d] + MaxLate)
      BY <1>2, <2>1, <2>3 DEF Pass, QueueHonest
    <3> QED BY <1>1, <1>2, <2>1, <2>2, <3>1 DEF TurnInv
  <2>4. CASE now' = now
    BY <1>1, <1>2, <2>2, <2>4 DEF TurnInv
  <2> QED BY <2>3, <2>4 DEF Wake, Wander, vars
<1> QED BY <1>4, <1>5, <1>6 DEF LineInv

\* Nobody stands in line at the start.
LEMMA LineInvInit == Init => LineInv
    BY DEF Init, LineInv, QueueHonest, TurnInv, OrderInv, Waiting, Never, Punctual

\* Every step keeps the line and each punctual client's turn.
LEMMA LineInvStep == IInv /\ LineInv /\ [Next]_vars => LineInv' /\ Kept
<1> SUFFICES ASSUME IInv, LineInv, [Next]_vars PROVE LineInv' /\ Kept
    OBVIOUS
<1>1. CASE Pass \/ UNCHANGED vars
    BY <1>1, OthersKeepLine
<1>2. ASSUME NEW c \in Clients, Request(c) PROVE LineInv' /\ Kept
    BY <1>2, DeniedKeepsLine, AdmittedKeepsLine DEF Request
<1>3. ASSUME NEW c \in Clients, NEW again \in BOOLEAN, Finish(c, again) PROVE LineInv' /\ Kept
    BY <1>3, FinishKeepsLine
<1>4. ASSUME NEW c \in Clients, Cancel(c) \/ CancelAbsent(c) PROVE LineInv' /\ Kept
    BY <1>4, CancelKeepsLine
<1>5. ASSUME NEW c \in Clients, Wake(c) \/ Wander(c) PROVE LineInv' /\ Kept
    BY <1>5, OthersKeepLine
<1> QED BY <1>1, <1>2, <1>3, <1>4, <1>5 DEF Next

\* The invariant of the line holds of every behaviour.
THEOREM LineInvariance == Spec => []LineInv
<1>1. IInv /\ LineInv /\ [Next]_vars => LineInv'
    BY LineInvStep
<1> QED BY <1>1, LineInvInit, Invariance, PTL DEF Spec

-----------------------------------------------------------------------------
(* The wait for credit                                                       *)

\* The head comes back no sooner than it was told, so that a slice begins when
\* the wait is over.
EligibleInv ==
    /\ EligibleWhenTold
    /\ active # NoClient => ToldTime <= updated
    /\ updated < ToldTime /\ waiting # <<>> => ToldTime <= due[Head(waiting)]

\* What is promised of credit at a later time holds when it is there already ...
LEMMA PaidArithmetic ==
    ASSUME NEW more \in Int, NEW rest \in Nat, NEW need \in Int, NEW time \in Int, NEW told \in Int,
           time < told, more >= need
    PROVE  2 * more + rest + (told - time) >= 2 * need
    OBVIOUS

\* ... and when a refill has brought it what the time that has gone by is worth.
LEMMA ExactArithmetic ==
    ASSUME NEW before \in Int, NEW after \in Int, NEW need \in Int,
           NEW then \in Int, NEW time \in Int, NEW told \in Int,
           after = before + (time - then), before + (told - then) >= need
    PROVE  after + (told - time) >= need
    OBVIOUS

\* The delay that is told is long enough.
LEMMA DelayArithmetic ==
    ASSUME NEW have \in Int, NEW odd \in {0, 1}, NEW need \in Int, NEW time \in Nat
    PROVE  2 * have + odd + ((time + 2 * (need - have)) - time) >= 2 * need
    OBVIOUS

\* A refill does not change the time at which the head is eligible.
LEMMA RefillKeepsPromise ==
    ASSUME TypeOK, AccountInv, EligibleWhenTold, Refill, now' = now, headDeadline' = headDeadline
    PROVE  EligibleWhenTold'
<1>1. /\ now - updated \in Nat /\ credit \in Int /\ credit <= Burst /\ remainder \in {0, 1}
      /\ now \in Nat /\ updated \in Nat /\ headDeadline \in Nat
    BY DEF TypeOK, AccountInv
<1>2. /\ credit' \in Int /\ remainder' \in {0, 1}
      /\ credit' = Burst \/ 2 * credit' + remainder' = 2 * credit + remainder + (now - updated)
  <2>1. /\ credit' = Refilled(credit, remainder, now - updated).credit
        /\ remainder' = Refilled(credit, remainder, now - updated).remainder
    BY DEF Refill, Credited
  <2> HIDE DEF Refilled
  <2> QED BY <1>1, <2>1, RefillBounds
<1>3. updated' = now /\ ToldTime' = ToldTime /\ ToldTime \in Int
    BY <1>1 DEF Refill, ToldTime
<1>4. CASE now < ToldTime
  <2>1. 2 * credit + remainder + (ToldTime - updated) >= 2 * Admission
    BY <1>1, <1>3, <1>4 DEF EligibleWhenTold
  <2>2. credit' >= Admission \/ 2 * credit' + remainder' = 2 * credit + remainder + (now - updated)
    BY <1>2
  <2>3. 2 * credit' + remainder' + (ToldTime - now) >= 2 * Admission
    <3>1. /\ credit \in Int /\ remainder \in Int /\ updated \in Int /\ now \in Int
          /\ credit' \in Int /\ remainder' \in Nat /\ Admission \in Int
      BY <1>1, <1>2
    <3>2. ToldTime \in Int /\ now < ToldTime
      BY <1>3, <1>4
    <3>3. CASE credit' >= Admission
      BY <3>1, <3>2, <3>3, PaidArithmetic
    <3>4. CASE 2 * credit' + remainder' = 2 * credit + remainder + (now - updated)
      <4> DEFINE before == 2 * credit + remainder
                 after == 2 * credit' + remainder'
                 need == 2 * Admission
      <4>1. before \in Int /\ after \in Int /\ need \in Int
        BY <3>1
      <4>2. after = before + (now - updated) /\ before + (ToldTime - updated) >= need
        BY <2>1, <3>4
      <4> HIDE DEF before, after, need
      <4>3. after + (ToldTime - now) >= need
        BY <3>1, <3>2, <4>1, <4>2, ExactArithmetic
      <4> QED BY <4>3 DEF before, after, need
    <3> QED BY <2>2, <3>3, <3>4
  <2> QED BY <1>3, <2>3 DEF EligibleWhenTold
<1>5. CASE ~(now < ToldTime)
    BY <1>3, <1>5 DEF EligibleWhenTold
<1> QED BY <1>4, <1>5

\* A lease that begins now tells nobody to wait.
LEMMA FreshLeaseTellsNothing ==
    ASSUME TypeOK, updated' = now, headDeadline' = now + HeadLease
    PROVE  EligibleInv'
<1>1. now \in Nat /\ HeadLease \in Nat
    BY DEF TypeOK
<1>2. ToldTime' = now
    BY <1>1 DEF ToldTime
<1> QED BY <1>1, <1>2 DEF EligibleInv, EligibleWhenTold

\* A request begins a lease, or leaves the head and its deadline alone.
LEMMA RequestKeepsHead ==
    ASSUME TypeOK, QueueHonest, NEW c \in Clients
    PROVE  \/ Leased(c) = now + HeadLease
           \/ /\ Leased(c) = headDeadline /\ Line = waiting
              /\ Joined(c) # <<>> => waiting # <<>> /\ Head(Joined(c)) = Head(waiting)
<1>1. CASE HeadExpired \/ (Line = <<>> /\ Joined(c) # <<>>)
    BY <1>1 DEF Leased
<1>2. CASE ~(HeadExpired \/ (Line = <<>> /\ Joined(c) # <<>>))
  <2>1. Leased(c) = headDeadline /\ Line = waiting
    BY <1>2 DEF Leased, Line
  <2>2. Joined(c) # <<>> => Line # <<>>
    BY <1>2
  <2> QED BY <2>1, <2>2, JoinedIsOrdered
<1> QED BY <1>1, <1>2

\* A denied request: only the head is told to wait, until the credit is there.
LEMMA DeniedKeepsEligible ==
    ASSUME IInv, QueueHonest, EligibleInv, NEW c \in Clients,
           RequestRefused(c) \/ RequestQueued(c) \/ RequestOwing(c)
    PROVE  EligibleInv'
<1>1. /\ TypeOK /\ AccountInv /\ now \in Nat /\ due \in [Clients -> Nat] /\ Waiting \subseteq Clients
      /\ waiting # <<>> => Head(waiting) \in Waiting
    BY WaitingIsDistinct DEF IInv, TypeOK
<1>2. Refill /\ now' = now /\ updated' = now /\ active' = active /\ active = NoClient
    BY DEF RequestRefused, RequestQueued, RequestOwing, TurnOf, slotVars, Refill
<1>3. CASE RequestRefused(c) \/ RequestQueued(c)
  <2>1. /\ headDeadline' = Leased(c) /\ (waiting' = Line \/ waiting' = Joined(c))
        /\ \A d \in Clients : d # c => due'[d] = due[d]
    BY <1>1, <1>3 DEF RequestRefused, RequestQueued, RetryAfter
  <2>2. CASE Leased(c) = now + HeadLease
    BY <1>1, <1>2, <2>1, <2>2, FreshLeaseTellsNothing
  <2>3. CASE /\ Leased(c) = headDeadline /\ Line = waiting
             /\ Joined(c) # <<>> => waiting # <<>> /\ Head(Joined(c)) = Head(waiting)
    <3>1. EligibleWhenTold'
      BY <1>1, <1>2, <2>1, <2>3, RefillKeepsPromise DEF EligibleInv
    <3>2. waiting' # <<>> => waiting # <<>> /\ Head(waiting') = Head(waiting) /\ Head(waiting) # c
      <4>1. CASE RequestRefused(c)
        <5>1. waiting' = waiting /\ c \notin Waiting
          BY <2>3, <4>1 DEF RequestRefused, InLine, Waiting
        <5> QED BY <1>1, <5>1
      <4>2. CASE RequestQueued(c)
        <5>1. waiting' = Joined(c) /\ Joined(c) # <<>> /\ Head(Joined(c)) # c
          BY <4>2 DEF RequestQueued
        <5> QED BY <2>3, <5>1
      <4> QED BY <1>3, <4>1, <4>2
    <3>3. ToldTime' = ToldTime /\ updated <= now /\ updated \in Nat /\ ToldTime \in Int
      BY <1>1, <2>1, <2>3 DEF ToldTime, AccountInv, TypeOK
    <3>4. updated' < ToldTime' /\ waiting' # <<>> => ToldTime' <= due'[Head(waiting')]
      BY <1>1, <1>2, <2>1, <3>2, <3>3 DEF EligibleInv
    <3> QED BY <1>2, <3>1, <3>4 DEF EligibleInv
  <2> QED BY <1>1, <2>2, <2>3, RequestKeepsHead
<1>4. CASE RequestOwing(c)
  <2> DEFINE delay == 2 * (Admission - credit')
  <2>1. /\ waiting' = Joined(c) /\ Head(Joined(c)) = c
        /\ headDeadline' = now + delay + HeadLease
        /\ due' = [due EXCEPT ![c] = now + (IF delay > Floor[c] THEN delay ELSE Floor[c])]
    BY <1>4 DEF RequestOwing, Refill, RetryAfter
  <2>2. credit' \in Int /\ remainder' \in {0, 1} /\ credit' < Admission
    BY <1>1, <1>2, <1>4, RefillKeepsAccount DEF RequestOwing, Refill
  <2>3. delay \in Nat
    <3>1. Admission \in Int
      OBVIOUS
    <3> QED BY <2>2, <3>1, GapIsNat
  <2>4. ToldTime' = now + delay
    BY <1>1, <2>1, <2>3 DEF ToldTime
  <2>5. EligibleWhenTold'
    <3>1. 2 * credit' + remainder' + ((now + delay) - now) >= 2 * Admission
      <4>1. Admission \in Int
        OBVIOUS
      <4> QED BY <1>1, <2>2, <4>1, DelayArithmetic
    <3> QED BY <1>2, <2>4, <3>1 DEF EligibleWhenTold
  <2>6. ToldTime' <= due'[Head(waiting')]
    <3> HIDE DEF delay
    <3> QED BY <1>1, <2>1, <2>3, <2>4
  <2> QED BY <1>2, <2>5, <2>6 DEF EligibleInv
<1> QED BY <1>3, <1>4

\* Whoever is admitted has waited as long as it was told.
LEMMA AdmittedKeepsEligible ==
    ASSUME IInv, QueueHonest, EligibleInv, NEW c \in Clients, RequestAdmitted(c)
    PROVE  EligibleInv'
<1>1. /\ TypeOK /\ AccountInv /\ now \in Nat /\ updated \in Nat /\ headDeadline \in Nat
      /\ HeadLease \in Nat /\ due[c] \in Nat /\ updated <= now
    BY DEF IInv, TypeOK, AccountInv
<1>2. /\ Refill /\ now' = now /\ updated' = now /\ due[c] <= now
      /\ Joined(c) # <<>> /\ Head(Joined(c)) = c /\ waiting' = Tail(Joined(c))
      /\ headDeadline' = IF Tail(Joined(c)) # <<>> THEN now + HeadLease ELSE Leased(c)
    BY DEF RequestAdmitted, TurnOf, Refill
<1>3. CASE headDeadline' = now + HeadLease
    BY <1>1, <1>2, <1>3, FreshLeaseTellsNothing
<1>4. CASE headDeadline' # now + HeadLease
  <2>1. waiting' = <<>> /\ headDeadline' = headDeadline /\ waiting # <<>> /\ Head(waiting) = c
    BY <1>1, <1>2, <1>4, RequestKeepsHead
  <2>2. ToldTime' = ToldTime /\ ToldTime \in Int
    BY <1>1, <2>1 DEF ToldTime
  <2>3. ToldTime <= now
    BY <1>1, <1>2, <2>1, <2>2 DEF EligibleInv
  <2>4. EligibleWhenTold'
    BY <1>1, <1>2, <2>1, RefillKeepsPromise DEF EligibleInv
  <2> QED BY <1>2, <2>1, <2>2, <2>3, <2>4 DEF EligibleInv
<1> QED BY <1>3, <1>4

\* A slice ends when nobody waits for a promise of before.
LEMMA FinishKeepsEligible ==
    ASSUME IInv, EligibleInv, NEW c \in Clients, NEW again \in BOOLEAN, Finish(c, again)
    PROVE  EligibleInv'
<1>1. /\ TypeOK /\ now \in Nat /\ updated \in Nat /\ headDeadline \in Nat
      /\ HeadLease \in Nat /\ updated <= now
    BY DEF IInv, TypeOK, AccountInv
<1>2. /\ updated' = now /\ active = c /\ active # NoClient
      /\ headDeadline' = now + HeadLease \/ headDeadline' = headDeadline
    BY DEF Finish
<1>3. CASE headDeadline' = now + HeadLease
    BY <1>1, <1>2, <1>3, FreshLeaseTellsNothing
<1>4. CASE headDeadline' = headDeadline
  <2>1. ToldTime' = ToldTime /\ ToldTime \in Int /\ ToldTime <= now
    BY <1>1, <1>2, <1>4 DEF ToldTime, EligibleInv
  <2> QED BY <1>1, <1>2, <2>1 DEF EligibleInv, EligibleWhenTold
<1> QED BY <1>2, <1>3, <1>4

\* A head that gives up leaves its promise to nobody.
LEMMA CancelKeepsEligible ==
    ASSUME IInv, QueueHonest, EligibleInv, NEW c \in Clients, Cancel(c) \/ CancelAbsent(c)
    PROVE  EligibleInv'
<1>1. /\ TypeOK /\ AccountInv /\ now \in Nat /\ updated \in Nat /\ headDeadline \in Nat
      /\ HeadLease \in Nat /\ updated <= now /\ due \in [Clients -> Nat]
      /\ waiting \in Seq(Clients) /\ Distinct(waiting) /\ Waiting = Elements(waiting)
      /\ Waiting \subseteq Clients
    BY WaitingIsDistinct DEF IInv, TypeOK, AccountInv
<1>Head. waiting # <<>> => Head(waiting) \in Waiting
    BY WaitingIsDistinct DEF IInv
<1>2. /\ Refill /\ now' = now /\ updated' = now /\ active' = active
      /\ due' = [due EXCEPT ![c] = 0]
    BY DEF Cancel, CancelAbsent, GiveUp, slotVars, Refill
<1>3. \/ headDeadline' = now + HeadLease
      \/ /\ headDeadline' = headDeadline
         /\ waiting' # <<>> => waiting # <<>> /\ Head(waiting') = Head(waiting) /\ Head(waiting) # c
  <2>1. CASE CancelAbsent(c)
    <3>1. c \notin Waiting /\ waiting' = waiting /\ headDeadline' = headDeadline
      BY <2>1 DEF CancelAbsent, queueVars
    <3>2. waiting # <<>> => Head(waiting) # c
      BY <1>Head, <3>1
    <3> QED BY <3>1, <3>2
  <2>2. CASE Cancel(c)
    <3>1. PICK i \in DOMAIN waiting :
            /\ waiting[i] = c /\ waiting' = Erase(waiting, i)
            /\ headDeadline' = IF i = 1 /\ Len(waiting) > 1 THEN now + HeadLease
                               ELSE headDeadline
      BY <2>2 DEF Cancel
    <3>2. /\ i # 1 /\ waiting' # <<>> => Head(waiting') = Head(waiting)
          /\ i = 1 /\ waiting' # <<>> => Len(waiting) > 1
      BY <1>1, <3>1, EraseKeepsOrder
    <3>3. waiting # <<>> /\ (i # 1 => Head(waiting) # c)
      BY <1>1, <3>1 DEF Distinct
    <3> QED BY <3>1, <3>2, <3>3
  <2> QED BY <2>1, <2>2
<1>4. CASE headDeadline' = now + HeadLease
    BY <1>1, <1>2, <1>4, FreshLeaseTellsNothing
<1>5. CASE headDeadline' # now + HeadLease
  <2>1. EligibleWhenTold'
    BY <1>1, <1>2, <1>3, <1>5, RefillKeepsPromise DEF EligibleInv
  <2>2. ToldTime' = ToldTime /\ ToldTime \in Int
    BY <1>1, <1>3, <1>5 DEF ToldTime
  <2>3. active' # NoClient => ToldTime' <= updated'
    BY <1>1, <1>2, <2>2 DEF EligibleInv
  <2>4. updated' < ToldTime' /\ waiting' # <<>> => ToldTime' <= due'[Head(waiting')]
    BY <1>1, <1>2, <1>3, <1>5, <2>2 DEF EligibleInv
  <2> QED BY <2>1, <2>3, <2>4 DEF EligibleInv
<1> QED BY <1>4, <1>5

\* Nobody who waits in line has its turn moved forward.
LEMMA OthersKeepEligible ==
    ASSUME IInv, QueueHonest, EligibleInv, NEW c,
           \/ Pass
           \/ c \in Clients /\ (Wake(c) \/ Wander(c))
           \/ UNCHANGED vars
    PROVE  EligibleInv'
<1>1. UNCHANGED <<updated, credit, remainder, headDeadline, active, waiting>>
    BY DEF Pass, Wake, Wander, vars, accountVars, slotVars, queueVars
<1>2. waiting # <<>> =>
        due[Head(waiting)] \in Nat /\ due'[Head(waiting)] \in Nat /\ due[Head(waiting)] <= due'[Head(waiting)]
  <2> SUFFICES ASSUME waiting # <<>>
               PROVE  /\ due[Head(waiting)] \in Nat /\ due'[Head(waiting)] \in Nat
                      /\ due[Head(waiting)] <= due'[Head(waiting)]
    OBVIOUS
  <2>1. /\ Head(waiting) \in Waiting /\ Head(waiting) \in Clients
        /\ due \in [Clients -> Nat] /\ now \in Nat /\ now + Away \in Nat
    BY WaitingIsDistinct DEF IInv, TypeOK
  <2>2. stage[Head(waiting)] = "asking"
    BY <2>1 DEF QueueHonest
  <2>3. CASE Pass \/ UNCHANGED vars
    BY <2>1, <2>3 DEF Pass, vars
  <2>4. CASE c \in Clients /\ Wake(c)
    BY <2>1, <2>2, <2>4 DEF Wake
  <2>5. CASE c \in Clients /\ Wander(c)
    BY <2>1, <2>5 DEF Wander, TurnOf
  <2> QED BY <2>3, <2>4, <2>5
<1>3. ToldTime' = ToldTime /\ ToldTime \in Int
    BY <1>1 DEF ToldTime, IInv, TypeOK
<1> QED BY <1>1, <1>2, <1>3 DEF EligibleInv, EligibleWhenTold

\* Every step keeps what the head was told.
LEMMA EligibleInvStep == IInv /\ LineInv /\ EligibleInv /\ [Next]_vars => EligibleInv'
<1> SUFFICES ASSUME IInv, QueueHonest, EligibleInv, [Next]_vars PROVE EligibleInv'
    BY DEF LineInv
<1>1. CASE Pass \/ UNCHANGED vars
    BY <1>1, OthersKeepEligible
<1>2. ASSUME NEW c \in Clients, Request(c) PROVE EligibleInv'
    BY <1>2, DeniedKeepsEligible, AdmittedKeepsEligible DEF Request
<1>3. ASSUME NEW c \in Clients, NEW again \in BOOLEAN, Finish(c, again) PROVE EligibleInv'
    BY <1>3, FinishKeepsEligible
<1>4. ASSUME NEW c \in Clients, Cancel(c) \/ CancelAbsent(c) PROVE EligibleInv'
    BY <1>4, CancelKeepsEligible
<1>5. ASSUME NEW c \in Clients, Wake(c) \/ Wander(c) PROVE EligibleInv'
    BY <1>5, OthersKeepEligible
<1> QED BY <1>1, <1>2, <1>3, <1>4, <1>5 DEF Next

\* The wait for credit is as long as was said, in every behaviour.
THEOREM EligibleInvariance == Spec => []EligibleInv
<1>1. Init => EligibleInv
    BY DEF Init, EligibleInv, EligibleWhenTold, ToldTime
<1> QED BY <1>1, EligibleInvStep, Invariance, LineInvariance, PTL DEF Spec

-----------------------------------------------------------------------------
(* The properties *)

\* TypeOK: the credit stays an integer, the carried tick 0 or 1, the line a
\* sequence of clients.
THEOREM TypeCorrect == Spec => []TypeOK
<1>1. IInv => TypeOK
    BY DEF IInv
<1> QED BY <1>1, Invariance, PTL

\* Envelope: however slices overrun, and whoever cancels or stays away, the
\* budget never hands out more than the burst and half of the elapsed time,
\* give or take one slice.
THEOREM PlanningStaysInEnvelope == Spec => []Envelope
<1>1. IInv => Envelope
    BY DEF IInv, SliceInv
<1> QED BY <1>1, Invariance, PTL

\* Credit saturates at the burst, and between two slices no debt is deeper than
\* one of them: finish() charges what a slice took, however long it overran.
THEOREM DebtIsBounded ==
    Spec => [](credit <= Burst /\ (active = NoClient => Admission - credit <= MaxSlice))
<1>1. IInv => credit <= Burst /\ (active = NoClient => Admission - credit <= MaxSlice)
    BY DEF IInv, TypeOK, AccountInv, SliceInv
<1> QED BY <1>1, Invariance, PTL

\* EligibleWhenTold: for any number of clients that ask, cancel or stay away
\* meanwhile, the credit reaches the threshold at the time the head was told.
THEOREM DebtIsWaitedOut == Spec => []EligibleWhenTold
<1>1. EligibleInv => EligibleWhenTold
    BY DEF EligibleInv
<1> QED BY <1>1, EligibleInvariance, PTL

\* QueueHonest: however requests, prunings and cancellations interleave, nobody
\* is in line twice, nor after giving up, nor while being served.
THEOREM LineIsHonest == Spec => []QueueHonest
<1>1. LineInv => QueueHonest
    BY DEF LineInv
<1> QED BY <1>1, LineInvariance, PTL

\* FairTurns: for any number of clients and any limits, nobody is admitted
\* twice while a punctual client waits.
THEOREM TurnsAreFair == Spec => []FairTurns
<1>1. LineInv => FairTurns
  <2> SUFFICES ASSUME LineInv, NEW c \in Punctual, NEW d \in Clients PROVE overtaken[c][d] <= 1
    BY DEF FairTurns
  <2> QED BY DEF LineInv, OrderInv
<1> QED BY <1>1, LineInvariance, PTL

\* PunctualKeepsTurn: a client that asks again within a lease leaves the line
\* only by being admitted or by giving up.
THEOREM PunctualTurnsAreKept == Spec => PunctualKeepsTurn
<1>1. IInv /\ LineInv /\ [Next]_vars =>
        [\A c \in Punctual : c \in Waiting /\ c \notin Waiting' =>
            active' = c \/ stage'[c] = "idle"]_vars
    BY LineInvStep DEF Kept
<1> QED BY <1>1, Invariance, LineInvariance, PTL DEF Spec, PunctualKeepsTurn

=============================================================================
