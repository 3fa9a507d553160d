-------------------------- MODULE TfsThreads_proofs --------------------------
(***************************************************************************)
(* However the dispatcher, its flush() and the database worker interleave, *)
(* a query is in one place and runs once: for any number of queries, posts *)
(* and spurious wakeups, and through the shutdown.                         *)
(***************************************************************************)
EXTENDS TfsThreads, SequenceTheorems, TLAPS

Elements(s) == {s[i] : i \in DOMAIN s}
Distinct(s) == \A i, j \in DOMAIN s : s[i] = s[j] => i = j

Works == {Work(q) : q \in Queries}

\* No work task occurs twice.
WorkOnce(s) == \A i, j \in DOMAIN s : s[i] = s[j] /\ s[i] \in Works => i = j

\* The work task that is about to submit its query
InHand == IF dpc = "add" THEN {cur} ELSE {}

TypeInv ==
    /\ dState \in States /\ dbState \in States
    /\ taskList \in Seq(Task) /\ batch \in Seq(Task) /\ cur \in Task \cup {NoTask}
    /\ dpc \in {"test", "take", "asleep", "woken", "run", "add", "flush", "query", "notify",
                "push", "stopDatabase", "stopDispatcher", "shut", "last", "ended"}
    /\ flushed \in Queries \cup {NoQuery} /\ taken \in Queries \cup {NoQuery}
    /\ owed \in Nat
    /\ wpc \in {"test", "take", "asleep", "woken", "query", "ended"}
    /\ queries \in Seq(Queries)
    /\ sent \in SUBSET FromOutside /\ posted \in SUBSET Task /\ executed \in SUBSET Task
    /\ accepted \in SUBSET Queries /\ ran \in SUBSET Queries

\* A task is sent once: it is in the list, in the batch, or in hand.
TasksInv ==
    /\ dpc = "add" => cur \in Works
    /\ WorkOnce(taskList) /\ WorkOnce(batch)
    /\ \A w \in Works : w \in Elements(taskList) => w \notin Elements(batch) \cup InHand
    /\ \A w \in Works : w \in Elements(batch) => w \notin InHand
    /\ \A w \in Works : w \in Elements(taskList) \cup Elements(batch) \cup InHand => w \in sent

\* A query is accepted from its task, and then in one place until it has run.
QueriesInv ==
    /\ \A q \in accepted : /\ Work(q) \in sent
                           /\ Work(q) \notin Elements(taskList) \cup Elements(batch) \cup InHand
    /\ Distinct(queries)
    /\ Elements(queries) \subseteq accepted /\ ran \subseteq accepted
    /\ accepted \subseteq Elements(queries) \cup {flushed, taken} \cup ran
    /\ flushed \in accepted \cup {NoQuery} /\ taken \in accepted \cup {NoQuery}
    /\ \A q \in Elements(queries) : q \notin ran /\ q # flushed /\ q # taken
    /\ flushed # NoQuery => flushed \notin ran \cup {taken}
    /\ taken # NoQuery => taken \notin ran
    /\ dpc = "query" <=> flushed # NoQuery
    /\ wpc = "query" <=> taken # NoQuery

ThreadsInv == TypeInv /\ TasksInv /\ QueriesInv

-----------------------------------------------------------------------------
(* Lists                                                                     *)

\* Taking the first element of a list.
LEMMA TailFacts ==
    ASSUME NEW S, NEW s \in Seq(S), s # <<>>
    PROVE  /\ Tail(s) \in Seq(S) /\ Head(s) \in S /\ Head(s) \in Elements(s)
           /\ Elements(s) = {Head(s)} \cup Elements(Tail(s))
           /\ Distinct(s) => Distinct(Tail(s)) /\ Head(s) \notin Elements(Tail(s))
           /\ WorkOnce(s) => /\ WorkOnce(Tail(s))
                             /\ Head(s) \in Works => Head(s) \notin Elements(Tail(s))
<1>1. /\ Tail(s) \in Seq(S) /\ DOMAIN Tail(s) = 1..(Len(s) - 1)
      /\ DOMAIN s = 1..Len(s) /\ Len(s) \in Nat \ {0} /\ Head(s) = s[1]
      /\ \A i \in 1..(Len(s) - 1) : Tail(s)[i] = s[i + 1]
    OBVIOUS
<1>2. Head(s) \in S /\ Head(s) \in Elements(s)
    BY <1>1 DEF Elements
<1>3. Elements(s) = {Head(s)} \cup Elements(Tail(s))
    <2>1. ASSUME NEW e \in Elements(s) PROVE e \in {Head(s)} \cup Elements(Tail(s))
        <3>1. PICK i \in 1..Len(s) : e = s[i]
            BY <1>1 DEF Elements
        <3>2. CASE i = 1
            BY <1>1, <3>1, <3>2
        <3>3. CASE i # 1
            <4> DEFINE j == i - 1
            <4>1. j \in 1..(Len(s) - 1) /\ j + 1 = i
                BY <1>1, <3>3
            <4>2. Tail(s)[j] = e
                BY <1>1, <3>1, <4>1
            <4> QED BY <1>1, <4>1, <4>2 DEF Elements
        <3> QED BY <3>2, <3>3
    <2>2. Elements(s) \subseteq {Head(s)} \cup Elements(Tail(s))
        BY <2>1
    <2>3. {Head(s)} \cup Elements(Tail(s)) \subseteq Elements(s)
        BY <1>1, <1>2 DEF Elements
    <2> QED BY <2>2, <2>3
<1>4. Distinct(s) => Distinct(Tail(s)) /\ Head(s) \notin Elements(Tail(s))
    BY <1>1 DEF Elements, Distinct
<1>5. WorkOnce(s) => WorkOnce(Tail(s))
    BY <1>1 DEF WorkOnce
<1>6. WorkOnce(s) /\ Head(s) \in Works => Head(s) \notin Elements(Tail(s))
    BY <1>1 DEF Elements, WorkOnce
<1> QED BY <1>1, <1>2, <1>3, <1>4, <1>5, <1>6

\* Adding a last element.
LEMMA AppendFacts ==
    ASSUME NEW S, NEW s \in Seq(S), NEW e \in S
    PROVE  /\ Append(s, e) \in Seq(S) /\ Elements(Append(s, e)) = Elements(s) \cup {e}
           /\ Distinct(s) /\ e \notin Elements(s) => Distinct(Append(s, e))
           /\ WorkOnce(s) /\ (e \in Works => e \notin Elements(s)) => WorkOnce(Append(s, e))
<1>1. /\ Append(s, e) \in Seq(S) /\ DOMAIN Append(s, e) = 1..(Len(s) + 1)
      /\ DOMAIN s = 1..Len(s) /\ Len(s) \in Nat
      /\ \A i \in 1..Len(s) : Append(s, e)[i] = s[i]
      /\ Append(s, e)[Len(s) + 1] = e
    OBVIOUS
<1>2. Elements(Append(s, e)) = Elements(s) \cup {e}
    BY <1>1 DEF Elements
<1>3. Distinct(s) /\ e \notin Elements(s) => Distinct(Append(s, e))
    BY <1>1 DEF Elements, Distinct
<1>4. WorkOnce(s) /\ (e \in Works => e \notin Elements(s)) => WorkOnce(Append(s, e))
    BY <1>1 DEF Elements, WorkOnce
<1> QED BY <1>1, <1>2, <1>3, <1>4

\* An empty list has nothing in it.
LEMMA NothingFacts == Elements(<<>>) = {} /\ WorkOnce(<<>>) /\ Distinct(<<>>)
    BY DEF Elements, WorkOnce, Distinct

\* The kinds of tasks are apart, and a work task names its query.
LEMMA TaskFacts ==
    /\ \A q, r : Work(q) = Work(r) => q = r
    /\ \A w \in Works : /\ w.kind = "work" /\ w = Work(w.of) /\ w.of \in Queries
                        /\ w \in Task /\ w \in FromOutside
    /\ \A q : Callback(q) \notin Works
    /\ \A q \in Callbacks : Callback(q) \in Task
    /\ End \notin Works /\ Terminate \notin Works /\ End \in Task /\ Terminate \in Task
    /\ \A t \in Task : t.kind = "work" => t \in Works
    /\ NoQuery \notin Queries
<1> USE ThreadsAssumption
<1>1. \A q, r : Work(q) = Work(r) => q = r
    BY DEF Work
<1>2. \A w \in Works : /\ w.kind = "work" /\ w = Work(w.of) /\ w.of \in Queries
                       /\ w \in Task /\ w \in FromOutside
    BY DEF Works, Work, Task, FromOutside
<1>3. (\A q : Callback(q) \notin Works) /\ \A q \in Callbacks : Callback(q) \in Task
    BY DEF Callback, Works, Work, Task
<1>4. End \notin Works /\ Terminate \notin Works /\ End \in Task /\ Terminate \in Task
    BY DEF End, Terminate, Works, Work, Task
<1>5. \A t \in Task : t.kind = "work" => t \in Works
    BY DEF Task, FromOutside, Callback, Save, Close, End, Terminate, Works, Work
<1> QED BY <1>1, <1>2, <1>3, <1>4, <1>5

\* Dispatcher::addTask adds a task at most.
LEMMA AddTaskFacts ==
    ASSUME TypeInv, NEW t \in Task, AddTask(t)
    PROVE  /\ taskList' \in Seq(Task) /\ owed' \in Nat /\ posted' \in SUBSET Task
           /\ Elements(taskList') \subseteq Elements(taskList) \cup {t}
           /\ WorkOnce(taskList) /\ (t \in Works => t \notin Elements(taskList)) => WorkOnce(taskList')
<1>1. CASE dState = "RUNNING"
    <2>1. /\ taskList' = Append(taskList, t) /\ posted' = posted \cup {t}
          /\ owed' = owed + (IF taskList = <<>> THEN 1 ELSE 0)
        BY <1>1 DEF AddTask
    <2>2. taskList \in Seq(Task) /\ owed \in Nat /\ posted \in SUBSET Task
        BY DEF TypeInv
    <2>3. owed' \in Nat /\ posted' \in SUBSET Task
        BY <2>1, <2>2
    <2> QED BY <2>1, <2>2, <2>3, AppendFacts
<1>2. CASE dState # "RUNNING"
    BY <1>2 DEF AddTask, listVars, TypeInv
<1> QED BY <1>1, <1>2

-----------------------------------------------------------------------------
(* What most steps leave alone                                               *)

\* No work task turns up from nowhere.
NoNewWork ==
    /\ sent \subseteq sent'
    /\ dpc' = "add" => dpc = "add" /\ cur' = cur
    /\ WorkOnce(taskList') /\ WorkOnce(batch')
    /\ \A w \in Works : w \in Elements(taskList') => w \in Elements(taskList)
    /\ Elements(batch') \subseteq Elements(batch)

\* Then a task is still sent once, and no accepted query gets a task again.
LEMMA WorkKept ==
    ASSUME ThreadsInv, NoNewWork
    PROVE  /\ TasksInv'
           /\ \A q \in accepted : /\ Work(q) \in sent'
                                  /\ Work(q) \notin (Elements(taskList) \cup Elements(batch) \cup InHand)'
<1>1. InHand' \subseteq InHand
    BY DEF NoNewWork, InHand
<1>2. TasksInv'
    BY <1>1 DEF NoNewWork, ThreadsInv, TasksInv
<1>3. \A q \in accepted : Work(q) \in Works /\ Work(q) \in sent
    BY DEF ThreadsInv, QueriesInv, TypeInv, Works
<1>4. \A q \in accepted : Work(q) \notin Elements(taskList) \cup Elements(batch) \cup InHand
    BY DEF ThreadsInv, QueriesInv
<1> QED BY <1>1, <1>2, <1>3, <1>4 DEF NoNewWork

\* The queries stay where they are.
QueriesStay ==
    /\ UNCHANGED <<queryVars, flushed, taken>>
    /\ dpc' = "query" <=> dpc = "query"
    /\ wpc' = "query" <=> wpc = "query"

LEMMA QueriesKept ==
    ASSUME ThreadsInv, NoNewWork, QueriesStay
    PROVE  TasksInv' /\ QueriesInv'
    BY WorkKept DEF ThreadsInv, QueriesInv, QueriesStay, queryVars

\* The dispatcher, the lists and the queries stay; so does the sent set.
LEMMA NothingNew ==
    ASSUME ThreadsInv, UNCHANGED <<taskList, batch, sent>>,
           dpc' = "add" => dpc = "add" /\ cur' = cur
    PROVE  NoNewWork
    BY DEF NoNewWork, ThreadsInv, TasksInv

-----------------------------------------------------------------------------
(* Tasks                                                                     *)

LEMMA PostStep == ASSUME ThreadsInv, Post PROVE ThreadsInv'
<1>1. PICK t \in FromOutside \ sent : AddTask(t) /\ sent' = sent \cup {t}
    BY DEF Post
<1>2. UNCHANGED <<dState, batch, dpc, cur, flushed, executed, dbState, wpc, taken, queries, accepted, ran>>
    BY DEF Post, dispatcherVars, workerVars, queryVars
<1>3. t \in Task
    BY DEF Task
<1>4. TypeInv
    BY DEF ThreadsInv
<1>5. /\ taskList' \in Seq(Task) /\ owed' \in Nat /\ posted' \in SUBSET Task
      /\ Elements(taskList') \subseteq Elements(taskList) \cup {t}
      /\ WorkOnce(taskList) /\ (t \in Works => t \notin Elements(taskList)) => WorkOnce(taskList')
    BY <1>1, <1>3, <1>4, AddTaskFacts
<1>6. TypeInv'
    BY <1>1, <1>2, <1>4, <1>5 DEF TypeInv
<1>7. InHand' = InHand
    BY <1>2 DEF InHand
<1>8. TasksInv'
    <2>1. WorkOnce(taskList)'
        BY <1>1, <1>5 DEF ThreadsInv, TasksInv
    <2> QED BY <1>1, <1>2, <1>5, <1>7, <2>1 DEF ThreadsInv, TasksInv
<1>9. QueriesInv'
    <2>1. \A q \in accepted : /\ Work(q) \in sent'
                              /\ Work(q) \notin Elements(taskList') \cup Elements(batch') \cup InHand'
        BY <1>1, <1>2, <1>5, <1>7 DEF ThreadsInv, QueriesInv
    <2> QED BY <1>2, <2>1 DEF ThreadsInv, QueriesInv
<1> QED BY <1>6, <1>8, <1>9 DEF ThreadsInv

LEMMA SwapStep ==
    ASSUME ThreadsInv, Swap, dpc \in {"take", "woken"},
           UNCHANGED <<owed, posted, sent, executed, workerVars, queryVars>>
    PROVE  ThreadsInv'
<1>1. /\ batch' = taskList /\ taskList' = <<>> /\ dpc' = "run"
      /\ UNCHANGED <<dState, cur, flushed, owed, posted, sent, executed,
                     dbState, wpc, taken, queries, accepted, ran>>
    BY DEF Swap, workerVars, queryVars
<1>2. TypeInv'
    BY <1>1 DEF ThreadsInv, TypeInv
<1>3. Elements(taskList') = {} /\ WorkOnce(taskList') /\ InHand' = {}
    BY <1>1, NothingFacts DEF InHand
<1>4. TasksInv'
    BY <1>1, <1>3 DEF ThreadsInv, TasksInv
<1>5. QueriesInv'
    <2>1. \A q \in accepted : /\ Work(q) \in sent'
                              /\ Work(q) \notin Elements(taskList') \cup Elements(batch') \cup InHand'
        BY <1>1, <1>3 DEF ThreadsInv, QueriesInv
    <2>2. dpc # "query" /\ dpc' # "query"
        BY <1>1
    <2> QED BY <1>1, <2>1, <2>2 DEF ThreadsInv, QueriesInv
<1> QED BY <1>2, <1>4, <1>5 DEF ThreadsInv

LEMMA ExecuteStep == ASSUME ThreadsInv, Execute PROVE ThreadsInv'
<1> DEFINE t == Head(batch)
<1>1. /\ dpc = "run" /\ batch # <<>> /\ cur' = t /\ batch' = Tail(batch)
      /\ executed' = executed \cup {t} /\ dpc' = Entry(t)
      /\ dState' = IF t = Terminate THEN "TERMINATED" ELSE dState
      /\ UNCHANGED <<flushed, taskList, owed, posted, sent, dbState, wpc, taken, queries, accepted, ran>>
    BY DEF Execute, listVars, workerVars, queryVars
<1>2. batch \in Seq(Task)
    BY DEF ThreadsInv, TypeInv
<1>3. /\ batch' \in Seq(Task) /\ t \in Task /\ t \in Elements(batch)
      /\ Elements(batch') \subseteq Elements(batch)
      /\ WorkOnce(batch) => WorkOnce(batch') /\ (t \in Works => t \notin Elements(batch'))
    BY <1>1, <1>2, TailFacts
<1>4. Entry(t) \in {"add", "flush", "shut", "run"} /\ (Entry(t) = "add" => t \in Works)
    BY <1>3, TaskFacts DEF Entry
<1>5. TypeInv'
    BY <1>1, <1>3, <1>4 DEF ThreadsInv, TypeInv, States
<1>6. InHand' \subseteq {t} /\ (InHand' = {} \/ t \in Works)
    BY <1>1, <1>4 DEF InHand
<1>7. WorkOnce(batch)
    BY DEF ThreadsInv, TasksInv
<1>8. TasksInv'
    <2>1. dpc' = "add" => cur' \in Works
        BY <1>1, <1>4
    <2>2. WorkOnce(taskList)' /\ WorkOnce(batch)'
        BY <1>1, <1>3, <1>7 DEF ThreadsInv, TasksInv
    <2>3. \A w \in Works : w \in Elements(taskList) => w \notin Elements(batch)
        BY DEF ThreadsInv, TasksInv
    <2>4. \A w \in Works : w \in Elements(taskList') => w \notin Elements(batch') \cup InHand'
        BY <1>1, <1>3, <1>6, <2>3
    <2>5. \A w \in Works : w \in Elements(batch') => w \notin InHand'
        BY <1>3, <1>6, <1>7
    <2>6. \A w \in Works : w \in Elements(taskList') \cup Elements(batch') \cup InHand' => w \in sent'
        BY <1>1, <1>3, <1>6 DEF ThreadsInv, TasksInv
    <2> QED BY <2>1, <2>2, <2>4, <2>5, <2>6 DEF TasksInv
<1>9. QueriesInv'
    <2>1. \A q \in accepted : /\ Work(q) \in sent'
                              /\ Work(q) \notin Elements(taskList') \cup Elements(batch') \cup InHand'
        BY <1>1, <1>3, <1>6 DEF ThreadsInv, QueriesInv
    <2>2. dpc # "query" /\ dpc' # "query"
        BY <1>1, <1>4
    <2> QED BY <1>1, <2>1, <2>2 DEF ThreadsInv, QueriesInv
<1> QED BY <1>5, <1>8, <1>9 DEF ThreadsInv

LEMMA ExpiredStep == ASSUME ThreadsInv, Expired PROVE ThreadsInv'
<1>1. /\ batch # <<>> /\ batch' = Tail(batch) /\ executed' = executed \cup {Head(batch)}
      /\ UNCHANGED <<dState, dpc, cur, flushed, taskList, owed, posted, sent,
                     dbState, wpc, taken, queries, accepted, ran>>
    BY DEF Expired, listVars, workerVars, queryVars
<1>2. batch \in Seq(Task) /\ WorkOnce(batch) /\ WorkOnce(taskList)
    BY DEF ThreadsInv, TypeInv, TasksInv
<1>3. /\ batch' \in Seq(Task) /\ Head(batch) \in Task
      /\ Elements(batch') \subseteq Elements(batch) /\ WorkOnce(batch')
    BY <1>1, <1>2, TailFacts
<1>4. TypeInv'
    BY <1>1, <1>3 DEF ThreadsInv, TypeInv
<1>5. NoNewWork /\ QueriesStay
    BY <1>1, <1>2, <1>3 DEF NoNewWork, QueriesStay, queryVars
<1> QED BY <1>4, <1>5, QueriesKept DEF ThreadsInv

\* Steps of the dispatcher that only go on, and the notifications.
LEMMA GoOnStep ==
    ASSUME ThreadsInv,
           NotifyDispatcher \/ Test \/ Spurious \/ BatchDone \/ NotifyWorker \/ FlushDone
             \/ StopDatabase \/ StopDispatcher \/ ShutDatabase
    PROVE  ThreadsInv'
<1>1. CASE NotifyDispatcher
    <2>1. NoNewWork
        BY <1>1, NothingNew DEF NotifyDispatcher
    <2>2. QueriesStay
        BY <1>1 DEF NotifyDispatcher, QueriesStay, workerVars, queryVars
    <2>3. TypeInv'
        BY <1>1 DEF NotifyDispatcher, ThreadsInv, TypeInv, workerVars, queryVars
    <2> QED BY <2>1, <2>2, <2>3, QueriesKept DEF ThreadsInv
<1>2. CASE Test
    <2>1. NoNewWork
        BY <1>2, NothingNew DEF Test, GoTo, listVars
    <2>2. QueriesStay
        BY <1>2 DEF Test, GoTo, QueriesStay, workerVars, queryVars
    <2>3. TypeInv'
        BY <1>2 DEF Test, GoTo, ThreadsInv, TypeInv, listVars, workerVars, queryVars
    <2> QED BY <2>1, <2>2, <2>3, QueriesKept DEF ThreadsInv
<1>3. CASE Spurious
    <2>1. NoNewWork
        BY <1>3, NothingNew DEF Spurious, GoTo, listVars
    <2>2. QueriesStay
        BY <1>3 DEF Spurious, GoTo, QueriesStay, workerVars, queryVars
    <2>3. TypeInv'
        BY <1>3 DEF Spurious, GoTo, ThreadsInv, TypeInv, listVars, workerVars, queryVars
    <2> QED BY <2>1, <2>2, <2>3, QueriesKept DEF ThreadsInv
<1>4. CASE BatchDone
    <2>1. NoNewWork
        BY <1>4, NothingNew DEF BatchDone, listVars
    <2>2. QueriesStay
        BY <1>4 DEF BatchDone, QueriesStay, workerVars, queryVars
    <2>3. TypeInv'
        BY <1>4 DEF BatchDone, ThreadsInv, TypeInv, listVars, workerVars, queryVars
    <2> QED BY <2>1, <2>2, <2>3, QueriesKept DEF ThreadsInv
<1>5. CASE NotifyWorker
    <2>1. NoNewWork
        BY <1>5, NothingNew DEF NotifyWorker, GoTo, listVars
    <2>2. QueriesStay
        BY <1>5 DEF NotifyWorker, GoTo, QueriesStay, queryVars
    <2>3. TypeInv'
        BY <1>5 DEF NotifyWorker, GoTo, ThreadsInv, TypeInv, listVars, queryVars
    <2> QED BY <2>1, <2>2, <2>3, QueriesKept DEF ThreadsInv
<1>6. CASE FlushDone
    <2>1. AfterFlush \in {"push", "notify", "run"}
        BY DEF AfterFlush
    <2>2. NoNewWork
        BY <1>6, <2>1, NothingNew DEF FlushDone, GoTo, listVars
    <2>3. QueriesStay
        BY <1>6, <2>1 DEF FlushDone, GoTo, QueriesStay, workerVars, queryVars
    <2>4. TypeInv'
        BY <1>6, <2>1 DEF FlushDone, GoTo, ThreadsInv, TypeInv, listVars, workerVars, queryVars
    <2> QED BY <2>2, <2>3, <2>4, QueriesKept DEF ThreadsInv
<1>7. CASE StopDatabase
    <2>1. NoNewWork
        BY <1>7, NothingNew DEF StopDatabase, GoTo, listVars
    <2>2. QueriesStay
        BY <1>7 DEF StopDatabase, GoTo, QueriesStay, queryVars
    <2>3. TypeInv'
        BY <1>7 DEF StopDatabase, GoTo, ThreadsInv, TypeInv, States, listVars, queryVars
    <2> QED BY <2>1, <2>2, <2>3, QueriesKept DEF ThreadsInv
<1>8. CASE StopDispatcher
    <2>1. NoNewWork
        BY <1>8, NothingNew DEF StopDispatcher, listVars
    <2>2. QueriesStay
        BY <1>8 DEF StopDispatcher, QueriesStay, workerVars, queryVars
    <2>3. TypeInv'
        BY <1>8 DEF StopDispatcher, ThreadsInv, TypeInv, States, listVars, workerVars, queryVars
    <2> QED BY <2>1, <2>2, <2>3, QueriesKept DEF ThreadsInv
<1>9. CASE ShutDatabase
    <2>1. NoNewWork
        BY <1>9, NothingNew DEF ShutDatabase, GoTo, listVars
    <2>2. QueriesStay
        BY <1>9 DEF ShutDatabase, GoTo, QueriesStay, queryVars
    <2>3. TypeInv'
        BY <1>9 DEF ShutDatabase, GoTo, ThreadsInv, TypeInv, States, listVars, queryVars
    <2> QED BY <2>1, <2>2, <2>3, QueriesKept DEF ThreadsInv
<1> QED BY <1>1, <1>2, <1>3, <1>4, <1>5, <1>6, <1>7, <1>8, <1>9

\* Taking over what is in the list, or sleeping.
LEMMA TakeStep == ASSUME ThreadsInv, Take \/ Woken PROVE ThreadsInv'
<1>1. CASE Take /\ Sleeps
    <2>1. /\ dpc = "take" /\ GoTo("asleep") /\ UNCHANGED taskList
          /\ UNCHANGED <<owed, posted, sent, executed, workerVars, queryVars>>
        BY <1>1 DEF Take
    <2>2. NoNewWork
        BY <2>1, NothingNew DEF GoTo
    <2>3. QueriesStay
        BY <2>1 DEF GoTo, QueriesStay, workerVars, queryVars
    <2>4. TypeInv'
        BY <2>1 DEF GoTo, ThreadsInv, TypeInv, workerVars, queryVars
    <2> QED BY <2>2, <2>3, <2>4, QueriesKept DEF ThreadsInv
<1>2. CASE Take /\ ~Sleeps
    BY <1>2, SwapStep DEF Take
<1>3. CASE Woken
    BY <1>3, SwapStep DEF Woken
<1> QED BY <1>1, <1>2, <1>3

\* The tasks of the shutdown are no work.
LEMMA EndTasksStep == ASSUME ThreadsInv, PushEnd \/ ShutDispatcher PROVE ThreadsInv'
<1>1. TypeInv /\ WorkOnce(taskList) /\ WorkOnce(batch)
    BY DEF ThreadsInv, TasksInv
<1>2. CASE PushEnd
    <2>1. /\ dpc = "push" /\ dpc' = "stopDatabase"
          /\ UNCHANGED <<dState, batch, cur, flushed, sent, executed,
                         dbState, wpc, taken, queries, accepted, ran>>
        BY <1>2 DEF PushEnd, GoTo, workerVars, queryVars
    <2>2. AddTask(End) /\ End \in Task /\ End \notin Works
        BY <1>2, TaskFacts DEF PushEnd
    <2>3. /\ taskList' \in Seq(Task) /\ owed' \in Nat /\ posted' \in SUBSET Task
          /\ Elements(taskList') \subseteq Elements(taskList) \cup {End} /\ WorkOnce(taskList')
        BY <1>1, <2>2, AddTaskFacts
    <2>4. NoNewWork
        BY <1>1, <2>1, <2>2, <2>3 DEF NoNewWork
    <2>5. QueriesStay
        BY <2>1 DEF QueriesStay, queryVars
    <2>6. TypeInv'
        BY <1>1, <2>1, <2>3 DEF TypeInv
    <2> QED BY <2>4, <2>5, <2>6, QueriesKept DEF ThreadsInv
<1>3. CASE ShutDispatcher
    <2>1. /\ dpc = "last" /\ dpc' = "run"
          /\ taskList' = Append(taskList, Terminate) /\ posted' = posted \cup {Terminate}
          /\ UNCHANGED <<dState, batch, cur, flushed, owed, sent, executed,
                         dbState, wpc, taken, queries, accepted, ran>>
        BY <1>3 DEF ShutDispatcher, LastTask, GoTo, workerVars, queryVars
    <2>2. Terminate \in Task /\ Terminate \notin Works /\ taskList \in Seq(Task)
        BY <1>1, TaskFacts DEF TypeInv
    <2>3. /\ taskList' \in Seq(Task) /\ WorkOnce(taskList')
          /\ Elements(taskList') = Elements(taskList) \cup {Terminate}
        BY <1>1, <2>1, <2>2, AppendFacts
    <2>4. NoNewWork
        BY <1>1, <2>1, <2>2, <2>3 DEF NoNewWork
    <2>5. QueriesStay
        BY <2>1 DEF QueriesStay, queryVars
    <2>6. TypeInv'
        BY <1>1, <2>1, <2>2, <2>3 DEF TypeInv
    <2> QED BY <2>4, <2>5, <2>6, QueriesKept DEF ThreadsInv
<1> QED BY <1>2, <1>3

-----------------------------------------------------------------------------
(* Queries                                                                   *)

LEMMA AddQueryStep == ASSUME ThreadsInv, AddQuery PROVE ThreadsInv'
<1>1. /\ dpc = "add" /\ dpc' \in {"run", "notify"}
      /\ UNCHANGED <<dState, batch, cur, flushed, ran, taskList, owed, posted, sent, executed,
                     dbState, wpc, taken>>
    BY DEF AddQuery, GoTo, listVars, workerVars
<1>2. NoNewWork
    BY <1>1, NothingNew
<1>3. /\ TasksInv'
      /\ \A q \in accepted : /\ Work(q) \in sent'
                             /\ Work(q) \notin (Elements(taskList) \cup Elements(batch) \cup InHand)'
    BY <1>2, WorkKept
<1>4. cur \in Works /\ InHand = {cur}
    BY <1>1 DEF ThreadsInv, TasksInv, InHand
<1>5. cur.of \in Queries /\ cur = Work(cur.of) /\ cur.of # NoQuery
    BY <1>4, TaskFacts
<1>6. cur.of \notin accepted /\ cur \in sent
    BY <1>4, <1>5 DEF ThreadsInv, TasksInv, QueriesInv
<1>7. CASE dbState = "RUNNING"
    <2>1. queries' = Append(queries, cur.of) /\ accepted' = accepted \cup {cur.of}
        BY <1>7 DEF AddQuery
    <2>2. queries \in Seq(Queries) /\ Distinct(queries) /\ Elements(queries) \subseteq accepted
        BY DEF ThreadsInv, TypeInv, QueriesInv
    <2>3. /\ queries' \in Seq(Queries) /\ Distinct(queries')
          /\ Elements(queries') = Elements(queries) \cup {cur.of}
        BY <1>5, <1>6, <2>1, <2>2, AppendFacts
    <2>4. TypeInv'
        BY <1>1, <1>5, <2>1, <2>3 DEF ThreadsInv, TypeInv
    <2>5. QueriesInv'
        <3>1. \A q \in accepted' :
                  /\ Work(q) \in sent'
                  /\ Work(q) \notin (Elements(taskList) \cup Elements(batch) \cup InHand)'
            <4>1. InHand' = {}
                BY <1>1 DEF InHand
            <4>2. cur \notin Elements(taskList) \cup Elements(batch)
                BY <1>4 DEF ThreadsInv, TasksInv
            <4> QED BY <1>1, <1>3, <1>5, <1>6, <2>1, <4>1, <4>2
        <3>2. ran \subseteq accepted /\ flushed \in accepted \cup {NoQuery} /\ taken \in accepted \cup {NoQuery}
            BY DEF ThreadsInv, QueriesInv
        <3>3. \A q \in Elements(queries') : q \notin ran' /\ q # flushed' /\ q # taken'
            BY <1>1, <1>5, <1>6, <2>3, <3>2 DEF ThreadsInv, QueriesInv
        <3> QED BY <1>1, <2>1, <2>2, <2>3, <3>1, <3>2, <3>3 DEF ThreadsInv, QueriesInv
    <2> QED BY <1>3, <2>4, <2>5 DEF ThreadsInv
<1>8. CASE dbState # "RUNNING"
    <2>1. UNCHANGED <<queries, accepted>>
        BY <1>8 DEF AddQuery
    <2>2. QueriesStay
        BY <1>1, <2>1 DEF QueriesStay, queryVars
    <2>3. TypeInv'
        BY <1>1, <2>1 DEF ThreadsInv, TypeInv
    <2> QED BY <1>2, <2>2, <2>3, QueriesKept DEF ThreadsInv
<1> QED BY <1>7, <1>8

\* Whoever takes the first query out of the list is the only one to have it.
LEMMA FirstQuery ==
    ASSUME ThreadsInv, queries # <<>>, queries' = Tail(queries)
    PROVE  /\ queries' \in Seq(Queries) /\ Distinct(queries')
           /\ Elements(queries) = {Head(queries)} \cup Elements(queries')
           /\ Head(queries) \in accepted /\ Head(queries) \in Queries /\ Head(queries) # NoQuery
           /\ Head(queries) \notin Elements(queries') \cup ran \cup {flushed, taken}
<1>1. queries \in Seq(Queries) /\ Distinct(queries)
    BY DEF ThreadsInv, TypeInv, QueriesInv
<1>2. /\ queries' \in Seq(Queries) /\ Distinct(queries')
      /\ Elements(queries) = {Head(queries)} \cup Elements(queries')
      /\ Head(queries) \in Elements(queries) /\ Head(queries) \in Queries
      /\ Head(queries) \notin Elements(queries')
    BY <1>1, TailFacts
<1>3. Head(queries) \in accepted /\ Head(queries) \notin ran \cup {flushed, taken}
    BY <1>2 DEF ThreadsInv, QueriesInv
<1> QED BY <1>2, <1>3, TaskFacts

LEMMA FlushNextStep == ASSUME ThreadsInv, FlushNext PROVE ThreadsInv'
<1> DEFINE q == Head(queries)
<1>1. /\ dpc = "flush" /\ queries # <<>> /\ flushed' = q /\ queries' = Tail(queries) /\ dpc' = "query"
      /\ UNCHANGED <<dState, batch, cur, accepted, ran, taskList, owed, posted, sent, executed,
                     dbState, wpc, taken>>
    BY DEF FlushNext, listVars, workerVars
<1>2. /\ queries' \in Seq(Queries) /\ Distinct(queries')
      /\ Elements(queries) = {q} \cup Elements(queries')
      /\ q \in accepted /\ q \in Queries /\ q # NoQuery
      /\ q \notin Elements(queries') \cup ran \cup {flushed, taken}
    BY <1>1, FirstQuery
<1> HIDE DEF q
<1>3. NoNewWork
    BY <1>1, NothingNew
<1>4. TypeInv'
    BY <1>1, <1>2 DEF ThreadsInv, TypeInv
<1>5. QueriesInv'
    <2>1. \A r \in accepted : /\ Work(r) \in sent'
                              /\ Work(r) \notin (Elements(taskList) \cup Elements(batch) \cup InHand)'
        BY <1>3, WorkKept
    <2>2. flushed = NoQuery /\ ran \subseteq accepted /\ NoQuery \notin accepted
        BY <1>1, TaskFacts DEF ThreadsInv, TypeInv, QueriesInv
    <2>3. Elements(queries') \subseteq accepted /\ accepted \subseteq Elements(queries') \cup {q, taken} \cup ran
        BY <1>2, <2>2 DEF ThreadsInv, QueriesInv
    <2>4. \A r \in Elements(queries') : r \notin ran /\ r # q /\ r # taken
        BY <1>2 DEF ThreadsInv, QueriesInv
    <2>5. /\ taken \in accepted \cup {NoQuery} /\ (wpc = "query" <=> taken # NoQuery)
          /\ taken # NoQuery => taken \notin ran
        BY DEF ThreadsInv, QueriesInv
    <2> QED BY <1>1, <1>2, <2>1, <2>2, <2>3, <2>4, <2>5 DEF QueriesInv
<1> QED BY <1>3, <1>4, <1>5, WorkKept DEF ThreadsInv

\* A query runs; its callback is no work.
LEMMA RunTaskFacts ==
    ASSUME ThreadsInv, NEW q \in Queries, RunTask(q)
    PROVE  /\ ran' = ran \cup {q}
           /\ taskList' \in Seq(Task) /\ owed' \in Nat /\ posted' \in SUBSET Task
           /\ WorkOnce(taskList')
           /\ \A w \in Works : w \in Elements(taskList') => w \in Elements(taskList)
<1>1. ran' = ran \cup {q} /\ TypeInv /\ WorkOnce(taskList)
    BY DEF RunTask, ThreadsInv, TasksInv
<1>2. CASE q \in Callbacks
    <2>1. AddTask(Callback(q)) /\ Callback(q) \in Task /\ Callback(q) \notin Works
        BY <1>2, TaskFacts DEF RunTask
    <2>2. /\ taskList' \in Seq(Task) /\ owed' \in Nat /\ posted' \in SUBSET Task
          /\ Elements(taskList') \subseteq Elements(taskList) \cup {Callback(q)} /\ WorkOnce(taskList')
        BY <1>1, <2>1, AddTaskFacts
    <2> QED BY <1>1, <2>1, <2>2
<1>3. CASE q \notin Callbacks
    BY <1>1, <1>3 DEF RunTask, listVars, TypeInv
<1> QED BY <1>2, <1>3

LEMMA FlushRunStep == ASSUME ThreadsInv, FlushRun PROVE ThreadsInv'
<1>1. /\ dpc = "query" /\ RunTask(flushed) /\ flushed' = NoQuery /\ dpc' = "flush"
      /\ UNCHANGED <<dState, batch, cur, queries, accepted, sent, executed, dbState, wpc, taken>>
    BY DEF FlushRun, workerVars
<1>2. flushed \in Queries /\ flushed \in accepted /\ flushed # taken /\ flushed # NoQuery
    BY <1>1 DEF ThreadsInv, TypeInv, QueriesInv
<1>3. /\ ran' = ran \cup {flushed}
      /\ taskList' \in Seq(Task) /\ owed' \in Nat /\ posted' \in SUBSET Task
      /\ WorkOnce(taskList')
      /\ \A w \in Works : w \in Elements(taskList') => w \in Elements(taskList)
    BY <1>1, <1>2, RunTaskFacts
<1>4. NoNewWork
    BY <1>1, <1>3 DEF NoNewWork, ThreadsInv, TasksInv
<1>5. TypeInv'
    BY <1>1, <1>2, <1>3 DEF ThreadsInv, TypeInv
<1>6. QueriesInv'
    <2>1. \A q \in accepted : /\ Work(q) \in sent'
                              /\ Work(q) \notin (Elements(taskList) \cup Elements(batch) \cup InHand)'
        BY <1>4, WorkKept
    <2>2. Distinct(queries') /\ Elements(queries') \subseteq accepted' /\ ran' \subseteq accepted'
        BY <1>1, <1>2, <1>3 DEF ThreadsInv, QueriesInv
    <2>3. \A q \in Elements(queries') : q \notin ran' /\ q # NoQuery /\ q # taken
        BY <1>1, <1>2, <1>3, TaskFacts DEF ThreadsInv, TypeInv, QueriesInv
    <2>4. /\ taken # NoQuery => taken \notin ran'
          /\ accepted \subseteq Elements(queries) \cup {taken} \cup ran'
        BY <1>2, <1>3 DEF ThreadsInv, QueriesInv
    <2>5. taken \in accepted \cup {NoQuery} /\ (wpc = "query" <=> taken # NoQuery)
        BY DEF ThreadsInv, QueriesInv
    <2> QED BY <1>1, <2>1, <2>2, <2>3, <2>4, <2>5 DEF QueriesInv
<1> QED BY <1>4, <1>5, <1>6, WorkKept DEF ThreadsInv

-----------------------------------------------------------------------------
(* The worker                                                                *)

LEMMA TakeQueryStep ==
    ASSUME ThreadsInv, TakeQuery, wpc \in {"take", "woken"},
           UNCHANGED <<dbState, accepted, ran, dispatcherVars, listVars, sent, executed>>
    PROVE  ThreadsInv'
<1> DEFINE q == Head(queries)
<1>1. /\ queries # <<>> /\ taken' = q /\ queries' = Tail(queries) /\ wpc' = "query"
      /\ UNCHANGED <<dState, batch, dpc, cur, flushed, accepted, ran, taskList, owed, posted, sent,
                     executed, dbState>>
    BY DEF TakeQuery, dispatcherVars, listVars
<1>2. /\ queries' \in Seq(Queries) /\ Distinct(queries')
      /\ Elements(queries) = {q} \cup Elements(queries')
      /\ q \in accepted /\ q \in Queries /\ q # NoQuery
      /\ q \notin Elements(queries') \cup ran \cup {flushed, taken}
    BY <1>1, FirstQuery
<1> HIDE DEF q
<1>3. NoNewWork
    BY <1>1, NothingNew
<1>4. TypeInv'
    BY <1>1, <1>2 DEF ThreadsInv, TypeInv
<1>5. QueriesInv'
    <2>1. \A r \in accepted : /\ Work(r) \in sent'
                              /\ Work(r) \notin (Elements(taskList) \cup Elements(batch) \cup InHand)'
        BY <1>3, WorkKept
    <2>2. taken = NoQuery /\ ran \subseteq accepted /\ NoQuery \notin accepted
        BY <1>1, TaskFacts DEF ThreadsInv, TypeInv, QueriesInv
    <2>3. Elements(queries') \subseteq accepted /\ accepted \subseteq Elements(queries') \cup {q, flushed} \cup ran
        BY <1>2, <2>2 DEF ThreadsInv, QueriesInv
    <2>4. \A r \in Elements(queries') : r \notin ran /\ r # q /\ r # flushed
        BY <1>2 DEF ThreadsInv, QueriesInv
    <2>5. /\ flushed \in accepted \cup {NoQuery} /\ (dpc = "query" <=> flushed # NoQuery)
          /\ flushed # NoQuery => flushed \notin ran
        BY DEF ThreadsInv, QueriesInv
    <2> QED BY <1>1, <1>2, <2>1, <2>2, <2>3, <2>4, <2>5 DEF QueriesInv
<1> QED BY <1>3, <1>4, <1>5, WorkKept DEF ThreadsInv

\* The worker goes on, with no query taken out.
LEMMA WorkerGoesOn ==
    ASSUME ThreadsInv, wpc # "query", wpc' \in {"test", "take", "asleep", "woken", "ended"},
           UNCHANGED <<dbState, taken, dispatcherVars, listVars, sent, executed, queryVars>>
    PROVE  ThreadsInv'
<1>1. NoNewWork
    BY NothingNew DEF dispatcherVars, listVars
<1>2. QueriesStay
    BY DEF QueriesStay, dispatcherVars, queryVars
<1>3. TypeInv'
    BY DEF ThreadsInv, TypeInv, dispatcherVars, listVars, queryVars
<1> QED BY <1>1, <1>2, <1>3, QueriesKept DEF ThreadsInv

LEMMA WorkerRunStep == ASSUME ThreadsInv, WorkerRun PROVE ThreadsInv'
<1>1. /\ wpc = "query" /\ RunTask(taken) /\ taken' = NoQuery /\ wpc' = "test"
      /\ UNCHANGED <<dState, batch, dpc, cur, flushed, queries, accepted, sent, executed, dbState>>
    BY DEF WorkerRun, dispatcherVars
<1>2. taken \in Queries /\ taken \in accepted /\ flushed # taken /\ taken # NoQuery
    BY <1>1 DEF ThreadsInv, TypeInv, QueriesInv
<1>3. /\ ran' = ran \cup {taken}
      /\ taskList' \in Seq(Task) /\ owed' \in Nat /\ posted' \in SUBSET Task
      /\ WorkOnce(taskList')
      /\ \A w \in Works : w \in Elements(taskList') => w \in Elements(taskList)
    BY <1>1, <1>2, RunTaskFacts
<1>4. NoNewWork
    BY <1>1, <1>3 DEF NoNewWork, ThreadsInv, TasksInv
<1>5. TypeInv'
    BY <1>1, <1>2, <1>3 DEF ThreadsInv, TypeInv
<1>6. QueriesInv'
    <2>1. \A q \in accepted : /\ Work(q) \in sent'
                              /\ Work(q) \notin (Elements(taskList) \cup Elements(batch) \cup InHand)'
        BY <1>4, WorkKept
    <2>2. Distinct(queries') /\ Elements(queries') \subseteq accepted' /\ ran' \subseteq accepted'
        BY <1>1, <1>2, <1>3 DEF ThreadsInv, QueriesInv
    <2>3. \A q \in Elements(queries') : q \notin ran' /\ q # NoQuery /\ q # flushed
        BY <1>1, <1>2, <1>3, TaskFacts DEF ThreadsInv, TypeInv, QueriesInv
    <2>4. /\ flushed # NoQuery => flushed \notin ran'
          /\ accepted \subseteq Elements(queries) \cup {flushed} \cup ran'
        BY <1>2, <1>3 DEF ThreadsInv, QueriesInv
    <2>5. flushed \in accepted \cup {NoQuery} /\ (dpc = "query" <=> flushed # NoQuery)
        BY DEF ThreadsInv, QueriesInv
    <2> QED BY <1>1, <2>1, <2>2, <2>3, <2>4, <2>5 DEF QueriesInv
<1> QED BY <1>4, <1>5, <1>6, WorkKept DEF ThreadsInv

LEMMA WorkerStep == ASSUME ThreadsInv, Worker \/ WorkerSpurious PROVE ThreadsInv'
<1>1. CASE WorkerTest
    BY <1>1, WorkerGoesOn DEF WorkerTest
<1>2. CASE WorkerTake
    <2>1. CASE TakeQuery
        BY <1>2, <2>1, TakeQueryStep DEF WorkerTake
    <2>2. CASE ~TakeQuery
        BY <1>2, <2>2, WorkerGoesOn DEF WorkerTake, queryVars
    <2> QED BY <2>1, <2>2
<1>3. CASE WorkerWoken
    <2>1. CASE TakeQuery
        BY <1>3, <2>1, TakeQueryStep DEF WorkerWoken
    <2>2. CASE ~TakeQuery
        BY <1>3, <2>2, WorkerGoesOn DEF WorkerWoken, queryVars
    <2> QED BY <2>1, <2>2
<1>4. CASE WorkerSpurious
    BY <1>4, WorkerGoesOn DEF WorkerSpurious
<1>5. CASE WorkerRun
    BY <1>5, WorkerRunStep
<1> QED BY <1>1, <1>2, <1>3, <1>4, <1>5 DEF Worker

-----------------------------------------------------------------------------
(* The theorems                                                              *)

LEMMA InitInv == Init => ThreadsInv
<1> SUFFICES ASSUME Init PROVE ThreadsInv
    OBVIOUS
<1>1. TypeInv
    BY DEF Init, TypeInv, States
<1>2. TasksInv
    BY NothingFacts DEF Init, TasksInv, InHand
<1>3. QueriesInv
    BY NothingFacts DEF Init, QueriesInv
<1> QED BY <1>1, <1>2, <1>3 DEF ThreadsInv

LEMMA StepInv == ThreadsInv /\ [Next]_vars => ThreadsInv'
<1> SUFFICES ASSUME ThreadsInv, [Next]_vars PROVE ThreadsInv'
    OBVIOUS
<1>1. CASE Post
    BY <1>1, PostStep
<1>2. CASE NotifyDispatcher \/ Spurious
    BY <1>2, GoOnStep
<1>3. CASE Dispatcher
    BY <1>3, GoOnStep, TakeStep, ExecuteStep, ExpiredStep, EndTasksStep, AddQueryStep,
       FlushNextStep, FlushRunStep DEF Dispatcher
<1>4. CASE Worker \/ WorkerSpurious
    BY <1>4, WorkerStep
<1>5. CASE UNCHANGED vars
    <2>1. NoNewWork
        BY <1>5, NothingNew DEF vars, dispatcherVars, listVars
    <2>2. QueriesStay
        BY <1>5 DEF vars, QueriesStay, dispatcherVars, workerVars, queryVars
    <2>3. TypeInv'
        BY <1>5 DEF vars, ThreadsInv, TypeInv, dispatcherVars, listVars, workerVars, queryVars
    <2> QED BY <2>1, <2>2, <2>3, QueriesKept DEF ThreadsInv
<1> QED BY <1>1, <1>2, <1>3, <1>4, <1>5 DEF Next

\* A work task is in the dispatcher's list, in its batch, or in hand, once; its
\* query is accepted at most once, and is in DatabaseTasks::tasks, taken out by
\* flush(), taken out by the worker, or has run.
THEOREM Invariance == Spec => []ThreadsInv
    BY InitInv, StepInv, PTL DEF Spec

\* No query is lost: what DatabaseTasks::addTask took is in the list, taken out
\* by flush() or by the worker, or has run, whoever empties the list meanwhile
\* and whenever the shutdown comes.
THEOREM NoQueryIsLost ==
    Spec => [](\A q \in accepted : q \in Elements(queries) \cup {flushed, taken} \cup ran)
<1>1. ThreadsInv => \A q \in accepted : q \in Elements(queries) \cup {flushed, taken} \cup ran
    BY DEF ThreadsInv, QueriesInv
<1> QED BY <1>1, Invariance, PTL

\* The types of the two threads; and flush() never runs a query that the worker
\* has taken out, nor either of them one that has run (databasetasks.cpp).
THEOREM QueriesRunOnce == Spec => []TypeOK
<1>1. ThreadsInv => TypeOK
    BY DEF ThreadsInv, TypeInv, QueriesInv, TypeOK
<1> QED BY <1>1, Invariance, PTL
-----------------------------------------------------------------------------
(* Wakeups, and the way to the end                                           *)

Waiting == Elements(taskList) \cup Elements(batch)

EndsWith(s, t) == s # <<>> /\ s[Len(s)] = t

\* A thread that sleeps over work is about to be notified.
WakeInv ==
    /\ dpc = "asleep" /\ taskList # <<>> => owed > 0
    /\ wpc = "asleep" /\ queries # <<>> => dpc = "notify"

\* What was posted is waiting, in one place, or has been executed.
OnceInv ==
    /\ posted = executed \cup Waiting
    /\ Distinct(taskList) /\ Distinct(batch)
    /\ \A t \in Elements(taskList) : t \notin Elements(batch)
    /\ \A t \in Waiting : t \notin executed
    /\ \A t \in FromOutside : t \in posted => t \in sent
    /\ \A q \in Queries : Callback(q) \in posted => q \in ran
    /\ dpc \in {"test", "take", "asleep", "woken", "ended"} => batch = <<>>

\* The dispatcher is in no task of the shutdown.
Ordinary ==
    \/ dpc \in {"test", "take", "asleep", "woken", "run"}
    \/ dpc \in {"add", "notify"} /\ cur \in Works
    \/ dpc \in {"flush", "query"} /\ cur.kind = "save"

\* Both threads take tasks, until the last save has been made ...
Working ==
    /\ dState = "RUNNING" /\ dbState = "RUNNING" /\ End \notin posted /\ Terminate \notin posted
    /\ \/ Ordinary /\ Close \notin executed
       \/ cur = Close /\ Close \in executed /\ dpc \in {"flush", "query", "push"}

\* ... Game::shutdown is posted while the dispatcher still takes it ...
Pushed ==
    /\ dState = "RUNNING" /\ End \in Waiting /\ Terminate \notin posted /\ Close \in executed
    /\ \/ dpc = "stopDatabase" /\ dbState = "RUNNING"
       \/ dpc = "stopDispatcher" /\ dbState = "CLOSING"

\* ... nothing more is taken, and what is there is run ...
Closing ==
    /\ dState = "CLOSING" /\ dbState = "CLOSING" /\ Terminate \notin posted /\ Close \in executed
    /\ \/ Ordinary /\ End \in Waiting
       \/ dpc = "shut" /\ cur = End /\ End \in executed

\* ... Game::shutdown empties the list of queries ...
Flushing ==
    /\ dState = "CLOSING" /\ dbState = "TERMINATED" /\ Terminate \notin posted
    /\ Close \in executed /\ End \in executed /\ cur = End
    /\ \/ dpc \in {"flush", "query"}
       \/ dpc \in {"notify", "last"} /\ queries = <<>>

\* ... the task that ends the thread is the last one ...
Ending ==
    /\ dState = "CLOSING" /\ dbState = "TERMINATED" /\ queries = <<>>
    /\ Close \in executed /\ End \in executed /\ Ordinary
    /\ \/ EndsWith(taskList, Terminate)
       \/ taskList = <<>> /\ EndsWith(batch, Terminate)

\* ... and nothing is left after it.
Ended ==
    /\ dState = "TERMINATED" /\ dbState = "TERMINATED"
    /\ queries = <<>> /\ taskList = <<>> /\ batch = <<>>
    /\ dpc \in {"run", "test", "ended"}

PhaseInv == Working \/ Pushed \/ Closing \/ Flushing \/ Ending \/ Ended

ShutdownInv == WakeInv /\ OnceInv /\ PhaseInv

\* What a task is by its kind.
LEMMA KindFacts ==
    /\ Close.kind = "close" /\ End.kind = "end" /\ Terminate.kind = "terminate"
    /\ \A w \in Works : w.kind = "work"
    /\ \A q : Callback(q).kind = "callback"
    /\ Close \in Task /\ End \in Task /\ Terminate \in Task
    /\ End \notin FromOutside /\ Terminate \notin FromOutside
    /\ \A q : Callback(q) \notin FromOutside
    /\ \A q, r : Callback(q) = Callback(r) => q = r
    /\ \A t \in Task : /\ t.kind \in {"work", "save", "close", "callback", "end", "terminate"}
                       /\ t.kind = "work" => t \in Works
                       /\ t.kind = "close" => t = Close
                       /\ t.kind = "end" => t = End
                       /\ t.kind = "terminate" => t = Terminate
<1>1. /\ Close.kind = "close" /\ End.kind = "end" /\ Terminate.kind = "terminate"
      /\ \A w \in Works : w.kind = "work"
      /\ \A q : Callback(q).kind = "callback"
      /\ \A q, r : Callback(q) = Callback(r) => q = r
    BY DEF Close, End, Terminate, Works, Work, Callback
<1>2. Close \in Task /\ End \in Task /\ Terminate \in Task
    BY DEF Task, FromOutside
<1>3. \A t \in FromOutside : t.kind \in {"work", "save", "close"}
    BY DEF FromOutside, Work, Save, Close
<1>4. End \notin FromOutside /\ Terminate \notin FromOutside /\ \A q : Callback(q) \notin FromOutside
    BY <1>1, <1>3
<1>5. \A t \in Task : /\ t.kind \in {"work", "save", "close", "callback", "end", "terminate"}
                      /\ t.kind = "work" => t \in Works
                      /\ t.kind = "close" => t = Close
                      /\ t.kind = "end" => t = End
                      /\ t.kind = "terminate" => t = Terminate
    BY DEF Task, FromOutside, Works, Work, Save, Close, Callback, End, Terminate
<1> QED BY <1>1, <1>2, <1>4, <1>5

\* The last element of a list, when the first is taken out or one is added.
LEMMA LastFacts ==
    ASSUME NEW S, NEW s \in Seq(S), NEW t \in S
    PROVE  /\ EndsWith(Append(s, t), t)
           /\ EndsWith(s, t) => t \in Elements(s)
           /\ EndsWith(s, t) /\ Head(s) # t => EndsWith(Tail(s), t)
           /\ EndsWith(s, t) /\ Head(s) = t /\ Distinct(s) => Tail(s) = <<>>
           /\ ~EndsWith(<<>>, t)
<1>1. /\ Len(Append(s, t)) = Len(s) + 1 /\ Append(s, t)[Len(s) + 1] = t /\ Append(s, t) # <<>>
      /\ DOMAIN s = 1..Len(s) /\ Len(s) \in Nat
    OBVIOUS
<1>2. CASE s = <<>>
    BY <1>1, <1>2 DEF EndsWith
<1>3. CASE s # <<>>
    <2>1. /\ Tail(s) \in Seq(S) /\ Len(Tail(s)) = Len(s) - 1 /\ Head(s) = s[1] /\ Len(s) > 0
          /\ \A i \in 1..(Len(s) - 1) : Tail(s)[i] = s[i + 1]
        BY <1>3
    <2>2. EndsWith(s, t) => t \in Elements(s)
        BY <1>1, <2>1 DEF EndsWith, Elements
    <2>3. ASSUME EndsWith(s, t), Head(s) # t PROVE EndsWith(Tail(s), t)
        <3>1. Len(s) # 1 /\ s[Len(s)] = t
            BY <2>1, <2>3 DEF EndsWith
        <3>2. Len(s) - 1 \in 1..(Len(s) - 1) /\ (Len(s) - 1) + 1 = Len(s)
            BY <1>1, <2>1, <3>1
        <3>3. Tail(s)[Len(s) - 1] = t
            BY <2>1, <3>1, <3>2
        <3>4. Tail(s) # <<>>
            BY <2>1, <3>2
        <3> QED BY <2>1, <3>3, <3>4 DEF EndsWith
    <2>4. ASSUME EndsWith(s, t), Head(s) = t, Distinct(s) PROVE Tail(s) = <<>>
        <3>1. 1 = Len(s)
            BY <1>1, <2>1, <2>4 DEF EndsWith, Distinct
        <3>2. \A n \in Nat : n = 1 => n - 1 = 0
            OBVIOUS
        <3>3. Len(s) - 1 = 0
            BY <1>1, <3>1, <3>2, Zenon
        <3>4. Len(Tail(s)) = 0
            BY <2>1, <3>3, Zenon
        <3> QED BY <2>1, <3>4, EmptySeq
    <2> QED BY <1>1, <2>2, <2>3, <2>4 DEF EndsWith
<1> QED BY <1>2, <1>3

-----------------------------------------------------------------------------
(* Tasks are in one place                                                    *)

Between == {"test", "take", "asleep", "woken", "ended"}

LEMMA OnceListsStay ==
    ASSUME OnceInv, UNCHANGED <<taskList, batch, posted, executed>>,
           sent \subseteq sent', ran \subseteq ran',
           dpc' \in Between => dpc \in Between \/ batch = <<>>
    PROVE  OnceInv'
    BY DEF OnceInv, Waiting, Between

\* A task that was never posted is added.
LEMMA OnceAppended ==
    ASSUME TypeInv, OnceInv, NEW t \in Task, t \notin posted,
           taskList' = Append(taskList, t), posted' = posted \cup {t}, UNCHANGED <<batch, executed>>,
           sent \subseteq sent', ran \subseteq ran', dpc' \in Between => dpc \in Between,
           t \in FromOutside => t \in sent', \A q \in Queries : t = Callback(q) => q \in ran'
    PROVE  OnceInv'
<1>1. t \notin Elements(taskList) /\ t \notin Elements(batch) /\ t \notin executed
    BY DEF OnceInv, Waiting
<1>2. Elements(taskList') = Elements(taskList) \cup {t} /\ Distinct(taskList')
    BY <1>1, AppendFacts DEF TypeInv, OnceInv
<1>3. Waiting' = Waiting \cup {t} /\ posted' = executed' \cup Waiting'
    BY <1>2 DEF Waiting, OnceInv
<1>4. \A u \in FromOutside : u \in posted' => u \in sent'
    BY DEF OnceInv
<1>5. \A q \in Queries : Callback(q) \in posted' => q \in ran'
    BY DEF OnceInv
<1>6. dpc' \in {"test", "take", "asleep", "woken", "ended"} => batch' = <<>>
    BY DEF OnceInv, Between
<1> QED BY <1>1, <1>2, <1>3, <1>4, <1>5, <1>6 DEF OnceInv

\* The first task of the batch is executed, or dropped.
LEMMA OnceTail ==
    ASSUME TypeInv, OnceInv, batch # <<>>, batch' = Tail(batch),
           executed' = executed \cup {Head(batch)}, UNCHANGED <<taskList, posted, sent, ran>>,
           dpc' \notin Between
    PROVE  /\ OnceInv' /\ Head(batch) \in Waiting
           /\ Waiting = Waiting' \cup {Head(batch)}
<1> DEFINE t == Head(batch)
<1>1. /\ Elements(batch) = {t} \cup Elements(batch') /\ t \in Elements(batch)
      /\ Distinct(batch') /\ t \notin Elements(batch')
    BY TailFacts DEF TypeInv, OnceInv
<1> HIDE DEF t
<1>2. Waiting = Waiting' \cup {t} /\ t \notin Elements(taskList)
    BY <1>1 DEF Waiting, OnceInv
<1>3. posted' = executed' \cup Waiting'
    BY <1>2 DEF OnceInv, t
<1>4. \A u \in Waiting' : u \notin executed'
    BY <1>1, <1>2 DEF OnceInv, Waiting, t
<1>5. OnceInv'
    BY <1>1, <1>3, <1>4 DEF OnceInv, Between
<1> QED BY <1>1, <1>2, <1>5 DEF Waiting, t

\* The list becomes the batch.
LEMMA OnceSwap ==
    ASSUME OnceInv, Swap, dpc \in Between, UNCHANGED <<posted, executed, sent, ran>>
    PROVE  OnceInv' /\ Waiting' = Waiting
<1>1. batch = <<>> /\ batch' = taskList /\ taskList' = <<>> /\ dpc' = "run"
    BY DEF OnceInv, Swap, Between
<1>2. Elements(batch) = {} /\ Elements(taskList') = {} /\ Distinct(taskList')
    BY <1>1, NothingFacts
<1>3. Waiting' = Waiting
    BY <1>1, <1>2 DEF Waiting
<1> QED BY <1>1, <1>2, <1>3 DEF OnceInv

\* Dispatcher::addTask adds a task only in a server that is not shutting down,
\* and is to notify when the list was empty.
LEMMA AddTaskOnce ==
    ASSUME TypeInv, OnceInv, NEW t \in Task, t \notin posted, AddTask(t), UNCHANGED <<batch, executed>>,
           sent \subseteq sent', ran \subseteq ran', dpc' \in Between => dpc \in Between,
           t \in FromOutside => t \in sent', \A q \in Queries : t = Callback(q) => q \in ran'
    PROVE  /\ OnceInv' /\ Waiting \subseteq Waiting' /\ posted' \subseteq posted \cup {t}
           /\ dState = "RUNNING" => t \in Waiting'
           /\ dState # "RUNNING" => UNCHANGED <<taskList, posted>>
           /\ taskList' # <<>> => owed' > 0 \/ (taskList # <<>> /\ owed' = owed)
<1>1. CASE dState = "RUNNING"
    <2>1. /\ taskList' = Append(taskList, t) /\ posted' = posted \cup {t}
          /\ owed' = owed + (IF taskList = <<>> THEN 1 ELSE 0)
        BY <1>1 DEF AddTask
    <2>2. OnceInv'
        BY <2>1, OnceAppended
    <2>3. Elements(taskList') = Elements(taskList) \cup {t}
        BY <2>1, AppendFacts DEF TypeInv
    <2>4. owed' > 0 \/ (taskList # <<>> /\ owed' = owed)
        BY <2>1 DEF TypeInv
    <2> QED BY <1>1, <2>1, <2>2, <2>3, <2>4 DEF Waiting
<1>2. CASE dState # "RUNNING"
    <2>1. UNCHANGED <<taskList, owed, posted>>
        BY <1>2 DEF AddTask, listVars
    <2> QED BY <1>2, <2>1, OnceListsStay DEF Waiting
<1> QED BY <1>1, <1>2

-----------------------------------------------------------------------------
(* The phases, step by step                                                  *)

\* Whatever happens beside the dispatcher, or adds a task of the game, leaves
\* the phase as it is.
LEMMA PhaseStays ==
    ASSUME PhaseInv, UNCHANGED <<dState, dbState, cur, executed, batch>>,
           dpc' = dpc \/ (dpc \in {"flush", "query"} /\ dpc' \in {"flush", "query"})
             \/ (dpc = "asleep" /\ dpc' = "woken"),
           queries = <<>> => queries' = <<>>,
           Waiting \subseteq Waiting', End \in posted' => End \in posted,
           Terminate \in posted' => Terminate \in posted,
           dState # "RUNNING" => UNCHANGED <<taskList, posted>>
    PROVE  PhaseInv'
<1>1. Ordinary => Ordinary'
    BY DEF Ordinary
<1>2. Working => Working'
    BY <1>1 DEF Working
<1>3. Pushed => Pushed'
    BY DEF Pushed
<1>4. Closing => Closing'
    BY <1>1 DEF Closing
<1>5. Flushing => Flushing'
    BY DEF Flushing
<1>6. Ending => Ending'
    BY <1>1 DEF Ending, EndsWith
<1>7. Ended => Ended'
    BY DEF Ended
<1> QED BY <1>2, <1>3, <1>4, <1>5, <1>6, <1>7 DEF PhaseInv

\* A task from outside.
LEMMA PostEnds == ASSUME TypeInv, ShutdownInv, Post PROVE ShutdownInv'
<1>1. PICK t \in FromOutside \ sent : AddTask(t) /\ sent' = sent \cup {t}
    BY DEF Post
<1>2. UNCHANGED <<dState, batch, dpc, cur, flushed, executed, dbState, wpc, taken, queries, accepted, ran>>
    BY DEF Post, dispatcherVars, workerVars, queryVars
<1>3. t \in Task /\ t \notin posted /\ t # End /\ t # Terminate /\ \A q \in Queries : t # Callback(q)
    BY <1>1, KindFacts DEF Task, ShutdownInv, OnceInv
<1>4. /\ OnceInv' /\ Waiting \subseteq Waiting' /\ posted' \subseteq posted \cup {t}
      /\ dState # "RUNNING" => UNCHANGED <<taskList, posted>>
      /\ taskList' # <<>> => owed' > 0 \/ (taskList # <<>> /\ owed' = owed)
    BY <1>1, <1>2, <1>3, AddTaskOnce DEF ShutdownInv
<1>5. PhaseInv'
    BY <1>2, <1>3, <1>4, PhaseStays DEF ShutdownInv
<1>6. WakeInv'
    BY <1>2, <1>4 DEF ShutdownInv, WakeInv
<1> QED BY <1>4, <1>5, <1>6 DEF ShutdownInv

\* A query that runs, in flush() or in the worker, and its callback.
LEMMA RunTaskEnds ==
    ASSUME TypeInv, ShutdownInv, NEW q \in Queries, q \notin ran, RunTask(q),
           UNCHANGED <<dState, dbState, batch, cur, queries, sent, executed>>,
           \/ dpc = "query" /\ dpc' = "flush" /\ wpc' = wpc
           \/ dpc' = dpc /\ wpc = "query" /\ wpc' = "test"
    PROVE  ShutdownInv'
<1>1. ran' = ran \cup {q}
    BY DEF RunTask
<1>2. CASE q \in Callbacks
    <2> DEFINE t == Callback(q)
    <2>1. AddTask(t) /\ t \in Task /\ t \notin FromOutside /\ t # End /\ t # Terminate
        BY <1>2, KindFacts, TaskFacts DEF RunTask
    <2>2. t \notin posted /\ \A r \in Queries : t = Callback(r) => r \in ran'
        BY <1>1, KindFacts DEF ShutdownInv, OnceInv
    <2> HIDE DEF t
    <2>3. dpc' \in Between => dpc \in Between
        BY DEF Between
    <2>4. /\ OnceInv' /\ Waiting \subseteq Waiting' /\ posted' \subseteq posted \cup {t}
          /\ dState # "RUNNING" => UNCHANGED <<taskList, posted>>
          /\ taskList' # <<>> => owed' > 0 \/ (taskList # <<>> /\ owed' = owed)
        BY <1>1, <2>1, <2>2, <2>3, AddTaskOnce DEF ShutdownInv
    <2>5. PhaseInv'
        BY <2>1, <2>4, PhaseStays DEF ShutdownInv
    <2>6. WakeInv'
        BY <2>4 DEF ShutdownInv, WakeInv
    <2> QED BY <2>4, <2>5, <2>6 DEF ShutdownInv
<1>3. CASE q \notin Callbacks
    <2>1. UNCHANGED <<taskList, owed, posted>>
        BY <1>3 DEF RunTask, listVars
    <2>2. OnceInv' /\ Waiting' = Waiting
        BY <1>1, <2>1, OnceListsStay DEF ShutdownInv, Waiting, Between
    <2>3. PhaseInv'
        BY <2>1, <2>2, PhaseStays DEF ShutdownInv
    <2>4. WakeInv'
        BY <2>1 DEF ShutdownInv, WakeInv
    <2> QED BY <2>2, <2>3, <2>4 DEF ShutdownInv
<1> QED BY <1>2, <1>3

\* The two tasks of the shutdown are posted once.
LEMMA EndTasksEnd == ASSUME TypeInv, ShutdownInv, PushEnd \/ ShutDispatcher PROVE ShutdownInv'
<1>1. CASE PushEnd
    <2>1. /\ dpc = "push" /\ dpc' = "stopDatabase" /\ AddTask(End)
          /\ UNCHANGED <<dState, batch, cur, flushed, sent, executed,
                         dbState, wpc, taken, queries, accepted, ran>>
        BY <1>1 DEF PushEnd, GoTo, workerVars, queryVars
    <2>2. Working
        BY <2>1 DEF ShutdownInv, PhaseInv, Working, Pushed, Closing, Flushing, Ending, Ended, Ordinary
    <2>3. dState = "RUNNING" /\ dbState = "RUNNING" /\ End \notin posted /\ Terminate \notin posted /\ Close \in executed
        BY <2>1, <2>2 DEF Working, Ordinary
    <2>4. /\ OnceInv' /\ posted' \subseteq posted \cup {End} /\ End \in Waiting'
          /\ taskList' # <<>> => owed' > 0 \/ (taskList # <<>> /\ owed' = owed)
        BY <2>1, <2>3, KindFacts, AddTaskOnce DEF ShutdownInv, Between
    <2>5. Pushed'
        BY <2>1, <2>3, <2>4, KindFacts DEF Pushed
    <2>6. WakeInv'
        BY <2>1 DEF ShutdownInv, WakeInv
    <2> QED BY <2>4, <2>5, <2>6 DEF ShutdownInv, PhaseInv
<1>2. CASE ShutDispatcher
    <2>1. /\ dpc = "last" /\ dpc' = "run"
          /\ taskList' = Append(taskList, Terminate) /\ posted' = posted \cup {Terminate}
          /\ UNCHANGED <<dState, batch, cur, flushed, owed, sent, executed,
                         dbState, wpc, taken, queries, accepted, ran>>
        BY <1>2 DEF ShutDispatcher, LastTask, GoTo, workerVars, queryVars
    <2>2. Flushing
        BY <2>1 DEF ShutdownInv, PhaseInv, Working, Pushed, Closing, Flushing, Ending, Ended, Ordinary
    <2>3. /\ OnceInv' /\ EndsWith(taskList', Terminate)
        BY <2>1, <2>2, KindFacts, OnceAppended, LastFacts DEF ShutdownInv, Between, Flushing, TypeInv
    <2>4. Ending'
        BY <2>1, <2>2, <2>3 DEF Flushing, Ending, Ordinary
    <2>5. WakeInv'
        BY <2>1 DEF ShutdownInv, WakeInv
    <2> QED BY <2>3, <2>4, <2>5 DEF ShutdownInv, PhaseInv
<1> QED BY <1>1, <1>2

\* A task of the batch is executed.
LEMMA ExecuteEnds == ASSUME TypeInv, ShutdownInv, Execute PROVE ShutdownInv'
<1> DEFINE t == Head(batch)
<1>1. /\ dpc = "run" /\ batch # <<>> /\ cur' = t /\ batch' = Tail(batch)
      /\ executed' = executed \cup {t} /\ dpc' = Entry(t)
      /\ dState' = IF t = Terminate THEN "TERMINATED" ELSE dState
      /\ UNCHANGED <<flushed, taskList, owed, posted, sent, dbState, wpc, taken, queries, accepted, ran>>
    BY DEF Execute, listVars, workerVars, queryVars
<1>2. /\ t \in Task
      /\ EndsWith(batch, Terminate) /\ t # Terminate => EndsWith(batch', Terminate)
      /\ EndsWith(batch, Terminate) /\ t = Terminate => batch' = <<>>
      /\ EndsWith(batch, Terminate) => Terminate \in Elements(batch)
      /\ EndsWith(taskList, Terminate) => Terminate \in Elements(taskList)
    BY <1>1, TailFacts, LastFacts, KindFacts DEF TypeInv, ShutdownInv, OnceInv
<1>3. t \in Elements(batch)
    BY <1>1, TailFacts DEF TypeInv
<1>4. Entry(t) \in {"add", "flush", "shut", "run"}
    BY DEF Entry
<1>5. OnceInv' /\ t \in Waiting /\ Waiting = Waiting' \cup {t}
    BY <1>1, <1>4, OnceTail DEF ShutdownInv, Between
<1> HIDE DEF t
<1>6. t \notin executed /\ t \in posted
    BY <1>5 DEF ShutdownInv, OnceInv
<1>7. t \notin {Close, End, Terminate} => Ordinary'
    BY <1>1, <1>2, KindFacts DEF Ordinary, Entry
<1>8. /\ t = Close => dpc' = "flush"
      /\ t = End => dpc' = "shut"
      /\ t = Terminate => dpc' = "run" /\ Ordinary'
    BY <1>1, KindFacts DEF Entry, Ordinary
<1>9. PhaseInv'
    <2>1. CASE Working
        <3>1. CASE t = Close
            BY <1>1, <1>8, <2>1, <3>1, KindFacts DEF Working, PhaseInv
        <3>2. CASE t # Close
            BY <1>1, <1>6, <1>7, <2>1, <3>2 DEF Working, PhaseInv
        <3> QED BY <3>1, <3>2
    <2>2. CASE Pushed
        BY <1>1, <2>2 DEF Pushed
    <2>3. CASE Closing
        <3>1. CASE t = End
            BY <1>1, <1>8, <2>3, <3>1, KindFacts DEF Closing, PhaseInv
        <3>2. CASE t # End
            BY <1>1, <1>5, <1>6, <1>7, <2>3, <3>2 DEF Closing, PhaseInv
        <3> QED BY <3>1, <3>2
    <2>4. CASE Flushing
        BY <1>1, <2>4 DEF Flushing
    <2>5. CASE Ending
        <3>1. t # Close /\ t # End
            BY <1>6, <2>5 DEF Ending
        <3>2. CASE t = Terminate
            <4>1. taskList = <<>> /\ EndsWith(batch, Terminate)
                BY <1>2, <1>3, <2>5, <3>2 DEF Ending, ShutdownInv, OnceInv
            <4>2. Ended'
                BY <1>1, <1>2, <1>8, <2>5, <3>2, <4>1 DEF Ending, Ended
            <4> QED BY <4>2 DEF PhaseInv
        <3>3. CASE t # Terminate
            <4>1. Ending'
                BY <1>1, <1>2, <1>7, <2>5, <3>1, <3>3 DEF Ending, EndsWith
            <4> QED BY <4>1 DEF PhaseInv
        <3> QED BY <3>2, <3>3
    <2>6. CASE Ended
        BY <1>1, <2>6 DEF Ended
    <2> QED BY <2>1, <2>2, <2>3, <2>4, <2>5, <2>6 DEF ShutdownInv, PhaseInv
<1>10. WakeInv'
    BY <1>1, <1>4 DEF ShutdownInv, WakeInv
<1> QED BY <1>5, <1>9, <1>10 DEF ShutdownInv

\* A late task of the batch is dropped; it is work.
LEMMA ExpiredEnds == ASSUME TypeInv, ShutdownInv, Expired PROVE ShutdownInv'
<1> DEFINE t == Head(batch)
<1>1. /\ dpc = "run" /\ batch # <<>> /\ t.kind = "work" /\ batch' = Tail(batch)
      /\ executed' = executed \cup {t}
      /\ UNCHANGED <<dState, dpc, cur, flushed, taskList, owed, posted, sent,
                     dbState, wpc, taken, queries, accepted, ran>>
    BY DEF Expired, listVars, workerVars, queryVars
<1>2. /\ t \notin {Close, End, Terminate}
      /\ EndsWith(batch, Terminate) => EndsWith(batch', Terminate)
    BY <1>1, LastFacts, KindFacts DEF TypeInv
<1>3. OnceInv' /\ Waiting = Waiting' \cup {t}
    BY <1>1, OnceTail DEF ShutdownInv, Between
<1> HIDE DEF t
<1>4. Ordinary => Ordinary'
    BY <1>1 DEF Ordinary
<1>5. PhaseInv'
    <2>1. Working => Working'
        BY <1>1, <1>2, <1>4 DEF Working
    <2>2. ~Pushed /\ ~Flushing /\ ~Ended
        BY <1>1 DEF Pushed, Flushing, Ended
    <2>3. Closing => Closing'
        BY <1>1, <1>2, <1>3, <1>4 DEF Closing
    <2>4. Ending => Ending'
        BY <1>1, <1>2, <1>4 DEF Ending
    <2> QED BY <2>1, <2>2, <2>3, <2>4 DEF ShutdownInv, PhaseInv
<1>6. WakeInv'
    BY <1>1 DEF ShutdownInv, WakeInv
<1> QED BY <1>3, <1>5, <1>6 DEF ShutdownInv

\* The list is taken over, or there is nothing in it and nothing to come.
LEMMA TakeEnds == ASSUME TypeInv, ShutdownInv, Take \/ Woken PROVE ShutdownInv'
<1>1. CASE Take /\ Sleeps
    <2>1. /\ dpc = "take" /\ dpc' = "asleep" /\ taskList = <<>>
          /\ UNCHANGED <<dState, batch, cur, flushed, taskList, owed, posted, sent, executed,
                         dbState, wpc, taken, queries, accepted, ran>>
        BY <1>1 DEF Take, Sleeps, GoTo, workerVars, queryVars
    <2>2. OnceInv' /\ Waiting' = Waiting
        BY <2>1, OnceListsStay DEF ShutdownInv, Between, Waiting
    <2>3. PhaseInv'
        BY <2>1, <2>2 DEF ShutdownInv, PhaseInv, Working, Pushed, Closing, Flushing, Ending, Ended, Ordinary
    <2>4. WakeInv'
        BY <2>1 DEF ShutdownInv, WakeInv
    <2> QED BY <2>2, <2>3, <2>4 DEF ShutdownInv
<1>2. CASE (Take /\ ~Sleeps) \/ Woken
    <2>1. /\ dpc \in {"take", "woken"} /\ Swap
          /\ UNCHANGED <<owed, posted, sent, executed, dbState, wpc, taken, queries, accepted, ran>>
        BY <1>2 DEF Take, Woken, workerVars, queryVars
    <2>2. /\ batch' = taskList /\ taskList' = <<>> /\ dpc' = "run"
          /\ UNCHANGED <<dState, cur, flushed>> /\ batch = <<>>
        BY <2>1 DEF Swap, ShutdownInv, OnceInv
    <2>3. OnceInv' /\ Waiting' = Waiting
        BY <2>1, OnceSwap DEF ShutdownInv, Between
    <2>4. Ordinary'
        BY <2>2 DEF Ordinary
    <2>5. PhaseInv'
        <3>1. Working => Working'
            BY <2>1, <2>2, <2>4 DEF Working
        <3>2. ~Pushed /\ ~Flushing /\ ~Ended
            BY <2>1 DEF Pushed, Flushing, Ended
        <3>3. Closing => Closing'
            BY <2>1, <2>2, <2>3, <2>4 DEF Closing
        <3>4. Ending => Ending'
            BY <2>1, <2>2, <2>4 DEF Ending, EndsWith
        <3> QED BY <3>1, <3>2, <3>3, <3>4 DEF ShutdownInv, PhaseInv
    <2>6. WakeInv'
        BY <2>1, <2>2 DEF ShutdownInv, WakeInv
    <2> QED BY <2>3, <2>5, <2>6 DEF ShutdownInv
<1> QED BY <1>1, <1>2

\* The steps of the dispatcher within a task and between two batches, and the
\* notifications; no list of tasks changes.
LEMMA GoOnEnds ==
    ASSUME TypeInv, TasksInv, ShutdownInv,
           NotifyDispatcher \/ Test \/ Spurious \/ BatchDone \/ NotifyWorker \/ FlushNext \/ FlushDone
             \/ AddQuery \/ StopDatabase \/ StopDispatcher \/ ShutDatabase
    PROVE  ShutdownInv'
<1>1. UNCHANGED <<taskList, batch, posted, sent, executed, ran>> /\ Waiting' = Waiting
    BY DEF NotifyDispatcher, Test, Spurious, BatchDone, NotifyWorker, FlushNext, FlushDone, AddQuery,
           StopDatabase, StopDispatcher, ShutDatabase, GoTo, listVars, queryVars, Waiting
<1>2. dpc' \in Between => dpc \in Between \/ batch = <<>>
    BY DEF NotifyDispatcher, Test, Spurious, BatchDone, NotifyWorker, FlushNext, FlushDone, AddQuery,
           StopDatabase, StopDispatcher, ShutDatabase, GoTo, AfterFlush, Between
<1>3. OnceInv'
    BY <1>1, <1>2, OnceListsStay DEF ShutdownInv
<1>4. dpc' = "asleep" => dpc = "asleep" /\ owed' = owed
    BY DEF NotifyDispatcher, Test, Spurious, BatchDone, NotifyWorker, FlushNext, FlushDone, AddQuery,
           StopDatabase, StopDispatcher, ShutDatabase, GoTo, AfterFlush, listVars
<1>5. wpc' = "asleep" /\ queries' # <<>> => dpc' = "notify"
    <2>1. CASE NotifyDispatcher \/ Test \/ Spurious \/ BatchDone \/ FlushDone \/ StopDatabase
                 \/ StopDispatcher \/ ShutDatabase
        BY <2>1 DEF ShutdownInv, WakeInv, NotifyDispatcher, Test, Spurious, BatchDone, FlushDone, StopDatabase,
                    StopDispatcher, ShutDatabase, GoTo, workerVars, queryVars
    <2>2. CASE NotifyWorker
        BY <2>2 DEF NotifyWorker
    <2>3. CASE FlushNext
        BY <2>3 DEF ShutdownInv, WakeInv, FlushNext, workerVars
    <2>4. CASE AddQuery
        BY <2>4 DEF ShutdownInv, WakeInv, AddQuery, GoTo, workerVars
    <2> QED BY <2>1, <2>2, <2>3, <2>4
<1>6. WakeInv'
    BY <1>1, <1>4, <1>5 DEF ShutdownInv, WakeInv
<1>7. PhaseInv'
    <2>1. CASE NotifyDispatcher \/ Spurious \/ FlushNext
        <3>1. /\ UNCHANGED <<dState, dbState, cur, executed, batch>>
              /\ dpc' = dpc \/ (dpc \in {"flush", "query"} /\ dpc' \in {"flush", "query"})
                   \/ (dpc = "asleep" /\ dpc' = "woken")
              /\ queries = <<>> => queries' = <<>>
            BY <2>1 DEF NotifyDispatcher, Spurious, FlushNext, GoTo, workerVars, queryVars
        <3> QED BY <1>1, <3>1, PhaseStays DEF ShutdownInv
    <2>2. CASE Test \/ BatchDone
        <3>1. /\ UNCHANGED <<dState, dbState, queries>>
              /\ dpc \in {"test", "run"} /\ (dpc = "run" => batch = <<>> /\ dpc' = "test")
              /\ dpc = "test" => dpc' = (IF dState = "TERMINATED" THEN "ended" ELSE "take")
            BY <2>2 DEF Test, BatchDone, GoTo, workerVars, queryVars
        <3>2. dState # "TERMINATED" => Ordinary'
            BY <3>1 DEF Ordinary
        <3> QED BY <1>1, <3>1, <3>2 DEF ShutdownInv, PhaseInv, Working, Pushed, Closing, Flushing, Ending, Ended, EndsWith
    <2>3. CASE NotifyWorker
        <3>1. /\ UNCHANGED <<dState, dbState, cur, queries>> /\ dpc = "notify"
              /\ dpc' = IF cur = End THEN "last" ELSE "run"
            BY <2>3 DEF NotifyWorker, GoTo, queryVars
        <3>2. cur # End => Ordinary'
            BY <3>1 DEF Ordinary
        <3>3. Ordinary => cur # End
            BY <3>1, KindFacts DEF Ordinary
        <3> QED BY <1>1, <3>1, <3>2, <3>3 DEF ShutdownInv, PhaseInv, Working, Pushed, Closing, Flushing, Ending, Ended, EndsWith
    <2>4. CASE FlushDone
        <3>1. UNCHANGED <<dState, dbState, cur, queries>> /\ dpc = "flush" /\ dpc' = AfterFlush /\ queries = <<>>
            BY <2>4 DEF FlushDone, GoTo, workerVars, queryVars
        <3>2. /\ cur = Close => dpc' = "push"
              /\ cur = End => dpc' = "notify"
              /\ Ordinary => dpc' = "run" /\ Ordinary'
            BY <3>1, KindFacts DEF AfterFlush, Ordinary
        <3> QED BY <1>1, <3>1, <3>2 DEF ShutdownInv, PhaseInv, Working, Pushed, Closing, Flushing, Ending, Ended, EndsWith
    <2>5. CASE AddQuery
        <3>1. /\ UNCHANGED <<dState, dbState, cur>> /\ dpc = "add" /\ dpc' \in {"notify", "run"} /\ cur \in Works
              /\ dbState # "RUNNING" => queries' = queries
            BY <2>5 DEF AddQuery, GoTo, workerVars, TasksInv
        <3>2. Ordinary /\ Ordinary'
            BY <3>1 DEF Ordinary
        <3> QED BY <1>1, <3>1, <3>2 DEF ShutdownInv, PhaseInv, Working, Pushed, Closing, Flushing, Ending, Ended, EndsWith
    <2>6. CASE StopDatabase \/ StopDispatcher
        <3>1. CASE StopDatabase
            BY <1>1, <3>1 DEF StopDatabase, GoTo, ShutdownInv, PhaseInv, Working, Pushed, Closing, Flushing, Ending, Ended, Ordinary
        <3>2. CASE StopDispatcher
            BY <1>1, <3>2 DEF StopDispatcher, workerVars, ShutdownInv, PhaseInv, Working, Pushed, Closing, Flushing, Ending, Ended, Ordinary
        <3> QED BY <2>6, <3>1, <3>2
    <2>7. CASE ShutDatabase
        BY <1>1, <2>7 DEF ShutDatabase, GoTo, ShutdownInv, PhaseInv, Working, Pushed, Closing, Flushing, Ending, Ended, Ordinary
    <2> QED BY <2>1, <2>2, <2>3, <2>4, <2>5, <2>6, <2>7
<1> QED BY <1>3, <1>6, <1>7 DEF ShutdownInv

\* The worker, when it does not run a query.
LEMMA WorkerEnds ==
    ASSUME ShutdownInv, WorkerTest \/ WorkerTake \/ WorkerWoken \/ WorkerSpurious
    PROVE  ShutdownInv'
<1>1. /\ UNCHANGED <<dState, batch, dpc, cur, flushed, taskList, owed, posted, sent, executed, dbState, ran>>
      /\ Waiting' = Waiting
    BY DEF WorkerTest, WorkerTake, WorkerWoken, WorkerSpurious, dispatcherVars, listVars, queryVars, Waiting
<1>2. /\ queries = <<>> => queries' = <<>>
      /\ wpc' = "asleep" => queries' = <<>>
    BY DEF WorkerTest, WorkerTake, WorkerWoken, WorkerSpurious, TakeQuery, queryVars
<1>3. OnceInv'
    BY <1>1, OnceListsStay DEF ShutdownInv
<1>4. PhaseInv'
    BY <1>1, <1>2, PhaseStays DEF ShutdownInv
<1>5. WakeInv'
    BY <1>1, <1>2 DEF ShutdownInv, WakeInv
<1> QED BY <1>3, <1>4, <1>5 DEF ShutdownInv

LEMMA ShutdownInit == Init => ShutdownInv
<1> SUFFICES ASSUME Init PROVE ShutdownInv
    OBVIOUS
<1>1. WakeInv /\ OnceInv
    BY NothingFacts DEF Init, WakeInv, OnceInv, Waiting
<1>2. Working
    BY DEF Init, Working, Ordinary
<1> QED BY <1>1, <1>2 DEF ShutdownInv, PhaseInv

LEMMA ShutdownStep == ThreadsInv /\ ShutdownInv /\ [Next]_vars => ShutdownInv'
<1> SUFFICES ASSUME ThreadsInv, ShutdownInv, [Next]_vars PROVE ShutdownInv'
    OBVIOUS
<1>1. TypeInv /\ TasksInv
    BY DEF ThreadsInv
<1>2. CASE Post
    BY <1>1, <1>2, PostEnds
<1>3. CASE NotifyDispatcher \/ Spurious
    BY <1>1, <1>3, GoOnEnds
<1>4. CASE FlushRun
    <2>1. flushed \in Queries /\ flushed \notin ran
        BY <1>4 DEF FlushRun, ThreadsInv, TypeInv, QueriesInv
    <2> QED BY <1>1, <1>4, <2>1, RunTaskEnds DEF FlushRun, workerVars
<1>5. CASE Dispatcher /\ ~FlushRun
    BY <1>1, <1>5, GoOnEnds, TakeEnds, ExecuteEnds, ExpiredEnds, EndTasksEnd DEF Dispatcher
<1>6. CASE WorkerRun
    <2>1. taken \in Queries /\ taken \notin ran
        BY <1>6 DEF WorkerRun, ThreadsInv, TypeInv, QueriesInv
    <2> QED BY <1>1, <1>6, <2>1, RunTaskEnds DEF WorkerRun, dispatcherVars
<1>7. CASE (Worker \/ WorkerSpurious) /\ ~WorkerRun
    BY <1>7, WorkerEnds DEF Worker
<1>8. CASE UNCHANGED vars
    <2>1. UNCHANGED <<taskList, batch, posted, executed, sent, ran, dpc, wpc, owed, queries, dState, dbState, cur>>
        BY <1>8 DEF vars, dispatcherVars, listVars, workerVars, queryVars
    <2>2. OnceInv' /\ Waiting' = Waiting
        BY <2>1, OnceListsStay DEF ShutdownInv, Waiting
    <2>3. PhaseInv'
        BY <2>1, <2>2, PhaseStays DEF ShutdownInv
    <2> QED BY <2>1, <2>2, <2>3 DEF ShutdownInv, WakeInv
<1> QED BY <1>2, <1>3, <1>4, <1>5, <1>6, <1>7, <1>8 DEF Next

LEMMA ShutdownAlways == Spec => []ShutdownInv
    BY InitInv, StepInv, ShutdownInit, ShutdownStep, PTL DEF Spec

\* No wakeup is lost: the dispatcher never sleeps over a list with tasks in it
\* unless somebody is about to notify it, and the worker never sleeps over a
\* query unless the dispatcher is about to.  The thread that finds the list empty
\* notifies after it has left the lock (tasks.cpp, databasetasks.cpp).
THEOREM NoWakeupIsLost ==
    Spec => [](/\ dpc = "asleep" /\ taskList # <<>> => owed > 0
               /\ wpc = "asleep" /\ queries # <<>> => dpc = "notify")
<1>1. ShutdownInv => /\ dpc = "asleep" /\ taskList # <<>> => owed > 0
                     /\ wpc = "asleep" /\ queries # <<>> => dpc = "notify"
    BY DEF ShutdownInv, WakeInv
<1> QED BY <1>1, ShutdownAlways, PTL

\* A task that the dispatcher took is in its list, in the batch, or was executed,
\* and in one of them only: none is lost when the lists are swapped, and none is
\* executed twice.
THEOREM TasksRunOnce ==
    Spec => [](/\ posted = executed \cup Elements(taskList) \cup Elements(batch)
               /\ Distinct(taskList) /\ Distinct(batch)
               /\ \A t \in Elements(taskList) : t \notin Elements(batch) \cup executed
               /\ \A t \in Elements(batch) : t \notin executed)
<1>1. ShutdownInv => /\ posted = executed \cup Elements(taskList) \cup Elements(batch)
                     /\ Distinct(taskList) /\ Distinct(batch)
                     /\ \A t \in Elements(taskList) : t \notin Elements(batch) \cup executed
                     /\ \A t \in Elements(batch) : t \notin executed
    BY DEF ShutdownInv, OnceInv, Waiting
<1> QED BY <1>1, ShutdownAlways, PTL

\* When the dispatcher thread ends, the shutdown has left nothing behind: every
\* task that was taken is executed, and every query has run but the one that the
\* worker has taken out, if there is one; nothing can be added to either list.
THEOREM NothingIsLeft ==
    Spec => [](dpc = "ended" => /\ posted = executed
                                /\ queries = <<>> /\ accepted \subseteq ran \cup {taken}
                                /\ dState = "TERMINATED" /\ dbState = "TERMINATED")
<1>1. ASSUME ThreadsInv, ShutdownInv, dpc = "ended"
      PROVE  /\ posted = executed
             /\ queries = <<>> /\ accepted \subseteq ran \cup {taken}
             /\ dState = "TERMINATED" /\ dbState = "TERMINATED"
    <2>1. Ended
        BY <1>1 DEF ShutdownInv, PhaseInv, Working, Pushed, Closing, Flushing, Ending, Ordinary
    <2>2. Waiting = {} /\ Elements(queries) = {}
        BY <2>1, NothingFacts DEF Ended, Waiting
    <2>3. posted = executed
        BY <1>1, <2>2 DEF ShutdownInv, OnceInv
    <2>4. flushed = NoQuery /\ NoQuery \notin accepted
        BY <1>1, TaskFacts DEF ThreadsInv, TypeInv, QueriesInv
    <2>5. accepted \subseteq ran \cup {taken}
        BY <1>1, <2>2, <2>4 DEF ThreadsInv, QueriesInv
    <2> QED BY <2>1, <2>3, <2>5 DEF Ended
<1> QED BY <1>1, Invariance, ShutdownAlways, PTL

-----------------------------------------------------------------------------
(* The promise to the game                                                   *)

\* The batch and the list as one queue: adding to the list adds to the queue,
\* taking from the batch takes from the queue, and a swap changes nothing.
LEMMA QueueFacts ==
    ASSUME NEW S, NEW b \in Seq(S), NEW s \in Seq(S), NEW t \in S
    PROVE  /\ b \o s \in Seq(S)
           /\ b \o Append(s, t) = Append(b \o s, t)
           /\ b # <<>> => /\ b \o s # <<>> /\ Head(b \o s) = Head(b)
                          /\ Tail(b) \o s = Tail(b \o s)
           /\ <<>> \o s = s /\ s \o <<>> = s
           /\ {(b \o s)[i] : i \in DOMAIN (b \o s)} = Elements(b) \cup Elements(s)
<1>1. /\ b \o s \in Seq(S) /\ Len(b \o s) = Len(b) + Len(s)
      /\ DOMAIN (b \o s) = 1..(Len(b) + Len(s))
      /\ \A i \in 1..Len(b) : (b \o s)[i] = b[i]
      /\ \A i \in 1..Len(s) : (b \o s)[Len(b) + i] = s[i]
      /\ DOMAIN b = 1..Len(b) /\ DOMAIN s = 1..Len(s) /\ Len(b) \in Nat /\ Len(s) \in Nat
    OBVIOUS
<1>2. b \o Append(s, t) = Append(b \o s, t)
    OBVIOUS
<1>3. b # <<>> => /\ b \o s # <<>> /\ Head(b \o s) = Head(b)
                  /\ Tail(b) \o s = Tail(b \o s)
    OBVIOUS
<1>4. <<>> \o s = s /\ s \o <<>> = s
    OBVIOUS
<1>5. {(b \o s)[i] : i \in DOMAIN (b \o s)} = Elements(b) \cup Elements(s)
    <2>1. ASSUME NEW i \in 1..(Len(b) + Len(s)) PROVE (b \o s)[i] \in Elements(b) \cup Elements(s)
        <3>1. CASE i \in 1..Len(b)
            BY <1>1, <3>1 DEF Elements
        <3>2. CASE i \notin 1..Len(b)
            <4> DEFINE j == i - Len(b)
            <4>1. j \in 1..Len(s) /\ Len(b) + j = i
                BY <1>1, <3>2
            <4> QED BY <1>1, <4>1 DEF Elements
        <3> QED BY <3>1, <3>2
    <2>2. ASSUME NEW e \in Elements(b) PROVE \E i \in 1..(Len(b) + Len(s)) : e = (b \o s)[i]
        BY <1>1, <2>2 DEF Elements
    <2>3. ASSUME NEW e \in Elements(s) PROVE \E i \in 1..(Len(b) + Len(s)) : e = (b \o s)[i]
        <3>1. PICK i \in 1..Len(s) : e = s[i]
            BY <1>1, <2>3 DEF Elements
        <3>2. Len(b) + i \in 1..(Len(b) + Len(s))
            BY <1>1
        <3> QED BY <1>1, <3>1, <3>2
    <2> QED BY <1>1, <2>1, <2>2, <2>3
<1> QED BY <1>1, <1>2, <1>3, <1>4, <1>5

\* A query is submitted by a task that is being executed.
HandInv == dpc = "add" => cur \in executed

LEMMA HandStep == TypeInv /\ HandInv /\ [Next]_vars => HandInv'
<1> SUFFICES ASSUME TypeInv, HandInv, [Next]_vars PROVE HandInv'
    OBVIOUS
<1>1. CASE Execute
    BY <1>1 DEF Execute, HandInv
<1>2. CASE Expired
    BY <1>2 DEF Expired, HandInv
<1>3. CASE Post \/ NotifyDispatcher \/ Spurious \/ Worker \/ WorkerSpurious \/ UNCHANGED vars
    <2>1. UNCHANGED <<cur, executed>> /\ (dpc' = "add" => dpc = "add")
        BY <1>3 DEF Post, NotifyDispatcher, Spurious, Worker, WorkerSpurious, WorkerTest, WorkerTake, WorkerWoken,
                    WorkerRun, GoTo, vars, dispatcherVars
    <2> QED BY <2>1 DEF HandInv
<1>4. CASE Dispatcher /\ ~Execute /\ ~Expired
    <2>1. dpc' # "add"
        BY <1>4 DEF Dispatcher, Test, Take, Woken, Swap, BatchDone, AddQuery, NotifyWorker, FlushNext, FlushDone,
                    FlushRun, PushEnd, StopDatabase, StopDispatcher, ShutDatabase, ShutDispatcher, GoTo, AfterFlush
    <2> QED BY <2>1 DEF HandInv
<1> QED BY <1>1, <1>2, <1>3, <1>4 DEF Next

LEMMA HandAlways == Spec => []HandInv
<1>1. Init => HandInv
    BY DEF Init, HandInv
<1>2. ThreadsInv => TypeInv
    BY DEF ThreadsInv
<1> QED BY <1>1, <1>2, HandStep, Invariance, PTL DEF Spec

\* The queue holds what waits.
LEMMA PostedIs == ASSUME TypeInv, OnceInv PROVE Service!Posted = posted
<1>1. {(batch \o taskList)[i] : i \in DOMAIN (batch \o taskList)} = Elements(batch) \cup Elements(taskList)
    <2>1. CASE Task = {}
        BY <2>1, KindFacts
    <2>2. PICK t : t \in Task
        BY KindFacts
    <2> QED BY <2>2, QueueFacts DEF TypeInv
<1> QED BY <1>1 DEF Service!Posted, OnceInv, Waiting

\* To add to the list is to add to the queue.
LEMMA AddIs ==
    ASSUME TypeInv, OnceInv, NEW t \in Task, t \notin posted,
           taskList' = Append(taskList, t), batch' = batch
    PROVE  Service!Add(t)
<1>1. batch' \o taskList' = Append(batch \o taskList, t)
    BY QueueFacts DEF TypeInv
<1> QED BY <1>1, PostedIs DEF Service!Add

\* What comes from outside, and the shutdown, is for the game to post.
LEMMA PostableIs == FromOutside \cup {End} \subseteq Service!Postable
<1> DEFINE answer == [r \in Callbacks |-> Callback(r)]
<1>1. ASSUME NEW t \in FromOutside \cup {End}
      PROVE  t \in Task /\ t # Terminate /\ t.kind # "callback"
    BY DEF Task, FromOutside, Work, Save, Close, End, Terminate
<1>2. \A q \in DOMAIN answer : answer[q].kind = "callback"
    BY DEF Callback
<1>3. \A t \in Service!Answers : t.kind = "callback"
    BY <1>2 DEF Service!Answers
<1> QED BY <1>1, <1>3 DEF Service!Postable

\* A task of the game is posted, or refused.
LEMMA PostIs ==
    ASSUME TypeInv, OnceInv, NEW t \in Task, t \notin posted, AddTask(t),
           UNCHANGED <<dState, batch, executed, accepted, ran>>
    PROVE  Service!Post(t) \/ UNCHANGED Service!vars
<1>1. CASE dState = "RUNNING"
    <2>1. Service!Add(t)
        BY <1>1, AddIs DEF AddTask
    <2> QED BY <1>1, <2>1 DEF Service!Post
<1>2. CASE dState # "RUNNING"
    BY <1>2 DEF AddTask, listVars, Service!vars
<1> QED BY <1>1, <1>2

\* A query runs, and its callback is posted while that is possible.
LEMMA RunIs ==
    ASSUME ThreadsInv, OnceInv, NEW q \in Queries, q \in accepted, q \notin ran, RunTask(q),
           UNCHANGED <<dState, batch, executed, accepted>>
    PROVE  Service!Run(q)
<1> DEFINE answer == [r \in Callbacks |-> Callback(r)]
<1>1. ran' = ran \cup {q}
    BY DEF RunTask
<1>2. CASE dState = "RUNNING" /\ q \in Callbacks
    <2>1. Callback(q) \in Task /\ Callback(q) \notin posted
        BY <1>2, TaskFacts DEF OnceInv
    <2>2. Service!Add(Callback(q))
        BY <1>2, <2>1, AddIs DEF RunTask, AddTask, ThreadsInv
    <2>3. Service!Add(answer[q])
        BY <1>2, <2>2
    <2> QED BY <1>1, <1>2, <2>3 DEF Service!Run
<1>3. CASE ~(dState = "RUNNING" /\ q \in Callbacks)
    <2>1. UNCHANGED taskList
        BY <1>3 DEF RunTask, AddTask, listVars
    <2> QED BY <1>1, <1>3, <2>1 DEF Service!Run
<1> QED BY <1>2, <1>3

\* A task leaves the batch.
LEMMA ExecuteIs ==
    ASSUME TypeInv, batch # <<>>, batch' = Tail(batch), executed' = executed \cup {Head(batch)},
           UNCHANGED <<taskList, accepted, ran>>, dState' = "RUNNING" <=> dState = "RUNNING"
    PROVE  Service!Execute
<1>1. PICK t : t \in Task
    BY KindFacts
<1>2. /\ batch \o taskList # <<>> /\ Head(batch \o taskList) = Head(batch)
      /\ batch' \o taskList' = Tail(batch \o taskList)
    BY <1>1, QueueFacts DEF TypeInv
<1> QED BY <1>2 DEF Service!Execute

\* A work task submits its query, which may be refused.
LEMMA AcceptIs ==
    ASSUME ThreadsInv, ShutdownInv, HandInv, AddQuery
    PROVE  (\E q \in Queries : Service!Accept(q)) \/ UNCHANGED Service!vars
<1> DEFINE task == [q \in Queries |-> Work(q)]
<1>1. /\ dpc = "add" /\ cur \in Works /\ InHand = {cur} /\ cur \in executed
      /\ UNCHANGED <<dState, batch, taskList, executed, ran>>
    BY DEF AddQuery, GoTo, listVars, ThreadsInv, TasksInv, InHand, HandInv
<1>2. cur.of \in Queries /\ cur = Work(cur.of) /\ cur.of \notin accepted
    BY <1>1, TaskFacts DEF ThreadsInv, QueriesInv
<1>3. CASE dbState = "RUNNING"
    <2>1. Terminate \notin posted
        BY <1>3 DEF ShutdownInv, PhaseInv, Working, Pushed, Closing, Flushing, Ending, Ended
    <2>2. Service!Posted = posted
        BY PostedIs DEF ThreadsInv, ShutdownInv
    <2>3. task[cur.of] \in executed
        BY <1>1, <1>2
    <2>4. accepted' = accepted \cup {cur.of}
        BY <1>3 DEF AddQuery
    <2>5. Service!Accept(cur.of)
        BY <1>1, <1>2, <2>1, <2>2, <2>3, <2>4 DEF Service!Accept
    <2> QED BY <1>2, <2>5
<1>4. CASE dbState # "RUNNING"
    BY <1>1, <1>4 DEF AddQuery, Service!vars
<1> QED BY <1>3, <1>4

\* The last task comes after the last query of flush().
LEMMA PostLastIs == ASSUME ThreadsInv, ShutdownInv, ShutDispatcher PROVE Service!PostLast
<1>1. /\ dpc = "last" /\ taskList' = Append(taskList, Terminate)
      /\ UNCHANGED <<dState, batch, executed, accepted, ran>>
    BY DEF ShutDispatcher, LastTask, GoTo, queryVars
<1>2. Flushing
    BY <1>1 DEF ShutdownInv, PhaseInv, Working, Pushed, Closing, Flushing, Ending, Ended, Ordinary
<1>3. Service!Add(Terminate)
    BY <1>1, <1>2, AddIs, KindFacts DEF Flushing, ThreadsInv, ShutdownInv
<1>4. flushed = NoQuery /\ Elements(queries) = {} /\ NoQuery \notin accepted
    BY <1>1, <1>2, NothingFacts, TaskFacts DEF Flushing, ThreadsInv, TypeInv, QueriesInv
<1>5. \A q, r \in accepted \ ran : q = r
    BY <1>4 DEF ThreadsInv, QueriesInv
<1> QED BY <1>1, <1>2, <1>3, <1>5 DEF Service!PostLast, Flushing

\* What the game does not see.
LEMMA StutterIs ==
    ASSUME TypeInv, OnceInv,
           NotifyDispatcher \/ Test \/ Take \/ Woken \/ Spurious \/ BatchDone \/ NotifyWorker \/ FlushNext
             \/ FlushDone \/ StopDatabase \/ ShutDatabase \/ WorkerTest \/ WorkerTake \/ WorkerWoken
             \/ WorkerSpurious \/ UNCHANGED vars
    PROVE  UNCHANGED Service!vars
<1>1. UNCHANGED <<dState, executed, accepted, ran>>
    BY DEF NotifyDispatcher, Test, Take, Woken, Swap, Spurious, BatchDone, NotifyWorker, FlushNext, FlushDone,
           StopDatabase, ShutDatabase, WorkerTest, WorkerTake, WorkerWoken, WorkerSpurious, TakeQuery, GoTo,
           vars, dispatcherVars, listVars, queryVars
<1>2. UNCHANGED <<batch, taskList>> \/ (dpc \in Between /\ batch' = taskList /\ taskList' = <<>>)
    BY DEF NotifyDispatcher, Test, Take, Woken, Swap, Spurious, BatchDone, NotifyWorker, FlushNext, FlushDone,
           StopDatabase, ShutDatabase, WorkerTest, WorkerTake, WorkerWoken, WorkerSpurious, GoTo,
           vars, dispatcherVars, listVars, Between
<1>3. batch' \o taskList' = batch \o taskList
    <2>1. CASE UNCHANGED <<batch, taskList>>
        BY <2>1
    <2>2. CASE dpc \in Between /\ batch' = taskList /\ taskList' = <<>>
        <3>1. batch = <<>>
            BY <2>2 DEF OnceInv, Between
        <3>2. <<>> \o taskList = taskList /\ taskList \o <<>> = taskList
            BY KindFacts, QueueFacts DEF TypeInv
        <3> QED BY <2>2, <3>1, <3>2, Zenon
    <2> QED BY <1>2, <2>1, <2>2
<1> QED BY <1>1, <1>3 DEF Service!vars

LEMMA ServiceStep ==
    ThreadsInv /\ ShutdownInv /\ HandInv /\ [Next]_vars => [Service!Next]_Service!vars
<1> SUFFICES ASSUME ThreadsInv, ShutdownInv, HandInv, [Next]_vars
             PROVE  Service!Next \/ UNCHANGED Service!vars
    OBVIOUS
<1>1. TypeInv /\ OnceInv
    BY DEF ThreadsInv, ShutdownInv
<1>2. CASE Post
    <2>1. PICK t \in FromOutside \ sent : AddTask(t)
        BY <1>2 DEF Post
    <2>2. t \in Task /\ t \notin posted
        BY <1>1, <2>1 DEF Task, OnceInv
    <2>3. Service!Post(t) \/ UNCHANGED Service!vars
        BY <1>1, <1>2, <2>1, <2>2, PostIs DEF Post, dispatcherVars, queryVars
    <2>4. t \in Service!Postable
        BY <2>1, PostableIs
    <2> QED BY <2>3, <2>4 DEF Service!Next
<1>3. CASE PushEnd
    <2>1. dpc = "push" /\ AddTask(End) /\ UNCHANGED <<dState, batch, executed, accepted, ran>>
        BY <1>3 DEF PushEnd, GoTo, queryVars
    <2>2. End \in Task /\ End \notin posted
        BY <2>1, KindFacts DEF ShutdownInv, PhaseInv, Working, Pushed, Closing, Flushing, Ending, Ended, Ordinary
    <2>3. Service!Post(End) \/ UNCHANGED Service!vars
        BY <1>1, <2>1, <2>2, PostIs
    <2> QED BY <2>3, PostableIs DEF Service!Next
<1>4. CASE Execute
    <2>1. /\ batch # <<>> /\ batch' = Tail(batch) /\ executed' = executed \cup {Head(batch)}
          /\ dState' = IF Head(batch) = Terminate THEN "TERMINATED" ELSE dState
          /\ UNCHANGED <<taskList, accepted, ran>>
        BY <1>4 DEF Execute, listVars, queryVars
    <2>2. Head(batch) \in posted
        BY <1>1, <2>1, TailFacts DEF TypeInv, OnceInv, Waiting
    <2>3. dState = "RUNNING" => Terminate \notin posted
        BY DEF ShutdownInv, PhaseInv, Working, Pushed, Closing, Flushing, Ending, Ended
    <2>4. dState' = "RUNNING" <=> dState = "RUNNING"
        BY <2>1, <2>2, <2>3
    <2>5. Service!Execute
        BY <1>1, <2>1, <2>4, ExecuteIs
    <2> QED BY <2>5 DEF Service!Next
<1>5. CASE Expired
    <2>1. Service!Execute
        BY <1>1, <1>5, ExecuteIs DEF Expired, listVars, queryVars
    <2> QED BY <2>1 DEF Service!Next
<1>6. CASE AddQuery
    BY <1>6, AcceptIs DEF Service!Next
<1>7. CASE FlushRun
    <2>1. flushed \in Queries /\ flushed \in accepted /\ flushed \notin ran
        BY <1>7, TaskFacts DEF FlushRun, ThreadsInv, TypeInv, QueriesInv
    <2>2. Service!Run(flushed)
        BY <1>1, <1>7, <2>1, RunIs DEF FlushRun, workerVars
    <2> QED BY <2>1, <2>2 DEF Service!Next
<1>8. CASE WorkerRun
    <2>1. taken \in Queries /\ taken \in accepted /\ taken \notin ran
        BY <1>8, TaskFacts DEF WorkerRun, ThreadsInv, TypeInv, QueriesInv
    <2>2. Service!Run(taken)
        BY <1>1, <1>8, <2>1, RunIs DEF WorkerRun, dispatcherVars
    <2> QED BY <2>1, <2>2 DEF Service!Next
<1>9. CASE StopDispatcher
    <2>1. dpc = "stopDispatcher" /\ dState' = "CLOSING" /\ UNCHANGED <<batch, taskList, executed, accepted, ran>>
        BY <1>9 DEF StopDispatcher, listVars, queryVars
    <2>2. dState = "RUNNING"
        BY <2>1 DEF ShutdownInv, PhaseInv, Working, Pushed, Closing, Flushing, Ending, Ended, Ordinary
    <2>3. Service!Close
        BY <2>1, <2>2 DEF Service!Close
    <2> QED BY <2>3 DEF Service!Next
<1>10. CASE ShutDispatcher
    BY <1>10, PostLastIs DEF Service!Next
<1>11. CASE \/ NotifyDispatcher \/ Test \/ Take \/ Woken \/ Spurious \/ BatchDone \/ NotifyWorker \/ FlushNext
            \/ FlushDone \/ StopDatabase \/ ShutDatabase \/ WorkerTest \/ WorkerTake \/ WorkerWoken
            \/ WorkerSpurious \/ UNCHANGED vars
    BY <1>1, <1>11, StutterIs
<1> QED BY <1>2, <1>3, <1>4, <1>5, <1>6, <1>7, <1>8, <1>9, <1>10, <1>11 DEF Next, Dispatcher, Worker

\* The two threads keep their promise: the dispatcher's list and batch are one
\* queue of tasks, executed once each and in the order of their posting, and the
\* queries run once each.  The task that ends the dispatcher is added after the
\* server has closed, when at most the worker's query has not run; nothing is
\* added behind it (TfsService).
THEOREM Refinement == Spec => ServiceSpec
<1>1. Init => Service!Init
    <2> SUFFICES ASSUME Init PROVE Service!Init
        OBVIOUS
    <2>1. <<>> \o <<>> = <<>>
        OBVIOUS
    <2> QED BY <2>1 DEF Init, Service!Init
<1> QED BY <1>1, ServiceStep, Invariance, ShutdownAlways, HandAlways, PTL DEF Spec, ServiceSpec, Service!Spec

=============================================================================
