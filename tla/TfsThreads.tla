------------------------------ MODULE TfsThreads ------------------------------
(***************************************************************************)
(* The server's dispatcher thread and its database thread: Dispatcher,     *)
(* DatabaseTasks, and the shutdown that Game starts on the dispatcher.     *)
(*                                                                         *)
(* A region under a lock is one step, and so is every unlocked access to   *)
(* the other thread's state.  A thread that waits for its signal sleeps    *)
(* until it is notified; nobody remembers a notification, and a sleeper    *)
(* may wake up without one.                                                *)
(*                                                                         *)
(* Game tasks submit queries with DatabaseTasks::addTask, save the game    *)
(* (DatabaseTasks::flush), or shut it down.  They are posted by the        *)
(* scheduler and the network threads.                                      *)
(***************************************************************************)
EXTENDS Naturals, Sequences

CONSTANTS
    Queries,        \* what the tasks may submit, each by a task of its own
    Callbacks,      \* the queries with a callback
    Saves           \* the tasks that save the game

NoQuery == "no query"

ASSUME ThreadsAssumption == Callbacks \subseteq Queries /\ NoQuery \notin Queries

VARIABLES
    dState,         \* Dispatcher::threadState
    taskList,       \* Dispatcher::taskList
    batch,          \* tmpTaskList
    dpc, cur,       \* where the dispatcher is, and in which task
    flushed,        \* the query flush() has taken out
    owed,           \* notifications of the dispatcher that are still to be sent
    dbState,        \* DatabaseTasks::threadState
    queries,        \* DatabaseTasks::tasks
    wpc, taken,     \* where the worker is, and the query it has taken out
    sent, posted,   \* history: tasks handed to addTask, and those it took
    executed,       \* history: tasks the dispatcher has run
    accepted, ran   \* history: queries addTask took, and those that ran

dispatcherVars == <<dState, batch, dpc, cur, flushed>>
listVars == <<taskList, owed, posted>>
workerVars == <<dbState, wpc, taken>>
queryVars == <<queries, accepted, ran>>
vars == <<dispatcherVars, listVars, sent, executed, workerVars, queryVars>>

Work(q) == [kind |-> "work", of |-> q]
Callback(q) == [kind |-> "callback", of |-> q]
Save(s) == [kind |-> "save", of |-> s]
Close == [kind |-> "close", of |-> NoQuery]     \* setGameState(GAME_STATE_SHUTDOWN)
End == [kind |-> "end", of |-> NoQuery]         \* Game::shutdown
Terminate == [kind |-> "terminate", of |-> NoQuery]
NoTask == [kind |-> "none", of |-> NoQuery]

FromOutside == {Work(q) : q \in Queries} \cup {Save(s) : s \in Saves} \cup {Close}
Task == FromOutside \cup {Callback(q) : q \in Callbacks} \cup {End, Terminate}
States == {"RUNNING", "CLOSING", "TERMINATED"}

TypeOK ==
    /\ dState \in States /\ dbState \in States
    /\ taskList \in Seq(Task) /\ batch \in Seq(Task) /\ cur \in Task \cup {NoTask}
    /\ dpc \in {"test", "take", "asleep", "woken", "run", "add", "flush", "query", "notify",
                "push", "stopDatabase", "stopDispatcher", "shut", "last", "ended"}
    /\ flushed \in Queries \cup {NoQuery} /\ taken \in Queries \cup {NoQuery}
    /\ owed \in Nat
    /\ wpc \in {"test", "take", "asleep", "woken", "query", "ended"}
    /\ queries \in Seq(Queries)
    /\ sent \in SUBSET FromOutside /\ posted \in SUBSET Task /\ executed \in SUBSET Task
    /\ accepted \in SUBSET Queries /\ ran \in SUBSET Queries
    \* A query is in one place, and runs once.
    /\ flushed # NoQuery => flushed \notin ran \cup {taken}
    /\ taken # NoQuery => taken \notin ran

Init ==
    /\ dState = "RUNNING" /\ taskList = <<>> /\ batch = <<>> /\ dpc = "test" /\ cur = NoTask
    /\ flushed = NoQuery /\ owed = 0
    /\ dbState = "RUNNING" /\ queries = <<>> /\ wpc = "test" /\ taken = NoQuery
    /\ sent = {} /\ posted = {} /\ executed = {} /\ accepted = {} /\ ran = {}

-----------------------------------------------------------------------------
(* Dispatcher::addTask                                                       *)

\* Under the lock; whoever finds the list empty has to notify afterwards.
AddTask(t) ==
    IF dState = "RUNNING"
    THEN /\ taskList' = Append(taskList, t) /\ posted' = posted \cup {t}
         /\ owed' = owed + (IF taskList = <<>> THEN 1 ELSE 0)
    ELSE UNCHANGED listVars

Post ==
    /\ \E t \in FromOutside \ sent : AddTask(t) /\ sent' = sent \cup {t}
    /\ UNCHANGED <<dispatcherVars, executed, workerVars, queryVars>>

\* notify_one, after the lock is released
NotifyDispatcher ==
    /\ owed > 0 /\ owed' = owed - 1
    /\ dpc' = IF dpc = "asleep" THEN "woken" ELSE dpc
    /\ UNCHANGED <<dState, batch, cur, flushed, taskList, posted, sent, executed, workerVars, queryVars>>

-----------------------------------------------------------------------------
(* Dispatcher::threadMain                                                    *)

GoTo(where) == dpc' = where /\ UNCHANGED <<dState, batch, cur, flushed>>

\* The state is tested without the lock.
Test ==
    /\ dpc = "test"
    /\ GoTo(IF dState = "TERMINATED" THEN "ended" ELSE "take")
    /\ UNCHANGED <<listVars, sent, executed, workerVars, queryVars>>

\* Mutant: it sleeps on the signal without a look at the list.
SleepsAnyway == TRUE

\* It waits once when there is nothing to do.
Sleeps == taskList = <<>>

Swap ==
    /\ batch' = taskList /\ taskList' = <<>> /\ dpc' = "run"
    /\ UNCHANGED <<dState, cur, flushed>>

Take ==
    /\ dpc = "take"
    /\ IF Sleeps THEN GoTo("asleep") /\ UNCHANGED taskList ELSE Swap
    /\ UNCHANGED <<owed, posted, sent, executed, workerVars, queryVars>>

Woken ==
    /\ dpc = "woken"
    /\ Swap
    /\ UNCHANGED <<owed, posted, sent, executed, workerVars, queryVars>>

Spurious ==
    /\ dpc = "asleep"
    /\ GoTo("woken")
    /\ UNCHANGED <<listVars, sent, executed, workerVars, queryVars>>

BatchDone ==
    /\ dpc = "run" /\ batch = <<>>
    /\ dpc' = "test" /\ cur' = NoTask
    /\ UNCHANGED <<dState, batch, flushed, listVars, sent, executed, workerVars, queryVars>>

\* What a task does first
Entry(t) ==
    CASE t.kind = "work" -> "add"
      [] t.kind \in {"save", "close"} -> "flush"
      [] t.kind = "end" -> "shut"
      [] OTHER -> "run"

\* (*task)(); the task that dispatcher.shutdown() left sets the state.
Execute ==
    /\ dpc = "run" /\ batch # <<>>
    /\ cur' = Head(batch) /\ batch' = Tail(batch)
    /\ executed' = executed \cup {Head(batch)}
    /\ dpc' = Entry(Head(batch))
    /\ dState' = IF Head(batch) = Terminate THEN "TERMINATED" ELSE dState
    /\ UNCHANGED <<flushed, listVars, sent, workerVars, queryVars>>

\* A task with an expiration is dropped when it is late.
Expired ==
    /\ dpc = "run" /\ batch # <<>> /\ Head(batch).kind = "work"
    /\ batch' = Tail(batch) /\ executed' = executed \cup {Head(batch)}
    /\ UNCHANGED <<dState, dpc, cur, flushed, listVars, sent, workerVars, queryVars>>

-----------------------------------------------------------------------------
(* DatabaseTasks, called by a task                                           *)

\* addTask; whoever finds the list empty has to notify.
AddQuery ==
    /\ dpc = "add"
    /\ IF dbState = "RUNNING"
       THEN /\ queries' = Append(queries, cur.of) /\ accepted' = accepted \cup {cur.of}
            /\ GoTo(IF queries = <<>> THEN "notify" ELSE "run")
       ELSE UNCHANGED <<queries, accepted>> /\ GoTo("run")
    /\ UNCHANGED <<ran, listVars, sent, executed, workerVars>>

NotifyWorker ==
    /\ dpc = "notify"
    /\ wpc' = IF wpc = "asleep" THEN "woken" ELSE wpc
    /\ GoTo(IF cur = End THEN "last" ELSE "run")
    /\ UNCHANGED <<dbState, taken, listVars, sent, executed, queryVars>>

\* flush(): one query after the other is taken out, and run without the lock.
FlushNext ==
    /\ dpc = "flush" /\ queries # <<>>
    /\ flushed' = Head(queries) /\ queries' = Tail(queries) /\ dpc' = "query"
    /\ UNCHANGED <<dState, batch, cur, accepted, ran, listVars, sent, executed, workerVars>>

AfterFlush == CASE cur.kind = "close" -> "push" [] cur.kind = "end" -> "notify" [] OTHER -> "run"

FlushDone ==
    /\ dpc = "flush" /\ queries = <<>>
    /\ GoTo(AfterFlush)
    /\ UNCHANGED <<listVars, sent, executed, workerVars, queryVars>>

\* runTask: the callback goes to the dispatcher, which may not take it any more.
RunTask(q) ==
    /\ ran' = ran \cup {q}
    /\ IF q \in Callbacks THEN AddTask(Callback(q)) ELSE UNCHANGED listVars

FlushRun ==
    /\ dpc = "query"
    /\ RunTask(flushed)
    /\ flushed' = NoQuery /\ dpc' = "flush"
    /\ UNCHANGED <<dState, batch, cur, queries, accepted, sent, executed, workerVars>>

-----------------------------------------------------------------------------
(* Shutdown, on the dispatcher                                               *)

\* setGameState(GAME_STATE_SHUTDOWN) posts Game::shutdown after the save ...
PushEnd ==
    /\ dpc = "push"
    /\ AddTask(End)
    /\ GoTo("stopDatabase")
    /\ UNCHANGED <<sent, executed, workerVars, queryVars>>

\* ... and stops the threads: they take no more tasks.
StopDatabase ==
    /\ dpc = "stopDatabase"
    /\ dbState' = "CLOSING"
    /\ GoTo("stopDispatcher")
    /\ UNCHANGED <<wpc, taken, listVars, sent, executed, queryVars>>

\* Mutant: only the database thread is stopped.
StopForgotten ==
    /\ dpc = "stopDispatcher"
    /\ dpc' = "run"
    /\ UNCHANGED <<dState, batch, cur, flushed, listVars, sent, executed, workerVars, queryVars>>

StopDispatcher ==
    /\ dpc = "stopDispatcher"
    /\ dState' = "CLOSING" /\ dpc' = "run"
    /\ UNCHANGED <<batch, cur, flushed, listVars, sent, executed, workerVars, queryVars>>

\* DatabaseTasks::shutdown, up to its flush
ShutDatabase ==
    /\ dpc = "shut"
    /\ dbState' = "TERMINATED" /\ GoTo("flush")
    /\ UNCHANGED <<wpc, taken, listVars, sent, executed, queryVars>>

\* Mutant: the last task goes through addTask.
LastTaskAsked == AddTask(Terminate)

\* Dispatcher::shutdown leaves a last task, whatever the state.  Its own thread
\* calls it, so that nobody is there to be notified.
LastTask == taskList' = Append(taskList, Terminate) /\ posted' = posted \cup {Terminate} /\ UNCHANGED owed

ShutDispatcher ==
    /\ dpc = "last"
    /\ LastTask
    /\ GoTo("run")
    /\ UNCHANGED <<sent, executed, workerVars, queryVars>>

-----------------------------------------------------------------------------
(* DatabaseTasks::threadMain                                                 *)

WorkerTest ==
    /\ wpc = "test"
    /\ wpc' = IF dbState = "TERMINATED" THEN "ended" ELSE "take"
    /\ UNCHANGED <<dbState, taken, dispatcherVars, listVars, sent, executed, queryVars>>

\* Mutant: the query is looked at, and left in the list.
TakeAndLeave ==
    /\ queries # <<>>
    /\ taken' = Head(queries) /\ UNCHANGED queries /\ wpc' = "query"

TakeQuery ==
    /\ queries # <<>>
    /\ taken' = Head(queries) /\ queries' = Tail(queries) /\ wpc' = "query"

WorkerTake ==
    /\ wpc = "take"
    /\ \/ TakeQuery
       \/ queries = <<>> /\ wpc' = "asleep" /\ UNCHANGED <<queries, taken>>
    /\ UNCHANGED <<dbState, accepted, ran, dispatcherVars, listVars, sent, executed>>

WorkerWoken ==
    /\ wpc = "woken"
    /\ \/ TakeQuery
       \/ queries = <<>> /\ wpc' = "test" /\ UNCHANGED <<queries, taken>>
    /\ UNCHANGED <<dbState, accepted, ran, dispatcherVars, listVars, sent, executed>>

WorkerSpurious ==
    /\ wpc = "asleep" /\ wpc' = "woken"
    /\ UNCHANGED <<dbState, taken, dispatcherVars, listVars, sent, executed, queryVars>>

WorkerRun ==
    /\ wpc = "query"
    /\ RunTask(taken)
    /\ taken' = NoQuery /\ wpc' = "test"
    /\ UNCHANGED <<dbState, queries, accepted, dispatcherVars, sent, executed>>

Dispatcher ==
    \/ Test \/ Take \/ Woken \/ BatchDone \/ Execute \/ Expired
    \/ AddQuery \/ NotifyWorker \/ FlushNext \/ FlushDone \/ FlushRun
    \/ PushEnd \/ StopDatabase \/ StopDispatcher \/ ShutDatabase \/ ShutDispatcher

Worker == WorkerTest \/ WorkerTake \/ WorkerWoken \/ WorkerRun

Next == Post \/ NotifyDispatcher \/ Dispatcher \/ Spurious \/ Worker \/ WorkerSpurious

Spec == Init /\ [][Next]_vars

\* Threads that can run are run; no task is posted, and no sleeper wakes up by
\* itself, of necessity.
FairSpec == Spec /\ WF_vars(Dispatcher) /\ WF_vars(Worker) /\ WF_vars(NotifyDispatcher)

-----------------------------------------------------------------------------
(* Properties                                                                *)

\* No wakeup is lost while the server works: what either thread has taken over
\* is run at last, also when the shutdown begins in between.
EverythingRuns ==
    /\ \A t \in Task : t \in posted ~> t \in executed
    /\ \A q \in Queries : q \in accepted ~> q \in ran

\* What the game is promised
Service == INSTANCE TfsService WITH
    Tasks <- Task, Last <- Terminate,
    TaskOf <- [q \in Queries |-> Work(q)],
    AnswerOf <- [q \in Callbacks |-> Callback(q)],
    open <- dState = "RUNNING",
    todo <- batch \o taskList,
    done <- executed

\* The threads keep the promise: the batch and the list together are one queue,
\* first in, first out, whenever they are swapped and whoever adds to it.  The
\* task that ends the dispatcher is added once the server has closed, and comes
\* behind every other task; every query that was accepted has run by then, but
\* for one that the worker may have in its hands, and none is accepted any more.
ServiceSpec == Service!Spec

\* A shutdown comes to its end: the dispatcher ends, every query that was
\* accepted has run, and the worker has nothing to do any more.  It may never
\* end, though: it sleeps when it tested its state before DatabaseTasks::shutdown
\* changed it, and went to sleep after the notification.
ThreadsEnd ==
    Close \in posted ~>
        dpc = "ended" /\ accepted \subseteq ran /\ wpc \in {"ended", "asleep"} /\ queries = <<>>
=============================================================================
