----------------------------- MODULE TfsService -----------------------------
(***************************************************************************)
(* What the dispatcher and the database thread promise to the game.        *)
(* Tasks are executed in the order in which they were posted, each once.   *)
(* A query is accepted from its own task, runs once, and is answered by a  *)
(* task of its own while the server still takes tasks.  The task that ends *)
(* the dispatcher is not for anyone to post: it is added when the server   *)
(* has closed and no query is left to run but one, in the hands of the     *)
(* worker.  Nothing comes behind it, neither a task nor a query.           *)
(* TfsThreads implements this with two threads, two lists and two locks.   *)
(***************************************************************************)
EXTENDS Sequences

CONSTANTS
    Tasks, Queries,
    TaskOf,         \* the task that submits a query
    AnswerOf,       \* the task of a query's callback, if it has one
    Last            \* the task that ends the dispatcher

VARIABLES
    open,           \* does the server take tasks?
    todo, done,     \* the tasks to execute, in order, and those executed
    accepted, ran   \* queries

vars == <<open, todo, done, accepted, ran>>

\* What the game posts: everything but the answers and the last task
Answers == {AnswerOf[q] : q \in DOMAIN AnswerOf}
Postable == Tasks \ (Answers \cup {Last})

Posted == done \cup {todo[i] : i \in DOMAIN todo}

Init == open = TRUE /\ todo = <<>> /\ done = {} /\ accepted = {} /\ ran = {}

Add(t) == t \notin Posted /\ todo' = Append(todo, t)

Post(t) ==
    /\ open /\ Add(t)
    /\ UNCHANGED <<open, done, accepted, ran>>

Execute ==
    /\ todo # <<>>
    /\ done' = done \cup {Head(todo)} /\ todo' = Tail(todo)
    /\ UNCHANGED <<open, accepted, ran>>

Accept(q) ==
    /\ TaskOf[q] \in done /\ q \notin accepted /\ Last \notin Posted
    /\ accepted' = accepted \cup {q}
    /\ UNCHANGED <<open, todo, done, ran>>

Run(q) ==
    /\ q \in accepted \ ran
    /\ ran' = ran \cup {q}
    /\ IF open /\ q \in DOMAIN AnswerOf THEN Add(AnswerOf[q]) ELSE UNCHANGED todo
    /\ UNCHANGED <<open, done, accepted>>

Close ==
    /\ open /\ open' = FALSE
    /\ UNCHANGED <<todo, done, accepted, ran>>

PostLast ==
    /\ ~open /\ Add(Last)
    /\ \A q, r \in accepted \ ran : q = r
    /\ UNCHANGED <<open, done, accepted, ran>>

Next ==
    \/ \E t \in Postable : Post(t)
    \/ Execute \/ Close \/ PostLast
    \/ \E q \in Queries : Accept(q) \/ Run(q)

Spec == Init /\ [][Next]_vars
=============================================================================
