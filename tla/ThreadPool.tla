------------------------------ MODULE ThreadPool ------------------------------
(***************************************************************************)
(* The thread pool (src/core/threadpool.cpp): workers that wait on a       *)
(* condition variable for tasks, and the main thread, the only one that    *)
(* calls enqueue and, at the end of main(), the destructor.                *)
(*                                                                         *)
(* A wait on the condition variable is taken apart: evaluating the         *)
(* predicate (under tasks_mutex_) and blocking (which releases the mutex)  *)
(* are two steps, because stop_ is written without the mutex and may       *)
(* change between them.                                                    *)
(***************************************************************************)
EXTENDS Naturals, FiniteSets, Sequences

CONSTANTS Workers,   \* the worker threads
          Tasks,     \* the tasks main may submit, each at most once
          Main,      \* the main thread
          NoTask,    \* the value of running[w] between two tasks
          Nobody     \* the value of mutex when it is free

ASSUME PoolAssumption ==
    /\ IsFiniteSet(Workers)
    /\ Workers # {}
    /\ Main \notin Workers
    /\ Nobody \notin Workers \cup {Main}
    /\ NoTask \notin Tasks

VARIABLES
    tasks,      \* tasks_: the queue of std::function
    stop,       \* stop_
    mutex,      \* the holder of tasks_mutex_
    waitSet,    \* the threads blocked in condition_.wait
    pc,         \* where each thread is
    running,    \* the local variable task of workerLoop
    submitted,  \* auxiliary: the tasks enqueue has accepted
    done        \* auxiliary: the tasks that have been executed

vars == <<tasks, stop, mutex, waitSet, pc, running, submitted, done>>

WorkerPc == {"loop", "lock", "test", "block", "wait", "take", "run", "exited"}
MainPc   == {"idle", "notify", "notifyAll", "join", "joined"}

Init == /\ tasks = <<>>
        /\ stop = FALSE
        /\ mutex = Nobody
        /\ waitSet = {}
        /\ pc = [t \in Workers \cup {Main} |-> IF t = Main THEN "idle" ELSE "loop"]
        /\ running = [w \in Workers |-> NoTask]
        /\ submitted = {}
        /\ done = {}

Goto(t, l) == pc' = [pc EXCEPT ![t] = l]
-----------------------------------------------------------------------------
\* A mistake to be caught: only a task that finds the queue empty is notified.
Enqueue_NotifiesWhenEmpty(t) ==
    /\ pc[Main] = "idle"
    /\ t \notin submitted
    /\ mutex = Nobody
    /\ ~stop
    /\ tasks' = Append(tasks, t)
    /\ submitted' = submitted \cup {t}
    /\ Goto(Main, IF tasks = <<>> THEN "notify" ELSE "idle")
    /\ UNCHANGED <<stop, mutex, waitSet, running, done>>

(* enqueue: main is also the thread that sets stop_, so the throw of       *)
(* threadpool.cpp:33 cannot be reached and the guard is ~stop.  The        *)
(* critical section is one step; notify_one comes after the unlock.        *)
Enqueue(t) ==
    /\ pc[Main] = "idle"
    /\ t \notin submitted
    /\ mutex = Nobody
    /\ ~stop
    /\ tasks' = Append(tasks, t)
    /\ submitted' = submitted \cup {t}
    /\ Goto(Main, "notify")
    /\ UNCHANGED <<stop, mutex, waitSet, running, done>>

\* condition_.notify_one(): wakes one of the blocked threads, if there is one.
NotifyOne ==
    /\ pc[Main] = "notify"
    /\ \/ waitSet = {} /\ UNCHANGED waitSet
       \/ \E w \in waitSet : waitSet' = waitSet \ {w}
    /\ Goto(Main, "idle")
    /\ UNCHANGED <<tasks, stop, mutex, running, submitted, done>>

\* ~ThreadPool: stop_ = true, written without tasks_mutex_.
Stop ==
    /\ pc[Main] = "idle"
    /\ stop' = TRUE
    /\ Goto(Main, "notifyAll")
    /\ UNCHANGED <<tasks, mutex, waitSet, running, submitted, done>>

NotifyAll ==
    /\ pc[Main] = "notifyAll"
    /\ waitSet' = {}
    /\ Goto(Main, "join")
    /\ UNCHANGED <<tasks, stop, mutex, running, submitted, done>>

Joined ==
    /\ pc[Main] = "join"
    /\ \A w \in Workers : pc[w] = "exited"
    /\ Goto(Main, "joined")
    /\ UNCHANGED <<tasks, stop, mutex, waitSet, running, submitted, done>>
-----------------------------------------------------------------------------
(* workerLoop, in the order of its statements.                             *)

\* while (!stop_): the only test that lets a worker leave with tasks queued.
Loop(w) ==
    /\ pc[w] = "loop"
    /\ Goto(w, IF stop THEN "exited" ELSE "lock")
    /\ UNCHANGED <<tasks, stop, mutex, waitSet, running, submitted, done>>

Lock(w) ==
    /\ pc[w] = "lock"
    /\ mutex = Nobody
    /\ mutex' = w
    /\ Goto(w, "test")
    /\ UNCHANGED <<tasks, stop, waitSet, running, submitted, done>>

\* A mistake to be caught: the predicate looks at stop_ only.
Test_StopOnly(w) ==
    /\ pc[w] = "test"
    /\ Goto(w, IF stop THEN "take" ELSE "block")
    /\ UNCHANGED <<tasks, stop, mutex, waitSet, running, submitted, done>>

\* The predicate of condition_.wait, evaluated under the mutex.
Test(w) ==
    /\ pc[w] = "test"
    /\ Goto(w, IF stop \/ tasks # <<>> THEN "take" ELSE "block")
    /\ UNCHANGED <<tasks, stop, mutex, waitSet, running, submitted, done>>

\* Releasing the mutex and joining the waiters is atomic.
Block(w) ==
    /\ pc[w] = "block"
    /\ waitSet' = waitSet \cup {w}
    /\ mutex' = Nobody
    /\ Goto(w, "wait")
    /\ UNCHANGED <<tasks, stop, running, submitted, done>>

\* A notified thread takes the mutex again before it tests the predicate.
WakeUp(w) ==
    /\ pc[w] = "wait"
    /\ w \notin waitSet
    /\ mutex = Nobody
    /\ mutex' = w
    /\ Goto(w, "test")
    /\ UNCHANGED <<tasks, stop, waitSet, running, submitted, done>>

\* A wait may also return although nobody notified the thread.
SpuriousWakeUp(w) ==
    /\ w \in waitSet
    /\ waitSet' = waitSet \ {w}
    /\ UNCHANGED <<tasks, stop, mutex, pc, running, submitted, done>>

\* if (stop_ && tasks_.empty()) return
Quit(w) ==
    /\ pc[w] = "take"
    /\ stop /\ tasks = <<>>
    /\ mutex' = Nobody
    /\ Goto(w, "exited")
    /\ UNCHANGED <<tasks, stop, waitSet, running, submitted, done>>

\* Mistakes to be caught: the newest task is taken; the front is read after the
\* pop, and is no task when the queue has become empty; the task is not popped.
Take_Newest(w) ==
    /\ pc[w] = "take"
    /\ tasks # <<>>
    /\ running' = [running EXCEPT ![w] = tasks[Len(tasks)]]
    /\ tasks' = SubSeq(tasks, 1, Len(tasks) - 1)
    /\ mutex' = Nobody
    /\ Goto(w, "run")
    /\ UNCHANGED <<stop, waitSet, submitted, done>>

Take_PopFirst(w) ==
    /\ pc[w] = "take"
    /\ tasks # <<>>
    /\ running' = [running EXCEPT ![w] = IF Len(tasks) = 1 THEN Nobody ELSE tasks[2]]
    /\ tasks' = Tail(tasks)
    /\ mutex' = Nobody
    /\ Goto(w, "run")
    /\ UNCHANGED <<stop, waitSet, submitted, done>>

Take_NoPop(w) ==
    /\ pc[w] = "take"
    /\ tasks # <<>>
    /\ running' = [running EXCEPT ![w] = Head(tasks)]
    /\ mutex' = Nobody
    /\ Goto(w, "run")
    /\ UNCHANGED <<tasks, stop, waitSet, submitted, done>>

Take(w) ==
    /\ pc[w] = "take"
    /\ tasks # <<>>
    /\ running' = [running EXCEPT ![w] = Head(tasks)]
    /\ tasks' = Tail(tasks)
    /\ mutex' = Nobody
    /\ Goto(w, "run")
    /\ UNCHANGED <<stop, waitSet, submitted, done>>

\* task() returns or throws; both end the iteration.
Run(w) ==
    /\ pc[w] = "run"
    /\ done' = done \cup {running[w]}
    /\ running' = [running EXCEPT ![w] = NoTask]
    /\ Goto(w, "loop")
    /\ UNCHANGED <<tasks, stop, mutex, waitSet, submitted>>

WorkerStep(w) ==
    \/ Loop(w) \/ Lock(w) \/ Test(w) \/ Block(w) \/ WakeUp(w)
    \/ Quit(w) \/ Take(w) \/ Run(w)

MainStep == NotifyOne \/ NotifyAll \/ Joined

Next ==
    \/ \E t \in Tasks : Enqueue(t)
    \/ Stop
    \/ MainStep
    \/ \E w \in Workers : WorkerStep(w) \/ SpuriousWakeUp(w)

Spec == Init /\ [][Next]_vars

\* Every thread that can run is eventually scheduled.  Nothing obliges main to
\* submit or to stop, nor a wait to return spuriously.
Fairness == /\ WF_vars(MainStep)
            /\ \A w \in Workers : WF_vars(WorkerStep(w))

FairSpec == Spec /\ Fairness
-----------------------------------------------------------------------------
TypeOK ==
    /\ tasks \in Seq(Tasks)
    /\ stop \in BOOLEAN
    /\ mutex \in Workers \cup {Main, Nobody}
    /\ waitSet \subseteq Workers
    /\ pc \in [Workers \cup {Main} -> WorkerPc \cup MainPc]
    /\ \A w \in Workers : pc[w] \in WorkerPc
    /\ pc[Main] \in MainPc
    /\ running \in [Workers -> Tasks \cup {NoTask}]
    /\ submitted \subseteq Tasks
    /\ done \subseteq Tasks

Queued  == {tasks[i] : i \in 1..Len(tasks)}
Running == {running[w] : w \in {v \in Workers : running[v] # NoTask}}

\* A task is in one place: waiting (once), in one worker, or executed, and none
\* that enqueue accepted is missing.  A worker that pops and another that pops,
\* or one that leaves, never lose or repeat a task (threadpool.cpp:56-63).
NoTaskLostOrRepeated ==
    /\ submitted = Queued \cup Running \cup done
    /\ Queued \cap Running = {}
    /\ Queued \cap done = {}
    /\ Running \cap done = {}
    /\ \A i, j \in 1..Len(tasks) : tasks[i] = tasks[j] => i = j
    /\ \A v, w \in Workers : running[v] = running[w] /\ running[v] # NoTask => v = w

\* The workers that are awake and on their way to the queue.
Seeking == {w \in Workers : /\ pc[w] \in {"loop", "lock", "test", "wait", "take"}
                            /\ w \notin waitSet}

\* No notification is missed: while a worker sleeps, every queued task has a
\* worker on its way to it, or is the one main is about to notify about
\* (enqueue notifies once per task, after the unlock, threadpool.cpp:37).
NoWorkerSleepsOverATask ==
    (waitSet # {} /\ ~stop)
        => Len(tasks) <= Cardinality(Seeking) + (IF pc[Main] = "notify" THEN 1 ELSE 0)

\* Until the pool is stopped, a submitted task is executed (threadpool.h:26).
EveryTaskIsRun ==
    \A t \in Tasks : (t \in submitted) ~> (t \in done \/ stop)

\* The destructor stops every thread and returns (threadpool.h:18).
DestructorReturns == stop ~> (pc[Main] = "joined")

\* The pool implements the FIFO queue that the server relies on.
TQ == INSTANCE TaskQueue WITH Task <- Tasks, Idle <- NoTask, queue <- tasks

PoolIsATaskQueue == TQ!Spec
=============================================================================
