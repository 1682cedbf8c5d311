------------------------------ MODULE TaskQueue ------------------------------
(***************************************************************************)
(* What the thread pool promises to the code that submits tasks: a FIFO    *)
(* queue from which each worker takes one task at a time, runs it to its   *)
(* end and comes back.  ThreadPool implements it with a mutex and a        *)
(* condition variable; SkyServer uses it as it is.                         *)
(***************************************************************************)
EXTENDS Sequences

CONSTANTS Workers,   \* the worker threads
          Task,      \* what can be submitted
          Idle       \* the value of running[w] when w runs nothing

VARIABLES queue,     \* tasks submitted and not yet taken
          running    \* the task each worker is running

tqVars == <<queue, running>>

Init == /\ queue = <<>>
        /\ running = [w \in Workers |-> Idle]

Enqueue(t) == /\ queue' = Append(queue, t)
              /\ UNCHANGED running

\* A task is taken in submission order, by a worker that runs nothing.
Start(w) == /\ running[w] = Idle
            /\ queue # <<>>
            /\ running' = [running EXCEPT ![w] = Head(queue)]
            /\ queue' = Tail(queue)

\* A task that throws ends like one that returns: workerLoop catches.
Finish(w) == /\ running[w] # Idle
             /\ running' = [running EXCEPT ![w] = Idle]
             /\ UNCHANGED queue

Next == \/ \E t \in Task : Enqueue(t)
        \/ \E w \in Workers : Start(w)
        \/ \E w \in Workers : Finish(w)

Spec == Init /\ [][Next]_tqVars
=============================================================================
