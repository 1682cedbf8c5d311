--------------------------- MODULE ThreadPoolProofs ---------------------------
(***************************************************************************)
(* The safety of the thread pool, for any number of workers and tasks.     *)
(*                                                                         *)
(* The argument: IInv says who holds tasks_mutex_ and what each place in   *)
(* workerLoop means.  A worker in its critical section is the only one     *)
(* there and main does not enqueue meanwhile, so what it saw of the queue  *)
(* when it tested the predicate still holds when it pops or blocks.  From  *)
(* that follow the accounting of the tasks, the FIFO order (refinement of  *)
(* TaskQueue) and the counting argument that no notification is missed.    *)
(***************************************************************************)
EXTENDS ThreadPool, FiniteSetTheorems, TLAPS

Elems(s) == {s[i] : i \in 1..Len(s)}
NoDup(s) == \A i, j \in 1..Len(s) : s[i] = s[j] => i = j

\* What appending to a queue and popping its front do to its elements.
LEMMA ElemsAppend ==
    ASSUME NEW S, NEW s \in Seq(S), NEW x \in S, NoDup(s), x \notin Elems(s)
    PROVE  /\ Elems(Append(s, x)) = Elems(s) \cup {x}
           /\ NoDup(Append(s, x))
  <1>1. /\ Len(Append(s, x)) = Len(s) + 1
        /\ Len(s) \in Nat
        /\ Append(s, x)[Len(s) + 1] = x
        /\ \A i \in 1..Len(s) : Append(s, x)[i] = s[i]
    OBVIOUS
  <1>2. Elems(Append(s, x)) = Elems(s) \cup {x}
    <2>1. Elems(Append(s, x)) \subseteq Elems(s) \cup {x}
      BY <1>1 DEF Elems
    <2>2. Elems(s) \cup {x} \subseteq Elems(Append(s, x))
      BY <1>1 DEF Elems
    <2> QED BY <2>1, <2>2
  <1>3. NoDup(Append(s, x))
    BY <1>1 DEF NoDup, Elems
  <1> QED BY <1>2, <1>3

LEMMA ElemsTail ==
    ASSUME NEW S, NEW s \in Seq(S), s # <<>>, NoDup(s)
    PROVE  /\ Elems(Tail(s)) = Elems(s) \ {Head(s)}
           /\ NoDup(Tail(s))
           /\ Head(s) \in Elems(s)
           /\ Head(s) \in S
           /\ Tail(s) \in Seq(S)
           /\ Len(Tail(s)) = Len(s) - 1
  <1>1. /\ Len(s) \in Nat /\ Len(s) >= 1
        /\ Len(Tail(s)) = Len(s) - 1
        /\ Head(s) = s[1]
        /\ Head(s) \in S
        /\ Tail(s) \in Seq(S)
        /\ \A i \in 1..(Len(s) - 1) : Tail(s)[i] = s[i + 1]
    OBVIOUS
  <1>2. Elems(Tail(s)) = Elems(s) \ {Head(s)}
    <2>1. ASSUME NEW e \in Elems(Tail(s)) PROVE e \in Elems(s) \ {Head(s)}
      <3>1. PICK i \in 1..(Len(s) - 1) : e = s[i + 1]
        BY <1>1 DEF Elems
      <3>2. i + 1 \in 1..Len(s) /\ i + 1 # 1 /\ 1 \in 1..Len(s)
        BY <1>1
      <3> QED BY <1>1, <3>1, <3>2 DEF Elems, NoDup
    <2>2. ASSUME NEW e \in Elems(s) \ {Head(s)} PROVE e \in Elems(Tail(s))
      <3>1. PICK i \in 1..Len(s) : e = s[i]
        BY DEF Elems
      <3>2. i - 1 \in 1..(Len(s) - 1) /\ (i - 1) + 1 = i
        BY <1>1, <3>1
      <3>3. Tail(s)[i - 1] = e
        BY <1>1, <3>1, <3>2
      <3> QED BY <1>1, <3>2, <3>3 DEF Elems
    <2> QED BY <2>1, <2>2
  <1>3. NoDup(Tail(s))
    BY <1>1 DEF NoDup
  <1>4. Head(s) \in Elems(s)
    BY <1>1 DEF Elems
  <1> QED BY <1>1, <1>2, <1>3, <1>4
-----------------------------------------------------------------------------
\* The inductive invariant.
Critical(w) == pc[w] \in {"test", "block", "take"}

IInv ==
    /\ TypeOK
    /\ \A w \in Workers : mutex = w <=> Critical(w)
    /\ \A w \in Workers : running[w] # NoTask <=> pc[w] = "run"
    /\ waitSet \subseteq {w \in Workers : pc[w] = "wait"}
    /\ \A w \in Workers : pc[w] = "block" => tasks = <<>>

\* Type correctness and the meaning of mutex, running and waitSet are
\* preserved by every step (threadpool.cpp:47-76).
LEMMA IInvInit == Init => IInv
  <1> SUFFICES ASSUME Init PROVE IInv
    OBVIOUS
  <1> USE PoolAssumption DEF Init
  <1>1. TypeOK
    <2>1. tasks \in Seq(Tasks)
      OBVIOUS
    <2>2. /\ pc \in [Workers \cup {Main} -> WorkerPc \cup MainPc]
          /\ \A w \in Workers : pc[w] \in WorkerPc
          /\ pc[Main] \in MainPc
      BY DEF WorkerPc, MainPc
    <2> QED BY <2>1, <2>2 DEF TypeOK
  <1>2. \A w \in Workers : pc[w] = "loop" /\ w # Nobody /\ running[w] = NoTask
    OBVIOUS
  <1> QED BY <1>1, <1>2 DEF IInv, Critical

LEMMA IInvStep == IInv /\ [Next]_vars => IInv'
  <1> SUFFICES ASSUME IInv, [Next]_vars PROVE IInv'
    OBVIOUS
  <1> USE PoolAssumption DEF IInv, TypeOK, Critical, WorkerPc, MainPc
  <1>1. ASSUME NEW t \in Tasks, Enqueue(t) PROVE IInv'
    <2>1. \A w \in Workers : ~Critical(w) /\ pc'[w] = pc[w]
      BY <1>1 DEF Enqueue, Goto
    <2> QED BY <1>1, <2>1 DEF Enqueue, Goto
  <1>2. CASE Stop
    BY <1>2 DEF Stop, Goto
  <1>3. CASE NotifyOne
    BY <1>3 DEF NotifyOne, Goto
  <1>4. CASE NotifyAll
    BY <1>4 DEF NotifyAll, Goto
  <1>5. CASE Joined
    BY <1>5 DEF Joined, Goto
  <1>6. ASSUME NEW w \in Workers, Loop(w) PROVE IInv'
    BY <1>6 DEF Loop, Goto
  <1>7. ASSUME NEW w \in Workers, Lock(w) PROVE IInv'
    BY <1>7 DEF Lock, Goto
  <1>8. ASSUME NEW w \in Workers, Test(w) PROVE IInv'
    BY <1>8 DEF Test, Goto
  <1>9. ASSUME NEW w \in Workers, Block(w) PROVE IInv'
    BY <1>9 DEF Block, Goto
  <1>10. ASSUME NEW w \in Workers, WakeUp(w) PROVE IInv'
    BY <1>10 DEF WakeUp, Goto
  <1>11. ASSUME NEW w \in Workers, Quit(w) PROVE IInv'
    BY <1>11 DEF Quit, Goto
  <1>12. ASSUME NEW w \in Workers, Take(w) PROVE IInv'
    <2>1. Head(tasks) \in Tasks /\ Tail(tasks) \in Seq(Tasks)
      BY <1>12 DEF Take
    <2> QED BY <1>12, <2>1 DEF Take, Goto
  <1>13. ASSUME NEW w \in Workers, Run(w) PROVE IInv'
    BY <1>13 DEF Run, Goto
  <1>14. ASSUME NEW w \in Workers, SpuriousWakeUp(w) PROVE IInv'
    BY <1>14 DEF SpuriousWakeUp
  <1>15. CASE UNCHANGED vars
    BY <1>15 DEF vars
  <1> QED
    BY <1>1, <1>2, <1>3, <1>4, <1>5, <1>6, <1>7, <1>8, <1>9, <1>10, <1>11, <1>12,
       <1>13, <1>14, <1>15 DEF Next, MainStep, WorkerStep

\* The thread pool's variables keep their types.
THEOREM TypeCorrect == Spec => []TypeOK
  <1>1. IInv => TypeOK
    BY DEF IInv
  <1> QED BY <1>1, IInvInit, IInvStep, PTL DEF Spec

LEMMA IInvAlways == Spec => []IInv
  BY IInvInit, IInvStep, PTL DEF Spec
-----------------------------------------------------------------------------
(* The accounting of the tasks.                                            *)

LEMMA AccountingInit == Init => NoTaskLostOrRepeated
  BY DEF Init, NoTaskLostOrRepeated, Queued, Running

\* A step that leaves the queue, the running tasks and the auxiliary sets alone.
LEMMA AccountingUnchanged ==
    ASSUME NoTaskLostOrRepeated, UNCHANGED <<tasks, running, submitted, done>>
    PROVE  NoTaskLostOrRepeated'
  BY DEF NoTaskLostOrRepeated, Queued, Running

LEMMA AccountingStep ==
    IInv /\ NoTaskLostOrRepeated /\ [Next]_vars => NoTaskLostOrRepeated'
  <1> SUFFICES ASSUME IInv, NoTaskLostOrRepeated, [Next]_vars
               PROVE  NoTaskLostOrRepeated'
    OBVIOUS
  <1>1. /\ tasks \in Seq(Tasks)
        /\ running \in [Workers -> Tasks \cup {NoTask}]
        /\ NoTask \notin Tasks
        /\ \A w \in Workers : running[w] # NoTask <=> pc[w] = "run"
    BY PoolAssumption DEF IInv, TypeOK
  <1>2. /\ Queued = Elems(tasks) /\ Queued' = Elems(tasks')
        /\ NoDup(tasks)
        /\ NoDup(tasks') <=> (\A i, j \in 1..Len(tasks') : tasks'[i] = tasks'[j] => i = j)
    BY DEF Queued, Elems, NoDup, NoTaskLostOrRepeated
  <1>3. ASSUME NEW t \in Tasks, Enqueue(t) PROVE NoTaskLostOrRepeated'
    <2>1. t \notin submitted /\ tasks' = Append(tasks, t)
          /\ submitted' = submitted \cup {t} /\ UNCHANGED <<running, done>>
      BY <1>3 DEF Enqueue
    <2>2. t \notin Elems(tasks) /\ t \notin Running /\ t \notin done
      BY <1>2, <2>1 DEF NoTaskLostOrRepeated
    <2>3. Elems(tasks') = Elems(tasks) \cup {t} /\ NoDup(tasks')
      BY <1>1, <1>2, <2>1, <2>2, ElemsAppend
    <2>4. Running' = Running
      BY <2>1 DEF Running
    <2> QED BY <1>2, <2>1, <2>2, <2>3, <2>4 DEF NoTaskLostOrRepeated
  <1>4. ASSUME NEW w \in Workers, Take(w) PROVE NoTaskLostOrRepeated'
    <2> DEFINE h == Head(tasks)
    <2>1. /\ pc[w] = "take" /\ tasks # <<>> /\ tasks' = Tail(tasks)
          /\ running' = [running EXCEPT ![w] = h]
          /\ UNCHANGED <<submitted, done>>
      BY <1>4 DEF Take
    <2>2. /\ Elems(tasks') = Elems(tasks) \ {h} /\ NoDup(tasks')
          /\ h \in Elems(tasks) /\ h \in Tasks
      BY <1>1, <1>2, <2>1, ElemsTail
    <2>3. running[w] = NoTask /\ h # NoTask
      BY <1>1, <2>1, <2>2
    <2>4. Running' = Running \cup {h}
      BY <1>1, <2>1, <2>3 DEF Running
    <2>5. h \notin Running
      BY <1>2, <2>2 DEF NoTaskLostOrRepeated
    <2>6. \A u, v \in Workers : running'[u] = running'[v] /\ running'[u] # NoTask => u = v
      BY <1>1, <2>1, <2>5 DEF Running, NoTaskLostOrRepeated
    <2> QED BY <1>2, <2>1, <2>2, <2>4, <2>5, <2>6 DEF NoTaskLostOrRepeated
  <1>5. ASSUME NEW w \in Workers, Run(w) PROVE NoTaskLostOrRepeated'
    <2>1. /\ pc[w] = "run" /\ done' = done \cup {running[w]}
          /\ running' = [running EXCEPT ![w] = NoTask]
          /\ UNCHANGED <<tasks, submitted>>
      BY <1>5 DEF Run
    <2>2. running[w] # NoTask /\ running[w] \in Running
      BY <1>1, <2>1 DEF Running
    <2>3. Running' = Running \ {running[w]}
      BY <1>1, <2>1, <2>2 DEF Running, NoTaskLostOrRepeated
    <2>4. \A u, v \in Workers : running'[u] = running'[v] /\ running'[u] # NoTask => u = v
      BY <1>1, <2>1 DEF NoTaskLostOrRepeated
    <2>5. Queued' = Queued
      BY <2>1 DEF Queued
    <2> QED BY <1>2, <2>1, <2>2, <2>3, <2>4, <2>5 DEF NoTaskLostOrRepeated
  <1>6. ASSUME UNCHANGED <<tasks, running, submitted, done>>
        PROVE  NoTaskLostOrRepeated'
    BY <1>6, AccountingUnchanged
  <1> QED
    BY <1>3, <1>4, <1>5, <1>6
    DEF Next, MainStep, WorkerStep, Stop, NotifyOne, NotifyAll, Joined, Loop, Lock,
        Test, Block, WakeUp, Quit, SpuriousWakeUp, vars

\* However workers and main interleave, a submitted task is in the queue once,
\* or in one worker, or executed (threadpool.cpp:31-37,56-63).
THEOREM TasksAccounted == Spec => []NoTaskLostOrRepeated
  BY IInvAlways, AccountingInit, AccountingStep, PTL DEF Spec
-----------------------------------------------------------------------------
(* No notification is missed.                                              *)

\* Main owes the notification of the task it has just appended.
Owed == IF pc[Main] = "notify" THEN 1 ELSE 0

LEMMA SeekingFinite ==
    /\ IsFiniteSet(Seeking) /\ Cardinality(Seeking) \in Nat
    /\ IsFiniteSet(Seeking') /\ Cardinality(Seeking') \in Nat
    /\ Owed \in {0, 1} /\ Owed' \in {0, 1}
  <1>1. IsFiniteSet(Seeking)
    BY PoolAssumption, FS_Subset DEF Seeking
  <1>2. IsFiniteSet(Seeking')
    BY PoolAssumption, FS_Subset DEF Seeking
  <1> QED BY <1>1, <1>2, FS_CardinalityType DEF Owed

\* A step that adds no task, takes no worker off its way to the queue and puts
\* none to sleep, and that main does not use to notify.
LEMMA SeekingKept ==
    ASSUME tasks \in Seq(Tasks), NoWorkerSleepsOverATask,
           Seeking \subseteq Seeking', Owed' = Owed, UNCHANGED tasks,
           waitSet' \subseteq waitSet, stop => stop'
    PROVE  NoWorkerSleepsOverATask'
  <1>1. Cardinality(Seeking) <= Cardinality(Seeking')
    BY SeekingFinite, FS_Subset
  <1>2. CASE waitSet' # {} /\ ~stop'
    <2>1. Len(tasks) <= Cardinality(Seeking) + Owed
      BY <1>2 DEF NoWorkerSleepsOverATask, Owed
    <2>2. Len(tasks') <= Cardinality(Seeking') + Owed'
      BY <1>1, <2>1, SeekingFinite
    <2> QED BY <2>2 DEF NoWorkerSleepsOverATask, Owed
  <1> QED BY <1>2 DEF NoWorkerSleepsOverATask

LEMMA WakeupInit == Init => NoWorkerSleepsOverATask
  BY DEF Init, NoWorkerSleepsOverATask

LEMMA WakeupStep ==
    IInv /\ NoWorkerSleepsOverATask /\ [Next]_vars => NoWorkerSleepsOverATask'
  <1> SUFFICES ASSUME IInv, NoWorkerSleepsOverATask, [Next]_vars
               PROVE  NoWorkerSleepsOverATask'
    OBVIOUS
  <1>1. /\ pc \in [Workers \cup {Main} -> WorkerPc \cup MainPc]
        /\ Main \notin Workers
        /\ tasks \in Seq(Tasks)
    BY PoolAssumption DEF IInv, TypeOK
  <1>2. ASSUME NEW t \in Tasks, Enqueue(t) PROVE NoWorkerSleepsOverATask'
    <2>1. Seeking' = Seeking /\ UNCHANGED <<waitSet, stop>>
      BY <1>1, <1>2 DEF Enqueue, Goto, Seeking
    <2>2. Owed = 0 /\ Owed' = 1 /\ Len(tasks') = Len(tasks) + 1
      BY <1>1, <1>2 DEF Enqueue, Goto, Owed
    <2>3. Cardinality(Seeking') = Cardinality(Seeking)
      BY <2>1
    <2>4. waitSet # {} /\ ~stop => Len(tasks) <= Cardinality(Seeking) + Owed
      BY DEF NoWorkerSleepsOverATask, Owed
    <2>5. waitSet' # {} /\ ~stop' => Len(tasks') <= Cardinality(Seeking') + Owed'
      BY <2>1, <2>2, <2>3, <2>4, SeekingFinite
    <2> QED BY <2>5 DEF NoWorkerSleepsOverATask, Owed
  <1>3. CASE NotifyOne
    <2>1. CASE waitSet = {}
      BY <1>3, <2>1 DEF NotifyOne, NoWorkerSleepsOverATask
    <2>2. CASE waitSet # {}
      <3>1. PICK w \in waitSet : waitSet' = waitSet \ {w}
        BY <1>3, <2>2 DEF NotifyOne
      <3>2. w \in Workers /\ pc[w] = "wait" /\ w \notin Seeking
        BY DEF IInv, Seeking
      <3>3. Seeking' = Seeking \cup {w}
        BY <1>1, <1>3, <3>1, <3>2 DEF NotifyOne, Goto, Seeking
      <3>4. Cardinality(Seeking') = Cardinality(Seeking) + 1
        BY <3>2, <3>3, SeekingFinite, FS_AddElement
      <3>5. Owed = 1 /\ Owed' = 0 /\ UNCHANGED <<tasks, stop>>
        BY <1>1, <1>3 DEF NotifyOne, Goto, Owed
      <3>6. ~stop => Len(tasks) <= Cardinality(Seeking) + Owed
        BY <2>2 DEF NoWorkerSleepsOverATask, Owed
      <3>7. ~stop' => Len(tasks') <= Cardinality(Seeking') + Owed'
        BY <3>4, <3>5, <3>6, SeekingFinite
      <3> QED BY <3>7 DEF NoWorkerSleepsOverATask, Owed
    <2> QED BY <2>1, <2>2
  <1>4. CASE Stop
    BY <1>4 DEF Stop, NoWorkerSleepsOverATask
  <1>5. CASE NotifyAll
    BY <1>5 DEF NotifyAll, NoWorkerSleepsOverATask
  <1>6. CASE Joined
    <2>1. Seeking' = Seeking /\ Owed' = Owed /\ UNCHANGED <<tasks, waitSet, stop>>
      BY <1>1, <1>6 DEF Joined, Goto, Seeking, Owed
    <2> QED BY <1>1, <2>1, SeekingKept
  <1>7. ASSUME NEW w \in Workers, Loop(w) \/ Quit(w) PROVE NoWorkerSleepsOverATask'
    <2>1. CASE stop
      BY <1>7, <2>1 DEF Loop, Quit, NoWorkerSleepsOverATask
    <2>2. CASE ~stop
      <3>1. Seeking \subseteq Seeking' /\ Owed' = Owed /\ UNCHANGED <<tasks, waitSet, stop>>
        BY <1>1, <1>7, <2>2 DEF Loop, Quit, Goto, Seeking, Owed
      <3> QED BY <1>1, <3>1, SeekingKept
    <2> QED BY <2>1, <2>2
  <1>8. ASSUME NEW w \in Workers, Lock(w) \/ WakeUp(w) \/ Run(w)
        PROVE  NoWorkerSleepsOverATask'
    <2>1. Seeking \subseteq Seeking' /\ Owed' = Owed /\ UNCHANGED <<tasks, waitSet, stop>>
      BY <1>1, <1>8 DEF Lock, WakeUp, Run, Goto, Seeking, Owed
    <2> QED BY <1>1, <2>1, SeekingKept
  <1>9. ASSUME NEW w \in Workers, Test(w) PROVE NoWorkerSleepsOverATask'
    <2>1. CASE stop \/ tasks # <<>>
      <3>1. Seeking \subseteq Seeking' /\ Owed' = Owed /\ UNCHANGED <<tasks, waitSet, stop>>
        BY <1>1, <1>9, <2>1 DEF Test, Goto, Seeking, Owed
      <3> QED BY <1>1, <3>1, SeekingKept
    <2>2. CASE ~stop /\ tasks = <<>>
      <3>1. Len(tasks') = 0
        BY <1>9, <2>2 DEF Test
      <3>2. Len(tasks') <= Cardinality(Seeking') + Owed'
        BY <3>1, SeekingFinite
      <3> QED BY <3>2 DEF NoWorkerSleepsOverATask, Owed
    <2> QED BY <2>1, <2>2
  <1>10. ASSUME NEW w \in Workers, Block(w) PROVE NoWorkerSleepsOverATask'
    <2>1. Len(tasks') = 0
      BY <1>10 DEF Block, IInv
    <2>2. Len(tasks') <= Cardinality(Seeking') + Owed'
      BY <2>1, SeekingFinite
    <2> QED BY <2>2 DEF NoWorkerSleepsOverATask, Owed
  <1>11. ASSUME NEW w \in Workers, Take(w) PROVE NoWorkerSleepsOverATask'
    <2>1. w \in Seeking
      BY <1>11 DEF Take, IInv, Seeking
    <2>2. Seeking' = Seeking \ {w} /\ Owed' = Owed /\ UNCHANGED <<waitSet, stop>>
      BY <1>1, <1>11 DEF Take, Goto, Seeking, Owed
    <2>3. Cardinality(Seeking') = Cardinality(Seeking) - 1
      BY <2>1, <2>2, SeekingFinite, FS_RemoveElement
    <2>4. Len(tasks') = Len(tasks) - 1
      BY <1>1, <1>11 DEF Take
    <2>5. waitSet # {} /\ ~stop => Len(tasks) <= Cardinality(Seeking) + Owed
      BY DEF NoWorkerSleepsOverATask, Owed
    <2>6. waitSet' # {} /\ ~stop' => Len(tasks') <= Cardinality(Seeking') + Owed'
      BY <2>2, <2>3, <2>4, <2>5, SeekingFinite
    <2> QED BY <2>6 DEF NoWorkerSleepsOverATask, Owed
  <1>12. ASSUME NEW w \in Workers, SpuriousWakeUp(w) PROVE NoWorkerSleepsOverATask'
    <2>1. /\ Seeking \subseteq Seeking' /\ Owed' = Owed /\ UNCHANGED <<tasks, stop>>
          /\ waitSet' \subseteq waitSet
      BY <1>12 DEF SpuriousWakeUp, Seeking, Owed
    <2> QED BY <1>1, <2>1, SeekingKept
  <1>13. CASE UNCHANGED vars
    BY <1>13 DEF vars, NoWorkerSleepsOverATask, Seeking
  <1> QED
    BY <1>2, <1>3, <1>4, <1>5, <1>6, <1>7, <1>8, <1>9, <1>10, <1>11, <1>12, <1>13
    DEF Next, MainStep, WorkerStep

\* While a worker sleeps, every queued task but the one main is about to notify
\* about has a worker of its own on the way to the queue: notify_one after the
\* unlock, and a predicate tested before blocking, miss no task
\* (threadpool.cpp:37,50).
THEOREM NoMissedNotification == Spec => []NoWorkerSleepsOverATask
  BY IInvAlways, WakeupInit, WakeupStep, PTL DEF Spec
-----------------------------------------------------------------------------
(* The pool implements TaskQueue.                                          *)

LEMMA RefinesInit == Init => TQ!Init
  BY DEF Init, TQ!Init

LEMMA RefinesStep == IInv /\ [Next]_vars => [TQ!Next]_(TQ!tqVars)
  <1> SUFFICES ASSUME IInv, [Next]_vars PROVE TQ!Next \/ UNCHANGED TQ!tqVars
    OBVIOUS
  <1>1. ASSUME NEW t \in Tasks, Enqueue(t) PROVE TQ!Enqueue(t)
    BY <1>1 DEF Enqueue, TQ!Enqueue
  <1>2. ASSUME NEW w \in Workers, Take(w) PROVE TQ!Start(w)
    BY <1>2 DEF Take, TQ!Start, IInv
  <1>3. ASSUME NEW w \in Workers, Run(w) PROVE TQ!Finish(w)
    BY <1>3 DEF Run, TQ!Finish, IInv
  <1>4. CASE UNCHANGED <<tasks, running>>
    BY <1>4 DEF TQ!tqVars
  <1> QED
    BY <1>1, <1>2, <1>3, <1>4
    DEF Next, MainStep, WorkerStep, TQ!Next, Stop, NotifyOne, NotifyAll, Joined, Loop,
        Lock, Test, Block, WakeUp, Quit, SpuriousWakeUp, vars

\* What the server relies on: tasks are taken in the order of submission, each
\* by one worker that runs nothing else (threadpool.cpp:42-76).
THEOREM PoolRefinesTaskQueue == Spec => PoolIsATaskQueue
  BY IInvAlways, RefinesInit, RefinesStep, PTL DEF Spec, PoolIsATaskQueue, TQ!Spec
=============================================================================
