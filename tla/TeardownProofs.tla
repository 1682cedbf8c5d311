---------------------------- MODULE TeardownProofs ----------------------------
(***************************************************************************)
(* What is proved of main's objects around the pool, for any number of     *)
(* workers and tasks.                                                      *)
(*                                                                         *)
(* The argument: every step is one of the pool's or leaves the pool alone, *)
(* so its invariant holds.  Beside it, PInv says how far main may be in    *)
(* ~ThreadPool for the objects that are left, that the workers do nothing  *)
(* before the pool is there and have all exited before the logger goes,    *)
(* and that there is no task before the server has run.                    *)
(***************************************************************************)
EXTENDS Teardown, ThreadPoolProofs

\* The objects, by their places in main.
LEMMA DeclaredObjects ==
    /\ Len(Declared) = 6
    /\ Declared[1] = "logger" /\ Declared[2] = "thread_pool"
    /\ Declared[3] = "session_manager" /\ Declared[4] = "static_file"
    /\ Declared[5] = "user_manager" /\ Declared[6] = "server"
  BY DEF Declared

LEMMA AliveObjects ==
    ASSUME built \in 0..6
    PROVE  /\ built >= 1 => "logger" \in Alive
           /\ built >= 2 => "thread_pool" \in Alive
           /\ built = 6 => Objects \subseteq Alive
           /\ HasPool <=> built >= 2
  <1>1. built >= 1 => "logger" \in Alive
    BY DeclaredObjects DEF Alive
  <1>2. built >= 2 => "thread_pool" \in Alive
    BY DeclaredObjects DEF Alive
  <1>3. built = 6 => Objects \subseteq Alive
    BY DeclaredObjects DEF Alive, Objects
  <1>4. HasPool <=> built >= 2
    <2>1. \A i \in 1..6 : Declared[i] = "thread_pool" <=> i = 2
      BY DeclaredObjects
    <2> QED BY <2>1 DEF HasPool
  <1> QED BY <1>1, <1>2, <1>3, <1>4

LEMMA SharedObjects == {"logger", "thread_pool", "server"} \subseteq Objects
  <1>1. 1 \in 1..Len(Declared) /\ 2 \in 1..Len(Declared) /\ 6 \in 1..Len(Declared)
    BY DeclaredObjects
  <1> QED BY <1>1, DeclaredObjects DEF Objects
-----------------------------------------------------------------------------
Untasked == tasks = <<>> /\ \A w \in Workers : pc[w] # "run"

PInv ==
    /\ built \in 0..6
    /\ unwinding \in BOOLEAN
    /\ calm \in BOOLEAN
    /\ pc[Main] = "notify" => built = 6 /\ ~unwinding
    /\ pc[Main] \in {"notifyAll", "join"} => built = 2 /\ unwinding
    /\ pc[Main] = "joined" => built <= 2 /\ unwinding /\ \A w \in Workers : pc[w] = "exited"
    /\ built < 2 /\ pc[Main] # "joined" => \A w \in Workers : pc[w] = "loop"
    /\ built < 6 /\ ~unwinding => Untasked
    /\ calm => unwinding /\ Untasked
    /\ ~unwinding => touched = {}
    /\ LateUseIsConfined

LEMMA ProcessTypesInit == ProcessInit => PInv
  <1> SUFFICES ASSUME ProcessInit PROVE PInv
    OBVIOUS
  <1>1. pc[Main] = "idle" /\ \A w \in Workers : pc[w] = "loop"
    BY PoolAssumption DEF ProcessInit, Init
  <1>2. Untasked
    BY <1>1 DEF ProcessInit, Init, Untasked
  <1>3. LateUseIsConfined
    BY DEF ProcessInit, LateUseIsConfined
  <1>4. pc[Main] \notin {"notify", "notifyAll", "join", "joined"}
    BY <1>1
  <1>5. built = 0 /\ ~unwinding /\ ~calm /\ touched = {}
        /\ unwinding \in BOOLEAN /\ calm \in BOOLEAN
    BY DEF ProcessInit
  <1>6. built \in 0..6
    BY <1>5
  <1> QED BY <1>1, <1>2, <1>3, <1>4, <1>5, <1>6 DEF PInv

\* A step that uses only what is alive, or, when tasks were left, not only that,
\* but the logger and the pool while they are.
LEMMA TouchesConfined ==
    ASSUME PInv, NEW S, Touch(S),
           S \cap {"logger", "thread_pool"} \subseteq Alive,
           ~unwinding \/ calm => S \subseteq Alive
    PROVE  /\ touched' \cap {"logger", "thread_pool"} = {}
           /\ calm \/ ~unwinding => touched' = {}
  BY DEF PInv, LateUseIsConfined, Touch

\* The pool's part of a step.
LEMMA ProcessPool == ProcessNext => [Next]_vars
  BY DEF ProcessNext, MainActs, Construct, ConstructorThrows, LeaveRun, SubmitTask, Destroy,
         DestroyPool, DropTasks, WorkerActs, TaskUses, Next, MainStep

LEMMA ProcessStep == IInv /\ PInv /\ [ProcessNext]_processVars => PInv'
  <1> SUFFICES ASSUME IInv, PInv, [ProcessNext]_processVars PROVE PInv'
    OBVIOUS
  <1>1. /\ built \in 0..6 /\ unwinding \in BOOLEAN /\ calm \in BOOLEAN
        /\ Len(Declared) = 6
        /\ pc \in [Workers \cup {Main} -> WorkerPc \cup MainPc]
        /\ pc[Main] \in MainPc
        /\ waitSet \subseteq {w \in Workers : pc[w] = "wait"}
        /\ Main \notin Workers
    BY PoolAssumption, DeclaredObjects DEF PInv, IInv, TypeOK
  <1>2. CASE Construct
    <2> DEFINE S == IF Declared[built + 1] \in {"logger", "session_manager"} THEN {}
                    ELSE {"logger"}
    <2>1. /\ ~unwinding /\ built < 6 /\ built' = built + 1 /\ Touch(S)
          /\ UNCHANGED <<vars, unwinding, calm>>
      BY <1>1, <1>2 DEF Construct
    <2>2. S \subseteq Alive
      BY <1>1, <2>1, DeclaredObjects, AliveObjects
    <2>3. touched' = {} /\ ~calm
      BY <2>1, <2>2, TouchesConfined DEF PInv
    <2>4. Untasked /\ Untasked'
      BY <2>1 DEF PInv, Untasked, vars
    <2> QED BY <1>1, <2>1, <2>3, <2>4 DEF PInv, LateUseIsConfined, vars
  <1>3. CASE ConstructorThrows
    BY <1>1, <1>3 DEF ConstructorThrows, PInv, LateUseIsConfined, Untasked, vars
  <1>4. ASSUME NEW t \in Tasks, SubmitTask(t) PROVE PInv'
    <2>1. /\ ~unwinding /\ built = 6 /\ UNCHANGED <<built, unwinding, touched, calm>>
          /\ pc' = [pc EXCEPT ![Main] = "notify"]
      BY <1>1, <1>4 DEF SubmitTask, Enqueue, Goto
    <2>2. pc'[Main] = "notify"
      BY <1>1, <2>1
    <2> QED BY <1>1, <2>1, <2>2 DEF PInv, LateUseIsConfined
  <1>5. CASE LeaveRun
    <2>1. /\ ~unwinding /\ built = 6 /\ pc[Main] = "idle" /\ unwinding'
          /\ calm' = (tasks = <<>> /\ Running = {}) /\ UNCHANGED <<vars, built, touched>>
      BY <1>1, <1>5 DEF LeaveRun
    <2>2. calm' => Untasked'
      BY <2>1 DEF Untasked, Running, IInv, vars
    <2>3. touched' = {}
      BY <2>1 DEF PInv
    <2> QED BY <1>1, <2>1, <2>2, <2>3 DEF PInv, LateUseIsConfined, vars
  <1>6. CASE Destroy
    <2> DEFINE S == IF Declared[built] \in {"server", "user_manager"} THEN {"logger"} ELSE {}
    <2>1. /\ unwinding /\ built > 0 /\ built # 2 /\ built' = built - 1 /\ Touch(S)
          /\ UNCHANGED <<vars, unwinding, calm>>
      BY <1>1, <1>6, DeclaredObjects DEF Destroy
    <2>2. S \subseteq Alive
      BY <1>1, <2>1, DeclaredObjects, AliveObjects
    <2>3. LateUseIsConfined'
      BY <2>1, <2>2, TouchesConfined DEF LateUseIsConfined
    <2>4. Untasked' = Untasked
      BY <2>1 DEF Untasked, vars
    <2> QED BY <1>1, <2>1, <2>3, <2>4 DEF PInv, vars
  <1>7. CASE DestroyPool
    <2>1. unwinding /\ built = 2 /\ UNCHANGED <<built, unwinding, calm>>
      BY <1>1, <1>7, DeclaredObjects DEF DestroyPool
    <2>2. LateUseIsConfined'
      <3>1. CASE Touch({"logger"})
        BY <1>1, <2>1, <3>1, AliveObjects, TouchesConfined DEF LateUseIsConfined
      <3>2. CASE UNCHANGED touched
        BY <2>1, <3>2 DEF PInv, LateUseIsConfined
      <3> QED BY <1>7, <3>1, <3>2 DEF DestroyPool
    <2>3. /\ tasks' = tasks
          /\ \E l \in {"notifyAll", "join", "joined"} :
                pc' = [pc EXCEPT ![Main] = l]
                /\ (l = "joined" => \A w \in Workers : pc[w] = "exited")
      BY <1>7 DEF DestroyPool, Stop, NotifyAll, Joined, Goto
    <2>4. \A w \in Workers : pc'[w] = pc[w]
      BY <1>1, <2>3
    <2>5. Untasked' = Untasked
      BY <2>3, <2>4 DEF Untasked
    <2>6. /\ pc'[Main] \in {"notifyAll", "join", "joined"}
          /\ pc'[Main] = "joined" => \A w \in Workers : pc'[w] = "exited"
      BY <1>1, <2>3, <2>4
    <2> QED BY <1>1, <2>1, <2>2, <2>5, <2>6 DEF PInv
  <1>8. CASE DropTasks
    <2> DEFINE S == IF tasks = <<>> THEN {} ELSE {"server", "logger"}
    <2>1. /\ unwinding /\ built = 2 /\ built' = 1 /\ pc[Main] = "joined" /\ Touch(S)
          /\ UNCHANGED <<vars, unwinding, calm>>
      BY <1>1, <1>8, DeclaredObjects DEF DropTasks
    <2>2. S \cap {"logger", "thread_pool"} \subseteq Alive
      BY <1>1, <2>1, AliveObjects
    <2>3. calm => S = {}
      BY DEF PInv, Untasked
    <2>4. LateUseIsConfined'
      BY <2>1, <2>2, <2>3, TouchesConfined DEF LateUseIsConfined
    <2>5. Untasked' = Untasked
      BY <2>1 DEF Untasked, vars
    <2> QED BY <1>1, <2>1, <2>4, <2>5 DEF PInv, vars
  <1>9. CASE NotifyOne /\ UNCHANGED <<built, unwinding, touched, calm>>
    <2>1. /\ built = 6 /\ ~unwinding
          /\ pc' = [pc EXCEPT ![Main] = "idle"]
      BY <1>9 DEF NotifyOne, Goto, PInv
    <2>2. pc'[Main] = "idle"
      BY <1>1, <2>1
    <2> QED BY <1>1, <1>9, <2>1, <2>2 DEF PInv, LateUseIsConfined
  <1>10. ASSUME NEW w \in Workers, WorkerActs(w) PROVE PInv'
    <2>1. UNCHANGED <<built, unwinding, calm>>
      BY <1>10 DEF WorkerActs
    <2>2. /\ pc[w] # "exited"
          /\ pc[w] = "loop" => built >= 2
      BY <1>1, <1>10, AliveObjects
      DEF WorkerActs, WorkerStep, SpuriousWakeUp, Loop, Lock, Test, Block, WakeUp, Quit,
          Take, Run
    <2>3. pc[Main] # "joined" /\ built >= 2
      BY <1>1, <2>2 DEF PInv
    <2>4. /\ pc'[Main] = pc[Main]
          /\ \A v \in Workers \ {w} : pc'[v] = pc[v]
          /\ tasks = <<>> => tasks' = <<>> /\ pc'[w] # "run"
      BY <1>1, <1>10
      DEF WorkerActs, WorkerStep, SpuriousWakeUp, Loop, Lock, Test, Block, WakeUp, Quit,
          Take, Run, Goto
    <2>5. Untasked => Untasked'
      BY <2>4 DEF Untasked
    <2>6. /\ touched' \cap {"logger", "thread_pool"} = {}
          /\ calm \/ ~unwinding => touched' = {}
      <3>1. "logger" \in Alive /\ "thread_pool" \in Alive
        BY <1>1, <2>3, AliveObjects
      <3>2. CASE pc[w] = "run"
        <4>1. Touch({"thread_pool", "server", "logger"})
          BY <1>10, <3>2 DEF WorkerActs
        <4>2. ~Untasked
          BY <3>2 DEF Untasked
        <4>3. ~calm /\ (~unwinding => built = 6)
          BY <1>1, <4>2 DEF PInv
        <4>4. ~unwinding => {"thread_pool", "server", "logger"} \subseteq Alive
          BY <1>1, <4>3, AliveObjects, SharedObjects
        <4> QED BY <3>1, <4>1, <4>3, <4>4, TouchesConfined
      <3>3. CASE pc[w] # "run"
        <4>1. Touch({"thread_pool", "logger"}) \/ Touch({"thread_pool"})
          BY <1>10, <3>3 DEF WorkerActs
        <4> QED BY <3>1, <4>1, TouchesConfined
      <3> QED BY <3>2, <3>3
    <2> QED BY <1>1, <2>1, <2>3, <2>4, <2>5, <2>6 DEF PInv, LateUseIsConfined
  <1>11. ASSUME NEW w \in Workers, NEW o \in Objects \ {"thread_pool"}, TaskUses(w, o)
         PROVE  PInv'
    <2>1. pc[w] = "run" /\ Touch({o}) /\ UNCHANGED <<vars, built, unwinding, calm>>
      BY <1>11 DEF TaskUses
    <2>2. ~Untasked
      BY <2>1 DEF Untasked
    <2>3. ~calm /\ (~unwinding => built = 6) /\ built >= 2
      BY <1>1, <2>1, <2>2 DEF PInv
    <2>4. LateUseIsConfined' /\ (~unwinding => touched' = {})
      BY <1>1, <2>1, <2>3, AliveObjects, TouchesConfined DEF LateUseIsConfined
    <2>5. Untasked' = Untasked
      BY <2>1 DEF Untasked, vars
    <2> QED BY <1>1, <2>1, <2>4, <2>5 DEF PInv, vars
  <1>12. CASE UNCHANGED processVars
    BY <1>12 DEF processVars, vars, PInv, Untasked, LateUseIsConfined
  <1> QED
    BY <1>2, <1>3, <1>4, <1>5, <1>6, <1>7, <1>8, <1>9, <1>10, <1>11, <1>12
    DEF ProcessNext, MainActs

\* However the start fails and whatever the workers are doing when main leaves, the
\* pool and the logger are not used after their destruction, and nothing is if no
\* task was left (main.cpp:33-47, threadpool.cpp:15-27,41-52).
THEOREM LateUse == ProcessSpec => []LateUseIsConfined
  <1>1. ProcessInit => IInv
    BY IInvInit DEF ProcessInit
  <1>2. IInv /\ [ProcessNext]_processVars => IInv'
    <2>1. [ProcessNext]_processVars => [Next]_vars
      BY ProcessPool DEF processVars
    <2> QED BY <2>1, IInvStep
  <1>3. PInv => LateUseIsConfined
    BY DEF PInv
  <1> QED BY <1>1, <1>2, <1>3, ProcessTypesInit, ProcessStep, PTL DEF ProcessSpec

\* The process uses the pool as ThreadPool allows it: what is proved of the pool
\* holds in the process (main.cpp:35,47, threadpool.h:26).
THEOREM ProcessIsPool == ProcessSpec => Spec
  <1>1. ProcessInit => Init
    BY DEF ProcessInit
  <1>2. [ProcessNext]_processVars => [Next]_vars
    BY ProcessPool DEF processVars
  <1> QED BY <1>1, <1>2, PTL DEF ProcessSpec, Spec
=============================================================================
