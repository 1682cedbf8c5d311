------------------------------- MODULE Teardown -------------------------------
(***************************************************************************)
(* main (src/main.cpp) around the thread pool: its local objects are made  *)
(* in the order of their declarations and destroyed in the reverse order,  *)
(* when run() returns, when an exception leaves it, or when one of the     *)
(* constructors throws.  The workers run from the construction of the pool *)
(* to the join in its destructor, whatever else has been destroyed.        *)
(***************************************************************************)
EXTENDS ThreadPool

VARIABLES
    built,      \* how many of the objects are constructed and not destroyed
    unwinding,  \* the objects are being destroyed
    touched,    \* auxiliary: objects used after their destruction
    calm        \* auxiliary: no task was left when the destruction began

processVars == <<vars, built, unwinding, touched, calm>>

\* A mistake to be caught: the pool is declared before the logger it writes to.
Declared_PoolFirst ==
    <<"thread_pool", "logger", "session_manager", "static_file", "user_manager", "server">>

Declared ==
    <<"logger", "thread_pool", "session_manager", "static_file", "user_manager", "server">>

Objects == {Declared[i] : i \in 1..Len(Declared)}
Alive   == {Declared[i] : i \in 1..built}

\* What may throw in its constructor: the log file; weakly_canonical; the sockets and
\* epoll_create1.
MayThrow == {"logger", "static_file", "user_manager", "server"}

ProcessInit == /\ Init
               /\ built = 0
               /\ unwinding = FALSE
               /\ touched = {}
               /\ calm = FALSE

Touch(S) == touched' = touched \cup (S \ Alive)
-----------------------------------------------------------------------------
\* The next declaration of main: every constructor but that of the logger logs,
\* and session_manager's, which is empty.
Construct ==
    /\ ~unwinding
    /\ built < Len(Declared)
    /\ built' = built + 1
    /\ Touch(IF Declared[built + 1] \in {"logger", "session_manager"} THEN {} ELSE {"logger"})
    /\ UNCHANGED <<vars, unwinding, calm>>

\* A constructor throws: what is there already is destroyed.
ConstructorThrows ==
    /\ ~unwinding
    /\ built < Len(Declared)
    /\ Declared[built + 1] \in MayThrow
    /\ unwinding' = TRUE
    /\ calm' = TRUE
    /\ UNCHANGED <<vars, built, touched>>

\* Server::run, on main, hands tasks to the pool.
SubmitTask(t) ==
    /\ ~unwinding
    /\ built = Len(Declared)
    /\ Enqueue(t)
    /\ UNCHANGED <<built, unwinding, touched, calm>>

\* run() returns or throws, which main catches outside the scope of its locals.
LeaveRun ==
    /\ ~unwinding
    /\ built = Len(Declared)
    /\ pc[Main] = "idle"
    /\ unwinding' = TRUE
    /\ calm' = (tasks = <<>> /\ Running = {})
    /\ UNCHANGED <<vars, built, touched>>

\* The last object that is left is destroyed.  ~Server, and the connections it
\* still has, ~UserManager and ~Logger are one step: nothing waits in them.
Destroy ==
    /\ unwinding
    /\ built > 0
    /\ Declared[built] # "thread_pool"
    /\ built' = built - 1
    /\ Touch(IF Declared[built] \in {"server", "user_manager"} THEN {"logger"} ELSE {})
    /\ UNCHANGED <<vars, unwinding, calm>>

\* ~ThreadPool logs first, stops the workers and joins them.
DestroyPool ==
    /\ unwinding
    /\ built > 0
    /\ Declared[built] = "thread_pool"
    /\ \/ Stop /\ Touch({"logger"})
       \/ (NotifyAll \/ Joined) /\ UNCHANGED touched
    /\ UNCHANGED <<built, unwinding, calm>>

\* The members of the pool go last.  A task left in tasks_ has the last reference
\* to its Connection: ~Connection calls delFd of the server's epoll_manager_ and
\* logs.  (tasks keeps its value: nobody looks at it again.)
DropTasks ==
    /\ unwinding
    /\ pc[Main] = "joined"
    /\ built > 0
    /\ Declared[built] = "thread_pool"
    /\ built' = built - 1
    /\ Touch(IF tasks = <<>> THEN {} ELSE {"server", "logger"})
    /\ UNCHANGED <<vars, unwinding, calm>>
-----------------------------------------------------------------------------
HasPool == \E i \in 1..built : Declared[i] = "thread_pool"

\* A worker uses the pool at every step; it logs when it quits; when its task ends
\* the Connection closes or is destroyed, in the server's map and interest list.
WorkerActs(w) ==
    /\ HasPool \/ pc[w] # "loop"
    /\ WorkerStep(w) \/ SpuriousWakeUp(w)
    /\ Touch(CASE pc[w] = "run" -> {"thread_pool", "server", "logger"}
               [] pc[w] = "take" /\ pc'[w] = "exited" -> {"thread_pool", "logger"}
               [] OTHER -> {"thread_pool"})
    /\ UNCHANGED <<built, unwinding, calm>>

\* A running task calls the static files, the accounts or the sessions, logs, or
\* arms its descriptor.
TaskUses(w, o) ==
    /\ pc[w] = "run"
    /\ Touch({o})
    /\ UNCHANGED <<vars, built, unwinding, calm>>

MainActs == \/ Construct \/ Destroy \/ DestroyPool \/ DropTasks
            \/ NotifyOne /\ UNCHANGED <<built, unwinding, touched, calm>>

ProcessNext ==
    \/ MainActs
    \/ ConstructorThrows
    \/ LeaveRun
    \/ \E t \in Tasks : SubmitTask(t)
    \/ \E w \in Workers : WorkerActs(w)
    \/ \E w \in Workers, o \in Objects \ {"thread_pool"} : TaskUses(w, o)

ProcessSpec ==
    /\ ProcessInit
    /\ [][ProcessNext]_processVars
    /\ WF_processVars(MainActs)
    /\ \A w \in Workers : WF_processVars(WorkerActs(w) /\ WorkerStep(w))
-----------------------------------------------------------------------------
\* Whatever tasks are queued or running when main leaves, and however its start
\* fails, the logger and the pool are used by nobody after their destruction; and
\* nothing at all is, if no task was left (main.cpp:33-47, threadpool.cpp:15-27).
\* When tasks are left, they do use what is gone: the pool is declared first.
LateUseIsConfined ==
    /\ touched \cap {"logger", "thread_pool"} = {}
    /\ calm => touched = {}
=============================================================================
