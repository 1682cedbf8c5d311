------------------------------ MODULE LogRotation ------------------------------
(***************************************************************************)
(* The logger (src/utils/logger.cpp): threads that write lines to one      *)
(* file, and move on to the file of the next day when they find that the   *)
(* date has changed.  The first test of file_ and the time of the line are *)
(* taken without the mutex; the rotation and the write each hold it.       *)
(*                                                                         *)
(* A line is a thread and the number of its call.  A line below the        *)
(* minimum level changes nothing and is left out.                          *)
(***************************************************************************)
EXTENDS Naturals, FiniteSets, Sequences

CONSTANTS Threads, Nobody,
          OpenMayFail,   \* the file of a new day may fail to open
          MaxDay,        \* bound: midnights that pass
          MaxCalls       \* bound: calls of log by each thread

ASSUME LogAssumption ==
    /\ Nobody \notin Threads
    /\ OpenMayFail \in BOOLEAN
    /\ MaxDay \in Nat
    /\ MaxCalls \in Nat

VARIABLES
    today,      \* the date
    open,       \* file_.is_open()
    fileDay,    \* the date in filename_
    files,      \* the lines of each day's file
    mutex,      \* the holder of mutex_
    pc,         \* where each thread is in log
    name,       \* the date generateLogFilename returned to each
    time,       \* the date currentTime returned to each
    calls,      \* auxiliary: the calls of each thread so far
    began       \* auxiliary: the date when the current call began

vars == <<today, open, fileDay, files, mutex, pc, name, time, calls, began>>

Days == 0..MaxDay
Written == [thread : Threads, call : 1..MaxCalls, time : Days, began : Days]

Init == /\ today = 0
        /\ open = TRUE
        /\ fileDay = 0
        /\ files = [d \in Days |-> <<>>]
        /\ mutex = Nobody
        /\ pc = [t \in Threads |-> "idle"]
        /\ name = [t \in Threads |-> 0]
        /\ time = [t \in Threads |-> 0]
        /\ calls = [t \in Threads |-> 0]
        /\ began = [t \in Threads |-> 0]

Goto(t, l) == pc' = [pc EXCEPT ![t] = l]

Midnight == /\ today < MaxDay
            /\ today' = today + 1
            /\ UNCHANGED <<open, fileDay, files, mutex, pc, name, time, calls, began>>

\* log: file_.is_open(), without the mutex.  While another thread is closing or
\* opening the file, the read races with it and either answer is possible.
IsOpen(t) ==
    /\ pc[t] = "idle" /\ calls[t] < MaxCalls
    /\ calls' = [calls EXCEPT ![t] = @ + 1]
    /\ began' = [began EXCEPT ![t] = today]
    /\ \E answer \in {open} \cup {b \in BOOLEAN : \E r \in Threads : pc[r] = "reopen"} :
         Goto(t, IF answer THEN "lock" ELSE "idle")
    /\ UNCHANGED <<today, open, fileDay, files, mutex, name, time>>

\* A mistake to be caught: the name is made before the mutex is taken.
MakeName_BeforeLock(t) ==
    \/ /\ pc[t] = "lock"
       /\ name' = [name EXCEPT ![t] = today]
       /\ Goto(t, "named")
       /\ UNCHANGED <<today, open, fileDay, files, mutex, time, calls, began>>
    \/ /\ pc[t] = "named" /\ mutex = Nobody
       /\ mutex' = t
       /\ Goto(t, "compare")
       /\ UNCHANGED <<today, open, fileDay, files, name, time, calls, began>>

\* rotateIfNeeded takes the mutex, and then makes the name of the day.
MakeName(t) ==
    /\ pc[t] = "lock" /\ mutex = Nobody
    /\ mutex' = t
    /\ name' = [name EXCEPT ![t] = today]
    /\ Goto(t, "compare")
    /\ UNCHANGED <<today, open, fileDay, files, time, calls, began>>

\* A mistake to be caught: the new name is moved from before it is kept.
Compare_MovedName(t) ==
    /\ pc[t] = "compare"
    /\ IF name[t] = fileDay
       THEN Goto(t, "stamp") /\ mutex' = Nobody /\ UNCHANGED <<open, fileDay>>
       ELSE /\ Goto(t, "reopen")
            /\ open' = FALSE
            /\ fileDay' = Nobody
            /\ UNCHANGED mutex
    /\ UNCHANGED <<today, files, name, time, calls, began>>

\* filename_ != filename: the file is closed.
Compare(t) ==
    /\ pc[t] = "compare"
    /\ IF name[t] = fileDay
       THEN Goto(t, "stamp") /\ mutex' = Nobody /\ UNCHANGED <<open, fileDay>>
       ELSE /\ Goto(t, "reopen")
            /\ open' = FALSE
            /\ fileDay' = name[t]
            /\ UNCHANGED mutex
    /\ UNCHANGED <<today, files, name, time, calls, began>>

Reopen(t) ==
    /\ pc[t] = "reopen"
    /\ mutex' = Nobody
    /\ open' = TRUE
    /\ Goto(t, "stamp")
    /\ UNCHANGED <<today, fileDay, files, name, time, calls, began>>

\* A mistake to be caught: the exception leaves the mutex locked.
ReopenFails_KeepsLock(t) ==
    /\ OpenMayFail
    /\ pc[t] = "reopen"
    /\ Goto(t, "idle")
    /\ UNCHANGED <<today, open, fileDay, files, mutex, name, time, calls, began>>

\* rotateIfNeeded throws and log returns; filename_ keeps the new name.
ReopenFails(t) ==
    /\ OpenMayFail
    /\ pc[t] = "reopen"
    /\ mutex' = Nobody
    /\ Goto(t, "idle")
    /\ UNCHANGED <<today, open, fileDay, files, name, time, calls, began>>

\* currentTime(), between the two critical sections.
Stamp(t) ==
    /\ pc[t] = "stamp"
    /\ time' = [time EXCEPT ![t] = today]
    /\ Goto(t, "write")
    /\ UNCHANGED <<today, open, fileDay, files, mutex, name, calls, began>>

\* A mistake to be caught: the line goes to the file the thread made sure of.
Write_ByName(t) ==
    /\ pc[t] = "write" /\ mutex = Nobody
    /\ files' = [files EXCEPT ![name[t]] =
          Append(@, [thread |-> t, call |-> calls[t], time |-> time[t], began |-> began[t]])]
    /\ Goto(t, "idle")
    /\ UNCHANGED <<today, open, fileDay, mutex, name, time, calls, began>>

\* The line, under the mutex, to the file that is open now.  A stream whose file
\* another thread has closed, and could not open again, takes it and says nothing.
Write(t) ==
    /\ pc[t] = "write" /\ mutex = Nobody
    /\ IF open
       THEN files' = [files EXCEPT ![fileDay] =
                Append(@, [thread |-> t, call |-> calls[t], time |-> time[t],
                           began |-> began[t]])]
       ELSE UNCHANGED files
    /\ Goto(t, "idle")
    /\ UNCHANGED <<today, open, fileDay, mutex, name, time, calls, began>>

\* The steps of a call that has begun.
Proceed(t) == \/ MakeName(t) \/ Compare(t) \/ Reopen(t) \/ ReopenFails(t)
              \/ Stamp(t) \/ Write(t)

Next == \/ Midnight
        \/ \E t \in Threads : IsOpen(t) \/ Proceed(t)

Spec == Init /\ [][Next]_vars

\* A thread inside log is scheduled.
Fairness == \A t \in Threads : WF_vars(Proceed(t))

FairSpec == Spec /\ Fairness
-----------------------------------------------------------------------------
TypeOK ==
    /\ today \in Days
    /\ open \in BOOLEAN
    /\ fileDay \in Days
    /\ files \in [Days -> Seq(Written)]
    /\ mutex \in Threads \cup {Nobody}
    /\ pc \in [Threads -> {"idle", "lock", "compare", "reopen", "stamp", "write"}]
    /\ name \in [Threads -> Days]
    /\ time \in [Threads -> Days]
    /\ calls \in [Threads -> 0..MaxCalls]
    /\ began \in [Threads -> Days]

\* A line is in the file of a day on which its call was running: the rotation it
\* makes sure of is not undone by another thread, whose clock was read earlier
\* (logger.cpp:28,40,91-98).
LineInAFileOfItsCall ==
    \A d \in Days : \A i \in 1..Len(files[d]) : files[d][i].began <= d /\ d <= today

\* The lines of a thread are in the order of its calls, within a file and from
\* one file to the next, and none is there twice.
LinesInOrder ==
    \A d, e \in Days : \A i \in 1..Len(files[d]), j \in 1..Len(files[e]) :
        (files[d][i].thread = files[e][j].thread /\ files[d][i].call <= files[e][j].call)
            => d < e \/ (d = e /\ i <= j)

\* The log never goes back to an earlier day, and a file of a past day is complete:
\* no thread, however late, adds to it (logger.cpp:37-41,91-102).
PastFilesAreClosed ==
    [][/\ fileDay <= fileDay'
       /\ \A d \in Days : d < fileDay => files'[d] = files[d]]_vars

\* A call returns, also one whose rotation fails: it leaves the mutex free for the
\* other threads (logger.cpp:28-33,92).
CallsReturn == \A t \in Threads : (pc[t] # "idle") ~> (pc[t] = "idle")
=============================================================================
