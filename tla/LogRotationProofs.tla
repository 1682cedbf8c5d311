--------------------------- MODULE LogRotationProofs ---------------------------
(***************************************************************************)
(* The rotation of the log, for any number of threads, calls and days.     *)
(*                                                                         *)
(* The argument: the name of the day is made with the mutex held, and only *)
(* the holder changes fileDay, so a thread that compares finds a name that *)
(* is not earlier than fileDay.  fileDay therefore never goes back, and    *)
(* when a thread writes, the file is of the day it made sure of, or of a   *)
(* later one, and never of a day that is still to come.                    *)
(***************************************************************************)
EXTENDS LogRotation, TLAPS

Inside(t) == pc[t] \in {"lock", "compare", "reopen", "stamp", "write"}

\* The dates of a thread: its call began before it made the name, and the name is
\* not earlier than the file until the two are the same.
ThreadInv(t) ==
    /\ pc[t] \in {"compare", "reopen"} => mutex = t
    /\ began[t] <= today
    /\ Inside(t) => calls[t] \in 1..MaxCalls
    /\ pc[t] \in {"compare", "reopen", "stamp", "write"}
           => began[t] <= name[t] /\ name[t] <= today
    /\ pc[t] = "compare" => fileDay <= name[t]
    /\ pc[t] \in {"reopen", "stamp", "write"} => name[t] <= fileDay

LInv == /\ TypeOK
        /\ fileDay <= today
        /\ \A t \in Threads : ThreadInv(t)

LEMMA LInvInit == Init => LInv
  <1> SUFFICES ASSUME Init PROVE LInv
    OBVIOUS
  <1> USE LogAssumption DEF Init
  <1>1. 0 \in Days /\ 0 \in 0..MaxCalls
    BY DEF Days
  <1>2. files \in [Days -> Seq(Written)]
    OBVIOUS
  <1>3. TypeOK
    BY <1>1, <1>2 DEF TypeOK
  <1> QED BY <1>1, <1>3 DEF LInv, ThreadInv, Inside

LEMMA LInvStep == LInv /\ [Next]_vars => LInv'
  <1> SUFFICES ASSUME LInv, [Next]_vars PROVE LInv'
    OBVIOUS
  <1>0. Days \subseteq Nat /\ MaxCalls \in Nat /\ MaxDay \in Nat /\ Nobody \notin Threads
    BY LogAssumption DEF Days
  <1> USE <1>0 DEF LInv, TypeOK, Goto
  <1>1. CASE Midnight
    <2>1. TypeOK' /\ (fileDay <= today)'
      BY <1>1 DEF Midnight, Days
    <2>2. ASSUME NEW r \in Threads PROVE ThreadInv(r)'
      <3>1. ThreadInv(r)
        OBVIOUS
      <3>2. /\ today \in Nat /\ began[r] \in Nat /\ name[r] \in Nat
            /\ today' = today + 1
            /\ UNCHANGED <<fileDay, mutex, pc, name, calls, began>>
        BY <1>1 DEF Midnight
      <3> QED BY ONLY <3>1, <3>2 DEF ThreadInv, Inside
    <2> QED BY <2>1, <2>2
  <1>2. ASSUME NEW t \in Threads, IsOpen(t) PROVE LInv'
    <2>1. PICK l \in {"lock", "idle"} : pc' = [pc EXCEPT ![t] = l]
      BY <1>2 DEF IsOpen
    <2>2. /\ calls' = [calls EXCEPT ![t] = @ + 1]
          /\ began' = [began EXCEPT ![t] = today]
          /\ pc[t] = "idle" /\ calls[t] < MaxCalls
          /\ UNCHANGED <<today, open, fileDay, files, mutex, name, time>>
      BY <1>2 DEF IsOpen
    <2>3. calls[t] + 1 \in 1..MaxCalls /\ calls[t] + 1 \in 0..MaxCalls
      BY <2>2
    <2>4. TypeOK'
      BY <2>1, <2>2, <2>3
    <2>5. ASSUME NEW r \in Threads PROVE ThreadInv(r)'
      <3>1. ThreadInv(r)
        OBVIOUS
      <3>2. CASE r = t
        BY <2>1, <2>2, <2>3, <3>2 DEF ThreadInv, Inside
      <3>3. CASE r # t
        BY <2>1, <2>2, <3>1, <3>3 DEF ThreadInv, Inside
      <3> QED BY <3>2, <3>3
    <2> QED BY <2>2, <2>4, <2>5
  <1>3. ASSUME NEW t \in Threads, MakeName(t) PROVE LInv'
    <2>1. TypeOK' /\ (fileDay <= today)'
      BY <1>3 DEF MakeName
    <2>2. ASSUME NEW r \in Threads PROVE ThreadInv(r)'
      <3>1. ThreadInv(r)
        OBVIOUS
      <3>2. CASE r = t
        BY <1>3, <3>1, <3>2 DEF MakeName, ThreadInv, Inside
      <3>3. CASE r # t
        BY <1>3, <3>1, <3>3 DEF MakeName, ThreadInv, Inside
      <3> QED BY <3>2, <3>3
    <2> QED BY <2>1, <2>2
  <1>4. ASSUME NEW t \in Threads, Compare(t) PROVE LInv'
    \* No other thread compares or opens: it would hold the mutex.
    <2>1. ASSUME NEW r \in Threads, pc[r] \in {"compare", "reopen"} PROVE r = t
      BY <1>4, <2>1 DEF Compare, ThreadInv
    <2>2. TypeOK'
      BY <1>4 DEF Compare
    <2>3. /\ fileDay' \in {fileDay, name[t]} /\ fileDay <= name[t]
          /\ fileDay <= fileDay' /\ name[t] <= fileDay' /\ fileDay' <= today
      <3>1. fileDay \in Nat /\ name[t] \in Nat /\ today \in Nat
        OBVIOUS
      <3>2. fileDay <= name[t] /\ name[t] <= today
        BY <1>4 DEF Compare, ThreadInv
      <3>3. fileDay' = IF name[t] = fileDay THEN fileDay ELSE name[t]
        BY <1>4 DEF Compare
      <3> QED BY ONLY <3>1, <3>2, <3>3
    <2>4. ASSUME NEW r \in Threads PROVE ThreadInv(r)'
      <3>1. ThreadInv(r)
        OBVIOUS
      <3>2. CASE r = t
        BY <1>4, <2>3, <3>1, <3>2 DEF Compare, ThreadInv, Inside
      <3>3. CASE r # t
        <4>1. pc[r] \notin {"compare", "reopen"} /\ pc'[r] = pc[r]
          BY <1>4, <2>1, <3>3 DEF Compare
        <4>2. /\ name'[r] = name[r] /\ calls'[r] = calls[r] /\ began'[r] = began[r]
              /\ today' = today
          BY <1>4 DEF Compare
        <4>3. name[r] \in Nat /\ fileDay \in Nat /\ fileDay' \in Nat
          BY <2>2
        <4> QED BY <2>3, <3>1, <4>1, <4>2, <4>3 DEF ThreadInv, Inside
      <3> QED BY <3>2, <3>3
    <2>5. (fileDay <= today)'
      BY <1>4, <2>3 DEF Compare
    <2> QED BY <2>2, <2>4, <2>5
  <1>5. ASSUME NEW t \in Threads, Reopen(t) PROVE LInv'
    <2>1. ASSUME NEW r \in Threads, pc[r] \in {"compare", "reopen"} PROVE r = t
      BY <1>5, <2>1 DEF Reopen, ThreadInv
    <2>2. TypeOK' /\ (fileDay <= today)'
      BY <1>5 DEF Reopen
    <2>3. ASSUME NEW r \in Threads PROVE ThreadInv(r)'
      BY <1>5, <2>1 DEF Reopen, ThreadInv, Inside
    <2> QED BY <2>2, <2>3
  <1>6. ASSUME NEW t \in Threads, ReopenFails(t) PROVE LInv'
    <2>1. ASSUME NEW r \in Threads, pc[r] \in {"compare", "reopen"} PROVE r = t
      BY <1>6, <2>1 DEF ReopenFails, ThreadInv
    <2>2. TypeOK' /\ (fileDay <= today)'
      BY <1>6 DEF ReopenFails
    <2>3. ASSUME NEW r \in Threads PROVE ThreadInv(r)'
      BY <1>6, <2>1 DEF ReopenFails, ThreadInv, Inside
    <2> QED BY <2>2, <2>3
  <1>7. ASSUME NEW t \in Threads, Stamp(t) PROVE LInv'
    <2>1. TypeOK' /\ (fileDay <= today)'
      BY <1>7 DEF Stamp
    <2>2. ASSUME NEW r \in Threads PROVE ThreadInv(r)'
      BY <1>7 DEF Stamp, ThreadInv, Inside
    <2> QED BY <2>1, <2>2
  <1>8. ASSUME NEW t \in Threads, Write(t) PROVE LInv'
    <2>1. calls[t] \in 1..MaxCalls
      BY <1>8 DEF Write, ThreadInv, Inside
    <2> DEFINE l == [thread |-> t, call |-> calls[t], time |-> time[t], began |-> began[t]]
    <2>2. l \in Written
      BY <2>1 DEF Written
    <2>3. files' \in [Days -> Seq(Written)]
      <3> HIDE DEF l
      <3>1. Append(files[fileDay], l) \in Seq(Written)
        BY <2>2
      <3>2. CASE ~open
        BY <1>8, <3>2 DEF Write
      <3>3. CASE open
        <4>1. files' = [files EXCEPT ![fileDay] = Append(@, l)]
          BY <1>8, <3>3 DEF Write, l
        <4> QED BY <3>1, <4>1
      <3> QED BY <3>2, <3>3
    <2>4. /\ pc' = [pc EXCEPT ![t] = "idle"]
          /\ UNCHANGED <<today, open, fileDay, mutex, name, time, calls, began>>
      BY <1>8 DEF Write
    <2>5. TypeOK'
      BY <2>3, <2>4
    <2>6. ASSUME NEW r \in Threads PROVE ThreadInv(r)'
      BY <1>8, <2>4 DEF Write, ThreadInv, Inside
    <2> QED BY <2>4, <2>5, <2>6
  <1>9. CASE UNCHANGED vars
    BY <1>9 DEF vars, ThreadInv, Inside
  <1> QED
    BY <1>1, <1>2, <1>3, <1>4, <1>5, <1>6, <1>7, <1>8, <1>9 DEF Next, Proceed

\* The logger's variables keep their types (logger.h:39-42).
THEOREM LogTypes == Spec => []TypeOK
  <1>1. LInv => TypeOK
    BY DEF LInv
  <1> QED BY <1>1, LInvInit, LInvStep, PTL DEF Spec

LEMMA LInvAlways == Spec => []LInv
  BY LInvInit, LInvStep, PTL DEF Spec
-----------------------------------------------------------------------------
\* The lines in the files: of which day they are, and which calls they are of.
Counted(d, l) ==
    /\ d <= fileDay
    /\ l.call <= calls[l.thread]
    /\ Inside(l.thread) => l.call < calls[l.thread]

FInv ==
    /\ LineInAFileOfItsCall
    /\ \A d \in Days : \A i \in 1..Len(files[d]) : Counted(d, files[d][i])
    /\ LinesInOrder

LEMMA DaysAreNumbers == \A d \in Days : d \in Nat
  BY LogAssumption DEF Days

LEMMA LineTypes ==
    ASSUME NEW l \in Written
    PROVE  l.thread \in Threads /\ l.call \in Nat /\ l.began \in Nat
  <1>1. l.thread \in Threads /\ l.call \in 1..MaxCalls /\ l.began \in Days
    BY DEF Written
  <1>2. \A n \in 1..MaxCalls : n \in Nat
    BY LogAssumption
  <1> QED BY <1>1, <1>2, DaysAreNumbers

LEMMA LineOf ==
    ASSUME LInv, NEW d \in Days, NEW i \in 1..Len(files[d])
    PROVE  files[d][i] \in Written
  <1>1. files[d] \in Seq(Written)
    BY DEF LInv, TypeOK
  <1> QED BY <1>1

LEMMA Numbers ==
    ASSUME LInv
    PROVE  /\ today \in Nat /\ fileDay \in Nat /\ fileDay \in Days
           /\ \A t \in Threads : calls[t] \in Nat /\ began[t] \in Nat /\ name[t] \in Nat
  <1>1. today \in Days /\ fileDay \in Days
    BY DEF LInv, TypeOK
  <1>2. \A t \in Threads : calls[t] \in 0..MaxCalls /\ began[t] \in Days /\ name[t] \in Days
    BY DEF LInv, TypeOK
  <1>3. \A n \in 0..MaxCalls : n \in Nat
    BY LogAssumption
  <1> QED BY <1>1, <1>2, <1>3, DaysAreNumbers

LEMMA FInvInit == Init => FInv
  BY DEF Init, FInv, LineInAFileOfItsCall, LinesInOrder

\* A step that writes nothing.
LEMMA FilesKept ==
    ASSUME LInv, LInv', FInv, UNCHANGED files, today <= today', fileDay <= fileDay',
           \A t \in Threads : /\ calls[t] <= calls'[t]
                              /\ Inside(t)' => Inside(t) \/ calls[t] < calls'[t]
    PROVE  FInv'
  <1>1. LineInAFileOfItsCall'
    <2> SUFFICES ASSUME NEW d \in Days, NEW i \in 1..Len(files[d])
                 PROVE  files[d][i].began <= d /\ d <= today'
      BY DEF LineInAFileOfItsCall
    <2>1. files[d][i].began <= d /\ d <= today
      BY DEF FInv, LineInAFileOfItsCall
    <2>2. d \in Nat /\ today \in Nat /\ today' \in Nat
      BY Numbers, DaysAreNumbers DEF LInv, TypeOK
    <2> QED BY <2>1, <2>2
  <1>2. LinesInOrder'
    BY DEF FInv, LinesInOrder
  <1>3. ASSUME NEW d \in Days, NEW i \in 1..Len(files[d])
        PROVE  Counted(d, files[d][i])'
    <2> DEFINE l == files[d][i]
               t == l.thread
    <2>1. t \in Threads /\ l.call \in Nat /\ d \in Nat
      BY LineOf, LineTypes, DaysAreNumbers
    <2>2. /\ calls[t] \in Nat /\ fileDay \in Nat
          /\ calls'[t] \in Nat /\ fileDay' \in Nat
      BY <2>1, LogAssumption, DaysAreNumbers DEF LInv, TypeOK
    <2>3. Counted(d, l)
      BY DEF FInv
    <2>4. (Inside(t)' => Inside(t) \/ calls[t] < calls'[t]) /\ calls[t] <= calls'[t] /\ l' = l
      BY <2>1 DEF Inside
    <2>5. Counted(d, l)'
      <3> HIDE DEF l
      <3> QED BY <2>1, <2>2, <2>3, <2>4 DEF Counted, Inside
    <2> QED BY <2>5
  <1> QED BY <1>1, <1>2, <1>3 DEF FInv

\* A line is written: it is the last of its file, and of its thread.
LEMMA FilesWritten ==
    ASSUME LInv, LInv', FInv, NEW t \in Threads, Write(t), open
    PROVE  FInv'
  <1> DEFINE l == [thread |-> t, call |-> calls[t], time |-> time[t], began |-> began[t]]
             n == Len(files[fileDay])
  <1>1. /\ pc[t] = "write" /\ pc' = [pc EXCEPT ![t] = "idle"]
        /\ files' = [files EXCEPT ![fileDay] = Append(@, l)]
        /\ UNCHANGED <<today, fileDay, calls>>
    BY DEF Write, Goto
  <1>2. l.thread = t /\ l.call = calls[t] /\ l.began = began[t]
    OBVIOUS
  <1> HIDE DEF l
  <1>3. Inside(t) /\ ~Inside(t)' /\ \A r \in Threads \ {t} : Inside(r)' = Inside(r)
    BY <1>1 DEF Inside, LInv, TypeOK
  <1>4. began[t] <= fileDay /\ fileDay <= today
    <2>1. began[t] <= name[t] /\ name[t] <= fileDay /\ fileDay <= today
      BY <1>1 DEF LInv, ThreadInv
    <2> QED BY <2>1, Numbers
  <1>5. files \in [Days -> Seq(Written)] /\ fileDay \in Days /\ n \in Nat
    <2>1. files \in [Days -> Seq(Written)] /\ fileDay \in Days
      BY DEF LInv, TypeOK
    <2>2. files[fileDay] \in Seq(Written)
      BY <2>1
    <2> QED BY <2>1, <2>2
  <1>6. /\ Len(files'[fileDay]) = n + 1
        /\ files'[fileDay][n + 1] = l
        /\ \A i \in 1..n : files'[fileDay][i] = files[fileDay][i]
        /\ \A d \in Days \ {fileDay} : files'[d] = files[d]
    <2>1. files'[fileDay] = Append(files[fileDay], l)
      BY <1>1, <1>5
    <2>2. files[fileDay] \in Seq(Written)
      BY <1>5
    <2> QED BY <1>1, <1>5, <2>1, <2>2
  \* Every line of the new files is an old one in its place, or the new one.
  <1>7. ASSUME NEW d \in Days, NEW i \in 1..Len(files'[d])
        PROVE  \/ i \in 1..Len(files[d]) /\ files'[d][i] = files[d][i]
               \/ d = fileDay /\ i = n + 1 /\ files'[d][i] = l
    BY <1>5, <1>6
  <1>8. ASSUME NEW d \in Days, NEW i \in 1..Len(files[d]), files[d][i].thread = t
        PROVE  d <= fileDay /\ files[d][i].call < calls[t]
    BY <1>3, <1>8 DEF FInv, Counted
  <1>9. LineInAFileOfItsCall'
    <2> SUFFICES ASSUME NEW d \in Days, NEW i \in 1..Len(files'[d])
                 PROVE  files'[d][i].began <= d /\ d <= today'
      BY DEF LineInAFileOfItsCall
    <2>1. CASE i \in 1..Len(files[d]) /\ files'[d][i] = files[d][i]
      BY <1>1, <2>1 DEF FInv, LineInAFileOfItsCall
    <2>2. CASE d = fileDay /\ files'[d][i] = l
      BY <1>1, <1>2, <1>4, <2>2
    <2> QED BY <1>7, <2>1, <2>2
  <1>10. LinesInOrder'
    <2> SUFFICES ASSUME NEW d \in Days, NEW e \in Days,
                        NEW i \in 1..Len(files'[d]), NEW j \in 1..Len(files'[e]),
                        files'[d][i].thread = files'[e][j].thread,
                        files'[d][i].call <= files'[e][j].call
                 PROVE  d < e \/ (d = e /\ i <= j)
      BY DEF LinesInOrder
    <2>0. d \in Nat /\ e \in Nat /\ i \in Nat /\ j \in Nat /\ fileDay \in Nat
      BY Numbers, DaysAreNumbers
    <2>1. CASE i \in 1..Len(files[d]) /\ files'[d][i] = files[d][i]
      <3>1. CASE j \in 1..Len(files[e]) /\ files'[e][j] = files[e][j]
        BY <2>1, <3>1 DEF FInv, LinesInOrder
      <3>2. CASE e = fileDay /\ j = n + 1 /\ files'[e][j] = l
        <4>1. d <= fileDay
          BY <1>2, <1>8, <2>1, <3>2
        <4>2. d = fileDay => i <= n
          BY <2>1
        <4> QED BY <1>5, <2>0, <3>2, <4>1, <4>2
      <3> QED BY <1>7, <3>1, <3>2
    <2>2. CASE d = fileDay /\ i = n + 1 /\ files'[d][i] = l
      <3>1. CASE j \in 1..Len(files[e]) /\ files'[e][j] = files[e][j]
        <4>1. files[e][j].call < calls[t] /\ calls[t] <= files[e][j].call
          BY <1>2, <1>8, <2>2, <3>1
        <4>2. files[e][j].call \in Nat /\ calls[t] \in Nat
          BY <3>1, LineOf, LineTypes, Numbers
        <4> QED BY <4>1, <4>2
      <3>2. CASE e = fileDay /\ j = n + 1
        BY <2>0, <2>2, <3>2
      <3> QED BY <1>7, <3>1, <3>2
    <2> QED BY <1>7, <2>1, <2>2
  <1>11. ASSUME NEW d \in Days, NEW i \in 1..Len(files'[d])
         PROVE  Counted(d, files[d][i])'
    <2>1. CASE i \in 1..Len(files[d]) /\ files'[d][i] = files[d][i]
      <3>1. Counted(d, files[d][i])
        BY <2>1 DEF FInv
      <3>2. files[d][i].thread \in Threads
        BY <2>1, LineOf, LineTypes
      <3>3. Inside(files[d][i].thread)' => Inside(files[d][i].thread)
        BY <1>3, <3>2, <2>1
      <3> QED BY <1>1, <2>1, <3>1, <3>3 DEF Counted, Inside
    <2>2. CASE d = fileDay /\ files'[d][i] = l
      <3>1. calls[t] <= calls[t] /\ fileDay <= fileDay
        BY Numbers
      <3> QED BY <1>1, <1>2, <1>3, <2>2, <3>1 DEF Counted, Inside
    <2> QED BY <1>7, <2>1, <2>2
  <1> QED BY <1>9, <1>10, <1>11 DEF FInv

\* The date in filename_ does not go back.
LEMMA FileDayGrows ==
    ASSUME LInv, [Next]_vars
    PROVE  fileDay <= fileDay' /\ today <= today'
  <1>1. fileDay \in Nat /\ today \in Nat
    BY Numbers
  <1>2. ASSUME NEW t \in Threads, Compare(t) PROVE fileDay <= fileDay' /\ today' = today
    <2>1. fileDay <= name[t]
      BY <1>2 DEF Compare, LInv, ThreadInv
    <2> QED BY <1>1, <1>2, <2>1 DEF Compare
  <1>3. CASE Midnight
    BY <1>1, <1>3 DEF Midnight
  <1>4. CASE UNCHANGED <<fileDay, today>>
    BY <1>1, <1>4
  <1>5. \/ \E t \in Threads : Compare(t)
        \/ Midnight
        \/ UNCHANGED <<fileDay, today>>
    BY DEF Next, Proceed, vars, IsOpen, MakeName, Reopen, ReopenFails, Stamp, Write
  <1> QED BY <1>1, <1>2, <1>3, <1>4, <1>5

LEMMA FInvStep == LInv /\ LInv' /\ FInv /\ [Next]_vars => FInv'
  <1> SUFFICES ASSUME LInv, LInv', FInv, [Next]_vars PROVE FInv'
    OBVIOUS
  <1>1. \A t \in Threads : calls[t] \in Nat
    BY Numbers
  <1>2. fileDay <= fileDay' /\ today <= today'
    BY FileDayGrows
  <1>3. ASSUME NEW t \in Threads, IsOpen(t) PROVE FInv'
    <2>0. PICK l \in {"lock", "idle"} : pc' = [pc EXCEPT ![t] = l]
      BY <1>3 DEF IsOpen, Goto
    <2>1. /\ calls' = [calls EXCEPT ![t] = @ + 1]
          /\ pc' = [pc EXCEPT ![t] = l]
          /\ UNCHANGED files
      BY <1>3, <2>0 DEF IsOpen
    <2>2. ASSUME NEW r \in Threads
          PROVE  calls[r] <= calls'[r] /\ (Inside(r)' => Inside(r) \/ calls[r] < calls'[r])
      <3>1. CASE r = t
        BY <1>1, <2>1, <3>1 DEF LInv, TypeOK
      <3>2. CASE r # t
        BY <1>1, <2>1, <3>2 DEF LInv, TypeOK, Inside
      <3> QED BY <3>1, <3>2
    <2> QED BY <1>2, <2>1, <2>2, FilesKept
  <1>4. ASSUME NEW t \in Threads, Proceed(t), UNCHANGED files PROVE FInv'
    <2>1. \A r \in Threads : Inside(r)' => Inside(r)
      BY <1>4 DEF Proceed, MakeName, Compare, Reopen, ReopenFails, Stamp, Write, Goto,
         Inside, LInv, TypeOK
    <2>2. UNCHANGED calls
      BY <1>4 DEF Proceed, MakeName, Compare, Reopen, ReopenFails, Stamp, Write
    <2>3. \A r \in Threads : calls[r] <= calls'[r]
      BY <1>1, <2>2
    <2> QED BY <1>2, <1>4, <2>1, <2>3, FilesKept
  <1>5. ASSUME NEW t \in Threads, Write(t) PROVE FInv'
    <2>1. CASE open
      BY <1>5, <2>1, FilesWritten
    <2>2. CASE ~open
      BY <1>4, <1>5, <2>2 DEF Write, Proceed
    <2> QED BY <2>1, <2>2
  <1>6. CASE Midnight \/ UNCHANGED vars
    <2>1. UNCHANGED <<files, calls, pc>>
      BY <1>6 DEF Midnight, vars
    <2>2. \A r \in Threads : calls[r] <= calls'[r] /\ (Inside(r)' => Inside(r))
      BY <1>1, <2>1 DEF Inside
    <2> QED BY <1>2, <2>1, <2>2, FilesKept
  <1>7. ASSUME NEW t \in Threads, Proceed(t), ~Write(t) PROVE UNCHANGED files
    BY <1>7 DEF Proceed, MakeName, Compare, Reopen, ReopenFails, Stamp
  <1> QED BY <1>3, <1>4, <1>5, <1>6, <1>7 DEF Next

LEMMA FInvAlways == Spec => []FInv
  BY LInvAlways, FInvInit, FInvStep, PTL DEF Spec

\* A line is in the file of a day on which its call was running
\* (logger.cpp:28,40,91-98).
THEOREM LinesInTheirFiles == Spec => []LineInAFileOfItsCall
  <1>1. FInv => LineInAFileOfItsCall
    BY DEF FInv
  <1> QED BY <1>1, FInvAlways, PTL

\* The lines of a thread are in the order of its calls (logger.cpp:37-41).
THEOREM LinesOrdered == Spec => []LinesInOrder
  <1>1. FInv => LinesInOrder
    BY DEF FInv
  <1> QED BY <1>1, FInvAlways, PTL

\* The log does not go back to an earlier day and adds nothing to its file
\* (logger.cpp:37-41,92-102).
THEOREM PastFilesClosed == Spec => PastFilesAreClosed
  <1>1. ASSUME LInv, [Next]_vars
        PROVE  [/\ fileDay <= fileDay'
                /\ \A d \in Days : d < fileDay => files'[d] = files[d]]_vars
    <2>1. fileDay <= fileDay'
      BY <1>1, FileDayGrows
    <2>2. ASSUME NEW t \in Threads, Write(t), NEW d \in Days, d < fileDay
          PROVE  files'[d] = files[d]
      <3>1. fileDay \in Nat /\ d # fileDay
        BY <1>1, <2>2, Numbers, DaysAreNumbers
      <3> QED BY <1>1, <2>2, <3>1 DEF Write, LInv, TypeOK
    <2>3. CASE UNCHANGED files
      BY <2>1, <2>3
    <2>4. CASE \E t \in Threads : Write(t)
      BY <2>1, <2>2, <2>4
    <2>5. UNCHANGED files \/ \E t \in Threads : Write(t)
      BY <1>1 DEF Next, Proceed, vars, Midnight, IsOpen, MakeName, Compare, Reopen,
         ReopenFails, Stamp
    <2> QED BY <2>3, <2>4, <2>5
  <1> QED BY <1>1, LInvAlways, PTL DEF Spec, PastFilesAreClosed
=============================================================================
