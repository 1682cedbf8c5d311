-------------------------- MODULE AccountStoreProofs --------------------------
(***************************************************************************)
(* That users.dat is complete when saves neither overlap nor fail, and     *)
(* that UserAccounts implements AccountStore, for any number of users,     *)
(* workers and requests, any lengths of names, and any ends of the process.*)
(*                                                                         *)
(* The argument: a save that is not suspect is the only one, so the file   *)
(* it has emptied stays empty until it writes.  What it writes is the      *)
(* table as it was in its critical section; a later change of the table    *)
(* brings another worker to "open", and as long as one is there nothing is *)
(* claimed.  If that worker opens the file while the first still saves, or *)
(* fails to, its own save makes the outcome suspect.                       *)
(***************************************************************************)
EXTENDS UserAccountsProofs

SavePlaces == {"open", "write", "flush"}

\* The lines a loop over users_ writes hold all the accounts, and load as they are.
LEMMA ListingIsComplete ==
    ASSUME NEW l \in Listings, users \in [Users -> Passwords \cup {NoPassword}]
    PROVE  Load(l) = users
  <1>1. /\ l \in Seq(Line)
        /\ \A i \in 1..Len(l) : AccountOf(l[i]) \in AccountsIn(users) /\ l[i].cut = 0
        /\ \A a \in AccountsIn(users) : \E i \in 1..Len(l) : l[i] = Whole(a)
    BY ListedLine
  <1>2. Readable(l)
    BY <1>1 DEF Readable, Decodes
  <1>3. ASSUME NEW i \in 1..Len(l)
        PROVE  HasThreeParts(l[i]) /\ NameIn(l[i]) = l[i].user
    <2>1. l[i] \in Line /\ l[i].cut = 0
      BY <1>1
    <2>2. l[i].user \in Users
      BY <2>1 DEF Line
    <2> QED BY <2>1, <2>2, EndingsAreNames DEF HasThreeParts, NameIn
  <1>4. ASSUME NEW u \in Users PROVE Load(l)[u] = users[u]
    <2> DEFINE lines == {i \in 1..Len(l) : HasThreeParts(l[i]) /\ NameIn(l[i]) = u}
    <2>1. ASSUME NEW i \in lines
          PROVE  users[u] # NoPassword /\ l[i].password = users[u]
      <3>1. i \in 1..Len(l) /\ l[i].user = u
        BY <1>3
      <3>2. AccountOf(l[i]) \in AccountsIn(users)
        BY <1>1, <3>1
      <3>3. PICK v \in Users :
               users[v] # NoPassword /\ AccountOf(l[i]) = [user |-> v, password |-> users[v]]
        BY <3>2 DEF AccountsIn
      <3> QED BY <3>1, <3>3 DEF AccountOf
    <2>2. CASE users[u] = NoPassword
      <3>1. lines = {}
        BY <2>1, <2>2
      <3> QED BY <2>2, <3>1 DEF Load
    <2>3. CASE users[u] # NoPassword
      <3>1. [user |-> u, password |-> users[u]] \in AccountsIn(users)
        BY <2>3 DEF AccountsIn
      <3>2. PICK i \in 1..Len(l) : l[i] = Whole([user |-> u, password |-> users[u]])
        BY <1>1, <3>1
      <3>3. lines # {}
        BY <1>3, <3>2 DEF Whole
      <3>4. lines \in SUBSET (1..Len(l)) /\ Len(l) \in Nat
        BY <1>1
      <3>5. Max(lines) \in lines
        <4> HIDE DEF lines
        <4> QED BY <3>3, <3>4, MaxIndex
      <3>6. Load(l)[u] = l[Max(lines)].password
        BY <1>2, <3>3 DEF Load
      <3> HIDE DEF lines
      <3> QED BY <2>1, <3>5, <3>6
    <2> QED BY <2>2, <2>3
  <1> QED BY <1>4 DEF Load
-----------------------------------------------------------------------------
DInv ==
    ~suspect =>
        /\ \A t \in Threads :
              pc[t] = "flush" /\ (\A v \in Threads : pc[v] # "open") => Load(buffer[t]) = users
        /\ (\A t \in Threads : pc[t] # "open" /\ ~Saving(t)) => Load(file) = users

LEMMA LoadOfNothing == Load(<<>>) = NoAccounts
  BY DEF Load, NoAccounts

LEMMA DurableInit == Init => DInv
  BY LoadOfNothing DEF Init, DInv, Saving

\* Load, and what it is made of, depend on the file only.
LEMMA LoadDepends ==
    /\ UNCHANGED file => Load(file)' = Load(file)
    /\ Load(file)' = Load(file')
    /\ \A t : Load(buffer[t])' = Load(buffer'[t])
  BY DEF Load, Readable, HasThreeParts, Decodes, NameIn

\* A step outside the saves that changes no account.
LEMMA DurableKept ==
    ASSUME DInv, UNCHANGED <<users, file, buffer, suspect>>,
           \A v \in Threads : pc'[v] # pc[v] => pc[v] \notin SavePlaces /\ pc'[v] \notin SavePlaces
    PROVE  DInv'
  <1>1. \A v \in Threads : Saving(v)' = Saving(v) /\ ((pc'[v] = "open") <=> (pc[v] = "open"))
                           /\ ((pc'[v] = "flush") <=> (pc[v] = "flush"))
    BY DEF Saving, SavePlaces
  <1>2. Load(file)' = Load(file) /\ \A v \in Threads : Load(buffer[v])' = Load(buffer[v])
    BY LoadDepends
  <1>3. SUFFICES ASSUME ~suspect PROVE DInv'
    BY DEF DInv
  <1>4. \A w \in Threads :
           pc'[w] = "flush" /\ (\A v \in Threads : pc'[v] # "open")
               => Load(buffer[w])' = users'
    BY <1>1, <1>2, <1>3 DEF DInv
  <1>5. (\A w \in Threads : pc'[w] # "open" /\ ~Saving(w)') => Load(file)' = users'
    BY <1>1, <1>2, <1>3 DEF DInv
  <1> QED BY <1>4, <1>5 DEF DInv

\* A thread that is going to save.
LEMMA DurableDue ==
    ASSUME NEW t \in Threads, pc'[t] = "open"
    PROVE  DInv'
  BY DEF DInv

LEMMA DurableWorker ==
    ASSUME TInv, DInv, NEW w \in Workers, WorkerStep(w)
    PROVE  DInv'
  <1>1. /\ w \in Threads
        /\ DOMAIN pc = Threads
        /\ pc = [v \in Threads |-> pc[v]]
    BY DEF TInv, TypeOK, Threads
  <1>2. ASSUME NEW r \in Request, Receive(w, r) PROVE DInv'
    BY <1>1, <1>2, DurableKept DEF Receive, Goto, SavePlaces
  <1>3. CASE Register(w)
    <2>1. CASE users[job[w].user] # NoPassword
      BY <1>1, <1>3, <2>1, DurableKept DEF Register, Return, Goto, SavePlaces
    <2>2. CASE users[job[w].user] = NoPassword
      <3>1. pc'[w] = "open"
        BY <1>1, <1>3, <2>2 DEF Register, Goto
      <3> QED BY <1>1, <3>1, DurableDue
    <2> QED BY <2>1, <2>2
  <1>4. CASE ChangePassword(w)
    <2>1. CASE users[job[w].user] # job[w].password
      BY <1>1, <1>4, <2>1, DurableKept DEF ChangePassword, Return, Goto, SavePlaces
    <2>2. CASE users[job[w].user] = job[w].password
      <3>1. pc'[w] = "open"
        BY <1>1, <1>4, <2>2 DEF ChangePassword, Goto
      <3> QED BY <1>1, <3>1, DurableDue
    <2> QED BY <2>1, <2>2
  <1>5. CASE Login(w) \/ CheckCookie(w)
    BY <1>1, <1>5, DurableKept DEF Login, CheckCookie, Return, Goto, SavePlaces
  <1>6. CASE CreateSession(w) \/ RemoveSession(w)
    BY <1>1, <1>6, DurableKept DEF CreateSession, RemoveSession, Return, Goto, SavePlaces
  <1> QED BY <1>2, <1>3, <1>4, <1>5, <1>6 DEF WorkerStep

LEMMA DurableSave ==
    ASSUME TInv, KInv, DInv, NEW t \in Threads, SaveStep(t)
    PROVE  DInv'
  <1>1. /\ users \in [Users -> Passwords \cup {NoPassword}]
        /\ buffer \in [Threads -> Seq(Line)]
        /\ DOMAIN pc = Threads
        /\ pc = [v \in Threads |-> pc[v]]
    BY DEF TInv, TypeOK
  <1>2. ASSUME ~suspect
        PROVE  /\ \A s \in Threads : Saving(s) /\ Saving(t) => s = t
               /\ Saving(t) => file = <<>>
    BY <1>2 DEF KInv, Apart
  <1>3. CASE OpenFails(t)
    BY <1>3 DEF OpenFails, DInv
  <1>4. CASE OpenFile(t)
    <2>1. /\ pc' = [pc EXCEPT ![t] = "write"]
          /\ suspect' = (\E v \in Threads : Saving(v))
      BY <1>4 DEF OpenFile, Goto
    <2>2. Saving(t)'
      BY <1>1, <2>1 DEF Saving
    <2>3. ASSUME ~suspect' PROVE \A v \in Threads : pc'[v] # "flush"
      BY <1>1, <2>1, <2>3 DEF Saving
    <2> QED BY <2>2, <2>3 DEF DInv
  <1>5. CASE WriteBuffer(t)
    <2>1. PICK l \in Listings : buffer' = [buffer EXCEPT ![t] = l]
      BY <1>5 DEF WriteBuffer
    <2>2. /\ pc[t] = "write" /\ pc' = [pc EXCEPT ![t] = "flush"]
          /\ UNCHANGED <<users, suspect>>
      BY <1>5 DEF WriteBuffer, Goto
    <2>3. \A v \in Threads : Saving(v)' = Saving(v)
      BY <1>1, <2>2 DEF Saving
    <2>4. Saving(t)
      BY <2>2 DEF Saving
    <2>5. Load(buffer'[t]) = users'
      BY <1>1, <2>1, <2>2, ListingIsComplete
    <2>6. ASSUME ~suspect, NEW v \in Threads, pc'[v] = "flush" PROVE v = t
      BY <1>2, <2>3, <2>4, <2>6 DEF Saving
    <2>7. ~suspect => \A v \in Threads : pc'[v] = "flush" => Load(buffer[v])' = users'
      BY <2>5, <2>6, LoadDepends
    <2> QED BY <2>2, <2>3, <2>4, <2>7 DEF DInv
  <1>6. CASE FlushFile(t)
    <2>1. /\ pc[t] = "flush" /\ file' = Overwrite(file, buffer[t])
          /\ Saved(t) /\ UNCHANGED <<users, suspect>>
      BY <1>6 DEF FlushFile
    <2>2. Saving(t) /\ \A v \in Threads : pc'[v] = "open" => pc[v] = "open"
      BY <1>1, <2>1 DEF Saving, Saved, Goto
    <2>3. \A v \in Threads : v # t => pc'[v] = pc[v]
      BY <1>1, <2>1 DEF Saved, Goto
    <2>4. pc'[t] \notin {"write", "flush", "open"}
      BY <1>1, <2>1 DEF Saved, Goto
    <2>5. ASSUME ~suspect PROVE \A v \in Threads : pc'[v] # "flush"
      BY <1>2, <2>2, <2>3, <2>4, <2>5 DEF Saving
    <2>6. ASSUME ~suspect, \A v \in Threads : pc'[v] # "open"
          PROVE  Load(file)' = users'
      <3>1. \A v \in Threads : pc[v] # "open"
        BY <2>1, <2>3, <2>6
      <3>2. file = <<>> /\ Load(buffer[t]) = users
        BY <1>2, <2>1, <2>2, <2>6, <3>1 DEF DInv
      <3>3. file' = buffer[t]
        BY <1>1, <2>1, <3>2, OverwriteEmpty
      <3> QED BY <2>1, <3>2, <3>3, LoadDepends
    <2> QED BY <2>1, <2>5, <2>6 DEF DInv
  <1> QED BY <1>3, <1>4, <1>5, <1>6 DEF SaveStep

\* A new process has the accounts of the file it starts with.
LEMMA DurableRestart ==
    ASSUME Restart \/ RestartUnread
    PROVE  DInv'
  <1>1. CASE RestartUnread
    BY <1>1 DEF RestartUnread, DInv
  <1>2. CASE Restart
    <2>1. \A t \in Threads : pc'[t] \in {"idle", "down"}
      BY <1>2 DEF Restart, Restarted
    <2>2. Load(file)' = users'
      BY <1>2, LoadDepends DEF Restart, Restarted
    <2> QED BY <2>1, <2>2 DEF DInv
  <1> QED BY <1>1, <1>2

LEMMA DurableStep == TInv /\ KInv /\ DInv /\ [Next]_vars => DInv'
  <1> SUFFICES ASSUME TInv, KInv, DInv, [Next]_vars PROVE DInv'
    OBVIOUS
  <1>1. CASE UNCHANGED vars
    BY <1>1, DurableKept DEF vars
  <1>2. CASE Shutdown
    <2>1. Main \in Threads /\ pc'[Main] = "open"
      BY <1>2 DEF Shutdown, Goto, Threads, TInv, TypeOK
    <2> QED BY <2>1, DurableDue
  <1> QED BY <1>1, <1>2, DurableWorker, DurableSave, DurableRestart DEF Next

LEMMA KInvAlways == Spec => []KInv
  BY TInvAlways, KnownInit, KnownStep, PTL DEF Spec

LEMMA DInvAlways == Spec => []DInv
  BY TInvAlways, KInvAlways, DurableInit, DurableStep, PTL DEF Spec

\* As long as saves neither overlap nor fail, nothing that was registered or
\* changed is missing in users.dat once it is saved (user_manager.cpp:67,74,229-245).
THEOREM SavesAreComplete == Spec => []SerialSavesAreComplete
  <1>1. DInv => SerialSavesAreComplete
    BY DEF DInv, SerialSavesAreComplete, Settled
  <1> QED BY <1>1, DInvAlways, PTL
-----------------------------------------------------------------------------
(* UserAccounts implements AccountStore.                                   *)

LEMMA StoreInit == Init => Store!Init
  <1> SUFFICES ASSUME Init PROVE Store!Init
    OBVIOUS
  <1>1. Load(file) = NoAccounts
    BY LoadOfNothing DEF Init
  <1>2. Settled = TRUE
    BY DEF Init, Settled, Saving
  <1>3. Phase = "serving"
    BY DEF Init, Phase, Threads
  <1> QED BY <1>1, <1>2, <1>3 DEF Init, NoAccounts, Store!Init, Store!Empty

\* A step outside the saves and their requests.
LEMMA StoreUnaffected ==
    ASSUME UNCHANGED <<file, suspect, overlapped>>, pc'[Main] = pc[Main],
           \A v \in Threads : pc'[v] # pc[v] => pc[v] \notin SavePlaces /\ pc'[v] \notin SavePlaces
    PROVE  UNCHANGED <<Load(file), Settled, Phase, overlapped>>
  <1>1. Settled' = Settled
    BY DEF Settled, Saving, SavePlaces
  <1>2. Phase' = Phase
    BY DEF Phase
  <1> QED BY <1>1, <1>2, LoadDepends

\* A worker's step that is not part of a save, and leads to none.
LEMMA StoreWorkerUnaffected ==
    ASSUME TInv, NEW w \in Workers, NEW l, l \notin SavePlaces, pc[w] \notin SavePlaces,
           pc' = [pc EXCEPT ![w] = l], UNCHANGED file, UNCHANGED suspect, UNCHANGED overlapped
    PROVE  UNCHANGED <<Load(file), Settled, Phase, overlapped>>
  <1>1. DOMAIN pc = Threads /\ w \in Threads /\ w # Main
    BY AccountsAssumption DEF TInv, TypeOK, Threads
  <1>2. pc'[Main] = pc[Main]
    BY <1>1
  <1>3. \A v \in Threads : pc'[v] # pc[v] => pc[v] \notin SavePlaces /\ pc'[v] \notin SavePlaces
    BY <1>1
  <1> QED BY <1>2, <1>3, StoreUnaffected

\* A worker that has changed an account leaves the store unsettled.
LEMMA StoreChanges ==
    ASSUME TInv, NEW w \in Workers, NEW u \in Users, NEW p \in Passwords, Alive,
           users' = [users EXCEPT ![u] = p],
           known' = known \cup {[user |-> u, password |-> p]},
           pc' = [pc EXCEPT ![w] = "open"],
           UNCHANGED <<sessions, issued, file, overlapped>>
    PROVE  Store!SetPassword(u, p)
  <1>1. w \in Threads /\ pc'[w] = "open" /\ pc'[Main] = pc[Main]
    BY AccountsAssumption DEF TInv, TypeOK, Threads
  <1>2. Settled' = FALSE
    BY <1>1 DEF Settled
  <1>3. Load(file)' = Load(file)
    BY LoadDepends
  <1>4. Phase' = Phase /\ Phase # "failed"
    BY <1>1 DEF Phase, Alive
  <1> QED BY <1>2, <1>3, <1>4 DEF Store!SetPassword

\* What a step of a save leaves in the file is allowed to be there.
LEMMA StoreSaves ==
    ASSUME ~Settled, TInv', KInv', DInv', FileWasTrue',
           UNCHANGED <<users, sessions, issued, known, Phase>>
    PROVE  Store!Save
  <1>1. Load(file)' \in [Users -> Passwords \cup {NoPassword}]
    <2>1. file' \in Seq(Line)
      BY DEF TInv, TypeOK
    <2> QED BY <2>1, LoadedLine, LoadDepends
  <1>3. ASSUME NEW u \in Users, Load(file)'[u] # NoPassword
        PROVE  \E a \in known : /\ a.password = Load(file)'[u]
                                /\ a.user = u \/ (overlapped' /\ u \in Store!Suffixes(a.user))
    BY <1>3, LoadDepends DEF FileWasTrue, Suffixes, Store!Suffixes
  <1>4. Settled' \in BOOLEAN /\ overlapped' \in BOOLEAN
    BY DEF Settled, TInv, TypeOK
  <1>5. Settled' => Load(file)' = users /\ ~overlapped'
    BY DEF DInv, Settled, KInv
  <1> QED BY <1>1, <1>3, <1>4, <1>5 DEF Store!Save

LEMMA StoreWorker ==
    ASSUME TInv, SInv, NEW w \in Workers, WorkerStep(w)
    PROVE  Store!Next \/ UNCHANGED Store!asVars
  <1>1. /\ users \in [Users -> Passwords \cup {NoPassword}]
        /\ DOMAIN pc = Threads /\ w \in Threads /\ w # Main
        /\ pc = [v \in Threads |-> pc[v]]
    BY AccountsAssumption DEF TInv, TypeOK, Threads
  <1>2. pc[w] # "idle" =>
           /\ job[w].op \in {"register", "login", "change"} =>
                 job[w].user \in Users /\ job[w].password \in Passwords
           /\ job[w].op = "change" => job[w].new \in Passwords
    BY RequestFields DEF TInv, JobOK
  <1>3. Alive /\ Phase # "failed"
    BY DEF WorkerStep, Alive, Phase
  <1>4. ASSUME NEW r \in Request, Receive(w, r) PROVE UNCHANGED Store!asVars
    <2>1. /\ pc[w] = "idle"
          /\ UNCHANGED <<users, sessions, file, issued, known, suspect, overlapped>>
      BY <1>4 DEF Receive
    <2>2. \/ UNCHANGED pc
          \/ \E l \in {"register", "login", "change", "cookie"} : pc' = [pc EXCEPT ![w] = l]
      BY <1>4 DEF Receive, Goto
    <2>3. UNCHANGED <<Load(file), Settled, Phase, overlapped>>
      BY <2>1, <2>2, StoreUnaffected, StoreWorkerUnaffected DEF SavePlaces
    <2> QED BY <2>1, <2>3 DEF Store!asVars
  <1>5. CASE Register(w)
    <2>1. CASE users[job[w].user] # NoPassword
      <3>1. UNCHANGED <<Load(file), Settled, Phase, overlapped>>
        BY <1>5, <2>1, StoreWorkerUnaffected DEF Register, Return, Goto, SavePlaces
      <3> QED BY <1>5, <2>1, <3>1 DEF Register, Store!asVars
    <2>2. CASE users[job[w].user] = NoPassword
      <3>1. job[w].user \in Users /\ job[w].password \in Passwords
        BY <1>2, <1>5 DEF Register, TInv, JobOK
      <3>2. Store!SetPassword(job[w].user, job[w].password)
        BY <1>3, <1>5, <2>2, <3>1, StoreChanges DEF Register, Goto
      <3>3. Store!Join(job[w].user, job[w].password)
        BY <2>2, <3>2 DEF Store!Join
      <3> QED BY <3>1, <3>3 DEF Store!Next
    <2> QED BY <2>1, <2>2
  <1>6. CASE ChangePassword(w)
    <2>1. CASE users[job[w].user] # job[w].password
      <3>1. UNCHANGED <<Load(file), Settled, Phase, overlapped>>
        BY <1>6, <2>1, StoreWorkerUnaffected DEF ChangePassword, Return, Goto, SavePlaces
      <3> QED BY <1>6, <2>1, <3>1 DEF ChangePassword, Store!asVars
    <2>2. CASE users[job[w].user] = job[w].password
      <3>1. job[w].user \in Users /\ job[w].password \in Passwords /\ job[w].new \in Passwords
        BY <1>2, <1>6 DEF ChangePassword, TInv, JobOK
      <3>2. Store!SetPassword(job[w].user, job[w].new)
        BY <1>3, <1>6, <2>2, <3>1, StoreChanges DEF ChangePassword, Goto
      <3>3. Store!ChangePassword(job[w].user, job[w].password, job[w].new)
        BY <2>2, <3>2 DEF Store!ChangePassword
      <3> QED BY <3>1, <3>3 DEF Store!Next
    <2> QED BY <2>1, <2>2
  <1>7. CASE Login(w) \/ CheckCookie(w)
    <2>1. PICK l \in {"idle", "session", "remove"} : pc' = [pc EXCEPT ![w] = l]
      BY <1>7 DEF Login, CheckCookie, Return, Goto
    <2>2. /\ pc[w] \in {"login", "cookie"}
          /\ UNCHANGED <<users, sessions, file, issued, known, suspect, overlapped>>
      BY <1>7 DEF Login, CheckCookie
    <2>3. UNCHANGED <<Load(file), Settled, Phase, overlapped>>
      BY <2>1, <2>2, StoreWorkerUnaffected DEF SavePlaces
    <2> QED BY <2>2, <2>3 DEF Store!asVars
  <1>8. CASE CreateSession(w)
    <2>1. PICK s \in SessionIds \ issued :
             /\ sessions' = [sessions EXCEPT ![s] = job[w].user]
             /\ issued' = issued \cup {s}
      BY <1>8 DEF CreateSession
    <2>2. job[w].user \in Users /\ users[job[w].user] # NoPassword
      BY <1>2, <1>8 DEF CreateSession, SInv, Entitled, TInv, JobOK
    <2>3. UNCHANGED <<Load(file), Settled, Phase, overlapped>>
      BY <1>1, <1>8, StoreUnaffected DEF CreateSession, Return, Goto, SavePlaces
    <2>4. Store!SignIn(s, job[w].user)
      BY <1>3, <1>8, <2>1, <2>2, <2>3 DEF CreateSession, Store!SignIn
    <2> QED BY <2>1, <2>2, <2>4 DEF Store!Next
  <1>9. CASE RemoveSession(w)
    <2>1. job[w].cookie \in SessionIds
      BY <1>9 DEF RemoveSession, TInv, JobOK
    <2>2. UNCHANGED <<Load(file), Settled, Phase, overlapped>>
      BY <1>1, <1>9, StoreUnaffected DEF RemoveSession, Return, Goto, SavePlaces
    <2>3. Store!SignOut(job[w].cookie)
      BY <1>3, <1>9, <2>2 DEF RemoveSession, Store!SignOut
    <2> QED BY <2>1, <2>3 DEF Store!Next
  <1> QED BY <1>4, <1>5, <1>6, <1>7, <1>8, <1>9 DEF WorkerStep

LEMMA StoreSaveStep ==
    ASSUME TInv, NEW t \in Threads, SaveStep(t), TInv', KInv', DInv', FileWasTrue'
    PROVE  Store!Next \/ UNCHANGED Store!asVars
  <1>1. DOMAIN pc = Threads /\ pc = [v \in Threads |-> pc[v]]
    BY DEF TInv, TypeOK
  <1>2. /\ pc[t] \in SavePlaces
        /\ \E l \in {"write", "flush", "done", "session", "cookie"} :
              (t = Main => l \in {"write", "flush", "done"}) /\ pc' = [pc EXCEPT ![t] = l]
    BY DEF SaveStep, OpenFile, OpenFails, WriteBuffer, FlushFile, Saved, Goto, SavePlaces
  <1>3. Phase' = Phase
    BY <1>1, <1>2 DEF Phase, SavePlaces
  <1>4. UNCHANGED <<users, sessions, issued, known>>
    BY DEF SaveStep, OpenFile, OpenFails, WriteBuffer, FlushFile
  <1>5. ~Settled
    BY <1>2 DEF Settled, Saving, SavePlaces
  <1>6. Store!Save
    BY <1>3, <1>4, <1>5, StoreSaves
  <1> QED BY <1>6 DEF Store!Next

LEMMA StoreRestart ==
    ASSUME TInv, KInv, Restart \/ RestartUnread
    PROVE  Store!Restart
  <1>1. PICK main \in {"idle", "down"} :
           Restarted(main) /\ (main = "down" => Restart /\ ~Readable(file))
    BY DEF Restart, RestartUnread
  <1>2. Main \in Threads /\ pc[Main] # "down" /\ pc'[Main] = main
    BY <1>1 DEF Restarted, Threads
  <1>3. Phase # "failed" /\ Phase' = IF main = "down" THEN "failed" ELSE "serving"
    BY <1>2 DEF Phase
  <1>4. UNCHANGED <<file, issued, overlapped>> /\ Load(file)' = Load(file)
    BY <1>1, LoadDepends DEF Restarted
  <1>5. /\ sessions' = [s \in SessionIds |-> NoUser]
        /\ known' = known \cup {[user |-> u, password |-> users'[u]] :
                                   u \in {v \in Users : users'[v] # NoPassword}}
    BY <1>1 DEF Restarted, AccountsIn
  <1>6. \A t \in Threads : pc'[t] # "open" /\ ~Saving(t)'
    BY <1>1 DEF Restarted, Saving
  <1>7. CASE Restart
    <2>1. users' = Load(file) /\ suspect' = (suspect \/ \E t \in Threads : Saving(t))
      BY <1>7 DEF Restart
    <2>2. Settled' \in BOOLEAN /\ (Settled => Settled')
      BY <1>6, <2>1 DEF Settled
    <2>3. main = "down" => overlapped
      BY <1>1, KnownIsTrue DEF FileWasTrue
    <2> QED BY <1>1, <1>3, <1>4, <1>5, <2>1, <2>2, <2>3 DEF Store!Restart
  <1>8. CASE RestartUnread
    <2>1. OpenMayFail /\ users' = [u \in Users |-> NoPassword] /\ Settled' = FALSE
          /\ Restarted("idle")
      BY <1>8 DEF RestartUnread, NoAccounts, Settled
    <2>2. Phase' = "serving"
      BY <2>1 DEF Restarted, Phase, Threads
    <2> QED BY <1>3, <1>4, <1>5, <2>1, <2>2 DEF Store!Restart, Store!Empty
  <1> QED BY <1>7, <1>8

LEMMA StoreStep ==
    TInv /\ SInv /\ KInv /\ [Next]_vars /\ TInv' /\ KInv' /\ DInv' /\ FileWasTrue'
        => [Store!Next]_(Store!asVars)
  <1> SUFFICES ASSUME TInv, SInv, KInv, [Next]_vars, TInv', KInv', DInv', FileWasTrue'
               PROVE  Store!Next \/ UNCHANGED Store!asVars
    OBVIOUS
  <1>1. CASE Restart \/ RestartUnread
    BY <1>1, StoreRestart DEF Store!Next
  <1>2. CASE Shutdown
    <2>1. Main \in Threads /\ pc[Main] = "idle" /\ pc'[Main] = "open"
      BY <1>2 DEF Shutdown, Goto, Threads, TInv, TypeOK
    <2>2. Phase = "serving" /\ Phase' = "closing" /\ Settled' = FALSE
      BY <2>1 DEF Phase, Settled
    <2>3. Store!Close
      BY <1>2, <2>2, LoadDepends DEF Shutdown, Store!Close
    <2> QED BY <2>3 DEF Store!Next
  <1>3. CASE UNCHANGED vars
    BY <1>3, StoreUnaffected DEF vars, Store!asVars
  <1> QED BY <1>1, <1>2, <1>3, StoreWorker, StoreSaveStep DEF Next

\* The accounts and sessions behave as tables with atomic operations and a durable
\* copy, although a request uses several critical sections, and saves, one at the end
\* of main included, fail, are cut off and overlap: only if they overlap may the copy
\* hold a password under an ending of its user's name (user_manager.cpp:26-246).
THEOREM AccountsRefineStore == Spec => AccountsAreAStore
  BY StoreInit, StoreStep, TInvAlways, SInvAlways, KInvAlways, DInvAlways,
     FileLinesWereTrue, PTL
  DEF Spec, AccountsAreAStore, Store!Spec
=============================================================================
