----------------------------- MODULE UserAccounts -----------------------------
(***************************************************************************)
(* The accounts: UserManager (src/user/user_manager.cpp), its file         *)
(* users.dat, and the sessions of SessionManager                           *)
(* (src/user/session_manager.cpp), as several workers use them at once,    *)
(* with crashes and restarts.                                              *)
(*                                                                         *)
(* users_ maps a user to its password: the salted hash stands for the      *)
(* password it was made of.  A name is the sequence of the groups of four  *)
(* characters of its base64 form, so the lines of the file differ in       *)
(* length.  Every ofstream of saveUsers writes at its own offset, from 0,  *)
(* and writes when it is destroyed, after users_mutex_ has been released:  *)
(* a save that overlaps another one may cut a line of it.                  *)
(***************************************************************************)
EXTENDS Naturals, FiniteSets, Sequences, SequencesExt

CONSTANTS Groups,        \* groups of base64 characters
          Users,         \* names, as sequences of groups
          NoUser,
          Passwords, NoPassword,
          SessionIds, NoSession,
          Workers, Main, \* the threads of the pool, and the one that runs main()
          NoJob,
          TailLength,    \* characters of a line after the name: "|salt|hash\n"
          OpenMayFail,   \* users.dat may turn out not to be openable
          MaxRequests,   \* bound on the requests received
          MaxRestarts    \* bound on the ends and new starts of the process

Threads == Workers \cup {Main}

Account == [user : Users, password : Passwords]

\* A line of the file, or what is left of it from character cut on.
Line == [user : Users, password : Passwords, cut : Nat]

Cookie == SessionIds \cup {NoSession}
Request ==
    [op : {"register", "login"}, user : Users, password : Passwords,
     new : {NoPassword}, cookie : Cookie]
    \cup [op : {"change"}, user : Users, password : Passwords, new : Passwords,
          cookie : Cookie]
    \cup [op : {"logout"}, user : {NoUser}, password : {NoPassword},
          new : {NoPassword}, cookie : Cookie]

ASSUME AccountsAssumption ==
    /\ IsFiniteSet(Users)
    /\ \A u \in Users : u \in Seq(Groups) /\ Suffixes(u) \subseteq Users
    /\ NoUser \notin Users
    /\ NoPassword \notin Passwords
    /\ NoSession \notin SessionIds
    /\ NoJob \notin Request
    /\ Main \notin Workers
    /\ TailLength \in Nat /\ TailLength % 4 = 3  \* two encoded fields and "|", "|", "\n"
    /\ OpenMayFail \in BOOLEAN
    /\ MaxRequests \in Nat
    /\ MaxRestarts \in Nat

VARIABLES
    users,       \* users_: password, or NoPassword for an unknown user
    sessions,    \* sessions_: session id to user, for the ids in use
    file,        \* the lines of users.dat
    job,         \* the request each worker handles
    pc,          \* where each thread is; main is "idle" while it serves, "done" when
                 \* the managers are destroyed, "down" if they could not be made
    buffer,      \* the lines in the buffer of each thread's ofstream
    issued,      \* auxiliary: the ids createSession has returned
    known,       \* auxiliary: the accounts that were ever in users_
    suspect,     \* auxiliary: the last save failed, overlapped another one, or
                 \* was cut short by the end of the process
    overlapped,  \* auxiliary: the file was opened for a save during another one
    requests, restarts  \* counters, for the bounds

vars == <<users, sessions, file, job, pc, buffer, issued, known, suspect,
          overlapped, requests, restarts>>

NoAccounts == [u \in Users |-> NoPassword]

Init ==
    /\ users = NoAccounts
    /\ sessions = [s \in SessionIds |-> NoUser]
    /\ file = <<>>
    /\ job = [w \in Workers |-> NoJob]
    /\ pc = [t \in Threads |-> "idle"]
    /\ buffer = [t \in Threads |-> <<>>]
    /\ issued = {}
    /\ known = {}
    /\ suspect = FALSE
    /\ overlapped = FALSE
    /\ requests = 0
    /\ restarts = 0

LoggedIn(c) == c # NoSession /\ sessions[c] # NoUser

\* The accounts in a table like users_.
AccountsIn(table) == {[user |-> u, password |-> table[u]] :
                         u \in {v \in Users : table[v] # NoPassword}}

\* The lines a loop over users_ may write: one per user, in the table's order.
Listings == SetToSeqs({[user |-> a.user, password |-> a.password, cut |-> 0] :
                          a \in AccountsIn(users)})
-----------------------------------------------------------------------------
(* The file.                                                               *)

Length(l) == 4 * Len(l.user) + TailLength - l.cut

\* Where the lines of f end, in characters; 0 is where the first one begins.
Ends(f) ==
    LET end[i \in 0..Len(f)] == IF i = 0 THEN 0 ELSE end[i - 1] + Length(f[i])
    IN end

\* What is left of f from character n on.
Rest(f, n) ==
    LET beyond == {i \in 1..Len(f) : Ends(f)[i] > n}
        torn == Min(beyond)
    IN IF beyond = {}
       THEN <<>>
       ELSE <<[f[torn] EXCEPT !.cut = @ + (n - Ends(f)[torn - 1])]>>
            \o SubSeq(f, torn + 1, Len(f))

\* Writing b at offset 0 of a file that holds f.
Overwrite(f, b) == b \o Rest(f, Ends(b)[Len(b)])

\* loadUsers takes a line that has three parts: the first "|" is not cut off.
HasThreeParts(l) == l.cut <= 4 * Len(l.user)

\* The name it finds there.  Base64::decode throws if a group is cut.
Decodes(l) == l.cut % 4 = 0
NameIn(l) == SubSeq(l.user, l.cut \div 4 + 1, Len(l.user))

Readable(f) == \A i \in 1..Len(f) : HasThreeParts(f[i]) => Decodes(f[i])

\* loadUsers: of two lines for a user the later one counts.
Load(f) ==
    [u \in Users |->
        LET lines == {i \in 1..Len(f) : HasThreeParts(f[i]) /\ NameIn(f[i]) = u}
        IN IF lines = {} \/ ~Readable(f) THEN NoPassword ELSE f[Max(lines)].password]
-----------------------------------------------------------------------------
Goto(w, l) == pc' = [pc EXCEPT ![w] = l]

\* The handler returns its response.
Return(w) == /\ Goto(w, "idle")
             /\ job' = [job EXCEPT ![w] = NoJob]

Saving(t) == pc[t] \in {"write", "flush"}
-----------------------------------------------------------------------------
(* A request arrives at a worker.  The cookie is one that was issued, or   *)
(* none: an unknown one is like none.  registerUser and loginUser refuse a *)
(* client that is logged in; logoutUser one that is not.                   *)
Receive(w, r) ==
    /\ pc[w] = "idle"
    /\ requests < MaxRequests
    /\ r.cookie \in issued \cup {NoSession}
    /\ requests' = requests + 1
    /\ \/ /\ r.op \in {"register", "login"}
          /\ IF LoggedIn(r.cookie)
             THEN UNCHANGED <<job, pc>>
             ELSE Goto(w, r.op) /\ job' = [job EXCEPT ![w] = r]
       \/ /\ r.op = "change"
          /\ Goto(w, "change") /\ job' = [job EXCEPT ![w] = r]
       \/ /\ r.op = "logout"
          /\ Goto(w, "cookie") /\ job' = [job EXCEPT ![w] = r]
    /\ UNCHANGED <<users, sessions, file, buffer, issued, known, suspect, overlapped, restarts>>

\* A mistake to be caught: a name that is taken is given away.
Register_Overwrites(w) ==
    /\ pc[w] = "register"
    /\ LET r == job[w] IN
       /\ users' = [users EXCEPT ![r.user] = r.password]
       /\ known' = known \cup {[user |-> r.user, password |-> r.password]}
    /\ Goto(w, "open")
    /\ UNCHANGED <<job, sessions, file, buffer, issued, suspect, overlapped,
                   requests, restarts>>

\* registerUser, under users_mutex_: the name is looked up and taken at once.
Register(w) ==
    /\ pc[w] = "register"
    /\ LET r == job[w] IN
       IF users[r.user] # NoPassword
       THEN Return(w) /\ UNCHANGED <<users, known>>
       ELSE /\ users' = [users EXCEPT ![r.user] = r.password]
            /\ known' = known \cup {[user |-> r.user, password |-> r.password]}
            /\ Goto(w, "open")
            /\ UNCHANGED job
    /\ UNCHANGED <<sessions, file, buffer, issued, suspect, overlapped,
                   requests, restarts>>

\* A mistake to be caught: the operands of the && of user_manager.cpp:102 are
\* swapped, and users_[username] inserts an empty record.
Login_Inserts(w) ==
    /\ pc[w] = "login"
    /\ LET u == job[w].user IN
       /\ users' = [users EXCEPT ![u] = IF @ = NoPassword THEN "" ELSE @]
       /\ IF users[u] = job[w].password
          THEN Goto(w, "session") /\ UNCHANGED job
          ELSE Return(w)
    /\ UNCHANGED <<sessions, file, buffer, issued, known, suspect, overlapped,
                   requests, restarts>>

\* A mistake to be caught: a user that is not found passes.
Login_UnknownPasses(w) ==
    /\ pc[w] = "login"
    /\ IF users[job[w].user] \in {job[w].password, NoPassword}
       THEN Goto(w, "session") /\ UNCHANGED job
       ELSE Return(w)
    /\ UNCHANGED <<users, sessions, file, buffer, issued, known, suspect, overlapped,
                   requests, restarts>>

\* loginUser, under users_mutex_; the session is created later.
Login(w) ==
    /\ pc[w] = "login"
    /\ IF users[job[w].user] = job[w].password
       THEN Goto(w, "session") /\ UNCHANGED job
       ELSE Return(w)
    /\ UNCHANGED <<users, sessions, file, buffer, issued, known, suspect, overlapped,
                   requests, restarts>>

\* A mistake to be caught: the new password is not saved.
ChangePassword_NoSave(w) ==
    /\ pc[w] = "change"
    /\ LET r == job[w] IN
       IF users[r.user] = r.password
       THEN /\ users' = [users EXCEPT ![r.user] = r.new]
            /\ known' = known \cup {[user |-> r.user, password |-> r.new]}
            /\ Goto(w, "cookie")
            /\ UNCHANGED job
       ELSE Return(w) /\ UNCHANGED <<users, known>>
    /\ UNCHANGED <<sessions, file, buffer, issued, suspect, overlapped,
                   requests, restarts>>

\* changePassword, under users_mutex_.
ChangePassword(w) ==
    /\ pc[w] = "change"
    /\ LET r == job[w] IN
       IF users[r.user] = r.password
       THEN /\ users' = [users EXCEPT ![r.user] = r.new]
            /\ known' = known \cup {[user |-> r.user, password |-> r.new]}
            /\ Goto(w, "open")
            /\ UNCHANGED job
       ELSE Return(w) /\ UNCHANGED <<users, known>>
    /\ UNCHANGED <<sessions, file, buffer, issued, suspect, overlapped,
                   requests, restarts>>
-----------------------------------------------------------------------------
(* saveUsers.  The file is opened, and emptied, before users_mutex_ is     *)
(* taken.  Workers call it, and main in ~UserManager, while workers may    *)
(* still be busy.                                                          *)
\* saveUsers has returned: what registerUser, changePassword and main do next.
Saved(t) == Goto(t, IF t = Main THEN "done"
                    ELSE IF job[t].op = "register" THEN "session" ELSE "cookie")

\* A mistake to be caught: the file is opened without being emptied.
OpenFile_Keeps(t) ==
    /\ pc[t] = "open"
    /\ suspect' = (\E v \in Threads : Saving(v))
    /\ overlapped' = suspect'
    /\ Goto(t, "write")
    /\ UNCHANGED <<users, sessions, file, job, buffer, issued, known, requests, restarts>>

OpenFile(t) ==
    /\ pc[t] = "open"
    /\ file' = <<>>
    /\ suspect' = (\E v \in Threads : Saving(v))
    /\ overlapped' = suspect'
    /\ Goto(t, "write")
    /\ UNCHANGED <<users, sessions, job, buffer, issued, known, requests, restarts>>

\* The loop over users_, under users_mutex_, into the stream's buffer.
WriteBuffer(t) ==
    /\ pc[t] = "write"
    /\ \E l \in Listings : buffer' = [buffer EXCEPT ![t] = l]
    /\ Goto(t, "flush")
    /\ UNCHANGED <<users, sessions, file, job, issued, known, suspect, overlapped,
                   requests, restarts>>

\* The file cannot be opened: logged, and the result 0 is ignored.
OpenFails(t) ==
    /\ OpenMayFail
    /\ pc[t] = "open"
    /\ suspect' = TRUE
    /\ Saved(t)
    /\ UNCHANGED <<users, sessions, file, job, buffer, issued, known, overlapped,
                   requests, restarts>>

\* ~ofstream, after the mutex has been released.
FlushFile(t) ==
    /\ pc[t] = "flush"
    /\ file' = Overwrite(file, buffer[t])
    /\ buffer' = [buffer EXCEPT ![t] = <<>>]
    /\ Saved(t)
    /\ UNCHANGED <<users, sessions, job, issued, known, suspect, overlapped,
                   requests, restarts>>
-----------------------------------------------------------------------------
(* SessionManager.                                                         *)

\* createSession: time and a random number make an id that was never used.
CreateSession(w) ==
    /\ pc[w] = "session"
    /\ \E s \in SessionIds \ issued :
         /\ sessions' = [sessions EXCEPT ![s] = job[w].user]
         /\ issued' = issued \cup {s}
    /\ Return(w)
    /\ UNCHANGED <<users, file, buffer, known, suspect, overlapped, requests, restarts>>

\* isLoggedIn on the cookie, in logoutUser and at the end of changePassword.
CheckCookie(w) ==
    /\ pc[w] = "cookie"
    /\ IF LoggedIn(job[w].cookie)
       THEN Goto(w, "remove") /\ UNCHANGED job
       ELSE Return(w)
    /\ UNCHANGED <<users, sessions, file, buffer, issued, known, suspect, overlapped,
                   requests, restarts>>

\* A mistake to be caught: every session of the user ends.
RemoveSession_AllOfUser(w) ==
    /\ pc[w] = "remove"
    /\ sessions' = [s \in SessionIds |->
                       IF sessions[s] = sessions[job[w].cookie] THEN NoUser ELSE sessions[s]]
    /\ Return(w)
    /\ UNCHANGED <<users, file, buffer, issued, known, suspect, overlapped,
                   requests, restarts>>

RemoveSession(w) ==
    /\ pc[w] = "remove"
    /\ sessions' = [sessions EXCEPT ![job[w].cookie] = NoUser]
    /\ Return(w)
    /\ UNCHANGED <<users, file, buffer, issued, known, suspect, overlapped,
                   requests, restarts>>
-----------------------------------------------------------------------------
(* The end of the process, and the next start.  What was in memory is      *)
(* gone: the users not in the file, every session, and what streams had    *)
(* buffered.                                                               *)
Restarted(main) ==
    /\ pc[Main] # "down"
    /\ restarts < MaxRestarts
    /\ restarts' = restarts + 1
    /\ sessions' = [s \in SessionIds |-> NoUser]
    /\ job' = [w \in Workers |-> NoJob]
    /\ pc' = [t \in Threads |-> IF t = Main THEN main ELSE "idle"]
    /\ buffer' = [t \in Threads |-> <<>>]
    /\ known' = known \cup AccountsIn(users')
    /\ UNCHANGED <<file, issued, overlapped, requests>>

\* The process is killed, or exits once main is through, and the constructor of the
\* next one loads the file.  An exception of loadUsers ends that process in main.
Restart ==
    /\ users' = Load(file)
    /\ suspect' = (suspect \/ \E t \in Threads : Saving(t))
    /\ Restarted(IF Readable(file) THEN "idle" ELSE "down")

\* loadUsers cannot open the file: the process starts with no account.
RestartUnread ==
    /\ OpenMayFail
    /\ users' = NoAccounts
    /\ suspect' = TRUE
    /\ Restarted("idle")

\* run() has returned, or thrown, and main destroys the UserManager, before it
\* joins the workers.
Shutdown ==
    /\ pc[Main] = "idle"
    /\ Goto(Main, "open")
    /\ UNCHANGED <<users, sessions, file, job, buffer, issued, known, suspect,
                   overlapped, requests, restarts>>
-----------------------------------------------------------------------------
\* The managers exist: what a worker does with them after main has destroyed them is
\* undefined and not modelled here.
Alive == pc[Main] \notin {"done", "down"}

WorkerStep(w) ==
    /\ Alive
    /\ \/ \E r \in Request : Receive(w, r)
       \/ Register(w) \/ Login(w) \/ ChangePassword(w)
       \/ CreateSession(w) \/ CheckCookie(w) \/ RemoveSession(w)

\* A worker's stream is its own, and written even when the manager is gone.
SaveStep(t) ==
    \/ Alive /\ (OpenFile(t) \/ OpenFails(t) \/ WriteBuffer(t))
    \/ FlushFile(t)

Next == \/ \E w \in Workers : WorkerStep(w)
        \/ \E t \in Threads : SaveStep(t)
        \/ Restart \/ RestartUnread
        \/ Shutdown

Spec == Init /\ [][Next]_vars
-----------------------------------------------------------------------------
TypeOK ==
    /\ users \in [Users -> Passwords \cup {NoPassword}]
    /\ sessions \in [SessionIds -> Users \cup {NoUser}]
    /\ file \in Seq(Line)
    /\ job \in [Workers -> Request \cup {NoJob}]
    /\ pc \in [Threads -> {"idle", "register", "login", "change", "open", "write",
                           "flush", "session", "cookie", "remove", "done", "down"}]
    /\ buffer \in [Threads -> Seq(Line)]
    /\ issued \subseteq SessionIds
    /\ known \subseteq Account
    /\ suspect \in BOOLEAN
    /\ overlapped \in BOOLEAN
    /\ requests \in 0..MaxRequests
    /\ restarts \in 0..MaxRestarts

\* A session is always of a registered user, also when it is created long after
\* the password was checked (user_manager.cpp:102,111).
SessionsAreOfUsers ==
    \A s \in SessionIds : sessions[s] # NoUser => users[sessions[s]] # NoPassword

\* While the process lives, an account is never given away or lost: its password
\* changes only by a request that states the current one, two workers that
\* register the same name included (user_manager.cpp:62-67,138-144).
AccountsChangeByTheirPassword ==
    [][\A u \in Users :
          users[u] # NoPassword /\ users'[u] # users[u] /\ restarts' = restarts
            => \E w \in Workers : /\ job[w] # NoJob /\ job[w].op = "change"
                                  /\ job[w].user = u
                                  /\ job[w].password = users[u]
                                  /\ users'[u] = job[w].new]_vars

\* A client is logged out only by a request with its session, or by a restart:
\* other requests, on other workers, leave it logged in.
SessionsEndByTheirCookie ==
    [][\A s \in SessionIds :
          sessions[s] # NoUser /\ sessions'[s] # sessions[s] /\ restarts' = restarts
            => \E w \in Workers : /\ job[w] # NoJob /\ job[w].cookie = s
                                  /\ job[w].op \in {"change", "logout"}]_vars

\* What a restart reads was true once, although saves fail and are cut off, unless
\* they overlap: a line that one has cut is then refused, or read as that of a user
\* whose name is an ending of the right one (user_manager.cpp:214-223,229-245).
FileWasTrue ==
    /\ ~overlapped => Readable(file)
    /\ \A u \in Users : Load(file)[u] # NoPassword =>
           \E a \in known : /\ a.password = Load(file)[u]
                            /\ a.user = u \/ (overlapped /\ u \in Suffixes(a.user))

\* No save is under way or due, and the last one was complete.
Settled == ~suspect /\ \A t \in Threads : pc[t] # "open" /\ ~Saving(t)

\* Saves that succeed and do not overlap leave the file equal to users_: no update is missed
\* between its critical section and the save (user_manager.cpp:67,74,230,236).
SerialSavesAreComplete ==
    Settled => Load(file) = users

Phase == CASE pc[Main] = "idle" -> "serving"
           [] pc[Main] = "down" -> "failed"
           [] OTHER -> "closing"

Store == INSTANCE AccountStore
         WITH accounts <- users, durable <- Load(file), history <- known,
              settled <- Settled, torn <- overlapped, phase <- Phase

\* The workers' critical sections, the steps of the saves, main's at a shutdown
\* included, and the ends of the process in between are steps of the AccountStore:
\* what is read in one section and used in another is never seen half done, and a
\* restart finds all accounts unless a save was due, under way or not complete
\* (user_manager.cpp:34-38,60-76,98-111,136-157,192-246).
AccountsAreAStore == Store!Spec

\* users.dat holds the accounts (README.md) once no request is being handled.
QuiescentFileIsCurrent ==
    (\A t \in Threads : pc[t] = "idle") => Load(file) = users
=============================================================================
