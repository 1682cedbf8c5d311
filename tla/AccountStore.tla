----------------------------- MODULE AccountStore -----------------------------
(***************************************************************************)
(* What UserManager and SessionManager promise to the handlers of requests:*)
(* a table of accounts and a table of sessions with atomic operations, and *)
(* a copy of the accounts that survives the process.  The copy is only     *)
(* promised to be the table while the store is settled.  While it is not,  *)
(* it may have lost accounts and passwords; and once it is torn, it may    *)
(* also have given a user's password to a name that is an ending of his,   *)
(* or be of no use to the next process.  UserAccounts implements it with a *)
(* file that is emptied and written anew, by several threads at once.      *)
(***************************************************************************)
EXTENDS Naturals, Sequences, SequencesExt

CONSTANTS Users, NoUser, Passwords, NoPassword, SessionIds,
          OpenMayFail  \* a new process may not be able to read the copy

VARIABLES
    accounts,  \* user to password, or NoPassword
    sessions,  \* session id to user, or NoUser
    issued,    \* the session ids that were ever given out
    durable,   \* the accounts a new process would find
    history,   \* the pairs of user and password that were ever in accounts
    settled,   \* durable is known to be accounts
    torn,      \* writers of the copy got into each other's way
    phase      \* "serving", "closing" or, when no process came up, "failed"

asVars == <<accounts, sessions, issued, durable, history, settled, torn, phase>>

Empty == [u \in Users |-> NoPassword]

Init ==
    /\ accounts = Empty
    /\ sessions = [s \in SessionIds |-> NoUser]
    /\ issued = {}
    /\ durable = Empty
    /\ history = {}
    /\ settled = TRUE
    /\ torn = FALSE
    /\ phase = "serving"

\* Every change of an account has to be saved.
SetPassword(u, p) ==
    /\ phase # "failed"
    /\ accounts' = [accounts EXCEPT ![u] = p]
    /\ history' = history \cup {[user |-> u, password |-> p]}
    /\ settled' = FALSE
    /\ UNCHANGED <<sessions, issued, durable, torn, phase>>

Join(u, p) == accounts[u] = NoPassword /\ SetPassword(u, p)

\* The password that is replaced is the one the client stated.
ChangePassword(u, old, new) == accounts[u] = old /\ SetPassword(u, new)

SignIn(s, u) ==
    /\ phase # "failed"
    /\ s \notin issued
    /\ accounts[u] # NoPassword
    /\ sessions' = [sessions EXCEPT ![s] = u]
    /\ issued' = issued \cup {s}
    /\ UNCHANGED <<accounts, durable, history, settled, torn, phase>>

SignOut(s) ==
    /\ phase # "failed"
    /\ sessions' = [sessions EXCEPT ![s] = NoUser]
    /\ UNCHANGED <<accounts, issued, durable, history, settled, torn, phase>>

\* The copy is only touched when there is something to save, or at the end.
Save ==
    /\ ~settled
    /\ durable' \in [Users -> Passwords \cup {NoPassword}]
    /\ torn' \in BOOLEAN
    /\ \A u \in Users : durable'[u] # NoPassword =>
           \E a \in history : /\ a.password = durable'[u]
                              /\ a.user = u \/ (torn' /\ u \in Suffixes(a.user))
    /\ settled' \in BOOLEAN
    /\ settled' => durable' = accounts /\ ~torn'
    /\ UNCHANGED <<accounts, sessions, issued, history, phase>>

\* The process is about to end, and saves once more.
Close ==
    /\ phase = "serving"
    /\ phase' = "closing"
    /\ settled' = FALSE
    /\ UNCHANGED <<accounts, sessions, issued, durable, history, torn>>

\* A new process has the accounts of the copy, or none if it could not read it.
Restart ==
    /\ phase # "failed"
    /\ \/ /\ accounts' = durable
          /\ settled' \in BOOLEAN
          /\ settled => settled'
          /\ phase' \in {"serving", "failed"}
          /\ phase' = "failed" => torn
       \/ /\ OpenMayFail
          /\ accounts' = Empty
          /\ settled' = FALSE
          /\ phase' = "serving"
    /\ history' = history \cup {[user |-> u, password |-> accounts'[u]] :
                                   u \in {v \in Users : accounts'[v] # NoPassword}}
    /\ sessions' = [s \in SessionIds |-> NoUser]
    /\ UNCHANGED <<issued, durable, torn>>

Next ==
    \/ \E u \in Users, p \in Passwords : Join(u, p)
    \/ \E u \in Users, old \in Passwords, new \in Passwords : ChangePassword(u, old, new)
    \/ \E s \in SessionIds, u \in Users : SignIn(s, u)
    \/ \E s \in SessionIds : SignOut(s)
    \/ Save
    \/ Close
    \/ Restart

Spec == Init /\ [][Next]_asVars
=============================================================================
