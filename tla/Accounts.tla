------------------------------ MODULE Accounts ------------------------------
(***************************************************************************)
(* The business application's accounts: logins with the lockout after      *)
(* repeated failures, sessions, and the administration of users, served by *)
(* concurrent threads.  Every handler reads its rows without a lock,       *)
(* spends a while on a password hash or a page, and writes what it         *)
(* computed from the rows it had read.                                     *)
(***************************************************************************)
EXTENDS Naturals

CONSTANTS
    Account,      \* usernames
    Admin,        \* those whose role is admin
    Founder,      \* the administrators that exist from the start
    AddressOf,    \* AddressOf[u]: from where u uses the application
    Thread,       \* concurrent requests
    Forgetful,    \* bound: those whose logins may fail
    MaxAttempts   \* login_max_attempts (5)

VARIABLES
    contained,   \* targets of the SOAR controls in force, which others change
    account,     \* the rows of users
    session,     \* accounts with a session cookie
    visit,       \* visit[t]: what thread t has read for the request it serves
    failures     \* failures[u]: wrong passwords since a success or a lockout

webVars == <<account, session, visit, failures>>

\* lock: locked_until is null, in the future, or in the past.
Row == [state : {"absent", "active", "inactive"}, attempts : 0 .. MaxAttempts, lock : {"none", "running", "over"}]
NewRow(state) == [state |-> state, attempts |-> 0, lock |-> "none"]

NoVisit == [kind |-> "none"]
Visit == {NoVisit}
    \union [kind : {"login"}, whom : Account, row : Row]
    \union [kind : {"toggle"}, who : Admin, whom : Account, was : {"active", "inactive"}]
    \union [kind : {"create"}, whom : Account]

WebInit ==
    /\ account = [u \in Account |-> NewRow(IF u \in Founder THEN "active" ELSE "absent")]
    /\ session = {}
    /\ visit = [t \in Thread |-> NoVisit]
    /\ failures = [u \in Account |-> 0]

-----------------------------------------------------------------------------
(* Every request *)

\* enforce_soar_ip_controls lets u's requests through.
Enters(t, u) == visit[t] = NoVisit /\ AddressOf[u] \notin contained

\* get_current_user; require_roles
Authenticated(t, u) == Enters(t, u) /\ u \in session /\ account[u].state = "active"
Administers(t, u) == Authenticated(t, u) /\ u \in Admin

\* A request with the session of an account that was deactivated clears it.
Evict(t, u) ==
    /\ Enters(t, u)
    /\ u \in session /\ account[u].state # "active"
    /\ session' = session \ {u}
    /\ UNCHANGED <<account, visit, failures>>

Reads(t, v) == visit' = [visit EXCEPT ![t] = v] /\ UNCHANGED <<account, session, failures>>
Ends(t) == visit' = [visit EXCEPT ![t] = NoVisit]

-----------------------------------------------------------------------------
(* login, logout *)

\* login reads the account; a contained, locked or unknown one is refused.
LoginRead(t, u) ==
    /\ Enters(t, u)
    /\ u \notin contained
    /\ account[u].state # "absent" /\ account[u].lock # "running"
    /\ u \in Forgetful \/ account[u].state = "active"
    /\ Reads(t, [kind |-> "login", whom |-> u, row |-> account[u]])

\* Counted as far as it makes a difference.
Counted(row) == IF row.attempts < MaxAttempts THEN row.attempts + 1 ELSE MaxAttempts

\* Mutation of Locks: the attempt that reaches the maximum does not lock.
LocksAfter(attempts) == attempts > MaxAttempts

Locks(attempts) == attempts >= MaxAttempts

\* A wrong password, or an account that was inactive when it was read.
LoginFails(t) ==
    LET u == visit[t].whom
        attempts == Counted(visit[t].row)
    IN
    /\ visit[t].kind = "login" /\ u \in Forgetful
    /\ account' = [account EXCEPT ![u].attempts = attempts,
                                  ![u].lock = IF Locks(attempts) THEN "running" ELSE @]
    /\ failures' = [failures EXCEPT ![u] = IF Locks(attempts) THEN 0 ELSE @ + 1]
    /\ Ends(t)
    /\ UNCHANGED session

\* Mutation of Cleared: locked_until is written whatever it was when read.
ClearedAlways(t) == [account[visit[t].whom] EXCEPT !.attempts = 0, !.lock = "none"]

\* The session writes the columns that differ from what it had read.
Cleared(t) ==
    LET read == visit[t].row
        now == account[visit[t].whom]
    IN
    [state |-> now.state,
     attempts |-> IF read.attempts = 0 THEN now.attempts ELSE 0,
     lock |-> IF read.lock = "none" THEN now.lock ELSE "none"]

LoginSucceeds(t) ==
    LET u == visit[t].whom IN
    /\ visit[t].kind = "login" /\ visit[t].row.state = "active"
    /\ account' = [account EXCEPT ![u] = Cleared(t)]
    /\ session' = session \union {u}
    /\ failures' = [failures EXCEPT ![u] = 0]
    /\ Ends(t)

Logout(t, u) ==
    /\ Authenticated(t, u)
    /\ session' = session \ {u}
    /\ UNCHANGED <<account, visit, failures>>

\* locked_until passes.
LockoutEnds(u) ==
    /\ account[u].lock = "running"
    /\ account' = [account EXCEPT ![u].lock = "over"]
    /\ UNCHANGED <<session, visit, failures>>

-----------------------------------------------------------------------------
(* The administration of users *)

\* Mutation of Togglable: an administrator may toggle the own account.
TogglableOwn(u, v) == account[v].state # "absent"

Togglable(u, v) == account[v].state # "absent" /\ u # v

ToggleRead(t, u, v) ==
    /\ Administers(t, u)
    /\ Togglable(u, v)
    /\ Reads(t, [kind |-> "toggle", who |-> u, whom |-> v, was |-> account[v].state])

\* is_active becomes the opposite of what was read.
ToggleWrite(t) ==
    LET v == visit[t].whom IN
    /\ visit[t].kind = "toggle"
    /\ account' = [account EXCEPT ![v].state = IF visit[t].was = "active" THEN "inactive" ELSE "active"]
    /\ Ends(t)
    /\ UNCHANGED <<session, failures>>

\* create_user finds no duplicate.
CreateRead(t, u, v) ==
    /\ Administers(t, u)
    /\ account[v].state = "absent"
    /\ Reads(t, [kind |-> "create", whom |-> v])

\* The insert, or the IntegrityError of the unique index, answered 500.
CreateWrite(t) ==
    LET v == visit[t].whom IN
    /\ visit[t].kind = "create"
    /\ account' = IF account[v].state = "absent" THEN [account EXCEPT ![v] = NewRow("active")] ELSE account
    /\ Ends(t)
    /\ UNCHANGED <<session, failures>>

-----------------------------------------------------------------------------

\* A restart aborts what the threads do; bootstrap finds its administrator.
WebRestart ==
    /\ visit' = [t \in Thread |-> NoVisit]
    /\ UNCHANGED <<account, session, failures>>

WebServe(t) ==
    \/ \E u \in Account : Evict(t, u) \/ LoginRead(t, u) \/ Logout(t, u)
    \/ LoginFails(t) \/ LoginSucceeds(t)
    \/ \E u \in Admin, v \in Account : ToggleRead(t, u, v) \/ CreateRead(t, u, v)
    \/ ToggleWrite(t) \/ CreateWrite(t)

WebNext ==
    \/ \E t \in Thread : WebServe(t)
    \/ \E u \in Account : LockoutEnds(u)
    \/ WebRestart
=============================================================================
