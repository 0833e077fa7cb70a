---------------------------- MODULE Application ----------------------------
(***************************************************************************)
(* The business application as one process: the threads of SoarControls    *)
(* also serve the people of Accounts, whom the controls keep out by their  *)
(* address or account, and a restart meets everything in progress.         *)
(***************************************************************************)
EXTENDS SoarControls, FiniteSets

CONSTANTS Account, Admin, Founder, Forgetful, AddressOf, MaxAttempts

ASSUME AccountsAssumption ==
    /\ Founder \subseteq Admin /\ Admin \union Forgetful \subseteq Account
    /\ MaxAttempts \in Nat \ {0}
    /\ IsFiniteSet(Thread)

VARIABLES account, session, visit, failures

webVars == <<account, session, visit, failures>>
appVars == <<vars, webVars>>

\* active_control: the row is active and its expires_at has not passed.
Contained == {target[a] : a \in {b \in Action : control[b] = "active" /\ lapse[b] = 0}}

Web == INSTANCE Accounts WITH contained <- Contained

AppInit == Init /\ Web!WebInit

\* A thread serves one request at a time, of either kind.
AppNext ==
    \/ \E t \in Thread : visit[t] = Web!NoVisit /\ Serve(t) /\ UNCHANGED webVars
    \/ \E a \in Action : Lapse(a) /\ UNCHANGED webVars
    \/ \E t \in Thread : request[t] = NoRequest /\ Web!WebServe(t) /\ UNCHANGED vars
    \/ \E u \in Account : Web!LockoutEnds(u) /\ UNCHANGED vars
    \/ Restart /\ Web!WebRestart

AppSpec == AppInit /\ [][AppNext]_appVars

-----------------------------------------------------------------------------
(* Properties *)

\* Every variable keeps its type, and no thread serves two requests.
AppTypeOK ==
    /\ TypeOK
    /\ account \in [Account -> Web!Row]
    /\ session \subseteq Account
    /\ visit \in [Thread -> Web!Visit]
    /\ failures \in [Account -> Nat]
    /\ \A t \in Thread : request[t] = NoRequest \/ visit[t] = Web!NoVisit

\* The ways to choose MaxAttempts - 1 of T + MaxAttempts - 1 things, for T threads.
Choices == {S \in SUBSET (1 .. Cardinality(Thread) + MaxAttempts - 1) : Cardinality(S) = MaxAttempts - 1}

\* Concurrent failures that count from the same reading postpone the lockout of
\* an account, but not for ever: with T requests at a time it takes no more than
\* T + MaxAttempts - 1 over T wrong passwords (MaxAttempts of them when T is 1).
LockoutComes == \A u \in Account : failures[u] < Cardinality(Choices)

\* A success that overlaps the failures which lock an account leaves the lockout
\* in force, unless it had read the account with an earlier lockout expired.
LockoutStands == [][\A u \in Account :
    account[u].lock = "running" /\ account'[u].lock = "none" =>
        \E t \in Thread : /\ visit[t].kind = "login" /\ visit'[t] = Web!NoVisit
                          /\ visit[t].whom = u /\ visit[t].row.lock = "over"]_appVars

Administrators == {u \in Admin : account[u].state = "active"}

\* The last administrator is deactivated by none but a request that an
\* administrator had begun who meanwhile was deactivated too.
AdministratorsCross == [][Administrators # {} /\ Administrators' = {} =>
    \E t \in Thread : /\ visit[t].kind = "toggle" /\ visit'[t] = Web!NoVisit
                      /\ visit[t].who \notin Administrators]_appVars
=============================================================================
