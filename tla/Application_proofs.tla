------------------------- MODULE Application_proofs -------------------------
(***************************************************************************)
(* The composed application: what SoarControls_proofs shows of the         *)
(* controls holds of it too, and so do the promises about accounts, for    *)
(* any number of accounts, threads and actions: what stands of a lockout,  *)
(* how many lost increments may delay it, and who is left to administer.   *)
(***************************************************************************)
EXTENDS Application, SoarControls_proofs, FiniteSetLemmas

(***************************************************************************)
(* The controls, of which the people's requests change nothing             *)
(***************************************************************************)

LEMMA ControlsStep == [AppNext]_appVars => [Next]_vars
BY DEF AppNext, appVars, Next

\* The application behaves, as far as the controls go, as SoarControls says:
\* whatever people do at the same time.
THEOREM ApplicationKeepsControls == AppSpec => Spec
BY ControlsStep, PTL DEF AppSpec, AppInit, Spec

\* With people on the same threads, too, the store of controls is what the SOAR
\* controller was promised.
THEOREM ApplicationImplementsStore == AppSpec => ImplementsStore
BY ApplicationKeepsControls, StoreIsImplemented, PTL

\* The audit trail has exactly one applied event per control and one rolled_back
\* event per revocation.
THEOREM ApplicationKeepsTrail == AppSpec => []EventsMatchControls
BY ApplicationKeepsControls, TrailMatchesRows, PTL

\* Who was told 200 for a target was told about a control of that target.
THEOREM ApplicationAnswersTruly == AppSpec => []AnswerNamesTheControl
BY ApplicationKeepsControls, AnswersNameControls, PTL

(***************************************************************************)
(* The accounts.  What a visit has read may be old when it writes, but     *)
(* some of it is true for ever: that the account was not locked when a     *)
(* login read it, and that nobody toggles himself.                         *)
(***************************************************************************)

LoginsFoundUnlocked == \A t \in Thread : visit[t].kind = "login" => visit[t].row.lock # "running"

NobodyTogglesHimself == \A t \in Thread : visit[t].kind = "toggle" => visit[t].who # visit[t].whom

\* What does not exist has no lockout, and what was found to exist still does.
AbsentIsNew ==
    /\ \A u \in Account : account[u].state = "absent" => account[u].lock = "none"
    /\ \A t \in Thread : visit[t].kind \in {"login", "toggle"} => account[visit[t].whom].state # "absent"

AppInv == Inv /\ AppTypeOK /\ LoginsFoundUnlocked /\ NobodyTogglesHimself /\ AbsentIsNew

LEMMA VisitKinds == \A v \in Web!Visit :
    /\ v.kind \in {"none", "login", "toggle", "create"}
    /\ v.kind = "none" => v = Web!NoVisit
    /\ v.kind = "login" => v.whom \in Account /\ v.row \in Web!Row
    /\ v.kind = "toggle" => v.who \in Admin /\ v.whom \in Account
    /\ v.kind = "create" => v.whom \in Account
BY DEF Web!Visit, Web!NoVisit

LEMMA AppInitInv == AppInit => AppInv
<1>1. SUFFICES ASSUME AppInit PROVE AppInv
    OBVIOUS
<1>2. Inv
    BY <1>1, InitInv DEF AppInit
<1>3. AppTypeOK
    BY <1>1, <1>2, AccountsAssumption
       DEF AppInit, Web!WebInit, AppTypeOK, Inv, Web!Row, Web!NewRow, Web!Visit, Web!NoVisit, Init
<1> QED
    BY <1>1, <1>2, <1>3 DEF AppInit, Web!WebInit, AppInv, LoginsFoundUnlocked, NobodyTogglesHimself, AbsentIsNew,
       Web!NewRow, Web!NoVisit

\* What a step of the people's side keeps of the invariant.
AccountsTyped ==
    /\ account \in [Account -> Web!Row]
    /\ session \subseteq Account
    /\ visit \in [Thread -> Web!Visit]
    /\ failures \in [Account -> Nat]

PeopleInv == AccountsTyped /\ LoginsFoundUnlocked /\ NobodyTogglesHimself /\ AbsentIsNew

\* No account goes missing.
NoneVanishes == \A u \in Account : account'[u] = account[u] \/ account'[u].state # "absent"

\* Starting a visit or ending it.
LEMMA StartsVisit ==
    ASSUME PeopleInv, NEW t \in Thread, NEW v \in Web!Visit, Web!Reads(t, v),
           v.kind = "login" => v.row.lock # "running",
           v.kind = "toggle" => v.who # v.whom,
           v.kind \in {"login", "toggle"} => account[v.whom].state # "absent"
    PROVE  PeopleInv'
BY DEF PeopleInv, AccountsTyped, LoginsFoundUnlocked, NobodyTogglesHimself, AbsentIsNew, Web!Reads

LEMMA EndsVisit ==
    ASSUME PeopleInv, NEW t \in Thread, Web!Ends(t),
           account' \in [Account -> Web!Row], session' \subseteq Account, failures' \in [Account -> Nat],
           NoneVanishes
    PROVE  PeopleInv'
<1>1. visit' \in [Thread -> Web!Visit] /\ (\A u \in Thread : visit'[u] = Web!NoVisit \/ visit'[u] = visit[u])
    BY DEF PeopleInv, AccountsTyped, Web!Ends, Web!Visit, Web!NoVisit
<1>2. \A u \in Account : account'[u].state = "absent" => account'[u] = account[u]
    BY DEF NoneVanishes
<1>3. AbsentIsNew'
    BY <1>1, <1>2, VisitKinds DEF PeopleInv, AccountsTyped, AbsentIsNew, Web!NoVisit
<1> QED
    BY <1>1, <1>3 DEF PeopleInv, AccountsTyped, LoginsFoundUnlocked, NobodyTogglesHimself, Web!NoVisit

LEMMA KeepsVisits ==
    ASSUME PeopleInv, UNCHANGED visit,
           account' \in [Account -> Web!Row], session' \subseteq Account, failures' \in [Account -> Nat],
           NoneVanishes
    PROVE  PeopleInv'
<1>1. \A u \in Account : account'[u].state = "absent" => account'[u] = account[u]
    BY DEF NoneVanishes
<1>2. AbsentIsNew'
    BY <1>1, VisitKinds DEF PeopleInv, AccountsTyped, AbsentIsNew
<1> QED
    BY <1>2 DEF PeopleInv, AccountsTyped, LoginsFoundUnlocked, NobodyTogglesHimself

LEMMA ServeKeeps ==
    ASSUME PeopleInv, NEW t \in Thread, Web!WebServe(t)
    PROVE  PeopleInv'
<1> USE AccountsAssumption, VisitKinds DEF PeopleInv, AccountsTyped
<1>1. ASSUME NEW u \in Account, Web!Evict(t, u) \/ Web!Logout(t, u) PROVE PeopleInv'
    BY <1>1, KeepsVisits DEF Web!Evict, Web!Logout, NoneVanishes
<1>2. ASSUME NEW u \in Account, Web!LoginRead(t, u) PROVE PeopleInv'
    <2> DEFINE v == [kind |-> "login", whom |-> u, row |-> account[u]]
    <2>1. /\ v \in Web!Visit /\ v.kind = "login" /\ v.row.lock # "running"
          /\ account[v.whom].state # "absent" /\ Web!Reads(t, v)
        BY <1>2 DEF Web!LoginRead, Web!Visit
    <2> HIDE DEF v
    <2> QED BY <2>1, StartsVisit
<1>3. CASE Web!LoginFails(t)
    <2>1. visit[t] \in Web!Visit /\ visit[t].whom \in Account /\ visit[t].row \in Web!Row
        BY <1>3 DEF Web!LoginFails
    <2>2. Web!Counted(visit[t].row) \in 0 .. MaxAttempts
        BY <2>1 DEF Web!Counted, Web!Row
    <2>3. account' \in [Account -> Web!Row]
        BY <1>3, <2>1, <2>2 DEF Web!LoginFails, Web!Row
    <2>4. failures' \in [Account -> Nat]
        BY <1>3, <2>1 DEF Web!LoginFails
    <2>5. account[visit[t].whom].state # "absent"
        BY <1>3 DEF Web!LoginFails, AbsentIsNew
    <2>6. NoneVanishes
        BY <1>3, <2>1, <2>5 DEF Web!LoginFails, Web!Row, NoneVanishes
    <2> QED BY <1>3, <2>3, <2>4, <2>6, EndsVisit DEF Web!LoginFails
<1>4. CASE Web!LoginSucceeds(t)
    <2>1. visit[t].whom \in Account /\ visit[t].row \in Web!Row
        BY <1>4 DEF Web!LoginSucceeds
    <2>2. Web!Cleared(t) \in Web!Row
        <3>1. account[visit[t].whom] \in Web!Row
            BY <2>1
        <3> QED BY <2>1, <3>1 DEF Web!Cleared, Web!Row
    <2>3. /\ account' \in [Account -> Web!Row]
          /\ session' \subseteq Account /\ failures' \in [Account -> Nat] /\ Web!Ends(t)
        BY <1>4, <2>1, <2>2 DEF Web!LoginSucceeds
    <2>4. account[visit[t].whom].state # "absent"
        BY <1>4 DEF Web!LoginSucceeds, AbsentIsNew
    <2>5. Web!Cleared(t).state # "absent"
        BY <2>1, <2>4 DEF Web!Cleared, Web!Row
    <2>6. NoneVanishes
        BY <1>4, <2>1, <2>5 DEF Web!LoginSucceeds, NoneVanishes
    <2> QED BY <2>3, <2>6, EndsVisit
<1>5. ASSUME NEW u \in Admin, NEW v \in Account, Web!ToggleRead(t, u, v) PROVE PeopleInv'
    <2> DEFINE r == [kind |-> "toggle", who |-> u, whom |-> v, was |-> account[v].state]
    <2>1. /\ r \in Web!Visit /\ r.kind = "toggle" /\ r.who # r.whom
          /\ account[r.whom].state # "absent" /\ Web!Reads(t, r)
        BY <1>5 DEF Web!ToggleRead, Web!Togglable, Web!Visit, Web!Row
    <2> HIDE DEF r
    <2> QED BY <2>1, StartsVisit
<1>6. ASSUME NEW u \in Admin, NEW v \in Account, Web!CreateRead(t, u, v) PROVE PeopleInv'
    <2> DEFINE r == [kind |-> "create", whom |-> v]
    <2>1. r \in Web!Visit /\ r.kind = "create" /\ Web!Reads(t, r)
        BY <1>6 DEF Web!CreateRead, Web!Visit
    <2> HIDE DEF r
    <2> QED BY <2>1, StartsVisit
<1>7. CASE Web!ToggleWrite(t)
    <2>1. visit[t].whom \in Account
        BY <1>7 DEF Web!ToggleWrite
    <2>2. account' \in [Account -> Web!Row] /\ NoneVanishes
        BY <1>7, <2>1 DEF Web!ToggleWrite, Web!Row, NoneVanishes
    <2> QED BY <1>7, <2>2, EndsVisit DEF Web!ToggleWrite
<1>8. CASE Web!CreateWrite(t)
    <2>1. Web!NewRow("active") \in Web!Row
        BY DEF Web!NewRow, Web!Row
    <2>2. account' \in [Account -> Web!Row] /\ NoneVanishes
        BY <1>8, <2>1 DEF Web!CreateWrite, Web!NewRow, NoneVanishes
    <2> QED BY <1>8, <2>2, EndsVisit DEF Web!CreateWrite
<1> QED
    BY <1>1, <1>2, <1>3, <1>4, <1>5, <1>6, <1>7, <1>8 DEF Web!WebServe

LEMMA RestOfApplicationKeeps ==
    ASSUME PeopleInv,
           Web!WebRestart \/ UNCHANGED webVars \/ (\E u \in Account : Web!LockoutEnds(u))
    PROVE  PeopleInv'
<1>1. CASE Web!WebRestart
    BY <1>1 DEF PeopleInv, AccountsTyped, LoginsFoundUnlocked, NobodyTogglesHimself, AbsentIsNew,
       Web!WebRestart, Web!Visit, Web!NoVisit
<1>2. CASE UNCHANGED webVars
    BY <1>2, KeepsVisits DEF webVars, PeopleInv, AccountsTyped, NoneVanishes
<1>3. ASSUME NEW u \in Account, Web!LockoutEnds(u) PROVE PeopleInv'
    <2>1. account[u].state # "absent"
        BY <1>3 DEF Web!LockoutEnds, PeopleInv, AbsentIsNew
    <2> QED
        BY <1>3, <2>1, KeepsVisits DEF Web!LockoutEnds, PeopleInv, AccountsTyped, NoneVanishes, Web!Row
<1> QED BY <1>1, <1>2, <1>3

\* A thread serves one request at a time.
OneRequest == \A t \in Thread : request[t] = NoRequest \/ visit[t] = Web!NoVisit

LEMMA OneRequestStep ==
    ASSUME Inv, PeopleInv, OneRequest, [AppNext]_appVars PROVE OneRequest'
<1>1. request \in [Thread -> Pending] /\ visit \in [Thread -> Web!Visit]
    BY DEF Inv, TypeOK, PeopleInv, AccountsTyped
<1>2. ASSUME NEW t \in Thread, visit[t] = Web!NoVisit, Serve(t), UNCHANGED webVars PROVE OneRequest'
    <2>1. \A u \in Thread \ {t} : request'[u] = request[u]
        BY <1>1, <1>2 DEF Serve, ApplyRead, ApplyExisting, ApplyInsert, RevokeRead, RevokeWrite
    <2> QED BY <1>2, <2>1 DEF OneRequest, webVars
<1>3. ASSUME NEW t \in Thread, request[t] = NoRequest, Web!WebServe(t), UNCHANGED vars PROVE OneRequest'
    <2>1. \A u \in Thread \ {t} : visit'[u] = visit[u]
        BY <1>1, <1>3 DEF Web!WebServe, Web!Evict, Web!Logout, Web!LoginRead, Web!LoginFails, Web!LoginSucceeds,
           Web!ToggleRead, Web!CreateRead, Web!ToggleWrite, Web!CreateWrite, Web!Reads, Web!Ends
    <2> QED BY <1>3, <2>1 DEF OneRequest, vars
<1>4. ASSUME NEW a \in Action, Lapse(a), UNCHANGED webVars PROVE OneRequest'
    BY <1>4 DEF Lapse, OneRequest, webVars
<1>5. ASSUME NEW u \in Account, Web!LockoutEnds(u), UNCHANGED vars PROVE OneRequest'
    BY <1>5 DEF Web!LockoutEnds, OneRequest, vars
<1>6. CASE Restart /\ Web!WebRestart
    BY <1>6 DEF Restart, OneRequest
<1>7. CASE UNCHANGED appVars
    BY <1>7 DEF appVars, vars, webVars, OneRequest
<1> QED BY <1>2, <1>3, <1>4, <1>5, <1>6, <1>7 DEF AppNext

LEMMA PeopleStep == PeopleInv /\ [AppNext]_appVars => PeopleInv'
<1>1. SUFFICES ASSUME PeopleInv, [AppNext]_appVars PROVE PeopleInv'
    OBVIOUS
<1>2. ASSUME NEW t \in Thread, Web!WebServe(t) PROVE PeopleInv'
    BY <1>1, <1>2, ServeKeeps
<1> QED BY <1>1, <1>2, RestOfApplicationKeeps DEF AppNext, appVars

LEMMA AppStepInv == AppInv /\ [AppNext]_appVars => AppInv'
<1>1. SUFFICES ASSUME AppInv, [AppNext]_appVars PROVE AppInv'
    OBVIOUS
<1>2. Inv /\ PeopleInv /\ OneRequest
    BY <1>1 DEF AppInv, AppTypeOK, PeopleInv, AccountsTyped, OneRequest
<1>3. Inv'
    BY <1>1, <1>2, ControlsStep, StepInv
<1>4. PeopleInv'
    BY <1>1, <1>2, PeopleStep
<1>5. OneRequest'
    BY <1>1, <1>2, OneRequestStep
<1> QED
    BY <1>3, <1>4, <1>5 DEF AppInv, AppTypeOK, Inv, PeopleInv, AccountsTyped, OneRequest

LEMMA AppInvHolds == AppSpec => []AppInv
BY AppInitInv, AppStepInv, PTL DEF AppSpec

\* Every variable keeps its type, and no thread serves two requests.
THEOREM ApplicationTypes == AppSpec => []AppTypeOK
BY AppInvHolds, PTL DEF AppInv

(***************************************************************************)
(* Lockouts and administrators                                             *)
(***************************************************************************)

LEMMA LockoutStep ==
    ASSUME AppInv, [AppNext]_appVars, NEW u \in Account,
           account[u].lock = "running", account'[u].lock = "none"
    PROVE  \E t \in Thread : /\ visit[t].kind = "login" /\ visit'[t] = Web!NoVisit
                             /\ visit[t].whom = u /\ visit[t].row.lock = "over"
<1>1. account \in [Account -> Web!Row] /\ visit \in [Thread -> Web!Visit]
    BY DEF AppInv, AppTypeOK
<1>2. PICK t \in Thread : Web!WebServe(t)
    <2>1. ~ \E v \in Account : Web!LockoutEnds(v)
        BY <1>1 DEF Web!LockoutEnds, Web!Row
    <2> QED
        BY <2>1 DEF AppNext, appVars, webVars, Web!WebRestart
<1>3. CASE Web!LoginSucceeds(t)
    <2> DEFINE v == visit[t].whom
    <2>1. v \in Account /\ visit[t].row \in Web!Row /\ visit[t].kind = "login"
        BY <1>1, <1>3, VisitKinds DEF Web!LoginSucceeds
    <2>2. account' = [account EXCEPT ![v] = Web!Cleared(t)] /\ visit'[t] = Web!NoVisit
        BY <1>1, <1>3 DEF Web!LoginSucceeds, Web!Ends
    <2>3. u = v
        BY <1>1, <2>1, <2>2
    <2>4. Web!Cleared(t).lock = "none"
        BY <1>1, <2>1, <2>2, <2>3
    <2>5. visit[t].row.lock # "none"
        BY <1>1, <2>1, <2>3, <2>4 DEF Web!Cleared, Web!Row
    <2>6. visit[t].row.lock = "over"
        BY <2>1, <2>5 DEF AppInv, LoginsFoundUnlocked, Web!Row
    <2> QED BY <2>1, <2>2, <2>3, <2>6
<1>4. CASE Web!LoginFails(t)
    <2> DEFINE v == visit[t].whom
               n == Web!Counted(visit[t].row)
    <2>1. v \in Account
        BY <1>1, <1>4, VisitKinds DEF Web!LoginFails
    <2>2. account' = [account EXCEPT ![v].attempts = n, ![v].lock = IF Web!Locks(n) THEN "running" ELSE @]
        BY <1>4 DEF Web!LoginFails
    <2>3. FALSE
        BY <1>1, <2>1, <2>2 DEF Web!Row
    <2> QED BY <2>3
<1>5. CASE Web!ToggleWrite(t)
    <2> DEFINE v == visit[t].whom
    <2>1. v \in Account
        BY <1>1, <1>5, VisitKinds DEF Web!ToggleWrite
    <2>2. FALSE
        BY <1>1, <1>5, <2>1 DEF Web!ToggleWrite, Web!Row
    <2> QED BY <2>2
<1>6. CASE Web!CreateWrite(t)
    <2> DEFINE v == visit[t].whom
    <2>1. v \in Account
        BY <1>1, <1>6, VisitKinds DEF Web!CreateWrite
    <2>2. \/ account' = account
          \/ account[v].state = "absent" /\ account' = [account EXCEPT ![v] = Web!NewRow("active")]
        BY <1>6 DEF Web!CreateWrite
    <2>3. account[u].state # "absent"
        BY DEF AppInv, AbsentIsNew
    <2>4. account'[u] = account[u]
        BY <1>1, <2>1, <2>2, <2>3
    <2> QED BY <2>4
<1>7. CASE UNCHANGED account
    BY <1>7
<1> QED
    BY <1>2, <1>3, <1>4, <1>5, <1>6, <1>7 DEF Web!WebServe, Web!Evict, Web!Logout, Web!LoginRead,
       Web!ToggleRead, Web!CreateRead, Web!Reads

\* A success that overlaps the failures which lock an account leaves the lockout
\* in force, unless it had read the account with an earlier lockout expired.
THEOREM LockoutsStand == AppSpec => LockoutStands
<1>1. AppInv /\ [AppNext]_appVars => [\A u \in Account :
        account[u].lock = "running" /\ account'[u].lock = "none" =>
            \E t \in Thread : /\ visit[t].kind = "login" /\ visit'[t] = Web!NoVisit
                              /\ visit[t].whom = u /\ visit[t].row.lock = "over"]_appVars
    BY LockoutStep
<1> QED
    BY <1>1, AppInvHolds, PTL DEF AppSpec, LockoutStands

LEMMA AdministratorsStep ==
    ASSUME AppInv, [AppNext]_appVars, Administrators # {}, Administrators' = {}
    PROVE  \E t \in Thread : /\ visit[t].kind = "toggle" /\ visit'[t] = Web!NoVisit
                             /\ visit[t].who \notin Administrators
<1>1. account \in [Account -> Web!Row] /\ visit \in [Thread -> Web!Visit]
    BY DEF AppInv, AppTypeOK
<1>2. PICK u \in Admin : account[u].state = "active" /\ account'[u].state # "active"
    BY DEF Administrators
<1>3. u \in Account
    BY AccountsAssumption
<1>4. PICK t \in Thread : Web!WebServe(t)
    <2>1. ~ \E v \in Account : Web!LockoutEnds(v)
        BY <1>1, <1>2, <1>3 DEF Web!LockoutEnds, Web!Row
    <2> QED
        BY <1>2, <2>1 DEF AppNext, appVars, webVars, Web!WebRestart
<1>5. CASE Web!ToggleWrite(t)
    <2> DEFINE v == visit[t].whom
    <2>1. v \in Account /\ visit[t].who \in Admin /\ visit[t].who # v /\ visit[t].kind = "toggle"
        BY <1>1, <1>5, VisitKinds DEF Web!ToggleWrite, AppInv, NobodyTogglesHimself
    <2>2. visit'[t] = Web!NoVisit /\ (\A w \in Account \ {v} : account'[w] = account[w])
        BY <1>1, <1>5, <2>1 DEF Web!ToggleWrite, Web!Ends
    <2>3. visit[t].who \notin Administrators
        BY <2>1, <2>2, AccountsAssumption DEF Administrators
    <2> QED BY <2>1, <2>2, <2>3
<1>6. CASE Web!LoginFails(t) \/ Web!LoginSucceeds(t)
    <2>1. visit[t].whom \in Account
        BY <1>1, <1>6, VisitKinds DEF Web!LoginFails, Web!LoginSucceeds
    <2>2. CASE Web!LoginFails(t)
        BY <1>1, <1>2, <1>3, <2>1, <2>2 DEF Web!LoginFails, Web!Row
    <2>3. CASE Web!LoginSucceeds(t)
        <3>1. Web!Cleared(t).state = account[visit[t].whom].state
            BY <1>1, <2>1 DEF Web!Cleared, Web!Row
        <3> QED
            BY <1>1, <1>2, <1>3, <2>1, <2>3, <3>1 DEF Web!LoginSucceeds
    <2> QED BY <1>6, <2>2, <2>3
<1>7. CASE Web!CreateWrite(t)
    <2>1. visit[t].whom \in Account
        BY <1>1, <1>7, VisitKinds DEF Web!CreateWrite
    <2>2. account'[u] = account[u]
        BY <1>1, <1>2, <1>3, <1>7, <2>1 DEF Web!CreateWrite
    <2> QED BY <1>2, <2>2
<1>8. CASE UNCHANGED account
    BY <1>2, <1>8
<1> QED
    BY <1>4, <1>5, <1>6, <1>7, <1>8 DEF Web!WebServe, Web!Evict, Web!Logout, Web!LoginRead,
       Web!ToggleRead, Web!CreateRead, Web!Reads

\* The last administrator is deactivated by none but a request that an
\* administrator had begun who meanwhile was deactivated too.
THEOREM AdministratorsLostByCrossing == AppSpec => AdministratorsCross
<1>1. AppInv /\ [AppNext]_appVars => [Administrators # {} /\ Administrators' = {} =>
        \E t \in Thread : /\ visit[t].kind = "toggle" /\ visit'[t] = Web!NoVisit
                          /\ visit[t].who \notin Administrators]_appVars
    BY AdministratorsStep
<1> QED
    BY <1>1, AppInvHolds, PTL DEF AppSpec, AdministratorsCross

(***************************************************************************)
(* How long failures can go on without a lockout.  Every request under way *)
(* counts from some number of failures: what it read, or what the row says *)
(* by now if that is less.  A wrong password that does not lock takes its  *)
(* request from the lowest numbers to a higher one, and may take others    *)
(* only from numbers above that: what is left to go through shrinks.       *)
(***************************************************************************)

Threads == Cardinality(Thread)

\* The numbers of failures from which an attempt may still not lock, and the last.
Levels == 0 .. MaxAttempts - 1

\* p[j]: how many requests count from j failures or fewer.
Profiles == {p \in [Levels -> 0 .. Threads] :
    p[MaxAttempts - 1] = Threads /\ \A i, j \in Levels : i <= j => p[i] <= p[j]}

Below(x, j) == {t \in Thread : x[t] <= j}
Profile(x) == [j \in Levels |-> IF j = MaxAttempts - 1 THEN Threads ELSE Cardinality(Below(x, j))]

\* The profiles that can still follow q before a lockout.
Follows(p, q) == \E k \in Levels : p[k] < q[k] /\ \A j \in Levels : j < k => p[j] <= q[j]
Left(q) == {p \in Profiles : Follows(p, q)}

\* The failures from which the requests for u count.
From(u) == [t \in Thread |->
    IF visit[t].kind = "login" /\ visit[t].whom = u /\ visit[t].row.attempts < account[u].attempts
    THEN visit[t].row.attempts ELSE account[u].attempts]

LEMMA LevelNumbers == MaxAttempts \in Nat \ {0} /\ MaxAttempts - 1 \in Levels /\ Levels \subseteq Nat
                      /\ (\A j \in Levels : j <= MaxAttempts - 1) /\ Threads \in Nat
BY AccountsAssumption, FS_CardinalityType DEF Levels, Threads

\* A profile, as the set of its steps, is a choice: there are no more profiles.
LEMMA ProfilesAreChoices ==
    /\ IsFiniteSet(Profiles) /\ IsFiniteSet(Choices)
    /\ Cardinality(Profiles) <= Cardinality(Choices)
<1> DEFINE Steps == 0 .. MaxAttempts - 2
           Things == 1 .. Threads + MaxAttempts - 1
           place(p) == [j \in Steps |-> p[j] + j + 1]
           image(p) == {place(p)[j] : j \in Steps}
           code == [p \in Profiles |-> image(p)]
<1>1. MaxAttempts \in Nat \ {0} /\ Threads \in Nat /\ Steps \subseteq Levels /\ Steps \subseteq Nat
    BY LevelNumbers DEF Levels
<1>2. ASSUME NEW p \in Profiles, NEW i \in Steps, NEW j \in Steps, i < j
      PROVE  place(p)[i] < place(p)[j]
    <2>1. p[i] \in Nat /\ p[j] \in Nat /\ p[i] <= p[j] /\ i \in Nat /\ j \in Nat
        BY <1>1, <1>2 DEF Profiles
    <2> QED BY <1>2, <2>1
<1>3. ASSUME NEW p \in Profiles PROVE place(p) \in [Steps -> Things]
    <2>1. ASSUME NEW j \in Steps PROVE p[j] + j + 1 \in Things
        <3>1. p[j] \in 0 .. Threads /\ j \in Nat /\ j <= MaxAttempts - 2
            BY <1>1, <2>1 DEF Profiles
        <3> QED BY <1>1, <3>1
    <2> QED BY <2>1
<1>4. ASSUME NEW p \in Profiles PROVE code[p] \in Choices
    <2> DEFINE f == place(p)
               S == image(p)
    <2>1. f \in [Steps -> Things] /\ (\A i, j \in Steps : i < j => f[i] < f[j])
        BY <1>2, <1>3
    <2>2. S = {f[j] : j \in Steps}
        OBVIOUS
    <2> HIDE DEF f, S
    <2>3. S \subseteq Things /\ f \in [Steps -> S]
        BY <2>1, <2>2
    <2>4. f \in Bijection(Steps, S)
        <3>1. \A i, j \in Steps : f[i] = f[j] => i = j
            BY <1>1, <2>1
        <3>2. \A y \in S : \E j \in Steps : f[j] = y
            BY <2>2
        <3> QED BY <2>3, <3>1, <3>2 DEF Bijection, Injection, Surjection, IsInjective
    <2>5. IsFiniteSet(Steps) /\ Cardinality(Steps) = MaxAttempts - 1
        BY <1>1, FS_Interval
    <2>6. Cardinality(S) = MaxAttempts - 1
        BY <2>4, <2>5, FS_Bijection DEF ExistsBijection
    <2>7. code[p] = S
        BY DEF S
    <2> QED BY <2>3, <2>6, <2>7 DEF Choices, Threads
<1>5. ASSUME NEW p \in Profiles, NEW q \in Profiles, p # q PROVE code[p] # code[q]
    <2> DEFINE D == {j \in Steps : p[j] # q[j]}
    <2>1. D # {}
        <3>1. \A j \in Levels : j \in Steps \/ j = MaxAttempts - 1
            BY <1>1 DEF Levels
        <3>2. p \in [Levels -> 0 .. Threads] /\ q \in [Levels -> 0 .. Threads]
            BY DEF Profiles
        <3>3. PICK j \in Levels : p[j] # q[j]
            BY <1>5, <3>2
        <3>4. j # MaxAttempts - 1
            BY <3>3 DEF Profiles
        <3> QED BY <3>1, <3>3, <3>4
    <2>2. PICK k \in D : \A j \in D : k <= j
        <3>1. D \subseteq Nat
            BY <1>1
        <3> HIDE DEF D
        <3> QED BY <2>1, <3>1, LeastExists
    <2>3. ASSUME NEW a \in Profiles, NEW b \in Profiles, a[k] < b[k], \A j \in Steps : j < k => a[j] = b[j]
          PROVE  place(a)[k] \in code[a] /\ place(a)[k] \notin code[b]
        <3>1. ASSUME NEW j \in Steps PROVE place(b)[j] # place(a)[k]
            <4>1. CASE j < k
                BY <1>2, <2>3, <3>1, <4>1, <1>3
            <4>2. CASE j = k
                <5>1. a[k] \in Nat /\ b[k] \in Nat /\ k \in Nat
                    BY <1>1 DEF Profiles
                <5> QED BY <2>3, <4>2, <5>1
            <4>3. CASE k < j
                <5>1. a[k] \in Nat /\ b[k] \in Nat /\ b[j] \in Nat /\ k \in Nat /\ j \in Nat /\ b[k] <= b[j]
                    BY <1>1, <3>1, <4>3 DEF Profiles
                <5> QED BY <2>3, <4>3, <5>1
            <4> QED BY <1>1, <4>1, <4>2, <4>3
        <3>2. place(a)[k] \notin image(b)
            BY <3>1
        <3> QED BY <3>2
    <2>4. \A j \in Steps : j < k => p[j] = q[j]
        BY <1>1, <2>2
    <2>5. p[k] < q[k] \/ q[k] < p[k]
        BY <1>1, <2>2 DEF Profiles
    <2> QED BY <2>3, <2>4, <2>5
<1>6. code \in Injection(Profiles, Choices)
    <2> HIDE DEF code
    <2>1. code \in [Profiles -> Choices]
        BY <1>4 DEF code
    <2> QED BY <1>5, <2>1 DEF Injection, IsInjective
<1>7. IsFiniteSet(Choices)
    <2>1. IsFiniteSet(SUBSET Things)
        <3>1. IsFiniteSet(Things)
            BY <1>1, FS_Interval
        <3> HIDE DEF Things
        <3> QED BY <3>1, FS_SUBSET
    <2>2. Choices \in SUBSET SUBSET Things
        BY DEF Choices, Threads
    <2> QED BY <2>1, <2>2, FS_Subset
<1> QED BY <1>6, <1>7, FS_Injection

LEMMA ProfileIsOne == ASSUME NEW x \in [Thread -> Nat] PROVE Profile(x) \in Profiles
<1>1. \A i, j \in Levels : i <= j => Below(x, i) \subseteq Below(x, j)
    BY LevelNumbers DEF Below
<1>2. ASSUME NEW j \in Levels
      PROVE  IsFiniteSet(Below(x, j)) /\ Cardinality(Below(x, j)) \in 0 .. Threads
    BY AccountsAssumption, FS_Subset, FS_CardinalityType, LevelNumbers DEF Below, Threads
<1>3. \A i, j \in Levels : i <= j => Cardinality(Below(x, i)) <= Cardinality(Below(x, j))
    BY <1>1, <1>2, FS_Subset
<1>4. Profile(x) \in [Levels -> 0 .. Threads] /\ Profile(x)[MaxAttempts - 1] = Threads
    BY <1>2, LevelNumbers DEF Profile
<1>5. \A i, j \in Levels : i <= j => Profile(x)[i] <= Profile(x)[j]
    BY <1>2, <1>3, LevelNumbers DEF Profile
<1> QED BY <1>4, <1>5 DEF Profiles

LEMMA LeftIsFinite == \A q : IsFiniteSet(Left(q)) /\ Cardinality(Left(q)) \in Nat
BY ProfilesAreChoices, FS_Subset, FS_CardinalityType DEF Left

\* When no request counts from fewer failures than before, no more is left.
LEMMA NoMoreLeft ==
    ASSUME NEW x \in [Thread -> Nat], NEW y \in [Thread -> Nat], \A t \in Thread : x[t] <= y[t]
    PROVE  Cardinality(Left(Profile(y))) <= Cardinality(Left(Profile(x)))
<1>1. Profile(x) \in Profiles /\ Profile(y) \in Profiles
    BY ProfileIsOne
<1>2. ASSUME NEW j \in Levels PROVE Profile(y)[j] <= Profile(x)[j]
    <2>1. Below(y, j) \in SUBSET Below(x, j) /\ Below(x, j) \in SUBSET Thread
        BY LevelNumbers DEF Below
    <2>2. IsFiniteSet(Below(x, j))
        BY <2>1, AccountsAssumption, FS_Subset
    <2>3. Cardinality(Below(y, j)) <= Cardinality(Below(x, j))
        BY <2>1, <2>2, FS_Subset
    <2> QED BY <2>3, LevelNumbers DEF Profile
<1>3. \A j \in Levels : \A p \in Profiles : p[j] \in Nat
    BY LevelNumbers DEF Profiles
<1>4. Left(Profile(y)) \in SUBSET Left(Profile(x))
    BY <1>1, <1>2, <1>3 DEF Left, Follows
<1> QED BY <1>4, LeftIsFinite, FS_Subset

\* When a request that counted from k failures counts from more, and none comes
\* down to k or below, less is left.
LEMMA LessLeft ==
    ASSUME NEW x \in [Thread -> Nat], NEW y \in [Thread -> Nat], NEW k \in Levels, k # MaxAttempts - 1,
           NEW t \in Thread, x[t] = k, k < y[t],
           \A s \in Thread : y[s] <= k => x[s] <= y[s]
    PROVE  Cardinality(Left(Profile(y))) < Cardinality(Left(Profile(x)))
<1>1. Profile(x) \in Profiles /\ Profile(y) \in Profiles
    BY ProfileIsOne
<1>2. \A j \in Levels : \A p \in Profiles : p[j] \in Nat
    BY LevelNumbers DEF Profiles
<1>3. \A j \in Levels : Below(x, j) \in SUBSET Thread /\ IsFiniteSet(Below(x, j))
    BY AccountsAssumption, FS_Subset DEF Below
<1>4. ASSUME NEW j \in Levels, j < k PROVE Profile(y)[j] <= Profile(x)[j]
    <2>1. Below(y, j) \in SUBSET Below(x, j)
        BY <1>4, LevelNumbers DEF Below
    <2>2. Cardinality(Below(y, j)) <= Cardinality(Below(x, j))
        BY <1>3, <2>1, FS_Subset
    <2> QED BY <2>2, LevelNumbers DEF Profile
<1>5. Profile(y)[k] < Profile(x)[k]
    <2>1. Below(y, k) \subseteq Below(x, k)
        BY LevelNumbers DEF Below
    <2>2. t \in Below(x, k) /\ t \notin Below(y, k)
        BY LevelNumbers DEF Below
    <2>3. Cardinality(Below(y, k)) < Cardinality(Below(x, k))
        BY <1>3, <2>1, <2>2, FewerInPart
    <2> QED BY <2>3 DEF Profile
<1>6. ASSUME NEW p \in Left(Profile(y)) PROVE p \in Left(Profile(x))
    <2>1. PICK i \in Levels : p[i] < Profile(y)[i] /\ \A j \in Levels : j < i => p[j] <= Profile(y)[j]
        BY DEF Left, Follows
    <2>2. p \in Profiles
        BY DEF Left
    <2>3. CASE i < k
        <3>1. p[i] < Profile(x)[i] /\ \A j \in Levels : j < i => p[j] <= Profile(x)[j]
            BY <1>1, <1>2, <1>4, <2>1, <2>2, <2>3, LevelNumbers
        <3> QED BY <2>2, <3>1 DEF Left, Follows
    <2>4. CASE k <= i
        <3>1. p[k] < Profile(x)[k]
            BY <1>1, <1>2, <1>5, <2>1, <2>2, <2>4, LevelNumbers
        <3>2. \A j \in Levels : j < k => p[j] <= Profile(x)[j]
            BY <1>1, <1>2, <1>4, <2>1, <2>2, <2>4, LevelNumbers
        <3> QED BY <2>2, <3>1, <3>2 DEF Left, Follows
    <2> QED BY <2>3, <2>4, LevelNumbers
<1>7. Profile(y) \in Left(Profile(x)) /\ Profile(y) \notin Left(Profile(y))
    BY <1>1, <1>2, <1>4, <1>5 DEF Left, Follows
<1>8. Left(Profile(y)) \subseteq Left(Profile(x))
    BY <1>6
<1> QED BY <1>7, <1>8, LeftIsFinite, FewerInPart

\* After a success or a lockout there is something left to go through.
LEMMA SomethingGone ==
    ASSUME NEW x \in [Thread -> Nat]
    PROVE  Cardinality(Left(Profile(x))) < Cardinality(Profiles)
<1>1. Profile(x) \in Profiles /\ (\A j \in Levels : Profile(x)[j] \in Nat)
    BY ProfileIsOne, LevelNumbers DEF Profiles
<1>2. Profile(x) \notin Left(Profile(x))
    BY <1>1 DEF Left, Follows
<1> QED BY <1>1, <1>2, ProfilesAreChoices, FewerInPart DEF Left

\* What is left, for every account, and that who does not exist has not failed.
FailuresLeft ==
    /\ \A u \in Account : failures[u] + Cardinality(Left(Profile(From(u)))) < Cardinality(Profiles)
    /\ \A u \in Account : account[u].state = "absent" => failures[u] = 0

LEMMA FromNumbers == PeopleInv => \A u \in Account : From(u) \in [Thread -> Nat]
BY VisitKinds, AccountsAssumption DEF PeopleInv, AccountsTyped, From, Web!Row

LEMMA FromNumbersNext == PeopleInv' => \A u \in Account : From(u)' \in [Thread -> Nat]
BY VisitKinds, AccountsAssumption DEF PeopleInv, AccountsTyped, From, Web!Row

\* A step that counts no failure of u and takes no request for u further down.
LEMMA AccountWaits ==
    ASSUME PeopleInv, PeopleInv', FailuresLeft, NEW u \in Account,
           failures'[u] = 0 \/ (failures'[u] = failures[u] /\ \A t \in Thread : From(u)[t] <= From(u)'[t])
    PROVE  failures'[u] + Cardinality(Left(Profile(From(u)'))) < Cardinality(Profiles)
<1> DEFINE x == From(u)
           y == From(u)'
<1>1. x \in [Thread -> Nat] /\ y \in [Thread -> Nat]
    BY FromNumbers, FromNumbersNext
<1>2. failures[u] + Cardinality(Left(Profile(x))) < Cardinality(Profiles) /\ failures[u] \in Nat
    BY DEF FailuresLeft, PeopleInv, AccountsTyped
<1> HIDE DEF x, y
<1>3. Cardinality(Left(Profile(x))) \in Nat /\ Cardinality(Left(Profile(y))) \in Nat /\ Cardinality(Profiles) \in Nat
    BY LeftIsFinite, ProfilesAreChoices, FS_CardinalityType
<1>4. CASE failures'[u] = 0
    BY <1>1, <1>3, <1>4, SomethingGone DEF y
<1>5. CASE failures'[u] = failures[u] /\ \A t \in Thread : x[t] <= y[t]
    BY <1>1, <1>2, <1>3, <1>5, NoMoreLeft DEF y
<1> QED BY <1>4, <1>5 DEF x, y

\* Where the number of failures in the row stays, so does where the requests
\* count from; one that ends, or that just began, counts from the row.
LEMMA SameRow ==
    ASSUME PeopleInv, PeopleInv', NEW u \in Account, account'[u].attempts = account[u].attempts,
           \A t \in Thread : \/ visit'[t] = visit[t]
                             \/ visit'[t].kind # "login"
                             \/ visit'[t].whom = u => visit'[t].row.attempts = account[u].attempts
    PROVE  \A t \in Thread : From(u)[t] <= From(u)'[t]
<1> SUFFICES ASSUME NEW t \in Thread PROVE From(u)[t] <= From(u)'[t]
    OBVIOUS
<1>1. account[u].attempts \in Nat /\ From(u)[t] \in Nat /\ From(u)[t] <= account[u].attempts
    BY VisitKinds, AccountsAssumption DEF PeopleInv, AccountsTyped, From, Web!Row
<1>2. CASE visit'[t] = visit[t]
    BY <1>1, <1>2 DEF From
<1>3. CASE visit'[t].kind # "login"
    BY <1>1, <1>3 DEF From
<1>4. CASE visit'[t].whom = u => visit'[t].row.attempts = account[u].attempts
    BY <1>1, <1>4 DEF From
<1> QED BY <1>2, <1>3, <1>4

\* The wrong password that does not lock.
LEMMA FailureCounts ==
    ASSUME PeopleInv, PeopleInv', FailuresLeft, NEW t \in Thread, Web!LoginFails(t), NEW u \in Account,
           visit[t].whom = u, ~ Web!Locks(Web!Counted(visit[t].row))
    PROVE  failures'[u] + Cardinality(Left(Profile(From(u)'))) < Cardinality(Profiles)
<1> DEFINE x == From(u)
           y == From(u)'
           r == visit[t].row.attempts
           k == x[t]
<1>1. x \in [Thread -> Nat] /\ y \in [Thread -> Nat]
    BY FromNumbers, FromNumbersNext
<1>2. visit[t].kind = "login" /\ visit[t].row \in Web!Row /\ r \in Nat /\ account[u].attempts \in Nat
    BY VisitKinds, AccountsAssumption DEF Web!LoginFails, PeopleInv, AccountsTyped, Web!Row
<1>3. r + 1 < MaxAttempts /\ Web!Counted(visit[t].row) = r + 1
    BY <1>2, AccountsAssumption DEF Web!Locks, Web!Counted
<1>4. /\ account'[u].attempts = r + 1 /\ failures'[u] = failures[u] + 1
      /\ visit'[t] = Web!NoVisit /\ (\A s \in Thread \ {t} : visit'[s] = visit[s])
    BY <1>3 DEF Web!LoginFails, Web!Ends, PeopleInv, AccountsTyped, Web!Row
<1>5. k \in Nat /\ k <= r
    BY <1>2 DEF From
<1>6. y[t] = r + 1
    BY <1>4 DEF From, Web!NoVisit
<1>7. ASSUME NEW s \in Thread, y[s] <= k PROVE x[s] <= y[s]
    <2>1. s # t /\ visit'[s] = visit[s]
        BY <1>2, <1>4, <1>5, <1>6, <1>7
    <2>2. visit[s].kind = "login" /\ visit[s].whom = u /\ y[s] = visit[s].row.attempts
        BY <1>2, <1>4, <1>5, <1>7, <2>1 DEF From
    <2>3. visit[s].row.attempts \in Nat
        BY <2>2, VisitKinds, AccountsAssumption DEF PeopleInv, AccountsTyped, Web!Row
    <2> QED BY <1>2, <2>2, <2>3 DEF From
<1>8. k \in Levels /\ k # MaxAttempts - 1 /\ k < y[t]
    BY <1>2, <1>3, <1>5, <1>6, LevelNumbers DEF Levels
<1>9. failures[u] + Cardinality(Left(Profile(x))) < Cardinality(Profiles) /\ failures[u] \in Nat
    BY DEF FailuresLeft, PeopleInv, AccountsTyped
<1> HIDE DEF x, y
<1>10. Cardinality(Left(Profile(y))) < Cardinality(Left(Profile(x)))
    BY <1>1, <1>7, <1>8, LessLeft
<1>11. Cardinality(Left(Profile(x))) \in Nat /\ Cardinality(Left(Profile(y))) \in Nat /\ Cardinality(Profiles) \in Nat
    BY LeftIsFinite, ProfilesAreChoices, FS_CardinalityType
<1>12. failures'[u] + Cardinality(Left(Profile(y))) < Cardinality(Profiles)
    BY <1>4, <1>9, <1>10, <1>11
<1> QED BY <1>12 DEF y

\* Every other step of a request.
LEMMA FailuresElsewhere ==
    ASSUME PeopleInv, PeopleInv', FailuresLeft, NEW t \in Thread, Web!WebServe(t), NEW u \in Account,
           ~ (Web!LoginFails(t) /\ visit[t].whom = u /\ ~ Web!Locks(Web!Counted(visit[t].row)))
    PROVE  failures'[u] + Cardinality(Left(Profile(From(u)'))) < Cardinality(Profiles)
<1> USE DEF PeopleInv, AccountsTyped
<1>1. \A s \in Thread \ {t} : visit'[s] = visit[s]
    BY DEF Web!WebServe, Web!Evict, Web!Logout, Web!LoginRead, Web!LoginFails, Web!LoginSucceeds,
       Web!ToggleRead, Web!CreateRead, Web!ToggleWrite, Web!CreateWrite, Web!Reads, Web!Ends
<1>2. ASSUME failures'[u] = failures[u], account'[u].attempts = account[u].attempts,
             visit'[t] = visit[t] \/ visit'[t].kind # "login"
                \/ (visit'[t].whom = u => visit'[t].row.attempts = account[u].attempts)
      PROVE  failures'[u] + Cardinality(Left(Profile(From(u)'))) < Cardinality(Profiles)
    BY <1>1, <1>2, SameRow, AccountWaits
<1>3. ASSUME failures'[u] = 0 PROVE failures'[u] + Cardinality(Left(Profile(From(u)'))) < Cardinality(Profiles)
    BY <1>3, AccountWaits
<1>4. ASSUME NEW v \in Account, Web!Evict(t, v) \/ Web!Logout(t, v)
      PROVE  failures'[u] = failures[u] /\ account'[u].attempts = account[u].attempts /\ visit'[t] = visit[t]
    BY <1>4 DEF Web!Evict, Web!Logout
<1>5. ASSUME NEW v \in Account, Web!LoginRead(t, v)
      PROVE  /\ failures'[u] = failures[u] /\ account'[u].attempts = account[u].attempts
             /\ visit'[t].whom = u => visit'[t].row.attempts = account[u].attempts
    BY <1>5 DEF Web!LoginRead, Web!Reads
<1>6. ASSUME NEW v \in Admin, NEW w \in Account, Web!ToggleRead(t, v, w) \/ Web!CreateRead(t, v, w)
      PROVE  /\ failures'[u] = failures[u] /\ account'[u].attempts = account[u].attempts
             /\ visit'[t].kind # "login"
    BY <1>6 DEF Web!ToggleRead, Web!CreateRead, Web!Reads
<1>7. CASE Web!LoginFails(t)
    <2>1. visit[t].whom \in Account /\ visit'[t] = Web!NoVisit
        BY <1>7, VisitKinds DEF Web!LoginFails, Web!Ends
    <2>2. CASE visit[t].whom = u
        BY <1>3, <1>7, <2>1, <2>2 DEF Web!LoginFails
    <2>3. CASE visit[t].whom # u
        BY <1>2, <1>7, <2>1, <2>3 DEF Web!LoginFails, Web!NoVisit
    <2> QED BY <2>2, <2>3
<1>8. CASE Web!LoginSucceeds(t)
    <2>1. visit[t].whom \in Account /\ visit'[t] = Web!NoVisit
        BY <1>8, VisitKinds DEF Web!LoginSucceeds, Web!Ends
    <2>2. CASE visit[t].whom = u
        BY <1>3, <1>8, <2>1, <2>2 DEF Web!LoginSucceeds
    <2>3. CASE visit[t].whom # u
        BY <1>2, <1>8, <2>1, <2>3 DEF Web!LoginSucceeds, Web!NoVisit
    <2> QED BY <2>2, <2>3
<1>9. CASE Web!ToggleWrite(t)
    <2>1. visit[t].whom \in Account /\ visit'[t] = Web!NoVisit
        BY <1>9, VisitKinds DEF Web!ToggleWrite, Web!Ends
    <2>2. account'[u].attempts = account[u].attempts /\ failures'[u] = failures[u]
        BY <1>9, <2>1 DEF Web!ToggleWrite, Web!Row
    <2> QED BY <1>2, <2>1, <2>2 DEF Web!NoVisit
<1>10. CASE Web!CreateWrite(t)
    <2>1. visit[t].whom \in Account /\ visit'[t] = Web!NoVisit /\ failures' = failures
        BY <1>10, VisitKinds DEF Web!CreateWrite, Web!Ends
    <2>2. account'[u] = account[u] \/ account[u].state = "absent"
        BY <1>10, <2>1 DEF Web!CreateWrite
    <2>3. account[u].state = "absent" => failures'[u] = 0
        BY <2>1 DEF FailuresLeft
    <2> QED BY <1>2, <1>3, <2>1, <2>2, <2>3 DEF Web!NoVisit
<1> QED
    BY <1>2, <1>3, <1>4, <1>5, <1>6, <1>7, <1>8, <1>9, <1>10 DEF Web!WebServe

\* Who fails exists, and whoever exists goes on doing so.
LEMMA AbsentStaysNew ==
    ASSUME PeopleInv, PeopleInv', FailuresLeft, [AppNext]_appVars, NEW u \in Account, account'[u].state = "absent"
    PROVE  failures'[u] = 0
<1> USE DEF PeopleInv, AccountsTyped
<1>1. account[u].state = "absent" => failures[u] = 0
    BY DEF FailuresLeft
<1>2. ASSUME NEW t \in Thread, Web!WebServe(t) PROVE failures'[u] = 0
    <2>1. CASE Web!LoginFails(t) \/ Web!LoginSucceeds(t)
        <3>1. visit[t].whom \in Account /\ account[visit[t].whom].state # "absent" /\ visit[t].row \in Web!Row
            BY <2>1, VisitKinds DEF Web!LoginFails, Web!LoginSucceeds, AbsentIsNew
        <3>2. account'[u].state = account[u].state /\ (u # visit[t].whom => failures'[u] = failures[u])
            BY <2>1, <3>1 DEF Web!LoginFails, Web!LoginSucceeds, Web!Cleared, Web!Row
        <3> QED BY <1>1, <3>1, <3>2
    <2>2. CASE Web!ToggleWrite(t) \/ Web!CreateWrite(t)
        <3>1. visit[t].whom \in Account /\ failures' = failures
            BY <2>2, VisitKinds DEF Web!ToggleWrite, Web!CreateWrite
        <3>2. account'[u].state = "absent" => account[u].state = "absent"
            BY <2>2, <3>1 DEF Web!ToggleWrite, Web!CreateWrite, Web!NewRow, Web!Row
        <3> QED BY <1>1, <3>1, <3>2
    <2>3. CASE UNCHANGED <<account, failures>>
        BY <1>1, <2>3
    <2> QED BY <1>2, <2>1, <2>2, <2>3 DEF Web!WebServe, Web!Evict, Web!Logout, Web!LoginRead,
            Web!ToggleRead, Web!CreateRead, Web!Reads
<1>3. ASSUME NEW v \in Account, Web!LockoutEnds(v) PROVE failures'[u] = 0
    BY <1>1, <1>3 DEF Web!LockoutEnds, Web!Row
<1>4. CASE UNCHANGED <<account, failures>>
    BY <1>1, <1>4
<1> QED BY <1>2, <1>3, <1>4 DEF AppNext, appVars, webVars, Web!WebRestart

LEMMA FailuresStep == PeopleInv /\ FailuresLeft /\ [AppNext]_appVars => FailuresLeft'
<1>1. SUFFICES ASSUME PeopleInv, FailuresLeft, [AppNext]_appVars PROVE FailuresLeft'
    OBVIOUS
<1>2. PeopleInv'
    BY <1>1, PeopleStep
<1>3. ASSUME NEW u \in Account
      PROVE  failures'[u] + Cardinality(Left(Profile(From(u)'))) < Cardinality(Profiles)
    <2>1. ASSUME NEW t \in Thread, Web!WebServe(t)
          PROVE  failures'[u] + Cardinality(Left(Profile(From(u)'))) < Cardinality(Profiles)
        BY <1>1, <1>2, <2>1, FailureCounts, FailuresElsewhere
    <2>2. CASE Web!WebRestart \/ UNCHANGED webVars \/ \E v \in Account : Web!LockoutEnds(v)
        <3>1. failures'[u] = failures[u] /\ account'[u].attempts = account[u].attempts
            BY <1>1, <2>2 DEF Web!WebRestart, Web!LockoutEnds, webVars, PeopleInv, AccountsTyped, Web!Row
        <3>2. \A t \in Thread : visit'[t] = visit[t] \/ visit'[t].kind # "login"
            BY <2>2 DEF Web!WebRestart, Web!LockoutEnds, webVars, Web!NoVisit
        <3> QED BY <1>1, <1>2, <3>1, <3>2, SameRow, AccountWaits
    <2> QED BY <1>1, <2>1, <2>2 DEF AppNext, appVars
<1> QED BY <1>1, <1>2, <1>3, AbsentStaysNew DEF FailuresLeft

LEMMA FailuresInit == AppInit => FailuresLeft
<1>1. SUFFICES ASSUME AppInit PROVE FailuresLeft
    OBVIOUS
<1>2. PeopleInv /\ \A u \in Account : failures[u] = 0
    BY <1>1, AppInitInv DEF AppInv, AppTypeOK, PeopleInv, AccountsTyped, AppInit, Web!WebInit
<1>3. ASSUME NEW u \in Account PROVE Cardinality(Left(Profile(From(u)))) < Cardinality(Profiles)
    BY <1>2, FromNumbers, SomethingGone
<1> QED BY <1>2, <1>3, LeftIsFinite DEF FailuresLeft

LEMMA FailuresBounded == PeopleInv /\ FailuresLeft => LockoutComes
<1>1. Cardinality(Profiles) <= Cardinality(Choices) /\ Cardinality(Profiles) \in Nat /\ Cardinality(Choices) \in Nat
    BY ProfilesAreChoices, FS_CardinalityType
<1> QED BY <1>1, LeftIsFinite DEF PeopleInv, AccountsTyped, FailuresLeft, LockoutComes

\* With T requests at a time it takes no more than T + MaxAttempts - 1 over T
\* wrong passwords to lock an account, in whatever order they overlap.
THEOREM LockoutsCome == AppSpec => []LockoutComes
<1>1. AppInv => PeopleInv
    BY DEF AppInv, AppTypeOK, PeopleInv, AccountsTyped
<1> QED
    BY <1>1, AppInvHolds, FailuresInit, FailuresStep, FailuresBounded, PTL DEF AppSpec
=============================================================================
