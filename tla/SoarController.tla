--------------------------- MODULE SoarController ---------------------------
(***************************************************************************)
(* The SOAR controller: FastAPI handlers run concurrently in a thread      *)
(* pool, each with a database session of its own at READ COMMITTED.  A     *)
(* handler locks rows with SELECT ... FOR UPDATE, calls the business       *)
(* application over HTTP while it holds them, and writes what it decided   *)
(* when it commits.  A session is modelled by what SQLAlchemy keeps for it:*)
(* the identity map (rows keep the values they were first loaded with),    *)
(* the pending changes, and the row locks.                                 *)
(***************************************************************************)
EXTENDS IncidentStatus, Naturals, FiniteSets

CONSTANTS
    Incident,      \* deduplicated alerts
    Action,        \* response actions of the playbooks
    IncidentOf,    \* the incident an action belongs to
    Automatic,     \* the collect_evidence actions; the others are reversible containment
    Worker,        \* concurrent requests the thread pool serves
    MaxAttempts,   \* attempt_count at which a retry is refused (5 in the code)
    MaxRestarts,   \* bound on controller restarts
    MaxInFlight    \* bound on requests in flight that nobody waits for

ASSUME ControllerAssumption ==
    /\ IncidentOf \in [Action -> Incident]
    /\ Automatic \subseteq Action
    /\ Incident \intersect Action = {}
    /\ IsFiniteSet(Worker)
    /\ MaxAttempts \in Nat \ {0}
    /\ MaxRestarts \in Nat
    /\ MaxInFlight \in Nat

VARIABLES
    incident,      \* rows of soar_incidents
    action,        \* rows of soar_response_actions
    sess,          \* the open session of each worker
    control, lapse, clock,   \* the business application, see ControlStore
    inFlight,      \* requests the controller gave up on that may still arrive
    mode,          \* SOAR_RESPONSE_MODE, read when the process starts
    restarts

Store == INSTANCE ControlStore

store == <<control, lapse, clock>>
vars == <<incident, action, sess, store, inFlight, mode, restarts>>

ActionsOf(i) == {a \in Action : IncidentOf[a] = i}
Containment == Action \ Automatic
Request == [kind : {"apply", "revoke"}, act : Action]
Mode == {"live", "dry-run"}

IncidentRow == [status : IncidentStatus \union {"absent"}, decision : Decision \union {"none"}]
ActionRow == [status : ActionStatus \union {"absent"}, attempts : 0 .. MaxAttempts]
UnreadIncident == [status |-> "unread", decision |-> "none"]
UnreadAction == [status |-> "unread", attempts |-> 0]

Session == [
    op     : {"none", "dispatch", "retry", "rollback", "expire"},
    pc     : {"idle", "lock", "call", "close", "commit"},
    locks  : SUBSET (Incident \union Action),
    seen   : [Incident -> IncidentRow \union {UnreadIncident}],
    cache  : [Action -> ActionRow \union {UnreadAction}],
    todo   : SUBSET Action,
    dirty  : SUBSET Action,
    write  : [Incident -> IncidentStatus \union {"unset"}]]

Idle == [op |-> "none", pc |-> "idle", locks |-> {},
         seen |-> [i \in Incident |-> UnreadIncident],
         cache |-> [a \in Action |-> UnreadAction],
         todo |-> {}, dirty |-> {},
         write |-> [i \in Incident |-> "unset"]]

Init ==
    /\ incident = [i \in Incident |-> [status |-> "absent", decision |-> "none"]]
    /\ action = [a \in Action |-> [status |-> "absent", attempts |-> 0]]
    /\ sess = [w \in Worker |-> Idle]
    /\ Store!StoreInit
    /\ inFlight = {}
    /\ mode \in Mode
    /\ restarts = 0

-----------------------------------------------------------------------------
(* Sessions *)

\* Mutation of Free: the queries lose their with_for_update.
FreeAlways(w, r) == TRUE

\* No other session holds row r: a FOR UPDATE or an UPDATE of it does not wait.
Free(w, r) == \A v \in Worker \ {w} : r \notin sess[v].locks

\* The session after it loaded the actions of i: a row it already holds keeps
\* the value it has there (no query asks for populate_existing).
Loaded(s, i) == [a \in Action |->
    IF IncidentOf[a] = i /\ s.cache[a] = UnreadAction THEN action[a] ELSE s.cache[a]]

Statuses(rows, i) == {rows[a].status : a \in ActionsOf(i)}

\* Only a changed attribute is part of the UPDATE.
StatusWrite(s, i, new) == IF new = s.seen[i].status THEN s.write[i] ELSE new

Begin(w, s) == sess[w].pc = "idle" /\ sess' = [sess EXCEPT ![w] = s]

-----------------------------------------------------------------------------
(* create_incident and decide: one transaction each, without a remote call *)

\* A known deduplication key changes nothing; a new one gets its actions.
CreateIncident(i) ==
    /\ incident[i].status = "absent"
    /\ \E born \in [ActionsOf(i) -> InitialAutomatic \union InitialContainment] :
          /\ \A a \in ActionsOf(i) : born[a] \in IF a \in Automatic THEN InitialAutomatic ELSE InitialContainment
          /\ action' = [a \in Action |-> IF IncidentOf[a] = i THEN [action[a] EXCEPT !.status = born[a]] ELSE action[a]]
          /\ incident' = [incident EXCEPT ![i].status = StatusFor("none", {born[a] : a \in ActionsOf(i)})]
    /\ UNCHANGED <<sess, store, inFlight, mode, restarts>>

Decide(i, d) ==
    /\ \A w \in Worker : i \notin sess[w].locks
    /\ incident[i].decision = "none"
    /\ \E a \in ActionsOf(i) : action[a].status = "pending_approval"
    /\ incident' = [incident EXCEPT ![i] =
          [decision |-> d, status |-> IF d = "approve" THEN "approved" ELSE "rejected"]]
    /\ action' = [a \in Action |->
          IF IncidentOf[a] = i /\ action[a].status = "pending_approval"
          THEN [action[a] EXCEPT !.status = IF d = "approve" THEN "approved" ELSE "skipped"]
          ELSE action[a]]
    /\ UNCHANGED <<sess, store, inFlight, mode, restarts>>

-----------------------------------------------------------------------------
(* dispatch and retry_action: execute actions, then recompute the incident *)

\* Mutation of Candidates: the scope is compared, the status is not.
CandidatesOfScope(i, scope) == {a \in ActionsOf(i) : (a \in Automatic) = (scope = "automatic")}

Candidates(i, scope) == {a \in ActionsOf(i) :
    \/ scope = "automatic" /\ a \in Automatic /\ action[a].status = "pending"
    \/ scope = "approved" /\ a \notin Automatic /\ action[a].status = "approved"}

\* Locks the incident row and loads all its actions under that lock.
DispatchBegin(w, i, scope) ==
    /\ incident[i].status # "absent"
    /\ Free(w, i)
    /\ ~(scope = "approved" /\ incident[i].decision = "reject")
    /\ Begin(w, [Idle EXCEPT !.op = "dispatch", !.pc = "call", !.locks = {i},
                             !.seen[i] = incident[i], !.cache = Loaded(Idle, i),
                             !.todo = Candidates(i, scope)])
    /\ UNCHANGED <<incident, action, store, inFlight, mode, restarts>>

\* Mutations of Retriable: an off-by-one in the limit; no look at the status.
RetriableOnceMore(a) ==
    /\ action[a].status = "failed"
    /\ action[a].attempts <= MaxAttempts
    /\ a \in Automatic \/ incident[IncidentOf[a]].decision = "approve"
RetriableAnyStatus(a) ==
    /\ action[a].status # "absent"
    /\ action[a].attempts < MaxAttempts
    /\ a \in Automatic \/ incident[IncidentOf[a]].decision = "approve"

Retriable(a) ==
    /\ action[a].status = "failed"
    /\ action[a].attempts < MaxAttempts
    /\ a \in Automatic \/ incident[IncidentOf[a]].decision = "approve"

\* Locks the action row only; the incident is read without a lock.
RetryBegin(w, a) ==
    LET i == IncidentOf[a] IN
    /\ Free(w, a)
    /\ Retriable(a)
    /\ Begin(w, [Idle EXCEPT !.op = "retry", !.pc = "call", !.locks = {a},
                             !.seen[i] = incident[i], !.cache[a] = action[a], !.todo = {a}])
    /\ UNCHANGED <<incident, action, store, inFlight, mode, restarts>>

Executes(w, a) ==
    /\ sess[w].pc = "call" /\ sess[w].op \in {"dispatch", "retry"}
    /\ a \in sess[w].todo

\* _execute_action records outcome st; every attempt counts.
Record(w, a, st) ==
    sess' = [sess EXCEPT ![w].cache[a] = [status |-> st, attempts |-> @.attempts + 1],
                         ![w].todo = @ \ {a}, ![w].dirty = @ \union {a}]

\* The evidence file is written or the file system refuses it.
CollectEvidence(w, a) ==
    /\ Executes(w, a)
    /\ a \in Automatic
    /\ \E st \in {"completed", "failed"} : Record(w, a, st)
    /\ UNCHANGED <<incident, action, store, inFlight, mode, restarts>>

\* Mutation of Simulate: dry-run reports what it would apply as applied.
SimulateAsApplied(w, a) ==
    /\ Executes(w, a)
    /\ a \notin Automatic
    /\ mode = "dry-run"
    /\ Record(w, a, "applied")
    /\ UNCHANGED <<incident, action, store, inFlight, mode, restarts>>

Simulate(w, a) ==
    /\ Executes(w, a)
    /\ a \notin Automatic
    /\ mode = "dry-run"
    /\ Record(w, a, "simulated")
    /\ UNCHANGED <<incident, action, store, inFlight, mode, restarts>>

ApplyAnswered(w, a) ==
    /\ Executes(w, a)
    /\ a \notin Automatic
    /\ mode = "live"
    /\ Store!Apply(a)
    /\ Record(w, a, "applied")
    /\ UNCHANGED <<incident, action, inFlight, mode, restarts>>

\* The application refuses or cannot be reached; or the call times out and the
\* request may still be served.
Unanswered(r) ==
    \/ UNCHANGED inFlight
    \/ Cardinality(inFlight) < MaxInFlight /\ inFlight' = inFlight \union {r}

ApplyFailed(w, a) ==
    /\ Executes(w, a)
    /\ a \notin Automatic
    /\ mode = "live"
    /\ Unanswered([kind |-> "apply", act |-> a])
    /\ Record(w, a, "failed")
    /\ UNCHANGED <<incident, action, store, mode, restarts>>

\* incident.actions, loaded now if it was not, decides the incident's status.
Recompute(w, i) ==
    LET s == sess[w]
        rows == Loaded(s, i)
        new == StatusFor(s.seen[i].decision, Statuses(rows, i))
    IN
    /\ s.pc = "call" /\ s.op \in {"dispatch", "retry"} /\ s.todo = {}
    /\ s.seen[i] # UnreadIncident
    /\ sess' = [sess EXCEPT ![w].cache = rows, ![w].write[i] = StatusWrite(s, i, new), ![w].pc = "commit"]
    /\ UNCHANGED <<incident, action, store, inFlight, mode, restarts>>

-----------------------------------------------------------------------------
(* rollback_action, asked by an analyst or by expire_actions *)

RollbackBegin(w, a) ==
    LET i == IncidentOf[a] IN
    /\ Free(w, a)
    /\ a \in Containment
    /\ action[a].status = "applied"
    /\ Begin(w, [Idle EXCEPT !.op = "rollback", !.pc = "call", !.locks = {a},
                             !.seen[i] = incident[i], !.cache[a] = action[a], !.todo = {a}])
    /\ UNCHANGED <<incident, action, store, inFlight, mode, restarts>>

\* Mutation of Expired: the query asks for the wrong status.
ExpiredApproved == {a \in Containment : action[a].status = "approved" /\ lapse[a] > 0}

\* Selects the expired actions without a lock.
Expired == {a \in Containment : action[a].status = "applied" /\ lapse[a] > 0}

ExpireBegin(w) ==
    /\ Expired # {}
    /\ Begin(w, [Idle EXCEPT !.op = "expire", !.pc = "lock", !.todo = Expired,
                             !.cache = [a \in Action |-> IF a \in Expired THEN action[a] ELSE UnreadAction]])
    /\ UNCHANGED <<incident, action, store, inFlight, mode, restarts>>

\* Mutation of NextExpired: the query loses its order_by.
AnyExpired(todo, a) == a \in todo

NextExpired(todo, a) == a \in todo /\ \A b \in todo : lapse[a] <= lapse[b]

\* Locks the next expired action; its row is in the identity map already, so
\* the status that is checked is the one the unlocked query returned.
ExpireLock(w, a) ==
    LET i == IncidentOf[a] IN
    /\ sess[w].pc = "lock"
    /\ NextExpired(sess[w].todo, a)
    /\ Free(w, a)
    /\ sess' = [sess EXCEPT ![w].locks = @ \union {a}, ![w].pc = "call",
                            ![w].seen[i] = IF @ = UnreadIncident THEN incident[i] ELSE @]
    /\ UNCHANGED <<incident, action, store, inFlight, mode, restarts>>

Reverts(w, a) ==
    /\ sess[w].pc = "call" /\ sess[w].op \in {"rollback", "expire"}
    /\ a \in sess[w].todo \intersect sess[w].locks

RevokeAnswered(w, a) ==
    /\ Reverts(w, a)
    /\ Store!Revoke(a)
    /\ sess' = [sess EXCEPT ![w].cache[a].status = "rolled_back", ![w].dirty = @ \union {a}, ![w].pc = "close"]
    /\ UNCHANGED <<incident, action, inFlight, mode, restarts>>

AfterAction(todo) == IF todo = {} THEN "commit" ELSE "lock"

\* AdapterError: the rollback endpoint does not catch it, the session closes and
\* nothing is written; expire_actions notes the error and goes on.
RevokeFailed(w, a) ==
    /\ Reverts(w, a)
    /\ Unanswered([kind |-> "revoke", act |-> a])
    /\ IF sess[w].op = "rollback"
       THEN sess' = [sess EXCEPT ![w] = Idle]
       ELSE sess' = [sess EXCEPT ![w].todo = @ \ {a}, ![w].pc = AfterAction(sess[w].todo \ {a})]
    /\ UNCHANGED <<incident, action, store, mode, restarts>>

\* Mutation of LastApplied: every rollback closes the incident.
LastAppliedAlways(rows, a) == TRUE

LastApplied(rows, a) == \A b \in ActionsOf(IncidentOf[a]) \ {a} : rows[b].status # "applied"

\* The incident closes when no other action is applied, as far as the session saw.
CloseIncident(w, a) ==
    LET s == sess[w]
        i == IncidentOf[a]
        rows == Loaded(s, i)
    IN
    /\ s.pc = "close"
    /\ a \in s.todo \intersect s.locks
    /\ sess' = [sess EXCEPT ![w].cache = rows,
                            ![w].write[i] = IF LastApplied(rows, a) THEN StatusWrite(s, i, "closed") ELSE @,
                            ![w].todo = @ \ {a}, ![w].pc = AfterAction(s.todo \ {a})]
    /\ UNCHANGED <<incident, action, store, inFlight, mode, restarts>>

-----------------------------------------------------------------------------
(* Commit, restart and the network *)

\* The UPDATEs wait for the rows they touch, then the locks are released.
Commit(w) ==
    LET s == sess[w] IN
    /\ s.pc = "commit"
    /\ \A a \in s.dirty : Free(w, a)
    /\ \A i \in Incident : s.write[i] # "unset" => Free(w, i)
    /\ action' = [a \in Action |-> IF a \in s.dirty THEN s.cache[a] ELSE action[a]]
    /\ incident' = [i \in Incident |->
          IF s.write[i] # "unset" THEN [incident[i] EXCEPT !.status = s.write[i]] ELSE incident[i]]
    /\ sess' = [sess EXCEPT ![w] = Idle]
    /\ UNCHANGED <<store, inFlight, mode, restarts>>

\* The process stops: open transactions roll back, calls already served stay.
Restart ==
    /\ restarts < MaxRestarts
    /\ restarts' = restarts + 1
    /\ mode' \in Mode
    /\ sess' = [w \in Worker |-> Idle]
    /\ UNCHANGED <<incident, action, store, inFlight>>

\* A request the controller no longer waits for is served, refused or lost.
LateArrival(r) ==
    /\ r \in inFlight
    /\ inFlight' = inFlight \ {r}
    /\ \/ r.kind = "apply" /\ Store!Apply(r.act)
       \/ r.kind = "revoke" /\ Store!Revoke(r.act)
       \/ UNCHANGED store
    /\ UNCHANGED <<incident, action, sess, mode, restarts>>

Lapse(a) ==
    /\ Store!Lapse(a)
    /\ UNCHANGED <<incident, action, sess, inFlight, mode, restarts>>

-----------------------------------------------------------------------------

WorkerStep(w) ==
    \/ \E i \in Incident, scope \in {"automatic", "approved"} : DispatchBegin(w, i, scope)
    \/ \E a \in Action : RetryBegin(w, a) \/ RollbackBegin(w, a)
    \/ ExpireBegin(w)
    \/ \E a \in Action : ExpireLock(w, a)
    \/ \E a \in Action : CollectEvidence(w, a) \/ Simulate(w, a)
    \/ \E a \in Action : ApplyAnswered(w, a) \/ ApplyFailed(w, a)
    \/ \E i \in Incident : Recompute(w, i)
    \/ \E a \in Action : RevokeAnswered(w, a) \/ RevokeFailed(w, a)
    \/ \E a \in Action : CloseIncident(w, a)
    \/ Commit(w)

Environment ==
    \/ \E i \in Incident : CreateIncident(i)
    \/ \E i \in Incident, d \in Decision : Decide(i, d)
    \/ Restart
    \/ \E r \in inFlight : LateArrival(r)
    \/ \E a \in Action : Lapse(a)

Next == Environment \/ \E w \in Worker : WorkerStep(w)

Spec == Init /\ [][Next]_vars

\* What runs to the end: an expiry instant passes, a handler goes on once it has
\* begun, PostgreSQL queues the waiters of a row, and the every-minute workflow
\* keeps asking for expiry until the application answers one of the calls.
Fairness ==
    /\ \A a \in Action : WF_vars(Lapse(a))
    /\ SF_vars(\E w \in Worker : ExpireBegin(w))
    /\ \A w \in Worker :
          /\ WF_vars(\E a \in Action : CollectEvidence(w, a) \/ Simulate(w, a) \/ ApplyAnswered(w, a) \/ ApplyFailed(w, a))
          /\ WF_vars(\E i \in Incident : Recompute(w, i))
          /\ WF_vars(\E a \in Action : CloseIncident(w, a))
          /\ WF_vars(\E a \in Action : RevokeAnswered(w, a) \/ RevokeFailed(w, a))
          /\ SF_vars(\E a \in Action : ExpireLock(w, a))
          /\ SF_vars(Commit(w))
    /\ \A a \in Action : SF_vars(\E w \in Worker : RevokeAnswered(w, a))

FairSpec == Spec /\ Fairness

-----------------------------------------------------------------------------
(* Properties *)

\* Every variable keeps its type; attempt_count never passes the bound at which
\* retry_action refuses.
TypeOK ==
    /\ incident \in [Incident -> IncidentRow]
    /\ action \in [Action -> ActionRow]
    /\ sess \in [Worker -> Session]
    /\ Store!StoreTypeOK
    /\ inFlight \in SUBSET Request
    /\ mode \in Mode
    /\ restarts \in 0 .. MaxRestarts

\* No containment without a person's approval: a control exists in the
\* application, or a request for one is on its way, only for an action whose
\* incident an analyst approved, whatever was retried, lost or crashed meanwhile.
ContainmentIsApproved == \A a \in Action :
    control[a] # "absent" \/ [kind |-> "apply", act |-> a] \in inFlight =>
        a \in Containment /\ incident[IncidentOf[a]].decision = "approve"

\* The actions a session is executing or reverting, or has changed but not committed.
Owned(w) == IF sess[w].op = "dispatch" THEN sess[w].todo \union sess[w].dirty
            ELSE sess[w].locks \intersect Action

\* Two requests never work on the same action at a time, although dispatch locks
\* the incident and retry, rollback and expiry lock the action.
OneExecutorPerAction == \A v, w \in Worker : v # w => Owned(v) \intersect Owned(w) = {}

\* The status for which a session executes an action is still the committed one
\* when the session acts: nothing is executed twice because it was read early.
DueWhileExecuting == \A w \in Worker, a \in Action :
    Executes(w, a) => action[a].status \in IF sess[w].op = "retry" THEN {"failed"} ELSE {"pending", "approved"}

\* What the controller records as applied exists in the application, so that its
\* rollback cannot end in 404 and leave it applied for good.
AppliedHasControl == \A a \in Action :
    action[a].status = "applied" => control[a] # "absent"

\* What the controller records as rolled back is not enforced, even if an apply
\* request it gave up on arrives later.
RolledBackIsRevoked == \A a \in Action :
    action[a].status = "rolled_back" => control[a] = "revoked"

Lifecycle == INSTANCE ActionLifecycle WITH
    status <- [a \in Action |-> action[a].status],
    decision <- [i \in Incident |-> incident[i].decision]

\* The committed rows follow the abstract life of an action.
ImplementsLifecycle == Lifecycle!LifecycleSpec

\* The decision on its incident is one on containment a.
RuledOn(a) == action[a].status \notin InitialContainment \union {"absent"}

\* Containment a taken by itself, as EvaluationRun sees its platform.
Evaluated(a) == INSTANCE EvaluationRun WITH
    Control <- {a}, Terminal <- {},
    incident <- IF action[a].status = "absent" THEN "absent" ELSE "collecting",
    action <- [b \in {a} |-> action[b].status],
    decision <- IF RuledOn(a) THEN incident[IncidentOf[a]].decision ELSE "none",
    control <- [b \in {a} |-> control[b]],
    lapse <- [b \in {a} |-> IF lapse[b] = 0 THEN 0 ELSE 1],
    clock <- IF lapse[a] = 0 THEN 0 ELSE 1,
    requires <- TRUE, stimulus <- "sent", result <- "absent", sess <- {}, denied <- {}

\* Of each containment, the controller and the application do only what the
\* evaluation's runs were judged with.
PlatformAsEvaluated ==
    [][\A a \in Containment : Evaluated(a)!Platform \/ UNCHANGED Evaluated(a)!platform]_vars

Quiet == \A w \in Worker : sess[w].op = "none"

HasAction(i, st) == \E a \in ActionsOf(i) : action[a].status = st

\* Between requests the incident's status does not contradict its actions: it is
\* contained only with an applied action, closed only without one, failed only
\* with a failed one, and rejected only by decision.  True of requests that run
\* one after another.
StatusMatchesActions == Quiet => \A i \in Incident :
    CASE incident[i].status = "contained" -> HasAction(i, "applied")
      [] incident[i].status = "closed" -> ~HasAction(i, "applied")
      [] incident[i].status = "failed" -> HasAction(i, "failed")
      [] incident[i].status = "rejected" -> incident[i].decision = "reject"
      [] OTHER -> TRUE

\* Once every containment of an incident was rolled back and its evidence
\* collected, the incident is closed, as rollback_action intends and
\* test_expired_live_action_is_rolled_back_automatically asserts of one rollback.
AllRolledBackIsClosed == Quiet => \A i \in Incident :
    /\ HasAction(i, "rolled_back")
    /\ \A a \in ActionsOf(i) : action[a].status \in {"rolled_back", "completed"}
    => incident[i].status = "closed"

\* The transaction of w waits for a row that v has locked: for the next expired
\* action, or for a row that its commit updates.
WaitsFor(w, v) ==
    /\ v # w
    /\ \/ sess[w].pc = "lock" /\ \E a \in sess[v].locks : NextExpired(sess[w].todo, a)
       \/ sess[w].pc = "commit" /\ sess[w].dirty \intersect sess[v].locks # {}
       \/ sess[w].pc = "commit" /\ \E i \in sess[v].locks \intersect Incident : sess[w].write[i] # "unset"

\* No deadlock for PostgreSQL to break: among any requests one waits for none of
\* the others, although some lock incidents and others lock actions.
NoCircularWait == \A W \in (SUBSET Worker) \ {{}} : \E w \in W : \A v \in W : ~ WaitsFor(w, v)

\* Every request that has begun ends: the row locks never close a circle.
RequestsFinish == \A w \in Worker : sess[w].op # "none" ~> sess[w].op = "none"

\* An applied containment does not outlive its time to live for good: it is
\* eventually recorded as rolled back, by the analyst or by the expiry workflow.
ContainmentEnds == \A a \in Action : action[a].status = "applied" ~> action[a].status = "rolled_back"
=============================================================================
