------------------------ MODULE SoarController_proofs ------------------------
(***************************************************************************)
(* The safety of SoarController for any number of incidents, actions,      *)
(* workers, attempts, restarts and lost requests.                          *)
(***************************************************************************)
EXTENDS SoarController, FiniteSetLemmas, TLAPS

(***************************************************************************)
(* The inductive invariant.  Dispatch locks an incident, retry, rollback   *)
(* and expiry lock an action, so the locks alone do not keep two sessions  *)
(* off the same action: the status each session has chosen its actions by  *)
(* does, as nobody else may change it.                                     *)
(***************************************************************************)

LocksExclusive == \A v, w \in Worker : v # w => sess[v].locks \intersect sess[w].locks = {}

\* What a session of each kind may hold, and where it may be.
Shape(s) ==
    /\ s.op = "none" => s = Idle
    /\ s.pc = "idle" => s.op = "none"
    /\ s.op = "dispatch" =>
          /\ s.pc \in {"call", "commit"}
          /\ \E i \in Incident : s.locks = {i} /\ s.todo \union s.dirty \subseteq ActionsOf(i)
    /\ s.op = "retry" =>
          /\ s.pc \in {"call", "commit"}
          /\ \E a \in Action : s.locks = {a} /\ s.todo \union s.dirty \subseteq {a}
    /\ s.op = "rollback" =>
          /\ s.pc \in {"call", "close", "commit"}
          /\ \E a \in Containment : s.locks = {a} /\ s.todo \union s.dirty \subseteq {a}
    /\ s.op = "expire" =>
          /\ s.pc \in {"lock", "call", "close", "commit"}
          /\ s.locks \union s.todo \subseteq Containment
          /\ s.dirty \subseteq s.locks

\* The statuses an action may have in the rows while a session of kind op works on it.
Due(op, a) ==
    CASE op = "dispatch" -> IF a \in Automatic THEN {"pending"} ELSE {"approved"}
      [] op = "retry" -> {"failed"}
      [] op = "rollback" -> {"applied"}
      [] op = "expire" -> {"applied", "rolled_back"}
      [] OTHER -> {}

Outcome(a) == IF a \in Automatic THEN {"completed", "failed"} ELSE {"applied", "simulated", "failed"}

\* The actions a session is to work on, has changed, or keeps locked.
Claimed(s) == s.todo \union s.dirty \union (s.locks \intersect Action)

WorkIsDue(s) == \A a \in Claimed(s) : action[a].status \in Due(s.op, a)

TodoIsFresh(s) == s.op \in {"dispatch", "retry"} =>
    \A a \in s.todo : s.cache[a] = action[a] /\ action[a].attempts < MaxAttempts

DirtyIsDone(s) == \A a \in s.dirty :
    /\ s.op \in {"dispatch", "retry"} =>
          /\ s.cache[a].status \in Outcome(a)
          /\ s.cache[a].status = "applied" => control[a] # "absent"
    /\ s.op \in {"rollback", "expire"} =>
          s.cache[a].status = "rolled_back" /\ control[a] = "revoked"

Sound(s) == Shape(s) /\ WorkIsDue(s) /\ TodoIsFresh(s) /\ DirtyIsDone(s)

Unstarted == {"absent", "pending"} \union InitialContainment \union {"approved", "skipped"}

\* The rows agree with one another and with the application.
RowsAgree ==
    /\ \A i \in Incident : incident[i].status = "absent" =>
          /\ incident[i].decision = "none"
          /\ \A a \in ActionsOf(i) : action[a].status = "absent"
    /\ \A a \in Action :
          /\ action[a].status \in Unstarted => action[a].attempts = 0
          /\ a \in Automatic => action[a].status \in {"absent", "pending", "completed", "failed"}
          /\ a \in Containment => action[a].status \notin {"pending", "completed"}
          /\ a \in Containment /\ action[a].status \in {"approved", "applied", "failed", "simulated", "rolled_back"}
                => incident[IncidentOf[a]].decision = "approve"

IInv ==
    /\ TypeOK
    /\ LocksExclusive
    /\ \A w \in Worker : Sound(sess[w])
    /\ RowsAgree
    /\ AppliedHasControl
    /\ RolledBackIsRevoked
    /\ ContainmentIsApproved

-----------------------------------------------------------------------------
(* Types *)

LEMMA IdleSession == Idle \in Session
BY DEF Idle, Session, IncidentRow, ActionRow, UnreadIncident, UnreadAction

LEMMA StatusForType == \A d, S : StatusFor(d, S) \in IncidentStatus
BY DEF StatusFor, IncidentStatus

LEMMA InitTypes == Init => TypeOK
<1> SUFFICES ASSUME Init PROVE TypeOK
  OBVIOUS
<1>1. incident \in [Incident -> IncidentRow] /\ action \in [Action -> ActionRow]
  BY ControllerAssumption DEF Init, IncidentRow, ActionRow, ActionStatus, IncidentStatus
<1>2. sess \in [Worker -> Session]
  BY IdleSession DEF Init
<1>3. Store!StoreTypeOK
  BY DEF Init, Store!StoreInit, Store!StoreTypeOK
<1>4. inFlight \in SUBSET Request /\ mode \in Mode /\ restarts \in 0 .. MaxRestarts
  BY ControllerAssumption DEF Init, Mode
<1> QED
  BY <1>1, <1>2, <1>3, <1>4 DEF TypeOK

\* Executing an action leaves a well-typed session, as its attempts are below the bound.
LEMMA RecordType ==
    ASSUME TypeOK, NEW w \in Worker, TodoIsFresh(sess[w]), NEW a \in Action, Executes(w, a),
           NEW st \in ActionStatus, Record(w, a, st)
    PROVE  sess' \in [Worker -> Session]
<1> DEFINE s == sess[w]
           row == [status |-> st, attempts |-> s.cache[a].attempts + 1]
           t == [s EXCEPT !.cache = [@ EXCEPT ![a] = row], !.todo = @ \ {a}, !.dirty = @ \union {a}]
<1>1. s \in Session
  BY DEF TypeOK
<1>2. s.cache[a] = action[a] /\ action[a].attempts < MaxAttempts
  BY DEF Executes, TodoIsFresh
<1>3. row \in ActionRow
  <2>1. action[a].attempts \in 0 .. MaxAttempts
    BY DEF TypeOK, ActionRow
  <2> QED
    BY <1>2, <2>1, ControllerAssumption DEF ActionRow
<1>4. t \in Session
  BY <1>1, <1>3 DEF Session
<1>5. sess' = [sess EXCEPT ![w] = t]
  BY <1>1 DEF Record, TypeOK, Session
<1> QED
  BY <1>4, <1>5 DEF TypeOK

LEMMA LoadedType ==
    ASSUME TypeOK, NEW s \in Session, NEW i \in Incident
    PROVE  Loaded(s, i) \in [Action -> ActionRow \union {UnreadAction}]
BY DEF TypeOK, Loaded, Session

LEMMA StoreTypes ==
    ASSUME Store!StoreTypeOK, NEW a \in Action,
           Store!Apply(a) \/ Store!Revoke(a) \/ Store!Lapse(a) \/ UNCHANGED store
    PROVE  Store!StoreTypeOK'
<1>1. CASE Store!Apply(a)
  BY <1>1 DEF Store!StoreTypeOK, Store!Apply
<1>2. CASE Store!Revoke(a)
  BY <1>2 DEF Store!StoreTypeOK, Store!Revoke
<1>3. CASE Store!Lapse(a)
  BY <1>3 DEF Store!StoreTypeOK, Store!Lapse
<1>4. CASE UNCHANGED store
  BY <1>4 DEF Store!StoreTypeOK, store
<1> QED
  BY <1>1, <1>2, <1>3, <1>4

\* A session that begins is well typed.
LEMMA BeginTypes ==
    ASSUME TypeOK, NEW w \in Worker,
           \/ \E i \in Incident, scope \in {"automatic", "approved"} : DispatchBegin(w, i, scope)
           \/ \E a \in Action : RetryBegin(w, a) \/ RollbackBegin(w, a)
           \/ ExpireBegin(w)
    PROVE  sess' \in [Worker -> Session]
<1>0. ASSUME NEW s \in Session, Begin(w, s) PROVE sess' \in [Worker -> Session]
  BY <1>0 DEF Begin, TypeOK
<1>1. ASSUME NEW i \in Incident, NEW scope \in {"automatic", "approved"}, DispatchBegin(w, i, scope)
      PROVE  sess' \in [Worker -> Session]
  <2> DEFINE s == [Idle EXCEPT !.op = "dispatch", !.pc = "call", !.locks = {i},
                               !.seen[i] = incident[i], !.cache = Loaded(Idle, i),
                               !.todo = Candidates(i, scope)]
  <2>1. Loaded(Idle, i) \in [Action -> ActionRow \union {UnreadAction}] /\ Candidates(i, scope) \subseteq Action
    BY IdleSession, LoadedType DEF Candidates, ActionsOf
  <2>2. incident[i] \in IncidentRow
    BY DEF TypeOK
  <2>3. s \in Session
    BY IdleSession, <2>1, <2>2 DEF Session
  <2> QED
    BY <1>0, <1>1, <2>3 DEF DispatchBegin
<1>2. ASSUME NEW a \in Action, NEW op \in {"retry", "rollback"}
      PROVE  [Idle EXCEPT !.op = op, !.pc = "call", !.locks = {a},
                          !.seen[IncidentOf[a]] = incident[IncidentOf[a]], !.cache[a] = action[a], !.todo = {a}] \in Session
  <2>1. incident[IncidentOf[a]] \in IncidentRow /\ action[a] \in ActionRow
    BY ControllerAssumption DEF TypeOK
  <2> DEFINE seen == [Idle.seen EXCEPT ![IncidentOf[a]] = incident[IncidentOf[a]]]
             cache == [Idle.cache EXCEPT ![a] = action[a]]
  <2>2. seen \in [Incident -> IncidentRow \union {UnreadIncident}] /\ cache \in [Action -> ActionRow \union {UnreadAction}]
    BY <2>1, IdleSession DEF Session
  <2>3. [Idle EXCEPT !.op = op, !.pc = "call", !.locks = {a}, !.seen = seen, !.cache = cache, !.todo = {a}] \in Session
    BY <2>2, IdleSession DEF Session
  <2> QED
    BY <2>3
<1>3. ASSUME NEW a \in Action, RetryBegin(w, a) \/ RollbackBegin(w, a) PROVE sess' \in [Worker -> Session]
  BY <1>0, <1>2, <1>3 DEF RetryBegin, RollbackBegin
<1>4. CASE ExpireBegin(w)
  <2> DEFINE s == [Idle EXCEPT !.op = "expire", !.pc = "lock", !.todo = Expired,
                               !.cache = [a \in Action |-> IF a \in Expired THEN action[a] ELSE UnreadAction]]
  <2>1. \A a \in Action : action[a] \in ActionRow
    BY DEF TypeOK
  <2>2. s \in Session
    BY IdleSession, <2>1 DEF Session, Expired, Containment
  <2> QED
    BY <1>0, <1>4, <2>2 DEF ExpireBegin
<1> QED
  BY <1>1, <1>3, <1>4

\* So is one that goes on to lock, recompute, revoke or close.
LEMMA ContinueTypes ==
    ASSUME TypeOK, NEW w \in Worker,
           \/ \E a \in Action : ExpireLock(w, a) \/ RevokeAnswered(w, a) \/ RevokeFailed(w, a) \/ CloseIncident(w, a)
           \/ \E i \in Incident : Recompute(w, i)
    PROVE  sess' \in [Worker -> Session]
<1> USE IdleSession, ControllerAssumption DEF TypeOK
<1>0. sess[w] \in Session
  OBVIOUS
<1>1. ASSUME NEW a \in Action, ExpireLock(w, a) PROVE sess' \in [Worker -> Session]
  <2> DEFINE i == IncidentOf[a]
             seen == [sess[w].seen EXCEPT ![i] = IF @ = UnreadIncident THEN incident[i] ELSE @]
             t == [sess[w] EXCEPT !.locks = @ \union {a}, !.pc = "call", !.seen = seen]
  <2>1. seen \in [Incident -> IncidentRow \union {UnreadIncident}]
    BY <1>0 DEF Session
  <2>2. t \in Session
    BY <1>0, <2>1 DEF Session
  <2>3. sess' = [sess EXCEPT ![w] = t]
    BY <1>0, <1>1 DEF ExpireLock, Session
  <2> QED
    BY <2>2, <2>3
<1>2. ASSUME NEW a \in Action, RevokeAnswered(w, a) PROVE sess' \in [Worker -> Session]
  <2>1. sess[w].cache[a] \in ActionRow \union {UnreadAction}
    BY <1>0 DEF Session
  <2>2. [sess[w].cache[a] EXCEPT !.status = "rolled_back"] \in ActionRow
    BY <2>1 DEF ActionRow, UnreadAction, ActionStatus
  <2> DEFINE cache == [sess[w].cache EXCEPT ![a] = [@ EXCEPT !.status = "rolled_back"]]
             t == [sess[w] EXCEPT !.cache = cache, !.dirty = @ \union {a}, !.pc = "close"]
  <2>3. cache \in [Action -> ActionRow \union {UnreadAction}]
    BY <1>0, <2>2 DEF Session
  <2>4. t \in Session
    BY <1>0, <2>3 DEF Session
  <2>5. sess' = [sess EXCEPT ![w] = t]
    BY <1>0, <1>2 DEF RevokeAnswered, Session
  <2> QED
    BY <2>4, <2>5
<1>3. ASSUME NEW a \in Action, RevokeFailed(w, a) PROVE sess' \in [Worker -> Session]
  <2> DEFINE t == [sess[w] EXCEPT !.todo = @ \ {a}, !.pc = AfterAction(sess[w].todo \ {a})]
  <2>1. t \in Session
    BY <1>0 DEF Session, AfterAction
  <2>2. sess' = [sess EXCEPT ![w] = Idle] \/ sess' = [sess EXCEPT ![w] = t]
    <3>1. CASE sess[w].op = "rollback"
      BY <1>3, <3>1 DEF RevokeFailed
    <3>2. CASE sess[w].op # "rollback"
      <4>1. sess' = [sess EXCEPT ![w].todo = sess[w].todo \ {a}, ![w].pc = AfterAction(sess[w].todo \ {a})]
        BY <1>3, <3>2 DEF RevokeFailed
      <4> QED
        BY <1>0, <4>1 DEF Session
    <3> QED
      BY <3>1, <3>2
  <2> QED
    BY <2>1, <2>2, IdleSession
<1>4. ASSUME NEW a \in Action, CloseIncident(w, a) PROVE sess' \in [Worker -> Session]
  <2>1. Loaded(sess[w], IncidentOf[a]) \in [Action -> ActionRow \union {UnreadAction}]
    BY <1>0, LoadedType
  <2>2. \A i \in Incident : StatusWrite(sess[w], i, "closed") \in IncidentStatus \union {"unset"}
    BY <1>0 DEF StatusWrite, Session, IncidentStatus
  <2> DEFINE i == IncidentOf[a]
             rows == Loaded(sess[w], i)
             write == [sess[w].write EXCEPT ![i] = IF LastApplied(rows, a) THEN StatusWrite(sess[w], i, "closed") ELSE @]
             t == [sess[w] EXCEPT !.cache = rows, !.write = write, !.todo = @ \ {a},
                                  !.pc = AfterAction(sess[w].todo \ {a})]
  <2>3. write \in [Incident -> IncidentStatus \union {"unset"}]
    BY <1>0, <2>2 DEF Session
  <2>4. t \in Session
    BY <1>0, <2>1, <2>3 DEF Session, AfterAction
  <2>5. sess' = [sess EXCEPT ![w] = t]
    BY <1>0, <1>4 DEF CloseIncident, Session
  <2> QED
    BY <2>4, <2>5
<1>5. ASSUME NEW i \in Incident, Recompute(w, i) PROVE sess' \in [Worker -> Session]
  <2> DEFINE rows == Loaded(sess[w], i)
             new == StatusFor(sess[w].seen[i].decision, Statuses(rows, i))
             write == [sess[w].write EXCEPT ![i] = StatusWrite(sess[w], i, new)]
             t == [sess[w] EXCEPT !.cache = rows, !.write = write, !.pc = "commit"]
  <2>1. rows \in [Action -> ActionRow \union {UnreadAction}]
    BY <1>0, LoadedType
  <2>2. write \in [Incident -> IncidentStatus \union {"unset"}]
    <3>1. new \in IncidentStatus
      BY StatusForType
    <3> HIDE DEF new
    <3>2. StatusWrite(sess[w], i, new) \in IncidentStatus \union {"unset"}
      BY <1>0, <3>1 DEF StatusWrite, Session
    <3> QED
      BY <1>0, <3>2 DEF Session
  <2>3. t \in Session
    BY <1>0, <2>1, <2>2 DEF Session
  <2>4. sess' = [sess EXCEPT ![w] = t]
    BY <1>0, <1>5 DEF Recompute, Session
  <2> QED
    BY <2>3, <2>4
<1> QED
  BY <1>1, <1>2, <1>3, <1>4, <1>5

\* Executing one action, whatever its kind and its outcome.
LEMMA ExecuteTypes ==
    ASSUME TypeOK, NEW w \in Worker, TodoIsFresh(sess[w]), NEW a \in Action,
           CollectEvidence(w, a) \/ Simulate(w, a) \/ ApplyAnswered(w, a) \/ ApplyFailed(w, a)
    PROVE  sess' \in [Worker -> Session]
<1>1. \E st \in ActionStatus : Record(w, a, st) /\ Executes(w, a)
  BY DEF CollectEvidence, Simulate, ApplyAnswered, ApplyFailed, ActionStatus
<1> QED
  BY <1>1, RecordType

\* What a commit writes was read or computed by its session.
LEMMA CommitTypes ==
    ASSUME TypeOK, NEW w \in Worker, DirtyIsDone(sess[w]), Shape(sess[w]), Commit(w)
    PROVE  TypeOK'
<1> DEFINE s == sess[w]
<1> USE DEF TypeOK
<1>1. s \in Session
  OBVIOUS
<1>2. \A a \in s.dirty : s.cache[a] \in ActionRow
  <2> SUFFICES ASSUME NEW a \in s.dirty PROVE s.cache[a] \in ActionRow
    OBVIOUS
  <2>1. s.cache[a] \in ActionRow \union {UnreadAction}
    BY <1>1 DEF Session
  <2>2. s.op \in {"dispatch", "retry", "rollback", "expire"}
    BY <1>1 DEF Shape, Commit, Idle, Session
  <2>3. s.cache[a].status # "unread"
    BY <2>2 DEF DirtyIsDone, Outcome
  <2> QED
    BY <2>1, <2>3 DEF UnreadAction
<1>3. action' \in [Action -> ActionRow]
  BY <1>2 DEF Commit
<1>4. incident' \in [Incident -> IncidentRow]
  <2>1. \A i \in Incident : s.write[i] # "unset" => [incident[i] EXCEPT !.status = s.write[i]] \in IncidentRow
    BY <1>1 DEF Session, IncidentRow
  <2> QED
    BY <2>1 DEF Commit
<1>5. sess' \in [Worker -> Session]
  BY IdleSession DEF Commit
<1> QED
  BY <1>3, <1>4, <1>5 DEF Commit, store, Store!StoreTypeOK

LEMMA InFlightTypes ==
    ASSUME TypeOK, NEW r \in Request, Unanswered(r)
    PROVE  inFlight' \in SUBSET Request
BY DEF TypeOK, Unanswered

LEMMA WorkerTypes ==
    ASSUME TypeOK, NEW w \in Worker, Sound(sess[w]), WorkerStep(w)
    PROVE  TypeOK'
<1> USE DEF Sound
<1>1. CASE \/ \E i \in Incident, scope \in {"automatic", "approved"} : DispatchBegin(w, i, scope)
           \/ \E a \in Action : RetryBegin(w, a) \/ RollbackBegin(w, a)
           \/ ExpireBegin(w)
  <2>1. sess' \in [Worker -> Session]
    BY <1>1, BeginTypes
  <2> QED
    BY <1>1, <2>1 DEF TypeOK, DispatchBegin, RetryBegin, RollbackBegin, ExpireBegin, store, Store!StoreTypeOK
<1>2. CASE \E a \in Action : ExpireLock(w, a) \/ CloseIncident(w, a)
  <2>1. sess' \in [Worker -> Session]
    BY <1>2, ContinueTypes
  <2> QED
    BY <1>2, <2>1 DEF TypeOK, ExpireLock, CloseIncident, store, Store!StoreTypeOK
<1>3. ASSUME NEW i \in Incident, Recompute(w, i) PROVE TypeOK'
  <2>1. sess' \in [Worker -> Session]
    BY <1>3, ContinueTypes
  <2> QED
    BY <1>3, <2>1 DEF TypeOK, Recompute, store, Store!StoreTypeOK
<1>4. ASSUME NEW a \in Action, RevokeAnswered(w, a) PROVE TypeOK'
  <2>1. sess' \in [Worker -> Session] /\ Store!StoreTypeOK'
    BY <1>4, ContinueTypes, StoreTypes DEF RevokeAnswered, TypeOK
  <2> QED
    BY <1>4, <2>1 DEF TypeOK, RevokeAnswered
<1>5. ASSUME NEW a \in Action, RevokeFailed(w, a) PROVE TypeOK'
  <2>1. sess' \in [Worker -> Session] /\ inFlight' \in SUBSET Request
    BY <1>5, ContinueTypes, InFlightTypes DEF RevokeFailed, Request
  <2> QED
    BY <1>5, <2>1 DEF TypeOK, RevokeFailed, store, Store!StoreTypeOK
<1>6. ASSUME NEW a \in Action, CollectEvidence(w, a) \/ Simulate(w, a) PROVE TypeOK'
  <2>1. sess' \in [Worker -> Session]
    BY <1>6, ExecuteTypes
  <2> QED
    BY <1>6, <2>1 DEF TypeOK, CollectEvidence, Simulate, store, Store!StoreTypeOK
<1>7. ASSUME NEW a \in Action, ApplyAnswered(w, a) PROVE TypeOK'
  <2>1. sess' \in [Worker -> Session] /\ Store!StoreTypeOK'
    BY <1>7, ExecuteTypes, StoreTypes DEF ApplyAnswered, TypeOK
  <2> QED
    BY <1>7, <2>1 DEF TypeOK, ApplyAnswered
<1>8. ASSUME NEW a \in Action, ApplyFailed(w, a) PROVE TypeOK'
  <2>1. sess' \in [Worker -> Session] /\ inFlight' \in SUBSET Request
    BY <1>8, ExecuteTypes, InFlightTypes DEF ApplyFailed, Request
  <2> QED
    BY <1>8, <2>1 DEF TypeOK, ApplyFailed, store, Store!StoreTypeOK
<1>9. CASE Commit(w)
  BY <1>9, CommitTypes
<1> QED
  BY <1>1, <1>2, <1>3, <1>4, <1>5, <1>6, <1>7, <1>8, <1>9 DEF WorkerStep

LEMMA EnvironmentTypes == ASSUME TypeOK, Environment PROVE TypeOK'
<1> USE ControllerAssumption DEF TypeOK
<1>1. ASSUME NEW i \in Incident, CreateIncident(i) PROVE TypeOK'
  <2>1. PICK born \in [ActionsOf(i) -> InitialAutomatic \union InitialContainment] :
          /\ action' = [a \in Action |-> IF IncidentOf[a] = i THEN [action[a] EXCEPT !.status = born[a]] ELSE action[a]]
          /\ incident' = [incident EXCEPT ![i].status = StatusFor("none", {born[a] : a \in ActionsOf(i)})]
    BY <1>1 DEF CreateIncident
  <2>2. \A a \in Action : IncidentOf[a] = i => born[a] \in ActionStatus
    BY <2>1 DEF ActionsOf, ActionStatus
  <2>3. action' \in [Action -> ActionRow]
    BY <2>1, <2>2 DEF ActionRow
  <2>4. incident' \in [Incident -> IncidentRow]
    BY <2>1, StatusForType DEF IncidentRow
  <2> QED
    BY <1>1, <2>3, <2>4 DEF CreateIncident, store, Store!StoreTypeOK
<1>2. ASSUME NEW i \in Incident, NEW d \in Decision, Decide(i, d) PROVE TypeOK'
  <2>1. action' \in [Action -> ActionRow]
    BY <1>2 DEF Decide, ActionRow, ActionStatus
  <2>2. incident' \in [Incident -> IncidentRow]
    BY <1>2 DEF Decide, IncidentRow, IncidentStatus
  <2> QED
    BY <1>2, <2>1, <2>2 DEF Decide, store, Store!StoreTypeOK
<1>3. CASE Restart
  BY <1>3, IdleSession DEF Restart, store, Store!StoreTypeOK
<1>4. ASSUME NEW r \in inFlight, LateArrival(r) PROVE TypeOK'
  <2>1. Store!StoreTypeOK'
    BY <1>4, StoreTypes DEF LateArrival, Request
  <2> QED
    BY <1>4, <2>1 DEF LateArrival
<1>5. ASSUME NEW a \in Action, Lapse(a) PROVE TypeOK'
  <2>1. Store!StoreTypeOK'
    BY <1>5, StoreTypes DEF Lapse
  <2> QED
    BY <1>5, <2>1 DEF Lapse
<1> QED
  BY <1>1, <1>2, <1>3, <1>4, <1>5 DEF Environment

-----------------------------------------------------------------------------
(* Steps of one session that change no committed row *)

\* Controls are never lost, and never active again.
ControlKeeps == \A a \in Action :
    /\ control[a] # "absent" => control'[a] # "absent"
    /\ control[a] = "revoked" => control'[a] = "revoked"

LEMMA StoreKeeps ==
    ASSUME Store!StoreTypeOK, NEW b \in Action,
           Store!Apply(b) \/ Store!Revoke(b) \/ Store!Lapse(b) \/ UNCHANGED store
    PROVE  ControlKeeps
<1>1. CASE Store!Apply(b)
  BY <1>1 DEF Store!StoreTypeOK, Store!Apply, ControlKeeps
<1>2. CASE Store!Revoke(b)
  BY <1>2 DEF Store!StoreTypeOK, Store!Revoke, ControlKeeps
<1>3. CASE Store!Lapse(b) \/ UNCHANGED store
  BY <1>3 DEF Store!Lapse, ControlKeeps, store
<1> QED
  BY <1>1, <1>2, <1>3

\* What a session knows stays true while the rows stay and controls are kept.
LEMMA SoundKeeps ==
    ASSUME NEW v \in Worker, Sound(sess[v]), sess[v] \in Session, sess'[v] = sess[v],
           UNCHANGED action, ControlKeeps
    PROVE  Sound(sess[v])'
<1>1. \A a \in sess[v].dirty : a \in Action
  BY DEF Session
<1> QED
  BY <1>1 DEF Sound, Shape, WorkIsDue, TodoIsFresh, DirtyIsDone, ControlKeeps

LEMMA RowsKeep ==
    ASSUME IInv, UNCHANGED <<incident, action>>, ControlKeeps
    PROVE  RowsAgree' /\ AppliedHasControl' /\ RolledBackIsRevoked'
BY DEF IInv, RowsAgree, AppliedHasControl, RolledBackIsRevoked, ControlKeeps, TypeOK

LEMMA SessionStep ==
    ASSUME IInv, TypeOK', ControlKeeps, ContainmentIsApproved', UNCHANGED <<incident, action>>,
           NEW w \in Worker, Sound(sess[w])',
           \A v \in Worker \ {w} : sess'[v] = sess[v] /\ sess'[w].locks \intersect sess[v].locks = {}
    PROVE  IInv'
<1>1. RowsAgree' /\ AppliedHasControl' /\ RolledBackIsRevoked'
  BY RowsKeep
<1>2. ASSUME NEW v \in Worker PROVE Sound(sess[v])'
  <2>1. CASE v # w
    BY <2>1, SoundKeeps DEF IInv, TypeOK
  <2> QED
    BY <2>1
<1>3. LocksExclusive'
  BY DEF IInv, LocksExclusive
<1> QED
  BY <1>1, <1>2, <1>3 DEF IInv

LEMMA IdleSound == ASSUME NEW v \in Worker, sess'[v] = Idle PROVE Sound(sess[v])'
<1>1. /\ Idle.op = "none" /\ Idle.pc = "idle" /\ Idle.locks = {}
      /\ Idle.todo = {} /\ Idle.dirty = {}
  BY DEF Idle
<1> QED
  BY <1>1 DEF Sound, Shape, WorkIsDue, Claimed, TodoIsFresh, DirtyIsDone

\* While the application and the network stay as they are, so does approval.
LEMMA ApprovalKeeps ==
    ASSUME ContainmentIsApproved, UNCHANGED <<incident, control, inFlight>>
    PROVE  ContainmentIsApproved'
BY DEF ContainmentIsApproved

\* A session that begins works on the actions it found due.
LEMMA BeginSound ==
    ASSUME IInv, TypeOK', NEW w \in Worker,
           \/ \E i \in Incident, scope \in {"automatic", "approved"} : DispatchBegin(w, i, scope)
           \/ \E a \in Action : RetryBegin(w, a) \/ RollbackBegin(w, a)
           \/ ExpireBegin(w)
    PROVE  IInv'
<1>0. ASSUME NEW s, Begin(w, s), Sound(s), UNCHANGED <<incident, action, store, inFlight>>,
             \A r \in s.locks : Free(w, r)
      PROVE  IInv'
  <2>1. sess'[w] = s /\ \A v \in Worker \ {w} : sess'[v] = sess[v]
    BY <1>0 DEF Begin, IInv, TypeOK
  <2>2. Sound(sess[w])'
    BY <1>0, <2>1 DEF Sound, Shape, WorkIsDue, TodoIsFresh, DirtyIsDone, store
  <2>3. \A v \in Worker \ {w} : sess'[w].locks \intersect sess[v].locks = {}
    BY <1>0, <2>1 DEF Free
  <2>4. ControlKeeps /\ ContainmentIsApproved'
    BY <1>0, ApprovalKeeps DEF ControlKeeps, store, IInv
  <2> QED
    BY <1>0, <2>1, <2>2, <2>3, <2>4, SessionStep
<1>1. ASSUME NEW i \in Incident, NEW scope \in {"automatic", "approved"}, DispatchBegin(w, i, scope)
      PROVE  IInv'
  <2> DEFINE s == [Idle EXCEPT !.op = "dispatch", !.pc = "call", !.locks = {i},
                               !.seen[i] = incident[i], !.cache = Loaded(Idle, i),
                               !.todo = Candidates(i, scope)]
  <2>1. /\ s.op = "dispatch" /\ s.pc = "call" /\ s.locks = {i}
        /\ s.todo = Candidates(i, scope) /\ s.dirty = {} /\ s.cache = Loaded(Idle, i)
    BY DEF Idle
  <2>2. ASSUME NEW a \in Candidates(i, scope)
        PROVE  /\ a \in ActionsOf(i)
               /\ action[a].status \in Due("dispatch", a)
               /\ Loaded(Idle, i)[a] = action[a]
               /\ action[a].attempts < MaxAttempts
    <3>1. a \in ActionsOf(i) /\ a \in Action /\ IncidentOf[a] = i
      BY DEF Candidates, ActionsOf
    <3>2. action[a].status \in Due("dispatch", a) /\ action[a].status \in Unstarted
      BY DEF Candidates, Due, Unstarted
    <3>3. Loaded(Idle, i)[a] = action[a]
      BY <3>1 DEF Loaded, Idle
    <3>4. action[a].attempts < MaxAttempts
      BY <3>1, <3>2, ControllerAssumption DEF IInv, RowsAgree
    <3> QED
      BY <3>1, <3>2, <3>3, <3>4
  <2> HIDE DEF s
  <2>3. Claimed(s) = Candidates(i, scope)
    BY <2>1, ControllerAssumption DEF Claimed
  <2>4. Sound(s)
    BY <2>1, <2>2, <2>3 DEF Sound, Shape, WorkIsDue, TodoIsFresh, DirtyIsDone
  <2> QED
    BY <1>0, <1>1, <2>1, <2>4 DEF DispatchBegin, s
<1>2. ASSUME NEW a \in Action, NEW op \in {"retry", "rollback"}, NEW s,
             s = [Idle EXCEPT !.op = op, !.pc = "call", !.locks = {a},
                              !.seen[IncidentOf[a]] = incident[IncidentOf[a]], !.cache[a] = action[a], !.todo = {a}],
             action[a].status \in Due(op, a),
             op = "retry" => action[a].attempts < MaxAttempts,
             op = "rollback" => a \in Containment
      PROVE  Sound(s) /\ s.locks = {a}
  <2>1. /\ s.op = op /\ s.pc = "call" /\ s.locks = {a} /\ s.todo = {a} /\ s.dirty = {}
        /\ s.cache[a] = action[a]
    BY <1>2 DEF Idle
  <2>2. Claimed(s) = {a}
    BY <2>1 DEF Claimed
  <2> QED
    BY <1>2, <2>1, <2>2 DEF Sound, Shape, WorkIsDue, TodoIsFresh, DirtyIsDone
<1>3. ASSUME NEW a \in Action, RetryBegin(w, a) PROVE IInv'
  <2> DEFINE s == [Idle EXCEPT !.op = "retry", !.pc = "call", !.locks = {a},
                               !.seen[IncidentOf[a]] = incident[IncidentOf[a]], !.cache[a] = action[a], !.todo = {a}]
  <2>1. Sound(s) /\ s.locks = {a}
    BY <1>2, <1>3 DEF RetryBegin, Retriable, Due
  <2>2. Begin(w, s) /\ Free(w, a) /\ UNCHANGED <<incident, action, store, inFlight>>
    BY <1>3 DEF RetryBegin
  <2> HIDE DEF s
  <2> QED
    BY <1>0, <2>1, <2>2
<1>4. ASSUME NEW a \in Action, RollbackBegin(w, a) PROVE IInv'
  <2> DEFINE s == [Idle EXCEPT !.op = "rollback", !.pc = "call", !.locks = {a},
                               !.seen[IncidentOf[a]] = incident[IncidentOf[a]], !.cache[a] = action[a], !.todo = {a}]
  <2>1. Sound(s) /\ s.locks = {a}
    BY <1>2, <1>4 DEF RollbackBegin, Due
  <2>2. Begin(w, s) /\ Free(w, a) /\ UNCHANGED <<incident, action, store, inFlight>>
    BY <1>4 DEF RollbackBegin
  <2> HIDE DEF s
  <2> QED
    BY <1>0, <2>1, <2>2
<1>5. CASE ExpireBegin(w)
  <2> DEFINE s == [Idle EXCEPT !.op = "expire", !.pc = "lock", !.todo = Expired,
                               !.cache = [a \in Action |-> IF a \in Expired THEN action[a] ELSE UnreadAction]]
  <2>1. s.op = "expire" /\ s.pc = "lock" /\ s.locks = {} /\ s.todo = Expired /\ s.dirty = {}
    BY DEF Idle
  <2> HIDE DEF s
  <2>2. Claimed(s) = Expired
    BY <2>1 DEF Claimed
  <2>3. Sound(s)
    BY <2>1, <2>2 DEF Sound, Shape, WorkIsDue, TodoIsFresh, DirtyIsDone, Expired, Due
  <2> QED
    BY <1>0, <1>5, <2>1, <2>3 DEF ExpireBegin, s
<1> QED
  BY <1>1, <1>3, <1>4, <1>5

\* A session that goes on keeps what it claimed.
LEMMA GoesOn ==
    ASSUME IInv, TypeOK', ControlKeeps, ContainmentIsApproved', UNCHANGED <<incident, action>>,
           NEW w \in Worker, sess' = [sess EXCEPT ![w] = sess'[w]],
           sess'[w].op = sess[w].op, sess'[w].locks = sess[w].locks,
           sess'[w].todo \subseteq sess[w].todo, sess'[w].dirty \subseteq sess[w].dirty \union sess[w].todo,
           Shape(sess[w])', TodoIsFresh(sess[w])', DirtyIsDone(sess[w])'
    PROVE  IInv'
<1>1. WorkIsDue(sess[w])'
  BY DEF IInv, Sound, WorkIsDue, Claimed
<1>2. \A v \in Worker \ {w} : sess'[v] = sess[v]
  BY DEF IInv, TypeOK
<1>3. \A v \in Worker \ {w} : sess'[w].locks \intersect sess[v].locks = {}
  BY DEF IInv, LocksExclusive
<1> QED
  BY <1>1, <1>2, <1>3, SessionStep DEF Sound

\* Executing an action.
LEMMA RecordSafe ==
    ASSUME IInv, TypeOK', ControlKeeps, ContainmentIsApproved', UNCHANGED <<incident, action>>,
           NEW w \in Worker, NEW a \in Action, Executes(w, a),
           NEW st \in Outcome(a), Record(w, a, st), st = "applied" => control'[a] # "absent"
    PROVE  IInv'
<1> DEFINE s == sess[w]
           t == sess'[w]
<1>1. s \in Session /\ Sound(s) /\ s.op \in {"dispatch", "retry"} /\ s.pc = "call" /\ a \in s.todo
  BY DEF IInv, TypeOK, Executes
<1>2. /\ t.op = s.op /\ t.pc = s.pc /\ t.locks = s.locks
      /\ t.todo = s.todo \ {a} /\ t.dirty = s.dirty \union {a}
      /\ \A b \in Action : t.cache[b] = IF b = a THEN [status |-> st, attempts |-> s.cache[a].attempts + 1] ELSE s.cache[b]
      /\ sess' = [sess EXCEPT ![w] = t]
  <2> DEFINE row == [status |-> st, attempts |-> s.cache[a].attempts + 1]
             u == [s EXCEPT !.cache = [@ EXCEPT ![a] = row], !.todo = @ \ {a}, !.dirty = @ \union {a}]
  <2>1. sess \in [Worker -> Session]
    BY DEF IInv, TypeOK
  <2>2. sess' = [sess EXCEPT ![w] = u]
    BY <1>1, <2>1 DEF Record, Session
  <2>3. t = u /\ sess' = [sess EXCEPT ![w] = t]
    BY <2>1, <2>2
  <2> QED
    BY <1>1, <2>3 DEF Session
<1>3. s.todo \subseteq Action /\ s.dirty \subseteq Action
  BY <1>1 DEF Session
<1>4. Shape(sess[w])'
  BY <1>1, <1>2 DEF Sound, Shape
<1>5. TodoIsFresh(sess[w])'
  BY <1>1, <1>2, <1>3 DEF Sound, TodoIsFresh
<1>6. DirtyIsDone(sess[w])'
  BY <1>1, <1>2, <1>3 DEF Sound, DirtyIsDone, ControlKeeps
<1> QED
  BY <1>1, <1>2, <1>4, <1>5, <1>6, GoesOn

\* Before a request for containment leaves the controller, its action was approved.
LEMMA ExecutesApproved ==
    ASSUME IInv, NEW w \in Worker, NEW a \in Action, Executes(w, a), a \notin Automatic
    PROVE  a \in Containment /\ incident[IncidentOf[a]].decision = "approve"
<1>1. Sound(sess[w]) /\ sess[w].op \in {"dispatch", "retry"} /\ a \in Claimed(sess[w])
  BY DEF IInv, Executes, Claimed
<1>2. action[a].status \in {"approved", "failed"}
  BY <1>1 DEF Sound, WorkIsDue, Due
<1> QED
  BY <1>2 DEF IInv, RowsAgree, Containment

LEMMA ExecuteSafe ==
    ASSUME IInv, TypeOK', NEW w \in Worker, NEW a \in Action,
           CollectEvidence(w, a) \/ Simulate(w, a) \/ ApplyAnswered(w, a) \/ ApplyFailed(w, a)
    PROVE  IInv'
<1>1. CASE CollectEvidence(w, a) \/ Simulate(w, a)
  <2>1. ControlKeeps /\ ContainmentIsApproved' /\ UNCHANGED <<incident, action>> /\ Executes(w, a)
    BY <1>1, ApprovalKeeps DEF CollectEvidence, Simulate, ControlKeeps, store, IInv
  <2>2. \E st \in Outcome(a) : Record(w, a, st) /\ st # "applied"
    BY <1>1 DEF CollectEvidence, Simulate, Outcome
  <2> QED
    BY <2>1, <2>2, RecordSafe
<1>2. CASE ApplyAnswered(w, a)
  <2>1. /\ Store!Apply(a) /\ UNCHANGED <<incident, action, inFlight>> /\ Executes(w, a)
        /\ a \notin Automatic /\ Record(w, a, "applied")
    BY <1>2 DEF ApplyAnswered
  <2>2. ControlKeeps
    BY <2>1, StoreKeeps DEF IInv, TypeOK
  <2>3. control'[a] # "absent" /\ \A b \in Action \ {a} : control'[b] = control[b]
    BY <2>1 DEF Store!Apply, IInv, TypeOK, Store!StoreTypeOK
  <2>4. ContainmentIsApproved'
    BY <2>1, <2>3, ExecutesApproved DEF ContainmentIsApproved, IInv
  <2>5. "applied" \in Outcome(a)
    BY <2>1 DEF Outcome
  <2> QED
    BY <2>1, <2>2, <2>3, <2>4, <2>5, RecordSafe
<1>3. CASE ApplyFailed(w, a)
  <2>1. /\ UNCHANGED <<incident, action, control>> /\ Executes(w, a) /\ a \notin Automatic
        /\ Record(w, a, "failed") /\ inFlight' \subseteq inFlight \union {[kind |-> "apply", act |-> a]}
    BY <1>3 DEF ApplyFailed, Unanswered, store
  <2>2. ContainmentIsApproved'
    <3> SUFFICES ASSUME NEW b \in Action, control[b] # "absent" \/ [kind |-> "apply", act |-> b] \in inFlight'
                 PROVE  b \in Containment /\ incident[IncidentOf[b]].decision = "approve"
      BY <2>1 DEF ContainmentIsApproved
    <3>1. CASE b = a
      BY <2>1, <3>1, ExecutesApproved
    <3>2. CASE b # a
      BY <2>1, <3>2 DEF ContainmentIsApproved, IInv
    <3> QED
      BY <3>1, <3>2
  <2>3. ControlKeeps /\ "failed" \in Outcome(a)
    BY <2>1 DEF ControlKeeps, Outcome
  <2> QED
    BY <2>1, <2>2, <2>3, RecordSafe
<1> QED
  BY <1>1, <1>2, <1>3

\* Recompute and CloseIncident look at the other actions and change none.
LEMMA ReadersSafe ==
    ASSUME IInv, TypeOK', NEW w \in Worker,
           (\E i \in Incident : Recompute(w, i)) \/ (\E a \in Action : CloseIncident(w, a))
    PROVE  IInv'
<1> DEFINE s == sess[w]
           t == sess'[w]
<1>1. s \in Session /\ Sound(s)
  BY DEF IInv, TypeOK
<1>2. ControlKeeps /\ ContainmentIsApproved' /\ UNCHANGED <<incident, action, control>>
  BY ApprovalKeeps DEF Recompute, CloseIncident, ControlKeeps, store, IInv
<1>3. \A i : \A b \in s.dirty : s.op # "none" => Loaded(s, i)[b] = s.cache[b]
  <2> SUFFICES ASSUME NEW i, NEW b \in s.dirty, s.op # "none" PROVE Loaded(s, i)[b] = s.cache[b]
    OBVIOUS
  <2>1. b \in Action /\ s.cache[b].status # "unread"
    BY <1>1 DEF Session, Sound, DirtyIsDone, Outcome
  <2> QED
    BY <2>1 DEF Loaded, UnreadAction
<1>4. ASSUME NEW i \in Incident, Recompute(w, i) PROVE IInv'
  <2>1. /\ t.op = s.op /\ t.pc = "commit" /\ t.locks = s.locks /\ t.todo = s.todo /\ t.dirty = s.dirty
        /\ t.cache = Loaded(s, i) /\ sess' = [sess EXCEPT ![w] = t]
    <3> DEFINE new == StatusFor(s.seen[i].decision, Statuses(Loaded(s, i), i))
               write == [s.write EXCEPT ![i] = StatusWrite(s, i, new)]
               u == [s EXCEPT !.cache = Loaded(s, i), !.write = write, !.pc = "commit"]
    <3>1. sess \in [Worker -> Session]
      BY DEF IInv, TypeOK
    <3>2. sess' = [sess EXCEPT ![w] = u]
      BY <1>1, <1>4, <3>1 DEF Recompute, Session
    <3> HIDE DEF write
    <3>3. t = u /\ sess' = [sess EXCEPT ![w] = t]
      BY <3>1, <3>2
    <3> QED
      BY <1>1, <3>3 DEF Session
  <2>2. s.op \in {"dispatch", "retry"} /\ s.todo = {}
    BY <1>4 DEF Recompute
  <2>3. Shape(sess[w])' /\ TodoIsFresh(sess[w])'
    BY <1>1, <2>1, <2>2 DEF Sound, Shape, TodoIsFresh
  <2>4. DirtyIsDone(sess[w])'
    BY <1>1, <1>2, <1>3, <2>1, <2>2 DEF Sound, DirtyIsDone
  <2> QED
    BY <1>2, <2>1, <2>3, <2>4, GoesOn
<1>5. ASSUME NEW a \in Action, CloseIncident(w, a) PROVE IInv'
  <2>1. /\ t.op = s.op /\ t.pc = AfterAction(s.todo \ {a}) /\ t.locks = s.locks /\ t.todo = s.todo \ {a}
        /\ t.dirty = s.dirty /\ t.cache = Loaded(s, IncidentOf[a]) /\ sess' = [sess EXCEPT ![w] = t]
    <3> DEFINE i == IncidentOf[a]
               rows == Loaded(s, i)
               write == [s.write EXCEPT ![i] = IF LastApplied(rows, a) THEN StatusWrite(s, i, "closed") ELSE @]
               u == [s EXCEPT !.cache = rows, !.write = write, !.todo = @ \ {a}, !.pc = AfterAction(s.todo \ {a})]
    <3>1. sess \in [Worker -> Session]
      BY DEF IInv, TypeOK
    <3>2. sess' = [sess EXCEPT ![w] = u]
      BY <1>1, <1>5, <3>1 DEF CloseIncident, Session
    <3> HIDE DEF write, rows
    <3>3. t = u /\ sess' = [sess EXCEPT ![w] = t]
      BY <3>1, <3>2
    <3> QED
      BY <1>1, <3>3 DEF Session, rows
  <2>2. s.op \in {"rollback", "expire"} /\ a \in s.todo
    <3>1. Idle.pc = "idle"
      BY DEF Idle
    <3>2. s.pc = "close" /\ a \in s.todo
      BY <1>5 DEF CloseIncident
    <3> QED
      BY <1>1, <3>1, <3>2 DEF Sound, Shape, Session
  <2>3. Shape(sess[w])' /\ TodoIsFresh(sess[w])'
    BY <1>1, <2>1, <2>2 DEF Sound, Shape, TodoIsFresh, AfterAction
  <2>4. DirtyIsDone(sess[w])'
    BY <1>1, <1>2, <1>3, <2>1, <2>2 DEF Sound, DirtyIsDone
  <2> QED
    BY <1>2, <2>1, <2>3, <2>4, GoesOn
<1> QED
  BY <1>4, <1>5

LEMMA ExpireLockSafe ==
    ASSUME IInv, TypeOK', NEW w \in Worker, NEW a \in Action, ExpireLock(w, a)
    PROVE  IInv'
<1> DEFINE s == sess[w]
           t == sess'[w]
<1>1. sess \in [Worker -> Session] /\ s \in Session /\ Sound(s)
  BY DEF IInv, TypeOK
<1>2. s.pc = "lock" /\ a \in s.todo /\ Free(w, a) /\ UNCHANGED <<incident, action, store, inFlight>>
  BY DEF ExpireLock, NextExpired
<1>3. s.op = "expire"
  <2>1. Idle.pc = "idle"
    BY DEF Idle
  <2> QED
    BY <1>1, <1>2, <2>1 DEF Sound, Shape, Session
<1>4. /\ t.op = s.op /\ t.pc = "call" /\ t.locks = s.locks \union {a} /\ t.todo = s.todo
      /\ t.dirty = s.dirty /\ t.cache = s.cache /\ sess' = [sess EXCEPT ![w] = t]
  <2> DEFINE i == IncidentOf[a]
             seen == [s.seen EXCEPT ![i] = IF @ = UnreadIncident THEN incident[i] ELSE @]
             u == [s EXCEPT !.locks = @ \union {a}, !.pc = "call", !.seen = seen]
  <2>1. sess' = [sess EXCEPT ![w] = u]
    BY <1>1 DEF ExpireLock, Session
  <2> HIDE DEF seen
  <2>2. t = u /\ sess' = [sess EXCEPT ![w] = t]
    BY <1>1, <2>1
  <2> QED
    BY <1>1, <2>2 DEF Session
<1>5. ControlKeeps /\ ContainmentIsApproved'
  BY <1>2, ApprovalKeeps DEF ControlKeeps, store, IInv
<1>6. Sound(sess[w])'
  <2>1. Shape(sess[w])'
    BY <1>1, <1>2, <1>3, <1>4 DEF Sound, Shape
  <2>2. WorkIsDue(sess[w])'
    BY <1>1, <1>2, <1>4 DEF Sound, WorkIsDue, Claimed
  <2>3. TodoIsFresh(sess[w])' /\ DirtyIsDone(sess[w])'
    BY <1>1, <1>2, <1>3, <1>4 DEF Sound, TodoIsFresh, DirtyIsDone, store
  <2> QED
    BY <2>1, <2>2, <2>3 DEF Sound
<1>7. \A v \in Worker \ {w} : sess'[v] = sess[v] /\ sess'[w].locks \intersect sess[v].locks = {}
  BY <1>1, <1>2, <1>4 DEF IInv, LocksExclusive, Free
<1> QED
  BY <1>2, <1>5, <1>6, <1>7, SessionStep

LEMMA RevertsShape ==
    ASSUME IInv, NEW w \in Worker, NEW a \in Action, Reverts(w, a)
    PROVE  control[a] # "absent" /\ a \in Containment
<1>1. Sound(sess[w]) /\ a \in Claimed(sess[w]) /\ sess[w].op \in {"rollback", "expire"}
  BY DEF IInv, Reverts, Claimed
<1>2. action[a].status \in {"applied", "rolled_back"}
  BY <1>1 DEF Sound, WorkIsDue, Due
<1>3. a \in Containment
  BY <1>1 DEF Sound, Shape, Reverts
<1> QED
  BY <1>2, <1>3 DEF IInv, AppliedHasControl, RolledBackIsRevoked

LEMMA RevokeAnsweredSafe ==
    ASSUME IInv, TypeOK', NEW w \in Worker, NEW a \in Action, RevokeAnswered(w, a)
    PROVE  IInv'
<1> DEFINE s == sess[w]
           t == sess'[w]
<1>1. sess \in [Worker -> Session] /\ s \in Session /\ Sound(s)
  BY DEF IInv, TypeOK
<1>2. /\ s.pc = "call" /\ s.op \in {"rollback", "expire"} /\ a \in s.todo \intersect s.locks
      /\ Store!Revoke(a) /\ UNCHANGED <<incident, action, inFlight>>
  BY DEF RevokeAnswered, Reverts
<1>3. control' = [control EXCEPT ![a] = "revoked"] /\ control \in [Action -> {"absent", "active", "revoked"}]
  BY <1>2 DEF Store!Revoke, IInv, TypeOK, Store!StoreTypeOK
<1>4. /\ t.op = s.op /\ t.pc = "close" /\ t.locks = s.locks /\ t.todo = s.todo /\ t.dirty = s.dirty \union {a}
      /\ \A b \in Action : IF b = a THEN t.cache[b].status = "rolled_back" ELSE t.cache[b] = s.cache[b]
      /\ sess' = [sess EXCEPT ![w] = t]
  <2> DEFINE cache == [s.cache EXCEPT ![a] = [@ EXCEPT !.status = "rolled_back"]]
             u == [s EXCEPT !.cache = cache, !.dirty = @ \union {a}, !.pc = "close"]
  <2>1. sess' = [sess EXCEPT ![w] = u]
    BY <1>1 DEF RevokeAnswered, Session
  <2>2. t = u /\ sess' = [sess EXCEPT ![w] = t]
    BY <1>1, <2>1
  <2>3. s.cache[a] \in ActionRow \union {UnreadAction}
    BY <1>1 DEF Session
  <2>4. [s.cache[a] EXCEPT !.status = "rolled_back"].status = "rolled_back"
    BY <2>3 DEF ActionRow, UnreadAction
  <2> QED
    BY <1>1, <2>2, <2>4 DEF Session
<1>5. ControlKeeps
  BY <1>2, StoreKeeps DEF IInv, TypeOK
<1>6. ContainmentIsApproved'
  BY <1>2, <1>3, RevertsShape DEF ContainmentIsApproved, IInv, RevokeAnswered
<1>7. Shape(sess[w])' /\ TodoIsFresh(sess[w])'
  BY <1>1, <1>2, <1>4 DEF Sound, Shape, TodoIsFresh
<1>8. DirtyIsDone(sess[w])'
  <2>1. s.dirty \subseteq Action
    BY <1>1 DEF Session
  <2> QED
    BY <1>1, <1>2, <1>3, <1>4, <2>1 DEF Sound, DirtyIsDone
<1> QED
  BY <1>2, <1>4, <1>5, <1>6, <1>7, <1>8, GoesOn

LEMMA RevokeFailedSafe ==
    ASSUME IInv, TypeOK', NEW w \in Worker, NEW a \in Action, RevokeFailed(w, a)
    PROVE  IInv'
<1> DEFINE s == sess[w]
           t == sess'[w]
<1>1. sess \in [Worker -> Session] /\ s \in Session /\ Sound(s)
  BY DEF IInv, TypeOK
<1>2. /\ s.pc = "call" /\ s.op \in {"rollback", "expire"} /\ a \in s.todo
      /\ UNCHANGED <<incident, action, control>>
      /\ inFlight' \subseteq inFlight \union {[kind |-> "revoke", act |-> a]}
  BY DEF RevokeFailed, Reverts, Unanswered, store
<1>3. ControlKeeps /\ ContainmentIsApproved'
  BY <1>2 DEF ControlKeeps, ContainmentIsApproved, IInv
<1>4. CASE s.op = "rollback"
  <2>1. t = Idle /\ \A v \in Worker \ {w} : sess'[v] = sess[v]
    BY <1>1, <1>4 DEF RevokeFailed
  <2>2. Sound(sess[w])'
    BY <2>1, IdleSound
  <2>3. t.locks = {}
    BY <2>1 DEF Idle
  <2> QED
    BY <1>2, <1>3, <2>1, <2>2, <2>3, SessionStep
<1>5. CASE s.op = "expire"
  <2>1. /\ t.op = s.op /\ t.pc = AfterAction(s.todo \ {a}) /\ t.locks = s.locks /\ t.todo = s.todo \ {a}
        /\ t.dirty = s.dirty /\ t.cache = s.cache /\ sess' = [sess EXCEPT ![w] = t]
    <3> DEFINE u == [s EXCEPT !.todo = @ \ {a}, !.pc = AfterAction(s.todo \ {a})]
    <3>1. sess' = [sess EXCEPT ![w].todo = s.todo \ {a}, ![w].pc = AfterAction(s.todo \ {a})]
      BY <1>5 DEF RevokeFailed
    <3>2. sess' = [sess EXCEPT ![w] = u]
      BY <1>1, <3>1 DEF Session
    <3>3. t = u /\ sess' = [sess EXCEPT ![w] = t]
      BY <1>1, <3>2
    <3> QED
      BY <1>1, <3>3 DEF Session
  <2>2. Shape(sess[w])' /\ TodoIsFresh(sess[w])'
    BY <1>1, <1>5, <2>1 DEF Sound, Shape, TodoIsFresh, AfterAction
  <2>3. DirtyIsDone(sess[w])'
    BY <1>1, <1>2, <2>1 DEF Sound, DirtyIsDone
  <2> QED
    BY <1>2, <1>3, <2>1, <2>2, <2>3, GoesOn
<1> QED
  BY <1>2, <1>4, <1>5

-----------------------------------------------------------------------------
(* Steps that change committed rows *)

\* What one session has changed, another one can at most have in its list of
\* expired actions: the statuses they work on or the locks they hold exclude it.
LEMMA OthersExpire ==
    ASSUME IInv, NEW w \in Worker, NEW v \in Worker \ {w}, NEW a \in Action,
           a \in sess[w].dirty, a \in Claimed(sess[v])
    PROVE  sess[v].op = "expire" /\ sess[w].op \in {"rollback", "expire"}
<1> DEFINE s == sess[w]
           t == sess[v]
<1>1. s \in Session /\ t \in Session /\ Sound(s) /\ Sound(t) /\ s.locks \intersect t.locks = {}
  BY DEF IInv, TypeOK, LocksExclusive
<1>2. action[a].status \in Due(s.op, a) \intersect Due(t.op, a)
  BY <1>1 DEF Sound, WorkIsDue, Claimed
<1>3. s.op \in {"dispatch", "retry", "rollback", "expire"} /\ t.op \in {"dispatch", "retry", "rollback", "expire"}
  BY <1>1, <1>2 DEF Due, Session
<1>4. \/ s.op = t.op
      \/ s.op \in {"rollback", "expire"} /\ t.op \in {"rollback", "expire"}
  BY <1>2, <1>3 DEF Due
<1>5. ~(s.op = "dispatch" /\ t.op = "dispatch")
  <2> SUFFICES ASSUME s.op = "dispatch", t.op = "dispatch" PROVE FALSE
    OBVIOUS
  <2>1. PICK i \in Incident : s.locks = {i} /\ s.todo \union s.dirty \subseteq ActionsOf(i)
    BY <1>1 DEF Sound, Shape
  <2>2. PICK j \in Incident : t.locks = {j} /\ t.todo \union t.dirty \subseteq ActionsOf(j)
    BY <1>1 DEF Sound, Shape
  <2>3. a \in ActionsOf(j)
    BY <2>2, ControllerAssumption DEF Claimed
  <2> QED
    BY <1>1, <2>1, <2>2, <2>3 DEF ActionsOf
<1>6. s.op \in {"retry", "rollback", "expire"} => a \in s.locks
  BY <1>1 DEF Sound, Shape
<1>7. t.op \in {"retry", "rollback"} => a \in t.locks
  BY <1>1 DEF Sound, Shape, Claimed
<1> QED
  BY <1>1, <1>3, <1>4, <1>5, <1>6, <1>7

\* What a commit makes of the rows.
LEMMA CommitRows ==
    ASSUME IInv, NEW w \in Worker, Commit(w)
    PROVE  /\ UNCHANGED <<control, inFlight>>
           /\ sess'[w] = Idle /\ \A v \in Worker \ {w} : sess'[v] = sess[v]
           /\ \A i \in Incident : /\ incident'[i].decision = incident[i].decision
                                  /\ incident'[i].status = "absent" => incident[i].status = "absent"
           /\ \A a \in Action : action'[a] = IF a \in sess[w].dirty THEN sess[w].cache[a] ELSE action[a]
<1>1. sess \in [Worker -> Session] /\ sess[w] \in Session /\ incident \in [Incident -> IncidentRow]
  BY DEF IInv, TypeOK
<1>2. \A i \in Incident : sess[w].write[i] # "absent"
  BY <1>1 DEF Session, IncidentStatus
<1>3. \A i \in Incident : /\ incident'[i].decision = incident[i].decision
                          /\ incident'[i].status = "absent" => incident[i].status = "absent"
  BY <1>1, <1>2 DEF Commit, IncidentRow
<1> QED
  BY <1>1, <1>3 DEF Commit, store

LEMMA CommitSafe ==
    ASSUME IInv, TypeOK', NEW w \in Worker, Commit(w)
    PROVE  IInv'
<1> DEFINE s == sess[w]
<1>1. /\ sess \in [Worker -> Session] /\ s \in Session /\ Sound(s) /\ s.op # "none"
      /\ s.dirty \subseteq Action
  <2>1. sess \in [Worker -> Session] /\ s \in Session /\ Sound(s) /\ s.dirty \subseteq Action
    BY DEF IInv, TypeOK, Session
  <2>2. s.pc = "commit" /\ Idle.pc = "idle"
    BY DEF Commit, Idle
  <2>3. s.op # "none"
    BY <2>1, <2>2 DEF Sound, Shape
  <2> QED
    BY <2>1, <2>3
<1>2. \A a \in s.dirty : action[a].status \in Due(s.op, a)
  BY <1>1 DEF Sound, WorkIsDue, Claimed
<1>3. ASSUME NEW v \in Worker PROVE Sound(sess[v])'
  <2>1. CASE v = w
    BY <2>1, CommitRows, IdleSound
  <2>2. CASE v # w
    <3>1. sess'[v] = sess[v] /\ Sound(sess[v]) /\ sess[v] \in Session
      BY <1>1, <2>2, CommitRows DEF IInv
    <3>2. Claimed(sess[v]) \subseteq Action
      BY <3>1 DEF Claimed, Session
    <3>3. ASSUME NEW a \in Claimed(sess[v]) PROVE action'[a].status \in Due(sess[v].op, a)
      <4>1. CASE a \in s.dirty
        <5>1. sess[v].op = "expire" /\ s.op \in {"rollback", "expire"}
          BY <2>2, <3>2, <4>1, OthersExpire
        <5>2. action'[a].status = "rolled_back"
          BY <1>1, <4>1, <5>1, CommitRows DEF Sound, DirtyIsDone
        <5> QED
          BY <5>1, <5>2 DEF Due
      <4>2. CASE a \notin s.dirty
        BY <3>1, <3>2, <4>2, CommitRows DEF Sound, WorkIsDue
      <4> QED
        BY <4>1, <4>2
    <3>4. ASSUME sess[v].op \in {"dispatch", "retry"}, NEW a \in sess[v].todo PROVE action'[a] = action[a]
      <4>1. a \in Action /\ a \in Claimed(sess[v])
        BY <3>2 DEF Claimed
      <4>2. a \notin s.dirty
        BY <2>2, <3>4, <4>1, OthersExpire
      <4> QED
        BY <4>1, <4>2, CommitRows
    <3>5. WorkIsDue(sess[v])'
      BY <3>1, <3>3 DEF WorkIsDue, Claimed
    <3>6. TodoIsFresh(sess[v])'
      BY <3>1, <3>4 DEF Sound, TodoIsFresh
    <3>7. Shape(sess[v])' /\ DirtyIsDone(sess[v])'
      BY <3>1, CommitRows DEF Sound, Shape, DirtyIsDone
    <3> QED
      BY <3>5, <3>6, <3>7 DEF Sound
  <2> QED
    BY <2>1, <2>2
<1>4. LocksExclusive'
  BY CommitRows DEF IInv, LocksExclusive, Idle
<1>5. ASSUME NEW a \in s.dirty
      PROVE  /\ s.op \in {"dispatch", "retry"} => action'[a].status \in Outcome(a)
             /\ s.op \in {"rollback", "expire"} => action'[a].status = "rolled_back" /\ a \in Containment
             /\ action'[a].status = "applied" => control'[a] # "absent"
             /\ action'[a].status = "rolled_back" => control'[a] = "revoked"
             /\ a \in Containment => incident[IncidentOf[a]].decision = "approve"
  <2>1. s.op \in {"dispatch", "retry", "rollback", "expire"}
    BY <1>1 DEF Session
  <2>2. s.op \in {"rollback", "expire"} => a \in Containment
    BY <1>1 DEF Sound, Shape
  <2>3. a \in Containment => incident[IncidentOf[a]].decision = "approve"
    BY <1>1, <1>2, <2>1 DEF IInv, RowsAgree, Due, Containment
  <2> QED
    BY <1>1, <2>1, <2>2, <2>3, CommitRows DEF Sound, DirtyIsDone, Outcome
<1>6. RowsAgree'
  <2>1. \A i \in Incident : incident'[i].status = "absent" =>
          /\ incident'[i].decision = "none"
          /\ \A a \in ActionsOf(i) : action'[a].status = "absent"
    <3> SUFFICES ASSUME NEW i \in Incident, incident'[i].status = "absent"
                 PROVE  incident'[i].decision = "none" /\ \A a \in ActionsOf(i) : action'[a].status = "absent"
      OBVIOUS
    <3>1. incident[i].decision = "none" /\ \A a \in ActionsOf(i) : action[a].status = "absent"
      BY CommitRows DEF IInv, RowsAgree
    <3>2. ASSUME NEW a \in ActionsOf(i) PROVE a \notin s.dirty
      BY <1>2, <3>1 DEF Due
    <3> QED
      BY <3>1, <3>2, CommitRows DEF ActionsOf
  <2>2. ASSUME NEW a \in Action
        PROVE  /\ action'[a].status \in Unstarted => action'[a].attempts = 0
               /\ a \in Automatic => action'[a].status \in {"absent", "pending", "completed", "failed"}
               /\ a \in Containment => action'[a].status \notin {"pending", "completed"}
               /\ a \in Containment /\ action'[a].status \in {"approved", "applied", "failed", "simulated", "rolled_back"}
                    => incident'[IncidentOf[a]].decision = "approve"
    <3>0. incident'[IncidentOf[a]].decision = incident[IncidentOf[a]].decision
      BY CommitRows, ControllerAssumption
    <3>1. CASE a \in s.dirty
      <4>1. s.op \in {"dispatch", "retry", "rollback", "expire"}
        BY <1>1 DEF Session
      <4>2. action'[a].status \in {"completed", "failed", "applied", "simulated", "rolled_back"}
        BY <1>5, <3>1, <4>1 DEF Outcome
      <4> QED
        BY <1>5, <3>0, <3>1, <4>1, <4>2 DEF Outcome, Unstarted, InitialContainment, Containment
    <3>2. CASE a \notin s.dirty
      BY <3>0, <3>2, CommitRows DEF IInv, RowsAgree
    <3> QED
      BY <3>1, <3>2
  <2> QED
    BY <2>1, <2>2 DEF RowsAgree
<1>7. AppliedHasControl' /\ RolledBackIsRevoked'
  BY <1>5, CommitRows DEF IInv, AppliedHasControl, RolledBackIsRevoked
<1>8. ContainmentIsApproved'
  BY CommitRows, ControllerAssumption DEF IInv, ContainmentIsApproved
<1> QED
  BY <1>3, <1>4, <1>6, <1>7, <1>8 DEF IInv

\* Triage and decision touch only actions that no session works on.
LEMMA RowStep ==
    ASSUME IInv, TypeOK', UNCHANGED <<sess, control, inFlight>>,
           \A a \in Action : action'[a] = action[a]
              \/ (action[a].status \in {"absent", "pending_approval"} /\ action'[a].status \in Unstarted),
           \A i \in Incident : incident'[i].decision = incident[i].decision \/ incident[i].decision = "none",
           RowsAgree'
    PROVE  IInv'
<1>1. ASSUME NEW w \in Worker PROVE Sound(sess[w])'
  <2>1. sess[w] \in Session /\ Sound(sess[w]) /\ sess'[w] = sess[w]
    BY DEF IInv, TypeOK
  <2>2. Claimed(sess[w]) \subseteq Action /\ sess[w].todo \subseteq Claimed(sess[w])
    BY <2>1 DEF Claimed, Session
  <2>3. \A a \in Claimed(sess[w]) : action'[a] = action[a]
    BY <2>1, <2>2 DEF Sound, WorkIsDue, Due
  <2> QED
    BY <2>1, <2>2, <2>3 DEF Sound, Shape, WorkIsDue, Claimed, TodoIsFresh, DirtyIsDone
<1>2. LocksExclusive'
  BY DEF IInv, LocksExclusive
<1>3. AppliedHasControl' /\ RolledBackIsRevoked'
  BY DEF IInv, AppliedHasControl, RolledBackIsRevoked, Unstarted, InitialContainment
<1>4. ContainmentIsApproved'
  BY ControllerAssumption DEF IInv, ContainmentIsApproved
<1> QED
  BY <1>1, <1>2, <1>3, <1>4 DEF IInv

LEMMA CreateSafe ==
    ASSUME IInv, TypeOK', NEW i \in Incident, CreateIncident(i)
    PROVE  IInv'
<1>1. PICK born \in [ActionsOf(i) -> InitialAutomatic \union InitialContainment] :
        /\ \A a \in ActionsOf(i) : born[a] \in IF a \in Automatic THEN InitialAutomatic ELSE InitialContainment
        /\ action' = [a \in Action |-> IF IncidentOf[a] = i THEN [action[a] EXCEPT !.status = born[a]] ELSE action[a]]
        /\ incident' = [incident EXCEPT ![i].status = StatusFor("none", {born[a] : a \in ActionsOf(i)})]
  BY DEF CreateIncident
<1>2. /\ incident[i].status = "absent" /\ incident[i].decision = "none"
      /\ \A a \in ActionsOf(i) : action[a].status = "absent" /\ action[a].attempts = 0
  BY DEF CreateIncident, IInv, RowsAgree, ActionsOf, Unstarted
<1>3. ASSUME NEW a \in Action, IncidentOf[a] = i
      PROVE  /\ action'[a].status = born[a] /\ action'[a].attempts = 0 /\ a \in ActionsOf(i)
             /\ born[a] \in IF a \in Automatic THEN {"pending"} ELSE InitialContainment
  <2>1. a \in ActionsOf(i) /\ action[a] \in ActionRow
    BY <1>3 DEF ActionsOf, IInv, TypeOK
  <2> QED
    BY <1>1, <1>2, <1>3, <2>1 DEF ActionRow, InitialAutomatic
<1>4. \A a \in Action : IncidentOf[a] # i => action'[a] = action[a]
  BY <1>1
<1>5. /\ \A j \in Incident : incident'[j].decision = incident[j].decision
      /\ \A j \in Incident \ {i} : incident'[j] = incident[j]
      /\ incident'[i].status # "absent"
  <2>1. StatusFor("none", {born[a] : a \in ActionsOf(i)}) # "absent"
    BY StatusForType DEF IncidentStatus
  <2>2. incident \in [Incident -> IncidentRow]
    BY DEF IInv, TypeOK
  <2> QED
    BY <1>1, <2>1, <2>2 DEF IncidentRow
<1>6. RowsAgree'
  <2>1. \A j \in Incident : incident'[j].status = "absent" =>
          /\ incident'[j].decision = "none"
          /\ \A a \in ActionsOf(j) : action'[a].status = "absent"
    BY <1>4, <1>5 DEF IInv, RowsAgree, ActionsOf
  <2>2. ASSUME NEW a \in Action
        PROVE  /\ action'[a].status \in Unstarted => action'[a].attempts = 0
               /\ a \in Automatic => action'[a].status \in {"absent", "pending", "completed", "failed"}
               /\ a \in Containment => action'[a].status \notin {"pending", "completed"}
               /\ a \in Containment /\ action'[a].status \in {"approved", "applied", "failed", "simulated", "rolled_back"}
                    => incident'[IncidentOf[a]].decision = "approve"
    <3>1. CASE IncidentOf[a] = i
      BY <1>3, <3>1 DEF InitialContainment, Containment
    <3>2. CASE IncidentOf[a] # i
      BY <1>4, <1>5, <3>2, ControllerAssumption DEF IInv, RowsAgree
    <3> QED
      BY <3>1, <3>2
  <2> QED
    BY <2>1, <2>2 DEF RowsAgree
<1>7. \A a \in Action : action'[a] = action[a]
         \/ (action[a].status \in {"absent", "pending_approval"} /\ action'[a].status \in Unstarted)
  <2> SUFFICES ASSUME NEW a \in Action
               PROVE  action'[a] = action[a]
                 \/ (action[a].status \in {"absent", "pending_approval"} /\ action'[a].status \in Unstarted)
    OBVIOUS
  <2>1. CASE IncidentOf[a] = i
    <3>1. action'[a].status \in {"pending"} \union InitialContainment
      BY <1>3, <2>1
    <3> QED
      BY <1>2, <1>3, <2>1, <3>1 DEF Unstarted
  <2>2. CASE IncidentOf[a] # i
    BY <1>4, <2>2
  <2> QED
    BY <2>1, <2>2
<1> QED
  BY <1>5, <1>6, <1>7, RowStep DEF CreateIncident, store

LEMMA DecideSafe ==
    ASSUME IInv, TypeOK', NEW i \in Incident, NEW d \in Decision, Decide(i, d)
    PROVE  IInv'
<1>1. /\ incident[i].decision = "none"
      /\ incident'[i].decision = d
      /\ incident'[i].status # "absent"
      /\ \A j \in Incident \ {i} : incident'[j] = incident[j]
  <2>1. incident \in [Incident -> IncidentRow]
    BY DEF IInv, TypeOK
  <2> QED
    BY <2>1 DEF Decide
<1>2. ASSUME NEW a \in Action
      PROVE  IF IncidentOf[a] = i /\ action[a].status = "pending_approval"
             THEN /\ action'[a].status = IF d = "approve" THEN "approved" ELSE "skipped"
                  /\ action'[a].attempts = action[a].attempts
             ELSE action'[a] = action[a]
  <2>1. action[a] \in ActionRow
    BY DEF IInv, TypeOK
  <2> QED
    BY <2>1 DEF Decide, ActionRow
<1>3. RowsAgree'
  <2>1. \A j \in Incident : incident'[j].status = "absent" =>
          /\ incident'[j].decision = "none"
          /\ \A a \in ActionsOf(j) : action'[a].status = "absent"
    BY <1>1, <1>2 DEF IInv, RowsAgree, ActionsOf
  <2>2. ASSUME NEW a \in Action
        PROVE  /\ action'[a].status \in Unstarted => action'[a].attempts = 0
               /\ a \in Automatic => action'[a].status \in {"absent", "pending", "completed", "failed"}
               /\ a \in Containment => action'[a].status \notin {"pending", "completed"}
               /\ a \in Containment /\ action'[a].status \in {"approved", "applied", "failed", "simulated", "rolled_back"}
                    => incident'[IncidentOf[a]].decision = "approve"
    <3>1. CASE IncidentOf[a] = i /\ action[a].status = "pending_approval"
      <4>1. action[a].attempts = 0 /\ a \notin Automatic
        BY <3>1 DEF IInv, RowsAgree, Unstarted, InitialContainment
      <4> QED
        BY <1>1, <1>2, <3>1, <4>1
    <3>2. CASE ~(IncidentOf[a] = i /\ action[a].status = "pending_approval")
      BY <1>1, <1>2, <3>2, ControllerAssumption DEF IInv, RowsAgree
    <3> QED
      BY <3>1, <3>2
  <2> QED
    BY <2>1, <2>2 DEF RowsAgree
<1>4. \A a \in Action : action'[a] = action[a]
         \/ (action[a].status \in {"absent", "pending_approval"} /\ action'[a].status \in Unstarted)
  <2> SUFFICES ASSUME NEW a \in Action
               PROVE  action'[a] = action[a]
                 \/ (action[a].status \in {"absent", "pending_approval"} /\ action'[a].status \in Unstarted)
    OBVIOUS
  <2>1. CASE IncidentOf[a] = i /\ action[a].status = "pending_approval"
    <3>1. action'[a].status \in {"approved", "skipped"}
      BY <1>2, <2>1
    <3> QED
      BY <2>1, <3>1 DEF Unstarted
  <2>2. CASE ~(IncidentOf[a] = i /\ action[a].status = "pending_approval")
    BY <1>2, <2>2
  <2> QED
    BY <2>1, <2>2
<1>5. \A j \in Incident : incident'[j].decision = incident[j].decision \/ incident[j].decision = "none"
  BY <1>1
<1> QED
  BY <1>3, <1>4, <1>5, RowStep DEF Decide, store

\* The application and the network, on their own.
LEMMA StoreStep ==
    ASSUME IInv, TypeOK', ControlKeeps, ContainmentIsApproved', UNCHANGED <<incident, action, sess>>
    PROVE  IInv'
<1>1. \A w \in Worker : Sound(sess[w])'
  BY SoundKeeps DEF IInv, TypeOK
<1>2. LocksExclusive'
  BY DEF IInv, LocksExclusive
<1> QED
  BY <1>1, <1>2, RowsKeep DEF IInv

LEMMA RestartSafe == ASSUME IInv, TypeOK', Restart PROVE IInv'
<1>1. \A w \in Worker : sess'[w] = Idle
  BY DEF Restart
<1>2. \A w \in Worker : Sound(sess[w])'
  BY <1>1, IdleSound
<1>3. LocksExclusive'
  BY <1>1 DEF LocksExclusive, Idle
<1>4. UNCHANGED <<incident, action, control, inFlight>>
  BY DEF Restart, store
<1>5. ControlKeeps /\ ContainmentIsApproved'
  BY <1>4, ApprovalKeeps DEF ControlKeeps, IInv
<1> QED
  BY <1>2, <1>3, <1>4, <1>5, RowsKeep DEF IInv

LEMMA LateSafe == ASSUME IInv, TypeOK', NEW r \in inFlight, LateArrival(r) PROVE IInv'
<1>1. r \in Request
  BY DEF IInv, TypeOK
<1>2. UNCHANGED <<incident, action, sess>> /\ inFlight' \subseteq inFlight
  BY DEF LateArrival
<1>3. ControlKeeps
  BY <1>1, StoreKeeps DEF LateArrival, IInv, TypeOK, Request
<1>4. \A a \in Action : control'[a] # "absent" => control[a] # "absent" \/ r = [kind |-> "apply", act |-> a]
  <2>1. control \in [Action -> {"absent", "active", "revoked"}]
    BY DEF IInv, TypeOK, Store!StoreTypeOK
  <2>2. CASE r.kind = "apply" /\ Store!Apply(r.act)
    BY <1>1, <2>1, <2>2 DEF Store!Apply, Request
  <2>3. CASE r.kind = "revoke" /\ Store!Revoke(r.act)
    BY <2>1, <2>3 DEF Store!Revoke
  <2>4. CASE UNCHANGED store
    BY <2>4 DEF store
  <2> QED
    BY <2>2, <2>3, <2>4 DEF LateArrival
<1>5. ContainmentIsApproved'
  BY <1>2, <1>4 DEF ContainmentIsApproved, IInv
<1> QED
  BY <1>2, <1>3, <1>5, StoreStep

LEMMA LapseSafe == ASSUME IInv, TypeOK', NEW a \in Action, Lapse(a) PROVE IInv'
<1>1. UNCHANGED <<incident, action, sess, inFlight, control>>
  BY DEF Lapse, Store!Lapse
<1>2. ControlKeeps /\ ContainmentIsApproved'
  BY <1>1, ApprovalKeeps DEF ControlKeeps, IInv
<1> QED
  BY <1>1, <1>2, StoreStep

-----------------------------------------------------------------------------
(* Theorems *)

LEMMA InitSafe == Init => IInv
<1> SUFFICES ASSUME Init PROVE IInv
  OBVIOUS
<1>1. TypeOK
  BY InitTypes
<1>2. ASSUME NEW w \in Worker PROVE sess[w] = Idle /\ Sound(sess[w])
  <2>1. sess[w] = Idle
    BY DEF Init
  <2>2. /\ Idle.op = "none" /\ Idle.pc = "idle" /\ Idle.locks = {}
        /\ Idle.todo = {} /\ Idle.dirty = {}
    BY DEF Idle
  <2> QED
    BY <2>1, <2>2 DEF Sound, Shape, WorkIsDue, Claimed, TodoIsFresh, DirtyIsDone
<1>3. LocksExclusive
  BY <1>2 DEF LocksExclusive, Idle
<1>4. RowsAgree
  BY DEF Init, RowsAgree, ActionsOf
<1>5. AppliedHasControl /\ RolledBackIsRevoked /\ ContainmentIsApproved
  BY DEF Init, AppliedHasControl, RolledBackIsRevoked, ContainmentIsApproved, Store!StoreInit
<1> QED
  BY <1>1, <1>2, <1>3, <1>4, <1>5 DEF IInv

LEMMA NextSafe == IInv /\ [Next]_vars => IInv'
<1> SUFFICES ASSUME IInv, [Next]_vars PROVE IInv'
  OBVIOUS
<1>1. ASSUME NEW w \in Worker, WorkerStep(w) PROVE IInv'
  <2>1. TypeOK'
    BY <1>1, WorkerTypes DEF IInv
  <2> QED
    BY <1>1, <2>1, BeginSound, ExpireLockSafe, ExecuteSafe, ReadersSafe, RevokeAnsweredSafe, RevokeFailedSafe, CommitSafe
       DEF WorkerStep
<1>2. CASE Environment
  <2>1. TypeOK'
    BY <1>2, EnvironmentTypes DEF IInv
  <2> QED
    BY <1>2, <2>1, CreateSafe, DecideSafe, RestartSafe, LateSafe, LapseSafe DEF Environment
<1>3. CASE UNCHANGED vars
  <2>1. UNCHANGED <<incident, action, sess, store, inFlight, mode, restarts>>
    BY <1>3 DEF vars
  <2>2. TypeOK'
    BY <2>1 DEF IInv, TypeOK, store, Store!StoreTypeOK
  <2>3. ControlKeeps /\ ContainmentIsApproved'
    BY <2>1, ApprovalKeeps DEF ControlKeeps, IInv, store
  <2> QED
    BY <2>1, <2>2, <2>3, StoreStep
<1> QED
  BY <1>1, <1>2, <1>3 DEF Next

\* The invariant the other theorems rest on.
THEOREM Safe == Spec => []IInv
BY InitSafe, NextSafe, PTL DEF Spec

\* No variable leaves its type, and no action passes its attempts, in any interleaving.
THEOREM TypesHold == Spec => []TypeOK
<1>1. IInv => TypeOK
  BY DEF IInv
<1> QED
  BY <1>1, Safe, PTL

\* A control exists, or may still arrive, only for an action whose incident was approved.
THEOREM NoContainmentWithoutApproval == Spec => []ContainmentIsApproved
<1>1. IInv => ContainmentIsApproved
  BY DEF IInv
<1> QED
  BY <1>1, Safe, PTL

\* What the controller calls applied has a control in the application, through
\* lost answers, late arrivals and restarts.
THEOREM AppliedRowsHaveControls == Spec => []AppliedHasControl
<1>1. IInv => AppliedHasControl
  BY DEF IInv
<1> QED
  BY <1>1, Safe, PTL

\* What it calls rolled back has a revoked one, which no late apply revives.
THEOREM RolledBackRowsAreRevoked == Spec => []RolledBackIsRevoked
<1>1. IInv => RolledBackIsRevoked
  BY DEF IInv
<1> QED
  BY <1>1, Safe, PTL

-----------------------------------------------------------------------------
(* One executor per action *)

\* Two sessions that own the same action would hold the same row lock, or would
\* have chosen it for two different statuses.
LEMMA OwnersExclude ==
    ASSUME IInv, NEW v \in Worker, NEW w \in Worker, v # w
    PROVE  Owned(v) \intersect Owned(w) = {}
<1> DEFINE s == sess[v]
           t == sess[w]
<1> SUFFICES ASSUME NEW a \in Owned(v), a \in Owned(w) PROVE FALSE
  OBVIOUS
<1>1. s \in Session /\ t \in Session /\ Sound(s) /\ Sound(t) /\ s.locks \intersect t.locks = {}
  BY DEF IInv, TypeOK, LocksExclusive
<1>2. a \in Claimed(s) /\ a \in Claimed(t)
  BY DEF Owned, Claimed
<1>3. action[a].status \in Due(s.op, a) \intersect Due(t.op, a)
  BY <1>1, <1>2 DEF Sound, WorkIsDue
<1>4. CASE s.op = "dispatch" /\ t.op = "dispatch"
  <2>1. PICK i \in Incident : s.locks = {i} /\ s.todo \union s.dirty \subseteq ActionsOf(i)
    BY <1>1, <1>4 DEF Sound, Shape
  <2>2. PICK j \in Incident : t.locks = {j} /\ t.todo \union t.dirty \subseteq ActionsOf(j)
    BY <1>1, <1>4 DEF Sound, Shape
  <2>3. a \in ActionsOf(i) /\ a \in ActionsOf(j)
    BY <1>4, <2>1, <2>2 DEF Owned
  <2> QED
    BY <1>1, <2>1, <2>2, <2>3 DEF ActionsOf
<1>5. CASE s.op # "dispatch" /\ t.op # "dispatch"
  BY <1>1, <1>5 DEF Owned
<1>6. CASE (s.op = "dispatch") # (t.op = "dispatch")
  BY <1>3, <1>6 DEF Due
<1> QED
  BY <1>4, <1>5, <1>6

\* No two requests work on one action at a time.
THEOREM ActionsHaveOneExecutor == Spec => []OneExecutorPerAction
<1>1. IInv => OneExecutorPerAction
  BY OwnersExclude DEF OneExecutorPerAction
<1> QED
  BY <1>1, Safe, PTL

\* A request executes an action in the status for which it chose it, however long
\* ago it read that status.
THEOREM ExecutedWhenDue == Spec => []DueWhileExecuting
<1>1. ASSUME IInv, NEW w \in Worker, NEW a \in Action, Executes(w, a)
      PROVE  action[a].status \in IF sess[w].op = "retry" THEN {"failed"} ELSE {"pending", "approved"}
  <2>1. WorkIsDue(sess[w]) /\ a \in Claimed(sess[w]) /\ sess[w].op \in {"dispatch", "retry"}
    BY <1>1 DEF IInv, Sound, Claimed, Executes
  <2> QED
    BY <2>1 DEF WorkIsDue, Due
<1>2. IInv => DueWhileExecuting
  BY <1>1 DEF DueWhileExecuting
<1> QED
  BY <1>2, Safe, PTL

-----------------------------------------------------------------------------
(* Refinement: the committed rows live the life of ActionLifecycle *)

StepFollows(a) ==
    \/ action'[a].status = action[a].status
    \/ Lifecycle!MayFollow(a, action[a].status, action'[a].status, incident'[IncidentOf[a]].decision)

LEMMA LifecycleStep ==
    ASSUME \A i \in Incident : \/ incident'[i].decision = incident[i].decision
                               \/ incident[i].decision = "none" /\ incident'[i].decision \in Decision,
           \A a \in Action : StepFollows(a)
    PROVE  Lifecycle!LifecycleNext
<1>1. ASSUME NEW a \in Action
      PROVE  \/ [b \in Action |-> action[b].status]'[a] = [b \in Action |-> action[b].status][a]
             \/ Lifecycle!MayFollow(a, [b \in Action |-> action[b].status][a], [b \in Action |-> action[b].status]'[a],
                                    [i \in Incident |-> incident[i].decision]'[IncidentOf[a]])
  BY ControllerAssumption DEF StepFollows
<1>2. ASSUME NEW i \in Incident
      PROVE  \/ [j \in Incident |-> incident[j].decision]'[i] = [j \in Incident |-> incident[j].decision][i]
             \/ (/\ [j \in Incident |-> incident[j].decision][i] = "none"
                 /\ [j \in Incident |-> incident[j].decision]'[i] \in Decision)
  OBVIOUS
<1> QED
  BY <1>1, <1>2 DEF Lifecycle!LifecycleNext, Lifecycle!Decision, Decision

\* A commit publishes what its session did to actions that nobody else touched.
LEMMA CommitImplements ==
    ASSUME IInv, NEW w \in Worker, Commit(w)
    PROVE  Lifecycle!LifecycleNext
<1> DEFINE s == sess[w]
<1>1. Sound(s) /\ s \in Session
  BY DEF IInv, TypeOK
<1>2. ASSUME NEW a \in Action, a \in s.dirty PROVE StepFollows(a)
  <2> DEFINE d == incident'[IncidentOf[a]].decision
  <2>1. action[a].status \in Due(s.op, a) /\ action'[a].status = s.cache[a].status
    BY <1>1, <1>2, CommitRows DEF Sound, WorkIsDue, Claimed
  <2>2. d = incident[IncidentOf[a]].decision
    BY CommitRows, ControllerAssumption
  <2>3. CASE s.op = "dispatch"
    <3>1. s.cache[a].status \in Outcome(a)
      BY <1>1, <1>2, <2>3 DEF Sound, DirtyIsDone
    <3> QED
      BY <2>1, <2>3, <3>1 DEF Due, Outcome, StepFollows, Lifecycle!MayFollow
  <2>4. CASE s.op = "retry"
    <3>1. s.cache[a].status \in Outcome(a)
      BY <1>1, <1>2, <2>4 DEF Sound, DirtyIsDone
    <3>2. a \notin Automatic => d = "approve"
      BY <2>1, <2>2, <2>4 DEF IInv, RowsAgree, Containment, Due
    <3> QED
      BY <2>1, <2>4, <3>1, <3>2 DEF Due, Outcome, StepFollows, Lifecycle!MayFollow
  <2>5. CASE s.op \in {"rollback", "expire"}
    <3>1. s.cache[a].status = "rolled_back"
      BY <1>1, <1>2, <2>5 DEF Sound, DirtyIsDone
    <3> QED
      BY <2>1, <2>5, <3>1 DEF Due, StepFollows, Lifecycle!MayFollow
  <2>6. s.op \in {"dispatch", "retry", "rollback", "expire"}
    BY <2>1 DEF Due
  <2> QED
    BY <2>3, <2>4, <2>5, <2>6
<1>3. ASSUME NEW a \in Action, a \notin s.dirty PROVE StepFollows(a)
  BY <1>3, CommitRows DEF StepFollows
<1> QED
  BY <1>2, <1>3, CommitRows, LifecycleStep

LEMMA TriageImplements ==
    ASSUME IInv, NEW i \in Incident, CreateIncident(i)
    PROVE  Lifecycle!LifecycleNext
<1>1. PICK born \in [ActionsOf(i) -> InitialAutomatic \union InitialContainment] :
        /\ \A a \in ActionsOf(i) : born[a] \in IF a \in Automatic THEN InitialAutomatic ELSE InitialContainment
        /\ action' = [a \in Action |-> IF IncidentOf[a] = i THEN [action[a] EXCEPT !.status = born[a]] ELSE action[a]]
        /\ incident' = [incident EXCEPT ![i].status = StatusFor("none", {born[a] : a \in ActionsOf(i)})]
  BY DEF CreateIncident
<1>2. incident[i].status = "absent" /\ \A a \in ActionsOf(i) : action[a].status = "absent"
  BY DEF CreateIncident, IInv, RowsAgree
<1>3. ASSUME NEW a \in Action PROVE StepFollows(a)
  <2>1. CASE IncidentOf[a] = i
    <3>1. a \in ActionsOf(i) /\ action[a] \in ActionRow
      BY <2>1 DEF ActionsOf, IInv, TypeOK
    <3>2. action'[a].status = born[a]
      BY <1>1, <2>1, <3>1 DEF ActionRow
    <3>3. action[a].status = "absent" /\ Lifecycle!Born(a, action'[a].status)
      BY <1>1, <1>2, <3>1, <3>2 DEF Lifecycle!Born, Lifecycle!InitialAutomatic, Lifecycle!InitialContainment,
                                    InitialAutomatic, InitialContainment
    <3> QED
      BY <3>3 DEF StepFollows, Lifecycle!MayFollow
  <2>2. CASE IncidentOf[a] # i
    BY <1>1, <2>2 DEF StepFollows
  <2> QED
    BY <2>1, <2>2
<1>4. \A j \in Incident : incident'[j].decision = incident[j].decision
  BY <1>1 DEF IInv, TypeOK, IncidentRow
<1> QED
  BY <1>3, <1>4, LifecycleStep

LEMMA DecideImplements ==
    ASSUME IInv, NEW i \in Incident, NEW d \in Decision, Decide(i, d)
    PROVE  Lifecycle!LifecycleNext
<1>1. /\ incident[i].decision = "none" /\ incident'[i].decision = d
      /\ \A j \in Incident \ {i} : incident'[j] = incident[j]
  BY DEF Decide, IInv, TypeOK
<1>2. ASSUME NEW a \in Action PROVE StepFollows(a)
  <2>1. action[a] \in ActionRow
    BY DEF IInv, TypeOK
  <2>2. CASE IncidentOf[a] = i /\ action[a].status = "pending_approval"
    <3>1. action'[a].status = IF d = "approve" THEN "approved" ELSE "skipped"
      BY <2>1, <2>2 DEF Decide, ActionRow
    <3> QED
      BY <1>1, <2>2, <3>1 DEF StepFollows, Lifecycle!MayFollow, Decision
  <2>3. CASE ~(IncidentOf[a] = i /\ action[a].status = "pending_approval")
    BY <2>3 DEF Decide, StepFollows
  <2> QED
    BY <2>2, <2>3
<1> QED
  BY <1>1, <1>2, LifecycleStep

LEMMA NextImplements == IInv /\ [Next]_vars => [Lifecycle!LifecycleNext]_(Lifecycle!lifecycleVars)
<1> SUFFICES ASSUME IInv, [Next]_vars PROVE [Lifecycle!LifecycleNext]_(Lifecycle!lifecycleVars)
  OBVIOUS
<1>1. CASE UNCHANGED <<incident, action>>
  BY <1>1 DEF Lifecycle!lifecycleVars
<1>2. ASSUME NEW w \in Worker, WorkerStep(w)
      PROVE  Commit(w) \/ UNCHANGED <<incident, action>>
  BY <1>2 DEF WorkerStep, DispatchBegin, RetryBegin, RollbackBegin, ExpireBegin, ExpireLock, CollectEvidence,
              Simulate, ApplyAnswered, ApplyFailed, Recompute, RevokeAnswered, RevokeFailed, CloseIncident
<1>3. ASSUME Environment
      PROVE  \/ \E i \in Incident : CreateIncident(i)
             \/ \E i \in Incident, d \in Decision : Decide(i, d)
             \/ UNCHANGED <<incident, action>>
  BY <1>3 DEF Environment, Restart, LateArrival, Lapse
<1>4. CASE UNCHANGED vars
  BY <1>1, <1>4 DEF vars
<1> QED
  BY <1>1, <1>2, <1>3, <1>4, CommitImplements, TriageImplements, DecideImplements DEF Next

\* Every behaviour of the controller is one of the abstract life of its actions:
\* decided once, executed after the decision, rolled back only when applied.
THEOREM LifecycleIsImplemented == Spec => ImplementsLifecycle
<1>1. Init => Lifecycle!LifecycleInit
  BY DEF Init, Lifecycle!LifecycleInit
<1> QED
  BY <1>1, Safe, NextImplements, PTL DEF Spec, ImplementsLifecycle, Lifecycle!LifecycleSpec
-----------------------------------------------------------------------------
(***************************************************************************)
(* No circle of waiting requests.  A dispatch session never waits: nobody  *)
(* locks the actions it changes.  The commit of the other sessions waits   *)
(* for dispatch sessions only.  And expire sessions, which wait while they *)
(* hold locks, take them in the order in which the actions lapsed.         *)
(***************************************************************************)

InstantsDistinct == \A a \in Action :
    /\ lapse[a] <= clock
    /\ \A b \in Action : a # b /\ lapse[a] > 0 => lapse[a] # lapse[b]

LocksInOrder(s) == s.op = "expire" =>
    /\ \A b \in s.todo \union s.locks : lapse[b] > 0
    /\ \A h \in s.locks, b \in s.todo : h = b \/ lapse[h] < lapse[b]
    /\ s.pc = "lock" => s.todo \intersect s.locks = {}

\* A dispatch session writes no incident but the one it has locked.
WritesLocked(s) == s.op = "dispatch" =>
    \A i \in Incident : s.seen[i] # UnreadIncident \/ s.write[i] # "unset" => i \in s.locks

InOrder ==
    /\ InstantsDistinct
    /\ \A w \in Worker : LocksInOrder(sess[w]) /\ WritesLocked(sess[w])

LEMMA InitInOrder == Init => InOrder
<1>1. Idle.op = "none"
    BY DEF Idle
<1>2. ASSUME Init PROVE InstantsDistinct
    BY <1>2 DEF Init, Store!StoreInit, InstantsDistinct
<1> QED
    BY <1>1, <1>2 DEF Init, InOrder, LocksInOrder, WritesLocked

\* Instants are dealt out once: those that have passed stay as they are.
LEMMA InstantsKeep ==
    ASSUME TypeOK, InstantsDistinct, [Next]_vars
    PROVE  InstantsDistinct' /\ \A a \in Action : lapse[a] > 0 => lapse'[a] = lapse[a]
<1>1. lapse \in [Action -> Nat] /\ clock \in Nat
    BY DEF TypeOK, Store!StoreTypeOK
<1>2. UNCHANGED <<lapse, clock>> \/ \E a \in Action : Lapse(a)
    <2>1. ASSUME NEW w \in Worker, WorkerStep(w) PROVE UNCHANGED <<lapse, clock>>
        BY <2>1 DEF WorkerStep, store, DispatchBegin, RetryBegin, RollbackBegin, ExpireBegin, ExpireLock,
               CollectEvidence, Simulate, ApplyAnswered, ApplyFailed, Recompute, RevokeAnswered, RevokeFailed,
               CloseIncident, Commit, Store!Apply, Store!Revoke
    <2>2. ASSUME Environment PROVE UNCHANGED <<lapse, clock>> \/ \E a \in Action : Lapse(a)
        <3>1. ASSUME NEW r \in inFlight, LateArrival(r) PROVE UNCHANGED <<lapse, clock>>
            BY <3>1 DEF LateArrival, store, Store!Apply, Store!Revoke
        <3> QED BY <2>2, <3>1 DEF Environment, CreateIncident, Decide, Restart, store
    <2>3. CASE UNCHANGED vars
        BY <2>3 DEF vars, store
    <2> QED BY <2>1, <2>2, <2>3 DEF Next
<1>3. CASE UNCHANGED <<lapse, clock>>
    BY <1>3 DEF InstantsDistinct
<1>4. ASSUME NEW a \in Action, Lapse(a)
      PROVE  InstantsDistinct' /\ \A b \in Action : lapse[b] > 0 => lapse'[b] = lapse[b]
    <2>1. lapse[a] = 0 /\ clock' = clock + 1 /\ lapse' = [lapse EXCEPT ![a] = clock + 1]
        BY <1>4 DEF Lapse, Store!Lapse
    <2> QED BY <1>1, <2>1 DEF InstantsDistinct
<1> QED BY <1>2, <1>3, <1>4

\* How one step changes the session of a worker, as far as its locks go.
LEMMA SessionMoves ==
    ASSUME TypeOK, [Next]_vars, NEW w \in Worker
    PROVE  \/ sess'[w] = sess[w] \/ sess'[w] = Idle
           \/ sess[w].pc = "idle" /\ WorkerStep(w)
           \/ sess[w].pc # "idle" /\ WorkerStep(w)
<1>1. ASSUME NEW v \in Worker, WorkerStep(v) PROVE \A u \in Worker \ {v} : sess'[u] = sess[u]
    BY <1>1 DEF WorkerStep, TypeOK, Begin, Record,
           DispatchBegin, RetryBegin, RollbackBegin, ExpireBegin, ExpireLock, CollectEvidence, Simulate,
           ApplyAnswered, ApplyFailed, Recompute, RevokeAnswered, RevokeFailed, CloseIncident, Commit
<1>2. ASSUME Environment PROVE sess'[w] = sess[w] \/ sess'[w] = Idle
    BY <1>2 DEF Environment, CreateIncident, Decide, Restart, LateArrival, Lapse
<1> QED
    BY <1>1, <1>2 DEF Next, vars

\* A session that begins has nothing locked, or is no expire session.
LEMMA BeginInOrder ==
    ASSUME TypeOK, NEW w \in Worker,
           \/ \E i \in Incident, scope \in {"automatic", "approved"} : DispatchBegin(w, i, scope)
           \/ \E a \in Action : RetryBegin(w, a) \/ RollbackBegin(w, a)
           \/ ExpireBegin(w)
    PROVE  /\ sess'[w].op = "expire" => sess'[w].locks = {} /\ \A b \in sess'[w].todo : lapse[b] > 0
           /\ WritesLocked(sess'[w])
<1>0. /\ sess \in [Worker -> Session] /\ Idle.locks = {}
      /\ \A i \in Incident : Idle.write[i] = "unset" /\ Idle.seen[i] = UnreadIncident
    BY DEF TypeOK, Idle
<1>1. CASE ExpireBegin(w)
    BY <1>0, <1>1 DEF ExpireBegin, Begin, Expired, WritesLocked, Idle
<1>2. ASSUME NEW a \in Action, RetryBegin(w, a) \/ RollbackBegin(w, a)
      PROVE  sess'[w].op # "expire" /\ sess'[w].op # "dispatch"
    <2> DEFINE s(op) == [Idle EXCEPT !.op = op, !.pc = "call", !.locks = {a},
                                     !.seen[IncidentOf[a]] = incident[IncidentOf[a]], !.cache[a] = action[a], !.todo = {a}]
    <2>1. s("retry").op = "retry" /\ s("rollback").op = "rollback"
        BY DEF Idle
    <2>2. sess'[w] = s("retry") \/ sess'[w] = s("rollback")
        BY <1>0, <1>2 DEF RetryBegin, RollbackBegin, Begin
    <2> QED BY <2>1, <2>2
<1>3. ASSUME NEW i \in Incident, NEW scope \in {"automatic", "approved"}, DispatchBegin(w, i, scope)
      PROVE  sess'[w].op = "dispatch" /\ WritesLocked(sess'[w])
    <2>1. /\ sess'[w].op = "dispatch" /\ sess'[w].locks = {i} /\ sess'[w].write = Idle.write
          /\ sess'[w].seen = [Idle.seen EXCEPT ![i] = incident[i]]
        BY <1>0, <1>3 DEF DispatchBegin, Begin, Idle
    <2> QED BY <1>0, <2>1, IdleSession DEF WritesLocked, Session
<1> QED BY <1>1, <1>2, <1>3 DEF WritesLocked

\* A session that goes on takes the next lock in order, and writes what it locked.
LEMMA GoesOnInOrder ==
    ASSUME IInv, InOrder, NEW w \in Worker, sess[w].pc # "idle", WorkerStep(w)
    PROVE  /\ LocksInOrder(sess'[w]) /\ WritesLocked(sess'[w])
<1> DEFINE s == sess[w]
           t == sess'[w]
<1>1. /\ s \in Session /\ sess \in [Worker -> Session] /\ lapse \in [Action -> Nat]
      /\ LocksInOrder(s) /\ WritesLocked(s) /\ InstantsDistinct /\ Shape(s)
    BY DEF IInv, TypeOK, InOrder, Store!StoreTypeOK, Sound
<1>2. ASSUME t = Idle \/ (/\ t.op = s.op /\ t.locks = s.locks /\ t.todo \subseteq s.todo
                          /\ t.pc = "lock" => t.todo \intersect t.locks = {})
      PROVE  LocksInOrder(t)
    BY <1>1, <1>2 DEF LocksInOrder, Idle
<1>3. ASSUME t = Idle \/ (/\ t.op = s.op /\ t.locks = s.locks
                          /\ s.op = "dispatch" => t.seen = s.seen /\ t.write = s.write)
      PROVE  WritesLocked(t)
    BY <1>1, <1>3 DEF WritesLocked, Idle
<1>4. ASSUME NEW a \in s.todo \intersect s.locks, s.op = "expire"
      PROVE  (s.todo \ {a}) \intersect s.locks = {}
    BY <1>1, <1>4 DEF LocksInOrder, Session
<1>5. ASSUME NEW a \in Action, ExpireLock(w, a) PROVE LocksInOrder(t) /\ WritesLocked(t)
    <2>0. s.pc = "lock" /\ NextExpired(s.todo, a) /\ s.op = "expire"
        BY <1>1, <1>5 DEF ExpireLock, Session, Shape, Idle
    <2>1. t.locks = s.locks \union {a} /\ t.pc = "call" /\ t.op = s.op /\ t.todo = s.todo
        BY <1>1, <1>5 DEF ExpireLock, Session
    <2>2. /\ \A b \in s.todo \union s.locks : lapse[b] > 0
          /\ \A h \in s.locks, b \in s.todo : h = b \/ lapse[h] < lapse[b]
        BY <1>1, <2>0 DEF LocksInOrder
    <2>3. a \in s.todo /\ \A b \in s.todo : b \in Action /\ lapse[b] \in Nat /\ lapse[a] <= lapse[b]
        BY <1>1, <2>0 DEF NextExpired, Session
    <2>4. \A b \in s.todo : a = b \/ lapse[a] < lapse[b]
        <3> SUFFICES ASSUME NEW b \in s.todo, a # b PROVE lapse[a] < lapse[b]
            OBVIOUS
        <3>1. lapse[a] # lapse[b] /\ lapse[a] \in Nat /\ lapse[b] \in Nat /\ lapse[a] <= lapse[b]
            BY <1>1, <2>2, <2>3 DEF InstantsDistinct
        <3> QED BY <3>1
    <2>5. LocksInOrder(t)
        <3> HIDE DEF s, t
        <3> QED BY <2>1, <2>2, <2>3, <2>4 DEF LocksInOrder
    <2>6. WritesLocked(t)
        BY <2>0, <2>1 DEF WritesLocked
    <2> QED BY <2>5, <2>6
<1>6. ASSUME NEW a \in Action, CollectEvidence(w, a) \/ Simulate(w, a) \/ ApplyAnswered(w, a) \/ ApplyFailed(w, a)
      PROVE  LocksInOrder(t) /\ WritesLocked(t)
    <2>1. PICK st : Record(w, a, st) /\ Executes(w, a)
        BY <1>6 DEF CollectEvidence, Simulate, ApplyAnswered, ApplyFailed
    <2>2. /\ t.op = s.op /\ t.locks = s.locks /\ t.todo \subseteq s.todo /\ t.pc = "call"
          /\ t.seen = s.seen /\ t.write = s.write
        BY <1>1, <2>1 DEF Record, Executes, Session
    <2> QED BY <1>2, <1>3, <2>2
<1>7. ASSUME NEW i \in Incident, Recompute(w, i) PROVE LocksInOrder(t) /\ WritesLocked(t)
    <2> DEFINE new == StatusFor(s.seen[i].decision, Statuses(Loaded(s, i), i))
    <2>1. /\ s.seen[i] # UnreadIncident /\ t.op = s.op /\ t.locks = s.locks /\ t.seen = s.seen /\ t.pc = "commit"
          /\ t.todo = s.todo
          /\ t.write = [s.write EXCEPT ![i] = StatusWrite(s, i, new)]
        BY <1>1, <1>7 DEF Recompute, Session
    <2> QED BY <1>1, <1>2, <2>1 DEF WritesLocked, Session
<1>8. ASSUME NEW a \in Action, RevokeAnswered(w, a) PROVE LocksInOrder(t) /\ WritesLocked(t)
    <2>1. t.op = s.op /\ t.locks = s.locks /\ t.todo = s.todo /\ t.pc = "close" /\ s.op # "dispatch"
        BY <1>1, <1>8 DEF RevokeAnswered, Reverts, Session
    <2> QED BY <1>2, <1>3, <2>1
<1>9. ASSUME NEW a \in Action, RevokeFailed(w, a) PROVE LocksInOrder(t) /\ WritesLocked(t)
    <2>1. a \in s.todo \intersect s.locks /\ s.op \in {"rollback", "expire"}
        BY <1>9 DEF RevokeFailed, Reverts
    <2>2. \/ t = Idle
          \/ t.op = s.op /\ t.locks = s.locks /\ t.todo = s.todo \ {a} /\ s.op = "expire"
        BY <1>1, <1>9, <2>1 DEF RevokeFailed, Session
    <2> QED BY <1>2, <1>3, <1>4, <2>1, <2>2
<1>10. ASSUME NEW a \in Action, CloseIncident(w, a) PROVE LocksInOrder(t) /\ WritesLocked(t)
    <2>1. a \in s.todo \intersect s.locks /\ s.op \in {"rollback", "expire"} /\ s.pc = "close"
        BY <1>1, <1>10 DEF CloseIncident, Shape, Idle, Session
    <2>2. t.op = s.op /\ t.locks = s.locks /\ t.todo = s.todo \ {a}
        BY <1>1, <1>10 DEF CloseIncident, Session
    <2>3. s.op = "expire" => t.todo \intersect t.locks = {}
        BY <1>4, <2>1, <2>2
    <2> QED BY <1>1, <1>3, <2>1, <2>2, <2>3 DEF LocksInOrder
<1>11. ASSUME Commit(w) PROVE LocksInOrder(t) /\ WritesLocked(t)
    BY <1>1, <1>2, <1>3, <1>11 DEF Commit
<1>12. ASSUME NEW a \in Action PROVE ~RetryBegin(w, a) /\ ~RollbackBegin(w, a)
    BY DEF RetryBegin, RollbackBegin, Begin
<1>13. ~ExpireBegin(w) /\ \A i \in Incident, scope \in {"automatic", "approved"} : ~DispatchBegin(w, i, scope)
    BY DEF ExpireBegin, DispatchBegin, Begin
<1> QED
    BY <1>5, <1>6, <1>7, <1>8, <1>9, <1>10, <1>11, <1>12, <1>13 DEF WorkerStep

LEMMA NextInOrder == IInv /\ InOrder /\ [Next]_vars => InOrder'
<1> SUFFICES ASSUME IInv, InOrder, [Next]_vars PROVE InOrder'
    OBVIOUS
<1>1. TypeOK /\ InstantsDistinct' /\ \A a \in Action : lapse[a] > 0 => lapse'[a] = lapse[a]
    BY InstantsKeep DEF IInv, InOrder
<1>2. ASSUME NEW w \in Worker PROVE LocksInOrder(sess'[w]) /\ WritesLocked(sess'[w])
    <2>1. CASE sess'[w] = sess[w]
        BY <2>1 DEF InOrder
    <2>2. CASE sess'[w] = Idle
        BY <2>2 DEF LocksInOrder, WritesLocked, Idle
    <2>3. CASE sess[w].pc = "idle" /\ WorkerStep(w)
        <3>1. \/ \E i \in Incident, scope \in {"automatic", "approved"} : DispatchBegin(w, i, scope)
              \/ \E a \in Action : RetryBegin(w, a) \/ RollbackBegin(w, a)
              \/ ExpireBegin(w)
            BY <2>3 DEF WorkerStep, ExpireLock, CollectEvidence, Simulate, ApplyAnswered, ApplyFailed, Executes,
                        Recompute, RevokeAnswered, RevokeFailed, Reverts, CloseIncident, Commit
        <3> QED BY <1>1, <3>1, BeginInOrder DEF LocksInOrder
    <2>4. CASE sess[w].pc # "idle" /\ WorkerStep(w)
        BY <2>4, GoesOnInOrder
    <2> QED BY <1>1, <2>1, <2>2, <2>3, <2>4, SessionMoves
<1>3. ASSUME NEW w \in Worker PROVE LocksInOrder(sess[w])' /\ WritesLocked(sess[w])'
    <2>1. sess'[w].op = "expire" => sess'[w].locks \union sess'[w].todo \subseteq Action
        BY NextSafe DEF IInv, Sound, Shape, Containment
    <2> QED BY <1>1, <1>2, <2>1 DEF LocksInOrder, WritesLocked
<1> QED BY <1>1, <1>3 DEF InOrder

\* Nobody locks an action that a dispatch session changed, nor the incident it writes.
LEMMA DispatchNeverWaits ==
    ASSUME IInv, InOrder, NEW w \in Worker, NEW v \in Worker, sess[w].op = "dispatch"
    PROVE  ~WaitsFor(w, v)
<1>1. SUFFICES ASSUME WaitsFor(w, v) PROVE FALSE
    OBVIOUS
<1>2. /\ sess[w] \in Session /\ sess[v] \in Session /\ v # w /\ sess[w].pc \in {"call", "commit"}
      /\ sess[w].locks \intersect sess[v].locks = {} /\ WritesLocked(sess[w]) /\ Sound(sess[v])
    BY <1>1 DEF IInv, TypeOK, Sound, Shape, InOrder, LocksExclusive, WaitsFor
<1>3. CASE sess[w].dirty \intersect sess[v].locks # {}
    <2>1. PICK a \in sess[w].dirty : a \in sess[v].locks
        BY <1>3
    <2>2. a \in Action /\ a \notin Incident
        BY <1>2, <2>1, ControllerAssumption DEF Session
    <2>3. sess[v].op # "dispatch"
        BY <1>2, <2>1, <2>2 DEF Sound, Shape
    <2>4. a \in Owned(w) /\ a \in Owned(v)
        BY <2>1, <2>2, <2>3 DEF Owned
    <2> QED BY <1>2, <2>4, OwnersExclude DEF OneExecutorPerAction
<1>4. CASE \E i \in sess[v].locks \intersect Incident : sess[w].write[i] # "unset"
    BY <1>2, <1>4 DEF WritesLocked
<1> QED BY <1>1, <1>2, <1>3, <1>4 DEF WaitsFor

\* A session whose commit waits, waits for a dispatch session.
LEMMA CommitWaitsForDispatch ==
    ASSUME IInv, NEW w \in Worker, NEW v \in Worker, WaitsFor(w, v), sess[w].op # "dispatch", sess[v].op # "dispatch"
    PROVE  sess[w].pc = "lock"
<1>1. /\ sess[w] \in Session /\ sess[v] \in Session /\ v # w
      /\ sess[w].locks \intersect sess[v].locks = {} /\ Shape(sess[w]) /\ Shape(sess[v])
    BY DEF IInv, TypeOK, Sound, LocksExclusive, WaitsFor
<1>2. /\ Idle.dirty = {} /\ Idle.locks = {}
    BY DEF Idle
<1>3. sess[w].dirty \subseteq sess[w].locks
    BY <1>1, <1>2 DEF Shape, Session
<1>4. sess[v].locks \subseteq Action
    BY <1>1, <1>2 DEF Shape, Session, Containment
<1> QED BY <1>1, <1>3, <1>4, ControllerAssumption DEF WaitsFor

\* When the action an expire session waits for lapsed.
Instant == [w \in Worker |-> IF \E a \in Action : NextExpired(sess[w].todo, a)
                             THEN lapse[CHOOSE a \in Action : NextExpired(sess[w].todo, a)] ELSE 0]

LEMMA OrderExcludesCircles == IInv /\ InOrder => NoCircularWait
<1>1. SUFFICES ASSUME IInv, InOrder, NEW W \in SUBSET Worker, W # {},
                      \A w \in W : \E v \in W : WaitsFor(w, v)
               PROVE  FALSE
    BY DEF NoCircularWait
<1>2. \A w \in W : /\ sess[w] \in Session /\ Shape(sess[w]) /\ LocksInOrder(sess[w])
                   /\ sess[w].op # "dispatch"
    BY <1>1, DispatchNeverWaits DEF IInv, TypeOK, Sound, InOrder
<1>3. \A w \in W : sess[w].pc = "lock" /\ sess[w].op = "expire"
    <2>1. \A w \in W : sess[w].pc = "lock"
        BY <1>1, <1>2, CommitWaitsForDispatch
    <2>2. Idle.pc = "idle"
        BY DEF Idle
    <2> QED BY <1>2, <2>1, <2>2 DEF Shape, Session
<1>4. ASSUME NEW w \in W, NEW v \in W, WaitsFor(w, v)
      PROVE  \E a \in sess[v].locks : a \in sess[w].todo /\ Instant[w] = lapse[a] /\ lapse[a] \in Nat
    <2>1. PICK a \in sess[v].locks : NextExpired(sess[w].todo, a)
        BY <1>3, <1>4 DEF WaitsFor
    <2>2. sess[w].todo \subseteq Action /\ a \in sess[w].todo /\ \A b \in sess[w].todo : lapse[b] > 0
        BY <1>2, <1>3, <2>1 DEF NextExpired, Session, LocksInOrder
    <2>3. lapse \in [Action -> Nat] /\ InstantsDistinct
        BY <1>1 DEF IInv, TypeOK, Store!StoreTypeOK, InOrder
    <2>4. \A b \in Action : NextExpired(sess[w].todo, b) => b = a
        BY <2>1, <2>2, <2>3 DEF NextExpired, InstantsDistinct
    <2>5. a = CHOOSE b \in Action : NextExpired(sess[w].todo, b)
        BY <2>1, <2>2, <2>4
    <2>6. Instant[w] = lapse[a]
        BY <1>1, <1>4, <2>1, <2>2, <2>5 DEF Instant
    <2> QED BY <2>2, <2>3, <2>6
<1> DEFINE f == [w \in W |-> Instant[w]]
<1>5. f \in [W -> Nat] /\ IsFiniteSet(W)
    BY <1>1, <1>4, ControllerAssumption, FS_Subset
<1>6. PICK w \in W : \A v \in W : f[v] <= f[w]
    <2> HIDE DEF f
    <2> QED BY <1>1, <1>5, MaximumExists
<1>7. PICK v \in W : WaitsFor(w, v)
    BY <1>1
<1>8. PICK u \in W : WaitsFor(v, u)
    BY <1>1
<1>9. PICK a \in sess[v].locks : Instant[w] = lapse[a] /\ lapse[a] \in Nat
    BY <1>4, <1>7
<1>10. PICK b \in sess[u].locks : b \in sess[v].todo /\ Instant[v] = lapse[b] /\ lapse[b] \in Nat
    BY <1>4, <1>8
<1>11. lapse[a] < lapse[b]
    BY <1>2, <1>3, <1>9, <1>10 DEF LocksInOrder
<1>12. Instant[v] <= Instant[w]
    BY <1>6
<1> QED
    BY <1>9, <1>10, <1>11, <1>12

\* No deadlock for PostgreSQL to break: among any requests one waits for none of
\* the others, although some lock incidents and others lock actions.
THEOREM RequestsNeverWaitInCircle == Spec => []NoCircularWait
BY Safe, InitInOrder, NextInOrder, OrderExcludesCircles, PTL DEF Spec

-----------------------------------------------------------------------------
(***************************************************************************)
(* Requests one at a time: what an incident says of its actions.  The rows *)
(* a session read stay as they are but for an analyst's decision, which    *)
(* touches only what awaits it; so what the session is about to write      *)
(* agrees with the rows as it will leave them.                             *)
(***************************************************************************)

OneAtATime == \E w \in Worker : \A v \in Worker : v = w

\* An incident's status does not contradict the statuses S of its actions.
Agree(st, d, S) ==
    /\ st = "contained" => "applied" \in S
    /\ st = "closed" => "applied" \notin S
    /\ st = "failed" => "failed" \in S
    /\ st = "rejected" => d = "reject"
    /\ "rolled_back" \in S /\ S \subseteq {"rolled_back", "completed"} => st = "closed"

\* The rows as the session is about to leave them.
After(s) == [a \in Action |-> IF a \in s.dirty THEN s.cache[a] ELSE action[a]]
Final(s, i) == IF s.write[i] # "unset" THEN s.write[i] ELSE incident[i].status

WillAgree(s, i) == Agree(Final(s, i), incident[i].decision, Statuses(After(s), i))

\* Between the answer to a revocation and the look at the other actions.
NearlyAgree(s, i) ==
    /\ Final(s, i) # "closed"
    /\ Final(s, i) = "failed" => "failed" \in Statuses(After(s), i)
    /\ Final(s, i) = "rejected" => incident[i].decision = "reject"

RowsAgreed ==
    /\ \A i \in Incident : Agree(incident[i].status, incident[i].decision, Statuses(action, i))
    /\ \A a \in Action : incident[IncidentOf[a]].status # "absent" => action[a].status # "absent"

CacheCurrent(s) == \A a \in Action \ s.dirty :
    \/ s.cache[a] = UnreadAction
    \/ s.cache[a] = action[a] /\ action[a].status # "absent"
    \/ s.cache[a].status = "pending_approval" /\ action[a].status \in {"approved", "skipped"}

SeenCurrent(s) == \A i \in Incident :
    \/ s.seen[i] = UnreadIncident /\ s.write[i] = "unset"
    \/ s.seen[i] = incident[i] /\ incident[i].status # "absent"
    \/ /\ s.seen[i] # UnreadIncident /\ s.seen[i].decision = "none"
       /\ incident[i].status \in {"approved", "rejected"} /\ s.op = "retry"
       /\ \E b \in ActionsOf(i) \ Claimed(s) : action[b].status \in {"approved", "skipped"}

\* A session that executes actions has read their incident only.
SeenOwns(s) == s.op \in {"dispatch", "retry"} =>
    \A i \in Incident : s.seen[i] # UnreadIncident => s.todo \union s.dirty \subseteq ActionsOf(i)

\* A session that reverts actions sees them applied until it does; it has read
\* the incidents of those it locked, and may only close them.
RevertsApplied(s) == s.op \in {"rollback", "expire"} =>
    /\ \A a \in s.todo \ s.dirty : s.cache[a].status = "applied"
    /\ \A i \in Incident : s.seen[i] # UnreadIncident <=> \E a \in s.locks : IncidentOf[a] = i
    /\ \A i \in Incident : s.write[i] \in {"unset", "closed"}
    /\ IF s.pc = "close" THEN s.todo \intersect s.locks \subseteq s.dirty ELSE s.todo \intersect s.dirty = {}

Reverting(s, i) == s.pc = "close" /\ \E a \in s.todo \intersect s.locks : IncidentOf[a] = i

Coherent(s) ==
    /\ CacheCurrent(s)
    /\ SeenCurrent(s)
    /\ SeenOwns(s)
    /\ RevertsApplied(s)
    /\ IF s.pc = "call" /\ s.op \in {"dispatch", "retry"}
       THEN \A i \in Incident : s.write[i] = "unset"
       ELSE \A i \in Incident : IF Reverting(s, i) THEN NearlyAgree(s, i) ELSE WillAgree(s, i)

SInv == RowsAgreed /\ \A w \in Worker : Coherent(sess[w])

LEMMA StatusForAgrees ==
    ASSUME NEW d, NEW S, "rolled_back" \in S => d # "reject"
    PROVE  Agree(StatusFor(d, S), d, S)
BY DEF Agree, StatusFor

\* A decision replaces what awaits it, which contradicts no status but "rejected".
LEMMA DecisionAgrees ==
    ASSUME NEW st, NEW d, NEW S, NEW e, NEW T, Agree(st, d, S), st = "rejected" => e = "reject",
           \A x \in S : x \in T \/ (x = "pending_approval" /\ T \intersect {"approved", "skipped"} # {}),
           \A x \in T : x \in S \/ x \in {"approved", "skipped"}
    PROVE  Agree(st, e, T)
BY DEF Agree

LEMMA StatusesSame ==
    ASSUME NEW R, NEW T, NEW i, \A a \in ActionsOf(i) : R[a].status = T[a].status
    PROVE  Statuses(R, i) = Statuses(T, i)
BY DEF Statuses

\* The rows that an untouched incident is left with are those it has.
LEMMA UntouchedAgree ==
    ASSUME RowsAgreed, NEW s, NEW i \in Incident, s.write[i] = "unset", s.dirty \intersect ActionsOf(i) = {}
    PROVE  WillAgree(s, i)
<1>1. Statuses(After(s), i) = Statuses(action, i)
    BY StatusesSame DEF After, ActionsOf
<1> QED BY <1>1 DEF RowsAgreed, WillAgree, Final

\* What is known of a session that has changed nothing yet.
LEMMA CleanCoherent ==
    ASSUME RowsAgreed, NEW t, t.dirty = {}, \A i \in Incident : t.write[i] = "unset",
           \A a \in Action : t.cache[a] = UnreadAction \/ (t.cache[a] = action[a] /\ action[a].status # "absent"),
           \A i \in Incident : t.seen[i] = UnreadIncident \/ (t.seen[i] = incident[i] /\ incident[i].status # "absent"),
           SeenOwns(t), t.pc # "close",
           t.op \in {"rollback", "expire"} =>
               /\ \A a \in t.todo : t.cache[a].status = "applied"
               /\ \A i \in Incident : t.seen[i] # UnreadIncident <=> \E a \in t.locks : IncidentOf[a] = i
    PROVE  Coherent(t)
<1>1. CacheCurrent(t) /\ SeenCurrent(t) /\ RevertsApplied(t)
    BY DEF CacheCurrent, SeenCurrent, RevertsApplied
<1>2. \A i \in Incident : WillAgree(t, i) /\ ~Reverting(t, i)
    BY UntouchedAgree DEF Reverting
<1> QED BY <1>1, <1>2 DEF Coherent

LEMMA IdleCoherent == RowsAgreed => Coherent(Idle)
<1>1. /\ Idle.dirty = {} /\ Idle.pc = "idle" /\ Idle.op = "none"
      /\ \A i \in Incident : Idle.write[i] = "unset" /\ Idle.seen[i] = UnreadIncident
      /\ \A a \in Action : Idle.cache[a] = UnreadAction
    BY DEF Idle
<1> QED BY <1>1, CleanCoherent DEF SeenOwns

\* While the rows stay, so does what is known of a session.
LEMMA SameRows ==
    ASSUME UNCHANGED <<incident, action>>, NEW w \in Worker, Coherent(sess'[w])
    PROVE  Coherent(sess[w])'
<1> DEFINE t == sess'[w]
<1>1. CacheCurrent(t) => CacheCurrent(sess[w])'
    BY DEF CacheCurrent
<1>2. SeenCurrent(t) => SeenCurrent(sess[w])'
    BY DEF SeenCurrent, Claimed, ActionsOf
<1>3. /\ SeenOwns(t) => SeenOwns(sess[w])'
      /\ RevertsApplied(t) => RevertsApplied(sess[w])'
      /\ \A i \in Incident : Reverting(t, i) <=> Reverting(sess[w], i)'
    BY DEF SeenOwns, RevertsApplied, Reverting
<1>4. /\ After(t) = After(sess[w])'
      /\ \A i \in Incident : Final(t, i) = Final(sess[w], i)'
    BY DEF After, Final
<1>5. \A i \in Incident : Statuses(After(t), i) = Statuses(After(sess[w]), i)'
    BY <1>4 DEF Statuses, ActionsOf
<1>6. \A i \in Incident : (WillAgree(t, i) <=> WillAgree(sess[w], i)') /\ (NearlyAgree(t, i) <=> NearlyAgree(sess[w], i)')
    BY <1>4, <1>5 DEF WillAgree, NearlyAgree, Agree
<1> QED BY <1>1, <1>2, <1>3, <1>6 DEF Coherent

\* A row is there only under an incident that is there.
LEMMA IncidentThere ==
    ASSUME IInv, NEW a \in Action, action[a].status # "absent"
    PROVE  IncidentOf[a] \in Incident /\ incident[IncidentOf[a]].status # "absent"
BY ControllerAssumption DEF IInv, RowsAgree, ActionsOf

LEMMA BeginCoherent ==
    ASSUME IInv, RowsAgreed, NEW w \in Worker,
           \/ \E i \in Incident, scope \in {"automatic", "approved"} : DispatchBegin(w, i, scope)
           \/ \E a \in Action : RetryBegin(w, a) \/ RollbackBegin(w, a)
           \/ ExpireBegin(w)
    PROVE  Coherent(sess'[w])
<1> DEFINE t == sess'[w]
<1>0. /\ sess \in [Worker -> Session] /\ Idle.dirty = {} /\ Idle.locks = {}
      /\ \A i \in Incident : Idle.write[i] = "unset" /\ Idle.seen[i] = UnreadIncident
      /\ \A a \in Action : Idle.cache[a] = UnreadAction
    BY IdleSession DEF IInv, TypeOK, Idle
<1>1. ASSUME NEW i \in Incident, NEW scope \in {"automatic", "approved"}, DispatchBegin(w, i, scope)
      PROVE  Coherent(t)
    <2>1. /\ t.dirty = {} /\ t.write = Idle.write /\ t.pc = "call" /\ t.op = "dispatch"
          /\ t.seen = [Idle.seen EXCEPT ![i] = incident[i]] /\ t.cache = Loaded(Idle, i)
          /\ t.todo = Candidates(i, scope) /\ incident[i].status # "absent"
        BY <1>0, <1>1 DEF DispatchBegin, Begin, Idle
    <2>2. \A a \in Action : t.cache[a] = UnreadAction \/ (t.cache[a] = action[a] /\ action[a].status # "absent")
        BY <1>0, <2>1 DEF Loaded, RowsAgreed
    <2>3. \A j \in Incident : t.seen[j] = UnreadIncident \/ (j = i /\ t.seen[j] = incident[j])
        BY <1>0, <2>1, IdleSession DEF Session
    <2>4. SeenOwns(t)
        BY <2>1, <2>3 DEF SeenOwns, Candidates
    <2> HIDE DEF t
    <2> QED BY <1>0, <2>1, <2>2, <2>3, <2>4, CleanCoherent
<1>2. ASSUME NEW a \in Action, RetryBegin(w, a) \/ RollbackBegin(w, a) PROVE Coherent(t)
    <2> DEFINE i == IncidentOf[a]
               s(op) == [Idle EXCEPT !.op = op, !.pc = "call", !.locks = {a},
                                     !.seen[i] = incident[i], !.cache[a] = action[a], !.todo = {a}]
    <2>1. ASSUME NEW op \in {"retry", "rollback"}, t = s(op)
          PROVE  /\ t.dirty = {} /\ t.write = Idle.write /\ t.pc = "call" /\ t.op = op /\ t.todo = {a} /\ t.locks = {a}
                 /\ t.seen = [Idle.seen EXCEPT ![i] = incident[i]] /\ t.cache = [Idle.cache EXCEPT ![a] = action[a]]
        BY <1>0, <2>1 DEF Idle
    <2>2. \/ t = s("retry") /\ action[a].status = "failed"
          \/ t = s("rollback") /\ action[a].status = "applied"
        BY <1>0, <1>2 DEF RetryBegin, RollbackBegin, Begin, Retriable
    <2>3. i \in Incident /\ incident[i].status # "absent" /\ incident[i] # UnreadIncident
        BY <2>2, IncidentThere, ControllerAssumption DEF IInv, TypeOK, IncidentRow, UnreadIncident, IncidentStatus
    <2>4. PICK op \in {"retry", "rollback"} : t = s(op) /\ (op = "rollback" => action[a].status = "applied")
        BY <2>2
    <2>5. /\ \A b \in Action : t.cache[b] = UnreadAction \/ (b = a /\ t.cache[b] = action[b])
          /\ t.cache[a] = action[a]
        BY <1>0, <2>1, <2>4, IdleSession DEF Session
    <2>6. \A j \in Incident : t.seen[j] = UnreadIncident \/ (j = i /\ t.seen[j] = incident[j])
        BY <1>0, <2>1, <2>4, IdleSession DEF Session
    <2>7. t.seen[i] = incident[i]
        BY <1>0, <2>1, <2>3, <2>4, IdleSession DEF Session
    <2>8. SeenOwns(t)
        BY <1>0, <2>1, <2>4, <2>6 DEF SeenOwns, ActionsOf
    <2> HIDE DEF t, s
    <2> QED BY <1>0, <2>1, <2>2, <2>3, <2>4, <2>5, <2>6, <2>7, <2>8, CleanCoherent
<1>3. CASE ExpireBegin(w)
    <2>1. /\ t.dirty = {} /\ t.write = Idle.write /\ t.seen = Idle.seen /\ t.pc = "lock" /\ t.op = "expire"
          /\ t.todo = Expired /\ t.locks = {}
          /\ t.cache = [a \in Action |-> IF a \in Expired THEN action[a] ELSE UnreadAction]
        BY <1>0, <1>3 DEF ExpireBegin, Begin, Idle
    <2>2. Expired \subseteq Action /\ \A a \in Expired : action[a].status = "applied"
        BY DEF Expired, Containment
    <2>3. \A a \in Action : t.cache[a] = UnreadAction \/ (t.cache[a] = action[a] /\ action[a].status # "absent")
        BY <2>1, <2>2
    <2>4. \A a \in t.todo : t.cache[a].status = "applied"
        BY <2>1, <2>2
    <2>5. SeenOwns(t)
        BY <2>1 DEF SeenOwns
    <2>6. /\ t.dirty = {} /\ t.pc # "close" /\ t.locks = {}
          /\ \A i \in Incident : t.write[i] = "unset" /\ t.seen[i] = UnreadIncident
        BY <1>0, <2>1
    <2>7. Coherent(t)
        <3> HIDE DEF t
        <3> QED BY <2>3, <2>4, <2>5, <2>6, CleanCoherent
    <2> QED BY <2>7
<1> QED BY <1>1, <1>2, <1>3

\* A session that reverts actions is at one of those it locked at a time.
LEMMA OneReverted ==
    ASSUME IInv, InOrder, NEW w \in Worker
    PROVE  /\ sess[w].op \in {"rollback", "expire"} =>
                 /\ \A h, b \in sess[w].todo \intersect sess[w].locks : h = b
                 /\ sess[w].dirty \subseteq sess[w].locks \intersect Action
           /\ sess[w].pc = "lock" => sess[w].op = "expire" /\ sess[w].todo \intersect sess[w].locks = {}
<1> DEFINE s == sess[w]
<1>1. s \in Session /\ Shape(s) /\ LocksInOrder(s) /\ lapse \in [Action -> Nat] /\ Idle.pc = "idle"
    BY DEF IInv, TypeOK, Sound, InOrder, Store!StoreTypeOK, Idle
<1>2. ASSUME s.op = "expire", NEW h \in s.todo \intersect s.locks, NEW b \in s.todo \intersect s.locks PROVE h = b
    <2>1. h = b \/ (lapse[h] < lapse[b] /\ lapse[b] < lapse[h])
        BY <1>1, <1>2 DEF LocksInOrder
    <2>2. lapse[h] \in Nat /\ lapse[b] \in Nat
        BY <1>1 DEF Session
    <2> QED BY <2>1, <2>2
<1>3. s.pc = "lock" => s.op = "expire"
    BY <1>1 DEF Shape, Session
<1>4. s.op = "rollback" => \A h, b \in s.todo \intersect s.locks : h = b
    BY <1>1 DEF Shape
<1>5. s.op \in {"rollback", "expire"} => s.dirty \subseteq s.locks \intersect Action
    BY <1>1 DEF Shape, Session
<1> QED BY <1>1, <1>2, <1>3, <1>4, <1>5 DEF LocksInOrder

\* The status of a row a session has not changed, as it read it and as it is.
LEMMA ReadRows ==
    ASSUME IInv, NEW w \in Worker, CacheCurrent(sess[w]), NEW i \in Incident, NEW a \in ActionsOf(i)
    PROVE  LET rows == Loaded(sess[w], i)
               after == After(sess[w])
           IN  \/ rows[a].status = after[a].status
               \/ /\ a \notin sess[w].dirty
                  /\ rows[a].status = "pending_approval" /\ after[a].status \in {"approved", "skipped"}
<1> DEFINE s == sess[w]
<1>1. s \in Session /\ Shape(s) /\ DirtyIsDone(s) /\ a \in Action /\ IncidentOf[a] = i
    BY DEF IInv, TypeOK, Sound, ActionsOf
<1>2. a \in s.dirty => s.cache[a] # UnreadAction
    <2>1. s.op = "none" => s.dirty = {}
        BY <1>1 DEF Shape, Idle
    <2> QED BY <1>1, <2>1 DEF DirtyIsDone, Outcome, UnreadAction, Session
<1> QED BY <1>1, <1>2 DEF CacheCurrent, Loaded, After, UnreadAction

\* Executing an action settles nothing about the incident yet.
LEMMA RecordCoherent ==
    ASSUME IInv, SInv, NEW w \in Worker, NEW a \in Action, NEW st, Executes(w, a), Record(w, a, st)
    PROVE  Coherent(sess'[w])
<1> DEFINE s == sess[w]
           t == sess'[w]
<1>1. /\ s.pc = "call" /\ s.op \in {"dispatch", "retry"} /\ a \in s.todo /\ s \in Session /\ Coherent(s)
      /\ sess \in [Worker -> Session]
    BY DEF Executes, IInv, TypeOK, SInv
<1>2. /\ t.op = s.op /\ t.pc = s.pc /\ t.locks = s.locks /\ t.seen = s.seen /\ t.write = s.write
      /\ t.todo = s.todo \ {a} /\ t.dirty = s.dirty \union {a}
      /\ \A b \in Action \ {a} : t.cache[b] = s.cache[b]
    BY <1>1 DEF Record, Session
<1>3. Claimed(t) = Claimed(s)
    BY <1>1, <1>2 DEF Claimed
<1>4. CacheCurrent(t) /\ SeenCurrent(t) /\ SeenOwns(t) /\ RevertsApplied(t)
    <2> HIDE DEF s, t
    <2> QED BY <1>1, <1>2, <1>3 DEF Coherent, CacheCurrent, SeenCurrent, SeenOwns, RevertsApplied
<1>5. \A i \in Incident : t.write[i] = "unset"
    BY <1>1, <1>2 DEF Coherent
<1> QED BY <1>1, <1>2, <1>4, <1>5 DEF Coherent

\* The status computed after dispatch and retry is that of the rows as they will be.
LEMMA RecomputeAgrees ==
    ASSUME IInv, SInv, NEW w \in Worker, NEW i \in Incident,
           sess[w].op \in {"dispatch", "retry"}, sess[w].seen[i] # UnreadIncident,
           NEW new, new = StatusFor(sess[w].seen[i].decision, Statuses(Loaded(sess[w], i), i))
    PROVE  LET T == Statuses(After(sess[w]), i) IN
           /\ Agree(new, incident[i].decision, T)
           /\ new = sess[w].seen[i].status => Agree(incident[i].status, incident[i].decision, T)
<1> DEFINE s == sess[w]
           rows == Loaded(s, i)
           d == s.seen[i].decision
           e == incident[i].decision
           S == Statuses(rows, i)
           T == Statuses(After(s), i)
<1>1. /\ s \in Session /\ DirtyIsDone(s) /\ Coherent(s) /\ RowsAgreed
      /\ s.dirty \subseteq Action
    BY DEF IInv, TypeOK, Sound, SInv, Session
<1>2. \/ s.seen[i] = incident[i]
      \/ /\ d = "none" /\ incident[i].status \in {"approved", "rejected"}
         /\ \E b \in ActionsOf(i) \ Claimed(s) : action[b].status \in {"approved", "skipped"}
    BY <1>1 DEF Coherent, SeenCurrent
<1>3. ASSUME NEW a \in ActionsOf(i)
      PROVE  \/ rows[a].status = After(s)[a].status
             \/ rows[a].status = "pending_approval" /\ After(s)[a].status \in {"approved", "skipped"}
    BY <1>1, ReadRows DEF Coherent
<1>4. /\ \A x \in S : x \in T \/ (x = "pending_approval" /\ T \intersect {"approved", "skipped"} # {})
      /\ \A x \in T : x \in S \/ x \in {"approved", "skipped"}
    <2> HIDE DEF rows
    <2> QED BY <1>3 DEF Statuses
<1>5. ASSUME "rolled_back" \in T PROVE e = "approve"
    <2>1. PICK a \in ActionsOf(i) : After(s)[a].status = "rolled_back"
        BY <1>5 DEF Statuses
    <2>2. a \in Action /\ action[a].status = "rolled_back"
        BY <1>1, <2>1 DEF After, DirtyIsDone, Outcome, ActionsOf
    <2> QED BY <2>1, <2>2 DEF IInv, RowsAgree, Containment, ActionsOf
<1>6. "rolled_back" \in S => d # "reject"
    BY <1>2, <1>4, <1>5
<1>7. Agree(new, d, S)
    BY <1>6, StatusForAgrees
<1>8. new = "rejected" => e = "reject"
    <2>1. new = "rejected" => d = "reject"
        BY <1>7 DEF Agree
    <2> QED BY <1>2, <2>1
<1>9. Agree(new, e, T)
    BY <1>4, <1>7, <1>8, DecisionAgrees
<1>10. ASSUME new = s.seen[i].status PROVE Agree(incident[i].status, e, T)
    <2>1. CASE s.seen[i] = incident[i]
        BY <1>9, <1>10, <2>1
    <2>2. ASSUME incident[i].status \in {"approved", "rejected"},
                 NEW b \in ActionsOf(i) \ Claimed(s), action[b].status \in {"approved", "skipped"}
          PROVE  Agree(incident[i].status, e, T)
        <3>1. After(s)[b].status \in T /\ After(s)[b] = action[b]
            BY <2>2 DEF Statuses, After, Claimed, ActionsOf
        <3>2. incident[i].status = "rejected" => e = "reject"
            BY <1>1 DEF RowsAgreed, Agree
        <3> QED BY <2>2, <3>1, <3>2 DEF Agree
    <2> QED BY <1>2, <2>1, <2>2
<1> QED BY <1>9, <1>10

LEMMA RecomputeCoherent ==
    ASSUME IInv, SInv, NEW w \in Worker, NEW i \in Incident, Recompute(w, i)
    PROVE  Coherent(sess'[w])
<1> DEFINE s == sess[w]
           t == sess'[w]
           rows == Loaded(s, i)
           new == StatusFor(s.seen[i].decision, Statuses(rows, i))
<1>1. /\ s.pc = "call" /\ s.op \in {"dispatch", "retry"} /\ s.seen[i] # UnreadIncident
      /\ s \in Session /\ Shape(s) /\ DirtyIsDone(s) /\ Coherent(s) /\ RowsAgreed /\ sess \in [Worker -> Session]
    BY DEF Recompute, IInv, TypeOK, Sound, SInv
<1>2. /\ t.op = s.op /\ t.pc = "commit" /\ t.locks = s.locks /\ t.seen = s.seen
      /\ t.todo = s.todo /\ t.dirty = s.dirty /\ t.cache = rows
      /\ t.write = [s.write EXCEPT ![i] = StatusWrite(s, i, new)]
    BY <1>1 DEF Recompute, Session
<1>3. \A j \in Incident : s.write[j] = "unset" /\ t.write[j] = IF j = i THEN StatusWrite(s, i, new) ELSE "unset"
    BY <1>1, <1>2 DEF Coherent, Session
<1>4. \A a \in Action : s.cache[a] # UnreadAction => rows[a] = s.cache[a]
    BY DEF Loaded
<1>5. After(t) = After(s)
    <2>1. \A a \in s.dirty : s.cache[a] # UnreadAction
        BY <1>1 DEF DirtyIsDone, Outcome, UnreadAction
    <2> QED BY <1>2, <1>4, <2>1 DEF After
<1>6. incident[i].status # "absent"
    BY <1>1 DEF Coherent, SeenCurrent
<1>7. CacheCurrent(t)
    <2>1. ASSUME NEW a \in Action \ s.dirty
          PROVE  rows[a] = s.cache[a] \/ (rows[a] = action[a] /\ action[a].status # "absent")
        BY <1>1, <1>6 DEF Loaded, RowsAgreed
    <2> HIDE DEF rows, s, t
    <2> QED BY <1>1, <1>2, <2>1 DEF Coherent, CacheCurrent
<1>8. SeenCurrent(t) /\ SeenOwns(t) /\ RevertsApplied(t)
    <2>1. Claimed(t) = Claimed(s)
        BY <1>2 DEF Claimed
    <2> HIDE DEF s, t
    <2> QED BY <1>1, <1>2, <1>3, <2>1 DEF Coherent, SeenCurrent, SeenOwns, RevertsApplied
<1>9. ASSUME NEW j \in Incident, j # i PROVE WillAgree(t, j)
    <2>1. t.dirty \intersect ActionsOf(j) = {}
        BY <1>1, <1>2, <1>9 DEF Coherent, SeenOwns, ActionsOf
    <2> QED BY <1>1, <1>3, <1>9, <2>1, UntouchedAgree
<1>10. WillAgree(t, i)
    <2>1. /\ Agree(new, incident[i].decision, Statuses(After(s), i))
          /\ new = s.seen[i].status => Agree(incident[i].status, incident[i].decision, Statuses(After(s), i))
        BY <1>1, RecomputeAgrees
    <2>2. new \in IncidentStatus
        BY StatusForType
    <2>3. Final(t, i) = IF new = s.seen[i].status THEN incident[i].status ELSE new
        <3> HIDE DEF new, s, t
        <3> QED BY <1>3, <2>2 DEF Final, StatusWrite, IncidentStatus
    <2> HIDE DEF new
    <2> QED BY <1>5, <2>1, <2>3 DEF WillAgree
<1> QED BY <1>1, <1>2, <1>7, <1>8, <1>9, <1>10 DEF Coherent, Reverting

LEMMA ExpireLockCoherent ==
    ASSUME IInv, SInv, NEW w \in Worker, NEW a \in Action, ExpireLock(w, a)
    PROVE  Coherent(sess'[w])
<1> DEFINE s == sess[w]
           t == sess'[w]
           i == IncidentOf[a]
<1>1. /\ s.pc = "lock" /\ a \in s.todo /\ s \in Session /\ Sound(s) /\ Coherent(s) /\ sess \in [Worker -> Session]
      /\ i \in Incident /\ Idle.pc = "idle"
    BY ControllerAssumption DEF ExpireLock, NextExpired, IInv, TypeOK, SInv, Idle
<1>2. s.op = "expire"
    BY <1>1 DEF Sound, Shape, Session
<1>3. /\ t.op = s.op /\ t.pc = "call" /\ t.locks = s.locks \union {a} /\ t.write = s.write
      /\ t.todo = s.todo /\ t.dirty = s.dirty /\ t.cache = s.cache
      /\ t.seen = [s.seen EXCEPT ![i] = IF @ = UnreadIncident THEN incident[i] ELSE @]
    BY <1>1 DEF ExpireLock, Session
<1>4. incident[i].status # "absent" /\ incident[i] # UnreadIncident
    <2>1. action[a].status # "absent"
        BY <1>1, <1>2 DEF Sound, WorkIsDue, Claimed, Due
    <2> QED BY <2>1, IncidentThere DEF IInv, TypeOK, IncidentRow, UnreadIncident, IncidentStatus
<1>5. \A j \in Incident : t.seen[j] = s.seen[j] \/ (j = i /\ s.seen[i] = UnreadIncident /\ t.seen[i] = incident[i])
    BY <1>1, <1>3 DEF Session
<1>6. t.seen[i] # UnreadIncident
    BY <1>1, <1>3, <1>4 DEF Session
<1>7. CacheCurrent(t) /\ SeenCurrent(t) /\ SeenOwns(t)
    <2> HIDE DEF s, t, i
    <2> QED BY <1>1, <1>2, <1>3, <1>4, <1>5 DEF Coherent, CacheCurrent, SeenCurrent, SeenOwns
<1>8. RevertsApplied(t)
    <2>1. \A j \in Incident : t.seen[j] # UnreadIncident <=> \E b \in t.locks : IncidentOf[b] = j
        <3>1. \A b \in s.locks : b \in Action /\ IncidentOf[b] \in Incident
            BY <1>1, <1>2, ControllerAssumption DEF Sound, Shape, Containment
        <3> HIDE DEF s, t
        <3> QED BY <1>1, <1>2, <1>3, <1>5, <1>6, <3>1 DEF Coherent, RevertsApplied
    <2> HIDE DEF s, t
    <2> QED BY <1>1, <1>2, <1>3, <2>1 DEF Coherent, RevertsApplied
<1>9. After(t) = After(s) /\ \A j \in Incident : Final(t, j) = Final(s, j)
    BY <1>3 DEF After, Final
<1>10. \A j \in Incident : WillAgree(s, j)
    BY <1>1 DEF Coherent, Reverting
<1> QED BY <1>1, <1>2, <1>3, <1>7, <1>8, <1>9, <1>10 DEF Coherent, WillAgree, Reverting

LEMMA RevokeAnsweredCoherent ==
    ASSUME IInv, InOrder, SInv, NEW w \in Worker, NEW a \in Action, RevokeAnswered(w, a)
    PROVE  Coherent(sess'[w])
<1> DEFINE s == sess[w]
           t == sess'[w]
           i == IncidentOf[a]
<1>1. /\ s.pc = "call" /\ s.op \in {"rollback", "expire"} /\ a \in s.todo \intersect s.locks
      /\ s \in Session /\ Coherent(s) /\ sess \in [Worker -> Session] /\ i \in Incident
      /\ \A h, b \in s.todo \intersect s.locks : h = b
    BY OneReverted, ControllerAssumption DEF RevokeAnswered, Reverts, IInv, TypeOK, SInv
<1>2. /\ t.op = s.op /\ t.pc = "close" /\ t.locks = s.locks /\ t.seen = s.seen /\ t.write = s.write
      /\ t.todo = s.todo /\ t.dirty = s.dirty \union {a}
      /\ \A b \in Action \ {a} : t.cache[b] = s.cache[b]
      /\ t.cache[a] = [s.cache[a] EXCEPT !.status = "rolled_back"]
    BY <1>1 DEF RevokeAnswered, Session
<1>3. a \notin s.dirty /\ action[a].status = "applied"
    BY <1>1 DEF Coherent, RevertsApplied, CacheCurrent, UnreadAction
<1>4. CacheCurrent(t) /\ SeenCurrent(t) /\ SeenOwns(t) /\ RevertsApplied(t)
    <2>1. Claimed(t) = Claimed(s)
        BY <1>1, <1>2 DEF Claimed
    <2>2. t.todo \intersect t.locks \subseteq t.dirty
        BY <1>1, <1>2
    <2>3. \A b \in t.todo \ t.dirty : t.cache[b].status = "applied"
        <3>1. s.todo \subseteq Action
            BY <1>1 DEF Session
        <3> HIDE DEF s, t
        <3> QED BY <1>1, <1>2, <3>1 DEF Coherent, RevertsApplied
    <2>4. RevertsApplied(t)
        <3> HIDE DEF s, t
        <3> QED BY <1>1, <1>2, <2>2, <2>3 DEF Coherent, RevertsApplied
    <2> HIDE DEF s, t
    <2> QED BY <1>1, <1>2, <2>1, <2>4 DEF Coherent, CacheCurrent, SeenCurrent, SeenOwns
<1>5. \A b \in Action \ {a} : After(t)[b] = After(s)[b]
    <2> HIDE DEF s, t
    <2> QED BY <1>2 DEF After
<1>6. \A j \in Incident : Final(t, j) = Final(s, j) /\ WillAgree(s, j)
    BY <1>1, <1>2 DEF Final, Coherent, Reverting
<1>7. NearlyAgree(t, i)
    <2>1. "applied" \in Statuses(After(s), i)
        BY <1>3 DEF Statuses, ActionsOf, After
    <2>2. ASSUME "failed" \in Statuses(After(s), i) PROVE "failed" \in Statuses(After(t), i)
        <3>1. PICK b \in ActionsOf(i) : After(s)[b].status = "failed"
            BY <2>2 DEF Statuses
        <3>2. b # a
            BY <1>3, <3>1 DEF After
        <3> QED BY <1>5, <3>1, <3>2 DEF Statuses, ActionsOf
    <2> QED BY <1>1, <1>6, <2>1, <2>2 DEF WillAgree, NearlyAgree, Agree
<1>8. ASSUME NEW j \in Incident, j # i PROVE WillAgree(t, j)
    <2>1. Statuses(After(t), j) = Statuses(After(s), j)
        BY <1>5, <1>8, StatusesSame DEF ActionsOf
    <2> QED BY <1>6, <2>1 DEF WillAgree
<1>9. \A j \in Incident : Reverting(t, j) <=> j = i
    BY <1>1, <1>2 DEF Reverting
<1> QED BY <1>1, <1>2, <1>4, <1>7, <1>8, <1>9 DEF Coherent

LEMMA RevokeFailedCoherent ==
    ASSUME IInv, InOrder, SInv, NEW w \in Worker, NEW a \in Action, RevokeFailed(w, a)
    PROVE  Coherent(sess'[w])
<1> DEFINE s == sess[w]
           t == sess'[w]
<1>1. /\ s.pc = "call" /\ s.op \in {"rollback", "expire"} /\ a \in s.todo \intersect s.locks
      /\ s \in Session /\ Coherent(s) /\ sess \in [Worker -> Session] /\ RowsAgreed
    BY DEF RevokeFailed, Reverts, IInv, TypeOK, SInv
<1>2. CASE t = Idle
    BY <1>1, <1>2, IdleCoherent
<1>3. CASE s.op = "expire"
    <2>1. /\ t.op = s.op /\ t.pc \in {"lock", "commit"} /\ t.locks = s.locks /\ t.seen = s.seen /\ t.write = s.write
          /\ t.todo = s.todo \ {a} /\ t.dirty = s.dirty /\ t.cache = s.cache
        BY <1>1, <1>3 DEF RevokeFailed, AfterAction, Session
    <2>2. CacheCurrent(t) /\ SeenCurrent(t) /\ SeenOwns(t) /\ RevertsApplied(t)
        <3> HIDE DEF s, t
        <3> QED BY <1>1, <1>3, <2>1 DEF Coherent, CacheCurrent, SeenCurrent, SeenOwns, RevertsApplied
    <2>3. After(t) = After(s) /\ \A j \in Incident : Final(t, j) = Final(s, j)
        BY <2>1 DEF After, Final
    <2>4. \A j \in Incident : WillAgree(s, j)
        BY <1>1 DEF Coherent, Reverting
    <2> QED BY <1>3, <2>1, <2>2, <2>3, <2>4 DEF Coherent, WillAgree, Reverting
<1> QED BY <1>1, <1>2, <1>3 DEF RevokeFailed

\* With the last applied action reverted the incident closes; otherwise its
\* status is still true of the others.
LEMMA CloseAgrees ==
    ASSUME IInv, InOrder, SInv, NEW w \in Worker, NEW a \in Action, CloseIncident(w, a)
    PROVE  WillAgree(sess'[w], IncidentOf[a]) /\ After(sess'[w]) = After(sess[w])
<1> DEFINE s == sess[w]
           t == sess'[w]
           i == IncidentOf[a]
           rows == Loaded(s, i)
           T == Statuses(After(s), i)
<1>1. /\ s.pc = "close" /\ a \in s.todo \intersect s.locks /\ s \in Session /\ Coherent(s) /\ Sound(s)
      /\ sess \in [Worker -> Session] /\ i \in Incident /\ a \in ActionsOf(i)
    BY ControllerAssumption DEF CloseIncident, IInv, TypeOK, SInv, ActionsOf
<1>2. s.op \in {"rollback", "expire"}
    BY <1>1 DEF Sound, Shape, Session, Idle
<1>3. /\ t.dirty = s.dirty /\ t.cache = rows
      /\ t.write = [s.write EXCEPT ![i] = IF LastApplied(rows, a) THEN StatusWrite(s, i, "closed") ELSE @]
    BY <1>1 DEF CloseIncident, Session
<1>4. After(t) = After(s)
    <2>1. \A b \in s.dirty : s.cache[b] # UnreadAction
        BY <1>1, <1>2 DEF Sound, DirtyIsDone, UnreadAction
    <2> QED BY <1>3, <2>1 DEF After, Loaded
<1>5. /\ a \in s.dirty /\ NearlyAgree(s, i) /\ s.write[i] \in {"unset", "closed"} /\ s.seen[i] = incident[i]
    BY <1>1, <1>2 DEF Coherent, RevertsApplied, Reverting, SeenCurrent
<1>6. s.write[i] = "unset" /\ incident[i].status # "closed"
    BY <1>5 DEF NearlyAgree, Final
<1>7. After(s)[a].status = "rolled_back"
    BY <1>1, <1>2, <1>5 DEF Sound, DirtyIsDone, After
<1>8. ASSUME NEW b \in ActionsOf(i) PROVE (After(s)[b].status = "applied") <=> (rows[b].status = "applied")
    BY <1>1, ReadRows DEF Coherent
<1>9. ASSUME LastApplied(rows, a) PROVE WillAgree(t, i)
    <2>1. Final(t, i) = "closed"
        BY <1>1, <1>3, <1>5, <1>6, <1>9 DEF Final, StatusWrite, Session
    <2>2. "applied" \notin T
        BY <1>7, <1>8, <1>9 DEF Statuses, LastApplied
    <2> HIDE DEF t, s
    <2> QED BY <1>4, <2>1, <2>2 DEF WillAgree, Agree
<1>10. ASSUME ~LastApplied(rows, a) PROVE WillAgree(t, i)
    <2>1. Final(t, i) = Final(s, i)
        BY <1>1, <1>3, <1>10 DEF Final, Session
    <2>2. "applied" \in T
        BY <1>8, <1>10 DEF Statuses, LastApplied
    <2> HIDE DEF t, s
    <2> QED BY <1>4, <1>5, <2>1, <2>2 DEF WillAgree, Agree, NearlyAgree
<1> QED BY <1>4, <1>9, <1>10

LEMMA CloseCoherent ==
    ASSUME IInv, InOrder, SInv, NEW w \in Worker, NEW a \in Action, CloseIncident(w, a)
    PROVE  Coherent(sess'[w])
<1> DEFINE s == sess[w]
           t == sess'[w]
           i == IncidentOf[a]
           rows == Loaded(s, i)
<1>1. /\ s.pc = "close" /\ a \in s.todo \intersect s.locks /\ s \in Session /\ Coherent(s) /\ Sound(s)
      /\ sess \in [Worker -> Session] /\ i \in Incident /\ RowsAgreed
    BY ControllerAssumption DEF CloseIncident, IInv, TypeOK, SInv
<1>2. s.op \in {"rollback", "expire"}
    BY <1>1 DEF Sound, Shape, Session, Idle
<1>3. /\ \A h, b \in s.todo \intersect s.locks : h = b
      /\ s.dirty \subseteq s.locks
    BY <1>2, OneReverted
<1>4. /\ t.op = s.op /\ t.pc \in {"lock", "commit"} /\ t.locks = s.locks /\ t.seen = s.seen
      /\ t.todo = s.todo \ {a} /\ t.dirty = s.dirty /\ t.cache = rows
      /\ t.write = [s.write EXCEPT ![i] = IF LastApplied(rows, a) THEN StatusWrite(s, i, "closed") ELSE @]
    BY <1>1 DEF CloseIncident, AfterAction, Session
<1>5. \A j \in Incident : t.write[j] = s.write[j] \/ (j = i /\ t.write[j] = "closed")
    BY <1>1, <1>4 DEF StatusWrite, Session
<1>6. s.seen[i] # UnreadIncident /\ incident[i].status # "absent"
    BY <1>1, <1>2 DEF Coherent, RevertsApplied, SeenCurrent
<1>7. ASSUME NEW b \in Action
      PROVE  \/ rows[b] = s.cache[b]
             \/ s.cache[b] = UnreadAction /\ rows[b] = action[b] /\ action[b].status # "absent"
    BY <1>1, <1>6 DEF Loaded, RowsAgreed
<1>8. CacheCurrent(t)
    <2> HIDE DEF rows, s, t
    <2> QED BY <1>1, <1>4, <1>7 DEF Coherent, CacheCurrent
<1>9. SeenCurrent(t) /\ SeenOwns(t)
    <2> HIDE DEF s, t, rows, i
    <2> QED BY <1>1, <1>2, <1>4, <1>5, <1>6 DEF Coherent, SeenCurrent, SeenOwns
<1>10. RevertsApplied(t)
    <2>1. t.todo \intersect t.dirty = {}
        BY <1>1, <1>3, <1>4
    <2>2. \A b \in s.todo : b \in Action
        BY <1>1 DEF Session
    <2>3. \A b \in t.todo \ t.dirty : t.cache[b].status = "applied"
        <3> HIDE DEF s, t, rows
        <3> QED BY <1>1, <1>2, <1>4, <1>7, <2>2 DEF Coherent, RevertsApplied, UnreadAction
    <2> HIDE DEF s, t, rows
    <2> QED BY <1>1, <1>2, <1>4, <1>5, <2>1, <2>3 DEF Coherent, RevertsApplied
<1>11. WillAgree(t, i) /\ After(t) = After(s)
    BY CloseAgrees
<1>12. ASSUME NEW j \in Incident, j # i PROVE WillAgree(t, j)
    <2>1. WillAgree(s, j)
        BY <1>1, <1>2, <1>3, <1>12 DEF Coherent, Reverting
    <2>2. Final(t, j) = Final(s, j)
        BY <1>5, <1>12 DEF Final
    <2> QED BY <1>11, <2>1, <2>2 DEF WillAgree
<1> QED BY <1>2, <1>4, <1>8, <1>9, <1>10, <1>11, <1>12 DEF Coherent, Reverting

LEMMA CommitCoherent ==
    ASSUME IInv, SInv, NEW w \in Worker, Commit(w)
    PROVE  RowsAgreed' /\ Coherent(sess[w])'
<1> DEFINE s == sess[w]
<1>1. /\ s.pc = "commit" /\ s \in Session /\ Coherent(s) /\ Sound(s) /\ sess \in [Worker -> Session] /\ RowsAgreed
      /\ incident \in [Incident -> IncidentRow]
    BY DEF Commit, IInv, TypeOK, SInv
<1>2. /\ action' = [a \in Action |-> IF a \in s.dirty THEN s.cache[a] ELSE action[a]]
      /\ incident' = [i \in Incident |->
            IF s.write[i] # "unset" THEN [incident[i] EXCEPT !.status = s.write[i]] ELSE incident[i]]
      /\ sess'[w] = Idle
    BY <1>1 DEF Commit
<1>3. action' = After(s)
    BY <1>2 DEF After
<1>4. \A i \in Incident : incident'[i].status = Final(s, i) /\ incident'[i].decision = incident[i].decision
    <2> HIDE DEF s
    <2> QED BY <1>1, <1>2 DEF Final, IncidentRow
<1>5. \A i \in Incident : WillAgree(s, i)
    BY <1>1 DEF Coherent, Reverting
<1>6. \A i \in Incident : Statuses(action', i) = Statuses(action, i)'
    BY DEF Statuses, ActionsOf
<1>7. \A i \in Incident : Agree(incident[i].status, incident[i].decision, Statuses(action, i))'
    <2> HIDE DEF s
    <2> QED BY <1>3, <1>4, <1>5, <1>6 DEF WillAgree, Agree
<1>8. ASSUME NEW a \in Action, incident'[IncidentOf[a]].status # "absent" PROVE action'[a].status # "absent"
    <2>1. incident[IncidentOf[a]].status # "absent"
        BY <1>1, <1>2, <1>8, ControllerAssumption DEF Coherent, SeenCurrent
    <2>2. CASE a \in s.dirty
        <3>1. s.op \in {"dispatch", "retry", "rollback", "expire"}
            BY <1>1 DEF Session, Sound, Shape, Idle
        <3>2. s.cache[a].status # "absent"
            BY <1>1, <2>2, <3>1 DEF Sound, DirtyIsDone, Outcome
        <3> QED BY <1>2, <2>2, <3>2
    <2>3. CASE a \notin s.dirty
        BY <1>1, <1>2, <2>1, <2>3 DEF RowsAgreed
    <2> QED BY <2>2, <2>3
<1>9. RowsAgreed'
    BY <1>7, <1>8 DEF RowsAgreed
<1>10. Coherent(Idle)'
    BY <1>9, IdleCoherent, PTL
<1> QED BY <1>2, <1>9, <1>10

\* Between two steps of a session its rows may change under it in two ways: its
\* own incidents are decided, others appear.
LEMMA CreateCoherent ==
    ASSUME IInv, SInv, NEW w \in Worker, NEW i \in Incident, CreateIncident(i)
    PROVE  RowsAgreed' /\ Coherent(sess[w])'
<1> DEFINE s == sess[w]
<1>1. /\ s \in Session /\ Coherent(s) /\ Sound(s) /\ RowsAgreed /\ sess' = sess
      /\ incident \in [Incident -> IncidentRow] /\ action \in [Action -> ActionRow]
    BY DEF CreateIncident, IInv, TypeOK, SInv
<1>2. PICK born \in [ActionsOf(i) -> InitialAutomatic \union InitialContainment] :
        /\ action' = [a \in Action |-> IF IncidentOf[a] = i THEN [action[a] EXCEPT !.status = born[a]] ELSE action[a]]
        /\ incident' = [incident EXCEPT ![i].status = StatusFor("none", {born[a] : a \in ActionsOf(i)})]
    BY DEF CreateIncident
<1>3. /\ incident[i].status = "absent" /\ incident[i].decision = "none"
      /\ \A a \in ActionsOf(i) : action[a].status = "absent"
    BY DEF CreateIncident, IInv, RowsAgree
<1>4. /\ \A j \in Incident \ {i} : incident'[j] = incident[j]
      /\ incident'[i].decision = "none"
      /\ incident'[i].status = StatusFor("none", {born[a] : a \in ActionsOf(i)})
    BY <1>1, <1>2, <1>3 DEF IncidentRow
<1>5. /\ \A a \in Action \ ActionsOf(i) : action'[a] = action[a]
      /\ \A a \in ActionsOf(i) : action'[a].status = born[a] /\ born[a] # "absent"
    BY <1>1, <1>2 DEF ActionsOf, ActionRow, InitialAutomatic, InitialContainment
<1>6. Agree(incident'[i].status, "none", Statuses(action, i)')
    <2>1. Statuses(action, i)' = {born[a] : a \in ActionsOf(i)}
        BY <1>5 DEF Statuses, ActionsOf
    <2> QED BY <1>4, <2>1, StatusForAgrees
<1>7. RowsAgreed'
    <2>1. ASSUME NEW j \in Incident, j # i PROVE Statuses(action, j)' = Statuses(action, j)
        BY <1>5, <2>1 DEF Statuses, ActionsOf
    <2>2. \A j \in Incident : Agree(incident[j].status, incident[j].decision, Statuses(action, j))'
        BY <1>1, <1>4, <1>6, <2>1 DEF RowsAgreed, Agree
    <2>3. \A a \in Action : incident'[IncidentOf[a]].status # "absent" => action'[a].status # "absent"
        BY <1>1, <1>4, <1>5, ControllerAssumption DEF RowsAgreed, ActionsOf
    <2> QED BY <2>2, <2>3 DEF RowsAgreed
<1>8. \A a \in Claimed(s) : a \in Action /\ a \notin ActionsOf(i)
    BY <1>1, <1>3 DEF Sound, WorkIsDue, Claimed, Due, Session
<1>9. s.seen[i] = UnreadIncident /\ s.write[i] = "unset"
    BY <1>1, <1>3 DEF Coherent, SeenCurrent
<1>10. CacheCurrent(s)'
    <2>1. \A a \in ActionsOf(i) : a \in Action \ s.dirty /\ s.cache[a] = UnreadAction
        BY <1>1, <1>3, <1>8 DEF Coherent, CacheCurrent, Claimed, ActionsOf
    <2> QED BY <1>1, <1>5, <2>1 DEF Coherent, CacheCurrent
<1>11. SeenCurrent(s)' /\ SeenOwns(s)' /\ RevertsApplied(s)'
    <2>1. SeenCurrent(s)'
        <3>1. \A j \in Incident \ {i} : \A b \in ActionsOf(j) : action'[b] = action[b]
            BY <1>5 DEF ActionsOf
        <3> QED BY <1>1, <1>4, <1>9, <3>1 DEF Coherent, SeenCurrent, Claimed, ActionsOf
    <2> QED BY <1>1, <2>1 DEF Coherent, SeenOwns, RevertsApplied, ActionsOf
<1>12. ASSUME NEW j \in Incident, j # i
       PROVE  (WillAgree(s, j) => WillAgree(s, j)') /\ (NearlyAgree(s, j) => NearlyAgree(s, j)')
    <2>1. \A a \in ActionsOf(j) : After(s)'[a] = After(s)[a]
        BY <1>1, <1>5, <1>12 DEF After, ActionsOf
    <2>2. Statuses(After(s), j)' = Statuses(After(s), j)
        BY <2>1 DEF Statuses, ActionsOf
    <2>3. Final(s, j)' = Final(s, j) /\ incident'[j] = incident[j]
        BY <1>1, <1>4, <1>12 DEF Final
    <2> QED BY <2>2, <2>3 DEF WillAgree, NearlyAgree, Agree
<1>13. WillAgree(s, i)' /\ ~Reverting(s, i)'
    <2>1. s.dirty \intersect ActionsOf(i) = {}
        BY <1>8 DEF Claimed
    <2>2. WillAgree(s, i)'
        <3>1. \A a \in ActionsOf(i) : After(s)'[a] = action'[a]
            BY <1>1, <2>1 DEF After, ActionsOf
        <3>2. Statuses(After(s), i)' = Statuses(action, i)'
            BY <3>1 DEF Statuses, ActionsOf
        <3>3. Final(s, i)' = incident'[i].status
            BY <1>1, <1>9 DEF Final
        <3> QED BY <1>4, <1>6, <3>2, <3>3 DEF WillAgree, Agree
    <2>3. ~Reverting(s, i)'
        BY <1>1, <1>8 DEF Reverting, Claimed, ActionsOf
    <2> QED BY <2>2, <2>3
<1>14. \A j \in Incident : Reverting(s, j)' <=> Reverting(s, j)
    BY <1>1 DEF Reverting
<1> QED BY <1>1, <1>7, <1>9, <1>10, <1>11, <1>12, <1>13, <1>14 DEF Coherent

LEMMA DecideCoherent ==
    ASSUME IInv, InOrder, SInv, NEW w \in Worker, NEW i \in Incident, NEW d \in Decision, Decide(i, d)
    PROVE  RowsAgreed' /\ Coherent(sess[w])'
<1> DEFINE s == sess[w]
           x == IF d = "approve" THEN "approved" ELSE "skipped"
           Waits(a) == IncidentOf[a] = i /\ action[a].status = "pending_approval"
<1>1. /\ s \in Session /\ Coherent(s) /\ Sound(s) /\ RowsAgreed /\ sess' = sess
      /\ incident \in [Incident -> IncidentRow] /\ action \in [Action -> ActionRow]
      /\ i \notin s.locks /\ incident[i].decision = "none" /\ d # "none"
    BY DEF Decide, IInv, TypeOK, SInv, Decision
<1>2. /\ \A j \in Incident \ {i} : incident'[j] = incident[j]
      /\ incident'[i].decision = d /\ incident'[i].status \in {"approved", "rejected"}
      /\ incident'[i].status = "rejected" => d = "reject"
    BY <1>1 DEF Decide, Decision
<1>3. /\ \A a \in Action : ~Waits(a) => action'[a] = action[a]
      /\ \A a \in Action : Waits(a) => action'[a].status = x
    BY <1>1 DEF Decide, ActionRow
<1>4. \A a \in Claimed(s) : a \in Action /\ ~Waits(a)
    BY <1>1 DEF Sound, WorkIsDue, Claimed, Due, Session
<1>5. PICK c \in ActionsOf(i) : Waits(c) /\ c \in Action
    BY DEF Decide, ActionsOf
<1>7. RowsAgreed'
    <2>1. Agree(incident'[i].status, d, Statuses(action, i)')
        <3>1. x \in Statuses(action, i)' /\ x \in {"approved", "skipped"}
            BY <1>3, <1>5 DEF Statuses, ActionsOf
        <3> QED BY <1>2, <3>1 DEF Agree
    <2>2. ASSUME NEW j \in Incident, j # i PROVE Statuses(action, j)' = Statuses(action, j)
        BY <1>3, <2>2 DEF Statuses, ActionsOf
    <2>3. \A j \in Incident : Agree(incident[j].status, incident[j].decision, Statuses(action, j))'
        BY <1>1, <1>2, <2>1, <2>2 DEF RowsAgreed, Agree
    <2>4. \A a \in Action : incident'[IncidentOf[a]].status # "absent" => action'[a].status # "absent"
        <3>1. \A a \in Action : action[a].status # "absent" => action'[a].status # "absent"
            BY <1>3
        <3>2. incident[i].status # "absent"
            BY <1>5, IncidentThere DEF ActionsOf
        <3> QED BY <1>1, <1>2, <3>1, <3>2, ControllerAssumption DEF RowsAgreed
    <2> QED BY <2>3, <2>4 DEF RowsAgreed
<1>8. CacheCurrent(s)'
    <2>1. ASSUME NEW a \in Action \ s.dirty
          PROVE  \/ s.cache[a] = UnreadAction
                 \/ s.cache[a] = action'[a] /\ action'[a].status # "absent"
                 \/ s.cache[a].status = "pending_approval" /\ action'[a].status \in {"approved", "skipped"}
        BY <1>1, <1>3 DEF Coherent, CacheCurrent
    <2> QED BY <1>1, <2>1 DEF CacheCurrent
<1>9. SeenCurrent(s)'
    <2>1. ASSUME NEW j \in Incident, j # i
          PROVE  incident'[j] = incident[j] /\ \A b \in ActionsOf(j) : action'[b] = action[b]
        BY <1>2, <1>3, <2>1 DEF ActionsOf
    <2>2. c \in ActionsOf(i) \ Claimed(s) /\ action'[c].status \in {"approved", "skipped"}
        BY <1>3, <1>4, <1>5
    <2>3. ASSUME s.seen[i] # UnreadIncident PROVE s.op = "retry" /\ s.seen[i].decision = "none"
        <3>1. s.op # "dispatch"
            BY <1>1, <2>3 DEF InOrder, WritesLocked
        <3>2. s.op \notin {"rollback", "expire"}
            <4>1. SUFFICES ASSUME s.op \in {"rollback", "expire"} PROVE FALSE
                OBVIOUS
            <4>2. PICK a \in s.locks : IncidentOf[a] = i
                BY <1>1, <2>3, <4>1 DEF Coherent, RevertsApplied
            <4>3. a \in Containment /\ a \in Claimed(s)
                BY <1>1, <4>1, <4>2 DEF Sound, Shape, Claimed, Containment
            <4>4. action[a].status \in {"applied", "rolled_back"}
                BY <1>1, <4>1, <4>3 DEF Sound, WorkIsDue, Due
            <4> QED BY <1>1, <4>2, <4>3, <4>4 DEF IInv, RowsAgree, Containment
        <3>3. s.op # "none"
            BY <1>1, <2>3 DEF Sound, Shape, Idle
        <3> QED BY <1>1, <2>3, <3>1, <3>2, <3>3 DEF Coherent, SeenCurrent, Session
    <2>4. SeenCurrent(s) /\ Claimed(s)' = Claimed(s)
        BY <1>1 DEF Coherent, Claimed
    <2>5. \A j \in Incident : ActionsOf(j)' = ActionsOf(j)
        BY DEF ActionsOf
    <2>6. ASSUME NEW j \in Incident, j # i
          PROVE  \/ s.seen[j] = UnreadIncident /\ s.write[j] = "unset"
                 \/ s.seen[j] = incident'[j] /\ incident'[j].status # "absent"
                 \/ /\ s.seen[j] # UnreadIncident /\ s.seen[j].decision = "none"
                    /\ incident'[j].status \in {"approved", "rejected"} /\ s.op = "retry"
                    /\ \E b \in ActionsOf(j) \ Claimed(s) : action'[b].status \in {"approved", "skipped"}
        <3> HIDE DEF s
        <3> QED BY <2>1, <2>4, <2>6 DEF SeenCurrent
    <2>7. \/ s.seen[i] = UnreadIncident /\ s.write[i] = "unset"
          \/ /\ s.seen[i] # UnreadIncident /\ s.seen[i].decision = "none"
             /\ incident'[i].status \in {"approved", "rejected"} /\ s.op = "retry"
             /\ \E b \in ActionsOf(i) \ Claimed(s) : action'[b].status \in {"approved", "skipped"}
        <3>1. CASE s.seen[i] = UnreadIncident
            <4>1. incident[i] # UnreadIncident
                BY <1>1 DEF IncidentRow, UnreadIncident, IncidentStatus
            <4> HIDE DEF s
            <4> QED BY <2>4, <3>1, <4>1 DEF SeenCurrent
        <3>2. CASE s.seen[i] # UnreadIncident
            BY <1>2, <2>2, <2>3, <3>2
        <3> QED BY <3>1, <3>2
    <2> QED BY <1>1, <2>4, <2>5, <2>6, <2>7 DEF SeenCurrent
<1>10. SeenOwns(s)' /\ RevertsApplied(s)' /\ \A j \in Incident : Reverting(s, j)' <=> Reverting(s, j)
    BY <1>1 DEF Coherent, SeenOwns, RevertsApplied, Reverting, ActionsOf
<1>11. ASSUME NEW j \in Incident, j # i
       PROVE  (WillAgree(s, j) => WillAgree(s, j)') /\ (NearlyAgree(s, j) => NearlyAgree(s, j)')
    <2>1. \A a \in ActionsOf(j) : After(s)'[a] = After(s)[a]
        BY <1>1, <1>3, <1>11 DEF After, ActionsOf
    <2>2. Statuses(After(s), j)' = Statuses(After(s), j)
        BY <2>1 DEF Statuses, ActionsOf
    <2>3. Final(s, j)' = Final(s, j) /\ incident'[j] = incident[j]
        BY <1>1, <1>2, <1>11 DEF Final
    <2> QED BY <2>2, <2>3 DEF WillAgree, NearlyAgree, Agree
<1>12. ~Reverting(s, i)
    <2>1. SUFFICES ASSUME s.pc = "close", NEW a \in s.todo \intersect s.locks, IncidentOf[a] = i PROVE FALSE
        BY DEF Reverting
    <2>2. s.op \in {"rollback", "expire"}
        BY <1>1, <2>1 DEF Sound, Shape, Session, Idle
    <2>3. a \in Containment /\ a \in Claimed(s)
        BY <1>1, <2>1, <2>2 DEF Sound, Shape, Claimed, Containment
    <2>4. action[a].status \in {"applied", "rolled_back"}
        BY <1>1, <2>2, <2>3 DEF Sound, WorkIsDue, Due
    <2> QED BY <1>1, <2>1, <2>3, <2>4 DEF IInv, RowsAgree, Containment
<1>13. ASSUME WillAgree(s, i) PROVE WillAgree(s, i)'
    <2> DEFINE S == Statuses(After(s), i)
               T == Statuses(After(s), i)'
    <2>1. \A a \in ActionsOf(i) : \/ After(s)'[a] = After(s)[a]
                                  \/ After(s)[a].status = "pending_approval" /\ After(s)'[a].status = x
        BY <1>1, <1>3, <1>4 DEF After, ActionsOf, Claimed
    <2>2. /\ \A y \in S : y \in T \/ (y = "pending_approval" /\ T \intersect {"approved", "skipped"} # {})
          /\ \A y \in T : y \in S \/ y \in {"approved", "skipped"}
        <3>1. S = {After(s)[a].status : a \in ActionsOf(i)} /\ T = {After(s)'[a].status : a \in ActionsOf(i)}
            BY DEF Statuses, ActionsOf
        <3> HIDE DEF S, T, s
        <3> QED BY <2>1, <3>1
    <2>3. CASE s.write[i] # "unset"
        <3>1. Final(s, i)' = Final(s, i)
            BY <1>1, <2>3 DEF Final
        <3>2. Final(s, i) # "rejected"
            BY <1>1, <1>13 DEF WillAgree, Agree
        <3>3. Agree(Final(s, i), d, T)
            <4> HIDE DEF T
            <4> QED BY <1>13, <2>2, <3>2, DecisionAgrees DEF WillAgree
        <3> QED BY <1>2, <3>1, <3>3 DEF WillAgree, Agree
    <2>4. CASE s.write[i] = "unset"
        <3>1. Final(s, i)' = incident'[i].status
            BY <1>1, <2>4 DEF Final
        <3>2. x \in T /\ x \in {"approved", "skipped"}
            BY <1>1, <1>3, <1>4, <1>5 DEF Statuses, After, ActionsOf, Claimed
        <3> QED BY <1>2, <3>1, <3>2 DEF WillAgree, Agree
    <2> QED BY <2>3, <2>4
<1> QED BY <1>1, <1>7, <1>8, <1>9, <1>10, <1>11, <1>12, <1>13 DEF Coherent

LEMMA WorkerCoherent ==
    ASSUME OneAtATime, IInv, InOrder, SInv, NEW w \in Worker, WorkerStep(w)
    PROVE  SInv'
<1>1. SUFFICES RowsAgreed' /\ Coherent(sess[w])'
    BY DEF OneAtATime, SInv
<1>2. CASE Commit(w)
    BY <1>2, CommitCoherent
<1>3. ASSUME UNCHANGED <<incident, action>>, Coherent(sess'[w]) PROVE RowsAgreed' /\ Coherent(sess[w])'
    BY <1>3, SameRows DEF SInv, RowsAgreed, Statuses, ActionsOf, Agree
<1>4. CASE \/ \E i \in Incident, scope \in {"automatic", "approved"} : DispatchBegin(w, i, scope)
           \/ \E a \in Action : RetryBegin(w, a) \/ RollbackBegin(w, a)
           \/ ExpireBegin(w)
    <2>1. Coherent(sess'[w])
        BY <1>4, BeginCoherent DEF SInv
    <2> QED BY <1>3, <1>4, <2>1 DEF DispatchBegin, RetryBegin, RollbackBegin, ExpireBegin
<1>5. ASSUME NEW a \in Action, CollectEvidence(w, a) \/ Simulate(w, a) \/ ApplyAnswered(w, a) \/ ApplyFailed(w, a)
      PROVE  RowsAgreed' /\ Coherent(sess[w])'
    <2>1. PICK st : Record(w, a, st) /\ Executes(w, a)
        BY <1>5 DEF CollectEvidence, Simulate, ApplyAnswered, ApplyFailed
    <2> QED BY <1>3, <1>5, <2>1, RecordCoherent DEF CollectEvidence, Simulate, ApplyAnswered, ApplyFailed
<1>6. ASSUME NEW i \in Incident, Recompute(w, i) PROVE RowsAgreed' /\ Coherent(sess[w])'
    BY <1>3, <1>6, RecomputeCoherent DEF Recompute
<1>7. ASSUME NEW a \in Action, ExpireLock(w, a) PROVE RowsAgreed' /\ Coherent(sess[w])'
    BY <1>3, <1>7, ExpireLockCoherent DEF ExpireLock
<1>8. ASSUME NEW a \in Action, RevokeAnswered(w, a) \/ RevokeFailed(w, a) \/ CloseIncident(w, a)
      PROVE  RowsAgreed' /\ Coherent(sess[w])'
    BY <1>3, <1>8, RevokeAnsweredCoherent, RevokeFailedCoherent, CloseCoherent
       DEF RevokeAnswered, RevokeFailed, CloseIncident
<1> QED BY <1>2, <1>4, <1>5, <1>6, <1>7, <1>8 DEF WorkerStep

LEMMA NextCoherent == OneAtATime /\ IInv /\ InOrder /\ SInv /\ [Next]_vars => SInv'
<1> SUFFICES ASSUME OneAtATime, IInv, InOrder, SInv, [Next]_vars PROVE SInv'
    OBVIOUS
<1>1. ASSUME NEW i \in Incident, CreateIncident(i) PROVE SInv'
    BY <1>1, CreateCoherent DEF SInv, OneAtATime
<1>2. ASSUME NEW i \in Incident, NEW d \in Decision, Decide(i, d) PROVE SInv'
    BY <1>2, DecideCoherent DEF SInv, OneAtATime
<1>3. ASSUME UNCHANGED <<incident, action>>, \A w \in Worker : sess'[w] = Idle \/ sess'[w] = sess[w] PROVE SInv'
    <2>1. RowsAgreed'
        BY <1>3 DEF SInv, RowsAgreed, Statuses, ActionsOf, Agree
    <2>2. ASSUME NEW w \in Worker PROVE Coherent(sess[w])'
        <3>1. Coherent(sess'[w])
            BY <1>3, IdleCoherent DEF SInv
        <3> QED BY <1>3, <3>1, SameRows
    <2> QED BY <2>1, <2>2 DEF SInv
<1>4. CASE Restart \/ (\E r \in inFlight : LateArrival(r)) \/ (\E a \in Action : Lapse(a)) \/ UNCHANGED vars
    BY <1>3, <1>4 DEF Restart, LateArrival, Lapse, vars
<1> QED BY <1>1, <1>2, <1>4, WorkerCoherent DEF Next, Environment

LEMMA InitCoherent == Init => SInv
<1> SUFFICES ASSUME Init PROVE SInv
    OBVIOUS
<1>1. RowsAgreed
    BY ControllerAssumption DEF Init, RowsAgreed, Agree, Statuses, ActionsOf
<1> QED BY <1>1, IdleCoherent DEF Init, SInv

\* Quiet or not, what is committed agrees.
LEMMA AgreedStatuses == SInv => StatusMatchesActions /\ AllRolledBackIsClosed
<1> SUFFICES ASSUME SInv PROVE StatusMatchesActions /\ AllRolledBackIsClosed
    OBVIOUS
<1>1. \A st : \A i \in Incident : HasAction(i, st) <=> st \in Statuses(action, i)
    BY DEF HasAction, Statuses
<1>2. \A i \in Incident : Agree(incident[i].status, incident[i].decision, Statuses(action, i))
    BY DEF SInv, RowsAgreed
<1>3. StatusMatchesActions
    BY <1>1, <1>2 DEF StatusMatchesActions, Agree
<1>4. \A i \in Incident : (\A a \in ActionsOf(i) : action[a].status \in {"rolled_back", "completed"})
                             => Statuses(action, i) \subseteq {"rolled_back", "completed"}
    BY DEF Statuses
<1>5. AllRolledBackIsClosed
    BY <1>1, <1>2, <1>4 DEF AllRolledBackIsClosed, Agree
<1> QED BY <1>3, <1>5

LEMMA SequentialSafe == OneAtATime => (Spec => []SInv)
<1>1. SUFFICES ASSUME OneAtATime PROVE Spec => []SInv
    OBVIOUS
<1> QED BY <1>1, Safe, InitInOrder, NextInOrder, InitCoherent, NextCoherent, PTL DEF Spec

\* Of requests one at a time the status of an incident never contradicts its
\* actions, whatever is interrupted, lost or decided meanwhile.
THEOREM SequentialStatusMatches == OneAtATime => (Spec => []StatusMatchesActions)
BY SequentialSafe, AgreedStatuses, PTL

\* And the incident whose containments were all rolled back is closed: only
\* requests that run at the same time can leave it open.
THEOREM SequentialRollbackCloses == OneAtATime => (Spec => []AllRolledBackIsClosed)
BY SequentialSafe, AgreedStatuses, PTL

-----------------------------------------------------------------------------
(***************************************************************************)
(* What EvaluationRun assumes of the platform.  Of one containment its     *)
(* model lets a request be served only while the action is due for it, and *)
(* lets an action be applied only in live mode: both follow from what the  *)
(* sessions keep, not from the committed rows alone.                       *)
(***************************************************************************)

Executed == {"approved", "applied", "failed", "simulated", "rolled_back"}

RequestsAreDue == \A a \in Containment :
    /\ control[a] # "absent" \/ [kind |-> "apply", act |-> a] \in inFlight => action[a].status \in Executed
    /\ [kind |-> "revoke", act |-> a] \in inFlight => action[a].status \in {"applied", "rolled_back"}
    /\ action[a].status = "skipped" => incident[IncidentOf[a]].decision # "none"

FitsMode(s) == s.op \in {"dispatch", "retry"} => \A a \in s.dirty :
    /\ s.cache[a].status = "applied" => mode = "live"
    /\ s.cache[a].status = "simulated" => mode = "dry-run"

EInv == RequestsAreDue /\ \A w \in Worker : FitsMode(sess[w])

PlatformStep(a) == Evaluated(a)!Platform \/ UNCHANGED Evaluated(a)!platform

LEMMA NothingHappens ==
    ASSUME NEW a \in Containment, action'[a].status = action[a].status, control'[a] = control[a],
           lapse'[a] = lapse[a], mode' = mode,
           RuledOn(a) => incident'[IncidentOf[a]].decision = incident[IncidentOf[a]].decision
    PROVE  PlatformStep(a)
BY DEF PlatformStep, Evaluated!platform, RuledOn

LEMMA ModeSwitches ==
    ASSUME NEW a \in Containment, action' = action, incident' = incident, UNCHANGED store, mode' \in Mode
    PROVE  PlatformStep(a)
<1>1. CASE mode' = mode
    BY <1>1, NothingHappens DEF store
<1>2. CASE mode' # mode
    BY <1>2 DEF PlatformStep, Evaluated!Platform, Evaluated!SwitchMode, Evaluated!Mode, Mode, RuledOn, store
<1> QED BY <1>1, <1>2

LEMMA ControlServed ==
    ASSUME TypeOK, NEW a \in Containment, UNCHANGED <<action, incident, mode>>,
           \/ action[a].status \in Executed /\ Store!Apply(a)
           \/ action[a].status = "applied" /\ Store!Revoke(a)
           \/ Store!Lapse(a)
    PROVE  PlatformStep(a)
<1>1. a \in Action /\ control \in [Action -> {"absent", "active", "revoked"}] /\ lapse \in [Action -> Nat] /\ clock \in Nat
    BY DEF TypeOK, Store!StoreTypeOK, Containment
<1>2. CASE action[a].status \in Executed /\ Store!Apply(a)
    <2>1. Evaluated(a)!Store!Apply(a)
        BY <1>1, <1>2 DEF Store!Apply, Evaluated!Store!Apply
    <2> QED BY <1>2, <2>1 DEF PlatformStep, Evaluated!Platform, Evaluated!Serve, Executed, RuledOn, InitialContainment, Evaluated!InitialContainment
<1>3. CASE action[a].status = "applied" /\ Store!Revoke(a)
    <2>1. Evaluated(a)!Store!Revoke(a)
        BY <1>1, <1>3 DEF Store!Revoke, Evaluated!Store!Revoke
    <2> QED BY <1>3, <2>1 DEF PlatformStep, Evaluated!Platform, Evaluated!Serve, RuledOn, InitialContainment, Evaluated!InitialContainment
<1>4. CASE Store!Lapse(a)
    <2>1. Evaluated(a)!Store!Lapse(a)
        BY <1>1, <1>4 DEF Store!Lapse, Evaluated!Store!Lapse
    <2> QED BY <1>4, <2>1 DEF PlatformStep, Evaluated!Platform, Evaluated!Serve, RuledOn
<1> QED BY <1>2, <1>3, <1>4

LEMMA ActionProgresses ==
    ASSUME NEW a \in Containment, UNCHANGED <<store, mode>>, NEW t \in ActionStatus,
           action[a].status \notin InitialContainment \union {"absent"}, action'[a].status = t,
           incident'[IncidentOf[a]].decision = incident[IncidentOf[a]].decision,
           Lifecycle!MayFollow(a, action[a].status, t, incident[IncidentOf[a]].decision),
           t = "applied" => control[a] # "absent" /\ mode = "live",
           t = "simulated" => mode = "dry-run",
           t = "rolled_back" => control[a] = "revoked"
    PROVE  PlatformStep(a)
<1>1. t \notin InitialContainment \union {"absent"} /\ a \notin Automatic
    BY DEF Lifecycle!MayFollow, Lifecycle!Born, InitialContainment, Containment
<1>2. Evaluated(a)!Progress(a, t)
    BY <1>1 DEF Evaluated!Progress, RuledOn, store, Evaluated!InitialContainment, InitialContainment, Lifecycle!MayFollow, Evaluated!Lifecycle!MayFollow,
       Lifecycle!Born, Evaluated!Lifecycle!Born
<1>3. t \in Evaluated(a)!ActionStatus
    BY DEF ActionStatus, Evaluated!ActionStatus, InitialAutomatic, InitialContainment, Evaluated!InitialAutomatic, Evaluated!InitialContainment
<1> QED BY <1>2, <1>3 DEF PlatformStep, Evaluated!Platform

LEMMA ActionBorn ==
    ASSUME NEW a \in Containment, UNCHANGED <<store, mode>>,
           action[a].status = "absent", action'[a].status \in InitialContainment
    PROVE  PlatformStep(a)
<1>1. Evaluated(a)!Triage
    BY DEF Evaluated!Triage, RuledOn, store, InitialContainment, Evaluated!InitialContainment
<1> QED BY <1>1 DEF PlatformStep, Evaluated!Platform

LEMMA ActionDecided ==
    ASSUME NEW a \in Containment, UNCHANGED <<store, mode>>, NEW d \in Decision,
           action[a].status = "pending_approval", incident'[IncidentOf[a]].decision = d,
           action'[a].status = IF d = "approve" THEN "approved" ELSE "skipped"
    PROVE  PlatformStep(a)
<1>1. Evaluated(a)!Decided(d)
    BY DEF Evaluated!Decided, RuledOn, store, InitialContainment, Decision
<1> QED BY <1>1 DEF PlatformStep, Evaluated!Platform, Decision, Evaluated!Decision

\* The steps that change more than one session.
LEMMA StepKinds ==
    ASSUME [Next]_vars
    PROVE  \/ UNCHANGED <<incident, action, store, inFlight, mode>>
           \/ \E w \in Worker, a \in Action : \/ ApplyAnswered(w, a) \/ ApplyFailed(w, a)
                                              \/ RevokeAnswered(w, a) \/ RevokeFailed(w, a)
           \/ \E w \in Worker : Commit(w)
           \/ \E i \in Incident : CreateIncident(i)
           \/ \E i \in Incident, d \in Decision : Decide(i, d)
           \/ Restart
           \/ \E r \in inFlight : LateArrival(r)
           \/ \E a \in Action : Lapse(a)
<1>1. ASSUME NEW w \in Worker, WorkerStep(w)
      PROVE  \/ UNCHANGED <<incident, action, store, inFlight, mode>>
             \/ \E a \in Action : \/ ApplyAnswered(w, a) \/ ApplyFailed(w, a)
                                  \/ RevokeAnswered(w, a) \/ RevokeFailed(w, a)
             \/ Commit(w)
    BY <1>1 DEF WorkerStep, DispatchBegin, RetryBegin, RollbackBegin, ExpireBegin, ExpireLock, CollectEvidence,
                Simulate, Recompute, CloseIncident
<1>2. CASE UNCHANGED vars
    BY <1>2 DEF vars
<1> QED BY <1>1, <1>2 DEF Next, Environment

\* Nothing about an action goes back, and its incident is decided once.
LEMMA StepsFollow ==
    ASSUME IInv, [Next]_vars, NEW a \in Containment
    PROVE  /\ StepFollows(a)
           /\ incident[IncidentOf[a]].decision # "none" =>
                 incident'[IncidentOf[a]].decision = incident[IncidentOf[a]].decision
<1> DEFINE st == [b \in Action |-> action[b].status]
           de == [i \in Incident |-> incident[i].decision]
<1>1. a \in Action /\ IncidentOf[a] \in Incident
    BY ControllerAssumption DEF Containment
<1>2. Lifecycle!LifecycleNext \/ (st' = st /\ de' = de)
    BY NextImplements DEF Lifecycle!lifecycleVars
<1>3. /\ st'[a] = action'[a].status /\ st[a] = action[a].status
      /\ de'[IncidentOf[a]] = incident'[IncidentOf[a]].decision /\ de[IncidentOf[a]] = incident[IncidentOf[a]].decision
    BY <1>1
<1>4. CASE st' = st /\ de' = de
    BY <1>3, <1>4 DEF StepFollows
<1>5. CASE Lifecycle!LifecycleNext
    <2>1. /\ \A i \in Incident : de'[i] = de[i] \/ (de[i] = "none" /\ de'[i] \in Lifecycle!Decision)
          /\ \A b \in Action : st'[b] = st[b] \/ Lifecycle!MayFollow(b, st[b], st'[b], de'[IncidentOf[b]])
        BY <1>5 DEF Lifecycle!LifecycleNext
    <2> HIDE DEF st, de
    <2> QED BY <1>1, <1>3, <2>1 DEF StepFollows
<1> QED BY <1>2, <1>4, <1>5

\* An action a session acts on is due for what the session asks of the application.
LEMMA DueRequests ==
    ASSUME IInv, NEW w \in Worker, NEW a \in Action
    PROVE  /\ Executes(w, a) /\ a \notin Automatic => action[a].status \in {"approved", "failed"}
           /\ Reverts(w, a) => action[a].status \in {"applied", "rolled_back"}
<1>1. Sound(sess[w])
    BY DEF IInv
<1>2. CASE Executes(w, a)
    <2>1. a \in Claimed(sess[w]) /\ sess[w].op \in {"dispatch", "retry"}
        BY <1>2 DEF Executes, Claimed
    <2> QED BY <1>1, <2>1 DEF Sound, WorkIsDue, Due, Reverts
<1>3. CASE Reverts(w, a)
    <2>1. a \in Claimed(sess[w]) /\ sess[w].op \in {"rollback", "expire"}
        BY <1>3 DEF Reverts, Claimed
    <2> QED BY <1>1, <2>1 DEF Sound, WorkIsDue, Due, Executes
<1> QED BY <1>2, <1>3

\* A request is issued only while its action is due for it.
LEMMA RequestsIssued ==
    ASSUME IInv, RequestsAreDue, [Next]_vars, NEW a \in Containment
    PROVE  /\ control'[a] # "absent" \/ [kind |-> "apply", act |-> a] \in inFlight' =>
                 action[a].status \in Executed
           /\ [kind |-> "revoke", act |-> a] \in inFlight' => action[a].status \in {"applied", "rolled_back"}
<1>1. a \in Action /\ control \in [Action -> {"absent", "active", "revoked"}] /\ inFlight \subseteq Request
    BY DEF Containment, IInv, TypeOK, Store!StoreTypeOK
<1>2. ASSUME control'[a] # "absent" => control[a] # "absent", inFlight' \subseteq inFlight
      PROVE  /\ control'[a] # "absent" \/ [kind |-> "apply", act |-> a] \in inFlight' =>
                   action[a].status \in Executed
             /\ [kind |-> "revoke", act |-> a] \in inFlight' => action[a].status \in {"applied", "rolled_back"}
    BY <1>2 DEF RequestsAreDue
<1>3. CASE UNCHANGED <<store, inFlight>>
    BY <1>2, <1>3 DEF store
<1>4. ASSUME NEW w \in Worker, NEW b \in Action, ApplyAnswered(w, b)
      PROVE  /\ control'[a] # "absent" \/ [kind |-> "apply", act |-> a] \in inFlight' =>
                   action[a].status \in Executed
             /\ [kind |-> "revoke", act |-> a] \in inFlight' => action[a].status \in {"applied", "rolled_back"}
    <2>1. /\ inFlight' = inFlight /\ (a # b => control'[a] = control[a])
          /\ Executes(w, b) /\ b \notin Automatic
        BY <1>1, <1>4 DEF ApplyAnswered, Store!Apply
    <2>2. CASE a = b
        BY <2>1, <2>2, DueRequests DEF RequestsAreDue, Executed
    <2> QED BY <1>2, <2>1, <2>2
<1>5. ASSUME NEW w \in Worker, NEW b \in Action, ApplyFailed(w, b) \/ RevokeFailed(w, b)
      PROVE  /\ control'[a] # "absent" \/ [kind |-> "apply", act |-> a] \in inFlight' =>
                   action[a].status \in Executed
             /\ [kind |-> "revoke", act |-> a] \in inFlight' => action[a].status \in {"applied", "rolled_back"}
    <2>1. control' = control
        BY <1>5 DEF ApplyFailed, RevokeFailed, store
    <2>2. CASE ApplyFailed(w, b)
        <3>1. inFlight' \subseteq inFlight \union {[kind |-> "apply", act |-> b]} /\ Executes(w, b) /\ b \notin Automatic
            BY <2>2 DEF ApplyFailed, Unanswered
        <3>2. action[b].status \in Executed
            BY <3>1, DueRequests DEF Executed
        <3> QED BY <2>1, <3>1, <3>2 DEF RequestsAreDue
    <2>3. CASE RevokeFailed(w, b)
        <3>1. inFlight' \subseteq inFlight \union {[kind |-> "revoke", act |-> b]} /\ Reverts(w, b)
            BY <2>3 DEF RevokeFailed, Unanswered
        <3>2. action[b].status \in {"applied", "rolled_back"}
            BY <3>1, DueRequests
        <3> QED BY <2>1, <3>1, <3>2 DEF RequestsAreDue
    <2> QED BY <1>5, <2>2, <2>3
<1>6. ASSUME NEW w \in Worker, NEW b \in Action, RevokeAnswered(w, b)
      PROVE  (control'[a] # "absent" => control[a] # "absent") /\ inFlight' \subseteq inFlight
    BY <1>1, <1>6 DEF RevokeAnswered, Store!Revoke
<1>7. CASE \E w \in Worker : Commit(w)
    BY <1>3, <1>7 DEF Commit
<1>8. CASE (\E i \in Incident : CreateIncident(i)) \/ (\E i \in Incident, d \in Decision : Decide(i, d)) \/ Restart
    BY <1>3, <1>8 DEF CreateIncident, Decide, Restart
<1>9. ASSUME NEW r \in inFlight, LateArrival(r)
      PROVE  /\ control'[a] # "absent" \/ [kind |-> "apply", act |-> a] \in inFlight' =>
                   action[a].status \in Executed
             /\ [kind |-> "revoke", act |-> a] \in inFlight' => action[a].status \in {"applied", "rolled_back"}
    <2>1. inFlight' \subseteq inFlight /\ r \in Request
        BY <1>1, <1>9 DEF LateArrival
    <2>2. \/ control'[a] # "absent" => control[a] # "absent"
          \/ r.kind = "apply" /\ r.act = a
        BY <1>1, <1>9, <2>1 DEF LateArrival, Store!Apply, Store!Revoke, store, Request
    <2>3. CASE r.kind = "apply" /\ r.act = a
        <3>1. r = [kind |-> "apply", act |-> a]
            BY <2>1, <2>3 DEF Request
        <3> QED BY <1>9, <2>1, <3>1 DEF RequestsAreDue
    <2> QED BY <1>2, <2>1, <2>2, <2>3
<1>10. ASSUME NEW b \in Action, Lapse(b)
       PROVE  control' = control /\ inFlight' = inFlight
    BY <1>10 DEF Lapse, Store!Lapse
<1> QED BY <1>2, <1>3, <1>4, <1>5, <1>6, <1>7, <1>8, <1>9, <1>10, StepKinds

LEMMA RequestsStayDue == ASSUME IInv, RequestsAreDue, [Next]_vars PROVE RequestsAreDue'
<1> SUFFICES ASSUME NEW a \in Containment
             PROVE  /\ control'[a] # "absent" \/ [kind |-> "apply", act |-> a] \in inFlight' =>
                          action'[a].status \in Executed
                    /\ [kind |-> "revoke", act |-> a] \in inFlight' => action'[a].status \in {"applied", "rolled_back"}
                    /\ action'[a].status = "skipped" => incident'[IncidentOf[a]].decision # "none"
    BY DEF RequestsAreDue
<1>1. a \in Action /\ a \notin Automatic
    BY DEF Containment
<1>2. action[a].status \in Executed => action'[a].status \in Executed
    BY <1>1, StepsFollow DEF StepFollows, Lifecycle!MayFollow, Executed
<1>3. action[a].status \in {"applied", "rolled_back"} => action'[a].status \in {"applied", "rolled_back"}
    BY <1>1, StepsFollow DEF StepFollows, Lifecycle!MayFollow
<1>4. action'[a].status = "skipped" => incident'[IncidentOf[a]].decision # "none"
    <2>1. CASE action[a].status = "skipped"
        BY <2>1, StepsFollow DEF RequestsAreDue
    <2>2. CASE action[a].status # "skipped"
        BY <1>1, <2>2, StepsFollow DEF StepFollows, Lifecycle!MayFollow, Lifecycle!Born, Lifecycle!InitialContainment
    <2> QED BY <2>1, <2>2
<1> QED BY <1>2, <1>3, <1>4, RequestsIssued

\* A live session records no simulation, and a dry run applies nothing.
LEMMA SessionsFitMode == ASSUME IInv, EInv, [Next]_vars, NEW w \in Worker PROVE FitsMode(sess[w])'
<1> DEFINE s == sess[w]
           t == sess'[w]
           Fits == t.op \in {"dispatch", "retry"} => \A a \in t.dirty :
                      /\ t.cache[a].status = "applied" => mode' = "live"
                      /\ t.cache[a].status = "simulated" => mode' = "dry-run"
<1>1. SUFFICES Fits
    BY DEF FitsMode
<1>2. s \in Session /\ Sound(s) /\ FitsMode(s) /\ sess \in [Worker -> Session]
    BY DEF IInv, TypeOK, EInv
<1>3. CASE t = Idle
    BY <1>3 DEF Idle
<1>4. CASE t = s /\ mode' = mode
    BY <1>2, <1>4 DEF FitsMode
<1>5. mode' = mode \/ t = Idle
    <2>1. ASSUME NEW v \in Worker, WorkerStep(v) PROVE mode' = mode
        BY <2>1 DEF WorkerStep, DispatchBegin, RetryBegin, RollbackBegin, ExpireBegin, ExpireLock, CollectEvidence,
               Simulate, ApplyAnswered, ApplyFailed, Recompute, RevokeAnswered, RevokeFailed, CloseIncident, Commit
    <2> QED BY <2>1 DEF Next, Environment, CreateIncident, Decide, Restart, LateArrival, Lapse, vars
<1>6. CASE mode' = mode /\ (\/ \E i \in Incident, scope \in {"automatic", "approved"} : DispatchBegin(w, i, scope)
                            \/ \E a \in Action : RetryBegin(w, a) \/ RollbackBegin(w, a)
                            \/ ExpireBegin(w))
    <2>1. ASSUME NEW z, Begin(w, z) PROVE t = z
        BY <1>2, <2>1 DEF Begin
    <2>2. ASSUME NEW i \in Incident, NEW scope \in {"automatic", "approved"}, DispatchBegin(w, i, scope)
          PROVE  t.dirty = {}
        BY <2>1, <2>2 DEF DispatchBegin, Idle
    <2>3. ASSUME NEW a \in Action, RetryBegin(w, a) \/ RollbackBegin(w, a) PROVE t.dirty = {}
        BY <2>1, <2>3 DEF RetryBegin, RollbackBegin, Idle
    <2>4. ASSUME ExpireBegin(w) PROVE t.dirty = {}
        BY <2>1, <2>4 DEF ExpireBegin, Idle
    <2> QED BY <1>6, <2>2, <2>3, <2>4
<1>7. ASSUME mode' = mode, NEW a \in Action, CollectEvidence(w, a) \/ Simulate(w, a) \/ ApplyAnswered(w, a) \/ ApplyFailed(w, a)
      PROVE  Fits
    <2>1. PICK st \in ActionStatus : /\ Record(w, a, st) /\ Executes(w, a)
                                     /\ st = "applied" => mode = "live"
                                     /\ st = "simulated" => mode = "dry-run"
        BY <1>7 DEF CollectEvidence, Simulate, ApplyAnswered, ApplyFailed, ActionStatus
    <2>2. /\ t.op = s.op /\ t.dirty = s.dirty \union {a} /\ t.cache[a].status = st
          /\ \A b \in Action \ {a} : t.cache[b] = s.cache[b]
        BY <1>2, <2>1 DEF Record, Session
    <2>3. s.dirty \subseteq Action
        BY <1>2 DEF Session
    <2> HIDE DEF s, t
    <2> QED BY <1>2, <1>7, <2>1, <2>2, <2>3 DEF FitsMode
<1>8. ASSUME mode' = mode, NEW i \in Incident, Recompute(w, i) PROVE Fits
    <2>1. t.op = s.op /\ t.dirty = s.dirty /\ t.cache = Loaded(s, i) /\ s.op \in {"dispatch", "retry"}
        BY <1>2, <1>8 DEF Recompute, Session
    <2>2. \A a \in s.dirty : a \in Action /\ s.cache[a] # UnreadAction
        <3> SUFFICES ASSUME NEW a \in s.dirty PROVE a \in Action /\ s.cache[a] # UnreadAction
            OBVIOUS
        <3>1. s.cache[a].status \in Outcome(a) /\ a \in Action
            BY <1>2, <2>1 DEF Sound, DirtyIsDone, Session
        <3>2. UnreadAction.status \notin Outcome(a)
            BY DEF UnreadAction, Outcome
        <3> QED BY <3>1, <3>2
    <2> QED BY <1>2, <1>8, <2>1, <2>2 DEF FitsMode, Loaded
<1>9. ASSUME NEW a \in Action, ExpireLock(w, a) \/ RevokeAnswered(w, a) \/ RevokeFailed(w, a) \/ CloseIncident(w, a)
      PROVE  Fits
    <2>1. s.op \notin {"dispatch", "retry"}
        BY <1>2, <1>9 DEF ExpireLock, RevokeAnswered, RevokeFailed, Reverts, CloseIncident, Sound, Shape
    <2>2. t = Idle \/ t.op = s.op
        BY <1>2, <1>9 DEF ExpireLock, RevokeAnswered, RevokeFailed, CloseIncident, Session
    <2> QED BY <1>3, <2>1, <2>2
<1>10. CASE Commit(w)
    BY <1>2, <1>3, <1>10 DEF Commit
<1>11. CASE mode' = mode /\ WorkerStep(w)
    BY <1>6, <1>7, <1>8, <1>9, <1>10, <1>11 DEF WorkerStep
<1>12. t = s \/ t = Idle \/ WorkerStep(w)
    BY SessionMoves DEF IInv
<1> QED BY <1>3, <1>4, <1>5, <1>11, <1>12

LEMMA EvaluatedSafe == Spec => []EInv
<1>1. Init => EInv
    BY DEF Init, EInv, RequestsAreDue, FitsMode, Idle, Containment, Store!StoreInit
<1>2. IInv /\ EInv /\ [Next]_vars => EInv'
    BY RequestsStayDue, SessionsFitMode DEF EInv
<1> QED BY <1>1, <1>2, Safe, PTL DEF Spec

\* What a commit publishes of a containment is the next status EvaluationRun allows.
LEMMA CommitIsPlatform ==
    ASSUME IInv, EInv, [Next]_vars, NEW w \in Worker, Commit(w), NEW a \in Containment
    PROVE  PlatformStep(a)
<1> DEFINE s == sess[w]
           t == action'[a].status
           d == incident[IncidentOf[a]].decision
<1>1. /\ a \in Action /\ IncidentOf[a] \in Incident /\ s \in Session /\ Sound(s) /\ FitsMode(s)
      /\ UNCHANGED <<store, mode>>
    BY ControllerAssumption DEF Containment, IInv, TypeOK, EInv, Commit
<1>2. /\ incident'[IncidentOf[a]].decision = d
      /\ action'[a] = IF a \in s.dirty THEN s.cache[a] ELSE action[a]
    BY <1>1, CommitRows
<1>3. CASE t = action[a].status
    BY <1>1, <1>2, <1>3, NothingHappens DEF store
<1>4. CASE t # action[a].status
    <2>1. a \in s.dirty /\ t = s.cache[a].status
        BY <1>2, <1>4
    <2>2. action[a].status \in Due(s.op, a) /\ a \notin Automatic
        BY <1>1, <2>1 DEF Sound, WorkIsDue, Claimed, Containment
    <2>3. action[a].status \in {"approved", "failed", "applied", "rolled_back"}
        BY <2>2 DEF Due
    <2>4. Lifecycle!MayFollow(a, action[a].status, t, d)
        BY <1>2, <1>4, StepsFollow DEF StepFollows
    <2>5. CASE s.op \in {"dispatch", "retry"}
        <3>1. /\ t \in {"applied", "simulated", "failed"}
              /\ t = "applied" => control[a] # "absent" /\ mode = "live"
              /\ t = "simulated" => mode = "dry-run"
            BY <1>1, <2>1, <2>2, <2>5 DEF Sound, DirtyIsDone, Outcome, FitsMode
        <3> QED BY <1>1, <1>2, <2>3, <2>4, <3>1, ActionProgresses DEF ActionStatus, InitialContainment
    <2>6. CASE s.op \in {"rollback", "expire"}
        <3>1. t = "rolled_back" /\ control[a] = "revoked"
            BY <1>1, <2>1, <2>6 DEF Sound, DirtyIsDone
        <3> QED BY <1>1, <1>2, <2>3, <2>4, <3>1, ActionProgresses DEF ActionStatus, InitialContainment
    <2> QED BY <2>2, <2>5, <2>6 DEF Due
<1> QED BY <1>3, <1>4

\* What the application serves for one action, it serves for no other.
LEMMA OthersUnserved ==
    ASSUME IInv, NEW a \in Containment, NEW b \in Action, a # b, UNCHANGED <<action, incident, mode>>,
           Store!Apply(b) \/ Store!Revoke(b) \/ Store!Lapse(b)
    PROVE  PlatformStep(a)
<1>1. a \in Action /\ control \in [Action -> {"absent", "active", "revoked"}] /\ lapse \in [Action -> Nat]
    BY DEF Containment, IInv, TypeOK, Store!StoreTypeOK
<1>2. control'[a] = control[a] /\ lapse'[a] = lapse[a]
    BY <1>1 DEF Store!Apply, Store!Revoke, Store!Lapse
<1> QED BY <1>2, NothingHappens

\* Revoking once more changes nothing.
LEMMA RevokeServed ==
    ASSUME IInv, NEW a \in Containment, action[a].status \in {"applied", "rolled_back"},
           UNCHANGED <<action, incident, mode>>, Store!Revoke(a)
    PROVE  PlatformStep(a)
<1>1. CASE action[a].status = "applied"
    BY <1>1, ControlServed DEF IInv
<1>2. CASE action[a].status = "rolled_back"
    <2>1. a \in Action /\ control \in [Action -> {"absent", "active", "revoked"}] /\ control[a] = "revoked"
        BY <1>2 DEF Containment, IInv, TypeOK, Store!StoreTypeOK, RolledBackIsRevoked
    <2>2. control'[a] = control[a] /\ lapse' = lapse
        BY <2>1 DEF Store!Revoke
    <2> QED BY <2>2, NothingHappens
<1> QED BY <1>1, <1>2

LEMMA CreateIsPlatform ==
    ASSUME IInv, [Next]_vars, NEW i \in Incident, CreateIncident(i), NEW a \in Containment
    PROVE  PlatformStep(a)
<1>1. /\ a \in Action /\ action[a] \in ActionRow /\ a \notin Automatic
      /\ UNCHANGED <<store, mode>> /\ incident[i].status = "absent"
    BY DEF Containment, IInv, TypeOK, CreateIncident
<1>2. CASE IncidentOf[a] = i
    <2>1. action[a].status = "absent"
        BY <1>1, <1>2 DEF IInv, RowsAgree, ActionsOf
    <2>2. action'[a].status \in InitialContainment
        BY <1>1, <1>2 DEF CreateIncident, ActionsOf, ActionRow
    <2> QED BY <1>1, <2>1, <2>2, ActionBorn
<1>3. CASE IncidentOf[a] # i
    <2>1. action'[a] = action[a] /\ incident'[IncidentOf[a]] = incident[IncidentOf[a]]
        BY <1>1, <1>3, ControllerAssumption DEF CreateIncident, IInv, TypeOK
    <2> QED BY <1>1, <2>1, NothingHappens DEF store
<1> QED BY <1>2, <1>3

LEMMA DecideIsPlatform ==
    ASSUME IInv, EInv, [Next]_vars, NEW i \in Incident, NEW d \in Decision, Decide(i, d), NEW a \in Containment
    PROVE  PlatformStep(a)
<1>1. /\ a \in Action /\ action[a] \in ActionRow /\ UNCHANGED <<store, mode>>
      /\ incident \in [Incident -> IncidentRow] /\ IncidentOf[a] \in Incident
    BY ControllerAssumption DEF Containment, IInv, TypeOK, Decide
<1>2. CASE IncidentOf[a] = i /\ action[a].status = "pending_approval"
    <2>1. action'[a].status = (IF d = "approve" THEN "approved" ELSE "skipped") /\ incident'[IncidentOf[a]].decision = d
        BY <1>1, <1>2 DEF Decide, ActionRow
    <2> QED BY <1>1, <1>2, <2>1, ActionDecided
<1>3. CASE ~(IncidentOf[a] = i /\ action[a].status = "pending_approval")
    <2>1. action'[a].status = action[a].status
        BY <1>1, <1>3 DEF Decide
    <2>2. RuledOn(a) => incident[IncidentOf[a]].decision # "none"
        <3>1. action[a].status \in {"approved", "applied", "failed", "simulated", "rolled_back"}
                 => incident[IncidentOf[a]].decision = "approve"
            BY <1>1 DEF IInv, RowsAgree
        <3>2. action[a].status = "skipped" => incident[IncidentOf[a]].decision # "none"
            BY DEF EInv, RequestsAreDue
        <3>3. action[a].status \notin {"pending", "completed"}
            BY <1>1 DEF IInv, RowsAgree
        <3> QED BY <1>1, <3>1, <3>2, <3>3 DEF RuledOn, ActionRow, ActionStatus, InitialContainment, InitialAutomatic
    <2> QED BY <1>1, <2>1, <2>2, StepsFollow, NothingHappens DEF store
<1> QED BY <1>2, <1>3

LEMMA NextIsPlatform == ASSUME IInv, EInv, [Next]_vars, NEW a \in Containment PROVE PlatformStep(a)
<1>1. a \in Action /\ inFlight \subseteq Request
    BY DEF Containment, IInv, TypeOK
<1>2. CASE UNCHANGED <<incident, action, store, inFlight, mode>>
    BY <1>2, NothingHappens DEF store
<1>3. ASSUME NEW w \in Worker, NEW b \in Action, ApplyAnswered(w, b) PROVE PlatformStep(a)
    <2>1. UNCHANGED <<action, incident, mode>> /\ Store!Apply(b) /\ action[b].status \in Executed
        BY <1>3, DueRequests DEF ApplyAnswered, Executed
    <2> QED BY <2>1, ControlServed, OthersUnserved DEF IInv
<1>4. ASSUME NEW w \in Worker, NEW b \in Action, RevokeAnswered(w, b) PROVE PlatformStep(a)
    <2>1. UNCHANGED <<action, incident, mode>> /\ Store!Revoke(b) /\ action[b].status \in {"applied", "rolled_back"}
        BY <1>4, DueRequests DEF RevokeAnswered
    <2> QED BY <2>1, RevokeServed, OthersUnserved
<1>5. ASSUME NEW w \in Worker, NEW b \in Action, ApplyFailed(w, b) \/ RevokeFailed(w, b) PROVE PlatformStep(a)
    BY <1>5, NothingHappens DEF ApplyFailed, RevokeFailed, store
<1>6. ASSUME NEW r \in inFlight, LateArrival(r) PROVE PlatformStep(a)
    <2>1. r \in Request /\ r = [kind |-> r.kind, act |-> r.act] /\ r.act \in Action /\ UNCHANGED <<action, incident, mode>>
        BY <1>1, <1>6 DEF LateArrival, Request
    <2>2. CASE UNCHANGED store
        BY <2>1, <2>2, NothingHappens DEF store
    <2>3. CASE r.kind = "apply" /\ Store!Apply(r.act)
        <3>1. r.act = a => action[a].status \in Executed
            BY <1>6, <2>1, <2>3 DEF EInv, RequestsAreDue
        <3> QED BY <2>1, <2>3, <3>1, ControlServed, OthersUnserved DEF IInv
    <2>4. CASE r.kind = "revoke" /\ Store!Revoke(r.act)
        <3>1. r.act = a => action[a].status \in {"applied", "rolled_back"}
            BY <1>6, <2>1, <2>4 DEF EInv, RequestsAreDue
        <3> QED BY <2>1, <2>4, <3>1, RevokeServed, OthersUnserved
    <2> QED BY <1>6, <2>2, <2>3, <2>4 DEF LateArrival
<1>7. ASSUME NEW b \in Action, Lapse(b) PROVE PlatformStep(a)
    BY <1>7, ControlServed, OthersUnserved DEF IInv, Lapse
<1>8. CASE Restart
    <2>1. mode' \in Mode /\ UNCHANGED <<action, incident>> /\ UNCHANGED store
        BY <1>8 DEF Restart
    <2> QED BY <2>1, ModeSwitches
<1> QED BY <1>2, <1>3, <1>4, <1>5, <1>6, <1>7, <1>8, CommitIsPlatform, CreateIsPlatform, DecideIsPlatform, StepKinds

\* Whatever the controller and the application do, of one containment they do only
\* what EvaluationRun judges its runs with: the two models fit together.
THEOREM PlatformIsAsEvaluated == Spec => PlatformAsEvaluated
<1>1. IInv /\ EInv /\ [Next]_vars =>
          [\A a \in Containment : Evaluated(a)!Platform \/ UNCHANGED Evaluated(a)!platform]_vars
    BY NextIsPlatform DEF PlatformStep
<1> QED BY <1>1, Safe, EvaluatedSafe, PTL DEF Spec, PlatformAsEvaluated
=============================================================================
