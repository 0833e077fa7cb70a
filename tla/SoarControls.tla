---------------------------- MODULE SoarControls ----------------------------
(***************************************************************************)
(* The business application's side of containment: the internal API that   *)
(* creates and revokes temporary controls, served by concurrent threads    *)
(* with a transaction each, and the audit events it records with them.     *)
(***************************************************************************)
EXTENDS Naturals

CONSTANTS
    Action,      \* action identifiers the controller sends, unique in soar_controls
    Target,      \* normalized addresses, accounts and the quality guard
    Permitted,   \* targets validate_control_target accepts
    NoTarget,    \* target of a control that does not exist
    Thread,      \* concurrent requests
    MaxRestarts  \* bound on restarts of the application

ASSUME ControlsAssumption ==
    /\ Permitted \subseteq Target
    /\ NoTarget \notin Target
    /\ MaxRestarts \in Nat

VARIABLES
    control, lapse, clock,   \* the rows, as ControlStore has them
    target,                  \* target[a]: the target of the row
    request,                 \* request[t]: what thread t is between its read and its write
    events,                  \* events[a]: soar.control.applied / rolled_back events committed
    answered,                \* <<a, g>>: a request to contain g as action a was answered 200
    restarts

vars == <<control, lapse, clock, target, request, events, answered, restarts>>
rows == <<control, lapse, clock, target>>

Store == INSTANCE ControlStore

NoRequest == [kind |-> "none"]
Pending == {NoRequest} \union [kind : {"insert", "revoke"}, act : Action, target : Target \union {NoTarget}]

Init ==
    /\ Store!StoreInit
    /\ target = [a \in Action |-> NoTarget]
    /\ request = [t \in Thread |-> NoRequest]
    /\ events = [a \in Action |-> [applied |-> 0, revoked |-> 0]]
    /\ answered = {}
    /\ restarts = 0

\* Mutation of Accepted: the target is not validated.
AcceptedAny(g) == TRUE

\* validate_control_target
Accepted(g) == g \in Permitted

\* apply_control finds no row for the action and goes on to insert one.
ApplyRead(t, a, g) ==
    /\ request[t] = NoRequest
    /\ Accepted(g)
    /\ control[a] = "absent"
    /\ request' = [request EXCEPT ![t] = [kind |-> "insert", act |-> a, target |-> g]]
    /\ UNCHANGED <<rows, events, answered, restarts>>

\* Mutation of SameRequest: the row is returned whatever it contains.
SameRequestAny(a, g) == TRUE

SameRequest(a, g) == target[a] = g

\* Mutation of ApplyExisting: the repeated request renews the control.
ApplyExistingRenews(t, a, g) ==
    /\ request[t] = NoRequest
    /\ control[a] # "absent"
    /\ SameRequest(a, g)
    /\ control' = [control EXCEPT ![a] = "active"]
    /\ answered' = answered \union {<<a, g>>}
    /\ UNCHANGED <<lapse, clock, target, request, events, restarts>>

\* apply_control finds the row: the same request is answered with it, whatever
\* became of it; another target is refused.
ApplyExisting(t, a, g) ==
    /\ request[t] = NoRequest
    /\ Accepted(g)
    /\ control[a] # "absent"
    /\ SameRequest(a, g)
    /\ answered' = answered \union {<<a, g>>}
    /\ UNCHANGED <<rows, request, events, restarts>>

\* The insert and its event commit together, unless the unique index on
\* action_id meanwhile holds another row: IntegrityError, answered 500.
ApplyInsert(t) ==
    LET a == request[t].act
        g == request[t].target
    IN
    /\ request[t].kind = "insert"
    /\ request' = [request EXCEPT ![t] = NoRequest]
    /\ IF control[a] = "absent"
       THEN /\ Store!Apply(a)
            /\ target' = [target EXCEPT ![a] = g]
            /\ events' = [events EXCEPT ![a].applied = @ + 1]
            /\ answered' = answered \union {<<a, g>>}
       ELSE UNCHANGED <<rows, events, answered>>
    /\ UNCHANGED restarts

\* Mutation of Unlocked: rollback_control reads without with_for_update.
UnlockedAlways(a) == TRUE

Unlocked(a) == \A u \in Thread : request[u].kind = "revoke" => request[u].act # a

\* rollback_control locks the row and finds it active; an inactive one is
\* answered unchanged and a missing one with 404.
RevokeRead(t, a) ==
    /\ request[t] = NoRequest
    /\ Unlocked(a)
    /\ control[a] = "active"
    /\ request' = [request EXCEPT ![t] = [kind |-> "revoke", act |-> a, target |-> target[a]]]
    /\ UNCHANGED <<rows, events, answered, restarts>>

RevokeWrite(t) ==
    LET a == request[t].act IN
    /\ request[t].kind = "revoke"
    /\ Store!Revoke(a)
    /\ events' = [events EXCEPT ![a].revoked = @ + 1]
    /\ request' = [request EXCEPT ![t] = NoRequest]
    /\ UNCHANGED <<target, answered, restarts>>

Lapse(a) == Store!Lapse(a) /\ UNCHANGED <<target, request, events, answered, restarts>>

\* Open transactions roll back.
Restart ==
    /\ restarts < MaxRestarts
    /\ restarts' = restarts + 1
    /\ request' = [t \in Thread |-> NoRequest]
    /\ UNCHANGED <<rows, events, answered>>

Serve(t) ==
    \/ \E a \in Action, g \in Target : ApplyRead(t, a, g) \/ ApplyExisting(t, a, g)
    \/ \E a \in Action : RevokeRead(t, a)
    \/ ApplyInsert(t) \/ RevokeWrite(t)

Next ==
    \/ \E t \in Thread : Serve(t)
    \/ \E a \in Action : Lapse(a)
    \/ Restart

Spec == Init /\ [][Next]_vars

-----------------------------------------------------------------------------
(* Properties *)

\* Every variable keeps its type.
TypeOK ==
    /\ Store!StoreTypeOK
    /\ target \in [Action -> Target \union {NoTarget}]
    /\ request \in [Thread -> Pending]
    /\ events \in [Action -> [applied : Nat, revoked : Nat]]
    /\ answered \subseteq Action \X Permitted

\* The concurrent, check-then-insert implementation keeps the promise the
\* controller relies on: one control per action, never active again once revoked.
ImplementsStore == Store!StoreSpec

\* The audit trail has exactly one applied event per control and one rolled_back
\* event per revocation, however often the requests are repeated or overlap.
EventsMatchControls == \A a \in Action :
    /\ events[a].applied = IF control[a] = "absent" THEN 0 ELSE 1
    /\ events[a].revoked = IF control[a] = "revoked" THEN 1 ELSE 0

\* Who was told 200 for a target was told about a control of that target.
AnswerNamesTheControl == \A p \in answered : target[p[1]] = p[2]
=============================================================================
