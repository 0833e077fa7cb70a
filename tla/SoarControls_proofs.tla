------------------------- MODULE SoarControls_proofs -------------------------
(***************************************************************************)
(* SoarControls keeps the promise of ControlStore, and the audit trail and *)
(* the answers match the rows, for any number of actions, targets, threads *)
(* and restarts.                                                           *)
(***************************************************************************)
EXTENDS SoarControls, TLAPS

(***************************************************************************)
(* The inductive invariant.  The insert has no lock: the unique index      *)
(* alone orders it.  A revocation holds the row's lock from its read to    *)
(* its write, so what it read is still true when it writes.                *)
(***************************************************************************)

\* A thread that revokes has the only lock on an active row.
RevokesLocked ==
    /\ \A t \in Thread : request[t].kind = "revoke" => control[request[t].act] = "active"
    /\ \A t, u \in Thread : request[t].kind = "revoke" /\ request[u].kind = "revoke" /\ t # u
                               => request[t].act # request[u].act

\* What is about to be inserted has been validated.
InsertsPermitted == \A t \in Thread : request[t].kind = "insert" => request[t].target \in Permitted

AbsentHasNoTarget == \A a \in Action : control[a] = "absent" => target[a] = NoTarget

Inv ==
    /\ TypeOK
    /\ RevokesLocked
    /\ InsertsPermitted
    /\ AbsentHasNoTarget
    /\ EventsMatchControls
    /\ AnswerNamesTheControl

LEMMA InitInv == Init => Inv
BY ControlsAssumption DEF Init, Inv, TypeOK, RevokesLocked, InsertsPermitted, AbsentHasNoTarget,
   EventsMatchControls, AnswerNamesTheControl, NoRequest, Pending, Store!StoreInit, Store!StoreTypeOK

LEMMA PendingKinds == \A r \in Pending :
    /\ r.kind \in {"none", "insert", "revoke"}
    /\ r.kind # "none" => r.act \in Action /\ r.target \in Target \union {NoTarget}
    /\ r.kind = "none" => r = NoRequest
BY DEF Pending, NoRequest

\* Every step keeps the invariant.
LEMMA StepInv == Inv /\ [Next]_vars => Inv'
<1>1. SUFFICES ASSUME Inv, [Next]_vars PROVE Inv'
    OBVIOUS
<1> USE ControlsAssumption, PendingKinds DEF Inv
<1>2. ASSUME NEW t \in Thread, NEW a \in Action, NEW g \in Target, ApplyRead(t, a, g) PROVE Inv'
    <2>1. [kind |-> "insert", act |-> a, target |-> g] \in Pending
        BY DEF Pending
    <2>2. request' \in [Thread -> Pending]
        BY <1>1, <1>2, <2>1 DEF ApplyRead, TypeOK
    <2>3. TypeOK'
        BY <1>1, <1>2, <2>2 DEF ApplyRead, TypeOK, rows, Store!StoreTypeOK
    <2>4. RevokesLocked'
        BY <1>1, <1>2 DEF ApplyRead, TypeOK, RevokesLocked, rows
    <2>5. InsertsPermitted'
        BY <1>1, <1>2 DEF ApplyRead, Accepted, TypeOK, InsertsPermitted
    <2>6. AbsentHasNoTarget' /\ EventsMatchControls' /\ AnswerNamesTheControl'
        BY <1>1, <1>2 DEF ApplyRead, AbsentHasNoTarget, EventsMatchControls, AnswerNamesTheControl, rows
    <2> QED BY <2>3, <2>4, <2>5, <2>6
<1>3. ASSUME NEW t \in Thread, NEW a \in Action, NEW g \in Target, ApplyExisting(t, a, g) PROVE Inv'
    <2>1. TypeOK'
        BY <1>1, <1>3 DEF ApplyExisting, Accepted, TypeOK, rows, Store!StoreTypeOK
    <2>2. RevokesLocked' /\ InsertsPermitted' /\ AbsentHasNoTarget' /\ EventsMatchControls'
        BY <1>1, <1>3 DEF ApplyExisting, RevokesLocked, InsertsPermitted, AbsentHasNoTarget, EventsMatchControls, rows
    <2>3. AnswerNamesTheControl'
        BY <1>1, <1>3 DEF ApplyExisting, SameRequest, AnswerNamesTheControl, rows
    <2> QED BY <2>1, <2>2, <2>3
<1>4. ASSUME NEW t \in Thread, ApplyInsert(t) PROVE Inv'
    <2> DEFINE a == request[t].act
               g == request[t].target
    <2>1. request[t] \in Pending /\ a \in Action /\ g \in Permitted /\ request' = [request EXCEPT ![t] = NoRequest]
        BY <1>1, <1>4 DEF ApplyInsert, TypeOK, InsertsPermitted
    <2>2. request' \in [Thread -> Pending] /\ InsertsPermitted'
        BY <1>1, <2>1 DEF TypeOK, InsertsPermitted, NoRequest, Pending
    <2>3. CASE control[a] = "absent"
        <3>1. /\ control' = [control EXCEPT ![a] = "active"] /\ UNCHANGED <<lapse, clock>>
              /\ target' = [target EXCEPT ![a] = g]
              /\ events' = [events EXCEPT ![a].applied = @ + 1]
              /\ answered' = answered \union {<<a, g>>}
            BY <1>1, <1>4, <2>1, <2>3 DEF ApplyInsert, Store!Apply, TypeOK, Store!StoreTypeOK
        <3>2. TypeOK'
            BY <1>1, <2>1, <2>2, <3>1 DEF TypeOK, Store!StoreTypeOK
        <3>3. RevokesLocked'
            BY <1>1, <2>1, <2>3, <3>1 DEF RevokesLocked, TypeOK, Store!StoreTypeOK, NoRequest
        <3>4. AbsentHasNoTarget'
            BY <1>1, <2>1, <3>1 DEF AbsentHasNoTarget, TypeOK, Store!StoreTypeOK
        <3>5. EventsMatchControls'
            BY <1>1, <2>1, <2>3, <3>1 DEF EventsMatchControls, TypeOK, Store!StoreTypeOK
        <3>6. AnswerNamesTheControl'
            BY <1>1, <2>1, <2>3, <3>1 DEF AnswerNamesTheControl, AbsentHasNoTarget, TypeOK
        <3> QED BY <2>2, <3>2, <3>3, <3>4, <3>5, <3>6
    <2>4. CASE control[a] # "absent"
        <3>1. UNCHANGED <<control, lapse, clock, target, events, answered>>
            BY <1>4, <2>4 DEF ApplyInsert, rows
        <3>2. RevokesLocked'
            BY <1>1, <2>1, <3>1 DEF RevokesLocked, TypeOK, NoRequest
        <3> QED
            BY <1>1, <2>2, <3>1, <3>2
               DEF TypeOK, Store!StoreTypeOK, AbsentHasNoTarget, EventsMatchControls, AnswerNamesTheControl
    <2> QED BY <2>3, <2>4
<1>5. ASSUME NEW t \in Thread, NEW a \in Action, RevokeRead(t, a) PROVE Inv'
    <2>1. [kind |-> "revoke", act |-> a, target |-> target[a]] \in Pending
        BY <1>1 DEF Pending, TypeOK
    <2>2. TypeOK'
        BY <1>1, <1>5, <2>1 DEF RevokeRead, TypeOK, rows, Store!StoreTypeOK
    <2>3. RevokesLocked'
        BY <1>1, <1>5 DEF RevokeRead, Unlocked, TypeOK, RevokesLocked, rows
    <2>4. InsertsPermitted'
        BY <1>1, <1>5 DEF RevokeRead, TypeOK, InsertsPermitted
    <2>5. AbsentHasNoTarget' /\ EventsMatchControls' /\ AnswerNamesTheControl'
        BY <1>1, <1>5 DEF RevokeRead, AbsentHasNoTarget, EventsMatchControls, AnswerNamesTheControl, rows
    <2> QED BY <2>2, <2>3, <2>4, <2>5
<1>6. ASSUME NEW t \in Thread, RevokeWrite(t) PROVE Inv'
    <2> DEFINE a == request[t].act
    <2>1. /\ a \in Action /\ control[a] = "active"
          /\ control' = [control EXCEPT ![a] = "revoked"] /\ UNCHANGED <<lapse, clock, target, answered>>
          /\ events' = [events EXCEPT ![a].revoked = @ + 1]
          /\ request' = [request EXCEPT ![t] = NoRequest]
        BY <1>1, <1>6 DEF RevokeWrite, Store!Revoke, TypeOK, RevokesLocked
    <2>2. TypeOK'
        BY <1>1, <2>1 DEF TypeOK, Store!StoreTypeOK, Pending
    <2>3. RevokesLocked'
        BY <1>1, <1>6, <2>1 DEF RevokeWrite, RevokesLocked, TypeOK, Store!StoreTypeOK, NoRequest
    <2>4. InsertsPermitted' /\ AbsentHasNoTarget'
        BY <1>1, <2>1 DEF InsertsPermitted, AbsentHasNoTarget, TypeOK, Store!StoreTypeOK, NoRequest
    <2>5. EventsMatchControls'
        BY <1>1, <2>1 DEF EventsMatchControls, TypeOK, Store!StoreTypeOK
    <2>6. AnswerNamesTheControl'
        BY <1>1, <2>1 DEF AnswerNamesTheControl
    <2> QED BY <2>2, <2>3, <2>4, <2>5, <2>6
<1>7. ASSUME NEW a \in Action, Lapse(a) PROVE Inv'
    <2>1. UNCHANGED <<control, target, request, events, answered>>
          /\ clock' \in Nat /\ lapse' \in [Action -> Nat]
        BY <1>1, <1>7 DEF Lapse, Store!Lapse, TypeOK, Store!StoreTypeOK
    <2> QED
        BY <1>1, <2>1 DEF TypeOK, Store!StoreTypeOK, RevokesLocked, InsertsPermitted, AbsentHasNoTarget,
           EventsMatchControls, AnswerNamesTheControl
<1>8. CASE Restart
    <2>1. request' = [t \in Thread |-> NoRequest] /\ UNCHANGED <<control, lapse, clock, target, events, answered>>
        BY <1>8 DEF Restart, rows
    <2>2. request' \in [Thread -> Pending] /\ RevokesLocked' /\ InsertsPermitted'
        BY <2>1 DEF RevokesLocked, InsertsPermitted, NoRequest, Pending
    <2> QED
        BY <1>1, <2>1, <2>2 DEF TypeOK, Store!StoreTypeOK, AbsentHasNoTarget, EventsMatchControls, AnswerNamesTheControl
<1>9. CASE UNCHANGED vars
    BY <1>1, <1>9 DEF vars, TypeOK, Store!StoreTypeOK, RevokesLocked, InsertsPermitted, AbsentHasNoTarget,
       EventsMatchControls, AnswerNamesTheControl
<1> QED BY <1>1, <1>2, <1>3, <1>4, <1>5, <1>6, <1>7, <1>8, <1>9 DEF Next, Serve

LEMMA InvHolds == Spec => []Inv
BY InitInv, StepInv, PTL DEF Spec

\* Every variable keeps its type: the application never stores a control it
\* should refuse, and never answers for one.
THEOREM ControlTypes == Spec => []TypeOK
BY InvHolds, PTL DEF Inv

\* One applied event per control and one rolled_back event per revocation.
THEOREM TrailMatchesRows == Spec => []EventsMatchControls
BY InvHolds, PTL DEF Inv

\* Who was answered 200 was answered about a control of the target asked for.
THEOREM AnswersNameControls == Spec => []AnswerNamesTheControl
BY InvHolds, PTL DEF Inv

\* Every step of the application is one of the store, or none.
LEMMA StoreStep == Inv /\ [Next]_vars => [Store!StoreNext]_(Store!storeVars)
<1>1. SUFFICES ASSUME Inv, [Next]_vars PROVE Store!StoreNext \/ UNCHANGED Store!storeVars
    OBVIOUS
<1>2. ASSUME NEW t \in Thread, ApplyInsert(t) PROVE Store!StoreNext \/ UNCHANGED Store!storeVars
    <2>1. request[t].act \in Action
        BY <1>1, <1>2, PendingKinds DEF Inv, TypeOK, ApplyInsert
    <2> QED BY <1>2, <2>1 DEF ApplyInsert, Store!StoreNext, Store!storeVars, rows
<1>3. ASSUME NEW t \in Thread, RevokeWrite(t) PROVE Store!StoreNext
    <2>1. request[t].act \in Action
        BY <1>1, <1>3, PendingKinds DEF Inv, TypeOK, RevokeWrite
    <2> QED BY <1>3, <2>1 DEF RevokeWrite, Store!StoreNext
<1>4. ASSUME NEW a \in Action, Lapse(a) PROVE Store!StoreNext
    BY <1>4 DEF Lapse, Store!StoreNext
<1>5. ASSUME NEW t \in Thread, NEW a \in Action, NEW g \in Target,
             ApplyRead(t, a, g) \/ ApplyExisting(t, a, g)
      PROVE UNCHANGED Store!storeVars
    BY <1>5 DEF ApplyRead, ApplyExisting, rows, Store!storeVars
<1>6. ASSUME NEW t \in Thread, NEW a \in Action, RevokeRead(t, a) PROVE UNCHANGED Store!storeVars
    BY <1>6 DEF RevokeRead, rows, Store!storeVars
<1>7. CASE Restart \/ UNCHANGED vars
    BY <1>7 DEF Restart, vars, rows, Store!storeVars
<1> QED BY <1>1, <1>2, <1>3, <1>4, <1>5, <1>6, <1>7 DEF Next, Serve

\* The application implements ControlStore.
THEOREM StoreIsImplemented == Spec => ImplementsStore
<1>1. Init => Store!StoreInit
    BY DEF Init
<1> QED BY <1>1, InvHolds, StoreStep, PTL DEF Spec, ImplementsStore, Store!StoreSpec
=============================================================================
