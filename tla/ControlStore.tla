---------------------------- MODULE ControlStore ----------------------------
(***************************************************************************)
(* What the business application promises the SOAR controller about the    *)
(* temporary controls it enforces: a control is created at most once per   *)
(* action, its time to live runs out once, and once revoked it stays so.   *)
(* SoarControls shows how the application keeps the promise.               *)
(***************************************************************************)
EXTENDS Naturals

CONSTANT Action

VARIABLES
    control,   \* control[a]: the row for action a in soar_controls
    lapse,     \* lapse[a]: when expires_at of that row passed, 0 while it has not
    clock      \* how many expiry instants have passed, which orders them

storeVars == <<control, lapse, clock>>

StoreTypeOK ==
    /\ control \in [Action -> {"absent", "active", "revoked"}]
    /\ lapse \in [Action -> Nat]
    /\ clock \in Nat

StoreInit ==
    /\ control = [a \in Action |-> "absent"]
    /\ lapse = [a \in Action |-> 0]
    /\ clock = 0

\* Mutation of Apply: a repeated request activates the row again.
ApplyAgain(a) ==
    /\ control' = [control EXCEPT ![a] = "active"]
    /\ UNCHANGED <<lapse, clock>>

\* POST /internal/soar/controls, answered 200: the second request for an action
\* returns the first one's row, revoked or expired as it may be.
Apply(a) ==
    /\ control' = [control EXCEPT ![a] = IF @ = "absent" THEN "active" ELSE @]
    /\ UNCHANGED <<lapse, clock>>

\* POST /internal/soar/controls/{a}/rollback, answered 200 (404 without a row).
Revoke(a) ==
    /\ control[a] # "absent"
    /\ control' = [control EXCEPT ![a] = "revoked"]
    /\ UNCHANGED <<lapse, clock>>

\* expires_at passes; the row does not change.
Lapse(a) ==
    /\ control[a] # "absent"
    /\ lapse[a] = 0
    /\ clock' = clock + 1
    /\ lapse' = [lapse EXCEPT ![a] = clock + 1]
    /\ UNCHANGED control

StoreNext == \E a \in Action : Apply(a) \/ Revoke(a) \/ Lapse(a)

StoreSpec == StoreInit /\ [][StoreNext]_storeVars
=============================================================================
