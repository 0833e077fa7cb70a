-------------------------- MODULE ActionLifecycle --------------------------
(***************************************************************************)
(* The life of a response action as the controller promises it: which      *)
(* status may follow which, and that containment leaves the approval queue *)
(* only in the direction of the one decision an analyst takes.             *)
(***************************************************************************)
EXTENDS IncidentStatus

CONSTANTS Action, Incident, IncidentOf, Automatic

VARIABLES status,     \* status[a], "absent" before triage
          decision    \* decision[i], "none" until an analyst decides

lifecycleVars == <<status, decision>>

LifecycleInit ==
    /\ status = [a \in Action |-> "absent"]
    /\ decision = [i \in Incident |-> "none"]

Born(a, s) == s \in IF a \in Automatic THEN InitialAutomatic ELSE InitialContainment

\* d is the decision in force after the step.
MayFollow(a, s, t, d) ==
    \/ s = "absent" /\ Born(a, t)
    \/ s = "pending" /\ t \in {"completed", "failed"}
    \/ s = "pending_approval" /\ d = "approve" /\ t = "approved"
    \/ s = "pending_approval" /\ d = "reject" /\ t = "skipped"
    \/ s = "approved" /\ t \in {"applied", "simulated", "failed"}
    \/ s = "failed" /\ a \in Automatic /\ t = "completed"
    \/ s = "failed" /\ a \notin Automatic /\ d = "approve" /\ t \in {"applied", "simulated"}
    \/ s = "applied" /\ t = "rolled_back"

LifecycleNext ==
    /\ \A i \in Incident : decision'[i] = decision[i] \/ (decision[i] = "none" /\ decision'[i] \in Decision)
    /\ \A a \in Action :
          \/ status'[a] = status[a]
          \/ MayFollow(a, status[a], status'[a], decision'[IncidentOf[a]])

LifecycleSpec == LifecycleInit /\ [][LifecycleNext]_lifecycleVars
=============================================================================
