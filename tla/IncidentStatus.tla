-------------------------- MODULE IncidentStatus --------------------------
(***************************************************************************)
(* The statuses of response actions and incidents, and the rule by which   *)
(* the controller derives the second from the first (SoarService).         *)
(***************************************************************************)

\* Statuses an action is created in: the automatic ones wait for the intake
\* dispatch, the others for the analyst, unless triage already ruled them out.
InitialAutomatic   == {"pending"}
InitialContainment == {"pending_approval", "not_applicable", "blocked_by_policy"}

ActionStatus == InitialAutomatic \union InitialContainment \union
    {"approved", "skipped", "completed", "simulated", "applied", "failed", "rolled_back"}

IncidentStatus == {"triaged", "pending_approval", "approved", "rejected",
                   "contained", "simulated", "failed", "closed"}

Decision == {"approve", "reject"}

\* _status_for: the first rule that applies wins.
StatusFor(decision, statuses) ==
    IF "failed" \in statuses THEN "failed"
    ELSE IF decision = "reject" THEN "rejected"
    ELSE IF "pending_approval" \in statuses THEN "pending_approval"
    ELSE IF "approved" \in statuses THEN "approved"
    ELSE IF "applied" \in statuses THEN "contained"
    ELSE IF "simulated" \in statuses THEN "simulated"
    ELSE IF "pending" \in statuses THEN "triaged"
    ELSE "closed"
============================================================================
