--------------------------- MODULE EvaluationRun ---------------------------
(***************************************************************************)
(* One run of the evaluation campaign: evalctl's run, decide and refresh   *)
(* commands, typed in several terminals, around one result.json, and       *)
(* whether its summary counts the run. The SOAR platform is what           *)
(* ActionLifecycle and ControlStore promise of it, in any order and with   *)
(* other analysts at work.                                                 *)
(***************************************************************************)
EXTENDS IncidentStatus, Naturals

CONSTANTS
    Control,       \* the reversible response actions of the scenario's playbook
    Terminal       \* operators with a command line

ASSUME EvaluationAssumption == Control # {}

VARIABLES
    \* the SOAR platform and the application
    incident,               \* the incident of the run's alert, as validate_incident judges it
    action, decision,       \* statuses of its controls and the analyst's decision
    control, lapse, clock,  \* rows of soar_controls, as ControlStore has them
    mode,                   \* SOAR_RESPONSE_MODE, of evalctl and of the controller
    \* the run
    requires,               \* the scenario's requires_decision
    stimulus,               \* what was sent, and whether it exceeded the request budget
    result,                 \* result.json
    sess,                   \* sess[w]: the command terminal w is executing
    denied                  \* controls whose effect a decide command observed

platform == <<incident, action, decision, control, lapse, clock, mode>>
vars == <<platform, requires, stimulus, result, sess, denied>>

Mode == {"dry-run", "live"}
Untriaged == [a \in Control |-> "absent"]

Lifecycle == INSTANCE ActionLifecycle WITH
    Action <- Control, Incident <- {"i"}, IncidentOf <- [a \in Control |-> "i"],
    Automatic <- {}, status <- action, decision <- [i \in {"i"} |-> decision]

Store == INSTANCE ControlStore WITH Action <- Control

\* incident: has result.json an incident_id; live: status of live_control_verification.
Result == [status : {"absent", "RUNNING", "PASS_PENDING_DECISION", "PASS", "FAIL"},
           mode : Mode, incident : BOOLEAN, live : {"none", "PASS", "FAIL"}]

\* live: the command approves in live mode; seen, decided: the incident as it was
\* last fetched; unverified: live_errors or rollback_errors; failed: other errors.
Session == [pc : {"idle", "stimulus", "poll", "snapshot", "before", "call", "fetch", "active",
                  "cleanup", "refetch", "after", "finish", "write", "refresh"},
            copy : Result, choice : Decision \union {"none"}, live : BOOLEAN,
            todo : SUBSET Control, seen : [Control -> ActionStatus \union {"absent"}],
            decided : BOOLEAN, unverified : BOOLEAN, failed : BOOLEAN]

Idle == [pc |-> "idle", copy |-> [status |-> "absent", mode |-> "dry-run", incident |-> FALSE, live |-> "none"],
         choice |-> "none", live |-> FALSE, todo |-> {}, seen |-> Untriaged,
         decided |-> FALSE, unverified |-> FALSE, failed |-> FALSE]

Init ==
    /\ incident = "absent" /\ action = Untriaged /\ decision = "none"
    /\ Store!StoreInit
    /\ mode \in Mode /\ requires \in BOOLEAN
    /\ stimulus = "none"
    /\ result = Idle.copy
    /\ sess = [w \in Terminal |-> Idle]
    /\ denied = {}

\* The application's guard denies what control a covers (enforcement-probe).
Enforced(a) == control[a] = "active" /\ lapse[a] = 0

\* live_control_plan
Plan == {a \in Control : action[a] # "blocked_by_policy"}

\* The command goes on as s and writes result.json only if file is not its current value.
Goes(w, s, file) ==
    /\ sess' = [sess EXCEPT ![w] = s]
    /\ result' = file
    /\ UNCHANGED requires

Ends(w, file) == Goes(w, Idle, file)
-----------------------------------------------------------------------------
(* run: the stimulus, the alert with its marker and the incident of the alert. *)

RunStart(w) ==
    LET new == [Idle.copy EXCEPT !.status = "RUNNING", !.mode = mode] IN
    /\ sess[w].pc = "idle" /\ result.status = "absent"
    /\ Goes(w, [Idle EXCEPT !.pc = "stimulus", !.copy = new], new)
    /\ UNCHANGED <<platform, stimulus, denied>>

\* Mutation of Budgeted: the receipt's request_count is not compared.
BudgetedAny(sent) == TRUE

\* request_count of the receipt is within the scenario's request_budget.
Budgeted(sent) == sent # "excess"

Failed(copy) == [copy EXCEPT !.status = "FAIL"]

Stimulate(w, sent) ==
    /\ sess[w].pc = "stimulus"
    /\ stimulus' = sent
    /\ IF Budgeted(sent) THEN Goes(w, [sess[w] EXCEPT !.pc = "poll"], result)
                         ELSE Ends(w, Failed(sess[w].copy))
    /\ UNCHANGED <<platform, denied>>

\* Mutation of Verdict: a scenario without a decision waits for one.
VerdictPending(final) == IF final THEN "PASS" ELSE "PASS_PENDING_DECISION"

\* The status update_result gives a run whose incident is valid.
Verdict(final) == IF final \/ ~requires THEN "PASS" ELSE "PASS_PENDING_DECISION"

\* poll_incident returns; update_result notes the incident and validates it.
RunRecord(w) ==
    LET noted == [sess[w].copy EXCEPT !.incident = TRUE] IN
    /\ sess[w].pc = "poll"
    /\ \/ /\ incident = "complete"
          /\ LET new == [noted EXCEPT !.status = Verdict(FALSE)] IN
             Goes(w, [sess[w] EXCEPT !.pc = "snapshot", !.copy = new], new)
       \/ incident = "wrong" /\ Ends(w, Failed(noted))
    /\ UNCHANGED <<platform, stimulus, denied>>

RunEnd(w) ==
    /\ sess[w].pc = "snapshot"
    /\ Ends(w, result)
    /\ UNCHANGED <<platform, stimulus, denied>>

\* A command, the alert's or the incident's deadline or the last snapshot fails.
RunFails(w) ==
    /\ sess[w].pc \in {"stimulus", "poll", "snapshot"}
    /\ Ends(w, Failed(sess[w].copy))
    /\ stimulus' \in IF sess[w].pc = "stimulus" THEN {"none", "sent", "excess"} ELSE {stimulus}
    /\ UNCHANGED <<platform, denied>>
-----------------------------------------------------------------------------
(* decide: the decision and, in live mode, the three phases of the effect.  *)

DecideBegin(w, choice) ==
    LET live == mode = "live" /\ choice = "approve" IN
    /\ sess[w].pc = "idle"
    /\ result.incident /\ requires /\ result.mode = mode
    /\ live => Plan # {} /\ \A a \in Plan : action[a] # "not_applicable"
    /\ Goes(w, [Idle EXCEPT !.pc = IF live THEN "before" ELSE "call", !.copy = result,
                            !.choice = choice, !.live = live, !.todo = IF live THEN Plan ELSE {}], result)
    /\ UNCHANGED <<platform, stimulus, denied>>

\* verify_live_control_phase asks the application for one more control.
After(s, a, next) == [s EXCEPT !.todo = @ \ {a}, !.pc = IF s.todo = {a} THEN next ELSE @]

ProbeBefore(w, a) ==
    /\ sess[w].pc = "before" /\ a \in sess[w].todo
    /\ ~Enforced(a)
    /\ Goes(w, After(sess[w], a, "call"), result)
    /\ UNCHANGED <<platform, stimulus, denied>>

\* A control is in force already or its probe fails: nothing is decided.
BeforeFails(w) ==
    /\ sess[w].pc = "before"
    /\ Ends(w, [Failed(sess[w].copy) EXCEPT !.live = "FAIL"])
    /\ UNCHANGED <<platform, stimulus, denied>>

\* The decision workflow answers after it dispatched what it approved.
DecisionAnswered(w) ==
    /\ sess[w].pc = "call"
    /\ decision = sess[w].choice
    /\ \A a \in Control : action[a] # "approved"
    /\ Goes(w, [sess[w] EXCEPT !.pc = "fetch"], result)
    /\ UNCHANGED <<platform, stimulus, denied>>

\* It refuses, is unreachable, or has not answered after 20 s and goes on.
DecisionUnanswered(w) ==
    /\ sess[w].pc = "call"
    /\ Goes(w, [sess[w] EXCEPT !.pc = "fetch", !.failed = TRUE], result)
    /\ UNCHANGED <<platform, stimulus, denied>>

Fetched(s) == [s EXCEPT !.seen = action, !.decided = decision # "none"]
WithStatus(status) == {a \in Plan : action[a] = status}
CleanupOf(s) == [s EXCEPT !.todo = {a \in Control : s.seen[a] = "applied"},
                          !.pc = IF \E a \in Control : s.seen[a] = "applied" THEN "cleanup" ELSE "refetch"]

Fetch(w) ==
    LET s == Fetched(sess[w]) IN
    /\ sess[w].pc = "fetch"
    /\ Goes(w, IF ~s.live THEN [s EXCEPT !.pc = "finish"]
               ELSE IF WithStatus("applied") = Plan THEN [s EXCEPT !.pc = "active", !.todo = Plan]
               ELSE CleanupOf([s EXCEPT !.unverified = TRUE]), result)
    /\ UNCHANGED <<platform, stimulus, denied>>

ProbeActive(w, a) ==
    /\ sess[w].pc = "active" /\ a \in sess[w].todo
    /\ Enforced(a)
    /\ Goes(w, IF sess[w].todo = {a} THEN CleanupOf(sess[w]) ELSE After(sess[w], a, "active"), result)
    /\ denied' = denied \union {a}
    /\ UNCHANGED <<platform, stimulus>>

ActiveFails(w) ==
    /\ sess[w].pc = "active"
    /\ Goes(w, CleanupOf([sess[w] EXCEPT !.unverified = TRUE]), result)
    /\ UNCHANGED <<platform, stimulus, denied>>

\* The cleanup clause rolls back what was applied; the controller returns an
\* action that is rolled back already as it is.
Cleanup(w, a) ==
    /\ sess[w].pc = "cleanup" /\ a \in sess[w].todo
    /\ \/ action[a] = "rolled_back" /\ UNCHANGED platform
       \/ /\ action[a] = "applied"
          /\ Store!Revoke(a)
          /\ action' = [action EXCEPT ![a] = "rolled_back"]
          /\ UNCHANGED <<incident, decision, mode>>
    /\ Goes(w, After(sess[w], a, "refetch"), result)
    /\ UNCHANGED <<stimulus, denied>>

CleanupFails(w, a) ==
    /\ sess[w].pc = "cleanup" /\ a \in sess[w].todo
    /\ Goes(w, After([sess[w] EXCEPT !.unverified = TRUE], a, "refetch"), result)
    /\ UNCHANGED <<platform, stimulus, denied>>

Refetch(w) ==
    LET s == Fetched(sess[w]) IN
    /\ sess[w].pc = "refetch"
    /\ Goes(w, IF WithStatus("rolled_back") = Plan THEN [s EXCEPT !.pc = "after", !.todo = Plan]
               ELSE [s EXCEPT !.pc = "finish", !.unverified = TRUE], result)
    /\ UNCHANGED <<platform, stimulus, denied>>

ProbeAfter(w, a) ==
    /\ sess[w].pc = "after" /\ a \in sess[w].todo
    /\ ~Enforced(a)
    /\ Goes(w, After(sess[w], a, "finish"), result)
    /\ UNCHANGED <<platform, stimulus, denied>>

AfterFails(w) ==
    /\ sess[w].pc = "after"
    /\ Goes(w, [sess[w] EXCEPT !.pc = "finish", !.todo = {}, !.unverified = TRUE], result)
    /\ UNCHANGED <<platform, stimulus, denied>>

\* update_result writes PASS for a valid incident before the errors are merged.
Finish(w) ==
    LET valid == incident = "complete" /\ sess[w].decided
        new == [sess[w].copy EXCEPT !.status = Verdict(TRUE)] IN
    /\ sess[w].pc = "finish"
    /\ IF valid THEN Goes(w, [sess[w] EXCEPT !.pc = "write", !.copy = new], new)
                ELSE Goes(w, [sess[w] EXCEPT !.pc = "write", !.failed = TRUE], result)
    /\ UNCHANGED <<platform, stimulus, denied>>

\* What the decision should have made of every response action.
Expected(s) == IF s.choice = "reject" THEN "skipped" ELSE IF s.live THEN "rolled_back" ELSE "simulated"

Write(w) ==
    LET s == sess[w]
        verified == [s.copy EXCEPT !.live = IF ~s.live THEN @ ELSE IF s.unverified THEN "FAIL" ELSE "PASS"] IN
    /\ s.pc = "write"
    /\ Ends(w, IF s.failed \/ s.unverified \/ \E a \in Plan : s.seen[a] # Expected(s)
               THEN Failed(verified) ELSE verified)
    /\ UNCHANGED <<platform, stimulus, denied>>
-----------------------------------------------------------------------------
(* refresh, and commands that end without a word in result.json.            *)

RefreshBegin(w) ==
    /\ sess[w].pc = "idle" /\ result.incident
    /\ Goes(w, [Idle EXCEPT !.pc = "refresh", !.copy = result], result)
    /\ UNCHANGED <<platform, stimulus, denied>>

RefreshWrite(w) ==
    /\ sess[w].pc = "refresh" /\ incident = "complete"
    /\ Ends(w, [sess[w].copy EXCEPT !.status = Verdict(decision # "none")])
    /\ UNCHANGED <<platform, stimulus, denied>>

\* The incident cannot be fetched or is not valid.
Abandon(w) ==
    /\ sess[w].pc \in {"fetch", "refetch", "refresh"}
    /\ Ends(w, result)
    /\ UNCHANGED <<platform, stimulus, denied>>

\* The terminal is closed. (After Ctrl-C in "active" the cleanup clause still
\* runs, as after ActiveFails, and then the command ends like this.)
Interrupt(w) ==
    /\ sess[w].pc # "idle"
    /\ Ends(w, result)
    /\ UNCHANGED <<platform, stimulus, denied>>
-----------------------------------------------------------------------------
(* The SOAR platform, other analysts included.                              *)

Triage ==
    /\ stimulus # "none" /\ incident = "absent"
    /\ incident' \in {"collecting", "wrong"}
    /\ action' \in [Control -> InitialContainment]
    /\ UNCHANGED <<decision, control, lapse, clock, mode>>

Enrich ==
    /\ incident = "collecting" /\ incident' = "complete"
    /\ UNCHANGED <<action, decision, control, lapse, clock, mode>>

Decided(d) ==
    /\ decision = "none" /\ \E a \in Control : action[a] = "pending_approval"
    /\ decision' = d
    /\ action' = [a \in Control |-> IF action[a] # "pending_approval" THEN action[a]
                                    ELSE IF d = "approve" THEN "approved" ELSE "skipped"]
    /\ UNCHANGED <<incident, control, lapse, clock, mode>>

\* An action takes a status it may have next, with the row in soar_controls the
\* controller guarantees it (AppliedHasControl, RolledBackIsRevoked).
Progress(a, t) ==
    /\ action[a] \notin InitialContainment \union {"absent"}
    /\ Lifecycle!MayFollow(a, action[a], t, decision)
    /\ t = "applied" => control[a] # "absent" /\ mode = "live"
    /\ t = "simulated" => mode = "dry-run"
    /\ t = "rolled_back" => control[a] = "revoked"
    /\ action' = [action EXCEPT ![a] = t]
    /\ UNCHANGED <<incident, decision, control, lapse, clock, mode>>

\* The application serves a request of the controller or a control runs out.
Serve(a) ==
    /\ \/ action[a] \notin InitialContainment \union {"absent", "skipped"} /\ Store!Apply(a)
       \/ action[a] = "applied" /\ Store!Revoke(a)
       \/ Store!Lapse(a)
    /\ UNCHANGED <<incident, action, decision, mode>>

\* make soar-enable-live, make soar-disable-live
SwitchMode ==
    /\ mode' \in Mode \ {mode}
    /\ UNCHANGED <<incident, action, decision, control, lapse, clock>>

Platform ==
    /\ \/ Triage
       \/ Enrich
       \/ \E d \in Decision : Decided(d)
       \/ \E a \in Control, t \in ActionStatus : Progress(a, t)
       \/ \E a \in Control : Serve(a)
       \/ SwitchMode
    /\ UNCHANGED <<requires, stimulus, result, sess, denied>>

Command(w) ==
    \/ RunStart(w) \/ RunRecord(w) \/ RunEnd(w) \/ RunFails(w)
    \/ \E sent \in {"sent", "excess"} : Stimulate(w, sent)
    \/ \E choice \in Decision : DecideBegin(w, choice)
    \/ BeforeFails(w) \/ DecisionAnswered(w) \/ DecisionUnanswered(w) \/ Fetch(w) \/ ActiveFails(w)
    \/ Refetch(w) \/ AfterFails(w) \/ Finish(w) \/ Write(w)
    \/ \E a \in Control : ProbeBefore(w, a) \/ ProbeActive(w, a) \/ Cleanup(w, a)
                             \/ CleanupFails(w, a) \/ ProbeAfter(w, a)
    \/ RefreshBegin(w) \/ RefreshWrite(w) \/ Abandon(w) \/ Interrupt(w)

Next == Platform \/ \E w \in Terminal : Command(w)

Spec == Init /\ [][Next]_vars
-----------------------------------------------------------------------------
\* The variables have their types, and only a scenario that requires a decision waits for one.
TypeOK ==
    /\ incident \in {"absent", "collecting", "complete", "wrong"}
    /\ action \in [Control -> ActionStatus \union {"absent"}]
    /\ decision \in Decision \union {"none"}
    /\ Store!StoreTypeOK
    /\ mode \in Mode /\ requires \in BOOLEAN
    /\ stimulus \in {"none", "sent", "excess"}
    /\ result \in Result
    /\ sess \in [Terminal -> Session]
    /\ denied \subseteq Control
    /\ result.status = "PASS_PENDING_DECISION" => requires

\* Mutation of Counted: the summary counts every PASS.
CountedIfPassed == result.status = "PASS"

\* The summary takes the run into its coverage and metrics (build_summary; a run
\* that reaches PASS has timing_integrity valid).
Counted == result.status = "PASS" /\ (result.mode = "live" => result.live = "PASS")

\* A live run is counted only if the effect of every control was observed and
\* every control is rolled back and no longer in force, through concurrent
\* commands, refreshes of failed runs, expiry, other analysts and lost answers.
CountedLiveRunsAreRestored ==
    Counted /\ result.mode = "live" =>
        \A a \in Plan : a \in denied /\ action[a] = "rolled_back" /\ ~Enforced(a)

\* A run whose stimulus exceeded its request budget is never counted, though a
\* failed run may be refreshed and decided again.
OverBudgetIsNeverCounted == stimulus = "excess" => ~Counted

\* Every counted run ended in a response: none of its controls waits or failed.
\* False: refresh makes a decided run PASS without a look at the actions.
CountedRunsHaveResponse ==
    Counted /\ (\A w \in Terminal : sess[w].pc = "idle") =>
        \A a \in Plan : ~requires \/ action[a] \in {"simulated", "skipped", "rolled_back"}
=============================================================================
