----------------------------- MODULE Workflows -----------------------------
(***************************************************************************)
(* n8n's intake and decision workflows between those who post alerts and   *)
(* decisions and the SOAR controller.  Every HTTP node tries a bounded     *)
(* number of times, giving up a call does not stop it, and callers repeat  *)
(* themselves; the controller's handlers have to bear it.  One alert, its  *)
(* incident and the actions of its playbook.                               *)
(***************************************************************************)
EXTENDS IncidentStatus, Naturals

CONSTANTS
    Evidence,        \* automatic actions of the playbook
    Containment,     \* its reversible actions, which need an analyst
    Analyst,         \* who types decisions
    Validator,       \* the analyst as whom soar_client.py validate decides
    Nobody,
    MaxExecutions,   \* bound on executions of n8n at a time
    MaxOrphans,      \* bound on calls at a time that nobody waits for
    MaxTries,        \* maxTries of the HTTP nodes (3 in the workflows)
    MaxRestarts      \* bound on restarts of the controller

ASSUME WorkflowsAssumption ==
    /\ Evidence \intersect Containment = {}
    /\ Validator \notin Analyst /\ Nobody \notin Analyst \union {Validator}
    /\ MaxExecutions \in Nat /\ MaxOrphans \in Nat /\ MaxTries \in Nat \ {0} /\ MaxRestarts \in Nat

VARIABLES
    rows,           \* how many incidents have the alert's dedup_key
    action,         \* statuses of the incident's actions
    ruling,         \* the incident's decision and analyst
    mode,           \* SOAR_RESPONSE_MODE, of the controller and of validate
    call,           \* calls to the controller, of executions and orphaned ones
    validation,     \* what validate waits for or has returned; none: a real alert
    runs,           \* runs[a]: how often the adapter of a was run
    acknowledged,   \* the intake webhook has answered 202
    accepted,       \* <<c, d>>: analyst c was answered 200 for decision d
    restarts

rowVars == <<rows, action, ruling>>
answers == <<validation, acknowledged, accepted>>
vars == <<rowVars, mode, call, answers, runs, restarts>>

Action == Evidence \union Containment
Executions == 1 .. MaxExecutions
Orphans == MaxExecutions + 1 .. MaxExecutions + MaxOrphans
Calls == Executions \union Orphans
Mode == {"live", "dry-run"}

\* node: the workflow's node that calls; rollback is validate's own call.
\* out[a]: what the call's session knows of an action it has run.
NoOutcome == [a \in Action |-> "none"]
NoCall == [node |-> "none", by |-> Nobody, decision |-> "none", tries |-> 0,
           pc |-> "none", todo |-> {}, out |-> NoOutcome]
Arriving(node, by, decision, tries) ==
    [node |-> node, by |-> by, decision |-> decision, tries |-> tries,
     pc |-> "arrived", todo |-> {}, out |-> NoOutcome]

Init ==
    /\ rows = 0 /\ action = [a \in Action |-> "absent"]
    /\ ruling = [decision |-> "none", analyst |-> Nobody]
    /\ mode \in Mode
    /\ call = [x \in Calls |-> NoCall]
    /\ validation \in {"none", "idle"}
    /\ runs = [a \in Action |-> 0]
    /\ acknowledged = FALSE /\ accepted = {}
    /\ restarts = 0

-----------------------------------------------------------------------------
(* Executions: node after node, try after try *)

Begins(node, by, decision) == \E x \in Executions :
    /\ call[x] = NoCall /\ \A y \in 1 .. x - 1 : call[y] # NoCall
    /\ call' = [call EXCEPT ![x] = Arriving(node, by, decision, 1)]

\* The alert is delivered once or more, unless it is the one validate makes up.
PostAlert ==
    /\ validation = "none"
    /\ Begins("create", Nobody, "none")
    /\ UNCHANGED <<rowVars, mode, answers, runs, restarts>>

PostDecision(c, d) ==
    /\ rows > 0
    /\ Begins("decide", c, d)
    /\ UNCHANGED <<rowVars, mode, answers, runs, restarts>>

\* validate: the alert, the approval, and the rollback of what was applied.
Validate ==
    /\ \/ validation = "idle" /\ validation' = "intake" /\ Begins("create", Validator, "none")
       \/ validation = "approve" /\ validation' = "decision" /\ Begins("decide", Validator, "approve")
       \/ validation = "restore" /\ validation' = "rollback" /\ Begins("rollback", Validator, "none")
    /\ UNCHANGED <<rowVars, mode, acknowledged, accepted, runs, restarts>>

\* Any of its requests may fail or take longer than 20 seconds.
ValidateFails ==
    /\ validation \in {"intake", "decision", "rollback"}
    /\ validation' = "fail"
    /\ UNCHANGED <<rowVars, mode, call, acknowledged, accepted, runs, restarts>>

\* Mutation of After: the alert is acknowledged before the evidence is collected.
AfterUnordered(node) == IF node = "decide" THEN "approved" ELSE "none"

\* The node a successful one leads to.
After(node) == CASE node = "create" -> "automatic" [] node = "decide" -> "approved" [] OTHER -> "none"

\* Mutation of FailedTry: the tries are compared after the fact.
FailedTryOnceMore(x) ==
    IF x \in Executions /\ call[x].tries <= MaxTries /\ call[x].node # "rollback"
    THEN Arriving(call[x].node, call[x].by, call[x].decision, call[x].tries + 1)
    ELSE NoCall

\* A node that fails is tried again, validate's own call is not.
FailedTry(x) ==
    IF x \in Executions /\ call[x].tries < MaxTries /\ call[x].node # "rollback"
    THEN Arriving(call[x].node, call[x].by, call[x].decision, call[x].tries + 1)
    ELSE NoCall

\* The call ends at the node's timeout, or because the controller cannot be
\* reached; in the first case it goes on as an orphan.
TryFails(x) ==
    /\ call[x] # NoCall
    /\ \/ call[x].pc = "arrived" /\ call' = [call EXCEPT ![x] = FailedTry(x)]
       \/ \E o \in Orphans :
             /\ call[o] = NoCall /\ \A y \in Orphans : y < o => call[y] # NoCall
             /\ call' = [call EXCEPT ![x] = FailedTry(x), ![o] = [call[x] EXCEPT !.tries = 0]]
    /\ UNCHANGED <<rowVars, mode, answers, runs, restarts>>

-----------------------------------------------------------------------------
(* Answers *)

\* Mutation of Restored: validate is content with an applied containment.
RestoredAnyway(statuses) == \A a \in Containment : statuses[a] = IF mode = "live" THEN "applied" ELSE "simulated"

\* Nothing is left for validate to roll back.
Restored(statuses) == mode = "dry-run" /\ \A a \in Containment : statuses[a] = "simulated"

\* What validate makes of the statuses it is answered.
Validated(node, statuses) ==
    CASE node = "automatic" /\ validation = "intake" ->
            IF \A a \in Evidence : statuses[a] = "completed" THEN "approve" ELSE "fail"
      [] node = "approved" /\ validation = "decision" ->
            IF Restored(statuses) THEN "pass"
            ELSE IF mode = "live" /\ \A a \in Containment : statuses[a] = "applied" THEN "restore"
            ELSE "fail"
      [] node = "rollback" /\ validation = "rollback" -> "pass"
      [] OTHER -> validation

\* Call x is answered with the incident's statuses.  Its execution goes on to
\* the next node; the answer to the last one is the webhook's.
Succeeds(x, statuses) ==
    LET c == call[x]
        next == IF x \in Orphans THEN "none" ELSE After(c.node)
    IN
    /\ call' = [call EXCEPT ![x] = IF next = "none" THEN NoCall ELSE Arriving(next, c.by, c.decision, 1)]
    /\ IF x \in Executions /\ next = "none"
       THEN /\ acknowledged' = (acknowledged \/ c.node \in {"create", "automatic"})
            /\ accepted' = IF c.decision = "none" THEN accepted ELSE accepted \union {<<c.by, c.decision>>}
            /\ validation' = IF c.by = Validator THEN Validated(c.node, statuses) ELSE validation
       ELSE UNCHANGED answers

Refuses(x) == call' = [call EXCEPT ![x] = FailedTry(x)] /\ UNCHANGED answers

-----------------------------------------------------------------------------
(* The controller's handlers *)

Arrived(x, node) == call[x].node = node /\ call[x].pc = "arrived"

\* create_incident finds the dedup_key, or goes on to insert it.
CreateRead(x) ==
    /\ Arrived(x, "create")
    /\ IF rows > 0 THEN Succeeds(x, action)
       ELSE call' = [call EXCEPT ![x].pc = "insert"] /\ UNCHANGED answers
    /\ UNCHANGED <<rowVars, mode, runs, restarts>>

\* Mutation of Unique: dedup_key has no unique index.
UniqueNever == TRUE

Unique == rows = 0

\* The insert, or the IntegrityError of the unique index: the transaction rolls
\* back and the other request's incident is the answer.
CreateInsert(x) ==
    /\ call[x].pc = "insert"
    /\ IF Unique
       THEN \E born \in [Action -> InitialAutomatic \union InitialContainment] :
               /\ \A a \in Action : born[a] \in IF a \in Evidence THEN InitialAutomatic ELSE InitialContainment
               /\ rows' = rows + 1 /\ action' = born /\ UNCHANGED ruling
       ELSE UNCHANGED rowVars
    /\ Succeeds(x, action')
    /\ UNCHANGED <<mode, runs, restarts>>

\* Mutation of IncidentFree: no with_for_update on the incident.
IncidentFreeAlways == TRUE

\* A dispatch holds the incident's row while it runs the adapters.
IncidentFree == \A y \in Calls : call[y].pc # "running"

\* Mutations of Repeats: the analyst is not compared; no decision is repeatable.
RepeatsDecision(x) == ruling.decision = call[x].decision
RepeatsNever(x) == FALSE

Repeats(x) == ruling.decision = call[x].decision /\ ruling.analyst = call[x].by

Awaiting == {a \in Action : action[a] = "pending_approval"}

\* decide: the same decision of the same analyst is answered again, another one
\* is refused, and so is one that nothing waits for.
Decide(x) ==
    /\ Arrived(x, "decide") /\ IncidentFree
    /\ IF ruling.decision = "none" /\ Awaiting # {}
       THEN /\ ruling' = [decision |-> call[x].decision, analyst |-> call[x].by]
            /\ action' = [a \in Action |-> IF a \notin Awaiting THEN action[a]
                                           ELSE IF call[x].decision = "approve" THEN "approved" ELSE "skipped"]
            /\ UNCHANGED rows
            /\ Succeeds(x, action')
       ELSE /\ UNCHANGED rowVars
            /\ IF Repeats(x) THEN Succeeds(x, action) ELSE Refuses(x)
    /\ UNCHANGED <<mode, runs, restarts>>

\* Mutation of Candidates: the status is not compared.
CandidatesOfScope(node) == IF node = "automatic" THEN Evidence ELSE Containment

Candidates(node) ==
    IF node = "automatic" THEN {a \in Evidence : action[a] = "pending"}
    ELSE {a \in Containment : action[a] = "approved"}

\* dispatch locks the incident and loads its actions.
DispatchBegin(x) ==
    /\ Arrived(x, "automatic") \/ Arrived(x, "approved")
    /\ IncidentFree
    /\ call' = [call EXCEPT ![x].pc = "running", ![x].todo = Candidates(call[x].node)]
    /\ UNCHANGED <<rowVars, mode, answers, runs, restarts>>

\* What an adapter reports.
Outcomes(a) == IF a \in Evidence THEN {"completed", "failed"}
               ELSE IF mode = "live" THEN {"applied", "failed"} ELSE {"simulated"}

Execute(x, a) ==
    /\ a \in call[x].todo
    /\ runs' = [runs EXCEPT ![a] = @ + 1]
    /\ \E st \in Outcomes(a) : call' = [call EXCEPT ![x].out[a] = st, ![x].todo = @ \ {a}]
    /\ UNCHANGED <<rowVars, mode, answers, restarts>>

DispatchEnd(x) ==
    /\ call[x].pc = "running" /\ call[x].todo = {}
    /\ action' = [a \in Action |-> IF call[x].out[a] # "none" THEN call[x].out[a] ELSE action[a]]
    /\ Succeeds(x, action')
    /\ UNCHANGED <<rows, ruling, mode, runs, restarts>>

\* rollback_action of validate's containment: rolled back already, refused in any
\* other state than applied, or not revoked by the application.
Reverted == [a \in Action |-> IF a \in Containment THEN "rolled_back" ELSE action[a]]

Rollback(x) ==
    /\ Arrived(x, "rollback")
    /\ \/ /\ \A a \in Containment : action[a] \in {"applied", "rolled_back"}
          /\ action' = Reverted
          /\ Succeeds(x, action')
       \/ UNCHANGED action /\ Refuses(x)
    /\ UNCHANGED <<rows, ruling, mode, runs, restarts>>

Serve(x) ==
    \/ CreateRead(x) \/ CreateInsert(x)
    \/ Decide(x)
    \/ DispatchBegin(x) \/ (\E a \in Action : Execute(x, a)) \/ DispatchEnd(x)
    \/ Rollback(x)

\* Connections break, open transactions roll back, adapters keep what they did.
Restart ==
    /\ restarts < MaxRestarts /\ restarts' = restarts + 1
    /\ call' = [x \in Calls |-> IF call[x] = NoCall THEN NoCall ELSE FailedTry(x)]
    /\ UNCHANGED <<rowVars, mode, answers, runs>>

Next ==
    \/ PostAlert
    \/ \E c \in Analyst, d \in Decision : PostDecision(c, d)
    \/ Validate \/ ValidateFails
    \/ \E x \in Executions : TryFails(x)
    \/ \E x \in Calls : Serve(x)
    \/ Restart

Spec == Init /\ [][Next]_vars

\* The controller ends what it has begun (PostgreSQL queues the waiters of a
\* row).  An analyst who repeats an approval for ever is some time answered before
\* the node gives up, and so is the dispatch that follows.
FairSpec ==
    /\ Spec
    /\ WF_vars(\E x \in Calls : call[x].pc # "arrived" /\ Serve(x))
    /\ \A c \in Analyst : SF_vars(\E x \in Executions :
           call[x].by = c /\ call[x].decision = "approve" /\ Decide(x))
    /\ SF_vars(\E x \in Executions : call[x].node = "approved" /\ DispatchBegin(x))

-----------------------------------------------------------------------------
(* Properties *)

\* Every variable keeps its type.
TypeOK ==
    /\ rows \in Nat
    /\ action \in [Action -> ActionStatus \union {"absent"}]
    /\ ruling \in [decision : Decision \union {"none"}, analyst : Analyst \union {Validator, Nobody}]
    /\ mode \in Mode
    /\ call \in [Calls -> [node : {"none", "create", "automatic", "decide", "approved", "rollback"},
                           by : Analyst \union {Validator, Nobody}, decision : Decision \union {"none"},
                           tries : 0 .. MaxTries, pc : {"none", "arrived", "insert", "running"},
                           todo : SUBSET Action, out : [Action -> ActionStatus \union {"none"}]]]
    /\ validation \in {"none", "idle", "intake", "approve", "decision", "restore", "rollback", "pass", "fail"}
    /\ runs \in [Action -> Nat]
    /\ acknowledged \in BOOLEAN
    /\ accepted \subseteq (Analyst \union {Validator}) \X Decision
    /\ restarts \in 0 .. MaxRestarts

\* However often an alert is delivered and its node repeated, it has one incident.
OneIncidentPerAlert == rows <= 1

\* Repeated and overlapping dispatches run no adapter twice, except for what a
\* restart of the controller kept out of its rows.
ExecutedOnce == \A a \in Action : runs[a] <= 1 + restarts

\* Once an alert was answered 202 its evidence is collected or the failure is on
\* record; nothing is left to another delivery.
AcknowledgedIsTriaged == acknowledged => rows = 1 /\ \A a \in Evidence : action[a] # "pending"

\* Who was answered 200 for a decision is the incident's analyst, and nothing of
\* the decision is left to do: two analysts are never both told they decided.
AcceptedIsCarriedOut == \A p \in accepted :
    /\ ruling.analyst = p[1] /\ ruling.decision = p[2]
    /\ \A a \in Containment : action[a] \notin {"pending_approval", "approved"}

\* A validation that passes leaves no containment in force, whoever else decided
\* on its incident and whatever was tried twice.
ValidatedIsRestored == validation = "pass" =>
    /\ \A a \in Evidence : action[a] = "completed"
    /\ \A a \in Containment : action[a] = IF mode = "live" THEN "rolled_back" ELSE "simulated"

Lifecycle == INSTANCE ActionLifecycle WITH
    Incident <- {"i"}, IncidentOf <- [a \in Action |-> "i"], Automatic <- Evidence,
    status <- action, decision <- [i \in {"i"} |-> ruling.decision]

\* Under all these deliveries the actions live as ActionLifecycle says.
ImplementsLifecycle == Lifecycle!LifecycleSpec

\* An approval whose dispatch failed is not lost: the same analyst who repeats
\* the command for ever gets the approved actions executed, once the alert is no
\* longer delivered (each delivery holds the incident's row again).
RepeatedApprovalIsExecuted == \A c \in Analyst, a \in Containment :
    /\ []<><<PostDecision(c, "approve")>>_vars
    /\ <>[][~ PostAlert]_vars
    => ((action[a] = "approved" /\ ruling.analyst = c) ~> action[a] # "approved")
=============================================================================
