-------------------------- MODULE Workflows_proofs --------------------------
(***************************************************************************)
(* What the controller's handlers promise to callers who repeat            *)
(* themselves, give up and are not listened to: for any number of          *)
(* executions, abandoned calls, tries, analysts, actions and restarts.     *)
(***************************************************************************)
EXTENDS Workflows, TLAPS

CallRecord == [node : {"none", "create", "automatic", "decide", "approved", "rollback"},
               by : Analyst \union {Validator, Nobody}, decision : Decision \union {"none"},
               tries : 0 .. MaxTries, pc : {"none", "arrived", "insert", "running"},
               todo : SUBSET Action, out : [Action -> ActionStatus \union {"none"}]]

(***************************************************************************)
(* The invariant                                                           *)
(***************************************************************************)

\* What a call c looks like.
Shape(c) ==
    /\ c \in CallRecord
    /\ c.pc = "none" => c = NoCall
    /\ c.pc # "running" => c.todo = {} /\ c.out = NoOutcome
    /\ c.pc = "insert" => c.node = "create"
    /\ c.pc = "running" => c.node \in {"automatic", "approved"}

\* What the node of a call says of the incident, whenever the call arrives.
Knows(c) ==
    /\ c.node \in {"automatic", "decide", "approved", "rollback"} => rows = 1
    /\ c.node \in {"create", "automatic", "rollback"} => c.decision = "none"
    /\ c.node \in {"decide", "approved"} => c.decision \in Decision /\ c.by \in Analyst \union {Validator}
    /\ c.node = "approved" => c.decision = ruling.decision /\ c.by = ruling.analyst

\* A dispatch has run what it found to do, but for what is left.
Progress(c) == c.pc = "running" =>
    /\ c.todo \subseteq Candidates(c.node)
    /\ \A a \in Action : IF a \in Candidates(c.node) \ c.todo THEN c.out[a] \in Outcomes(a) ELSE c.out[a] = "none"

CallsOK ==
    /\ call \in [Calls -> CallRecord]
    /\ \A x \in Calls : Shape(call[x]) /\ Knows(call[x]) /\ Progress(call[x])
    /\ \A x, y \in Calls : call[x].pc = "running" /\ call[y].pc = "running" => x = y

RowsOK ==
    /\ rows \in {0, 1}
    /\ action \in [Action -> ActionStatus \union {"absent"}]
    /\ ruling \in [decision : Decision \union {"none"}, analyst : Analyst \union {Validator, Nobody}]
    /\ mode \in Mode
    /\ rows = 0 => ruling.decision = "none" /\ \A a \in Action : action[a] = "absent"
    /\ rows = 1 => \A a \in Action : action[a] # "absent"
    /\ ruling.decision # "none" => \A a \in Action : action[a] # "pending_approval"

\* Where validate has got to.
ValidationOK ==
    /\ validation \in {"none", "idle", "intake", "approve", "decision", "restore", "rollback", "pass", "fail"}
    /\ validation \in {"approve", "decision", "restore", "rollback", "pass"} =>
          rows = 1 /\ \A a \in Evidence : action[a] = "completed"
    /\ validation \in {"restore", "rollback"} => mode = "live"
    /\ ValidatedIsRestored

AnswersOK ==
    /\ acknowledged \in BOOLEAN /\ accepted \subseteq (Analyst \union {Validator}) \X Decision
    /\ AcknowledgedIsTriaged /\ AcceptedIsCarriedOut /\ ValidationOK

\* The action has been run, as its row says or a dispatch that will write it.
Ran(a) ==
    \/ action[a] \in {"completed", "failed", "applied", "simulated", "rolled_back"}
    \/ \E x \in Calls : call[x].out[a] # "none"

RunsOK ==
    /\ runs \in [Action -> Nat] /\ restarts \in 0 .. MaxRestarts
    /\ \A a \in Action : runs[a] <= restarts + 1 /\ (~ Ran(a) => runs[a] <= restarts)

Inv == CallsOK /\ RowsOK /\ AnswersOK /\ RunsOK

(***************************************************************************)
(* Records of calls                                                        *)
(***************************************************************************)

LEMMA CallSets == Executions \subseteq Calls /\ Orphans \subseteq Calls /\ Executions \intersect Orphans = {}
BY WorkflowsAssumption DEF Executions, Orphans, Calls

LEMMA NoCallShape == Shape(NoCall) /\ NoCall.pc = "none" /\ NoCall.node = "none" /\ NoCall.out = NoOutcome
BY WorkflowsAssumption DEF Shape, NoCall, CallRecord, NoOutcome

LEMMA NothingOut == \A a \in Action : NoOutcome[a] = "none"
BY DEF NoOutcome

LEMMA ArrivingShape ==
    ASSUME NEW node \in {"none", "create", "automatic", "decide", "approved", "rollback"},
           NEW by \in Analyst \union {Validator, Nobody}, NEW decision \in Decision \union {"none"},
           NEW tries \in 0 .. MaxTries
    PROVE  Shape(Arriving(node, by, decision, tries))
BY DEF Arriving, Shape, CallRecord, NoOutcome

\* So does the first try of the next node.
LEMMA NextCallShape ==
    ASSUME NEW x \in Calls, call[x] \in CallRecord, NEW node \in {"automatic", "approved"},
           NEW c, c = NoCall \/ c = Arriving(node, call[x].by, call[x].decision, 1)
    PROVE  Shape(c) /\ c.pc # "running"
<1>1. CASE c = NoCall
    BY <1>1, NoCallShape
<1>2. CASE c = Arriving(node, call[x].by, call[x].decision, 1)
    <2>1. call[x].by \in Analyst \union {Validator, Nobody} /\ call[x].decision \in Decision \union {"none"}
        BY DEF CallRecord
    <2>2. 1 \in 0 .. MaxTries
        BY WorkflowsAssumption
    <2>3. Shape(c)
        BY <1>2, <2>1, <2>2, ArrivingShape
    <2> QED
        BY <1>2, <2>3 DEF Arriving
<1> QED BY <1>1, <1>2

\* A call that ends without success leaves nothing running and is, if it is made
\* again, the same call.
LEMMA FailedTryIs ==
    ASSUME NEW x \in Calls, call[x] \in CallRecord, NEW c, c = FailedTry(x)
    PROVE  /\ Shape(c) /\ c.out = NoOutcome /\ c.pc # "running"
           /\ \/ c = NoCall
              \/ c.node = call[x].node /\ c.by = call[x].by /\ c.decision = call[x].decision
<1>1. CASE c = NoCall
    BY <1>1, NoCallShape
<1>2. CASE c # NoCall
    <2> DEFINE n == call[x].tries + 1
    <2>1. c = Arriving(call[x].node, call[x].by, call[x].decision, n) /\ n \in 0 .. MaxTries
        BY <1>2, WorkflowsAssumption DEF FailedTry, CallRecord
    <2> HIDE DEF n
    <2>2. Shape(c)
        BY <2>1, ArrivingShape DEF CallRecord
    <2> QED BY <2>1, <2>2 DEF Arriving
<1> QED BY <1>1, <1>2

(***************************************************************************)
(* What a step does to the incident's rows: the life of ActionLifecycle,   *)
(* and from it all that callers may rely on to stay true.                  *)
(***************************************************************************)

RowStep ==
    /\ RowsOK' /\ mode' = mode
    /\ rows = 1 => rows' = 1
    /\ ruling'.decision = ruling.decision \/ (ruling.decision = "none" /\ ruling'.decision \in Decision)
    /\ ruling.decision # "none" => ruling' = ruling
    /\ \A a \in Action : \/ action'[a] = action[a]
                        \/ Lifecycle!MayFollow(a, action[a], action'[a], ruling'.decision)

LEMMA RowStepIsLifecycle == RowStep => Lifecycle!LifecycleNext
<1>1. SUFFICES ASSUME RowStep PROVE Lifecycle!LifecycleNext
    OBVIOUS
<1>2. \A i \in {"i"} :
        \/ [j \in {"i"} |-> ruling'.decision][i] = [j \in {"i"} |-> ruling.decision][i]
        \/ /\ [j \in {"i"} |-> ruling.decision][i] = "none"
           /\ [j \in {"i"} |-> ruling'.decision][i] \in Lifecycle!Decision
    BY <1>1 DEF RowStep, Decision, Lifecycle!Decision
<1>3. ASSUME NEW a \in Action
      PROVE  \/ action'[a] = action[a]
             \/ Lifecycle!MayFollow(a, action[a], action'[a],
                                    [j \in {"i"} |-> ruling'.decision][[b \in Action |-> "i"][a]])
    BY <1>1 DEF RowStep, Lifecycle!MayFollow
<1> QED
    BY <1>2, <1>3 DEF Lifecycle!LifecycleNext

LEMMA RowsUnchanged == RowsOK /\ UNCHANGED <<rowVars, mode>> => RowStep
BY DEF RowStep, RowsOK, rowVars

\* Outcomes are final, evidence and decisions are not taken back.
LEMMA RowsAdvance ==
    ASSUME RowsOK, RowStep, NEW a \in Action
    PROVE  /\ action[a] \in {"completed", "simulated", "rolled_back"} => action'[a] = action[a]
           /\ action[a] \in {"completed", "failed", "applied", "simulated", "rolled_back"} =>
                  action'[a] \in {"completed", "failed", "applied", "simulated", "rolled_back"}
           /\ rows = 1 /\ action[a] # "pending" => action'[a] # "pending"
           /\ ruling.decision # "none" /\ action[a] # "approved" => action'[a] # "approved"
BY DEF RowsOK, RowStep, Lifecycle!MayFollow, Lifecycle!Born, Lifecycle!InitialAutomatic, Lifecycle!InitialContainment

LEMMA AnswersStay ==
    ASSUME RowsOK, RowStep, AnswersOK, UNCHANGED answers
    PROVE  AnswersOK'
<1>1. Evidence \subseteq Action /\ Containment \subseteq Action
    BY DEF Action
<1>2. UNCHANGED <<validation, acknowledged, accepted>>
    BY DEF answers
<1>3. AcknowledgedIsTriaged'
    BY <1>1, <1>2, RowsAdvance DEF AnswersOK, AcknowledgedIsTriaged, RowStep
<1>4. AcceptedIsCarriedOut'
    <2>1. ASSUME NEW p \in accepted PROVE ruling.decision # "none"
        BY <2>1 DEF AnswersOK, AcceptedIsCarriedOut, Decision
    <2> QED
        BY <1>1, <1>2, <2>1, RowsAdvance DEF AnswersOK, AcceptedIsCarriedOut, RowStep, RowsOK
<1>5. ValidationOK'
    BY <1>1, <1>2, RowsAdvance DEF AnswersOK, ValidationOK, ValidatedIsRestored, RowStep, RowsOK, Mode
<1> QED
    BY <1>2, <1>3, <1>4, <1>5 DEF AnswersOK

LEMMA RunsStay ==
    ASSUME RowsOK, RowStep, RunsOK, UNCHANGED <<runs, restarts>>,
           \A a \in Action, x \in Calls : call[x].out[a] # "none" => Ran(a)'
    PROVE  RunsOK'
<1>1. ASSUME NEW a \in Action, Ran(a) PROVE Ran(a)'
    BY <1>1, RowsAdvance DEF Ran
<1> QED
    BY <1>1 DEF RunsOK

\* Call x becomes c and the others stay as they are.
LEMMA CallMoves ==
    ASSUME RowsOK, RowStep, CallsOK, NEW x \in Calls, NEW c, Shape(c), Knows(c)', Progress(c)',
           call' = [call EXCEPT ![x] = c],
           c.pc = "running" => \A y \in Calls \ {x} : call[y].pc # "running",
           (\E y \in Calls \ {x} : call[y].pc = "running") =>
               Candidates("automatic")' = Candidates("automatic") /\ Candidates("approved")' = Candidates("approved")
    PROVE  CallsOK'
<1>1. call' \in [Calls -> CallRecord] /\ call'[x] = c /\ (\A y \in Calls \ {x} : call'[y] = call[y])
    BY DEF CallsOK, Shape
<1>2. \A y, z \in Calls : call'[y].pc = "running" /\ call'[z].pc = "running" => y = z
    BY <1>1 DEF CallsOK
<1>3. ASSUME NEW y \in Calls PROVE Shape(call'[y]) /\ Knows(call[y])' /\ Progress(call[y])'
    <2>1. CASE y = x
        BY <1>1, <2>1 DEF Knows, Progress, Candidates, Outcomes
    <2>2. CASE y # x
        <3>1. Shape(call[y]) /\ Knows(call[y]) /\ Progress(call[y]) /\ call'[y] = call[y]
            BY <1>1, <2>2 DEF CallsOK
        <3>2. Knows(call[y])'
            BY <3>1 DEF Knows, RowStep, Decision
        <3>3. Progress(call[y])'
            BY <2>2, <3>1 DEF Progress, Shape, Candidates, Outcomes, RowStep
        <3> QED BY <3>1, <3>2, <3>3
    <2> QED BY <2>1, <2>2
<1> QED
    BY <1>1, <1>2, <1>3 DEF CallsOK, Shape

(***************************************************************************)
(* Steps that leave the rows alone                                         *)
(***************************************************************************)

\* Call x becomes c, which runs nothing, and x ran nothing either.
LEMMA QuietMove ==
    ASSUME Inv, NEW x \in Calls, NEW c, Shape(c), Knows(c), c.pc # "running", call[x].pc # "running",
           call' = [call EXCEPT ![x] = c], UNCHANGED <<rowVars, mode, runs, restarts>>, AnswersOK'
    PROVE  Inv'
<1>1. RowStep
    BY RowsUnchanged DEF Inv
<1>2. Knows(c)' /\ Progress(c)'
    BY DEF Knows, Progress, rowVars
<1>3. Candidates("automatic")' = Candidates("automatic") /\ Candidates("approved")' = Candidates("approved")
    BY DEF Candidates, rowVars
<1>4. CallsOK'
    BY <1>1, <1>2, <1>3, CallMoves DEF Inv
<1>5. ASSUME NEW a \in Action, NEW y \in Calls, call[y].out[a] # "none" PROVE Ran(a)'
    <2>1. y # x
        BY <1>5, NothingOut DEF Inv, CallsOK, Shape
    <2>2. call'[y] = call[y]
        BY <2>1 DEF Inv, CallsOK
    <2> QED
        BY <1>5, <2>2 DEF Ran
<1>6. RunsOK'
    BY <1>1, <1>5, RunsStay DEF Inv
<1> QED
    BY <1>1, <1>4, <1>6 DEF Inv, RowStep

LEMMA BeginsKeeps ==
    ASSUME Inv, NEW node \in {"create", "decide", "rollback"}, NEW by \in Analyst \union {Validator, Nobody},
           NEW decision \in Decision \union {"none"}, Begins(node, by, decision),
           node # "create" => rows = 1,
           IF node = "decide" THEN decision # "none" /\ by # Nobody ELSE decision = "none",
           UNCHANGED <<rowVars, mode, runs, restarts>>, AnswersOK'
    PROVE  Inv'
<1>1. PICK x \in Executions : call[x] = NoCall /\ call' = [call EXCEPT ![x] = Arriving(node, by, decision, 1)]
    BY DEF Begins
<1>2. PICK c : c = Arriving(node, by, decision, 1)
    OBVIOUS
<1>3. 1 \in 0 .. MaxTries /\ x \in Calls
    BY WorkflowsAssumption, CallSets
<1>4. Shape(c)
    BY <1>2, <1>3, ArrivingShape
<1>5. Knows(c) /\ c.pc # "running"
    BY <1>2 DEF Arriving, Knows, Decision
<1> QED
    BY <1>1, <1>2, <1>3, <1>4, <1>5, NoCallShape, QuietMove

LEMMA PostAlertKeeps == ASSUME Inv, PostAlert PROVE Inv'
<1>1. AnswersOK'
    BY RowsUnchanged, AnswersStay DEF PostAlert, Inv
<1> QED
    BY <1>1, BeginsKeeps DEF PostAlert

LEMMA PostDecisionKeeps ==
    ASSUME Inv, NEW a \in Analyst, NEW d \in Decision, PostDecision(a, d) PROVE Inv'
<1>1. AnswersOK' /\ rows = 1
    BY RowsUnchanged, AnswersStay DEF PostDecision, Inv, RowsOK
<1>2. d # "none" /\ a # Nobody
    BY WorkflowsAssumption DEF Decision
<1> QED
    BY <1>1, <1>2, BeginsKeeps DEF PostDecision

LEMMA ValidateKeeps == ASSUME Inv, Validate PROVE Inv'
<1>1. AnswersOK'
    BY DEF Validate, Inv, AnswersOK, ValidationOK, AcknowledgedIsTriaged, AcceptedIsCarriedOut,
           ValidatedIsRestored, rowVars
<1>2. UNCHANGED <<rowVars, mode, runs, restarts>>
    BY DEF Validate
<1>3. Validator # Nobody
    BY WorkflowsAssumption
<1>4. CASE Begins("create", Validator, "none")
    BY <1>1, <1>2, <1>4, BeginsKeeps
<1>5. CASE Begins("decide", Validator, "approve") /\ validation = "approve"
    BY <1>1, <1>2, <1>3, <1>5, BeginsKeeps DEF Inv, AnswersOK, ValidationOK, Decision
<1>6. CASE Begins("rollback", Validator, "none") /\ validation = "restore"
    BY <1>1, <1>2, <1>6, BeginsKeeps DEF Inv, AnswersOK, ValidationOK
<1> QED
    BY <1>4, <1>5, <1>6 DEF Validate

LEMMA ValidateFailsKeeps == ASSUME Inv, ValidateFails PROVE Inv'
<1>1. AnswersOK'
    BY DEF ValidateFails, Inv, AnswersOK, ValidationOK, AcknowledgedIsTriaged, AcceptedIsCarriedOut,
           ValidatedIsRestored, rowVars
<1>2. UNCHANGED <<rows, action, ruling, mode, call, runs, restarts>>
    BY DEF ValidateFails, rowVars
<1> QED
    BY <1>1, <1>2 DEF Inv, CallsOK, Knows, Progress, Candidates, Outcomes, RowsOK, RunsOK, Ran

\* What a call is refused for, it is told and may try again.
LEMMA FailsKeeps ==
    ASSUME Inv, NEW x \in Calls, call[x].pc # "running", call' = [call EXCEPT ![x] = FailedTry(x)],
           UNCHANGED <<rowVars, mode, answers, runs, restarts>>
    PROVE  Inv'
<1>1. PICK c : c = FailedTry(x)
    OBVIOUS
<1>2. call[x] \in CallRecord /\ Knows(call[x])
    BY DEF Inv, CallsOK
<1>3. /\ Shape(c) /\ c.pc # "running"
      /\ \/ c.node = "none"
         \/ c.node = call[x].node /\ c.by = call[x].by /\ c.decision = call[x].decision
    BY <1>1, <1>2, FailedTryIs, NoCallShape
<1>4. Knows(c)
    BY <1>2, <1>3 DEF Knows
<1>5. AnswersOK'
    BY RowsUnchanged, AnswersStay DEF Inv
<1> QED
    BY <1>1, <1>3, <1>4, <1>5, QuietMove

\* An abandoned call goes on under another name.
LEMMA AbandonedKeeps ==
    ASSUME Inv, NEW x \in Executions, NEW o \in Orphans, call[x] # NoCall, call[o] = NoCall,
           call' = [call EXCEPT ![x] = FailedTry(x), ![o] = [call[x] EXCEPT !.tries = 0]],
           UNCHANGED <<rowVars, mode, answers, runs, restarts>>
    PROVE  Inv'
<1>1. x \in Calls /\ o \in Calls /\ x # o /\ 0 \in 0 .. MaxTries
    BY CallSets, WorkflowsAssumption
<1>2. PICK c : c = FailedTry(x)
    OBVIOUS
<1>3. PICK r : r = [call[x] EXCEPT !.tries = 0]
    OBVIOUS
<1>4. call[x] \in CallRecord /\ Shape(call[x]) /\ Knows(call[x]) /\ Progress(call[x])
    BY <1>1 DEF Inv, CallsOK
<1>5. /\ r \in CallRecord /\ r.node = call[x].node /\ r.by = call[x].by /\ r.decision = call[x].decision
      /\ r.pc = call[x].pc /\ r.todo = call[x].todo /\ r.out = call[x].out
    BY <1>1, <1>3, <1>4 DEF CallRecord
<1>6. /\ Shape(c) /\ c.out = NoOutcome /\ c.pc # "running"
      /\ \/ c.node = "none"
         \/ c.node = call[x].node /\ c.by = call[x].by /\ c.decision = call[x].decision
    BY <1>1, <1>2, <1>4, FailedTryIs, NoCallShape
<1>7. /\ call' \in [Calls -> CallRecord] /\ call'[x] = c /\ call'[o] = r
      /\ \A y \in Calls \ {x, o} : call'[y] = call[y]
    BY <1>1, <1>2, <1>3, <1>5, <1>6 DEF Inv, CallsOK, Shape
<1>8. RowStep /\ UNCHANGED <<rows, action, ruling, mode>>
    BY RowsUnchanged DEF Inv, rowVars
<1>9. CallsOK'
    <2>1. ASSUME NEW y \in Calls PROVE Shape(call'[y]) /\ Knows(call'[y]) /\ Progress(call'[y])
        <3>1. CASE y = x
            BY <1>4, <1>6, <1>7, <3>1 DEF Knows, Progress
        <3>2. CASE y = o
            BY <1>4, <1>5, <1>7, <3>2 DEF Shape, Knows, Progress, NoCall
        <3>3. CASE y \notin {x, o}
            BY <1>7, <3>3 DEF Inv, CallsOK
        <3> QED BY <3>1, <3>2, <3>3
    <2>2. \A y, z \in Calls : call'[y].pc = "running" /\ call'[z].pc = "running" => y = z
        <3>1. call[o].pc # "running"
            BY NoCallShape
        <3> QED
            BY <1>1, <1>5, <1>6, <1>7, <3>1 DEF Inv, CallsOK
    <2> QED
        BY <1>7, <1>8, <2>1, <2>2 DEF CallsOK, Shape, Knows, Progress, Candidates, Outcomes
<1>10. ASSUME NEW a \in Action, NEW y \in Calls, call[y].out[a] # "none" PROVE Ran(a)'
    <2>1. y # o
        BY <1>10, NoCallShape, NothingOut
    <2>2. call'[y] = call[y] \/ call'[o].out = call[y].out
        BY <1>5, <1>7, <2>1
    <2> QED
        BY <1>1, <1>10, <2>2 DEF Ran
<1>11. AnswersOK' /\ RunsOK'
    BY <1>8, <1>10, AnswersStay, RunsStay DEF Inv
<1> QED
    BY <1>8, <1>9, <1>11 DEF Inv, RowStep

LEMMA TryFailsKeeps == ASSUME Inv, NEW x \in Executions, TryFails(x) PROVE Inv'
<1>1. CASE call[x].pc = "arrived" /\ call' = [call EXCEPT ![x] = FailedTry(x)]
    BY <1>1, CallSets, FailsKeeps DEF TryFails
<1>2. CASE \E o \in Orphans : call[o] = NoCall /\ call' = [call EXCEPT ![x] = FailedTry(x), ![o] = [call[x] EXCEPT !.tries = 0]]
    BY <1>2, AbandonedKeeps DEF TryFails
<1> QED
    BY <1>1, <1>2 DEF TryFails

(***************************************************************************)
(* Restarts: what was running is forgotten, but for what it has done       *)
(***************************************************************************)

LEMMA RestartKeeps == ASSUME Inv, Restart PROVE Inv'
<1>1. RowStep /\ UNCHANGED <<rows, action, ruling, mode, runs>> /\ AnswersOK'
    BY RowsUnchanged, AnswersStay DEF Restart, Inv, rowVars
<1>2. ASSUME NEW x \in Calls
      PROVE  /\ Shape(call'[x]) /\ Knows(call'[x]) /\ call'[x].pc # "running"
    <2>1. PICK c : c = FailedTry(x)
        OBVIOUS
    <2>2. call'[x] = NoCall \/ call'[x] = c
        BY <2>1 DEF Restart
    <2>3. Knows(call[x]) /\ call[x] \in CallRecord
        BY DEF Inv, CallsOK
    <2>4. /\ Shape(c) /\ c.pc # "running"
          /\ \/ c.node = "none"
             \/ c.node = call[x].node /\ c.by = call[x].by /\ c.decision = call[x].decision
        BY <2>1, <2>3, FailedTryIs, NoCallShape
    <2> QED
        BY <2>2, <2>3, <2>4, NoCallShape DEF Knows
<1>3. CallsOK'
    <2>1. call' \in [Calls -> CallRecord]
        BY <1>2 DEF Restart, Shape
    <2> QED
        BY <1>1, <1>2, <2>1 DEF CallsOK, Shape, Knows, Progress
<1>4. RunsOK'
    <2>1. restarts' \in 0 .. MaxRestarts /\ restarts' = restarts + 1 /\ restarts \in Nat
        BY WorkflowsAssumption DEF Restart, Inv, RunsOK
    <2> QED
        BY <1>1, <2>1 DEF Inv, RunsOK
<1> QED
    BY <1>1, <1>3, <1>4 DEF Inv, RowStep

(***************************************************************************)
(* Answers                                                                 *)
(***************************************************************************)

\* The first node of a workflow leads to the second and answers nobody yet.
LEMMA FirstNodeSucceeds ==
    ASSUME NEW x \in Calls, NEW statuses, Succeeds(x, statuses), call[x].node \in {"create", "decide"},
           NEW next, next = After(call[x].node)
    PROVE  /\ UNCHANGED answers
           /\ next # "none"
           /\ \/ call' = [call EXCEPT ![x] = NoCall]
              \/ call' = [call EXCEPT ![x] = Arriving(next, call[x].by, call[x].decision, 1)]
<1>1. x \in Executions <=> x \notin Orphans
    BY CallSets DEF Calls
<1>2. next # "none"
    BY DEF After
<1> QED
    BY <1>1, <1>2 DEF Succeeds

\* The last one ends, and the webhook or validate answers.
LEMMA LastNodeSucceeds ==
    ASSUME NEW x \in Calls, NEW statuses, Succeeds(x, statuses),
           call[x].node \in {"automatic", "approved", "rollback"}
    PROVE  /\ call' = [call EXCEPT ![x] = NoCall]
           /\ acknowledged' \in {acknowledged, acknowledged \/ call[x].node = "automatic"}
           /\ \/ accepted' = accepted
              \/ call[x].decision # "none" /\ accepted' = accepted \union {<<call[x].by, call[x].decision>>}
           /\ validation' \in {validation, Validated(call[x].node, statuses)}
<1>1. After(call[x].node) = "none"
    BY DEF After
<1>2. call' = [call EXCEPT ![x] = NoCall]
    BY <1>1 DEF Succeeds
<1>3. CASE x \in Executions
    <2>1. x \notin Orphans
        BY <1>3, CallSets
    <2>2. /\ acknowledged' = (acknowledged \/ call[x].node \in {"create", "automatic"})
          /\ accepted' = IF call[x].decision = "none" THEN accepted ELSE accepted \union {<<call[x].by, call[x].decision>>}
          /\ validation' = IF call[x].by = Validator THEN Validated(call[x].node, statuses) ELSE validation
        BY <1>1, <1>3, <2>1 DEF Succeeds
    <2> QED BY <1>2, <2>2
<1>4. CASE x \notin Executions
    BY <1>1, <1>2, <1>4 DEF Succeeds, answers
<1> QED
    BY <1>3, <1>4

(***************************************************************************)
(* The controller's handlers                                               *)
(***************************************************************************)

\* A handler of a first node that changes rows while no dispatch runs.
LEMMA FirstNodeMoves ==
    ASSUME Inv, RowStep, NEW x \in Calls, call[x].node \in {"create", "decide"}, UNCHANGED <<answers, runs, restarts>>,
           NEW c, Shape(c), Knows(c)', c.pc # "running", call' = [call EXCEPT ![x] = c],
           \A y \in Calls : call[y].pc # "running"
    PROVE  Inv'
<1>1. CallsOK'
    BY CallMoves DEF Inv, Progress
<1>2. \A a \in Action, y \in Calls : call[y].out[a] = "none"
    BY NothingOut DEF Inv, CallsOK, Shape
<1>3. AnswersOK' /\ RunsOK'
    BY <1>2, AnswersStay, RunsStay DEF Inv
<1> QED
    BY <1>1, <1>3 DEF Inv, RowStep

LEMMA CreateReadKeeps == ASSUME Inv, NEW x \in Calls, CreateRead(x) PROVE Inv'
<1>1. /\ call[x] \in CallRecord /\ Shape(call[x]) /\ Knows(call[x])
      /\ call[x].node = "create" /\ call[x].pc = "arrived"
      /\ UNCHANGED <<rowVars, mode, runs, restarts>>
    BY DEF CreateRead, Arrived, Inv, CallsOK
<1>2. CASE rows > 0
    <2>1. Succeeds(x, action)
        BY <1>2 DEF CreateRead
    <2>2. PICK c : /\ c = NoCall \/ c = Arriving("automatic", call[x].by, call[x].decision, 1)
                   /\ call' = [call EXCEPT ![x] = c] /\ UNCHANGED answers
        BY <1>1, <2>1, FirstNodeSucceeds DEF After
    <2>3. Shape(c) /\ c.pc # "running"
        BY <1>1, <2>2, NextCallShape
    <2>4. Knows(c)
        BY <1>1, <1>2, <2>2, NoCallShape DEF Knows, Arriving, Inv, RowsOK
    <2>5. AnswersOK'
        BY <1>1, <2>2, RowsUnchanged, AnswersStay DEF Inv
    <2> QED
        BY <1>1, <2>2, <2>3, <2>4, <2>5, QuietMove
<1>3. CASE ~ (rows > 0)
    <2>1. PICK c : c = [call[x] EXCEPT !.pc = "insert"]
        OBVIOUS
    <2>2. call' = [call EXCEPT ![x] = c] /\ UNCHANGED answers
        BY <1>3, <2>1 DEF CreateRead
    <2>3. /\ c \in CallRecord /\ c.pc = "insert" /\ c.node = "create" /\ c.by = call[x].by
          /\ c.decision = call[x].decision /\ c.todo = call[x].todo /\ c.out = call[x].out
        BY <1>1, <2>1 DEF CallRecord
    <2>4. Shape(c) /\ Knows(c) /\ c.pc # "running"
        BY <1>1, <2>3 DEF Shape, Knows
    <2>5. AnswersOK'
        BY <1>1, <2>2, RowsUnchanged, AnswersStay DEF Inv
    <2> QED
        BY <1>1, <2>2, <2>4, <2>5, QuietMove
<1> QED BY <1>2, <1>3

LEMMA CreateInsertKeeps == ASSUME Inv, NEW x \in Calls, CreateInsert(x) PROVE Inv' /\ RowStep
<1>1. /\ call[x] \in CallRecord /\ Shape(call[x]) /\ Knows(call[x])
      /\ call[x].node = "create" /\ call[x].pc = "insert" /\ call[x].decision = "none"
      /\ UNCHANGED <<mode, runs, restarts>> /\ Succeeds(x, action')
    BY DEF CreateInsert, Inv, CallsOK, Shape, Knows
<1>2. PICK c : /\ c = NoCall \/ c = Arriving("automatic", call[x].by, call[x].decision, 1)
               /\ call' = [call EXCEPT ![x] = c] /\ UNCHANGED answers
    BY <1>1, FirstNodeSucceeds DEF After
<1>3. Shape(c) /\ c.pc # "running"
    BY <1>1, <1>2, NextCallShape
<1>4. rows' = 1 => Knows(c)'
    BY <1>1, <1>2, NoCallShape DEF Knows, Arriving
<1>5. CASE Unique
    <2>1. PICK born \in [Action -> InitialAutomatic \union InitialContainment] :
              /\ \A a \in Action : born[a] \in IF a \in Evidence THEN InitialAutomatic ELSE InitialContainment
              /\ rows' = rows + 1 /\ action' = born /\ ruling' = ruling
        BY <1>5 DEF CreateInsert
    <2>2. rows = 0 /\ rows' = 1 /\ ruling.decision = "none" /\ (\A a \in Action : action[a] = "absent")
        BY <1>5, <2>1 DEF Unique, Inv, RowsOK
    <2>3. RowsOK'
        BY <1>1, <2>1, <2>2 DEF Inv, RowsOK, ActionStatus, InitialAutomatic, InitialContainment
    <2>4. RowStep
        BY <1>1, <2>1, <2>2, <2>3 DEF RowStep, Lifecycle!MayFollow, Lifecycle!Born,
           Lifecycle!InitialAutomatic, Lifecycle!InitialContainment, InitialAutomatic, InitialContainment
    <2>5. \A y \in Calls : call[y].pc # "running"
        BY <2>2 DEF Inv, CallsOK, Shape, Knows
    <2> QED
        BY <1>1, <1>2, <1>3, <1>4, <2>2, <2>4, <2>5, FirstNodeMoves
<1>6. CASE ~ Unique
    <2>1. UNCHANGED rowVars /\ rows = 1
        BY <1>6 DEF CreateInsert, Unique, Inv, RowsOK
    <2>2. AnswersOK'
        BY <1>1, <1>2, <2>1, RowsUnchanged, AnswersStay DEF Inv
    <2>3. Knows(c)
        BY <1>1, <1>2, <2>1, NoCallShape DEF Knows, Arriving
    <2>4. RowStep
        BY <1>1, <2>1, RowsUnchanged DEF Inv
    <2> QED
        BY <1>1, <1>2, <1>3, <2>1, <2>2, <2>3, <2>4, QuietMove
<1> QED BY <1>5, <1>6

LEMMA DecideKeeps == ASSUME Inv, NEW x \in Calls, Decide(x) PROVE Inv' /\ RowStep
<1>1. /\ call[x] \in CallRecord /\ Shape(call[x]) /\ Knows(call[x])
      /\ call[x].node = "decide" /\ call[x].pc = "arrived" /\ rows = 1
      /\ call[x].decision \in Decision /\ call[x].by \in Analyst \union {Validator}
      /\ UNCHANGED <<mode, runs, restarts>>
    BY DEF Decide, Arrived, Inv, CallsOK, Knows
<1>2. \A y \in Calls : call[y].pc # "running"
    BY DEF Decide, IncidentFree
<1>3. ASSUME NEW statuses, Succeeds(x, statuses), ruling'.decision = call[x].decision,
             ruling'.analyst = call[x].by, rows' = 1
      PROVE  /\ UNCHANGED answers
             /\ \E c : /\ call' = [call EXCEPT ![x] = c]
                       /\ Shape(c) /\ c.pc # "running" /\ Knows(c)'
    <2>1. PICK c : /\ c = NoCall \/ c = Arriving("approved", call[x].by, call[x].decision, 1)
                   /\ call' = [call EXCEPT ![x] = c] /\ UNCHANGED answers
        BY <1>1, <1>3, FirstNodeSucceeds DEF After
    <2>2. Shape(c) /\ c.pc # "running"
        BY <1>1, <2>1, NextCallShape
    <2>3. Knows(c)'
        BY <1>1, <1>3, <2>1, NoCallShape DEF Knows, Arriving
    <2> QED BY <2>1, <2>2, <2>3
<1>4. CASE ruling.decision = "none" /\ Awaiting # {}
    <2>1. /\ ruling' = [decision |-> call[x].decision, analyst |-> call[x].by]
          /\ action' = [a \in Action |-> IF a \notin Awaiting THEN action[a]
                                        ELSE IF call[x].decision = "approve" THEN "approved" ELSE "skipped"]
          /\ rows' = rows /\ Succeeds(x, action')
        BY <1>4 DEF Decide
    <2>2. RowsOK'
        BY <1>1, <1>4, <2>1 DEF Inv, RowsOK, Awaiting, ActionStatus, Decision
    <2>3. RowStep
        <3>1. call[x].decision \in {"approve", "reject"} /\ ruling'.decision = call[x].decision
            BY <1>1, <2>1 DEF Decision
        <3>2. \A a \in Action : \/ action'[a] = action[a]
                              \/ Lifecycle!MayFollow(a, action[a], action'[a], ruling'.decision)
            BY <2>1, <3>1 DEF Awaiting, Lifecycle!MayFollow
        <3> QED
            BY <1>1, <1>4, <2>1, <2>2, <3>1, <3>2 DEF RowStep, Decision
    <2>4. /\ UNCHANGED answers
          /\ \E c : call' = [call EXCEPT ![x] = c] /\ Shape(c) /\ c.pc # "running" /\ Knows(c)'
        BY <1>1, <1>3, <2>1
    <2> QED
        BY <1>1, <1>2, <2>3, <2>4, FirstNodeMoves
<1>5. CASE ~ (ruling.decision = "none" /\ Awaiting # {}) /\ Repeats(x)
    <2>1. UNCHANGED rowVars /\ Succeeds(x, action)
        BY <1>5 DEF Decide
    <2>2. rows' = 1 /\ ruling'.decision = call[x].decision /\ ruling'.analyst = call[x].by
        BY <1>1, <1>5, <2>1 DEF Repeats, rowVars
    <2>3. /\ UNCHANGED answers
          /\ \E c : call' = [call EXCEPT ![x] = c] /\ Shape(c) /\ c.pc # "running" /\ Knows(c)'
        BY <1>3, <2>1, <2>2
    <2>4. RowStep
        BY <1>1, <2>1, RowsUnchanged DEF Inv
    <2> QED
        BY <1>1, <1>2, <2>3, <2>4, FirstNodeMoves
<1>6. CASE ~ (ruling.decision = "none" /\ Awaiting # {}) /\ ~ Repeats(x)
    <2>1. UNCHANGED rowVars /\ call' = [call EXCEPT ![x] = FailedTry(x)] /\ UNCHANGED answers
        BY <1>6 DEF Decide, Refuses
    <2>2. RowStep
        BY <1>1, <2>1, RowsUnchanged DEF Inv
    <2> QED
        BY <1>1, <2>1, <2>2, FailsKeeps
<1> QED BY <1>4, <1>5, <1>6

LEMMA DispatchBeginKeeps == ASSUME Inv, NEW x \in Calls, DispatchBegin(x) PROVE Inv'
<1>1. /\ call[x] \in CallRecord /\ Shape(call[x]) /\ Knows(call[x])
      /\ call[x].node \in {"automatic", "approved"} /\ call[x].pc = "arrived"
      /\ UNCHANGED <<rowVars, mode, answers, runs, restarts>>
      /\ \A y \in Calls : call[y].pc # "running"
    BY DEF DispatchBegin, IncidentFree, Arrived, Inv, CallsOK
<1>2. PICK c : c = [call[x] EXCEPT !.pc = "running", !.todo = Candidates(call[x].node)]
    OBVIOUS
<1>3. call' = [call EXCEPT ![x] = c]
    BY <1>1, <1>2 DEF DispatchBegin, Inv, CallsOK, CallRecord
<1>4. Candidates(call[x].node) \subseteq Action
    BY DEF Candidates, Action
<1>5. /\ c \in CallRecord /\ c.pc = "running" /\ c.node = call[x].node /\ c.by = call[x].by
      /\ c.decision = call[x].decision /\ c.todo = Candidates(call[x].node) /\ c.out = NoOutcome
    BY <1>1, <1>2, <1>4 DEF CallRecord, Shape
<1>6. Shape(c)
    BY <1>1, <1>5 DEF Shape
<1>7. RowStep
    BY <1>1, RowsUnchanged DEF Inv
<1>8. Knows(c)' /\ Progress(c)'
    BY <1>1, <1>5, NothingOut DEF Knows, Progress, Candidates, rowVars
<1>9. CallsOK'
    BY <1>1, <1>3, <1>6, <1>7, <1>8, CallMoves DEF Inv
<1>10. \A a \in Action, y \in Calls : call[y].out[a] = "none"
    BY <1>1, NothingOut DEF Inv, CallsOK, Shape
<1>11. AnswersOK' /\ RunsOK'
    BY <1>1, <1>7, <1>10, AnswersStay, RunsStay DEF Inv
<1> QED
    BY <1>7, <1>9, <1>11 DEF Inv, RowStep

\* What a dispatch has still to do has not been run since the last restart.
LEMMA TodoHasNotRun ==
    ASSUME Inv, NEW x \in Calls, NEW a \in Action, a \in call[x].todo
    PROVE  ~ Ran(a) /\ call[x].pc = "running" /\ a \in Candidates(call[x].node)
<1>1. call[x].pc = "running" /\ a \in Candidates(call[x].node) /\ call[x].out[a] = "none"
    BY DEF Inv, CallsOK, Shape, Progress
<1>2. \A y \in Calls \ {x} : call[y].out[a] = "none"
    BY <1>1, NothingOut DEF Inv, CallsOK, Shape
<1>3. action[a] \in {"pending", "approved"}
    BY <1>1 DEF Candidates
<1> QED
    BY <1>1, <1>2, <1>3 DEF Ran

LEMMA ExecuteKeeps == ASSUME Inv, NEW x \in Calls, NEW a \in Action, Execute(x, a) PROVE Inv'
<1>1. /\ ~ Ran(a) /\ call[x].pc = "running" /\ a \in Candidates(call[x].node) /\ a \in call[x].todo
      /\ UNCHANGED <<rowVars, mode, answers, restarts>> /\ runs' = [runs EXCEPT ![a] = @ + 1]
    BY TodoHasNotRun DEF Execute
<1>2. call[x] \in CallRecord /\ Shape(call[x]) /\ Knows(call[x]) /\ Progress(call[x])
    BY DEF Inv, CallsOK
<1>3. PICK st \in Outcomes(a) : call' = [call EXCEPT ![x].out[a] = st, ![x].todo = @ \ {a}]
    BY DEF Execute
<1>4. st \in ActionStatus /\ st # "none"
    BY <1>3 DEF Outcomes, ActionStatus
<1>5. PICK out : out = [call[x].out EXCEPT ![a] = st]
    OBVIOUS
<1>6. PICK c : c = [call[x] EXCEPT !.out = out, !.todo = call[x].todo \ {a}]
    OBVIOUS
<1>7. call' = [call EXCEPT ![x] = c]
    BY <1>2, <1>3, <1>5, <1>6 DEF Inv, CallsOK, CallRecord
<1>8. /\ out \in [Action -> ActionStatus \union {"none"}] /\ out[a] = st
      /\ \A b \in Action \ {a} : out[b] = call[x].out[b]
    BY <1>2, <1>4, <1>5 DEF CallRecord
<1>9. /\ c \in CallRecord /\ c.pc = "running" /\ c.node = call[x].node /\ c.by = call[x].by
      /\ c.decision = call[x].decision /\ c.todo = call[x].todo \ {a} /\ c.out = out
    BY <1>1, <1>2, <1>6, <1>8 DEF CallRecord
<1>10. Shape(c) /\ Knows(c)
    BY <1>1, <1>2, <1>9 DEF Shape, Knows
<1>11. Progress(c)
    BY <1>1, <1>2, <1>3, <1>8, <1>9 DEF Progress
<1>12. RowStep
    BY <1>1, RowsUnchanged DEF Inv
<1>13. Knows(c)' /\ Progress(c)'
    BY <1>1, <1>10, <1>11 DEF Knows, Progress, Candidates, Outcomes, rowVars
<1>14. \A y \in Calls \ {x} : call[y].pc # "running"
    BY <1>1 DEF Inv, CallsOK
<1>15. CallsOK'
    BY <1>7, <1>10, <1>12, <1>13, <1>14, CallMoves DEF Inv
<1>16. call'[x] = c /\ (\A y \in Calls \ {x} : call'[y] = call[y])
    BY <1>7 DEF Inv, CallsOK
<1>17. Ran(a)' /\ (\A b \in Action \ {a} : Ran(b) => Ran(b)')
    <2>1. Ran(a)'
        BY <1>4, <1>8, <1>9, <1>16 DEF Ran
    <2>2. ASSUME NEW b \in Action \ {a}, Ran(b) PROVE Ran(b)'
        <3>1. \A y \in Calls : call'[y].out[b] = call[y].out[b]
            BY <1>8, <1>9, <1>16
        <3> QED BY <1>1, <2>2, <3>1 DEF Ran, rowVars
    <2> QED BY <2>1, <2>2
<1>18. RunsOK'
    <2>1. restarts \in Nat /\ runs[a] \in Nat /\ runs[a] <= restarts
        BY <1>1, WorkflowsAssumption DEF Inv, RunsOK
    <2>2. runs' \in [Action -> Nat] /\ runs'[a] = runs[a] + 1 /\ (\A b \in Action \ {a} : runs'[b] = runs[b])
        BY <1>1, <2>1 DEF Inv, RunsOK
    <2> QED
        BY <1>1, <1>17, <2>1, <2>2 DEF Inv, RunsOK
<1>19. AnswersOK'
    BY <1>1, <1>12, AnswersStay DEF Inv
<1> QED
    BY <1>12, <1>15, <1>18, <1>19 DEF Inv, RowStep

LEMMA DispatchEndKeeps == ASSUME Inv, NEW x \in Calls, DispatchEnd(x) PROVE Inv' /\ RowStep
<1> DEFINE n == call[x].node
           todo == Candidates(n)
<1>1. /\ call[x] \in CallRecord /\ Shape(call[x]) /\ Knows(call[x]) /\ Progress(call[x])
      /\ n \in {"automatic", "approved"} /\ call[x].pc = "running" /\ call[x].todo = {} /\ rows = 1
      /\ UNCHANGED <<rows, ruling, mode, runs, restarts>> /\ Succeeds(x, action')
    BY DEF DispatchEnd, Inv, CallsOK, Shape, Knows
<1>2. \A a \in Action : IF a \in todo THEN call[x].out[a] \in Outcomes(a) ELSE call[x].out[a] = "none"
    BY <1>1 DEF Progress
<1>3. /\ action' \in [Action -> ActionStatus \union {"absent"}]
      /\ \A a \in Action : IF a \in todo THEN action'[a] \in Outcomes(a) ELSE action'[a] = action[a]
    BY <1>2 DEF DispatchEnd, Outcomes, ActionStatus, Inv, RowsOK
<1>4. \A a \in todo : a \in Action /\ \/ a \in Evidence /\ n = "automatic" /\ action[a] = "pending"
                                      \/ a \in Containment /\ n = "approved" /\ action[a] = "approved"
    BY <1>1 DEF Candidates, Action
<1>5. \A a \in todo : action'[a] \in {"completed", "failed", "applied", "simulated"}
    BY <1>3, <1>4 DEF Outcomes
<1>6. RowsOK'
    BY <1>1, <1>3, <1>5 DEF Inv, RowsOK
<1>7. RowStep
    <2>1. ASSUME NEW a \in Action PROVE action'[a] = action[a] \/ Lifecycle!MayFollow(a, action[a], action'[a], ruling'.decision)
        <3>1. CASE a \in todo
            BY <1>3, <1>4, <3>1, WorkflowsAssumption DEF Outcomes, Lifecycle!MayFollow
        <3> QED BY <1>3, <3>1
    <2> QED
        BY <1>1, <1>6, <2>1 DEF RowStep
<1>8. call' = [call EXCEPT ![x] = NoCall]
    BY <1>1, LastNodeSucceeds
<1>9. CallsOK'
    <2>1. Knows(NoCall)' /\ Progress(NoCall)'
        BY NoCallShape DEF Knows, Progress, NoCall
    <2>2. \A y \in Calls \ {x} : call[y].pc # "running"
        BY <1>1 DEF Inv, CallsOK
    <2> QED
        BY <1>7, <1>8, <2>1, <2>2, NoCallShape, CallMoves DEF Inv
<1>10. ASSUME NEW a \in Action, NEW y \in Calls, call[y].out[a] # "none" PROVE Ran(a)'
    <2>1. y = x
        BY <1>1, <1>10, NothingOut DEF Inv, CallsOK, Shape
    <2> QED
        BY <1>2, <1>5, <1>10, <2>1 DEF Ran
<1>11. RunsOK'
    BY <1>1, <1>7, <1>10, RunsStay DEF Inv
<1>12. AnswersOK'
    <2>1. Evidence \subseteq Action /\ Containment \subseteq Action /\ Evidence \intersect Containment = {}
        BY WorkflowsAssumption DEF Action
    <2>2. /\ acknowledged' \in {acknowledged, acknowledged \/ n = "automatic"}
          /\ \/ accepted' = accepted
             \/ call[x].decision # "none" /\ accepted' = accepted \union {<<call[x].by, call[x].decision>>}
          /\ validation' \in {validation, Validated(n, action')}
        BY <1>1, LastNodeSucceeds
    <2>3. AcknowledgedIsTriaged' /\ acknowledged' \in BOOLEAN
        <3>1. n = "automatic" => \A a \in Evidence : action'[a] # "pending"
            BY <1>3, <1>5, <2>1 DEF Candidates
        <3>2. acknowledged => \A a \in Evidence : action'[a] # "pending"
            BY <1>1, <1>7, <2>1, RowsAdvance DEF Inv, AnswersOK, AcknowledgedIsTriaged
        <3> QED
            BY <1>1, <2>2, <3>1, <3>2 DEF Inv, AnswersOK, AcknowledgedIsTriaged
    <2>4. AcceptedIsCarriedOut' /\ accepted' \subseteq (Analyst \union {Validator}) \X Decision
        <3>1. CASE accepted' = accepted
            <4>1. ASSUME NEW p \in accepted PROVE ruling.decision # "none"
                BY DEF Inv, AnswersOK, AcceptedIsCarriedOut, Decision
            <4> QED
                BY <1>1, <1>7, <2>1, <3>1, <4>1, RowsAdvance DEF Inv, AnswersOK, AcceptedIsCarriedOut, RowStep, RowsOK
        <3>2. CASE call[x].decision # "none" /\ accepted' = accepted \union {<<call[x].by, call[x].decision>>}
            <4>1. /\ n = "approved" /\ call[x].decision = ruling.decision /\ call[x].by = ruling.analyst
                  /\ call[x].decision \in Decision /\ call[x].by \in Analyst \union {Validator}
                BY <1>1, <3>2 DEF Knows
            <4>2. \A a \in Containment : action'[a] \notin {"pending_approval", "approved"}
                BY <1>1, <1>3, <1>5, <2>1, <3>2, <4>1 DEF Candidates, Inv, RowsOK
            <4> QED
                BY <1>1, <3>2, <4>1, <4>2 DEF Inv, AnswersOK, AcceptedIsCarriedOut
        <3> QED BY <2>2, <3>1, <3>2
    <2>5. ValidationOK'
        <3>1. CASE validation' = validation
            BY <1>7, <2>1, <3>1, RowsAdvance DEF Inv, AnswersOK, ValidationOK, ValidatedIsRestored, RowStep, RowsOK, Mode
        <3>2. CASE n = "automatic" /\ validation = "intake" /\ validation' = Validated(n, action')
            BY <1>1, <3>2 DEF Validated, ValidationOK, ValidatedIsRestored
        <3>3. CASE n = "approved" /\ validation = "decision" /\ validation' = Validated(n, action')
            <4>1. \A a \in Evidence : action'[a] = "completed"
                BY <1>7, <2>1, <3>3, RowsAdvance DEF Inv, AnswersOK, ValidationOK
            <4>2. validation' = IF Restored(action') THEN "pass"
                                ELSE IF mode = "live" /\ \A a \in Containment : action'[a] = "applied" THEN "restore"
                                ELSE "fail"
                BY <3>3 DEF Validated
            <4> QED
                BY <1>1, <4>1, <4>2 DEF Restored, ValidationOK, ValidatedIsRestored
        <3>4. CASE ~ (n = "automatic" /\ validation = "intake") /\ ~ (n = "approved" /\ validation = "decision")
            BY <1>1, <2>2, <3>1, <3>4 DEF Validated
        <3> QED BY <2>2, <3>1, <3>2, <3>3, <3>4
    <2> QED
        BY <2>3, <2>4, <2>5 DEF AnswersOK
<1> QED
    BY <1>7, <1>9, <1>11, <1>12 DEF Inv, RowStep

LEMMA RollbackKeeps == ASSUME Inv, NEW x \in Calls, Rollback(x) PROVE Inv' /\ RowStep
<1>1. /\ Shape(call[x]) /\ Knows(call[x]) /\ call[x].node = "rollback" /\ call[x].pc = "arrived" /\ rows = 1
      /\ call[x].decision = "none" /\ UNCHANGED <<rows, ruling, mode, runs, restarts>>
    BY DEF Rollback, Arrived, Inv, CallsOK, Knows
<1>2. CASE UNCHANGED action /\ Refuses(x)
    <2>1. UNCHANGED rowVars
        BY <1>1, <1>2 DEF rowVars
    <2>2. RowStep
        BY <1>1, <2>1, RowsUnchanged DEF Inv
    <2> QED
        BY <1>1, <1>2, <2>1, <2>2, FailsKeeps DEF Refuses
<1>3. CASE (\A a \in Containment : action[a] \in {"applied", "rolled_back"}) /\ action' = Reverted /\ Succeeds(x, action')
    <2>1. Evidence \subseteq Action /\ Containment \subseteq Action /\ Evidence \intersect Containment = {}
        BY WorkflowsAssumption DEF Action
    <2>2. /\ action' \in [Action -> ActionStatus \union {"absent"}]
          /\ \A a \in Action : action'[a] = IF a \in Containment THEN "rolled_back" ELSE action[a]
        BY <1>3 DEF Reverted, ActionStatus, Inv, RowsOK
    <2>3. RowsOK'
        BY <1>1, <2>2 DEF Inv, RowsOK
    <2>4. RowStep
        <3>1. ASSUME NEW a \in Action PROVE action'[a] = action[a] \/ Lifecycle!MayFollow(a, action[a], action'[a], ruling'.decision)
            BY <1>3, <2>2 DEF Lifecycle!MayFollow
        <3> QED
            BY <1>1, <2>3, <3>1 DEF RowStep
    <2>5. call' = [call EXCEPT ![x] = NoCall]
        BY <1>1, <1>3, LastNodeSucceeds
    <2>6. Candidates("automatic")' = Candidates("automatic") /\ Candidates("approved")' = Candidates("approved")
        <3>1. \A a \in Evidence : action'[a] = action[a]
            BY <2>1, <2>2
        <3>2. \A a \in Containment : action[a] # "approved" /\ action'[a] # "approved"
            BY <1>3, <2>1, <2>2
        <3> QED BY <3>1, <3>2 DEF Candidates
    <2>7. CallsOK'
        <3>1. Knows(NoCall)' /\ Progress(NoCall)'
            BY NoCallShape DEF Knows, Progress, NoCall
        <3> QED
            BY <2>4, <2>5, <2>6, <3>1, NoCallShape, CallMoves DEF Inv
    <2>8. ASSUME NEW a \in Action, NEW y \in Calls, call[y].out[a] # "none" PROVE Ran(a)'
        <3>1. y # x
            BY <1>1, <2>8, NothingOut DEF Shape
        <3>2. call'[y] = call[y]
            BY <2>5, <3>1 DEF Inv, CallsOK
        <3> QED BY <2>8, <3>2 DEF Ran
    <2>9. RunsOK'
        BY <1>1, <2>4, <2>8, RunsStay DEF Inv
    <2>10. /\ acknowledged' = acknowledged /\ accepted' = accepted
           /\ validation' \in {validation, Validated("rollback", action')}
        BY <1>1, <1>3, LastNodeSucceeds DEF Inv, AnswersOK
    <2>11. AcknowledgedIsTriaged'
        BY <1>1, <2>1, <2>2, <2>10 DEF Inv, AnswersOK, AcknowledgedIsTriaged
    <2>12. AcceptedIsCarriedOut'
        BY <1>1, <2>1, <2>2, <2>10 DEF Inv, AnswersOK, AcceptedIsCarriedOut
    <2>13. ValidationOK'
        <3>1. CASE validation' = validation
            BY <2>1, <2>4, <3>1, RowsAdvance DEF Inv, AnswersOK, ValidationOK, ValidatedIsRestored, RowStep, RowsOK, Mode
        <3>2. CASE validation = "rollback" /\ validation' = "pass"
            <4>1. mode' = "live" /\ rows' = 1 /\ (\A a \in Evidence : action[a] = "completed")
                BY <1>1, <3>2 DEF Inv, AnswersOK, ValidationOK
            <4> QED
                BY <2>1, <2>2, <3>2, <4>1 DEF ValidationOK, ValidatedIsRestored
        <3> QED BY <2>10, <3>1, <3>2 DEF Validated
    <2> QED
        BY <2>4, <2>7, <2>9, <2>10, <2>11, <2>12, <2>13 DEF Inv, RowStep, AnswersOK
<1> QED
    BY <1>2, <1>3 DEF Rollback

(***************************************************************************)
(* The theorems                                                            *)
(***************************************************************************)

LEMMA InitInv == Init => Inv
<1>1. SUFFICES ASSUME Init PROVE Inv
    OBVIOUS
<1>2. CallsOK
    BY <1>1, NoCallShape DEF Init, CallsOK, Shape, Knows, Progress
<1>3. RowsOK
    BY <1>1 DEF Init, RowsOK
<1>4. AnswersOK
    <2>1. acknowledged \in BOOLEAN
        BY <1>1, Zenon DEF Init
    <2> QED
        BY <1>1, <2>1 DEF Init, AnswersOK, AcknowledgedIsTriaged, AcceptedIsCarriedOut, ValidationOK, ValidatedIsRestored
<1>5. RunsOK
    BY <1>1, WorkflowsAssumption DEF Init, RunsOK
<1> QED
    BY <1>2, <1>3, <1>4, <1>5 DEF Inv

LEMMA StepInv == Inv /\ [Next]_vars => Inv'
<1>1. SUFFICES ASSUME Inv, [Next]_vars PROVE Inv'
    OBVIOUS
<1>2. ASSUME NEW x \in Calls, Serve(x) PROVE Inv'
    BY <1>1, <1>2, CreateReadKeeps, CreateInsertKeeps, DecideKeeps, DispatchBeginKeeps, ExecuteKeeps,
       DispatchEndKeeps, RollbackKeeps DEF Serve
<1>3. CASE UNCHANGED vars
    BY <1>1, <1>3 DEF vars, rowVars, answers, Inv, CallsOK, Knows, Progress, Candidates, Outcomes, RowsOK,
       AnswersOK, AcknowledgedIsTriaged, AcceptedIsCarriedOut, ValidationOK, ValidatedIsRestored, RunsOK, Ran
<1> QED
    BY <1>1, <1>2, <1>3, PostAlertKeeps, PostDecisionKeeps, ValidateKeeps, ValidateFailsKeeps, TryFailsKeeps,
       RestartKeeps DEF Next

LEMMA StepRows == Inv /\ [Next]_vars => RowStep
<1>1. SUFFICES ASSUME Inv, [Next]_vars PROVE RowStep
    OBVIOUS
<1>2. CASE UNCHANGED <<rowVars, mode>>
    BY <1>1, <1>2, RowsUnchanged DEF Inv
<1>3. ASSUME NEW x \in Calls, Serve(x), ~ UNCHANGED <<rowVars, mode>> PROVE RowStep
    BY <1>1, <1>3, CreateInsertKeeps, DecideKeeps, DispatchEndKeeps, RollbackKeeps
       DEF Serve, CreateRead, DispatchBegin, Execute
<1> QED
    BY <1>1, <1>2, <1>3 DEF Next, vars, PostAlert, PostDecision, Validate, ValidateFails, TryFails, Restart

LEMMA InvHolds == Spec => []Inv
BY InitInv, StepInv, PTL DEF Spec

LEMMA InvIsTyped == Inv => TypeOK
BY DEF Inv, CallsOK, RowsOK, AnswersOK, ValidationOK, RunsOK, CallRecord, TypeOK

\* Every variable keeps its type.
THEOREM WorkflowTypes == Spec => []TypeOK
BY InvHolds, InvIsTyped, PTL

\* However often an alert is delivered and its node repeated, it has one incident.
THEOREM OneIncident == Spec => []OneIncidentPerAlert
<1>1. Inv => OneIncidentPerAlert
    BY DEF Inv, RowsOK, OneIncidentPerAlert
<1> QED
    BY <1>1, InvHolds, PTL

\* Repeated and overlapping dispatches run no adapter twice, except for what a
\* restart of the controller kept out of its rows.
THEOREM AdaptersRunOnce == Spec => []ExecutedOnce
<1>1. Inv => ExecutedOnce
    BY WorkflowsAssumption DEF Inv, RunsOK, ExecutedOnce
<1> QED
    BY <1>1, InvHolds, PTL

\* A 202 for an alert means what it says, however many calls were abandoned on the
\* way: the evidence of its incident is collected or the failure is on record.
THEOREM AcknowledgementsAreTrue == Spec => []AcknowledgedIsTriaged
<1>1. Inv => AcknowledgedIsTriaged
    BY DEF Inv, AnswersOK
<1> QED
    BY <1>1, InvHolds, PTL

\* A 200 for a decision means what it says: its analyst is the incident's, and
\* nothing of the decision is left to do.
THEOREM AcceptancesAreTrue == Spec => []AcceptedIsCarriedOut
<1>1. Inv => AcceptedIsCarriedOut
    BY DEF Inv, AnswersOK
<1> QED
    BY <1>1, InvHolds, PTL

\* A validation that passes leaves no containment in force.
THEOREM ValidationsRestore == Spec => []ValidatedIsRestored
<1>1. Inv => ValidatedIsRestored
    BY DEF Inv, AnswersOK, ValidationOK
<1> QED
    BY <1>1, InvHolds, PTL

\* Under all these deliveries an action lives as ActionLifecycle says: no status
\* is skipped or taken back, and only the one decision moves a containment.
THEOREM LifecycleIsImplemented == Spec => ImplementsLifecycle
<1>1. Init => Lifecycle!LifecycleInit
    BY DEF Init, Lifecycle!LifecycleInit
<1>2. Inv /\ [Next]_vars => [Lifecycle!LifecycleNext]_Lifecycle!lifecycleVars
    BY StepRows, RowStepIsLifecycle
<1> QED
    BY <1>1, <1>2, InvHolds, PTL DEF Spec, ImplementsLifecycle, Lifecycle!LifecycleSpec
=============================================================================
