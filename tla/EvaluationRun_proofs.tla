------------------------ MODULE EvaluationRun_proofs ------------------------
(***************************************************************************)
(* What the summary counts, for any number of controls and terminals.      *)
(***************************************************************************)
EXTENDS EvaluationRun, TLAPS

(***************************************************************************)
(* The inductive invariant.  A copy of result.json that says the live      *)
(* verification passed is worth as much in a session as in the file,       *)
(* because what it vouches for is never undone: a control that is rolled   *)
(* back stays so and its row stays revoked.                                *)
(***************************************************************************)

PlatformOK ==
    /\ incident = "absent" => \A a \in Control : action[a] = "absent"
    /\ \A a \in Control : action[a] = "rolled_back" => control[a] = "revoked"

RolledBack == \A a \in Plan : action[a] = "rolled_back"
Observed == Plan \subseteq denied

CopyOK(r) ==
    /\ r.live = "PASS" => Observed /\ RolledBack
    /\ r.status = "PASS_PENDING_DECISION" => requires

\* What a decide command knows of its controls, by the phase it has reached.
PhaseOK(s) ==
    /\ s.pc # "idle" => s.copy.status # "absent"
    /\ s.pc \in {"active", "cleanup", "refetch", "after"} => s.live
    /\ s.pc = "active" /\ ~s.unverified => Plan \ s.todo \subseteq denied
    /\ s.pc \in {"cleanup", "refetch", "after", "finish", "write"} /\ s.live /\ ~s.unverified => Observed
    /\ s.pc \in {"after", "finish", "write"} /\ s.live /\ ~s.unverified => RolledBack

Resting == \A w \in Terminal : sess[w].pc = "idle"

\* Until it is recorded the run has one command and no incident.
RunOK ==
    /\ \A w \in Terminal : sess[w].pc = "stimulus" =>
          /\ ~result.incident /\ ~sess[w].copy.incident
          /\ \A v \in Terminal \ {w} : sess[v].pc = "idle"
    /\ result.status = "absent" => Resting /\ ~result.incident
    /\ stimulus = "excess" => Resting /\ ~result.incident /\ result.status = "FAIL"

IInv ==
    /\ TypeOK
    /\ PlatformOK
    /\ CopyOK(result)
    /\ \A w \in Terminal : CopyOK(sess[w].copy) /\ PhaseOK(sess[w])
    /\ RunOK

-----------------------------------------------------------------------------
(* The platform only moves forward. *)

Forward ==
    /\ Plan' \subseteq Plan
    /\ \A a \in Control : action[a] = "rolled_back" => action'[a] = "rolled_back"
    /\ denied \subseteq denied'
    /\ requires' = requires

PlatformTypeOK ==
    /\ incident \in {"absent", "collecting", "complete", "wrong"}
    /\ action \in [Control -> ActionStatus \union {"absent"}]
    /\ decision \in Decision \union {"none"}
    /\ Store!StoreTypeOK
    /\ mode \in Mode

LEMMA Kept ==
    ASSUME Forward, NEW r, CopyOK(r) PROVE CopyOK(r)'
BY DEF Forward, CopyOK, Observed, RolledBack, Plan

LEMMA PhaseKept ==
    ASSUME Forward, NEW s, PhaseOK(s) PROVE PhaseOK(s)'
BY DEF Forward, PhaseOK, Observed, RolledBack, Plan

LEMMA UnchangedForward ==
    ASSUME UNCHANGED platform, denied \subseteq denied', requires' = requires
    PROVE  Forward
BY DEF Forward, platform, Plan

LEMMA UnchangedPlatformOK ==
    ASSUME PlatformTypeOK, PlatformOK, UNCHANGED platform
    PROVE  (PlatformTypeOK /\ PlatformOK)'
BY DEF PlatformTypeOK, PlatformOK, platform, Store!StoreTypeOK

LEMMA PlatformForward ==
    ASSUME PlatformTypeOK, PlatformOK, Platform
    PROVE  Forward /\ (PlatformTypeOK /\ PlatformOK)'
<1>0. denied' = denied /\ requires' = requires
  BY DEF Platform
<1>1. CASE Triage
  <2>1. \A a \in Control : action[a] = "absent"
    BY <1>1 DEF Triage, PlatformOK
  <2>2. \A a \in Control : action'[a] \in InitialContainment
    BY <1>1 DEF Triage
  <2>3. Forward
    BY <1>0, <2>1 DEF Forward, Plan
  <2>4. PlatformTypeOK'
    BY <1>1 DEF Triage, PlatformTypeOK, Store!StoreTypeOK, ActionStatus
  <2>5. PlatformOK'
    BY <1>1, <2>2 DEF Triage, PlatformOK, InitialContainment
  <2> QED
    BY <2>3, <2>4, <2>5
<1>2. CASE Enrich
  BY <1>0, <1>2 DEF Enrich, Forward, Plan, PlatformTypeOK, PlatformOK, Store!StoreTypeOK
<1>3. ASSUME NEW d \in Decision, Decided(d)
      PROVE  Forward /\ (PlatformTypeOK /\ PlatformOK)'
  <2>1. action' \in [Control -> ActionStatus \union {"absent"}]
    BY <1>3 DEF Decided, PlatformTypeOK, ActionStatus
  <2>2. \A a \in Control : action'[a] = action[a] \/ (action[a] = "pending_approval" /\ action'[a] \in {"approved", "skipped"})
    BY <1>3 DEF Decided
  <2>3. Forward
    BY <1>0, <2>2 DEF Forward, Plan
  <2>4. PlatformTypeOK'
    BY <1>3, <2>1 DEF Decided, PlatformTypeOK, Store!StoreTypeOK
  <2>5. PlatformOK'
    BY <1>3, <2>2 DEF Decided, PlatformOK
  <2> QED
    BY <2>3, <2>4, <2>5
<1>4. ASSUME NEW a \in Control, NEW t \in ActionStatus, Progress(a, t)
      PROVE  Forward /\ (PlatformTypeOK /\ PlatformOK)'
  <2>1. action' = [action EXCEPT ![a] = t] /\ action \in [Control -> ActionStatus \union {"absent"}]
    BY <1>4 DEF Progress, PlatformTypeOK
  <2>2. action[a] \in {"pending", "approved", "failed", "applied"} /\ t # "blocked_by_policy"
    BY <1>4 DEF Progress, Lifecycle!MayFollow, InitialContainment
  <2>3. action[a] # "absent" /\ incident # "absent"
    BY <2>2, <1>4 DEF PlatformOK
  <2>4. Forward
    BY <1>0, <2>1, <2>2 DEF Forward, Plan
  <2>5. PlatformTypeOK'
    BY <1>4, <2>1 DEF Progress, PlatformTypeOK, Store!StoreTypeOK
  <2>6. PlatformOK'
    BY <1>4, <2>1, <2>3 DEF Progress, PlatformOK
  <2> QED
    BY <2>4, <2>5, <2>6
<1>5. ASSUME NEW a \in Control, Serve(a)
      PROVE  Forward /\ (PlatformTypeOK /\ PlatformOK)'
  <2>1. Store!StoreTypeOK /\ Store!StoreTypeOK'
    BY <1>5 DEF Serve, PlatformTypeOK, Store!StoreTypeOK, Store!Apply, Store!Revoke, Store!Lapse
  <2>2. \A b \in Control : control[b] = "revoked" => control'[b] = "revoked"
    BY <1>5, <2>1 DEF Serve, Store!StoreTypeOK, Store!Apply, Store!Revoke, Store!Lapse
  <2>3. PlatformTypeOK' /\ PlatformOK'
    BY <1>5, <2>1, <2>2 DEF Serve, PlatformTypeOK, PlatformOK
  <2>4. Forward
    BY <1>0, <1>5 DEF Serve, Forward, Plan
  <2> QED
    BY <2>3, <2>4
<1>6. CASE SwitchMode
  BY <1>0, <1>6 DEF SwitchMode, Forward, Plan, PlatformTypeOK, PlatformOK, Store!StoreTypeOK
<1> QED
  BY <1>1, <1>2, <1>3, <1>4, <1>5, <1>6 DEF Platform

-----------------------------------------------------------------------------
(* A command's step, by what it makes of its session and of the file. *)

LEMMA IdleOK == Idle \in Session /\ CopyOK(Idle.copy) /\ CopyOK(Idle.copy)' /\ PhaseOK(Idle) /\ PhaseOK(Idle)'
BY DEF Idle, Session, Result, Mode, Untriaged, CopyOK, PhaseOK, ActionStatus

\* The part of IInv' that does not depend on how far the run is.
LEMMA Steps ==
    ASSUME IInv, NEW w \in Terminal, NEW s \in Session, NEW file \in Result, Goes(w, s, file),
           Forward, (PlatformTypeOK /\ PlatformOK)',
           stimulus' \in {"none", "sent", "excess"}, denied' \subseteq Control,
           CopyOK(file)', CopyOK(s.copy)', PhaseOK(s)', RunOK'
    PROVE  IInv'
<1>1. sess \in [Terminal -> Session] /\ sess' = [sess EXCEPT ![w] = s] /\ result' = file
  BY DEF IInv, TypeOK, Goes
<1>2. TypeOK'
  BY <1>1 DEF TypeOK, IInv, PlatformTypeOK, Forward, CopyOK
<1>3. CopyOK(result)'
  BY <1>1 DEF CopyOK, Observed, RolledBack, Plan
<1>4. ASSUME NEW v \in Terminal
      PROVE  (CopyOK(sess[v].copy) /\ PhaseOK(sess[v]))'
  <2>1. PICK t : t = IF v = w THEN s ELSE sess[v]
    OBVIOUS
  <2>2. sess'[v] = t
    BY <1>1, <2>1
  <2>3. CASE v = w
    BY <2>1, <2>2, <2>3 DEF CopyOK, PhaseOK, Observed, RolledBack, Plan
  <2>4. CASE v # w
    <3>1. CopyOK(t.copy) /\ PhaseOK(t)
      BY <2>1, <2>4 DEF IInv
    <3>2. CopyOK(t.copy)' /\ PhaseOK(t)'
      BY <3>1, Kept, PhaseKept
    <3> QED
      BY <2>2, <3>2 DEF CopyOK, PhaseOK, Observed, RolledBack, Plan
  <2> QED
    BY <2>3, <2>4
<1> QED
  BY <1>2, <1>3, <1>4 DEF IInv, PlatformTypeOK

\* Once the run is under way or recorded, no step of another command disturbs RunOK.
LEMMA RunKept ==
    ASSUME IInv, NEW w \in Terminal, NEW s, NEW file, Goes(w, s, file),
           sess[w].pc # "stimulus", sess[w].pc # "idle" \/ result.incident,
           s.pc # "stimulus", file.status # "absent", stimulus' = stimulus
    PROVE  RunOK'
<1>1. sess \in [Terminal -> Session] /\ sess' = [sess EXCEPT ![w] = s] /\ result' = file
  BY DEF IInv, TypeOK, Goes
<1>2. ~(stimulus = "excess")
  BY DEF IInv, RunOK, Resting
<1>3. \A v \in Terminal : sess[v].pc # "stimulus"
  BY DEF IInv, RunOK
<1>4. \A v \in Terminal : sess'[v].pc # "stimulus"
  BY <1>1, <1>3
<1> QED
  BY <1>1, <1>2, <1>4 DEF RunOK

\* A step that changes nothing but the session and the file.
LEMMA Quiet ==
    ASSUME IInv, NEW w \in Terminal, NEW s \in Session, NEW file \in Result, Goes(w, s, file),
           UNCHANGED <<platform, stimulus, denied>>, CopyOK(file), CopyOK(s.copy), PhaseOK(s), RunOK'
    PROVE  IInv'
<1>1. PlatformTypeOK /\ PlatformOK /\ denied \subseteq Control /\ stimulus \in {"none", "sent", "excess"}
  BY DEF IInv, TypeOK, PlatformTypeOK
<1>2. Forward /\ (PlatformTypeOK /\ PlatformOK)'
  BY <1>1, UnchangedForward, UnchangedPlatformOK DEF Goes
<1>3. CopyOK(file)' /\ CopyOK(s.copy)' /\ PhaseOK(s)'
  BY <1>2, Kept, PhaseKept
<1> QED
  BY <1>1, <1>2, <1>3, Steps

\* Such a step of a command that is not the run's first.
LEMMA QuietCommand ==
    ASSUME IInv, NEW w \in Terminal, NEW s \in Session, NEW file \in Result, Goes(w, s, file),
           UNCHANGED <<platform, stimulus, denied>>, CopyOK(file), CopyOK(s.copy), PhaseOK(s),
           sess[w].pc # "stimulus", sess[w].pc # "idle" \/ result.incident,
           s.pc # "stimulus", file.status # "absent"
    PROVE  IInv'
BY Quiet, RunKept

\* What the invariant says of the session that takes the step.
LEMMA Known ==
    ASSUME IInv, NEW w \in Terminal
    PROVE  /\ sess[w] \in Session /\ result \in Result /\ requires \in BOOLEAN
           /\ CopyOK(sess[w].copy) /\ CopyOK(result) /\ PhaseOK(sess[w])
           /\ sess[w].pc # "idle" => result.status # "absent"
           /\ result.incident => result.status # "absent"
           /\ action \in [Control -> ActionStatus \union {"absent"}] /\ Plan \subseteq Control
BY DEF IInv, TypeOK, RunOK, Resting, Plan

LEMMA FailedOK ==
    ASSUME NEW r \in Result, CopyOK(r)
    PROVE  /\ Failed(r) \in Result /\ CopyOK(Failed(r)) /\ Failed(r).status = "FAIL"
           /\ Failed(r).incident = r.incident
BY DEF Failed, Result, CopyOK

LEMMA VerdictOK ==
    ASSUME NEW r \in Result, CopyOK(r), NEW final \in BOOLEAN
    PROVE  LET n == [r EXCEPT !.status = Verdict(final)]
           IN  n \in Result /\ CopyOK(n) /\ n.status # "absent" /\ n.live = r.live
BY DEF Verdict, Result, CopyOK

-----------------------------------------------------------------------------
(* decide *)

LEMMA DecideSteps ==
    ASSUME IInv, NEW w \in Terminal, NEW a \in Control, NEW choice \in Decision,
           \/ DecideBegin(w, choice) \/ ProbeBefore(w, a) \/ BeforeFails(w)
           \/ DecisionAnswered(w) \/ DecisionUnanswered(w)
    PROVE  IInv'
<1> USE Known
<1>1. CASE DecideBegin(w, choice)
  <2> DEFINE live == mode = "live" /\ choice = "approve"
             s == [Idle EXCEPT !.pc = IF live THEN "before" ELSE "call", !.copy = result,
                               !.choice = choice, !.live = live, !.todo = IF live THEN Plan ELSE {}]
  <2>1. s \in Session
    BY IdleOK DEF Session
  <2>2. s.pc \in {"before", "call"} /\ s.copy = result
    BY DEF Idle
  <2>3. PhaseOK(s) /\ CopyOK(s.copy)
    BY <2>2, <1>1 DEF PhaseOK, DecideBegin
  <2>4. Goes(w, s, result) /\ result.incident /\ sess[w].pc = "idle" /\ UNCHANGED <<platform, stimulus, denied>>
    BY <1>1 DEF DecideBegin
  <2> QED
    BY <2>1, <2>2, <2>3, <2>4, QuietCommand
<1>2. CASE ProbeBefore(w, a)
  <2> DEFINE s == After(sess[w], a, "call")
  <2>1. s \in Session /\ s.pc \in {"before", "call"} /\ s.copy = sess[w].copy
    BY <1>2 DEF Session, After, ProbeBefore
  <2>2. PhaseOK(s)
    BY <2>1, <1>2 DEF PhaseOK, ProbeBefore
  <2> QED
    BY <2>1, <2>2, <1>2, QuietCommand DEF ProbeBefore
<1>3. CASE BeforeFails(w)
  <2> DEFINE r == [Failed(sess[w].copy) EXCEPT !.live = "FAIL"]
  <2>1. sess[w].copy \in Result
    BY DEF Session
  <2>2. r \in Result /\ CopyOK(r) /\ r.status = "FAIL"
    BY <2>1 DEF Failed, Result, CopyOK
  <2>3. Goes(w, Idle, r) /\ sess[w].pc = "before" /\ UNCHANGED <<platform, stimulus, denied>> /\ Idle.pc = "idle"
    BY <1>3 DEF BeforeFails, Ends, Idle
  <2> QED
    BY <2>2, <2>3, IdleOK, QuietCommand
<1>4. CASE DecisionAnswered(w)
  <2> DEFINE s == [sess[w] EXCEPT !.pc = "fetch"]
  <2>1. s \in Session /\ s.pc = "fetch" /\ s.copy = sess[w].copy
    BY DEF Session
  <2>2. PhaseOK(s)
    BY <2>1, <1>4 DEF PhaseOK, DecisionAnswered
  <2> QED
    BY <2>1, <2>2, <1>4, QuietCommand DEF DecisionAnswered
<1>5. CASE DecisionUnanswered(w)
  <2> DEFINE s == [sess[w] EXCEPT !.pc = "fetch", !.failed = TRUE]
  <2>1. s \in Session /\ s.pc = "fetch" /\ s.copy = sess[w].copy
    BY DEF Session
  <2>2. PhaseOK(s)
    BY <2>1, <1>5 DEF PhaseOK, DecisionUnanswered
  <2> QED
    BY <2>1, <2>2, <1>5, QuietCommand DEF DecisionUnanswered
<1> QED
  BY <1>1, <1>2, <1>3, <1>4, <1>5

LEMMA CleanupOfOK ==
    ASSUME NEW s \in Session
    PROVE  LET c == CleanupOf(s)
           IN  /\ c \in Session /\ c.pc \in {"cleanup", "refetch"}
               /\ c.copy = s.copy /\ c.live = s.live /\ c.unverified = s.unverified
BY DEF Session, CleanupOf

LEMMA FetchedOK ==
    ASSUME IInv, NEW w \in Terminal
    PROVE  LET s == Fetched(sess[w])
           IN  /\ s \in Session /\ s.pc = sess[w].pc /\ s.copy = sess[w].copy
               /\ s.live = sess[w].live /\ s.unverified = sess[w].unverified
BY Known DEF Session, Fetched

\* The three phases: what is established in one is known in the next.
LEMMA PhaseSteps ==
    ASSUME IInv, NEW w \in Terminal, NEW a \in Control,
           \/ Fetch(w) \/ ActiveFails(w) \/ CleanupFails(w, a)
           \/ Refetch(w) \/ ProbeAfter(w, a) \/ AfterFails(w)
    PROVE  IInv'
<1> USE Known
<1>1. CASE Fetch(w)
  <2> DEFINE s == Fetched(sess[w])
             u == [s EXCEPT !.unverified = TRUE]
             t == IF ~s.live THEN [s EXCEPT !.pc = "finish"]
                  ELSE IF WithStatus("applied") = Plan THEN [s EXCEPT !.pc = "active", !.todo = Plan]
                  ELSE CleanupOf(u)
  <2>1. s \in Session /\ s.pc = "fetch" /\ s.copy = sess[w].copy /\ s.live = sess[w].live
    BY <1>1, FetchedOK DEF Fetch
  <2>2. u \in Session /\ u.copy = s.copy /\ u.live = s.live /\ u.unverified
    BY <2>1 DEF Session
  <2>3. CASE ~s.live
    <3>1. t = [s EXCEPT !.pc = "finish"]
      BY <2>3
    <3>2. t \in Session /\ t.pc = "finish" /\ t.copy = s.copy /\ ~t.live
      BY <2>1, <2>3, <3>1 DEF Session
    <3>3. PhaseOK(t)
      BY <1>1, <2>1, <3>2 DEF PhaseOK, Fetch
    <3> QED
      BY <2>1, <3>2, <3>3, <1>1, QuietCommand DEF Fetch
  <2>4. CASE s.live /\ WithStatus("applied") = Plan
    <3>1. t = [s EXCEPT !.pc = "active", !.todo = Plan]
      BY <2>4
    <3>2. t \in Session /\ t.pc = "active" /\ t.copy = s.copy /\ t.live /\ t.todo = Plan
      BY <2>1, <2>4, <3>1 DEF Session
    <3>3. PhaseOK(t)
      BY <1>1, <2>1, <3>2 DEF PhaseOK, Fetch
    <3> QED
      BY <2>1, <3>2, <3>3, <1>1, QuietCommand DEF Fetch
  <2>5. CASE s.live /\ WithStatus("applied") # Plan
    <3>1. t = CleanupOf(u)
      BY <2>5
    <3>2. t \in Session /\ t.pc \in {"cleanup", "refetch"} /\ t.copy = s.copy /\ t.live /\ t.unverified
      BY <2>2, <2>5, <3>1, CleanupOfOK
    <3>3. PhaseOK(t)
      BY <1>1, <2>1, <3>2 DEF PhaseOK, Fetch
    <3> QED
      BY <2>1, <3>2, <3>3, <1>1, QuietCommand DEF Fetch
  <2> QED
    BY <2>3, <2>4, <2>5
<1>2. CASE ActiveFails(w)
  <2> DEFINE u == [sess[w] EXCEPT !.unverified = TRUE]
             t == CleanupOf(u)
  <2>1. u \in Session /\ u.copy = sess[w].copy /\ u.live = sess[w].live /\ u.unverified
    BY DEF Session
  <2>2. t \in Session /\ t.pc \in {"cleanup", "refetch"} /\ t.copy = sess[w].copy
        /\ t.live = sess[w].live /\ t.unverified
    BY <2>1, CleanupOfOK
  <2>3. PhaseOK(t)
    BY <1>2, <2>2 DEF PhaseOK, ActiveFails
  <2>4. Goes(w, t, result) /\ (UNCHANGED <<platform, stimulus, denied>>) /\ sess[w].pc = "active"
    BY <1>2 DEF ActiveFails
  <2>5. t.pc # "stimulus" /\ CopyOK(t.copy)
    BY <2>2
  <2>6. result.status # "absent"
    BY <2>4 DEF IInv, RunOK, Resting
  <2> HIDE DEF t
  <2> QED
    BY <2>2, <2>3, <2>4, <2>5, <2>6, QuietCommand
<1>3. CASE CleanupFails(w, a)
  <2> DEFINE t == After([sess[w] EXCEPT !.unverified = TRUE], a, "refetch")
  <2>1. t \in Session /\ t.pc \in {"cleanup", "refetch"} /\ t.copy = sess[w].copy
        /\ t.live = sess[w].live /\ t.unverified
    BY <1>3 DEF Session, After, CleanupFails
  <2>2. PhaseOK(t)
    BY <1>3, <2>1 DEF PhaseOK, CleanupFails
  <2> QED
    BY <2>1, <2>2, <1>3, QuietCommand DEF CleanupFails
<1>4. CASE Refetch(w)
  <2> DEFINE s == Fetched(sess[w])
             t == IF WithStatus("rolled_back") = Plan THEN [s EXCEPT !.pc = "after", !.todo = Plan]
                  ELSE [s EXCEPT !.pc = "finish", !.unverified = TRUE]
  <2>1. s \in Session /\ s.pc = "refetch" /\ s.copy = sess[w].copy /\ s.live = sess[w].live
        /\ s.unverified = sess[w].unverified
    BY <1>4, FetchedOK DEF Refetch
  <2>2. CASE WithStatus("rolled_back") = Plan
    <3>1. t = [s EXCEPT !.pc = "after", !.todo = Plan]
      BY <2>2
    <3>2. t \in Session /\ t.pc = "after" /\ t.copy = s.copy /\ t.live = s.live /\ t.unverified = s.unverified
      BY <2>1, <3>1 DEF Session
    <3>3. RolledBack
      BY <2>2 DEF WithStatus, RolledBack
    <3>4. PhaseOK(t)
      BY <1>4, <2>1, <3>2, <3>3 DEF PhaseOK, Refetch
    <3> QED
      BY <2>1, <3>2, <3>4, <1>4, QuietCommand DEF Refetch
  <2>3. CASE WithStatus("rolled_back") # Plan
    <3>1. t = [s EXCEPT !.pc = "finish", !.unverified = TRUE]
      BY <2>3
    <3>2. t \in Session /\ t.pc = "finish" /\ t.copy = s.copy /\ t.live = s.live /\ t.unverified
      BY <2>1, <3>1 DEF Session
    <3>3. PhaseOK(t)
      BY <1>4, <2>1, <3>2 DEF PhaseOK, Refetch
    <3> QED
      BY <2>1, <3>2, <3>3, <1>4, QuietCommand DEF Refetch
  <2> QED
    BY <2>2, <2>3
<1>5. CASE ProbeAfter(w, a)
  <2> DEFINE t == After(sess[w], a, "finish")
  <2>1. t \in Session /\ t.pc \in {"after", "finish"} /\ t.copy = sess[w].copy
        /\ t.live = sess[w].live /\ t.unverified = sess[w].unverified
    BY <1>5 DEF Session, After, ProbeAfter
  <2>2. PhaseOK(t)
    BY <1>5, <2>1 DEF PhaseOK, ProbeAfter
  <2> QED
    BY <2>1, <2>2, <1>5, QuietCommand DEF ProbeAfter
<1>6. CASE AfterFails(w)
  <2> DEFINE t == [sess[w] EXCEPT !.pc = "finish", !.todo = {}, !.unverified = TRUE]
  <2>1. t \in Session /\ t.pc = "finish" /\ t.copy = sess[w].copy /\ t.live = sess[w].live /\ t.unverified
    BY DEF Session
  <2>2. PhaseOK(t)
    BY <1>6, <2>1 DEF PhaseOK, AfterFails
  <2> QED
    BY <2>1, <2>2, <1>6, QuietCommand DEF AfterFails
<1> QED
  BY <1>1, <1>2, <1>3, <1>4, <1>5, <1>6

\* A control that is seen to be enforced joins the observed ones.
LEMMA ProbeActiveStep ==
    ASSUME IInv, NEW w \in Terminal, NEW a \in Control, ProbeActive(w, a)
    PROVE  IInv'
<1> USE Known
<1>1. PICK t : t = IF sess[w].todo = {a} THEN CleanupOf(sess[w]) ELSE After(sess[w], a, "active")
  OBVIOUS
<1>2. Goes(w, t, result) /\ denied' = denied \union {a} /\ UNCHANGED <<platform, stimulus>>
      /\ sess[w].pc = "active" /\ a \in sess[w].todo
  BY <1>1 DEF ProbeActive
<1>3. CleanupOf(sess[w]) \in Session /\ CleanupOf(sess[w]).pc \in {"cleanup", "refetch"}
      /\ CleanupOf(sess[w]).copy = sess[w].copy /\ CleanupOf(sess[w]).live = sess[w].live
      /\ CleanupOf(sess[w]).unverified = sess[w].unverified
  BY CleanupOfOK
<1>4. After(sess[w], a, "active") \in Session /\ After(sess[w], a, "active").pc = "active"
      /\ After(sess[w], a, "active").copy = sess[w].copy /\ After(sess[w], a, "active").live = sess[w].live
      /\ After(sess[w], a, "active").unverified = sess[w].unverified
      /\ After(sess[w], a, "active").todo = sess[w].todo \ {a}
  BY <1>2 DEF After, Session
<1>5. t \in Session /\ t.pc \in {"active", "cleanup", "refetch"} /\ t.copy = sess[w].copy
      /\ t.live = sess[w].live /\ t.unverified = sess[w].unverified
      /\ (t.pc = "active" => t.todo = sess[w].todo \ {a})
      /\ (t.pc # "active" => sess[w].todo = {a})
  BY <1>1, <1>3, <1>4
<1>6. Forward /\ (PlatformTypeOK /\ PlatformOK)'
  BY <1>2, UnchangedForward, UnchangedPlatformOK DEF Goes, IInv, TypeOK, PlatformTypeOK
<1>7. Plan' = Plan
  BY <1>2 DEF Plan, platform
<1>8. PhaseOK(t)'
  BY <1>2, <1>5, <1>7 DEF PhaseOK, Observed
<1>9. PICK r : r = result
  OBVIOUS
<1>10. CopyOK(r)' /\ CopyOK(t.copy)' /\ Goes(w, t, r) /\ r \in Result /\ r.status # "absent"
  BY <1>2, <1>5, <1>6, <1>9, Kept
<1>11. RunOK'
  BY <1>2, <1>5, <1>10, RunKept
<1>12. denied' \subseteq Control /\ stimulus' \in {"none", "sent", "excess"}
  BY <1>2 DEF IInv, TypeOK
<1> QED
  BY <1>5, <1>6, <1>8, <1>10, <1>11, <1>12, Steps

\* Rolling back revokes the row with the status.
LEMMA CleanupStep ==
    ASSUME IInv, NEW w \in Terminal, NEW a \in Control, Cleanup(w, a)
    PROVE  IInv'
<1> USE Known
<1>1. PICK t : t = After(sess[w], a, "refetch")
  OBVIOUS
<1>2. Goes(w, t, result) /\ UNCHANGED <<stimulus, denied>> /\ sess[w].pc = "cleanup"
  BY <1>1 DEF Cleanup
<1>3. t \in Session /\ t.pc \in {"cleanup", "refetch"} /\ t.copy = sess[w].copy
      /\ t.live = sess[w].live /\ t.unverified = sess[w].unverified
  BY <1>1, <1>2 DEF After, Session
<1>4. PlatformTypeOK /\ PlatformOK
  BY DEF IInv, TypeOK, PlatformTypeOK
<1>5. Forward /\ (PlatformTypeOK /\ PlatformOK)'
  <2>1. CASE UNCHANGED platform
    BY <2>1, <1>2, <1>4, UnchangedForward, UnchangedPlatformOK DEF Goes
  <2>2. CASE /\ action[a] = "applied" /\ Store!Revoke(a)
             /\ action' = [action EXCEPT ![a] = "rolled_back"]
             /\ UNCHANGED <<incident, decision, mode>>
    <3>1. Store!StoreTypeOK' /\ control' = [control EXCEPT ![a] = "revoked"]
      BY <2>2, <1>4 DEF Store!Revoke, Store!StoreTypeOK, PlatformTypeOK
    <3>2. PlatformTypeOK'
      BY <2>2, <1>4, <3>1 DEF PlatformTypeOK, ActionStatus
    <3>3. PlatformOK'
      BY <2>2, <1>4, <3>1 DEF PlatformOK, PlatformTypeOK, Store!StoreTypeOK
    <3>4. Forward
      BY <2>2, <1>2, <1>4 DEF Forward, Plan, PlatformTypeOK, Goes
    <3> QED
      BY <3>2, <3>3, <3>4
  <2> QED
    BY <2>1, <2>2 DEF Cleanup
<1>6. PhaseOK(t)
  BY <1>2, <1>3 DEF PhaseOK
<1>7. PICK r : r = result
  OBVIOUS
<1>8. CopyOK(r)' /\ CopyOK(t.copy)' /\ PhaseOK(t)' /\ Goes(w, t, r) /\ r \in Result /\ r.status # "absent"
  BY <1>2, <1>3, <1>5, <1>6, <1>7, Kept, PhaseKept
<1>9. RunOK'
  BY <1>2, <1>3, <1>8, RunKept
<1>10. denied' \subseteq Control /\ stimulus' \in {"none", "sent", "excess"}
  BY <1>2 DEF IInv, TypeOK
<1> QED
  BY <1>3, <1>5, <1>8, <1>9, <1>10, Steps

\* Only a verification without an error is written as passed.
LEMMA WriteSteps ==
    ASSUME IInv, NEW w \in Terminal,
           Finish(w) \/ Write(w) \/ RefreshBegin(w) \/ RefreshWrite(w) \/ Abandon(w)
    PROVE  IInv'
<1> USE Known
<1> DEFINE s == sess[w]
<1>0. s.copy \in Result /\ Idle.pc = "idle"
  BY DEF Session, Idle
<1>1. CASE Finish(w)
  <2> DEFINE new == [s.copy EXCEPT !.status = Verdict(TRUE)]
             t == [s EXCEPT !.pc = "write", !.copy = new]
             u == [s EXCEPT !.pc = "write", !.failed = TRUE]
  <2>1. new \in Result /\ CopyOK(new) /\ new.status # "absent"
    BY <1>0, VerdictOK
  <2>2. t \in Session /\ t.pc = "write" /\ t.copy = new /\ t.live = s.live /\ t.unverified = s.unverified
    BY <2>1 DEF Session
  <2>3. u \in Session /\ u.pc = "write" /\ u.copy = s.copy /\ u.live = s.live /\ u.unverified = s.unverified
    BY DEF Session
  <2>4. PhaseOK(t) /\ PhaseOK(u)
    BY <1>1, <2>1, <2>2, <2>3 DEF PhaseOK, Finish
  <2>5. s.pc = "finish" /\ UNCHANGED <<platform, stimulus, denied>> /\ (Goes(w, t, new) \/ Goes(w, u, result))
    BY <1>1 DEF Finish
  <2>6. CASE Goes(w, t, new)
    BY <2>1, <2>2, <2>4, <2>5, <2>6, QuietCommand
  <2>7. CASE Goes(w, u, result)
    BY <2>3, <2>4, <2>5, <2>7, QuietCommand
  <2> QED
    BY <2>5, <2>6, <2>7
<1>2. CASE Write(w)
  <2> DEFINE v == [s.copy EXCEPT !.live = IF ~s.live THEN @ ELSE IF s.unverified THEN "FAIL" ELSE "PASS"]
  <2>1. s.pc = "write" /\ UNCHANGED <<platform, stimulus, denied>> /\ (Goes(w, Idle, v) \/ Goes(w, Idle, Failed(v)))
    BY <1>2 DEF Write, Ends
  <2>2. v \in Result /\ v.status = s.copy.status
        /\ (v.live = "PASS" => s.copy.live = "PASS" \/ (s.live /\ ~s.unverified))
    BY <1>0 DEF Result
  <2>3. CopyOK(v) /\ v.status # "absent"
    BY <2>1, <2>2 DEF CopyOK, PhaseOK
  <2>4. CASE Goes(w, Idle, v)
    BY <1>0, <2>1, <2>2, <2>3, <2>4, IdleOK, QuietCommand
  <2>5. CASE Goes(w, Idle, Failed(v))
    BY <1>0, <2>1, <2>2, <2>3, <2>5, FailedOK, IdleOK, QuietCommand
  <2> QED
    BY <2>1, <2>4, <2>5
<1>3. CASE RefreshBegin(w)
  <2> DEFINE t == [Idle EXCEPT !.pc = "refresh", !.copy = result]
  <2>1. t \in Session /\ t.pc = "refresh" /\ t.copy = result
    BY IdleOK DEF Session
  <2>2. PhaseOK(t)
    BY <1>3, <2>1 DEF PhaseOK, RefreshBegin
  <2> QED
    BY <1>3, <2>1, <2>2, QuietCommand DEF RefreshBegin
<1>4. CASE RefreshWrite(w)
  <2> DEFINE final == decision # "none"
             new == [s.copy EXCEPT !.status = Verdict(final)]
  <2>1. new \in Result /\ CopyOK(new) /\ new.status # "absent"
    <3>1. final \in BOOLEAN
      OBVIOUS
    <3> HIDE DEF final
    <3> QED
      BY <1>0, <3>1, VerdictOK
  <2> QED
    BY <1>0, <1>4, <2>1, IdleOK, QuietCommand DEF RefreshWrite, Ends
<1>5. CASE Abandon(w)
  BY <1>0, <1>5, IdleOK, QuietCommand DEF Abandon, Ends
<1> QED
  BY <1>1, <1>2, <1>3, <1>4, <1>5

-----------------------------------------------------------------------------
(* run *)

\* Steps of the run's own command, while it is the only one.
LEMMA StimulusSteps ==
    ASSUME IInv, NEW w \in Terminal, sess[w].pc = "stimulus",
           NEW s \in Session, NEW file \in Result, Goes(w, s, file),
           UNCHANGED <<platform, denied>>, stimulus' \in {"none", "sent", "excess"},
           CopyOK(file), CopyOK(s.copy), PhaseOK(s), file.status # "absent",
           ~file.incident, s.pc # "stimulus",
           stimulus' = "excess" => s.pc = "idle" /\ file.status = "FAIL"
    PROVE  IInv'
<1>1. PlatformTypeOK /\ PlatformOK /\ denied \subseteq Control
  BY DEF IInv, TypeOK, PlatformTypeOK
<1>2. Forward /\ (PlatformTypeOK /\ PlatformOK)'
  BY <1>1, UnchangedForward, UnchangedPlatformOK DEF Goes
<1>3. CopyOK(file)' /\ CopyOK(s.copy)' /\ PhaseOK(s)'
  BY <1>2, Kept, PhaseKept
<1>4. sess' = [sess EXCEPT ![w] = s] /\ result' = file /\ sess \in [Terminal -> Session]
  BY DEF IInv, TypeOK, Goes
<1>5. \A v \in Terminal \ {w} : sess'[v].pc = "idle"
  BY <1>4 DEF IInv, RunOK
<1>6. sess'[w] = s
  BY <1>4
<1>7. RunOK'
  BY <1>4, <1>5, <1>6 DEF RunOK, Resting
<1> QED
  BY <1>1, <1>2, <1>3, <1>7, Steps

LEMMA RunSteps ==
    ASSUME IInv, NEW w \in Terminal, NEW sent \in {"sent", "excess"},
           \/ RunStart(w) \/ Stimulate(w, sent) \/ RunRecord(w)
           \/ RunEnd(w) \/ RunFails(w) \/ Interrupt(w)
    PROVE  IInv'
<1> USE Known
<1> DEFINE s == sess[w]
<1>0. s.copy \in Result /\ Idle.pc = "idle" /\ Idle \in Session
  BY IdleOK DEF Session, Idle
<1>1. s.pc = "stimulus" => ~result.incident /\ ~s.copy.incident
  BY DEF IInv, RunOK
<1>2. CASE RunStart(w)
  <2> DEFINE new == [Idle.copy EXCEPT !.status = "RUNNING", !.mode = mode]
             t == [Idle EXCEPT !.pc = "stimulus", !.copy = new]
  <2>1. new \in Result /\ CopyOK(new) /\ new.status = "RUNNING" /\ ~new.incident
    BY IdleOK DEF Idle, Result, CopyOK, IInv, TypeOK
  <2>2. t \in Session /\ t.pc = "stimulus" /\ t.copy = new
    BY <2>1, IdleOK DEF Session
  <2>3. PhaseOK(t)
    BY <2>1, <2>2 DEF PhaseOK
  <2>4. Resting /\ stimulus # "excess" /\ Goes(w, t, new) /\ UNCHANGED <<platform, stimulus, denied>>
    BY <1>2 DEF RunStart, IInv, RunOK
  <2>5. sess' = [sess EXCEPT ![w] = t] /\ result' = new /\ sess \in [Terminal -> Session]
    BY <2>4 DEF IInv, TypeOK, Goes
  <2>6. sess'[w] = t /\ \A v \in Terminal \ {w} : sess'[v].pc = "idle"
    BY <2>4, <2>5 DEF Resting
  <2>7. RunOK'
    BY <2>1, <2>2, <2>4, <2>5, <2>6 DEF RunOK
  <2> QED
    BY <2>1, <2>2, <2>3, <2>4, <2>7, Quiet
<1>3. CASE Stimulate(w, sent)
  <2> DEFINE t == [s EXCEPT !.pc = "poll"]
  <2>1. t \in Session /\ t.pc = "poll" /\ t.copy = s.copy
    BY DEF Session
  <2>2. PhaseOK(t)
    BY <1>3, <2>1 DEF PhaseOK, Stimulate
  <2>3. s.pc = "stimulus" /\ stimulus' = sent /\ UNCHANGED <<platform, denied>>
    BY <1>3 DEF Stimulate
  <2>4. CASE Budgeted(sent) /\ Goes(w, t, result)
    BY <1>1, <2>1, <2>2, <2>3, <2>4, StimulusSteps DEF Budgeted
  <2>5. CASE Goes(w, Idle, Failed(s.copy))
    BY <1>0, <1>1, <2>3, <2>5, IdleOK, FailedOK, StimulusSteps
  <2> QED
    BY <1>3, <2>4, <2>5 DEF Stimulate, Ends
<1>4. CASE RunRecord(w)
  <2> DEFINE noted == [s.copy EXCEPT !.incident = TRUE]
             new == [noted EXCEPT !.status = Verdict(FALSE)]
             t == [s EXCEPT !.pc = "snapshot", !.copy = new]
  <2>1. noted \in Result /\ CopyOK(noted)
    BY <1>0 DEF Result, CopyOK
  <2>2. new \in Result /\ CopyOK(new) /\ new.status # "absent"
    BY <2>1, VerdictOK
  <2>3. t \in Session /\ t.pc = "snapshot" /\ t.copy = new
    BY <2>2 DEF Session
  <2>4. PhaseOK(t)
    BY <2>2, <2>3 DEF PhaseOK
  <2>5. s.pc = "poll" /\ UNCHANGED <<platform, stimulus, denied>>
    BY <1>4 DEF RunRecord
  <2>6. CASE Goes(w, t, new)
    BY <2>2, <2>3, <2>4, <2>5, <2>6, QuietCommand
  <2>7. CASE Goes(w, Idle, Failed(noted))
    BY <1>0, <2>1, <2>5, <2>7, IdleOK, FailedOK, QuietCommand
  <2> QED
    BY <1>4, <2>6, <2>7 DEF RunRecord, Ends
<1>5. CASE RunEnd(w)
  BY <1>0, <1>5, IdleOK, QuietCommand DEF RunEnd, Ends
<1>6. CASE RunFails(w)
  <2>1. Goes(w, Idle, Failed(s.copy)) /\ UNCHANGED <<platform, denied>>
    BY <1>6 DEF RunFails, Ends
  <2>2. CASE s.pc = "stimulus"
    BY <1>0, <1>1, <1>6, <2>1, <2>2, IdleOK, FailedOK, StimulusSteps DEF RunFails
  <2>3. CASE s.pc \in {"poll", "snapshot"}
    <3>1. stimulus' = stimulus
      BY <1>6, <2>3 DEF RunFails
    <3> QED
      BY <1>0, <2>1, <2>3, <3>1, IdleOK, FailedOK, QuietCommand
  <2> QED
    BY <1>6, <2>2, <2>3 DEF RunFails
<1>7. CASE Interrupt(w)
  <2>1. Goes(w, Idle, result) /\ UNCHANGED <<platform, stimulus, denied>> /\ s.pc # "idle"
    BY <1>7 DEF Interrupt, Ends
  <2>2. CASE s.pc = "stimulus"
    <3>1. stimulus' \in {"none", "sent", "excess"} /\ stimulus' # "excess"
      BY <2>1 DEF IInv, TypeOK, RunOK, Resting
    <3> QED
      BY <1>0, <1>1, <2>1, <2>2, <3>1, IdleOK, StimulusSteps
  <2>3. CASE s.pc # "stimulus"
    BY <1>0, <2>1, <2>3, IdleOK, QuietCommand
  <2> QED
    BY <2>2, <2>3
<1> QED
  BY <1>2, <1>3, <1>4, <1>5, <1>6, <1>7

-----------------------------------------------------------------------------
(* The invariant is inductive. *)

LEMMA InitInvariant == Init => IInv
<1> SUFFICES ASSUME Init PROVE IInv
  OBVIOUS
<1>1. \A a \in Control : action[a] = "absent"
  BY DEF Init, Untriaged
<1>2. TypeOK
  BY IdleOK DEF Init, TypeOK, Untriaged, Store!StoreInit, Store!StoreTypeOK, ActionStatus, Idle, Result, Mode
<1>3. \A w \in Terminal : sess[w] = Idle
  BY DEF Init
<1>4. Idle.pc = "idle" /\ result = Idle.copy /\ ~Idle.copy.incident /\ stimulus = "none"
  BY DEF Init, Idle
<1> QED
  BY <1>1, <1>2, <1>3, <1>4, IdleOK DEF Init, IInv, PlatformOK, RunOK, Resting

\* The platform's steps leave the commands alone and only move forward.
LEMMA PlatformStep ==
    ASSUME IInv, Platform
    PROVE  IInv'
<1>1. PlatformTypeOK /\ PlatformOK
  BY DEF IInv, TypeOK, PlatformTypeOK
<1>2. Forward /\ (PlatformTypeOK /\ PlatformOK)'
  BY <1>1, PlatformForward
<1>3. UNCHANGED <<requires, stimulus, result, sess, denied>>
  BY DEF Platform
<1>4. PICK r : r = result
  OBVIOUS
<1>5. CopyOK(r)' /\ result' = r
  BY <1>2, <1>3, <1>4, Kept DEF IInv
<1>6. CopyOK(result)'
  BY <1>5 DEF CopyOK, Observed, RolledBack, Plan
<1>7. ASSUME NEW w \in Terminal
      PROVE  (CopyOK(sess[w].copy) /\ PhaseOK(sess[w]))'
  <2>1. PICK s : s = sess[w]
    OBVIOUS
  <2>2. CopyOK(s.copy)' /\ PhaseOK(s)' /\ sess'[w] = s
    BY <1>2, <1>3, <2>1, Kept, PhaseKept DEF IInv
  <2> QED
    BY <2>2 DEF CopyOK, PhaseOK, Observed, RolledBack, Plan
<1>8. TypeOK'
  BY <1>2, <1>3 DEF IInv, TypeOK, PlatformTypeOK
<1>9. RunOK'
  BY <1>3 DEF IInv, RunOK, Resting
<1> QED
  BY <1>2, <1>6, <1>7, <1>8, <1>9 DEF IInv

LEMMA StutterStep ==
    ASSUME IInv, UNCHANGED vars
    PROVE  IInv'
BY DEF IInv, vars, platform, TypeOK, PlatformOK, CopyOK, PhaseOK, RunOK, Resting, Observed, RolledBack, Plan,
       Store!StoreTypeOK

LEMMA NextInvariant == IInv /\ [Next]_vars => IInv'
<1> SUFFICES ASSUME IInv, [Next]_vars PROVE IInv'
  OBVIOUS
<1>1. CASE Platform
  BY <1>1, PlatformStep
<1>2. ASSUME NEW w \in Terminal, Command(w)
      PROVE  IInv'
  <2>1. PICK c \in Control : TRUE
    BY EvaluationAssumption
  <2>2. "sent" \in {"sent", "excess"} /\ "approve" \in Decision
    BY DEF Decision
  <2>3. CASE RunStart(w) \/ RunRecord(w) \/ RunEnd(w) \/ RunFails(w) \/ Interrupt(w)
    BY <2>2, <2>3, RunSteps
  <2>4. CASE \E sent \in {"sent", "excess"} : Stimulate(w, sent)
    BY <2>4, RunSteps
  <2>5. CASE \E choice \in Decision : DecideBegin(w, choice)
    BY <2>1, <2>5, DecideSteps
  <2>6. CASE BeforeFails(w) \/ DecisionAnswered(w) \/ DecisionUnanswered(w)
    BY <2>1, <2>2, <2>6, DecideSteps
  <2>7. CASE Fetch(w) \/ ActiveFails(w) \/ Refetch(w) \/ AfterFails(w)
    BY <2>1, <2>7, PhaseSteps
  <2>8. CASE \E a \in Control : ProbeBefore(w, a) \/ ProbeActive(w, a) \/ Cleanup(w, a)
                                 \/ CleanupFails(w, a) \/ ProbeAfter(w, a)
    BY <2>2, <2>8, DecideSteps, ProbeActiveStep, CleanupStep, PhaseSteps
  <2>9. CASE Finish(w) \/ Write(w) \/ RefreshBegin(w) \/ RefreshWrite(w) \/ Abandon(w)
    BY <2>9, WriteSteps
  <2> QED
    BY <1>2, <2>3, <2>4, <2>5, <2>6, <2>7, <2>8, <2>9 DEF Command
<1>3. CASE UNCHANGED vars
  BY <1>3, StutterStep
<1> QED
  BY <1>1, <1>2, <1>3 DEF Next

\* Every reachable state satisfies the inductive invariant: whatever the
\* commands and the analysts do, a live verification in result.json or in a
\* command's copy of it vouches for controls that were observed and stay rolled back.
THEOREM RunsAreHonest == Spec => []IInv
<1>1. Init => IInv
  BY InitInvariant
<1>2. IInv /\ [Next]_vars => IInv'
  BY NextInvariant
<1> QED
  BY <1>1, <1>2, PTL DEF Spec

\* The variables have their types, and a run waits for a decision only in a
\* scenario that requires one.
THEOREM TypesHold == Spec => []TypeOK
<1>1. IInv => TypeOK
  BY DEF IInv
<1> QED
  BY <1>1, RunsAreHonest, PTL

\* Every live run the summary counts had the effect of each of its controls
\* observed, and all of them are rolled back and out of force.
THEOREM CountedLiveRunsRestored == Spec => []CountedLiveRunsAreRestored
<1>1. IInv => CountedLiveRunsAreRestored
  <2> SUFFICES ASSUME IInv, Counted, result.mode = "live", NEW a \in Plan
               PROVE  a \in denied /\ action[a] = "rolled_back" /\ ~Enforced(a)
    BY DEF CountedLiveRunsAreRestored
  <2>1. Observed /\ RolledBack /\ a \in Control
    BY DEF IInv, CopyOK, Counted, Plan
  <2>2. control[a] = "revoked"
    BY <2>1 DEF IInv, PlatformOK, RolledBack
  <2> QED
    BY <2>1, <2>2 DEF Observed, RolledBack, Enforced
<1> QED
  BY <1>1, RunsAreHonest, PTL

\* A run that exceeded the request budget of its scenario is never counted.
THEOREM OverBudgetRunsDoNotCount == Spec => []OverBudgetIsNeverCounted
<1>1. IInv => OverBudgetIsNeverCounted
  BY DEF IInv, RunOK, OverBudgetIsNeverCounted, Counted
<1> QED
  BY <1>1, RunsAreHonest, PTL
=============================================================================
