# Verification of the SanoliFood business application and its SOAR controller

SanoliFood is a laboratory: a business application for a food plant (users,
inventory, production, quality) watched by Wazuh and Suricata, and a SOAR plane
(n8n workflows and a controller) that turns alerts into incidents, asks an
analyst, and applies temporary, reversible controls in the application. This
directory holds TLA+ models of the parts that keep state and run concurrently,
their TLC runs, and proofs checked by TLAPS.

Paths below are relative to the repository; `app/…/` stands for
`app/src/sanolifood/`.

## 1. The system

| Part | State it keeps | Operations | Interacts with |
|---|---|---|---|
| SOAR controller (`app/…/soar/`) | `soar_incidents`, `soar_response_actions`, audit rows | create, decide, dispatch (automatic / approved), retry, rollback, expire | called by n8n and analysts, calls the application over HTTP |
| SOAR controls (`services/soar_controls.py`, `web/soar_internal.py`) | `soar_controls`, audit events | apply, revoke, probe | called by the controller; read by the guards |
| Enforcement points (`main.py`, `web/auth.py`, `services/operations.py`) | none | IP block, account lock, quality guard | read `soar_controls` |
| Production, quality, stock (`services/operations.py`, `web/production.py`, `web/inventory.py`, `web/quality.py`) | lots, checks, ingredients' stock, movements | lot transitions, checks, movements | quality guard |
| Recipes (`web/production.py`) | recipes, recipe items, lots | create, add item, approve, plan lot | lots consume what recipes say |
| Accounts (`web/auth.py`, `web/users.py`) | users, failed attempts, lockout, session cookies | login, logout, create, toggle, the check of every request | IP block and account lock |
| Evaluation runner (`evaluation/tools/evalctl.py`) | result files | run, decide, refresh, summarise | controller, probes |
| n8n workflows (`n8n/workflows/`) | executions of n8n | intake, decision, expiry every minute, errors, health | called by Wazuh and analysts, call the controller |
| Analyst command line (`n8n/tools/soar_client.py`) | none | approve, reject, validate, retry, rollback, lists | n8n and the controller |
| Detection, endpoints, scenarios, infrastructure | configuration | — | produce alerts |

What makes the behaviour hard:

* FastAPI runs the handlers in a thread pool, each with a database session at
  READ COMMITTED. Some rows are locked with `SELECT … FOR UPDATE`, others are
  read without a lock; a SQLAlchemy session keeps the values it first loaded a
  row with (its identity map), and no query of this code asks to refresh them.
* The controller calls the application while it holds row locks and writes the
  outcome when it commits. A call may be refused, time out after it was served,
  or be served after the controller gave up; the controller may stop between the
  call and the commit.
* n8n gives a call up after a timeout and tries again while the first goes on;
  Wazuh delivers an alert up to three times and analysts repeat commands that
  were not answered. Analysts and the expiry workflow work on the same actions,
  and what must end (a containment) must end in spite of failures.
* The handlers of accounts lock nothing: between the read of a row and the write
  computed from it lies a password hash.

What makes each part correct: containment only after approval, at most one
executor per action, rows that agree with the application, a containment that
ends (controller); one control per action, never active again once revoked, one
event per change (controls); whole consumption, no released lot with a failed
check, stock equal to its ledger (production); lots that refer to an approved
recipe that no longer changes (recipes); a lockout that comes and stands, and
somebody left to administer users (accounts); one incident per alert, adapters
that run once, answers that are true whoever repeats what (workflows).

## 2. Modules

| Module | Models |
|---|---|
| `IncidentStatus` | the statuses of actions and incidents, and `_status_for` |
| `ActionLifecycle` | abstract: which status of an action may follow which, and that an incident is decided once |
| `ControlStore` | abstract: what the application promises about controls |
| `SoarControls` | the application's control API; implements `ControlStore` |
| `Accounts` | logins and lockouts, sessions, the administration of users |
| `Application` | the business application: `SoarControls` and `Accounts` on the same threads |
| `SoarController` | the controller with its sessions, locks, remote calls and restarts; uses `ControlStore` as the application and implements `ActionLifecycle` |
| `Workflows` | n8n's intake and decision workflows and `soar_client.py validate` around the controller's handlers; implements `ActionLifecycle` |
| `EvaluationRun` | one run of the evaluation campaign: the commands of `evalctl.py` around its `result.json`; uses `ActionLifecycle` and `ControlStore` as the platform |
| `LotOperations` | lot transitions, quality checks, stock movements |
| `Recipes` | recipe versions and planned lots |
| `…_proofs` | proofs about the module before the underscore: `SoarController`, `SoarControls`, `Application`, `Workflows`, `EvaluationRun`, `LotOperations`, `Recipes` |
| `FiniteSetLemmas` | lemmas about finite sets that several proofs need: one of them has the largest number, a set of naturals has a least element, a proper part has fewer elements |
| `FiniteSetLemmas` | lemmas about finite sets that several proofs use: of the members of a finite set one has the largest number, a set of naturals has a least element, a proper part has fewer elements |
| `MC…` | instances for TLC: `MCSoarController`, `MCApplication`, `MCWorkflows`, `MCLotOperations`, `MCEvaluationRun` |

How they compose. `SoarController` uses the application through `ControlStore`,
and `Application` implements `ControlStore`, so the two can be read separately.
`Application` takes the `Contained` targets of its own controls as what
`Accounts` is kept out by. `SoarController` and `Workflows` look at the same
handlers from two sides: the first opens their sessions, locks and remote calls,
the second what callers observe when they repeat them; both implement
`ActionLifecycle`. `EvaluationRun` composes with both abstractions in turn: its
platform takes the steps `ActionLifecycle` and `ControlStore` allow, and no more
is true of `SoarController`: seen from one containment at a time
(`Evaluated(a)`), every step of the controller and the application is a step of
that platform (`PlatformAsEvaluated`, checked and proved). The mapping takes the
decision of an incident as one on the containment once its row shows it, and what
`EvaluationRun` tells apart of an incident (its evidence) as always being
collected.

### SoarController

`incident` and `action` are the committed rows. `sess[w]` is the session of
worker `w`: `locks` are the rows it holds FOR UPDATE, `seen` and `cache` its
identity map, `todo` the actions left to work on, `dirty` and `write` the
changes to flush. A handler is a sequence of steps, cut where another process
can be observed or can observe it:

| Code | Steps |
|---|---|
| `create_incident`, `decide` | `CreateIncident`, `Decide` (one transaction, no remote call) |
| `dispatch` | `DispatchBegin` (locks the incident, loads its actions), one of `CollectEvidence`, `Simulate`, `ApplyAnswered`, `ApplyFailed` per action, `Recompute`, `Commit` |
| `retry_action` | `RetryBegin` (locks the action only), an execution as above, `Recompute`, `Commit` |
| `rollback_action` | `RollbackBegin`, `RevokeAnswered` or `RevokeFailed`, `CloseIncident`, `Commit` |
| `expire_actions` | `ExpireBegin` (unlocked query), per action `ExpireLock`, then as a rollback; one `Commit` at the end |
| process stop, lost requests | `Restart`, `LateArrival` |
| expiry of a control | `Lapse` |

Abstractions. The commit is one step: SQLAlchemy flushes the incident before the
actions and each UPDATE waits for its row, and a session that waits there holds
no row another committing session waits for in the opposite order, as the action
rows it changes are its own. Writes of `contained_at`, `response_started_at` and
of error texts are left out, and with them the wait for the incident's row when
nothing but a timestamp of it changes. Expiry instants are all different.
A duplicate alert, a repeated decision, and requests the code refuses change
nothing and are not steps. A crash while a call is under way is
`ApplyFailed`/`RevokeFailed` with a request left in `inFlight`, then `Restart`.

### SoarControls

`request[t]` is what thread `t` is about to write after it has read: `ApplyRead`
→ `ApplyInsert` is the check-then-insert of `apply_control` under the unique
index on `action_id`; `RevokeRead` → `RevokeWrite` holds the row lock. `lapse[a]`
is the expiry of a control, which changes no row.

### Accounts and Application

`account[u]` is the row of a user with `locked_until` as null, running or over;
`visit[t]` is what thread `t` has read for the request it serves. `failures`
counts wrong passwords and is no state of the program.

| Code | Steps |
|---|---|
| `enforce_soar_ip_controls`, `get_current_user`, `require_roles` | the guards `Enters`, `Authenticated`, `Administers`; `Evict` clears the session of a deactivated account |
| `login` | `LoginRead`, then `LoginFails` or `LoginSucceeds` |
| `logout` | `Logout` |
| `toggle_user`, `create_user` | `ToggleRead` and `ToggleWrite`, `CreateRead` and `CreateWrite` |
| a lockout passes | `LockoutEnds` |

SQLAlchemy writes the columns that differ from what was read, which `Cleared`
translates: a login that had read no lockout leaves `locked_until` as it is now.
In `Application` a thread serves one request of either kind, a restart ends them
all, and `Contained` is the set of targets of active controls that have not
expired. An account that was inactive when it was read fails like a wrong
password. Roles other than administrator only differ in the pages they see.

### LotOperations

`StartLock`, `StartLoad`, `Consume`…, `StartCommit` is `transition_lot` to
`in_progress`. `StartLoad` is the moment `lot.recipe` is first used: it brings
the recipe's items and, joined to them, the ingredients with their stock into
the identity map, before any ingredient is locked. `Need[l][g]` is the scaled and
rounded quantity. `DisposeRead`/`DisposeCommit` are the transitions to `released`
and `rejected`; `Hold`, `Check` and `Movement` lock the one row they use and
commit, so they are single steps.

### Recipes

Every handler reads without a lock (`…Read`) and inserts or updates later
(`…Commit`), where only unique indexes are checked again. `planned[l]` remembers
what the recipe said when lot `l` was planned; it is no state of the program.

### Workflows

One alert, its incident and the playbook's actions. `call[x]` is a call to the
controller: of an n8n execution, or orphaned, when the caller stopped waiting and
the controller goes on. Callers do not appear otherwise: who delivers an alert
again or repeats a decision starts another execution
(`wazuh/config/manager/entrypoint/20-sanolifood-soar.sh:39`,
`n8n/README.md:60`).

| Code | Steps |
|---|---|
| `01-alert-intake.json` | `PostAlert`, then the nodes `create` and `automatic` (`After`) |
| `02-analyst-decision.json` | `PostDecision`, then `decide` and `approved` |
| `retryOnFail`, `maxTries`, `timeout` | `TryFails`: the next try, and the call given up as an orphan |
| `soar_client.py validate` | `Validate`, `Validated` (what it makes of each answer), `ValidateFails` |
| `create_incident` | `CreateRead`, `CreateInsert` with the unique index on `dedup_key` |
| `decide` | `Decide` |
| `dispatch` | `DispatchBegin`, `Execute` per action, `DispatchEnd` |
| `rollback_action` of validate's containments | `Rollback` |
| the controller stops | `Restart` |

`Succeeds` is an answer: the execution goes on to the next node, or the webhook
answers 202 (`acknowledged`) or 200 (`accepted`). A dispatch holds the incident's
row while the adapters run, which is what `IncidentFree` waits for. `runs[a]`
counts executions of an adapter and is no state of the program. Retry, expiry and
other analysts' rollbacks are in `SoarController`; here they would only end what
`Rollback` ends. Each validation makes up a `dedup_key` of its own, so nobody
else delivers its alert.

### EvaluationRun

`result` is `result.json`, `sess[w]` the command that terminal `w` executes: its
copy of the file, which it writes back whole, and what it last fetched of the
incident. Requests to the controller and writes of the file are the steps.

| Code | Steps |
|---|---|
| `run_scenario` | `RunStart`, `Stimulate` (the stimulus and its request budget), `RunRecord` (`update_result`), `RunEnd`, `RunFails` |
| `decide_run` | `DecideBegin`, `ProbeBefore` per control, `DecisionAnswered` or `DecisionUnanswered`, `Fetch`, `ProbeActive` per control, `Cleanup` per applied control, `Refetch`, `ProbeAfter` per control, `Finish` (the first write), `Write` (the second) |
| failures in the phases | `BeforeFails`, `ActiveFails`, `CleanupFails`, `AfterFails`, `Abandon`, `Interrupt` |
| `refresh_run` | `RefreshBegin`, `RefreshWrite` |
| `build_summary` | `Counted` |
| the platform | `Triage`, `Enrich`, `Decided`, `Progress`, `Serve`, `SwitchMode` |

`denied` remembers which controls a command saw in force; it is no state of the
program. `incident` is `wrong` when `validate_incident` would refuse it. Times,
receipts and the matching of alerts by marker are left out: a run whose timing
is not valid raises before it is written as passed.

## 3. Runs

| Run | Instance | Shows |
|---|---|---|
| `controller_safety` | 1 incident, 2 containments, 2 workers, 2 attempts, 1 restart, 1 lost request | no containment without approval; one executor per action, which executes it in the status it was chosen for; rows agree with the application; no circle of requests that wait for row locks; the rows follow `ActionLifecycle`; each containment is seen to do only what `EvaluationRun` lets its platform do |
| `controller_sequential` | 1 worker, an automatic and 2 containment actions, 2 attempts, 1 restart, 1 lost request | the incident's status agrees with its actions when requests do not overlap |
| `controller_liveness` | 2 containments, 2 workers, 1 attempt, no restart, fairness | every applied action ends rolled back; no circle of row locks between dispatch, retry, rollback and expiry: every request ends |
| `application` | 2 actions, 3 targets (one refused), 2 threads, 2 administrators at two addresses, lockout after 2 failures, 1 restart | the application implements `ControlStore`; one event per change; answers name the right control; lockouts come and stand; administrators are lost by crossing requests only |
| `workflows` | 1 execution, 2 orphaned calls, 2 tries, an analyst and a validation, 1 restart, fairness | one incident per alert; adapters run once; 202, 200 and a passed validation are true; a repeated approval is executed; `ActionLifecycle` |
| `lots` | 2 lots sharing 2 ingredients, 2 workers, withdrawals, 1 restart, fairness | whole consumption; dispositions agree with the checks; transitions with common ingredients never wait in a circle, and all end |
| `recipes_concurrent` | 2 versions, 2 ingredients, 2 lots, 2 workers | lots refer to approved recipes with items |
| `evaluation` | 1 control, 2 terminals | a live run that counts was observed in force and is restored; a run over its budget never counts |

Four runs show that the code does not do what a document or a test says:

* `lost_stock_update` (`StockMatchesLedger`): a transition overwrites a movement
  that was committed between the load of the recipe and the lock of the
  ingredient (`services/operations.py:150`).
* `rollback_write_skew` (`AllRolledBackIsClosed`): two rollbacks of an incident's
  last two applied actions leave it open (`soar/service.py:262`).
* `recipe_changes_under_lot` (`LotRecipeImmutable`): an item is added to a recipe
  after its approval (`web/production.py:158`).
* `refresh_passes_unanswered` (`CountedRunsHaveResponse`): `refresh` gives PASS to
  a run whose approved actions were not executed or failed, because it looks at
  the decision only (`evaluation/tools/evalctl.py:1046`).

The first three hold of requests that do not overlap (section 4), so the overlap
is the cause. These four properties belong to those runs alone. One observation is not a run:
the first execution counts as an attempt, so an action can be retried four times
by hand although `MaxAttempts` is five (`soar/service.py:225`).

Bounds. Two workers suffice for every conflict of two handlers; a third would
only wait for one of the locks. Two actions of one incident are what dispatch,
the incident's status and a batch of expired actions need to differ from one.
Two attempts allow a failure, a retry and a refused retry. One restart and one
request in flight put a crash or a late arrival between any two steps. Two lots
and two ingredients allow a circle of locks; the stock of `lots` allows both
starts until something is withdrawn, so that either may be refused halfway.
Two threads are what a stale read needs. `LockoutComes` bounds the wrong
passwords an account takes by the number of ways to choose `MaxAttempts - 1` of
`T + MaxAttempts - 1` things for `T` threads (`Choices`): 3 in the run, 6 for the
five attempts of the code and two threads, `MaxAttempts` for a single one. `Forgetful` says whose logins may fail: one account is enough,
as accounts share nothing. In `workflows` two calls that nobody waits for run
beside one execution: to the controller a call given up is the same as one of
another execution, so three requests overlap. Two tries of three allow a repeat
and an exhausted node; two attempts of five (`MaxAttempts`) allow a count that is
short of a lockout. In `controller_liveness` there is no retry after a failed execution,
no restart and no lost request, which keeps the graph small; a failed revocation
is repeated there. `evaluation` has one control, as a second one multiplies the
platform and two terminals are what makes commands overlap; `EvaluationRun_proofs`
covers any number of both. Symmetry is used where only invariants and step
properties without fairness are checked. `CHECK_DEADLOCK FALSE` is set for
`Recipes`, which stops when every version is approved and every lot planned, and
for `Workflows`, which stops after a validation whose alert never arrived.

Fairness. A handler that has begun goes on (weak fairness of its steps),
PostgreSQL serves the waiters of a row in turn (strong fairness of the steps
that wait), expiry instants pass, and the every-minute workflow asks for expiry
again and again (strong fairness of `ExpireBegin`). `ContainmentEnds` also
needs the application to answer a revocation that is asked for infinitely often.
Analysts, alerts, retries and restarts are not fair; restarts are bounded.
In `lots` the transitions that have begun go on, with strong fairness for the
locks of ingredients, which others take in between. In `workflows` the controller
ends the calls it has begun to serve; of an analyst who repeats an approval for
ever some `decide` is answered before the node gives up, and so is a `dispatch`
that follows (strong fairness). `RepeatedApprovalIsExecuted` assumes such an
analyst, and that the alert is no longer delivered: every delivery dispatches
again and holds the incident's row. `EvaluationRun` states no liveness: a person
may close the terminal at any time; nor does `Application`, whose handlers wait
for nothing.

## 4. Proofs

`SoarController_proofs` proves for any number of incidents, actions, workers,
attempts, restarts and lost requests, from `ControllerAssumption` alone:

* `TypesHold`: `Spec => []TypeOK`, which includes the bound on attempts;
* `NoContainmentWithoutApproval`: `Spec => []ContainmentIsApproved`;
* `AppliedRowsHaveControls` and `RolledBackRowsAreRevoked`: `AppliedHasControl`
  and `RolledBackIsRevoked`;
* `ActionsHaveOneExecutor` and `ExecutedWhenDue`: `OneExecutorPerAction` and
  `DueWhileExecuting`;
* `LifecycleIsImplemented`: `Spec => ImplementsLifecycle`.

The inductive invariant `IInv` strengthens the properties by what each session
knows. The difficulty is that no lock is common to all handlers: dispatch locks
the incident, the others lock an action. What keeps two sessions off the same
action is the status they chose it by (`Due`): `pending` or `approved` for
dispatch, `failed` for retry, `applied` for rollback. `WorkIsDue` says that the
committed status of an action stays due while a session claims it; with the
exclusive locks this excludes every pair of sessions except two expiries or an
expiry and a rollback, where `OthersExpire` allows the second to find the action
rolled back already. `TodoIsFresh` says that what a session is about to execute
is what the rows say, although it was loaded earlier, and `DirtyIsDone` what its
unflushed changes may be. `RowsAgree` ties decisions to statuses.

`EvaluationRun_proofs` proves for any number of controls and terminals, from
`EvaluationAssumption` (a scenario has a response action):

* `TypesHold`: `Spec => []TypeOK`;
* `CountedLiveRunsRestored`: `Spec => []CountedLiveRunsAreRestored`;
* `OverBudgetRunsDoNotCount`: `Spec => []OverBudgetIsNeverCounted`.

Its inductive invariant says of every copy of the file, in the file itself and in
each command (`CopyOK`), what a passed live verification vouches for. That is
stable because the platform only moves forward (`Forward`): a rolled-back action
stays so and its row stays revoked, observed effects are not unobserved, and the
plan does not grow. `PhaseOK` is what a command has established in the phases
behind it. `RunOK` says that until the run is recorded its own command is the
only one, so that a run over its budget ends as FAIL with no incident, and no
other command can begin.

`Workflows_proofs` proves for any playbook, any number of analysts, executions,
orphaned calls, tries and restarts, from `WorkflowsAssumption`: `WorkflowTypes`,
`OneIncident`, `AdaptersRunOnce`, `AcknowledgementsAreTrue`,
`AcceptancesAreTrue`, `ValidationsRestore` and `LifecycleIsImplemented`. The
argument has two halves. Every step that changes the incident is a step of
`ActionLifecycle` (`RowStep`), from which follows once for all that statuses only
advance (`RowsAdvance`), so that an answer, once true, stays true however many
calls are still on their way (`AnswersStay`). And a call, whenever it arrives,
knows what the node it comes from established (`Knows`: an `approved` call
carries the incident's own decision); the one dispatch that runs has run what it
found to do except for what is left (`Progress`). `Ran` connects the two: an
action that has no outcome in a row or a running dispatch was run once less,
restarts aside.

`SoarControls_proofs` proves `StoreIsImplemented` (the refinement of
`ControlStore`), the audit trail and the answers, from `ControlsAssumption`. The insert is ordered
by the unique index alone; what a revocation has read is still true when it
writes, as it holds the row (`RevokesLocked`).

`Application_proofs` carries these over (`ApplicationImplementsStore`,
`ApplicationKeepsTrail`, `ApplicationAnswersTruly`): every step of the
application is one of `SoarControls` or leaves its variables alone
(`ControlsStep`). It adds, from `AccountsAssumption`, `ApplicationTypes`,
`LockoutsStand` and `AdministratorsLostByCrossing`. A visit's reading may be
old, but parts of it hold for ever: a login found its account unlocked
(`LoginsFoundUnlocked`), nobody toggles himself (`NobodyTogglesHimself`), and what
existed still exists (`AbsentIsNew`). The last administrator's toggle is therefore
somebody else's, who has stopped being one since.

`LotOperations_proofs` proves `LotTypes`, `LotsStartWhole`, `DispositionsStand`
and `FailedLotsAreHeld` for any lots, recipes, workers and restarts, from
`LotAssumption`. No two transactions hold the same row (`LocksExclude`), so what a
request read under its lot's lock is true until it commits (`RequestsKnow`).

`Recipes_proofs` proves `RecipeTypes` and `MaterialsForEveryLot` from
`RecipesAssumption`. There are no locks; what a request has read stays true
because versions only advance and items are only added (`ReadIsTrue`). The same
argument fails for the content of a recipe, which is `recipe_changes_under_lot`.

Only model-checked: what is liveness, which is beyond the prover
(`RequestsFinish`, `ContainmentEnds`, `TransitionsFinish`,
`RepeatedApprovalIsExecuted`). Every invariant and every step property of a
passing run is proved.

### No circle of waiting requests

PostgreSQL breaks a deadlock by failing one of its transactions, so the handlers
should never wait in a circle. `WaitsFor(w, v)` says that `w` waits for a row `v`
has locked; `NoCircularWait`, that among any requests one waits for none of the
others, which for finitely many (`IsFiniteSet(Worker)`) is that there is no
circle. A request that waits for its first row holds none, and closes no circle.

* `RequestsNeverWaitInCircle` (`SoarController_proofs`). A dispatch session never
  waits (`DispatchNeverWaits`): the actions it commits are its own, and the
  incident is the one it has locked. A commit waits for dispatch sessions only
  (`CommitWaitsForDispatch`), as only they lock incidents. What remains are expiry
  sessions that wait for their next action: they lock in the order in which the
  actions lapsed (`InOrder`, with `InstantsDistinct`), so each one waits for an
  action that lapsed later than all it holds, and of those waited for one lapsed
  last (`MaximumExists`).
* `TransitionsNeverWaitInCircle` (`LotOperations_proofs`): transitions lock
  ingredients in the order of their numbers (`LocksInOrder`), and the same lemma
  ends the argument.

The two orders (`order_by` in `expire_actions`, `sorted` in `transition_lot`, whose
comment says it "reduces deadlock risk") are what the proofs rest on; without either
TLC finds the circle.

### One request at a time

Four properties fail of requests that overlap. With `OneAtATime` (there is one
worker) they are theorems, whatever else happens: failures, restarts, late
arrivals, decisions.

* `SequentialStatusMatches` and `SequentialRollbackCloses`: `StatusMatchesActions`
  and `AllRolledBackIsClosed`. Even then the rows move under a session, as an
  analyst may decide while a request is served. `Coherent` says that what a
  session has read differs from the rows by such a decision at most, and that the
  incident's status agrees with its actions as the session is about to leave both
  (`WillAgree`); `NearlyAgree` is what holds between the answer to a revocation and
  the look at the other actions.
* `SequentialStockMatches`: `StockMatchesLedger`; a transition's identity map is
  the rows less what it has consumed.
* `SequentialRecipeStays`: `LotRecipeImmutable`; items are added to drafts only,
  and no lot refers to a draft.

The runs `rollback_write_skew`, `lost_stock_update` and
`recipe_changes_under_lot` have two workers: overlapping requests are the whole
cause of what they show.

### How long a lockout can be delayed

Logins that overlap count from the same reading and overwrite one another's
count. `LockoutsCome` (`Application_proofs`) proves `LockoutComes` for any number
of threads. Every request under way counts from some number of failures
(`From`): what it read, or what the row says by now if that is less. The profile
of an account says how many requests count from `j` failures or fewer, for every
`j` below `MaxAttempts`. A wrong password that does not lock moves its request up
from the lowest numbers it has left, and may pull others down only from numbers
above; so the profiles decrease in the lexicographic order, and those still to
come (`Left`) are a proper part of those before. There are no more profiles than
`Choices` (`ProfilesAreChoices`: the numbers `p[j] + j + 1` are the elements chosen), so
neither are there more wrong passwords.

### The platform of the evaluation

`PlatformIsAsEvaluated` (`SoarController_proofs`): `Spec => PlatformAsEvaluated`.
That a status follows another is `LifecycleIsImplemented`, and that the rows agree
with the application is `IInv`; two more facts are needed (`EInv`). A request for
a containment is issued only while its action is due for it, and due for good
(`RequestsAreDue`: after an apply request an action is never skipped again, a
revocation on its way finds its action applied or rolled back). And a session
commits `applied` only in live mode and `simulated` only in a dry run
(`FitsMode`), as the mode changes with a restart alone, which ends the sessions.

## 5. Not modelled

* Data: wording, timestamps other than expiry and lockout, metrics, listings and
  pages; decimals and their rounding (whole numbers stand for thousandths);
  `is_active` of products and ingredients; password hashes; audit rows of the
  controller.
* Guards in front of every handler that keep no state: tokens, CSRF, and the
  HMAC and freshness of what reaches n8n's webhooks.
* n8n: the normalization of alerts, the error workflow (it only inserts a record
  that analysts read), the health and metrics workflow, and a restart of n8n
  itself, after which unfinished executions are gone: for the controller that is
  a node whose tries are exhausted.
* The connection pool of the controller; start-up code (migrations, bootstrap,
  catalog validation), whose unique indexes and first administrator the models
  assume.
* Of `evalctl.py` the preflight, the statistics of the summary, the matching of
  alerts by marker and the computation of times; of `soar_client.py` what only
  reads.
* Wazuh and Suricata rules, scenarios, endpoints and infrastructure scripts: they
  are configuration or run once.

## 6. What is left

1. Rounding of scaled quantities as functions checked against a definition.
2. The connection pool as a resource that `SoarController` requests hold.
3. Several runs of a campaign: the ledger of runs and the summary of `evalctl.py`.
4. `Workflows` as seen from `SoarController`: that the dispatches the former takes
   as one row lock are those of the latter's sessions.
