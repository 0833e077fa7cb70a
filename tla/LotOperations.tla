--------------------------- MODULE LotOperations ---------------------------
(***************************************************************************)
(* Production lots, their quality checks and the stock they consume        *)
(* (services/operations.py).  Each request is one PostgreSQL transaction   *)
(* at READ COMMITTED; a session keeps in its identity map the values a row *)
(* was first loaded with.                                                  *)
(***************************************************************************)
EXTENDS Integers, FiniteSets

CONSTANTS
    Lot,
    Ingredient,    \* ingredient identifiers, whose order is the locking order
    Need,          \* Need[l][g]: what lot l requires of g after scaling and rounding
    InitialStock,
    Deltas,        \* signed quantities of the warehouse's movements
    MaxStock,      \* bound on receipts
    Worker,        \* concurrent requests
    MaxRestarts    \* bound on restarts of the application

ASSUME LotAssumption ==
    /\ Ingredient \subseteq Nat
    /\ Lot \intersect Ingredient = {}
    /\ InitialStock \in [Ingredient -> Nat]
    /\ \A l \in Lot : DOMAIN Need[l] \subseteq Ingredient /\ Need[l] \in [DOMAIN Need[l] -> Nat]
    /\ Deltas \subseteq Int \ {0}
    /\ MaxStock \in Nat /\ \A g \in Ingredient : InitialStock[g] <= MaxStock
    /\ IsFiniteSet(Worker) /\ MaxRestarts \in Nat

VARIABLES
    status,    \* status[l] of the lot
    results,   \* results[l]: the results of its quality checks
    stock,     \* current_stock of the ingredients
    ledger,    \* ledger[g]: sum of quantity_delta over the inventory movements
    used,      \* used[l]: what the lot's consumption movements add up to, per ingredient
    guard,     \* the quality_guard control is enforced, see SoarControls
    sess,      \* the open transaction of each worker
    restarts

vars == <<status, results, stock, ledger, used, guard, sess, restarts>>

Items(l) == DOMAIN Need[l]
Unread == -1
NotLoaded == [g \in Ingredient |-> Unread]

LotStatus == {"planned", "in_progress", "quality_hold", "released", "rejected"}
Session == [pc : {"idle", "load", "consume", "dispose"}, lot : Lot \union {"none"},
            to : LotStatus \union {"none"}, cache : [Ingredient -> Nat \union {Unread}],
            todo : SUBSET Ingredient, locks : SUBSET (Lot \union Ingredient)]

Idle == [pc |-> "idle", lot |-> "none", to |-> "none", cache |-> NotLoaded, todo |-> {}, locks |-> {}]

Init ==
    /\ status = [l \in Lot |-> "planned"]
    /\ results = [l \in Lot |-> {}]
    /\ stock = InitialStock
    /\ ledger = [g \in Ingredient |-> 0]
    /\ used = [l \in Lot |-> [g \in Items(l) |-> 0]]
    /\ guard = FALSE
    /\ sess = [w \in Worker |-> Idle]
    /\ restarts = 0

Free(w, r) == \A v \in Worker \ {w} : r \notin sess[v].locks

\* Mutation of Unlocked: register_quality_check reads the lot without with_for_update.
UnlockedAlways(r) == TRUE

Unlocked(r) == \A w \in Worker : r \notin sess[w].locks

-----------------------------------------------------------------------------
(* transition_lot to in_progress *)

\* Mutation of Startable: the transition is allowed from in_progress too.
StartableAgain(l) == status[l] \in {"planned", "in_progress"}

Startable(l) == status[l] = "planned"

\* Locks the lot row, read for the first time in this session.
StartLock(w, l) ==
    /\ sess[w].pc = "idle"
    /\ Free(w, l)
    /\ Startable(l)
    /\ sess' = [sess EXCEPT ![w] = [Idle EXCEPT !.pc = "load", !.lot = l, !.to = "in_progress", !.locks = {l}]]
    /\ UNCHANGED <<status, results, stock, ledger, used, guard, restarts>>

\* lot.recipe brings the items and, joined to them, the ingredients: their
\* current stock enters the identity map before any ingredient is locked.
StartLoad(w) ==
    LET l == sess[w].lot IN
    /\ sess[w].pc = "load"
    /\ sess' = [sess EXCEPT ![w].pc = "consume", ![w].todo = Items(l),
                            ![w].cache = [g \in Ingredient |-> IF g \in Items(l) THEN stock[g] ELSE Unread]]
    /\ UNCHANGED <<status, results, stock, ledger, used, guard, restarts>>

Balance(s, g) == s.cache[g] - Need[s.lot][g]

\* Mutation of Refused: the balance may become negative.
RefusedIfZero(s, g) == Need[s.lot][g] = 0

Refused(s, g) == Need[s.lot][g] = 0 \/ Balance(s, g) < 0

\* Mutation of NextItem: the items are taken as the query returns them.
AnyItem(s, g) == g \in s.todo

NextItem(s, g) == g \in s.todo /\ \A h \in s.todo : g <= h

\* record_stock_movement for the next item in the order of ingredients: waits
\* for the row, then computes with the value of the identity map.  A zero
\* quantity or a negative balance rolls the whole transition back.
Consume(w, g) ==
    LET s == sess[w] IN
    /\ s.pc = "consume"
    /\ NextItem(s, g)
    /\ Free(w, g)
    /\ sess' = [sess EXCEPT ![w] =
          IF Refused(s, g) THEN Idle
          ELSE [s EXCEPT !.cache[g] = Balance(s, g), !.todo = @ \ {g}, !.locks = @ \union {g}]]
    /\ UNCHANGED <<status, results, stock, ledger, used, guard, restarts>>

StartCommit(w) ==
    LET s == sess[w] IN
    /\ s.pc = "consume" /\ s.todo = {}
    /\ status' = [status EXCEPT ![s.lot] = s.to]
    /\ stock' = [g \in Ingredient |-> IF g \in Items(s.lot) THEN s.cache[g] ELSE stock[g]]
    /\ ledger' = [g \in Ingredient |-> IF g \in Items(s.lot) THEN ledger[g] - Need[s.lot][g] ELSE ledger[g]]
    /\ used' = [used EXCEPT ![s.lot] = [g \in Items(s.lot) |-> @[g] + Need[s.lot][g]]]
    /\ sess' = [sess EXCEPT ![w] = Idle]
    /\ UNCHANGED <<results, guard, restarts>>

-----------------------------------------------------------------------------
(* The other transitions, quality checks and warehouse movements *)

\* in_progress to quality_hold, under the lot's lock.
Hold(l) ==
    /\ Unlocked(l)
    /\ status[l] = "in_progress"
    /\ status' = [status EXCEPT ![l] = "quality_hold"]
    /\ UNCHANGED <<results, stock, ledger, used, guard, sess, restarts>>

\* quality_hold to released or rejected: what the decision rests on is read
\* under the lot's lock, the quality guard without a lock.
DisposeRead(w, l, to) ==
    /\ sess[w].pc = "idle"
    /\ Free(w, l)
    /\ status[l] = "quality_hold"
    /\ \/ to = "released" /\ ~guard /\ results[l] = {"pass"}
       \/ to = "rejected" /\ "fail" \in results[l]
    /\ sess' = [sess EXCEPT ![w] = [Idle EXCEPT !.pc = "dispose", !.lot = l, !.to = to, !.locks = {l}]]
    /\ UNCHANGED <<status, results, stock, ledger, used, guard, restarts>>

DisposeCommit(w) ==
    /\ sess[w].pc = "dispose"
    /\ status' = [status EXCEPT ![sess[w].lot] = sess[w].to]
    /\ sess' = [sess EXCEPT ![w] = Idle]
    /\ UNCHANGED <<results, stock, ledger, used, guard, restarts>>

\* Mutation of AfterCheck: a failed check leaves the lot where it is.
AfterCheckUnheld(st, result) == st

AfterCheck(st, result) == IF result = "fail" THEN "quality_hold" ELSE st

\* register_quality_check: a failed check holds the lot.
Check(l, result) ==
    /\ Unlocked(l)
    /\ status[l] \in {"in_progress", "quality_hold"}
    /\ results' = [results EXCEPT ![l] = @ \union {result}]
    /\ status' = [status EXCEPT ![l] = AfterCheck(@, result)]
    /\ UNCHANGED <<stock, ledger, used, guard, sess, restarts>>

\* create_movement: here the locking query is the first to load the ingredient.
Movement(w, g, delta) ==
    /\ sess[w].pc = "idle"
    /\ Free(w, g)
    /\ stock[g] + delta \in 0 .. MaxStock
    /\ stock' = [stock EXCEPT ![g] = @ + delta]
    /\ ledger' = [ledger EXCEPT ![g] = @ + delta]
    /\ UNCHANGED <<status, results, used, guard, sess, restarts>>

\* The controller's quality_guard begins, is revoked or expires.
ToggleGuard ==
    /\ guard' = ~guard
    /\ UNCHANGED <<status, results, stock, ledger, used, sess, restarts>>

Restart ==
    /\ restarts < MaxRestarts
    /\ restarts' = restarts + 1
    /\ sess' = [w \in Worker |-> Idle]
    /\ UNCHANGED <<status, results, stock, ledger, used, guard>>

WorkerStep(w) ==
    \/ \E l \in Lot : StartLock(w, l)
    \/ StartLoad(w)
    \/ \E g \in Ingredient : Consume(w, g)
    \/ StartCommit(w)
    \/ \E l \in Lot, to \in {"released", "rejected"} : DisposeRead(w, l, to)
    \/ DisposeCommit(w)
    \/ \E g \in Ingredient, delta \in Deltas : Movement(w, g, delta)

Next ==
    \/ \E w \in Worker : WorkerStep(w)
    \/ \E l \in Lot : Hold(l)
    \/ \E l \in Lot, result \in {"pass", "fail"} : Check(l, result)
    \/ ToggleGuard
    \/ Restart

Spec == Init /\ [][Next]_vars

\* A handler goes on once it has begun, and PostgreSQL queues the waiters of a row.
FairSpec ==
    /\ Spec
    /\ \A w \in Worker :
          /\ WF_vars(StartLoad(w))
          /\ SF_vars(\E g \in Ingredient : Consume(w, g))
          /\ WF_vars(StartCommit(w) \/ DisposeCommit(w))

-----------------------------------------------------------------------------
(* Properties *)

\* Every variable keeps its type; the stock recorded is never negative.
TypeOK ==
    /\ status \in [Lot -> LotStatus]
    /\ results \in [Lot -> SUBSET {"pass", "fail"}]
    /\ stock \in [Ingredient -> Nat]
    /\ ledger \in [Ingredient -> Int]
    /\ \A l \in Lot : used[l] \in [Items(l) -> Nat]
    /\ guard \in BOOLEAN
    /\ sess \in [Worker -> Session]

\* A lot is started with all of its materials or with none, once.
ConsumptionIsWhole == \A l \in Lot :
    used[l] = IF status[l] = "planned" THEN [g \in Items(l) |-> 0] ELSE Need[l]

\* A released lot has a passed check and no failed one, whatever checks were
\* registered while it was being decided.
ReleasedIsClean == \A l \in Lot :
    /\ status[l] = "released" => results[l] = {"pass"}
    /\ status[l] = "rejected" => "fail" \in results[l]

\* A failed check keeps its lot out of production: it is held or rejected.
FailedIsHeld == \A l \in Lot :
    "fail" \in results[l] => status[l] \in {"quality_hold", "rejected"}

\* The stock of an ingredient is what its movements add up to.  True of requests
\* that run one after another.
StockMatchesLedger == \A g \in Ingredient : stock[g] = InitialStock[g] + ledger[g]

\* The transaction of w waits for a row that v has locked.
WaitsFor(w, v) == v # w /\ sess[w].pc = "consume" /\ \E g \in sess[v].locks : NextItem(sess[w], g)

\* No deadlock for PostgreSQL to break: among any transactions one waits for none
\* of the others, as all lock the ingredients they share in the same order.
NoCircularWait == \A W \in (SUBSET Worker) \ {{}} : \E w \in W : \A v \in W : ~ WaitsFor(w, v)

\* Every transition that has begun ends: lots that share ingredients never wait
\* for one another in a circle.
TransitionsFinish == \A w \in Worker : sess[w].pc # "idle" ~> sess[w].pc = "idle"
=============================================================================
