------------------------ MODULE LotOperations_proofs ------------------------
(***************************************************************************)
(* The safety of LotOperations for any number of lots, ingredients,        *)
(* recipes, workers and restarts.  The argument is the discipline of row   *)
(* locks: what a transaction has read of a lot under the lot's lock stays  *)
(* true until it commits.                                                  *)
(***************************************************************************)
EXTENDS LotOperations, FiniteSetLemmas, TLAPS

\* A row is locked by one transaction at a time.
LocksExclude == \A v, w \in Worker : v # w => sess[v].locks \intersect sess[w].locks = {}

\* What the request of worker w knows of its lot.
LotIsLocked(w) == sess[w].pc # "idle" => sess[w].lot \in Lot /\ sess[w].lot \in sess[w].locks

StartIsTrue(w) == sess[w].pc \in {"load", "consume"} =>
    status[sess[w].lot] = "planned" /\ sess[w].to = "in_progress"

MaterialsAreLoaded(w) == sess[w].pc = "consume" =>
    sess[w].todo \subseteq Items(sess[w].lot) /\ \A g \in Items(sess[w].lot) : sess[w].cache[g] \in Nat

DispositionIsTrue(w) == sess[w].pc = "dispose" =>
    /\ status[sess[w].lot] = "quality_hold"
    /\ \/ sess[w].to = "released" /\ results[sess[w].lot] = {"pass"}
       \/ sess[w].to = "rejected" /\ "fail" \in results[sess[w].lot]

RequestsKnow == \A w \in Worker :
    LotIsLocked(w) /\ StartIsTrue(w) /\ MaterialsAreLoaded(w) /\ DispositionIsTrue(w)

UsedIsAFunction == used = [l \in Lot |-> used[l]]

Inv ==
    /\ TypeOK /\ UsedIsAFunction
    /\ LocksExclude /\ RequestsKnow
    /\ ConsumptionIsWhole /\ ReleasedIsClean /\ FailedIsHeld

LEMMA IdleIsSession == Idle \in Session
BY DEF Idle, Session, NotLoaded, LotStatus

LEMMA NeedIsNatural == \A l \in Lot : Items(l) \subseteq Ingredient /\ Need[l] \in [Items(l) -> Nat]
BY LotAssumption DEF Items

LEMMA InitInv == Init => Inv
<1>1. SUFFICES ASSUME Init PROVE Inv
    OBVIOUS
<1>2. TypeOK
    <2>1. stock \in [Ingredient -> Nat] /\ (\A l \in Lot : used[l] \in [Items(l) -> Nat])
        BY <1>1, LotAssumption DEF Init
    <2>2. ledger \in [Ingredient -> Int]
        BY <1>1, SMT DEF Init
    <2>3. status \in [Lot -> LotStatus] /\ results \in [Lot -> SUBSET {"pass", "fail"}]
        BY <1>1 DEF Init, LotStatus
    <2>4. sess \in [Worker -> Session]
        BY <1>1, IdleIsSession DEF Init
    <2>5. guard \in BOOLEAN
        BY <1>1, Zenon DEF Init
    <2> QED
        BY <2>1, <2>2, <2>3, <2>4, <2>5 DEF TypeOK
<1>3. LocksExclude /\ RequestsKnow
    BY <1>1 DEF Init, Idle, LocksExclude, RequestsKnow, LotIsLocked, StartIsTrue, MaterialsAreLoaded, DispositionIsTrue
<1>4. UsedIsAFunction /\ ConsumptionIsWhole /\ ReleasedIsClean /\ FailedIsHeld
    BY <1>1 DEF Init, UsedIsAFunction, ConsumptionIsWhole, ReleasedIsClean, FailedIsHeld
<1> QED
    BY <1>2, <1>3, <1>4 DEF Inv

-----------------------------------------------------------------------------
(* Steps of a request that write nothing yet *)

LEMMA RequestGoesOn ==
    ASSUME Inv, NEW w \in Worker, NEW s \in Session, sess' = [sess EXCEPT ![w] = s],
           UNCHANGED <<status, results, stock, ledger, used, guard>>,
           \A v \in Worker \ {w} : s.locks \intersect sess[v].locks = {},
           s.pc # "idle" => s.lot \in Lot /\ s.lot \in s.locks,
           s.pc \in {"load", "consume"} => status[s.lot] = "planned" /\ s.to = "in_progress",
           s.pc = "consume" => s.todo \subseteq Items(s.lot) /\ \A g \in Items(s.lot) : s.cache[g] \in Nat,
           s.pc = "dispose" =>
               /\ status[s.lot] = "quality_hold"
               /\ \/ s.to = "released" /\ results[s.lot] = {"pass"}
                  \/ s.to = "rejected" /\ "fail" \in results[s.lot]
    PROVE  Inv'
<1> USE DEF Inv, TypeOK
<1>1. sess' \in [Worker -> Session] /\ sess'[w] = s /\ (\A v \in Worker \ {w} : sess'[v] = sess[v])
    OBVIOUS
<1>2. TypeOK' /\ UsedIsAFunction' /\ ConsumptionIsWhole' /\ ReleasedIsClean' /\ FailedIsHeld'
    BY <1>1 DEF UsedIsAFunction, ConsumptionIsWhole, ReleasedIsClean, FailedIsHeld
<1>3. LocksExclude'
    BY <1>1 DEF LocksExclude
<1>4. ASSUME NEW v \in Worker
      PROVE  LotIsLocked(v)' /\ StartIsTrue(v)' /\ MaterialsAreLoaded(v)' /\ DispositionIsTrue(v)'
    <2>1. CASE v = w
        BY <1>1, <2>1 DEF LotIsLocked, StartIsTrue, MaterialsAreLoaded, DispositionIsTrue
    <2>2. CASE v # w
        BY <1>1, <2>2 DEF RequestsKnow, LotIsLocked, StartIsTrue, MaterialsAreLoaded, DispositionIsTrue
    <2> QED BY <2>1, <2>2
<1> QED
    BY <1>2, <1>3, <1>4 DEF RequestsKnow

LEMMA StartLockKeeps == ASSUME Inv, NEW w \in Worker, NEW l \in Lot, StartLock(w, l) PROVE Inv'
<1> DEFINE s == [Idle EXCEPT !.pc = "load", !.lot = l, !.to = "in_progress", !.locks = {l}]
<1>1. s \in Session /\ s.pc = "load" /\ s.lot = l /\ s.to = "in_progress" /\ s.locks = {l}
    BY DEF Idle, Session, NotLoaded, LotStatus
<1>2. \A v \in Worker \ {w} : s.locks \intersect sess[v].locks = {}
    BY <1>1 DEF StartLock, Free
<1>3. sess' = [sess EXCEPT ![w] = s] /\ status[l] = "planned"
    BY DEF StartLock, Startable
<1> HIDE DEF s
<1> QED
    BY <1>1, <1>2, <1>3, RequestGoesOn DEF StartLock

LEMMA StartLoadKeeps == ASSUME Inv, NEW w \in Worker, StartLoad(w) PROVE Inv'
<1> DEFINE l == sess[w].lot
           cache == [g \in Ingredient |-> IF g \in Items(l) THEN stock[g] ELSE Unread]
           s == [sess[w] EXCEPT !.pc = "consume", !.todo = Items(l), !.cache = cache]
<1>1. sess[w] \in Session /\ l \in Lot /\ l \in sess[w].locks /\ status[l] = "planned" /\ sess[w].to = "in_progress"
    BY DEF StartLoad, Inv, TypeOK, RequestsKnow, LotIsLocked, StartIsTrue
<1>2. Items(l) \subseteq Ingredient
    BY <1>1, NeedIsNatural
<1>3. cache \in [Ingredient -> Nat \union {Unread}] /\ (\A g \in Items(l) : cache[g] \in Nat)
    BY <1>2 DEF Inv, TypeOK
<1>4. sess' = [sess EXCEPT ![w] = s]
    BY DEF StartLoad, Inv, TypeOK, Session
<1> HIDE DEF cache
<1>5. /\ s \in Session /\ s.pc = "consume" /\ s.lot = l /\ s.to = "in_progress"
      /\ s.locks = sess[w].locks /\ s.todo = Items(l) /\ s.cache = cache
    BY <1>1, <1>2, <1>3 DEF Session
<1>6. \A v \in Worker \ {w} : s.locks \intersect sess[v].locks = {}
    BY <1>5 DEF Inv, LocksExclude
<1> HIDE DEF s
<1> QED
    BY <1>1, <1>3, <1>4, <1>5, <1>6, RequestGoesOn DEF StartLoad

LEMMA ConsumeKeeps == ASSUME Inv, NEW w \in Worker, NEW g \in Ingredient, Consume(w, g) PROVE Inv'
<1> DEFINE r == sess[w]
           l == sess[w].lot
<1>1. /\ r \in Session /\ r.pc = "consume" /\ l \in Lot /\ l \in r.locks /\ status[l] = "planned"
      /\ r.to = "in_progress" /\ r.todo \subseteq Items(l) /\ (\A h \in Items(l) : r.cache[h] \in Nat)
    BY DEF Consume, Inv, TypeOK, RequestsKnow, LotIsLocked, StartIsTrue, MaterialsAreLoaded
<1>2. g \in Items(l) /\ Need[l][g] \in Nat /\ r.cache[g] \in Nat
    BY <1>1, NeedIsNatural DEF Consume, NextItem
<1>3. CASE Refused(r, g)
    <2>1. sess' = [sess EXCEPT ![w] = Idle]
        BY <1>3 DEF Consume
    <2>2. Idle.pc = "idle" /\ Idle.locks = {}
        BY DEF Idle
    <2> QED
        BY <2>1, <2>2, IdleIsSession, RequestGoesOn DEF Consume
<1>4. CASE ~ Refused(r, g)
    <2> DEFINE b == Balance(r, g)
               s == [r EXCEPT !.cache = [r.cache EXCEPT ![g] = b], !.todo = r.todo \ {g}, !.locks = r.locks \union {g}]
    <2>1. sess' = [sess EXCEPT ![w] = s]
        BY <1>1, <1>4 DEF Consume, Session
    <2>2. b \in Nat
        BY <1>2, <1>4 DEF Refused, Balance
    <2> HIDE DEF b
    <2>3. r.cache \in [Ingredient -> Nat \union {Unread}] /\ r.locks \subseteq Lot \union Ingredient
        BY <1>1 DEF Session
    <2> DEFINE cache == [r.cache EXCEPT ![g] = b]
    <2>4. cache \in [Ingredient -> Nat \union {Unread}] /\ (\A h \in Items(l) : cache[h] \in Nat)
        BY <1>1, <2>2, <2>3, NeedIsNatural
    <2> HIDE DEF cache
    <2>5. /\ s \in Session /\ s.pc = "consume" /\ s.lot = l /\ s.to = "in_progress"
          /\ s.locks = r.locks \union {g} /\ s.todo = r.todo \ {g} /\ s.cache = cache
        BY <1>1, <2>3, <2>4 DEF Session, cache
    <2>6. \A v \in Worker \ {w} : s.locks \intersect sess[v].locks = {}
        BY <2>5 DEF Inv, LocksExclude, Consume, Free
    <2>7. UNCHANGED <<status, results, stock, ledger, used, guard>>
        BY DEF Consume
    <2>8. s.todo \subseteq Items(s.lot) /\ (\A h \in Items(s.lot) : s.cache[h] \in Nat) /\ s.lot \in s.locks
        BY <1>1, <2>4, <2>5
    <2> HIDE DEF s
    <2> QED
        BY <1>1, <2>1, <2>5, <2>6, <2>7, <2>8, RequestGoesOn
<1> QED BY <1>3, <1>4

LEMMA DisposeReadKeeps ==
    ASSUME Inv, NEW w \in Worker, NEW l \in Lot, NEW to \in {"released", "rejected"}, DisposeRead(w, l, to)
    PROVE  Inv'
<1> DEFINE s == [Idle EXCEPT !.pc = "dispose", !.lot = l, !.to = to, !.locks = {l}]
<1>1. s \in Session /\ s.pc = "dispose" /\ s.lot = l /\ s.to = to /\ s.locks = {l}
    BY DEF Idle, Session, NotLoaded, LotStatus
<1>2. \A v \in Worker \ {w} : s.locks \intersect sess[v].locks = {}
    BY <1>1 DEF DisposeRead, Free
<1>3. /\ sess' = [sess EXCEPT ![w] = s] /\ status[l] = "quality_hold"
      /\ \/ to = "released" /\ results[l] = {"pass"}
         \/ to = "rejected" /\ "fail" \in results[l]
    BY DEF DisposeRead
<1>4. UNCHANGED <<status, results, stock, ledger, used, guard>>
    BY DEF DisposeRead
<1> HIDE DEF s
<1> QED
    BY <1>1, <1>2, <1>3, <1>4, RequestGoesOn

-----------------------------------------------------------------------------
(* Steps that write a lot *)

\* A lot is written by the transaction that holds its row, so what the other
\* requests know of theirs stays true.
LEMMA OthersUndisturbed ==
    ASSUME Inv, NEW l \in Lot, NEW w \in Worker, l \in sess[w].locks,
           sess' = [sess EXCEPT ![w] = Idle],
           \A k \in Lot \ {l} : status'[k] = status[k] /\ results'[k] = results[k]
    PROVE  LocksExclude' /\ RequestsKnow' /\ sess' \in [Worker -> Session]
<1>1. /\ sess' \in [Worker -> Session] /\ sess'[w] = Idle /\ (\A v \in Worker \ {w} : sess'[v] = sess[v])
    BY IdleIsSession DEF Inv, TypeOK
<1>2. Idle.pc = "idle" /\ Idle.locks = {}
    BY DEF Idle
<1>3. \A v \in Worker \ {w} : sess[v].pc # "idle" => sess[v].lot \in Lot \ {l}
    BY DEF Inv, LocksExclude, RequestsKnow, LotIsLocked
<1>4. LocksExclude'
    BY <1>1, <1>2 DEF Inv, LocksExclude
<1>5. ASSUME NEW v \in Worker
      PROVE  LotIsLocked(v)' /\ StartIsTrue(v)' /\ MaterialsAreLoaded(v)' /\ DispositionIsTrue(v)'
    <2>1. CASE v = w
        BY <1>1, <1>2, <2>1 DEF LotIsLocked, StartIsTrue, MaterialsAreLoaded, DispositionIsTrue
    <2>2. CASE v # w
        BY <1>1, <1>3, <2>2 DEF Inv, RequestsKnow, LotIsLocked, StartIsTrue, MaterialsAreLoaded, DispositionIsTrue
    <2> QED BY <2>1, <2>2
<1> QED
    BY <1>1, <1>4, <1>5 DEF RequestsKnow

LEMMA StartCommitKeeps == ASSUME Inv, NEW w \in Worker, StartCommit(w) PROVE Inv'
<1> DEFINE l == sess[w].lot
<1>1. /\ l \in Lot /\ l \in sess[w].locks /\ status[l] = "planned" /\ sess[w].to = "in_progress"
      /\ (\A g \in Items(l) : sess[w].cache[g] \in Nat)
    BY DEF StartCommit, Inv, RequestsKnow, LotIsLocked, StartIsTrue, MaterialsAreLoaded
<1>2. status' = [status EXCEPT ![l] = "in_progress"] /\ UNCHANGED results /\ sess' = [sess EXCEPT ![w] = Idle]
    BY <1>1 DEF StartCommit
<1>3. LocksExclude' /\ RequestsKnow' /\ sess' \in [Worker -> Session]
    BY <1>1, <1>2, OthersUndisturbed DEF Inv, TypeOK
<1>4. stock' \in [Ingredient -> Nat] /\ ledger' \in [Ingredient -> Int]
    BY <1>1, NeedIsNatural DEF StartCommit, Inv, TypeOK
<1>5. used[l] = [g \in Items(l) |-> 0]
    BY <1>1 DEF Inv, ConsumptionIsWhole
<1>6. Need[l] = [g \in Items(l) |-> Need[l][g]]
    BY <1>1, NeedIsNatural
<1>7. used' = [used EXCEPT ![l] = Need[l]]
    <2>1. [g \in Items(l) |-> used[l][g] + Need[l][g]] = [g \in Items(l) |-> Need[l][g]]
        BY <1>1, <1>5, NeedIsNatural
    <2> QED BY <1>6, <2>1 DEF StartCommit
<1>8. UsedIsAFunction' /\ used'[l] = Need[l] /\ (\A k \in Lot \ {l} : used'[k] = used[k])
    BY <1>1, <1>7 DEF Inv, UsedIsAFunction
<1>9. TypeOK'
    <2>1. \A k \in Lot : used'[k] \in [Items(k) -> Nat]
        BY <1>1, <1>6, <1>8, NeedIsNatural DEF Inv, TypeOK
    <2> QED BY <1>1, <1>2, <1>3, <1>4, <2>1 DEF StartCommit, Inv, TypeOK, LotStatus
<1>10. ConsumptionIsWhole' /\ ReleasedIsClean' /\ FailedIsHeld'
    BY <1>1, <1>2, <1>8 DEF Inv, TypeOK, ConsumptionIsWhole, ReleasedIsClean, FailedIsHeld
<1> QED
    BY <1>3, <1>8, <1>9, <1>10 DEF Inv

LEMMA DisposeCommitKeeps == ASSUME Inv, NEW w \in Worker, DisposeCommit(w) PROVE Inv'
<1> DEFINE l == sess[w].lot
           to == sess[w].to
<1>1. /\ l \in Lot /\ l \in sess[w].locks /\ status[l] = "quality_hold"
      /\ \/ to = "released" /\ results[l] = {"pass"}
         \/ to = "rejected" /\ "fail" \in results[l]
    BY DEF DisposeCommit, Inv, RequestsKnow, LotIsLocked, DispositionIsTrue
<1>2. /\ status' = [status EXCEPT ![l] = to] /\ sess' = [sess EXCEPT ![w] = Idle]
      /\ UNCHANGED <<results, stock, ledger, used, guard>>
    BY DEF DisposeCommit
<1> HIDE DEF to
<1>3. LocksExclude' /\ RequestsKnow' /\ sess' \in [Worker -> Session]
    BY <1>1, <1>2, OthersUndisturbed DEF Inv, TypeOK
<1>4. TypeOK'
    BY <1>1, <1>2, <1>3 DEF Inv, TypeOK, LotStatus
<1>5. UsedIsAFunction' /\ ConsumptionIsWhole' /\ ReleasedIsClean' /\ FailedIsHeld'
    BY <1>1, <1>2 DEF Inv, TypeOK, UsedIsAFunction, ConsumptionIsWhole, ReleasedIsClean, FailedIsHeld
<1> QED
    BY <1>3, <1>4, <1>5 DEF Inv

\* Hold and Check write a lot that no transaction holds.
LEMMA UnlockedIsUnknown ==
    ASSUME Inv, NEW l \in Lot, Unlocked(l), UNCHANGED sess,
           \A k \in Lot \ {l} : status'[k] = status[k] /\ results'[k] = results[k]
    PROVE  LocksExclude' /\ RequestsKnow'
<1>1. \A v \in Worker : sess[v].pc # "idle" => sess[v].lot \in Lot \ {l}
    BY DEF Inv, RequestsKnow, LotIsLocked, Unlocked
<1> QED
    BY <1>1 DEF Inv, LocksExclude, RequestsKnow, LotIsLocked, StartIsTrue, MaterialsAreLoaded, DispositionIsTrue

LEMMA HoldKeeps == ASSUME Inv, NEW l \in Lot, Hold(l) PROVE Inv'
<1>1. LocksExclude' /\ RequestsKnow'
    BY UnlockedIsUnknown DEF Hold, Inv, TypeOK
<1> QED
    BY <1>1 DEF Hold, Inv, TypeOK, LotStatus, UsedIsAFunction, ConsumptionIsWhole, ReleasedIsClean, FailedIsHeld

LEMMA CheckKeeps == ASSUME Inv, NEW l \in Lot, NEW result \in {"pass", "fail"}, Check(l, result) PROVE Inv'
<1>1. LocksExclude' /\ RequestsKnow'
    BY UnlockedIsUnknown DEF Check, Inv, TypeOK
<1>2. /\ results' = [results EXCEPT ![l] = results[l] \union {result}]
      /\ status' = [status EXCEPT ![l] = IF result = "fail" THEN "quality_hold" ELSE status[l]]
      /\ status[l] \in {"in_progress", "quality_hold"}
      /\ UNCHANGED <<stock, ledger, used, guard, sess>>
    BY DEF Check, AfterCheck
<1>3. TypeOK'
    BY <1>2 DEF Inv, TypeOK, LotStatus
<1>4. UsedIsAFunction' /\ ConsumptionIsWhole' /\ ReleasedIsClean'
    BY <1>2 DEF Inv, TypeOK, UsedIsAFunction, ConsumptionIsWhole, ReleasedIsClean
<1>5. FailedIsHeld'
    BY <1>2 DEF Inv, TypeOK, FailedIsHeld
<1> QED
    BY <1>1, <1>3, <1>4, <1>5 DEF Inv

-----------------------------------------------------------------------------

\* Steps that touch neither a lot nor what a request knows of it.
LEMMA StockKeeps ==
    ASSUME Inv, UNCHANGED <<status, results, used, sess>>,
           stock' \in [Ingredient -> Nat], ledger' \in [Ingredient -> Int], guard' \in BOOLEAN
    PROVE  Inv'
BY DEF Inv, TypeOK, UsedIsAFunction, LocksExclude, RequestsKnow, LotIsLocked, StartIsTrue, MaterialsAreLoaded,
       DispositionIsTrue, ConsumptionIsWhole, ReleasedIsClean, FailedIsHeld

LEMMA MovementKeeps ==
    ASSUME Inv, NEW w \in Worker, NEW g \in Ingredient, NEW delta \in Deltas, Movement(w, g, delta)
    PROVE  Inv'
<1>1. delta \in Int /\ MaxStock \in Nat
    BY LotAssumption
<1>2. stock' \in [Ingredient -> Nat] /\ ledger' \in [Ingredient -> Int]
    BY <1>1 DEF Movement, Inv, TypeOK
<1> QED
    BY <1>2, StockKeeps DEF Movement, Inv, TypeOK

LEMMA RestartKeeps == ASSUME Inv, Restart PROVE Inv'
BY IdleIsSession DEF Restart, Idle, Inv, TypeOK, UsedIsAFunction, LocksExclude, RequestsKnow, LotIsLocked,
   StartIsTrue, MaterialsAreLoaded, DispositionIsTrue, ConsumptionIsWhole, ReleasedIsClean, FailedIsHeld

LEMMA StepInv == Inv /\ [Next]_vars => Inv'
<1>1. SUFFICES ASSUME Inv, [Next]_vars PROVE Inv'
    OBVIOUS
<1>2. ASSUME NEW w \in Worker, WorkerStep(w) PROVE Inv'
    BY <1>1, <1>2, StartLockKeeps, StartLoadKeeps, ConsumeKeeps, StartCommitKeeps, DisposeReadKeeps,
       DisposeCommitKeeps, MovementKeeps DEF WorkerStep
<1>3. CASE ToggleGuard \/ UNCHANGED vars
    BY <1>1, <1>3, StockKeeps DEF ToggleGuard, vars, Inv, TypeOK
<1> QED
    BY <1>1, <1>2, <1>3, HoldKeeps, CheckKeeps, RestartKeeps DEF Next

LEMMA InvHolds == Spec => []Inv
BY InitInv, StepInv, PTL DEF Spec

\* Every variable keeps its type; the stock recorded is never negative.
THEOREM LotTypes == Spec => []TypeOK
BY InvHolds, PTL DEF Inv

\* A lot is started with all of its materials or with none, and once, however
\* its transition is interrupted, refused or repeated.
THEOREM LotsStartWhole == Spec => []ConsumptionIsWhole
BY InvHolds, PTL DEF Inv

\* What a lot was released or rejected for is still so: no check slips in between
\* the reading of the results and the commit, and none comes later.
THEOREM DispositionsStand == Spec => []ReleasedIsClean
BY InvHolds, PTL DEF Inv

\* A failed check keeps its lot out of production.
THEOREM FailedLotsAreHeld == Spec => []FailedIsHeld
BY InvHolds, PTL DEF Inv

(***************************************************************************)
(* No circle of waiting transactions.  A transaction locks its ingredients *)
(* in their order, so it waits for a larger one than all those it holds,   *)
(* and who holds that one and waits too, waits for a larger one still.     *)
(***************************************************************************)

LocksInOrder == \A w \in Worker :
    IF sess[w].pc = "consume"
    THEN \A h \in sess[w].locks \intersect Ingredient, g \in sess[w].todo : h < g
    ELSE sess[w].locks \intersect Ingredient = {}

LEMMA OrderKept == Inv /\ LocksInOrder /\ [Next]_vars => LocksInOrder'
<1>1. SUFFICES ASSUME Inv, LocksInOrder, [Next]_vars, NEW w \in Worker
               PROVE  IF sess'[w].pc = "consume"
                      THEN \A h \in sess'[w].locks \intersect Ingredient, g \in sess'[w].todo : h < g
                      ELSE sess'[w].locks \intersect Ingredient = {}
    BY DEF LocksInOrder
<1>2. sess \in [Worker -> Session] /\ Idle.pc = "idle" /\ Idle.locks = {}
    BY <1>1 DEF Inv, TypeOK, Idle
<1>3. CASE sess'[w] = sess[w] \/ sess'[w] = Idle
    BY <1>1, <1>2, <1>3 DEF LocksInOrder
<1>4. CASE \E l \in Lot : StartLock(w, l)
    BY <1>1, <1>2, <1>4, LotAssumption DEF StartLock, Idle
<1>5. CASE \E l \in Lot, to \in {"released", "rejected"} : DisposeRead(w, l, to)
    BY <1>1, <1>2, <1>5, LotAssumption DEF DisposeRead, Idle
<1>6. CASE StartLoad(w)
    <2>1. sess'[w].locks = sess[w].locks /\ sess[w].pc = "load"
        BY <1>2, <1>6 DEF StartLoad, Session
    <2> QED BY <1>1, <2>1 DEF LocksInOrder
<1>7. ASSUME NEW g \in Ingredient, Consume(w, g), sess'[w] # Idle
      PROVE  \A h \in sess'[w].locks \intersect Ingredient, k \in sess'[w].todo : h < k
    <2>1. /\ sess[w].pc = "consume" /\ g \in sess[w].todo /\ (\A h \in sess[w].todo : g <= h)
          /\ sess[w] \in Session
        BY <1>2, <1>7 DEF Consume, NextItem
    <2>2. sess'[w].locks = sess[w].locks \union {g} /\ sess'[w].todo = sess[w].todo \ {g}
        BY <1>2, <1>7, <2>1 DEF Consume, Session
    <2>3. sess[w].todo \subseteq Nat /\ Ingredient \subseteq Nat
        BY <2>1, LotAssumption DEF Session
    <2> QED BY <1>1, <2>1, <2>2, <2>3 DEF LocksInOrder
<1>8. ASSUME NEW v \in Worker, WorkerStep(v), sess'[w] # sess[w] PROVE v = w
    BY <1>2, <1>8 DEF WorkerStep, StartLock, StartLoad, Consume, StartCommit, DisposeRead, DisposeCommit, Movement
<1>9. ASSUME NEW g \in Ingredient, Consume(w, g), sess'[w] # Idle PROVE sess'[w].pc = "consume"
    BY <1>2, <1>9 DEF Consume, Session
<1>10. CASE StartCommit(w) \/ DisposeCommit(w) \/ Restart
    BY <1>2, <1>3, <1>10 DEF StartCommit, DisposeCommit, Restart
<1> QED
    BY <1>1, <1>3, <1>4, <1>5, <1>6, <1>7, <1>8, <1>9, <1>10
       DEF Next, WorkerStep, Hold, Check, ToggleGuard, Movement, vars

\* The ingredient a waiting transaction waits for; 0 for the others.
Awaited == [w \in Worker |-> IF sess[w].pc = "consume" /\ sess[w].todo # {}
                             THEN CHOOSE n \in Nat : NextItem(sess[w], n) ELSE 0]

LEMMA OrderExcludesCircles == Inv /\ LocksInOrder => NoCircularWait
<1>1. SUFFICES ASSUME Inv, LocksInOrder, NEW W \in SUBSET Worker, W # {},
                      \A w \in W : \E v \in W : WaitsFor(w, v)
               PROVE  FALSE
    BY DEF NoCircularWait
<1>2. \A w \in Worker : sess[w] \in Session /\ sess[w].todo \subseteq Nat
    BY <1>1, LotAssumption DEF Inv, TypeOK, Session
<1>3. ASSUME NEW w \in W, NEW v \in W, WaitsFor(w, v)
      PROVE  Awaited[w] \in Nat /\ NextItem(sess[w], Awaited[w]) /\ Awaited[w] \in sess[v].locks
    <2>1. PICK g \in sess[v].locks : NextItem(sess[w], g)
        BY <1>3 DEF WaitsFor
    <2>2. g \in Nat /\ (\A n \in Nat : NextItem(sess[w], n) => n = g) /\ sess[w].todo # {}
        BY <1>2, <2>1 DEF NextItem
    <2>3. Awaited[w] = CHOOSE n \in Nat : NextItem(sess[w], n)
        BY <1>3, <2>2 DEF Awaited, WaitsFor
    <2>4. Awaited[w] = g
        BY <2>1, <2>2, <2>3
    <2> QED BY <2>1, <2>2, <2>4
<1> DEFINE f == [w \in W |-> Awaited[w]]
<1>4. f \in [W -> Nat] /\ IsFiniteSet(W)
    BY <1>1, <1>3, LotAssumption, FS_Subset
<1>5. PICK w \in W : \A v \in W : f[v] <= f[w]
    <2> HIDE DEF f
    <2> QED BY <1>1, <1>4, MaximumExists
<1>6. PICK v \in W : WaitsFor(w, v)
    BY <1>1
<1>7. PICK u \in W : WaitsFor(v, u)
    BY <1>1
<1>8. sess[v].pc = "consume" /\ Awaited[w] \in sess[v].locks \intersect Ingredient /\ Awaited[v] \in sess[v].todo
    <2>1. Awaited[w] \in sess[w].todo /\ Awaited[w] \in sess[v].locks /\ Awaited[v] \in sess[v].todo
        BY <1>3, <1>6, <1>7 DEF NextItem
    <2> QED BY <1>2, <1>7, <2>1 DEF Session, WaitsFor
<1>9. Awaited[w] < Awaited[v]
    BY <1>1, <1>8 DEF LocksInOrder
<1> QED
    BY <1>3, <1>5, <1>6, <1>7, <1>9

\* No deadlock for PostgreSQL to break: among any transactions one waits for none
\* of the others, as all lock the ingredients they share in the same order.
THEOREM TransitionsNeverWaitInCircle == Spec => []NoCircularWait
<1>1. Init => LocksInOrder
    BY DEF Init, Idle, LocksInOrder
<1> QED
    BY <1>1, InvHolds, OrderKept, OrderExcludesCircles, PTL DEF Spec

(***************************************************************************)
(* Requests one at a time: the values of the identity map are those of the *)
(* rows, less what the transition has consumed.                            *)
(***************************************************************************)

OneAtATime == \E w \in Worker : \A v \in Worker : v = w

MapIsCurrent(w) == sess[w].pc = "consume" => \A g \in Items(sess[w].lot) :
    sess[w].cache[g] = IF g \in sess[w].todo THEN stock[g] ELSE stock[g] - Need[sess[w].lot][g]

SequentialInv == StockMatchesLedger /\ \A w \in Worker : MapIsCurrent(w)

LEMMA SequentialStep == OneAtATime /\ Inv /\ SequentialInv /\ [Next]_vars => SequentialInv'
<1>1. SUFFICES ASSUME OneAtATime, Inv, SequentialInv, [Next]_vars PROVE SequentialInv'
    OBVIOUS
<1>2. sess \in [Worker -> Session] /\ Idle.pc = "idle" /\ (\A w \in Worker : sess[w] \in Session)
    BY <1>1 DEF Inv, TypeOK, Idle
<1>3. ASSUME NEW w \in Worker, UNCHANGED <<stock, ledger>>, MapIsCurrent(w)' PROVE SequentialInv'
    BY <1>1, <1>3 DEF OneAtATime, SequentialInv, StockMatchesLedger
<1>4. ASSUME NEW w \in Worker, sess'[w].pc # "consume", UNCHANGED <<stock, ledger>> PROVE SequentialInv'
    BY <1>3, <1>4 DEF MapIsCurrent
<1>5. ASSUME NEW w \in Worker, NEW l \in Lot, StartLock(w, l) PROVE SequentialInv'
    BY <1>2, <1>4, <1>5 DEF StartLock, Idle
<1>6. ASSUME NEW w \in Worker, StartLoad(w) PROVE SequentialInv'
    <2>1. sess[w].lot \in Lot /\ Items(sess[w].lot) \subseteq Ingredient
        BY <1>1, <1>6, NeedIsNatural DEF StartLoad, Inv, RequestsKnow, LotIsLocked
    <2>2. /\ sess'[w].lot = sess[w].lot /\ sess'[w].todo = Items(sess[w].lot)
          /\ sess'[w].cache = [g \in Ingredient |-> IF g \in Items(sess[w].lot) THEN stock[g] ELSE Unread]
        BY <1>2, <1>6 DEF StartLoad, Session
    <2>3. UNCHANGED <<stock, ledger>>
        BY <1>6 DEF StartLoad
    <2>4. \A g \in Items(sess[w].lot) : sess'[w].cache[g] = stock[g] /\ g \in sess'[w].todo
        BY <2>1, <2>2
    <2>5. MapIsCurrent(w)'
        BY <2>2, <2>3, <2>4 DEF MapIsCurrent, Items
    <2> QED BY <1>3, <2>3, <2>5
<1>7. ASSUME NEW w \in Worker, NEW g \in Ingredient, Consume(w, g) PROVE SequentialInv'
    <2>1. CASE Refused(sess[w], g)
        BY <1>2, <1>4, <1>7, <2>1 DEF Consume
    <2>2. CASE ~ Refused(sess[w], g)
        <3>1. sess[w].pc = "consume" /\ sess[w].lot \in Lot /\ g \in sess[w].todo /\ sess[w].todo \subseteq Items(sess[w].lot)
            BY <1>1, <1>7 DEF Consume, NextItem, Inv, RequestsKnow, LotIsLocked, MaterialsAreLoaded
        <3>2. /\ sess'[w].lot = sess[w].lot /\ sess'[w].todo = sess[w].todo \ {g}
              /\ sess'[w].cache = [sess[w].cache EXCEPT ![g] = sess[w].cache[g] - Need[sess[w].lot][g]]
            BY <1>2, <1>7, <2>2 DEF Consume, Balance, Session
        <3>3. sess[w].cache[g] = stock[g] /\ Items(sess[w].lot) \subseteq Ingredient
            BY <1>1, <3>1, NeedIsNatural DEF SequentialInv, MapIsCurrent
        <3>4. \A h \in Items(sess[w].lot) : sess'[w].cache[h] =
                  IF h \in sess'[w].todo THEN stock[h] ELSE stock[h] - Need[sess[w].lot][h]
            BY <1>1, <1>2, <3>1, <3>2, <3>3 DEF SequentialInv, MapIsCurrent, Session
        <3> QED BY <1>3, <1>7, <3>2, <3>4 DEF Consume, MapIsCurrent
    <2> QED BY <2>1, <2>2
<1>8. ASSUME NEW w \in Worker, StartCommit(w) PROVE SequentialInv'
    <2>1. sess[w].pc = "consume" /\ sess[w].todo = {} /\ sess[w].lot \in Lot
        BY <1>1, <1>8 DEF StartCommit, Inv, RequestsKnow, LotIsLocked
    <2>2. \A g \in Items(sess[w].lot) : sess[w].cache[g] = stock[g] - Need[sess[w].lot][g]
        BY <1>1, <2>1 DEF SequentialInv, MapIsCurrent
    <2>3. \A g \in Items(sess[w].lot) : Need[sess[w].lot][g] \in Nat
        BY <2>1, NeedIsNatural
    <2>4. InitialStock \in [Ingredient -> Nat] /\ stock \in [Ingredient -> Nat] /\ ledger \in [Ingredient -> Int]
        BY <1>1, LotAssumption DEF Inv, TypeOK
    <2>5. StockMatchesLedger'
        BY <1>1, <1>8, <2>2, <2>3, <2>4 DEF StartCommit, SequentialInv, StockMatchesLedger
    <2>6. sess'[w] = Idle
        BY <1>2, <1>8 DEF StartCommit
    <2> QED BY <1>1, <1>2, <2>5, <2>6 DEF OneAtATime, SequentialInv, MapIsCurrent
<1>9. ASSUME NEW w \in Worker, NEW l \in Lot, NEW to \in {"released", "rejected"}, DisposeRead(w, l, to)
      PROVE  SequentialInv'
    BY <1>2, <1>4, <1>9 DEF DisposeRead, Idle
<1>10. ASSUME NEW w \in Worker, DisposeCommit(w) PROVE SequentialInv'
    BY <1>2, <1>4, <1>10 DEF DisposeCommit
<1>11. ASSUME NEW w \in Worker, NEW g \in Ingredient, NEW delta \in Deltas, Movement(w, g, delta)
       PROVE  SequentialInv'
    <2>1. delta \in Int /\ InitialStock \in [Ingredient -> Nat] /\ stock \in [Ingredient -> Nat] /\ ledger \in [Ingredient -> Int]
        BY <1>1, LotAssumption DEF Inv, TypeOK
    <2>2. StockMatchesLedger'
        BY <1>1, <1>11, <2>1 DEF Movement, SequentialInv, StockMatchesLedger
    <2> QED BY <1>1, <1>11, <2>2 DEF Movement, OneAtATime, SequentialInv, MapIsCurrent
<1>12. CASE Restart
    BY <1>1, <1>2, <1>4, <1>12 DEF Restart, OneAtATime
<1>13. CASE UNCHANGED <<stock, ledger, sess>>
    BY <1>1, <1>13 DEF SequentialInv, StockMatchesLedger, MapIsCurrent
<1> QED
    BY <1>1, <1>5, <1>6, <1>7, <1>8, <1>9, <1>10, <1>11, <1>12, <1>13
       DEF Next, WorkerStep, Hold, Check, ToggleGuard, vars

\* The stock of every ingredient is what its movements add up to, as long as no
\* two requests overlap.
THEOREM SequentialStockMatches == OneAtATime => (Spec => []StockMatchesLedger)
<1>1. SUFFICES ASSUME OneAtATime PROVE Spec => []StockMatchesLedger
    OBVIOUS
<1>2. Init => SequentialInv
    BY LotAssumption DEF Init, SequentialInv, StockMatchesLedger, MapIsCurrent, Idle
<1>3. SequentialInv => StockMatchesLedger
    BY DEF SequentialInv
<1> QED
    BY <1>1, <1>2, <1>3, SequentialStep, InvHolds, PTL DEF Spec
=============================================================================
