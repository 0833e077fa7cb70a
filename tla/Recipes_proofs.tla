--------------------------- MODULE Recipes_proofs ---------------------------
(***************************************************************************)
(* Recipes keeps its types and never plans a lot without materials, for    *)
(* any number of versions, ingredients, lots and concurrent requests.      *)
(***************************************************************************)
EXTENDS Recipes, TLAPS

\* What a request has read is still true when it commits: versions are neither
\* emptied nor taken back, so no lock is needed for these facts (the content of
\* a recipe is another matter, see LotRecipeImmutable).
ReadIsTrue == \A w \in Worker :
    /\ sess[w].op \in {"create", "add", "approve", "plan"} => sess[w].version \in Version
    /\ sess[w].op = "add" => sess[w].ingredient \in Ingredient
    /\ sess[w].op = "plan" => sess[w].lot \in Lot /\ status[sess[w].version] = "approved"
    /\ sess[w].op \in {"approve", "plan"} => items[sess[w].version] # {}

ApprovedIsNotEmpty == \A v \in Version : status[v] = "approved" => items[v] # {}

Inv == TypeOK /\ LotsHaveMaterials /\ ReadIsTrue /\ ApprovedIsNotEmpty

LEMMA InitInv == Init => Inv
BY RecipesAssumption DEF Init, Inv, TypeOK, LotsHaveMaterials, ReadIsTrue, ApprovedIsNotEmpty, Idle, Session

\* A request that has read its rows adds to what the invariant says of requests.
LEMMA BeginKeeps ==
    ASSUME Inv, NEW w \in Worker, NEW s \in Session, Begin(w, s),
           s.op \in {"create", "add", "approve", "plan"} => s.version \in Version,
           s.op = "add" => s.ingredient \in Ingredient,
           s.op = "plan" => s.lot \in Lot /\ status[s.version] = "approved",
           s.op \in {"approve", "plan"} => items[s.version] # {}
    PROVE  Inv'
BY DEF Inv, TypeOK, LotsHaveMaterials, ReadIsTrue, ApprovedIsNotEmpty, Begin

\* A request that commits leaves the others true: versions only advance and
\* items are only added.
LEMMA CommitKeeps ==
    ASSUME Inv, NEW w \in Worker, NEW op, Commits(w, op),
           status' \in [Version -> {"absent", "draft", "approved"}],
           items' \in [Version -> SUBSET Ingredient],
           \A v \in Version : status[v] = "approved" => status'[v] = "approved",
           \A v \in Version : items[v] \subseteq items'[v],
           \A v \in Version : status'[v] = "approved" => items'[v] # {},
           recipe' \in [Lot -> Version \union {None}], planned' \in [Lot -> SUBSET Ingredient],
           \A l \in Lot : recipe'[l] # None => status'[recipe'[l]] = "approved"
    PROVE  Inv'
<1>1. sess' \in [Worker -> Session] /\ (\A u \in Worker : sess'[u] = Idle \/ sess'[u] = sess[u])
    BY DEF Inv, TypeOK, Commits, Session, Idle
<1>2. TypeOK'
    BY <1>1 DEF TypeOK
<1>3. LotsHaveMaterials'
    BY DEF LotsHaveMaterials
<1>4. ReadIsTrue'
    BY <1>1 DEF Inv, TypeOK, ReadIsTrue, Idle
<1> QED
    BY <1>2, <1>3, <1>4 DEF Inv, ApprovedIsNotEmpty

LEMMA StepInv == Inv /\ [Next]_vars => Inv'
<1>1. SUFFICES ASSUME Inv, [Next]_vars PROVE Inv'
    OBVIOUS
<1> USE DEF Inv, TypeOK
<1>2. ASSUME NEW w \in Worker, NEW v \in Version, CreateRecipeRead(w, v) \/ ApproveRead(w, v) PROVE Inv'
    <2>1. PICK op \in {"create", "approve"} :
              /\ Begin(w, [Idle EXCEPT !.op = op, !.version = v])
              /\ op = "approve" => items[v] # {}
        BY <1>2 DEF CreateRecipeRead, ApproveRead, Approvable
    <2> DEFINE s == [Idle EXCEPT !.op = op, !.version = v]
    <2>2. s \in Session /\ s.op = op /\ s.version = v
        BY <2>1 DEF Idle, Session
    <2> HIDE DEF s
    <2> QED BY <1>1, <2>1, <2>2, BeginKeeps DEF s
<1>3. ASSUME NEW w \in Worker, NEW v \in Version, NEW g \in Ingredient, AddItemRead(w, v, g) PROVE Inv'
    <2> DEFINE s == [Idle EXCEPT !.op = "add", !.version = v, !.ingredient = g]
    <2>1. s \in Session /\ s.op = "add" /\ s.version = v /\ s.ingredient = g
        BY DEF Idle, Session
    <2>2. Begin(w, s)
        BY <1>3 DEF AddItemRead
    <2> HIDE DEF s
    <2> QED BY <1>1, <2>1, <2>2, BeginKeeps
<1>4. ASSUME NEW w \in Worker, NEW l \in Lot, PlanLotRead(w, l) PROVE Inv'
    <2>1. PICK v \in Approved : Begin(w, [Idle EXCEPT !.op = "plan", !.version = v, !.lot = l])
        BY <1>4 DEF PlanLotRead
    <2> DEFINE s == [Idle EXCEPT !.op = "plan", !.version = v, !.lot = l]
    <2>2. s \in Session /\ s.op = "plan" /\ s.version = v /\ s.lot = l
        BY <2>1 DEF Idle, Session, Approved
    <2>3. v \in Version /\ status[v] = "approved" /\ items[v] # {}
        BY <1>1, <2>1 DEF Approved, ApprovedIsNotEmpty
    <2> HIDE DEF s
    <2> QED BY <1>1, <2>1, <2>2, <2>3, BeginKeeps DEF s
<1>5. ASSUME NEW w \in Worker, CreateRecipeCommit(w) PROVE Inv'
    <2>1. sess[w].version \in Version /\ Commits(w, "create")
        BY <1>1, <1>5 DEF CreateRecipeCommit, Commits, ReadIsTrue
    <2>2. /\ status' \in [Version -> {"absent", "draft", "approved"}]
          /\ \A v \in Version : status[v] = "approved" <=> status'[v] = "approved"
        BY <1>1, <1>5, <2>1 DEF CreateRecipeCommit
    <2> QED BY <1>1, <1>5, <2>1, <2>2, CommitKeeps DEF CreateRecipeCommit, LotsHaveMaterials, ApprovedIsNotEmpty
<1>6. ASSUME NEW w \in Worker, AddItemCommit(w) PROVE Inv'
    <2>1. sess[w].version \in Version /\ sess[w].ingredient \in Ingredient /\ Commits(w, "add")
        BY <1>1, <1>6 DEF AddItemCommit, Commits, ReadIsTrue
    <2>2. items' \in [Version -> SUBSET Ingredient] /\ (\A v \in Version : items[v] \subseteq items'[v])
        BY <1>1, <1>6, <2>1 DEF AddItemCommit
    <2> QED BY <1>1, <1>6, <2>1, <2>2, CommitKeeps DEF AddItemCommit, LotsHaveMaterials, ApprovedIsNotEmpty
<1>7. ASSUME NEW w \in Worker, ApproveCommit(w) PROVE Inv'
    <2>1. sess[w].version \in Version /\ items[sess[w].version] # {} /\ Commits(w, "approve")
        BY <1>1, <1>7 DEF ApproveCommit, Commits, ReadIsTrue
    <2>2. /\ status' \in [Version -> {"absent", "draft", "approved"}]
          /\ \A v \in Version : status[v] = "approved" => status'[v] = "approved"
          /\ \A v \in Version : status'[v] = "approved" => items[v] # {}
        BY <1>1, <1>7, <2>1 DEF ApproveCommit, ApprovedIsNotEmpty
    <2> QED BY <1>1, <1>7, <2>1, <2>2, CommitKeeps DEF ApproveCommit, LotsHaveMaterials
<1>8. ASSUME NEW w \in Worker, PlanLotCommit(w) PROVE Inv'
    <2>1. /\ sess[w].version \in Version /\ sess[w].lot \in Lot /\ status[sess[w].version] = "approved"
          /\ Commits(w, "plan")
        BY <1>1, <1>8 DEF PlanLotCommit, Commits, ReadIsTrue
    <2>2. /\ recipe' \in [Lot -> Version \union {None}] /\ planned' \in [Lot -> SUBSET Ingredient]
          /\ \A l \in Lot : recipe'[l] # None => status[recipe'[l]] = "approved"
        BY <1>1, <1>8, <2>1 DEF PlanLotCommit, LotsHaveMaterials
    <2> QED BY <1>1, <1>8, <2>1, <2>2, CommitKeeps DEF PlanLotCommit, ApprovedIsNotEmpty
<1>9. CASE UNCHANGED vars
    BY <1>1, <1>9 DEF vars, LotsHaveMaterials, ReadIsTrue, ApprovedIsNotEmpty
<1> QED
    BY <1>1, <1>2, <1>3, <1>4, <1>5, <1>6, <1>7, <1>8, <1>9 DEF Next

LEMMA InvHolds == Spec => []Inv
BY InitInv, StepInv, PTL DEF Spec

\* Every variable keeps its type.
THEOREM RecipeTypes == Spec => []TypeOK
BY InvHolds, PTL DEF Inv

\* A lot refers to an approved recipe with at least one ingredient, though the
\* recipe was read without a lock before the lot was written.
THEOREM MaterialsForEveryLot == Spec => []LotsHaveMaterials
BY InvHolds, PTL DEF Inv

(***************************************************************************)
(* Requests one at a time: an ingredient is only ever added to a draft,    *)
(* and no lot refers to a draft.                                           *)
(***************************************************************************)

OneAtATime == \E w \in Worker : \A v \in Worker : v = w

AddsToDraft == \A w \in Worker : sess[w].op = "add" => status[sess[w].version] = "draft"

SequentialInv == AddsToDraft /\ LotRecipeImmutable

LEMMA SequentialStep == OneAtATime /\ Inv /\ SequentialInv /\ [Next]_vars => SequentialInv'
<1>1. SUFFICES ASSUME OneAtATime, Inv, SequentialInv, [Next]_vars PROVE SequentialInv'
    OBVIOUS
<1> USE DEF Inv, TypeOK, SequentialInv
<1>2. ASSUME NEW w \in Worker, NEW v \in Version, CreateRecipeRead(w, v) \/ ApproveRead(w, v) PROVE SequentialInv'
    <2>1. /\ sess'[w].op # "add" /\ (\A u \in Worker \ {w} : sess'[u] = sess[u])
          /\ UNCHANGED <<status, items, recipe, planned>>
        BY <1>1, <1>2 DEF CreateRecipeRead, ApproveRead, Begin, Idle
    <2> QED BY <1>1, <2>1 DEF AddsToDraft, LotRecipeImmutable
<1>3. ASSUME NEW w \in Worker, NEW v \in Version, NEW g \in Ingredient, AddItemRead(w, v, g) PROVE SequentialInv'
    <2>1. /\ sess'[w].version = v /\ status[v] = "draft" /\ (\A u \in Worker \ {w} : sess'[u] = sess[u])
          /\ UNCHANGED <<status, items, recipe, planned>>
        BY <1>1, <1>3 DEF AddItemRead, Editable, Begin, Idle
    <2> QED BY <1>1, <2>1 DEF AddsToDraft, LotRecipeImmutable
<1>4. ASSUME NEW w \in Worker, NEW l \in Lot, PlanLotRead(w, l) PROVE SequentialInv'
    <2>1. /\ sess'[w].op # "add" /\ (\A u \in Worker \ {w} : sess'[u] = sess[u])
          /\ UNCHANGED <<status, items, recipe, planned>>
        BY <1>1, <1>4 DEF PlanLotRead, Begin, Idle
    <2> QED BY <1>1, <2>1 DEF AddsToDraft, LotRecipeImmutable
<1>5. ASSUME NEW w \in Worker, CreateRecipeCommit(w) \/ AddItemCommit(w) \/ ApproveCommit(w) \/ PlanLotCommit(w)
      PROVE  AddsToDraft'
    <2>1. sess'[w] = Idle
        BY <1>1, <1>5 DEF CreateRecipeCommit, AddItemCommit, ApproveCommit, PlanLotCommit, Commits
    <2> QED BY <1>1, <2>1 DEF OneAtATime, AddsToDraft, Idle
<1>6. ASSUME NEW w \in Worker, CreateRecipeCommit(w) \/ ApproveCommit(w) PROVE SequentialInv'
    BY <1>1, <1>5, <1>6 DEF CreateRecipeCommit, ApproveCommit, LotRecipeImmutable
<1>7. ASSUME NEW w \in Worker, AddItemCommit(w) PROVE SequentialInv'
    <2>1. status[sess[w].version] = "draft"
        BY <1>1, <1>7 DEF AddItemCommit, Commits, AddsToDraft
    <2>2. \A l \in Lot : recipe[l] # None => recipe[l] \in Version \ {sess[w].version}
        BY <1>1, <2>1 DEF LotsHaveMaterials
    <2> QED BY <1>1, <1>5, <1>7, <2>2 DEF AddItemCommit, LotRecipeImmutable
<1>8. ASSUME NEW w \in Worker, PlanLotCommit(w) PROVE SequentialInv'
    BY <1>1, <1>5, <1>8 DEF PlanLotCommit, LotRecipeImmutable
<1>9. CASE UNCHANGED vars
    BY <1>1, <1>9 DEF vars, AddsToDraft, LotRecipeImmutable
<1> QED
    BY <1>1, <1>2, <1>3, <1>4, <1>6, <1>7, <1>8, <1>9 DEF Next

\* What transition_lot will consume for a lot is what its recipe said when the
\* lot was planned, as long as no two requests overlap.
THEOREM SequentialRecipeStays == OneAtATime => (Spec => []LotRecipeImmutable)
<1>1. SUFFICES ASSUME OneAtATime PROVE Spec => []LotRecipeImmutable
    OBVIOUS
<1>2. Init => SequentialInv
    BY DEF Init, SequentialInv, AddsToDraft, LotRecipeImmutable, Idle
<1>3. SequentialInv => LotRecipeImmutable
    BY DEF SequentialInv
<1> QED
    BY <1>1, <1>2, <1>3, SequentialStep, InvHolds, PTL DEF Spec
=============================================================================
