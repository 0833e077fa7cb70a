------------------------------- MODULE Recipes -------------------------------
(***************************************************************************)
(* The recipe versions of a product and the lots planned from them         *)
(* (web/production.py).  Every request reads what it needs without a lock  *)
(* and writes when it commits; unique indexes refuse a duplicate version,  *)
(* ingredient of a recipe or lot.                                          *)
(***************************************************************************)
EXTENDS Naturals

CONSTANTS
    Version,       \* version numbers of the product's recipes
    Ingredient,
    Lot,
    Worker,        \* concurrent requests
    None           \* no version, no ingredient, no lot

ASSUME RecipesAssumption ==
    /\ Version \subseteq Nat
    /\ None \notin Version \union Ingredient \union Lot

VARIABLES
    status,    \* status[v] of the recipe
    items,     \* items[v]: the ingredients of the recipe
    recipe,    \* recipe[l]: the version the lot refers to
    planned,   \* planned[l]: the ingredients of that version when the lot was planned
    sess       \* the open transaction of each worker

vars == <<status, items, recipe, planned, sess>>

Idle == [op |-> "none", version |-> None, ingredient |-> None, lot |-> None]
Session == [op : {"none", "create", "add", "approve", "plan"}, version : Version \union {None},
            ingredient : Ingredient \union {None}, lot : Lot \union {None}]

Init ==
    /\ status = [v \in Version |-> "absent"]
    /\ items = [v \in Version |-> {}]
    /\ recipe = [l \in Lot |-> None]
    /\ planned = [l \in Lot |-> {}]
    /\ sess = [w \in Worker |-> Idle]

Begin(w, s) ==
    /\ sess[w] = Idle
    /\ sess' = [sess EXCEPT ![w] = s]
    /\ UNCHANGED <<status, items, recipe, planned>>

\* Mutation of Commits: the session is marked instead of closed.
CommitsMarked(w, op) == sess[w].op = op /\ sess' = [sess EXCEPT ![w].op = "committed"]

Commits(w, op) == sess[w].op = op /\ sess' = [sess EXCEPT ![w] = Idle]

-----------------------------------------------------------------------------

CreateRecipeRead(w, v) ==
    /\ status[v] = "absent"
    /\ Begin(w, [Idle EXCEPT !.op = "create", !.version = v])

\* The second of two equal versions breaks uq_recipes_product_version.
CreateRecipeCommit(w) ==
    LET v == sess[w].version IN
    /\ Commits(w, "create")
    /\ status' = [status EXCEPT ![v] = IF @ = "absent" THEN "draft" ELSE @]
    /\ UNCHANGED <<items, recipe, planned>>

Editable(v, g) == status[v] = "draft" /\ g \notin items[v]

AddItemRead(w, v, g) ==
    /\ Editable(v, g)
    /\ Begin(w, [Idle EXCEPT !.op = "add", !.version = v, !.ingredient = g])

\* The insert does not look at the recipe again; an ingredient that is there by
\* now breaks uq_recipe_items_recipe_ingredient and nothing changes.
AddItemCommit(w) ==
    /\ Commits(w, "add")
    /\ items' = [items EXCEPT ![sess[w].version] = @ \union {sess[w].ingredient}]
    /\ UNCHANGED <<status, recipe, planned>>

\* Mutation of Approvable: an empty recipe is approved.
ApprovableEmpty(v) == status[v] = "draft"

Approvable(v) == status[v] = "draft" /\ items[v] # {}

ApproveRead(w, v) ==
    /\ Approvable(v)
    /\ Begin(w, [Idle EXCEPT !.op = "approve", !.version = v])

ApproveCommit(w) ==
    /\ Commits(w, "approve")
    /\ status' = [status EXCEPT ![sess[w].version] = "approved"]
    /\ UNCHANGED <<items, recipe, planned>>

Approved == {v \in Version : status[v] = "approved"}

\* A lot is planned from the latest approved version.
PlanLotRead(w, l) ==
    /\ recipe[l] = None
    /\ \E v \in Approved :
          /\ \A u \in Approved : u <= v
          /\ Begin(w, [Idle EXCEPT !.op = "plan", !.version = v, !.lot = l])

PlanLotCommit(w) ==
    LET l == sess[w].lot
        v == sess[w].version
    IN
    /\ Commits(w, "plan")
    /\ IF recipe[l] = None
       THEN /\ recipe' = [recipe EXCEPT ![l] = v]
            /\ planned' = [planned EXCEPT ![l] = items[v]]
       ELSE UNCHANGED <<recipe, planned>>
    /\ UNCHANGED <<status, items>>

Next == \E w \in Worker :
    \/ \E v \in Version : CreateRecipeRead(w, v) \/ ApproveRead(w, v)
    \/ \E v \in Version, g \in Ingredient : AddItemRead(w, v, g)
    \/ \E l \in Lot : PlanLotRead(w, l)
    \/ CreateRecipeCommit(w) \/ AddItemCommit(w) \/ ApproveCommit(w) \/ PlanLotCommit(w)

Spec == Init /\ [][Next]_vars

-----------------------------------------------------------------------------
(* Properties *)

\* Every variable keeps its type.
TypeOK ==
    /\ status \in [Version -> {"absent", "draft", "approved"}]
    /\ items \in [Version -> SUBSET Ingredient]
    /\ recipe \in [Lot -> Version \union {None}]
    /\ planned \in [Lot -> SUBSET Ingredient]
    /\ sess \in [Worker -> Session]

\* A lot refers to an approved recipe with at least one ingredient, which a
\* version does not lose once lots may be planned from it.
LotsHaveMaterials == \A l \in Lot :
    recipe[l] # None => status[recipe[l]] = "approved" /\ items[recipe[l]] # {}

\* What transition_lot will consume for a lot is what its recipe said when the
\* lot was planned.  True of requests that run one after another.
LotRecipeImmutable == \A l \in Lot : recipe[l] # None => items[recipe[l]] = planned[l]
=============================================================================
