CONSTANTS
 l1 = l1
 l2 = l2
 w1 = w1
 w2 = w2
 Lot = {l1, l2}
 Ingredient = {1, 2}
 Need <- SharedNeed
 InitialStock <- SmallStock
 Deltas <- Movements
 MaxStock = 2
 Worker = {w1, w2}
 MaxRestarts = 1
SPECIFICATION Spec
INVARIANT StockMatchesLedger
