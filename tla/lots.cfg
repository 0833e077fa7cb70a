CONSTANTS
 l1 = l1
 l2 = l2
 w1 = w1
 w2 = w2
 Lot = {l1, l2}
 Ingredient = {1, 2}
 Need <- SharedNeed
 InitialStock <- TightStock
 Deltas <- Withdrawals
 MaxStock = 3
 Worker = {w1, w2}
 MaxRestarts = 1
SPECIFICATION FairSpec
INVARIANTS TypeOK ConsumptionIsWhole ReleasedIsClean FailedIsHeld NoCircularWait
PROPERTY TransitionsFinish
