CONSTANTS
 Version = {1, 2}
 Ingredient = {g1, g2}
 Lot = {l1, l2}
 Worker = {w1, w2}
 None = None
SPECIFICATION Spec
INVARIANTS TypeOK LotsHaveMaterials
CHECK_DEADLOCK FALSE
