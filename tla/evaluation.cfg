CONSTANTS
 Control = {c1}
 Terminal = {t1, t2}
SPECIFICATION Spec
INVARIANTS TypeOK CountedLiveRunsAreRestored OverBudgetIsNeverCounted
SYMMETRY Symmetry
