CONSTANTS
 Control = {c1}
 Terminal = {t1, t2}
SPECIFICATION Spec
INVARIANT CountedRunsHaveResponse
SYMMETRY Symmetry
