CONSTANTS
 i1 = i1
 e1 = e1
 c1 = c1
 c2 = c2
 w1 = w1
 w2 = w2
 Incident = {i1}
 Action = {c1, c2}
 IncidentOf <- OneIncident
 Automatic = {}
 Worker = {w1, w2}
 MaxAttempts = 2
 MaxRestarts = 1
 MaxInFlight = 1
SPECIFICATION Spec
INVARIANTS TypeOK ContainmentIsApproved OneExecutorPerAction DueWhileExecuting AppliedHasControl RolledBackIsRevoked NoCircularWait
PROPERTIES ImplementsLifecycle PlatformAsEvaluated
SYMMETRY Symmetry
