CONSTANTS
 i1 = i1
 e1 = e1
 c1 = c1
 c2 = c2
 w1 = w1
 w2 = w2
 Incident = {i1}
 Action = {e1, c1, c2}
 IncidentOf <- OneIncident
 Automatic = {e1}
 Worker = {w1}
 MaxAttempts = 2
 MaxRestarts = 1
 MaxInFlight = 1
SPECIFICATION Spec
INVARIANT StatusMatchesActions
