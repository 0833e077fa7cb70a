CONSTANTS
 e1 = e1
 c1 = c1
 analyst = analyst
 validator = validator
 Evidence = {e1}
 Containment = {c1}
 Analyst = {analyst}
 Validator = validator
 Nobody = Nobody
 MaxExecutions = 1
 MaxOrphans = 2
 MaxTries = 2
 MaxRestarts = 1
SPECIFICATION FairSpec
INVARIANTS TypeOK OneIncidentPerAlert ExecutedOnce AcknowledgedIsTriaged AcceptedIsCarriedOut ValidatedIsRestored
PROPERTIES ImplementsLifecycle RepeatedApprovalIsExecuted
\* The system may stop: a validation whose alert never arrived has nothing to do.
CHECK_DEADLOCK FALSE
