SPECIFICATION Spec
CONSTANTS
    Callers = {c1, c2}
    NoCaller = NoCaller
    MaxGeneration = 2
    MaxRequestId = 2
    MaxSubscriptionId = 1
    MaxEvents = 1
    SubscriptionQueue = 1
    EarlyEventLimit = 1
    EarlySubscriptionLimit = 1
SYMMETRY Symmetry
INVARIANTS
    TypeOK
    PendingExact
    AnswersMatch
CHECK_DEADLOCK FALSE
