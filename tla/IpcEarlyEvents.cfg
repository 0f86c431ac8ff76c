SPECIFICATION Spec
CONSTANTS
    Callers = {c1}
    NoCaller = NoCaller
    MaxGeneration = 1
    MaxRequestId = 3
    MaxSubscriptionId = 2
    MaxEvents = 1
    SubscriptionQueue = 1
    EarlyEventLimit = 1
    EarlySubscriptionLimit = 1
INVARIANT EarlyEventsKept
CHECK_DEADLOCK FALSE
