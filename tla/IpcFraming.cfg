SPECIFICATION Spec
CONSTANTS
    terminal = terminal
    stats = stats
    NoKind = NoKind
    Kinds <- MCKinds
    Cost <- MCCost
    Terminals <- MCTerminals
    MaxSubscriptionId = 2
    RequestIds = {1}
    MaxClientRequests = 1
    MaxClientSubscriptions = 2
    MaxClientStreamTasks = 2
    MaxTerminalSessions = 1
    OutboundQueue = 1
    DoneQueue = 1
    MaxFrames = 3
INVARIANT
    FramingKept
