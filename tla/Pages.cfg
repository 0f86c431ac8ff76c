SPECIFICATION Spec
CONSTANTS
    Items = {a, b}
    None = None
    MaxActions = 2
    MaxUnderWay = 3
    MaxCrowd = 2
    Pages = {"volumes", "images", "networks", "containers", "files", "logs", "stats", "terminal", "app", "settings"}
    MAX_LOG_LINES = 2
    MAX_LOG_BYTES = 3
    MaxLines = 3
    StatsRequests = {1, 2}
    STATS_HISTORY_CAPACITY = 2
    MaxSeconds = 3
    MaxQueued = 1
    MaxAttempts = 2
INVARIANTS
    TypeOK
    MarksHaveRequests
    DetailOfSelection
    SavedWhole
    LogsInOrder
    SessionsOwned
PROPERTIES
    ListsInOrder
CHECK_DEADLOCK FALSE
SYMMETRY Symmetry
