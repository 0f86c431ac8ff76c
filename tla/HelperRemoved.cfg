SPECIFICATION Spec
CONSTANTS
    Parts = {"helper"}
    Requests = {r1, r2}
    NoRequest = NoRequest
    Providers = {1}
    Containers = {1, 2}
    Scenarios <- HelperScenarios
    ArchiveScenarios <- ExportScenarios
    memory_threshold = 1
    max_single_bytes = 2
    max_total_bytes = 3
    Callers = {1, 2, 3}
    MaxFlights = 2
    Images = {1, 2}
    MaxMeasured = 2
    Sentinel = 0
    JobKinds = {"create", "clone", "export"}
    DefaultGrace = 1
    TransportSlack = 1
    MaxTimeout = 5
    Unlimited = 99
    MaxGroupConcurrency = 2
    ClientTimeout = 3
    RequestTimeouts = {2}
    Graces = {4, 6}
    MaxNetworks = 3
    MaxTargets = 3
    max_entries = 4
    max_path_bytes = 6
    MaxHops = 3
    TAR_BLOCK = 2
    max_archive_bytes = 20
    max_extension_bytes = 4
    max_entry_bytes = 2
    MaxChunk = 3
    Captures <- TarCaptures
INVARIANTS
    RemovedHasNoSession
CHECK_DEADLOCK FALSE
SYMMETRY Symmetry
