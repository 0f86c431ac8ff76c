SPECIFICATION Spec
CONSTANTS
    MaxFaults = 1
    MaxOutput = 2
    MaxInput = 2
    Candidates = 1
    ExitCode = 7
    OutputCapacity = 1
    InputCapacity = 1
    EventCapacity = 1
    ScreenCapacity = 1
INVARIANT ExitCodeReported
