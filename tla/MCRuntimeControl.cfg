SPECIFICATION FairSpec
CONSTANTS
    MaxRequests = 2
    MaxAttempts = 2
    Faults = {"task", "failure", "stall", "exit", "database"}
    MaxFaults = 2
INVARIANTS TypeOK HoldIsDurable
PROPERTIES PauseIsTheOperators EnabledOnEvidence HoldIsReleased
