SPECIFICATION FairSpec
CONSTANTS
    Symbols = {a, b}
    NoSymbol = NoSymbol
    MaxIntents = 2
    MaxOpenPositions = 2
    MaxRisk = 1
    Enforced = TRUE
    Faults = {"lag", "resting", "unavailable", "fenced"}
    MaxFaults = 2
INVARIANTS ExposureWithinBudget
PROPERTIES FilledEntryIsManaged
