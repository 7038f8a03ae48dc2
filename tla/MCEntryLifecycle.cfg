SPECIFICATION Spec
CONSTANTS
    Symbols = {a, b}
    NoSymbol = NoSymbol
    MaxIntents = 2
    MaxOpenPositions = 2
    MaxRisk = 2
    Enforced = FALSE
    Faults = {"crash", "unavailable", "lost", "unreadable", "lag", "fenced", "database"}
    MaxFaults = 3
SYMMETRY Symmetry
INVARIANTS TypeOK OneExposurePerSymbol ReservedUnlessWrittenOff ProjectedOnEvidence
PROPERTIES TerminalCorrectedByFillOnly
