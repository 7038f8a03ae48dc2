SPECIFICATION Spec
CONSTANTS
    OrderIds = {o1, o2, o3, o4}
    NoOrder = NoOrder
    Faults = {"crash", "unavailable", "lost", "unreadable", "lag", "fenced"}
    MaxFaults = 4
    MaxVersion = 4
SYMMETRY Symmetry
INVARIANTS TypeOK ClosedOnEvidence UnblockedMeansProtected
PROPERTIES MakeBeforeBreak OnlyLegalTransitions
