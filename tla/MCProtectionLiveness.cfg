SPECIFICATION FairSpec
CONSTANTS
    OrderIds = {o1, o2, o3, o4}
    NoOrder = NoOrder
    Faults = {"crash", "unavailable", "unreadable", "lost", "fenced"}
    MaxFaults = 3
    MaxVersion = 4
INVARIANTS FiredStopNotQuarantined
PROPERTIES StopFillProjected NakedIsResolved
