SPECIFICATION FairSpec
CONSTANTS
    OrderIds = {o1, o2, o3, o4}
    NoOrder = NoOrder
    Faults = {"unreadable", "lag", "fenced"}
    MaxFaults = 2
    MaxVersion = 4
PROPERTIES FlatIsCleaned
