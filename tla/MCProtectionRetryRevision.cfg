SPECIFICATION Spec
CONSTANTS
    OrderIds = {o1, o2, o3, o4}
    NoOrder = NoOrder
    Faults = {"unavailable"}
    MaxFaults = 1
    MaxVersion = 4
PROPERTIES RecoveryKeepsLastStop
