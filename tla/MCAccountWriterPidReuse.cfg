CONSTANTS
    o1 = o1  o2 = o2
    w1 = w1  w2 = w2
    d1 = d1
    Owners = {o1, o2}
    Workers = {w1, w2}
    Databases = {d1}
    Probeable = {o1}
    PidReuse = TRUE
    LeaseSeconds = 2
    MaxTime = 3
    MaxGeneration = 2
    NoOwner = NoOwner
    NoDb = NoDb
    NoWorker = NoWorker
SPECIFICATION Spec
SYMMETRY Symmetry
CHECK_DEADLOCK FALSE
PROPERTIES
    MutationsInGenerationOrder
