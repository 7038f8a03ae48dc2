SPECIFICATION FairSpec
CONSTANTS
    Configs = {c1, c2, c3}
    CycleIds = {"k1"}
    Editors = {e1, e2}
    Sizers = {s1}
    Cycles = {k, m}
    Scripts = {x}
    MaxRequests = 3
    MaxFaults = 1
    NoConfig = NoConfig
INVARIANTS TypeOK
PROPERTIES AtomicUnlessOvertaken StagedTakesEffect
