SPECIFICATION Spec
CONSTANTS
    i1 = i1
    i2 = i2
    i3 = i3
    Instances = {i1, i2, i3}
    Host <- MCHost
    Ttl = 3
    Interval = 3
    JobClock <- MCJobClock
    LocalClock <- MCLocalClock
    MaxSkew = 1
    MaxTime = 6
    Views <- MCViews
    NoOwner = NoOwner
SYMMETRY Symmetry
CHECK_DEADLOCK FALSE
INVARIANTS TypeOK SlotRunsOnce
PROPERTIES TakeoverRaisesToken LeaseIsItsOwners
