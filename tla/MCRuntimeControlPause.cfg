SPECIFICATION Spec
CONSTANTS
    MaxRequests = 1
    MaxAttempts = 2
    Faults = {"task"}
    MaxFaults = 1
PROPERTIES PauseTakesEffect
