CONSTANTS
    w1 = w1
    w2 = w2
    w3 = w3
    w4 = w4
    Worker = {w1, w2, w3, w4}
    Servers = 2
    Crew <- Crews
    MaxSections = 3
    MaxSignals = 1
    MaxMishaps = 2
SPECIFICATION Spec
INVARIANTS LockTypeOK ExclusiveUpToSlips NeverLost
PROPERTIES WaitsEnd
\* The behaviour ends when its sections are used up.
CHECK_DEADLOCK FALSE
