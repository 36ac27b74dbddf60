CONSTANTS
    Thread = {t1, t2}
    w1 = w1
    w2 = w2
    w3 = w3
    Worker = {w1, w2, w3}
    Servers = 2
    Crew <- Crews
    FirstId = 100
    LastId = 101
    QueueRoom = 1
    MaxRequests = 3
    MaxMishaps = 1
SPECIFICATION Spec
INVARIANTS FlowTypeOK IdsTellApart NothingElseLoses
PROPERTIES ImplementsCallReturn EveryRequestAnswered ShutdownEnds
\* A thread whose answer is lost waits for ever.
CHECK_DEADLOCK FALSE
