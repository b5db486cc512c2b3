CONSTANTS
    n1 = n1  n2 = n2  w1 = w1  w2 = w2  a1 = a1
    AgentNotices = {n1}
    RiskNotices = {n2}
    Unreadable = {n2}
    Workers = {w1, w2}
    Admins = {a1}
    AttemptLimit = 2
    MaxFaults = 1
    MaxRevivals = 1
SPECIFICATION Spec
CHECK_DEADLOCK FALSE
INVARIANTS
    DuplicatesExcused
PROPERTIES
    SentIsFinal
    ImplementsDelivery
