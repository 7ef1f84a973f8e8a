SPECIFICATION CallsSpec
CONSTANTS
    Callers = {c1, c2}
    Capacity = 1
    Rate = 2
    Unit = 3
    MaxTime = 7
    MaxRetries = 2
    Timeout = 6
    BackoffBase = 1
    BackoffMax = 1
    Delays = {0, 1}
    Statuses = {"ok", "unavailable"}
INVARIANTS
    CallsTypeOK
    ReturnsInTime
    AirlineLoad
    TimeoutMeansQueue
    StarvedByOthers
PROPERTIES
    ImplementsPromises
