SPECIFICATION Spec
CONSTANTS
    Airlines = {garuda, lion}
    Conns = {c1, c2, c3}
    TTLs = {0, 30}
INVARIANTS
    TypeOK
    CleanExit
PROPERTIES
    SignalStops
