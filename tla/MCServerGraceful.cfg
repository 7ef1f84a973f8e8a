SPECIFICATION Spec
CONSTANTS
    Airlines = {garuda}
    Conns = {c1}
    TTLs = {30}
INVARIANTS
    InFlightFinish
