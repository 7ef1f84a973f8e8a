\* The four adapters against every mistake they are written for: up to three
\* flights are kept, with any number of dropped ones between them.
SPECIFICATION Spec
CONSTANTS
    Zone <- MCZone
    Listed = {"CGK", "SUB", "DPS"}
    DayLength = 6
    Request <- MCRequest
    Trips <- MCTrips
    Faults <- Handled
    MaxFlights = 3
INVARIANTS
    TypeOK
    NothingInvented
    NothingMissed
\* Fetch returns.
CHECK_DEADLOCK FALSE
