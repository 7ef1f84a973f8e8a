\* An airline that names no zone, against the words of the README.
SPECIFICATION Spec
CONSTANTS
    Zone <- MCZone
    Listed = {"CGK", "SUB", "DPS"}
    DayLength = 6
    Request <- MCRequest
    Trips <- MCTrips
    Faults = {"noZone"}
    MaxFlights = 2
INVARIANT NoZoneIsLookedUp
CHECK_DEADLOCK FALSE
