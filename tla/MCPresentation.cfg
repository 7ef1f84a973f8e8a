SPECIFICATION Spec
CONSTANTS
    Lists <- MCLists
    Requests <- MCRequests
    Weights <- MCWeights
    ToUpper <- Upper
    TrimSpace <- Trim
    MaxFlights = 5
INVARIANTS
    TypeOK
    FlightsShown
    PricesSaid
    ScoresFair
    SortedAsAsked
