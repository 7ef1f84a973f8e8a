\* Two providers and the two retries of DefaultConfig: goroutines overtake each other in every order,
\* a retry races the timeout, and the request may be cancelled at any point.
SPECIFICATION FairSpec
CONSTANTS
    Providers = {garuda, lion}
    MaxRetries = 2
INVARIANTS
    TypeOK
    WaitGroupCounts
    ReturnedComplete
    OutcomeJustified
    OneLateToken
PROPERTIES
    AggregateReturns
    ImplementsPromises
