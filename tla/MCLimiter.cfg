\* Three goroutines share a bucket of two tokens.  A token is three units and a
\* tick earns two of them, so a delay is truncated and a caller can wake up a
\* little early, as it does when time.Duration drops the fraction of a nanosecond.
SPECIFICATION FairSpec
CONSTANTS
    Callers = {c1, c2, c3}
    Capacity = 2
    Rate = 2
    Unit = 3
    MaxTime = 4
INVARIANTS
    TypeOK
    RateBound
    NoIdleToken
PROPERTY WaitReturns
