\* Two keys, so that a sweep has more than one entry to delete, and a clock long
\* enough for entries to expire, be swept and be stored again.
SPECIFICATION FairSpec
CONSTANTS
    Keys = {k1, k2}
    Values = {v1}
    Readers = {r1}
    TTL = 2
    MaxTime = 6
    NoEntry = NoEntry
INVARIANTS
    TypeOK
PROPERTIES
    HitWasCurrent
    MissJustified
    ImplementsMap
    ExpiredSwept
