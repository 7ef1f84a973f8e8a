\* Two requests in every order and overlap: a hit while the request that stored
\* the entry is still presenting it, and two misses at once.
SPECIFICATION Spec
CONSTANTS
    Threads = {t1, t2}
    Requests <- AllRequests
    Airlines <- MCAirlines
    Price <- MCPrice
    MaxPrice = 1
    Dates = {"d1", "d2"}
    ToUpper <- Upper
    ToLower <- Lower
    Split <- Parts
    Printed <- MCPrinted
SYMMETRY Symmetry
INVARIANTS
    TypeOK
    CacheStaysRaw
    RepliesFaithful
PROPERTIES
    ImplementsSearch
