\* Every provider may run out of time.
SPECIFICATION Spec
CONSTANTS
    Threads = {t1, t2}
    Requests <- OneLeg
    Airlines <- MCAirlines
    Price <- MCPrice
    MaxPrice = 1
    Dates = {"d1", "d2"}
    ToUpper <- Upper
    ToLower <- Lower
    Split <- Parts
    Printed <- MCPrinted
INVARIANT TimeoutIs504
