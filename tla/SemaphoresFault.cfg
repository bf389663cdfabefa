\* A page fault in the copy of the operations.
SPECIFICATION Spec
CONSTANTS
    Procs = {p1, p2}
    SEMMNI = 1
    NSems = 2
    SEMVMX = 2
    SEMAEM = 2
    SEMUME = 1
    SEMMNU = 2
    SetVals = {}
    FirstSeq = 0
    MaxRmid = 1
    Paged <- Mixed
    Lists <- Mixed
    None = None
PROPERTY OnlyNamedSet
