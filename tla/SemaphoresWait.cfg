\* Three processes, two binary semaphores that are set, removed and made anew, and two
\* undo structures with room for one entry.
SPECIFICATION Spec
CONSTANTS
    Procs = {p1, p2, p3}
    SEMMNI = 1
    NSems = 2
    SEMVMX = 1
    SEMAEM = 1
    SEMUME = 1
    SEMMNU = 2
    SetVals = {0, 1}
    FirstSeq = 0
    MaxRmid = 1
    Paged <- Raise
    Lists <- Waits
    None = None
VIEW View
SYMMETRY Permuted
INVARIANTS NoSleepOnRemoved NoLostWakeup AllOrNothing UndoBalance Accounted
