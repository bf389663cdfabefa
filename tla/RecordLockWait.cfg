\* fcntl: three processes, one of which locks with both types, and two files for which
\* there is one header.
\* lockf: three processes and a file of three bytes, with three records.  The processes have
\* the names they have for fcntl; nothing tells them apart here.
SPECIFICATION LocksSpec
CONSTANTS
    MaxEnd = 3
    Procs = {p1, p2, p3}
    Files = {f1, f2}
    Readers = {p1}
    Writers = {p1, p2, p3}
    Ranges <- Whole
    SlpFlgs = {TRUE}
    Recs = 4
    Fils = 1
    MaxRefs = 4
    None = None
    LkProcs = {p1, p2, p3}
    LkFiles = {g1}
    LkCalls <- Sections
    NFLOCKS = 4
    EndOfFile = 3
    Unused = Unused
VIEW LocksView
SYMMETRY Permuted
INVARIANTS RecordsCounted NoLostWakeup RefcntExact DeadflckEnds LockfNoLostWakeup
PROPERTY IsLockf
