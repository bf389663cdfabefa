SPECIFICATION Spec
CONSTANTS
    Procs = {p1, p2}
    None = None
    BSIZE = 2
    NFADDR = 2
    Sizes = {3, 5}
    Modes <- ReadOrWrite
    NDelays = {FALSE, TRUE}
    Copies = {TRUE, FALSE}
SYMMETRY Symmetry
INVARIANTS CountsExact NoLostWakeup
PROPERTY IsByteQueue
