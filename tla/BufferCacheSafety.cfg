\* Two processes, two buffers and three blocks of a device that is closed and
\* invalidated now and then; one transfer may fail.
SPECIFICATION Spec
CONSTANTS
    Procs = {p1, p2}
    Daemon = Daemon
    Bufs = {b1, b2}
    Blocks = {k1, k2, k3}
    Devs = {d1}
    DevOf <- OneDev
    InvalDevs = {d1}
    Values = {v1}
    Junk = Junk
    AsyncMin = 0
    XaBlocks = {None}
    MaxErrors = 1
    None = None
SYMMETRY SymmetryOfBlocks
INVARIANTS TypeOK FreeIffNotBusy OneOwner OneBufferPerBlock NoLostWakeup AsyncCounted
PROPERTY BdwaitDrains
