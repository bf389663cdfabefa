\* As BufferCacheStore.cfg, with one transfer that may fail.
SPECIFICATION Spec
CONSTANTS
    Procs = {p1, p2}
    Daemon = Daemon
    Bufs = {b1, b2, b3}
    Blocks = {k1, k2}
    Devs = {d1}
    DevOf <- OneDev
    InvalDevs = {}
    Values = {v1}
    Junk = Junk
    AsyncMin = 1
    XaBlocks = {None}
    MaxErrors = 1
    None = None
SYMMETRY Symmetry
INVARIANT ReadReturnsBlock
