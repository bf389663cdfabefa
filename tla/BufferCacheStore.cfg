\* Two processes, three buffers (read-ahead needs two available ones besides the
\* one it holds), two blocks of one device; no transfer fails.
SPECIFICATION Spec
CONSTANTS
    Procs = {p1, p2}
    Daemon = Daemon
    Bufs = {b1, b2, b3}
    Blocks = {k1, k2}
    Devs = {d1}
    DevOf <- OneDev
    InvalDevs = {}
    Values = {v1, v2}
    Junk = Junk
    AsyncMin = 1
    XaBlocks = {None, k2}
    MaxErrors = 0
    None = None
SYMMETRY Symmetry
PROPERTY IsBlockStore
