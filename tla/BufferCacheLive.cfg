\* Two processes that share the smallest cache there can be, one buffer.
SPECIFICATION FairSpec
CONSTANTS
    Procs = {p1, p2}
    Daemon = Daemon
    Bufs = {b1}
    Blocks = {k1, k2}
    Devs = {d1}
    DevOf <- OneDev
    InvalDevs = {}
    Values = {v1}
    Junk = Junk
    AsyncMin = 0
    XaBlocks = {None}
    MaxErrors = 1
    None = None
PROPERTIES SleepersWake BdwaitEnds
