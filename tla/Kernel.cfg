\* One run of the five tables that share no state: "part" says which of them moves.
\* Record locks: q1 locks and unlocks with both types; the four lock records run out.
\* Processes stop for good when locked pages fill the memory (StopsOnlyWhenLocked).
SPECIFICATION KernelSpec
CONSTANTS
    Parts = {"rec", "msg", "mem", "ino", "clk"}
    MaxEnd = 4
    Procs = {q1, q2}
    Files = {g1}
    Readers = {q1}
    Writers = {q1, q2}
    Ranges <- Proper
    SlpFlgs = {FALSE}
    Recs = 4
    Fils = 1
    MaxRefs = 1
    None = None
    MsgProcs = {p1, p2}
    MSGMNI = 1
    MSGTQL = 2
    MSGSEG = 3
    MSGSSZ = 2
    MSGMAP = 5
    MSGMNB = 2
    Sent <- Letters
    MsgAsks <- Asked
    RcvSizes = {1}
    Limits = {4}
    Keys = {}
    MaxMsgRmid = 1
    Nil = Nil
    PgProcs = {p1, p2}
    Daemons = {d1, d2}
    Regions = {r1, r2}
    Frames = {f1, f2}
    SwapBlks = {s1, s2}
    File = File
    Values = {v1}
    Zero = Zero
    FileVal = FileVal
    Junk = Junk
    Kinds <- Programs
    Prep = 1
    Null = Null
    Iprocs = {p1, p2}
    Islots = {f1, f2}
    NInodes = 3
    INOPB = 2
    NICINOD = 2
    MAXLINK = 2
    Dirs = {1}
    LinkRaces = FALSE
    Nobody = Nobody
    Funs = {fa, fb, fc}
    Periodic = {fa}
    Delays = {1, 2, 3}
    NCALL = 5
    Drivers = FALSE
    Nofun = Nofun
VIEW KernelView
SYMMETRY KernelSymmetry
CHECK_DEADLOCK FALSE
INVARIANTS ListSorted HeadersExact PoolExact MsgNoLostWakeup FramesExact SwapExact NoPanic
           StopsOnlyWhenLocked InCoreExact InoNoLostWakeup NamesCounted
PROPERTIES IsByteLocks IsMessageStore IsAddressSpace IsFileStore IsTimers
