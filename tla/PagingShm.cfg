\* Shared memory that may be swapped out: three regions for two frames, so that a process
\* that waits for memory finds its region free when it has it.
SPECIFICATION PgSpec
CONSTANTS
    PgProcs = {p1, p2, p3}
    Daemons = {d1}
    Regions = {r1, r2, r3}
    Frames = {f1, f2}
    SwapBlks = {s1, s2, s3}
    File = File
    Values = {v1}
    Zero = Zero
    FileVal = FileVal
    Junk = Junk
    Kinds <- Swappable
    Prep = 1
    Null = Null
PROPERTY FillsDemandPages
CHECK_DEADLOCK FALSE
