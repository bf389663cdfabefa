\* Two processes that may share read locks of a file of three bytes.
SPECIFICATION Spec
CONSTANTS
    MaxEnd = 3
    Procs = {p1, p2}
    Files = {f1}
    Readers = {p1, p2}
    Writers = {p1, p2}
    Ranges <- Proper
    SlpFlgs = {FALSE}
    Recs = 4
    Fils = 1
    MaxRefs = 3
    None = None
VIEW View
INVARIANT Exclusive
