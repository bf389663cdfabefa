\* Two processes that send and receive while their pages may be out.
SPECIFICATION MsgSpec
CONSTANTS
    MsgProcs = {p1, p2}
    MSGMNI = 1
    MSGTQL = 2
    MSGSEG = 3
    MSGSSZ = 2
    MSGMAP = 5
    MSGMNB = 2
    Sent <- Letters
    MsgAsks <- Asked
    RcvSizes = {1}
    Limits = {4}
    Keys = {}
    MaxMsgRmid = 1
    Nil = Nil
VIEW MsgView
INVARIANT EverythingAvailable
CHECK_DEADLOCK FALSE
