------------------------------ MODULE MCLocks ------------------------------
(* The locks of fcntl and those of lockf, which know nothing of each other: which of   *)
(* them is exercised is chosen at the start.                                           *)
EXTENDS MCRecordLock, Lockf

VARIABLE locking

LocksInit == Init /\ LkInit /\ locking \in {"fcntl", "lockf"}

FcntlStep == locking = "fcntl" /\ Next /\ UNCHANGED <<lkVars, locking>>
LockfStep == locking = "lockf" /\ LkNext /\ UNCHANGED <<vars, locking>>

LocksSpec == LocksInit /\ [][FcntlStep \/ LockfStep]_<<vars, lkVars, locking>>

\* The first byte (from behind it), the second one, and all but the first.
Sections == {<<1, -2>>, <<1, 1>>, <<1, 0>>}

\* No step depends on the calls that have returned.
LocksView == <<View, locklist, lkWchan, lkPc, lkReq, locking>>
=============================================================================
