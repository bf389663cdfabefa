------------------------------ MODULE ByteLocks ------------------------------
(***************************************************************************)
(* What the record locks of fcntl promise (os/flock.c): every process has  *)
(* a read lock, a write lock or none on every byte of a file; a request is *)
(* either granted, and then applies to the bytes it names and to no other, *)
(* or refused; no byte is ever locked by two processes of which one has a  *)
(* write lock.  How the locks are kept does not exist at this level.       *)
(***************************************************************************)
EXTENDS Integers

CONSTANTS Procs, Files, Bytes, None

VARIABLES held,   \* [Procs -> [Files -> [Bytes -> {"N", "R", "W"}]]]
          last    \* the last call that returned: who, on what, with which result

vars == <<held, last>>

Init == /\ held = [p \in Procs |-> [f \in Files |-> [b \in Bytes |-> "N"]]]
        /\ last = None

\* The bytes of a request.
Named(r) == {b \in Bytes : r.start <= b /\ b < r.end}

\* Process p's locks on the file of the request become t on the bytes S.
Put(p, r, S, t) ==
    held' = [held EXCEPT ![p][r.file] = [b \in Bytes |-> IF b \in S THEN t ELSE @[b]]]

\* A lock is granted only if no byte of it is locked in a conflicting way.
Lock(p, r) ==
    /\ r.type \in {"R", "W"}
    /\ \A q \in Procs \ {p}, b \in Named(r) :
          held[q][r.file][b] # "N" => held[q][r.file][b] = "R" /\ r.type = "R"
    /\ Put(p, r, Named(r), r.type)

Unlock(p, r) == r.type = "U" /\ Put(p, r, Named(r), "N")

\* A process may use bytes that nobody else has locked ("T": to test, to read or write
\* them); its own locks stay as they are.
Use(p, r) ==
    /\ r.type = "T"
    /\ \A q \in Procs \ {p}, b \in Named(r) : held[q][r.file][b] = "N"
    /\ UNCHANGED held

Close(p, r) == r.type = "C" /\ Put(p, r, Bytes, "N")

\* A request that fails leaves the locks alone; one that fails for want of a
\* lock record may have given up some that it was to replace.
Fail(p, r, e) == \/ UNCHANGED held
                 \/ /\ e = "ENOSPC"
                    /\ \E S \in SUBSET Named(r) : Put(p, r, S, "N")

\* The call of p with the request r returns.
Return(p, r, res) ==
    /\ last' = [p |-> p, r |-> r, res |-> res]
    /\ IF res = "ok" THEN Lock(p, r) \/ Unlock(p, r) \/ Close(p, r) \/ Use(p, r)
                     ELSE Fail(p, r, res)

Next == last' # None /\ \E call \in {last'} : Return(call.p, call.r, call.res)

Spec == Init /\ [][Next]_vars
=============================================================================
