----------------------------- MODULE RecordLock -----------------------------
(***************************************************************************)
(* Record locks of fcntl, os/flock.c: processes that lock, wait for, test  *)
(* and unlock ranges of bytes of files, with the detection of deadlocks    *)
(* and the tables of lock records and of file headers that may be full.    *)
(*                                                                         *)
(* The kernel is not preempted, and nothing here sleeps but setflck: from  *)
(* the entry of a call to its end or its sleep nobody else runs ("try").   *)
(***************************************************************************)
EXTENDS FlockList, FiniteSets

CONSTANTS Procs, Files,
          Readers, Writers,  \* who has the file open for reading, for writing
          Ranges,            \* the l_start and l_len of requests, as pairs
          SlpFlgs,           \* F_SETLK (FALSE), F_SETLKW (TRUE)
          Recs,              \* flckinfo.recs, the lock records there are
          Fils,              \* flckinfo.fils, the file headers there are
          MaxRefs,           \* bound: references to one header
          None

ASSUME RecordLockAssumption ==
    /\ Readers \subseteq Procs /\ Writers \subseteq Procs
    /\ Ranges \subseteq Int \X Int /\ SlpFlgs \subseteq BOOLEAN
    /\ Recs \in Nat /\ Fils \in Nat /\ MaxRefs \in Nat
    /\ None \notin Procs
    /\ IsFiniteSet(Procs) /\ IsFiniteSet(Files)

VARIABLES
    locks,    \* [Files -> Seq of locks]: fl_flck of the file's header
    hdr,      \* the files that have a header (fids)
    refcnt,   \* [Files -> Nat]: fl_refcnt
    reccnt,   \* flckinfo.reccnt, the lock records in use
    blkpid,   \* [Procs -> Procs or None]: blkpid of the process's entry in
              \* sleeplcks, None when it has none
    pc,       \* [Procs -> {"user", "try", "asleep", "woken"}]
    req,      \* [Procs -> the request of the call in progress, or None]
    last      \* the last call that returned: who, on what, with which result

vars == <<locks, hdr, refcnt, reccnt, blkpid, pc, req, last>>

Init == /\ locks = [f \in Files |-> <<>>]
        /\ hdr = {}
        /\ refcnt = [f \in Files |-> 0]
        /\ reccnt = 0
        /\ blkpid = [p \in Procs |-> None]
        /\ pc = [p \in Procs |-> "user"]
        /\ req = [p \in Procs |-> None]
        /\ last = None

-----------------------------------------------------------------------------
\* The processor is free: no process is in the middle of a call.
Idle == \A p \in Procs : pc[p] # "try"

\* The call of p with request r returns res.
Return(p, r, res) == last' = [p |-> p, r |-> r, res |-> res]

\* freefid: give up a reference to the header of f, whose list is now l, and
\* the header with the last one if no lock is left.
Freefid(f, l) ==
    /\ refcnt' = [refcnt EXCEPT ![f] = IF @ <= 1 /\ l = <<>> THEN 0 ELSE @ - 1]
    /\ hdr' = IF refcnt[f] <= 1 /\ l = <<>> THEN hdr \ {f} ELSE hdr

\* The processes of W are woken; p, whose call ends, leaves for user mode.
Finish(p, W) ==
    /\ pc' = [q \in Procs |-> CASE q = p -> "user"
                                [] q \in W /\ pc[q] = "asleep" -> "woken"
                                [] OTHER -> pc[q]]
    /\ req' = [req EXCEPT ![p] = None]

-----------------------------------------------------------------------------
(* setflck *)

\* The file is not open for this type of lock.
Denied(p, t) == (t = "R" /\ p \notin Readers) \/ (t = "W" /\ p \notin Writers)

\* convoff, after which start counts from the beginning of the file.
Convoff(start) == IF start < 0 THEN "EINVAL" ELSE "ok"

Request(f, t, g, slp) ==
    [file |-> f, type |-> t, start |-> g[1], end |-> EndOf(g[1], g[2]), slp |-> slp]

\* The call ends at once: no permission, no such place, nothing to unlock, or no
\* header to be had.
SetflckRefuse(p, r) ==
    LET res == IF Denied(p, r.type) THEN "EBADF"
               ELSE IF Convoff(r.start) # "ok" THEN "EINVAL"
               ELSE IF r.type = "U" THEN "ok" ELSE "EMFILE"
    IN  /\ Idle /\ pc[p] = "user"
        /\ \/ Denied(p, r.type)
           \/ Convoff(r.start) # "ok"
           \/ r.file \notin hdr /\ (r.type = "U" \/ Cardinality(hdr) >= Fils)
        /\ Return(p, r, res)
        /\ UNCHANGED <<locks, hdr, refcnt, reccnt, blkpid, pc, req>>

\* findfid or allocfid: take a reference to the header of the file, and go on.
Setflck(p, r) ==
    /\ Idle /\ pc[p] = "user"
    /\ ~Denied(p, r.type) /\ Convoff(r.start) = "ok"
    /\ r.file \in hdr \/ (r.type # "U" /\ Cardinality(hdr) < Fils)
    /\ hdr' = hdr \cup {r.file}
    /\ refcnt' = [refcnt EXCEPT ![r.file] = @ + 1]
    /\ pc' = [pc EXCEPT ![p] = "try"]
    /\ req' = [req EXCEPT ![p] = r]
    /\ UNCHANGED <<locks, reccnt, blkpid, last>>

\* The lock in the way of p, 0 if none is; an unlock is never in anybody's way.
Found(p) == IF req[p].type = "U" THEN 0
            ELSE Blocked(locks[req[p].file], p, req[p])

\* Nothing in the way: do it.
SetflckAdjust(p) ==
    LET r == req[p]
        l == locks[r.file]
        i == IF r.type = "U" THEN (IF l = <<>> THEN 0 ELSE 1) ELSE Insrt(l, p, r)
        a == Flckadj(l, i, r, p, Recs - reccnt)
    IN  /\ pc[p] = "try" /\ Found(p) = 0
        /\ locks' = [locks EXCEPT ![r.file] = a.l]
        /\ reccnt' = Recs - a.nfree
        /\ Return(p, r, a.rv)
        /\ Freefid(r.file, a.l)
        /\ Finish(p, a.woken)
        /\ UNCHANGED blkpid

\* deadflck: going from the blocking process to the one that blocks it, and so
\* on, comes to p: every set of processes closed under blkpid that has q in it
\* has p in it.
Deadflck(p, q) ==
    \A S \in SUBSET Procs :
        q \in S /\ (\A x \in S : blkpid[x] # None => blkpid[x] \in S) => p \in S

\* A lock is in the way, and p does not wait for it, or may not.
SetflckFail(p) ==
    LET r == req[p]
        l == locks[r.file]
    IN  /\ pc[p] = "try" /\ Found(p) # 0
        /\ LET res == IF ~r.slp THEN "EACCES"
                      ELSE IF Deadflck(p, l[Found(p)].pid) THEN "EDEADLK" ELSE "ENOSPC"
           IN  (res = "ENOSPC" => reccnt = Recs) /\ Return(p, r, res)
        /\ Freefid(r.file, l)
        /\ Finish(p, {})
        /\ UNCHANGED <<locks, reccnt, blkpid>>

\* Fault: deadflck is not asked.
SetflckSleepUnchecked(p) ==
    LET r == req[p]
        l == locks[r.file]
        i == Found(p)
    IN  /\ pc[p] = "try" /\ i # 0
        /\ r.slp /\ reccnt < Recs
        /\ locks' = [locks EXCEPT ![r.file][i] = [l[i] EXCEPT !.wakeflg = TRUE,
                                                            !.slp = @ \cup {p}]]
        /\ blkpid' = [blkpid EXCEPT ![p] = l[i].pid]
        /\ reccnt' = reccnt + 1
        /\ pc' = [pc EXCEPT ![p] = "asleep"]
        /\ UNCHANGED <<hdr, refcnt, req, last>>

\* Sleep on the lock in the way, with an entry in sleeplcks.
SetflckSleep(p) ==
    LET r == req[p]
        l == locks[r.file]
        i == Found(p)
    IN  /\ pc[p] = "try" /\ i # 0
        /\ r.slp /\ ~Deadflck(p, l[i].pid) /\ reccnt < Recs
        /\ locks' = [locks EXCEPT ![r.file][i] = [l[i] EXCEPT !.wakeflg = TRUE,
                                                            !.slp = @ \cup {p}]]
        /\ blkpid' = [blkpid EXCEPT ![p] = l[i].pid]
        /\ reccnt' = reccnt + 1
        /\ pc' = [pc EXCEPT ![p] = "asleep"]
        /\ UNCHANGED <<hdr, refcnt, req, last>>

\* A signal takes p off the queue of the lock it sleeps for (setrun).
Signal(p) ==
    /\ pc[p] = "asleep"
    /\ locks' = [f \in Files |-> [i \in DOMAIN locks[f] |->
                    [locks[f][i] EXCEPT !.slp = @ \ {p}]]]
    /\ pc' = [pc EXCEPT ![p] = "woken"]
    /\ UNCHANGED <<hdr, refcnt, reccnt, blkpid, req, last>>

\* p runs again, drops its entry in sleeplcks, and tries again ...
SetflckAgain(p) ==
    /\ Idle /\ pc[p] = "woken"
    /\ blkpid' = [blkpid EXCEPT ![p] = None]
    /\ reccnt' = reccnt - 1
    /\ pc' = [pc EXCEPT ![p] = "try"]
    /\ UNCHANGED <<locks, hdr, refcnt, req, last>>

\* Fault: the lock record of the entry in sleeplcks is not freed.
SetflckIntrLeak(p) ==
    /\ Idle /\ pc[p] = "woken"
    /\ blkpid' = [blkpid EXCEPT ![p] = None]
    /\ Return(p, req[p], "EINTR")
    /\ Freefid(req[p].file, locks[req[p].file])
    /\ Finish(p, {})
    /\ UNCHANGED <<locks, reccnt>>

\* Fault: the reference to the header is kept.
SetflckIntrKeep(p) ==
    /\ Idle /\ pc[p] = "woken"
    /\ blkpid' = [blkpid EXCEPT ![p] = None]
    /\ reccnt' = reccnt - 1
    /\ Return(p, req[p], "EINTR")
    /\ Finish(p, {})
    /\ UNCHANGED <<locks, hdr, refcnt>>

\* ... or, if there is a signal for it, returns.
SetflckIntr(p) ==
    /\ Idle /\ pc[p] = "woken"
    /\ blkpid' = [blkpid EXCEPT ![p] = None]
    /\ reccnt' = reccnt - 1
    /\ Return(p, req[p], "EINTR")
    /\ Freefid(req[p].file, locks[req[p].file])
    /\ Finish(p, {})
    /\ UNCHANGED locks

-----------------------------------------------------------------------------
\* getflck of a file with a header.  It gives its reference back, unless convoff
\* fails.
Getflck(p, f, start) ==
    /\ Idle /\ pc[p] = "user"
    /\ f \in hdr /\ refcnt[f] < MaxRefs
    /\ IF Convoff(start) = "ok"
         THEN LET n == refcnt[f] + 1
              IN  /\ refcnt' = [refcnt EXCEPT ![f] = n - 1]
                  /\ hdr' = IF n <= 1 /\ locks[f] = <<>> THEN hdr \ {f} ELSE hdr
         ELSE refcnt' = [refcnt EXCEPT ![f] = @ + 1] /\ UNCHANGED hdr
    /\ UNCHANGED <<locks, reccnt, blkpid, pc, req, last>>

\* closef: every close of a file drops the process's locks on it (cleanlocks).
Cleanlocks(p, f) ==
    LET c == Cleaned(locks[f], p, Recs - reccnt)
        n == refcnt[f] + 1
    IN  /\ Idle /\ pc[p] = "user"
        /\ f \in hdr
        /\ locks' = [locks EXCEPT ![f] = c.l]
        /\ reccnt' = Recs - c.nfree
        /\ refcnt' = [refcnt EXCEPT ![f] = IF n <= 1 /\ c.l = <<>> THEN 0 ELSE n - 1]
        /\ hdr' = IF n <= 1 /\ c.l = <<>> THEN hdr \ {f} ELSE hdr
        /\ Finish(p, c.woken)
        /\ Return(p, [file |-> f, type |-> "C"], "ok")
        /\ UNCHANGED blkpid

-----------------------------------------------------------------------------
Call(p) ==
    \E f \in Files :
        \/ \E t \in {"R", "W", "U"}, g \in Ranges, slp \in SlpFlgs :
              LET r == Request(f, t, g, slp)
              IN  SetflckRefuse(p, r) \/ Setflck(p, r)
        \/ \E g \in Ranges : Getflck(p, f, g[1])
        \/ Cleanlocks(p, f)

Inside(p) == \/ SetflckAdjust(p) \/ SetflckFail(p) \/ SetflckSleep(p)
             \/ SetflckAgain(p) \/ SetflckIntr(p)

Next == \E p \in Procs : Call(p) \/ Inside(p) \/ Signal(p)

Spec == Init /\ [][Next]_vars

-----------------------------------------------------------------------------
(* Properties *)

Requests == [file : Files, type : {"R", "W", "U"}, start : Int, end : Int,
             slp : BOOLEAN]

Filocks == [pid : Procs, type : {"R", "W"}, start : Int, end : Int,
            wakeflg : BOOLEAN, slp : SUBSET Procs]

\* Every lock record in use is in the list of a file or of sleeplcks, and is
\* found there again: none is leaked, none is freed twice (flckinfo.reccnt).
RecordsCounted ==
    reccnt = Cardinality(UNION {{f} \X DOMAIN locks[f] : f \in Files})
             + Cardinality({p \in Procs : blkpid[p] # None})

\* flock.h on fl_refcnt: "# of procs currently referencing this flino".  While
\* it is right, no process comes back from its sleep to a header that has been
\* given to another file, and no header is lost.
RefcntExact ==
    \A f \in Files :
        /\ refcnt[f] = Cardinality({p \in Procs : pc[p] # "user" /\ req[p].file = f})
        /\ f \in hdr <=> refcnt[f] > 0 \/ locks[f] # <<>>

\* The locks of a file p sleeps for.
SleptFor(p) == {x \in UNION {{<<f, i>> : i \in DOMAIN locks[f]} : f \in Files} :
                   p \in locks[x[1]][x[2]].slp}

\* No wakeup is lost: a process sleeps for one lock, that lock is still in its
\* way, and is marked so that whoever removes or shortens it wakes the process.
NoLostWakeup ==
    \A p \in Procs :
        IF pc[p] = "asleep"
          THEN /\ Cardinality(SleptFor(p)) = 1
               /\ \A x \in SleptFor(p) :
                     LET f == locks[x[1]][x[2]]
                     IN  /\ x[1] = req[p].file
                         /\ f.wakeflg
                         /\ InTheWay(p, req[p], f)
          ELSE SleptFor(p) = {}

\* The loop of deadflck ends: the entries of sleeplcks, the ones of processes
\* that have been woken and did not run yet included, never form a circle.  So
\* processes that sleep never wait for each other's locks in a circle either.
DeadflckEnds ==
    ~\E S \in SUBSET Procs :
        S # {} /\ \A p \in S : blkpid[p] \in S

\* The locks of each file are in the order of their starts, on which blocked and
\* flckadj rely when they stop their search.
ListSorted == \A f \in Files : \A i, j \in DOMAIN locks[f] :
                  i < j => locks[f][i].start <= locks[f][j].start

\* The type of lock p has on byte b of file f.
Held(p, f, b) ==
    LET T == {locks[f][i].type : i \in {j \in DOMAIN locks[f] :
                                          /\ locks[f][j].pid = p
                                          /\ Covers(locks[f][j], b)}}
    IN  IF "W" \in T THEN "W" ELSE IF "R" \in T THEN "R" ELSE "N"

\* No byte is locked by two processes of which one has a write lock: "blocked
\* checks whether a new lock would be blocked by a previously set lock owned by
\* another process".
Exclusive ==
    \A f \in Files, b \in 0 .. MaxEnd - 1, p, q \in Procs :
        p # q /\ Held(p, f, b) = "W" => Held(q, f, b) = "N"

Bytewise == INSTANCE ByteLocks WITH
    Bytes <- 0 .. MaxEnd - 1,
    held <- [p \in Procs |-> [f \in Files |->
                [b \in 0 .. MaxEnd - 1 |-> Held(p, f, b)]]]

\* As long as no two processes share a read lock, fcntl grants, changes and
\* drops locks byte by byte as requested: merging, cutting and severing the
\* records of the list never changes a byte that the request does not name.
IsByteLocks == Bytewise!Spec
=============================================================================
