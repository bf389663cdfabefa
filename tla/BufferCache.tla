----------------------------- MODULE BufferCache -----------------------------
(***************************************************************************)
(* The block buffer cache of the MUNIX kernel, os/bio.c, with the          *)
(* sleep/wakeup of os/slp.c it stands on.                                  *)
(*                                                                         *)
(* The kernel runs on one processor and is not preempted: a process inside *)
(* the kernel keeps the processor (cur) until it sleeps or leaves.  Only   *)
(* the disk interrupt, Iodone, comes between two of its steps, and only    *)
(* where the code is at spl0.  The steps below are cut at those places.    *)
(*                                                                         *)
(* The disk driver is not part of bio.c: strategy queues a transfer and    *)
(* the interrupt completes the queued transfers in any order (the drivers  *)
(* sort their queue), with or without an error.                            *)
(***************************************************************************)
EXTENDS Integers, Sequences, FiniteSets

CONSTANTS Procs,      \* processes that use the file system
          Daemon,     \* the bdflush process, started by main()
          Bufs,       \* buffer headers, v.v_buf of them
          Blocks,     \* disk blocks
          Devs,       \* block devices
          DevOf,      \* [Blocks -> Devs]: the device a block is on
          InvalDevs,  \* devices that get closed (bflush, then binval)
          Values,     \* contents of a block
          Junk,       \* contents of a buffer that belong to no block
          AsyncMin,   \* the 4 of "bfreelist.b_bcount > 4" in bawrite
          XaBlocks,   \* values of u.u_xablock (None when it is 0)
          MaxErrors,  \* bound: transfers that may fail
          None

Tasks == Procs \cup {Daemon}

Flags == {"READ", "DONE", "ERROR", "BUSY", "WANTED", "AGE", "ASYNC",
          "DELWRI", "STALE"}

\* Sleep channels besides the buffers themselves.
Chans == {"bfreelist", "basyncnt", "bdflush"}

PCs == {"user", "hold", "scan", "hit", "miss", "etake", "got", "count",
        "ahead", "xahead", "iowait", "bflush", "binval", "bdwait", "bdflush"}

Ops == {"getblk", "geteblk", "bread", "breada", "readahead", "xablock",
        "bwrite", "bawrite", "bflush", "close", "bdwait", "bdflush", "none"}

ASSUME BufsAssumption ==
    /\ IsFiniteSet(Bufs)
    /\ Bufs \cap (Chans \cup {None}) = {}
ASSUME NamesAssumption ==
    /\ None \notin Tasks \cup Blocks \cup Chans
    /\ Daemon \notin Procs
    /\ Junk \notin Values
    /\ DevOf \in [Blocks -> Devs]
    /\ InvalDevs \subseteq Devs
    /\ None \notin Devs
    /\ XaBlocks \subseteq Blocks \cup {None}
\* What a process has in hand (see BlockStore) is told from nothing.
ASSUME HandsAssumption ==
    None \notin [how : {"read", "blank"}, blk : Blocks, val : Values \cup {Junk}]
ASSUME BoundsAssumption == AsyncMin \in Nat /\ MaxErrors \in Nat

VARIABLES
    blk,        \* [Bufs -> Blocks or None]: b_dev, b_blkno (None: NODEV)
    flags,      \* [Bufs -> SUBSET Flags]: b_flags
    data,       \* [Bufs -> contents]: b_un
    free,       \* the available list, head first (av_forw of bfreelist)
    freeWanted, \* B_WANTED of bfreelist
    disk,       \* [Blocks -> Values]: what the medium holds
    ioq,        \* buffers handed to d_strategy and not yet iodone
    basyncnt, basynwait,
    cur,        \* the process inside the kernel, None when none is
    pc, op,     \* per process: where it is, and in which call
    blkno, ra, xa,  \* per process: blkno, rablkno and u.u_xablock
    dev,        \* per process: the argument of bflush and binval
    cand,       \* per process: getblk's local bp
    bp,         \* per process: the buffer it has been given
    wchan,      \* per process: p_wchan, None when it does not sleep
    errs        \* transfers that have failed so far (bounded)

bufVars  == <<blk, flags, data>>
listVars == <<free, freeWanted>>
devVars  == <<disk, ioq, errs>>
asyVars  == <<basyncnt, basynwait>>
argVars  == <<blkno, ra, xa, dev>>
procVars == <<cur, pc, op, argVars, cand, bp, wchan>>
vars == <<bufVars, listVars, devVars, asyVars, procVars>>

-----------------------------------------------------------------------------
(* os/slp.c: the processor, sleep and wakeup *)

\* swtch() may run p: it does not sleep and nobody else is inside the kernel.
Running(p) == wchan[p] = None /\ cur \in {None, p}

\* wakeup on every channel of C: all the sleepers become runnable.
Wakeup(C) == wchan' = [q \in Tasks |-> IF wchan[q] \in C THEN None ELSE wchan[q]]

\* sleep(chan): give up the processor, and go on at label l once woken.
Sleep(p, chan, l) == /\ wchan' = [wchan EXCEPT ![p] = chan]
                     /\ pc' = [pc EXCEPT ![p] = l]
                     /\ cur' = None

\* p goes on at label l without leaving the kernel.
Goto(p, l) == pc' = [pc EXCEPT ![p] = l] /\ cur' = p

\* p leaves the buffer cache code; what its caller does may sleep.
Leave(p, l) == pc' = [pc EXCEPT ![p] = l] /\ cur' = None

-----------------------------------------------------------------------------
(* The available list *)

OnList(s, b) == \E i \in DOMAIN s : s[i] = b

NoDup(s) == \A i, j \in DOMAIN s : s[i] = s[j] => i = j

\* The list without its i-th element.
Unlink(s, i) == [j \in 1 .. Len(s) - 1 |-> IF j < i THEN s[j] ELSE s[j + 1]]

\* Unlink the i-th buffer of the list and mark it busy, with the flags f.
Notavail(i, f) == /\ free' = Unlink(free, i)
                  /\ flags' = [flags EXCEPT ![free[i]] = f \cup {"BUSY"}]

\* Fault: brelse leaves B_BUSY set.
RelFlagsBusy(f) == f \ {"WANTED", "ASYNC", "AGE"}

\* brelse of a buffer whose flags are f: its flags afterwards, its place on
\* the list, and the channels woken.
RelFlags(f) == (IF "ERROR" \in f THEN (f \cup {"STALE"}) \ {"ERROR", "DELWRI"}
                                 ELSE f)
               \ {"WANTED", "BUSY", "ASYNC", "AGE"}

RelFree(b, f) == IF f \cap {"ERROR", "AGE"} # {} THEN <<b>> \o free
                                                 ELSE Append(free, b)

\* Fault: brelse does not look at B_WANTED of bfreelist.
RelWakeOne(b, f) == IF "WANTED" \in f THEN {b} ELSE {}

RelWake(b, f) == (IF "WANTED" \in f THEN {b} ELSE {})
                 \cup (IF freeWanted THEN {"bfreelist"} ELSE {})

\* What brelse(b) does, apart from the wakeups.
Release(b, f) == /\ flags' = [flags EXCEPT ![b] = RelFlags(f)]
                 /\ free' = RelFree(b, f)
                 /\ freeWanted' = FALSE

\* The flags bwrite leaves before it calls d_strategy.
WriteFlags(f) == f \ {"READ", "DONE", "ERROR", "DELWRI"}

\* Block k (None: no block) is on device d.
OnDev(k, d) == k # None /\ DevOf[k] = d

\* A buffer that bflush and bdflush write out: dirty, and on device d (None
\* stands for the NODEV that update passes).
Flushable(b, d) == /\ "DELWRI" \in flags[b]
                   /\ d = None \/ OnDev(blk[b], d)

\* incore(): some buffer that is not stale stands for block k.
Incore(k) == \E b \in Bufs : blk[b] = k /\ "STALE" \notin flags[b]

-----------------------------------------------------------------------------
Init ==
    /\ blk = [b \in Bufs |-> None]
    /\ flags = [b \in Bufs |-> {}]
    /\ data = [b \in Bufs |-> Junk]
    \* binit releases the buffers one by one; in which order is left open.
    /\ free \in [1 .. Cardinality(Bufs) -> Bufs]
    /\ NoDup(free)
    /\ \A b \in Bufs : OnList(free, b)
    /\ freeWanted = FALSE
    /\ disk \in [Blocks -> Values]
    /\ ioq = {}
    /\ basyncnt = 0 /\ basynwait = FALSE
    /\ cur = None
    /\ pc = [p \in Tasks |-> IF p = Daemon THEN "bdflush" ELSE "user"]
    /\ op = [p \in Tasks |-> IF p = Daemon THEN "bdflush" ELSE "none"]
    /\ blkno = [p \in Tasks |-> None]
    /\ ra = [p \in Tasks |-> None]
    /\ xa = [p \in Tasks |-> None]
    /\ dev = [p \in Tasks |-> None]
    /\ cand = [p \in Tasks |-> None]
    /\ bp = [p \in Tasks |-> None]
    /\ wchan = [p \in Tasks |-> None]
    /\ errs = 0

-----------------------------------------------------------------------------
(* Calls from the file system.  A process holds one buffer at a time.      *)

\* The device d is not being closed: no new use of a block of it starts while
\* its close runs (the inode of the device is locked, the mount entry MINTER).
Open(d) == \A q \in Procs : op[q] = "close" => dev[q] # d

Enter(p, o, k, l) == /\ Running(p) /\ pc[p] = "user"
                     /\ op' = [op EXCEPT ![p] = o]
                     /\ blkno' = [blkno EXCEPT ![p] = k]
                     /\ Goto(p, l)
                     /\ UNCHANGED <<bufVars, listVars, devVars, asyVars, cand,
                                    bp, wchan>>

Bread(p, k) == Open(DevOf[k]) /\ Enter(p, "bread", k, "scan")
               /\ UNCHANGED <<ra, xa, dev>>

Getblk(p, k) == Open(DevOf[k]) /\ Enter(p, "getblk", k, "scan")
                /\ UNCHANGED <<ra, xa, dev>>

Geteblk(p) == Enter(p, "geteblk", None, "etake") /\ UNCHANGED <<ra, xa, dev>>

\* breada first asks incore for the block itself; if it is there, nothing is
\* got for it before the read-ahead.
Breada(p, k, r, x) ==
    /\ Open(DevOf[k])
    /\ Enter(p, "breada", k, IF Incore(k) THEN "ahead" ELSE "scan")
    /\ ra' = [ra EXCEPT ![p] = r]
    /\ xa' = [xa EXCEPT ![p] = x]
    /\ UNCHANGED dev

Bdwait(p) == Enter(p, "bdwait", None, "bdwait") /\ UNCHANGED <<ra, xa, dev>>

\* update() passes NODEV.
Bflush(p) == Enter(p, "bflush", None, "bflush") /\ UNCHANGED <<ra, xa, dev>>

\* No process but p works on a block of device d.
Unused(p, d) ==
    \A q \in Procs \ {p} :
        /\ ~OnDev(blkno[q], d)
        /\ bp[q] # None => ~OnDev(blk[bp[q]], d)
        /\ dev[q] # d

\* The last close of a block device (closef), or its unmounting (sumount):
\* bflush(dev), d_close, binval(dev).
Close(p, d) == /\ Unused(p, d)
               /\ Enter(p, "close", None, "bflush")
               /\ dev' = [dev EXCEPT ![p] = d]
               /\ UNCHANGED <<ra, xa>>

-----------------------------------------------------------------------------
(* getblk and geteblk *)

\* The block getblk is looking for.
Want(p) == CASE op[p] = "readahead" -> ra[p]
             [] op[p] = "xablock" -> xa[p]
             [] OTHER -> blkno[p]

\* loop: search the hash chain, at spl0.
GetblkScan(p) ==
    /\ Running(p) /\ pc[p] = "scan"
    /\ \/ /\ ~Incore(Want(p))
          /\ Goto(p, "miss")
          /\ UNCHANGED cand
       \/ \E b \in Bufs : /\ blk[b] = Want(p) /\ "STALE" \notin flags[b]
                          /\ cand' = [cand EXCEPT ![p] = b]
                          /\ Goto(p, "hit")
    /\ UNCHANGED <<bufVars, listVars, devVars, asyVars, op, argVars, bp, wchan>>

\* Fault: getblk sleeps without marking the buffer B_WANTED.
GetblkBusyUnmarked(p) ==
    /\ Running(p) /\ pc[p] = "hit"
    /\ "BUSY" \in flags[cand[p]]
    /\ Sleep(p, cand[p], "scan")
    /\ cand' = [cand EXCEPT ![p] = None]
    /\ UNCHANGED <<bufVars, listVars, devVars, asyVars, op, argVars, bp>>

\* Found, and now at spl6: busy, so wait for it ...
GetblkBusy(p) ==
    /\ Running(p) /\ pc[p] = "hit"
    /\ "BUSY" \in flags[cand[p]]
    /\ flags' = [flags EXCEPT ![cand[p]] = @ \cup {"WANTED"}]
    /\ Sleep(p, cand[p], "scan")
    /\ cand' = [cand EXCEPT ![p] = None]
    /\ UNCHANGED <<blk, data, listVars, devVars, asyVars, op, argVars, bp>>

\* ... or available, so take it.
GetblkHit(p) ==
    /\ Running(p) /\ pc[p] = "hit"
    /\ "BUSY" \notin flags[cand[p]]
    /\ \E i \in DOMAIN free : free[i] = cand[p] /\ Notavail(i, flags[cand[p]])
    /\ Goto(p, "got")
    /\ UNCHANGED <<blk, data, freeWanted, devVars, asyVars, op, argVars, cand,
                   bp, wchan>>

\* Fault: getblk does not search again after it has slept for a buffer.
GetblkEmptyNoLoop(p) ==
    /\ Running(p) /\ pc[p] \in {"miss", "etake"}
    /\ free = <<>>
    /\ freeWanted' = TRUE
    /\ Sleep(p, "bfreelist", pc[p])
    /\ UNCHANGED <<bufVars, free, devVars, asyVars, op, argVars, cand, bp>>

\* No buffer is available: wait for any.
GetblkEmpty(p) ==
    /\ Running(p) /\ pc[p] \in {"miss", "etake"}
    /\ free = <<>>
    /\ freeWanted' = TRUE
    /\ Sleep(p, "bfreelist", IF pc[p] = "miss" THEN "scan" ELSE "etake")
    /\ UNCHANGED <<bufVars, free, devVars, asyVars, op, argVars, cand, bp>>

\* bwrite of the i-th buffer of the list with B_ASYNC set, up to d_strategy.
WriteOut(i) == /\ Notavail(i, WriteFlags(flags[free[i]] \cup {"ASYNC"}))
               /\ ioq' = ioq \cup {free[i]}
               /\ UNCHANGED <<blk, data, freeWanted, disk, errs>>

\* The first available buffer is dirty: start writing it, then try again.
GetblkDirty(p) ==
    /\ Running(p) /\ pc[p] \in {"miss", "etake"}
    /\ free # <<>>
    /\ "DELWRI" \in flags[free[1]]
    /\ WriteOut(1)
    /\ Goto(p, "count")
    /\ UNCHANGED <<asyVars, op, argVars, cand, bp, wchan>>

\* The flags of a buffer that has just been reassigned.
NewFlags(p) == IF pc[p] = "miss" THEN {"BUSY"} ELSE {"BUSY", "AGE"}

\* Fault: getblk reassigns a dirty buffer without writing it.
GetblkTakeDirty(p) ==
    /\ Running(p) /\ pc[p] \in {"miss", "etake"}
    /\ free # <<>>
    /\ Notavail(1, NewFlags(p))
    /\ blk' = [blk EXCEPT ![free[1]] = IF pc[p] = "miss" THEN Want(p) ELSE None]
    /\ data' = [data EXCEPT ![free[1]] = Junk]
    /\ cand' = [cand EXCEPT ![p] = free[1]]
    /\ Goto(p, "got")
    /\ UNCHANGED <<freeWanted, devVars, asyVars, op, argVars, bp, wchan>>

\* Reassign the first available buffer.
GetblkTake(p) ==
    /\ Running(p) /\ pc[p] \in {"miss", "etake"}
    /\ free # <<>>
    /\ "DELWRI" \notin flags[free[1]]
    /\ Notavail(1, NewFlags(p))
    /\ blk' = [blk EXCEPT ![free[1]] = IF pc[p] = "miss" THEN Want(p) ELSE None]
    /\ data' = [data EXCEPT ![free[1]] = Junk]
    /\ cand' = [cand EXCEPT ![p] = free[1]]
    /\ Goto(p, "got")
    /\ UNCHANGED <<freeWanted, devVars, asyVars, op, argVars, bp, wchan>>

\* The end of bwrite for an asynchronous write: basyncnt++, after d_strategy,
\* with the disk interrupt let in between.
BwriteCount(p) ==
    /\ Running(p) /\ pc[p] = "count"
    /\ basyncnt' = basyncnt + 1
    /\ CASE op[p] = "bawrite" -> /\ Leave(p, "user")
                                 /\ op' = [op EXCEPT ![p] = "none"]
         [] op[p] = "geteblk" -> Goto(p, "etake") /\ UNCHANGED op
         [] OTHER -> Goto(p, "scan") /\ UNCHANGED op
    /\ UNCHANGED <<bufVars, listVars, devVars, basynwait, argVars, cand, bp, wchan>>
-----------------------------------------------------------------------------
(* What the caller of getblk does with the buffer *)

Got(p, o) == Running(p) /\ pc[p] = "got" /\ op[p] \in o

\* The buffer b is handed to p's caller.
HandOver(p, b) == /\ Leave(p, "hold")
                  /\ bp' = [bp EXCEPT ![p] = b]
                  /\ cand' = [cand EXCEPT ![p] = None]
                  /\ blkno' = [blkno EXCEPT ![p] = None]
                  /\ ra' = [ra EXCEPT ![p] = None]
                  /\ xa' = [xa EXCEPT ![p] = None]

\* getblk and geteblk return; bread returns a buffer that is valid.
GotReturn(p) ==
    /\ Got(p, {"getblk", "geteblk", "bread"})
    /\ op[p] = "bread" => "DONE" \in flags[cand[p]]
    /\ HandOver(p, cand[p])
    /\ UNCHANGED <<bufVars, listVars, devVars, asyVars, op, dev, wchan>>

\* Fault: B_READ is not set, so that the driver writes.
StartReadUnset(p, f) == /\ flags' = [flags EXCEPT ![cand[p]] = @ \cup f]
                        /\ ioq' = ioq \cup {cand[p]}
                        /\ UNCHANGED <<blk, data, listVars, disk, errs>>

\* Start reading into the buffer p just got, with the flags f besides.
StartRead(p, f) == /\ flags' = [flags EXCEPT ![cand[p]] = @ \cup {"READ"} \cup f]
                   /\ ioq' = ioq \cup {cand[p]}
                   /\ UNCHANGED <<blk, data, listVars, disk, errs>>

\* bread must read the block; it goes on to iowait.
BreadStart(p) ==
    /\ Got(p, {"bread"})
    /\ "DONE" \notin flags[cand[p]]
    /\ StartRead(p, {})
    /\ bp' = [bp EXCEPT ![p] = cand[p]]
    /\ cand' = [cand EXCEPT ![p] = None]
    /\ Goto(p, "iowait")
    /\ UNCHANGED <<asyVars, op, argVars, wchan>>

\* breada has its block, and reads it unless it is valid; the read-ahead is next.
BreadaStart(p) ==
    /\ Got(p, {"breada"})
    /\ IF "DONE" \in flags[cand[p]] THEN UNCHANGED <<bufVars, listVars, devVars>>
                                    ELSE StartRead(p, {})
    /\ bp' = [bp EXCEPT ![p] = cand[p]]
    /\ cand' = [cand EXCEPT ![p] = None]
    /\ Goto(p, "ahead")
    /\ UNCHANGED <<asyVars, op, argVars, wchan>>

\* Read ahead block k only if it is not in core and two buffers are available.
WantAhead(k) == k # None /\ Len(free) > 1 /\ ~Incore(k)

\* Go and get the read-ahead block, or go past it.
BreadaAhead(p) ==
    /\ Running(p) /\ pc[p] = "ahead"
    /\ IF WantAhead(ra[p])
         THEN /\ op' = [op EXCEPT ![p] = "readahead"]
              /\ Goto(p, "scan")
         ELSE Goto(p, "xahead") /\ UNCHANGED op
    /\ UNCHANGED <<bufVars, listVars, devVars, asyVars, argVars, cand, bp, wchan>>

\* With no block of its own yet, breada reads u_xablock ahead, then calls bread.
BreadaXahead(p) ==
    /\ Running(p) /\ pc[p] = "xahead"
    /\ IF bp[p] # None
         THEN /\ op' = [op EXCEPT ![p] = "bread"]
              /\ Goto(p, "iowait")
         ELSE /\ op' = [op EXCEPT ![p] = IF WantAhead(xa[p]) THEN "xablock"
                                                             ELSE "bread"]
              /\ Goto(p, "scan")
    /\ UNCHANGED <<bufVars, listVars, devVars, asyVars, argVars, cand, bp, wchan>>

\* After the read-ahead of rablkno comes u_xablock, after that comes bread.
AfterAhead(p) == IF op[p] = "readahead"
                   THEN /\ op' = [op EXCEPT ![p] = "breada"]
                        /\ Goto(p, "xahead")
                   ELSE /\ op' = [op EXCEPT ![p] = "bread"]
                        /\ Goto(p, "scan")

\* The read-ahead block turned out to be valid: give it back.
AheadValid(p) ==
    /\ Got(p, {"readahead", "xablock"})
    /\ LET b == cand[p]
       IN  /\ "DONE" \in flags[b]
           /\ Release(b, flags[b])
           /\ Wakeup(RelWake(b, flags[b]))
    /\ cand' = [cand EXCEPT ![p] = None]
    /\ AfterAhead(p)
    /\ UNCHANGED <<blk, data, devVars, asyVars, argVars, bp>>

\* Start the asynchronous read; the buffer is no longer p's.
AheadStart(p) ==
    /\ Got(p, {"readahead", "xablock"})
    /\ "DONE" \notin flags[cand[p]]
    /\ StartRead(p, {"ASYNC"})
    /\ cand' = [cand EXCEPT ![p] = None]
    /\ AfterAhead(p)
    /\ UNCHANGED <<asyVars, argVars, bp, wchan>>

-----------------------------------------------------------------------------
(* iowait *)

\* The transfer is not done: sleep on the buffer.
IowaitSleep(p) ==
    /\ Running(p) /\ pc[p] = "iowait"
    /\ "DONE" \notin flags[bp[p]]
    /\ Sleep(p, bp[p], "iowait")
    /\ UNCHANGED <<bufVars, listVars, devVars, asyVars, op, argVars, cand, bp>>

\* bread and breada return the buffer (with B_ERROR in it if the read failed).
IowaitRead(p) ==
    /\ Running(p) /\ pc[p] = "iowait" /\ op[p] = "bread"
    /\ "DONE" \in flags[bp[p]]
    /\ HandOver(p, bp[p])
    /\ UNCHANGED <<bufVars, listVars, devVars, asyVars, op, dev, wchan>>

\* brelse of the buffer p holds, by which p leaves the cache code.
GiveBack(p) ==
    LET b == bp[p]
    IN  /\ Release(b, flags[b])
        /\ Wakeup(RelWake(b, flags[b]))
        /\ bp' = [bp EXCEPT ![p] = None]
        /\ op' = [op EXCEPT ![p] = "none"]
        /\ Leave(p, "user")
        /\ UNCHANGED <<blk, data, devVars, asyVars, argVars, cand>>

\* Fault: bwrite does not release the buffer.
IowaitWriteKeep(p) ==
    /\ Running(p) /\ pc[p] = "iowait" /\ op[p] = "bwrite"
    /\ "DONE" \in flags[bp[p]]
    /\ bp' = [bp EXCEPT ![p] = None]
    /\ op' = [op EXCEPT ![p] = "none"]
    /\ Leave(p, "user")
    /\ UNCHANGED <<bufVars, listVars, devVars, asyVars, argVars, cand, wchan>>

\* The synchronous bwrite is done and releases the buffer.
IowaitWrite(p) ==
    /\ Running(p) /\ pc[p] = "iowait" /\ op[p] = "bwrite"
    /\ "DONE" \in flags[bp[p]]
    /\ GiveBack(p)

-----------------------------------------------------------------------------
(* What a process does with the buffer it holds *)

Brelse(p) == Running(p) /\ pc[p] = "hold" /\ GiveBack(p)

\* A caller writes only a buffer of a block, and not after a read error.
MayWrite(p) == /\ Running(p) /\ pc[p] = "hold"
               /\ blk[bp[p]] # None
               /\ "ERROR" \notin flags[bp[p]]

\* Fill in v, mark the buffer dirty and valid, release it.
Bdwrite(p, v) ==
    /\ MayWrite(p)
    /\ LET b == bp[p]
           f == flags[b] \cup {"DELWRI", "DONE"}
       IN  /\ Release(b, f)
           /\ Wakeup(RelWake(b, f))
           /\ data' = [data EXCEPT ![b] = v]
    /\ bp' = [bp EXCEPT ![p] = None]
    /\ op' = [op EXCEPT ![p] = "none"]
    /\ Leave(p, "user")
    /\ UNCHANGED <<blk, devVars, asyVars, argVars, cand>>

\* Fill in v and start the write, up to d_strategy, with the flags f besides.
StartWrite(p, v, f) ==
    LET b == bp[p]
    IN  /\ flags' = [flags EXCEPT ![b] = WriteFlags(@) \cup f]
        /\ data' = [data EXCEPT ![b] = v]
        /\ ioq' = ioq \cup {b}
        /\ UNCHANGED <<blk, listVars, disk, errs, asyVars, argVars, cand, wchan>>

Bwrite(p, v) ==
    /\ MayWrite(p)
    /\ StartWrite(p, v, {})
    /\ op' = [op EXCEPT ![p] = "bwrite"]
    /\ Goto(p, "iowait")
    /\ UNCHANGED bp

\* bawrite waits all the same when few buffers are available.
Bawrite(p, v) ==
    /\ MayWrite(p)
    /\ IF Len(free) > AsyncMin
         THEN /\ StartWrite(p, v, {"ASYNC"})
              /\ op' = [op EXCEPT ![p] = "bawrite"]
              /\ bp' = [bp EXCEPT ![p] = None]
              /\ Goto(p, "count")
         ELSE /\ StartWrite(p, v, {})
              /\ op' = [op EXCEPT ![p] = "bwrite"]
              /\ Goto(p, "iowait")
              /\ UNCHANGED bp

-----------------------------------------------------------------------------
(* bflush, binval, bdflush, bdwait *)

\* Fault: the write is not counted.
BflushWriteUncounted(p) ==
    /\ Running(p) /\ pc[p] = "bflush"
    /\ \E i \in DOMAIN free : Flushable(free[i], dev[p]) /\ WriteOut(i)
    /\ Goto(p, "bflush")
    /\ UNCHANGED <<asyVars, op, argVars, cand, bp, wchan>>

\* Write out the first dirty buffer of the device, all at spl6 (basyncnt++
\* included), then start over.
BflushWrite(p) ==
    /\ Running(p) /\ pc[p] = "bflush"
    /\ \E i \in DOMAIN free :
          /\ Flushable(free[i], dev[p])
          /\ \A j \in 1 .. i - 1 : ~Flushable(free[j], dev[p])
          /\ WriteOut(i)
    /\ basyncnt' = basyncnt + 1
    /\ Goto(p, "bflush")
    /\ UNCHANGED <<basynwait, op, argVars, cand, bp, wchan>>

\* Nothing dirty is left on the list.  A close goes on with d_close, which may
\* sleep, and binval.
BflushEnd(p) ==
    /\ Running(p) /\ pc[p] = "bflush"
    /\ \A i \in DOMAIN free : ~Flushable(free[i], dev[p])
    /\ IF op[p] = "close" THEN Leave(p, "binval") /\ UNCHANGED op
                          ELSE /\ Leave(p, "user")
                               /\ op' = [op EXCEPT ![p] = "none"]
    /\ UNCHANGED <<bufVars, listVars, devVars, asyVars, argVars, cand, bp, wchan>>

\* Every buffer of the device becomes stale, whatever is going on with it.
Binval(p) ==
    /\ Running(p) /\ pc[p] = "binval"
    /\ flags' = [b \in Bufs |-> IF OnDev(blk[b], dev[p])
                                  THEN flags[b] \cup {"STALE", "AGE"}
                                  ELSE flags[b]]
    /\ Leave(p, "user")
    /\ op' = [op EXCEPT ![p] = "none"]
    /\ dev' = [dev EXCEPT ![p] = None]
    /\ UNCHANGED <<blk, data, listVars, devVars, asyVars, blkno, ra, xa, cand,
                   bp, wchan>>

\* The daemon writes out some dirty buffer that is old enough (which ones are,
\* is left open), all at spl6, then starts over ...
BdflushWrite ==
    /\ Running(Daemon) /\ pc[Daemon] = "bdflush"
    /\ \E i \in DOMAIN free : Flushable(free[i], None) /\ WriteOut(i)
    /\ basyncnt' = basyncnt + 1
    /\ Goto(Daemon, "bdflush")
    /\ UNCHANGED <<basynwait, op, argVars, cand, bp, wchan>>

\* ... and sleeps when there is none.
BdflushSleep ==
    /\ Running(Daemon) /\ pc[Daemon] = "bdflush"
    /\ Sleep(Daemon, "bdflush", "bdflush")
    /\ UNCHANGED <<bufVars, listVars, devVars, asyVars, op, argVars, cand, bp>>

\* The clock interrupt wakes the daemon every t_bdflushr seconds.
Clock == /\ wchan[Daemon] = "bdflush"
         /\ Wakeup({"bdflush"})
         /\ UNCHANGED <<bufVars, listVars, devVars, asyVars, cur, pc, op, argVars,
                        cand, bp>>

\* Asynchronous writes are under way: sleep until the count is zero.
BdwaitSleep(p) ==
    /\ Running(p) /\ pc[p] = "bdwait"
    /\ basyncnt # 0
    /\ basynwait' = TRUE
    /\ Sleep(p, "basyncnt", "bdwait")
    /\ UNCHANGED <<bufVars, listVars, devVars, basyncnt, op, argVars, cand, bp>>

BdwaitEnd(p) ==
    /\ Running(p) /\ pc[p] = "bdwait"
    /\ basyncnt = 0
    /\ Leave(p, "user")
    /\ op' = [op EXCEPT ![p] = "none"]
    /\ UNCHANGED <<bufVars, listVars, devVars, asyVars, argVars, cand, bp, wchan>>

-----------------------------------------------------------------------------
(* The disk interrupt *)

\* The driver ends the transfer of b: contents move, B_ERROR says it failed.
Transfer(b, ok) ==
    /\ ioq' = ioq \ {b}
    /\ errs' = IF ok THEN errs ELSE errs + 1
    /\ data' = IF "READ" \in flags[b]
                 THEN [data EXCEPT ![b] = IF ok THEN disk[blk[b]] ELSE Junk]
                 ELSE data
    /\ disk' = IF ok /\ "READ" \notin flags[b]
                 THEN [disk EXCEPT ![blk[b]] = data[b]] ELSE disk

\* The flags of b when the driver calls iodone and iodone has set B_DONE.
DoneFlags(b, ok) == flags[b] \cup {"DONE"} \cup (IF ok THEN {} ELSE {"ERROR"})

\* Fault: iodone never wakes bdwait.
IodoneAsyncSilent(b, ok) ==
    LET f == DoneFlags(b, ok)
    IN  /\ "ASYNC" \in f
        /\ basyncnt' = IF "READ" \in f THEN basyncnt ELSE basyncnt - 1
        /\ UNCHANGED basynwait
        /\ Release(b, f)
        /\ Wakeup(RelWake(b, f))

\* iodone of a transfer nobody waits for: count it off, release the buffer.
IodoneAsync(b, ok) ==
    LET f == DoneFlags(b, ok)
        n == IF "READ" \in f THEN basyncnt ELSE basyncnt - 1
        drained == n = 0 /\ basynwait
    IN  /\ "ASYNC" \in f
        /\ basyncnt' = n
        /\ basynwait' = (basynwait /\ ~drained)
        /\ Release(b, f)
        /\ Wakeup(RelWake(b, f) \cup (IF drained THEN {"basyncnt"} ELSE {}))

\* iodone of a transfer a process waits for.
IodoneSync(b, ok) ==
    /\ "ASYNC" \notin flags[b]
    /\ flags' = [flags EXCEPT ![b] = DoneFlags(b, ok) \ {"WANTED"}]
    /\ Wakeup({b})
    /\ UNCHANGED <<listVars, asyVars>>

Iodone(b, ok) ==
    /\ b \in ioq
    /\ ok \/ errs < MaxErrors
    /\ Transfer(b, ok)
    /\ IodoneAsync(b, ok) \/ IodoneSync(b, ok)
    /\ UNCHANGED <<blk, cur, pc, op, argVars, cand, bp>>

-----------------------------------------------------------------------------
Call(p) ==
    \/ \E k \in Blocks : \/ Bread(p, k) \/ Getblk(p, k)
                         \/ \E r \in Blocks \cup {None}, x \in XaBlocks :
                               /\ r # k /\ x # k
                               /\ r # None => DevOf[r] = DevOf[k]
                               /\ x # None => DevOf[x] = DevOf[k]
                               /\ Breada(p, k, r, x)
    \/ Geteblk(p)
    \/ Bdwait(p)
    \/ Bflush(p)
    \/ \E d \in InvalDevs : Close(p, d)

Use(p) == \/ Brelse(p)
          \/ \E v \in Values : Bdwrite(p, v) \/ Bwrite(p, v) \/ Bawrite(p, v)

Inside(p) ==
    \/ GetblkScan(p) \/ GetblkBusy(p) \/ GetblkHit(p)
    \/ GetblkEmpty(p) \/ GetblkDirty(p) \/ GetblkTake(p) \/ BwriteCount(p)
    \/ GotReturn(p) \/ BreadStart(p) \/ BreadaStart(p) \/ BreadaAhead(p)
    \/ BreadaXahead(p) \/ AheadValid(p) \/ AheadStart(p)
    \/ IowaitSleep(p) \/ IowaitRead(p) \/ IowaitWrite(p)
    \/ BflushWrite(p) \/ BflushEnd(p) \/ Binval(p)
    \/ BdwaitSleep(p) \/ BdwaitEnd(p)

Bdflush == BdflushWrite \/ BdflushSleep

Disk == \E b \in Bufs, ok \in BOOLEAN : Iodone(b, ok)

Next == \/ \E p \in Procs : Call(p) \/ Use(p) \/ Inside(p)
        \/ Bdflush \/ Clock
        \/ Disk

Spec == Init /\ [][Next]_vars

\* swtch() passes over no runnable process for ever, a process gives its buffer
\* back in the end, and the driver completes every transfer it was given.
Fairness == /\ \A p \in Procs : SF_vars(Use(p) \/ Inside(p))
            /\ WF_vars(Bdflush)
            /\ \A b \in Bufs : WF_vars(\E ok \in BOOLEAN : Iodone(b, ok))

FairSpec == Spec /\ Fairness
-----------------------------------------------------------------------------
(* Properties *)

\* The variables have their types; a task inside getblk knows its block.
TypeOK ==
    /\ blk \in [Bufs -> Blocks \cup {None}]
    /\ flags \in [Bufs -> SUBSET Flags]
    /\ data \in [Bufs -> Values \cup {Junk}]
    /\ free \in Seq(Bufs)
    /\ freeWanted \in BOOLEAN
    /\ disk \in [Blocks -> Values]
    /\ ioq \subseteq Bufs
    /\ basyncnt \in Int /\ basynwait \in BOOLEAN
    /\ cur \in Tasks \cup {None}
    /\ pc \in [Tasks -> PCs]
    /\ op \in [Tasks -> Ops]
    /\ blkno \in [Tasks -> Blocks \cup {None}]
    /\ ra \in [Tasks -> Blocks \cup {None}]
    /\ xa \in [Tasks -> Blocks \cup {None}]
    /\ dev \in [Tasks -> Devs \cup {None}]
    /\ cand \in [Tasks -> Bufs \cup {None}]
    /\ bp \in [Tasks -> Bufs \cup {None}]
    /\ wchan \in [Tasks -> Bufs \cup Chans \cup {None}]
    /\ errs \in Nat

\* buf.h: a buffer is on the available list if and only if it is not marked
\* BUSY, and the list has no buffer twice.
FreeIffNotBusy == /\ \A b \in Bufs : OnList(free, b) <=> "BUSY" \notin flags[b]
                  /\ NoDup(free)

\* p is responsible for buffer b: it was handed to p, or p is about to start on it.
Owns(p, b) == bp[p] = b \/ (pc[p] = "got" /\ cand[p] = b)

\* Buffers in the hands of the driver alone; iodone will release them.
AsyncBufs == {b \in ioq : "ASYNC" \in flags[b]}

\* Every busy buffer has exactly one party that will release it, a process or
\* the driver's interrupt, and no other buffer has any: nothing is leaked, and
\* nothing is released twice.
OneOwner ==
    \A b \in Bufs :
        /\ "BUSY" \in flags[b] <=> (b \in AsyncBufs \/ \E p \in Tasks : Owns(p, b))
        /\ b \in AsyncBufs => \A p \in Tasks : ~Owns(p, b)
        /\ \A p, q \in Tasks : Owns(p, b) /\ Owns(q, b) => p = q

\* getblk never makes a second buffer for a block that has one already: two
\* buffers for one block would let one process's write undo another's.
OneBufferPerBlock ==
    \A b, c \in Bufs :
        blk[b] # None /\ blk[b] = blk[c] /\ "STALE" \notin flags[b] \cup flags[c]
            => b = c

\* No wakeup is lost.  Whoever sleeps for a buffer sleeps for something that has
\* not happened, and the one who makes it happen knows that he has to wake him:
\* a busy buffer is marked B_WANTED, a transfer is under way, an empty
\* available list is marked B_WANTED.
NoLostWakeup ==
    \A p \in Tasks :
        /\ wchan[p] \in Bufs /\ pc[p] = "scan" =>
              {"BUSY", "WANTED"} \subseteq flags[wchan[p]]
        /\ wchan[p] \in Bufs /\ pc[p] = "iowait" => wchan[p] \in ioq
        /\ wchan[p] = "bfreelist" => free = <<>> /\ freeWanted

\* Writes under way that nobody waits for.
AsyncWrites == {b \in AsyncBufs : "READ" \notin flags[b]}

\* basyncnt counts the asynchronous writes under way, but for the one that a
\* bwrite has just started and not yet counted.
AsyncCounted ==
    basyncnt = Cardinality(AsyncWrites) - Cardinality({p \in Tasks : pc[p] = "count"})

\* bdwait, the last thing the kernel does before a halt (os/utssys.c), returns
\* only when no asynchronous write is under way.
BdwaitDrains ==
    [][\A p \in Procs : pc[p] = "bdwait" /\ pc'[p] = "user" => AsyncWrites = {}]_vars

\* A buffer whose contents are those of its block.
Valid(b) == "DONE" \in flags[b] \/ (b \in ioq /\ "READ" \notin flags[b])

Holds(b, k) == blk[b] = k /\ "STALE" \notin flags[b] /\ Valid(b)

\* What a reader must find in block k: what the cache has, or else the disk.
Current(k) == IF \E b \in Bufs : Holds(b, k)
                THEN data[CHOOSE b \in Bufs : Holds(b, k)] ELSE disk[k]

\* Blocks on devices that are never closed.
Stable == {k \in Blocks : DevOf[k] \notin InvalDevs}

\* The buffer p was handed, as the caller sees it.
InHand(p) == IF pc[p] = "hold" /\ blk[bp[p]] \in Stable
               THEN [how |-> IF op[p] = "bread" THEN "read" ELSE "blank",
                     blk |-> blk[bp[p]], val |-> data[bp[p]]]
               ELSE None

Store == INSTANCE BlockStore WITH
            Blocks <- Stable,
            store <- [k \in Stable |-> Current(k)],
            hand <- [p \in Procs |-> InHand(p)]

\* With a disk that does not fail, the cache is a store of blocks: whatever is
\* evicted, delayed, read ahead or reordered, bread hands out what was written
\* last, to one process at a time.
IsBlockStore == Store!Spec

\* bread ("Read in (if necessary) the block and return a buffer pointer") and
\* breada hand out the contents of the block, or a buffer marked B_ERROR.
ReadReturnsBlock ==
    \A p \in Procs :
        pc[p] = "hold" /\ op[p] = "bread" /\ "ERROR" \notin flags[bp[p]]
            => data[bp[p]] # Junk

\* Nobody sleeps for ever for a buffer: each wait of getblk, geteblk and iowait
\* comes to an end (getblk may then find that it has to wait again).
SleepersWake ==
    \A p \in Procs : wchan[p] \in Bufs \cup {"bfreelist"} ~> wchan[p] = None

\* bdwait comes to an end once the other processes have stopped, as they have
\* when the system is shut down; while they go on writing it may not.
BdwaitEnds ==
    \A p \in Procs :
        <>[](\A q \in Procs \ {p} : pc[q] = "user")
            => (pc[p] = "bdwait" ~> pc[p] = "user")
=============================================================================
