-------------------------------- MODULE Pipe --------------------------------
(***************************************************************************)
(* A pipe or FIFO: os/pipe.c, the IFIFO parts of readi and writei in       *)
(* os/rdwri.c, and the calls that lead there (copen, closef, rdwr).        *)
(*                                                                         *)
(* Its bytes are in NFADDR disk blocks that are used as a ring.  read,     *)
(* write and close hold the lock of the inode (plock, prele); openp does   *)
(* not.  A process gives up the processor where it sleeps: for the lock,   *)
(* for the other side, and for the disk between two blocks.                *)
(***************************************************************************)
EXTENDS Integers, FiniteSets, Sequences

CONSTANTS Procs,
          BSIZE,    \* bytes of a block
          NFADDR,   \* blocks of a pipe
          Sizes,    \* the numbers of bytes read and written by a call
          Modes,    \* how files are opened: subsets of {"R", "W"}
          NDelays,  \* whether FNDELAY may be set, may be clear
          Copies,   \* whether copyin and copyout may succeed, may fail
          None

PIPSIZ == NFADDR * BSIZE

\* What a process sleeps on: the inode, &i_frcnt and &i_fwcnt.
Chans == {"inode", "frcnt", "fwcnt"}

ASSUME SizesAssumption == /\ BSIZE \in Nat \ {0} /\ NFADDR \in Nat \ {0}
                          /\ Sizes \subseteq Nat \ {0}
ASSUME ModesAssumption == /\ Modes \subseteq (SUBSET {"R", "W"}) \ {{}}
                          /\ NDelays \subseteq BOOLEAN /\ Copies \subseteq BOOLEAN
ASSUME ProcsAssumption == IsFiniteSet(Procs) /\ None \notin Procs \cup Chans

VARIABLES
    size, frptr, fwptr,   \* i_size, i_frptr, i_fwptr
    frcnt, fwcnt,         \* i_frcnt, i_fwcnt
    fflag,                \* i_fflag, a subset of {"IFIR", "IFIW"}
    ilock, iwant,         \* ILOCK and IWANT of i_flag
    ring,     \* the bytes of the blocks that are still of use, as far as they are
              \* known: who wrote each of them, or None
    files,    \* per process: the modes of its open files
    pc,       \* per process: where it is
    todo,     \* per process: what it wants the lock for
    mode,     \* per process: the mode of the file it opens or closes
    ndelay,   \* per process: FNDELAY of the call
    count,    \* per process: u_count
    usave,    \* per process: usave of writei
    offset,   \* per process: u_offset
    wchan,    \* per process: what it sleeps on, or None
    spoilt    \* history: a copy failed since the pipe was empty

pipeVars == <<size, frptr, fwptr, ring, spoilt>>
cntVars == <<frcnt, fwcnt, files>>
lockVars == <<ilock, iwant>>
argVars == <<todo, mode, ndelay, count, usave, offset>>
vars == <<pipeVars, cntVars, fflag, lockVars, pc, argVars, wchan>>

Init ==
    /\ size = 0 /\ frptr = 0 /\ fwptr = 0 /\ frcnt = 0 /\ fwcnt = 0
    /\ fflag = {} /\ ilock = FALSE /\ iwant = FALSE
    /\ ring = [i \in 0 .. PIPSIZ - 1 |-> None]
    /\ files = [p \in Procs |-> {}]
    /\ pc = [p \in Procs |-> "user"]
    /\ todo = [p \in Procs |-> "none"]
    /\ mode = [p \in Procs |-> {}]
    /\ ndelay = [p \in Procs |-> FALSE]
    /\ count = [p \in Procs |-> 0]
    /\ usave = [p \in Procs |-> 0]
    /\ offset = [p \in Procs |-> 0]
    /\ wchan = [p \in Procs |-> None]
    /\ spoilt = FALSE

-----------------------------------------------------------------------------
(* Sleeping, waking and the lock *)

Awake(p, l) == pc[p] = l /\ wchan[p] = None

Woken(C) == [q \in Procs |-> IF wchan[q] \in C THEN None ELSE wchan[q]]

\* The sleepers prele wakes.
Waiting == IF iwant THEN {"inode"} ELSE {}

\* prele, with the wakeup of the channels of C before it.
Prele(C) == /\ ilock' = FALSE /\ iwant' = FALSE
            /\ wchan' = Woken(C \cup Waiting)

\* prele, and then a sleep on chan; p goes on at l.
PreleSleep(p, chan, l) ==
    /\ ilock' = FALSE /\ iwant' = FALSE
    /\ wchan' = [Woken(Waiting) EXCEPT ![p] = chan]
    /\ pc' = [pc EXCEPT ![p] = l]

\* p leaves the kernel.  Its arguments are of no further use.
Return(p) == /\ pc' = [pc EXCEPT ![p] = "user"]
             /\ todo' = [todo EXCEPT ![p] = "none"]
             /\ mode' = [mode EXCEPT ![p] = {}]
             /\ ndelay' = [ndelay EXCEPT ![p] = FALSE]
             /\ count' = [count EXCEPT ![p] = 0]
             /\ usave' = [usave EXCEPT ![p] = 0]
             /\ offset' = [offset EXCEPT ![p] = 0]

\* plock: p waits for the lock, or has it and goes on at l.
Plock(p, l) ==
    IF ilock
      THEN /\ iwant' = TRUE
           /\ wchan' = [wchan EXCEPT ![p] = "inode"]
           /\ pc' = [pc EXCEPT ![p] = "plock"]
           /\ UNCHANGED ilock
      ELSE /\ ilock' = TRUE
           /\ pc' = [pc EXCEPT ![p] = l]
           /\ UNCHANGED <<iwant, wchan>>

\* A process in plock looks again, and so does one that wakes up in readi or
\* writei.
PlockAgain(p) ==
    /\ \E l \in {"plock", "readwait", "writewait"} : Awake(p, l)
    /\ Plock(p, todo[p])
    /\ UNCHANGED <<pipeVars, cntVars, fflag, argVars>>

-----------------------------------------------------------------------------
(* The system calls *)

Enter(p, t, m, nd, n) ==
    /\ Awake(p, "user")
    /\ Plock(p, t)
    /\ todo' = [todo EXCEPT ![p] = t]
    /\ mode' = [mode EXCEPT ![p] = m]
    /\ ndelay' = [ndelay EXCEPT ![p] = nd]
    /\ count' = [count EXCEPT ![p] = n]
    /\ UNCHANGED <<pipeVars, frcnt, fwcnt, fflag, usave, offset>>

\* copen: namei waits for the inode and locks it.
Open(p, m, nd) == /\ m \notin files[p]
                  /\ Enter(p, "open", m, nd, 0)
                  /\ UNCHANGED files

\* closef of a file nobody else shares.
Close(p, m) == /\ m \in files[p]
               /\ Enter(p, "close", m, FALSE, 0)
               /\ files' = [files EXCEPT ![p] = @ \ {m}]

Read(p, n, nd) == /\ \E m \in files[p] : "R" \in m
                  /\ Enter(p, "read", {}, nd, n)
                  /\ UNCHANGED files

Write(p, n, nd) == /\ \E m \in files[p] : "W" \in m
                   /\ Enter(p, "write", {}, nd, n)
                   /\ UNCHANGED files

\* pipe: a new inode, and two files for it.
SysPipe(p) ==
    /\ \A q \in Procs : files[q] = {} /\ pc[q] = "user"
    /\ files' = [files EXCEPT ![p] = {{"R"}, {"W"}}]
    /\ frcnt' = 1 /\ fwcnt' = 1
    /\ UNCHANGED <<pipeVars, fflag, lockVars, pc, argVars, wchan>>

-----------------------------------------------------------------------------
(* openp and closep *)

Ends(m, e) == IF e \in m THEN 1 ELSE 0

\* What an open with mode m has to wait for, given the counts.
OpenWait(m, nd, fr, fw) ==
    CASE "R" \in m /\ fw = 0 /\ ~(nd \/ size > 0) -> "fwcnt"
      [] "W" \in m /\ fr = 0 -> "frcnt"
      [] OTHER -> None

\* The open is complete.
Opened(p) == /\ files' = [files EXCEPT ![p] = @ \cup {mode[p]}]
             /\ Return(p)

\* prele; then openp counts the new end, wakes those who wait for one, and may
\* have to wait itself.
Openp(p) ==
    LET m == mode[p]
        fr == frcnt + Ends(m, "R")
        fw == fwcnt + Ends(m, "W")
        W == Waiting \cup (IF frcnt = 0 /\ "R" \in m THEN {"frcnt"} ELSE {})
                     \cup (IF fwcnt = 0 /\ "W" \in m THEN {"fwcnt"} ELSE {})
        c == OpenWait(m, ndelay[p], fr, fw)
    IN  /\ Awake(p, "open")
        /\ ~("W" \in m /\ ndelay[p] /\ fr = 0)
        /\ frcnt' = fr /\ fwcnt' = fw
        /\ ilock' = FALSE /\ iwant' = FALSE
        /\ wchan' = [Woken(W) EXCEPT ![p] = c]
        /\ IF c = None THEN Opened(p)
           ELSE pc' = [pc EXCEPT ![p] = "openp"] /\ UNCHANGED <<files, argVars>>
        /\ UNCHANGED <<pipeVars, fflag>>

\* Fault: the refused open is undone with closef, like the interrupted one.
OpenpRefuseClosef(p) ==
    /\ Awake(p, "open")
    /\ mode[p] = {"W"} /\ ndelay[p] /\ frcnt = 0
    /\ Prele({})
    /\ pc' = [pc EXCEPT ![p] = "plock"]
    /\ todo' = [todo EXCEPT ![p] = "close"]
    /\ UNCHANGED <<pipeVars, cntVars, fflag, mode, ndelay, count, usave, offset>>

\* ENXIO: FNDELAY, and nobody there to read.  copen locks the inode once more
\* to give it back.
OpenpRefuse(p) ==
    /\ Awake(p, "open")
    /\ mode[p] = {"W"} /\ ndelay[p] /\ frcnt = 0
    /\ Prele({})
    /\ pc' = [pc EXCEPT ![p] = "plock"]
    /\ todo' = [todo EXCEPT ![p] = "iput"]
    /\ UNCHANGED <<pipeVars, cntVars, fflag, mode, ndelay, count, usave, offset>>

Iput(p) == /\ Awake(p, "iput")
           /\ Prele({})
           /\ Return(p)
           /\ UNCHANGED <<pipeVars, cntVars, fflag>>

\* Awake again in openp.
OpenpAgain(p) ==
    LET c == OpenWait(mode[p], ndelay[p], frcnt, fwcnt)
    IN  /\ Awake(p, "openp")
        /\ wchan' = [wchan EXCEPT ![p] = c]
        /\ IF c = None THEN Opened(p) ELSE UNCHANGED <<files, pc, argVars>>
        /\ UNCHANGED <<pipeVars, frcnt, fwcnt, fflag, lockVars>>

\* A signal in openp: copen gives the file back with closef.
OpenpIntr(p) ==
    /\ pc[p] = "openp"
    /\ pc' = [pc EXCEPT ![p] = "plock"]
    /\ todo' = [todo EXCEPT ![p] = "close"]
    /\ wchan' = [wchan EXCEPT ![p] = None]
    /\ UNCHANGED <<pipeVars, cntVars, fflag, lockVars, mode, ndelay, count, usave, offset>>

\* closep counts the end off and wakes those who need not wait any longer.  The
\* last one goes on to free the blocks, which may sleep.
Closep(p) ==
    LET m == mode[p]
        fr == frcnt - Ends(m, "R")
        fw == fwcnt - Ends(m, "W")
        lastR == "R" \in m /\ fr = 0 /\ "IFIW" \in fflag
        lastW == "W" \in m /\ fw = 0 /\ "IFIR" \in fflag
        W == (IF lastR THEN {"fwcnt"} ELSE {}) \cup (IF lastW THEN {"frcnt"} ELSE {})
    IN  /\ Awake(p, "close")
        /\ frcnt' = fr /\ fwcnt' = fw
        /\ fflag' = fflag \ ((IF lastR THEN {"IFIW"} ELSE {})
                                \cup (IF lastW THEN {"IFIR"} ELSE {}))
        /\ IF fr = 0 /\ fw = 0
             THEN /\ pc' = [pc EXCEPT ![p] = "closefree"]
                  /\ wchan' = Woken(W)
                  /\ UNCHANGED <<lockVars, argVars>>
             ELSE Prele(W) /\ Return(p)
        /\ UNCHANGED <<pipeVars, files>>

\* The blocks are free; iput.
CloseFree(p) ==
    /\ Awake(p, "closefree")
    /\ size' = 0 /\ frptr' = 0 /\ fwptr' = 0
    /\ ring' = [i \in DOMAIN ring |-> None]
    /\ spoilt' = FALSE
    /\ Prele({})
    /\ Return(p)
    /\ UNCHANGED <<cntVars, fflag>>

-----------------------------------------------------------------------------
(* readi *)

\* Nothing there, and nobody to wait for or no wish to wait.
ReadiEmpty(p) ==
    /\ Awake(p, "read")
    /\ size = 0 /\ (fwcnt = 0 \/ ndelay[p])
    /\ Prele({})
    /\ Return(p)
    /\ UNCHANGED <<pipeVars, cntVars, fflag>>

ReadiSleep(p) ==
    /\ Awake(p, "read")
    /\ size = 0 /\ fwcnt # 0 /\ ~ndelay[p]
    /\ fflag' = fflag \cup {"IFIR"}
    /\ PreleSleep(p, "frcnt", "readwait")
    /\ UNCHANGED <<pipeVars, cntVars, argVars>>

ReadiStart(p) ==
    /\ Awake(p, "read") /\ size # 0
    /\ offset' = [offset EXCEPT ![p] = frptr]
    /\ pc' = [pc EXCEPT ![p] = "readloop"]
    /\ UNCHANGED <<pipeVars, cntVars, fflag, lockVars, wchan, todo, mode, ndelay, count, usave>>

Least(a, b) == IF a <= b THEN a ELSE b

\* bmap: what is left of the call and of the block.
Pbsize(p) == Least(count[p], BSIZE - (offset[p] % BSIZE))

\* The bytes of the block at off.
BlockOf(off) == {i \in DOMAIN ring : i \div BSIZE = off \div BSIZE}

\* The pointers go round.
Wrap(i) == IF i >= PIPSIZ THEN 0 ELSE i

\* Fault: writers are told only when the pipe is empty.
ReadiEndEmpty(p, s, off) ==
    /\ frptr' = IF s = 0 THEN 0 ELSE off
    /\ fwptr' = IF s = 0 THEN 0 ELSE fwptr
    /\ fflag' = IF s = 0 THEN fflag \ {"IFIW"} ELSE fflag
    /\ Prele(IF s = 0 /\ "IFIW" \in fflag THEN {"fwcnt"} ELSE {})
    /\ Return(p)

\* The end of readi, with s bytes left and the read pointer at off.
ReadiEnd(p, s, off) ==
    /\ frptr' = IF s = 0 THEN 0 ELSE off
    /\ fwptr' = IF s = 0 THEN 0 ELSE fwptr
    /\ fflag' = fflag \ {"IFIW"}
    /\ Prele(IF "IFIW" \in fflag THEN {"fwcnt"} ELSE {})
    /\ Return(p)

\* Fault: the block is dropped although the pipe goes on in it.
ForgottenInUse(p, n, s) == IF (offset[p] % BSIZE) + n = BSIZE THEN BlockOf(offset[p]) ELSE {}

\* A block that has been read to its end need not be written to disk: from
\* then on its contents are not known.
Forgotten(p, n, s) == IF (offset[p] % BSIZE) + n = BSIZE /\ s < PIPSIZ - BSIZE
                        THEN BlockOf(offset[p]) ELSE {}

\* One block.  When the copy fails the bytes are off the size, and the pointer
\* stays.
ReadiBlock(p, ok) ==
    LET n == Least(Pbsize(p), size)
        s == size - n
        off == IF ok THEN Wrap(offset[p] + n) ELSE offset[p]
    IN  /\ Awake(p, "readloop")
        /\ size' = s
        /\ spoilt' = (s > 0 /\ (spoilt \/ ~ok))
        /\ IF ~ok \/ n = count[p] \/ s = 0
             THEN ReadiEnd(p, s, off)
             ELSE /\ offset' = [offset EXCEPT ![p] = off]
                  /\ count' = [count EXCEPT ![p] = @ - n]
                  /\ UNCHANGED <<frptr, fwptr, fflag, lockVars, pc, wchan,
                                 todo, mode, ndelay, usave>>
        /\ ring' = [i \in DOMAIN ring |->
                       IF \/ spoilt' \/ i \in offset[p] .. offset[p] + n - 1
                          \/ i \in Forgotten(p, n, s)
                         THEN None ELSE ring[i]]
        /\ UNCHANGED cntVars

-----------------------------------------------------------------------------
(* writei *)

\* Not all of the call fits, and it is not one of those that are split.
Full(p) == /\ count[p] + size > PIPSIZ
           /\ ~(count[p] > PIPSIZ /\ size < PIPSIZ)

\* EPIPE, or no wish to wait.
WriteiFail(p) ==
    /\ Awake(p, "write")
    /\ frcnt = 0 \/ (Full(p) /\ ndelay[p])
    /\ Prele({})
    /\ Return(p)
    /\ UNCHANGED <<pipeVars, cntVars, fflag>>

WriteiSleep(p) ==
    /\ Awake(p, "write")
    /\ frcnt # 0 /\ Full(p) /\ ~ndelay[p]
    /\ fflag' = fflag \cup {"IFIW"}
    /\ PreleSleep(p, "fwcnt", "writewait")
    /\ UNCHANGED <<pipeVars, cntVars, argVars>>

\* All of it, or as much as there is room for.
WriteiStart(p) ==
    LET n == IF count[p] + size > PIPSIZ THEN PIPSIZ - size ELSE count[p]
    IN  /\ Awake(p, "write")
        /\ frcnt # 0 /\ ~Full(p)
        /\ count' = [count EXCEPT ![p] = n]
        /\ usave' = [usave EXCEPT ![p] = count[p] - n]
        /\ offset' = [offset EXCEPT ![p] = fwptr]
        /\ pc' = [pc EXCEPT ![p] = "writeloop"]
        /\ UNCHANGED <<pipeVars, cntVars, fflag, lockVars, wchan, todo, mode, ndelay>>

\* The end of a part: wake the readers, and go on with the rest or return.
WriteiEnd(p, ok, off) ==
    LET W == IF "IFIR" \in fflag THEN {"frcnt"} ELSE {}
    IN  /\ fwptr' = off
        /\ fflag' = fflag \ {"IFIR"}
        /\ IF ok /\ usave[p] # 0
             THEN /\ count' = [count EXCEPT ![p] = usave[p]]
                  /\ usave' = [usave EXCEPT ![p] = 0]
                  /\ offset' = [offset EXCEPT ![p] = 0]
                  /\ pc' = [pc EXCEPT ![p] = "write"]
                  /\ wchan' = Woken(W)
                  /\ UNCHANGED <<lockVars, todo, mode, ndelay>>
             ELSE Prele(W) /\ Return(p)

\* A block is not read before it is written when all of it is written, or when
\* it is begun and the pipe is not so full that the block could be in use.
NotRead(p, n) == IF \/ n = BSIZE
                    \/ offset[p] % BSIZE = 0 /\ size < PIPSIZ - BSIZE
                   THEN BlockOf(offset[p]) ELSE {}

\* One block.  When the copy fails the bytes are in the size all the same.
WriteiBlock(p, ok) ==
    LET n == Pbsize(p)
        off == IF ok THEN Wrap(offset[p] + n) ELSE offset[p]
    IN  /\ Awake(p, "writeloop")
        /\ size' = size + n
        /\ spoilt' = (spoilt \/ ~ok)
        /\ ring' = [i \in DOMAIN ring |->
                       CASE spoilt' -> None
                         [] ~spoilt' /\ i \in offset[p] .. offset[p] + n - 1 -> p
                         [] OTHER -> IF i \in NotRead(p, n) THEN None ELSE ring[i]]
        /\ IF ~ok \/ n = count[p]
             THEN WriteiEnd(p, ok, off)
             ELSE /\ offset' = [offset EXCEPT ![p] = off]
                  /\ count' = [count EXCEPT ![p] = @ - n]
                  /\ UNCHANGED <<fwptr, fflag, lockVars, pc, wchan, todo, mode, ndelay, usave>>
        /\ UNCHANGED <<frptr, cntVars>>

\* A signal in the sleep of readi or writei ends the call, whether somebody has woken the process or not.
WaitIntr(p) ==
    /\ pc[p] \in {"readwait", "writewait"}
    /\ wchan' = [wchan EXCEPT ![p] = None]
    /\ Return(p)
    /\ UNCHANGED <<pipeVars, cntVars, fflag, lockVars>>

-----------------------------------------------------------------------------
Call(p) ==
    \/ \E m \in Modes, nd \in NDelays : Open(p, m, nd)
    \/ \E m \in files[p] : Close(p, m)
    \/ \E n \in Sizes, nd \in NDelays : Read(p, n, nd) \/ Write(p, n, nd)
    \/ SysPipe(p)

Step(p) ==
    \/ PlockAgain(p)
    \/ Openp(p) \/ OpenpRefuse(p) \/ OpenpAgain(p) \/ Iput(p)
    \/ Closep(p) \/ CloseFree(p)
    \/ ReadiEmpty(p) \/ ReadiSleep(p) \/ ReadiStart(p)
    \/ WriteiFail(p) \/ WriteiSleep(p) \/ WriteiStart(p)
    \/ \E ok \in Copies : ReadiBlock(p, ok) \/ WriteiBlock(p, ok)

Next == \E p \in Procs : Call(p) \/ Step(p) \/ OpenpIntr(p) \/ WaitIntr(p)

Spec == Init /\ [][Next]_vars

-----------------------------------------------------------------------------
(* What is checked *)

\* Where a process holds the lock.
Locked == {"open", "iput", "close", "closefree", "read", "readloop", "write", "writeloop"}

Inside(l) == \E q \in Procs : pc[q] = l

\* The open files, opens that wait and closes under way that have the end e.
Holders(e) ==
    Cardinality({h \in Procs \X SUBSET {"R", "W"} : h[2] \in files[h[1]] /\ e \in h[2]})
    + Cardinality({p \in Procs : /\ e \in mode[p]
                                 /\ \/ pc[p] \in {"openp", "close"}
                                    \/ pc[p] = "plock" /\ todo[p] = "close"})

\* i_frcnt and i_fwcnt count the ends that are open, although openp changes
\* them without the lock, may be refused or interrupted, and copen undoes the
\* two in different ways (closef, or unfalloc and iput).
CountsExact == frcnt = Holders("R") /\ fwcnt = Holders("W")

\* Nobody sleeps for something that has already come.  Who sleeps on the inode
\* finds it locked, with IWANT; who sleeps in openp would go back to sleep; a
\* reader sleeps while the pipe is empty and has writers, a writer while there is
\* no room and there are readers, or else the process that has changed this holds
\* the lock and is still to look at the flag, which is set.
NoLostWakeup ==
    \A p \in Procs :
        /\ wchan[p] = "inode" => ilock /\ iwant
        /\ pc[p] = "openp" /\ wchan[p] # None =>
              wchan[p] = OpenWait(mode[p], ndelay[p], frcnt, fwcnt)
        /\ pc[p] = "readwait" /\ wchan[p] # None =>
              "IFIR" \in fflag /\ fwcnt > 0 /\ (size = 0 \/ Inside("writeloop"))
        /\ pc[p] = "writewait" /\ wchan[p] # None =>
              "IFIW" \in fflag /\ frcnt > 0 /\ (Full(p) \/ Inside("readloop"))

\* The first byte: readi keeps it in u_offset until the end of the call.
First == IF Inside("readloop")
           THEN offset[CHOOSE p \in Procs : pc[p] = "readloop"]
           ELSE frptr

Queue == INSTANCE ByteQueue WITH
    Bytes <- Procs, Size <- PIPSIZ,
    queue <- [i \in 1 .. size |-> ring[(First + i - 1) % PIPSIZ]],
    stale <- Inside("closefree"),
    readers <- Holders("R"), writers <- Holders("W")

\* The ring of blocks is a queue: no byte is lost, reordered or read twice when
\* the pointers wrap, and when blocks that have been read are not written to disk or
\* blocks are begun without reading them (rdwri.c:105, 214).
IsByteQueue == Queue!Spec
=============================================================================
