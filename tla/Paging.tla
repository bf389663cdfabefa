------------------------------- MODULE Paging -------------------------------
(***************************************************************************)
(* Demand paging: the fault handlers (os/fault.c), page frames (os/page.c),*)
(* the stealing of pages (os/getpages.c), swap space (os/swapalloc.c), and *)
(* regions that are made, copied and freed (os/region.c).                  *)
(*                                                                         *)
(* A region has one page, which is not the last of its file; a process has *)
(* one region.  The reference counters by which vhand and sched choose     *)
(* their victims are left out: they may take any page.  So are the frames  *)
(* of page tables and u-areas.  No transfer fails, and no swap file is     *)
(* removed.                                                                *)
(***************************************************************************)
EXTENDS Integers, FiniteSets, SequencesExt

CONSTANTS PgProcs,
          Daemons,   \* vhand and sched, who call getpages
          Regions,
          Frames,
          SwapBlks,  \* pages of swap space
          File,      \* the block of the file that regions are mapped from
          Values,    \* what processes write
          Zero, FileVal, Junk,
          Kinds,     \* the regions that are made: records kind, noswap, dbd
          Prep,      \* tune.t_prep
          Null

ASSUME PrepAssumption == Prep \in Nat
ASSUME BlocksAssumption == File \notin SwapBlks /\ Null \notin SwapBlks \cup {File}
ASSUME TablesAssumption == /\ IsFiniteSet(PgProcs) /\ IsFiniteSet(Regions) /\ IsFiniteSet(Frames)
                           /\ PgProcs \cap Daemons = {}
                           /\ Null \notin Regions \cup Frames
                           /\ {"NONE", "DZERO"} \cap (SwapBlks \cup {File}) = {}
ASSUME KindsAssumption == Kinds \subseteq [kind : {"private", "shared"}, noswap : BOOLEAN,
                                          dbd : {"DZERO", File}]
\* Then swalloc does not have to wait: a region has at most one page of swap.
ASSUME SwapAssumption == Cardinality(SwapBlks) >= Cardinality(Regions)

VARIABLES
    frame,    \* pfdat: pf_use, the block it is hashed under, P_DONE, PL_MOD, contents
    freeq,    \* the free queue
    freemem,
    ucnt,     \* st_ucnt: the use count of each page of swap
    disk,     \* what is there
    gpgslock, \* the window for swap transfers is taken
    reg,      \* regions, each with its page table entry and disk block descriptor
    at,       \* per process: its region, or Null
    loc,      \* per process and daemon: where it is in the kernel
    oops,     \* a panic, or a signal for an access that is allowed
    pgop      \* history: the last operation of a process on its memory

pgVars == <<frame, freeq, freemem, ucnt, disk, gpgslock, reg, at, loc, oops, pgop>>

Blocks == SwapBlks \cup {File}

\* Where somebody is: pc, what it wants memory for, the pages it has reserved, the
\* frame or the region it works on, and whether pfault has called vfault.
At(pc) == [pc |-> pc, for |-> "none", got |-> 0, on |-> Null, inP |-> FALSE]

NoRegion == [kind |-> "unused", refs |-> 0, noswap |-> FALSE, lock |-> FALSE, v |-> FALSE,
             pfn |-> Null, cw |-> FALSE, prot |-> "UW", pin |-> FALSE, dbd |-> "NONE"]

PgInit ==
    /\ frame = [f \in Frames |-> [use |-> 0, hash |-> Null, done |-> FALSE,
                                  mod |-> FALSE, val |-> Junk]]
    /\ \E q \in [1 .. Cardinality(Frames) -> Frames] :
          (\A i, j \in DOMAIN q : q[i] = q[j] => i = j) /\ freeq = q
    /\ freemem = Cardinality(Frames)
    /\ ucnt = [b \in SwapBlks |-> 0]
    /\ disk = [b \in SwapBlks |-> Junk]
    /\ gpgslock = FALSE
    /\ reg = [r \in Regions |-> NoRegion]
    /\ at = [p \in PgProcs |-> Null]
    /\ loc = [a \in PgProcs \cup Daemons |-> At("idle")]
    /\ oops = "none"
    /\ pgop = [op |-> "none"]

-----------------------------------------------------------------------------
(* Page frames.  These work on a record of the tables, m. *)

PgTables == [fr |-> frame, q |-> freeq, free |-> freemem, u |-> ucnt, oops |-> oops]

PgBecomes(m) == /\ frame' = m.fr /\ freeq' = m.q /\ freemem' = m.free
              /\ ucnt' = m.u /\ oops' = m.oops

Pfind(m, b) == {f \in Frames : m.fr[f].hash = b}

Premove(m, f) == [m EXCEPT !.fr[f].hash = Null]

Pbremove(m, b) == [m EXCEPT !.fr = [f \in Frames |-> IF m.fr[f].hash = b
                                                       THEN [m.fr[f] EXCEPT !.hash = Null]
                                                       ELSE m.fr[f]]]

Pinsert(m, f, b) == [m EXCEPT !.fr[f].hash = b,
                              !.oops = IF Pfind(m, b) = {} THEN @ ELSE "pinsert dup"]

\* ptfill: the frame at the head of the queue is taken.
Ptfill(m) == [m EXCEPT !.q = Tail(@),
                       !.fr[Head(m.q)] = [use |-> 1, hash |-> Null, done |-> FALSE,
                                          mod |-> FALSE, val |-> Junk]]

\* A reference to f is given back; pfree puts a frame without a disk block first.
Unuse(m, f, first) ==
    LET n == [m EXCEPT !.fr[f].use = @ - 1]
    IN  IF n.fr[f].use > 0 THEN n
        ELSE [n EXCEPT !.q = IF first THEN <<f>> \o @ ELSE Append(@, f), !.free = @ + 1]

Swfree1(m, b) == [m EXCEPT !.u[b] = @ - 1]

\* pfree of the page of a region.
Pfree(m, rp) ==
    LET n == IF rp.v THEN Unuse(m, rp.pfn, rp.dbd = "NONE") ELSE m
        s == Swfree1(n, rp.dbd)
    IN  IF rp.dbd \notin SwapBlks THEN n
        ELSE IF s.u[rp.dbd] = 0 THEN Pbremove(s, rp.dbd) ELSE s

\* memfree of the page of a region.
Memfree(m, rp) ==
    LET n == IF rp.dbd \in SwapBlks /\ m.fr[rp.pfn].hash = Null
               THEN Pinsert([m EXCEPT !.fr[rp.pfn].done = TRUE], rp.pfn, rp.dbd)
               ELSE m
    IN  Unuse(n, rp.pfn, FALSE)

PgGoes(a, l) == loc' = [loc EXCEPT ![a] = l]
Quiet == pgop' = [op |-> "none"]

-----------------------------------------------------------------------------
(* vfault.  The operators up to Vfault are parts of a step of process p, with its region *)
(* locked by p; m is the state of the tables and x where p is.                           *)

Prot(rp) == IF rp.cw THEN "UR" ELSE "UW"

\* vfault returns 1 and the region, which is now rp, is released.  When pfault has called
\* vfault it has the lock again at once.
PgReturn(p, m, x, rp) ==
    /\ PgBecomes(m)
    /\ reg' = [reg EXCEPT ![at[p]] = [rp EXCEPT !.lock = x.inP]]
    /\ PgGoes(p, At(IF x.inP THEN "cow" ELSE "user"))
    /\ UNCHANGED <<disk, gpgslock>>

\* Fault: memreserve goes to sleep with the region locked.
WaitLocked(p, m, x, why, rp) ==
    /\ PgBecomes(m)
    /\ reg' = [reg EXCEPT ![at[p]] = [rp EXCEPT !.lock = TRUE]]
    /\ PgGoes(p, [x EXCEPT !.pc = "mem", !.for = why])
    /\ UNCHANGED <<disk, gpgslock>>

\* memreserve goes to sleep, with the region released.
PgWait(p, m, x, why, rp) ==
    /\ PgBecomes(m)
    /\ reg' = [reg EXCEPT ![at[p]] = [rp EXCEPT !.lock = FALSE]]
    /\ PgGoes(p, [x EXCEPT !.pc = "mem", !.for = why])
    /\ UNCHANGED <<disk, gpgslock>>

\* A page filled with zeros, or with anything when dbd has changed meanwhile.
FillZero(p, m, x) ==
    LET rp == reg[at[p]]
        f == Head(m.q)
        n == [Ptfill(m) EXCEPT !.fr[f].val = IF rp.dbd = "DZERO" THEN Zero ELSE Junk]
    IN  PgReturn(p, n, x, [rp EXCEPT !.pfn = f, !.v = TRUE, !.dbd = "NONE", !.prot = Prot(rp)])

\* pageincache has frame f for the region.  What was reserved is given back.
Latch(p, m, x, f) ==
    PgReturn(p, [m EXCEPT !.fr[f].mod = FALSE, !.free = @ + x.got], x,
           [reg[at[p]] EXCEPT !.v = TRUE, !.pfn = f])

\* The page has to be read: a frame is taken and hashed, and the transfer begins.
Read(p, m, x) ==
    LET rp == reg[at[p]]
        f == Head(m.q)
        n == Pinsert(Ptfill([m EXCEPT !.free = @ + Prep]), f, rp.dbd)
        file == rp.dbd = File
    IN  /\ PgBecomes(n)
        /\ reg' = [reg EXCEPT ![at[p]] = [rp EXCEPT !.lock = TRUE, !.pfn = f, !.v = file,
                                          !.prot = IF file THEN "KW" ELSE Prot(rp)]]
        /\ PgGoes(p, [x EXCEPT !.pc = IF file THEN "file" ELSE "window", !.got = 0, !.on = f])
        /\ UNCHANGED <<disk, gpgslock>>

Miss(p, m, x) ==
    \/ x.got > 0 /\ Read(p, m, x)
    \/ x.got = 0 /\ m.free >= Prep + 1 /\ Read(p, [m EXCEPT !.free = @ - (Prep + 1)], x)
    \/ x.got = 0 /\ m.free < Prep + 1 /\ PgWait(p, m, x, "page", reg[at[p]])

\* The free queue without frame f.
Unqueued(q, f) == RemoveAt(q, CHOOSE k \in DOMAIN q : q[k] = f)

\* Fault: a page that is in use already gets no reference for one more region.
CachedUncounted(p, m, x) ==
    LET rp == reg[at[p]]
        found == Pfind(m, rp.dbd)
        f == CHOOSE g \in found : TRUE
        queued == m.fr[f].use = 0
        used == [m EXCEPT !.fr[f].use = @ + 1]
    IN  \/ found = {} /\ Miss(p, m, x)
        \/ found # {} /\ queued /\ m.free <= 0 /\ Miss(p, Premove(m, f), x)
        \/ /\ found # {} /\ queued /\ m.free > 0
           /\ Latch(p, [used EXCEPT !.free = @ - 1,
                                    !.q = Unqueued(@, f)], x, f)
        \/ found # {} /\ ~queued /\ m.fr[f].done /\ Latch(p, m, x, f)
        \/ /\ found # {} /\ ~queued /\ ~m.fr[f].done
           /\ PgBecomes(used)
           /\ reg' = [reg EXCEPT ![at[p]].lock = TRUE]
           /\ PgGoes(p, [x EXCEPT !.pc = "hash", !.on = f])
           /\ UNCHANGED <<disk, gpgslock>>

\* pageincache and what follows.  A page on the free queue is taken when it is not spoken
\* for; one that is in use may still be on its way in.
Cached(p, m, x) ==
    LET rp == reg[at[p]]
        found == Pfind(m, rp.dbd)
        f == CHOOSE g \in found : TRUE
        queued == m.fr[f].use = 0
        used == [m EXCEPT !.fr[f].use = @ + 1]
    IN  \/ found = {} /\ Miss(p, m, x)
        \/ found # {} /\ queued /\ m.free <= 0 /\ Miss(p, Premove(m, f), x)
        \/ /\ found # {} /\ queued /\ m.free > 0
           /\ Latch(p, [used EXCEPT !.free = @ - 1,
                                    !.q = Unqueued(@, f)], x, f)
        \/ found # {} /\ ~queued /\ m.fr[f].done /\ Latch(p, used, x, f)
        \/ /\ found # {} /\ ~queued /\ ~m.fr[f].done
           /\ PgBecomes(used)
           /\ reg' = [reg EXCEPT ![at[p]].lock = TRUE]
           /\ PgGoes(p, [x EXCEPT !.pc = "hash", !.on = f])
           /\ UNCHANGED <<disk, gpgslock>>

PgSignal(p, what) == /\ PgBecomes([PgTables EXCEPT !.oops = what])
                   /\ PgGoes(p, At("user"))
                   /\ UNCHANGED <<disk, gpgslock, reg>>

Translate(p, x) ==
    LET rp == reg[at[p]]
        m == PgTables
    IN  \/ rp.v /\ PgReturn(p, m, x, rp)
        \/ ~rp.v /\ rp.dbd = "NONE" /\ PgSignal(p, "SIGSEGV")
        \/ /\ ~rp.v /\ rp.dbd = "DZERO" /\ freemem >= 1
           /\ FillZero(p, [m EXCEPT !.free = @ - 1], x)
        \/ ~rp.v /\ rp.dbd = "DZERO" /\ freemem < 1 /\ PgWait(p, m, x, "zero", rp)
        \/ ~rp.v /\ rp.dbd \in Blocks /\ Cached(p, m, x)

\* A process uses its page and traps.
TransTrap(p) == /\ loc[p].pc = "user" /\ ~reg[at[p]].v
                /\ PgGoes(p, At("vfault")) /\ Quiet
                /\ UNCHANGED <<frame, freeq, freemem, ucnt, disk, gpgslock, reg, at, oops>>

Vfault(p) == /\ loc[p].pc = "vfault" /\ ~reg[at[p]].lock
             /\ Translate(p, At("vfault")) /\ Quiet
             /\ UNCHANGED at

\* The frame pageincache has found is there.
PageDone(p) == /\ loc[p].pc = "hash" /\ frame[loc[p].on].done
               /\ Latch(p, PgTables, loc[p], loc[p].on) /\ Quiet
               /\ UNCHANGED at

\* swapchunkin: it has the window.
SwapIn(p) == /\ loc[p].pc = "window" /\ ~gpgslock
             /\ gpgslock' = TRUE
             /\ PgGoes(p, [loc[p] EXCEPT !.pc = "swapin"]) /\ Quiet
             /\ UNCHANGED <<frame, freeq, freemem, ucnt, disk, reg, at, oops>>

\* The transfer from swap, or from the file, is complete.
ReadDone(p) ==
    LET rp == reg[at[p]]
        f == loc[p].on
        swap == loc[p].pc = "swapin"
        m == [PgTables EXCEPT !.fr[f].val = IF swap THEN disk[rp.dbd] ELSE FileVal,
                            !.fr[f].done = TRUE, !.fr[f].mod = FALSE]
    IN  /\ loc[p].pc \in {"swapin", "file"}
        /\ gpgslock' = IF swap THEN FALSE ELSE gpgslock
        /\ PgBecomes(m) /\ Quiet
        /\ reg' = [reg EXCEPT ![at[p]] = [rp EXCEPT !.v = TRUE, !.prot = Prot(rp),
                                                    !.lock = loc[p].inP]]
        /\ PgGoes(p, At(IF loc[p].inP THEN "cow" ELSE "user"))
        /\ UNCHANGED <<disk, at>>

-----------------------------------------------------------------------------
(* pfault: a write to a page that is copied on write *)

\* Fault: the last user of a frame that other regions have on swap takes it as it is.
StealKeepsHash(m, rp) ==
    IF rp.dbd \in SwapBlks THEN Swfree1(m, rp.dbd) ELSE m

\* The only user of a frame takes it from the disk block it belonged to.
Steal(m, rp) ==
    LET n == IF m.fr[rp.pfn].hash # Null THEN Premove(m, rp.pfn) ELSE m
    IN  IF rp.dbd \in SwapBlks THEN Swfree1(n, rp.dbd) ELSE n

\* The page of the region, now in frame f, may be written.
Writable(p, m, f) ==
    /\ PgBecomes([m EXCEPT !.fr[f].mod = TRUE])
    /\ reg' = [reg EXCEPT ![at[p]] = [@ EXCEPT !.lock = FALSE, !.v = TRUE, !.pfn = f, !.cw = FALSE,
                                              !.prot = "UW", !.pin = FALSE, !.dbd = "NONE"]]
    /\ PgGoes(p, At("user"))
    /\ UNCHANGED <<disk, gpgslock>>

\* The page is copied into a new frame and given up.
CopyPage(p, m) ==
    LET rp == reg[at[p]]
        f == Head(m.q)
    IN  Writable(p, Pfree([Ptfill(m) EXCEPT !.fr[f].val = m.fr[rp.pfn].val], rp), f)

Cow(p) ==
    LET rp == reg[at[p]]
        shared == frame[rp.pfn].use > 1 \/ rp.dbd = File
    IN  \/ shared /\ freemem >= 1 /\ CopyPage(p, [PgTables EXCEPT !.free = @ - 1])
        \/ /\ shared /\ freemem < 1
           /\ PgWait(p, PgTables, At("mem"), "copy", [rp EXCEPT !.pin = TRUE])
        \/ ~shared /\ Writable(p, Steal(PgTables, rp), rp.pfn)

ProtTrap(p) == /\ loc[p].pc = "user" /\ reg[at[p]].v /\ reg[at[p]].prot # "UW"
               /\ PgGoes(p, At("pfault")) /\ Quiet
               /\ UNCHANGED <<frame, freeq, freemem, ucnt, disk, gpgslock, reg, at, oops>>

\* The page may have been stolen while p waited for the region.
Pfault(p) ==
    LET rp == reg[at[p]]
    IN  /\ loc[p].pc = "pfault" /\ ~rp.lock
        /\ \/ ~rp.cw /\ PgSignal(p, "SIGSEGV")
           \/ rp.cw /\ ~rp.v /\ Translate(p, [At("pfault") EXCEPT !.inP = TRUE])
           \/ rp.cw /\ rp.v /\ Cow(p)
        /\ Quiet
        /\ UNCHANGED at

\* pfault goes on after vfault.
PfaultAgain(p) == loc[p].pc = "cow" /\ Cow(p) /\ Quiet /\ UNCHANGED at

-----------------------------------------------------------------------------
(* memreserve, for those who sleep *)

Wanted(x) == IF x.for = "page" THEN Prep + 1 ELSE 1

\* Fault: vfault does not look for the page again.
ResumeBlind(p, m, x) ==
    LET rp == reg[at[p]]
    IN  \/ x.for = "zero" /\ rp.v /\ PgReturn(p, [m EXCEPT !.free = @ + x.got], x, rp)
        \/ x.for = "zero" /\ ~rp.v /\ FillZero(p, m, x)
        \/ x.for = "page" /\ Read(p, m, x)
        \/ x.for = "copy" /\ CopyPage(p, m)

\* p, which has slept, has the memory (x.got) and the region again.  ptmemall and vfault
\* look whether the page has come in meanwhile.
Resume(p, m, x) ==
    LET rp == reg[at[p]]
    IN  \/ x.for # "copy" /\ rp.v /\ PgReturn(p, [m EXCEPT !.free = @ + x.got], x, rp)
        \/ x.for = "zero" /\ ~rp.v /\ FillZero(p, m, x)
        \/ x.for = "page" /\ ~rp.v /\ Cached(p, m, x)
        \/ x.for = "copy" /\ CopyPage(p, m)

\* p has the memory and goes on at once, unless it finds its region locked: then it sleeps
\* in reglock, with the memory.
Memreserve(p) ==
    LET x == [loc[p] EXCEPT !.pc = "relock", !.got = Wanted(loc[p])]
        m == [PgTables EXCEPT !.free = @ - Wanted(loc[p])]
    IN  /\ loc[p].pc = "mem" /\ freemem >= Wanted(loc[p])
        /\ \/ /\ reg[at[p]].lock
              /\ PgBecomes(m) /\ PgGoes(p, x)
              /\ UNCHANGED <<disk, gpgslock, reg>>
           \/ ~reg[at[p]].lock /\ Resume(p, m, x)
        /\ Quiet
        /\ UNCHANGED at

\* reglock returns.
Reserved(p) == /\ loc[p].pc = "relock" /\ ~reg[at[p]].lock
               /\ Resume(p, PgTables, loc[p]) /\ Quiet
               /\ UNCHANGED at

-----------------------------------------------------------------------------
(* getpages, by vhand and sched *)

\* The page goes without being written: swap has it already, for this region or for
\* another one that shares the frame.
GetpagesClean(d, r) ==
    LET rp == reg[r]
        f == frame[rp.pfn]
        b == IF rp.dbd = "NONE" THEN f.hash ELSE rp.dbd
        m == IF rp.dbd # "NONE" THEN PgTables
             ELSE IF b \in SwapBlks THEN [PgTables EXCEPT !.u[b] = @ + 1]
             ELSE [PgTables EXCEPT !.oops = "file block as swap"]
        out == [rp EXCEPT !.v = FALSE, !.dbd = b]
    IN  /\ loc[d].pc = "idle" /\ rp.v /\ ~rp.pin /\ ~rp.lock /\ ~rp.noswap
        /\ \/ rp.dbd = "NONE" /\ f.hash # Null
           \/ rp.dbd \in SwapBlks /\ ~f.mod
        /\ PgBecomes(Memfree(m, out))
        /\ reg' = [reg EXCEPT ![r] = out] /\ Quiet
        /\ UNCHANGED <<disk, gpgslock, at, loc>>

\* The page must be written to swap.  Its old block, if it has one, is given up.
GetpagesDirty(d, r) ==
    LET rp == reg[r]
        f == frame[rp.pfn]
        s == Swfree1(PgTables, rp.dbd)
        m == IF rp.dbd \notin SwapBlks THEN PgTables
             ELSE IF s.u[rp.dbd] > 0 THEN s
             ELSE IF Pfind(s, rp.dbd) = {} THEN [s EXCEPT !.oops = "getpages - pbremove"]
             ELSE Pbremove(s, rp.dbd)
    IN  /\ loc[d].pc = "idle" /\ rp.v /\ ~rp.pin /\ ~rp.lock /\ ~rp.noswap
        /\ \/ rp.dbd = "NONE" /\ f.hash = Null
           \/ rp.dbd \in SwapBlks /\ f.mod
           \/ rp.dbd = File
        /\ PgBecomes(m)
        /\ reg' = [reg EXCEPT ![r] = [rp EXCEPT !.lock = TRUE, !.v = FALSE, !.dbd = "NONE"]]
        /\ PgGoes(d, [At("window") EXCEPT !.on = r]) /\ Quiet
        /\ UNCHANGED <<disk, gpgslock, at>>

\* swapchunk has the window, and swalloc a page of swap.
Swapchunk(d, b) ==
    /\ loc[d].pc = "window" /\ d \in Daemons /\ ~gpgslock /\ ucnt[b] = 0
    /\ gpgslock' = TRUE
    /\ ucnt' = [ucnt EXCEPT ![b] = 1]
    /\ reg' = [reg EXCEPT ![loc[d].on].dbd = b]
    /\ PgGoes(d, [loc[d] EXCEPT !.pc = "swapout"]) /\ Quiet
    /\ UNCHANGED <<frame, freeq, freemem, disk, at, oops>>

\* The page has been written.
SwapOut(d) ==
    LET r == loc[d].on
    IN  /\ loc[d].pc = "swapout"
        /\ disk' = [disk EXCEPT ![reg[r].dbd] = frame[reg[r].pfn].val]
        /\ PgBecomes(Memfree(PgTables, reg[r]))
        /\ gpgslock' = FALSE
        /\ reg' = [reg EXCEPT ![r].lock = FALSE]
        /\ PgGoes(d, At("idle")) /\ Quiet
        /\ UNCHANGED at

-----------------------------------------------------------------------------
(* What processes do with their regions *)

UnusedRegs == {r \in Regions : reg[r].refs = 0}

\* allocreg and growreg or mapreg, by exec or shmget and shmat.
Make(p, r, k) ==
    /\ at[p] = Null /\ r \in UnusedRegs
    /\ reg' = [reg EXCEPT ![r] = [NoRegion EXCEPT !.kind = k.kind, !.refs = 1,
                                    !.noswap = k.noswap, !.dbd = k.dbd, !.cw = k.dbd = File,
                                    !.prot = IF k.dbd = File THEN "UR" ELSE "UW"]]
    /\ at' = [at EXCEPT ![p] = r]
    /\ PgGoes(p, At("user"))
    /\ pgop' = [op |-> "make", r |-> r, w |-> IF k.dbd = File THEN FileVal ELSE Zero]
    /\ UNCHANGED <<frame, freeq, freemem, ucnt, disk, gpgslock, oops>>

\* The processor writes.
UserWrite(p, w) ==
    LET rp == reg[at[p]]
    IN  /\ loc[p].pc = "user" /\ rp.v /\ rp.prot = "UW"
        /\ frame' = [frame EXCEPT ![rp.pfn].val = w, ![rp.pfn].mod = TRUE]
        /\ pgop' = [op |-> "write", r |-> at[p], w |-> w]
        /\ UNCHANGED <<freeq, freemem, ucnt, disk, gpgslock, reg, at, loc, oops>>

\* A region that is not private is only attached once more: dupreg for fork, or shmat.
Attach(p, r) ==
    /\ at[p] = Null /\ reg[r].kind = "shared" /\ ~reg[r].lock
    /\ reg' = [reg EXCEPT ![r].refs = @ + 1]
    /\ at' = [at EXCEPT ![p] = r]
    /\ PgGoes(p, At("user")) /\ Quiet
    /\ UNCHANGED <<frame, freeq, freemem, ucnt, disk, gpgslock, oops>>

\* Fault: the page of swap is not counted for the child.
DupregNoSwpinc(p, q, r) ==
    LET rp == [reg[at[p]] EXCEPT !.prot = "UR", !.cw = @ \/ reg[at[p]].prot = "UW"]
        m == IF rp.v THEN [PgTables EXCEPT !.fr[rp.pfn].use = @ + 1] ELSE PgTables
    IN  /\ loc[p].pc = "user" /\ at[q] = Null /\ r \in UnusedRegs
        /\ rp.kind = "private" /\ ~rp.lock
        /\ PgBecomes(m)
        /\ reg' = [reg EXCEPT ![at[p]] = rp, ![r] = [rp EXCEPT !.refs = 1]]
        /\ at' = [at EXCEPT ![q] = r]
        /\ PgGoes(q, At("user"))
        /\ pgop' = [op |-> "copy", r |-> at[p], s |-> r]
        /\ UNCHANGED <<disk, gpgslock>>

\* Fork: dupreg gives the child a copy of a private region.
Dupreg(p, q, r) ==
    LET rp == [reg[at[p]] EXCEPT !.prot = "UR", !.cw = @ \/ reg[at[p]].prot = "UW"]
        m == IF rp.v THEN [PgTables EXCEPT !.fr[rp.pfn].use = @ + 1] ELSE PgTables
        n == IF rp.dbd \in SwapBlks THEN [m EXCEPT !.u[rp.dbd] = @ + 1] ELSE m
    IN  /\ loc[p].pc = "user" /\ at[q] = Null /\ r \in UnusedRegs
        /\ rp.kind = "private" /\ ~rp.lock
        /\ PgBecomes(n)
        /\ reg' = [reg EXCEPT ![at[p]] = rp, ![r] = [rp EXCEPT !.refs = 1]]
        /\ at' = [at EXCEPT ![q] = r]
        /\ PgGoes(q, At("user"))
        /\ pgop' = [op |-> "copy", r |-> at[p], s |-> r]
        /\ UNCHANGED <<disk, gpgslock>>

\* detachreg, and freereg when nobody else has the region.
Detach(p) ==
    LET r == at[p]
        free == reg[r].refs = 1
    IN  /\ loc[p].pc = "user" /\ ~reg[r].lock
        /\ PgBecomes(IF free THEN Pfree(PgTables, reg[r]) ELSE PgTables)
        /\ reg' = [reg EXCEPT ![r] = IF free THEN NoRegion ELSE [reg[r] EXCEPT !.refs = @ - 1]]
        /\ at' = [at EXCEPT ![p] = Null]
        /\ PgGoes(p, At("idle"))
        /\ pgop' = IF free THEN [op |-> "drop", r |-> r] ELSE [op |-> "none"]
        /\ UNCHANGED <<disk, gpgslock>>

PgNext ==
    \/ \E p \in PgProcs :
          \/ TransTrap(p) \/ Vfault(p) \/ PageDone(p) \/ SwapIn(p) \/ ReadDone(p)
          \/ ProtTrap(p) \/ Pfault(p) \/ PfaultAgain(p)
          \/ Memreserve(p) \/ Reserved(p)
          \/ \E w \in Values : UserWrite(p, w)
          \/ \E r \in Regions : Attach(p, r) \/ \E k \in Kinds : Make(p, r, k)
          \/ \E q \in PgProcs, r \in Regions : Dupreg(p, q, r)
          \/ Detach(p)
    \/ \E d \in Daemons :
          \/ \E r \in Regions : GetpagesClean(d, r) \/ GetpagesDirty(d, r)
          \/ \E b \in SwapBlks : Swapchunk(d, b)
          \/ SwapOut(d)

PgSpec == PgInit /\ [][PgNext]_pgVars

-----------------------------------------------------------------------------
(* Properties *)

\* The frame of a region's page is on its way out, or in.
Leaving(r) == \E d \in Daemons : loc[d].on = r
Entering(r) == \E p \in PgProcs : at[p] = r /\ loc[p].pc \in {"window", "swapin", "file"}

\* The pages that processes have reserved.
Promised == UNION {{p} \X (1 .. loc[p].got) : p \in PgProcs}

\* A frame is used as often as regions have it and processes wait for it, and is on the
\* free queue just when nobody uses it; freemem is what is on the queue and not promised
\* to anybody.  (pf_use, P_QUEUE and freemem, through all the sleeps of the handlers.)
FramesExact ==
    /\ \A f \in Frames :
          frame[f].use = Cardinality({r \in Regions : /\ reg[r].pfn = f
                                                     /\ \/ reg[r].v
                                                        \/ Leaving(r)
                                                        \/ Entering(r)})
                       + Cardinality({p \in PgProcs : loc[p].pc = "hash" /\ loc[p].on = f})
    /\ \A f \in Frames : frame[f].use = 0 <=> \E i \in DOMAIN freeq : freeq[i] = f
    /\ Len(freeq) = Cardinality({f \in Frames : frame[f].use = 0})
    /\ freemem = Len(freeq) - Cardinality(Promised)

\* A page of swap is counted once for each region that has it, so none is lost and none
\* given to somebody else while it is needed (swalloc, swpinc, swfree1).
SwapExact ==
    \A b \in SwapBlks : ucnt[b] = Cardinality({r \in Regions : reg[r].dbd = b})

\* Neither a panic (two frames for one block, a page that getpages does not find) nor a
\* signal for an access that is allowed (the returns of 0 in pfault and vfault).
NoPanic == oops = "none"

\* Everybody waits for memory only when pages are locked in core (SHM_LOCK): the pages of
\* processes that wait can be stolen, but for the ones they are about to copy.
StopsOnlyWhenLocked ==
    ENABLED PgNext \/ \E r \in Regions : reg[r].noswap /\ reg[r].v

\* A page is treated as a "Demand zero or demand fill page" (vfault) only while it is one,
\* also when memreserve has slept.
FillsDemandPages ==
    [][\A p \in PgProcs :
          /\ loc[p].for = "zero" /\ loc[p].pc \in {"mem", "relock"}
          /\ loc'[p].pc \notin {"mem", "relock"} /\ ~reg[at[p]].v
          => reg[at[p]].dbd = "DZERO"]_pgVars

\* What a process would find in its region.
PageContents(r) ==
    LET rp == reg[r]
        cached == {f \in Frames : frame[f].hash = rp.dbd /\ frame[f].done}
    IN  CASE rp.refs = 0 -> Null
          [] rp.refs # 0 /\ rp.v -> IF rp.prot = "KW" THEN FileVal ELSE frame[rp.pfn].val
          [] rp.refs # 0 /\ ~rp.v /\ Leaving(r) -> frame[rp.pfn].val
          [] OTHER -> IF rp.dbd = "DZERO" THEN Zero
                      ELSE IF rp.dbd \notin Blocks THEN Junk
                      ELSE IF cached # {} THEN frame[CHOOSE f \in cached : TRUE].val
                      ELSE IF rp.dbd = File THEN FileVal ELSE disk[rp.dbd]

\* Paging is invisible: regions keep what was written to them, whether the page is in
\* core, shared with others until one of them writes, on swap, or between two of these.
Memory == INSTANCE AddressSpace WITH mem <- [r \in Regions |-> PageContents(r)],
                                    last <- pgop, Free <- Null
IsAddressSpace == Memory!Spec
=============================================================================
