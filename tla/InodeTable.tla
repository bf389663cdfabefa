----------------------------- MODULE InodeTable -----------------------------
(***************************************************************************)
(* The in-core inodes of a file system (os/iget.c), the inode numbers that *)
(* are free (ialloc and ifree of os/alloc.c), and the system calls that    *)
(* make and remove files: open, close, link, unlink and sync.              *)
(*                                                                         *)
(* There is one file system, with one directory that is always in use.     *)
(* Contents of files, their blocks and dates are left out.  The kernel is  *)
(* not preempted; a step ends where a process may sleep, or has the inode  *)
(* it works on locked, so that the next step commutes with what others do. *)
(***************************************************************************)
EXTENDS Integers, Sequences, FiniteSets

CONSTANTS Iprocs,
          Islots,     \* the in-core inodes
          NInodes,    \* inodes of the file system
          INOPB,      \* inodes of a disk block
          NICINOD,    \* inode numbers the super block has room for
          MAXLINK,    \* links of a file
          Dirs,       \* inodes that are directories: only the superuser, who is none of
                      \* the processes, links and unlinks them
          LinkRaces,  \* input: a file may be unlinked while link looks for it
          Nobody

Inos == 1 .. NInodes
InoEntries == 0 .. NICINOD - 1

ASSUME InodeAssumption == /\ {NInodes, INOPB, NICINOD} \subseteq Nat \ {0}
                          /\ MAXLINK \in Nat /\ Dirs \subseteq Inos
                          /\ LinkRaces \in BOOLEAN
                          /\ IsFiniteSet(Iprocs) /\ IsFiniteSet(Islots)
                          /\ Nobody \notin Iprocs \cup Islots \cup Int

VARIABLES
    islot,     \* per slot: i_number, whether it is hashed, i_count, ILOCK, IWANT, i_mode # 0,
               \* i_nlink and whether it must be written (IUPD, ICHG, IACC)
    ifreelist, \* the free slots, in order
    mcount,    \* m_count
    dino,      \* per inode number: di_mode # 0 and di_nlink
    sInode, sNinode, sIlock,  \* s_inode, s_ninode and s_ilock of the super block
    entries,   \* per inode number: its names in the directory
    dirLock,   \* who has the directory locked, or Nobody
    iproc,     \* per process: where it is, why, its inode number and its slot
    ichan      \* per process: the slot it sleeps on, or Nobody

inoVars == <<islot, ifreelist, mcount, dino, sInode, sNinode, sIlock, entries, dirLock,
             iproc, ichan>>
superVars == <<sInode, sNinode, sIlock>>

Out == [pc |-> "out", why |-> "none", ino |-> 0, ip |-> Nobody]

InoInit ==
    /\ islot = [s \in Islots |-> [ino |-> 0, hashed |-> FALSE, count |-> 0, lock |-> FALSE,
                                  want |-> FALSE, mode |-> FALSE, nlink |-> 0, dirty |-> FALSE]]
    /\ \E q \in [1 .. Cardinality(Islots) -> Islots] :
          (\A i, j \in DOMAIN q : q[i] = q[j] => i = j) /\ ifreelist = q
    /\ mcount = 0
    /\ dino = [i \in Inos |-> [mode |-> i \in Dirs, nlink |-> IF i \in Dirs THEN 1 ELSE 0]]
    /\ sInode = [e \in InoEntries |-> 0] /\ sNinode = 0 /\ sIlock = FALSE
    /\ entries = [i \in Inos |-> IF i \in Dirs THEN 1 ELSE 0]
    /\ dirLock = Nobody
    /\ iproc = [p \in Iprocs |-> Out]
    /\ ichan = [p \in Iprocs |-> Nobody]

-----------------------------------------------------------------------------
(* Locks *)

\* Fault: the wakeup is forgotten.
AwakeSilent(s) == ichan

\* wakeup in prele, when IWANT is set.
Awake(s) == [p \in Iprocs |-> IF ichan[p] = s THEN Nobody ELSE ichan[p]]

\* The slot after prele.
Released(r) == [r EXCEPT !.lock = FALSE, !.want = FALSE]

Prele(s, r) == /\ islot' = [islot EXCEPT ![s] = Released(r)]
               /\ ichan' = IF r.want THEN Awake(s) ELSE ichan

\* plock: p locks its inode and goes on at pc, or sleeps and tries again.
Plock(p, pc) ==
    LET s == iproc[p].ip
    IN  \/ /\ islot[s].lock
           /\ islot' = [islot EXCEPT ![s].want = TRUE]
           /\ ichan' = [ichan EXCEPT ![p] = s]
           /\ UNCHANGED iproc
        \/ /\ ~islot[s].lock
           /\ islot' = [islot EXCEPT ![s].lock = TRUE]
           /\ iproc' = [iproc EXCEPT ![p].pc = pc]
           /\ UNCHANGED ichan

-----------------------------------------------------------------------------
(* iget *)

Hashed(i) == {s \in Islots : islot[s].hashed /\ islot[s].ino = i}

\* The free list without slot s.
Unlisted(s) == LET k == CHOOSE k \in DOMAIN ifreelist : ifreelist[k] = s
               IN  [n \in 1 .. Len(ifreelist) - 1 |-> ifreelist[IF n < k THEN n ELSE n + 1]]

\* The first slot of the free list that is not locked.
Usable == {n \in DOMAIN ifreelist : ~islot[ifreelist[n]].lock}
FirstUsable == ifreelist[CHOOSE n \in Usable : \A m \in Usable : n <= m]

InoGoes(p, x) == iproc' = [iproc EXCEPT ![p] = x]

\* Fault: an inode in core that nobody uses stays on the free list.
FoundListed(p, x, s) ==
    /\ islot' = [islot EXCEPT ![s].count = @ + 1, ![s].lock = TRUE]
    /\ mcount' = IF islot[s].count = 0 THEN mcount + 1 ELSE mcount
    /\ InoGoes(p, [x EXCEPT !.pc = "got", !.ip = s])
    /\ UNCHANGED <<ifreelist, ichan>>

\* The inode is in core and not locked.
FoundInCore(p, x, s) ==
    /\ islot' = [islot EXCEPT ![s].count = @ + 1, ![s].lock = TRUE]
    /\ ifreelist' = IF islot[s].count = 0 THEN Unlisted(s) ELSE ifreelist
    /\ mcount' = IF islot[s].count = 0 THEN mcount + 1 ELSE mcount
    /\ InoGoes(p, [x EXCEPT !.pc = "got", !.ip = s])
    /\ UNCHANGED ichan

\* The inode is locked: p sleeps, and looks for it again.
FoundLocked(p, x, s) ==
    /\ islot' = [islot EXCEPT ![s].want = TRUE]
    /\ ichan' = [ichan EXCEPT ![p] = s]
    /\ InoGoes(p, [x EXCEPT !.pc = "iget"])
    /\ UNCHANGED <<ifreelist, mcount>>

\* The inode is not in core: a free slot is taken and iread begins.  What the slot held
\* of its last inode stays until the block is there.
TakeSlot(p, x, s) ==
    /\ islot' = [islot EXCEPT ![s] = [@ EXCEPT !.ino = x.ino, !.hashed = TRUE, !.count = 1,
                                               !.lock = TRUE, !.want = FALSE, !.dirty = FALSE]]
    /\ ifreelist' = Unlisted(s)
    /\ mcount' = mcount + 1
    /\ InoGoes(p, [x EXCEPT !.pc = "iread", !.ip = s])
    /\ UNCHANGED ichan

\* "inode table overflow".
TableFull(p, x) == /\ InoGoes(p, Out)
                   /\ UNCHANGED <<islot, ifreelist, mcount, ichan>>

\* p, whose state is x, looks for the inode x.ino.
Iget(p, x) ==
    LET found == Hashed(x.ino)
    IN  /\ \/ /\ found = {} /\ Usable # {} /\ TakeSlot(p, x, FirstUsable)
              /\ UNCHANGED dirLock
           \/ /\ found = {} /\ Usable = {} /\ TableFull(p, x)
              /\ dirLock' = IF dirLock = p THEN Nobody ELSE dirLock
           \/ /\ \E s \in found : IF islot[s].lock THEN FoundLocked(p, x, s)
                                                     ELSE FoundInCore(p, x, s)
              /\ UNCHANGED dirLock
        /\ UNCHANGED <<dino, entries>>

IgetAgain(p) == /\ iproc[p].pc = "iget" /\ ichan[p] = Nobody
                /\ Iget(p, iproc[p]) /\ UNCHANGED superVars

\* The rest of iread.
Iread(p) ==
    LET s == iproc[p].ip
    IN  /\ iproc[p].pc = "iread"
        /\ islot' = [islot EXCEPT ![s].mode = dino[iproc[p].ino].mode,
                                  ![s].nlink = dino[iproc[p].ino].nlink]
        /\ iproc' = [iproc EXCEPT ![p].pc = "got"]
        /\ UNCHANGED <<ifreelist, mcount, dino, superVars, entries, dirLock, ichan>>

-----------------------------------------------------------------------------
(* iput, with the inode locked *)

Image(r) == [mode |-> r.mode, nlink |-> r.nlink]

\* The caller of iput goes on: ialloc looks for another inode, unlink is at its end and
\* gives up the directory.
AfterIput(p) ==
    /\ InoGoes(p, IF iproc[p].why = "create"
                    THEN [Out EXCEPT !.pc = "ialloc", !.why = "create"] ELSE Out)
    /\ dirLock' = IF dirLock = p /\ iproc[p].why # "create" THEN Nobody ELSE dirLock

\* There are other users.
IputShared(p) ==
    LET s == iproc[p].ip
    IN  /\ iproc[p].pc = "iput" /\ islot[s].count > 1
        /\ Prele(s, [islot[s] EXCEPT !.count = @ - 1])
        /\ AfterIput(p)
        /\ UNCHANGED <<ifreelist, mcount, dino, superVars, entries>>

\* The last user of a file without links: itrunc, which writes the inode when it is that
\* of a file.
IputTrunc(p) ==
    LET s == iproc[p].ip
        r == islot[s]
    IN  /\ iproc[p].pc = "iput" /\ r.count = 1 /\ r.nlink = 0
        /\ dino' = IF r.mode THEN [dino EXCEPT ![r.ino] = Image(r)] ELSE dino
        /\ islot' = [islot EXCEPT ![s].dirty = TRUE]
        /\ iproc' = [iproc EXCEPT ![p].pc = "ifree"]
        /\ UNCHANGED <<ifreelist, mcount, superVars, entries, dirLock, ichan>>

\* ifree: the inode is marked free and written.
Ifree(p) ==
    LET s == iproc[p].ip
        r == [islot[s] EXCEPT !.mode = FALSE, !.dirty = FALSE]
    IN  /\ iproc[p].pc = "ifree"
        /\ \/ /\ islot[s].mode
              /\ islot' = [islot EXCEPT ![s] = r]
              /\ dino' = [dino EXCEPT ![r.ino] = Image(r)]
              /\ iproc' = [iproc EXCEPT ![p].pc = "doifree"]
           \/ /\ ~islot[s].mode
              /\ iproc' = [iproc EXCEPT ![p].pc = "ilast"]
              /\ UNCHANGED <<islot, dino>>
        /\ UNCHANGED <<ifreelist, mcount, superVars, entries, dirLock, ichan>>

\* doifree: its number is remembered in the super block.
Doifree(p) ==
    LET i == islot[iproc[p].ip].ino
        full == sNinode >= NICINOD
    IN  /\ iproc[p].pc = "doifree" /\ ~sIlock
        /\ sNinode' = IF full THEN sNinode ELSE sNinode + 1
        /\ sInode' = CASE ~full -> [sInode EXCEPT ![sNinode] = i]
                       [] full /\ i < sInode[0] -> [sInode EXCEPT ![0] = i]
                       [] OTHER -> sInode
        /\ iproc' = [iproc EXCEPT ![p].pc = "ilast"]
        /\ UNCHANGED <<islot, ifreelist, mcount, dino, sIlock, entries, dirLock, ichan>>

\* Fault: the last user does not write the inode.
IputLastUnwritten(p) ==
    LET s == iproc[p].ip
        r == islot[s]
    IN  /\ \/ iproc[p].pc = "ilast"
           \/ iproc[p].pc = "iput" /\ r.count = 1 /\ r.nlink > 0
        /\ Prele(s, [r EXCEPT !.count = 0, !.dirty = FALSE])
        /\ ifreelist' = Append(ifreelist, s)
        /\ mcount' = mcount - 1
        /\ AfterIput(p)
        /\ UNCHANGED <<dino, superVars, entries>>

\* The end of iput for the last user: the inode is written if it has to be, and its slot
\* is free but keeps it.
IputLast(p) ==
    LET s == iproc[p].ip
        r == islot[s]
    IN  /\ \/ iproc[p].pc = "ilast"
           \/ iproc[p].pc = "iput" /\ r.count = 1 /\ r.nlink > 0
        /\ dino' = IF r.dirty THEN [dino EXCEPT ![r.ino] = Image(r)] ELSE dino
        /\ Prele(s, [r EXCEPT !.count = 0, !.dirty = FALSE])
        /\ ifreelist' = Append(ifreelist, s)
        /\ mcount' = mcount - 1
        /\ AfterIput(p)
        /\ UNCHANGED <<superVars, entries>>

-----------------------------------------------------------------------------
(* ialloc, with the directory locked *)

\* FsINOS: the first inode of a block, or of the next one.
FsINOS(i) == (i \div INOPB) * INOPB + 1

\* The super block has a number.
DoiallocPop(p) ==
    LET i == sInode[sNinode - 1]
    IN  /\ iproc[p].pc = "ialloc" /\ ~sIlock /\ sNinode > 0 /\ i # 0
        /\ sNinode' = sNinode - 1
        /\ Iget(p, [iproc[p] EXCEPT !.ino = i])
        /\ UNCHANGED <<sInode, sIlock>>

\* It has none: the inodes on the disk are searched, from the remembered one.
DoiallocScan(p) ==
    /\ iproc[p].pc = "ialloc" /\ ~sIlock
    /\ sNinode > 0 => sInode[sNinode - 1] = 0
    /\ sIlock' = TRUE /\ sNinode' = NICINOD
    /\ iproc' = [iproc EXCEPT ![p].pc = "scan", ![p].ino = FsINOS(sInode[0])]
    /\ UNCHANGED <<islot, ifreelist, mcount, dino, sInode, entries, dirLock, ichan>>

\* One block of inodes: the first of the free ones, as many as there is room for.
DoiallocBlock(p) ==
    LET i == iproc[p].ino
        free == {j \in i .. i + INOPB - 1 : j \in Inos /\ ~dino[j].mode}
        Rank(j) == Cardinality({k \in free : k <= j})
        taken == {j \in free : Rank(j) <= sNinode}
    IN  /\ iproc[p].pc = "scan" /\ i <= NInodes /\ sNinode > 0
        /\ sInode' = [e \in InoEntries |-> IF \E j \in taken : e = sNinode - Rank(j)
                                          THEN CHOOSE j \in taken : e = sNinode - Rank(j)
                                          ELSE sInode[e]]
        /\ sNinode' = sNinode - Cardinality(taken)
        /\ iproc' = [iproc EXCEPT ![p].ino = i + INOPB]
        /\ UNCHANGED <<islot, ifreelist, mcount, dino, sIlock, entries, dirLock, ichan>>

\* The end of the search; "Out of inodes" when there was none.
DoiallocEnd(p) ==
    /\ iproc[p].pc = "scan" /\ (iproc[p].ino > NInodes \/ sNinode = 0)
    /\ sIlock' = FALSE
    /\ sInode' = IF sNinode > 0 THEN [sInode EXCEPT ![sNinode - 1] = 0, ![0] = 0] ELSE sInode
    /\ \/ /\ sNinode # NICINOD
          /\ sNinode' = NICINOD
          /\ iproc' = [iproc EXCEPT ![p].pc = "ialloc"]
          /\ UNCHANGED dirLock
       \/ /\ sNinode = NICINOD
          /\ sNinode' = 0
          /\ InoGoes(p, Out) /\ dirLock' = Nobody
    /\ UNCHANGED <<islot, ifreelist, mcount, dino, entries, ichan>>

\* ialloc has a free inode, and writes it at once.
IallocNew(p) ==
    LET s == iproc[p].ip
        r == [islot[s] EXCEPT !.mode = TRUE, !.nlink = 1, !.dirty = FALSE]
    IN  /\ iproc[p].pc = "got" /\ iproc[p].why = "create" /\ ~islot[s].mode
        /\ islot' = [islot EXCEPT ![s] = r]
        /\ dino' = [dino EXCEPT ![r.ino] = Image(r)]
        /\ iproc' = [iproc EXCEPT ![p].pc = "wdir"]
        /\ UNCHANGED <<ifreelist, mcount, superVars, entries, dirLock, ichan>>

\* "Inode was allocated after all."
IallocUsed(p) ==
    LET s == iproc[p].ip
    IN  /\ iproc[p].pc = "got" /\ iproc[p].why = "create" /\ islot[s].mode
        /\ islot' = [islot EXCEPT ![s].dirty = FALSE]
        /\ dino' = [dino EXCEPT ![islot[s].ino] = Image(islot[s])]
        /\ iproc' = [iproc EXCEPT ![p].pc = "iput"]
        /\ UNCHANGED <<ifreelist, mcount, superVars, entries, dirLock, ichan>>

\* wdir; then the new file is open.
Wdir(p) ==
    LET s == iproc[p].ip
    IN  /\ iproc[p].pc = "wdir"
        /\ entries' = [entries EXCEPT ![iproc[p].ino] = @ + 1]
        /\ dirLock' = Nobody
        /\ Prele(s, islot[s])
        /\ iproc' = [iproc EXCEPT ![p].pc = "open", ![p].why = "none"]
        /\ UNCHANGED <<ifreelist, mcount, dino, superVars>>

-----------------------------------------------------------------------------
(* System calls *)

\* Processes that have been at the call c with inode i and do not have it yet.
Begun(c, i) == {p \in Iprocs : /\ iproc[p].why = c /\ iproc[p].ino = i
                               /\ iproc[p].pc \in {"iget", "iread", "got"}}

\* namei, for open or link, finds the name of i and gives up the directory before it has
\* the inode.
Namei(p, c, i) ==
    /\ iproc[p].pc = "out" /\ dirLock = Nobody /\ entries[i] > 0
    /\ Iget(p, [Out EXCEPT !.why = c, !.ino = i])
    /\ UNCHANGED superVars

\* maknode: the name was not there, and the directory stays locked.
Maknode(p) ==
    /\ iproc[p].pc = "out" /\ dirLock = Nobody
    /\ dirLock' = p
    /\ InoGoes(p, [Out EXCEPT !.pc = "ialloc", !.why = "create"])
    /\ UNCHANGED <<islot, ifreelist, mcount, dino, superVars, entries, ichan>>

\* unlink: the directory is locked, and then the inode.
UnlinkBegin(p, i) ==
    /\ iproc[p].pc = "out" /\ dirLock = Nobody /\ entries[i] > 0
    /\ LinkRaces \/ Begun("link", i) = {}
    /\ dirLock' = p
    /\ InoGoes(p, [Out EXCEPT !.pc = "iget", !.why = "unlink", !.ino = i])
    /\ UNCHANGED <<islot, ifreelist, mcount, dino, superVars, entries, ichan>>

\* EPERM.
UnlinkRefused(p) ==
    /\ iproc[p].pc = "got" /\ iproc[p].why = "unlink" /\ iproc[p].ino \in Dirs
    /\ iproc' = [iproc EXCEPT ![p].pc = "iput"]
    /\ UNCHANGED <<islot, ifreelist, mcount, dino, superVars, entries, dirLock, ichan>>

\* The entry is removed, and the link.
Unlink(p) ==
    LET s == iproc[p].ip
    IN  /\ iproc[p].pc = "got" /\ iproc[p].why = "unlink" /\ iproc[p].ino \notin Dirs
        /\ entries' = [entries EXCEPT ![iproc[p].ino] = @ - 1]
        /\ islot' = [islot EXCEPT ![s].nlink = @ - 1, ![s].dirty = TRUE]
        /\ iproc' = [iproc EXCEPT ![p].pc = "iput"]
        /\ UNCHANGED <<ifreelist, mcount, dino, superVars, dirLock, ichan>>

\* open succeeds, or does not.
Open(p) ==
    LET s == iproc[p].ip
    IN  /\ iproc[p].pc = "got" /\ iproc[p].why = "open"
        /\ Prele(s, islot[s])
        /\ iproc' = [iproc EXCEPT ![p].pc = "open", ![p].why = "none"]
        /\ UNCHANGED <<ifreelist, mcount, dino, superVars, entries, dirLock>>

OpenRefused(p) ==
    /\ iproc[p].pc = "got" /\ iproc[p].why = "open"
    /\ iproc' = [iproc EXCEPT ![p].pc = "iput", ![p].why = "none"]
    /\ UNCHANGED <<islot, ifreelist, mcount, dino, superVars, entries, dirLock, ichan>>

\* EMLINK or EPERM.
LinkRefused(p) ==
    /\ iproc[p].pc = "got" /\ iproc[p].why = "link"
    /\ islot[iproc[p].ip].nlink >= MAXLINK \/ iproc[p].ino \in Dirs
    /\ iproc' = [iproc EXCEPT ![p].pc = "iput", ![p].why = "none"]
    /\ UNCHANGED <<islot, ifreelist, mcount, dino, superVars, entries, dirLock, ichan>>

\* Fault: the link is counted after the new name has been made.
LinkLate(p) ==
    LET s == iproc[p].ip
    IN  /\ iproc[p].pc = "got" /\ iproc[p].why = "link"
        /\ islot[s].nlink < MAXLINK /\ iproc[p].ino \notin Dirs
        /\ Prele(s, islot[s])
        /\ iproc' = [iproc EXCEPT ![p].pc = "link", ![p].why = "none"]
        /\ UNCHANGED <<ifreelist, mcount, dino, superVars, entries, dirLock>>

\* link: the link is counted and written first, then the inode is unlocked.
Link(p) ==
    LET s == iproc[p].ip
        r == [islot[s] EXCEPT !.nlink = @ + 1, !.dirty = FALSE]
    IN  /\ iproc[p].pc = "got" /\ iproc[p].why = "link"
        /\ islot[s].nlink < MAXLINK /\ iproc[p].ino \notin Dirs
        /\ dino' = [dino EXCEPT ![r.ino] = Image(r)]
        /\ Prele(s, r)
        /\ iproc' = [iproc EXCEPT ![p].pc = "link", ![p].why = "none"]
        /\ UNCHANGED <<ifreelist, mcount, superVars, entries, dirLock>>

LinkName(p) ==
    /\ iproc[p].pc = "link" /\ dirLock = Nobody
    /\ entries' = [entries EXCEPT ![iproc[p].ino] = @ + 1]
    /\ iproc' = [iproc EXCEPT ![p].pc = "open"]
    /\ UNCHANGED <<islot, ifreelist, mcount, dino, superVars, dirLock, ichan>>

\* EEXIST and so on: the link is taken back.
LinkFails(p) == /\ iproc[p].pc = "link" /\ dirLock = Nobody
                /\ iproc' = [iproc EXCEPT ![p].pc = "undo"]
                /\ UNCHANGED <<islot, ifreelist, mcount, dino, superVars, entries, dirLock, ichan>>

LinkUndo(p) == /\ iproc[p].pc = "undo" /\ ichan[p] = Nobody
               /\ Plock(p, "undone")
               /\ UNCHANGED <<ifreelist, mcount, dino, superVars, entries, dirLock>>

LinkUndone(p) == /\ iproc[p].pc = "undone"
                 /\ islot' = [islot EXCEPT ![iproc[p].ip].nlink = @ - 1,
                                           ![iproc[p].ip].dirty = TRUE]
                 /\ iproc' = [iproc EXCEPT ![p].pc = "iput"]
                 /\ UNCHANGED <<ifreelist, mcount, dino, superVars, entries, dirLock, ichan>>

\* closef.
Close(p) == /\ iproc[p].pc = "open" /\ ichan[p] = Nobody
            /\ Plock(p, "iput")
            /\ UNCHANGED <<ifreelist, mcount, dino, superVars, entries, dirLock>>

\* update: an inode that is in use, not locked and has to be written; one sync at a time.
Update(p, s) ==
    /\ iproc[p].pc = "out" /\ \A q \in Iprocs : iproc[q].why # "sync"
    /\ ~islot[s].lock /\ islot[s].count # 0 /\ islot[s].dirty
    /\ islot' = [islot EXCEPT ![s].lock = TRUE, ![s].count = @ + 1]
    /\ InoGoes(p, [Out EXCEPT !.pc = "update", !.why = "sync", !.ip = s,
                           !.ino = islot[s].ino])
    /\ UNCHANGED <<ifreelist, mcount, dino, superVars, entries, dirLock, ichan>>

UpdateWrite(p) ==
    LET s == iproc[p].ip
    IN  /\ iproc[p].pc = "update"
        /\ dino' = [dino EXCEPT ![islot[s].ino] = Image(islot[s])]
        /\ islot' = [islot EXCEPT ![s].dirty = FALSE]
        /\ iproc' = [iproc EXCEPT ![p].pc = "iput"]
        /\ UNCHANGED <<ifreelist, mcount, superVars, entries, dirLock, ichan>>

InoNext ==
    \E p \in Iprocs :
        \/ IgetAgain(p) \/ Iread(p)
        \/ IputShared(p) \/ IputTrunc(p) \/ Ifree(p) \/ Doifree(p) \/ IputLast(p)
        \/ DoiallocPop(p) \/ DoiallocScan(p) \/ DoiallocBlock(p) \/ DoiallocEnd(p)
        \/ IallocNew(p) \/ IallocUsed(p) \/ Wdir(p) \/ Maknode(p)
        \/ \E i \in Inos : Namei(p, "open", i) \/ Namei(p, "link", i) \/ UnlinkBegin(p, i)
        \/ Unlink(p) \/ UnlinkRefused(p) \/ Open(p) \/ OpenRefused(p) \/ LinkRefused(p)
        \/ Link(p) \/ LinkName(p) \/ LinkFails(p) \/ LinkUndo(p) \/ LinkUndone(p) \/ Close(p)
        \/ UpdateWrite(p) \/ \E s \in Islots : Update(p, s)

InoSpec == InoInit /\ [][InoNext]_inoVars

-----------------------------------------------------------------------------
(* Properties *)

\* Who has a reference to a slot.
Users(s) == {p \in Iprocs : iproc[p].ip = s}

\* An inode is in core once; i_count counts its users, and the slots without users are
\* exactly those on the free list; m_count counts the others.
InCoreExact ==
    /\ \A i \in Inos : Cardinality(Hashed(i)) <= 1
    /\ \A s \in Islots : /\ islot[s].count = Cardinality(Users(s))
                         /\ islot[s].count = 0 <=> \E n \in DOMAIN ifreelist : ifreelist[n] = s
    /\ Len(ifreelist) = Cardinality({s \in Islots : islot[s].count = 0})
    /\ mcount = Cardinality({s \in Islots : islot[s].count > 0})

\* Who sleeps for an inode is going to be woken: it is locked, and IWANT is set.
InoNoLostWakeup ==
    \A p \in Iprocs : ichan[p] # Nobody => islot[ichan[p]].lock /\ islot[ichan[p]].want

\* The file of an inode number: what is in core counts, once it has been read.
FileOf(i) ==
    LET core == {s \in Hashed(i) : islot[s].count > 0 /\ \A p \in Users(s) : iproc[p].pc # "iread"}
        r == IF core = {} THEN dino[i] ELSE islot[CHOOSE s \in core : TRUE]
    IN  IF r.mode THEN r.nlink ELSE Nobody

\* A name in the directory belongs to a file that is there and counts it, although link
\* unlocks the inode before it makes the name ("Suppose someone deletes the file in the
\* meantime?", sys2.c).
NamesCounted ==
    \A i \in Inos : entries[i] > 0 => FileOf(i) # Nobody /\ FileOf(i) >= entries[i]

\* The inodes implement FileStore: neither the reuse of slots, nor the writing of inodes,
\* nor the reuse of numbers that are freed by one process while another one searches for
\* them, destroys a file that has a link or a user, or makes one twice.
InoFiles == INSTANCE FileStore WITH
            Gone <- Nobody, file <- [i \in Inos |-> FileOf(i)],
            holders <- [i \in Inos |-> UNION {Users(s) : s \in Hashed(i)}]
IsFileStore == InoFiles!Spec
=============================================================================
