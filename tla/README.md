# A verification project for the MUNIX kernel

This directory holds TLA+ models of parts of the kernel of PCS MUNIX, a System V
for the Cadmus machines (68000 family), the TLC configurations that check them
on small instances, and TLAPS proofs of theorems about them for every size.
The source is under `src/usr/sys` of the repository; paths below are relative to it.

## 1. The system

One processor, many processes. A process inside the kernel is never preempted:
it gives up the processor only in `sleep` (`os/slp.c`), and `wakeup(chan)` makes
every process runnable that sleeps on `chan`. A process that has been woken must
look again, because others may have run first. Interrupts (disk, clock, terminal,
network) come between any two instructions at `spl0` and call `iodone`, `wakeup`
and the callout functions; code protects itself with `spl6`. Signals end a sleep
with a priority above `PZERO`.

So concurrency in this kernel consists of: interleavings of processes at sleeps;
interrupts at spl0; signals; and tables (buffers, inodes, locks, callouts) that
may be full. Nothing survives a crash but the disk, and `fsck` is not here.

### Inventory

| Part | State | Operations | Hard because |
|---|---|---|---|
| Buffer cache, `os/bio.c` | buffer headers with flags, available list, hash chains, count of asynchronous writes | bread, breada, getblk, geteblk, bwrite, bdwrite, bawrite, brelse, iowait, iodone, bflush, bdflush, bdwait, binval | interrupts release buffers, processes wait for one buffer or for any, delayed writes, read-ahead, device errors |
| Record locks, `os/flock.c` | per file a list of ranges, a chain of sleeping requests, tables of records and headers | fcntl F_SETLK, F_SETLKW, F_GETLK; close | ranges that split and merge, waiting, deadlock detection, full tables, signals |
| lockf, `os/lockf.c` | per inode a list of ranges, a table of records that are slept for | lockf, the check in read and write, close | sections that are joined and severed, records used again, deadlock detection; the check in `rdwr` is before the inode lock |
| Semaphores, `os/sem.c`, `os/ipc.c` | sets of semaphores, undo structures | semget, semop, semctl, exit | atomic groups of operations that sleep half way, undo, removal and reuse of identifiers |
| Messages, `os/msg.c`, `os/malloc.c` | queues, message headers, a pool of segments and its map | msgget, msgsnd, msgrcv, msgctl | four reasons to sleep, flags shared by all sleepers, removal under sleepers |
| Shared memory, `os/shm.c` | segments, each with one or two regions | shmget, shmat, shmdt, shmctl | sleeps for a region while the entry can be given to somebody else |
| Pipes, `os/pipe.c`, FIFO paths of `os/rdwri.c` | counts of readers and writers, read and write pointer | pipe, open, close, read, write | readers and writers wait for each other, last close |
| Inode table and inode numbers, `os/iget.c`, `os/alloc.c` | in-core inodes with counts and locks, free slots, the super block's list of free numbers | iget, iput, iupdat, ialloc, ifree, maknode, update | the same inode asked for twice, slots and numbers used again while others sleep, a cached list that must agree with the disk |
| Disk space, names, files, `os/alloc.c`, `os/nami.c`, `os/fio.c`, `os/sys2.c`, `os/sys3.c` | free blocks, file table, mount table | alloc, free, namei, open, close, mount, umount | order of updates on the disk |
| Callouts, `os/timeout.c`; select, `io/sel.c` | table of deltas; collision flags | timeout, cancelto, timein, select | the clock and drivers interrupt the walk along the table; a wakeup between the scan and the sleep |
| Processes and signals, `os/fork.c`, `os/exit.c`, `os/sig.c` ... | process table | fork, exit, wait, kill | orphans, zombies, stopped children |
| Memory, `os/region.c`, `os/page.c`, `os/fault.c`, `os/getpages.c`, `os/swapalloc.c`, `os/sched.c` | regions, page tables, page frames with their hash and free queue, use counts of swap | attach, dup, detach, fault, steal, swap | reference counts kept by five files, copy on write, handlers that sleep with the region unlocked |
| Terminals, `io/tty.c`, `io/clist.c`, `io/pty.c` ... | clists | read, write, ioctl | flow control |
| Munet, `munet/` | connections to other nodes | remote system calls, diskless clients | lost packets, retries |
| TCP sockets, `tcpsock/` | buffers shared with a controller board | socket calls | the other side is firmware |
| Drivers, controllers, bitmap terminal, start-up, libraries, stand-alone monitor | | | device I/O, or sequential code |

`PROJECT.json` lists all of them with what is modelled and why the rest is not,
and under `hazards` the places where a test would hardly reach.

How they interact. The file system calls the buffer cache and holds its buffers
busy; the cache calls drivers through `d_strategy` and is called back by their
interrupts. `closef` drops record locks and flushes and invalidates a device
that is closed for the last time; `update` flushes everything; the clock wakes
`bdflush`. The fault handlers wait for the pager, which
takes pages from regions that nobody has locked; system calls that copy from user space may
fault half way. Everybody sleeps and wakes through `os/slp.c`.

## 2. What is modelled

Nine parts so far, each with an abstract statement of what it promises where one
can be given, the model proper, a module with small instances (`MC*`) and, for six of
them, modules with proofs. `ListsAndLoops` has what several of the proofs need about lists and loops.

| Part | Abstract | Model | Instances | Proofs |
|---|---|---|---|---|
| Buffer cache | `BlockStore` | `BufferCache` | `MCBufferCache` | `BufferCacheProofs` |
| Record locks | `ByteLocks` | `FlockList` (lists of locks), `RecordLock` | `MCRecordLock`, `MCLocks`, `MCKernel` | `RecordLockProofs` |
| lockf | `ByteLocks` | `Lockf` | `MCLocks` | `LockfProofs` |
| Semaphores | | `Semaphores` | `MCSemaphores` | `SemaphoresProofs` |
| Pipes and FIFOs | `ByteQueue` | `Pipe` | `MCPipe` | `PipeProofs` |
| Messages | `MessageStore` | `ResourceMap` (the map of the pool), `MessageQueues` | `MCMessageQueues`, `MCKernel` | |
| Memory | `AddressSpace` | `Paging` | `MCPaging`, `MCKernel` | `PagingProofs` |
| Inode table | `FileStore` | `InodeTable` | `MCKernel` | `InodeTableProofs` |
| Callouts | `Timers` | `Callouts` | `MCKernel` | |

In all of them the kernel is not preempted: a step of a model is what the code does
from one place where somebody else can come in to the next. Such places are a
sleep, a page fault in a copy from user space and, in the cache, every place at
`spl0` where the disk interrupt matters. A signal that comes for a process asleep
is an action of its own; the process sees it when it runs.

Definitions whose comment starts with "Fault:" are not part of a model. Each is a
version of the definition after it with a plausible mistake, and `PROJECT.json`
(`mutants`) says which property notices it.

The composition in the code is by sleeps and by copies from user space, and the models
meet each other there as nondeterminism: a transfer ends at any time, a page may be out
(`Paged`), a signal may come. `MCKernel` is not a composition: it puts five tables that share
no state into one run, and `part` says which of them moves. `MCLocks` does the same for the two kinds of locks.

### 2.1 Buffer cache (`os/bio.c`)

State: for each buffer header its block, flags and contents; the available list in
order, with its `B_WANTED`; the disk; the transfers in the hands of the driver;
`basyncnt` and `basynwait`; and for each process where it is, its arguments, the
buffer it has found (`cand`), the one it holds (`bp`) and what it sleeps on.
`cur` is the process inside the kernel.

| Code | Actions |
|---|---|
| entry of bread, getblk, geteblk, breada, bdwait, bflush | `Bread`, `Getblk`, `Geteblk`, `Breada`, `Bdwait`, `Bflush` |
| getblk, before and after its `spl6` | `GetblkScan`; `GetblkBusy`, `GetblkHit`, `GetblkEmpty`, `GetblkDirty`, `GetblkTake` |
| bread, breada after getblk | `GotReturn`, `BreadStart`, `BreadaStart`, `BreadaAhead`, `BreadaXahead`, `AheadValid`, `AheadStart` |
| iowait | `IowaitSleep`, `IowaitRead`, `IowaitWrite` |
| brelse, bdwrite, bwrite, bawrite | `Brelse`, `Bdwrite`, `Bwrite`, `Bawrite`; `BwriteCount` is the `basyncnt++` after the transfer has been started |
| bflush, binval, bdflush, bdwait | `BflushWrite`, `BflushEnd`, `Binval`, `BdflushWrite`, `BdflushSleep`, `BdwaitSleep`, `BdwaitEnd` |
| iodone from the interrupt | `Iodone` |
| the close of a device (`closef`, `sumount`) | `Close`: bflush, then binval |

The driver is external: what it has been given completes in any order (drivers sort
their queues), with or without an error (`MaxErrors` bounds how often).

What is simplified: a process holds one buffer at a time, besides the one breada
holds while it reads ahead; callers of the file system that hold two (a directory
and an indirect block) are not there. Contents are one value for a block. The
hash chains are a search over all buffers, and the choice of bdflush by age is any dirty
buffer that is available. A buffer that bread returned with an error is released and
not written. The devices that may be closed are not used by others from the start of the close, and none of them is
the swap device, whose blocks binval leaves alone (`bio.c:467`).

`BlockStore` says what the callers may rely on: a block is in the hands of one process
at a time, and bread hands out what was written last. The mapping takes the contents
of a block from the buffer that holds it validly, else from the disk.

### 2.2 Record locks (`os/flock.c`)

`FlockList` has the code that works on one list: `Blocked` and `Insrt` (blocked, with
the place it leaves in `insrt`), and `Flckadj`, whose loop is a function of the
number of steps, one step (`Adjust`) for each lock it comes to: passing over it, joining it, deleting it,
cutting it short (`Trim`) or severing it (`Sever`). `RecordLock` has the processes:
`Setflck` takes the reference to the header; then, until the call ends or sleeps, the
process is in "try", which nobody interrupts: `SetflckAdjust`, `SetflckFail`,
`SetflckSleep`. A woken process goes on with `SetflckAgain` or, with a signal,
`SetflckIntr`. `Getflck` and `Cleanlocks` are F_GETLK and the close of a file.
`Deadflck` is the loop of deadflck along `blkpid`, written as reachability; it is
the same thing because the loop ends (`DeadflckEnds`, proved).

What is simplified: offsets are small numbers and `MaxEnd` is MAXEND; requests whose end does not fit in a
long, or with a negative length, are not made. Whence is left to the caller;
convoff fails for a place before the file. Files are told apart by name, not by device and inode.

`ByteLocks` says what fcntl promises: each request changes the locks of the caller on
exactly the bytes it names, or fails and changes nothing (but for ENOSPC, which may come
when some locks have been given up already). `last` records each return, so that the
abstract steps can be told from the outside.

### 2.3 Semaphores (`os/sem.c`)

State: for each entry of the table whether it is allocated and its sequence number; the
values and the two counts of sleepers of each semaphore; the undo structures; the area
`semtmp`; and for each process its call, the channel it sleeps on and its signal.
A pass over a list of operations (`Pass`, with `Operate`, `Semaoe`, `Semundo`) is one
step, since nothing in it sleeps. `Move` is the copy of the list from user space, which
may stop at any operation for a page fault (lists in `Paged`) and is resumed by `PageIn`;
`Semop`, `SemopAgain` and `SemopIntr` are the call, the way back from a sleep and the
interrupted sleep. `Semget`, `Rmid`, `Setval`, `Setall` and `Semexit` are the rest.
`base` is a history variable: the value each semaphore would have if only the
operations without SEM_UNDO had been done.

What is simplified: the identifier is a number as in the code, `un_id` is a short; all
sets have the same size and keep their place in `sem[]`; permissions, owners, times and
pids are left out, as is the use SETALL makes of `semtmp`. `FirstSeq` lets a run
start after many removals.

### 2.4 Pipes and FIFOs (`os/pipe.c`, `os/rdwri.c`)

State: the fields of one FIFO inode (`i_size`, the two pointers, the two counts, the
flags `IFIR` and `IFIW`, `ILOCK` and `IWANT`), the bytes of its blocks, the files each
process has open, and for each process in a call where it is, its arguments and
`u_count`, `u_offset` and the `usave` of writei.

| Code | Actions |
|---|---|
| entry of open, close, read, write, each up to plock (`namei` for open) | `Open`, `Close`, `Read`, `Write` |
| pipe | `SysPipe` |
| plock after a sleep, in readi and writei also after the sleep for the other side | `PlockAgain` |
| openp, its loops, ENXIO, a signal | `Openp`, `OpenpAgain`, `OpenpRefuse` then `Iput`, `OpenpIntr` (copen calls closef) |
| closep up to the free of the blocks; the rest, and iput | `Closep`, `CloseFree` |
| readi: nothing there; sleep; begin; one block | `ReadiEmpty`, `ReadiSleep`, `ReadiStart`, `ReadiBlock` |
| writei: EPIPE or FNDELAY; sleep; begin; one block | `WriteiFail`, `WriteiSleep`, `WriteiStart`, `WriteiBlock` |
| a signal in the sleep of readi or writei | `WaitIntr` |

A transfer may sleep for the disk in each block, so each block is a step; free may
sleep, so the last close is two. openp sleeps without the lock, but an open does not come between the
two: copen has the inode locked from namei until openp, in which prele is followed by the counting of the end.

A byte is represented by the process that wrote it. `ring` has the bytes still to be
read; a byte becomes unknown when the code lets go of it: when readi clears
`B_DELWRI` of a block read to its end, or when writei takes a block with getblk and
does not read it. A copy that fails changes the size and not the pointer; from then
on `spoilt` holds and nothing is claimed of the contents, until the pipe is empty and
the pointers are reset together.

`ByteQueue` is the promise: a bounded queue, with the ends counted from the files and the
calls in progress and not from `i_frcnt` and `i_fwcnt`. In the mapping the queue is the
part of the ring that begins at the pointer of the read in progress, if there is one.

What is simplified: no file is shared (fork, dup), so that each close is a last one. iread
clears the counts of a new inode because `i_waite` and `i_frcnt` are one field
(`sys/inode.h:91`, `93`). Blocks have `BSIZE` bytes, as PIPSIZ assumes (`sys/inode.h:88`; with the
double blocks of a large file system the limit of a pipe stays where it is). A full disk, disk errors, select, virtual
terminals and remote inodes are left out.

### 2.5 Messages (`os/msg.c`, `os/malloc.c`)

`ResourceMap` has `Malloc` and `Mfree` on a map of extents: first fit, the search for the
place of what is given back, joining it with its neighbours, a wakeup when the map was
empty, and the space that is dropped when the map has no entry left. `MessageQueues` has
the queues, the headers (linked lists, as in the code, from `msgfp` and from each queue), and the segments with
the process that wrote them. `spoilt` is a history variable, see below.

| Code | Actions |
|---|---|
| msgget, msgctl IPC_RMID and IPC_SET | `Msgget`, `MsgRmid`, `MsgSet` |
| msgsnd from the call to the first sleep or the return | `Msgsnd`, with `Getres` (the loop getres), `MsgsndPut` (the copy goes through, fails, or sleeps), `MsgsndNowait` |
| the rest of msgsnd after a copy that slept | `MsgsndCopied`, with `Put` and `GiveBack` |
| msgsnd after a sleep for room, a header or segments; with a signal | `MsgsndAgain`, `MsgsndIntr` |
| msgrcv, its search, its sleep | `Msgrcv` with `Findmsg`, `MsgrcvTake`, `MsgrcvFail`; `MsgrcvAgain`, `MsgrcvIntr`, `MsgrcvNowait` |
| the rest of msgrcv after a copy that slept | `MsgrcvCopied`, with `Take` |
| msgfree | `Msgfree` |

A copy from or to a page that is out is a place where others come in (`Faults`). msgsnd has then taken its segments and not yet
its header, and msgrcv has chosen a message and its predecessor; neither looks at the queue again. As long as the queue and
a header are there, and the message and its predecessor are where they were, the call goes on as if
nothing had happened. If not, the code takes a header from a null pointer, puts the message on a queue that is gone or is another one,
or frees a header that has been freed. The model does not follow it there: it notes the process in `spoilt` and stops. So
`HeadersExact`, `PoolExact`, `MsgNoLostWakeup` and `IsMessageStore` are claims up to such a copy, and that there are such copies is
the run `msg_copy`. `MsgView` makes one state of all that are spoilt by a call of the same kind; the invariants hold in them because `Spoils`
changes nothing else.

What is simplified: a call faults once at most, the queue may hold more than `msg_qbytes` after a copy that slept, as in the code, and
owners, permissions and times are left out.

`MessageStore` is the promise: a message stays until one receiver takes it or its queue goes, and
which one a receiver gets is stated without a search (`Best`), among those that were there when it looked: a message that comes
during the copy is not considered. In the mapping the text
of a message is what its segments hold, so that segments given out twice would show.

### 2.6 Memory (`os/fault.c`, `os/page.c`, `os/getpages.c`, `os/swapalloc.c`, `os/region.c`)

A region has one page, with its page table entry (valid, frame, copy on write, protection, locked) and
its disk block descriptor; a process has at most one region. State besides: the page frames with their use count, the
block they are hashed under, `P_DONE`, the modified bit and contents; the free queue and `freemem`; the use
counts and contents of swap; `gpgslock`.

| Code | Actions |
|---|---|
| a store of the program, and the two traps | `UserWrite`, `TransTrap`, `ProtTrap` |
| vfault: looking the page up in the cache, waiting for memory, for a transfer, for another's transfer | `Vfault`, `Miss`, `Cached`, `Latch`, `PageDone`, `ReadDone` |
| pfault: stealing the page or copying it | `Pfault`, `PfaultAgain`, `Cow`, `Steal`, `CopyPage` |
| memreserve after its sleep, and what the handler does then | `Memreserve` with `Resume`; `Reserved`, when the region was locked and reglock has slept too |
| getpages for a page that is clean or on swap already; for one that has to be written | `GetpagesClean`; `GetpagesDirty`, `SwapOut`, `SwapIn` |
| allocreg and attachreg; dupreg; detachreg with freereg | `Make`, `Attach`; `Dupreg`; `Detach` |

Regions are private or shared, mapped from a file or filled with zeros, and shared ones may be locked in
memory. The pager may take any page that is not locked: the ageing by which vhand and sched choose is left out.

`AddressSpace` is the promise: a region holds what was last written to it. The mapping takes
its contents from the frame if the page is valid, else from a frame of the cache, the page of
swap, the file, or zero.

What is simplified: one page for a region, no growth, no frames for page tables and u-areas, no transfer
that fails, no swap file that is added or removed, and enough swap (`SwapAssumption`), so
that swalloc does not sleep.

### 2.7 Inode table (`os/iget.c`, `os/alloc.c`, `os/sys2.c`, `os/sys4.c`)

State: the slots with their number, count, lock, `IWANT`, mode, link count and whether
they must be written; the free list; the inodes on the disk; the super block's list of free
numbers (`s_inode`, `s_ninode`, `s_ilock`); the names in one directory and its lock.

| Code | Actions |
|---|---|
| iget, before and after its sleep; iread; plock | `Iget`, `IgetAgain` (with `FoundInCore`, `FoundLocked`, `TakeSlot`, `TableFull`), `Iread`, `Plock` |
| iput with others, with the last use, with no link left | `IputShared`, `IputLast`, `IputTrunc`, then `Ifree`, `Doifree` |
| ialloc | `DoiallocPop`, `DoiallocScan`, `DoiallocBlock`, `DoiallocEnd`, `IallocNew`, `IallocUsed` |
| namei and maknode | `Namei`, `Maknode`, `Wdir` |
| open, close, unlink, link, update (sync) | `Open`, `OpenRefused`, `Close`; `UnlinkBegin`, `Unlink`, `UnlinkRefused`; `Link`, `LinkName`, `LinkFails`, `LinkUndo` ...; `Update`, `UpdateWrite` |

`FileStore` is the promise: a file is there from its creation until it has neither a link nor a user, and
only a user changes its links. The mapping takes an inode from its slot, when it is
in core and not just being read, else from the disk.

What is simplified: one file system, one directory that is always in core (`Dirs = {1}`; so rename and
mkdir, which are programs over link, are not there), no blocks and contents of files, no read errors. `LinkRaces`
is an input: whether a file may be unlinked between the look-up and the count of link.

### 2.8 lockf (`os/lockf.c`)

State: for each inode the list of its records, each with its owner, its ends and `F_WAITLOCK`; for
each process the record it sleeps for (`p_wchan`), and its request. The address of a record is its
`id`, which `Lockalloc` takes from those that are free (the least one; the code takes the last that was freed, `lockf.c:254`, and no
step looks at the order of addresses); lists of all files share the records.

| Code | Actions |
|---|---|
| lockf F_ULOCK; unlock, at any close | `LockfUlock` (`Touched`, `Rest`); `Unlock` |
| lockf F_LOCK, F_TLOCK, F_TEST, and rdwr, to the return or the sleep in locked() | `Lockf`: `Granted` (with `Add`, `Absorb`), `Refused`, `Waits` |
| locked() after its sleep; with a signal | `LockfAgain`; `LkSignal`, `LockfIntr` |
| deadlock() | `Deadlock`, as reachability along `p_wchan`; the loop ends because there are no circles (`LockfNoLostWakeup`) |

The promise is `ByteLocks` again, with write locks alone: sections are locked and unlocked byte by byte,
and what only uses bytes (F_TEST, read and write: type "T") goes on if nobody else has locked them.
What is simplified: offsets do not overflow, a request begins inside the file, and rdwr ends with the answer of locked(). locked() stops its search at a record behind the
section (`lockf.c:171`); `InSection` looks at all of them, which is the same as the list is in order (`LockfIsByteLocks`).

### 2.9 Callouts (`os/timeout.c`, `os/clock.c`)

State: the table, with times relative to the entry before, and where timein is with its two pointers.
`Timeout` and `Cancelto` are at splhi, one step each; `Clock` is the count of the first entry that is not
due, and the call of timein if it may; timein runs at spl1, in steps `TimeinCall` (which may ask again, `Periodic`),
`TimeinEnd`, `TimeinMove`, between which the clock may come in once more (`ticked`). Entries that timein and cancelto leave
behind the end of the table stay there, as in the code. `Timers` is the promise: a function is called once, not before the time, unless it is cancelled.
`Drivers` is an input: whether interrupts of drivers call timeout and cancelto while timein runs.

## 3. What is checked

| Run | Kind | Shows |
|---|---|---|
| `cache_safety` | pass | two processes, two buffers, three blocks of a device that gets closed, one error: list, ownership, one buffer per block, wakeups, `basyncnt`, and that bdwait returns only when nothing is under way |
| `cache_store` | pass | two processes, three buffers, read-ahead with `u_xablock`: the cache implements `BlockStore` |
| `cache_live` | pass | every sleep for a buffer or a transfer ends; bdwait ends once the others are quiet |
| `cache_read_error` | violation | bread can return a buffer that was never read, without an error |
| `lock_wait` | pass | fcntl, three processes, two files with one header, four lock records: no record or header lost, no lost wakeup, deadflck ends (so nobody sleeps in a circle); lockf, three processes, three bytes, three records: `Lockf` implements `ByteLocks`, and nobody sleeps in vain or in a circle |
| `lock_shared` | violation | with shared read locks a write lock is granted over a read lock |
| `sem_wait` | pass | three processes, two semaphores, one list on a page that may be out: nobody sleeps who could go on or whose set is gone, or without being counted, all or nothing, and undo is exact |
| `sem_fault` | violation | a set that was never named is changed after a page fault |
| `pipe_fifo` | pass | two processes with both ends of a FIFO of two blocks of two bytes: the counts of ends are exact, no lost wakeup, and `Pipe` implements `ByteQueue` |
| `kernel` | pass | five tables, one at a time: fcntl, all ranges of four bytes, both types, four lock records (the list stays in order and `RecordLock` implements `ByteLocks`); two processes with two headers and three segments, whose pages may be out (headers and segments are neither lost nor given out twice, no lost wakeup, `MessageQueues` implements `MessageStore`); two processes and two daemons with two frames (frames and swap are counted exactly, no panic, waiting for memory ends unless all of it is locked, `Paging` implements `AddressSpace`); two slots for three inodes (one slot for an inode, the lists are exact, no lost wakeup, link counts cover the names, `InodeTable` implements `FileStore`); three functions in a table of five callouts (`Callouts` implements `Timers`) |
| `msg_copy` | violation | the queue a message is about to be put on is removed while its text is copied |
| `paging_shm` | violation | a page of unlocked shared memory is filled after a sleep by a process that decided to before |

Bounds. Two buffers and three blocks are the least with which a process can hold one
buffer, miss on another block and find both the list empty and its block brought in by
somebody else; three buffers are needed for read-ahead in `cache_store`, because
breada reads ahead only when two buffers are available. `AsyncMin` stands for the 4 of
bawrite, so that both branches are taken with so few buffers. Three processes make a
circle of waiting that is longer than two, and let one process wake two. Four bytes let a lock be severed with room on both sides and in the middle; four lock records run out in the middle of
flckadj. One undo entry for each process and two structures for three processes run
out within a list. A pipe of two blocks of two bytes, with calls of three and five
bytes, has transfers that begin and end inside a block, go round, do not fit, and are longer
than the pipe. Two processes are one that sleeps and one that wakes it; as each may
have both ends open, both kinds of sleeper occur with both kinds of close. Two headers let a message be taken from behind another, and three segments for messages of one and two
segments leave gaps; the map has room for an extent between any two texts, those that are being copied included (`MapAssumption`); one queue that is removed and made again has sleepers of an earlier one. Two frames for
two processes make a handler wait for memory to read a page or to copy one, and the second daemon takes the page
that the first one is writing; three inodes in blocks of two, with a list of two numbers, make ialloc search twice
and overwrite the mark, and two slots make the table full. Three bytes of lockf, with sections of the first one, the second one and the last two (all three once they are joined), join and sever
records among those of others; empty sections are left out, as in the proof. Five callouts are three that are due, one that is asked for again, and an end. The symmetry sets permute names no definition treats differently
(`Permuted` keeps the readers apart from the others). The views leave out variables
no later step reads: `last` and `lkLast`, which are only written, and `semtmp` while no page is
out, since then each pass writes what it reads. `KernelView` leaves out what free
headers, free segments, free frames and the unused end of the super block's list hold.

Larger instances have been run by hand with the same invariants and refinements: three slots, two inodes in a
block and all three of them deletable (a million states); three processes, three regions and three pages of swap
(2.3 million).

`kernel` lets one process have read locks. With two that share read locks the
code does not keep the promise (`lock_shared`), and without the restriction
`ListSorted` and `IsByteLocks` are false for the same reason.

Deadlock is checked but for `kernel`, `msg_copy` and `paging_shm`; it does not occur, as some process can always make
another call. In Paging it does: when the pages that are locked, by SHM_LOCK or by a process that waits
to copy one, fill the memory, everybody waits. `StopsOnlyWhenLocked` says that this is the only
way for the waiting to have no end.

`Programs` in the run `kernel` has no shared memory that may be swapped: with it `IsAddressSpace` and
`SwapExact` are false for the reason `paging_shm` shows. Nor does a process in that run wait for memory for a page of zeros, or
sleep in reglock when it has the memory (`Reserved`): the first takes frames that others give up in the meantime, and the second a region
that somebody else fills or that is being swapped, which must be shared memory. Only the instance of `paging_shm` has them: three processes and three regions for two
frames, so that a process waits for a region nobody has locked when memory comes. For private regions and locked
shared memory they are covered by the theorems on `Paging`. With `LinkRaces = TRUE` the code
meets neither `NamesCounted` nor `IsFileStore`: link counts and names a file that was
removed after namei had found it (`nami.c:315`).

Fairness (`cache_live`). A process that can run infinitely often does run (`SF` for
each process: swtch chooses by priority, and priorities decay with use, so no runnable process is passed
over for ever), and one that holds a buffer gives it back. This has to be
strong fairness because a process is runnable only while nobody else is inside the
kernel. The daemon goes on when it is awake, and each transfer given to a driver
completes (`WF`). Neither the clock nor the start of a call is assumed to happen.
A process may be woken and find the buffer taken again: that getblk as a whole ends
is not claimed, since the code does not queue the waiters.

### Where the code and its comments part

Five runs show a disagreement (`findings` in `PROJECT.json`):

- `cache_read_error`, `bio.c:274`: getblk looks at `B_STALE` before it raises to spl6.
  A read-ahead that fails in between leaves a stale buffer that bread then takes for
  valid.
- `lock_shared`, `flock.c:349`: the piece behind a severed lock is put in by the wrong
  offset, the list gets out of order, and blocked stops its search too early.
- `sem_fault`, `sem.c:498`: semop looks the set up and then copies its operations in,
  which may sleep.
- `msg_copy`, `msg.c:434`: msgsnd finds "everything available" and then copies the text in, which may sleep; its queue may be gone
  afterwards, or another one, and `msgfp` may be null. In the same way two receivers may copy one message and both free it (`msg.c:315`, `331`).
- `paging_shm`, `fault.c:209`: vfault decides to fill a page of zeros and sleeps for memory. The page may have
  been filled, used and swapped out when it goes on; what was written is lost and the program sees what the frame held before.

Met on the way, and left to the reader without a run: getflck keeps a reference to the
header when convoff fails (`flock.c:485`; `RefcntExact` then fails). deadflck counts
entries of processes that have been woken and have not run, and can refuse with EDEADLK a request
that would deadlock nobody (`flock.c:628`). A list of operations that changes a semaphore and then waits for zero
on it may sleep although it could be satisfied (`sem.c:594`). Identifiers above
32767 do not fit into `un_id`, so SEM_UNDO has no effect for them (`sem.c:104`; run
`sem_wait` with `FirstSeq = 32768`). A process that is woken and then interrupted
counts off another (`sem.c:578`), so that GETNCNT can be too low, though never zero
while somebody sleeps (`SleepersAccounted`). A page fault in the middle of a list
lets another semop overwrite the first part of it (`sem.c:498`). On a fault in the copy, writei releases a buffer that
is half overwritten and valid (`rdwri.c:219`). A copy that fails leaves the size of a pipe and its
pointers apart until it is empty (`rdwri.c:102`, `241`). A disk that gets full in a write longer than the
pipe makes writei skip bytes and report that all were written (`rdwri.c:255`).
rdwr asks lockf's locked() before it has the inode (`sys2.c:79`). lockf with a size below zero at offset 0
enters an empty record (`lockf.c:56`): when two processes have one each, it stands between records of the first, lockf does not
join them, and they overlap; if that process then locks the whole file and unlocks its first byte, the byte stays locked. `l_start + l_len` may wrap around (`flock.c:534`).

In the callouts: with `Drivers = TRUE` `IsTimers` does not hold. When timein has called a function that asks for itself again, an interrupt
that cancels it takes out the entry that is done (`timeout.c:131`), the entries behind it move to the front, and timein goes on one too far: the
next function is lost. rmtintr and the answer it waits for are such a pair (`io/rmt.c:198`, `241`). The test
for a full table looks at a slot that may hold an old entry (`timeout.c:46`). untimeout, which nobody calls, would find old entries too.

In the messages: IPC_SET raises the limit of a queue and wakes nobody (`msg.c:122`; `raised`
keeps such queues out of `MsgNoLostWakeup`); a process that waits for a header or for segments does not notice that its queue has
been removed until some are given back (`msg.c:95`); sizes are kept in shorts (`msg.c:448`).

In the memory: swapchunk waits for swap space with `gpgslock` held, which a process needs to read its page and free some
(`getpages.c:426`); after a read error the frame stays hashed (`fault.c:567`); a page of a text that
is being read has kernel protection, and another process that runs it gets a protection fault that trap makes a SIGSEGV
(`fault.c:421`); dupreg undoes a partial copy wrongly (`region.c:426`); removing a swap file takes shared frames from the hash,
which getpages panics about (`swapalloc.c:467`). shmctl frees the entry before it sleeps for the region, and
reads `shm_reg_ro` after it, which may be the region of the next user of the entry (`shm.c:178`, `185`); shmget does not reset
`shm_reg_ro`; and shmat tries the next address with a region that detachreg has released (`shm.c:88`).

In the inodes: iread calls iput when the block cannot be read, and the slot still holds its last inode: with a
link count of 0 that is written over the file, else the slot stays hashed and the next iget takes it as read (`iget.c:187`; with
a step of iread that fails, `IsFileStore` does not hold). doifree overwrites the mark of the search when the list is empty, so that
free inodes are not found (`alloc.c:320`). maknode does not look whether the name was written (`iget.c:435`). A process that
waits in iget does not notice an unmount (`iget.c:150`).

## 4. What is proved

Every theorem holds for any number of processes, buffers, blocks, devices, inodes, files, locks and
semaphores, for lists and calls of any length. The assumptions are the named ones of the modules:
sizes are natural numbers; the special values are none of the others (`None`, `Nobody`, the hands of
`BlockStore`); and what is counted is finite: `Bufs`, the processes of `Pipe`, the processes and
slots of `InodeTable`, the processes and files of `RecordLock`, the processes, regions and frames of `Paging`. The kernel's tables are arrays, so all of
these are met. What a theorem assumes beyond that is a hypothesis in its statement, and named below.

### Buffer cache

`BufferCacheProofs`: `TypeCorrect`, `AvailableListCorrect` (FreeIffNotBusy),
`ExclusiveOwnership` (OneOwner), `NoAliasing` (OneBufferPerBlock) and `WakeupsNotLost`
(NoLostWakeup). None is inductive alone. `IInv` adds: who is between two places of
interruption has the processor (`NotPreempted`); the arguments of a call in progress
(`ArgsOK`); which buffers a process may point to, and that the one it has found is in
nobody's transfer (`PointersOK`); that what the driver has is busy and not done, and that what is
`B_ASYNC` is with the driver (`BuffersOK`); where sleepers are (`SleepOK`); and that a
process about to reassign a buffer still misses its block (`MissOK`), which is what `OneBufferPerBlock` rests on and
what the loop back in getblk after each sleep is for. One lemma for each kind of
step, over lemmas on the list (`UnlinkFacts`, `LinkFacts`).

`AsyncWritesCounted` (AsyncCounted) and `HaltWaitsForWrites` (BdwaitDrains): the count and the set of
asynchronous transfers change together, so the step lemmas are about how the cardinality of that set
changes when one buffer joins or leaves it; bdwait returns only at 0, where the set is empty.

`CacheIsBlockStore`: that the cache implements `BlockStore`, for `MaxErrors = 0` (after
a read error the code does hand out what the disk never delivered: run `cache_read_error`). The
invariant `Contents` says, of the devices that stay open, that a buffer has no error and is not stale; that it holds nothing until it
is read or written; that from then on it is the same as the disk unless it is delayed or under way; and that bread
hands out valid buffers only. Each step is then a step of the store, or leaves unchanged what its callers can see.

### Record locks

`RecordLockProofs`: `DeadlockDetectionEnds` (DeadflckEnds): a process adds an edge to
the graph of `blkpid` only when it cannot be reached from where the edge leads, and
otherwise edges only go, so there is never a circle, whatever the lists do.

`FlckadjKeeps` is about flckadj as a whole, the loop over the list with all its cases: every record in the list before is after
it in the list, or freed, and counted as such; who sleeps for a lock that is removed or cut short is
woken, and everybody else still sleeps for a lock that is in his way. It is an invariant of the loop's
turns (`Between`), and the invariant `LocksInv` of the whole module rests on it: the types, what a
sleeper's `blkpid` and list say (`SleepOf`), the references to the headers, the count of records. From it
`LockWakeupsKept` (NoLostWakeup), `RecordsKept` (RecordsCounted), `HeaderStays` (whoever is in a call finds the header
of his file, also when references have leaked) and `HeadersCounted` (RefcntExact). The last assumes `NoneBefore`: a request that starts before
its file makes convoff fail in getflck, which then keeps its reference.

`BlockedFindsAll` and `BlockedIsInTheWay`: on a list in order, blocked finds a lock that is in the
way if there is one. `lock_shared` shows that the order is needed.

### lockf

`LockfProofs`: `LockfWakeupsKept` (LockfNoLostWakeup). The invariant `LkInv` says of the lists only that a record has one owner, and where it is;
of a sleeper, that the record it sleeps for is marked and in its way; and that no set of processes sleeps for records of one another (`NoCircle`). What a
call makes of a list is reduced to one relation, `Follows`: each record of another process is as before; each of the caller's is
still there, no shorter, or among those whose sleepers are woken; and no record is new but with an address that was free. Addition
(`AddFollows`, from `AbsorbIs`: which records are joined), release (`UlockFollows`) and close (`OthersFollow`)
satisfy it, and `ReturnKeeps` says that what satisfies it keeps the invariant. A wakeup only opens circles; a
process that goes to sleep closes none, since deadlock() has found no way from the owner back to it.

`LockfIsByteLocks` (IsLockf), for `NoEmpty`: no call names a section without a byte. Then the records of a list are in order,
and none is empty or overlaps another (`InOrder`), which is what the searches of lockf rely on. Of each change of a list
one lemma says that the order is kept and which bytes the records cover afterwards (`Covers`): addition (`AddBytes`, over `AbsorbBytes`), release
(`UlockBytes`, of parts that lie within the old records, `PartsInOrder`), close (`OthersBytes`) and a mark (`SameBytes`).
`HeldPut` carries them over to the locks of `ByteLocks`, and `LkNextStep` collects the actions. A size below zero at offset 0 is what `NoEmpty` excludes:
the code enters a record from 0 to 0, and with that `IsLockf` does not hold (section 3, "Where the code and its comments part").


### Semaphores

`SemaphoresProofs`: `SleepersAccounted` (Accounted), inductive together with the types of
the counts and channels, with page faults, signals and reused sets; and `RemovalWakesAll` (NoSleepOnRemoved) for
`Paged = {}`, from `Settled`, which adds where sleepers are and that a process
remembers the channel it sleeps on. With page faults the statement is false.

`SemWakeupsKept` (NoLostWakeup), from `Awaiting`: a sleeper's list has an operation that cannot be done at the present
value of the semaphore it sleeps for. What a whole pass over a list does, with semundo after it, is stated by
`PassFacts`: the values are the sums of what was done, the channels woken include those of every
value that rose or came to zero, and where the pass stopped the operation could not be done. The theorem assumes
`Paged = {}` (as above) and `ZeroFirst`: a list waits for zero before it changes that semaphore. The second is a remark about the code:
a process that sleeps with -1, 0 on a semaphore of value 2 waits for its own list to leave 0,
which it does when the value becomes 1, and nobody wakes it then, since the value has neither risen nor come to
zero (`sem.c:594`). Nothing in the repository excludes such lists.

`SemopAllOrNothing` (AllOrNothing), also with page faults: it takes more than that values come back,
since semundo has to find the undo entries as they were, at their places, in a structure that may be full. `Undoable` adds
that entries are in order, distinct, not zero and in range (`Recorded`). Then taking back with `semaoe` what
semaoe did restores the structure (`SemaoeBack`: an entry that was added is removed, one that was removed is put back at its
place, and there is room for it), and the turns of semundo pass through the states of the pass in
reverse (`PassUndo`). It assumes `IdsFit`: the identifiers of the sets fit in the short `un_id`
(`sem.c:104`); otherwise semaoe does not find the entries it made.

`UndoBalanced` (UndoBalance) is about all processes together: the value of a semaphore and the adjustments that everybody would
make at exit add up to what the value would be without the operations with SEM_UNDO. `Balanced` adds that an entry
is there only for a set that is, so that a set that is new in its slot is owed nothing, and that a free slot has zero
values. What one process owes is its only entry for the semaphore (`OwedHas`); `SemaoeOwed`, `PassOwed` and `SemunrmOwed` say what
semaoe, a pass with its semundo and semunrm make of it, and `DebtChanges` what becomes of the sum over the processes.
It assumes `IdsFit`, a finite process table (`ProcsAssumption`) and `Paged = {}`: after a page fault semop goes on with the identifier of a set that is
gone (run `sem_fault`) and makes entries for it.

### Pipes

`PipeProofs`: `PipeInvariant`, `PipeLockExcludes`, `EndsCounted` (CountsExact) and `PipeWakeupsKept` (NoLostWakeup).
`PipeInv` adds the lock (ILOCK is set iff exactly one process is between plock and prele), what a process
in each place is there for (`Purpose`), and for each kind of sleeper the flag that promises the wakeup (IWANT, IFIR, IFIW, or the
count of the other end). A close changes the counts and wakes before it gives up the lock, so
the counts are cardinalities of sets of ends held and of ends being closed; `EndsCounted` is about how these change.

`PipeIsByteQueue` (IsByteQueue): `Pipe` implements `ByteQueue`. The invariant `RingInv` (`RingInvariant`) says, while no copy has failed, that
the write pointer is as far after the read pointer as there are bytes, round the end of the ring, where in the middle of a call the pointer is
the caller's `u_offset`; that what a writer is about to put fits; and that it has readers. `BlockFacts` is the
arithmetic of blocks. `QuietSteps` shows that only a turn of the loops of readi and writei and the end of the last close change what
is in the pipe; `ReadTurn` and `WriteTurn` are these turns: a block that is dropped (`rdwri.c:105`) or begun without being read
(`rdwri.c:214`) has no byte between the pointers. A turn of n bytes is a Get or a Put, or nothing if n is 0.

### Inode table

`InodeTableProofs`: `InodeInvariant`, `InodesCounted` (InCoreExact) and `InodeWakeupsKept`
(InoNoLostWakeup). `InoInv` adds: ILOCK is set iff exactly one process has the slot locked
(`LocksExact`); a sleeper waits for a locked slot with IWANT set (`InoSleepers`); an inode is
hashed once; and who frees an inode is its only user (`LastUsers`), without which the
count of the slot could rise between the test for 1 and the release.

`NamesAreCounted` (NamesCounted) and `FilesAreStored` (IsFileStore) rest on a second invariant, `FilesInv`
(`FilesInvariant`): a slot that is not being read is a copy of the inode on the disk, or has been changed and has a user; so there is
one present state of every inode (`Cur`), in a slot or on the disk. Its link count is the number
of names plus the calls that have counted a link and not yet made the name, or removed a name and not yet taken the link back (`Linked`);
a directory or name that a call relies on stays while it sleeps (`NamesStay`, `DirHeld`). For each
step one lemma says what it does to one inode, and that the others are the same. Both theorems assume
`~LinkRaces`: with the race in namei (`nami.c:315`) the code meets neither.

### Memory

`PagingProofs`: `PagingInvariant`, `FramesCounted` (FramesExact), `SwapCounted` (SwapExact) and `NeverPanics` (NoPanic). The
counts are kept by five files and change before and after sleeps, so none of the three is inductive. `PgInv` adds:

- of the tables alone (`TabsOK`): a frame is queued iff its use count is 0, once; no two frames are hashed under one block; a
  frame hashed under a page of swap is of a page that is in use. Each routine of `page.c` has a lemma over this part;
- a region is locked iff exactly one process or daemon has it locked (`LocksExact`), its reference count is the number of its
  processes, and a private region has one process (`RefsExact`);
- what a valid page and its frame have to do with each other (`PageOf`), and that a region without page and block has its page on the way
  out (`RegOf`);
- what a handler that sleeps relies on when it wakes (`ProcOf`): its region is still to be filled with zeros, or still
  has its block, or still has the page it wants to copy, which is pinned; it has reserved what it asked for; the frame it waits for is still
  hashed under its block;
- of a page that is written (`DaemonOf`): its frame is the daemon's, and no other region and no frame has its page of swap.

A step is one actor's, on one region. `FaultStep` (for faults), `DaemonStep` (for getpages) and `AsideStep` (for steps that leave the region alone) reduce the
invariant to what the actor does to the tables, its region and itself: all others find what they rely on
because a frame that is hashed under a block somebody has stays so. Reservations are counted as a set of pairs (`Promised`), as
cardinalities are in reach of the provers and sums are not. The number of regions that have a page of swap changes with
each copy, fork and exit together with `ucnt`; where the page is given back twice or not at all, the step lemma fails.

All four assume `LockedShm`: regions that are shared are locked in core and filled with zeros at first. Without it the code does
not meet `SwapExact`, as vfault fills a page of zeros on what it knew before it slept (`fault.c:209`, run `paging_shm`). `FramesExact` and
`NoPanic` hold then too in the instance of that run, up to such a fill, but the invariant above does not. Private regions, of a
file or of zeros, locked or not, are not restricted.

### How loops are proved

Models write loops as recursive functions on the number of turns. That such a function satisfies its own equation, and what holds after the last
turn, is proved in `ListsAndLoops`: a sequence of states that starts right and takes each turn right exists
(`LoopRuns`), the CHOOSE of the function is such a sequence, and what each turn keeps holds at the end, since there would be a
least turn at which it fails (`UpTo`, `LoopStays`, from `LeastOfNats`).

A sum over a finite set (`SumFunctionOnSet` of the community modules) is a function of the subsets, with the value of each from that of a smaller
one: it exists, does not depend on the order (`SumTerm`), and changes with one term by what the term changes (`SumChanges`).

### Left to TLC

- Liveness (`cache_live`), ENABLED (`StopsOnlyWhenLocked`).
- What memory holds (`IsAddressSpace`): its proof would have to follow contents through frames, swap and files; not tried.
- What is defined by sums over sequences: `HeadersExact`, `IsTimers`.
- `ListSorted`: it does not hold in general (with shared read locks, run `lock_shared`), and so
  neither do `IsByteLocks` and `Exclusive` of the record locks; they are checked for instances where it does.
- Messages and callouts: not tried.

## 5. Plan

1. Proofs: `MsgNoLostWakeup`; that `Paging` implements `AddressSpace`.
2. Shared memory (`os/shm.c`) over the regions of `Paging`.
3. Blocks of files (alloc, free, tloop) over `BufferCache`; mounts and several directories in `InodeTable`.
4. fork, exit, wait and signals; `sleep` itself with signals that break it; select (`io/sel.c`).
5. rdwr on regular files, with locked() before and plock after.
6. The request and reply protocol of Munet.

Runs are kept few, one for each question: parts that share no state share the run `kernel`, as
long as the bounds allow.

## 6. Not modelled

Drivers and controllers (device I/O; the firmware is not in the repository), the
machine dependent start and trap code, the bitmap terminal, TCP (on a board), the
libraries and the stand-alone monitor. `PROJECT.json` gives the reason for each. `os/`, where processes share
state, is a sixth of the code in the repository, which is why the models stand for a small part of its lines.
