-------------------------- MODULE BufferCacheProofs --------------------------
(***************************************************************************)
(* Proofs about BufferCache for any number of processes, buffers, blocks   *)
(* and devices.                                                            *)
(***************************************************************************)
EXTENDS BufferCache, FiniteSetTheorems, TLAPS

-----------------------------------------------------------------------------
(* The inductive invariant *)

\* Labels between which the kernel is not left.
Mid == {"hit", "miss", "got", "count", "ahead", "xahead"}

\* The calls that go through getblk for a block.
GetOps == {"getblk", "bread", "breada", "readahead", "xablock"}

\* Being inside getblk for some block of the caller.
Getting(p) == \/ pc[p] \in {"scan", "hit", "miss"}
              \/ pc[p] = "got" /\ op[p] # "geteblk"
              \/ pc[p] = "count" /\ op[p] \notin {"bawrite", "geteblk"}

\* A process between two interrupt windows has the processor.
NotPreempted == \A p \in Tasks : pc[p] \in Mid => cur = p

\* The arguments of a call in progress.
ArgsOK ==
    \A p \in Tasks :
        /\ Getting(p) => /\ op[p] \in GetOps
                         /\ blkno[p] \in Blocks
                         /\ op[p] = "readahead" => ra[p] \in Blocks
                         /\ op[p] = "xablock" => xa[p] \in Blocks
        /\ pc[p] \in {"ahead", "xahead"} => op[p] = "breada" /\ blkno[p] \in Blocks
        /\ pc[p] = "etake" => op[p] = "geteblk"

\* The buffers a process refers to.
PointersOK ==
    \A p \in Tasks :
        /\ pc[p] \in {"hit", "got"} => cand[p] \in Bufs
        /\ pc[p] = "hit" => blk[cand[p]] \in Blocks
        /\ pc[p] = "got" => /\ cand[p] \notin ioq
                            /\ cand[p] # bp[p]
                            /\ op[p] # "geteblk" => blk[cand[p]] \in Blocks
        /\ pc[p] \in {"hold", "iowait"} => bp[p] \in Bufs
        /\ pc[p] = "hold" => bp[p] \notin ioq
        /\ pc[p] # "hold" /\ bp[p] # None => bp[p] \in ioq \/ "DONE" \in flags[bp[p]]
        /\ pc[p] \in {"user", "bflush", "binval", "bdwait", "bdflush", "etake"}
              => bp[p] = None
        /\ pc[p] \in {"scan", "hit", "miss", "got", "count"} /\ op[p] # "readahead"
              => bp[p] = None

\* A buffer in the driver's hands, and a dirty one.
BuffersOK ==
    \A b \in Bufs :
        /\ b \in ioq => /\ "BUSY" \in flags[b] /\ "DONE" \notin flags[b]
                        /\ blk[b] \in Blocks
                        /\ "READ" \notin flags[b] => data[b] \in Values
        /\ "ASYNC" \in flags[b] => b \in ioq
        /\ "DELWRI" \in flags[b] => /\ "DONE" \in flags[b]
                                    /\ blk[b] \in Blocks /\ data[b] \in Values

\* Where a process can be that sleeps, and what getblk has found when it decides
\* to reassign a buffer.
SleepOK == \A p \in Tasks :
    /\ wchan[p] \in Bufs => pc[p] \in {"scan", "iowait"}
    /\ wchan[p] \in Bufs /\ pc[p] = "iowait" => wchan[p] = bp[p]

MissOK == \A p \in Tasks : pc[p] = "miss" => ~Incore(Want(p))

IInv == /\ TypeOK /\ NotPreempted /\ ArgsOK /\ PointersOK /\ BuffersOK
        /\ FreeIffNotBusy /\ OneOwner /\ SleepOK /\ NoLostWakeup
        /\ MissOK /\ OneBufferPerBlock
-----------------------------------------------------------------------------
(* Facts about the available list *)

\* Unlinking the i-th element of a list without duplicates takes just that
\* element off the list (notavail).
LEMMA UnlinkFacts ==
    ASSUME NEW S, NEW s \in Seq(S), NEW i \in DOMAIN s, NoDup(s)
    PROVE  /\ Unlink(s, i) \in Seq(S)
           /\ NoDup(Unlink(s, i))
           /\ \A b : OnList(Unlink(s, i), b) <=> OnList(s, b) /\ b # s[i]
<1> DEFINE t == Unlink(s, i)
<1>1. /\ Len(s) \in Nat /\ DOMAIN s = 1 .. Len(s) /\ i \in 1 .. Len(s)
      /\ t = [j \in 1 .. Len(s) - 1 |-> IF j < i THEN s[j] ELSE s[j + 1]]
  BY DEF Unlink
<1>2. t \in Seq(S) /\ DOMAIN t = 1 .. Len(s) - 1
  BY <1>1
<1>3. NoDup(t)
  BY <1>1, <1>2 DEF NoDup
<1>4. ASSUME NEW b, OnList(t, b) PROVE OnList(s, b) /\ b # s[i]
  <2>1. PICK j \in 1 .. Len(s) - 1 : t[j] = b
    BY <1>2, <1>4 DEF OnList
  <2>2. b = IF j < i THEN s[j] ELSE s[j + 1]
    BY <1>1, <2>1
  <2> QED
    BY <1>1, <2>2, SMTT(30), ZenonT(30) DEF OnList, NoDup
<1>5. ASSUME NEW b, OnList(s, b), b # s[i] PROVE OnList(t, b)
  <2>1. PICK j \in 1 .. Len(s) : s[j] = b
    BY <1>1, <1>5 DEF OnList
  <2>2. CASE j < i
    BY <1>1, <1>2, <2>1, <2>2 DEF OnList
  <2>3. CASE j > i
    <3>1. j - 1 \in 1 .. Len(s) - 1 /\ t[j - 1] = b
      BY <1>1, <2>1, <2>3
    <3> QED
      BY <1>2, <3>1 DEF OnList
  <2> QED
    BY <1>1, <1>5, <2>1, <2>2, <2>3
<1> QED
  BY <1>2, <1>3, <1>4, <1>5

\* Putting a buffer that is not on the list at its head or at its tail (brelse).
LEMMA LinkFacts ==
    ASSUME NEW S, NEW s \in Seq(S), NEW c \in S, ~OnList(s, c), NoDup(s),
           NEW t, t = <<c>> \o s \/ t = Append(s, c)
    PROVE  /\ t \in Seq(S)
           /\ NoDup(t)
           /\ \A b : OnList(t, b) <=> OnList(s, b) \/ b = c
<1>0. Len(s) \in Nat /\ DOMAIN s = 1 .. Len(s)
  OBVIOUS
<1>1. CASE t = <<c>> \o s
  <2>1. /\ t \in Seq(S) /\ Len(t) = Len(s) + 1
        /\ DOMAIN t = 1 .. Len(s) + 1
        /\ \A j \in 1 .. Len(s) + 1 : t[j] = IF j = 1 THEN c ELSE s[j - 1]
    BY <1>0, <1>1
  <2>2. \A j \in 1 .. Len(s) : t[j + 1] = s[j]
    BY <1>0, <2>1
  <2>3. NoDup(t)
    <3>1. SUFFICES ASSUME NEW i \in 1 .. Len(s) + 1, NEW j \in 1 .. Len(s) + 1,
                          t[i] = t[j]
                   PROVE  i = j
      BY <2>1 DEF NoDup
    <3>2. \A k \in 1 .. Len(s) : s[k] # c
      BY <1>0 DEF OnList
    <3>3. i # 1 => t[i] = s[i - 1] /\ i - 1 \in 1 .. Len(s)
      BY <1>0, <2>1
    <3>4. j # 1 => t[j] = s[j - 1] /\ j - 1 \in 1 .. Len(s)
      BY <1>0, <2>1
    <3>5. t[1] = c
      BY <1>0, <2>1
    <3>6. i # 1 /\ j # 1 => i - 1 = j - 1
      BY <1>0, <3>1, <3>3, <3>4 DEF NoDup
    <3> QED
      BY <3>1, <3>2, <3>3, <3>4, <3>5, <3>6
  <2>4. ASSUME NEW b, OnList(s, b) PROVE OnList(t, b)
    <3>1. PICK j \in 1 .. Len(s) : s[j] = b
      BY <1>0, <2>4 DEF OnList
    <3>2. j + 1 \in DOMAIN t /\ t[j + 1] = b
      BY <1>0, <2>1, <2>2, <3>1
    <3> QED
      BY <3>2 DEF OnList
  <2>5. ASSUME NEW b, OnList(t, b), b # c PROVE OnList(s, b)
    <3>1. PICK j \in 1 .. Len(s) + 1 : t[j] = b
      BY <2>1, <2>5 DEF OnList
    <3>2. j # 1 /\ s[j - 1] = b
      BY <2>1, <2>5, <3>1
    <3>3. j - 1 \in DOMAIN s
      BY <1>0, <3>2
    <3> QED
      BY <3>2, <3>3 DEF OnList
  <2>6. OnList(t, c)
    BY <1>0, <2>1 DEF OnList
  <2> QED
    BY <2>1, <2>3, <2>4, <2>5, <2>6
<1>2. CASE t = Append(s, c)
  <2>1. /\ t \in Seq(S) /\ Len(t) = Len(s) + 1
        /\ DOMAIN t = 1 .. Len(s) + 1
        /\ \A j \in 1 .. Len(s) + 1 : t[j] = IF j = Len(s) + 1 THEN c ELSE s[j]
    BY <1>0, <1>2
  <2>2. NoDup(t)
    BY <1>0, <2>1 DEF NoDup, OnList
  <2>3. \A b : OnList(t, b) <=> OnList(s, b) \/ b = c
    BY <1>0, <2>1 DEF OnList
  <2> QED
    BY <2>1, <2>2, <2>3
<1> QED
  BY <1>1, <1>2

\* Only the empty list has no element.
LEMMA EmptyFacts ==
    ASSUME NEW S, NEW s \in Seq(S)
    PROVE  /\ s = <<>> <=> \A b : ~OnList(s, b)
           /\ \A i \in DOMAIN s : s[i] \in S /\ OnList(s, s[i])
           /\ s # <<>> => 1 \in DOMAIN s
<1>1. Len(s) \in Nat /\ DOMAIN s = 1 .. Len(s)
  OBVIOUS
<1>2. s # <<>> => 1 \in DOMAIN s
  BY <1>1
<1>3. s = <<>> => \A b : ~OnList(s, b)
  BY <1>1 DEF OnList
<1>4. \A i \in DOMAIN s : s[i] \in S /\ OnList(s, s[i])
  BY <1>1 DEF OnList
<1> QED
  BY <1>2, <1>3, <1>4
-----------------------------------------------------------------------------
(* Steps that leave the buffers alone *)

\* While p runs, no other process is between two interrupt windows.
LEMMA OthersNotMid ==
    ASSUME IInv, NEW p \in Tasks, Running(p), NEW q \in Tasks, q # p
    PROVE  pc[q] \notin Mid
BY NamesAssumption DEF IInv, NotPreempted, Running, Tasks

\* A process calls the cache.
LEMMA CallStep ==
    ASSUME IInv, NEW p \in Procs, Call(p)
    PROVE  IInv'
<1> USE NamesAssumption, BufsAssumption
    DEF Tasks, Running, Goto, bufVars, listVars, devVars, asyVars
<1> DEFINE Entered(o, k, l) == Enter(p, o, k, l)
                               /\ ra' \in [Tasks -> Blocks \cup {None}]
                               /\ xa' \in [Tasks -> Blocks \cup {None}]
                               /\ dev' \in [Tasks -> Devs \cup {None}]
                               /\ \A q \in Tasks \ {p} : ra'[q] = ra[q] /\ xa'[q] = xa[q]
<1>0. TypeOK
  BY DEF IInv
<1>1. \/ \E k \in Blocks, o \in {"bread", "getblk", "breada"} : Entered(o, k, "scan")
      \/ \E k \in Blocks : Entered("breada", k, "ahead")
      \/ Entered("geteblk", None, "etake")
      \/ Entered("bdwait", None, "bdwait")
      \/ \E o \in {"bflush", "close"} : Entered(o, None, "bflush")
  <2>1. ASSUME NEW k \in Blocks, Bread(p, k) \/ Getblk(p, k)
        PROVE  \E o \in {"bread", "getblk", "breada"} : Entered(o, k, "scan")
    BY <1>0, <2>1 DEF Bread, Getblk, TypeOK
  <2>2. ASSUME NEW k \in Blocks, NEW r \in Blocks \cup {None},
               NEW x \in Blocks \cup {None}, Breada(p, k, r, x)
        PROVE  Entered("breada", k, "scan") \/ Entered("breada", k, "ahead")
    BY <1>0, <2>2 DEF Breada, TypeOK
  <2>3. Geteblk(p) => Entered("geteblk", None, "etake")
    BY <1>0 DEF Geteblk, TypeOK
  <2>4. Bdwait(p) => Entered("bdwait", None, "bdwait")
    BY <1>0 DEF Bdwait, TypeOK
  <2>5. Bflush(p) => Entered("bflush", None, "bflush")
    BY <1>0 DEF Bflush, TypeOK
  <2>6. ASSUME NEW d \in InvalDevs, Close(p, d) PROVE Entered("close", None, "bflush")
    BY <1>0, <2>6 DEF Close, TypeOK
  <2> HIDE DEF Entered
  <2> QED
    BY <2>1, <2>2, <2>3, <2>4, <2>5, <2>6 DEF Call
<1> HIDE DEF Entered
<1>2. PICK o \in Ops, k \in Blocks \cup {None},
           l \in {"scan", "ahead", "etake", "bdwait", "bflush"} :
        /\ Entered(o, k, l)
        /\ l = "scan" => k \in Blocks /\ o \in {"bread", "getblk", "breada"}
        /\ l = "ahead" => k \in Blocks /\ o = "breada"
        /\ l = "etake" => o = "geteblk"
  BY <1>1 DEF Ops
<1>3. /\ p \in Tasks /\ Running(p) /\ pc[p] = "user" /\ Goto(p, l)
      /\ op' = [op EXCEPT ![p] = o] /\ blkno' = [blkno EXCEPT ![p] = k]
      /\ UNCHANGED <<bufVars, listVars, devVars, asyVars, cand, bp, wchan>>
  BY <1>2 DEF Entered, Enter
<1>4. TypeOK'
  BY <1>0, <1>2, <1>3 DEF TypeOK, PCs, Entered
<1>5. NotPreempted' /\ ArgsOK' /\ PointersOK'
  BY <1>0, <1>2, <1>3
  DEF IInv, TypeOK, NotPreempted, Mid, ArgsOK, Getting, GetOps, PointersOK, Entered
<1>6. BuffersOK' /\ FreeIffNotBusy' /\ OneBufferPerBlock'
  BY <1>3 DEF IInv, BuffersOK, FreeIffNotBusy, OneBufferPerBlock
<1>7. OneOwner'
  BY <1>0, <1>3 DEF IInv, TypeOK, OneOwner, Owns, AsyncBufs
<1>8. SleepOK' /\ NoLostWakeup'
  BY <1>0, <1>3 DEF IInv, TypeOK, SleepOK, NoLostWakeup
<1>9. MissOK'
  BY <1>0, <1>3, OthersNotMid DEF TypeOK, MissOK, Mid
<1> QED
  BY <1>4, <1>5, <1>6, <1>7, <1>8, <1>9 DEF IInv

\* getblk's search: it either finds no buffer of the block, or one.
LEMMA GetblkScanStep ==
    ASSUME IInv, NEW p \in Procs, GetblkScan(p)
    PROVE  IInv'
<1> USE NamesAssumption, BufsAssumption
    DEF Tasks, Running, Goto, bufVars, listVars, devVars, asyVars, argVars
<1>0. p \in Tasks /\ Running(p) /\ pc[p] = "scan"
      /\ UNCHANGED <<bufVars, listVars, devVars, asyVars, op, argVars, bp, wchan>>
  BY DEF GetblkScan
<1>1. CASE ~Incore(Want(p)) /\ Goto(p, "miss") /\ UNCHANGED cand
  <2>1. TypeOK' /\ NotPreempted' /\ ArgsOK' /\ PointersOK'
    BY <1>0, <1>1 DEF IInv, TypeOK, PCs, NotPreempted, Mid, ArgsOK, Getting,
        PointersOK
  <2>2. BuffersOK' /\ FreeIffNotBusy' /\ OneBufferPerBlock'
    BY <1>0 DEF IInv, BuffersOK, FreeIffNotBusy, OneBufferPerBlock
  <2>3. OneOwner'
    BY <1>0, <1>1 DEF IInv, TypeOK, OneOwner, Owns, AsyncBufs
  <2>4. SleepOK' /\ NoLostWakeup'
    BY <1>0, <1>1 DEF IInv, TypeOK, SleepOK, NoLostWakeup
  <2>5. \A q \in Tasks : pc'[q] = "miss" => q = p
    BY <1>0, <1>1, OthersNotMid DEF IInv, TypeOK, Mid
  <2>6. MissOK'
    BY <1>0, <1>1, <2>5 DEF MissOK, Incore, Want
  <2> QED
    BY <2>1, <2>2, <2>3, <2>4, <2>6 DEF IInv
<1>2. CASE \E b \in Bufs : /\ blk[b] = Want(p) /\ "STALE" \notin flags[b]
                           /\ cand' = [cand EXCEPT ![p] = b]
                           /\ Goto(p, "hit")
  <2>0. PICK b \in Bufs : /\ blk[b] = Want(p)
                          /\ cand' = [cand EXCEPT ![p] = b]
                          /\ Goto(p, "hit")
    BY <1>2
  <2>1. blk[b] \in Blocks
    BY <1>0, <2>0 DEF IInv, ArgsOK, Getting, Want
  <2>2. TypeOK' /\ NotPreempted' /\ ArgsOK' /\ PointersOK'
    BY <1>0, <2>0, <2>1
    DEF IInv, TypeOK, PCs, NotPreempted, Mid, ArgsOK, Getting, PointersOK
  <2>3. BuffersOK' /\ FreeIffNotBusy' /\ OneBufferPerBlock'
    BY <1>0 DEF IInv, BuffersOK, FreeIffNotBusy, OneBufferPerBlock
  <2>4. OneOwner'
    BY <1>0, <2>0 DEF IInv, TypeOK, OneOwner, Owns, AsyncBufs
  <2>5. SleepOK' /\ NoLostWakeup'
    BY <1>0, <2>0 DEF IInv, TypeOK, SleepOK, NoLostWakeup
  <2>6. MissOK'
    BY <1>0, <2>0, OthersNotMid DEF IInv, TypeOK, MissOK, Mid
  <2> QED
    BY <2>2, <2>3, <2>4, <2>5, <2>6 DEF IInv
<1> QED
  BY <1>1, <1>2 DEF GetblkScan

\* basyncnt++ at the end of an asynchronous bwrite.
LEMMA BwriteCountStep ==
    ASSUME IInv, NEW p \in Procs, BwriteCount(p)
    PROVE  IInv'
<1> USE NamesAssumption, BufsAssumption
    DEF Tasks, Running, Goto, Leave, bufVars, listVars, devVars, asyVars, argVars
<1>0. /\ p \in Tasks /\ Running(p) /\ pc[p] = "count"
      /\ basyncnt' = basyncnt + 1
      /\ UNCHANGED <<bufVars, listVars, devVars, basynwait, argVars, cand, bp, wchan>>
  BY DEF BwriteCount
<1>1. \/ Leave(p, "user") /\ op[p] = "bawrite" /\ op' = [op EXCEPT ![p] = "none"]
      \/ Goto(p, "etake") /\ op[p] = "geteblk" /\ UNCHANGED op
      \/ Goto(p, "scan") /\ op[p] \notin {"bawrite", "geteblk"} /\ UNCHANGED op
  BY DEF BwriteCount
<1>2. TypeOK' /\ NotPreempted' /\ ArgsOK'
  BY <1>0, <1>1, SMTT(30), ZenonT(30) DEF IInv, TypeOK, PCs, Ops, NotPreempted, Mid, ArgsOK, Getting
<1>7. PointersOK'
  BY <1>0, <1>1 DEF IInv, TypeOK, ArgsOK, Getting, GetOps, PointersOK
<1>3. BuffersOK' /\ FreeIffNotBusy' /\ OneBufferPerBlock'
  BY <1>0 DEF IInv, BuffersOK, FreeIffNotBusy, OneBufferPerBlock
<1>4. OneOwner'
  BY <1>0, <1>1 DEF IInv, TypeOK, OneOwner, Owns, AsyncBufs
<1>5. SleepOK' /\ NoLostWakeup'
  BY <1>0, <1>1 DEF IInv, TypeOK, SleepOK, NoLostWakeup
<1>6. MissOK'
  BY <1>0, <1>1, OthersNotMid DEF IInv, TypeOK, MissOK, Mid
<1> QED
  BY <1>2, <1>3, <1>4, <1>5, <1>6, <1>7 DEF IInv

\* breada decides on its read-ahead.
LEMMA BreadaStep ==
    ASSUME IInv, NEW p \in Procs, BreadaAhead(p) \/ BreadaXahead(p)
    PROVE  IInv'
<1> USE NamesAssumption, BufsAssumption
    DEF Tasks, Running, Goto, bufVars, listVars, devVars, asyVars, argVars
<1>0. TypeOK
  BY DEF IInv
<1>1. /\ Running(p) /\ pc[p] \in {"ahead", "xahead"}
      /\ UNCHANGED <<bufVars, listVars, devVars, asyVars, argVars, cand, bp, wchan>>
  BY DEF BreadaAhead, BreadaXahead
<1>2. PICK o \in Ops, l \in {"scan", "xahead", "iowait"} :
        /\ op' = [op EXCEPT ![p] = o] /\ Goto(p, l)
        /\ l = "scan" => o \in {"readahead", "xablock", "bread"}
        /\ l = "scan" /\ o # "readahead" => bp[p] = None
        /\ o = "readahead" => ra[p] \in Blocks
        /\ o = "xablock" => xa[p] \in Blocks
        /\ l = "xahead" => o = "breada"
        /\ l = "iowait" => bp[p] # None
  <2>1. CASE BreadaAhead(p) /\ WantAhead(ra[p])
    BY <1>0, <2>1 DEF BreadaAhead, WantAhead, TypeOK, Ops
  <2>2. CASE BreadaAhead(p) /\ ~WantAhead(ra[p])
    BY <1>0, <2>2 DEF BreadaAhead, IInv, ArgsOK, TypeOK, Ops
  <2>3. CASE BreadaXahead(p) /\ bp[p] # None
    BY <1>0, <2>3 DEF BreadaXahead, TypeOK, Ops
  <2>4. CASE BreadaXahead(p) /\ bp[p] = None
    BY <1>0, <2>4 DEF BreadaXahead, WantAhead, TypeOK, Ops
  <2> QED
    BY <2>1, <2>2, <2>3, <2>4
<1>3. TypeOK'
  BY <1>0, <1>1, <1>2 DEF TypeOK, PCs
<1>4. NotPreempted' /\ ArgsOK' /\ PointersOK'
  BY <1>0, <1>1, <1>2
  DEF IInv, TypeOK, NotPreempted, Mid, ArgsOK, Getting, GetOps, PointersOK
<1>5. BuffersOK' /\ FreeIffNotBusy' /\ OneBufferPerBlock'
  BY <1>1 DEF IInv, BuffersOK, FreeIffNotBusy, OneBufferPerBlock
<1>6. OneOwner'
  BY <1>0, <1>1, <1>2 DEF IInv, TypeOK, OneOwner, Owns, AsyncBufs
<1>7. SleepOK' /\ NoLostWakeup'
  BY <1>0, <1>1, <1>2 DEF IInv, TypeOK, SleepOK, NoLostWakeup
<1>8. MissOK'
  BY <1>0, <1>1, <1>2, OthersNotMid DEF IInv, TypeOK, MissOK, Mid
<1> QED
  BY <1>3, <1>4, <1>5, <1>6, <1>7, <1>8 DEF IInv

\* A buffer is handed to the caller.
LEMMA HandOverStep ==
    ASSUME IInv, NEW p \in Procs, Running(p), NEW b \in Bufs, HandOver(p, b), b \notin ioq,
           \/ pc[p] = "got" /\ b = cand[p] /\ bp[p] = None
           \/ pc[p] = "iowait" /\ b = bp[p],
           UNCHANGED <<bufVars, listVars, devVars, asyVars, op, dev, wchan>>
    PROVE  IInv'
<1> USE NamesAssumption, BufsAssumption
    DEF Tasks, Running, Leave, HandOver, bufVars, listVars, devVars, asyVars, argVars
<1>1. TypeOK'
  BY DEF IInv, TypeOK, PCs, Ops, Chans, PointersOK
<1>2. NotPreempted' /\ ArgsOK' /\ PointersOK'
  BY DEF IInv, TypeOK, NotPreempted, Mid, ArgsOK, Getting, GetOps, PointersOK,
      BuffersOK
<1>3. BuffersOK' /\ FreeIffNotBusy' /\ OneBufferPerBlock'
  BY DEF IInv, TypeOK, BuffersOK, FreeIffNotBusy, OneBufferPerBlock
<1>4. OneOwner'
  BY DEF IInv, TypeOK, OneOwner, Owns, AsyncBufs
<1>5. SleepOK' /\ NoLostWakeup'
  BY DEF IInv, TypeOK, Chans, SleepOK, NoLostWakeup, PointersOK
<1>6. MissOK'
  BY OthersNotMid DEF IInv, TypeOK, MissOK, Mid
<1> QED
  BY <1>1, <1>2, <1>3, <1>4, <1>5, <1>6 DEF IInv

\* getblk, geteblk, bread and breada return.
LEMMA ReturnStep ==
    ASSUME IInv, NEW p \in Procs, GotReturn(p) \/ IowaitRead(p)
    PROVE  IInv'
<1>1. CASE GotReturn(p)
  BY <1>1, HandOverStep DEF GotReturn, Got, IInv, PointersOK, Tasks
<1>2. CASE IowaitRead(p)
  BY <1>2, HandOverStep DEF IowaitRead, IInv, PointersOK, BuffersOK, Tasks
<1> QED
  BY <1>1, <1>2

\* The steps that go to sleep.
LEMMA SleepStep ==
    ASSUME IInv, NEW p \in Tasks,
           IowaitSleep(p) \/ GetblkEmpty(p) \/ BdwaitSleep(p) \/ (p = Daemon /\ BdflushSleep)
    PROVE  IInv'
<1> USE NamesAssumption, BufsAssumption
    DEF Tasks, Running, Sleep, bufVars, listVars, devVars, asyVars, argVars
<1>1. TypeOK'
  <2>1. CASE IowaitSleep(p)
    BY <2>1 DEF IInv, TypeOK, PCs, Ops, Chans, PointersOK, IowaitSleep
  <2>2. CASE GetblkEmpty(p)
    BY <2>2 DEF IInv, TypeOK, PCs, Ops, Chans, PointersOK, GetblkEmpty
  <2>3. CASE BdwaitSleep(p)
    BY <2>3 DEF IInv, TypeOK, PCs, Ops, Chans, PointersOK, BdwaitSleep
  <2>4. CASE p = Daemon /\ BdflushSleep
    BY <2>4 DEF IInv, TypeOK, PCs, Ops, Chans, PointersOK, BdflushSleep
  <2> QED
    BY <2>1, <2>2, <2>3, <2>4
<1>2. NotPreempted' /\ ArgsOK' /\ PointersOK'
  BY DEF IInv, TypeOK, NotPreempted, Mid, ArgsOK, Getting, GetOps, PointersOK,
      IowaitSleep, GetblkEmpty, BdwaitSleep, BdflushSleep
<1>3. BuffersOK' /\ FreeIffNotBusy' /\ OneBufferPerBlock'
  BY DEF IInv, TypeOK, BuffersOK, FreeIffNotBusy, OneBufferPerBlock, IowaitSleep,
      GetblkEmpty, BdwaitSleep, BdflushSleep
<1>4. OneOwner'
  BY DEF IInv, TypeOK, OneOwner, Owns, AsyncBufs, PointersOK, IowaitSleep,
      GetblkEmpty, BdwaitSleep, BdflushSleep
<1>5. SleepOK' /\ NoLostWakeup'
  BY DEF IInv, TypeOK, Chans, SleepOK, NoLostWakeup, PointersOK, IowaitSleep,
      GetblkEmpty, BdwaitSleep, BdflushSleep
<1>6. MissOK'
  BY OthersNotMid DEF IInv, TypeOK, MissOK, Mid, IowaitSleep, GetblkEmpty,
      BdwaitSleep, BdflushSleep
<1> QED
  BY <1>1, <1>2, <1>3, <1>4, <1>5, <1>6 DEF IInv

\* bflush and bdwait return.
LEMMA EndStep ==
    ASSUME IInv, NEW p \in Procs, BflushEnd(p) \/ BdwaitEnd(p)
    PROVE  IInv'
<1> USE NamesAssumption, BufsAssumption
    DEF Tasks, Running, Leave, bufVars, listVars, devVars, asyVars, argVars
<1>1. TypeOK'
  <2>1. CASE BflushEnd(p)
    BY <2>1, SMTT(30), ZenonT(30) DEF IInv, TypeOK, PCs, Ops, Chans, PointersOK, BflushEnd
  <2>2. CASE BdwaitEnd(p)
    BY <2>2 DEF IInv, TypeOK, PCs, Ops, Chans, PointersOK, BdwaitEnd
  <2> QED
    BY <2>1, <2>2
<1>2. NotPreempted' /\ ArgsOK' /\ PointersOK'
  BY DEF IInv, TypeOK, NotPreempted, Mid, ArgsOK, Getting, GetOps, PointersOK,
      BflushEnd, BdwaitEnd
<1>3. BuffersOK' /\ FreeIffNotBusy' /\ OneBufferPerBlock'
  BY DEF IInv, TypeOK, BuffersOK, FreeIffNotBusy, OneBufferPerBlock, BflushEnd,
      BdwaitEnd
<1>4. OneOwner'
  BY SMTT(30), ZenonT(30) DEF IInv, TypeOK, OneOwner, Owns, AsyncBufs, PointersOK, BflushEnd, BdwaitEnd
<1>5. SleepOK' /\ NoLostWakeup'
  BY DEF IInv, TypeOK, Chans, SleepOK, NoLostWakeup, PointersOK, BflushEnd, BdwaitEnd
<1>6. MissOK'
  BY OthersNotMid DEF IInv, TypeOK, MissOK, Mid, BflushEnd, BdwaitEnd
<1> QED
  BY <1>1, <1>2, <1>3, <1>4, <1>5, <1>6 DEF IInv

\* The clock wakes the daemon.
LEMMA ClockStep ==
    ASSUME IInv, Clock
    PROVE  IInv'
<1> USE NamesAssumption, BufsAssumption
    DEF Tasks, Wakeup, Clock, bufVars, listVars, devVars, asyVars, argVars
<1>1. TypeOK'
  BY DEF IInv, TypeOK, PCs, Ops, Chans, PointersOK
<1>2. NotPreempted' /\ ArgsOK' /\ PointersOK'
  BY DEF IInv, TypeOK, NotPreempted, Mid, ArgsOK, Getting, GetOps, PointersOK
<1>3. BuffersOK' /\ FreeIffNotBusy' /\ OneBufferPerBlock'
  BY DEF IInv, TypeOK, BuffersOK, FreeIffNotBusy, OneBufferPerBlock
<1>4. OneOwner'
  BY SMTT(30), ZenonT(30) DEF IInv, TypeOK, OneOwner, Owns, AsyncBufs, PointersOK
<1>5. SleepOK' /\ NoLostWakeup'
  BY DEF IInv, TypeOK, Chans, SleepOK, NoLostWakeup, PointersOK
<1>6. MissOK'
  BY DEF IInv, TypeOK, MissOK, Incore, Want
<1> QED
  BY <1>1, <1>2, <1>3, <1>4, <1>5, <1>6 DEF IInv

-----------------------------------------------------------------------------
(* Steps that start a transfer or mark buffers *)

\* getblk waits for a busy buffer.
LEMMA GetblkBusyStep ==
    ASSUME IInv, NEW p \in Procs, GetblkBusy(p)
    PROVE  IInv'
<1> USE NamesAssumption, BufsAssumption
    DEF Tasks, Running, Sleep, GetblkBusy, bufVars, listVars, devVars, asyVars,
        argVars
<1>1. TypeOK'
  BY DEF IInv, TypeOK, PCs, Ops, Chans, PointersOK, Flags
<1>2. NotPreempted' /\ ArgsOK' /\ PointersOK'
  BY DEF IInv, TypeOK, NotPreempted, Mid, ArgsOK, Getting, GetOps, PointersOK,
      BuffersOK, OneOwner, Owns, AsyncBufs
<1>3. BuffersOK' /\ FreeIffNotBusy' /\ OneBufferPerBlock'
  BY DEF IInv, TypeOK, BuffersOK, FreeIffNotBusy, OneBufferPerBlock, PointersOK,
      ArgsOK, Getting, OneOwner, Owns, AsyncBufs
<1>4. OneOwner'
  BY DEF IInv, TypeOK, OneOwner, Owns, AsyncBufs, PointersOK, BuffersOK
<1>5. SleepOK' /\ NoLostWakeup'
  BY DEF IInv, TypeOK, Chans, SleepOK, NoLostWakeup, PointersOK
<1>6. MissOK'
  BY OthersNotMid DEF IInv, TypeOK, MissOK, Mid
<1> QED
  BY <1>1, <1>2, <1>3, <1>4, <1>5, <1>6 DEF IInv

\* bread starts the read it waits for.
LEMMA BreadStartStep ==
    ASSUME IInv, NEW p \in Procs, BreadStart(p)
    PROVE  IInv'
<1> USE NamesAssumption, BufsAssumption
    DEF Tasks, Running, Goto, Got, StartRead, BreadStart, bufVars, listVars,
        devVars, asyVars, argVars
<1>1. TypeOK'
  BY DEF IInv, TypeOK, PCs, Ops, Chans, PointersOK, Flags
<1>2. NotPreempted' /\ ArgsOK' /\ PointersOK'
  BY DEF IInv, TypeOK, NotPreempted, Mid, ArgsOK, Getting, GetOps, PointersOK,
      BuffersOK, OneOwner, Owns, AsyncBufs
<1>3. BuffersOK' /\ FreeIffNotBusy' /\ OneBufferPerBlock'
  BY DEF IInv, TypeOK, BuffersOK, FreeIffNotBusy, OneBufferPerBlock, PointersOK,
      ArgsOK, Getting, OneOwner, Owns, AsyncBufs
<1>4. OneOwner'
  BY DEF IInv, TypeOK, OneOwner, Owns, AsyncBufs, PointersOK, BuffersOK
<1>5. SleepOK' /\ NoLostWakeup'
  BY DEF IInv, TypeOK, Chans, SleepOK, NoLostWakeup, PointersOK
<1>6. MissOK'
  BY OthersNotMid DEF IInv, TypeOK, MissOK, Mid
<1> QED
  BY <1>1, <1>2, <1>3, <1>4, <1>5, <1>6 DEF IInv

\* Where breada goes on after a read-ahead.
LEMMA AfterAheadFacts ==
    ASSUME IInv, NEW p \in Procs, pc[p] = "got", op[p] \in {"readahead", "xablock"},
           AfterAhead(p)
    PROVE  \E o \in {"breada", "bread"}, l \in {"xahead", "scan"} :
              /\ op' = [op EXCEPT ![p] = o] /\ Goto(p, l)
              /\ blkno[p] \in Blocks
              /\ o = "breada" <=> l = "xahead"
              /\ l = "scan" => bp[p] = None
BY DEF AfterAhead, IInv, ArgsOK, Getting, PointersOK, Tasks

\* breada starts the read-ahead and lets go of the buffer.
LEMMA AheadStartStep ==
    ASSUME IInv, NEW p \in Procs, AheadStart(p)
    PROVE  IInv'
<1> USE NamesAssumption, BufsAssumption
    DEF Tasks, Running, Goto, Got, StartRead, AheadStart, bufVars, listVars,
        devVars, asyVars, argVars
<1>0. PICK o \in {"breada", "bread"}, l \in {"xahead", "scan"} :
        /\ op' = [op EXCEPT ![p] = o] /\ Goto(p, l)
        /\ blkno[p] \in Blocks
        /\ o = "breada" <=> l = "xahead"
        /\ l = "scan" => bp[p] = None
  BY AfterAheadFacts DEF AheadStart, Got
<1>1. TypeOK'
  BY <1>0 DEF IInv, TypeOK, PCs, Ops, Chans, PointersOK, Flags
<1>2. NotPreempted' /\ ArgsOK' /\ PointersOK'
  BY <1>0 DEF IInv, TypeOK, NotPreempted, Mid, ArgsOK, Getting, GetOps, PointersOK,
      BuffersOK, OneOwner, Owns, AsyncBufs
<1>3. BuffersOK' /\ FreeIffNotBusy' /\ OneBufferPerBlock'
  BY <1>0 DEF IInv, TypeOK, BuffersOK, FreeIffNotBusy, OneBufferPerBlock,
      PointersOK, ArgsOK, Getting, OneOwner, Owns, AsyncBufs
<1>4. OneOwner'
  BY <1>0 DEF IInv, TypeOK, OneOwner, Owns, AsyncBufs, PointersOK, BuffersOK
<1>5. SleepOK' /\ NoLostWakeup'
  BY <1>0 DEF IInv, TypeOK, Chans, SleepOK, NoLostWakeup, PointersOK
<1>6. MissOK'
  BY <1>0, OthersNotMid DEF IInv, TypeOK, MissOK, Mid
<1> QED
  BY <1>1, <1>2, <1>3, <1>4, <1>5, <1>6 DEF IInv

\* breada starts the read of its own block.
LEMMA BreadaReadStep ==
    ASSUME IInv, NEW p \in Procs, Got(p, {"breada"}), "DONE" \notin flags[cand[p]],
           StartRead(p, {}), bp' = [bp EXCEPT ![p] = cand[p]],
           cand' = [cand EXCEPT ![p] = None], Goto(p, "ahead"),
           UNCHANGED <<asyVars, op, argVars, wchan>>
    PROVE  IInv'
<1> USE NamesAssumption, BufsAssumption
    DEF Tasks, Running, Goto, Got, StartRead, bufVars, listVars, devVars, asyVars,
        argVars
<1>1. TypeOK'
  BY DEF IInv, TypeOK, PCs, Ops, Chans, PointersOK, Flags
<1>2. NotPreempted' /\ ArgsOK' /\ PointersOK'
  BY DEF IInv, TypeOK, NotPreempted, Mid, ArgsOK, Getting, GetOps, PointersOK,
      BuffersOK, OneOwner, Owns, AsyncBufs
<1>3. BuffersOK' /\ FreeIffNotBusy' /\ OneBufferPerBlock'
  BY DEF IInv, TypeOK, BuffersOK, FreeIffNotBusy, OneBufferPerBlock, PointersOK,
      ArgsOK, Getting, OneOwner, Owns, AsyncBufs
<1>4. OneOwner'
  BY DEF IInv, TypeOK, OneOwner, Owns, AsyncBufs, PointersOK, BuffersOK
<1>5. SleepOK' /\ NoLostWakeup'
  BY DEF IInv, TypeOK, Chans, SleepOK, NoLostWakeup, PointersOK
<1>6. MissOK'
  BY OthersNotMid DEF IInv, TypeOK, MissOK, Mid
<1> QED
  BY <1>1, <1>2, <1>3, <1>4, <1>5, <1>6 DEF IInv

\* breada finds its own block valid.
LEMMA BreadaValidStep ==
    ASSUME IInv, NEW p \in Procs, BreadaStart(p), "DONE" \in flags[cand[p]]
    PROVE  IInv'
<1> USE NamesAssumption, BufsAssumption
    DEF Tasks, Running, Goto, Got, BreadaStart, bufVars, listVars, devVars, asyVars,
        argVars
<1>1. TypeOK'
  BY DEF IInv, TypeOK, PCs, Ops, Chans, PointersOK, Flags
<1>2. NotPreempted' /\ ArgsOK' /\ PointersOK'
  BY DEF IInv, TypeOK, NotPreempted, Mid, ArgsOK, Getting, GetOps, PointersOK,
      BuffersOK, OneOwner, Owns, AsyncBufs
<1>3. BuffersOK' /\ FreeIffNotBusy' /\ OneBufferPerBlock'
  BY DEF IInv, TypeOK, BuffersOK, FreeIffNotBusy, OneBufferPerBlock, PointersOK,
      ArgsOK, Getting, OneOwner, Owns, AsyncBufs
<1>4. OneOwner'
  BY DEF IInv, TypeOK, OneOwner, Owns, AsyncBufs, PointersOK, BuffersOK
<1>5. SleepOK' /\ NoLostWakeup'
  BY DEF IInv, TypeOK, Chans, SleepOK, NoLostWakeup, PointersOK
<1>6. MissOK'
  BY OthersNotMid DEF IInv, TypeOK, MissOK, Mid
<1> QED
  BY <1>1, <1>2, <1>3, <1>4, <1>5, <1>6 DEF IInv

\* A write is started that its caller waits for.
LEMMA SyncWriteStep ==
    ASSUME IInv, NEW p \in Procs, NEW v \in Values, MayWrite(p),
           StartWrite(p, v, {}), op' = [op EXCEPT ![p] = "bwrite"],
           Goto(p, "iowait"), bp' = bp
    PROVE  IInv'
<1> USE NamesAssumption, BufsAssumption
    DEF Tasks, Running, Goto, MayWrite, StartWrite, WriteFlags, bufVars, listVars,
        devVars, asyVars, argVars
<1>1. TypeOK'
  BY DEF IInv, TypeOK, PCs, Ops, Chans, PointersOK, Flags
<1>2. NotPreempted' /\ ArgsOK' /\ PointersOK'
  BY DEF IInv, TypeOK, NotPreempted, Mid, ArgsOK, Getting, GetOps, PointersOK,
      BuffersOK, OneOwner, Owns, AsyncBufs
<1>3. BuffersOK' /\ FreeIffNotBusy' /\ OneBufferPerBlock'
  BY DEF IInv, TypeOK, BuffersOK, FreeIffNotBusy, OneBufferPerBlock, PointersOK,
      ArgsOK, Getting, OneOwner, Owns, AsyncBufs
<1>4. OneOwner'
  BY DEF IInv, TypeOK, OneOwner, Owns, AsyncBufs, PointersOK, BuffersOK
<1>5. SleepOK' /\ NoLostWakeup'
  BY DEF IInv, TypeOK, Chans, SleepOK, NoLostWakeup, PointersOK
<1>6. MissOK'
  BY OthersNotMid DEF IInv, TypeOK, MissOK, Mid
<1> QED
  BY <1>1, <1>2, <1>3, <1>4, <1>5, <1>6 DEF IInv

\* bawrite starts a write and lets go of the buffer.
LEMMA AsyncWriteStep ==
    ASSUME IInv, NEW p \in Procs, NEW v \in Values, MayWrite(p),
           StartWrite(p, v, {"ASYNC"}), op' = [op EXCEPT ![p] = "bawrite"],
           Goto(p, "count"), bp' = [bp EXCEPT ![p] = None]
    PROVE  IInv'
<1> USE NamesAssumption, BufsAssumption
    DEF Tasks, Running, Goto, MayWrite, StartWrite, WriteFlags, bufVars, listVars,
        devVars, asyVars, argVars
<1>1. TypeOK'
  BY DEF IInv, TypeOK, PCs, Ops, Chans, PointersOK, Flags
<1>2. NotPreempted' /\ ArgsOK' /\ PointersOK'
  BY DEF IInv, TypeOK, NotPreempted, Mid, ArgsOK, Getting, GetOps, PointersOK,
      BuffersOK, OneOwner, Owns, AsyncBufs
<1>3. BuffersOK' /\ FreeIffNotBusy' /\ OneBufferPerBlock'
  BY DEF IInv, TypeOK, BuffersOK, FreeIffNotBusy, OneBufferPerBlock, PointersOK,
      ArgsOK, Getting, OneOwner, Owns, AsyncBufs
<1>4. OneOwner'
  BY DEF IInv, TypeOK, OneOwner, Owns, AsyncBufs, PointersOK, BuffersOK
<1>5. SleepOK' /\ NoLostWakeup'
  BY DEF IInv, TypeOK, Chans, SleepOK, NoLostWakeup, PointersOK
<1>6. MissOK'
  BY OthersNotMid DEF IInv, TypeOK, MissOK, Mid
<1> QED
  BY <1>1, <1>2, <1>3, <1>4, <1>5, <1>6 DEF IInv

\* bwrite and bawrite.
LEMMA WriteStep ==
    ASSUME IInv, NEW p \in Procs, NEW v \in Values, Bwrite(p, v) \/ Bawrite(p, v)
    PROVE  IInv'
BY SyncWriteStep, AsyncWriteStep DEF Bwrite, Bawrite

\* binval marks buffers stale.
LEMMA BinvalStep ==
    ASSUME IInv, NEW p \in Procs, Binval(p)
    PROVE  IInv'
<1> USE NamesAssumption, BufsAssumption
    DEF Tasks, Running, Leave, Binval, bufVars, listVars, devVars, asyVars, argVars
<1>1. TypeOK'
  BY DEF IInv, TypeOK, PCs, Ops, Chans, PointersOK, Flags
<1>2. NotPreempted' /\ ArgsOK' /\ PointersOK'
  BY DEF IInv, TypeOK, NotPreempted, Mid, ArgsOK, Getting, GetOps, PointersOK,
      BuffersOK, OneOwner, Owns, AsyncBufs
<1>3. BuffersOK' /\ FreeIffNotBusy' /\ OneBufferPerBlock'
  BY DEF IInv, TypeOK, BuffersOK, FreeIffNotBusy, OneBufferPerBlock, PointersOK,
      ArgsOK, Getting, OneOwner, Owns, AsyncBufs
<1>4. OneOwner'
  BY DEF IInv, TypeOK, OneOwner, Owns, AsyncBufs, PointersOK, BuffersOK
<1>5. SleepOK' /\ NoLostWakeup'
  BY DEF IInv, TypeOK, Chans, SleepOK, NoLostWakeup, PointersOK
<1>6. MissOK'
  BY OthersNotMid DEF IInv, TypeOK, MissOK, Mid
<1> QED
  BY <1>1, <1>2, <1>3, <1>4, <1>5, <1>6 DEF IInv

-----------------------------------------------------------------------------
(* Steps that take a buffer off the available list *)

\* Taking a buffer off the list: nobody had it before.
LEMMA NotavailFacts ==
    ASSUME IInv, NEW i \in DOMAIN free, NEW f, Notavail(i, f)
    PROVE  /\ free[i] \in Bufs /\ free[i] \notin ioq
           /\ "BUSY" \notin flags[free[i]] /\ "ASYNC" \notin flags[free[i]]
           /\ \A q \in Tasks : ~Owns(q, free[i]) /\ wchan[q] # "bfreelist"
           /\ \A q \in Tasks : wchan[q] = free[i] => pc[q] \notin {"scan", "iowait"}
           /\ flags' = [flags EXCEPT ![free[i]] = f \cup {"BUSY"}]
           /\ free' \in Seq(Bufs)
           /\ FreeIffNotBusy'
<1>1. /\ free \in Seq(Bufs) /\ NoDup(free) /\ flags \in [Bufs -> SUBSET Flags]
      /\ \A b \in Bufs : OnList(free, b) <=> "BUSY" \notin flags[b]
  BY DEF IInv, TypeOK, FreeIffNotBusy
<1>2. free[i] \in Bufs /\ OnList(free, free[i]) /\ free # <<>>
  BY <1>1, EmptyFacts
<1>3. /\ "BUSY" \notin flags[free[i]]
      /\ free[i] \notin ioq /\ "ASYNC" \notin flags[free[i]]
  BY <1>1, <1>2 DEF IInv, BuffersOK
<1>4. \A q \in Tasks : ~Owns(q, free[i]) /\ wchan[q] # "bfreelist"
  BY <1>2, <1>3 DEF IInv, OneOwner, NoLostWakeup
<1>5. \A q \in Tasks : wchan[q] = free[i] => pc[q] \notin {"scan", "iowait"}
  BY <1>2, <1>3 DEF IInv, NoLostWakeup
<1>6. /\ flags' = [flags EXCEPT ![free[i]] = f \cup {"BUSY"}]
      /\ free' \in Seq(Bufs) /\ NoDup(free')
      /\ \A b : OnList(free', b) <=> OnList(free, b) /\ b # free[i]
  BY <1>1, UnlinkFacts DEF Notavail
<1>7. FreeIffNotBusy'
  BY <1>1, <1>2, <1>3, <1>6 DEF FreeIffNotBusy
<1> QED
  BY <1>2, <1>3, <1>4, <1>5, <1>6, <1>7

\* getblk takes the buffer it found.
LEMMA GetblkHitStep ==
    ASSUME IInv, NEW p \in Procs, GetblkHit(p)
    PROVE  IInv'
<1> USE NamesAssumption, BufsAssumption
    DEF Tasks, Running, Goto, bufVars, listVars, devVars, asyVars, argVars
<1>0. PICK i \in DOMAIN free : free[i] = cand[p] /\ Notavail(i, flags[cand[p]])
  BY DEF GetblkHit
<1>1. /\ cand[p] \in Bufs /\ cand[p] \notin ioq
      /\ "BUSY" \notin flags[cand[p]] /\ "ASYNC" \notin flags[cand[p]]
      /\ \A q \in Tasks : ~Owns(q, cand[p]) /\ wchan[q] # "bfreelist"
      /\ \A q \in Tasks : wchan[q] = cand[p] => pc[q] \notin {"scan", "iowait"}
      /\ flags' = [flags EXCEPT ![cand[p]] = @ \cup {"BUSY"}]
      /\ free' \in Seq(Bufs) /\ FreeIffNotBusy'
  BY <1>0, NotavailFacts DEF IInv, TypeOK
<1>2. /\ Running(p) /\ pc[p] = "hit" /\ Goto(p, "got")
      /\ UNCHANGED <<blk, data, freeWanted, devVars, asyVars, op, argVars, cand, bp, wchan>>
  BY DEF GetblkHit
<1>3. TypeOK'
  BY <1>1, <1>2 DEF IInv, TypeOK, PCs, Flags
<1>4. NotPreempted' /\ ArgsOK' /\ PointersOK'
  BY <1>1, <1>2
  DEF IInv, TypeOK, NotPreempted, Mid, ArgsOK, Getting, GetOps, PointersOK, Owns
<1>5. BuffersOK' /\ OneBufferPerBlock'
  BY <1>1, <1>2 DEF IInv, TypeOK, BuffersOK, OneBufferPerBlock
<1>6. OneOwner'
  BY <1>1, <1>2, SMTT(40) DEF IInv, TypeOK, OneOwner, Owns, AsyncBufs
<1>7. SleepOK' /\ NoLostWakeup'
  BY <1>1, <1>2 DEF IInv, TypeOK, Chans, SleepOK, NoLostWakeup
<1>8. MissOK'
  BY <1>2, OthersNotMid DEF IInv, TypeOK, MissOK, Mid
<1> QED
  BY <1>1, <1>3, <1>4, <1>5, <1>6, <1>7, <1>8 DEF IInv

\* getblk and geteblk reassign the first available buffer.
LEMMA GetblkTakeStep ==
    ASSUME IInv, NEW p \in Procs, GetblkTake(p)
    PROVE  IInv'
<1> USE NamesAssumption, BufsAssumption
    DEF Tasks, Running, Goto, bufVars, listVars, devVars, asyVars, argVars
<1> DEFINE b == free[1]
           k == IF pc[p] = "miss" THEN Want(p) ELSE None
<1>0. 1 \in DOMAIN free /\ Notavail(1, NewFlags(p))
  BY EmptyFacts DEF GetblkTake, IInv, TypeOK
<1>1. /\ b \in Bufs /\ b \notin ioq
      /\ "BUSY" \notin flags[b] /\ "ASYNC" \notin flags[b]
      /\ \A q \in Tasks : ~Owns(q, b) /\ wchan[q] # "bfreelist"
      /\ \A q \in Tasks : wchan[q] = b => pc[q] \notin {"scan", "iowait"}
      /\ flags' = [flags EXCEPT ![b] = NewFlags(p) \cup {"BUSY"}]
      /\ free' \in Seq(Bufs) /\ FreeIffNotBusy'
  BY <1>0, NotavailFacts
<1>2. /\ Running(p) /\ pc[p] \in {"miss", "etake"} /\ Goto(p, "got")
      /\ blk' = [blk EXCEPT ![b] = k]
      /\ data' = [data EXCEPT ![b] = Junk]
      /\ cand' = [cand EXCEPT ![p] = b]
      /\ UNCHANGED <<freeWanted, devVars, asyVars, op, argVars, bp, wchan>>
  BY DEF GetblkTake
<1>3. /\ k \in Blocks \cup {None}
      /\ pc[p] = "miss" => k \in Blocks /\ ~Incore(k)
      /\ pc[p] = "etake" => op[p] = "geteblk" /\ k = None /\ bp[p] = None
  BY <1>2 DEF IInv, ArgsOK, Getting, GetOps, Want, MissOK, PointersOK
<1>4. /\ NewFlags(p) \subseteq Flags
      /\ "BUSY" \in flags'[b] /\ "ASYNC" \notin flags'[b] /\ "DELWRI" \notin flags'[b]
      /\ \A c \in Bufs \ {b} : flags'[c] = flags[c]
  BY <1>1 DEF NewFlags, Flags, IInv, TypeOK
<1> HIDE DEF b, k
<1>5. TypeOK'
  BY <1>1, <1>2, <1>3, <1>4 DEF IInv, TypeOK, PCs, Flags
<1>6. NotPreempted' /\ ArgsOK' /\ PointersOK'
  BY <1>1, <1>2, <1>3
  DEF IInv, TypeOK, NotPreempted, Mid, ArgsOK, Getting, GetOps, PointersOK, Owns
<1>7. BuffersOK'
  BY <1>1, <1>2, <1>3, <1>4 DEF IInv, TypeOK, BuffersOK
<1>8. OneBufferPerBlock'
  BY <1>1, <1>2, <1>3 DEF IInv, TypeOK, OneBufferPerBlock, Incore
<1>9. OneOwner'
  BY <1>1, <1>2, <1>4, SMTT(30), ZenonT(30) DEF IInv, TypeOK, OneOwner, Owns, AsyncBufs
<1>10. SleepOK' /\ NoLostWakeup'
  BY <1>1, <1>2 DEF IInv, TypeOK, Chans, SleepOK, NoLostWakeup
<1>11. MissOK'
  BY <1>2, OthersNotMid DEF IInv, TypeOK, MissOK, Mid
<1> QED
  BY <1>1, <1>5, <1>6, <1>7, <1>8, <1>9, <1>10, <1>11 DEF IInv

\* getblk, bflush and bdflush start writing a dirty buffer of the list.
LEMMA WriteOutStep ==
    ASSUME IInv, NEW p \in Tasks, Running(p), NEW i \in DOMAIN free,
           "DELWRI" \in flags[free[i]], WriteOut(i), NEW l, Goto(p, l),
           \/ pc[p] \in {"bflush", "bdflush"} /\ l = pc[p]
           \/ pc[p] \in {"miss", "etake"} /\ l = "count",
           basyncnt' \in {basyncnt, basyncnt + 1},
           UNCHANGED <<basynwait, op, argVars, cand, bp, wchan>>
    PROVE  IInv'
<1> USE NamesAssumption, BufsAssumption DEF Tasks, Running, Goto, argVars
<1> DEFINE b == free[i]
<1>1. /\ b \in Bufs /\ b \notin ioq
      /\ "BUSY" \notin flags[b] /\ "ASYNC" \notin flags[b]
      /\ \A q \in Tasks : ~Owns(q, b) /\ wchan[q] # "bfreelist"
      /\ \A q \in Tasks : wchan[q] = b => pc[q] \notin {"scan", "iowait"}
      /\ flags' = [flags EXCEPT ![b] = WriteFlags(flags[b] \cup {"ASYNC"}) \cup {"BUSY"}]
      /\ free' \in Seq(Bufs) /\ FreeIffNotBusy'
  BY NotavailFacts DEF WriteOut
<1>2. /\ ioq' = ioq \cup {b}
      /\ UNCHANGED <<blk, data, freeWanted, disk, errs>>
  BY DEF WriteOut
<1>3. blk[b] \in Blocks /\ data[b] \in Values
  BY <1>1 DEF IInv, BuffersOK
<1>4. /\ flags' \in [Bufs -> SUBSET Flags]
      /\ {"BUSY", "ASYNC"} \subseteq flags'[b]
      /\ "DONE" \notin flags'[b] /\ "DELWRI" \notin flags'[b] /\ "READ" \notin flags'[b]
      /\ "STALE" \in flags'[b] <=> "STALE" \in flags[b]
      /\ \A c \in Bufs \ {b} : flags'[c] = flags[c]
  BY <1>1 DEF WriteFlags, Flags, IInv, TypeOK
<1> HIDE DEF b
<1>5. TypeOK'
  <2>1. l \in PCs /\ basyncnt' \in Int
    BY DEF IInv, TypeOK, PCs
  <2> QED
    BY <1>1, <1>2, <1>4, <2>1, ZenonT(30) DEF IInv, TypeOK
<1>6. NotPreempted' /\ ArgsOK'
  BY <1>1, <1>2 DEF IInv, TypeOK, NotPreempted, Mid, ArgsOK, Getting, GetOps
<1>7. PointersOK'
  BY <1>1, <1>2, <1>4 DEF IInv, TypeOK, ArgsOK, Getting, PointersOK, Owns
<1>8. BuffersOK' /\ OneBufferPerBlock'
  <2>1. BuffersOK'
    BY <1>1, <1>2, <1>3, <1>4 DEF IInv, TypeOK, BuffersOK
  <2>2. OneBufferPerBlock'
    BY <1>1, <1>2, <1>4 DEF IInv, OneBufferPerBlock
  <2> QED
    BY <2>1, <2>2
<1>9. OneOwner'
  BY <1>1, <1>2, <1>4 DEF IInv, TypeOK, OneOwner, Owns, AsyncBufs
<1>10. SleepOK' /\ NoLostWakeup'
  BY <1>1, <1>2, <1>4 DEF IInv, TypeOK, Chans, SleepOK, NoLostWakeup
<1>11. MissOK'
  BY <1>2, OthersNotMid DEF IInv, TypeOK, MissOK, Mid
<1> QED
  BY <1>1, <1>5, <1>6, <1>7, <1>8, <1>9, <1>10, <1>11 DEF IInv

\* The three ways a dirty buffer of the list is written out.
LEMMA FlushStep ==
    ASSUME IInv, NEW p \in Tasks,
           GetblkDirty(p) \/ BflushWrite(p) \/ (p = Daemon /\ BdflushWrite)
    PROVE  IInv'
<1>1. CASE GetblkDirty(p)
  <2>1. 1 \in DOMAIN free
    BY <1>1, EmptyFacts DEF GetblkDirty, IInv, TypeOK
  <2> QED
    BY <1>1, <2>1, WriteOutStep DEF GetblkDirty, asyVars
<1>2. CASE BflushWrite(p)
  BY <1>2, WriteOutStep DEF BflushWrite, Flushable
<1>3. CASE p = Daemon /\ BdflushWrite
  BY <1>3, WriteOutStep DEF BdflushWrite, Flushable
<1> QED
  BY <1>1, <1>2, <1>3

-----------------------------------------------------------------------------
(* Steps that release a buffer *)

\* brelse of a busy buffer b puts it on the list and wakes whoever waits for it
\* or for any buffer.
LEMMA ReleaseFacts ==
    ASSUME IInv, NEW b \in Bufs, "BUSY" \in flags[b],
           NEW f \in SUBSET Flags, flags[b] \cup f = f, Release(b, f),
           NEW C, RelWake(b, f) \subseteq C, Wakeup(C)
    PROVE  /\ flags' = [flags EXCEPT ![b] = RelFlags(f)]
           /\ flags' \in [Bufs -> SUBSET Flags]
           /\ free' \in Seq(Bufs)
           /\ FreeIffNotBusy'
           /\ \A g \in {"BUSY", "ASYNC", "WANTED", "ERROR"} : g \notin flags'[b]
           /\ \A q \in Tasks : wchan'[q] \in {wchan[q], None}
           /\ \A q \in Tasks : wchan'[q] # "bfreelist"
           /\ \A q \in Tasks : wchan[q] = b /\ pc[q] = "scan" => wchan'[q] = None
           /\ wchan' \in [Tasks -> Bufs \cup Chans \cup {None}]
           /\ freeWanted' = FALSE
<1>1. /\ free \in Seq(Bufs) /\ NoDup(free) /\ flags \in [Bufs -> SUBSET Flags]
      /\ wchan \in [Tasks -> Bufs \cup Chans \cup {None}]
      /\ \A c \in Bufs : OnList(free, c) <=> "BUSY" \notin flags[c]
  BY DEF IInv, TypeOK, FreeIffNotBusy
<1>2. /\ flags' = [flags EXCEPT ![b] = RelFlags(f)] /\ freeWanted' = FALSE
      /\ free' = RelFree(b, f)
  BY DEF Release
<1>3. free' = <<b>> \o free \/ free' = Append(free, b)
  BY <1>2 DEF RelFree
<1>4. /\ free' \in Seq(Bufs) /\ NoDup(free')
      /\ \A c : OnList(free', c) <=> OnList(free, c) \/ c = b
  BY <1>1, <1>3, LinkFacts
<1>5. /\ RelFlags(f) \in SUBSET Flags
      /\ \A g \in {"BUSY", "ASYNC", "WANTED", "ERROR"} : g \notin RelFlags(f)
  BY DEF RelFlags, Flags
<1>6. FreeIffNotBusy'
  BY <1>1, <1>2, <1>4, <1>5 DEF FreeIffNotBusy
<1>7. wchan' = [q \in Tasks |-> IF wchan[q] \in C THEN None ELSE wchan[q]]
  BY DEF Wakeup
<1>8. \A q \in Tasks : wchan[q] = b /\ pc[q] = "scan" => b \in C
  BY DEF IInv, NoLostWakeup, RelWake
<1>9. \A q \in Tasks : wchan[q] = "bfreelist" => "bfreelist" \in C
  BY DEF IInv, NoLostWakeup, RelWake
<1>10. \A q \in Tasks : wchan'[q] # "bfreelist"
  BY <1>7, <1>9, NamesAssumption DEF Chans
<1> QED
  BY <1>1, <1>2, <1>4, <1>5, <1>6, <1>7, <1>8, <1>10

\* The owner p of b releases it (brelse, or the end of bdwrite): no more I/O is
\* under way on b, and afterwards p does not have it.
LEMMA ReleaseStep ==
    ASSUME IInv, NEW p \in Procs, Running(p), NEW b \in Bufs, Owns(p, b), b \notin ioq,
           NEW f \in SUBSET Flags, flags[b] \cup f = f, "DELWRI" \in f => "DONE" \in f,
           Release(b, f), Wakeup(RelWake(b, f)),
           NEW d \in Values \cup {Junk}, data' = [data EXCEPT ![b] = d],
           "DELWRI" \in f => blk[b] \in Blocks /\ d \in Values,
           NEW l \in {"user", "xahead", "scan"}, NEW o \in Ops,
           pc' = [pc EXCEPT ![p] = l], cur' \in {p, None}, l = "xahead" => cur' = p,
           op' = [op EXCEPT ![p] = o],
           l = "user" => bp[p] = b /\ bp' = [bp EXCEPT ![p] = None]
                         /\ pc[p] # "got" /\ cand' = cand,
           l # "user" => bp' = bp /\ bp[p] # b /\ blkno[p] \in Blocks /\ pc[p] = "got"
                         /\ cand' = [cand EXCEPT ![p] = None],
           l = "xahead" => o = "breada",
           l = "scan" => o = "bread" /\ bp[p] = None,
           UNCHANGED <<blk, devVars, asyVars, argVars>>
    PROVE  IInv'
<1> USE NamesAssumption, BufsAssumption DEF Tasks, Running, argVars, devVars, asyVars
<1>1. /\ "BUSY" \in flags[b] /\ TypeOK
  BY DEF IInv, OneOwner
<1>2. /\ flags' = [flags EXCEPT ![b] = RelFlags(f)]
      /\ flags' \in [Bufs -> SUBSET Flags]
      /\ free' \in Seq(Bufs)
      /\ FreeIffNotBusy'
      /\ \A g \in {"BUSY", "ASYNC", "WANTED", "ERROR"} : g \notin flags'[b]
      /\ \A q \in Tasks : wchan'[q] \in {wchan[q], None}
      /\ \A q \in Tasks : wchan'[q] # "bfreelist"
      /\ \A q \in Tasks : wchan[q] = b /\ pc[q] = "scan" => wchan'[q] = None
      /\ wchan' \in [Tasks -> Bufs \cup Chans \cup {None}]
      /\ freeWanted' = FALSE
  BY <1>1, ReleaseFacts
<1>3. /\ "DELWRI" \in flags'[b] => "DONE" \in flags'[b] /\ "DELWRI" \in f
      /\ "STALE" \in flags[b] => "STALE" \in flags'[b]
      /\ \A c \in Bufs \ {b} : flags'[c] = flags[c]
  BY <1>1, <1>2 DEF RelFlags, TypeOK
<1>4. \A q \in Tasks : q # p => ~Owns(q, b)
  BY DEF IInv, OneOwner
<1>5. \A q \in Tasks : bp'[q] = b => q = p /\ l = "user" /\ FALSE
  BY <1>1, <1>4 DEF Owns, TypeOK
<1>6. TypeOK'
  BY <1>1, <1>2, ZenonT(30) DEF TypeOK, PCs
<1>7. NotPreempted' /\ ArgsOK'
  BY <1>1 DEF IInv, TypeOK, NotPreempted, Mid, ArgsOK, Getting, GetOps
<1>8. PointersOK'
  BY <1>1, <1>2, <1>3, <1>4, <1>5 DEF IInv, TypeOK, PointersOK, Owns
<1>9. BuffersOK' /\ OneBufferPerBlock'
  BY <1>1, <1>2, <1>3 DEF IInv, TypeOK, BuffersOK, OneBufferPerBlock
<1>10. OneOwner'
  BY <1>1, <1>2, <1>3, <1>4 DEF IInv, TypeOK, OneOwner, Owns, AsyncBufs
<1>11. SleepOK' /\ NoLostWakeup'
  BY <1>1, <1>2, <1>3 DEF IInv, TypeOK, Chans, SleepOK, NoLostWakeup
<1>12. MissOK'
  BY OthersNotMid, <1>1 DEF TypeOK, MissOK, Mid
<1> QED
  BY <1>2, <1>6, <1>7, <1>8, <1>9, <1>10, <1>11, <1>12 DEF IInv

\* brelse, and the end of a synchronous bwrite.
LEMMA GiveBackStep ==
    ASSUME IInv, NEW p \in Procs, Brelse(p) \/ IowaitWrite(p)
    PROVE  IInv'
<1> DEFINE b == bp[p]
<1>1. /\ Running(p) /\ pc[p] \in {"hold", "iowait"} /\ b \in Bufs /\ b \notin ioq
      /\ Owns(p, b) /\ GiveBack(p) /\ TypeOK
  BY DEF Brelse, IowaitWrite, IInv, PointersOK, BuffersOK, Owns, Tasks
<1>2. /\ Release(b, flags[b]) /\ Wakeup(RelWake(b, flags[b]))
      /\ pc' = [pc EXCEPT ![p] = "user"] /\ cur' = None
      /\ op' = [op EXCEPT ![p] = "none"] /\ bp' = [bp EXCEPT ![p] = None]
      /\ UNCHANGED <<blk, data, devVars, asyVars, argVars, cand>>
  BY <1>1 DEF GiveBack, Leave
<1>3. /\ flags[b] \in SUBSET Flags /\ data[b] \in Values \cup {Junk}
      /\ data' = [data EXCEPT ![b] = data[b]]
      /\ "DELWRI" \in flags[b] => /\ "DONE" \in flags[b]
                                  /\ blk[b] \in Blocks /\ data[b] \in Values
  BY <1>1, <1>2 DEF IInv, BuffersOK, TypeOK
<1>4. "none" \in Ops
  BY DEF Ops
<1> HIDE DEF b
<1> QED
  BY <1>1, <1>2, <1>3, <1>4, ReleaseStep, ZenonT(30) DEF b

\* bdwrite.
LEMMA BdwriteStep ==
    ASSUME IInv, NEW p \in Procs, NEW v \in Values, Bdwrite(p, v)
    PROVE  IInv'
<1> DEFINE b == bp[p]
           f == flags[b] \cup {"DELWRI", "DONE"}
<1>1. /\ Running(p) /\ pc[p] = "hold" /\ b \in Bufs /\ b \notin ioq
      /\ Owns(p, b) /\ TypeOK /\ blk[b] \in Blocks
  BY DEF Bdwrite, MayWrite, IInv, PointersOK, Owns, Tasks, TypeOK
<1>2. /\ Release(b, f) /\ Wakeup(RelWake(b, f))
      /\ data' = [data EXCEPT ![b] = v]
      /\ pc' = [pc EXCEPT ![p] = "user"] /\ cur' = None
      /\ op' = [op EXCEPT ![p] = "none"] /\ bp' = [bp EXCEPT ![p] = None]
      /\ UNCHANGED <<blk, devVars, asyVars, argVars, cand>>
  BY DEF Bdwrite, Leave
<1>3. f \in SUBSET Flags /\ flags[b] \cup f = f /\ "DONE" \in f
  BY <1>1 DEF TypeOK, Flags
<1>4. "none" \in Ops
  BY DEF Ops
<1> HIDE DEF b, f
<1> QED
  BY <1>1, <1>2, <1>3, <1>4, ReleaseStep DEF b

\* breada gives back a read-ahead block that was valid.
LEMMA AheadValidStep ==
    ASSUME IInv, NEW p \in Procs, AheadValid(p)
    PROVE  IInv'
<1> DEFINE b == cand[p]
<1>1. /\ Running(p) /\ pc[p] = "got" /\ op[p] \in {"readahead", "xablock"}
      /\ b \in Bufs /\ b \notin ioq /\ b # bp[p]
      /\ Owns(p, b) /\ TypeOK
  BY DEF AheadValid, Got, IInv, PointersOK, Owns, Tasks
<1>2. /\ Release(b, flags[b]) /\ Wakeup(RelWake(b, flags[b]))
      /\ cand' = [cand EXCEPT ![p] = None] /\ AfterAhead(p)
      /\ UNCHANGED <<blk, data, devVars, asyVars, argVars, bp>>
  BY DEF AheadValid
<1>3. PICK o \in {"breada", "bread"}, l \in {"xahead", "scan"} :
        /\ op' = [op EXCEPT ![p] = o] /\ Goto(p, l)
        /\ blkno[p] \in Blocks
        /\ o = "breada" <=> l = "xahead"
        /\ l = "scan" => bp[p] = None
  BY <1>1, <1>2, AfterAheadFacts
<1>4. /\ flags[b] \in SUBSET Flags /\ data[b] \in Values \cup {Junk}
      /\ data' = [data EXCEPT ![b] = data[b]]
      /\ "DELWRI" \in flags[b] => /\ "DONE" \in flags[b]
                                  /\ blk[b] \in Blocks /\ data[b] \in Values
  BY <1>1, <1>2 DEF IInv, BuffersOK, TypeOK
<1>5. /\ pc' = [pc EXCEPT ![p] = l] /\ cur' = p
      /\ o \in Ops /\ l \in {"user", "xahead", "scan"} /\ l # "user"
      /\ (l = "xahead" => o = "breada") /\ (l = "scan" => o = "bread")
  BY <1>3 DEF Goto, Ops
<1>6. /\ bp[p] # b /\ bp' = bp /\ cur' \in {p, None} /\ flags[b] \cup flags[b] = flags[b]
      /\ UNCHANGED <<blk, devVars, asyVars, argVars>>
  BY <1>1, <1>2, <1>5
<1> HIDE DEF b
<1> QED
  BY <1>1, <1>2, <1>3, <1>4, <1>5, <1>6, ReleaseStep

-----------------------------------------------------------------------------
(* The disk interrupt *)

\* What the end of a transfer does to the contents.
LEMMA TransferFacts ==
    ASSUME IInv, NEW b \in ioq, NEW ok \in BOOLEAN, Transfer(b, ok)
    PROVE  /\ ioq' = ioq \ {b} /\ errs' \in Nat
           /\ data' \in [Bufs -> Values \cup {Junk}]
           /\ \A c \in Bufs \ {b} : data'[c] = data[c]
           /\ disk' \in [Blocks -> Values]
BY DEF Transfer, IInv, TypeOK, BuffersOK

\* iodone of a transfer that a process waits for.
LEMMA IodoneSyncStep ==
    ASSUME IInv, NEW b \in Bufs, b \in ioq, NEW ok \in BOOLEAN, Transfer(b, ok), IodoneSync(b, ok),
           UNCHANGED <<blk, cur, pc, op, argVars, cand, bp>>
    PROVE  IInv'
<1> USE NamesAssumption, BufsAssumption DEF Tasks, argVars, listVars, asyVars
<1>1. /\ ioq' = ioq \ {b} /\ errs' \in Nat
      /\ data' \in [Bufs -> Values \cup {Junk}]
      /\ \A c \in Bufs \ {b} : data'[c] = data[c]
      /\ disk' \in [Blocks -> Values]
  BY TransferFacts
<1>2. /\ "ASYNC" \notin flags[b] /\ "DELWRI" \notin flags[b] /\ "BUSY" \in flags[b]
      /\ UNCHANGED <<listVars, asyVars>>
      /\ wchan' = [q \in Tasks |-> IF wchan[q] = b THEN None ELSE wchan[q]]
  BY DEF IodoneSync, Wakeup, IInv, BuffersOK
<1>3. /\ flags' \in [Bufs -> SUBSET Flags]
      /\ \A c \in Bufs \ {b} : flags'[c] = flags[c]
      /\ "BUSY" \in flags'[b] /\ "DONE" \in flags'[b]
      /\ "ASYNC" \notin flags'[b] /\ "DELWRI" \notin flags'[b]
      /\ "STALE" \in flags'[b] <=> "STALE" \in flags[b]
  BY <1>2 DEF IodoneSync, DoneFlags, Flags, IInv, TypeOK
<1>4. TypeOK'
  BY <1>1, <1>2, <1>3 DEF IInv, TypeOK
<1>5. NotPreempted' /\ ArgsOK' /\ PointersOK'
  BY <1>1, <1>2, <1>3 DEF IInv, TypeOK, NotPreempted, ArgsOK, Getting, PointersOK
<1>6. BuffersOK' /\ FreeIffNotBusy' /\ OneBufferPerBlock'
  BY <1>1, <1>2, <1>3 DEF IInv, TypeOK, BuffersOK, FreeIffNotBusy, OneBufferPerBlock
<1>7. OneOwner'
  BY <1>1, <1>2, <1>3 DEF IInv, TypeOK, OneOwner, Owns, AsyncBufs
<1>8. SleepOK' /\ NoLostWakeup'
  BY <1>1, <1>2, <1>3 DEF IInv, TypeOK, Chans, SleepOK, NoLostWakeup
<1>9. MissOK'
  BY <1>1, <1>3 DEF IInv, MissOK, Incore, Want
<1> QED
  BY <1>4, <1>5, <1>6, <1>7, <1>8, <1>9 DEF IInv

\* iodone of a transfer nobody waits for: the interrupt releases the buffer.
LEMMA IodoneAsyncStep ==
    ASSUME IInv, NEW b \in Bufs, b \in ioq, NEW ok \in BOOLEAN, Transfer(b, ok), IodoneAsync(b, ok),
           UNCHANGED <<blk, cur, pc, op, argVars, cand, bp>>
    PROVE  IInv'
<1> USE NamesAssumption, BufsAssumption DEF Tasks, argVars
<1> DEFINE f == DoneFlags(b, ok)
<1>1. /\ ioq' = ioq \ {b} /\ errs' \in Nat
      /\ data' \in [Bufs -> Values \cup {Junk}]
      /\ \A c \in Bufs \ {b} : data'[c] = data[c]
      /\ disk' \in [Blocks -> Values]
  BY TransferFacts
<1>2. /\ "BUSY" \in flags[b] /\ "DELWRI" \notin flags[b] /\ TypeOK
      /\ "ASYNC" \in flags[b] /\ basyncnt' \in Int /\ basynwait' \in BOOLEAN
  BY DEF IodoneAsync, DoneFlags, IInv, BuffersOK, TypeOK
<1>3. /\ f \in SUBSET Flags /\ flags[b] \cup f = f /\ "DELWRI" \notin f
  BY <1>2 DEF DoneFlags, TypeOK, Flags
<1>4. Release(b, f) /\ \E C : RelWake(b, f) \subseteq C /\ Wakeup(C)
  BY DEF IodoneAsync
<1> HIDE DEF f
<1>5. /\ flags' = [flags EXCEPT ![b] = RelFlags(f)]
      /\ flags' \in [Bufs -> SUBSET Flags]
      /\ free' \in Seq(Bufs)
      /\ FreeIffNotBusy'
      /\ \A g \in {"BUSY", "ASYNC", "WANTED", "ERROR"} : g \notin flags'[b]
      /\ \A q \in Tasks : wchan'[q] \in {wchan[q], None}
      /\ \A q \in Tasks : wchan'[q] # "bfreelist"
      /\ \A q \in Tasks : wchan[q] = b /\ pc[q] = "scan" => wchan'[q] = None
      /\ wchan' \in [Tasks -> Bufs \cup Chans \cup {None}]
      /\ freeWanted' = FALSE
  BY <1>2, <1>3, <1>4, ReleaseFacts
<1>6. /\ "DELWRI" \notin flags'[b]
      /\ "STALE" \in flags[b] => "STALE" \in flags'[b]
      /\ \A c \in Bufs \ {b} : flags'[c] = flags[c]
  BY <1>2, <1>3, <1>5 DEF RelFlags, TypeOK
<1>7. \A q \in Tasks : ~Owns(q, b)
  BY <1>2 DEF IInv, OneOwner, AsyncBufs
<1>8. TypeOK'
  BY <1>1, <1>2, <1>5 DEF TypeOK
<1>9. NotPreempted' /\ ArgsOK' /\ PointersOK'
  BY <1>1, <1>2, <1>6, <1>7
  DEF IInv, TypeOK, NotPreempted, ArgsOK, Getting, PointersOK, Owns
<1>10. BuffersOK' /\ OneBufferPerBlock'
  BY <1>1, <1>2, <1>5, <1>6 DEF IInv, TypeOK, BuffersOK, OneBufferPerBlock
<1>11. OneOwner'
  BY <1>1, <1>2, <1>5, <1>6, <1>7 DEF IInv, TypeOK, OneOwner, Owns, AsyncBufs
<1>12. SleepOK' /\ NoLostWakeup'
  BY <1>1, <1>2, <1>5, <1>6, <1>7 DEF IInv, TypeOK, Chans, SleepOK, NoLostWakeup, Owns
<1>13. MissOK'
  BY <1>6 DEF IInv, MissOK, Incore, Want
<1> QED
  BY <1>5, <1>8, <1>9, <1>10, <1>11, <1>12, <1>13 DEF IInv

-----------------------------------------------------------------------------
(* The theorems *)

\* binit establishes the invariant.
LEMMA InitOK == Init => IInv
<1> SUFFICES ASSUME Init PROVE IInv
  OBVIOUS
<1> USE NamesAssumption, BufsAssumption DEF Tasks
<1>1. free \in Seq(Bufs)
  <2>1. Cardinality(Bufs) \in Nat
    BY FS_CardinalityType
  <2> QED
    BY <2>1 DEF Init
<1>2. TypeOK
  <2>1. pc \in [Tasks -> PCs] /\ op \in [Tasks -> Ops]
    BY DEF Init, PCs, Ops
  <2>2. /\ blk \in [Bufs -> Blocks \cup {None}] /\ flags \in [Bufs -> SUBSET Flags]
        /\ data \in [Bufs -> Values \cup {Junk}] /\ disk \in [Blocks -> Values]
    BY DEF Init
  <2>4. /\ freeWanted \in BOOLEAN /\ basynwait \in BOOLEAN
    BY Zenon DEF Init
  <2>5. /\ ioq \subseteq Bufs /\ basyncnt \in Int
        /\ cur \in Tasks \cup {None} /\ errs \in Nat
    BY DEF Init
  <2>3. /\ blkno \in [Tasks -> Blocks \cup {None}] /\ ra \in [Tasks -> Blocks \cup {None}]
        /\ xa \in [Tasks -> Blocks \cup {None}] /\ dev \in [Tasks -> Devs \cup {None}]
        /\ cand \in [Tasks -> Bufs \cup {None}] /\ bp \in [Tasks -> Bufs \cup {None}]
        /\ wchan \in [Tasks -> Bufs \cup Chans \cup {None}]
    BY DEF Init
  <2> QED
    BY <1>1, <2>1, <2>2, <2>3, <2>4, <2>5 DEF TypeOK
<1>3. NotPreempted /\ ArgsOK /\ PointersOK
  BY DEF Init, NotPreempted, Mid, ArgsOK, Getting, PointersOK
<1>4. BuffersOK /\ FreeIffNotBusy /\ OneBufferPerBlock
  BY DEF Init, BuffersOK, FreeIffNotBusy, OneBufferPerBlock
<1>5. OneOwner /\ SleepOK /\ NoLostWakeup /\ MissOK
  BY DEF Init, OneOwner, Owns, AsyncBufs, SleepOK, NoLostWakeup, MissOK, Chans
<1> QED
  BY <1>2, <1>3, <1>4, <1>5 DEF IInv

\* Every step keeps the invariant.
LEMMA NextOK == IInv /\ [Next]_vars => IInv'
<1> SUFFICES ASSUME IInv, [Next]_vars PROVE IInv'
  OBVIOUS
<1>1. ASSUME NEW p \in Procs, Call(p) \/ Use(p) \/ Inside(p) PROVE IInv'
  <2>0. p \in Tasks
    BY DEF Tasks
  <2>1. CASE Call(p)
    BY <2>1, CallStep
  <2>2. CASE Use(p)
    BY <2>2, GiveBackStep, BdwriteStep, WriteStep DEF Use
  <2>3. CASE BreadaStart(p)
    BY <2>3, BreadaReadStep, BreadaValidStep DEF BreadaStart
  <2>4. CASE Inside(p) /\ ~BreadaStart(p)
    BY <2>0, <2>4, GetblkScanStep, GetblkBusyStep, GetblkHitStep, GetblkTakeStep,
       BwriteCountStep, ReturnStep, BreadStartStep, BreadaStep, AheadValidStep,
       AheadStartStep, SleepStep, GiveBackStep, FlushStep, EndStep, BinvalStep
    DEF Inside
  <2> QED
    BY <1>1, <2>1, <2>2, <2>3, <2>4 DEF Inside
<1>2. CASE Bdflush
  BY <1>2, SleepStep, FlushStep DEF Bdflush, Tasks
<1>3. CASE Clock
  BY <1>3, ClockStep
<1>4. CASE Disk
  BY <1>4, IodoneSyncStep, IodoneAsyncStep DEF Disk, Iodone
<1>5. CASE UNCHANGED vars
  <2>1. UNCHANGED <<blk, flags, data, free, freeWanted, disk, ioq, errs, basyncnt, basynwait>>
        /\ UNCHANGED <<cur, pc, op, blkno, ra, xa, dev, cand, bp, wchan>>
    BY <1>5 DEF vars, bufVars, listVars, devVars, asyVars, procVars, argVars
  <2>2. TypeOK' /\ FreeIffNotBusy' /\ OneBufferPerBlock' /\ BuffersOK'
    BY <2>1 DEF IInv, TypeOK, FreeIffNotBusy, OneBufferPerBlock, BuffersOK
  <2>3. NotPreempted' /\ ArgsOK' /\ PointersOK'
    BY <2>1 DEF IInv, NotPreempted, ArgsOK, Getting, PointersOK
  <2>4. OneOwner' /\ SleepOK' /\ NoLostWakeup'
    BY <2>1 DEF IInv, OneOwner, Owns, AsyncBufs, SleepOK, NoLostWakeup
  <2>5. MissOK'
    BY <2>1 DEF IInv, MissOK, Incore, Want
  <2> QED
    BY <2>2, <2>3, <2>4, <2>5 DEF IInv
<1> QED
  BY <1>1, <1>2, <1>3, <1>4, <1>5 DEF Next

\* IInv is an inductive invariant of the cache.
LEMMA Invariance == Spec => []IInv
BY InitOK, NextOK, PTL DEF Spec

\* Type correctness, for any number of processes, buffers and blocks.
THEOREM TypeCorrect == Spec => []TypeOK
<1>1. IInv => TypeOK
  BY DEF IInv
<1> QED
  BY <1>1, Invariance, PTL

\* The comment of buf.h holds: a buffer is on the available list, once, if and
\* only if it is not marked BUSY.
THEOREM AvailableListCorrect == Spec => []FreeIffNotBusy
<1>1. IInv => FreeIffNotBusy
  BY DEF IInv
<1> QED
  BY <1>1, Invariance, PTL

\* Every busy buffer has exactly one party that will release it.
THEOREM ExclusiveOwnership == Spec => []OneOwner
<1>1. IInv => OneOwner
  BY DEF IInv
<1> QED
  BY <1>1, Invariance, PTL

\* A block never has two buffers that are not stale.
THEOREM NoAliasing == Spec => []OneBufferPerBlock
<1>1. IInv => OneBufferPerBlock
  BY DEF IInv
<1> QED
  BY <1>1, Invariance, PTL

\* Nobody sleeps for a buffer without someone who is bound to wake him.
THEOREM WakeupsNotLost == Spec => []NoLostWakeup
<1>1. IInv => NoLostWakeup
  BY DEF IInv
<1> QED
  BY <1>1, Invariance, PTL
-----------------------------------------------------------------------------
(* The count of asynchronous writes *)

AtCount == {p \in Tasks : pc[p] = "count"}

\* Sets that differ in one element at most.
LEMMA OneElement ==
    ASSUME NEW S, NEW T, NEW x, IsFiniteSet(S), IsFiniteSet(T), S \ {x} = T \ {x}
    PROVE  /\ Cardinality(S) \in Nat
           /\ Cardinality(T) = Cardinality(S) + (IF x \in T THEN 1 ELSE 0)
                                              - (IF x \in S THEN 1 ELSE 0)
<1>1. Cardinality(S) \in Nat /\ Cardinality(T) \in Nat
  BY FS_CardinalityType
<1>2. Cardinality(S \ {x}) = IF x \in S THEN Cardinality(S) - 1 ELSE Cardinality(S)
  BY FS_RemoveElement
<1>3. Cardinality(T \ {x}) = IF x \in T THEN Cardinality(T) - 1 ELSE Cardinality(T)
  BY FS_RemoveElement
<1> QED
  BY <1>1, <1>2, <1>3

\* A step of p that starts or ends the transfer of b at most: the count follows.
LEMMA CountFollows ==
    ASSUME IInv, IInv', AsyncCounted, NEW b, NEW p \in Tasks,
           AsyncWrites' \ {b} = AsyncWrites \ {b},
           \A q \in Tasks \ {p} : pc'[q] = pc[q],
           basyncnt' = basyncnt
               + (IF b \in AsyncWrites' THEN 1 ELSE 0) - (IF b \in AsyncWrites THEN 1 ELSE 0)
               - (IF pc'[p] = "count" THEN 1 ELSE 0) + (IF pc[p] = "count" THEN 1 ELSE 0)
    PROVE  AsyncCounted'
<1> DEFINE A == AsyncWrites
           B == AsyncWrites'
           C == AtCount
           D == AtCount'
<1>1. IsFiniteSet(A) /\ IsFiniteSet(B)
  <2>1. A \subseteq Bufs /\ B \subseteq Bufs
    BY DEF AsyncWrites, AsyncBufs, IInv, TypeOK
  <2> QED
    BY <2>1, BufsAssumption, FS_Subset
<1>2. IsFiniteSet(C) /\ IsFiniteSet(D)
  <2>1. C \subseteq {cur} /\ D \subseteq {cur'}
    BY DEF IInv, NotPreempted, Mid, AtCount
  <2> QED
    BY <2>1, FS_Singleton, FS_Subset
<1>3. C \ {p} = D \ {p}
  BY DEF AtCount
<1>4. (p \in C <=> pc[p] = "count") /\ (p \in D <=> pc'[p] = "count")
  BY DEF AtCount
<1>5. basyncnt = Cardinality(A) - Cardinality(C)
  BY DEF AsyncCounted, AtCount
<1>6. AsyncCounted' <=> basyncnt' = Cardinality(B) - Cardinality(D)
  BY DEF AsyncCounted, AtCount
<1>7. /\ Cardinality(A) \in Nat
      /\ Cardinality(B) = Cardinality(A) + (IF b \in B THEN 1 ELSE 0)
                                         - (IF b \in A THEN 1 ELSE 0)
  BY <1>1, OneElement
<1>8. /\ Cardinality(C) \in Nat
      /\ Cardinality(D) = Cardinality(C) + (IF pc'[p] = "count" THEN 1 ELSE 0)
                                         - (IF pc[p] = "count" THEN 1 ELSE 0)
  BY <1>2, <1>3, <1>4, OneElement
<1> HIDE DEF A, B, C, D
<1> QED
  BY <1>5, <1>6, <1>7, <1>8 DEF A, B

\* A buffer that is not B_ASYNC or that is not under way is none of the counted.
LEMMA NoneCounted ==
    ASSUME IInv, IInv', AsyncCounted, NEW b, NEW p \in Tasks,
           \A c \in Bufs \ {b} : /\ c \in ioq' <=> c \in ioq
                                 /\ "ASYNC" \in flags'[c] <=> "ASYNC" \in flags[c]
                                 /\ "READ" \in flags'[c] <=> "READ" \in flags[c],
           b \notin AsyncWrites /\ b \notin AsyncWrites',
           \A q \in Tasks \ {p} : pc'[q] = pc[q],
           pc[p] # "count" /\ pc'[p] # "count",
           UNCHANGED basyncnt
    PROVE  AsyncCounted'
<1>1. AsyncWrites' \ {b} = AsyncWrites \ {b}
  BY DEF AsyncWrites, AsyncBufs, IInv, TypeOK
<1>2. basyncnt \in Int
  BY DEF IInv, TypeOK
<1> QED
  BY <1>1, <1>2, CountFollows
\* Steps that leave the transfers alone.
LEMMA QuietStep ==
    ASSUME IInv, IInv', AsyncCounted, NEW p \in Tasks,
           \/ (p \in Procs /\ Call(p)) \/ GetblkScan(p) \/ GetblkBusy(p) \/ GetblkHit(p)
           \/ GetblkEmpty(p) \/ GotReturn(p) \/ BreadaAhead(p) \/ BreadaXahead(p)
           \/ IowaitSleep(p) \/ IowaitRead(p) \/ BflushEnd(p) \/ Binval(p)
           \/ BdwaitSleep(p) \/ BdwaitEnd(p) \/ (p = Daemon /\ BdflushSleep)
    PROVE  AsyncCounted'
<1> USE DEF Goto, Leave, Sleep, bufVars, listVars, devVars, asyVars
<1>0. pc \in [Tasks -> PCs] /\ flags \in [Bufs -> SUBSET Flags] /\ basyncnt \in Int
  BY DEF IInv, TypeOK
<1>1. /\ pc[p] # "count" /\ pc'[p] # "count"
      /\ \A q \in Tasks \ {p} : pc'[q] = pc[q]
      /\ UNCHANGED <<ioq, basyncnt>>
  <2>1. CASE p \in Procs /\ Call(p)
    BY <1>0, <2>1 DEF Call, Bread, Getblk, Breada, Geteblk, Bdwait, Bflush, Close, Enter
  <2>2. CASE GetblkScan(p) \/ GetblkBusy(p) \/ GetblkHit(p) \/ GetblkEmpty(p)
    BY <1>0, <2>2 DEF GetblkScan, GetblkBusy, GetblkHit, GetblkEmpty
  <2>3. CASE GotReturn(p) \/ BreadaAhead(p) \/ BreadaXahead(p)
    BY <1>0, <2>3 DEF GotReturn, Got, HandOver, BreadaAhead, BreadaXahead
  <2>4. CASE IowaitSleep(p) \/ IowaitRead(p) \/ BflushEnd(p) \/ Binval(p)
    BY <1>0, <2>4 DEF IowaitSleep, IowaitRead, HandOver, BflushEnd, Binval
  <2>5. CASE BdwaitSleep(p) \/ BdwaitEnd(p) \/ (p = Daemon /\ BdflushSleep)
    BY <1>0, <2>5 DEF BdwaitSleep, BdwaitEnd, BdflushSleep
  <2> QED
    BY <2>1, <2>2, <2>3, <2>4, <2>5
<1>2. \A c \in Bufs : /\ "ASYNC" \in flags'[c] <=> "ASYNC" \in flags[c]
                      /\ "READ" \in flags'[c] <=> "READ" \in flags[c]
  <2>1. CASE GetblkBusy(p)
    BY <1>0, <2>1 DEF GetblkBusy
  <2>2. CASE GetblkHit(p)
    <3>1. PICK i \in DOMAIN free : free[i] = cand[p] /\ Notavail(i, flags[cand[p]])
      BY <2>2 DEF GetblkHit
    <3>2. flags' = [flags EXCEPT ![cand[p]] = flags[cand[p]] \cup {"BUSY"}]
      BY <3>1 DEF Notavail
    <3> QED
      BY <1>0, <3>2
  <2>3. CASE Binval(p)
    BY <1>0, <2>3 DEF Binval
  <2>4. CASE flags' = flags
    BY <2>4
  <2> QED
    BY <2>1, <2>2, <2>3, <2>4
    DEF Call, Bread, Getblk, Breada, Geteblk, Bdwait, Bflush, Close, Enter, GetblkScan,
        GetblkEmpty, GotReturn, BreadaAhead, BreadaXahead, IowaitSleep, IowaitRead, BflushEnd,
        BdwaitSleep, BdwaitEnd, BdflushSleep
<1>3. None \notin AsyncWrites /\ None \notin AsyncWrites'
  BY BufsAssumption DEF AsyncWrites, AsyncBufs, IInv, TypeOK
<1> QED
  BY <1>1, <1>2, <1>3, NoneCounted

\* Steps that take, read or release a buffer: no write begins or ends.
LEMMA OtherTransferStep ==
    ASSUME IInv, IInv', AsyncCounted, NEW p \in Tasks,
           \/ GetblkTake(p) \/ BreadStart(p) \/ BreadaStart(p) \/ AheadValid(p) \/ AheadStart(p)
           \/ IowaitWrite(p) \/ Brelse(p) \/ (\E v \in Values : Bdwrite(p, v) \/ Bwrite(p, v))
    PROVE  AsyncCounted'
<1> USE DEF Goto, Leave, Sleep, bufVars, listVars, devVars, asyVars
<1>0. /\ pc \in [Tasks -> PCs] /\ flags \in [Bufs -> SUBSET Flags] /\ basyncnt \in Int
      /\ op \in [Tasks -> Ops]
  BY DEF IInv, TypeOK
<1>1. ASSUME NEW b \in Bufs, b \notin ioq, NEW f, flags' = [flags EXCEPT ![b] = f],
             \/ ioq' = ioq
             \/ ioq' = ioq \cup {b} /\ ("READ" \in f \/ "ASYNC" \notin f),
             NEW l, l # "count", pc' = [pc EXCEPT ![p] = l],
             pc[p] # "count", UNCHANGED basyncnt
      PROVE  AsyncCounted'
  <2>1. \A c \in Bufs \ {b} : /\ c \in ioq' <=> c \in ioq
                              /\ flags'[c] = flags[c]
    BY <1>0, <1>1
  <2>2. b \notin AsyncWrites
    BY <1>1 DEF AsyncWrites, AsyncBufs
  <2>3. b \notin AsyncWrites'
    BY <1>0, <1>1 DEF AsyncWrites, AsyncBufs
  <2>4. \A q \in Tasks \ {p} : pc'[q] = pc[q]
    BY <1>0, <1>1
  <2>5. pc'[p] # "count"
    BY <1>0, <1>1
  <2> QED
    BY <1>1, <2>1, <2>2, <2>3, <2>4, <2>5, NoneCounted
<1>2. CASE GetblkTake(p)
  <2>1. 1 \in DOMAIN free /\ Notavail(1, NewFlags(p))
    BY <1>2, EmptyFacts DEF GetblkTake, IInv, TypeOK
  <2>2. /\ free[1] \in Bufs /\ free[1] \notin ioq
        /\ flags' = [flags EXCEPT ![free[1]] = NewFlags(p) \cup {"BUSY"}]
    BY <2>1, NotavailFacts
  <2> QED
    BY <1>1, <1>2, <2>2 DEF GetblkTake
<1>3. CASE BreadStart(p) \/ BreadaStart(p) \/ AheadStart(p)
  <2>1. cand[p] \in Bufs /\ cand[p] \notin ioq /\ pc[p] = "got"
    BY <1>3 DEF BreadStart, BreadaStart, AheadStart, Got, IInv, PointersOK
  <2>2. ASSUME NEW f, StartRead(p, f), NEW l, l # "count", pc' = [pc EXCEPT ![p] = l],
               UNCHANGED basyncnt
        PROVE  AsyncCounted'
    <3>1. flags' = [flags EXCEPT ![cand[p]] = flags[cand[p]] \cup {"READ"} \cup f]
      BY <2>2 DEF StartRead
    <3> QED
      BY <1>1, <2>1, <2>2, <3>1 DEF StartRead
  <2>3. ASSUME UNCHANGED <<flags, ioq, basyncnt>>, NEW l, l # "count", pc' = [pc EXCEPT ![p] = l]
        PROVE  AsyncCounted'
    <3>1. flags' = [flags EXCEPT ![cand[p]] = flags[cand[p]]]
      BY <1>0, <2>3
    <3> QED
      BY <1>1, <2>1, <2>3, <3>1
  <2> QED
    BY <1>3, <2>2, <2>3 DEF BreadStart, BreadaStart, AheadStart, AfterAhead
<1>4. CASE AheadValid(p)
  <2>1. cand[p] \in Bufs /\ cand[p] \notin ioq /\ pc[p] = "got"
    BY <1>4 DEF AheadValid, Got, IInv, PointersOK
  <2> QED
    BY <1>1, <1>4, <2>1 DEF AheadValid, Release, AfterAhead
<1>5. CASE IowaitWrite(p) \/ Brelse(p)
  <2>1. bp[p] \in Bufs /\ bp[p] \notin ioq /\ pc[p] \in {"hold", "iowait"} /\ GiveBack(p)
    BY <1>5 DEF IowaitWrite, Brelse, IInv, PointersOK, BuffersOK
  <2> QED
    BY <1>1, <2>1 DEF GiveBack, Release
<1>6. ASSUME NEW v \in Values, Bdwrite(p, v) \/ Bwrite(p, v) PROVE AsyncCounted'
  <2>1. bp[p] \in Bufs /\ bp[p] \notin ioq /\ pc[p] = "hold" /\ "ASYNC" \notin flags[bp[p]]
    BY <1>6 DEF Bdwrite, Bwrite, MayWrite, IInv, PointersOK, BuffersOK
  <2>2. CASE Bdwrite(p, v)
    BY <1>1, <2>1, <2>2 DEF Bdwrite, Release
  <2>3. CASE Bwrite(p, v)
    <3>1. flags' = [flags EXCEPT ![bp[p]] = WriteFlags(flags[bp[p]]) \cup {}]
      BY <2>3 DEF Bwrite, StartWrite
    <3>2. "ASYNC" \notin WriteFlags(flags[bp[p]]) \cup {}
      BY <2>1 DEF WriteFlags
    <3> QED
      BY <1>1, <2>1, <2>3, <3>1, <3>2 DEF Bwrite, StartWrite
  <2> QED
    BY <1>6, <2>2, <2>3
<1> QED
  BY <1>2, <1>3, <1>4, <1>5, <1>6
\* A write of the list begins: it is counted at once, or the process goes to count it.
LEMMA WriteOutCounted ==
    ASSUME IInv, IInv', AsyncCounted, NEW p \in Tasks,
           GetblkDirty(p) \/ BflushWrite(p) \/ (p = Daemon /\ BdflushWrite)
    PROVE  AsyncCounted'
<1> USE DEF Goto, asyVars
<1>0. pc \in [Tasks -> PCs] /\ flags \in [Bufs -> SUBSET Flags] /\ basyncnt \in Int
  BY DEF IInv, TypeOK
<1>1. PICK i \in DOMAIN free : WriteOut(i)
  <2>1. GetblkDirty(p) => 1 \in DOMAIN free
    BY EmptyFacts DEF GetblkDirty, IInv, TypeOK
  <2> QED
    BY <2>1 DEF GetblkDirty, BflushWrite, BdflushWrite
<1> DEFINE b == free[i]
<1>2. /\ b \in Bufs /\ b \notin ioq
      /\ flags' = [flags EXCEPT ![b] = WriteFlags(flags[b] \cup {"ASYNC"}) \cup {"BUSY"}]
      /\ ioq' = ioq \cup {b}
  BY <1>1, NotavailFacts DEF WriteOut
<1>3. /\ b \notin AsyncWrites /\ b \in AsyncWrites'
      /\ AsyncWrites' \ {b} = AsyncWrites \ {b}
  BY <1>0, <1>2 DEF AsyncWrites, AsyncBufs, WriteFlags
<1>4. /\ \A q \in Tasks \ {p} : pc'[q] = pc[q]
      /\ pc[p] # "count"
      /\ \/ pc'[p] = "count" /\ basyncnt' = basyncnt
         \/ pc'[p] # "count" /\ basyncnt' = basyncnt + 1
  BY <1>0 DEF GetblkDirty, BflushWrite, BdflushWrite
<1> HIDE DEF b
<1> QED
  BY <1>0, <1>3, <1>4, CountFollows

\* bawrite goes to count its write, or makes it synchronous.
LEMMA BawriteCounted ==
    ASSUME IInv, IInv', AsyncCounted, NEW p \in Tasks, NEW v \in Values, Bawrite(p, v)
    PROVE  AsyncCounted'
<1> USE DEF Goto, asyVars
<1>0. pc \in [Tasks -> PCs] /\ flags \in [Bufs -> SUBSET Flags] /\ basyncnt \in Int
  BY DEF IInv, TypeOK
<1> DEFINE b == bp[p]
<1>1. b \in Bufs /\ b \notin ioq /\ pc[p] = "hold" /\ "ASYNC" \notin flags[b]
  BY DEF Bawrite, MayWrite, IInv, PointersOK, BuffersOK
<1>2. ioq' = ioq \cup {b} /\ basyncnt' = basyncnt
  BY DEF Bawrite, StartWrite
<1>3. CASE Len(free) > AsyncMin
  <2>1. /\ flags' = [flags EXCEPT ![b] = WriteFlags(@) \cup {"ASYNC"}]
        /\ pc' = [pc EXCEPT ![p] = "count"]
    BY <1>3 DEF Bawrite, StartWrite
  <2>2. b \notin AsyncWrites /\ AsyncWrites' \ {b} = AsyncWrites \ {b}
    BY <1>0, <1>1, <1>2, <2>1 DEF AsyncWrites, AsyncBufs
  <2>3. b \in AsyncWrites'
    BY <1>0, <1>1, <1>2, <2>1 DEF AsyncWrites, AsyncBufs, WriteFlags
  <2>4. pc'[p] = "count" /\ \A q \in Tasks \ {p} : pc'[q] = pc[q]
    BY <1>0, <2>1
  <2> HIDE DEF b
  <2> QED
    BY <1>0, <1>1, <1>2, <2>2, <2>3, <2>4, CountFollows
<1>4. CASE ~(Len(free) > AsyncMin)
  <2>1. /\ flags' = [flags EXCEPT ![b] = WriteFlags(@) \cup {}]
        /\ pc' = [pc EXCEPT ![p] = "iowait"]
    BY <1>4 DEF Bawrite, StartWrite
  <2>2. b \notin AsyncWrites /\ AsyncWrites' \ {b} = AsyncWrites \ {b}
    BY <1>0, <1>1, <1>2, <2>1 DEF AsyncWrites, AsyncBufs
  <2>3. b \notin AsyncWrites'
    BY <1>0, <1>1, <1>2, <2>1 DEF AsyncWrites, AsyncBufs, WriteFlags
  <2>4. pc'[p] # "count" /\ \A q \in Tasks \ {p} : pc'[q] = pc[q]
    BY <1>0, <2>1
  <2> HIDE DEF b
  <2> QED
    BY <1>0, <1>1, <1>2, <2>2, <2>3, <2>4, CountFollows
<1> QED
  BY <1>3, <1>4

\* basyncnt++ at the end of bwrite.
LEMMA BwriteCountCounted ==
    ASSUME IInv, IInv', AsyncCounted, NEW p \in Tasks, BwriteCount(p)
    PROVE  AsyncCounted'
<1>0. pc \in [Tasks -> PCs] /\ basyncnt \in Int
  BY DEF IInv, TypeOK
<1>1. /\ pc[p] = "count" /\ pc'[p] # "count" /\ basyncnt' = basyncnt + 1
      /\ \A q \in Tasks \ {p} : pc'[q] = pc[q]
  BY <1>0 DEF BwriteCount, Leave, Goto
<1>2. AsyncWrites' = AsyncWrites
  BY DEF BwriteCount, bufVars, devVars, AsyncWrites, AsyncBufs
<1>3. AsyncWrites' \ {None} = AsyncWrites \ {None} /\ None \notin AsyncWrites
  BY <1>2, BufsAssumption DEF AsyncWrites, AsyncBufs, IInv, TypeOK
<1> QED
  BY <1>0, <1>1, <1>2, <1>3, CountFollows

\* iodone: it counts off the transfers it releases that were writes.
LEMMA IodoneCounted ==
    ASSUME IInv, IInv', AsyncCounted, NEW b \in Bufs, NEW ok \in BOOLEAN, Iodone(b, ok)
    PROVE  AsyncCounted'
<1>0. flags \in [Bufs -> SUBSET Flags] /\ basyncnt \in Int
  BY DEF IInv, TypeOK
<1>1. b \in ioq /\ ioq' = ioq \ {b} /\ pc' = pc
  BY DEF Iodone, Transfer
<1>2. \A c \in Bufs \ {b} : flags'[c] = flags[c]
  BY <1>0 DEF Iodone, IodoneAsync, IodoneSync, Release
<1>3. AsyncWrites' \ {b} = AsyncWrites \ {b} /\ b \notin AsyncWrites'
  BY <1>1, <1>2 DEF AsyncWrites, AsyncBufs, IInv, TypeOK
<1>4. b \in AsyncWrites <=> "ASYNC" \in flags[b] /\ "READ" \notin flags[b]
  BY <1>1 DEF AsyncWrites, AsyncBufs
<1>5. basyncnt' = IF "ASYNC" \in flags[b] /\ "READ" \notin flags[b] THEN basyncnt - 1
                                                                   ELSE basyncnt
  BY DEF Iodone, IodoneAsync, IodoneSync, DoneFlags, asyVars
<1>6. CASE Tasks = {}
  BY <1>6 DEF Tasks
<1>7. CASE Tasks # {}
  <2>1. PICK p \in Tasks : TRUE
    BY <1>7
  <2> QED
    BY <1>0, <1>1, <1>3, <1>4, <1>5, <2>1, CountFollows
<1> QED
  BY <1>6, <1>7

\* basyncnt is exact in every reachable state.
LEMMA CountedStep == IInv /\ IInv' /\ AsyncCounted /\ [Next]_vars => AsyncCounted'
<1> SUFFICES ASSUME IInv, IInv', AsyncCounted, [Next]_vars PROVE AsyncCounted'
  OBVIOUS
<1>1. ASSUME NEW p \in Procs, Call(p) \/ Use(p) \/ Inside(p) PROVE AsyncCounted'
  <2>0. p \in Tasks
    BY DEF Tasks
  <2>1. CASE Call(p)
    BY <2>0, <2>1, QuietStep
  <2>2. CASE Use(p)
    BY <2>0, <2>2, OtherTransferStep, BawriteCounted DEF Use
  <2>3. CASE Inside(p)
    BY <2>0, <2>3, QuietStep, OtherTransferStep, WriteOutCounted, BwriteCountCounted DEF Inside
  <2> QED
    BY <1>1, <2>1, <2>2, <2>3
<1>2. CASE Bdflush
  BY <1>2, QuietStep, WriteOutCounted DEF Bdflush, Tasks
<1>3. CASE Disk
  BY <1>3, IodoneCounted DEF Disk
<1>4. CASE Clock \/ UNCHANGED vars
  <2>1. UNCHANGED <<pc, ioq, flags, basyncnt>>
    BY <1>4 DEF Clock, vars, bufVars, devVars, asyVars, procVars
  <2> QED
    BY <2>1 DEF AsyncCounted, AsyncWrites, AsyncBufs
<1> QED
  BY <1>1, <1>2, <1>3, <1>4 DEF Next

\* No transfer is under way at the start.
LEMMA CountedInit == Init => AsyncCounted
<1> SUFFICES ASSUME Init PROVE AsyncCounted
  OBVIOUS
<1>1. AsyncWrites = {} /\ {p \in Tasks : pc[p] = "count"} = {}
  BY DEF Init, AsyncWrites, AsyncBufs
<1>2. Cardinality(AsyncWrites) = 0 /\ Cardinality({p \in Tasks : pc[p] = "count"}) = 0
  BY <1>1, FS_EmptySet
<1> QED
  BY <1>2 DEF AsyncCounted, Init

\* A process leaves bdwait only by BdwaitEnd, and then nothing is under way.
LEMMA BdwaitLeaves ==
    ASSUME IInv, AsyncCounted, Next, NEW p \in Procs, pc[p] = "bdwait", pc'[p] = "user"
    PROVE  AsyncWrites = {}
<1> USE DEF Goto, Leave, Sleep
<1>0. pc \in [Tasks -> PCs] /\ p \in Tasks /\ p # Daemon
  BY NamesAssumption DEF IInv, TypeOK, Tasks
<1>1. BdwaitEnd(p)
  <2>1. ASSUME NEW q \in Procs, Call(q) PROVE BdwaitEnd(p)
    BY <1>0, <2>1 DEF Call, Bread, Getblk, Breada, Geteblk, Bdwait, Bflush, Close, Enter
  <2>2. ASSUME NEW q \in Procs, Use(q) PROVE BdwaitEnd(p)
    BY <1>0, <2>2 DEF Use, Brelse, GiveBack, Bdwrite, Bwrite, Bawrite, MayWrite
  <2>3. ASSUME NEW q \in Procs, Inside(q) PROVE BdwaitEnd(p)
    <3>1. CASE GetblkScan(q) \/ GetblkBusy(q) \/ GetblkHit(q) \/ GetblkEmpty(q)
               \/ GetblkDirty(q) \/ GetblkTake(q) \/ BwriteCount(q)
      BY <1>0, <3>1 DEF GetblkScan, GetblkBusy, GetblkHit, GetblkEmpty, GetblkDirty,
                        GetblkTake, BwriteCount
    <3>2. CASE GotReturn(q) \/ BreadStart(q) \/ BreadaStart(q) \/ BreadaAhead(q)
               \/ BreadaXahead(q) \/ AheadValid(q) \/ AheadStart(q)
      BY <1>0, <3>2 DEF GotReturn, Got, HandOver, BreadStart, BreadaStart, BreadaAhead,
                        BreadaXahead, AheadValid, AheadStart, AfterAhead
    <3>3. CASE IowaitSleep(q) \/ IowaitRead(q) \/ IowaitWrite(q)
      BY <1>0, <3>3 DEF IowaitSleep, IowaitRead, IowaitWrite, HandOver, GiveBack
    <3>4. CASE BflushWrite(q) \/ BflushEnd(q) \/ Binval(q) \/ BdwaitSleep(q) \/ BdwaitEnd(q)
      BY <1>0, <3>4 DEF BflushWrite, BflushEnd, Binval, BdwaitSleep, BdwaitEnd
    <3> QED
      BY <2>3, <3>1, <3>2, <3>3, <3>4 DEF Inside
  <2>4. CASE Bdflush \/ Clock \/ Disk
    BY <1>0, <2>4 DEF Bdflush, BdflushWrite, BdflushSleep, Clock, Disk, Iodone
  <2> QED
    BY <2>1, <2>2, <2>3, <2>4 DEF Next
<1>2. {q \in Tasks : pc[q] = "count"} = {}
  BY <1>0, <1>1, NamesAssumption DEF BdwaitEnd, Running, IInv, NotPreempted, Mid, Tasks
<1>3. Cardinality(AsyncWrites) = 0
  <2>1. AsyncWrites \subseteq Bufs
    BY DEF AsyncWrites, AsyncBufs, IInv, TypeOK
  <2>2. Cardinality(AsyncWrites) \in Nat
    BY <2>1, BufsAssumption, FS_Subset, FS_CardinalityType
  <2>3. Cardinality({q \in Tasks : pc[q] = "count"}) = 0
    BY <1>2, FS_EmptySet
  <2> QED
    BY <1>1, <2>2, <2>3 DEF BdwaitEnd, AsyncCounted
<1>4. IsFiniteSet(AsyncWrites)
  <2>1. AsyncWrites \subseteq Bufs
    BY DEF AsyncWrites, AsyncBufs, IInv, TypeOK
  <2> QED
    BY <2>1, BufsAssumption, FS_Subset
<1> QED
  BY <1>3, <1>4, FS_EmptySet

\* IInv and the count together.
LEMMA CountInvariance == Spec => [](IInv /\ AsyncCounted)
<1>1. IInv /\ AsyncCounted /\ [Next]_vars => (IInv /\ AsyncCounted)'
  BY NextOK, CountedStep
<1> QED
  BY <1>1, InitOK, CountedInit, PTL DEF Spec

\* basyncnt is the number of asynchronous writes under way, but for one that a process has
\* started and is on its way to count.
THEOREM AsyncWritesCounted == Spec => []AsyncCounted
<1>1. IInv /\ AsyncCounted => AsyncCounted
  OBVIOUS
<1> QED
  BY <1>1, CountInvariance, PTL

\* bdwait returns only when no asynchronous write is under way.
THEOREM HaltWaitsForWrites == Spec => BdwaitDrains
<1> DEFINE Drained == \A p \in Procs : pc[p] = "bdwait" /\ pc'[p] = "user" => AsyncWrites = {}
<1>1. IInv /\ AsyncCounted /\ [Next]_vars => [Drained]_vars
  BY BdwaitLeaves
<1> QED
  BY <1>1, CountInvariance, PTL DEF Spec, BdwaitDrains

-----------------------------------------------------------------------------
(* The contents of the buffers *)

\* What a buffer of a device that stays open holds: nothing, until it is read or written;
\* from then on the contents of its block, which are on the disk, too, unless the buffer is
\* dirty or under way to the disk.
Sound(b) ==
    /\ "ERROR" \notin flags[b]
    /\ blk[b] \in Stable =>
          /\ "STALE" \notin flags[b]
          /\ Valid(b) => data[b] \in Values
          /\ ~Valid(b) => data[b] = Junk
          /\ "DONE" \in flags[b] /\ "DELWRI" \notin flags[b] => data[b] = disk[blk[b]]

\* bread hands out valid buffers; only devices that get closed are invalidated.
CallsSound ==
    \A p \in Tasks :
        /\ pc[p] = "hold" /\ op[p] = "bread" => "DONE" \in flags[bp[p]]
        /\ pc[p] = "bflush" /\ op[p] = "close" => dev[p] \in InvalDevs
        /\ pc[p] = "binval" => dev[p] \in InvalDevs

Contents == (\A b \in Bufs : Sound(b)) /\ CallsSound

-----------------------------------------------------------------------------
(* What the callers of the cache can see *)

\* b is as it was, for all that its contents are about.
Untouched(b) ==
    /\ blk'[b] = blk[b] /\ data'[b] = data[b]
    /\ b \in ioq' <=> b \in ioq
    /\ \A f \in {"DONE", "ERROR", "DELWRI", "READ"} : f \in flags'[b] <=> f \in flags[b]
    /\ blk[b] \in Stable => ("STALE" \in flags'[b] <=> "STALE" \in flags[b])

\* What q has in hand, and its close, are as they were.
Idle(q) == pc'[q] = pc[q] /\ op'[q] = op[q] /\ bp'[q] = bp[q] /\ dev'[q] = dev[q]

\* The current contents of a block are those of its buffer, and if it has none that is valid,
\* those on the disk.
SeenRight == \A k \in Stable :
                /\ \A b \in Bufs : Holds(b, k) => Current(k) = data[b]
                /\ (\A b \in Bufs : ~Holds(b, k)) => Current(k) = disk[k]

\* A block never has two valid buffers, so that it does not matter which one CHOOSE takes.
LEMMA Seen == IInv => SeenRight
<1> SUFFICES ASSUME IInv, NEW k \in Stable
             PROVE  /\ \A b \in Bufs : Holds(b, k) => Current(k) = data[b]
                    /\ (\A b \in Bufs : ~Holds(b, k)) => Current(k) = disk[k]
  BY DEF SeenRight
<1>1. \A b, c \in Bufs : Holds(b, k) /\ Holds(c, k) => b = c
  BY NamesAssumption DEF IInv, OneBufferPerBlock, Holds, Stable
<1>2. ASSUME NEW b \in Bufs, Holds(b, k) PROVE Current(k) = data[b]
  <2> DEFINE c == CHOOSE c \in Bufs : Holds(c, k)
  <2>1. c \in Bufs /\ Holds(c, k)
    BY <1>2
  <2>2. Current(k) = data[c]
    BY <1>2 DEF Current
  <2> HIDE DEF c
  <2> QED
    BY <1>1, <1>2, <2>1, <2>2
<1> QED
  BY <1>2 DEF Current

\* The same after a step.
LEMMA SeenNext == IInv' => SeenRight'
BY Seen, PTL

\* A step that touches no buffer but b keeps the contents of every block, when it does not
\* lose what b held nor put anything new there.
LEMMA CurrentKept ==
    ASSUME IInv, IInv', NEW b, \A c \in Bufs \ {b} : Untouched(c),
           NEW k \in Stable, disk'[k] = disk[k],
           b \in Bufs => /\ Holds(b, k)' => data'[b] = Current(k)
                         /\ Holds(b, k) /\ ~Holds(b, k)' => data[b] = disk[k]
    PROVE  Current(k)' = Current(k)
<1>1. SeenRight
  BY Seen
<1>2. SeenRight'
  BY SeenNext
<1>3. \A c \in Bufs \ {b} : Holds(c, k)' <=> Holds(c, k)
  BY DEF Untouched, Holds, Valid
<1>4. CASE \E c \in Bufs \ {b} : Holds(c, k)
  BY <1>1, <1>2, <1>3, <1>4 DEF Untouched, SeenRight
<1>5. CASE ~\E c \in Bufs \ {b} : Holds(c, k)
  BY <1>1, <1>2, <1>3, <1>5 DEF SeenRight
<1> QED
  BY <1>4, <1>5

\* What the other buffers hold is as good as before.
LEMMA SoundKept ==
    ASSUME IInv, Contents, NEW c \in Bufs, Untouched(c),
           blk[c] \in Stable => disk'[blk[c]] = disk[blk[c]]
    PROVE  Sound(c)'
BY DEF Contents, Sound, Untouched, Valid

\* What q has in hand stays, unless it is the buffer b.
LEMMA HandKept ==
    ASSUME IInv, NEW b, \A c \in Bufs \ {b} : blk'[c] = blk[c] /\ data'[c] = data[c],
           NEW q \in Procs, Idle(q), pc[q] = "hold" => bp[q] # b
    PROVE  InHand(q)' = InHand(q)
<1>1. pc[q] = "hold" => bp[q] \in Bufs
  BY DEF IInv, PointersOK, Tasks
<1> QED
  BY <1>1 DEF InHand, Idle

\* What the caller of the cache may ask of p after a step.
CallSound(p) ==
    /\ pc[p] = "hold" /\ op[p] = "bread" => "DONE" \in flags[bp[p]]
    /\ pc[p] = "bflush" /\ op[p] = "close" => dev[p] \in InvalDevs
    /\ pc[p] = "binval" => dev[p] \in InvalDevs

\* A step of p that touches no buffer but b, which is nobody else's.
Touches(p, b) ==
    /\ \A c \in Bufs \ {b} : Untouched(c)
    /\ \A q \in Tasks \ {p} : Idle(q) /\ (pc[q] = "hold" => bp[q] # b)

LEMMA ContentsKept ==
    ASSUME IInv, Contents, NEW p, NEW b, Touches(p, b),
           \A c \in Bufs \ {b} : blk[c] \in Stable => disk'[blk[c]] = disk[blk[c]],
           b \in Bufs => Sound(b)', p \in Tasks => CallSound(p)'
    PROVE  Contents'
<1>1. \A c \in Bufs : Sound(c)'
  <2>1. ASSUME NEW c \in Bufs \ {b} PROVE Sound(c)'
    BY SoundKept DEF Touches
  <2> QED
    BY <2>1
<1>2. ASSUME NEW q \in Tasks \ {p} PROVE CallSound(q)'
  <2>1. pc[q] = "hold" => bp[q] \in Bufs \ {b}
    BY DEF IInv, PointersOK, Touches
  <2>2. CallSound(q) /\ Idle(q)
    BY DEF Contents, CallsSound, CallSound, Touches
  <2> QED
    BY <2>1, <2>2 DEF CallSound, Idle, Touches, Untouched
<1> QED
  BY <1>1, <1>2 DEF Contents, CallsSound, CallSound

\* What the others have in hand stays.
LEMMA OthersHands ==
    ASSUME IInv, NEW p, NEW b, Touches(p, b), NEW q \in Procs \ {p}
    PROVE  InHand(q)' = InHand(q)
<1>1. Idle(q) /\ (pc[q] = "hold" => bp[q] # b)
  BY DEF Touches, Tasks
<1>2. \A c \in Bufs \ {b} : blk'[c] = blk[c] /\ data'[c] = data[c]
  BY DEF Touches, Untouched
<1> QED
  BY <1>1, <1>2, HandKept

\* The step is none that the callers of the cache notice.
Stutter == Contents' /\ UNCHANGED Store!vars

\* A step inside the cache, of p or of the disk, that keeps the contents of the blocks.
LEMMA Inner ==
    ASSUME IInv, Contents', NEW p, NEW b, Touches(p, b),
           \A k \in Stable : Current(k)' = Current(k),
           p \in Procs => pc[p] # "hold" /\ pc'[p] # "hold"
    PROVE  Stutter
<1>1. ASSUME NEW q \in Procs PROVE InHand(q)' = InHand(q)
  <2>1. CASE q = p
    BY <2>1 DEF InHand
  <2>2. CASE q # p
    BY <2>2, OthersHands
  <2> QED
    BY <2>1, <2>2
<1>2. Stable' = Stable
  BY DEF Stable
<1> QED
  BY <1>1, <1>2 DEF Stutter, Store!vars

\* The same for a step that keeps what b held.
LEMMA Unseen ==
    ASSUME IInv, IInv', Contents, NEW p, NEW b, Touches(p, b), disk' = disk,
           b \in Bufs =>
               /\ Sound(b)'
               /\ \A k \in Stable : /\ Holds(b, k)' => data'[b] = Current(k)
                                    /\ Holds(b, k) /\ ~Holds(b, k)' => data[b] = disk[k],
           p \in Tasks => CallSound(p)' /\ pc[p] # "hold" /\ pc'[p] # "hold"
    PROVE  Stutter
<1>1. Contents'
  BY ContentsKept
<1>2. \A k \in Stable : Current(k)' = Current(k)
  BY CurrentKept DEF Touches
<1> QED
  BY <1>1, <1>2, Inner DEF Tasks

\* A step that leaves the contents of all buffers alone.
LEMMA UnseenQuiet ==
    ASSUME IInv, IInv', Contents, NEW p, \A c \in Bufs : Untouched(c),
           \A q \in Tasks \ {p} : Idle(q), disk' = disk,
           p \in Tasks => CallSound(p)' /\ pc[p] # "hold" /\ pc'[p] # "hold"
    PROVE  Stutter
<1>1. None \notin Bufs
  BY BufsAssumption
<1>2. Touches(p, None)
  BY <1>1 DEF Touches, IInv, PointersOK
<1> QED
  BY <1>1, <1>2, Unseen

-----------------------------------------------------------------------------
(* Steps the callers do not notice *)

\* Calls, the search for a buffer, sleeping, the ends of bflush, binval and bdwait.
LEMMA QuietUnseen ==
    ASSUME IInv, IInv', Contents, NEW p \in Tasks,
           \/ (p \in Procs /\ Call(p)) \/ GetblkScan(p) \/ GetblkBusy(p) \/ GetblkHit(p)
           \/ GetblkEmpty(p) \/ BwriteCount(p) \/ BreadaAhead(p) \/ BreadaXahead(p)
           \/ IowaitSleep(p) \/ BflushEnd(p) \/ Binval(p)
           \/ BdwaitSleep(p) \/ BdwaitEnd(p) \/ (p = Daemon /\ BdflushSleep)
    PROVE  Stutter
<1> USE DEF Goto, Leave, Sleep, bufVars, listVars, devVars, asyVars, argVars
<1>0. /\ pc \in [Tasks -> PCs] /\ op \in [Tasks -> Ops] /\ dev \in [Tasks -> Devs \cup {None}]
      /\ flags \in [Bufs -> SUBSET Flags] /\ CallSound(p)
  BY DEF IInv, TypeOK, Contents, CallsSound, CallSound
<1>1. /\ pc[p] # "hold" /\ pc'[p] # "hold"
      /\ \A q \in Tasks \ {p} : Idle(q)
      /\ UNCHANGED <<blk, data, ioq, disk>>
  <2>1. CASE p \in Procs /\ Call(p)
    BY <1>0, <2>1 DEF Call, Bread, Getblk, Breada, Geteblk, Bdwait, Bflush, Close, Enter, Idle
  <2>2. CASE GetblkScan(p) \/ GetblkBusy(p) \/ GetblkHit(p) \/ GetblkEmpty(p) \/ BwriteCount(p)
    BY <1>0, <2>2 DEF GetblkScan, GetblkBusy, GetblkHit, GetblkEmpty, BwriteCount, Idle
  <2>3. CASE BreadaAhead(p) \/ BreadaXahead(p) \/ IowaitSleep(p)
    BY <1>0, <2>3 DEF BreadaAhead, BreadaXahead, IowaitSleep, Idle
  <2>4. CASE BflushEnd(p) \/ Binval(p)
    BY <1>0, <2>4 DEF BflushEnd, Binval, Idle
  <2>5. CASE BdwaitSleep(p) \/ BdwaitEnd(p) \/ (p = Daemon /\ BdflushSleep)
    BY <1>0, <2>5 DEF BdwaitSleep, BdwaitEnd, BdflushSleep, Idle
  <2> QED
    BY <2>1, <2>2, <2>3, <2>4, <2>5
<1>2. \A c \in Bufs : Untouched(c)
  <2>1. CASE GetblkBusy(p)
    BY <1>0, <1>1, <2>1 DEF GetblkBusy, Untouched
  <2>2. CASE GetblkHit(p)
    <3>1. flags' = [flags EXCEPT ![cand[p]] = flags[cand[p]] \cup {"BUSY"}]
      BY <2>2 DEF GetblkHit, Notavail
    <3> QED
      BY <1>0, <1>1, <3>1 DEF Untouched
  <2>3. CASE Binval(p)
    <3>1. dev[p] \in InvalDevs
      BY <1>0, <2>3 DEF Binval, CallSound
    <3>2. \A c \in Bufs : blk[c] \in Stable => ~OnDev(blk[c], dev[p])
      BY <3>1 DEF OnDev, Stable
    <3>3. \A c \in Bufs : flags'[c] = IF OnDev(blk[c], dev[p])
                                        THEN flags[c] \cup {"STALE", "AGE"} ELSE flags[c]
      BY <2>3 DEF Binval
    <3> QED
      BY <1>1, <3>2, <3>3 DEF Untouched
  <2>4. CASE flags' = flags
    BY <1>1, <2>4 DEF Untouched
  <2> QED
    BY <2>1, <2>2, <2>3, <2>4
    DEF Call, Bread, Getblk, Breada, Geteblk, Bdwait, Bflush, Close, Enter, GetblkScan,
        GetblkEmpty, BwriteCount, BreadaAhead, BreadaXahead, IowaitSleep, BflushEnd,
        BdwaitSleep, BdwaitEnd, BdflushSleep
<1>3. CallSound(p)'
  <2>1. CASE p \in Procs /\ Call(p)
    BY <1>0, <2>1
    DEF Call, Bread, Getblk, Breada, Geteblk, Bdwait, Bflush, Close, Enter, CallSound
  <2>2. CASE BflushEnd(p)
    BY <1>0, <2>2 DEF BflushEnd, CallSound
  <2>3. CASE pc'[p] \notin {"hold", "bflush", "binval"}
    BY <2>3 DEF CallSound
  <2> QED
    BY <1>0, <2>1, <2>2, <2>3
    DEF GetblkScan, GetblkBusy, GetblkHit, GetblkEmpty, BwriteCount, BreadaAhead, BreadaXahead,
        IowaitSleep, Binval, BdwaitSleep, BdwaitEnd, BdflushSleep
<1> QED
  BY <1>1, <1>2, <1>3, UnseenQuiet

\* getblk gives a buffer of the list another block: it was clean.
LEMMA TakeUnseen ==
    ASSUME IInv, IInv', Contents, NEW p \in Tasks, GetblkTake(p)
    PROVE  Stutter
<1> PICK b : b = free[1]
  OBVIOUS
<1>0. /\ pc \in [Tasks -> PCs] /\ op \in [Tasks -> Ops]
      /\ flags \in [Bufs -> SUBSET Flags] /\ blk \in [Bufs -> Blocks \cup {None}]
      /\ data \in [Bufs -> Values \cup {Junk}]
  BY DEF IInv, TypeOK
<1>1. 1 \in DOMAIN free /\ Notavail(1, NewFlags(p))
  BY EmptyFacts DEF GetblkTake, IInv, TypeOK
<1>2. /\ b \in Bufs /\ b \notin ioq /\ "DELWRI" \notin flags[b]
      /\ \A q \in Tasks : ~Owns(q, b)
      /\ flags' = [flags EXCEPT ![b] = NewFlags(p) \cup {"BUSY"}]
  BY <1>1, NotavailFacts DEF GetblkTake
<1>3. /\ \A c \in Bufs \ {b} : flags'[c] = flags[c] /\ blk'[c] = blk[c] /\ data'[c] = data[c]
      /\ UNCHANGED <<ioq, disk>>
      /\ data'[b] = Junk
      /\ \A f \in {"DONE", "ERROR", "STALE", "DELWRI"} : f \notin flags'[b]
      /\ pc[p] \in {"miss", "etake"} /\ pc'[p] = "got"
      /\ \A q \in Tasks \ {p} : Idle(q)
  BY <1>0, <1>2 DEF GetblkTake, NewFlags, Goto, Idle, devVars, argVars
<1>4. Touches(p, b)
  BY <1>2, <1>3 DEF Touches, Untouched, Owns
<1>5. Sound(b)'
  BY <1>2, <1>3 DEF Sound, Valid
<1>6. ASSUME NEW k \in Stable, Holds(b, k) PROVE data[b] = disk[k]
  <2>1. Sound(b)
    BY <1>2 DEF Contents
  <2> QED
    BY <1>2, <1>6, <2>1 DEF Holds, Valid, Sound
<1>7. \A k : ~Holds(b, k)'
  BY <1>2, <1>3 DEF Holds, Valid
<1>8. CallSound(p)'
  BY <1>3 DEF CallSound
<1> QED
  BY <1>3, <1>4, <1>5, <1>6, <1>7, <1>8, Unseen

\* getblk, bflush and bdflush start writing a dirty buffer.
LEMMA WriteOutUnseen ==
    ASSUME IInv, IInv', Contents, NEW p \in Tasks,
           GetblkDirty(p) \/ BflushWrite(p) \/ (p = Daemon /\ BdflushWrite)
    PROVE  Stutter
<1>0. /\ pc \in [Tasks -> PCs] /\ op \in [Tasks -> Ops] /\ flags \in [Bufs -> SUBSET Flags]
  BY DEF IInv, TypeOK
<1>1. PICK i \in DOMAIN free : WriteOut(i) /\ "DELWRI" \in flags[free[i]]
  <2>1. GetblkDirty(p) => 1 \in DOMAIN free
    BY EmptyFacts DEF GetblkDirty, IInv, TypeOK
  <2> QED
    BY <2>1 DEF GetblkDirty, BflushWrite, BdflushWrite, Flushable
<1> PICK b : b = free[i]
  OBVIOUS
<1>2. /\ b \in Bufs /\ b \notin ioq
      /\ \A q \in Tasks : ~Owns(q, b)
      /\ flags' = [flags EXCEPT ![b] = WriteFlags(flags[b] \cup {"ASYNC"}) \cup {"BUSY"}]
      /\ ioq' = ioq \cup {b} /\ UNCHANGED <<blk, data, disk>>
  BY <1>1, NotavailFacts DEF WriteOut
<1>3. /\ \A c \in Bufs \ {b} : flags'[c] = flags[c] /\ (c \in ioq' <=> c \in ioq)
      /\ \A f \in {"DONE", "ERROR", "DELWRI", "READ"} : f \notin flags'[b]
      /\ "STALE" \in flags'[b] <=> "STALE" \in flags[b]
  BY <1>0, <1>2 DEF WriteFlags
<1>4. /\ pc[p] # "hold" /\ pc'[p] # "hold" /\ CallSound(p)'
      /\ \A q \in Tasks \ {p} : Idle(q)
  <2>1. CallSound(p)
    BY DEF Contents, CallsSound, CallSound
  <2> QED
    BY <1>0, <2>1 DEF GetblkDirty, BflushWrite, BdflushWrite, Goto, Idle, argVars, CallSound
<1>5. Touches(p, b)
  BY <1>2, <1>3, <1>4 DEF Touches, Untouched, Owns
<1>6. Sound(b) /\ "DONE" \in flags[b]
  BY <1>1, <1>2 DEF Contents, IInv, BuffersOK
<1>7. Sound(b)'
  BY <1>2, <1>3, <1>6 DEF Sound, Valid
<1>8. ASSUME NEW k \in Stable PROVE /\ Holds(b, k)' <=> Holds(b, k)
                                    /\ Holds(b, k) => data'[b] = Current(k)
  BY <1>2, <1>3, <1>6, Seen DEF Holds, Valid, SeenRight
<1> QED
  BY <1>2, <1>4, <1>5, <1>7, <1>8, Unseen

\* bread, breada and the read-ahead start reading into a buffer that is not valid.
LEMMA StartReadUnseen ==
    ASSUME IInv, IInv', Contents, NEW p \in Tasks, pc[p] = "got",
           "DONE" \notin flags[cand[p]], NEW f \in SUBSET {"ASYNC"}, StartRead(p, f),
           \A q \in Tasks \ {p} : Idle(q), pc'[p] \in {"iowait", "ahead", "xahead", "scan"}
    PROVE  Stutter
<1> PICK b : b = cand[p]
  OBVIOUS
<1>1. /\ b \in Bufs /\ b \notin ioq /\ "DONE" \notin flags[b]
      /\ flags \in [Bufs -> SUBSET Flags]
      /\ \A q \in Tasks \ {p} : ~Owns(q, b)
  BY DEF IInv, TypeOK, PointersOK, OneOwner, Owns
<1>2. /\ \A c \in Bufs \ {b} : flags'[c] = flags[c] /\ (c \in ioq' <=> c \in ioq)
      /\ UNCHANGED <<blk, data, disk>>
      /\ "READ" \in flags'[b]
      /\ \A g \in {"DONE", "ERROR", "STALE", "DELWRI"} : g \in flags'[b] <=> g \in flags[b]
  BY <1>1 DEF StartRead
<1>3. Touches(p, b)
  BY <1>1, <1>2 DEF Touches, Untouched, Owns
<1>4. ~Valid(b) /\ ~Valid(b)' /\ Sound(b)
  BY <1>1, <1>2 DEF Valid, Contents
<1>5. Sound(b)'
  BY <1>1, <1>2, <1>4 DEF Sound
<1>6. \A k : ~Holds(b, k) /\ ~Holds(b, k)'
  BY <1>4 DEF Holds
<1>7. CallSound(p)'
  BY DEF CallSound
<1> QED
  BY <1>2, <1>3, <1>5, <1>6, <1>7, Unseen

\* Releasing a buffer without an error leaves its contents alone (brelse).
LEMMA ReleaseUntouched ==
    ASSUME IInv, Contents, NEW b \in Bufs, Release(b, flags[b]), UNCHANGED <<blk, data, ioq>>
    PROVE  \A c \in Bufs : Untouched(c)
<1>1. "ERROR" \notin flags[b] /\ flags \in [Bufs -> SUBSET Flags]
  BY DEF Contents, Sound, IInv, TypeOK
<1>2. flags'[b] = flags[b] \ {"WANTED", "BUSY", "ASYNC", "AGE"}
  BY <1>1 DEF Release, RelFlags
<1>3. \A c \in Bufs \ {b} : flags'[c] = flags[c]
  BY <1>1 DEF Release
<1> QED
  BY <1>2, <1>3 DEF Untouched

\* bread and breada start a read, breada releases what it read ahead, bwrite its buffer.
LEMMA ReadUnseen ==
    ASSUME IInv, IInv', Contents, NEW p \in Tasks,
           BreadStart(p) \/ BreadaStart(p) \/ AheadStart(p) \/ AheadValid(p) \/ IowaitWrite(p)
    PROVE  Stutter
<1> USE DEF Got, Goto, Leave, AfterAhead
<1>0. pc \in [Tasks -> PCs] /\ op \in [Tasks -> Ops] /\ bp \in [Tasks -> Bufs \cup {None}]
  BY DEF IInv, TypeOK
<1>1. CASE BreadStart(p)
  BY <1>0, <1>1, StartReadUnseen DEF BreadStart, Idle, argVars
<1>2. CASE BreadaStart(p)
  <2>1. /\ pc[p] = "got" /\ pc'[p] = "ahead"
        /\ \A q \in Tasks \ {p} : Idle(q)
    BY <1>0, <1>2 DEF BreadaStart, Idle, argVars
  <2>2. CASE "DONE" \in flags[cand[p]]
    <3>1. \A c \in Bufs : Untouched(c)
      BY <1>2, <2>2 DEF BreadaStart, Untouched, bufVars, devVars
    <3>2. disk' = disk /\ CallSound(p)'
      BY <1>2, <2>1, <2>2 DEF BreadaStart, devVars, CallSound
    <3> QED
      BY <2>1, <3>1, <3>2, UnseenQuiet
  <2>3. CASE "DONE" \notin flags[cand[p]]
    <3>1. StartRead(p, {})
      BY <1>2, <2>3 DEF BreadaStart
    <3> QED
      BY <2>1, <2>3, <3>1, StartReadUnseen
  <2> QED
    BY <2>2, <2>3
<1>3. CASE AheadStart(p)
  <2>1. pc[p] = "got" /\ pc'[p] \in {"xahead", "scan"} /\ StartRead(p, {"ASYNC"})
    BY <1>0, <1>3 DEF AheadStart
  <2>2. \A q \in Tasks \ {p} : Idle(q)
    BY <1>0, <1>3 DEF AheadStart, Idle, argVars
  <2> QED
    BY <1>3, <2>1, <2>2, StartReadUnseen DEF AheadStart
<1>4. CASE AheadValid(p)
  <2>1. cand[p] \in Bufs /\ \A c \in Bufs : Untouched(c)
    BY <1>4, ReleaseUntouched DEF AheadValid, devVars, IInv, PointersOK
  <2>2. pc[p] = "got" /\ pc'[p] \in {"xahead", "scan"} /\ disk' = disk
    BY <1>0, <1>4 DEF AheadValid, devVars
  <2>3. \A q \in Tasks \ {p} : Idle(q)
    BY <1>0, <1>4 DEF AheadValid, Idle, argVars
  <2> QED
    BY <2>1, <2>2, <2>3, UnseenQuiet DEF CallSound
<1>5. CASE IowaitWrite(p)
  <2>1. \A c \in Bufs : Untouched(c)
    BY <1>5, ReleaseUntouched DEF IowaitWrite, GiveBack, devVars, IInv, PointersOK
  <2>2. pc[p] = "iowait" /\ pc'[p] = "user" /\ disk' = disk
    BY <1>0, <1>5 DEF IowaitWrite, GiveBack, devVars
  <2>3. \A q \in Tasks \ {p} : Idle(q)
    BY <1>0, <1>5 DEF IowaitWrite, GiveBack, Idle, argVars
  <2> QED
    BY <2>1, <2>2, <2>3, UnseenQuiet DEF CallSound
<1> QED
  BY <1>1, <1>2, <1>3, <1>4, <1>5

\* The clock interrupt, and nothing at all.
LEMMA ClockUnseen ==
    ASSUME IInv, IInv', Contents, Clock \/ UNCHANGED vars
    PROVE  Stutter
<1>1. UNCHANGED <<blk, flags, data, ioq, disk, pc, op, bp, dev>>
  BY DEF Clock, vars, bufVars, devVars, argVars, procVars
<1>2. (\A c \in Bufs : Untouched(c)) /\ (\A q \in Tasks : Idle(q))
  BY <1>1 DEF Untouched, Idle
<1> QED
  BY <1>1, <1>2, UnseenQuiet, NamesAssumption
-----------------------------------------------------------------------------
(* The disk interrupt *)

\* What the end of a transfer that does not fail leaves of the buffers.
LEMMA IodoneFacts ==
    ASSUME IInv, Contents, MaxErrors = 0, NEW b \in Bufs, NEW ok \in BOOLEAN, Iodone(b, ok)
    PROVE  /\ b \in ioq /\ b \notin ioq' /\ blk'[b] = blk[b]
           /\ \A q \in Tasks : Idle(q) /\ (pc[q] = "hold" => bp[q] # b)
           /\ \A c \in Bufs \ {b} : Untouched(c)
           /\ "DONE" \in flags'[b] /\ "ERROR" \notin flags'[b]
           /\ "STALE" \in flags'[b] <=> "STALE" \in flags[b]
           /\ Transfer(b, TRUE)
<1>1. /\ flags \in [Bufs -> SUBSET Flags] /\ errs \in Nat
      /\ data \in [Bufs -> Values \cup {Junk}]
      /\ "ERROR" \notin flags[b]
  BY DEF IInv, TypeOK, Contents, Sound
<1>2. /\ b \in ioq /\ Transfer(b, TRUE) /\ UNCHANGED <<blk, cur, pc, op, argVars, cand, bp>>
      /\ IodoneAsync(b, TRUE) \/ IodoneSync(b, TRUE)
  <2>1. ~(errs < MaxErrors)
    BY <1>1
  <2>2. ok = TRUE
    BY <2>1, Zenon DEF Iodone
  <2> QED
    BY <2>2, Zenon DEF Iodone
<1>3. /\ flags'[b] = RelFlags(DoneFlags(b, TRUE)) \/ flags'[b] = DoneFlags(b, TRUE) \ {"WANTED"}
      /\ \A c \in Bufs \ {b} : flags'[c] = flags[c]
  BY <1>1, <1>2 DEF IodoneAsync, IodoneSync, Release
<1>4. /\ "DONE" \in flags'[b] /\ "ERROR" \notin flags'[b]
      /\ "STALE" \in flags'[b] <=> "STALE" \in flags[b]
  BY <1>1, <1>3 DEF RelFlags, DoneFlags
<1>5. /\ ioq' = ioq \ {b}
      /\ \A c \in Bufs \ {b} : data'[c] = data[c]
  BY <1>1, <1>2 DEF Transfer
<1>6. \A q \in Tasks : Idle(q) /\ (pc[q] = "hold" => bp[q] # b)
  BY <1>2 DEF Idle, argVars, IInv, PointersOK
<1> QED
  BY <1>2, <1>3, <1>4, <1>5, <1>6 DEF Untouched

\* The end of a read gives the buffer what is on the disk, the end of a write the disk what is
\* in the buffer: the contents of the block are what they were.
LEMMA IodoneUnseen ==
    ASSUME IInv, IInv', Contents, MaxErrors = 0, NEW b \in Bufs, NEW ok \in BOOLEAN, Iodone(b, ok)
    PROVE  Stutter
<1>0. /\ flags \in [Bufs -> SUBSET Flags] /\ data \in [Bufs -> Values \cup {Junk}]
      /\ disk \in [Blocks -> Values] /\ blk[b] \in Blocks /\ None \notin Tasks
      /\ "DONE" \notin flags[b] /\ Sound(b)
      /\ "READ" \notin flags[b] => data[b] \in Values
  BY IodoneFacts, NamesAssumption, ZenonT(30) DEF IInv, TypeOK, BuffersOK, Contents
<1>1. /\ b \in ioq /\ b \notin ioq' /\ blk'[b] = blk[b]
      /\ \A c \in Bufs \ {b} : Untouched(c)
      /\ "DONE" \in flags'[b] /\ "ERROR" \notin flags'[b]
      /\ "STALE" \in flags'[b] <=> "STALE" \in flags[b]
      /\ Transfer(b, TRUE)
  BY IodoneFacts
<1>2. Touches(None, b)
  BY <1>0, IodoneFacts DEF Touches
<1>3. CASE "READ" \in flags[b]
  <2>1. disk' = disk /\ data'[b] = disk[blk[b]]
    BY <1>0, <1>1, <1>3 DEF Transfer
  <2>2. Sound(b)'
    BY <1>0, <1>1, <2>1 DEF Sound, Valid
  <2>3. ASSUME NEW k \in Stable, Holds(b, k)' PROVE data'[b] = Current(k)
    <3>1. blk[b] = k /\ "STALE" \notin flags[b] /\ ~Valid(b)
      BY <1>0, <1>1, <1>3, <2>3 DEF Holds, Valid
    <3>2. k # None
      BY NamesAssumption DEF Stable
    <3>3. \A c \in Bufs : ~Holds(c, k)
      BY <3>1, <3>2 DEF Holds, IInv, OneBufferPerBlock
    <3> QED
      BY <2>1, <3>1, <3>3, Seen DEF SeenRight
  <2>4. \A k \in Stable : ~Holds(b, k)
    BY <1>0, <1>3 DEF Holds, Valid
  <2> QED
    BY <1>0, <1>2, <2>1, <2>2, <2>3, <2>4, Unseen
<1>4. CASE "READ" \notin flags[b]
  <2>1. data' = data /\ disk' = [disk EXCEPT ![blk[b]] = data[b]]
    BY <1>0, <1>1, <1>4 DEF Transfer
  <2>2. Sound(b)'
    BY <1>0, <1>1, <1>4, <2>1 DEF Sound, Valid
  <2>3. ASSUME NEW c \in Bufs \ {b}, blk[c] \in Stable PROVE disk'[blk[c]] = disk[blk[c]]
    <3>1. blk[c] # blk[b]
      BY <1>0, <2>3, NamesAssumption
      DEF Contents, Sound, IInv, OneBufferPerBlock, Stable
    <3> QED
      BY <1>0, <2>1, <3>1
  <2>4. Contents'
    BY <1>0, <1>2, <2>2, <2>3, ContentsKept
  <2>5. ASSUME NEW k \in Stable PROVE Current(k)' = Current(k)
    <3>1. CASE k = blk[b]
      <4>1. Holds(b, k) /\ Holds(b, k)'
        BY <1>0, <1>1, <1>4, <2>5, <3>1 DEF Holds, Valid, Sound
      <4> QED
        BY <2>1, <2>5, <4>1, Seen, SeenNext DEF SeenRight
    <3>2. CASE k # blk[b]
      <4>1. ~Holds(b, k) /\ ~Holds(b, k)' /\ disk'[k] = disk[k]
        BY <1>0, <1>1, <2>1, <2>5, <3>2 DEF Holds, Stable
      <4> QED
        BY <1>1, <2>5, <4>1, CurrentKept
    <3> QED
      BY <3>1, <3>2
  <2> QED
    BY <1>0, <1>2, <2>4, <2>5, Inner DEF Tasks
<1> QED
  BY <1>3, <1>4

-----------------------------------------------------------------------------
(* Steps the callers notice *)

\* A call that returns a buffer of its own hands out the block, as a read its contents.
LEMMA HandOverSeen ==
    ASSUME IInv, IInv', Contents, NEW p \in Procs, NEW b \in Bufs, HandOver(p, b),
           UNCHANGED <<bufVars, devVars, op, dev>>, pc[p] # "hold", b \notin ioq,
           \A q \in Procs \ {p} : ~Owns(q, b), op[p] = "bread" => "DONE" \in flags[b]
    PROVE  Contents' /\ [Store!Next]_(Store!vars)
<1>0. /\ pc \in [Tasks -> PCs] /\ bp \in [Tasks -> Bufs \cup {None}] /\ p \in Tasks
      /\ blk \in [Bufs -> Blocks \cup {None}]
      /\ None \notin Bufs /\ Stable' = Stable
  BY BufsAssumption DEF IInv, TypeOK, Tasks, Stable
<1>1. /\ UNCHANGED <<blk, flags, data, ioq, disk>>
      /\ pc'[p] = "hold" /\ bp'[p] = b /\ op'[p] = op[p]
      /\ \A q \in Tasks \ {p} : Idle(q)
  BY <1>0 DEF HandOver, Leave, Idle, bufVars, devVars
<1>2. (\A c \in Bufs : Untouched(c)) /\ Touches(p, None)
  BY <1>0, <1>1 DEF Untouched, Touches, IInv, PointersOK
<1>3. Contents'
  <2>1. CallSound(p)'
    BY <1>1 DEF CallSound
  <2> QED
    BY <1>0, <1>1, <1>2, <2>1, ContentsKept
<1>4. ASSUME NEW k \in Stable PROVE Current(k)' = Current(k)
  BY <1>0, <1>1, <1>2, <1>4, CurrentKept
<1>5. ASSUME NEW q \in Procs \ {p} PROVE InHand(q)' = InHand(q)
  BY <1>2, OthersHands
<1>6. InHand(p) = None
  BY DEF InHand
<1>7. CASE blk[b] \notin Stable
  <2>1. InHand(p)' = None
    BY <1>0, <1>1, <1>7 DEF InHand
  <2> QED
    BY <1>0, <1>3, <1>4, <1>5, <1>6, <2>1 DEF Store!vars
<1>8. CASE blk[b] \in Stable
  <2> PICK k \in Stable : k = blk[b]
    BY <1>8
  <2>1. Store!Free(k)
    <3>1. ASSUME NEW q \in Procs, InHand(q) # None PROVE InHand(q).blk # k
      <4>1. /\ pc[q] = "hold" /\ blk[bp[q]] \in Stable /\ InHand(q).blk = blk[bp[q]]
        BY <3>1 DEF InHand
      <4>2. q # p /\ bp[q] \in Bufs /\ bp[q] # b
        BY <4>1 DEF Tasks, IInv, PointersOK, Owns
      <4> QED
        BY <4>1, <4>2, NamesAssumption
        DEF Contents, Sound, IInv, OneBufferPerBlock, Stable
    <3> QED
      BY <3>1 DEF Store!Free
  <2>2. InHand(p)' = [how |-> IF op[p] = "bread" THEN "read" ELSE "blank",
                      blk |-> k, val |-> data[b]]
    BY <1>0, <1>1 DEF InHand
  <2>3. Sound(b) /\ (Valid(b) => Current(k) = data[b])
    BY Seen DEF Contents, Sound, Holds, SeenRight
  <2>4. /\ [i \in Stable |-> Current(i)]' = [i \in Stable |-> Current(i)]
        /\ [q \in Procs |-> InHand(q)]'
             = [[q \in Procs |-> InHand(q)] EXCEPT ![p] = InHand(p)']
    BY <1>0, <1>4, <1>5
  <2>5. CASE op[p] = "bread"
    <3>1. InHand(p)' = [how |-> "read", blk |-> k, val |-> Current(k)]
      BY <2>2, <2>3, <2>5 DEF Valid
    <3>2. Store!Read(p, k)
      BY <1>6, <2>1, <2>4, <3>1 DEF Store!Read
    <3> QED
      BY <1>3, <3>2 DEF Store!Next
  <2>6. CASE op[p] # "bread"
    <3>1. data[b] \in {Current(k), Junk}
      BY <2>3 DEF Sound
    <3>2. Store!Grab(p, k)
      BY <1>6, <2>1, <2>2, <2>4, <2>6, <3>1 DEF Store!Grab
    <3> QED
      BY <1>3, <3>2 DEF Store!Next
  <2> QED
    BY <2>5, <2>6
<1> QED
  BY <1>7, <1>8
\* getblk, geteblk, bread and breada return.
LEMMA ReturnSeen ==
    ASSUME IInv, IInv', Contents, NEW p \in Procs, GotReturn(p) \/ IowaitRead(p)
    PROVE  Contents' /\ [Store!Next]_(Store!vars)
<1>0. p \in Tasks /\ \A q \in Procs : q \in Tasks
  BY DEF Tasks
<1>1. CASE GotReturn(p)
  <2>1. /\ pc[p] = "got" /\ cand[p] \in Bufs /\ cand[p] \notin ioq /\ Owns(p, cand[p])
        /\ op[p] = "bread" => "DONE" \in flags[cand[p]]
        /\ HandOver(p, cand[p]) /\ UNCHANGED <<bufVars, devVars, op, dev>>
    BY <1>0, <1>1 DEF GotReturn, Got, IInv, PointersOK, Owns
  <2>2. \A q \in Procs \ {p} : ~Owns(q, cand[p])
    BY <1>0, <2>1 DEF IInv, OneOwner
  <2> QED
    BY <2>1, <2>2, HandOverSeen
<1>2. CASE IowaitRead(p)
  <2>1. /\ pc[p] = "iowait" /\ bp[p] \in Bufs /\ bp[p] \notin ioq /\ Owns(p, bp[p])
        /\ "DONE" \in flags[bp[p]]
        /\ HandOver(p, bp[p]) /\ UNCHANGED <<bufVars, devVars, op, dev>>
    BY <1>0, <1>2 DEF IowaitRead, IInv, PointersOK, BuffersOK, Owns
  <2>2. \A q \in Procs \ {p} : ~Owns(q, bp[p])
    BY <1>0, <2>1 DEF IInv, OneOwner
  <2> QED
    BY <2>1, <2>2, HandOverSeen
<1> QED
  BY <1>1, <1>2

\* What a process has in hand is a block and not nothing.
LEMMA Handed ==
    ASSUME IInv, NEW p \in Procs, pc[p] = "hold", blk[bp[p]] \in Stable
    PROVE  InHand(p) # None /\ InHand(p).blk = blk[bp[p]]
<1>1. bp[p] \in Bufs /\ data[bp[p]] \in Values \cup {Junk}
  BY DEF IInv, PointersOK, Tasks, TypeOK
<1>2. InHand(p) \in [how : {"read", "blank"}, blk : Blocks, val : Values \cup {Junk}]
  BY <1>1 DEF InHand, Stable
<1> QED
  BY <1>2, HandsAssumption DEF InHand

\* brelse gives the block back as it was.
LEMMA BrelseSeen ==
    ASSUME IInv, IInv', Contents, NEW p \in Procs, Brelse(p)
    PROVE  Contents' /\ [Store!Next]_(Store!vars)
<1>0. /\ pc \in [Tasks -> PCs] /\ bp \in [Tasks -> Bufs \cup {None}] /\ p \in Tasks
      /\ op \in [Tasks -> Ops] /\ None \notin Bufs /\ Stable' = Stable
  BY BufsAssumption DEF IInv, TypeOK, Tasks, Stable
<1>1. /\ pc[p] = "hold" /\ pc'[p] = "user" /\ disk' = disk
      /\ \A q \in Tasks \ {p} : Idle(q)
      /\ \A c \in Bufs : Untouched(c)
  <2>1. /\ bp[p] \in Bufs /\ Release(bp[p], flags[bp[p]]) /\ UNCHANGED <<blk, data, ioq>>
    BY <1>0 DEF Brelse, GiveBack, devVars, IInv, PointersOK
  <2>2. \A c \in Bufs : Untouched(c)
    BY <2>1, ReleaseUntouched
  <2> QED
    BY <1>0, <2>2 DEF Brelse, GiveBack, Leave, Idle, devVars, argVars
<1>2. Touches(p, None)
  BY <1>0, <1>1 DEF Touches, IInv, PointersOK
<1>3. Contents'
  BY <1>0, <1>1, <1>2, ContentsKept DEF CallSound
<1>4. /\ \A k \in Stable : Current(k)' = Current(k)
      /\ \A q \in Procs \ {p} : InHand(q)' = InHand(q)
      /\ InHand(p)' = None
  BY <1>0, <1>1, <1>2, CurrentKept, OthersHands DEF InHand
<1>5. CASE InHand(p) = None
  BY <1>0, <1>3, <1>4, <1>5 DEF Store!vars
<1>6. CASE InHand(p) # None
  <2>1. /\ [i \in Stable |-> Current(i)]' = [i \in Stable |-> Current(i)]
        /\ [q \in Procs |-> InHand(q)]' = [[q \in Procs |-> InHand(q)] EXCEPT ![p] = None]
    BY <1>0, <1>4
  <2>2. Store!Release(p)
    BY <1>6, <2>1 DEF Store!Release
  <2> QED
    BY <1>3, <2>2 DEF Store!Next
<1> QED
  BY <1>5, <1>6

\* The three writes leave the new contents v in the buffer, which is valid and dirty, or
\* valid and under way to the disk.
LEMMA WriteFacts ==
    ASSUME IInv, Contents, NEW p \in Procs, NEW v \in Values,
           Bdwrite(p, v) \/ Bwrite(p, v) \/ Bawrite(p, v)
    PROVE  /\ pc[p] = "hold" /\ bp[p] \in Bufs /\ blk[bp[p]] \in Blocks
           /\ pc'[p] \notin {"hold", "bflush", "binval"}
           /\ UNCHANGED <<blk, disk>> /\ data' = [data EXCEPT ![bp[p]] = v]
           /\ \A g \in {"ERROR", "STALE"} : g \in flags'[bp[p]] <=> g \in flags[bp[p]]
           /\ \/ {"DONE", "DELWRI"} \subseteq flags'[bp[p]]
              \/ "DONE" \notin flags'[bp[p]] /\ "READ" \notin flags'[bp[p]] /\ bp[p] \in ioq'
           /\ \A c \in Bufs \ {bp[p]} : Untouched(c)
           /\ \A q \in Tasks \ {p} : Idle(q)
<1> USE DEF Goto, Leave, argVars, devVars, listVars, asyVars
<1>0. /\ pc \in [Tasks -> PCs] /\ op \in [Tasks -> Ops] /\ bp \in [Tasks -> Bufs \cup {None}]
      /\ flags \in [Bufs -> SUBSET Flags] /\ data \in [Bufs -> Values \cup {Junk}]
      /\ blk \in [Bufs -> Blocks \cup {None}] /\ p \in Tasks
  BY DEF IInv, TypeOK, Tasks
<1>1. /\ pc[p] = "hold" /\ bp[p] \in Bufs /\ blk[bp[p]] \in Blocks
      /\ "ERROR" \notin flags[bp[p]]
  BY <1>0 DEF Bdwrite, Bwrite, Bawrite, MayWrite, IInv, PointersOK
<1> PICK b \in Bufs : b = bp[p]
  BY <1>1
<1>2. CASE Bdwrite(p, v)
  <2>1. flags' = [flags EXCEPT ![b] = RelFlags(flags[b] \cup {"DELWRI", "DONE"})]
    BY <1>2 DEF Bdwrite, Release
  <2>2. flags'[b] = (flags[b] \cup {"DELWRI", "DONE"}) \ {"WANTED", "BUSY", "ASYNC", "AGE"}
    BY <1>0, <1>1, <2>1 DEF RelFlags
  <2>3. /\ pc'[p] = "user" /\ UNCHANGED <<blk, disk, ioq>> /\ data' = [data EXCEPT ![b] = v]
        /\ \A q \in Tasks \ {p} : Idle(q)
    BY <1>0, <1>2 DEF Bdwrite, Idle
  <2>4. \A c \in Bufs \ {b} : Untouched(c)
    BY <1>0, <2>1, <2>3 DEF Untouched
  <2> QED
    BY <1>1, <2>2, <2>3, <2>4
<1>3. CASE Bwrite(p, v) \/ Bawrite(p, v)
  <2>1. PICK f \in SUBSET {"ASYNC"} : StartWrite(p, v, f)
    BY <1>3 DEF Bwrite, Bawrite
  <2>2. /\ flags' = [flags EXCEPT ![b] = WriteFlags(flags[b]) \cup f]
        /\ ioq' = ioq \cup {b}
        /\ UNCHANGED <<blk, disk>> /\ data' = [data EXCEPT ![b] = v]
    BY <2>1 DEF StartWrite
  <2>3. /\ \A g \in {"DONE", "READ", "ERROR"} : g \notin flags'[b]
        /\ "STALE" \in flags'[b] <=> "STALE" \in flags[b]
    BY <1>0, <2>2 DEF WriteFlags
  <2>4. pc'[p] \in {"iowait", "count"} /\ \A q \in Tasks \ {p} : Idle(q)
    BY <1>0, <1>3 DEF Bwrite, Bawrite, StartWrite, Idle
  <2>5. \A c \in Bufs \ {b} : Untouched(c)
    BY <1>0, <2>2 DEF Untouched
  <2> QED
    BY <1>1, <2>2, <2>3, <2>4, <2>5
<1> QED
  BY <1>2, <1>3

\* bwrite, bawrite and bdwrite change the contents of the block, and of no other.
LEMMA WriteSeen ==
    ASSUME IInv, IInv', Contents, NEW p \in Procs, NEW v \in Values,
           Bdwrite(p, v) \/ Bwrite(p, v) \/ Bawrite(p, v)
    PROVE  Contents' /\ [Store!Next]_(Store!vars)
<1> PICK b : b = bp[p]
  OBVIOUS
<1>0. /\ p \in Tasks /\ data \in [Bufs -> Values \cup {Junk}] /\ Stable' = Stable
  BY DEF IInv, TypeOK, Tasks, Stable
<1>1. /\ pc[p] = "hold" /\ b \in Bufs /\ blk[b] \in Blocks
      /\ pc'[p] \notin {"hold", "bflush", "binval"}
      /\ UNCHANGED <<blk, disk>> /\ data' = [data EXCEPT ![b] = v]
      /\ \A g \in {"ERROR", "STALE"} : g \in flags'[b] <=> g \in flags[b]
      /\ \/ {"DONE", "DELWRI"} \subseteq flags'[b]
         \/ "DONE" \notin flags'[b] /\ "READ" \notin flags'[b] /\ b \in ioq'
      /\ \A c \in Bufs \ {b} : Untouched(c)
      /\ \A q \in Tasks \ {p} : Idle(q)
  BY WriteFacts
<1>2. Touches(p, b)
  BY <1>0, <1>1 DEF Touches, IInv, OneOwner, Owns
<1>3. Valid(b)' /\ Sound(b) /\ data'[b] = v
  BY <1>0, <1>1 DEF Valid, Contents
<1>4. Sound(b)'
  BY <1>1, <1>3 DEF Sound
<1>5. Contents'
  BY <1>0, <1>1, <1>2, <1>4, ContentsKept DEF CallSound
<1>6. ASSUME NEW k \in Stable, k # blk[b] PROVE Current(k)' = Current(k)
  BY <1>1, <1>6, CurrentKept DEF Holds
<1>7. ASSUME NEW k \in Stable, k = blk[b] PROVE Current(k)' = v
  <2>1. Holds(b, k)'
    BY <1>1, <1>3, <1>7 DEF Holds, Sound
  <2> QED
    BY <1>1, <1>3, <1>7, <2>1, SeenNext DEF SeenRight, Stable
<1>8. /\ \A q \in Procs \ {p} : InHand(q)' = InHand(q)
      /\ InHand(p)' = None
  BY <1>1, <1>2, OthersHands DEF InHand
<1>9. CASE blk[b] \notin Stable
  <2>1. InHand(p) = None
    BY <1>9 DEF InHand
  <2>2. \A k \in Stable : Current(k)' = Current(k)
    BY <1>6, <1>9
  <2> QED
    BY <1>0, <1>5, <1>8, <2>1, <2>2 DEF Store!vars
<1>10. CASE blk[b] \in Stable
  <2> DEFINE st == [i \in Stable |-> Current(i)]
             hd == [q \in Procs |-> InHand(q)]
  <2>1. hd[p] # None /\ hd[p].blk = blk[b]
    BY <1>1, <1>10, Handed
  <2>2. st' = [st EXCEPT ![blk[b]] = v]
    BY <1>0, <1>6, <1>7, <1>10
  <2>3. hd' = [hd EXCEPT ![p] = None]
    BY <1>8
  <2>4. Store!Write(p, v)
    BY <2>1, <2>2, <2>3 DEF Store!Write
  <2> QED
    BY <1>5, <2>4 DEF Store!Next
<1> QED
  BY <1>9, <1>10

-----------------------------------------------------------------------------
(* The theorem *)

\* At first no buffer has a block, and nobody a buffer.
LEMMA StoreInit == Init => Contents /\ Store!Init
<1> SUFFICES ASSUME Init PROVE Contents /\ Store!Init
  OBVIOUS
<1>1. None \notin Stable /\ \A b \in Bufs : blk[b] = None /\ flags[b] = {}
  BY NamesAssumption DEF Init, Stable
<1>2. Contents
  BY <1>1 DEF Contents, Sound, CallsSound, Init
<1>3. \A k \in Stable : Current(k) = disk[k]
  BY <1>1 DEF Current, Holds
<1>4. \A p \in Procs : InHand(p) = None
  BY NamesAssumption DEF Init, InHand, Tasks
<1>5. [k \in Stable |-> Current(k)] \in [Stable -> Values]
  BY <1>3 DEF Init, Stable
<1> QED
  BY <1>2, <1>4, <1>5 DEF Store!Init

\* Every step is one of the store, or none the callers notice.
LEMMA StoreStep ==
    ASSUME MaxErrors = 0, IInv, IInv', Contents, [Next]_vars
    PROVE  Contents' /\ [Store!Next]_(Store!vars)
<1>0. Daemon \in Tasks /\ \A p \in Procs : p \in Tasks
  BY DEF Tasks
<1>1. Stutter => Contents' /\ [Store!Next]_(Store!vars)
  BY DEF Stutter
<1>2. ASSUME NEW p \in Procs, Call(p) \/ Use(p) \/ Inside(p)
      PROVE  Contents' /\ [Store!Next]_(Store!vars)
  <2>1. CASE Call(p)
    BY <1>0, <1>1, <2>1, QuietUnseen
  <2>2. CASE Use(p)
    BY <2>2, BrelseSeen, WriteSeen DEF Use
  <2>3. CASE \/ GetblkScan(p) \/ GetblkBusy(p) \/ GetblkHit(p)
             \/ GetblkEmpty(p) \/ BwriteCount(p) \/ BreadaAhead(p) \/ BreadaXahead(p)
             \/ IowaitSleep(p) \/ BflushEnd(p) \/ Binval(p)
             \/ BdwaitSleep(p) \/ BdwaitEnd(p)
    BY <1>0, <1>1, <2>3, QuietUnseen
  <2>4. CASE GetblkTake(p) \/ GetblkDirty(p) \/ BflushWrite(p)
    BY <1>0, <1>1, <2>4, TakeUnseen, WriteOutUnseen
  <2>5. CASE \/ BreadStart(p) \/ BreadaStart(p) \/ AheadStart(p) \/ AheadValid(p)
             \/ IowaitWrite(p)
    BY <1>0, <1>1, <2>5, ReadUnseen
  <2>6. CASE GotReturn(p) \/ IowaitRead(p)
    BY <2>6, ReturnSeen
  <2> QED
    BY <1>2, <2>1, <2>2, <2>3, <2>4, <2>5, <2>6 DEF Inside
<1>3. CASE Bdflush
  BY <1>0, <1>1, <1>3, QuietUnseen, WriteOutUnseen DEF Bdflush
<1>4. CASE Clock \/ UNCHANGED vars
  BY <1>1, <1>4, ClockUnseen
<1>5. CASE Disk
  BY <1>1, <1>5, IodoneUnseen DEF Disk
<1> QED
  BY <1>2, <1>3, <1>4, <1>5 DEF Next

\* While the disk does not fail, the cache is a store of blocks: whatever getblk evicts,
\* bdwrite delays, breada reads ahead or the driver reorders, bread hands out what was
\* written last, to one process at a time.
THEOREM CacheIsBlockStore == MaxErrors = 0 => (Spec => IsBlockStore)
<1> SUFFICES ASSUME MaxErrors = 0 PROVE Spec => IsBlockStore
  OBVIOUS
<1>1. IInv /\ IInv' /\ Contents /\ [Next]_vars => Contents' /\ [Store!Next]_(Store!vars)
  BY StoreStep
<1> QED
  BY <1>1, StoreInit, Invariance, PTL DEF Spec, IsBlockStore, Store!Spec
=============================================================================
