------------------------------ MODULE PipeProofs ------------------------------
(***************************************************************************)
(* Proofs about Pipe, for any number of processes and any size of a pipe.  *)
(***************************************************************************)
EXTENDS Pipe, FiniteSetTheorems, SequenceTheorems, TLAPS

-----------------------------------------------------------------------------
(* The inductive invariant *)

PCs == {"user", "plock", "open", "openp", "iput", "close", "closefree", "read", "readloop",
        "readwait", "write", "writeloop", "writewait"}

Todos == {"none", "open", "close", "read", "write", "iput"}

Typed ==
    /\ size \in Nat /\ frptr \in Nat /\ fwptr \in Nat
    /\ frcnt \in Int /\ fwcnt \in Int
    /\ fflag \subseteq {"IFIR", "IFIW"}
    /\ ilock \in BOOLEAN /\ iwant \in BOOLEAN
    /\ files \in [Procs -> SUBSET SUBSET {"R", "W"}]
    /\ pc \in [Procs -> PCs]
    /\ todo \in [Procs -> Todos]
    /\ mode \in [Procs -> SUBSET {"R", "W"}]
    /\ ndelay \in [Procs -> BOOLEAN]
    /\ count \in [Procs -> Nat]
    /\ usave \in [Procs -> Nat]
    /\ offset \in [Procs -> Nat]
    /\ wchan \in [Procs -> Chans \cup {None}]

\* The inode is locked iff a process is where it holds the lock, and there is only one.
LockExact ==
    /\ ilock <=> \E p \in Procs : pc[p] \in Locked
    /\ \A p, q \in Procs : pc[p] \in Locked /\ pc[q] \in Locked => p = q

\* What a process is about, and the files it has for it.
PurposeOf(p) ==
    /\ pc[p] = "user" => todo[p] = "none"
    /\ pc[p] = "plock" => todo[p] # "none"
    /\ pc[p] \in {"open", "openp"} => todo[p] = "open"
    /\ pc[p] \in {"close", "closefree"} => todo[p] = "close"
    /\ pc[p] = "iput" => todo[p] = "iput"
    /\ pc[p] \in {"read", "readloop", "readwait"} => todo[p] = "read"
    /\ pc[p] \in {"write", "writeloop", "writewait"} => todo[p] = "write"
    /\ todo[p] = "open" => mode[p] \in Modes /\ mode[p] \notin files[p]
    /\ todo[p] = "read" => \E m \in files[p] : "R" \in m
    /\ todo[p] = "write" => \E m \in files[p] : "W" \in m

Purpose == \A p \in Procs : PurposeOf(p)

\* What p is waiting for when it sleeps: that it has not come yet, and that who brings it
\* will wake p.
Asleep(p) ==
    \/ /\ pc[p] = "plock" /\ wchan[p] = "inode"
       /\ ilock /\ iwant
    \/ /\ pc[p] = "openp" /\ wchan[p] = "fwcnt" /\ mode[p] = {"R"}
       /\ fwcnt = 0 /\ size = 0 /\ ~ndelay[p]
    \/ /\ pc[p] = "openp" /\ wchan[p] = "frcnt" /\ mode[p] = {"W"}
       /\ frcnt = 0
    \/ /\ pc[p] = "readwait" /\ wchan[p] = "frcnt" /\ "IFIR" \in fflag
       /\ fwcnt > 0 /\ (size = 0 \/ Inside("writeloop")) /\ ~Inside("closefree")
    \/ /\ pc[p] = "writewait" /\ wchan[p] = "fwcnt" /\ "IFIW" \in fflag
       /\ frcnt > 0 /\ (Full(p) \/ Inside("readloop")) /\ ~Inside("closefree")

Sleepers == \A p \in Procs : wchan[p] # None => Asleep(p)

PipeInv == Typed /\ LockExact /\ Purpose /\ CountsExact /\ Sleepers

-----------------------------------------------------------------------------
(* Types *)

\* Blocks and pipes have bytes.
LEMMA Sizing == /\ PIPSIZ \in Nat /\ PIPSIZ > 0
                /\ \A off \in Nat : BSIZE - (off % BSIZE) \in Nat
<1>1. BSIZE \in Nat \ {0} /\ NFADDR \in Nat \ {0}
  BY SizesAssumption
<1>2. ASSUME NEW m \in Nat \ {0}, NEW n \in Nat \ {0} PROVE m * n \in Nat /\ m * n > 0
  BY <1>2
<1>3. ASSUME NEW n \in Nat \ {0}, NEW off \in Nat PROVE n - (off % n) \in Nat
  BY <1>3
<1>. QED  BY <1>1, <1>2, <1>3 DEF PIPSIZ

\* The operators that change who is where keep the types.
LEMMA TypedParts ==
    ASSUME Typed, NEW p \in Procs
    PROVE  /\ \A l \in PCs : Plock(p, l) =>
                  /\ ilock' \in BOOLEAN /\ iwant' \in BOOLEAN
                  /\ pc' \in [Procs -> PCs] /\ wchan' \in [Procs -> Chans \cup {None}]
           /\ \A C : Prele(C) =>
                  /\ ilock' \in BOOLEAN /\ iwant' \in BOOLEAN
                  /\ wchan' \in [Procs -> Chans \cup {None}]
           /\ Return(p) =>
                  /\ pc' \in [Procs -> PCs]
                  /\ todo' \in [Procs -> Todos] /\ mode' \in [Procs -> SUBSET {"R", "W"}]
                  /\ ndelay' \in [Procs -> BOOLEAN] /\ count' \in [Procs -> Nat]
                  /\ usave' \in [Procs -> Nat] /\ offset' \in [Procs -> Nat]
           /\ \A C : Woken(C) \in [Procs -> Chans \cup {None}]
<1>1. \A C : Woken(C) \in [Procs -> Chans \cup {None}]
  BY DEF Typed, Woken
<1>2. ASSUME NEW l \in PCs, Plock(p, l)
      PROVE  /\ ilock' \in BOOLEAN /\ iwant' \in BOOLEAN
             /\ pc' \in [Procs -> PCs] /\ wchan' \in [Procs -> Chans \cup {None}]
  <2>1. ilock' \in BOOLEAN /\ iwant' \in BOOLEAN
    BY <1>2 DEF Typed, Plock
  <2>2. "plock" \in PCs /\ "inode" \in Chans
    BY DEF PCs, Chans
  <2>3. pc' \in [Procs -> PCs]
    BY <1>2, <2>2 DEF Typed, Plock
  <2>4. wchan' \in [Procs -> Chans \cup {None}]
    BY <1>2, <2>2 DEF Typed, Plock
  <2> QED
    BY <2>1, <2>3, <2>4
<1>3. ASSUME NEW C, Prele(C)
      PROVE  /\ ilock' \in BOOLEAN /\ iwant' \in BOOLEAN
             /\ wchan' \in [Procs -> Chans \cup {None}]
  BY <1>1, <1>3 DEF Prele
<1>4. ASSUME Return(p)
      PROVE  /\ pc' \in [Procs -> PCs]
             /\ todo' \in [Procs -> Todos] /\ mode' \in [Procs -> SUBSET {"R", "W"}]
             /\ ndelay' \in [Procs -> BOOLEAN] /\ count' \in [Procs -> Nat]
             /\ usave' \in [Procs -> Nat] /\ offset' \in [Procs -> Nat]
  BY <1>4 DEF Typed, Return, PCs, Todos
<1>. QED  BY <1>1, <1>2, <1>3, <1>4

\* The calls keep the types: plock, and the arguments of the call.
LEMMA EnterTyped ==
    ASSUME Typed, NEW p \in Procs, NEW t \in Todos \ {"none"}, NEW m \in SUBSET {"R", "W"},
           NEW nd \in BOOLEAN, NEW n \in Nat, Enter(p, t, m, nd, n),
           files' \in [Procs -> SUBSET SUBSET {"R", "W"}]
    PROVE  Typed'
<1>1. t \in PCs
  BY DEF Todos, PCs
<1>2. /\ ilock' \in BOOLEAN /\ iwant' \in BOOLEAN
      /\ pc' \in [Procs -> PCs] /\ wchan' \in [Procs -> Chans \cup {None}]
  BY <1>1, TypedParts DEF Enter
<1>3. /\ todo' \in [Procs -> Todos] /\ mode' \in [Procs -> SUBSET {"R", "W"}]
      /\ ndelay' \in [Procs -> BOOLEAN] /\ count' \in [Procs -> Nat]
  BY DEF Enter, Typed
<1>. QED  BY <1>2, <1>3 DEF Enter, Typed, pipeVars

\* Every step keeps the types.
LEMMA TypedStep == Typed /\ Purpose /\ [Next]_vars => Typed'
<1>. SUFFICES ASSUME Typed, Purpose, [Next]_vars PROVE Typed'
  OBVIOUS
<1>. USE DEF pipeVars, cntVars, lockVars, argVars
<1>1. CASE UNCHANGED vars
  BY <1>1 DEF vars, Typed
<1>2. ASSUME NEW p \in Procs, Call(p) PROVE Typed'
  <2>1. ASSUME NEW m \in Modes, NEW nd \in NDelays, Open(p, m, nd) PROVE Typed'
    <3>1. m \in SUBSET {"R", "W"} /\ nd \in BOOLEAN
      BY ModesAssumption
    <3>2. files' \in [Procs -> SUBSET SUBSET {"R", "W"}]
      BY <2>1 DEF Open, Typed
    <3>. QED  BY <2>1, <3>1, <3>2, EnterTyped DEF Open, Todos
  <2>2. ASSUME NEW m \in files[p], Close(p, m) PROVE Typed'
    <3>1. m \in SUBSET {"R", "W"} /\ files' \in [Procs -> SUBSET SUBSET {"R", "W"}]
      BY <2>2 DEF Close, Typed
    <3>. QED  BY <2>2, <3>1, EnterTyped DEF Close, Todos
  <2>3. ASSUME NEW n \in Sizes, NEW nd \in NDelays, Read(p, n, nd) \/ Write(p, n, nd)
        PROVE  Typed'
    <3>1. n \in Nat /\ nd \in BOOLEAN
      BY SizesAssumption, ModesAssumption
    <3>2. files' \in [Procs -> SUBSET SUBSET {"R", "W"}] /\ {} \in SUBSET {"R", "W"}
      BY <2>3 DEF Read, Write, Typed
    <3>. QED  BY <2>3, <3>1, <3>2, EnterTyped DEF Read, Write, Todos
  <2>4. CASE SysPipe(p)
    BY <2>4 DEF SysPipe, Typed
  <2>. QED  BY <1>2, <2>1, <2>2, <2>3, <2>4 DEF Call
<1>3. ASSUME NEW p \in Procs, PlockAgain(p) PROVE Typed'
  <2>1. todo[p] \in PCs
    BY <1>3 DEF PlockAgain, Awake, Typed, Purpose, PurposeOf, Todos, PCs
  <2>. QED  BY <1>3, <2>1, TypedParts DEF PlockAgain, Typed
<1>4. ASSUME NEW p \in Procs, Openp(p) \/ OpenpAgain(p) PROVE Typed'
  <2>. DEFINE m == mode[p]
              c1 == OpenWait(m, ndelay[p], frcnt + Ends(m, "R"), fwcnt + Ends(m, "W"))
              c2 == OpenWait(m, ndelay[p], frcnt, fwcnt)
  <2>1. /\ c1 \in Chans \cup {None} /\ c2 \in Chans \cup {None}
        /\ Ends(m, "R") \in Int /\ Ends(m, "W") \in Int
    BY DEF OpenWait, Chans, Ends
  <2>2. ASSUME Opened(p)
        PROVE  /\ files' \in [Procs -> SUBSET SUBSET {"R", "W"}]
               /\ pc' \in [Procs -> PCs]
               /\ todo' \in [Procs -> Todos] /\ mode' \in [Procs -> SUBSET {"R", "W"}]
               /\ ndelay' \in [Procs -> BOOLEAN] /\ count' \in [Procs -> Nat]
               /\ usave' \in [Procs -> Nat] /\ offset' \in [Procs -> Nat]
    BY <2>2, TypedParts DEF Opened, Typed
  <2>3. CASE Openp(p)
    <3>1. wchan' \in [Procs -> Chans \cup {None}] /\ frcnt' \in Int /\ fwcnt' \in Int
      BY <2>1, <2>3, TypedParts DEF Openp, Typed
    <3>2. CASE c1 = None
      BY <2>2, <2>3, <3>1, <3>2 DEF Openp, Typed
    <3>3. CASE c1 # None
      BY ZenonT(60), <2>3, <3>1, <3>3 DEF Openp, Typed, PCs
    <3>. QED  BY <3>2, <3>3
  <2>4. CASE OpenpAgain(p)
    <3>1. wchan' \in [Procs -> Chans \cup {None}]
      BY <2>1, <2>4 DEF OpenpAgain, Typed
    <3>2. CASE c2 = None
      BY <2>2, <2>4, <3>1, <3>2 DEF OpenpAgain, Typed
    <3>3. CASE c2 # None
      BY <2>4, <3>1, <3>3 DEF OpenpAgain, Typed
    <3>. QED  BY <3>2, <3>3
  <2>. QED  BY <1>4, <2>3, <2>4
<1>5. ASSUME NEW p \in Procs, OpenpRefuse(p) \/ OpenpIntr(p) PROVE Typed'
  BY <1>5, TypedParts DEF OpenpRefuse, OpenpIntr, Typed, PCs, Todos
<1>6. ASSUME NEW p \in Procs, Iput(p) \/ CloseFree(p) \/ ReadiEmpty(p) \/ WriteiFail(p)
      PROVE  Typed'
  BY <1>6, TypedParts DEF Iput, CloseFree, ReadiEmpty, WriteiFail, Typed
<1>7. ASSUME NEW p \in Procs, WaitIntr(p) PROVE Typed'
  BY <1>7, TypedParts DEF WaitIntr, Typed
<1>8. ASSUME NEW p \in Procs, Closep(p) PROVE Typed'
  <2>1. Ends(mode[p], "R") \in Int /\ Ends(mode[p], "W") \in Int
    BY DEF Ends
  <2>2. frcnt' \in Int /\ fwcnt' \in Int /\ fflag' \subseteq {"IFIR", "IFIW"}
    BY <1>8, <2>1 DEF Closep, Typed
  <2>3. CASE frcnt' = 0 /\ fwcnt' = 0
    BY <1>8, <2>2, <2>3, TypedParts DEF Closep, Typed, PCs
  <2>4. CASE ~(frcnt' = 0 /\ fwcnt' = 0)
    BY <1>8, <2>2, <2>4, TypedParts DEF Closep, Typed
  <2>. QED  BY <2>3, <2>4
<1>9. ASSUME NEW p \in Procs, ReadiSleep(p) \/ WriteiSleep(p) PROVE Typed'
  <2>1. PICK chan \in Chans, l \in PCs : PreleSleep(p, chan, l)
    BY <1>9 DEF ReadiSleep, WriteiSleep, PCs, Chans
  <2>2. Woken(Waiting) \in [Procs -> Chans \cup {None}]
    BY TypedParts
  <2>3. wchan' \in [Procs -> Chans \cup {None}] /\ pc' \in [Procs -> PCs]
    BY <2>1, <2>2 DEF PreleSleep, Typed
  <2>. QED  BY <1>9, <2>1, <2>3 DEF ReadiSleep, WriteiSleep, PreleSleep, Typed
<1>10. ASSUME NEW p \in Procs, ReadiStart(p) PROVE Typed'
  BY <1>10 DEF ReadiStart, Typed, PCs
<1>11. ASSUME NEW p \in Procs, WriteiStart(p) PROVE Typed'
  BY <1>11, Sizing DEF WriteiStart, Full, Typed, PCs
<1>12. ASSUME NEW p \in Procs, NEW ok \in Copies, ReadiBlock(p, ok) PROVE Typed'
  <2>. DEFINE n == Least(Pbsize(p), size)
              s == size - n
              off == IF ok THEN Wrap(offset[p] + n) ELSE offset[p]
  <2>1. n \in Nat /\ s \in Nat /\ n <= count[p]
    BY Sizing DEF Typed, Least, Pbsize
  <2>2. off \in Nat
    BY <2>1 DEF Typed, Wrap
  <2>3. CASE ReadiEnd(p, s, off)
    <3>1. frptr' \in Nat /\ fwptr' \in Nat /\ fflag' \subseteq {"IFIR", "IFIW"}
      BY <2>1, <2>2, <2>3 DEF ReadiEnd, Typed
    <3>. QED  BY <1>12, <2>1, <2>3, <3>1, TypedParts DEF ReadiBlock, ReadiEnd, Typed
  <2>4. CASE /\ offset' = [offset EXCEPT ![p] = off]
             /\ count' = [count EXCEPT ![p] = @ - n]
             /\ UNCHANGED <<frptr, fwptr, fflag, lockVars, pc, wchan, todo, mode, ndelay, usave>>
    <3>1. offset' \in [Procs -> Nat] /\ count' \in [Procs -> Nat]
      BY <2>1, <2>2, <2>4 DEF Typed
    <3>. QED  BY <1>12, <2>1, <2>4, <3>1 DEF ReadiBlock, Typed
  <2>. QED  BY <1>12, <2>3, <2>4 DEF ReadiBlock
<1>13. ASSUME NEW p \in Procs, NEW ok \in Copies, WriteiBlock(p, ok) PROVE Typed'
  <2>. DEFINE n == Pbsize(p)
              off == IF ok THEN Wrap(offset[p] + n) ELSE offset[p]
  <2>1. n \in Nat /\ n <= count[p]
    BY Sizing DEF Typed, Least, Pbsize
  <2>2. off \in Nat /\ size' \in Nat
    BY <1>13, <2>1 DEF Typed, Wrap, WriteiBlock
  <2>3. CASE WriteiEnd(p, ok, off)
    BY <1>13, <2>2, <2>3, TypedParts DEF WriteiBlock, WriteiEnd, Typed, PCs
  <2>4. CASE /\ offset' = [offset EXCEPT ![p] = off]
             /\ count' = [count EXCEPT ![p] = @ - n]
             /\ UNCHANGED <<fwptr, fflag, lockVars, pc, wchan, todo, mode, ndelay, usave>>
    <3>1. offset' \in [Procs -> Nat] /\ count' \in [Procs -> Nat]
      BY <2>1, <2>2, <2>4 DEF Typed
    <3>. QED  BY <1>13, <2>2, <2>4, <3>1 DEF WriteiBlock, Typed
  <2>. QED  BY <1>13, <2>3, <2>4 DEF WriteiBlock
<1>. QED
  BY <1>1, <1>2, <1>3, <1>4, <1>5, <1>6, <1>7, <1>8, <1>9, <1>10, <1>11, <1>12, <1>13
  DEF Next, Step
-----------------------------------------------------------------------------
(* One step, one process *)

Doing(p) == Call(p) \/ Step(p) \/ OpenpIntr(p) \/ WaitIntr(p)

\* What q has for itself: a step of p changes nothing of it, except that q may be woken.
KeepsOf(q) == /\ pc'[q] = pc[q] /\ todo'[q] = todo[q] /\ mode'[q] = mode[q]
              /\ ndelay'[q] = ndelay[q] /\ count'[q] = count[q] /\ usave'[q] = usave[q]
              /\ offset'[q] = offset[q] /\ files'[q] = files[q]
              /\ wchan'[q] \in {wchan[q], None}

\* The operators the handlers are made of touch the other processes only to wake them.
LEMMA PartsKeep ==
    ASSUME Typed, NEW p \in Procs, NEW q \in Procs \ {p}
    PROVE  /\ \A l : Plock(p, l) => pc'[q] = pc[q] /\ wchan'[q] = wchan[q]
           /\ \A C : Prele(C) => wchan'[q] \in {wchan[q], None}
           /\ \A c, l : PreleSleep(p, c, l) => pc'[q] = pc[q] /\ wchan'[q] \in {wchan[q], None}
           /\ \A C : Woken(C)[q] \in {wchan[q], None}
           /\ Return(p) =>
                  /\ pc'[q] = pc[q] /\ todo'[q] = todo[q] /\ mode'[q] = mode[q]
                  /\ ndelay'[q] = ndelay[q] /\ count'[q] = count[q] /\ usave'[q] = usave[q]
                  /\ offset'[q] = offset[q]
<1>1. \A C : Woken(C)[q] \in {wchan[q], None}
  BY DEF Woken
<1>2. ASSUME NEW l, Plock(p, l) PROVE pc'[q] = pc[q] /\ wchan'[q] = wchan[q]
  BY <1>2 DEF Plock, Typed
<1>3. ASSUME NEW C, Prele(C) PROVE wchan'[q] \in {wchan[q], None}
  BY <1>1, <1>3 DEF Prele
<1>4. ASSUME NEW c, NEW l, PreleSleep(p, c, l)
      PROVE  pc'[q] = pc[q] /\ wchan'[q] \in {wchan[q], None}
  <2>1. wchan'[q] = Woken(Waiting)[q] /\ pc'[q] = pc[q]
    BY <1>4 DEF PreleSleep, Typed, Woken
  <2>. QED  BY <1>1, <2>1
<1>5. ASSUME Return(p)
      PROVE  /\ pc'[q] = pc[q] /\ todo'[q] = todo[q] /\ mode'[q] = mode[q]
             /\ ndelay'[q] = ndelay[q] /\ count'[q] = count[q] /\ usave'[q] = usave[q]
             /\ offset'[q] = offset[q]
  BY <1>5 DEF Return, Typed
<1>. QED  BY <1>1, <1>2, <1>3, <1>4, <1>5

\* A step of a process leaves the others where they are and with what they have: it can
\* only wake them.
LEMMA OthersKeep ==
    ASSUME Typed, NEW p \in Procs, Doing(p), NEW q \in Procs \ {p}
    PROVE  KeepsOf(q)
<1>. USE DEF pipeVars, cntVars, lockVars, argVars
<1>1. CASE Call(p)
  <2>1. ASSUME NEW t, NEW m, NEW nd, NEW n, Enter(p, t, m, nd, n), files'[q] = files[q]
        PROVE  KeepsOf(q)
    BY <2>1, PartsKeep DEF Enter, KeepsOf, Typed
  <2>2. CASE SysPipe(p)
    BY <2>2 DEF SysPipe, KeepsOf, Typed
  <2>. QED  BY <1>1, <2>1, <2>2 DEF Call, Open, Close, Read, Write, Typed
<1>2. CASE PlockAgain(p)
  BY <1>2, PartsKeep DEF PlockAgain, KeepsOf
<1>3. CASE Openp(p)
  <2>. DEFINE m == mode[p]
              W == Waiting \cup (IF frcnt = 0 /\ "R" \in m THEN {"frcnt"} ELSE {})
                           \cup (IF fwcnt = 0 /\ "W" \in m THEN {"fwcnt"} ELSE {})
  <2>1. wchan'[q] = Woken(W)[q]
    BY <1>3 DEF Openp, Woken
  <2>2. wchan'[q] \in {wchan[q], None}
    BY <2>1, PartsKeep
  <2>3. CASE Opened(p)
    BY <1>3, <2>2, <2>3, PartsKeep DEF Openp, Opened, KeepsOf, Typed
  <2>4. CASE pc' = [pc EXCEPT ![p] = "openp"] /\ UNCHANGED <<files, argVars>>
    BY <1>3, <2>2, <2>4 DEF Openp, KeepsOf, Typed
  <2>. QED  BY <1>3, <2>3, <2>4 DEF Openp
<1>4. CASE OpenpAgain(p)
  <2>1. wchan'[q] = wchan[q]
    BY <1>4 DEF OpenpAgain, Typed
  <2>2. CASE Opened(p)
    BY <1>4, <2>1, <2>2, PartsKeep DEF OpenpAgain, Opened, KeepsOf, Typed
  <2>3. CASE UNCHANGED <<files, pc, argVars>>
    BY <1>4, <2>1, <2>3 DEF OpenpAgain, KeepsOf, Typed
  <2>. QED  BY <1>4, <2>2, <2>3 DEF OpenpAgain
<1>5. CASE OpenpRefuse(p) \/ OpenpIntr(p)
  BY <1>5, PartsKeep DEF OpenpRefuse, OpenpIntr, KeepsOf, Typed
<1>6. CASE Iput(p) \/ CloseFree(p) \/ ReadiEmpty(p) \/ WriteiFail(p)
  BY <1>6, PartsKeep DEF Iput, CloseFree, ReadiEmpty, WriteiFail, KeepsOf
<1>7. CASE WaitIntr(p)
  BY <1>7, PartsKeep DEF WaitIntr, KeepsOf, Typed
<1>8. CASE Closep(p)
  BY <1>8, PartsKeep DEF Closep, KeepsOf, Typed
<1>9. CASE ReadiSleep(p) \/ WriteiSleep(p)
  BY <1>9, PartsKeep DEF ReadiSleep, WriteiSleep, KeepsOf
<1>10. CASE ReadiStart(p) \/ WriteiStart(p)
  BY <1>10 DEF ReadiStart, WriteiStart, KeepsOf, Typed
<1>11. ASSUME NEW ok \in Copies, ReadiBlock(p, ok) PROVE KeepsOf(q)
  BY <1>11, PartsKeep DEF ReadiBlock, ReadiEnd, KeepsOf, Typed
<1>12. ASSUME NEW ok \in Copies, WriteiBlock(p, ok) PROVE KeepsOf(q)
  BY <1>12, PartsKeep DEF WriteiBlock, WriteiEnd, KeepsOf, Typed
<1>. QED
  BY <1>1, <1>2, <1>3, <1>4, <1>5, <1>6, <1>7, <1>8, <1>9, <1>10, <1>11, <1>12
  DEF Doing, Step

-----------------------------------------------------------------------------
(* The lock *)

\* What a step of p does to the lock.
LockMove(p) ==
    \/ ~ilock /\ ilock' /\ pc[p] \notin Locked /\ pc'[p] \in Locked      \* plock
    \/ pc[p] \in Locked /\ ~ilock' /\ pc'[p] \notin Locked               \* prele
    \/ pc[p] \in Locked /\ ilock' = ilock /\ pc'[p] \in Locked
    \/ pc[p] \notin Locked /\ ilock' = ilock /\ pc'[p] \notin Locked

\* Every handler takes the lock with plock, and only prele gives it up.
LEMMA LockMoves ==
    ASSUME Typed, Purpose, NEW p \in Procs, Doing(p)
    PROVE  LockMove(p)
<1>. USE DEF pipeVars, cntVars, lockVars, argVars
<1>1. ASSUME NEW l \in Locked, Plock(p, l), pc[p] \notin Locked PROVE LockMove(p)
  BY <1>1 DEF Plock, LockMove, Locked, Typed
<1>2. ASSUME NEW C, Prele(C), Return(p), pc[p] \in Locked PROVE LockMove(p)
  BY <1>2 DEF Prele, Return, LockMove, Locked, Typed
<1>3. CASE Call(p)
  <2>1. ASSUME NEW t \in Locked, NEW m, NEW nd, NEW n, Enter(p, t, m, nd, n)
        PROVE  LockMove(p)
    BY <1>1, <2>1 DEF Enter, Awake, Locked
  <2>2. CASE SysPipe(p)
    BY <2>2 DEF SysPipe, LockMove, Locked, Typed
  <2>. QED  BY <1>3, <2>1, <2>2 DEF Call, Open, Close, Read, Write, Locked
<1>4. CASE PlockAgain(p)
  <2>1. todo[p] \in Locked /\ pc[p] \notin Locked
    BY <1>4 DEF PlockAgain, Awake, Typed, Purpose, PurposeOf, Todos, Locked
  <2>. QED  BY <1>1, <1>4, <2>1 DEF PlockAgain
<1>5. CASE Openp(p)
  BY <1>5 DEF Openp, Opened, Return, Awake, LockMove, Locked, Typed
<1>6. CASE OpenpAgain(p)
  BY <1>6 DEF OpenpAgain, Opened, Return, Awake, LockMove, Locked, Typed
<1>7. CASE OpenpRefuse(p) \/ OpenpIntr(p)
  BY <1>7 DEF OpenpRefuse, OpenpIntr, Prele, Awake, LockMove, Locked, Typed
<1>8. CASE Iput(p) \/ CloseFree(p) \/ ReadiEmpty(p) \/ WriteiFail(p)
  BY <1>2, <1>8 DEF Iput, CloseFree, ReadiEmpty, WriteiFail, Awake, Locked
<1>9. CASE WaitIntr(p)
  BY <1>9 DEF WaitIntr, Return, LockMove, Locked, Typed
<1>10. CASE Closep(p)
  BY <1>2, <1>10 DEF Closep, Awake, LockMove, Locked, Typed
<1>11. CASE ReadiSleep(p) \/ WriteiSleep(p)
  BY <1>11 DEF ReadiSleep, WriteiSleep, PreleSleep, Awake, LockMove, Locked, Typed
<1>12. CASE ReadiStart(p) \/ WriteiStart(p)
  BY <1>12 DEF ReadiStart, WriteiStart, Awake, LockMove, Locked, Typed
<1>13. ASSUME NEW ok \in Copies, ReadiBlock(p, ok) PROVE LockMove(p)
  BY <1>2, <1>13 DEF ReadiBlock, ReadiEnd, Awake, LockMove, Locked, Typed
<1>14. ASSUME NEW ok \in Copies, WriteiBlock(p, ok) PROVE LockMove(p)
  BY <1>2, <1>14 DEF WriteiBlock, WriteiEnd, Awake, LockMove, Locked, Typed
<1>. QED
  BY <1>3, <1>4, <1>5, <1>6, <1>7, <1>8, <1>9, <1>10, <1>11, <1>12, <1>13, <1>14
  DEF Doing, Step

\* The lock of the inode excludes.
LEMMA LockStep ==
    ASSUME Typed, Purpose, LockExact, NEW p \in Procs, Doing(p)
    PROVE  LockExact'
<1>1. \A q \in Procs \ {p} : pc'[q] = pc[q]
  BY OthersKeep DEF KeepsOf
<1>2. ilock \in BOOLEAN /\ ilock' \in BOOLEAN
  BY TypedStep DEF Typed, Next, Doing
<1>. QED  BY <1>1, <1>2, LockMoves DEF LockMove, LockExact
-----------------------------------------------------------------------------
(* What processes are about *)

\* A call, its arguments and its place stay together through the handlers.
LEMMA PurposeStep ==
    ASSUME Typed, Purpose, NEW p \in Procs, Doing(p)
    PROVE  Purpose'
<1>. USE DEF pipeVars, cntVars, lockVars, argVars
<1>. SUFFICES PurposeOf(p)'
  <2>1. ASSUME NEW q \in Procs \ {p} PROVE PurposeOf(q)'
    BY OthersKeep DEF KeepsOf, Purpose, PurposeOf
  <2>. QED  BY <2>1 DEF Purpose
<1>0. PurposeOf(p)
  BY DEF Purpose
<1>1. ASSUME Return(p) PROVE PurposeOf(p)'
  BY <1>1 DEF Return, PurposeOf, Typed
<1>2. CASE Call(p)
  <2>1. ASSUME NEW m \in Modes, NEW nd \in NDelays, Open(p, m, nd) PROVE PurposeOf(p)'
    BY <2>1 DEF Open, Enter, Plock, PurposeOf, Typed
  <2>2. ASSUME NEW m \in files[p], Close(p, m) PROVE PurposeOf(p)'
    BY <2>2 DEF Close, Enter, Plock, PurposeOf, Typed
  <2>3. ASSUME NEW n, NEW nd, Read(p, n, nd) PROVE PurposeOf(p)'
    BY <2>3 DEF Read, Enter, Plock, PurposeOf, Typed
  <2>4. ASSUME NEW n, NEW nd, Write(p, n, nd) PROVE PurposeOf(p)'
    BY <2>4 DEF Write, Enter, Plock, PurposeOf, Typed
  <2>5. CASE SysPipe(p)
    BY <1>0, <2>5 DEF SysPipe, PurposeOf, Typed
  <2>. QED  BY <1>2, <2>1, <2>2, <2>3, <2>4, <2>5 DEF Call
<1>3. CASE PlockAgain(p)
  BY <1>0, <1>3 DEF PlockAgain, Plock, Awake, PurposeOf, Typed, Todos
<1>4. CASE Openp(p) \/ OpenpAgain(p)
  BY <1>0, <1>1, <1>4 DEF Openp, OpenpAgain, Opened, Awake, PurposeOf, Typed
<1>5. CASE OpenpRefuse(p) \/ OpenpIntr(p)
  BY <1>0, <1>5 DEF OpenpRefuse, OpenpIntr, Awake, PurposeOf, Typed
<1>6. CASE Iput(p) \/ CloseFree(p) \/ ReadiEmpty(p) \/ WriteiFail(p) \/ WaitIntr(p)
  BY <1>1, <1>6 DEF Iput, CloseFree, ReadiEmpty, WriteiFail, WaitIntr
<1>7. CASE Closep(p)
  BY <1>0, <1>1, <1>7 DEF Closep, Awake, PurposeOf, Typed
<1>8. CASE ReadiSleep(p) \/ WriteiSleep(p)
  BY <1>0, <1>8 DEF ReadiSleep, WriteiSleep, PreleSleep, Awake, PurposeOf, Typed
<1>9. CASE ReadiStart(p) \/ WriteiStart(p)
  BY <1>0, <1>9 DEF ReadiStart, WriteiStart, Awake, PurposeOf, Typed
<1>10. ASSUME NEW ok \in Copies, ReadiBlock(p, ok) PROVE PurposeOf(p)'
  BY <1>0, <1>1, <1>10 DEF ReadiBlock, ReadiEnd, Awake, PurposeOf, Typed
<1>11. ASSUME NEW ok \in Copies, WriteiBlock(p, ok) PROVE PurposeOf(p)'
  BY <1>0, <1>1, <1>11 DEF WriteiBlock, WriteiEnd, Awake, PurposeOf, Typed
<1>. QED
  BY <1>2, <1>3, <1>4, <1>5, <1>6, <1>7, <1>8, <1>9, <1>10, <1>11 DEF Doing, Step
-----------------------------------------------------------------------------
(* The counts *)

\* The open files and the processes that Holders counts.
EndFiles(e) == {h \in Procs \X SUBSET {"R", "W"} : h[2] \in files[h[1]] /\ e \in h[2]}

Counted(p, e) == /\ e \in mode[p]
                 /\ \/ pc[p] \in {"openp", "close"}
                    \/ pc[p] = "plock" /\ todo[p] = "close"

EndProcs(e) == {p \in Procs : Counted(p, e)}

\* The end e of one file of mode m of p, in files f.
EndOf(f, p, m, e) == IF m \in f[p] /\ e \in m THEN 1 ELSE 0

\* Sets that differ in one element at most.
LEMMA OneElement ==
    ASSUME NEW S, NEW T, NEW x, IsFiniteSet(S), IsFiniteSet(T), S \ {x} = T \ {x}
    PROVE  Cardinality(T) = Cardinality(S) + (IF x \in T THEN 1 ELSE 0)
                                           - (IF x \in S THEN 1 ELSE 0)
<1>1. Cardinality(S) \in Nat /\ Cardinality(T) \in Nat
  BY FS_CardinalityType
<1>2. Cardinality(S \ {x}) = IF x \in S THEN Cardinality(S) - 1 ELSE Cardinality(S)
  BY FS_RemoveElement
<1>3. Cardinality(T \ {x}) = IF x \in T THEN Cardinality(T) - 1 ELSE Cardinality(T)
  BY FS_RemoveElement
<1>. QED  BY <1>1, <1>2, <1>3

\* There are finitely many processes, and files of theirs.
LEMMA EndsFinite == /\ \A S : S \subseteq Procs \X SUBSET {"R", "W"} => IsFiniteSet(S)
                    /\ \A S : S \subseteq Procs => IsFiniteSet(S)
<1>1. IsFiniteSet(SUBSET {"R", "W"})
  <2>1. IsFiniteSet({"R"} \cup {"W"}) /\ {"R"} \cup {"W"} = {"R", "W"}
    BY FS_Singleton, FS_AddElement
  <2>. QED  BY <2>1, FS_SUBSET
<1>2. IsFiniteSet(Procs \X SUBSET {"R", "W"})
  BY <1>1, ProcsAssumption, FS_Product
<1>. QED  BY <1>2, ProcsAssumption, FS_Subset

\* A step of p that changes one file of p at most changes the number of holders by that
\* file, and by p itself when it starts or ends being counted.
LEMMA HoldersChange ==
    ASSUME Typed, Typed', NEW p \in Procs, \A q \in Procs \ {p} : KeepsOf(q),
           NEW m \in SUBSET {"R", "W"}, files'[p] \ {m} = files[p] \ {m}, NEW e
    PROVE  /\ Holders(e) \in Int
           /\ Holders(e)' = Holders(e) + EndOf(files', p, m, e) - EndOf(files, p, m, e)
                              + (IF Counted(p, e)' THEN 1 ELSE 0)
                              - (IF Counted(p, e) THEN 1 ELSE 0)
<1>. DEFINE F == EndFiles(e)
            G == EndFiles(e)'
            P == EndProcs(e)
            Q == EndProcs(e)'
            x == <<p, m>>
<1>1. IsFiniteSet(F) /\ IsFiniteSet(G) /\ IsFiniteSet(P) /\ IsFiniteSet(Q)
  <2>1. /\ F \subseteq Procs \X SUBSET {"R", "W"} /\ G \subseteq Procs \X SUBSET {"R", "W"}
        /\ P \subseteq Procs /\ Q \subseteq Procs
    BY DEF EndFiles, EndProcs
  <2>. QED  BY <2>1, EndsFinite
<1>2. F \ {x} = G \ {x}
  <2>1. ASSUME NEW q \in Procs, NEW n \in SUBSET {"R", "W"}, <<q, n>> # x
        PROVE  n \in files[q] <=> n \in files'[q]
    BY <2>1 DEF KeepsOf
  <2>. QED  BY <2>1 DEF EndFiles
<1>3. P \ {p} = Q \ {p}
  BY DEF EndProcs, Counted, KeepsOf
<1>4. (x \in F <=> m \in files[p] /\ e \in m) /\ (x \in G <=> m \in files'[p] /\ e \in m)
  BY DEF EndFiles
<1>5. (p \in P <=> Counted(p, e)) /\ (p \in Q <=> Counted(p, e)')
  BY DEF EndProcs
<1>6. /\ Cardinality(F) \in Nat /\ Cardinality(P) \in Nat
      /\ Cardinality(G) = Cardinality(F) + EndOf(files', p, m, e) - EndOf(files, p, m, e)
  BY <1>1, <1>2, <1>4, OneElement, FS_CardinalityType DEF EndOf
<1>7. Cardinality(Q) = Cardinality(P) + (IF Counted(p, e)' THEN 1 ELSE 0)
                                      - (IF Counted(p, e) THEN 1 ELSE 0)
  BY <1>1, <1>3, <1>5, OneElement
<1>8. Holders(e) = Cardinality(F) + Cardinality(P) /\ Holders(e)' = Cardinality(G) + Cardinality(Q)
  BY DEF Holders, EndFiles, EndProcs, Counted
<1>. HIDE DEF F, G, P, Q, x
<1>. QED  BY <1>6, <1>7, <1>8 DEF EndOf
\* What a step of p that changes the file m of p at most adds to the holders of e.
Gained(p, m, e) == EndOf(files', p, m, e) - EndOf(files, p, m, e)
                     + (IF Counted(p, e)' THEN 1 ELSE 0) - (IF Counted(p, e) THEN 1 ELSE 0)

\* The step of p leaves the files of p alone, but for m, and the counts follow.
CountMove(p, m) == /\ files'[p] \ {m} = files[p] \ {m}
                   /\ frcnt' = frcnt + Gained(p, m, "R")
                   /\ fwcnt' = fwcnt + Gained(p, m, "W")

\* Where neither the files nor what a process is counted for changes.
LEMMA NothingMoved ==
    ASSUME Typed, NEW p \in Procs, UNCHANGED cntVars,
           \A e : Counted(p, e)' <=> Counted(p, e)
    PROVE  CountMove(p, {})
<1>1. Counted(p, "R")' <=> Counted(p, "R")
  OBVIOUS
<1>2. Counted(p, "W")' <=> Counted(p, "W")
  OBVIOUS
<1>. QED  BY <1>1, <1>2 DEF CountMove, Gained, EndOf, cntVars, Typed

\* openp counts an end when it begins to hold one, closep when it is given up; the two ways
\* of copen to undo an open keep to that.
LEMMA CountMoves ==
    ASSUME Typed, Purpose, NEW p \in Procs, Doing(p), ~SysPipe(p)
    PROVE  \E m \in SUBSET {"R", "W"} : CountMove(p, m)
<1>. USE DEF pipeVars, cntVars, lockVars, argVars
<1>0. PurposeOf(p) /\ mode[p] \in SUBSET {"R", "W"} /\ {} \in SUBSET {"R", "W"}
  BY DEF Purpose, Typed
<1>1. ASSUME NEW m \in Modes, NEW nd \in NDelays, Open(p, m, nd) PROVE CountMove(p, {})
  BY <1>1, NothingMoved DEF Open, Enter, Plock, Awake, Counted, Typed
<1>2. ASSUME NEW m \in files[p], Close(p, m) PROVE CountMove(p, m)
  BY <1>2 DEF Close, Enter, Plock, Awake, CountMove, Gained, EndOf, Counted, Typed
<1>3. ASSUME NEW n, NEW nd, Read(p, n, nd) \/ Write(p, n, nd) PROVE CountMove(p, {})
  BY <1>3, NothingMoved DEF Read, Write, Enter, Plock, Awake, Counted, Typed
<1>4. CASE PlockAgain(p)
  BY <1>0, <1>4, NothingMoved DEF PlockAgain, Plock, Awake, PurposeOf, Counted, Typed, Todos
<1>5. CASE Openp(p)
  BY <1>0, <1>5 DEF Openp, Opened, Return, Awake, PurposeOf, CountMove, Gained, EndOf, Ends,
                    Counted, Typed
<1>6. CASE OpenpAgain(p)
  BY <1>0, <1>6 DEF OpenpAgain, Opened, Return, Awake, PurposeOf, CountMove, Gained, EndOf,
                    Counted, Typed
<1>7. CASE OpenpRefuse(p)
  BY <1>7, NothingMoved DEF OpenpRefuse, Awake, Counted, Typed
<1>8. CASE OpenpIntr(p)
  BY <1>8, NothingMoved DEF OpenpIntr, Counted, Typed
<1>9. CASE Iput(p) \/ CloseFree(p) \/ ReadiEmpty(p) \/ WriteiFail(p) \/ WaitIntr(p)
  BY <1>9, NothingMoved
  DEF Iput, CloseFree, ReadiEmpty, WriteiFail, WaitIntr, Return, Awake, Counted, Typed
<1>10. CASE Closep(p)
  <2>1. pc[p] = "close" /\ pc'[p] \in {"closefree", "user"}
    BY <1>10 DEF Closep, Return, Awake, Typed
  <2>2. /\ \A e : Counted(p, e) <=> e \in mode[p]
        /\ \A e : ~Counted(p, e)'
    BY <2>1 DEF Counted
  <2>3. ~Counted(p, "R")' /\ ~Counted(p, "W")'
    BY <2>2
  <2>4. /\ files' = files
        /\ frcnt' = frcnt - Ends(mode[p], "R") /\ fwcnt' = fwcnt - Ends(mode[p], "W")
    BY <1>10 DEF Closep
  <2>5. /\ Gained(p, mode[p], "R") = 0 - Ends(mode[p], "R")
        /\ Gained(p, mode[p], "W") = 0 - Ends(mode[p], "W")
    BY <2>2, <2>3, <2>4 DEF Gained, EndOf, Ends
  <2>6. Ends(mode[p], "R") \in Int /\ Ends(mode[p], "W") \in Int
    BY DEF Ends
  <2>. QED  BY <2>4, <2>5, <2>6 DEF CountMove, Typed
<1>11. CASE ReadiSleep(p) \/ WriteiSleep(p)
  BY <1>11, NothingMoved DEF ReadiSleep, WriteiSleep, PreleSleep, Awake, Counted, Typed
<1>12. CASE ReadiStart(p) \/ WriteiStart(p)
  BY <1>12, NothingMoved DEF ReadiStart, WriteiStart, Awake, Counted, Typed
<1>13. ASSUME NEW ok \in Copies, ReadiBlock(p, ok) PROVE CountMove(p, {})
  BY <1>13, NothingMoved DEF ReadiBlock, ReadiEnd, Return, Awake, Counted, Typed
<1>14. ASSUME NEW ok \in Copies, WriteiBlock(p, ok) PROVE CountMove(p, {})
  BY <1>14, NothingMoved DEF WriteiBlock, WriteiEnd, Return, Awake, Counted, Typed
<1>15. ASSUME NEW m \in files[p], CountMove(p, m) PROVE \E n \in SUBSET {"R", "W"} : CountMove(p, n)
  BY <1>15 DEF Typed
<1>. HIDE DEF CountMove
<1>a. CASE Call(p)
  BY <1>a, <1>0, <1>1, <1>2, <1>3, <1>15 DEF Call
<1>b. CASE Step(p) \/ OpenpIntr(p) \/ WaitIntr(p)
  <2>1. ASSUME CountMove(p, {}) \/ CountMove(p, mode[p])
        PROVE \E m \in SUBSET {"R", "W"} : CountMove(p, m)
    BY <1>0, <2>1
  <2>. QED  BY <1>b, <2>1, <1>4, <1>5, <1>6, <1>7, <1>8, <1>9, <1>10, <1>11, <1>12, <1>13, <1>14
            DEF Step
<1>. QED  BY <1>a, <1>b DEF Doing

\* pipe finds no file open, and makes one for each end.
LEMMA SysPipeCounts ==
    ASSUME Typed, Typed', NEW p \in Procs, SysPipe(p)
    PROVE  CountsExact'
<1>1. ASSUME NEW e \in {"R", "W"} PROVE Holders(e)' = 1
  <2>1. EndFiles(e)' = {<<p, {e}>>}
    BY DEF EndFiles, SysPipe, Typed
  <2>2. EndProcs(e)' = {}
    BY DEF EndProcs, Counted, SysPipe, argVars, Typed
  <2>3. Cardinality(EndFiles(e)') = 1 /\ Cardinality(EndProcs(e)') = 0
    BY <2>1, <2>2, FS_Singleton, FS_EmptySet
  <2>. QED  BY <2>3 DEF Holders, EndFiles, EndProcs, Counted
<1>. QED  BY <1>1 DEF CountsExact, SysPipe

\* Every step keeps i_frcnt and i_fwcnt exact.
LEMMA CountsStep ==
    ASSUME Typed, Typed', Purpose, CountsExact, NEW p \in Procs, Doing(p)
    PROVE  CountsExact'
<1>1. CASE SysPipe(p)
  BY <1>1, SysPipeCounts
<1>2. CASE ~SysPipe(p)
  <2>1. PICK m \in SUBSET {"R", "W"} : CountMove(p, m)
    BY <1>2, CountMoves
  <2>2. \A q \in Procs \ {p} : KeepsOf(q)
    BY OthersKeep
  <2>3. /\ Holders("R")' = Holders("R") + EndOf(files', p, m, "R") - EndOf(files, p, m, "R")
              + (IF Counted(p, "R")' THEN 1 ELSE 0) - (IF Counted(p, "R") THEN 1 ELSE 0)
        /\ Holders("W")' = Holders("W") + EndOf(files', p, m, "W") - EndOf(files, p, m, "W")
              + (IF Counted(p, "W")' THEN 1 ELSE 0) - (IF Counted(p, "W") THEN 1 ELSE 0)
        /\ Holders("R") \in Int /\ Holders("W") \in Int
    BY <2>1, <2>2, HoldersChange DEF CountMove
  <2>. QED  BY <2>1, <2>3 DEF CountMove, Gained, CountsExact, EndOf
<1>. QED  BY <1>1, <1>2
-----------------------------------------------------------------------------
(* Sleepers *)

\* A count is never negative, and an end that is held is counted.
LEMMA EndsHeld ==
    ASSUME Typed, CountsExact
    PROVE  /\ frcnt >= 0 /\ fwcnt >= 0
           /\ \A p \in Procs : \A m \in files[p] : /\ "R" \in m => frcnt > 0
                                                   /\ "W" \in m => fwcnt > 0
           /\ \A p \in Procs : /\ Counted(p, "R") => frcnt > 0
                               /\ Counted(p, "W") => fwcnt > 0
<1>1. ASSUME NEW e
      PROVE  /\ Holders(e) >= 0 /\ Holders(e) \in Int
             /\ \A p \in Procs : \A m \in files[p] : e \in m => Holders(e) > 0
             /\ \A p \in Procs : Counted(p, e) => Holders(e) > 0
  <2>. DEFINE F == EndFiles(e)
              P == EndProcs(e)
  <2>1. IsFiniteSet(F) /\ IsFiniteSet(P)
    <3>1. F \subseteq Procs \X SUBSET {"R", "W"} /\ P \subseteq Procs
      BY DEF EndFiles, EndProcs
    <3>. QED  BY <3>1, EndsFinite
  <2>2. /\ Cardinality(F) \in Nat /\ Cardinality(P) \in Nat
        /\ F # {} => Cardinality(F) # 0
        /\ P # {} => Cardinality(P) # 0
    BY <2>1, FS_CardinalityType, FS_EmptySet
  <2>3. Holders(e) = Cardinality(F) + Cardinality(P)
    BY DEF Holders, EndFiles, EndProcs, Counted
  <2>4. ASSUME NEW p \in Procs, NEW m \in files[p], e \in m PROVE F # {}
    <3>1. <<p, m>> \in F
      BY <2>4 DEF EndFiles, Typed
    <3>. QED  BY <3>1
  <2>5. ASSUME NEW p \in Procs, Counted(p, e) PROVE P # {}
    BY <2>5 DEF EndProcs
  <2>. HIDE DEF F, P
  <2>. QED  BY <2>2, <2>3, <2>4, <2>5
<1>. QED  BY <1>1 DEF CountsExact

\* Who sleeps on after prele did not wait for the lock, nor for what is woken with it.
LEMMA PreleWakes ==
    ASSUME Typed, Sleepers, NEW q \in Procs, NEW C, Prele(C), wchan'[q] # None
    PROVE  wchan'[q] = wchan[q] /\ wchan[q] \notin C /\ wchan[q] # "inode"
<1>1. wchan[q] = "inode" => iwant
  BY ProcsAssumption DEF Sleepers, Asleep, Chans
<1>. QED  BY <1>1 DEF Prele, Woken, Waiting
\* Where p may go without a change for those who sleep on.
Aside(p) == /\ pc[p] \notin {"readloop", "writeloop", "closefree"}
            /\ pc'[p] # "closefree"

\* A sleeper that p does not wake stays as it was, when p changes nothing the sleeper waits
\* for and sets flags only.
LEMMA StaysAsleep ==
    ASSUME Typed, Typed', Sleepers, NEW p \in Procs, \A r \in Procs \ {p} : KeepsOf(r),
           NEW q \in Procs \ {p}, wchan'[q] # None,
           wchan[q] = "inode" => ilock' /\ iwant',
           UNCHANGED <<size, frcnt, fwcnt>>, fflag \subseteq fflag', Aside(p)
    PROVE  Asleep(q)'
<1>1. KeepsOf(q) /\ wchan'[q] = wchan[q] /\ Asleep(q)
  BY DEF Sleepers, KeepsOf
<1>2. \A r \in Procs \ {p} : pc'[r] = pc[r]
  BY DEF KeepsOf
<1>3. /\ Inside("readloop") => Inside("readloop")'
      /\ Inside("writeloop") => Inside("writeloop")'
      /\ Inside("closefree")' => Inside("closefree")
  BY <1>2 DEF Inside, Aside
<1>4. Full(q) => Full(q)'
  BY <1>1 DEF Full, KeepsOf
<1>. HIDE DEF Full, Inside
<1>. QED  BY <1>1, <1>3, <1>4 DEF Asleep, KeepsOf

\* plock: who finds the lock taken waits for it, and prele will see that.
LEMMA PlockSleeps ==
    ASSUME Typed, Sleepers, NEW p \in Procs, NEW l, Plock(p, l), wchan[p] = None
    PROVE  /\ wchan'[p] # None => pc'[p] = "plock" /\ wchan'[p] = "inode" /\ ilock' /\ iwant'
           /\ \A q \in Procs \ {p} : wchan[q] = "inode" => ilock' /\ iwant'
<1>1. \A q \in Procs : wchan[q] = "inode" => ilock /\ iwant
  BY ProcsAssumption DEF Sleepers, Asleep, Chans
<1>. QED  BY <1>1 DEF Plock, Typed

\* openp: who goes to sleep waits for an end that nobody has; with both ends in one file there
\* is nothing to wait for.
LEMMA OpensAsleep ==
    ASSUME Typed, Typed', Purpose, CountsExact, NEW p \in Procs, Openp(p) \/ OpenpAgain(p),
           wchan'[p] # None
    PROVE  Asleep(p)'
<1>1. mode[p] \in {{"R"}, {"W"}, {"R", "W"}}
  <2>1. mode[p] \in Modes
    BY DEF Purpose, PurposeOf, Openp, OpenpAgain, Awake
  <2>2. mode[p] \subseteq {"R", "W"} /\ mode[p] # {}
    BY <2>1, ModesAssumption
  <2>3. CASE "R" \in mode[p] /\ "W" \in mode[p]
    BY <2>2, <2>3
  <2>4. CASE "R" \in mode[p] /\ "W" \notin mode[p]
    BY <2>2, <2>4
  <2>5. CASE "R" \notin mode[p]
    BY <2>2, <2>5
  <2>. QED  BY <2>3, <2>4, <2>5
<1>2. frcnt \in Int /\ fwcnt \in Int /\ frcnt >= 0 /\ fwcnt >= 0
  BY EndsHeld DEF Typed
<1>3. CASE Openp(p)
  <2>. DEFINE c == OpenWait(mode[p], ndelay[p], frcnt', fwcnt')
  <2>1. /\ frcnt' = frcnt + Ends(mode[p], "R") /\ fwcnt' = fwcnt + Ends(mode[p], "W")
        /\ size' = size
    BY <1>3 DEF Openp, pipeVars
  <2>2. wchan'[p] = c
    BY <1>3 DEF Openp, Woken, Typed
  <2>3. pc'[p] = "openp" /\ UNCHANGED <<mode, ndelay>>
    BY <1>3, <2>1, <2>2 DEF Openp, argVars, Typed
  <2>4. mode[p] = {"R", "W"} => c = None
    BY <1>2, <2>1 DEF OpenWait, Ends
  <2>. QED  BY <1>1, <2>1, <2>2, <2>3, <2>4 DEF OpenWait, Asleep, Typed
<1>4. CASE OpenpAgain(p)
  <2>. DEFINE c == OpenWait(mode[p], ndelay[p], frcnt, fwcnt)
  <2>1. wchan'[p] = c /\ UNCHANGED <<size, frcnt, fwcnt>>
    BY <1>4 DEF OpenpAgain, pipeVars, Typed
  <2>2. pc'[p] = "openp" /\ UNCHANGED <<mode, ndelay>> /\ pc[p] = "openp"
    BY <1>4, <2>1 DEF OpenpAgain, Awake, argVars, Typed
  <2>3. mode[p] = {"R", "W"} => frcnt > 0 /\ fwcnt > 0
    BY <2>2, EndsHeld DEF Counted
  <2>. QED  BY <1>1, <1>2, <2>1, <2>2, <2>3 DEF OpenWait, Asleep, Typed
<1>. QED  BY <1>3, <1>4

\* Nobody sleeps for something that has come already, whatever p does.
LEMMA SleepersStep ==
    ASSUME Typed, Typed', LockExact, Purpose, CountsExact, Sleepers, NEW p \in Procs, Doing(p)
    PROVE  Sleepers'
<1>. USE DEF pipeVars, cntVars, lockVars, argVars
<1>. SUFFICES ASSUME NEW q \in Procs, wchan'[q] # None PROVE Asleep(q)'
  BY DEF Sleepers
<1>k. \A r \in Procs \ {p} : KeepsOf(r)
  BY OthersKeep
<1>a. p # q => wchan'[q] = wchan[q] /\ Asleep(q)
  BY <1>k DEF Sleepers, KeepsOf
<1>p. ASSUME NEW C, Prele(C), Return(p), UNCHANGED <<size, frcnt, fwcnt, fflag>>, Aside(p),
             wchan[p] = None
      PROVE  Asleep(q)'
  <2>1. wchan'[p] = None
    BY <1>p DEF Prele, Woken, Typed
  <2>2. wchan[q] # "inode"
    BY <1>p, PreleWakes
  <2>. QED  BY <1>k, <1>p, <2>1, <2>2, StaysAsleep
<1>1. ASSUME NEW t \in Locked, NEW m, NEW nd, NEW n, Enter(p, t, m, nd, n), t # "closefree"
      PROVE  Asleep(q)'
  <2>1. /\ wchan[p] = None /\ Plock(p, t)
        /\ UNCHANGED <<size, frcnt, fwcnt, fflag>>
    BY <1>1 DEF Enter, Awake
  <2>2. Aside(p)
    BY <1>1 DEF Enter, Awake, Plock, Aside, Typed
  <2>3. CASE q = p
    BY <2>1, <2>3, PlockSleeps DEF Asleep
  <2>4. CASE q # p
    BY <1>k, <2>1, <2>2, <2>4, PlockSleeps, StaysAsleep
  <2>. QED  BY <2>3, <2>4
<1>2. CASE Call(p)
  <2>1. CASE SysPipe(p)
    <3>1. pc[q] = "user" /\ wchan[q] # None
      BY <2>1 DEF SysPipe
    <3>. QED  BY <3>1 DEF Sleepers, Asleep
  <2>. QED  BY <1>1, <1>2, <2>1 DEF Call, Open, Close, Read, Write, Locked
<1>3. CASE PlockAgain(p)
  <2>1. /\ wchan[p] = None /\ Plock(p, todo[p])
        /\ UNCHANGED <<size, frcnt, fwcnt, fflag>>
    BY <1>3 DEF PlockAgain, Awake
  <2>2. Aside(p)
    BY <1>3 DEF PlockAgain, Awake, Plock, Aside, Typed, Todos
  <2>3. CASE q = p
    BY <2>1, <2>3, PlockSleeps DEF Asleep
  <2>4. CASE q # p
    BY <1>k, <2>1, <2>2, <2>4, PlockSleeps, StaysAsleep
  <2>. QED  BY <2>3, <2>4
<1>4. CASE Iput(p) \/ ReadiEmpty(p) \/ WriteiFail(p)
  <2>1. Prele({}) /\ Return(p) /\ UNCHANGED <<size, frcnt, fwcnt, fflag>> /\ wchan[p] = None
    BY <1>4 DEF Iput, ReadiEmpty, WriteiFail, Awake
  <2>2. Aside(p)
    BY <1>4 DEF Iput, ReadiEmpty, WriteiFail, Awake, Return, Aside, Typed
  <2>. QED  BY <1>p, <2>1, <2>2
<1>5. CASE OpenpRefuse(p)
  <2>1. Prele({}) /\ UNCHANGED <<size, frcnt, fwcnt, fflag>> /\ wchan[p] = None /\ Aside(p)
    BY <1>5 DEF OpenpRefuse, Awake, Aside, Typed
  <2>2. wchan'[p] = None
    BY <2>1 DEF Prele, Woken, Typed
  <2>3. wchan[q] # "inode"
    BY <2>1, PreleWakes
  <2>. QED  BY <1>k, <2>1, <2>2, <2>3, StaysAsleep
<1>6. CASE OpenpIntr(p) \/ WaitIntr(p)
  <2>1. /\ wchan'[p] = None /\ UNCHANGED <<size, frcnt, fwcnt, fflag, ilock, iwant>>
        /\ Aside(p)
    BY <1>6 DEF OpenpIntr, WaitIntr, Return, Aside, Typed
  <2>2. wchan[q] = "inode" => ilock /\ iwant
    BY ProcsAssumption DEF Sleepers, Asleep, Chans
  <2>. QED  BY <1>k, <2>1, <2>2, StaysAsleep
<1>7. CASE OpenpAgain(p)
  <2>1. UNCHANGED <<size, frcnt, fwcnt, fflag, ilock, iwant>> /\ Aside(p)
    BY <1>7 DEF OpenpAgain, Opened, Return, Awake, Aside, Typed
  <2>2. CASE q # p
    <3>1. wchan[q] = "inode" => ilock /\ iwant
      BY ProcsAssumption DEF Sleepers, Asleep, Chans
    <3>. QED  BY <1>k, <2>1, <2>2, <3>1, StaysAsleep
  <2>3. CASE q = p
    BY <1>7, <2>1, <2>3, OpensAsleep
  <2>. QED  BY <2>2, <2>3
<1>8. CASE Openp(p)
  <2>. DEFINE m == mode[p]
              W == Waiting \cup (IF frcnt = 0 /\ "R" \in m THEN {"frcnt"} ELSE {})
                           \cup (IF fwcnt = 0 /\ "W" \in m THEN {"fwcnt"} ELSE {})
  <2>1. CASE q # p
    <3>1. wchan'[q] = Woken(W)[q]
      BY <1>8, <2>1 DEF Openp, Woken
    <3>2. /\ wchan[q] \notin W /\ wchan'[q] = wchan[q] /\ Asleep(q)
      BY <1>a, <2>1, <3>1 DEF Woken
    <3>3. /\ UNCHANGED <<size, fflag>>
          /\ frcnt' = frcnt + Ends(m, "R") /\ fwcnt' = fwcnt + Ends(m, "W")
          /\ pc[p] = "open" /\ pc'[p] \in {"openp", "user"}
      BY <1>8 DEF Openp, Opened, Return, Awake, Typed
    <3>4. /\ frcnt' >= frcnt /\ fwcnt' >= fwcnt
          /\ wchan[q] = "frcnt" /\ frcnt = 0 => frcnt' = 0
          /\ wchan[q] = "fwcnt" /\ fwcnt = 0 => fwcnt' = 0
      BY <3>2, <3>3 DEF Ends, Typed
    <3>5. wchan[q] = "inode" => ~iwant
      BY <3>2 DEF Waiting
    <3>6. /\ \A r \in Procs \ {p} : pc'[r] = pc[r]
          /\ Inside("readloop") => Inside("readloop")'
          /\ Inside("writeloop") => Inside("writeloop")'
          /\ Inside("closefree")' => Inside("closefree")
      BY <1>k, <3>3 DEF Inside, KeepsOf
    <3>7. Full(q) => Full(q)'
      BY <1>k, <2>1, <3>3 DEF Full, KeepsOf
    <3>8. KeepsOf(q)
      BY <1>k, <2>1
    <3>. HIDE DEF W
    <3>. HIDE DEF m
    <3>. QED  BY <3>2, <3>3, <3>4, <3>5, <3>6, <3>7, <3>8 DEF Asleep, KeepsOf, Typed
  <2>2. CASE q = p
    BY <1>8, <2>2, OpensAsleep
  <2>. QED  BY <2>1, <2>2
<1>9. CASE CloseFree(p)
  <2>1. Prele({}) /\ UNCHANGED <<frcnt, fwcnt, fflag>> /\ size' = 0 /\ pc[p] = "closefree"
    BY <1>9 DEF CloseFree, Awake
  <2>2. wchan'[p] = None
    BY <1>9, <2>1 DEF CloseFree, Prele, Awake, Woken, Typed
  <2>3. q # p /\ wchan[q] # "inode" /\ Inside("closefree")
    BY <2>1, <2>2, PreleWakes DEF Inside
  <2>. QED  BY <1>a, <1>k, <2>1, <2>3 DEF Asleep, KeepsOf
<1>10. CASE ReadiSleep(p) \/ WriteiSleep(p)
  <2>1. PICK chan \in {"frcnt", "fwcnt"}, l \in {"readwait", "writewait"} : PreleSleep(p, chan, l)
    BY <1>10 DEF ReadiSleep, WriteiSleep
  <2>2. UNCHANGED <<size, frcnt, fwcnt>> /\ fflag \subseteq fflag' /\ Aside(p)
    BY <1>10 DEF ReadiSleep, WriteiSleep, PreleSleep, Awake, Aside, Typed
  <2>3. CASE q # p
    <3>1. wchan'[q] = Woken(Waiting)[q]
      BY <2>1, <2>3 DEF PreleSleep, Woken
    <3>2. wchan[q] # "inode"
      <4>1. wchan[q] = "inode" => iwant
        BY ProcsAssumption DEF Sleepers, Asleep, Chans
      <4>. QED  BY <3>1, <4>1 DEF Woken, Waiting
    <3>. QED  BY <1>k, <2>2, <2>3, <3>2, StaysAsleep
  <2>4. CASE q = p
    <3>1. \A r \in Procs : pc'[r] # "closefree"
      <4>1. pc[p] \in Locked /\ pc[p] # "closefree" /\ pc'[p] # "closefree"
        BY <1>10, <2>2 DEF ReadiSleep, WriteiSleep, Awake, Aside, Locked
      <4>. QED  BY <1>k, <4>1 DEF LockExact, KeepsOf, Locked
    <3>2. ~Inside("closefree")'
      BY <3>1 DEF Inside
    <3>3. CASE ReadiSleep(p)
      <4>1. fwcnt > 0
        BY <3>3, EndsHeld DEF ReadiSleep, Typed
      <4>2. pc'[p] = "readwait" /\ wchan'[p] = "frcnt" /\ size = 0 /\ "IFIR" \in fflag'
        BY <3>3 DEF ReadiSleep, PreleSleep, Typed, Woken
      <4>. QED  BY <2>2, <2>4, <3>2, <4>1, <4>2 DEF Asleep
    <3>4. CASE WriteiSleep(p)
      <4>1. frcnt > 0
        BY <3>4, EndsHeld DEF WriteiSleep, Typed
      <4>2. pc'[p] = "writewait" /\ wchan'[p] = "fwcnt" /\ Full(p)' /\ "IFIW" \in fflag'
        BY <3>4 DEF WriteiSleep, PreleSleep, Typed, Woken, Full
      <4>. QED  BY <2>2, <2>4, <3>2, <4>1, <4>2 DEF Asleep
    <3>. QED  BY <1>10, <3>3, <3>4
  <2>. QED  BY <2>3, <2>4
<1>11. CASE ReadiStart(p) \/ WriteiStart(p)
  <2>1. /\ UNCHANGED <<size, frcnt, fwcnt, fflag, ilock, iwant, wchan>> /\ Aside(p)
        /\ wchan[p] = None
    BY <1>11 DEF ReadiStart, WriteiStart, Awake, Aside, Typed
  <2>2. wchan[q] = "inode" => ilock /\ iwant
    BY ProcsAssumption DEF Sleepers, Asleep, Chans
  <2>. QED  BY <1>k, <2>1, <2>2, StaysAsleep
<1>12. CASE Closep(p)
  <2>. DEFINE m == mode[p]
              lastR == "R" \in m /\ frcnt' = 0 /\ "IFIW" \in fflag
              lastW == "W" \in m /\ fwcnt' = 0 /\ "IFIR" \in fflag
              W == (IF lastR THEN {"fwcnt"} ELSE {}) \cup (IF lastW THEN {"frcnt"} ELSE {})
  <2>1. /\ frcnt' = frcnt - Ends(m, "R") /\ fwcnt' = fwcnt - Ends(m, "W")
        /\ fflag' = fflag \ ((IF lastR THEN {"IFIW"} ELSE {}) \cup (IF lastW THEN {"IFIR"} ELSE {}))
        /\ UNCHANGED size
        /\ pc[p] = "close" /\ wchan[p] = None
    BY <1>12 DEF Closep, Awake
  <2>2. /\ "R" \in m => frcnt > 0
        /\ "W" \in m => fwcnt > 0
    BY <2>1, EndsHeld DEF Counted
  <2>3. /\ wchan[q] # "inode" \/ (ilock' /\ iwant')
        /\ wchan'[q] = wchan[q] /\ wchan[q] \notin W /\ q # p
    <3>1. CASE frcnt' = 0 /\ fwcnt' = 0
      <4>1. wchan' = Woken(W) /\ UNCHANGED <<ilock, iwant>>
        BY <1>12, <3>1 DEF Closep
      <4>2. wchan[q] = "inode" => ilock /\ iwant
        BY ProcsAssumption DEF Sleepers, Asleep, Chans
      <4>. QED  BY <2>1, <4>1, <4>2 DEF Woken
    <3>2. CASE ~(frcnt' = 0 /\ fwcnt' = 0)
      <4>1. Prele(W)
        BY <1>12, <3>2 DEF Closep
      <4>2. wchan'[p] = None
        BY <2>1, <4>1 DEF Prele, Woken
      <4>. HIDE DEF W
      <4>. QED  BY <4>1, <4>2, PreleWakes
    <3>. QED  BY <3>1, <3>2
  <2>4. /\ wchan[q] = "frcnt" => ~("W" \in m /\ fwcnt' = 0 /\ "IFIR" \in fflag)
        /\ wchan[q] = "fwcnt" => ~("R" \in m /\ frcnt' = 0 /\ "IFIW" \in fflag)
        /\ wchan[q] = "frcnt" /\ "IFIR" \in fflag => "IFIR" \in fflag'
        /\ wchan[q] = "fwcnt" /\ "IFIW" \in fflag => "IFIW" \in fflag'
    BY <2>1, <2>3
  <2>5. /\ fwcnt > 0 /\ ~("W" \in m /\ fwcnt' = 0) => fwcnt' > 0
        /\ frcnt > 0 /\ ~("R" \in m /\ frcnt' = 0) => frcnt' > 0
        /\ fwcnt = 0 => fwcnt' = 0
        /\ frcnt = 0 => frcnt' = 0
    BY <2>1, <2>2 DEF Ends, Typed
  <2>6. pc'[p] = IF frcnt' = 0 /\ fwcnt' = 0 THEN "closefree" ELSE "user"
    BY <1>12 DEF Closep, Return, Typed
  <2>7. KeepsOf(q) /\ Asleep(q)
    BY <1>a, <1>k, <2>3
  <2>8. /\ \A r \in Procs \ {p} : pc'[r] = pc[r]
        /\ Inside("readloop") => Inside("readloop")'
        /\ Inside("writeloop") => Inside("writeloop")'
        /\ Inside("closefree")' => Inside("closefree") \/ (frcnt' = 0 /\ fwcnt' = 0)
    BY <1>k, <2>1, <2>6 DEF Inside, KeepsOf
  <2>9. Full(q) => Full(q)'
    BY <2>1, <2>7 DEF Full, KeepsOf
  <2>. HIDE DEF W, lastR, lastW, m
  <2>. QED  BY <2>1, <2>3, <2>4, <2>5, <2>7, <2>8, <2>9 DEF Asleep, KeepsOf, Typed
<1>13. ASSUME NEW ok \in Copies, ReadiBlock(p, ok) PROVE Asleep(q)'
  <2>. DEFINE n == Least(Pbsize(p), size)
              off == IF ok THEN Wrap(offset[p] + n) ELSE offset[p]
  <2>1. /\ size' = size - n /\ UNCHANGED <<frcnt, fwcnt>>
        /\ pc[p] = "readloop" /\ wchan[p] = None
    BY <1>13 DEF ReadiBlock, Awake
  <2>2. size = 0 => size' = 0
    BY <2>1, Sizing DEF Least, Pbsize, Typed
  <2>3. /\ ~Inside("writeloop") /\ ~Inside("closefree")
        /\ pc'[p] # "closefree"
    <3>1. pc'[p] # "closefree"
      BY <1>13, <2>1 DEF ReadiBlock, ReadiEnd, Return, Typed
    <3>. QED  BY <2>1, <3>1 DEF LockExact, Locked, Inside
  <2>4. ~Inside("closefree")'
    BY <1>k, <2>3 DEF Inside, KeepsOf
  <2>5. CASE ReadiEnd(p, size - n, off)
    <3>. DEFINE C == IF "IFIW" \in fflag THEN {"fwcnt"} ELSE {}
    <3>1. Prele(C) /\ fflag' = fflag \ {"IFIW"} /\ Return(p)
      BY <2>5 DEF ReadiEnd
    <3>2. wchan'[p] = None
      BY <2>1, <3>1 DEF Prele, Woken, Typed
    <3>3. q # p /\ wchan[q] # "inode" /\ wchan[q] \notin C
      <4>. HIDE DEF C
      <4>. QED  BY <3>1, <3>2, PreleWakes
    <3>4. pc[q] # "writewait"
      BY <1>a, <3>3 DEF Asleep
    <3>. QED  BY <1>a, <1>k, <2>1, <2>2, <2>3, <2>4, <3>1, <3>3, <3>4 DEF Asleep, KeepsOf
  <2>6. CASE UNCHANGED <<fflag, lockVars, pc, wchan>>
    <3>1. q # p
      BY <2>1, <2>6
    <3>2. Inside("readloop")'
      BY <2>1, <2>6 DEF Inside
    <3>. QED  BY <1>a, <1>k, <2>1, <2>2, <2>3, <2>4, <2>6, <3>1, <3>2 DEF Asleep, KeepsOf
  <2>. QED  BY <1>13, <2>5, <2>6 DEF ReadiBlock
<1>14. ASSUME NEW ok \in Copies, WriteiBlock(p, ok) PROVE Asleep(q)'
  <2>. DEFINE n == Pbsize(p)
              off == IF ok THEN Wrap(offset[p] + n) ELSE offset[p]
  <2>1. /\ size' = size + n /\ UNCHANGED <<frcnt, fwcnt>>
        /\ pc[p] = "writeloop" /\ wchan[p] = None
    BY <1>14 DEF WriteiBlock, Awake
  <2>2. size' >= size /\ size' \in Nat
    BY <2>1, Sizing DEF Least, Pbsize, Typed
  <2>3. fwcnt > 0
    <3>1. \E m \in files[p] : "W" \in m
      BY <2>1 DEF Purpose, PurposeOf
    <3>. QED  BY <3>1, EndsHeld
  <2>4. /\ ~Inside("readloop") /\ ~Inside("closefree") /\ ~Inside("closefree")'
    <3>1. pc'[p] # "closefree"
      BY <1>14, <2>1 DEF WriteiBlock, WriteiEnd, Return, Typed
    <3>2. ~Inside("readloop") /\ ~Inside("closefree")
      BY <2>1 DEF LockExact, Locked, Inside
    <3>. QED  BY <1>k, <3>1, <3>2 DEF Inside, KeepsOf
  <2>5. q # p => (Full(q) => Full(q)')
    BY <1>k, <2>2, Sizing DEF Full, KeepsOf, Typed
  <2>6. CASE WriteiEnd(p, ok, off)
    <3>. DEFINE C == IF "IFIR" \in fflag THEN {"frcnt"} ELSE {}
    <3>1. /\ fflag' = fflag \ {"IFIR"}
          /\ \/ wchan' = Woken(C) /\ UNCHANGED <<ilock, iwant>>
             \/ Prele(C)
      BY <2>6 DEF WriteiEnd
    <3>2. wchan'[p] = None
      BY <2>1, <3>1 DEF Prele, Woken, Typed
    <3>3. /\ q # p /\ wchan[q] \notin C
          /\ wchan[q] = "inode" => UNCHANGED <<ilock, iwant>>
      <4>1. CASE Prele(C)
        <5>. HIDE DEF C
        <5>. QED  BY <3>2, <4>1, PreleWakes
      <4>2. CASE wchan' = Woken(C) /\ UNCHANGED <<ilock, iwant>>
        BY <3>2, <4>2 DEF Woken
      <4>. QED  BY <3>1, <4>1, <4>2
    <3>4. pc[q] # "readwait"
      BY <1>a, <3>3 DEF Asleep
    <3>. HIDE DEF C
    <3>. QED  BY <1>a, <1>k, <2>1, <2>3, <2>4, <2>5, <3>1, <3>3, <3>4 DEF Asleep, KeepsOf
  <2>7. CASE UNCHANGED <<fflag, lockVars, pc, wchan>>
    <3>1. q # p /\ Inside("writeloop")'
      BY <2>1, <2>7 DEF Inside
    <3>. QED  BY <1>a, <1>k, <2>1, <2>3, <2>4, <2>5, <2>7, <3>1 DEF Asleep, KeepsOf
  <2>. QED  BY <1>14, <2>6, <2>7 DEF WriteiBlock
<1>. HIDE DEF pipeVars, cntVars, lockVars, argVars
<1>. QED
  BY <1>2, <1>3, <1>4, <1>5, <1>6, <1>7, <1>8, <1>9, <1>10, <1>11, <1>12, <1>13, <1>14
  DEF Doing, Step

-----------------------------------------------------------------------------
(* The theorems *)

\* A pipe nobody has open satisfies the invariant.
LEMMA PipeInit == Init => PipeInv
<1>. SUFFICES ASSUME Init PROVE PipeInv
  OBVIOUS
<1>1. Typed
  <2>1. {} \in SUBSET SUBSET {"R", "W"} /\ {} \in SUBSET {"R", "W"}
        /\ "user" \in PCs /\ "none" \in Todos
    BY DEF PCs, Todos
  <2>2. /\ files \in [Procs -> SUBSET SUBSET {"R", "W"}]
        /\ mode \in [Procs -> SUBSET {"R", "W"}]
    BY <2>1 DEF Init
  <2>3. /\ pc \in [Procs -> PCs] /\ todo \in [Procs -> Todos]
        /\ wchan \in [Procs -> Chans \cup {None}]
    BY <2>1 DEF Init
  <2>4. ndelay \in [Procs -> BOOLEAN] /\ ilock \in BOOLEAN /\ iwant \in BOOLEAN
    BY Zenon DEF Init
  <2>5. /\ size \in Nat /\ frptr \in Nat /\ fwptr \in Nat /\ frcnt \in Int /\ fwcnt \in Int
        /\ fflag \subseteq {"IFIR", "IFIW"}
        /\ count \in [Procs -> Nat] /\ usave \in [Procs -> Nat] /\ offset \in [Procs -> Nat]
    BY DEF Init
  <2>. QED  BY <2>2, <2>3, <2>4, <2>5 DEF Typed
<1>4. LockExact /\ Purpose /\ Sleepers
  BY DEF Init, LockExact, Locked, Purpose, PurposeOf, Sleepers
<1>2. ASSUME NEW e PROVE Holders(e) = 0
  <2>1. EndFiles(e) = {} /\ EndProcs(e) = {}
    BY DEF Init, EndFiles, EndProcs, Counted
  <2>2. Cardinality(EndFiles(e)) = 0 /\ Cardinality(EndProcs(e)) = 0
    BY <2>1, FS_EmptySet
  <2>. QED  BY <2>2 DEF Holders, EndFiles, EndProcs, Counted
<1>3. CountsExact
  BY <1>2 DEF Init, CountsExact
<1>. QED  BY <1>1, <1>3, <1>4 DEF PipeInv

\* Every step of a process keeps the invariant.
LEMMA PipeStep == PipeInv /\ [Next]_vars => PipeInv'
<1>. SUFFICES ASSUME PipeInv, [Next]_vars PROVE PipeInv'
  OBVIOUS
<1>1. Typed'
  BY TypedStep DEF PipeInv
<1>2. ASSUME NEW p \in Procs, Doing(p) PROVE PipeInv'
  BY <1>1, <1>2, LockStep, PurposeStep, CountsStep, SleepersStep DEF PipeInv
<1>3. CASE UNCHANGED vars
  BY <1>3 DEF vars, pipeVars, cntVars, lockVars, argVars, PipeInv, Typed, LockExact, Purpose,
              PurposeOf, CountsExact, Holders, Sleepers, Asleep, Full, Inside
<1>. QED  BY <1>2, <1>3 DEF Next, Doing

\* No run of the handlers of pipes leaves the invariant.
THEOREM PipeInvariant == Spec => []PipeInv
<1>. QED  BY PipeInit, PipeStep, PTL DEF Spec

\* The lock of the inode excludes: of all that read, write, open and close a pipe at most one
\* is between plock and prele, and ILOCK says whether there is one.
THEOREM PipeLockExcludes == Spec => []LockExact
<1>1. PipeInv => LockExact
  BY DEF PipeInv
<1>. QED  BY <1>1, PipeInvariant, PTL

\* i_frcnt and i_fwcnt are the numbers of ends that are held, whatever opens are refused or
\* interrupted on the way.
THEOREM EndsCounted == Spec => []CountsExact
<1>1. PipeInv => CountsExact
  BY DEF PipeInv
<1>. QED  BY <1>1, PipeInvariant, PTL

\* Nobody sleeps on the inode, in openp, in readi or in writei for what has come already.
THEOREM PipeWakeupsKept == Spec => []NoLostWakeup
<1>1. PipeInv => NoLostWakeup
  <2>. SUFFICES ASSUME PipeInv, NEW p \in Procs, wchan[p] # None
                PROVE  /\ wchan[p] = "inode" => ilock /\ iwant
                       /\ pc[p] = "openp" => wchan[p] = OpenWait(mode[p], ndelay[p], frcnt, fwcnt)
                       /\ pc[p] = "readwait" =>
                             "IFIR" \in fflag /\ fwcnt > 0 /\ (size = 0 \/ Inside("writeloop"))
                       /\ pc[p] = "writewait" =>
                             "IFIW" \in fflag /\ frcnt > 0 /\ (Full(p) \/ Inside("readloop"))
    BY ProcsAssumption DEF NoLostWakeup, Chans
  <2>1. Asleep(p)
    BY DEF PipeInv, Sleepers
  <2>. QED  BY <2>1 DEF Asleep, OpenWait
<1>. QED  BY <1>1, PipeInvariant, PTL

-----------------------------------------------------------------------------
(* The ring of blocks *)

\* The pointers of the ring.
Place(i) == IF i < PIPSIZ THEN i ELSE i - PIPSIZ

\* Where the next byte is written: writei keeps it in u_offset until the end of a part.
Last == IF Inside("writeloop")
          THEN offset[CHOOSE p \in Procs : pc[p] = "writeloop"]
          ELSE fwptr

\* As long as no copy has failed, the bytes of the pipe are those between the pointers, and
\* there is room for what is under way.
RingOK ==
    ~spoilt => /\ size <= PIPSIZ
               /\ First < PIPSIZ /\ Last < PIPSIZ
               /\ Last = Place(First + size)
               /\ \A p \in Procs : pc[p] = "writeloop" => count[p] + size <= PIPSIZ

RingInv ==
    /\ ring \in [0 .. PIPSIZ - 1 -> Procs \cup {None}] /\ spoilt \in BOOLEAN
    /\ \A p \in Procs : pc[p] = "writeloop" => frcnt > 0
    /\ RingOK

\* Products grow with their factors.
LEMMA Products ==
    ASSUME NEW b \in Nat, NEW x \in Nat, NEW y \in Nat, x <= y
    PROVE  b * x <= b * y
<1>1. PICK d \in Nat : y = x + d
  <2>1. y - x \in Nat /\ y = x + (y - x)
    OBVIOUS
  <2>. QED  BY <2>1
<1>2. b * d \in Nat /\ b * x \in Nat
  OBVIOUS
<1>3. b * (x + d) = b * x + b * d
  OBVIOUS
<1>. QED  BY <1>1, <1>2, <1>3

\* The block a byte of the pipe is in lies within the pipe.
LEMMA BlockFacts ==
    ASSUME NEW b \in Nat \ {0}, NEW k \in Nat \ {0}, NEW a \in Nat, a < k * b
    PROVE  /\ a % b \in 0 .. b - 1
           /\ a - (a % b) \in Nat
           /\ a - (a % b) + b <= k * b
           /\ \A i \in Nat : i \div b = a \div b <=> i \in a - (a % b) .. a - (a % b) + b - 1
<1>1. ASSUME NEW i \in Nat
      PROVE  i \div b \in Nat /\ i % b \in 0 .. b - 1 /\ i = b * (i \div b) + (i % b)
  OBVIOUS
<1>. DEFINE q == a \div b
<1>2. q \in Nat /\ a % b \in 0 .. b - 1 /\ a = b * q + (a % b)
  BY <1>1
<1>. HIDE DEF q
<1>3. b * q \in Nat /\ b * (q + 1) = b * q + b /\ b * k = k * b /\ k * b \in Nat
  BY <1>2
<1>4. q + 1 <= k
  <2>1. SUFFICES ASSUME k <= q PROVE FALSE
    BY <1>2
  <2>2. b * k <= b * q
    BY <1>2, <2>1, Products
  <2>. QED  BY <1>2, <1>3, <2>2
<1>5. b * (q + 1) <= b * k
  BY <1>2, <1>4, Products
<1>6. ASSUME NEW i \in Nat PROVE i \div b = q <=> i \in b * q .. b * q + b - 1
  <2>1. PICK j \in Nat : j = i \div b /\ i = b * j + (i % b) /\ i % b \in 0 .. b - 1
    BY <1>1
  <2>2. CASE j = q
    <3>1. i \in b * q .. b * q + b - 1
      BY <1>2, <1>3, <2>1, <2>2
    <3>. QED  BY <2>1, <2>2, <3>1
  <2>3. CASE j + 1 <= q
    <3>1. b * (j + 1) <= b * q /\ b * (j + 1) = b * j + b /\ b * j \in Nat
      BY <1>2, <2>1, <2>3, Products
    <3>. QED  BY <1>3, <2>1, <2>3, <3>1
  <2>4. CASE q + 1 <= j
    <3>1. b * (q + 1) <= b * j /\ b * j \in Nat
      BY <1>2, <2>1, <2>4, Products
    <3>. QED  BY <1>3, <2>1, <2>4, <3>1
  <2>. QED  BY <1>2, <2>1, <2>2, <2>3, <2>4
<1>7. a - (a % b) = b * q
  BY <1>2, <1>3
<1>. QED  BY <1>2, <1>3, <1>5, <1>6, <1>7 DEF q

\* How far the blocks of the pipe reach.
LEMMA BlockOfFacts ==
    ASSUME ring \in [0 .. PIPSIZ - 1 -> Procs \cup {None}], NEW off \in Nat, off < PIPSIZ
    PROVE  /\ off % BSIZE \in 0 .. BSIZE - 1
           /\ off - (off % BSIZE) \in Nat
           /\ off - (off % BSIZE) + BSIZE <= PIPSIZ
           /\ BlockOf(off) = off - (off % BSIZE) .. off - (off % BSIZE) + BSIZE - 1
<1>1. BSIZE \in Nat \ {0} /\ NFADDR \in Nat \ {0} /\ off < NFADDR * BSIZE
  BY SizesAssumption DEF PIPSIZ
<1>2. /\ off % BSIZE \in 0 .. BSIZE - 1
      /\ off - (off % BSIZE) \in Nat
      /\ off - (off % BSIZE) + BSIZE <= PIPSIZ
      /\ \A i \in Nat : i \div BSIZE = off \div BSIZE
                        <=> i \in off - (off % BSIZE) .. off - (off % BSIZE) + BSIZE - 1
  BY <1>1, BlockFacts DEF PIPSIZ
<1>3. PICK lo \in Nat : lo = off - (off % BSIZE)
  BY <1>2
<1>4. PIPSIZ \in Nat /\ DOMAIN ring = 0 .. PIPSIZ - 1
  BY Sizing
<1>5. \A i \in lo .. lo + BSIZE - 1 : i \in Nat /\ i \in 0 .. PIPSIZ - 1
  <2>1. lo + BSIZE <= PIPSIZ /\ BSIZE \in Nat
    BY <1>1, <1>2, <1>3
  <2>. QED  BY <1>4, <2>1
<1>6. \A i \in DOMAIN ring : i \in Nat
  BY <1>4
<1>. QED  BY <1>2, <1>3, <1>4, <1>5, <1>6 DEF BlockOf

\* The remainder for what is less than two rounds.
LEMMA PlaceFacts ==
    ASSUME NEW i \in Nat, i < 2 * PIPSIZ
    PROVE  i % PIPSIZ = Place(i) /\ Place(i) \in 0 .. PIPSIZ - 1
<1>1. ASSUME NEW n \in Nat \ {0}, i < 2 * n
      PROVE  i % n = (IF i < n THEN i ELSE i - n)
  <2>1. PICK q \in Nat, r \in 0 .. n - 1 : i = n * q + r /\ i % n = r
    <3>1. i \div n \in Nat /\ i % n \in 0 .. n - 1 /\ i = n * (i \div n) + (i % n)
      OBVIOUS
    <3>. QED  BY <3>1
  <2>2. CASE q = 0
    BY <2>1, <2>2
  <2>3. CASE q = 1
    BY <2>1, <2>3
  <2>4. CASE 2 <= q
    <3>1. n * 2 <= n * q /\ n * q \in Nat
      BY <2>4, Products
    <3>. QED  BY <1>1, <2>1, <3>1
  <2>. QED  BY <2>2, <2>3, <2>4
<1>2. PIPSIZ \in Nat \ {0}
  BY Sizing
<1>. QED  BY <1>1, <1>2 DEF Place

\* pipe finds no end held.
LEMMA SysPipeIdle ==
    ASSUME CountsExact, NEW p \in Procs, SysPipe(p)
    PROVE  frcnt = 0 /\ fwcnt = 0
<1>1. ASSUME NEW e \in {"R", "W"} PROVE Holders(e) = 0
  <2>1. EndFiles(e) = {}
    BY DEF EndFiles, SysPipe
  <2>2. EndProcs(e) = {}
    BY DEF EndProcs, Counted, SysPipe
  <2>3. Cardinality(EndFiles(e)) = 0 /\ Cardinality(EndProcs(e)) = 0
    BY <2>1, <2>2, FS_EmptySet
  <2>. QED  BY <2>3 DEF Holders, EndFiles, EndProcs, Counted
<1>. QED  BY <1>1 DEF CountsExact

\* Whoever is in the loop of readi or of writei has the pointer.
PointersKept ==
    /\ \A p \in Procs : pc[p] = "readloop" => First = offset[p]
    /\ ~Inside("readloop") => First = frptr
    /\ \A p \in Procs : pc[p] = "writeloop" => Last = offset[p]
    /\ ~Inside("writeloop") => Last = fwptr

\* The lock is exact, so there is only one.
LEMMA Pointers == LockExact => PointersKept
<1>. SUFFICES ASSUME LockExact PROVE PointersKept
  OBVIOUS
<1>1. ASSUME NEW l \in {"readloop", "writeloop"}, NEW p \in Procs, pc[p] = l
      PROVE  Inside(l) /\ (CHOOSE q \in Procs : pc[q] = l) = p
  <2>1. \A q \in Procs : pc[q] = l => q = p
    BY <1>1 DEF LockExact, Locked
  <2>. QED  BY <1>1, <2>1 DEF Inside
<1>. QED  BY <1>1 DEF PointersKept, First, Last

\* A step that moves no byte: where p goes, and what it does to the ends.
QuietStep(p) ==
    /\ UNCHANGED pipeVars
    /\ pc[p] \notin {"readloop", "writeloop", "closefree"}
    /\ pc'[p] = "readloop" => offset'[p] = frptr
    /\ pc'[p] = "writeloop" => /\ offset'[p] = fwptr /\ frcnt' > 0
                               /\ size <= PIPSIZ => count'[p] + size <= PIPSIZ
    /\ \/ frcnt' >= frcnt /\ fwcnt' >= fwcnt /\ pc'[p] # "closefree"
       \/ /\ pc[p] = "close" /\ frcnt' <= frcnt /\ fwcnt' <= fwcnt
          /\ pc'[p] = "closefree" <=> frcnt' = 0 /\ fwcnt' = 0

\* Only the loops of readi and writei and the end of a close do more.
LEMMA QuietSteps ==
    ASSUME PipeInv, NEW p \in Procs, Doing(p)
    PROVE  \/ QuietStep(p)
           \/ CloseFree(p)
           \/ \E ok \in BOOLEAN : ReadiBlock(p, ok) \/ WriteiBlock(p, ok)
<1>. USE DEF pipeVars, cntVars, lockVars, argVars
<1>0. /\ Typed /\ Purpose /\ CountsExact /\ PIPSIZ \in Nat
      /\ size \in Nat /\ frcnt \in Int /\ fwcnt \in Int
      /\ pc \in [Procs -> PCs] /\ offset \in [Procs -> Nat] /\ count \in [Procs -> Nat]
  BY Sizing DEF PipeInv, Typed
<1>1. ASSUME UNCHANGED pipeVars, UNCHANGED <<frcnt, fwcnt>>,
             pc[p] \notin {"readloop", "writeloop", "closefree"},
             pc'[p] \notin {"readloop", "writeloop", "closefree"}
      PROVE  QuietStep(p)
  BY <1>0, <1>1 DEF QuietStep
<1>2. ASSUME NEW l \in {"open", "iput", "close", "read", "write"}, Plock(p, l)
      PROVE  pc'[p] \notin {"readloop", "writeloop", "closefree"}
  BY <1>0, <1>2 DEF Plock
<1>3. ASSUME NEW m \in SUBSET {"R", "W"} PROVE Ends(m, "R") \in {0, 1} /\ Ends(m, "W") \in {0, 1}
  BY DEF Ends
<1>4. mode[p] \in SUBSET {"R", "W"}
  BY <1>0 DEF Typed
<1>5. CASE Call(p)
  <2>1. ASSUME NEW t \in {"open", "close", "read", "write"}, NEW m, NEW nd, NEW n, Enter(p, t, m, nd, n)
        PROVE  QuietStep(p)
    BY <1>1, <1>2, <2>1 DEF Enter, Awake
  <2>2. CASE SysPipe(p)
    <3>1. frcnt = 0 /\ fwcnt = 0
      BY <1>0, <2>2, SysPipeIdle
    <3>. QED  BY <1>0, <2>2, <3>1 DEF SysPipe, QuietStep
  <2>. QED  BY <1>5, <2>1, <2>2 DEF Call, Open, Close, Read, Write
<1>6. CASE PlockAgain(p)
  <2>1. todo[p] \in {"open", "iput", "close", "read", "write"}
    BY <1>0, <1>6 DEF Typed, Todos, Purpose, PurposeOf, PlockAgain, Awake
  <2>. QED  BY <1>1, <1>2, <1>6, <2>1 DEF PlockAgain, Awake
<1>7. CASE Openp(p)
  <2>1. pc'[p] \in {"user", "openp"}
    BY <1>0, <1>7 DEF Openp, Opened, Return
  <2>2. /\ frcnt' = frcnt + Ends(mode[p], "R") /\ fwcnt' = fwcnt + Ends(mode[p], "W")
        /\ UNCHANGED pipeVars /\ pc[p] = "open"
    BY <1>7 DEF Openp, Awake
  <2>. QED  BY <1>0, <1>3, <1>4, <2>1, <2>2 DEF QuietStep
<1>8. CASE OpenpAgain(p)
  <2>1. pc'[p] \in {"user", "openp"} /\ pc[p] = "openp"
    BY <1>0, <1>8 DEF OpenpAgain, Opened, Return, Awake
  <2>. QED  BY <1>1, <1>8, <2>1 DEF OpenpAgain
<1>9. CASE OpenpRefuse(p) \/ OpenpIntr(p)
  <2>1. pc'[p] = "plock" /\ pc[p] \in {"open", "openp"}
    BY <1>0, <1>9 DEF OpenpRefuse, OpenpIntr, Awake
  <2>. QED  BY <1>1, <1>9, <2>1 DEF OpenpRefuse, OpenpIntr
<1>10. CASE Iput(p) \/ ReadiEmpty(p) \/ WriteiFail(p) \/ WaitIntr(p)
  <2>1. pc'[p] = "user" /\ pc[p] \in {"iput", "read", "write", "readwait", "writewait"}
    BY <1>0, <1>10 DEF Iput, ReadiEmpty, WriteiFail, WaitIntr, Awake, Return
  <2>. QED  BY <1>1, <1>10, <2>1 DEF Iput, ReadiEmpty, WriteiFail, WaitIntr
<1>11. CASE Closep(p)
  <2>1. /\ frcnt' = frcnt - Ends(mode[p], "R") /\ fwcnt' = fwcnt - Ends(mode[p], "W")
        /\ UNCHANGED pipeVars /\ pc[p] = "close"
    BY <1>11 DEF Closep, Awake
  <2>2. CASE frcnt' = 0 /\ fwcnt' = 0
    <3>1. pc'[p] = "closefree"
      BY <1>0, <1>11, <2>2 DEF Closep
    <3>. QED  BY <1>0, <1>3, <1>4, <2>1, <2>2, <3>1 DEF QuietStep
  <2>3. CASE ~(frcnt' = 0 /\ fwcnt' = 0)
    <3>1. pc'[p] = "user"
      BY <1>0, <1>11, <2>3 DEF Closep, Return
    <3>. QED  BY <1>0, <1>3, <1>4, <2>1, <2>3, <3>1 DEF QuietStep
  <2>. QED  BY <2>2, <2>3
<1>12. CASE ReadiSleep(p) \/ WriteiSleep(p)
  <2>1. pc'[p] \in {"readwait", "writewait"} /\ pc[p] \in {"read", "write"}
    BY <1>0, <1>12 DEF ReadiSleep, WriteiSleep, PreleSleep, Awake
  <2>. QED  BY <1>1, <1>12, <2>1 DEF ReadiSleep, WriteiSleep
<1>13. CASE ReadiStart(p)
  <2>1. pc'[p] = "readloop" /\ pc[p] = "read" /\ offset'[p] = frptr
    BY <1>0, <1>13 DEF ReadiStart, Awake
  <2>. QED  BY <1>0, <1>13, <2>1 DEF ReadiStart, QuietStep
<1>14. CASE WriteiStart(p)
  <2>1. pc'[p] = "writeloop" /\ pc[p] = "write" /\ offset'[p] = fwptr
    BY <1>0, <1>14 DEF WriteiStart, Awake
  <2>2. frcnt > 0
    <3>1. frcnt >= 0
      BY <1>0, EndsHeld
    <3>. QED  BY <1>0, <1>14, <3>1 DEF WriteiStart
  <2>3. ASSUME size <= PIPSIZ PROVE count'[p] + size <= PIPSIZ
    <3>1. count'[p] = IF count[p] + size > PIPSIZ THEN PIPSIZ - size ELSE count[p]
      BY <1>0, <1>14 DEF WriteiStart
    <3>. QED  BY <1>0, <2>3, <3>1
  <2>. QED  BY <1>0, <1>14, <2>1, <2>2, <2>3 DEF WriteiStart, QuietStep
<1>15. Copies \subseteq BOOLEAN
  BY ModesAssumption
<1>. HIDE DEF pipeVars, cntVars, lockVars, argVars
<1>. QED
  BY <1>5, <1>6, <1>7, <1>8, <1>9, <1>10, <1>11, <1>12, <1>13, <1>14, <1>15
  DEF Doing, Step

\* The bytes of the pipe in their order.
Contents == [i \in 1 .. size |-> ring[(First + i - 1) % PIPSIZ]]

\* Nothing else of a step can be seen in the pipe when the first byte is where it was.
LEMMA QuietKeeps ==
    ASSUME PipeInv, PipeInv', RingInv, NEW p \in Procs, Doing(p), QuietStep(p)
    PROVE  RingInv' /\ First' = First
<1>1. LockExact /\ LockExact' /\ Typed /\ UNCHANGED <<size, frptr, fwptr, ring, spoilt>>
  BY DEF PipeInv, QuietStep, pipeVars
<1>2. ASSUME NEW q \in Procs \ {p}
      PROVE  pc'[q] = pc[q] /\ offset'[q] = offset[q] /\ count'[q] = count[q]
  BY <1>1, OthersKeep DEF KeepsOf
<1>3. /\ \A q \in Procs : pc[q] = "readloop" => First = offset[q]
      /\ ~Inside("readloop") => First = frptr
      /\ \A q \in Procs : pc[q] = "writeloop" => Last = offset[q]
      /\ ~Inside("writeloop") => Last = fwptr
  BY <1>1, Pointers DEF PointersKept
<1>4. /\ \A q \in Procs : pc'[q] = "readloop" => First' = offset'[q]
      /\ ~Inside("readloop")' => First' = frptr'
      /\ \A q \in Procs : pc'[q] = "writeloop" => Last' = offset'[q]
      /\ ~Inside("writeloop")' => Last' = fwptr'
  <2>1. (LockExact => PointersKept)'
    BY Pointers, PTL
  <2>. QED  BY <1>1, <2>1 DEF PointersKept
<1>5. \A q, r \in Procs : pc'[q] \in Locked /\ pc'[r] \in Locked => q = r
  BY <1>1 DEF LockExact
<1>6. pc[p] \notin {"readloop", "writeloop"}
  BY DEF QuietStep
<1>7. First' = First
  <2>1. CASE pc'[p] = "readloop"
    <3>1. ~Inside("readloop")
      BY <1>2, <1>5, <1>6, <2>1 DEF Inside, Locked
    <3>. QED  BY <1>3, <1>4, <2>1, <3>1 DEF QuietStep
  <2>2. ASSUME NEW q \in Procs, pc[q] = "readloop" PROVE First' = First
    BY <1>2, <1>3, <1>4, <1>6, <2>2
  <2>3. CASE pc'[p] # "readloop" /\ ~Inside("readloop")
    <3>1. ~Inside("readloop")'
      BY <1>2, <2>3 DEF Inside
    <3>. QED  BY <1>1, <1>3, <1>4, <2>3, <3>1
  <2>. QED  BY <2>1, <2>2, <2>3 DEF Inside
<1>8. Last' = Last
  <2>1. CASE pc'[p] = "writeloop"
    <3>1. ~Inside("writeloop")
      BY <1>2, <1>5, <1>6, <2>1 DEF Inside, Locked
    <3>. QED  BY <1>3, <1>4, <2>1, <3>1 DEF QuietStep
  <2>2. ASSUME NEW q \in Procs, pc[q] = "writeloop" PROVE Last' = Last
    BY <1>2, <1>3, <1>4, <1>6, <2>2
  <2>3. CASE pc'[p] # "writeloop" /\ ~Inside("writeloop")
    <3>1. ~Inside("writeloop")'
      BY <1>2, <2>3 DEF Inside
    <3>. QED  BY <1>1, <1>3, <1>4, <2>3, <3>1
  <2>. QED  BY <2>1, <2>2, <2>3 DEF Inside
<1>9. ASSUME NEW q \in Procs, pc'[q] = "writeloop"
      PROVE  frcnt' > 0 /\ (RingOK /\ ~spoilt => count'[q] + size <= PIPSIZ)
  <2>1. CASE q = p
    BY <1>9, <2>1 DEF QuietStep, RingOK
  <2>2. CASE q # p
    <3>1. pc[q] = "writeloop" /\ count'[q] = count[q] /\ frcnt > 0
      BY <1>2, <1>9, <2>2 DEF RingInv
    <3>2. pc[p] # "close"
      BY <1>1, <2>2, <3>1 DEF LockExact, Locked
    <3>3. frcnt' > 0
      BY <1>1, <3>1, <3>2 DEF QuietStep, Typed, PipeInv
    <3>. QED  BY <3>1, <3>3 DEF RingOK
  <2>. QED  BY <2>1, <2>2
<1>10. RingOK'
  BY <1>1, <1>7, <1>8, <1>9 DEF RingInv, RingOK, Place
<1>. QED  BY <1>1, <1>7, <1>9, <1>10 DEF RingInv

\* When the last one's close has freed the blocks, the pipe is empty.
LEMMA FreeEmpties ==
    ASSUME PipeInv, PipeInv', RingInv, NEW p \in Procs, CloseFree(p)
    PROVE  RingInv' /\ Inside("closefree") /\ ~Inside("closefree")'
<1>1. /\ LockExact /\ Typed /\ size' = 0 /\ frptr' = 0 /\ fwptr' = 0 /\ spoilt' = FALSE
      /\ ring' = [i \in DOMAIN ring |-> None] /\ pc[p] = "closefree"
      /\ pc' = [pc EXCEPT ![p] = "user"] /\ PIPSIZ \in Nat /\ PIPSIZ > 0
  BY Sizing DEF PipeInv, CloseFree, Awake, Return
<1>2. pc \in [Procs -> PCs]
  BY <1>1 DEF Typed
<1>3. \A q \in Procs : pc'[q] \notin {"readloop", "writeloop", "closefree"}
  BY <1>1, <1>2 DEF LockExact, Locked
<1>4. ~Inside("readloop")' /\ ~Inside("writeloop")' /\ ~Inside("closefree")'
  BY <1>3 DEF Inside
<1>5. First' = 0 /\ Last' = 0
  BY <1>1, <1>4 DEF First, Last
<1>6. RingOK'
  BY <1>1, <1>3, <1>5 DEF RingOK, Place
<1>7. ring' \in [0 .. PIPSIZ - 1 -> Procs \cup {None}]
  BY <1>1 DEF RingInv
<1>. QED  BY <1>1, <1>3, <1>4, <1>6, <1>7 DEF RingInv, Inside

\* The list the pipe is, when no copy has failed.
LEMMA ContentsFacts ==
    RingInv /\ ~spoilt /\ Typed /\ First \in Nat
    => /\ Contents \in Seq(Procs \cup {None}) /\ Len(Contents) = size
       /\ \A j \in 1 .. size : Contents[j] = ring[Place(First + j - 1)]
<1>. SUFFICES ASSUME RingInv, ~spoilt, Typed, First \in Nat
              PROVE  /\ Contents \in Seq(Procs \cup {None}) /\ Len(Contents) = size
                     /\ \A j \in 1 .. size : Contents[j] = ring[Place(First + j - 1)]
  OBVIOUS
<1>1. size \in Nat /\ PIPSIZ \in Nat /\ size <= PIPSIZ /\ First < PIPSIZ
  BY Sizing DEF Typed, RingInv, RingOK
<1>2. ASSUME NEW j \in 1 .. size
      PROVE  /\ Contents[j] = ring[Place(First + j - 1)]
             /\ Contents[j] \in Procs \cup {None}
  <2>1. First + j - 1 \in Nat /\ First + j - 1 < 2 * PIPSIZ
    BY <1>1
  <2>2. Contents[j] = ring[(First + j - 1) % PIPSIZ]
    BY DEF Contents
  <2>. QED  BY <2>1, <2>2, PlaceFacts DEF RingInv
<1>3. Contents = [j \in 1 .. size |-> Contents[j]]
  BY DEF Contents
<1>4. Contents \in Seq(Procs \cup {None}) /\ Len(Contents) = size
  <2>1. \A j \in 1 .. size : Contents[j] \in Procs \cup {None}
    BY <1>2
  <2>. HIDE DEF Contents
  <2>2. PICK c : c = Contents
    OBVIOUS
  <2>3. c = [j \in 1 .. size |-> c[j]] /\ \A j \in 1 .. size : c[j] \in Procs \cup {None}
    BY <1>3, <2>1, <2>2
  <2>4. c \in Seq(Procs \cup {None})
    BY <1>1, <2>3
  <2>5. Len(c) = size
    <3>1. DOMAIN c = 1 .. size
      BY <2>3
    <3>. QED  BY <1>1, <2>4, <3>1
  <2>. QED  BY <2>2, <2>4, <2>5
<1>. QED  BY <1>2, <1>4

\* Where a process is in a loop of readi or writei, it is the only one, and has the pointer.
LEMMA InLoop ==
    ASSUME PipeInv, NEW p \in Procs, pc[p] \in Locked
    PROVE  /\ \A q \in Procs \ {p} : pc[q] \notin Locked
           /\ ~Inside("closefree") \/ pc[p] = "closefree"
           /\ ~Inside("readloop") \/ pc[p] = "readloop"
           /\ ~Inside("writeloop") \/ pc[p] = "writeloop"
<1>1. \A q \in Procs \ {p} : pc[q] \notin Locked
  BY DEF PipeInv, LockExact
<1>. QED  BY <1>1 DEF Inside, Locked

\* What a turn of readi's loop does: it takes n bytes from the front, or spoils the contents, or
\* leaves the pipe empty.
ReadOutcome(n) ==
    \/ /\ ~spoilt /\ ~spoilt' /\ Contents' = SubSeq(Contents, n + 1, size)
       /\ Contents \in Seq(Procs \cup {None}) /\ Len(Contents) = size
    \/ spoilt'
    \/ spoilt /\ ~spoilt' /\ Contents' = <<>>

\* A turn of readi's loop keeps the pointers right, also where they wrap, and the block it drops is of
\* no further use.
LEMMA ReadTurn ==
    ASSUME PipeInv, PipeInv', RingInv, NEW p \in Procs, NEW ok \in BOOLEAN, ReadiBlock(p, ok)
    PROVE  /\ RingInv' /\ UNCHANGED cntVars
           /\ ~Inside("closefree") /\ ~Inside("closefree")'
           /\ \E n \in 0 .. size : ReadOutcome(n)
<1>. DEFINE n == Least(Pbsize(p), size)
            s == size - n
            off == IF ok THEN Wrap(offset[p] + n) ELSE offset[p]
            Ended == ~ok \/ n = count[p] \/ s = 0
<1>1. /\ Typed /\ LockExact /\ PIPSIZ \in Nat /\ PIPSIZ > 0 /\ BSIZE \in Nat /\ BSIZE > 0
      /\ size \in Nat /\ offset[p] \in Nat /\ count[p] \in Nat /\ frptr \in Nat /\ fwptr \in Nat
      /\ pc \in [Procs -> PCs] /\ offset \in [Procs -> Nat]
  BY Sizing, SizesAssumption DEF PipeInv, Typed
<1>2. /\ pc[p] = "readloop" /\ size' = s /\ spoilt' = (s > 0 /\ (spoilt \/ ~ok))
      /\ IF Ended
           THEN ReadiEnd(p, s, off)
           ELSE /\ offset' = [offset EXCEPT ![p] = off]
                /\ UNCHANGED <<frptr, fwptr, pc>>
      /\ ring' = [i \in DOMAIN ring |->
                     IF \/ spoilt' \/ i \in offset[p] .. offset[p] + n - 1
                        \/ i \in Forgotten(p, n, s)
                       THEN None ELSE ring[i]]
      /\ UNCHANGED cntVars
  BY DEF ReadiBlock, Awake
<1>3. n \in 0 .. size /\ n <= BSIZE - (offset[p] % BSIZE) /\ s \in Nat /\ offset[p] % BSIZE \in Nat
  <2>1. BSIZE - (offset[p] % BSIZE) \in Nat /\ offset[p] % BSIZE \in Nat
    <3>1. ASSUME NEW b \in Nat \ {0}, NEW a \in Nat PROVE b - (a % b) \in Nat /\ a % b \in Nat
      OBVIOUS
    <3>. QED  BY <1>1, <3>1
  <2>. QED  BY <1>1, <2>1 DEF Pbsize, Least
<1>. HIDE DEF n
<1>4. /\ \A q \in Procs \ {p} : pc[q] \notin Locked
      /\ ~Inside("closefree") /\ ~Inside("writeloop")
  BY <1>2, InLoop DEF Locked
<1>5. First = offset[p] /\ Last = fwptr
  BY <1>1, <1>2, <1>4, Pointers DEF PointersKept
<1>6. IF Ended
        THEN /\ frptr' = (IF s = 0 THEN 0 ELSE off) /\ fwptr' = (IF s = 0 THEN 0 ELSE fwptr)
             /\ pc' = [pc EXCEPT ![p] = "user"]
        ELSE /\ offset' = [offset EXCEPT ![p] = off]
             /\ UNCHANGED <<frptr, fwptr, pc>>
  BY <1>2 DEF ReadiEnd, Return
<1>. HIDE DEF s, off
<1>7. \A q \in Procs : pc'[q] \notin {"closefree", "writeloop"} /\ (pc'[q] = "readloop" => q = p)
  BY <1>1, <1>2, <1>4, <1>6 DEF Locked
<1>8. ~Inside("closefree")' /\ ~Inside("writeloop")'
  BY <1>7 DEF Inside
<1>9. LockExact' /\ PointersKept'
  <2>1. (LockExact => PointersKept)'
    BY Pointers, PTL
  <2>. QED  BY <2>1 DEF PipeInv
<1>10. ring \in [0 .. PIPSIZ - 1 -> Procs \cup {None}] /\ spoilt \in BOOLEAN
  BY DEF RingInv
<1>11. ring' \in [0 .. PIPSIZ - 1 -> Procs \cup {None}] /\ spoilt' \in BOOLEAN
  BY <1>2, <1>10
<1>12. CASE spoilt'
  <2>1. RingInv'
    BY <1>7, <1>11, <1>12 DEF RingInv, RingOK
  <2>. QED  BY <1>2, <1>3, <1>4, <1>8, <1>12, <2>1 DEF ReadOutcome
<1>13. CASE s = 0
  <2>1. Ended /\ size' = 0 /\ frptr' = 0 /\ fwptr' = 0 /\ ~spoilt' /\ n = size
    <3>1. n = size
      BY <1>1, <1>3, <1>13 DEF s
    <3>2. Ended
      BY <1>13
    <3>3. ~spoilt' /\ size' = 0
      <4>1. ~(s > 0)
        BY <1>13
      <4>2. spoilt' = (s > 0 /\ (spoilt \/ ~ok)) /\ size' = s
        BY <1>2
      <4>. QED  BY ONLY <1>13, <4>1, <4>2
    <3>4. frptr' = 0 /\ fwptr' = 0
      BY <1>6, <1>13, <3>2
    <3>. QED  BY <3>1, <3>2, <3>3, <3>4
  <2>2. ~Inside("readloop")'
    BY <1>1, <1>4, <1>6, <2>1 DEF Inside, Locked
  <2>3. First' = 0 /\ Last' = 0
    BY <1>8, <1>9, <2>1, <2>2 DEF PointersKept
  <2>4. RingInv'
    BY <1>1, <1>7, <1>11, <2>1, <2>3 DEF RingInv, RingOK, Place
  <2>5. Contents' = <<>>
    BY <2>1 DEF Contents
  <2>6. SubSeq(Contents, size + 1, size) = <<>>
    BY <1>1, SubSeqEmpty
  <2>7. ReadOutcome(n)
    <3>1. CASE spoilt
      BY <2>1, <2>5, <3>1 DEF ReadOutcome
    <3>2. CASE ~spoilt
      <4>1. Contents \in Seq(Procs \cup {None}) /\ Len(Contents) = size
        BY <1>1, <1>5, <3>2, ContentsFacts
      <4>. QED  BY <2>1, <2>5, <2>6, <3>2, <4>1 DEF ReadOutcome
    <3>. QED  BY <3>1, <3>2
  <2>. QED  BY <1>2, <1>3, <1>4, <1>8, <2>4, <2>7
<1>14. CASE s > 0 /\ ~spoilt'
  <2>1. ~spoilt /\ ok /\ size' = s
    BY <1>2, <1>10, <1>14
  <2>2. /\ size <= PIPSIZ /\ First < PIPSIZ /\ Last < PIPSIZ /\ Last = Place(First + size)
    BY <2>1 DEF RingInv, RingOK
  <2>3. /\ offset[p] % BSIZE \in 0 .. BSIZE - 1
        /\ offset[p] - (offset[p] % BSIZE) \in Nat
        /\ offset[p] - (offset[p] % BSIZE) + BSIZE <= PIPSIZ
        /\ BlockOf(offset[p]) = offset[p] - (offset[p] % BSIZE) .. offset[p] - (offset[p] % BSIZE) + BSIZE - 1
    BY <1>1, <1>5, <1>10, <2>2, BlockOfFacts
  <2>4. offset[p] + n <= PIPSIZ /\ off = Place(offset[p] + n)
    BY SMTT(60), ZenonT(60), <1>1, <1>3, <2>1, <2>3 DEF off, Wrap, Place
  <2>5. First' = off /\ Last' = Last
    <3>1. CASE Ended
      <4>1. frptr' = off /\ fwptr' = fwptr /\ pc'[p] = "user"
        BY <1>1, <1>6, <1>14, <3>1
      <4>2. ~Inside("readloop")'
        BY <1>7, <4>1 DEF Inside
      <4>. QED  BY <1>5, <1>8, <1>9, <4>1, <4>2 DEF PointersKept
    <3>2. CASE ~Ended
      <4>1. offset'[p] = off /\ fwptr' = fwptr /\ pc'[p] = "readloop"
        BY <1>1, <1>2, <1>6, <3>2
      <4>. QED  BY <1>5, <1>8, <1>9, <4>1 DEF PointersKept
    <3>. QED  BY <3>1, <3>2
  <2>. PICK r \in Nat : r = offset[p] % BSIZE
    BY <1>3
  <2>6. RingOK'
    <3>1. First' < PIPSIZ /\ Last' < PIPSIZ /\ size' <= PIPSIZ
      BY <1>1, <1>3, <1>5, <2>1, <2>2, <2>4, <2>5 DEF Place, s
    <3>2. Last' = Place(First' + size')
      BY <1>1, <1>3, <1>5, <2>1, <2>2, <2>4, <2>5 DEF Place, s
    <3>. QED  BY <1>7, <3>1, <3>2 DEF RingOK, Place
  <2>7. RingInv'
    BY <1>7, <1>11, <2>6 DEF RingInv
  <2>8. ASSUME NEW j \in 1 .. s
        PROVE  ring'[Place(First' + j - 1)] = ring[Place(First + n + j - 1)]
    <3>1. PICK k : k = Place(First' + j - 1)
      OBVIOUS
    <3>2. k = Place(First + n + j - 1) /\ k \in 0 .. PIPSIZ - 1
      BY <1>1, <1>3, <1>5, <2>2, <2>4, <2>5, <2>8, <3>1 DEF Place, s
    <3>3. k \notin offset[p] .. offset[p] + n - 1
      BY <1>1, <1>3, <1>5, <2>2, <2>4, <2>8, <3>2 DEF Place, s
    <3>4. k \notin Forgotten(p, n, s)
      <4>1. SUFFICES ASSUME (offset[p] % BSIZE) + n = BSIZE, s < PIPSIZ - BSIZE,
                            k \in BlockOf(offset[p])
                     PROVE  FALSE
        BY DEF Forgotten
      <4>2. r + n = BSIZE /\ k \in offset[p] - r .. offset[p] - r + BSIZE - 1
        BY <2>3, <4>1
      <4>3. k >= offset[p] + n - BSIZE /\ k <= offset[p] + n - 1
        BY SMTT(60), ZenonT(60), <1>1, <1>3, <4>2
      <4>4. PICK i \in Nat : i = offset[p] + n + j - 1 /\ i >= offset[p] + n
        BY <1>1, <1>3, <2>8
      <4>5. k = Place(i) /\ i < offset[p] + n + s
        BY <1>1, <1>3, <1>5, <2>8, <3>2, <4>4
      <4>6. i - PIPSIZ < offset[p] + n - BSIZE
        BY <1>1, <1>3, <4>1, <4>4, <4>5
      <4>. QED  BY <1>1, <1>3, <4>3, <4>4, <4>5, <4>6 DEF Place
    <3>5. ring'[k] = ring[k]
      BY <1>2, <1>10, <1>14, <3>2, <3>3, <3>4
    <3>. QED  BY <3>1, <3>2, <3>5
  <2>9. Contents' = SubSeq(Contents, n + 1, size)
    <3>1. /\ Contents \in Seq(Procs \cup {None}) /\ Len(Contents) = size
          /\ \A j \in 1 .. size : Contents[j] = ring[Place(First + j - 1)]
      BY <1>1, <1>5, <2>1, ContentsFacts
    <3>2. /\ Contents' \in Seq(Procs \cup {None}) /\ Len(Contents)' = s
          /\ \A j \in 1 .. s : Contents'[j] = ring'[Place(First' + j - 1)]
      <4>1. (RingInv /\ ~spoilt /\ Typed /\ First \in Nat
             => /\ Contents \in Seq(Procs \cup {None}) /\ Len(Contents) = size
                /\ \A j \in 1 .. size : Contents[j] = ring[Place(First + j - 1)])'
        BY ContentsFacts, PTL
      <4>2. First' \in Nat
        BY <1>1, <1>3, <2>4, <2>5 DEF Place
      <4>. QED  BY <1>14, <2>1, <2>7, <4>1, <4>2 DEF PipeInv, Place
    <3>. HIDE DEF Contents
    <3>3. PICK c, d : c = Contents /\ d = Contents'
      OBVIOUS
    <3>4. PICK t : t = SubSeq(c, n + 1, size)
      OBVIOUS
    <3>5. \A j \in n + 1 .. size : c[j] \in Procs \cup {None}
      BY <1>1, <1>3, <3>1, <3>3
    <3>6. /\ t \in Seq(Procs \cup {None}) /\ Len(t) = s
          /\ \A j \in 1 .. s : t[j] = c[n + j]
      BY <1>1, <1>3, <1>14, <3>4, <3>5, SubSeqProperties DEF s
    <3>7. ASSUME NEW j \in 1 .. s PROVE d[j] = t[j]
      <4>1. n + j \in 1 .. size /\ First + (n + j) - 1 = First + n + j - 1
        BY <1>1, <1>3, <1>5, <3>7 DEF s
      <4>2. c[n + j] = ring[Place(First + n + j - 1)]
        BY <3>1, <3>3, <4>1
      <4>. QED  BY <2>8, <3>2, <3>3, <3>6, <4>2
    <3>8. d = t
      BY <3>2, <3>3, <3>6, <3>7, SeqEqual
    <3>. QED  BY <3>3, <3>4, <3>8
  <2>10. Contents \in Seq(Procs \cup {None}) /\ Len(Contents) = size
    BY <1>1, <1>5, <2>1, ContentsFacts
  <2>. QED  BY <1>2, <1>3, <1>4, <1>8, <1>14, <2>1, <2>7, <2>9, <2>10 DEF ReadOutcome
<1>. QED  BY <1>1, <1>3, <1>12, <1>13, <1>14

\* What a turn of writei's loop does: it puts n bytes at the end, while somebody has the pipe open
\* for reading, or spoils the contents.
WriteOutcome(p, n) ==
    \/ /\ ~spoilt /\ ~spoilt' /\ frcnt > 0 /\ size + n <= PIPSIZ
       /\ Contents \in Seq(Procs \cup {None}) /\ Len(Contents) = size
       /\ Contents' = Contents \o [i \in 1 .. n |-> p]
    \/ spoilt'

\* A turn of writei's loop keeps the pointers right, and the block it begins without reading it has no
\* byte of the pipe.
LEMMA WriteTurn ==
    ASSUME PipeInv, PipeInv', RingInv, NEW p \in Procs, NEW ok \in BOOLEAN, WriteiBlock(p, ok)
    PROVE  /\ RingInv' /\ UNCHANGED cntVars
           /\ ~Inside("closefree") /\ ~Inside("closefree")'
           /\ \E n \in Nat : WriteOutcome(p, n)
<1>. DEFINE n == Pbsize(p)
            off == IF ok THEN Wrap(offset[p] + n) ELSE offset[p]
            Ended == ~ok \/ n = count[p]
<1>1. /\ Typed /\ LockExact /\ PIPSIZ \in Nat /\ PIPSIZ > 0 /\ BSIZE \in Nat /\ BSIZE > 0
      /\ size \in Nat /\ offset[p] \in Nat /\ count[p] \in Nat /\ frptr \in Nat /\ fwptr \in Nat
      /\ pc \in [Procs -> PCs] /\ offset \in [Procs -> Nat] /\ count \in [Procs -> Nat]
  BY Sizing, SizesAssumption DEF PipeInv, Typed
<1>2. /\ pc[p] = "writeloop" /\ size' = size + n /\ spoilt' = (spoilt \/ ~ok)
      /\ IF Ended
           THEN WriteiEnd(p, ok, off)
           ELSE /\ offset' = [offset EXCEPT ![p] = off]
                /\ count' = [count EXCEPT ![p] = @ - n]
                /\ UNCHANGED <<fwptr, pc>>
      /\ ring' = [i \in DOMAIN ring |->
                     CASE spoilt' -> None
                       [] ~spoilt' /\ i \in offset[p] .. offset[p] + n - 1 -> p
                       [] OTHER -> IF i \in NotRead(p, n) THEN None ELSE ring[i]]
      /\ UNCHANGED cntVars /\ frptr' = frptr
  BY DEF WriteiBlock, Awake
<1>3. n \in 0 .. count[p] /\ n <= BSIZE - (offset[p] % BSIZE) /\ offset[p] % BSIZE \in Nat
  <2>1. BSIZE - (offset[p] % BSIZE) \in Nat /\ offset[p] % BSIZE \in Nat
    <3>1. ASSUME NEW b \in Nat \ {0}, NEW a \in Nat PROVE b - (a % b) \in Nat /\ a % b \in Nat
      OBVIOUS
    <3>. QED  BY <1>1, <3>1
  <2>. QED  BY <1>1, <2>1 DEF Pbsize, Least
<1>. HIDE DEF n
<1>4. /\ \A q \in Procs \ {p} : pc[q] \notin Locked
      /\ ~Inside("closefree") /\ ~Inside("readloop")
  BY <1>2, InLoop DEF Locked
<1>5. First = frptr /\ Last = offset[p]
  BY <1>1, <1>2, <1>4, Pointers DEF PointersKept
<1>6. IF Ended
        THEN fwptr' = off /\ pc'[p] \in {"user", "write"} /\ \A q \in Procs \ {p} : pc'[q] = pc[q]
        ELSE /\ offset' = [offset EXCEPT ![p] = off]
             /\ count' = [count EXCEPT ![p] = @ - n]
             /\ UNCHANGED <<fwptr, pc>>
  <2>1. WriteiEnd(p, ok, off) =>
          fwptr' = off /\ pc'[p] \in {"user", "write"} /\ \A q \in Procs \ {p} : pc'[q] = pc[q]
    BY <1>1 DEF WriteiEnd, Return
  <2>. QED  BY <1>2, <2>1
<1>. HIDE DEF off
<1>7. \A q \in Procs : pc'[q] \notin {"closefree", "readloop"} /\ (pc'[q] = "writeloop" => q = p)
  <2>1. CASE Ended
    BY <1>4, <1>6, <2>1 DEF Locked
  <2>2. CASE ~Ended
    BY <1>2, <1>4, <1>6, <2>2 DEF Locked
  <2>. QED  BY <2>1, <2>2
<1>8. ~Inside("closefree")' /\ ~Inside("readloop")'
  BY <1>7 DEF Inside
<1>9. LockExact' /\ PointersKept'
  <2>1. (LockExact => PointersKept)'
    BY Pointers, PTL
  <2>. QED  BY <2>1 DEF PipeInv
<1>10. ring \in [0 .. PIPSIZ - 1 -> Procs \cup {None}] /\ spoilt \in BOOLEAN /\ frcnt > 0
  BY <1>2 DEF RingInv
<1>11. ring' \in [0 .. PIPSIZ - 1 -> Procs \cup {None}] /\ spoilt' \in BOOLEAN
  BY <1>2, <1>10
<1>12. frcnt' > 0
  BY <1>2, <1>10 DEF cntVars
<1>13. CASE spoilt'
  <2>1. RingInv'
    BY <1>11, <1>12, <1>13 DEF RingInv, RingOK
  <2>. QED  BY <1>2, <1>3, <1>4, <1>8, <1>13, <2>1 DEF WriteOutcome
<1>14. CASE ~spoilt'
  <2>1. ~spoilt /\ ok
    BY <1>2, <1>10, <1>14
  <2>2. /\ size <= PIPSIZ /\ First < PIPSIZ /\ Last < PIPSIZ /\ Last = Place(First + size)
        /\ count[p] + size <= PIPSIZ
    BY <1>2, <2>1 DEF RingInv, RingOK
  <2>3. /\ offset[p] % BSIZE \in 0 .. BSIZE - 1
        /\ offset[p] - (offset[p] % BSIZE) \in Nat
        /\ offset[p] - (offset[p] % BSIZE) + BSIZE <= PIPSIZ
        /\ BlockOf(offset[p]) = offset[p] - (offset[p] % BSIZE) .. offset[p] - (offset[p] % BSIZE) + BSIZE - 1
    BY <1>1, <1>5, <1>10, <2>2, BlockOfFacts
  <2>4. offset[p] + n <= PIPSIZ /\ off = Place(offset[p] + n)
    BY SMTT(60), ZenonT(60), <1>1, <1>3, <2>1, <2>3 DEF off, Wrap, Place
  <2>5. First' = First /\ Last' = off
    <3>1. CASE Ended
      <4>1. ~Inside("writeloop")' /\ fwptr' = off
        BY <1>6, <1>7, <3>1 DEF Inside
      <4>. QED  BY <1>2, <1>5, <1>8, <1>9, <4>1 DEF PointersKept
    <3>2. CASE ~Ended
      <4>1. offset'[p] = off /\ pc'[p] = "writeloop"
        BY <1>1, <1>2, <1>6, <3>2
      <4>. QED  BY <1>2, <1>5, <1>8, <1>9, <4>1 DEF PointersKept
    <3>. QED  BY <3>1, <3>2
  <2>6. RingOK'
    <3>a. PICK f \in Nat, w \in Nat : f = First /\ w = offset[p]
      BY <1>1, <1>5
    <3>b. /\ f < PIPSIZ /\ w < PIPSIZ /\ w = Place(f + size) /\ size + n <= PIPSIZ
          /\ n \in Nat /\ w + n <= PIPSIZ /\ off = Place(w + n)
      <4>1. n \in Nat /\ size + n <= PIPSIZ
        BY <1>1, <1>3, <2>2
      <4>2. f < PIPSIZ /\ w < PIPSIZ /\ w = Place(f + size)
        BY <1>5, <2>2, <3>a
      <4>3. w + n <= PIPSIZ /\ off = Place(w + n)
        BY <2>4, <3>a
      <4>. QED  BY <4>1, <4>2, <4>3
    <3>c. First' = f /\ Last' = off /\ size' = size + n
      BY <1>2, <2>5, <3>a
    <3>1. First' < PIPSIZ /\ Last' < PIPSIZ /\ size' <= PIPSIZ
      BY <1>1, <3>b, <3>c DEF Place
    <3>2. Last' = Place(First' + size')
      <4>1. Place(w + n) = Place(f + (size + n))
        BY <1>1, <3>b DEF Place
      <4>. QED  BY <3>b, <3>c, <4>1
    <3>3. ASSUME pc'[p] = "writeloop" PROVE count'[p] + size' <= PIPSIZ
      <4>1. ~Ended
        BY <1>6, <3>3
      <4>2. count'[p] = count[p] - n
        BY <1>1, <1>6, <4>1
      <4>. QED  BY <1>1, <1>2, <1>3, <2>2, <4>2
    <3>. QED  BY <1>7, <3>1, <3>2, <3>3 DEF RingOK, Place
  <2>7. RingInv'
    BY <1>11, <1>12, <2>6 DEF RingInv
  <2>. PICK r \in 0 .. BSIZE - 1 : r = offset[p] % BSIZE
    BY <2>3
  <2>8. ASSUME NEW j \in 1 .. size
        PROVE  ring'[Place(First' + j - 1)] = ring[Place(First + j - 1)]
    <3>1. PICK i \in Nat : i = First + j - 1 /\ i < First + size
      BY <1>1, <1>5, <2>8
    <3>2. PICK k \in 0 .. PIPSIZ - 1 : k = Place(i)
      <4>1. i < 2 * PIPSIZ
        BY <1>1, <1>5, <2>2, <3>1
      <4>. QED  BY <4>1, PlaceFacts
    <3>3. ASSUME NEW b \in Nat, b + size <= PIPSIZ, k \in offset[p] .. offset[p] + b - 1
          PROVE  FALSE
      BY <1>1, <1>5, <2>2, <3>1, <3>2, <3>3 DEF Place
    <3>4. k \notin offset[p] .. offset[p] + n - 1
      BY <1>1, <1>3, <2>2, <3>3
    <3>5. k \notin NotRead(p, n)
      <4>1. SUFFICES ASSUME n = BSIZE \/ (r = 0 /\ size < PIPSIZ - BSIZE), k \in BlockOf(offset[p])
                     PROVE  FALSE
        BY DEF NotRead
      <4>2. r = 0
        BY <1>1, <1>3, <4>1
      <4>3. k \in offset[p] .. offset[p] + BSIZE - 1
        BY <1>1, <2>3, <4>1, <4>2
      <4>4. BSIZE + size <= PIPSIZ
        BY <1>1, <1>3, <2>2, <4>1
      <4>. QED  BY <1>1, <3>3, <4>3, <4>4
    <3>6. ring'[k] = ring[k]
      BY <1>2, <1>10, <1>14, <3>2, <3>4, <3>5
    <3>. QED  BY <2>5, <3>1, <3>2, <3>6
  <2>9. ASSUME NEW j \in size + 1 .. size + n
        PROVE  ring'[Place(First' + j - 1)] = p
    <3>1. PICK i \in Nat : i = First + j - 1
      BY <1>1, <1>5, <2>9
    <3>2. PICK k : k = Place(i)
      OBVIOUS
    <3>3. k \in offset[p] .. offset[p] + n - 1 /\ k \in 0 .. PIPSIZ - 1
      BY <1>1, <1>3, <1>5, <2>2, <2>4, <2>9, <3>1, <3>2 DEF Place
    <3>4. ring'[k] = p
      BY <1>2, <1>10, <1>14, <3>3
    <3>. QED  BY <2>5, <3>1, <3>2, <3>4
  <2>10. /\ Contents' = Contents \o [i \in 1 .. n |-> p]
         /\ Contents \in Seq(Procs \cup {None}) /\ Len(Contents) = size
    <3>1. /\ Contents \in Seq(Procs \cup {None}) /\ Len(Contents) = size
          /\ \A j \in 1 .. size : Contents[j] = ring[Place(First + j - 1)]
      BY <1>1, <1>5, <2>1, ContentsFacts
    <3>2. /\ Contents' \in Seq(Procs \cup {None}) /\ Len(Contents)' = size + n
          /\ \A j \in 1 .. size + n : Contents'[j] = ring'[Place(First' + j - 1)]
      <4>1. (RingInv /\ ~spoilt /\ Typed /\ First \in Nat
             => /\ Contents \in Seq(Procs \cup {None}) /\ Len(Contents) = size
                /\ \A j \in 1 .. size : Contents[j] = ring[Place(First + j - 1)])'
        BY ContentsFacts, PTL
      <4>2. First' \in Nat
        BY <1>1, <1>5, <2>5
      <4>. QED  BY <1>2, <1>14, <2>7, <4>1, <4>2 DEF PipeInv, Place
    <3>. HIDE DEF Contents
    <3>3. PICK c, d : c = Contents /\ d = Contents'
      OBVIOUS
    <3>4. PICK t : t = [i \in 1 .. n |-> p]
      OBVIOUS
    <3>5. n \in Nat
      BY <1>1, <1>3
    <3>6. t \in Seq(Procs \cup {None}) /\ Len(t) = n /\ \A i \in 1 .. n : t[i] = p
      BY <3>4, <3>5
    <3>7. PICK e : e = c \o t
      OBVIOUS
    <3>8. /\ e \in Seq(Procs \cup {None}) /\ Len(e) = size + n
          /\ \A j \in 1 .. size + n : e[j] = IF j <= size THEN c[j] ELSE t[j - size]
      BY ZenonT(60), <3>1, <3>3, <3>6, <3>7, ConcatProperties
    <3>9. ASSUME NEW j \in 1 .. size + n PROVE d[j] = e[j]
      <4>1. CASE j <= size
        <5>1. j \in 1 .. size
          BY <1>1, <4>1
        <5>2. d[j] = ring[Place(First + j - 1)] /\ c[j] = ring[Place(First + j - 1)]
          BY <2>8, <3>1, <3>2, <3>3, <3>9, <5>1
        <5>. QED  BY <3>8, <3>9, <4>1, <5>2
      <4>2. CASE ~(j <= size)
        <5>1. j \in size + 1 .. size + n /\ j - size \in 1 .. n
          BY <1>1, <3>5, <3>9, <4>2
        <5>2. d[j] = p
          BY <2>9, <3>2, <3>3, <3>9, <5>1
        <5>. QED  BY <3>6, <3>8, <3>9, <4>2, <5>1, <5>2
      <4>. QED  BY <4>1, <4>2
    <3>10. d = e
      BY <3>2, <3>3, <3>8, <3>9, SeqEqual
    <3>. QED  BY <3>1, <3>3, <3>4, <3>7, <3>10
  <2>11. size + n <= PIPSIZ /\ n \in Nat
    BY <1>1, <1>3, <2>2
  <2>. QED  BY <1>2, <1>4, <1>8, <1>10, <1>14, <2>1, <2>7, <2>10, <2>11 DEF WriteOutcome
<1>. QED  BY <1>13, <1>14

\* Each step keeps the pointers.
LEMMA RingStep ==
    ASSUME PipeInv, PipeInv', RingInv, [Next]_vars
    PROVE  RingInv'
<1>1. ASSUME NEW p \in Procs, Doing(p) PROVE RingInv'
  <2>1. CASE QuietStep(p)
    BY <1>1, <2>1, QuietKeeps
  <2>2. CASE CloseFree(p)
    BY <2>2, FreeEmpties
  <2>3. ASSUME NEW ok \in BOOLEAN, ReadiBlock(p, ok) \/ WriteiBlock(p, ok) PROVE RingInv'
    BY <2>3, ReadTurn, WriteTurn
  <2>. QED  BY <1>1, <2>1, <2>2, <2>3, QuietSteps
<1>2. CASE UNCHANGED vars
  BY <1>2 DEF vars, pipeVars, cntVars, argVars, RingInv, RingOK, First, Last, Place, Inside
<1>. QED  BY <1>1, <1>2 DEF Next, Doing

\* A new pipe is empty.
LEMMA RingStart == Init => RingInv
<1>. SUFFICES ASSUME Init PROVE RingInv
  OBVIOUS
<1>1. PIPSIZ \in Nat /\ PIPSIZ > 0
  BY Sizing
<1>2. \A p \in Procs : pc[p] \notin {"readloop", "writeloop"}
  BY DEF Init
<1>3. size = 0 /\ First = 0 /\ Last = 0
  BY <1>2 DEF Init, First, Last, Inside
<1>4. RingOK
  BY <1>1, <1>2, <1>3 DEF RingOK, Place
<1>5. ring \in [0 .. PIPSIZ - 1 -> Procs \cup {None}] /\ spoilt = FALSE
  BY DEF Init
<1>. QED  BY <1>2, <1>4, <1>5 DEF RingInv

\* The pointers of the ring stay right, as long as no copy fails.
THEOREM RingInvariant == Spec => []RingInv
<1>1. PipeInv /\ PipeInv' /\ RingInv /\ [Next]_vars => RingInv'
  BY RingStep
<1>. QED  BY <1>1, RingStart, PipeInvariant, PTL DEF Spec

\* What a step of the handlers is for the queue of bytes: copies put bytes and take them, or spoil
\* the contents; opens and closes are its Join and Leave, and the last one's close discards.
LEMMA QueueStep ==
    ASSUME PipeInv, PipeInv', RingInv, [Next]_vars
    PROVE  [Queue!Next]_(Queue!vars)
<1>. DEFINE queue == [i \in 1 .. size |-> ring[(First + i - 1) % PIPSIZ]]
            stale == Inside("closefree")
            readers == Holders("R")
            writers == Holders("W")
<1>1. queue = Contents /\ queue' = Contents'
  BY DEF Contents
<1>2. /\ readers = frcnt /\ writers = fwcnt /\ readers' = frcnt' /\ writers' = fwcnt'
      /\ frcnt \in Int /\ fwcnt \in Int /\ size \in Nat /\ PIPSIZ \in Nat
  BY Sizing DEF PipeInv, CountsExact, Typed
<1>3. CASE UNCHANGED vars
  BY <1>3 DEF vars, pipeVars, cntVars, argVars, Queue!vars, Holders, First, Inside
<1>4. ASSUME NEW p \in Procs, Doing(p) PROVE Queue!Next \/ UNCHANGED Queue!vars
  <2>0. \A q \in Procs \ {p} : pc'[q] = pc[q]
    BY <1>4, OthersKeep DEF KeepsOf, PipeInv
  <2>1. CASE QuietStep(p)
    <3>1. queue' = queue /\ spoilt' = spoilt
      <4>1. First' = First /\ size' = size /\ ring' = ring /\ spoilt' = spoilt
        BY <1>4, <2>1, QuietKeeps DEF QuietStep, pipeVars
      <4>. QED  BY <4>1
    <3>2. CASE frcnt' >= frcnt /\ fwcnt' >= fwcnt /\ pc'[p] # "closefree"
      <4>1. stale' = stale
        BY <2>0, <2>1, <3>2 DEF QuietStep, Inside
      <4>. HIDE DEF queue, stale, readers, writers
      <4>2. /\ readers' >= readers /\ writers' >= writers
            /\ UNCHANGED <<queue, spoilt, stale>>
        BY <1>2, <3>1, <3>2, <4>1
      <4>. QED  BY <4>2 DEF Queue!Next, Queue!Join, queue, stale, readers, writers
    <3>3. CASE /\ pc[p] = "close" /\ frcnt' <= frcnt /\ fwcnt' <= fwcnt
               /\ pc'[p] = "closefree" <=> frcnt' = 0 /\ fwcnt' = 0
      <4>1. stale' = (frcnt' = 0 /\ fwcnt' = 0)
        <5>1. \A q \in Procs \ {p} : pc[q] # "closefree"
          BY <3>3, InLoop DEF Locked
        <5>. QED  BY <2>0, <3>3, <5>1 DEF Inside
      <4>. HIDE DEF queue, stale, readers, writers
      <4>2. /\ readers' <= readers /\ writers' <= writers
            /\ stale' = (readers' = 0 /\ writers' = 0)
            /\ UNCHANGED <<queue, spoilt>>
        BY <1>2, <3>1, <3>3, <4>1
      <4>. QED  BY <4>2 DEF Queue!Next, Queue!Leave, queue, stale, readers, writers
    <3>. QED  BY <2>1, <3>2, <3>3 DEF QuietStep
  <2>2. CASE CloseFree(p)
    <3>1. stale /\ ~stale' /\ ~spoilt'
      BY <2>2, FreeEmpties DEF CloseFree
    <3>2. queue' = <<>>
      <4>1. size' = 0
        BY <2>2 DEF CloseFree
      <4>. QED  BY <4>1
    <3>3. readers' = readers /\ writers' = writers
      BY <1>2, <2>2 DEF CloseFree, cntVars
    <3>. HIDE DEF queue, stale, readers, writers
    <3>. QED  BY <3>1, <3>2, <3>3 DEF Queue!Next, Queue!Discard, queue, stale, readers, writers
  <2>3. ASSUME NEW ok \in BOOLEAN, ReadiBlock(p, ok) PROVE Queue!Next \/ UNCHANGED Queue!vars
    <3>1. ~stale /\ ~stale' /\ UNCHANGED cntVars
      BY <2>3, ReadTurn
    <3>2. PICK n \in 0 .. size : ReadOutcome(n)
      BY <2>3, ReadTurn
    <3>3. readers' = readers /\ writers' = writers /\ stale' = stale
      BY <1>2, <3>1 DEF cntVars, Inside
    <3>4. CASE spoilt'
      <4>. HIDE DEF queue, stale, readers, writers
      <4>1. ~stale /\ spoilt' /\ UNCHANGED <<stale, readers, writers>>
        BY <3>1, <3>3, <3>4
      <4>. QED  BY <4>1 DEF Queue!Next, Queue!Spoil, stale, readers, writers
    <3>5. CASE spoilt /\ ~spoilt' /\ Contents' = <<>>
      <4>1. queue' = <<>>
        BY <1>1, <3>5
      <4>. HIDE DEF queue, stale, readers, writers
      <4>2. ~stale /\ spoilt /\ ~spoilt' /\ queue' = <<>> /\ UNCHANGED <<stale, readers, writers>>
        BY <3>1, <3>3, <3>5, <4>1
      <4>. QED  BY <4>2 DEF Queue!Next, Queue!Recover, queue, stale, readers, writers
    <3>6. CASE /\ ~spoilt /\ ~spoilt' /\ Contents' = SubSeq(Contents, n + 1, size)
               /\ Contents \in Seq(Procs \cup {None}) /\ Len(Contents) = size
      <4>1. /\ queue \in Seq(Procs \cup {None}) /\ Len(queue) = size
            /\ queue' = SubSeq(queue, n + 1, Len(queue)) /\ spoilt' = spoilt
        <5>1. spoilt \in BOOLEAN /\ spoilt' \in BOOLEAN
          <6>1. RingInv'
            BY <2>3, ReadTurn
          <6>. QED  BY <6>1 DEF RingInv
        <5>. QED  BY <1>1, <3>6, <5>1
      <4>. HIDE DEF queue, stale, readers, writers
      <4>2. CASE n = 0
        <5>1. queue' = queue
          <6>1. PICK c, d : c = queue /\ d = queue'
            OBVIOUS
          <6>2. d = SubSeq(c, 1, Len(c)) /\ c \in Seq(Procs \cup {None})
            BY <4>1, <4>2, <6>1
          <6>. QED  BY <6>1, <6>2
        <5>. QED  BY <3>3, <4>1, <5>1 DEF Queue!vars, queue, stale, readers, writers
      <4>3. CASE n # 0
        <5>1. n \in 1 .. Len(queue)
          BY <1>2, <4>1, <4>3
        <5>2. /\ ~spoilt /\ ~stale /\ queue' = SubSeq(queue, n + 1, Len(queue))
              /\ UNCHANGED <<spoilt, stale, readers, writers>>
          BY <3>1, <3>3, <3>6, <4>1
        <5>. QED  BY <5>1, <5>2 DEF Queue!Next, Queue!Get, queue, stale, readers, writers
      <4>. QED  BY <4>2, <4>3
    <3>. QED  BY <3>2, <3>4, <3>5, <3>6 DEF ReadOutcome
  <2>4. ASSUME NEW ok \in BOOLEAN, WriteiBlock(p, ok) PROVE Queue!Next \/ UNCHANGED Queue!vars
    <3>1. ~stale /\ ~stale' /\ UNCHANGED cntVars
      BY <2>4, WriteTurn
    <3>2. PICK n \in Nat : WriteOutcome(p, n)
      BY <2>4, WriteTurn
    <3>3. readers' = readers /\ writers' = writers /\ stale' = stale
      BY <1>2, <3>1 DEF cntVars, Inside
    <3>4. CASE spoilt'
      <4>. HIDE DEF queue, stale, readers, writers
      <4>1. ~stale /\ spoilt' /\ UNCHANGED <<stale, readers, writers>>
        BY <3>1, <3>3, <3>4
      <4>. QED  BY <4>1 DEF Queue!Next, Queue!Spoil, stale, readers, writers
    <3>5. CASE ~spoilt'
      <4>1. /\ ~spoilt /\ frcnt > 0 /\ size + n <= PIPSIZ /\ Len(queue) = size
            /\ queue \in Seq(Procs \cup {None}) /\ queue' = queue \o [i \in 1 .. n |-> p]
        BY <1>1, <3>2, <3>5 DEF WriteOutcome
      <4>2. spoilt' = spoilt
        <5>1. RingInv'
          BY <2>4, WriteTurn
        <5>. QED  BY <3>5, <4>1, <5>1 DEF RingInv
      <4>. HIDE DEF queue, stale, readers, writers
      <4>3. CASE n = 0
        <5>1. queue' = queue
          <6>1. PICK c, d : c = queue /\ d = queue'
            OBVIOUS
          <6>2. d = c \o [i \in 1 .. 0 |-> p] /\ c \in Seq(Procs \cup {None})
            BY <4>1, <4>3, <6>1
          <6>3. [i \in 1 .. 0 |-> p] = <<>>
            OBVIOUS
          <6>. QED  BY <6>1, <6>2, <6>3, ConcatEmptySeq
        <5>. QED  BY <3>3, <4>2, <5>1 DEF Queue!vars, queue, stale, readers, writers
      <4>4. CASE n # 0
        <5>1. n \in 1 .. PIPSIZ
          BY <1>2, <4>1, <4>4
        <5>2. /\ readers > 0 /\ Len(queue) + n <= PIPSIZ /\ ~spoilt /\ ~stale
              /\ queue' = queue \o [i \in 1 .. n |-> p]
              /\ UNCHANGED <<spoilt, stale, readers, writers>>
          BY <1>2, <3>1, <3>3, <4>1, <4>2
        <5>. QED  BY <5>1, <5>2 DEF Queue!Next, Queue!Put, queue, stale, readers, writers
      <4>. QED  BY <4>3, <4>4
    <3>. QED  BY <3>4, <3>5
  <2>. QED  BY <1>4, <2>1, <2>2, <2>3, <2>4, QuietSteps
<1>. QED  BY <1>3, <1>4 DEF Next, Doing

\* The pipe implements ByteQueue: no byte is lost, reordered or read twice when the pointers wrap,
\* when blocks that have been read are dropped or begun ones not read, and when a part of a write
\* follows the other; nothing is put into it while nobody reads, and it is emptied when all have left.
THEOREM PipeIsByteQueue == Spec => IsByteQueue
<1>1. Init => Queue!Init
  <2>. SUFFICES ASSUME Init PROVE Queue!Init
    OBVIOUS
  <2>1. Holders("R") = 0 /\ Holders("W") = 0
    BY PipeInit DEF PipeInv, CountsExact, Init
  <2>2. size = 0 /\ spoilt = FALSE /\ ~Inside("closefree")
    BY DEF Init, Inside
  <2>3. [i \in 1 .. size |-> ring[(First + i - 1) % PIPSIZ]] = <<>>
    BY <2>2
  <2>. QED  BY <2>1, <2>2, <2>3 DEF Queue!Init, Inside
<1>2. PipeInv /\ PipeInv' /\ RingInv /\ [Next]_vars => [Queue!Next]_(Queue!vars)
  BY QueueStep
<1>. QED  BY <1>1, <1>2, PipeInvariant, RingInvariant, PTL DEF Spec, IsByteQueue, Queue!Spec
=============================================================================
