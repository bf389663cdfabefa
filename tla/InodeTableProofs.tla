--------------------------- MODULE InodeTableProofs ---------------------------
(***************************************************************************)
(* Proofs about InodeTable, for any number of processes, in-core inodes    *)
(* and inodes of the file system.                                          *)
(***************************************************************************)
EXTENDS InodeTable, FunctionTheorems, FiniteSetTheorems, WellFoundedInduction, TLAPS

-----------------------------------------------------------------------------
(* The inductive invariant *)

\* Where a process has its inode locked; has it, unlocked; and has none.
LockedPCs == {"iread", "got", "iput", "ifree", "doifree", "ilast", "wdir", "undone", "update"}
KeptPCs == {"open", "link", "undo"}
BarePCs == {"out", "ialloc", "scan", "iget"}

Whys == {"none", "open", "link", "unlink", "create", "sync"}

Slots == [ino : 0 .. NInodes, hashed : BOOLEAN, count : Int, lock : BOOLEAN, want : BOOLEAN,
          mode : BOOLEAN, nlink : Int, dirty : BOOLEAN]

States == [pc : LockedPCs \cup KeptPCs \cup BarePCs, why : Whys, ino : Int,
           ip : Islots \cup {Nobody}]

\* A process that has an inode, or looks for it, knows its number; one that has the directory
\* locked, and not another one, makes or removes a file.
ArgsOf(p) ==
    /\ iproc[p].pc \notin {"out", "ialloc", "scan"} => iproc[p].ino \in Inos
    /\ iproc[p].ip \in Islots <=> iproc[p].pc \in LockedPCs \cup KeptPCs

\* A slot that is in use holds an inode of the file system.
Known(s) == islot[s].count # 0 => islot[s].ino \in Inos

InoTyped ==
    /\ islot \in [Islots -> Slots] /\ \A s \in Islots : Known(s)
    /\ ifreelist \in Seq(Islots)
    /\ mcount \in Int
    /\ dino \in [Inos -> [mode : BOOLEAN, nlink : Int]]
    /\ sInode \in [InoEntries -> 0 .. NInodes]
    /\ sNinode \in 0 .. NICINOD /\ sIlock \in BOOLEAN
    /\ entries \in [Inos -> Int]
    /\ dirLock \in Iprocs \cup {Nobody}
    /\ iproc \in [Iprocs -> States]
    /\ ichan \in [Iprocs -> Islots \cup {Nobody}]
    /\ \A p \in Iprocs : ArgsOf(p)

\* p has slot s locked.
Locks(p, s) == iproc[p].ip = s /\ iproc[p].pc \in LockedPCs

\* A slot is locked iff a process has it locked, and only one has.
LocksExact ==
    \A s \in Islots :
        /\ islot[s].lock <=> \E p \in Iprocs : Locks(p, s)
        /\ \A p, q \in Iprocs : Locks(p, s) /\ Locks(q, s) => p = q

\* Who sleeps for a slot does not have it locked, and is going to be woken.
SleepersOf(p) ==
    ichan[p] # Nobody => /\ iproc[p].pc \in {"iget", "open", "undo"}
                         /\ islot[ichan[p]].lock /\ islot[ichan[p]].want

InoSleepers == \A p \in Iprocs : SleepersOf(p)

\* No inode is in two slots.
HashedOnce ==
    \A s, t \in Islots :
        islot[s].hashed /\ islot[t].hashed /\ islot[s].ino = islot[t].ino => s = t

Listed(s) == \E n \in DOMAIN ifreelist : ifreelist[n] = s

CountsOK ==
    /\ \A s \in Islots : /\ islot[s].count = Cardinality(Users(s))
                         /\ islot[s].count = 0 <=> Listed(s)
    /\ \A m, n \in DOMAIN ifreelist : ifreelist[m] = ifreelist[n] => m = n
    /\ Len(ifreelist) = Cardinality({s \in Islots : islot[s].count = 0})
    /\ mcount = Cardinality({s \in Islots : islot[s].count > 0})

\* Who frees a file, or writes it for the last time, is its only user.
LastOf(p) == iproc[p].pc \in {"ifree", "doifree", "ilast"} => islot[iproc[p].ip].count = 1

LastUsers == \A p \in Iprocs : LastOf(p)

InoInv == InoTyped /\ LocksExact /\ InoSleepers /\ HashedOnce /\ CountsOK /\ LastUsers
-----------------------------------------------------------------------------
(* Numbers and lists *)

\* A set of natural numbers that is not empty has a least element.
LEMMA LeastExists ==
    ASSUME NEW T \in SUBSET Nat, T # {}
    PROVE  \E x \in T : \A y \in T : x <= y
<1>1. \E x \in T : \A y \in T : ~(<<y, x>> \in OpToRel(<, Nat))
  BY NatLessThanWellFounded, WFMin
<1>2. PICK x \in T : \A y \in T : ~(<<y, x>> \in OpToRel(<, Nat))
  BY <1>1
<1>3. ASSUME NEW y \in T PROVE x <= y
  <2>1. <<y, x>> \in Nat \X Nat /\ ~(<<y, x>> \in {ss \in Nat \X Nat : ss[1] < ss[2]})
    BY <1>2 DEF OpToRel
  <2>2. ~(y < x)
    BY <2>1
  <2> QED
    BY <2>2
<1> QED
  BY <1>3

\* Sets that differ in one element at most.
LEMMA OneMore ==
    ASSUME NEW S, NEW x, IsFiniteSet(S), x \notin S, NEW T, T = S \cup {x}
    PROVE  IsFiniteSet(T) /\ Cardinality(S) \in Nat /\ Cardinality(T) = Cardinality(S) + 1
BY FS_AddElement, FS_CardinalityType

\* The free list without a slot that is on it.
LEMMA UnlistedFacts ==
    ASSUME ifreelist \in Seq(Islots),
           \A m, n \in DOMAIN ifreelist : ifreelist[m] = ifreelist[n] => m = n,
           NEW s, Listed(s)
    PROVE  /\ Unlisted(s) \in Seq(Islots)
           /\ Len(Unlisted(s)) = Len(ifreelist) - 1
           /\ \A m, n \in DOMAIN Unlisted(s) : Unlisted(s)[m] = Unlisted(s)[n] => m = n
           /\ \A t : (\E n \in DOMAIN Unlisted(s) : Unlisted(s)[n] = t) <=> Listed(t) /\ t # s
<1> DEFINE k == CHOOSE k \in DOMAIN ifreelist : ifreelist[k] = s
           l == Len(ifreelist)
           u == [n \in 1 .. l - 1 |-> ifreelist[IF n < k THEN n ELSE n + 1]]
<1>1. k \in 1 .. l /\ ifreelist[k] = s /\ l \in Nat /\ DOMAIN ifreelist = 1 .. l
  BY DEF Listed
<1>2. Unlisted(s) = u
  BY DEF Unlisted
<1> HIDE DEF k
<1>3. /\ u \in Seq(Islots) /\ Len(u) = l - 1 /\ DOMAIN u = 1 .. l - 1
      /\ \A n \in 1 .. l - 1 : u[n] = IF n < k THEN ifreelist[n] ELSE ifreelist[n + 1]
  BY <1>1
<1> HIDE DEF u
<1>4. ASSUME NEW m \in 1 .. l - 1, NEW n \in 1 .. l - 1, u[m] = u[n] PROVE m = n
  <2> DEFINE At(x) == IF x < k THEN x ELSE x + 1
  <2>1. /\ At(m) \in 1 .. l /\ u[m] = ifreelist[At(m)]
        /\ At(n) \in 1 .. l /\ u[n] = ifreelist[At(n)]
    BY <1>1, <1>3
  <2>2. At(m) = At(n)
    BY <1>1, <1>4, <2>1
  <2> QED
    BY <1>1, <2>2
<1>5. ASSUME NEW t, NEW n \in 1 .. l - 1, u[n] = t PROVE Listed(t) /\ t # s
  <2>1. CASE n < k
    <3>1. n \in 1 .. l /\ ifreelist[n] = t /\ n # k
      BY <1>1, <1>3, <1>5, <2>1
    <3> QED
      BY <1>1, <3>1 DEF Listed
  <2>2. CASE ~(n < k)
    <3>1. n + 1 \in 1 .. l /\ ifreelist[n + 1] = t /\ n + 1 # k
      BY <1>1, <1>3, <1>5, <2>2
    <3> QED
      BY <1>1, <3>1 DEF Listed
  <2> QED
    BY <2>1, <2>2
<1>6. ASSUME NEW t, Listed(t), t # s PROVE \E n \in 1 .. l - 1 : u[n] = t
  <2>1. PICK j \in 1 .. l : ifreelist[j] = t /\ j # k
    BY <1>1, <1>6 DEF Listed
  <2>2. CASE j < k
    <3>1. j \in 1 .. l - 1 /\ u[j] = t
      BY <1>1, <1>3, <2>1, <2>2
    <3> QED
      BY <3>1
  <2>3. CASE j > k
    <3>1. j - 1 \in 1 .. l - 1 /\ u[j - 1] = t
      BY <1>1, <1>3, <2>1, <2>3
    <3> QED
      BY <3>1
  <2> QED
    BY <1>1, <2>1, <2>2, <2>3
<1> QED
  BY <1>2, <1>3, <1>4, <1>5, <1>6

\* The slots that are in use, and those that are not.
InUse == {s \in Islots : islot[s].count > 0}
NotInUse == {s \in Islots : islot[s].count = 0}

\* There are finitely many of what is counted.
LEMMA FiniteSlots ==
    ASSUME NEW S, S \subseteq Islots \/ S \subseteq Iprocs
    PROVE  IsFiniteSet(S) /\ Cardinality(S) \in Nat
BY InodeAssumption, FS_Subset, FS_CardinalityType

-----------------------------------------------------------------------------
(* Counts *)

\* A step by which nobody gets or gives up an inode.
LEMMA CountsKept ==
    ASSUME InoInv, \A q \in Iprocs : iproc'[q].ip = iproc[q].ip,
           \A s \in Islots : islot'[s].count = islot[s].count,
           UNCHANGED <<ifreelist, mcount>>
    PROVE  CountsOK'
<1>1. /\ \A s \in Islots : Users(s)' = Users(s)
      /\ InUse' = InUse /\ NotInUse' = NotInUse
      /\ \A s : Listed(s)' <=> Listed(s)
  BY DEF Users, InUse, NotInUse, Listed
<1> QED
  BY <1>1 DEF InoInv, CountsOK, InUse, NotInUse

\* p gets slot s, which is taken off the free list if nobody had it.
LEMMA CountsTaken ==
    ASSUME InoInv, InoTyped', NEW p \in Iprocs, NEW s \in Islots,
           \A q \in Iprocs \ {p} : iproc'[q].ip = iproc[q].ip,
           iproc[p].ip \notin Islots, iproc'[p].ip = s,
           islot'[s].count = islot[s].count + 1,
           \A t \in Islots \ {s} : islot'[t].count = islot[t].count,
           ifreelist' = IF islot[s].count = 0 THEN Unlisted(s) ELSE ifreelist,
           mcount' = IF islot[s].count = 0 THEN mcount + 1 ELSE mcount
    PROVE  CountsOK'
<1>0. /\ ifreelist \in Seq(Islots) /\ mcount \in Int
      /\ \A t \in Islots : islot[t].count \in Int
      /\ \A t \in Islots : islot[t].count = Cardinality(Users(t))
      /\ \A t \in Islots : islot[t].count = 0 <=> Listed(t)
      /\ \A m, n \in DOMAIN ifreelist : ifreelist[m] = ifreelist[n] => m = n
      /\ Len(ifreelist) = Cardinality(NotInUse)
      /\ mcount = Cardinality(InUse)
  BY DEF InoInv, CountsOK, InoTyped, Slots, InUse, NotInUse
<1>1. \A t \in Islots : islot'[t].count = Cardinality(Users(t)')
  <2>1. ASSUME NEW t \in Islots \ {s} PROVE Users(t)' = Users(t)
    BY DEF Users
  <2>2. Users(s)' = Users(s) \cup {p} /\ p \notin Users(s) /\ Users(s) \subseteq Iprocs
    BY DEF Users
  <2>3. Cardinality(Users(s)') = Cardinality(Users(s)) + 1
    BY <2>2, FiniteSlots, OneMore
  <2>4. \A t \in Islots \ {s} : islot'[t].count = Cardinality(Users(t)')
    BY <1>0, <2>1
  <2>5. islot'[s].count = Cardinality(Users(s)')
    <3>1. PICK a, b : a = Cardinality(Users(s)) /\ b = Cardinality(Users(s)')
      OBVIOUS
    <3>2. islot[s].count = a /\ a \in Int
      BY <1>0, <3>1
    <3> QED
      BY <2>3, <3>1, <3>2
  <2> QED
    BY <2>3, <2>4, <2>5
<1>2. islot[s].count \in Nat
  BY <1>0, FiniteSlots DEF Users
<1>3. CASE islot[s].count # 0
  <2>1. InUse' = InUse /\ NotInUse' = NotInUse /\ \A t : Listed(t)' <=> Listed(t)
    BY <1>2, <1>3 DEF InUse, NotInUse, Listed
  <2>2. \A t \in Islots : islot'[t].count = 0 <=> Listed(t)'
    BY <1>0, <1>2, <1>3, <2>1
  <2> QED
    BY <1>0, <1>1, <1>3, <2>1, <2>2 DEF CountsOK, InUse, NotInUse
<1>4. CASE islot[s].count = 0
  <2>1. /\ InUse' = InUse \cup {s} /\ s \notin InUse /\ InUse \subseteq Islots
        /\ NotInUse = NotInUse' \cup {s} /\ s \notin NotInUse' /\ NotInUse' \subseteq Islots
    BY <1>0, <1>4 DEF InUse, NotInUse
  <2>2. /\ Cardinality(InUse') = Cardinality(InUse) + 1
        /\ Cardinality(NotInUse) = Cardinality(NotInUse') + 1 /\ Cardinality(NotInUse') \in Nat
    BY <2>1, FiniteSlots, OneMore
  <2>3. /\ ifreelist' \in Seq(Islots)
        /\ Len(ifreelist') = Len(ifreelist) - 1
        /\ \A m, n \in DOMAIN ifreelist' : ifreelist'[m] = ifreelist'[n] => m = n
        /\ \A t : Listed(t)' <=> Listed(t) /\ t # s
    <3>1. Listed(s) /\ ifreelist' = Unlisted(s)
      BY <1>0, <1>4
    <3>2. /\ Unlisted(s) \in Seq(Islots)
          /\ Len(Unlisted(s)) = Len(ifreelist) - 1
          /\ \A m, n \in DOMAIN Unlisted(s) : Unlisted(s)[m] = Unlisted(s)[n] => m = n
          /\ \A t : (\E n \in DOMAIN Unlisted(s) : Unlisted(s)[n] = t) <=> Listed(t) /\ t # s
      BY <1>0, <3>1, UnlistedFacts
    <3>3. ifreelist' = Unlisted(s) => \A t : Listed(t)' <=> \E n \in DOMAIN Unlisted(s) :
                                                              Unlisted(s)[n] = t
      BY DEF Listed
    <3> QED
      BY <3>1, <3>2, <3>3
  <2>4. \A t \in Islots : islot'[t].count = 0 <=> Listed(t)'
    BY <1>0, <1>4, <2>3
  <2>5. Len(ifreelist') = Cardinality(NotInUse') /\ mcount' = Cardinality(InUse')
    BY <1>0, <1>4, <2>2, <2>3
  <2> QED
    BY <1>1, <2>3, <2>4, <2>5 DEF CountsOK, InUse, NotInUse
<1> QED
  BY <1>3, <1>4

\* p gives slot s up, which goes to the end of the free list if p was the last.
LEMMA CountsGiven ==
    ASSUME InoInv, InoTyped', NEW p \in Iprocs, NEW s \in Islots,
           \A q \in Iprocs \ {p} : iproc'[q].ip = iproc[q].ip,
           iproc[p].ip = s, iproc'[p].ip \notin Islots,
           islot'[s].count = islot[s].count - 1,
           \A t \in Islots \ {s} : islot'[t].count = islot[t].count,
           ifreelist' = IF islot[s].count = 1 THEN Append(ifreelist, s) ELSE ifreelist,
           mcount' = IF islot[s].count = 1 THEN mcount - 1 ELSE mcount
    PROVE  CountsOK'
<1>0. /\ ifreelist \in Seq(Islots) /\ mcount \in Int
      /\ \A t \in Islots : islot[t].count \in Int
      /\ \A t \in Islots : islot[t].count = Cardinality(Users(t))
      /\ \A t \in Islots : islot[t].count = 0 <=> Listed(t)
      /\ \A m, n \in DOMAIN ifreelist : ifreelist[m] = ifreelist[n] => m = n
      /\ Len(ifreelist) = Cardinality(NotInUse)
      /\ mcount = Cardinality(InUse)
  BY DEF InoInv, CountsOK, InoTyped, Slots, InUse, NotInUse
<1>1. /\ \A t \in Islots : islot'[t].count = Cardinality(Users(t)')
      /\ islot'[s].count \in Nat
  <2>1. ASSUME NEW t \in Islots \ {s} PROVE Users(t)' = Users(t)
    BY DEF Users
  <2>2. Users(s) = Users(s)' \cup {p} /\ p \notin Users(s)' /\ Users(s)' \subseteq Iprocs
    BY DEF Users
  <2>3. Cardinality(Users(s)) = Cardinality(Users(s)') + 1 /\ Cardinality(Users(s)') \in Nat
    BY <2>2, FiniteSlots, OneMore
  <2>4. \A t \in Islots \ {s} : islot'[t].count = Cardinality(Users(t)')
    BY <1>0, <2>1
  <2>5. islot'[s].count = Cardinality(Users(s)')
    <3>1. PICK a, b : a = Cardinality(Users(s)) /\ b = Cardinality(Users(s)')
      OBVIOUS
    <3>2. islot[s].count = a /\ a \in Int
      BY <1>0, <3>1
    <3> QED
      BY <2>3, <3>1, <3>2
  <2> QED
    BY <2>3, <2>4, <2>5
<1>3. CASE islot[s].count # 1
  <2>1. InUse' = InUse /\ NotInUse' = NotInUse /\ \A t : Listed(t)' <=> Listed(t)
    BY SMTT(60), ZenonT(60), <1>0, <1>1, <1>3 DEF InUse, NotInUse, Listed
  <2>2. \A t \in Islots : islot'[t].count = 0 <=> Listed(t)'
    BY <1>0, <1>1, <1>3, <2>1
  <2> QED
    BY <1>0, <1>1, <1>3, <2>1, <2>2 DEF CountsOK, InUse, NotInUse
<1>4. CASE islot[s].count = 1
  <2>1. /\ InUse = InUse' \cup {s} /\ s \notin InUse' /\ InUse' \subseteq Islots
        /\ NotInUse' = NotInUse \cup {s} /\ s \notin NotInUse /\ NotInUse \subseteq Islots
    BY <1>0, <1>4 DEF InUse, NotInUse
  <2>2. /\ Cardinality(InUse) = Cardinality(InUse') + 1
        /\ Cardinality(InUse') \in Nat
        /\ Cardinality(NotInUse') = Cardinality(NotInUse) + 1
    BY <2>1, FiniteSlots, OneMore
  <2>3. /\ Len(ifreelist') = Len(ifreelist) + 1
        /\ \A m, n \in DOMAIN ifreelist' : ifreelist'[m] = ifreelist'[n] => m = n
        /\ \A t : Listed(t)' <=> Listed(t) \/ t = s
    <3>1. ifreelist' = Append(ifreelist, s) /\ ~Listed(s) /\ Len(ifreelist) \in Nat
      BY <1>0, <1>4
    <3>2. /\ DOMAIN ifreelist = 1 .. Len(ifreelist)
          /\ DOMAIN ifreelist' = 1 .. Len(ifreelist) + 1 /\ Len(ifreelist') = Len(ifreelist) + 1
          /\ \A n \in 1 .. Len(ifreelist) : ifreelist'[n] = ifreelist[n]
          /\ ifreelist'[Len(ifreelist) + 1] = s
      BY <1>0, <3>1
    <3>3. \A n \in 1 .. Len(ifreelist) : ifreelist'[n] # s
      BY <3>1, <3>2 DEF Listed
    <3>4. \A m, n \in DOMAIN ifreelist' : ifreelist'[m] = ifreelist'[n] => m = n
      BY <1>0, <3>1, <3>2, <3>3
    <3>5. ASSUME NEW t PROVE Listed(t)' <=> Listed(t) \/ t = s
      <4>1. Listed(t) => Listed(t)'
        BY <3>1, <3>2 DEF Listed
      <4>2. Listed(s)'
        BY <3>1, <3>2 DEF Listed
      <4>3. Listed(t)' => Listed(t) \/ t = s
        BY <3>1, <3>2 DEF Listed
      <4> QED
        BY <4>1, <4>2, <4>3
    <3> QED
      BY <3>2, <3>4, <3>5
  <2>4. \A t \in Islots : islot'[t].count = 0 <=> Listed(t)'
    BY <1>0, <1>4, <2>3
  <2>5. Len(ifreelist') = Cardinality(NotInUse') /\ mcount' = Cardinality(InUse')
    BY <1>0, <1>4, <2>2, <2>3
  <2> QED
    BY <1>1, <2>3, <2>4, <2>5 DEF CountsOK, InUse, NotInUse
<1> QED
  BY <1>3, <1>4
-----------------------------------------------------------------------------
(* Locks, sleepers and the hash table *)

\* What the locks of s, and its being in the hash table, are about.
Same(s) == /\ islot'[s].ino = islot[s].ino /\ islot'[s].hashed = islot[s].hashed
           /\ islot'[s].lock = islot[s].lock /\ islot'[s].want = islot[s].want

SameCount(s) == islot'[s].count = islot[s].count

\* q does not move.
Still(q) == iproc'[q] = iproc[q]

\* A step of p by which nobody gets or gives up an inode or its lock.
LEMMA QuietStep ==
    ASSUME InoInv, InoTyped', NEW p \in Iprocs, \A q \in Iprocs \ {p} : Still(q),
           iproc'[p].ip = iproc[p].ip,
           iproc[p].pc \in LockedPCs <=> iproc'[p].pc \in LockedPCs,
           ichan[p] = Nobody \/ iproc'[p].pc = iproc[p].pc,
           \A s \in Islots : Same(s) /\ SameCount(s), LastOf(p)',
           UNCHANGED <<ifreelist, mcount, ichan>>
    PROVE  InoInv'
<1>1. \A q \in Iprocs : iproc'[q].ip = iproc[q].ip
  BY DEF Still
<1>2. CountsOK'
  BY <1>1, CountsKept DEF SameCount
<1>3. \A q \in Iprocs, s \in Islots : Locks(q, s)' <=> Locks(q, s)
  BY <1>1 DEF Locks, Still
<1>4. LocksExact'
  BY <1>3 DEF InoInv, LocksExact, Same
<1>5. InoSleepers'
  <2>1. \A q \in Iprocs : ichan[q] # Nobody => iproc'[q].pc = iproc[q].pc /\ ichan[q] \in Islots
    BY DEF InoInv, InoTyped, Still
  <2> QED
    BY <2>1 DEF InoInv, InoSleepers, SleepersOf, Same
<1>6. HashedOnce'
  BY DEF InoInv, HashedOnce, Same
<1>7. LastUsers'
  <2>1. ASSUME NEW q \in Iprocs \ {p} PROVE LastOf(q)'
    <3>1. iproc[q].pc \in {"ifree", "doifree", "ilast"} => iproc[q].ip \in Islots
      BY DEF InoInv, InoTyped, ArgsOf, LockedPCs
    <3> QED
      BY <3>1 DEF InoInv, LastUsers, LastOf, Still, SameCount
  <2> QED
    BY <2>1 DEF LastUsers
<1> QED
  BY <1>2, <1>4, <1>5, <1>6, <1>7 DEF InoInv

\* p sleeps for slot s, which is locked.
LEMMA SleepStep ==
    ASSUME InoInv, InoTyped', NEW p \in Iprocs, NEW s \in Islots,
           \A q \in Iprocs \ {p} : Still(q),
           iproc'[p].ip = iproc[p].ip, iproc[p].pc \notin LockedPCs,
           iproc'[p].pc \in {"iget", "open", "undo"}, islot[s].lock,
           islot' = [islot EXCEPT ![s].want = TRUE],
           ichan' = [ichan EXCEPT ![p] = s],
           UNCHANGED <<ifreelist, mcount>>
    PROVE  InoInv'
<1>0. /\ islot \in [Islots -> Slots] /\ ichan \in [Iprocs -> Islots \cup {Nobody}]
      /\ Nobody \notin Islots
  BY InodeAssumption DEF InoInv, InoTyped
<1>1. \A q \in Iprocs : iproc'[q].ip = iproc[q].ip
  BY DEF Still
<1>2. \A t \in Islots : /\ SameCount(t) /\ islot'[t].lock = islot[t].lock
                        /\ islot'[t].ino = islot[t].ino /\ islot'[t].hashed = islot[t].hashed
                        /\ islot'[t].want <=> islot[t].want \/ t = s
  BY <1>0 DEF SameCount, Slots
<1>3. CountsOK'
  BY <1>1, <1>2, CountsKept DEF SameCount
<1>4. \A q \in Iprocs, t \in Islots : Locks(q, t)' <=> Locks(q, t)
  BY <1>1 DEF Locks, Still, LockedPCs
<1>5. LocksExact'
  BY <1>2, <1>4 DEF InoInv, LocksExact
<1>6. ASSUME NEW q \in Iprocs PROVE SleepersOf(q)'
  <2>1. CASE q = p
    BY <1>0, <1>2, <2>1 DEF SleepersOf
  <2>2. CASE q # p
    BY <1>0, <1>2, <2>2 DEF InoInv, InoSleepers, SleepersOf, Still
  <2> QED
    BY <2>1, <2>2
<1>7. HashedOnce'
  BY <1>2 DEF InoInv, HashedOnce
<1>8. ASSUME NEW q \in Iprocs PROVE LastOf(q)'
  <2>1. CASE q = p
    BY <2>1 DEF LastOf
  <2>2. CASE q # p
    BY <1>2, <2>2
    DEF InoInv, InoTyped, ArgsOf, LastUsers, LastOf, Still, SameCount, LockedPCs
  <2> QED
    BY <2>1, <2>2
<1> QED
  BY <1>3, <1>5, <1>6, <1>7, <1>8 DEF InoInv, InoSleepers, LastUsers

\* p locks slot s, which was not locked.
LEMMA LockTaken ==
    ASSUME InoInv, InoTyped', NEW p \in Iprocs, NEW s \in Islots,
           \A q \in Iprocs \ {p} : Still(q),
           iproc[p].pc \notin LockedPCs, Locks(p, s)', ichan[p] = Nobody,
           ~islot[s].lock, islot'[s].lock,
           \A t \in Islots \ {s} : Same(t) /\ SameCount(t), LastOf(p)',
           UNCHANGED ichan
    PROVE  LocksExact' /\ InoSleepers' /\ LastUsers'
<1>1. \A q \in Iprocs, t \in Islots : ~(q = p /\ t = s) => (Locks(q, t)' <=> Locks(q, t))
  BY DEF Locks, Still
<1>2. ~Locks(p, s) /\ \A q \in Iprocs : ~Locks(q, s)
  BY DEF InoInv, LocksExact
<1>3. LocksExact'
  BY <1>1, <1>2 DEF InoInv, LocksExact, Same
<1>4. InoSleepers'
  BY DEF InoInv, InoSleepers, SleepersOf, InoTyped, Same, Still
<1>5. ASSUME NEW q \in Iprocs \ {p}, iproc[q].pc \in {"ifree", "doifree", "ilast"}
      PROVE  iproc[q].ip \in Islots \ {s}
  BY <1>2, <1>5 DEF InoInv, InoTyped, ArgsOf, Locks, LockedPCs
<1>6. ASSUME NEW q \in Iprocs \ {p} PROVE LastOf(q)'
  BY <1>5 DEF InoInv, LastUsers, LastOf, Still, SameCount
<1> QED
  BY <1>3, <1>4, <1>6 DEF LastUsers

\* p unlocks slot s and wakes who wants it (prele).
LEMMA LockGiven ==
    ASSUME InoInv, InoTyped', NEW p \in Iprocs, NEW s \in Islots,
           \A q \in Iprocs \ {p} : Still(q),
           Locks(p, s), iproc'[p].pc \notin LockedPCs, iproc'[p].ip \in {s, Nobody},
           NEW r \in Slots, Prele(s, r), r.want = islot[s].want,
           r.ino = islot[s].ino, r.hashed = islot[s].hashed
    PROVE  LocksExact' /\ InoSleepers' /\ HashedOnce' /\ LastUsers'
<1>0. /\ islot \in [Islots -> Slots] /\ ichan \in [Iprocs -> Islots \cup {Nobody}]
      /\ Nobody \notin Islots
  BY InodeAssumption DEF InoInv, InoTyped
<1>1. /\ ~islot'[s].lock /\ islot'[s].ino = islot[s].ino /\ islot'[s].hashed = islot[s].hashed
      /\ \A t \in Islots \ {s} : Same(t) /\ SameCount(t)
  BY <1>0 DEF Prele, Released, Slots, Same, SameCount
<1>2. \A q \in Iprocs : ~Locks(q, s)'
  BY DEF InoInv, LocksExact, Locks, Still
<1>3. \A q \in Iprocs, t \in Islots \ {s} : Locks(q, t)' <=> Locks(q, t)
  BY <1>0 DEF Locks, Still
<1>4. LocksExact'
  BY <1>1, <1>2, <1>3 DEF InoInv, LocksExact, Same
<1>5. ASSUME NEW q \in Iprocs PROVE SleepersOf(q)'
  <2>1. ichan'[q] # Nobody => ichan'[q] = ichan[q] /\ ichan[q] # s
    BY <1>0 DEF Prele, Awake, InoInv, InoSleepers, SleepersOf
  <2>2. CASE q = p
    BY <2>1, <2>2 DEF InoInv, InoSleepers, SleepersOf, Locks, LockedPCs
  <2>3. CASE q # p
    BY <1>0, <1>1, <2>1, <2>3 DEF InoInv, InoSleepers, SleepersOf, Same, Still
  <2> QED
    BY <2>2, <2>3
<1>6. HashedOnce'
  BY <1>1 DEF InoInv, HashedOnce, Same
<1>7. ASSUME NEW q \in Iprocs \ {p}, iproc[q].pc \in {"ifree", "doifree", "ilast"}
      PROVE  iproc[q].ip \in Islots \ {s}
  BY <1>7 DEF InoInv, InoTyped, ArgsOf, LocksExact, Locks, LockedPCs
<1>8. ASSUME NEW q \in Iprocs PROVE LastOf(q)'
  <2>1. CASE q = p
    BY <2>1 DEF LastOf, LockedPCs
  <2>2. CASE q # p
    BY <1>1, <1>7, <2>2 DEF InoInv, LastUsers, LastOf, Still, SameCount
  <2> QED
    BY <2>1, <2>2
<1> QED
  BY <1>4, <1>5, <1>6, <1>8 DEF InoSleepers, LastUsers

-----------------------------------------------------------------------------
(* The steps *)

\* Image and FsINOS are what they should be.
LEMMA ImageType == \A r \in Slots : Image(r) \in [mode : BOOLEAN, nlink : Int]
BY DEF Image, Slots

\* A slot of which only the inode's own fields change; and the steps that write it.
Edited(r, m, n, d) == [r EXCEPT !.mode = m, !.nlink = n, !.dirty = d]

\* Such a change leaves the number, the count and the lock of the slot alone.
LEMMA SlotEdits ==
    ASSUME NEW r \in Slots, NEW m \in BOOLEAN, NEW n \in Int, NEW d \in BOOLEAN
    PROVE  LET x == Edited(r, m, n, d)
           IN  /\ x \in Slots /\ x.ino = r.ino /\ x.hashed = r.hashed /\ x.count = r.count
               /\ x.lock = r.lock /\ x.want = r.want
BY DEF Slots, Edited

\* UpdateWrite, IputTrunc and the like are such a change.
LEMMA Written ==
    ASSUME islot \in [Islots -> Slots], NEW s \in Islots, NEW m \in BOOLEAN, NEW n \in Int,
           NEW d \in BOOLEAN, islot' = [islot EXCEPT ![s] = Edited(islot[s], m, n, d)]
    PROVE  /\ islot' \in [Islots -> Slots]
           /\ \A t \in Islots : Same(t) /\ SameCount(t)
<1>1. islot[s] \in Slots
  OBVIOUS
<1> QED
  BY <1>1, SlotEdits DEF Same, SameCount

\* The steps of a process that has an inode locked and keeps it locked.
LEMMA LockedStep ==
    ASSUME InoInv, NEW p \in Iprocs,
           \/ Iread(p) \/ IputTrunc(p) \/ Ifree(p) \/ Doifree(p) \/ IallocNew(p) \/ IallocUsed(p)
           \/ Unlink(p) \/ UnlinkRefused(p) \/ OpenRefused(p) \/ LinkRefused(p) \/ LinkUndone(p)
           \/ UpdateWrite(p)
    PROVE  InoInv'
<1> PICK s : s = iproc[p].ip
  OBVIOUS
<1> USE DEF LockedPCs, KeptPCs, BarePCs, Whys
<1>1. /\ InoTyped /\ iproc[p].pc \in LockedPCs /\ s \in Islots /\ ichan[p] = Nobody
      /\ iproc[p].ino \in Inos
  <2>1. iproc[p].pc \in LockedPCs
    BY DEF Iread, IputTrunc, Ifree, Doifree, IallocNew, IallocUsed, Unlink, UnlinkRefused,
           OpenRefused, LinkRefused, LinkUndone, UpdateWrite
  <2> QED
    BY <2>1 DEF InoInv, InoTyped, ArgsOf, InoSleepers, SleepersOf
<1>2. /\ islot \in [Islots -> Slots] /\ iproc \in [Iprocs -> States]
      /\ dino \in [Inos -> [mode : BOOLEAN, nlink : Int]]
  BY <1>1 DEF InoTyped
<1>3. /\ islot' \in [Islots -> Slots]
      /\ \A t \in Islots : Same(t) /\ SameCount(t)
  <2>0. /\ islot[s] \in Slots /\ islot[s].mode \in BOOLEAN /\ islot[s].dirty \in BOOLEAN
        /\ islot[s].nlink \in Int /\ islot[s].nlink - 1 \in Int /\ 1 \in Int
    BY <1>1, <1>2 DEF Slots
  <2>1. CASE UNCHANGED islot
    BY <1>2, <2>1 DEF Same, SameCount
  <2>2. CASE \E m, d \in BOOLEAN, n \in Int :
                islot' = [islot EXCEPT ![s] = Edited(islot[s], m, n, d)]
    <3>1. PICK m \in BOOLEAN, d \in BOOLEAN, n \in Int :
             islot' = [islot EXCEPT ![s] = Edited(islot[s], m, n, d)]
      BY <2>2
    <3> QED
      BY <1>1, <1>2, <3>1, Written
  <2>3. CASE Iread(p)
    <3>1. PICK m \in BOOLEAN, n \in Int : islot' = [islot EXCEPT ![s].mode = m, ![s].nlink = n]
      BY <1>1, <1>2, <2>3 DEF Iread
    <3>2. islot' = [islot EXCEPT ![s] = Edited(islot[s], m, n, islot[s].dirty)]
      BY <1>1, <1>2, <3>1 DEF Slots, Edited
    <3> QED
      BY <2>0, <2>2, <3>2
  <2>4. CASE Ifree(p)
    <3>1. CASE islot' = [islot EXCEPT ![s] = [islot[s] EXCEPT !.mode = FALSE, !.dirty = FALSE]]
      <4>1. islot' = [islot EXCEPT ![s] = Edited(islot[s], FALSE, islot[s].nlink, FALSE)]
        BY <1>1, <1>2, <3>1 DEF Slots, Edited
      <4> QED
        BY <2>0, <2>2, <4>1
    <3> QED
      BY <2>1, <2>4, <3>1 DEF Ifree
  <2>5. CASE IallocNew(p)
    <3>1. islot' = [islot EXCEPT ![s] = Edited(islot[s], TRUE, 1, FALSE)]
      BY <2>5 DEF IallocNew, Edited
    <3> QED
      BY <2>0, <2>2, <3>1
  <2>6. CASE IputTrunc(p) \/ IallocUsed(p) \/ UpdateWrite(p)
    <3>1. PICK d \in BOOLEAN : islot' = [islot EXCEPT ![s].dirty = d]
      BY <2>6 DEF IputTrunc, IallocUsed, UpdateWrite
    <3>2. islot' = [islot EXCEPT ![s] = Edited(islot[s], islot[s].mode, islot[s].nlink, d)]
      BY <1>1, <1>2, <3>1 DEF Slots, Edited
    <3> QED
      BY <2>0, <2>2, <3>2
  <2>7. CASE Unlink(p) \/ LinkUndone(p)
    <3>1. islot' = [islot EXCEPT ![s].nlink = @ - 1, ![s].dirty = TRUE]
      BY <2>7 DEF Unlink, LinkUndone
    <3>2. islot' = [islot EXCEPT ![s] = Edited(islot[s], islot[s].mode, islot[s].nlink - 1, TRUE)]
      BY <1>1, <1>2, <3>1 DEF Slots, Edited
    <3> QED
      BY <2>0, <2>2, <3>2
  <2> QED
    BY <2>1, <2>3, <2>4, <2>5, <2>6, <2>7
    DEF Doifree, UnlinkRefused, OpenRefused, LinkRefused
<1>4. /\ iproc' \in [Iprocs -> States]
      /\ iproc'[p].pc \in LockedPCs /\ iproc'[p].ip = s /\ iproc'[p].ino = iproc[p].ino
      /\ \A q \in Iprocs \ {p} : Still(q)
  <2>1. \/ \E l \in LockedPCs : iproc' = [iproc EXCEPT ![p].pc = l]
        \/ iproc' = [iproc EXCEPT ![p].pc = "iput", ![p].why = "none"]
    <3>1. CASE Iread(p) \/ IputTrunc(p) \/ Ifree(p) \/ Doifree(p) \/ IallocNew(p)
      BY <3>1 DEF Iread, IputTrunc, Ifree, Doifree, IallocNew
    <3>2. CASE \/ IallocUsed(p) \/ Unlink(p) \/ UnlinkRefused(p) \/ LinkUndone(p)
               \/ UpdateWrite(p) \/ OpenRefused(p) \/ LinkRefused(p)
      BY <3>2 DEF IallocUsed, Unlink, UnlinkRefused, LinkUndone, UpdateWrite, OpenRefused,
                  LinkRefused
    <3> QED
      BY <3>1, <3>2
  <2> QED
    BY <1>1, <1>2, <2>1 DEF Still, States
<1>5. dino' \in [Inos -> [mode : BOOLEAN, nlink : Int]]
  <2>1. CASE UNCHANGED dino
    BY <1>2, <2>1
  <2>2. CASE IputTrunc(p)
    BY <1>1, <1>2, <2>2, ImageType DEF IputTrunc
  <2>3. CASE Ifree(p)
    <3>1. islot[s] \in Slots
      BY <1>1, <1>2
    <3>2. [islot[s] EXCEPT !.mode = FALSE, !.dirty = FALSE] \in Slots
      BY <3>1 DEF Slots
    <3> QED
      BY <1>2, <2>3, <3>2, ImageType DEF Ifree
  <2>4. CASE IallocNew(p)
    <3>1. islot[s] \in Slots
      BY <1>1, <1>2
    <3>2. PICK x : x = Edited(islot[s], TRUE, 1, FALSE)
      OBVIOUS
    <3>3. x \in Slots
      BY <3>1, <3>2, 1 \in Int, SlotEdits
    <3>4. dino' = [dino EXCEPT ![x.ino] = Image(x)]
      BY <2>4, <3>2 DEF IallocNew, Edited
    <3> QED
      BY <1>2, <3>3, <3>4, ImageType
  <2>5. CASE IallocUsed(p) \/ UpdateWrite(p)
    BY <1>1, <1>2, <2>5, ImageType DEF IallocUsed, UpdateWrite
  <2> QED
    BY <2>1, <2>2, <2>3, <2>4, <2>5
    DEF Iread, Doifree, Unlink, UnlinkRefused, OpenRefused, LinkRefused, LinkUndone
<1>6. sInode' \in [InoEntries -> 0 .. NInodes] /\ sNinode' \in 0 .. NICINOD /\ sIlock' \in BOOLEAN
  <2>0. /\ sInode \in [InoEntries -> 0 .. NInodes] /\ sNinode \in 0 .. NICINOD
        /\ NICINOD \in Nat
    BY <1>1, InodeAssumption DEF InoTyped
  <2>1. CASE Doifree(p)
    <3>1. islot[s].ino \in 0 .. NInodes
      BY <1>1, <1>2 DEF Slots
    <3>2. sIlock' \in BOOLEAN
      BY <1>1, <2>1, Zenon DEF Doifree, InoTyped
    <3>3. CASE sNinode >= NICINOD
      <4>1. sNinode' = sNinode
        BY <2>1, <3>3 DEF Doifree
      <4>2. sInode' = sInode \/ sInode' = [sInode EXCEPT ![0] = islot[s].ino]
        BY <2>1, <3>3 DEF Doifree
      <4> QED
        BY <2>0, <3>1, <3>2, <4>1, <4>2
    <3>4. CASE ~(sNinode >= NICINOD)
      <4>1. sNinode' = sNinode + 1 /\ sInode' = [sInode EXCEPT ![sNinode] = islot[s].ino]
        BY <2>1, <3>4 DEF Doifree
      <4> QED
        BY <2>0, <3>1, <3>2, <3>4, <4>1 DEF InoEntries
    <3> QED
      BY <3>3, <3>4
  <2>2. CASE UNCHANGED superVars
    BY <1>1, <2>2 DEF InoTyped, superVars
  <2> QED
    BY <2>1, <2>2
    DEF Iread, IputTrunc, Ifree, IallocNew, IallocUsed, Unlink, UnlinkRefused, OpenRefused,
        LinkRefused, LinkUndone, UpdateWrite
<1>7. entries' \in [Inos -> Int]
  <2>1. CASE Unlink(p)
    BY <1>1, <2>1 DEF Unlink, InoTyped
  <2>2. CASE UNCHANGED entries
    BY <1>1, <2>2 DEF InoTyped
  <2> QED
    BY <2>1, <2>2
    DEF Iread, IputTrunc, Ifree, Doifree, IallocNew, IallocUsed, UnlinkRefused, OpenRefused,
        LinkRefused, LinkUndone, UpdateWrite
<1>8. UNCHANGED <<ifreelist, mcount, dirLock, ichan>>
  BY DEF Iread, IputTrunc, Ifree, Doifree, IallocNew, IallocUsed, Unlink, UnlinkRefused,
         OpenRefused, LinkRefused, LinkUndone, UpdateWrite
<1>9. \A q \in Iprocs : ArgsOf(q)'
  BY <1>1, <1>4 DEF ArgsOf, InoTyped, Still
<1>10. InoTyped'
  BY <1>1, <1>3, <1>4, <1>5, <1>6, <1>7, <1>8, <1>9 DEF InoTyped, Known, Same, SameCount
<1>11. LastOf(p)'
  <2>2. CASE iproc[p].pc \in {"ifree", "doifree", "ilast"}
    BY <1>1, <1>3, <1>4, <2>2 DEF InoInv, LastUsers, LastOf, SameCount
  <2>3. CASE IputTrunc(p)
    BY <1>1, <1>3, <1>4, <2>3 DEF IputTrunc, LastOf, SameCount
  <2>4. CASE iproc[p].pc \notin {"ifree", "doifree", "ilast"} /\ ~IputTrunc(p)
    <3>1. \E l \in {"got", "iput", "wdir"} : iproc'[p].pc = l
      <4>1. \/ \E l \in {"got", "iput", "wdir"} : iproc' = [iproc EXCEPT ![p].pc = l]
            \/ iproc' = [iproc EXCEPT ![p].pc = "iput", ![p].why = "none"]
        BY <2>4 DEF Iread, Ifree, Doifree, IallocNew, IallocUsed, Unlink, UnlinkRefused, OpenRefused,
                    LinkRefused, LinkUndone, UpdateWrite
      <4> QED
        BY <1>2, <4>1 DEF States
    <3> QED
      BY <3>1 DEF LastOf
  <2> QED
    BY <2>2, <2>3, <2>4
<1> QED
  BY <1>1, <1>3, <1>4, <1>8, <1>10, <1>11, QuietStep

\* The search of a block of inodes takes as many numbers as there is room for.
LEMMA TakenFits ==
    ASSUME NEW free \in SUBSET Inos, NEW n \in Nat, NEW taken,
           taken = {j \in free : Cardinality({k \in free : k <= j}) <= n}
    PROVE  Cardinality(taken) \in 0 .. n
<1> DEFINE Below(j) == {k \in free : k <= j}
           T == {b \in Nat : \A j \in taken : j <= b}
<1>1. free \subseteq Nat \ {0} /\ NInodes \in Nat /\ IsFiniteSet(free)
  <2>1. free \subseteq 1 .. NInodes /\ NInodes \in Nat
    BY InodeAssumption DEF Inos
  <2>2. IsFiniteSet(1 .. NInodes)
    BY <2>1, FS_Interval, 1 \in Int
  <2>3. IsFiniteSet(free)
    BY <2>1, <2>2, FS_Subset
  <2> QED
    BY <2>1, <2>3
<1>2. taken \subseteq free /\ IsFiniteSet(taken) /\ Cardinality(taken) \in Nat
  BY <1>1, FS_Subset, FS_CardinalityType
<1>3. CASE taken = {}
  <2>1. Cardinality(taken) = 0
    BY <1>3, FS_EmptySet
  <2> QED
    BY <2>1
<1>4. CASE taken # {}
  <2>1. T \in SUBSET Nat /\ NInodes \in T
    BY <1>1, <1>2, InodeAssumption DEF Inos
  <2>2. PICK b \in T : \A c \in T : b <= c
    BY <2>1, LeastExists
  <2>3. b \in taken
    <3>1. SUFFICES ASSUME b \notin taken PROVE FALSE
      OBVIOUS
    <3>2. \A j \in taken : j \in Nat /\ j # 0 /\ j <= b /\ j # b
      BY <1>1, <1>2, <3>1
    <3>0. b \in Nat
      OBVIOUS
    <3>7. PICK a \in taken : a \in Nat /\ a # 0 /\ a <= b
      BY <1>4, <3>2
    <3>3. b \in Nat /\ b # 0
      BY <3>0, <3>7
    <3>4. b - 1 \in Nat /\ \A j \in taken : j <= b - 1
      BY <3>2, <3>3
    <3>5. b - 1 \in T
      BY <3>4
    <3>6. b <= b - 1
      BY <2>2, <3>5
    <3> QED
      BY <3>3, <3>6
  <2>4. taken \subseteq Below(b) /\ IsFiniteSet(Below(b))
    BY <1>1, <1>2, FS_Subset
  <2>5. Cardinality(taken) <= Cardinality(Below(b)) /\ Cardinality(Below(b)) \in Nat
    BY <2>4, FS_Subset, FS_CardinalityType
  <2>6. Cardinality(Below(b)) <= n
    BY <2>3
  <2> HIDE DEF Below, T
  <2> QED
    BY <1>2, <2>5, <2>6
<1> QED
  BY <1>3, <1>4

\* What the steps of ialloc do with the super block.
LEMMA SuperTyped ==
    ASSUME InoTyped, NEW p \in Iprocs,
           \/ DoiallocScan(p) \/ DoiallocBlock(p) \/ DoiallocEnd(p)
    PROVE  sInode' \in [InoEntries -> 0 .. NInodes] /\ sNinode' \in 0 .. NICINOD
           /\ sIlock' \in BOOLEAN
<1>0. /\ sInode \in [InoEntries -> 0 .. NInodes] /\ sNinode \in 0 .. NICINOD
      /\ NICINOD \in Nat \ {0} /\ NInodes \in Nat /\ 0 \in InoEntries
  BY InodeAssumption DEF InoTyped, InoEntries
<1>1. sIlock' \in BOOLEAN
  BY Zenon DEF DoiallocScan, DoiallocBlock, DoiallocEnd, InoTyped
<1>2. CASE DoiallocScan(p)
  BY <1>0, <1>1, <1>2 DEF DoiallocScan
<1>3. CASE DoiallocEnd(p)
  <2>1. sNinode' \in 0 .. NICINOD
    BY <1>0, <1>3 DEF DoiallocEnd
  <2>2. sInode' \in [InoEntries -> 0 .. NInodes]
    BY <1>0, <1>3 DEF DoiallocEnd
  <2> QED
    BY <1>1, <2>1, <2>2
<1>4. CASE DoiallocBlock(p)
  <2> DEFINE i == iproc[p].ino
             free == {j \in i .. i + INOPB - 1 : j \in Inos /\ ~dino[j].mode}
             Rank(j) == Cardinality({k \in free : k <= j})
             taken == {j \in free : Rank(j) <= sNinode}
  <2>1. /\ sInode' = [e \in InoEntries |-> IF \E j \in taken : e = sNinode - Rank(j)
                                            THEN CHOOSE j \in taken : e = sNinode - Rank(j)
                                            ELSE sInode[e]]
        /\ sNinode' = sNinode - Cardinality(taken)
    BY <1>4 DEF DoiallocBlock
  <2>2. free \in SUBSET Inos /\ taken \subseteq 0 .. NInodes
    BY DEF Inos
  <2>3. /\ taken = {j \in free : Cardinality({k \in free : k <= j}) <= sNinode}
        /\ sNinode \in Nat
    BY <1>0
  <2> HIDE DEF taken, Rank, free
  <2>5. Cardinality(taken) \in 0 .. sNinode
    BY <2>2, <2>3, TakenFits
  <2>4. sInode' \in [InoEntries -> 0 .. NInodes]
    <3>1. ASSUME NEW e \in InoEntries, \E j \in taken : e = sNinode - Rank(j)
          PROVE  (CHOOSE j \in taken : e = sNinode - Rank(j)) \in taken
      BY <3>1
    <3> QED
      BY <1>0, <2>1, <2>2, <3>1
  <2> QED
    BY <1>0, <1>1, <2>1, <2>4, <2>5
<1> QED
  BY <1>2, <1>3, <1>4

\* The steps of a process that has no inode locked, neither before nor after, and that do
\* not touch the in-core inodes.
LEMMA BareStep ==
    ASSUME InoInv, NEW p \in Iprocs,
           \/ DoiallocScan(p) \/ DoiallocBlock(p) \/ DoiallocEnd(p) \/ Maknode(p)
           \/ LinkName(p) \/ LinkFails(p) \/ \E i \in Inos : UnlinkBegin(p, i)
    PROVE  InoInv'
<1> USE DEF LockedPCs, KeptPCs, BarePCs, Whys
<1>1. InoTyped /\ iproc \in [Iprocs -> States] /\ Nobody \notin Islots
  BY InodeAssumption DEF InoInv, InoTyped
<1>2. /\ UNCHANGED <<islot, ifreelist, mcount, dino, ichan>>
      /\ iproc[p].pc \in {"out", "ialloc", "scan", "link"} /\ ichan[p] = Nobody
  <2>1. /\ UNCHANGED <<islot, ifreelist, mcount, dino, ichan>>
        /\ iproc[p].pc \in {"out", "ialloc", "scan", "link"}
    BY DEF DoiallocScan, DoiallocBlock, DoiallocEnd, Maknode, LinkName, LinkFails, UnlinkBegin
  <2> QED
    BY <2>1 DEF InoInv, InoSleepers, SleepersOf
<1>3. /\ iproc' \in [Iprocs -> States]
      /\ \A q \in Iprocs \ {p} : Still(q)
      /\ iproc'[p].ip = iproc[p].ip /\ ArgsOf(p)'
      /\ iproc'[p].pc \in {"out", "ialloc", "scan", "open", "undo", "iget"}
  <2>0. iproc[p].pc # "link" => iproc[p].ip = Nobody
    BY <1>1, <1>2 DEF InoTyped, ArgsOf, States
  <2>1. CASE \/ DoiallocScan(p) \/ DoiallocBlock(p)
    <3>1. \E j \in Int : iproc' = [iproc EXCEPT ![p].pc = "scan", ![p].ino = j]
      <4>1. CASE DoiallocScan(p)
        <5>1. sInode[0] \in Int /\ INOPB \in Nat \ {0}
          BY SMTT(60), ZenonT(60), <1>1, InodeAssumption DEF InoTyped, InoEntries
        <5>2. FsINOS(sInode[0]) \in Int
          BY <5>1 DEF FsINOS
        <5> QED
          BY <4>1, <5>2 DEF DoiallocScan
      <4>2. CASE DoiallocBlock(p)
        <5>1. iproc[p].ino + INOPB \in Int /\ iproc[p].pc = "scan"
          BY <1>1, <4>2, InodeAssumption DEF DoiallocBlock, States
        <5>2. iproc' = [iproc EXCEPT ![p].pc = "scan", ![p].ino = iproc[p].ino + INOPB]
          BY <1>1, <4>2, <5>1 DEF DoiallocBlock, States
        <5> QED
          BY <5>1, <5>2
      <4> QED
        BY <2>1, <4>1, <4>2
    <3>2. iproc[p].pc \in {"ialloc", "scan"}
      BY <2>1 DEF DoiallocScan, DoiallocBlock
    <3>3. PICK j \in Int : iproc' = [iproc EXCEPT ![p].pc = "scan", ![p].ino = j]
      BY <3>1
    <3>4. iproc[p] \in States /\ iproc[p].ip = Nobody
      BY <1>1, <2>0, <3>2
    <3>5. [iproc[p] EXCEPT !.pc = "scan", !.ino = j] \in States
      BY <3>4 DEF States
    <3>6. iproc' \in [Iprocs -> States] /\ \A q \in Iprocs \ {p} : Still(q)
      BY <1>1, <3>3, <3>5 DEF Still
    <3>7. iproc'[p].pc = "scan" /\ iproc'[p].ip = Nobody
      BY <1>1, <3>3, <3>4 DEF States
    <3> QED
      BY <1>1, <3>4, <3>6, <3>7 DEF ArgsOf
  <2>2. CASE DoiallocEnd(p) \/ Maknode(p) \/ \E i \in Inos : UnlinkBegin(p, i)
    <3>1. iproc[p].pc # "link"
      BY <2>2 DEF DoiallocEnd, Maknode, UnlinkBegin
    <3>2. PICK x : iproc' = [iproc EXCEPT ![p] = x]
                   /\ \/ x = [iproc[p] EXCEPT !.pc = "ialloc"]
                      \/ x = Out
                      \/ x = [Out EXCEPT !.pc = "ialloc", !.why = "create"]
                      \/ \E i \in Inos : x = [Out EXCEPT !.pc = "iget", !.why = "unlink", !.ino = i]
      <4>1. CASE DoiallocEnd(p)
        <5>1. CASE iproc' = [iproc EXCEPT ![p].pc = "ialloc"]
          BY <1>1, <5>1
        <5> QED
          BY <4>1, <5>1 DEF DoiallocEnd, InoGoes
      <4>2. CASE Maknode(p)
        BY <4>2 DEF Maknode, InoGoes
      <4>3. CASE \E i \in Inos : UnlinkBegin(p, i)
        BY <4>3 DEF UnlinkBegin, InoGoes
      <4> QED
        BY <2>2, <4>1, <4>2, <4>3
    <3>3. /\ x \in States /\ x.ip = Nobody /\ x.pc \in {"out", "ialloc", "iget"}
          /\ x.pc = "iget" => x.ino \in Inos
      <4>1. iproc[p] \in States /\ iproc[p].ip = Nobody
        BY <1>1, <2>0, <3>1
      <4>2. CASE x = [iproc[p] EXCEPT !.pc = "ialloc"]
        BY <4>1, <4>2 DEF States
      <4>3. CASE x = Out \/ x = [Out EXCEPT !.pc = "ialloc", !.why = "create"]
        <5>1. \E l \in {"out", "ialloc"}, w \in {"none", "create"} :
                 x = [pc |-> l, why |-> w, ino |-> 0, ip |-> Nobody]
          BY <4>3 DEF Out
        <5> QED
          BY <5>1 DEF States
      <4>4. CASE \E i \in Inos : x = [Out EXCEPT !.pc = "iget", !.why = "unlink", !.ino = i]
        <5>1. PICK i \in Inos : x = [pc |-> "iget", why |-> "unlink", ino |-> i, ip |-> Nobody]
          BY <4>4 DEF Out
        <5>2. i \in Int
          BY DEF Inos
        <5> QED
          BY <5>1, <5>2 DEF States
      <4> QED
        BY <3>2, <4>2, <4>3, <4>4
    <3>4. iproc' \in [Iprocs -> States] /\ iproc'[p] = x /\ \A q \in Iprocs \ {p} : Still(q)
      BY <1>1, <3>2, <3>3 DEF Still
    <3>5. iproc[p].ip = Nobody
      BY <2>0, <3>1
    <3> QED
      BY <1>1, <3>3, <3>4, <3>5 DEF ArgsOf
  <2>3. CASE LinkName(p) \/ LinkFails(p)
    <3>1. \E l \in {"open", "undo"} : iproc' = [iproc EXCEPT ![p].pc = l]
      BY <2>3 DEF LinkName, LinkFails
    <3>2. iproc[p].pc = "link"
      BY <2>3 DEF LinkName, LinkFails
    <3>3. iproc[p] \in States /\ iproc[p].ino \in Inos /\ iproc[p].ip \in Islots
      BY <1>1, <3>2 DEF InoTyped, ArgsOf
    <3>4. PICK l \in {"open", "undo"} : iproc' = [iproc EXCEPT ![p].pc = l]
      BY <3>1
    <3>5. [iproc[p] EXCEPT !.pc = l] \in States
      BY <3>3 DEF States
    <3>6. iproc' \in [Iprocs -> States] /\ \A q \in Iprocs \ {p} : Still(q)
      BY <1>1, <3>4, <3>5 DEF Still
    <3>7. iproc'[p].pc = l /\ iproc'[p].ino = iproc[p].ino /\ iproc'[p].ip = iproc[p].ip
      BY <1>1, <3>3, <3>4 DEF States
    <3> QED
      BY <3>3, <3>6, <3>7 DEF ArgsOf
  <2> QED
    BY <2>1, <2>2, <2>3
<1>4. sInode' \in [InoEntries -> 0 .. NInodes] /\ sNinode' \in 0 .. NICINOD /\ sIlock' \in BOOLEAN
  <2>1. CASE UNCHANGED superVars
    BY <1>1, <2>1 DEF InoTyped, superVars
  <2> QED
    BY <1>1, <2>1, SuperTyped DEF Maknode, LinkName, LinkFails, UnlinkBegin
<1>5. entries' \in [Inos -> Int] /\ dirLock' \in Iprocs \cup {Nobody}
  <2>1. CASE LinkName(p)
    <3>1. iproc[p].ino \in Inos /\ entries \in [Inos -> Int] /\ dirLock \in Iprocs \cup {Nobody}
      BY <1>1, <2>1 DEF LinkName, InoTyped, ArgsOf
    <3> QED
      BY <2>1, <3>1 DEF LinkName
  <2>2. CASE ~LinkName(p)
    BY <1>1, <2>2
    DEF DoiallocScan, DoiallocBlock, DoiallocEnd, Maknode, LinkFails, UnlinkBegin, InoTyped
  <2> QED
    BY <2>1, <2>2
<1>6. \A q \in Iprocs : ArgsOf(q)'
  BY <1>1, <1>3 DEF ArgsOf, InoTyped, Still
<1>7. InoTyped'
  BY <1>1, <1>2, <1>3, <1>4, <1>5, <1>6 DEF InoTyped, Known
<1>8. LastOf(p)'
  BY <1>3 DEF LastOf
<1>9. iproc[p].pc \notin LockedPCs /\ iproc'[p].pc \notin LockedPCs
  BY <1>2, <1>3
<1> QED
  BY <1>2, <1>3, <1>7, <1>8, <1>9, QuietStep DEF Same, SameCount

-----------------------------------------------------------------------------
(* iget and plock *)

\* A slot as iget takes it for inode i.
Retaken(r, i) == [r EXCEPT !.ino = i, !.hashed = TRUE, !.count = 1, !.lock = TRUE, !.want = FALSE,
                           !.dirty = FALSE]

\* What iget makes of a slot it takes from the free list.
LEMMA RetakenFacts ==
    ASSUME NEW r \in Slots, NEW i \in Inos
    PROVE  LET x == Retaken(r, i)
           IN  x \in Slots /\ x.ino = i /\ x.hashed /\ x.count = 1 /\ x.lock
<1>1. i \in 0 .. NInodes /\ 1 \in Int
  BY InodeAssumption DEF Inos
<1> QED
  BY <1>1 DEF Slots, Retaken

\* The slot that iget takes is free.
LEMMA UsableFree ==
    ASSUME InoInv, Usable # {}
    PROVE  /\ FirstUsable \in Islots /\ Listed(FirstUsable)
           /\ ~islot[FirstUsable].lock /\ islot[FirstUsable].count = 0
<1>1. ifreelist \in Seq(Islots) /\ DOMAIN ifreelist = 1 .. Len(ifreelist) /\ Len(ifreelist) \in Nat
  BY DEF InoInv, InoTyped
<1>2. Usable \in SUBSET Nat
  BY <1>1 DEF Usable
<1>3. PICK n \in Usable : FirstUsable = ifreelist[n]
  <2>1. \E n \in Usable : \A m \in Usable : n <= m
    BY <1>2, LeastExists
  <2> QED
    BY <2>1 DEF FirstUsable
<1>4. FirstUsable \in Islots /\ Listed(FirstUsable) /\ ~islot[FirstUsable].lock
  BY <1>1, <1>3 DEF Usable, Listed
<1> QED
  BY <1>4 DEF InoInv, CountsOK

\* p finds the inode locked, or locks one that it has (plock).
LEMMA PlockStep ==
    ASSUME InoInv, NEW p \in Iprocs, NEW pc \in LockedPCs \ {"ifree", "doifree", "ilast"},
           iproc[p].pc \in {"open", "undo"}, ichan[p] = Nobody, Plock(p, pc),
           UNCHANGED <<ifreelist, mcount, dino, superVars, entries, dirLock>>
    PROVE  InoInv'
<1> PICK s : s = iproc[p].ip
  OBVIOUS
<1>1. /\ InoTyped /\ islot \in [Islots -> Slots] /\ iproc \in [Iprocs -> States]
      /\ ichan \in [Iprocs -> Islots \cup {Nobody}] /\ Nobody \notin Islots
  BY InodeAssumption DEF InoInv, InoTyped
<1>2. /\ iproc[p] \in States /\ iproc[p].pc \notin LockedPCs /\ s \in Islots
      /\ iproc[p].ino \in Inos /\ islot[s] \in Slots
  BY <1>1 DEF InoTyped, ArgsOf, LockedPCs, KeptPCs
<1>3. CASE /\ islot[s].lock
           /\ islot' = [islot EXCEPT ![s].want = TRUE]
           /\ ichan' = [ichan EXCEPT ![p] = s]
           /\ UNCHANGED iproc
  <2>1. islot' \in [Islots -> Slots] /\ \A t \in Islots : Known(t)'
    BY <1>1, <1>2, <1>3 DEF Slots, InoTyped, Known
  <2>2. InoTyped'
    BY <1>1, <1>2, <1>3, <2>1 DEF InoTyped, superVars, ArgsOf
  <2> QED
    BY <1>1, <1>2, <1>3, <2>2, SleepStep DEF Still
<1>4. CASE /\ ~islot[s].lock
           /\ islot' = [islot EXCEPT ![s].lock = TRUE]
           /\ iproc' = [iproc EXCEPT ![p].pc = pc]
           /\ UNCHANGED ichan
  <2>1. /\ islot' \in [Islots -> Slots] /\ islot'[s].lock
        /\ \A t \in Islots \ {s} : Same(t)
        /\ \A t \in Islots : SameCount(t)
        /\ \A t \in Islots : islot'[t].hashed = islot[t].hashed /\ islot'[t].ino = islot[t].ino
    BY <1>1, <1>2, <1>4 DEF Slots, Same, SameCount
  <2>2. [iproc[p] EXCEPT !.pc = pc] \in States
    BY <1>2 DEF States
  <2>3. iproc' \in [Iprocs -> States] /\ \A q \in Iprocs \ {p} : Still(q)
    BY <1>1, <1>4, <2>2 DEF Still
  <2>4. iproc'[p].pc = pc /\ iproc'[p].ip = s /\ iproc'[p].ino = iproc[p].ino
    BY <1>1, <1>2, <1>4 DEF States
  <2>5. \A q \in Iprocs : ArgsOf(q)' /\ iproc'[q].ip = iproc[q].ip
    BY <1>1, <1>2, <2>3, <2>4 DEF InoTyped, ArgsOf, Still
  <2>6. InoTyped'
    BY <1>1, <1>4, <2>1, <2>3, <2>5 DEF InoTyped, Known, SameCount, superVars
  <2>7. CountsOK'
    BY <2>1, <2>5, CountsKept DEF SameCount
  <2>8. LocksExact' /\ InoSleepers' /\ LastUsers'
    BY <1>2, <1>4, <2>1, <2>3, <2>4, <2>6, LockTaken DEF Locks, LastOf
  <2>9. HashedOnce'
    BY <2>1 DEF InoInv, HashedOnce
  <2> QED
    BY <2>6, <2>7, <2>8, <2>9 DEF InoInv
<1> QED
  BY <1>3, <1>4 DEF Plock

\* The in-core inodes after iget.
LEMMA IgetSlots ==
    ASSUME InoInv, NEW p \in Iprocs, NEW x \in States, x.ino \in Inos, NEW s \in Islots,
           \/ /\ Hashed(x.ino) = {} /\ Usable # {} /\ s = FirstUsable /\ TakeSlot(p, x, s)
           \/ s \in Hashed(x.ino) /\ ~islot[s].lock /\ FoundInCore(p, x, s)
    PROVE  /\ islot' \in [Islots -> Slots] /\ ~islot[s].lock /\ islot'[s].lock
           /\ islot'[s].ino \in Inos
           /\ \A t \in Islots \ {s} : Same(t) /\ SameCount(t)
           /\ islot'[s].count = islot[s].count + 1
           /\ ifreelist' = IF islot[s].count = 0 THEN Unlisted(s) ELSE ifreelist
           /\ mcount' = IF islot[s].count = 0 THEN mcount + 1 ELSE mcount
           /\ HashedOnce'
           /\ \E l \in {"got", "iread"} : InoGoes(p, [x EXCEPT !.pc = l, !.ip = s])
           /\ UNCHANGED ichan
<1>1. islot \in [Islots -> Slots] /\ islot[s] \in Slots
  BY DEF InoInv, InoTyped
<1>2. CASE Hashed(x.ino) = {} /\ Usable # {} /\ s = FirstUsable /\ TakeSlot(p, x, s)
  <2>1. ~islot[s].lock /\ islot[s].count = 0
    BY <1>2, UsableFree
  <2>2. islot' = [islot EXCEPT ![s] = Retaken(islot[s], x.ino)]
    BY <1>1, <1>2 DEF TakeSlot, Retaken
  <2>3. PICK r \in Slots : /\ islot' = [islot EXCEPT ![s] = r]
                           /\ r.ino = x.ino /\ r.hashed /\ r.count = 1 /\ r.lock
    BY <1>1, <2>2, RetakenFacts
  <2>4. /\ islot' \in [Islots -> Slots] /\ islot'[s] = r
        /\ \A t \in Islots \ {s} : Same(t) /\ SameCount(t)
    BY <1>1, <2>3 DEF Same, SameCount
  <2>5. HashedOnce'
    <3>1. \A t \in Islots : ~(islot[t].hashed /\ islot[t].ino = x.ino)
      BY <1>2 DEF Hashed
    <3> QED
      BY <2>3, <2>4, <3>1 DEF HashedOnce, InoInv, Same
  <2> QED
    BY <1>2, <2>1, <2>3, <2>4, <2>5 DEF TakeSlot
<1>3. CASE s \in Hashed(x.ino) /\ ~islot[s].lock /\ FoundInCore(p, x, s)
  <2>1. islot' = [islot EXCEPT ![s].count = @ + 1, ![s].lock = TRUE]
    BY <1>3 DEF FoundInCore
  <2>4. PICK r : r = [islot[s] EXCEPT !.count = islot[s].count + 1, !.lock = TRUE]
    OBVIOUS
  <2>5. islot[s].count + 1 \in Int
    BY <1>1 DEF Slots
  <2>6. /\ r \in Slots /\ r.count = islot[s].count + 1 /\ r.lock
        /\ r.ino = islot[s].ino /\ r.hashed = islot[s].hashed
    BY <1>1, <2>4, <2>5 DEF Slots
  <2>7. islot' = [islot EXCEPT ![s] = r]
    BY <1>1, <2>1, <2>4 DEF Slots
  <2>2. /\ islot' \in [Islots -> Slots] /\ islot'[s].lock
        /\ islot'[s].count = islot[s].count + 1
        /\ \A t \in Islots \ {s} : Same(t) /\ SameCount(t)
        /\ \A t \in Islots : islot'[t].hashed = islot[t].hashed /\ islot'[t].ino = islot[t].ino
    BY <1>1, <2>6, <2>7 DEF Same, SameCount
  <2>3. HashedOnce'
    BY <2>2 DEF InoInv, HashedOnce
  <2> QED
    BY <1>3, <2>2, <2>3 DEF FoundInCore, Hashed
<1> QED
  BY <1>2, <1>3

\* iget.
LEMMA IgetStep ==
    ASSUME InoInv, NEW p \in Iprocs, NEW x \in States, x.ino \in Inos, x.ip = Nobody,
           iproc[p].pc \in {"iget", "ialloc", "out"}, ichan[p] = Nobody, Iget(p, x),
           sInode' \in [InoEntries -> 0 .. NInodes], sNinode' \in 0 .. NICINOD,
           sIlock' \in BOOLEAN
    PROVE  InoInv'
<1>1. /\ InoTyped /\ islot \in [Islots -> Slots] /\ iproc \in [Iprocs -> States]
      /\ ichan \in [Iprocs -> Islots \cup {Nobody}] /\ Nobody \notin Islots
  BY InodeAssumption DEF InoInv, InoTyped
<1>2. iproc[p].pc \notin LockedPCs \cup KeptPCs /\ iproc[p].ip = Nobody
  BY <1>1 DEF InoTyped, ArgsOf, LockedPCs, KeptPCs, States
<1>3. UNCHANGED <<dino, entries>> /\ dirLock' \in Iprocs \cup {Nobody}
  BY <1>1 DEF Iget, InoTyped
<1>4. ASSUME NEW y \in States, iproc' = [iproc EXCEPT ![p] = y],
             y.pc \notin {"out", "ialloc", "scan"} => y.ino \in Inos,
             y.ip \in Islots <=> y.pc \in LockedPCs \cup KeptPCs,
             islot' \in [Islots -> Slots], \A t \in Islots : Known(t)',
             ifreelist' \in Seq(Islots), mcount' \in Int,
             ichan' \in [Iprocs -> Islots \cup {Nobody}]
      PROVE  /\ InoTyped' /\ iproc'[p] = y
             /\ \A q \in Iprocs \ {p} : Still(q)
  <2>1. iproc' \in [Iprocs -> States] /\ iproc'[p] = y /\ \A q \in Iprocs \ {p} : Still(q)
    BY <1>1, <1>4 DEF Still
  <2>2. \A q \in Iprocs : ArgsOf(q)'
    BY <1>1, <1>4, <2>1 DEF InoTyped, ArgsOf, Still
  <2> QED
    BY <1>1, <1>3, <1>4, <2>1, <2>2 DEF InoTyped
<1>5. ASSUME NEW s \in Islots,
             \/ /\ Hashed(x.ino) = {} /\ Usable # {} /\ s = FirstUsable /\ TakeSlot(p, x, s)
             \/ s \in Hashed(x.ino) /\ ~islot[s].lock /\ FoundInCore(p, x, s)
      PROVE  InoInv'
  <2>1. /\ islot' \in [Islots -> Slots] /\ ~islot[s].lock /\ islot'[s].lock
        /\ \A t \in Islots \ {s} : Same(t) /\ SameCount(t)
        /\ islot'[s].count = islot[s].count + 1
        /\ ifreelist' = IF islot[s].count = 0 THEN Unlisted(s) ELSE ifreelist
        /\ mcount' = IF islot[s].count = 0 THEN mcount + 1 ELSE mcount
        /\ HashedOnce' /\ UNCHANGED ichan /\ islot'[s].ino \in Inos
    BY <1>5, IgetSlots
  <2>2. PICK l \in {"got", "iread"} : iproc' = [iproc EXCEPT ![p] = [x EXCEPT !.pc = l, !.ip = s]]
    <3>1. \E l \in {"got", "iread"} : InoGoes(p, [x EXCEPT !.pc = l, !.ip = s])
      BY <1>5, IgetSlots
    <3> QED
      BY <3>1 DEF InoGoes
  <2>3. PICK y : y = [x EXCEPT !.pc = l, !.ip = s]
    OBVIOUS
  <2>4. /\ y \in States /\ y.ip = s /\ y.pc = l /\ y.ino = x.ino
        /\ iproc' = [iproc EXCEPT ![p] = y]
    BY <2>2, <2>3 DEF States, LockedPCs
  <2>5. ifreelist' \in Seq(Islots) /\ mcount' \in Int
    <3>1. /\ ifreelist \in Seq(Islots) /\ mcount \in Int
          /\ islot[s].count = 0 <=> Listed(s)
          /\ \A m, n \in DOMAIN ifreelist : ifreelist[m] = ifreelist[n] => m = n
      BY DEF InoInv, InoTyped, CountsOK
    <3>2. islot[s].count = 0 => Unlisted(s) \in Seq(Islots)
      BY <3>1, UnlistedFacts
    <3> QED
      BY <2>1, <3>1, <3>2
  <2>6. /\ InoTyped' /\ iproc'[p] = y
        /\ \A q \in Iprocs \ {p} : Still(q)
    <3>1. \A t \in Islots : Known(t)'
      BY <1>1, <2>1 DEF InoTyped, Known, Same, SameCount
    <3> QED
      BY <1>1, <1>4, <2>1, <2>4, <2>5, <3>1 DEF LockedPCs
  <2>7. CountsOK'
    BY <1>1, <1>2, <2>1, <2>4, <2>6, CountsTaken DEF Still, SameCount
  <2>8. LocksExact' /\ InoSleepers' /\ LastUsers'
    BY <1>2, <2>1, <2>4, <2>6, LockTaken DEF Locks, LastOf, LockedPCs
  <2> QED
    BY <2>1, <2>6, <2>7, <2>8 DEF InoInv
<1>6. ASSUME NEW s \in Hashed(x.ino), islot[s].lock, FoundLocked(p, x, s)
      PROVE  InoInv'
  <2>1. /\ islot' = [islot EXCEPT ![s].want = TRUE] /\ ichan' = [ichan EXCEPT ![p] = s]
        /\ UNCHANGED <<ifreelist, mcount>>
    BY <1>6 DEF FoundLocked
  <2>2. PICK y : y = [x EXCEPT !.pc = "iget"]
    OBVIOUS
  <2>3. /\ y \in States /\ y.ip = Nobody /\ y.pc = "iget" /\ y.ino = x.ino
        /\ iproc' = [iproc EXCEPT ![p] = y]
    BY <1>6, <2>2 DEF States, BarePCs, FoundLocked, InoGoes
  <2>4. s \in Islots
    BY DEF Hashed
  <2>5. /\ islot' \in [Islots -> Slots] /\ ichan' \in [Iprocs -> Islots \cup {Nobody}]
        /\ \A t \in Islots : Known(t)'
    <3>1. /\ islot' \in [Islots -> Slots] /\ ichan' \in [Iprocs -> Islots \cup {Nobody}]
          /\ \A t \in Islots : islot'[t].count = islot[t].count /\ islot'[t].ino = islot[t].ino
      BY ZenonT(60), <1>1, <2>1, <2>4 DEF Slots
    <3> QED
      BY <1>1, <3>1 DEF InoTyped, Known
  <2>6. /\ InoTyped' /\ iproc'[p] = y
        /\ \A q \in Iprocs \ {p} : Still(q)
    BY <1>1, <1>4, <2>1, <2>3, <2>5 DEF LockedPCs, KeptPCs, InoTyped
  <2> QED
    BY <1>2, <1>6, <2>1, <2>3, <2>4, <2>6, SleepStep
<1>7. ASSUME TableFull(p, x) PROVE InoInv'
  <2>1. /\ UNCHANGED <<islot, ifreelist, mcount, ichan>>
        /\ iproc' = [iproc EXCEPT ![p] = Out]
    BY <1>7 DEF TableFull, InoGoes
  <2>2. Out \in States /\ Out.ip = Nobody /\ Out.pc = "out"
    BY DEF Out, States, BarePCs, Whys
  <2>3. /\ InoTyped' /\ iproc'[p] = Out
        /\ \A q \in Iprocs \ {p} : Still(q)
    BY <1>1, <1>4, <2>1, <2>2 DEF LockedPCs, KeptPCs, InoTyped, Known
  <2> QED
    BY <1>2, <2>1, <2>2, <2>3, QuietStep DEF LockedPCs, Same, SameCount, LastOf
<1> QED
  <2>1. CASE Hashed(x.ino) = {} /\ Usable # {} /\ TakeSlot(p, x, FirstUsable)
    BY <1>5, <2>1, UsableFree
  <2>2. CASE TableFull(p, x)
    BY <1>7, <2>2
  <2>3. CASE \E s \in Hashed(x.ino) : IF islot[s].lock THEN FoundLocked(p, x, s)
                                                       ELSE FoundInCore(p, x, s)
    BY <1>5, <1>6, <2>3 DEF Hashed
  <2> QED
    BY <2>1, <2>2, <2>3 DEF Iget

-----------------------------------------------------------------------------
(* prele and iput *)

\* The in-core inodes after prele.
LEMMA PreleFacts ==
    ASSUME InoInv, NEW s \in Islots, NEW r \in Slots, Prele(s, r)
    PROVE  /\ islot' \in [Islots -> Slots] /\ ichan' \in [Iprocs -> Islots \cup {Nobody}]
           /\ islot'[s].count = r.count /\ islot'[s].ino = r.ino
           /\ \A t \in Islots \ {s} : Same(t) /\ SameCount(t)
<1>1. islot \in [Islots -> Slots] /\ ichan \in [Iprocs -> Islots \cup {Nobody}]
  BY DEF InoInv, InoTyped
<1>2. Released(r) \in Slots /\ Released(r).count = r.count /\ Released(r).ino = r.ino
  BY DEF Released, Slots
<1>3. islot' = [islot EXCEPT ![s] = Released(r)] /\ (ichan' = Awake(s) \/ ichan' = ichan)
  BY DEF Prele
<1> HIDE DEF Released
<1>4. ichan' \in [Iprocs -> Islots \cup {Nobody}]
  BY <1>1, <1>3 DEF Awake
<1> QED
  BY <1>1, <1>2, <1>3, <1>4 DEF Same, SameCount

\* The steps by which a process unlocks its inode and keeps it.
LEMMA UnlockStep ==
    ASSUME InoInv, NEW p \in Iprocs, Wdir(p) \/ Open(p) \/ Link(p)
    PROVE  InoInv'
<1> PICK s : s = iproc[p].ip
  OBVIOUS
<1>1. /\ InoTyped /\ islot \in [Islots -> Slots] /\ iproc \in [Iprocs -> States]
      /\ Nobody \notin Islots /\ dino \in [Inos -> [mode : BOOLEAN, nlink : Int]]
  BY InodeAssumption DEF InoInv, InoTyped
<1>2. /\ iproc[p] \in States /\ iproc[p].pc \in {"got", "wdir"} /\ s \in Islots
      /\ iproc[p].ino \in Inos /\ islot[s] \in Slots
  BY <1>1 DEF Wdir, Open, Link, InoTyped, ArgsOf, LockedPCs
<1>3. PICK r : r = IF Link(p) THEN Edited(islot[s], islot[s].mode, islot[s].nlink + 1, FALSE)
                              ELSE islot[s]
  OBVIOUS
<1>4. /\ r \in Slots /\ r.want = islot[s].want /\ r.count = islot[s].count
      /\ r.ino = islot[s].ino /\ r.hashed = islot[s].hashed
  <2>1. islot[s].mode \in BOOLEAN /\ islot[s].nlink + 1 \in Int
    BY <1>2 DEF Slots
  <2>2. CASE Link(p)
    <3>1. PICK m \in BOOLEAN, n \in Int, d \in BOOLEAN : r = Edited(islot[s], m, n, d)
      BY <1>3, <2>1, <2>2
    <3> QED
      BY <1>2, <3>1, SlotEdits
  <2>3. CASE ~Link(p)
    BY <1>2, <1>3, <2>3
  <2> QED
    BY <2>2, <2>3
<1>5. Prele(s, r)
  <2>1. CASE Link(p)
    <3>1. r = [islot[s] EXCEPT !.nlink = @ + 1, !.dirty = FALSE]
      BY <1>2, <1>3, <2>1 DEF Edited, Slots
    <3> QED
      BY <2>1, <3>1 DEF Link
  <2> QED
    BY <1>3, <2>1 DEF Wdir, Open
<1>6. PICK l \in {"open", "link"} : iproc' = [iproc EXCEPT ![p].pc = l, ![p].why = "none"]
  BY DEF Wdir, Open, Link
<1>7. [iproc[p] EXCEPT !.pc = l, !.why = "none"] \in States
  BY <1>2 DEF States, KeptPCs, Whys
<1>8. iproc' \in [Iprocs -> States] /\ \A q \in Iprocs \ {p} : Still(q)
  BY <1>1, <1>6, <1>7 DEF Still
<1>9. iproc'[p].pc = l /\ iproc'[p].ip = s /\ iproc'[p].ino = iproc[p].ino
  BY <1>1, <1>2, <1>6 DEF States
<1>10. \A q \in Iprocs : ArgsOf(q)' /\ iproc'[q].ip = iproc[q].ip
  BY <1>1, <1>2, <1>8, <1>9 DEF InoTyped, ArgsOf, Still, KeptPCs
<1>11. /\ islot' \in [Islots -> Slots] /\ ichan' \in [Iprocs -> Islots \cup {Nobody}]
       /\ \A t \in Islots : SameCount(t) /\ Known(t)'
  <2>1. /\ islot' \in [Islots -> Slots] /\ ichan' \in [Iprocs -> Islots \cup {Nobody}]
        /\ islot'[s].count = r.count /\ islot'[s].ino = r.ino
        /\ \A t \in Islots \ {s} : Same(t) /\ SameCount(t)
    BY <1>2, <1>4, <1>5, PreleFacts
  <2>2. \A t \in Islots : islot'[t].count = islot[t].count /\ islot'[t].ino = islot[t].ino
    BY <1>4, <2>1 DEF Same, SameCount
  <2> QED
    BY <1>1, <2>1, <2>2 DEF SameCount, InoTyped, Known
<1>12. /\ dino' \in [Inos -> [mode : BOOLEAN, nlink : Int]]
       /\ entries' \in [Inos -> Int] /\ dirLock' \in Iprocs \cup {Nobody}
       /\ UNCHANGED <<ifreelist, mcount, superVars>>
  <2>1. CASE Wdir(p)
    BY <1>1, <1>2, <2>1 DEF Wdir, InoTyped
  <2>2. CASE Open(p)
    BY <1>1, <2>2 DEF Open, InoTyped
  <2>3. CASE Link(p)
    <3>1. UNCHANGED <<ifreelist, mcount, superVars, entries, dirLock>>
      BY <2>3 DEF Link
    <3>2. dino' = [dino EXCEPT ![r.ino] = Image(r)]
      <4>1. r = [islot[s] EXCEPT !.nlink = @ + 1, !.dirty = FALSE]
        BY <1>2, <1>3, <2>3 DEF Edited, Slots
      <4> QED
        BY <2>3, <4>1 DEF Link
    <3>3. dino' \in [Inos -> [mode : BOOLEAN, nlink : Int]]
      BY <1>1, <1>4, <3>2, ImageType
    <3> QED
      BY <1>1, <3>1, <3>3 DEF InoTyped
  <2> QED
    BY <2>1, <2>2, <2>3
<1>13. InoTyped'
  BY <1>1, <1>8, <1>10, <1>11, <1>12 DEF InoTyped, superVars
<1>14. LocksExact' /\ InoSleepers' /\ HashedOnce' /\ LastUsers'
  BY <1>2, <1>4, <1>5, <1>8, <1>9, <1>13, LockGiven DEF Locks, LockedPCs
<1>15. CountsOK'
  BY <1>10, <1>11, <1>12, CountsKept DEF SameCount
<1> QED
  BY <1>13, <1>14, <1>15 DEF InoInv

\* The end of iput.
LEMMA IputStep ==
    ASSUME InoInv, NEW p \in Iprocs, IputShared(p) \/ IputLast(p)
    PROVE  InoInv'
<1> PICK s : s = iproc[p].ip
  OBVIOUS
<1>1. /\ InoTyped /\ islot \in [Islots -> Slots] /\ iproc \in [Iprocs -> States]
      /\ Nobody \notin Islots /\ dino \in [Inos -> [mode : BOOLEAN, nlink : Int]]
      /\ ifreelist \in Seq(Islots) /\ mcount \in Int
  BY InodeAssumption DEF InoInv, InoTyped
<1>2. /\ iproc[p] \in States /\ iproc[p].pc \in {"iput", "ilast"} /\ s \in Islots
      /\ iproc[p].ino \in Inos /\ islot[s] \in Slots /\ islot[s].count \in Int
  BY <1>1 DEF IputShared, IputLast, InoTyped, ArgsOf, LockedPCs, Slots
<1>3. PICK r \in Slots :
         /\ Prele(s, r) /\ r.want = islot[s].want /\ r.count = islot[s].count - 1
         /\ r.ino = islot[s].ino /\ r.hashed = islot[s].hashed
         /\ ifreelist' = IF islot[s].count = 1 THEN Append(ifreelist, s) ELSE ifreelist
         /\ mcount' = IF islot[s].count = 1 THEN mcount - 1 ELSE mcount
  <2>1. CASE IputShared(p)
    <3>1. PICK r : r = [islot[s] EXCEPT !.count = islot[s].count - 1]
      OBVIOUS
    <3>2. islot[s].count - 1 \in Int
      BY <1>2
    <3>3. /\ r \in Slots /\ r.want = islot[s].want /\ r.count = islot[s].count - 1
          /\ r.ino = islot[s].ino /\ r.hashed = islot[s].hashed
      BY <1>2, <3>1, <3>2 DEF Slots
    <3>4. Prele(s, r) /\ islot[s].count # 1 /\ UNCHANGED <<ifreelist, mcount>>
      BY <1>2, <2>1, <3>1 DEF IputShared, Slots
    <3> QED
      BY <3>3, <3>4
  <2>2. CASE IputLast(p)
    <3>1. PICK r : r = [islot[s] EXCEPT !.count = 0, !.dirty = FALSE]
      OBVIOUS
    <3>2. islot[s].count = 1
      BY <2>2 DEF IputLast, InoInv, LastUsers, LastOf
    <3>3. 0 \in Int
      OBVIOUS
    <3>4. /\ r \in Slots /\ r.want = islot[s].want /\ r.count = 0
          /\ r.ino = islot[s].ino /\ r.hashed = islot[s].hashed
      BY <1>2, <3>1, <3>3 DEF Slots
    <3>5. Prele(s, r) /\ ifreelist' = Append(ifreelist, s) /\ mcount' = mcount - 1
      BY <2>2, <3>1 DEF IputLast
    <3> QED
      BY <3>2, <3>4, <3>5
  <2> QED
    BY <2>1, <2>2
<1>4. PICK x : /\ iproc' = [iproc EXCEPT ![p] = x] /\ x \in States
               /\ x.ip = Nobody /\ x.pc \in {"ialloc", "out"}
  <2>1. PICK x : /\ iproc' = [iproc EXCEPT ![p] = x]
                 /\ x = Out \/ x = [Out EXCEPT !.pc = "ialloc", !.why = "create"]
    BY DEF IputShared, IputLast, AfterIput, InoGoes
  <2>2. \E l \in {"out", "ialloc"}, w \in {"none", "create"} :
           x = [pc |-> l, why |-> w, ino |-> 0, ip |-> Nobody]
    BY <2>1 DEF Out
  <2>3. x \in States /\ x.ip = Nobody /\ x.pc \in {"ialloc", "out"}
    BY <2>2 DEF States, BarePCs, Whys
  <2> QED
    BY <2>1, <2>3
<1>5. iproc' \in [Iprocs -> States] /\ iproc'[p] = x /\ \A q \in Iprocs \ {p} : Still(q)
  BY <1>1, <1>4 DEF Still
<1>6. \A q \in Iprocs : ArgsOf(q)'
  BY <1>1, <1>4, <1>5 DEF InoTyped, ArgsOf, Still, LockedPCs, KeptPCs
<1>7. /\ islot' \in [Islots -> Slots] /\ ichan' \in [Iprocs -> Islots \cup {Nobody}]
      /\ islot'[s].count = islot[s].count - 1 /\ islot'[s].ino = islot[s].ino
      /\ \A t \in Islots \ {s} : Same(t) /\ SameCount(t)
  BY <1>2, <1>3, PreleFacts
<1>14. \A t \in Islots : Known(t)'
  <2>1. islot[s].ino \in Inos
    <3>1. Users(s) # {} /\ Users(s) \subseteq Iprocs
      BY DEF Users
    <3>2. Cardinality(Users(s)) # 0
      BY <3>1, FiniteSlots, FS_EmptySet
    <3> QED
      BY <1>1, <1>2, <3>2 DEF InoInv, CountsOK, InoTyped, Known
  <2> QED
    BY <1>1, <1>7, <2>1 DEF InoTyped, Known, Same, SameCount
<1>8. dino' \in [Inos -> [mode : BOOLEAN, nlink : Int]]
  BY <1>1, <1>2, ImageType DEF IputShared, IputLast
<1>9. dirLock' \in Iprocs \cup {Nobody} /\ UNCHANGED <<superVars, entries>>
  BY <1>1 DEF IputShared, IputLast, AfterIput, InoTyped
<1>10. ifreelist' \in Seq(Islots) /\ mcount' \in Int
  BY <1>1, <1>2, <1>3
<1>11. InoTyped'
  BY <1>1, <1>5, <1>6, <1>7, <1>8, <1>9, <1>10, <1>14 DEF InoTyped, superVars
<1>12. LocksExact' /\ InoSleepers' /\ HashedOnce' /\ LastUsers'
  BY <1>2, <1>3, <1>4, <1>5, <1>11, LockGiven DEF Locks, LockedPCs
<1>13. CountsOK'
  BY <1>1, <1>2, <1>3, <1>4, <1>5, <1>7, <1>11, CountsGiven DEF Still, SameCount
<1> QED
  BY <1>11, <1>12, <1>13 DEF InoInv

\* update locks an inode that somebody uses.
LEMMA UpdateStep ==
    ASSUME InoInv, NEW p \in Iprocs, NEW s \in Islots, Update(p, s)
    PROVE  InoInv'
<1>1. /\ InoTyped /\ islot \in [Islots -> Slots] /\ iproc \in [Iprocs -> States]
      /\ Nobody \notin Islots
  BY InodeAssumption DEF InoInv, InoTyped
<1>2. /\ iproc[p] \in States /\ iproc[p].pc = "out" /\ iproc[p].ip \notin Islots
      /\ ~islot[s].lock /\ islot[s].count # 0 /\ islot[s].count \in Int
      /\ islot[s] \in Slots /\ ichan[p] = Nobody
  BY <1>1 DEF Update, InoTyped, ArgsOf, LockedPCs, KeptPCs, Slots, InoInv, InoSleepers, SleepersOf
<1>3. islot[s].ino \in Inos /\ islot[s].ino \in Int /\ islot[s].count + 1 \in Int
  BY <1>1, <1>2 DEF InoTyped, Known, Inos
<1>4. PICK r : r = [islot[s] EXCEPT !.lock = TRUE, !.count = islot[s].count + 1]
  OBVIOUS
<1>5. /\ r \in Slots /\ r.lock /\ r.count = islot[s].count + 1
      /\ r.ino = islot[s].ino /\ r.hashed = islot[s].hashed
  BY <1>2, <1>3, <1>4 DEF Slots
<1>6. islot' = [islot EXCEPT ![s] = r]
  BY <1>1, <1>2, <1>4 DEF Update, Slots
<1>7. /\ islot' \in [Islots -> Slots] /\ islot'[s].lock /\ islot'[s].count = islot[s].count + 1
      /\ \A t \in Islots \ {s} : Same(t) /\ SameCount(t)
      /\ \A t \in Islots : islot'[t].hashed = islot[t].hashed /\ islot'[t].ino = islot[t].ino
  BY <1>1, <1>5, <1>6 DEF Same, SameCount
<1>8. PICK x : x = [Out EXCEPT !.pc = "update", !.why = "sync", !.ip = s, !.ino = islot[s].ino]
  OBVIOUS
<1>9. /\ x \in States /\ iproc' = [iproc EXCEPT ![p] = x]
      /\ x.pc = "update" /\ x.ip = s /\ x.ino = islot[s].ino
  <2>1. iproc' = [iproc EXCEPT ![p] = x]
    BY <1>8 DEF Update, InoGoes
  <2>2. x = [pc |-> "update", why |-> "sync", ino |-> islot[s].ino, ip |-> s]
    BY <1>8 DEF Out
  <2> QED
    BY <1>3, <2>1, <2>2 DEF States, LockedPCs, Whys
<1>10. iproc' \in [Iprocs -> States] /\ iproc'[p] = x /\ \A q \in Iprocs \ {p} : Still(q)
  BY <1>1, <1>9 DEF Still
<1>11. \A q \in Iprocs : ArgsOf(q)'
  BY <1>1, <1>3, <1>9, <1>10 DEF InoTyped, ArgsOf, Still, LockedPCs
<1>12. UNCHANGED <<ifreelist, mcount, dino, superVars, entries, dirLock, ichan>>
  BY DEF Update
<1>13. \A t \in Islots : Known(t)'
  BY <1>1, <1>3, <1>7 DEF InoTyped, Known, Same, SameCount
<1>14. InoTyped'
  BY <1>1, <1>7, <1>10, <1>11, <1>12, <1>13 DEF InoTyped, superVars
<1>15. LocksExact' /\ InoSleepers' /\ LastUsers'
  BY <1>2, <1>7, <1>9, <1>10, <1>12, <1>14, LockTaken DEF Locks, LastOf, LockedPCs
<1>16. CountsOK'
  BY <1>2, <1>7, <1>9, <1>10, <1>12, <1>14, CountsTaken DEF Still, SameCount
<1>17. HashedOnce'
  BY <1>7 DEF InoInv, HashedOnce
<1> QED
  BY <1>14, <1>15, <1>16, <1>17 DEF InoInv

-----------------------------------------------------------------------------
(* The theorems *)

\* The steps of a process that calls iget.
LEMMA LookStep ==
    ASSUME InoInv, NEW p \in Iprocs,
           \/ IgetAgain(p) \/ DoiallocPop(p)
           \/ \E i \in Inos : Namei(p, "open", i) \/ Namei(p, "link", i)
    PROVE  InoInv'
<1>1. /\ InoTyped /\ sInode \in [InoEntries -> 0 .. NInodes] /\ sNinode \in 0 .. NICINOD
      /\ sIlock \in BOOLEAN /\ NICINOD \in Nat \ {0} /\ NInodes \in Nat /\ Nobody \notin Islots
  BY InodeAssumption DEF InoInv, InoTyped
<1>2. iproc[p] \in States /\ ichan[p] \in Islots \cup {Nobody}
  BY <1>1 DEF InoTyped
<1>3. CASE IgetAgain(p)
  <2>1. /\ iproc[p].pc = "iget" /\ ichan[p] = Nobody /\ Iget(p, iproc[p])
        /\ UNCHANGED <<sInode, sNinode, sIlock>>
    BY <1>3 DEF IgetAgain, superVars
  <2>2. iproc[p].ino \in Inos /\ iproc[p].ip = Nobody
    BY <1>1, <1>2, <2>1 DEF InoTyped, ArgsOf, States, LockedPCs, KeptPCs
  <2> QED
    BY <1>1, <1>2, <2>1, <2>2, IgetStep
<1>4. CASE DoiallocPop(p)
  <2>1. PICK i : i = sInode[sNinode - 1]
    OBVIOUS
  <2>2. /\ iproc[p].pc = "ialloc" /\ sNinode > 0 /\ i # 0 /\ sNinode' = sNinode - 1
        /\ Iget(p, [iproc[p] EXCEPT !.ino = i]) /\ UNCHANGED <<sInode, sIlock>>
    BY <1>4, <2>1 DEF DoiallocPop
  <2>3. i \in Inos /\ i \in Int /\ sNinode' \in 0 .. NICINOD
    BY <1>1, <2>1, <2>2 DEF InoEntries, Inos
  <2>4. PICK x : x = [iproc[p] EXCEPT !.ino = i]
    OBVIOUS
  <2>5. iproc[p].ip = Nobody /\ ichan[p] = Nobody
    BY <1>1, <1>2, <2>2
    DEF InoTyped, ArgsOf, States, LockedPCs, KeptPCs, InoInv, InoSleepers, SleepersOf
  <2>6. x \in States /\ x.ino = i /\ x.ip = Nobody
    BY <1>2, <2>3, <2>4, <2>5 DEF States
  <2>7. Iget(p, x)
    BY <2>2, <2>4
  <2> QED
    BY <1>1, <2>2, <2>3, <2>5, <2>6, <2>7, IgetStep
<1>5. CASE \E i \in Inos : Namei(p, "open", i) \/ Namei(p, "link", i)
  <2>1. PICK c \in {"open", "link"}, i \in Inos : Namei(p, c, i)
    BY <1>5
  <2>2. PICK x : x = [Out EXCEPT !.why = c, !.ino = i]
    OBVIOUS
  <2>3. Iget(p, x) /\ iproc[p].pc = "out" /\ UNCHANGED <<sInode, sNinode, sIlock>>
    BY <2>1, <2>2 DEF Namei, superVars
  <2>4. ichan[p] = Nobody
    BY <2>3 DEF InoInv, InoSleepers, SleepersOf
  <2>5. x \in States /\ x.ino \in Inos /\ x.ip = Nobody
    <3>1. x = [pc |-> "out", why |-> c, ino |-> i, ip |-> Nobody]
      BY <2>2 DEF Out
    <3> QED
      BY <3>1 DEF States, BarePCs, Whys, Inos
  <2> QED
    BY <1>1, <2>3, <2>4, <2>5, IgetStep
<1> QED
  BY <1>3, <1>4, <1>5

\* The first state.
LEMMA InitHolds == InoInit => InoInv
<1> SUFFICES ASSUME InoInit PROVE InoInv
  OBVIOUS
<1>1. Nobody \notin Islots \cup Iprocs /\ NInodes \in Nat /\ NICINOD \in Nat /\ Dirs \subseteq Inos
  BY InodeAssumption
<1>2. PICK q \in [1 .. Cardinality(Islots) -> Islots] :
         (\A i, j \in DOMAIN q : q[i] = q[j] => i = j) /\ ifreelist = q
  BY DEF InoInit
<1>3. /\ Cardinality(Islots) \in Nat /\ ifreelist \in Seq(Islots)
      /\ DOMAIN ifreelist = 1 .. Cardinality(Islots) /\ Len(ifreelist) = Cardinality(Islots)
      /\ \A m, n \in DOMAIN ifreelist : ifreelist[m] = ifreelist[n] => m = n
  BY <1>2, FiniteSlots
<1>4. InoTyped
  <2>1. islot \in [Islots -> Slots] /\ \A s \in Islots : Known(s)
    BY <1>1 DEF InoInit, Slots, Known
  <2>2. iproc \in [Iprocs -> States] /\ \A p \in Iprocs : ArgsOf(p)
    BY <1>1 DEF InoInit, States, Out, ArgsOf, LockedPCs, KeptPCs, BarePCs, Whys
  <2>3. /\ mcount \in Int /\ dino \in [Inos -> [mode : BOOLEAN, nlink : Int]]
        /\ sInode \in [InoEntries -> 0 .. NInodes] /\ sNinode \in 0 .. NICINOD /\ sIlock \in BOOLEAN
        /\ entries \in [Inos -> Int] /\ dirLock \in Iprocs \cup {Nobody}
        /\ ichan \in [Iprocs -> Islots \cup {Nobody}]
    <3>1. mcount \in Int /\ sNinode \in 0 .. NICINOD /\ dirLock \in Iprocs \cup {Nobody}
      BY <1>1 DEF InoInit
    <3>2. sIlock \in BOOLEAN
      BY DEF InoInit
    <3>3. dino \in [Inos -> [mode : BOOLEAN, nlink : Int]]
      BY DEF InoInit
    <3>4. sInode \in [InoEntries -> 0 .. NInodes]
      BY <1>1 DEF InoInit
    <3>5. entries \in [Inos -> Int]
      BY DEF InoInit
    <3>6. ichan \in [Iprocs -> Islots \cup {Nobody}]
      BY DEF InoInit
    <3> QED
      BY <3>1, <3>2, <3>3, <3>4, <3>5, <3>6
  <2> QED
    BY <1>3, <2>1, <2>2, <2>3 DEF InoTyped
<1>5. \A p \in Iprocs : iproc[p].pc = "out" /\ iproc[p].ip = Nobody /\ ichan[p] = Nobody
  BY DEF InoInit, Out
<1>6. LocksExact /\ InoSleepers /\ HashedOnce /\ LastUsers
  BY <1>5 DEF InoInit, LocksExact, Locks, LockedPCs, InoSleepers, SleepersOf, HashedOnce,
              LastUsers, LastOf
<1>7. CountsOK
  <2>1. \A s \in Islots : islot[s].count = 0
    BY DEF InoInit
  <2>2. \A s \in Islots : Users(s) = {}
    BY <1>1, <1>5 DEF Users
  <2>3. {s \in Islots : islot[s].count > 0} = {} /\ {s \in Islots : islot[s].count = 0} = Islots
    BY <2>1
  <2>4. \A s \in Islots : Listed(s)
    <3>1. PICK n \in Nat : n = Cardinality(Islots)
      BY <1>3
    <3>2. ifreelist \in Injection(1 .. n, Islots)
      BY <1>2, <3>1, Fun_IsInj
    <3>3. Cardinality(1 .. n) = n
      BY <3>1, FS_Interval, 1 \in Int
    <3>4. IsFiniteSet(Islots)
      BY FiniteSlots
    <3>5. ifreelist \in Surjection(1 .. n, Islots)
      BY <3>1, <3>2, <3>3, <3>4, FS_Injection
    <3> QED
      BY <1>3, <3>1, <3>5, Fun_SurjectionProperties DEF Listed
  <2>5. mcount = 0
    BY DEF InoInit
  <2> QED
    BY <1>3, <2>1, <2>2, <2>3, <2>4, <2>5, FS_EmptySet DEF CountsOK
<1> QED
  BY <1>4, <1>6, <1>7 DEF InoInv

\* Every step keeps the invariant.
LEMMA StepHolds == InoInv /\ [InoNext]_inoVars => InoInv'
<1> SUFFICES ASSUME InoInv, [InoNext]_inoVars PROVE InoInv'
  OBVIOUS
<1>1. CASE UNCHANGED inoVars
  <2>1. UNCHANGED <<islot, ifreelist, mcount, dino, sInode, sNinode, sIlock, entries, dirLock,
                    iproc, ichan>>
    BY <1>1 DEF inoVars
  <2>2. InoTyped'
    BY <2>1 DEF InoInv, InoTyped, Known, ArgsOf
  <2>3. LocksExact' /\ InoSleepers'
    BY <2>1 DEF InoInv, LocksExact, Locks, InoSleepers, SleepersOf
  <2>4. HashedOnce' /\ LastUsers'
    BY <2>1 DEF InoInv, HashedOnce, LastUsers, LastOf
  <2>5. CountsOK'
    BY <2>1, CountsKept
  <2> QED
    BY <2>2, <2>3, <2>4, <2>5 DEF InoInv
<1>2. ASSUME NEW p \in Iprocs,
             \/ IgetAgain(p) \/ DoiallocPop(p)
             \/ \E i \in Inos : Namei(p, "open", i) \/ Namei(p, "link", i)
      PROVE  InoInv'
  BY <1>2, LookStep
<1>3. ASSUME NEW p \in Iprocs,
             \/ DoiallocScan(p) \/ DoiallocBlock(p) \/ DoiallocEnd(p) \/ Maknode(p)
             \/ LinkName(p) \/ LinkFails(p) \/ \E i \in Inos : UnlinkBegin(p, i)
      PROVE  InoInv'
  BY <1>3, BareStep
<1>4. ASSUME NEW p \in Iprocs,
             \/ Iread(p) \/ IputTrunc(p) \/ Ifree(p) \/ Doifree(p) \/ IallocNew(p) \/ IallocUsed(p)
             \/ Unlink(p) \/ UnlinkRefused(p) \/ OpenRefused(p) \/ LinkRefused(p) \/ LinkUndone(p)
             \/ UpdateWrite(p)
      PROVE  InoInv'
  BY <1>4, LockedStep
<1>5. ASSUME NEW p \in Iprocs, LinkUndo(p) \/ Close(p) PROVE InoInv'
  <2>1. /\ UNCHANGED <<ifreelist, mcount, dino, superVars, entries, dirLock>>
        /\ iproc[p].pc \in {"open", "undo"} /\ ichan[p] = Nobody
        /\ Plock(p, "undone") \/ Plock(p, "iput")
    BY <1>5 DEF LinkUndo, Close
  <2>2. {"undone", "iput"} \subseteq LockedPCs \ {"ifree", "doifree", "ilast"}
    BY DEF LockedPCs
  <2> QED
    BY <2>1, <2>2, PlockStep
<1>6. ASSUME NEW p \in Iprocs, Wdir(p) \/ Open(p) \/ Link(p) PROVE InoInv'
  BY <1>6, UnlockStep
<1>7. ASSUME NEW p \in Iprocs, IputShared(p) \/ IputLast(p) PROVE InoInv'
  BY <1>7, IputStep
<1>8. ASSUME NEW p \in Iprocs, NEW s \in Islots, Update(p, s) PROVE InoInv'
  BY <1>8, UpdateStep
<1> QED
  BY <1>1, <1>2, <1>3, <1>4, <1>5, <1>6, <1>7, <1>8, Zenon DEF InoNext

\* The inductive invariant: locks and sleepers, hash table, counts and free list.
THEOREM InodeInvariant == InoSpec => []InoInv
<1>1. InoInit => InoInv
  BY InitHolds
<1>2. InoInv /\ [InoNext]_inoVars => InoInv'
  BY StepHolds
<1> QED
  BY <1>1, <1>2, PTL DEF InoSpec

\* iget never puts an inode in core twice, although it looks again each time it slept; i_count is
\* the number of those who have the inode, the free list holds exactly the slots nobody has, and
\* m_count counts the others: whatever iget, iput, ialloc, link, unlink and update do, in any order.
THEOREM InodesCounted == InoSpec => []InCoreExact
<1>1. InoInv => InCoreExact
  <2> SUFFICES ASSUME InoInv PROVE InCoreExact
    OBVIOUS
  <2>1. ASSUME NEW i \in Inos PROVE Cardinality(Hashed(i)) <= 1
    <3>1. CASE Hashed(i) = {}
      <4>1. Cardinality(Hashed(i)) = 0
        BY <3>1, FS_EmptySet
      <4> QED
        BY <4>1
    <3>2. CASE Hashed(i) # {}
      <4>1. PICK s \in Hashed(i) : TRUE
        BY <3>2
      <4>2. Hashed(i) = {s}
        BY <4>1 DEF Hashed, InoInv, HashedOnce
      <4>3. Cardinality(Hashed(i)) = 1
        BY <4>2, FS_Singleton
      <4> QED
        BY <4>3
    <3> QED
      BY <3>1, <3>2
  <2> QED
    BY <2>1 DEF InCoreExact, InoInv, CountsOK, Listed
<1> QED
  BY <1>1, InodeInvariant, PTL

\* Who sleeps for an inode, in iget or plock, finds IWANT still set when it is unlocked: prele clears
\* IWANT only with the wakeup, and iget clears it only in a slot for which nobody sleeps.
THEOREM InodeWakeupsKept == InoSpec => []InoNoLostWakeup
<1>1. InoInv => InoNoLostWakeup
  BY DEF InoInv, InoSleepers, SleepersOf, InoNoLostWakeup
<1> QED
  BY <1>1, InodeInvariant, PTL

-----------------------------------------------------------------------------
(* What the inodes say of the files *)

\* Where a process that has been at open, link or unlink does not have the inode yet, and where
\* one has counted a link whose name is not there, or has not taken it back.
BegunPCs == {"iget", "iread", "got"}
PendPCs == {"wdir", "link", "undo", "undone"}

\* The inode of slot s is being read.
Reading(s) == \E p \in Iprocs : iproc[p].ip = s /\ iproc[p].pc = "iread"

\* A slot that has been read and has not been changed is a copy of the inode; who changes it has it.
CopyOf(s) ==
    /\ islot[s].hashed => islot[s].ino \in Inos
    /\ islot[s].dirty => islot[s].hashed /\ islot[s].count # 0 /\ ~Reading(s)
    /\ islot[s].hashed /\ ~islot[s].dirty /\ ~Reading(s) => Image(islot[s]) = dino[islot[s].ino]

Copies == \A s \in Islots : CopyOf(s)

\* Who has a slot knows the inode it is of.
HeldOf(p) ==
    iproc[p].ip \in Islots => /\ islot[iproc[p].ip].hashed
                              /\ islot[iproc[p].ip].ino = iproc[p].ino

Holds == \A p \in Iprocs : HeldOf(p)

\* Who makes or removes a file has the directory locked.
DirOf(p) == /\ iproc[p].why \in {"create", "unlink"} => dirLock = p
            /\ iproc[p].pc \in {"ialloc", "scan", "wdir"} => iproc[p].why = "create"

DirHeld == \A p \in Iprocs : DirOf(p)

\* The name by which link or unlink looks for a file stays until it has it, for while
\* unlink works nobody looks for the file with link.
BegunOf(p) ==
    iproc[p].pc \in BegunPCs =>
        /\ iproc[p].why \in {"link", "unlink"} => entries[iproc[p].ino] > 0
        /\ iproc[p].why = "unlink" => Begun("link", iproc[p].ino) = {}

NamesStay == \A p \in Iprocs : BegunOf(p)

\* A file that is freed has no links.
FreeingOf(p) == iproc[p].pc = "ifree" => islot[iproc[p].ip].nlink = 0

Freed == \A p \in Iprocs : FreeingOf(p)

\* The inode of a file as its last user will leave it: the copy that has been changed, or that on disk.
Dirty(i) == {s \in Hashed(i) : islot[s].dirty}
Cur(i) == IF Dirty(i) = {} THEN dino[i] ELSE Image(islot[CHOOSE s \in Dirty(i) : TRUE])

\* Links that have been counted and have no name.
Pend(i) == {p \in Iprocs : iproc[p].ino = i /\ iproc[p].pc \in PendPCs}

\* The links of a file are its names and those whose names are to come or have been refused.
LinkedOf(i) == /\ entries[i] >= 0
               /\ Cur(i).nlink = entries[i] + Cardinality(Pend(i))
               /\ ~Cur(i).mode => Cur(i).nlink = 0

Linked == \A i \in Inos : LinkedOf(i)

FilesInv == Copies /\ Holds /\ DirHeld /\ NamesStay /\ Freed /\ Linked

\* Slot s holds what it held.
SameFile(s) ==
    /\ islot'[s].ino = islot[s].ino /\ islot'[s].hashed = islot[s].hashed
    /\ islot'[s].mode = islot[s].mode /\ islot'[s].nlink = islot[s].nlink
    /\ islot'[s].dirty = islot[s].dirty

\* Changed inodes that stay as they are leave every file as it is.
LEMMA CurKept ==
    ASSUME UNCHANGED dino,
           \A s \in Islots : islot[s].dirty \/ islot'[s].dirty => SameFile(s)
    PROVE  \A i \in Inos : Cur(i)' = Cur(i)
<1> TAKE i \in Inos
<1>1. Dirty(i)' = Dirty(i)
  BY DEF Dirty, Hashed, SameFile
<1>2. PICK c : c = CHOOSE s \in Dirty(i) : TRUE
  OBVIOUS
<1>3. CASE Dirty(i) = {}
  BY <1>1, <1>3 DEF Cur
<1>4. CASE Dirty(i) # {}
  <2>1. c \in Dirty(i) /\ c \in Islots /\ islot[c].dirty
    BY <1>2, <1>4 DEF Dirty, Hashed
  <2>2. Image(islot'[c]) = Image(islot[c])
    BY <2>1 DEF Image, SameFile
  <2>3. Cur(i) = Image(islot[c])
    BY <1>2, <1>4 DEF Cur
  <2>4. Cur(i)' = Image(islot'[c])
    <3>1. c = CHOOSE s \in Dirty(i)' : TRUE
      BY <1>1, <1>2
    <3> QED
      BY <1>1, <1>4, <3>1 DEF Cur
  <2> QED
    BY <2>2, <2>3, <2>4
<1> QED
  BY <1>3, <1>4

\* The slot of an inode that is in core and has been read is the inode.
LEMMA CurSlot ==
    ASSUME HashedOnce, Copies, NEW i \in Inos, NEW s \in Hashed(i), ~Reading(s)
    PROVE  Cur(i) = Image(islot[s])
<1>1. s \in Islots /\ islot[s].hashed /\ islot[s].ino = i /\ CopyOf(s)
  BY DEF Hashed, Copies
<1>2. \A t \in Dirty(i) : t = s
  BY <1>1 DEF Dirty, Hashed, HashedOnce
<1>3. CASE islot[s].dirty
  <2>1. Dirty(i) = {s}
    BY <1>2, <1>3 DEF Dirty
  <2>2. (CHOOSE t \in {s} : TRUE) = s
    OBVIOUS
  <2> QED
    BY <2>1, <2>2 DEF Cur
<1>4. CASE ~islot[s].dirty
  <2>1. Dirty(i) = {}
    BY <1>2, <1>4 DEF Dirty
  <2> QED
    BY <1>1, <1>4, <2>1 DEF Cur, CopyOf
<1> QED
  BY <1>3, <1>4

\* An inode of which no copy has been changed is that on disk.
LEMMA CurDisk ==
    ASSUME NEW i \in Inos, \A s \in Hashed(i) : ~islot[s].dirty
    PROVE  Cur(i) = dino[i]
<1>1. Dirty(i) = {}
  BY DEF Dirty
<1> QED
  BY <1>1 DEF Cur

\* What FileOf says.
LEMMA FileIs ==
    ASSUME InoInv, Copies, NEW i \in Inos
    PROVE  /\ Cur(i).mode \in BOOLEAN /\ Cur(i).nlink \in Int
           /\ FileOf(i) = IF Cur(i).mode THEN Cur(i).nlink ELSE Nobody
<1> DEFINE core == {s \in Hashed(i) : islot[s].count > 0 /\ \A p \in Users(s) : iproc[p].pc # "iread"}
<1>1. \A s \in Islots : islot[s].count \in Nat
  BY FiniteSlots DEF InoInv, CountsOK, Users
<1>2. /\ dino[i] \in [mode : BOOLEAN, nlink : Int]
      /\ \A s \in Islots : islot[s] \in Slots
  BY DEF InoInv, InoTyped
<1>3. CASE core = {}
  <2>1. ASSUME NEW s \in Hashed(i) PROVE ~islot[s].dirty
    <3>1. s \in Islots /\ CopyOf(s)
      BY DEF Hashed, Copies
    <3>2. SUFFICES ASSUME islot[s].dirty PROVE s \in core
      BY <1>3
    <3>3. islot[s].count > 0 /\ ~Reading(s)
      BY <1>1, <3>1, <3>2 DEF CopyOf
    <3> QED
      BY <3>3 DEF Reading, Users
  <2>2. Cur(i) = dino[i]
    BY <2>1, CurDisk
  <2>3. FileOf(i) = IF dino[i].mode THEN dino[i].nlink ELSE Nobody
    BY <1>3, Zenon DEF FileOf
  <2> QED
    BY <1>2, <2>2, <2>3
<1>4. CASE core # {}
  <2>1. PICK c : c = CHOOSE s \in core : TRUE
    OBVIOUS
  <2>2. c \in core
    BY <1>4, <2>1
  <2>3. c \in Hashed(i) /\ c \in Islots /\ ~Reading(c)
    BY <2>2 DEF Hashed, Reading, Users
  <2>4. Cur(i) = Image(islot[c])
    BY <2>3, CurSlot DEF InoInv
  <2>5. FileOf(i) = IF islot[c].mode THEN islot[c].nlink ELSE Nobody
    BY <1>4, <2>1, Zenon DEF FileOf
  <2> QED
    BY <1>2, <2>3, <2>4, <2>5 DEF Image, Slots
<1> QED
  BY <1>3, <1>4

\* A step of a process that is not reading an inode changes nothing for those who are.
LEMMA ReadingSame ==
    ASSUME NEW p \in Iprocs, \A q \in Iprocs \ {p} : Still(q),
           iproc[p].pc # "iread", iproc'[p].pc # "iread"
    PROVE  \A s : Reading(s)' <=> Reading(s)
BY DEF Reading, Still

\* An inode that p has locked is not being read, unless p reads it.
LEMMA NotReading ==
    ASSUME LocksExact, NEW p \in Iprocs, NEW s \in Islots, Locks(p, s), iproc[p].pc # "iread"
    PROVE  ~Reading(s)
BY DEF LocksExact, Locks, Reading, LockedPCs

\* A step that leaves dino and what the slots hold as they are.
LEMMA QuietFiles ==
    ASSUME InoInv, Copies, NEW p \in Iprocs, \A q \in Iprocs \ {p} : Still(q),
           iproc[p].pc # "iread", iproc'[p].pc # "iread", UNCHANGED dino,
           \A s \in Islots : SameFile(s) /\ (islot[s].count # 0 => islot'[s].count # 0)
    PROVE  Copies' /\ \A i \in Inos : Cur(i)' = Cur(i)
<1>1. \A s : Reading(s)' <=> Reading(s)
  BY ReadingSame
<1>2. \A i \in Inos : Cur(i)' = Cur(i)
  BY CurKept
<1>3. ASSUME NEW s \in Islots PROVE CopyOf(s)'
  <2>1. CopyOf(s) /\ SameFile(s) /\ (islot[s].count # 0 => islot'[s].count # 0)
    BY DEF Copies
  <2>2. Image(islot'[s]) = Image(islot[s])
    BY <2>1 DEF SameFile, Image
  <2> QED
    BY <1>1, <2>1, <2>2 DEF CopyOf, SameFile
<1> QED
  BY <1>2, <1>3 DEF Copies

\* A step that leaves slot s, of inode i, as what this is; the slot has been changed then, or
\* has been written.
LEMMA SlotStep ==
    ASSUME InoInv, HashedOnce', Copies, NEW p \in Iprocs, \A q \in Iprocs \ {p} : Still(q),
           iproc'[p].pc # "iread", NEW i \in Inos, NEW s \in Islots, Locks(p, s), iproc[p].pc # "iread",
           islot[s].hashed, islot[s].ino = i, islot'[s].hashed, islot'[s].ino = i,
           islot'[s].count # 0 \/ ~islot'[s].dirty,
           \A t \in Islots \ {s} : islot'[t] = islot[t],
           \A j \in Inos \ {i} : dino'[j] = dino[j],
           islot'[s].dirty \/ dino'[i] = Image(islot'[s])
    PROVE  /\ Copies' /\ Cur(i) = Image(islot[s]) /\ Cur(i)' = Image(islot'[s])
           /\ \A j \in Inos \ {i} : Cur(j)' = Cur(j)
<1>1. ~Reading(s) /\ HashedOnce
  BY NotReading DEF InoInv
<1>2. /\ \A t : Reading(t)' <=> Reading(t)
      /\ ~Reading(s)'
  BY <1>1, ReadingSame
<1>3. ASSUME NEW t \in Islots PROVE CopyOf(t)'
  <2>1. CASE t = s
    BY <1>2, <2>1 DEF CopyOf
  <2>2. CASE t # s
    <3>1. CopyOf(t) /\ islot'[t] = islot[t]
      BY <2>2 DEF Copies
    <3>2. islot[t].hashed => islot[t].ino \in Inos \ {i}
      BY <1>1, <2>2, <3>1 DEF HashedOnce, CopyOf
    <3> QED
      BY <1>2, <3>1, <3>2 DEF CopyOf
  <2> QED
    BY <2>1, <2>2
<1>4. Copies'
  BY <1>3 DEF Copies
<1>5. s \in Hashed(i)
  BY DEF Hashed
<1>6. Cur(i) = Image(islot[s])
  BY <1>1, <1>5, CurSlot
<1>7. Cur(i)' = Image(islot'[s])
  <2>1. \A t \in Dirty(i)' : t = s
    BY DEF Dirty, Hashed, HashedOnce
  <2>2. CASE islot'[s].dirty
    <3>1. Dirty(i)' = {s}
      BY <2>1, <2>2 DEF Dirty, Hashed
    <3>2. (CHOOSE t \in {s} : TRUE) = s
      OBVIOUS
    <3> QED
      BY <3>1, <3>2 DEF Cur
  <2>3. CASE ~islot'[s].dirty
    <3>1. Dirty(i)' = {}
      BY <2>1, <2>3 DEF Dirty
    <3> QED
      BY <2>3, <3>1 DEF Cur
  <2> QED
    BY <2>2, <2>3
<1>8. ASSUME NEW j \in Inos \ {i} PROVE Cur(j)' = Cur(j)
  <2>1. Dirty(j)' = Dirty(j) /\ s \notin Dirty(j) /\ Dirty(j) \subseteq Islots
    BY DEF Dirty, Hashed
  <2>2. PICK c : c = CHOOSE t \in Dirty(j) : TRUE
    OBVIOUS
  <2>3. Dirty(j) # {} => islot'[c] = islot[c]
    BY <2>1, <2>2
  <2>4. Cur(j) = IF Dirty(j) = {} THEN dino[j] ELSE Image(islot[c])
    BY <2>2 DEF Cur
  <2>5. Cur(j)' = IF Dirty(j) = {} THEN dino'[j] ELSE Image(islot'[c])
    <3>1. c = CHOOSE t \in Dirty(j)' : TRUE
      BY <2>1, <2>2
    <3> QED
      BY <2>1, <3>1 DEF Cur
  <2> QED
    BY <2>3, <2>4, <2>5
<1> QED
  BY <1>4, <1>6, <1>7, <1>8

-----------------------------------------------------------------------------
(* What the steps do with names and links *)

\* A step of p leaves the others what they rely on.
LEMMA OthersRely ==
    ASSUME InoInv, DirHeld, NamesStay, NEW p \in Iprocs, \A q \in Iprocs \ {p} : Still(q),
           dirLock' = dirLock \/ dirLock \in {p, Nobody},
           iproc'[p].why = "link" /\ iproc'[p].pc \in BegunPCs =>
               \/ iproc[p].why = "link" /\ iproc[p].pc \in BegunPCs /\ iproc'[p].ino = iproc[p].ino
               \/ dirLock = Nobody,
           \A i \in Inos : entries[i] > 0 =>
               entries'[i] > 0 \/ (dirLock = p /\ Begun("link", i) = {}),
           DirOf(p)', BegunOf(p)'
    PROVE  DirHeld' /\ NamesStay'
<1>1. Nobody \notin Iprocs
  BY InodeAssumption
<1>2. ASSUME NEW q \in Iprocs \ {p} PROVE DirOf(q)' /\ BegunOf(q)'
  <2>1. DirOf(q) /\ BegunOf(q) /\ iproc'[q] = iproc[q] /\ ArgsOf(q)
    BY DEF DirHeld, NamesStay, Still, InoInv, InoTyped
  <2>2. DirOf(q)'
    BY <1>1, <2>1 DEF DirOf
  <2>3. ASSUME iproc[q].pc \in BegunPCs, iproc[q].why = "unlink"
        PROVE  /\ entries'[iproc[q].ino] > 0
               /\ Begun("link", iproc[q].ino)' = {}
    <3>1. dirLock = q /\ iproc[q].ino \in Inos
      BY <2>1, <2>3 DEF DirOf, ArgsOf, BegunPCs
    <3>2. entries[iproc[q].ino] > 0 /\ Begun("link", iproc[q].ino) = {}
      BY <2>1, <2>3 DEF BegunOf
    <3>3. entries'[iproc[q].ino] > 0
      BY <3>1, <3>2
    <3>4. p \notin Begun("link", iproc[q].ino)'
      <4>1. SUFFICES ASSUME iproc'[p].why = "link", iproc'[p].pc \in BegunPCs,
                            iproc'[p].ino = iproc[q].ino
                     PROVE  FALSE
        BY <2>1 DEF Begun, BegunPCs
      <4>2. dirLock # Nobody
        BY <1>1, <3>1
      <4>3. iproc[p].why = "link" /\ iproc[p].pc \in BegunPCs /\ iproc[p].ino = iproc[q].ino
        BY <4>1, <4>2
      <4>4. p \in Begun("link", iproc[q].ino)
        BY <4>3 DEF Begun, BegunPCs
      <4> QED
        BY <3>2, <4>4
    <3>5. Begun("link", iproc[q].ino)' = {}
      BY <3>2, <3>4 DEF Begun, Still
    <3> QED
      BY <3>3, <3>5
  <2>4. ASSUME iproc[q].pc \in BegunPCs, iproc[q].why = "link"
        PROVE  entries'[iproc[q].ino] > 0
    <3>1. iproc[q].ino \in Inos /\ q \in Begun("link", iproc[q].ino)
      BY <2>1, <2>4 DEF ArgsOf, BegunPCs, Begun
    <3>2. entries[iproc[q].ino] > 0
      BY <2>1, <2>4 DEF BegunOf
    <3> QED
      BY <3>1, <3>2
  <2>5. BegunOf(q)'
    BY <2>1, <2>3, <2>4 DEF BegunOf
  <2> QED
    BY <2>2, <2>5
<1> QED
  BY <1>2 DEF DirHeld, NamesStay

\* Whose link is pending stays so, but for p.
LEMMA PendSame ==
    ASSUME NEW p \in Iprocs, \A q \in Iprocs \ {p} : Still(q), NEW i,
           (iproc[p].ino = i /\ iproc[p].pc \in PendPCs) <=>
               (iproc'[p].ino = i /\ iproc'[p].pc \in PendPCs)
    PROVE  Pend(i)' = Pend(i)
BY DEF Pend, Still

\* A process that begins with a link whose name is not there is one more of them.
LEMMA PendMore ==
    ASSUME NEW p \in Iprocs, \A q \in Iprocs \ {p} : Still(q), NEW i,
           ~(iproc[p].ino = i /\ iproc[p].pc \in PendPCs),
           iproc'[p].ino = i /\ iproc'[p].pc \in PendPCs
    PROVE  Cardinality(Pend(i)) \in Nat /\ Cardinality(Pend(i)') = Cardinality(Pend(i)) + 1
<1>1. Pend(i)' = Pend(i) \cup {p} /\ p \notin Pend(i) /\ Pend(i) \subseteq Iprocs
  BY DEF Pend, Still
<1> QED
  BY <1>1, FiniteSlots, OneMore

\* A process that is through with such a link is one less.
LEMMA PendLess ==
    ASSUME NEW p \in Iprocs, \A q \in Iprocs \ {p} : Still(q), NEW i,
           iproc[p].ino = i /\ iproc[p].pc \in PendPCs,
           ~(iproc'[p].ino = i /\ iproc'[p].pc \in PendPCs)
    PROVE  Cardinality(Pend(i)') \in Nat /\ Cardinality(Pend(i)) = Cardinality(Pend(i)') + 1
<1>1. Pend(i) = Pend(i)' \cup {p} /\ p \notin Pend(i)' /\ Pend(i)' \subseteq Iprocs
  BY DEF Pend, Still
<1> QED
  BY <1>1, FiniteSlots, OneMore

\* Who has a slot is counted.
LEMMA UsedCounted ==
    ASSUME CountsOK, NEW q \in Iprocs, NEW s \in Islots, iproc[q].ip = s
    PROVE  islot[s].count # 0
<1>1. q \in Users(s) /\ Users(s) \subseteq Iprocs
  BY DEF Users
<1>2. Cardinality(Users(s)) # 0
  BY <1>1, FiniteSlots, FS_EmptySet
<1> QED
  BY <1>2 DEF CountsOK

\* What the slots and the process p of a step have to look like for the others to go on.
SlotsRely(p) ==
    \A t \in Islots : islot[t].count # 0 =>
        /\ islot[t].hashed => islot'[t].hashed
        /\ islot'[t].ino = islot[t].ino
        /\ islot'[t].nlink = islot[t].nlink \/ Locks(p, t)

NamesRely(p) ==
    /\ dirLock' = dirLock \/ dirLock \in {p, Nobody}
    /\ iproc'[p].why = "link" /\ iproc'[p].pc \in BegunPCs =>
           \/ iproc[p].why = "link" /\ iproc[p].pc \in BegunPCs /\ iproc'[p].ino = iproc[p].ino
           \/ dirLock = Nobody
    /\ \A i \in Inos : entries[i] > 0 =>
           entries'[i] > 0 \/ (dirLock = p /\ Begun("link", i) = {})

\* A step of p that keeps to SlotsRely and NamesRely leaves the others what they know, and what p
\* itself knows afterwards is all there is to show.
LEMMA RelyStep ==
    ASSUME InoInv, FilesInv, NEW p \in Iprocs, \A q \in Iprocs \ {p} : Still(q),
           SlotsRely(p), NamesRely(p), HeldOf(p)', DirOf(p)', BegunOf(p)', FreeingOf(p)'
    PROVE  Holds' /\ DirHeld' /\ NamesStay' /\ Freed'
<1>1. DirHeld' /\ NamesStay'
  BY OthersRely DEF NamesRely, FilesInv
<1>2. ASSUME NEW q \in Iprocs \ {p} PROVE HeldOf(q)' /\ FreeingOf(q)'
  <2>1. HeldOf(q) /\ FreeingOf(q) /\ iproc'[q] = iproc[q] /\ ArgsOf(q)
    BY DEF FilesInv, Holds, Freed, Still, InoInv, InoTyped
  <2>2. CASE iproc[q].ip \notin Islots
    BY <2>1, <2>2 DEF HeldOf, FreeingOf, ArgsOf, LockedPCs
  <2>3. CASE iproc[q].ip \in Islots
    <3>1. PICK t \in Islots : t = iproc[q].ip
      BY <2>3
    <3>2. /\ islot[t].hashed => islot'[t].hashed
          /\ islot'[t].ino = islot[t].ino
          /\ islot'[t].nlink = islot[t].nlink \/ Locks(p, t)
      BY <3>1, UsedCounted DEF SlotsRely, InoInv
    <3>3. HeldOf(q)'
      BY <2>1, <3>1, <3>2 DEF HeldOf
    <3>4. iproc[q].pc = "ifree" => ~Locks(p, t)
      BY <3>1 DEF InoInv, LocksExact, Locks, LockedPCs
    <3>5. FreeingOf(q)'
      BY <2>1, <3>1, <3>2, <3>4 DEF FreeingOf
    <3> QED
      BY <3>3, <3>5
  <2> QED
    BY <2>2, <2>3
<1> QED
  BY <1>1, <1>2 DEF Holds, Freed

\* A step that changes only a slot that p has locked.
LEMMA LockedRely ==
    ASSUME NEW p \in Iprocs, NEW s \in Islots, Locks(p, s),
           islot'[s].hashed, islot'[s].ino = islot[s].ino,
           \A t \in Islots \ {s} : islot'[t] = islot[t]
    PROVE  SlotsRely(p)
<1> SUFFICES ASSUME NEW t \in Islots
             PROVE  /\ islot[t].hashed => islot'[t].hashed
                    /\ islot'[t].ino = islot[t].ino
                    /\ islot'[t].nlink = islot[t].nlink \/ Locks(p, t)
  BY DEF SlotsRely
<1>1. CASE t = s
  BY <1>1
<1>2. CASE t # s
  BY <1>2
<1> QED
  BY <1>1, <1>2

\* A user of the file of inode i, who has it before and after.
Keeps(i) == \E p \in Iprocs, s \in Islots :
               /\ iproc[p].ip = s /\ iproc'[p].ip = s
               /\ s \in Hashed(i) /\ s \in Hashed(i)'

\* What a step may do to a file.
FileMade(i) == ~Cur(i).mode /\ Cur(i)' = [mode |-> TRUE, nlink |-> 1]
FileMore(i) == Keeps(i) /\ Cur(i).mode /\ Cur(i)' = [mode |-> TRUE, nlink |-> Cur(i).nlink + 1]
FileLess(i) == /\ Keeps(i) /\ Cur(i).mode /\ Cur(i).nlink > 0
               /\ Cur(i)' = [mode |-> TRUE, nlink |-> Cur(i).nlink - 1]
FileGone(i) == /\ Cur(i) = [mode |-> TRUE, nlink |-> 0] /\ ~Cur(i)'.mode
               /\ Cardinality(UNION {Users(s) : s \in Hashed(i)}) = 1

FilesSame == \A i \in Inos : Cur(i)' = Cur(i)

FileStep ==
    \/ FilesSame
    \/ \E i \in Inos : /\ \A j \in Inos \ {i} : Cur(j)' = Cur(j)
                       /\ FileMade(i) \/ FileMore(i) \/ FileLess(i) \/ FileGone(i)

\* A step that leaves files and names as they are.
LEMMA SameStep ==
    ASSUME InoInv, FilesInv, NEW p \in Iprocs, \A q \in Iprocs \ {p} : Still(q),
           SlotsRely(p), NamesRely(p), HeldOf(p)', DirOf(p)', BegunOf(p)', FreeingOf(p)',
           Copies', FilesSame, UNCHANGED entries,
           iproc[p].pc \in PendPCs <=> iproc'[p].pc \in PendPCs,
           iproc[p].pc \in PendPCs => iproc'[p].ino = iproc[p].ino
    PROVE  FilesInv' /\ FileStep
<1>1. Holds' /\ DirHeld' /\ NamesStay' /\ Freed'
  BY RelyStep
<1>2. ASSUME NEW i \in Inos PROVE LinkedOf(i)'
  <2>1. Pend(i)' = Pend(i)
    BY PendSame
  <2>2. LinkedOf(i) /\ Cur(i)' = Cur(i) /\ entries' = entries
    BY DEF FilesInv, Linked, FilesSame
  <2> QED
    BY <2>1, <2>2 DEF LinkedOf
<1> QED
  BY <1>1, <1>2 DEF FilesInv, Linked, FileStep

\* What p does next.
LEMMA Moves ==
    ASSUME InoTyped, NEW p \in Iprocs, NEW l, NEW w,
           \/ iproc' = [iproc EXCEPT ![p].pc = l] /\ w = iproc[p].why
           \/ iproc' = [iproc EXCEPT ![p].pc = l, ![p].why = w]
    PROVE  /\ iproc'[p].pc = l /\ iproc'[p].why = w
           /\ iproc'[p].ino = iproc[p].ino /\ iproc'[p].ip = iproc[p].ip
           /\ \A q \in Iprocs \ {p} : Still(q)
BY DEF InoTyped, States, Still

\* Steps of a process that has an inode locked, and keeps all as it is.
LEMMA RefusedFiles ==
    ASSUME InoInv, FilesInv, NEW p \in Iprocs,
           \/ UnlinkRefused(p) \/ OpenRefused(p) \/ LinkRefused(p) \/ Doifree(p)
           \/ Ifree(p) /\ ~islot[iproc[p].ip].mode
    PROVE  FilesInv' /\ FileStep
<1>0. InoTyped
  BY DEF InoInv
<1>1. /\ UNCHANGED <<islot, dino, entries, dirLock>>
      /\ iproc[p].pc \in {"got", "doifree", "ifree"}
  BY DEF UnlinkRefused, OpenRefused, LinkRefused, Doifree, Ifree
<1>2. PICK l \in {"iput", "ilast"}, w \in {iproc[p].why, "none"} :
         \/ iproc' = [iproc EXCEPT ![p].pc = l] /\ w = iproc[p].why
         \/ iproc' = [iproc EXCEPT ![p].pc = l, ![p].why = w]
  BY DEF UnlinkRefused, OpenRefused, LinkRefused, Doifree, Ifree
<1>3. /\ iproc'[p].pc = l /\ iproc'[p].why = w
      /\ iproc'[p].ino = iproc[p].ino /\ iproc'[p].ip = iproc[p].ip
      /\ \A q \in Iprocs \ {p} : Still(q)
  BY <1>0, <1>2, Moves
<1>4. Copies' /\ FilesSame
  <2>1. \A s \in Islots : SameFile(s) /\ (islot[s].count # 0 => islot'[s].count # 0)
    BY <1>1 DEF SameFile
  <2> QED
    BY <1>1, <1>3, <2>1, QuietFiles DEF FilesInv, FilesSame
<1>5. HeldOf(p)' /\ DirOf(p)' /\ BegunOf(p)' /\ FreeingOf(p)'
  <2>1. HeldOf(p) /\ DirOf(p)
    BY DEF FilesInv, Holds, DirHeld
  <2>2. HeldOf(p)'
    BY <1>1, <1>3, <2>1 DEF HeldOf
  <2>3. DirOf(p)'
    BY <1>1, <1>3, <2>1 DEF DirOf
  <2> QED
    BY <1>3, <2>2, <2>3 DEF BegunOf, FreeingOf, BegunPCs
<1>6. SlotsRely(p) /\ NamesRely(p)
  BY <1>1, <1>3 DEF SlotsRely, NamesRely, BegunPCs
<1> QED
  BY <1>1, <1>3, <1>4, <1>5, <1>6, SameStep DEF PendPCs

\* What a process that has an inode has.
LEMMA HeldSlot ==
    ASSUME InoInv, FilesInv, NEW p \in Iprocs, iproc[p].pc \in LockedPCs \cup KeptPCs
    PROVE  /\ iproc[p].ip \in Islots /\ iproc[p].ino \in Inos
           /\ islot[iproc[p].ip] \in Slots
           /\ islot[iproc[p].ip].hashed /\ islot[iproc[p].ip].ino = iproc[p].ino
           /\ islot[iproc[p].ip].count # 0
           /\ iproc[p].pc \in LockedPCs => Locks(p, iproc[p].ip)
<1>1. iproc[p].ip \in Islots /\ iproc[p].ino \in Inos /\ islot[iproc[p].ip] \in Slots
  BY DEF InoInv, InoTyped, ArgsOf, LockedPCs, KeptPCs
<1>2. islot[iproc[p].ip].hashed /\ islot[iproc[p].ip].ino = iproc[p].ino
  BY <1>1 DEF FilesInv, Holds, HeldOf
<1>3. islot[iproc[p].ip].count # 0
  BY <1>1, UsedCounted DEF InoInv
<1> QED
  BY <1>1, <1>2, <1>3 DEF Locks

\* Steps that write an inode, or begin to free it, and change nothing of the file.
LEMMA WriteFiles ==
    ASSUME InoInv, InoInv', FilesInv, NEW p \in Iprocs,
           IputTrunc(p) \/ IallocUsed(p) \/ UpdateWrite(p)
    PROVE  FilesInv' /\ FileStep
<1> PICK s : s = iproc[p].ip
  OBVIOUS
<1> PICK i : i = iproc[p].ino
  OBVIOUS
<1>0. InoTyped /\ islot \in [Islots -> Slots] /\ dino \in [Inos -> [mode : BOOLEAN, nlink : Int]]
  BY DEF InoInv, InoTyped
<1>1. /\ UNCHANGED <<entries, dirLock>>
      /\ iproc[p].pc \in LockedPCs /\ iproc[p].pc \in {"iput", "got", "update"}
  BY DEF IputTrunc, IallocUsed, UpdateWrite, LockedPCs
<1>2. /\ s \in Islots /\ i \in Inos /\ islot[s] \in Slots /\ islot[s].hashed /\ islot[s].ino = i
      /\ islot[s].count # 0 /\ Locks(p, s)
  BY <1>1, HeldSlot
<1>3. PICK l \in {"iput", "ifree"} : iproc' = [iproc EXCEPT ![p].pc = l]
  BY DEF IputTrunc, IallocUsed, UpdateWrite
<1>4. /\ iproc'[p].pc = l /\ iproc'[p].why = iproc[p].why
      /\ iproc'[p].ino = i /\ iproc'[p].ip = s
      /\ \A q \in Iprocs \ {p} : Still(q)
  BY <1>0, <1>3, Moves
<1>5. PICK d \in BOOLEAN : /\ islot' = [islot EXCEPT ![s].dirty = d]
                           /\ d \/ dino' = [dino EXCEPT ![i] = Image(islot[s])]
                           /\ dino' = dino \/ dino' = [dino EXCEPT ![i] = Image(islot[s])]
  <2>1. CASE IputTrunc(p)
    BY <1>2, <2>1 DEF IputTrunc
  <2>2. CASE IallocUsed(p) \/ UpdateWrite(p)
    BY <1>2, <2>2 DEF IallocUsed, UpdateWrite
  <2> QED
    BY <2>1, <2>2
<1>6. /\ islot'[s].hashed /\ islot'[s].ino = i /\ islot'[s].count # 0
      /\ islot'[s].nlink = islot[s].nlink /\ Image(islot'[s]) = Image(islot[s])
      /\ islot'[s].dirty = d
      /\ \A t \in Islots \ {s} : islot'[t] = islot[t]
  BY <1>0, <1>2, <1>5 DEF Slots, Image
<1>7. /\ \A j \in Inos \ {i} : dino'[j] = dino[j]
      /\ islot'[s].dirty \/ dino'[i] = Image(islot'[s])
  <2>1. PICK m : m = Image(islot[s])
    OBVIOUS
  <2> QED
    BY <1>0, <1>2, <1>5, <1>6, <2>1
<1>8. /\ Copies' /\ Cur(i) = Image(islot[s]) /\ Cur(i)' = Image(islot'[s])
      /\ \A j \in Inos \ {i} : Cur(j)' = Cur(j)
  BY <1>1, <1>2, <1>4, <1>6, <1>7, SlotStep DEF InoInv, FilesInv
<1>9. FilesSame
  BY <1>6, <1>8 DEF FilesSame
<1>10. HeldOf(p)' /\ DirOf(p)' /\ BegunOf(p)' /\ FreeingOf(p)'
  <2>1. HeldOf(p) /\ DirOf(p)
    BY DEF FilesInv, Holds, DirHeld
  <2>2. HeldOf(p)'
    BY <1>4, <1>6 DEF HeldOf
  <2>3. DirOf(p)'
    BY <1>1, <1>4, <2>1 DEF DirOf
  <2>4. FreeingOf(p)'
    <3>1. l = "ifree" => IputTrunc(p)
      BY <1>0, <1>4 DEF IallocUsed, UpdateWrite, InoTyped, States
    <3>2. IputTrunc(p) => islot[s].nlink = 0
      BY DEF IputTrunc
    <3> QED
      BY <1>4, <1>6, <3>1, <3>2 DEF FreeingOf
  <2> QED
    BY <1>4, <2>2, <2>3, <2>4 DEF BegunOf, BegunPCs
<1>11. SlotsRely(p) /\ NamesRely(p)
  <2>1. SlotsRely(p)
    BY <1>2, <1>6, LockedRely
  <2> QED
    BY <1>1, <1>4, <2>1 DEF NamesRely, BegunPCs
<1> QED
  BY <1>1, <1>4, <1>8, <1>9, <1>10, <1>11, SameStep DEF PendPCs

\* The rest of iread.
LEMMA IreadFiles ==
    ASSUME InoInv, InoInv', FilesInv, NEW p \in Iprocs, Iread(p)
    PROVE  FilesInv' /\ FileStep
<1> PICK s : s = iproc[p].ip
  OBVIOUS
<1> PICK i : i = iproc[p].ino
  OBVIOUS
<1>0. InoTyped /\ islot \in [Islots -> Slots] /\ dino \in [Inos -> [mode : BOOLEAN, nlink : Int]]
  BY DEF InoInv, InoTyped
<1>1. /\ UNCHANGED <<entries, dirLock, dino>> /\ iproc[p].pc = "iread" /\ iproc[p].pc \in LockedPCs
      /\ islot' = [islot EXCEPT ![s].mode = dino[i].mode, ![s].nlink = dino[i].nlink]
  BY DEF Iread, LockedPCs
<1>2. /\ s \in Islots /\ i \in Inos /\ islot[s] \in Slots /\ islot[s].hashed /\ islot[s].ino = i
      /\ islot[s].count # 0 /\ Locks(p, s)
  BY <1>1, HeldSlot
<1>3. /\ iproc'[p].pc = "got" /\ iproc'[p].why = iproc[p].why
      /\ iproc'[p].ino = i /\ iproc'[p].ip = s
      /\ \A q \in Iprocs \ {p} : Still(q)
  <2>1. iproc' = [iproc EXCEPT ![p].pc = "got"]
    BY DEF Iread
  <2> QED
    BY ZenonT(60), <1>0, <2>1, Moves
<1>4. Reading(s) /\ ~islot[s].dirty /\ ~Reading(s)'
  <2>1. Reading(s)
    BY <1>1 DEF Reading
  <2>2. ~Reading(s)'
    <3>1. \A q \in Iprocs \ {p} : ~Locks(q, s)
      BY <1>2 DEF InoInv, LocksExact
    <3> QED
      BY <1>3, <3>1 DEF Reading, Still, Locks, LockedPCs
  <2> QED
    BY <1>2, <2>1, <2>2 DEF FilesInv, Copies, CopyOf
<1>5. /\ islot'[s].hashed /\ islot'[s].ino = i /\ islot'[s].count # 0 /\ ~islot'[s].dirty
      /\ Image(islot'[s]) = dino[i]
      /\ \A t \in Islots \ {s} : islot'[t] = islot[t]
  <2>1. /\ islot'[s].hashed /\ islot'[s].ino = i /\ islot'[s].count # 0 /\ ~islot'[s].dirty
        /\ islot'[s].mode = dino[i].mode /\ islot'[s].nlink = dino[i].nlink
        /\ \A t \in Islots \ {s} : islot'[t] = islot[t]
    BY <1>0, <1>1, <1>2, <1>4 DEF Slots
  <2>2. dino[i] = [mode |-> dino[i].mode, nlink |-> dino[i].nlink]
    BY <1>0, <1>2
  <2> QED
    BY <2>1, <2>2 DEF Image
<1>6. FilesSame
  BY <1>1, <1>4, <1>5, CurKept DEF FilesSame, SameFile
<1>7. Copies'
  <2>1. ASSUME NEW t \in Islots \ {s} PROVE CopyOf(t)'
    <3>1. Reading(t)' <=> Reading(t)
      BY <1>3 DEF Reading, Still
    <3>2. CopyOf(t) /\ islot'[t] = islot[t]
      BY <1>5 DEF FilesInv, Copies
    <3> QED
      BY <1>1, <3>1, <3>2 DEF CopyOf
  <2>2. CopyOf(s)'
    BY <1>1, <1>2, <1>4, <1>5 DEF CopyOf
  <2> QED
    BY <2>1, <2>2 DEF Copies
<1>8. HeldOf(p)' /\ DirOf(p)' /\ BegunOf(p)' /\ FreeingOf(p)'
  <2>1. DirOf(p) /\ BegunOf(p)
    BY DEF FilesInv, DirHeld, NamesStay
  <2>2. HeldOf(p)' /\ FreeingOf(p)'
    BY <1>3, <1>5 DEF HeldOf, FreeingOf
  <2>3. DirOf(p)'
    BY <1>1, <1>3, <2>1 DEF DirOf
  <2>4. BegunOf(p)'
    <3>1. Begun("link", i) = {} => p \notin Begun("link", i)
      OBVIOUS
    <3>2. p \in Begun("link", i)' <=> p \in Begun("link", i)
      BY <1>1, <1>3 DEF Begun
    <3>3. Begun("link", i)' = Begun("link", i)
      BY <1>3, <3>2 DEF Begun, Still
    <3> QED
      BY <1>1, <1>3, <2>1, <3>3 DEF BegunOf, BegunPCs
  <2> QED
    BY <2>2, <2>3, <2>4
<1>9. SlotsRely(p) /\ NamesRely(p)
  <2>1. SlotsRely(p)
    BY <1>2, <1>5, LockedRely
  <2> QED
    BY <1>1, <1>3, <2>1 DEF NamesRely, BegunPCs
<1> QED
  BY <1>1, <1>3, <1>6, <1>7, <1>8, <1>9, SameStep DEF PendPCs

\* A step of p that leaves disk and names alone, and of the slots what they hold.
LEMMA CalmStep ==
    ASSUME InoInv, FilesInv, NEW p \in Iprocs, \A q \in Iprocs \ {p} : Still(q),
           UNCHANGED <<dino, entries>>,
           \A s \in Islots : SameFile(s) /\ (islot[s].count # 0 => islot'[s].count # 0),
           iproc[p].pc \notin {"iread", "ifree"}, iproc'[p].pc \notin {"iread", "ifree"},
           HeldOf(p)', NamesRely(p), DirOf(p)', BegunOf(p)',
           iproc[p].pc \in PendPCs <=> iproc'[p].pc \in PendPCs,
           iproc[p].pc \in PendPCs => iproc'[p].ino = iproc[p].ino
    PROVE  FilesInv' /\ FileStep
<1>1. Copies' /\ FilesSame
  BY QuietFiles DEF FilesInv, FilesSame
<1>2. FreeingOf(p)' /\ SlotsRely(p)
  BY DEF FreeingOf, SlotsRely, SameFile
<1> QED
  BY <1>1, <1>2, SameStep

\* The same, where the slots are not touched.
LEMMA AloneStep ==
    ASSUME InoInv, FilesInv, NEW p \in Iprocs, \A q \in Iprocs \ {p} : Still(q),
           UNCHANGED <<islot, dino, entries>>,
           iproc[p].pc \notin {"iread", "ifree"}, iproc'[p].pc \notin {"iread", "ifree"},
           iproc'[p].ip \in Islots => /\ iproc[p].ip \in Islots /\ iproc'[p].ip = iproc[p].ip
                                      /\ iproc'[p].ino = iproc[p].ino,
           NamesRely(p), DirOf(p)', BegunOf(p)',
           iproc[p].pc \in PendPCs <=> iproc'[p].pc \in PendPCs,
           iproc[p].pc \in PendPCs => iproc'[p].ino = iproc[p].ino
    PROVE  FilesInv' /\ FileStep
<1>1. \A s \in Islots : SameFile(s) /\ (islot[s].count # 0 => islot'[s].count # 0)
  BY DEF SameFile
<1>2. HeldOf(p)'
  BY DEF FilesInv, Holds, HeldOf
<1> QED
  BY <1>1, <1>2, CalmStep

\* Steps of ialloc, and the first step of those who make or remove a file.
LEMMA BareFiles ==
    ASSUME ~LinkRaces, InoInv, FilesInv, NEW p \in Iprocs,
           \/ DoiallocScan(p) \/ DoiallocBlock(p) \/ DoiallocEnd(p) \/ Maknode(p)
           \/ LinkFails(p) \/ \E i \in Inos : UnlinkBegin(p, i)
    PROVE  FilesInv' /\ FileStep
<1>1. /\ InoTyped /\ iproc \in [Iprocs -> States] /\ iproc[p] \in States /\ ArgsOf(p)
      /\ DirOf(p) /\ Nobody \notin Islots
  BY InodeAssumption DEF InoInv, InoTyped, FilesInv, DirHeld
<1>2. UNCHANGED <<islot, dino, entries>> /\ iproc[p].pc \in {"out", "ialloc", "scan", "link"}
  BY DEF DoiallocScan, DoiallocBlock, DoiallocEnd, Maknode, LinkFails, UnlinkBegin
<1>3. CASE DoiallocScan(p) \/ DoiallocBlock(p)
  <2>1. /\ iproc[p].pc \in {"ialloc", "scan"} /\ dirLock' = dirLock
        /\ \/ \E j : iproc' = [iproc EXCEPT ![p].pc = "scan", ![p].ino = j]
           \/ iproc[p].pc = "scan" /\ \E j : iproc' = [iproc EXCEPT ![p].ino = j]
    BY <1>3 DEF DoiallocScan, DoiallocBlock
  <2>2. /\ iproc'[p].pc = "scan" /\ iproc'[p].why = iproc[p].why /\ iproc'[p].ip = iproc[p].ip
        /\ \A q \in Iprocs \ {p} : Still(q)
    <3>1. PICK j : \/ iproc' = [iproc EXCEPT ![p].pc = "scan", ![p].ino = j]
                   \/ iproc[p].pc = "scan" /\ iproc' = [iproc EXCEPT ![p].ino = j]
      BY <2>1
    <3>2. PICK y : y = IF iproc[p].pc = "scan" /\ iproc' = [iproc EXCEPT ![p].ino = j]
                         THEN [iproc[p] EXCEPT !.ino = j]
                         ELSE [iproc[p] EXCEPT !.pc = "scan", !.ino = j]
      OBVIOUS
    <3>3. y.pc = "scan" /\ y.why = iproc[p].why /\ y.ip = iproc[p].ip
      BY <1>1, <3>2 DEF States
    <3>4. iproc' = [iproc EXCEPT ![p] = y]
      BY <1>1, <3>1, <3>2
    <3> QED
      BY <1>1, <3>3, <3>4 DEF Still
  <2>3. iproc[p].ip \notin Islots
    BY <1>1, <2>1 DEF ArgsOf, LockedPCs, KeptPCs
  <2>4. NamesRely(p) /\ DirOf(p)' /\ BegunOf(p)'
    BY <1>1, <1>2, <2>1, <2>2 DEF NamesRely, DirOf, BegunOf, BegunPCs
  <2> QED
    BY <1>2, <2>1, <2>2, <2>3, <2>4, AloneStep DEF PendPCs
<1>4. CASE DoiallocEnd(p)
  <2>1. iproc[p].pc = "scan" /\ iproc[p].why = "create" /\ dirLock = p /\ iproc[p].ip \notin Islots
    BY <1>1, <1>4 DEF DoiallocEnd, DirOf, ArgsOf, LockedPCs, KeptPCs
  <2>2. CASE iproc' = [iproc EXCEPT ![p].pc = "ialloc"] /\ dirLock' = dirLock
    <3>1. /\ iproc'[p].pc = "ialloc" /\ iproc'[p].why = iproc[p].why /\ iproc'[p].ip = iproc[p].ip
          /\ \A q \in Iprocs \ {p} : Still(q)
      BY <1>1, <2>2 DEF States, Still
    <3>2. NamesRely(p) /\ DirOf(p)' /\ BegunOf(p)'
      BY <1>2, <2>1, <2>2, <3>1 DEF NamesRely, DirOf, BegunOf, BegunPCs
    <3> QED
      BY <1>2, <2>1, <3>1, <3>2, AloneStep DEF PendPCs
  <2>3. CASE iproc' = [iproc EXCEPT ![p] = Out] /\ dirLock' = Nobody
    <3>1. /\ iproc'[p].pc = "out" /\ iproc'[p].why = "none" /\ iproc'[p].ip = Nobody
          /\ \A q \in Iprocs \ {p} : Still(q)
      BY <1>1, <2>3 DEF Out, Still
    <3>2. NamesRely(p) /\ DirOf(p)' /\ BegunOf(p)'
      BY <1>2, <2>1, <2>3, <3>1 DEF NamesRely, DirOf, BegunOf, BegunPCs
    <3> QED
      BY <1>1, <1>2, <2>1, <3>1, <3>2, AloneStep DEF PendPCs
  <2> QED
    BY <1>4, <2>2, <2>3 DEF DoiallocEnd, InoGoes
<1>5. CASE Maknode(p) \/ \E i \in Inos : UnlinkBegin(p, i)
  <2>1. iproc[p].pc = "out" /\ dirLock = Nobody /\ dirLock' = p /\ iproc[p].ip \notin Islots
    BY <1>1, <1>5 DEF Maknode, UnlinkBegin, ArgsOf, LockedPCs, KeptPCs
  <2>2. CASE Maknode(p)
    <3>1. iproc' = [iproc EXCEPT ![p] = [Out EXCEPT !.pc = "ialloc", !.why = "create"]]
      BY <2>2 DEF Maknode, InoGoes
    <3>2. /\ iproc'[p].pc = "ialloc" /\ iproc'[p].why = "create" /\ iproc'[p].ip = Nobody
          /\ \A q \in Iprocs \ {p} : Still(q)
      BY <1>1, <3>1 DEF Out, Still
    <3>3. NamesRely(p) /\ DirOf(p)' /\ BegunOf(p)'
      BY <1>2, <2>1, <3>2 DEF NamesRely, DirOf, BegunOf, BegunPCs
    <3> QED
      BY <1>1, <1>2, <2>1, <3>2, <3>3, AloneStep DEF PendPCs
  <2>3. ASSUME NEW i \in Inos, UnlinkBegin(p, i) PROVE FilesInv' /\ FileStep
    <3>1. /\ iproc' = [iproc EXCEPT ![p] = [Out EXCEPT !.pc = "iget", !.why = "unlink", !.ino = i]]
          /\ entries[i] > 0 /\ Begun("link", i) = {}
      BY <2>3 DEF UnlinkBegin, InoGoes
    <3>2. /\ iproc'[p].pc = "iget" /\ iproc'[p].why = "unlink" /\ iproc'[p].ip = Nobody
          /\ iproc'[p].ino = i
          /\ \A q \in Iprocs \ {p} : Still(q)
      BY <1>1, <3>1 DEF Out, Still
    <3>3. Begun("link", i)' = {}
      BY <3>1, <3>2 DEF Begun, Still
    <3>4. NamesRely(p) /\ DirOf(p)' /\ BegunOf(p)'
      BY <1>2, <2>1, <3>1, <3>2, <3>3 DEF NamesRely, DirOf, BegunOf, BegunPCs
    <3> QED
      BY <1>1, <1>2, <2>1, <3>2, <3>4, AloneStep DEF PendPCs
  <2> QED
    BY <1>5, <2>2, <2>3
<1>6. CASE LinkFails(p)
  <2>1. iproc[p].pc = "link" /\ dirLock' = dirLock
    BY <1>6 DEF LinkFails
  <2>2. /\ iproc'[p].pc = "undo" /\ iproc'[p].why = iproc[p].why /\ iproc'[p].ip = iproc[p].ip
        /\ iproc'[p].ino = iproc[p].ino
        /\ \A q \in Iprocs \ {p} : Still(q)
    <3>1. iproc' = [iproc EXCEPT ![p].pc = "undo"]
      BY <1>6 DEF LinkFails
    <3> QED
      BY <1>1, <3>1 DEF States, Still
  <2>3. NamesRely(p) /\ DirOf(p)' /\ BegunOf(p)'
    BY <1>1, <1>2, <2>1, <2>2 DEF NamesRely, DirOf, BegunOf, BegunPCs
  <2> QED
    BY <1>2, <2>1, <2>2, <2>3, AloneStep DEF PendPCs
<1> QED
  BY <1>3, <1>4, <1>5, <1>6

\* plock.
LEMMA PlockFiles ==
    ASSUME InoInv, FilesInv, NEW p \in Iprocs, Close(p) \/ LinkUndo(p)
    PROVE  FilesInv' /\ FileStep
<1> PICK s : s = iproc[p].ip
  OBVIOUS
<1>1. /\ InoTyped /\ islot \in [Islots -> Slots] /\ HeldOf(p) /\ DirOf(p)
  BY DEF InoInv, InoTyped, FilesInv, Holds, DirHeld
<1>2. PICK l \in {"iput", "undone"} :
         /\ iproc[p].pc = IF l = "iput" THEN "open" ELSE "undo"
         /\ Plock(p, l) /\ UNCHANGED <<dino, entries, dirLock>>
  BY DEF Close, LinkUndo
<1>3. s \in Islots /\ islot[s] \in Slots
  BY <1>1, <1>2, HeldSlot DEF KeptPCs
<1>4. CASE islot' = [islot EXCEPT ![s].want = TRUE] /\ UNCHANGED iproc
  <2>1. \A t \in Islots : SameFile(t) /\ islot'[t].count = islot[t].count
    BY <1>1, <1>3, <1>4 DEF SameFile, Slots
  <2>2. \A q \in Iprocs : Still(q)
    BY <1>4 DEF Still
  <2>3. HeldOf(p)'
    BY <1>1, <1>4, <2>1 DEF HeldOf, SameFile
  <2>4. NamesRely(p) /\ DirOf(p)' /\ BegunOf(p)'
    BY <1>1, <1>2, <1>4 DEF NamesRely, DirOf, BegunOf, BegunPCs
  <2> QED
    BY <1>2, <1>4, <2>1, <2>2, <2>3, <2>4, CalmStep
<1>5. CASE islot' = [islot EXCEPT ![s].lock = TRUE] /\ iproc' = [iproc EXCEPT ![p].pc = l]
  <2>1. \A t \in Islots : SameFile(t) /\ islot'[t].count = islot[t].count
    BY <1>1, <1>3, <1>5 DEF SameFile, Slots
  <2>2. /\ iproc'[p].pc = l /\ iproc'[p].why = iproc[p].why
        /\ iproc'[p].ino = iproc[p].ino /\ iproc'[p].ip = iproc[p].ip
        /\ \A q \in Iprocs \ {p} : Still(q)
    BY <1>1, <1>5, Moves
  <2>3. HeldOf(p)'
    BY <1>1, <2>1, <2>2 DEF HeldOf, SameFile
  <2>4. NamesRely(p) /\ DirOf(p)' /\ BegunOf(p)'
    BY <1>1, <1>2, <2>2 DEF NamesRely, DirOf, BegunOf, BegunPCs
  <2> QED
    BY <1>2, <2>1, <2>2, <2>3, <2>4, CalmStep DEF PendPCs
<1> QED
  BY <1>2, <1>4, <1>5 DEF Plock

\* The caller of iput goes on.
LEMMA AfterFacts ==
    ASSUME InoInv, FilesInv, NEW p \in Iprocs, iproc[p].pc \in {"iput", "ilast"}, AfterIput(p),
           UNCHANGED entries
    PROVE  /\ iproc'[p].pc \in {"out", "ialloc"} /\ iproc'[p].ip = Nobody
           /\ \A q \in Iprocs \ {p} : Still(q)
           /\ NamesRely(p) /\ HeldOf(p)' /\ DirOf(p)' /\ BegunOf(p)' /\ FreeingOf(p)'
<1>1. InoTyped /\ iproc \in [Iprocs -> States] /\ DirOf(p) /\ Nobody \notin Islots
  BY InodeAssumption DEF InoInv, InoTyped, FilesInv, DirHeld
<1>2. CASE iproc[p].why = "create"
  <2>1. /\ iproc' = [iproc EXCEPT ![p] = [Out EXCEPT !.pc = "ialloc", !.why = "create"]]
        /\ dirLock' = dirLock
    BY <1>2 DEF AfterIput, InoGoes
  <2>2. /\ iproc'[p].pc = "ialloc" /\ iproc'[p].why = "create" /\ iproc'[p].ip = Nobody
        /\ \A q \in Iprocs \ {p} : Still(q)
    BY <1>1, <2>1 DEF Out, Still
  <2> QED
    BY <1>1, <1>2, <2>1, <2>2
    DEF NamesRely, HeldOf, DirOf, BegunOf, FreeingOf, BegunPCs
<1>3. CASE iproc[p].why # "create"
  <2>1. /\ iproc' = [iproc EXCEPT ![p] = Out]
        /\ dirLock' = IF dirLock = p THEN Nobody ELSE dirLock
    BY <1>3 DEF AfterIput, InoGoes
  <2>2. /\ iproc'[p].pc = "out" /\ iproc'[p].why = "none" /\ iproc'[p].ip = Nobody
        /\ \A q \in Iprocs \ {p} : Still(q)
    BY <1>1, <2>1 DEF Out, Still
  <2> QED
    BY <1>1, <2>1, <2>2
    DEF NamesRely, HeldOf, DirOf, BegunOf, FreeingOf, BegunPCs
<1> QED
  BY <1>2, <1>3

\* open, iput of one of several users, and update.
LEMMA CalmFiles ==
    ASSUME InoInv, FilesInv, NEW p \in Iprocs,
           Open(p) \/ IputShared(p) \/ \E s \in Islots : Update(p, s)
    PROVE  FilesInv' /\ FileStep
<1>1. /\ InoTyped /\ islot \in [Islots -> Slots] /\ HeldOf(p) /\ DirOf(p) /\ Copies
      /\ iproc \in [Iprocs -> States]
  BY DEF InoInv, InoTyped, FilesInv, Holds, DirHeld
<1>2. CASE Open(p)
  <2> PICK s : s = iproc[p].ip
    OBVIOUS
  <2>1. /\ iproc[p].pc = "got" /\ iproc[p].why = "open" /\ UNCHANGED <<dino, entries, dirLock>>
        /\ islot' = [islot EXCEPT ![s] = Released(islot[s])]
        /\ iproc' = [iproc EXCEPT ![p].pc = "open", ![p].why = "none"]
    BY <1>2 DEF Open, Prele
  <2>2. s \in Islots /\ islot[s] \in Slots
    BY <2>1, HeldSlot DEF LockedPCs
  <2>3. \A t \in Islots : SameFile(t) /\ islot'[t].count = islot[t].count
    BY <1>1, <2>1, <2>2 DEF SameFile, Slots, Released
  <2>4. /\ iproc'[p].pc = "open" /\ iproc'[p].why = "none"
        /\ iproc'[p].ino = iproc[p].ino /\ iproc'[p].ip = iproc[p].ip
        /\ \A q \in Iprocs \ {p} : Still(q)
    BY <1>1, <2>1, Moves
  <2>5. HeldOf(p)'
    BY <1>1, <2>3, <2>4 DEF HeldOf, SameFile
  <2>6. NamesRely(p) /\ DirOf(p)' /\ BegunOf(p)'
    BY <2>1, <2>4 DEF NamesRely, DirOf, BegunOf, BegunPCs
  <2> QED
    BY <2>1, <2>3, <2>4, <2>5, <2>6, CalmStep DEF PendPCs
<1>3. CASE IputShared(p)
  <2> PICK s : s = iproc[p].ip
    OBVIOUS
  <2>1. /\ iproc[p].pc = "iput" /\ AfterIput(p) /\ UNCHANGED <<dino, entries>>
        /\ islot[s].count > 1
        /\ islot' = [islot EXCEPT ![s] = Released([islot[s] EXCEPT !.count = @ - 1])]
    BY <1>3 DEF IputShared, Prele
  <2>2. s \in Islots /\ islot[s] \in Slots
    BY <2>1, HeldSlot DEF LockedPCs
  <2>3. \A t \in Islots : SameFile(t) /\ (islot[t].count # 0 => islot'[t].count # 0)
    BY <1>1, <2>1, <2>2 DEF SameFile, Slots, Released
  <2>4. /\ iproc'[p].pc \in {"out", "ialloc"}
        /\ \A q \in Iprocs \ {p} : Still(q)
        /\ NamesRely(p) /\ HeldOf(p)' /\ DirOf(p)' /\ BegunOf(p)'
    BY <2>1, AfterFacts
  <2> QED
    BY <2>1, <2>3, <2>4, CalmStep DEF PendPCs
<1>4. ASSUME NEW s \in Islots, Update(p, s) PROVE FilesInv' /\ FileStep
  <2>1. /\ iproc[p].pc = "out" /\ islot[s].dirty /\ UNCHANGED <<dino, entries, dirLock>>
        /\ islot' = [islot EXCEPT ![s].lock = TRUE, ![s].count = @ + 1] /\ islot[s].count # 0
        /\ iproc' = [iproc EXCEPT ![p] = [Out EXCEPT !.pc = "update", !.why = "sync", !.ip = s,
                                                    !.ino = islot[s].ino]]
    BY <1>4 DEF Update, InoGoes
  <2>2. islot[s] \in Slots /\ islot[s].hashed
    BY <1>1, <2>1 DEF Copies, CopyOf
  <2>3. \A t \in Islots : SameFile(t)
    BY <1>1, <2>1, <2>2 DEF SameFile, Slots
  <2>4. \A t \in Islots : islot[t].count # 0 => islot'[t].count # 0
    <3>1. \A t \in Islots : islot[t].count \in Nat
      BY FiniteSlots DEF InoInv, CountsOK, Users
    <3>2. islot'[s].count = islot[s].count + 1 /\ \A t \in Islots \ {s} : islot'[t] = islot[t]
      BY <1>1, <2>1, <2>2 DEF Slots
    <3> QED
      BY <3>1, <3>2
  <2>5. /\ iproc'[p].pc = "update" /\ iproc'[p].why = "sync" /\ iproc'[p].ip = s
        /\ iproc'[p].ino = islot[s].ino
        /\ \A q \in Iprocs \ {p} : Still(q)
    BY <1>1, <2>1 DEF Out, Still
  <2>6. HeldOf(p)'
    BY <2>2, <2>3, <2>5 DEF HeldOf, SameFile
  <2>7. NamesRely(p) /\ DirOf(p)' /\ BegunOf(p)'
    BY <2>1, <2>5 DEF NamesRely, DirOf, BegunOf, BegunPCs
  <2> QED
    BY <2>1, <2>3, <2>4, <2>5, <2>6, <2>7, CalmStep DEF PendPCs
<1> QED
  BY <1>2, <1>3, <1>4

\* iget, for a process that may look for the inode x.ino.
LEMMA IgetFiles ==
    ASSUME InoInv, FilesInv, NEW p \in Iprocs, NEW x \in States, x.ino \in Inos, x.ip = Nobody,
           iproc[p].pc \in {"iget", "ialloc", "out"}, Iget(p, x),
           x.why \in {"create", "unlink"} => dirLock = p,
           x.why \in {"link", "unlink"} => entries[x.ino] > 0,
           x.why = "unlink" => Begun("link", x.ino) = {},
           x.why = "link" =>
               \/ iproc[p].why = "link" /\ iproc[p].pc \in BegunPCs /\ x.ino = iproc[p].ino
               \/ dirLock = Nobody
    PROVE  FilesInv' /\ FileStep
<1>1. /\ InoTyped /\ islot \in [Islots -> Slots] /\ iproc \in [Iprocs -> States] /\ Copies
      /\ Nobody \notin Islots /\ iproc[p].ip \notin Islots
  BY InodeAssumption DEF InoInv, InoTyped, FilesInv, ArgsOf, LockedPCs, KeptPCs
<1>2. UNCHANGED <<dino, entries>>
  BY DEF Iget
<1>3. ASSUME NEW l \in {"got", "iread", "iget"}, NEW u,
             iproc' = [iproc EXCEPT ![p] = [x EXCEPT !.pc = l, !.ip = u]], UNCHANGED dirLock
      PROVE  /\ iproc'[p].pc = l /\ iproc'[p].ip = u /\ iproc'[p].ino = x.ino
             /\ \A q \in Iprocs \ {p} : Still(q)
             /\ NamesRely(p) /\ DirOf(p)' /\ BegunOf(p)'
  <2>1. /\ iproc'[p].pc = l /\ iproc'[p].why = x.why /\ iproc'[p].ip = u
        /\ iproc'[p].ino = x.ino
        /\ \A q \in Iprocs \ {p} : Still(q)
    BY <1>1, <1>3 DEF States, Still
  <2>2. x.why = "unlink" => Begun("link", x.ino)' = {}
    BY <2>1 DEF Begun, Still
  <2>3. NamesRely(p)
    BY <1>2, <1>3, <2>1 DEF NamesRely, BegunPCs
  <2>4. DirOf(p)' /\ BegunOf(p)'
    BY <1>2, <1>3, <2>1, <2>2 DEF DirOf, BegunOf
  <2> QED
    BY <2>1, <2>3, <2>4
<1>4. CASE Hashed(x.ino) = {} /\ Usable # {} /\ TakeSlot(p, x, FirstUsable) /\ UNCHANGED dirLock
  <2> PICK s : s = FirstUsable
    OBVIOUS
  <2>1. /\ islot' = [islot EXCEPT ![s] = Retaken(islot[s], x.ino)]
        /\ iproc' = [iproc EXCEPT ![p] = [x EXCEPT !.pc = "iread", !.ip = s]]
    BY <1>4 DEF TakeSlot, Retaken, InoGoes
  <2>2. s \in Islots /\ islot[s].count = 0 /\ islot[s] \in Slots
    BY <1>1, <1>4, UsableFree
  <2>3. /\ iproc'[p].pc = "iread" /\ iproc'[p].ip = s /\ iproc'[p].ino = x.ino
        /\ \A q \in Iprocs \ {p} : Still(q)
        /\ NamesRely(p) /\ DirOf(p)' /\ BegunOf(p)'
    BY <1>3, <1>4, <2>1
  <2>4. /\ islot'[s].hashed /\ islot'[s].ino = x.ino /\ ~islot'[s].dirty
        /\ \A t \in Islots \ {s} : islot'[t] = islot[t]
    BY <1>1, <2>1, <2>2 DEF Slots, Retaken
  <2>5. ~islot[s].dirty
    BY <2>2 DEF FilesInv, Copies, CopyOf
  <2>6. FilesSame
    BY <1>2, <2>4, <2>5, CurKept DEF FilesSame, SameFile
  <2>7. Copies'
    <3>1. ASSUME NEW t \in Islots \ {s} PROVE CopyOf(t)'
      <4>1. Reading(t)' <=> Reading(t)
        BY <1>1, <2>3 DEF Reading, Still
      <4>2. CopyOf(t) /\ islot'[t] = islot[t]
        BY <1>1, <2>4 DEF Copies
      <4> QED
        BY <1>2, <4>1, <4>2 DEF CopyOf
    <3>2. CopyOf(s)'
      <4>1. Reading(s)'
        BY <2>3 DEF Reading
      <4> QED
        BY <2>4, <4>1 DEF CopyOf
    <3> QED
      BY <3>1, <3>2 DEF Copies
  <2>8. HeldOf(p)' /\ FreeingOf(p)'
    BY <2>3, <2>4 DEF HeldOf, FreeingOf
  <2>9. SlotsRely(p)
    <3>1. \A t \in Islots : islot[t].count # 0 => islot'[t] = islot[t]
      BY <2>2, <2>4
    <3> QED
      BY <3>1 DEF SlotsRely
  <2> QED
    BY <1>2, <2>3, <2>6, <2>7, <2>8, <2>9, SameStep DEF PendPCs
<1>5. CASE TableFull(p, x) /\ dirLock' = IF dirLock = p THEN Nobody ELSE dirLock
  <2>1. UNCHANGED islot /\ iproc' = [iproc EXCEPT ![p] = Out]
    BY <1>5 DEF TableFull, InoGoes
  <2>2. /\ iproc'[p].pc = "out" /\ iproc'[p].why = "none" /\ iproc'[p].ip = Nobody
        /\ \A q \in Iprocs \ {p} : Still(q)
    BY <1>1, <2>1 DEF Out, Still
  <2>3. NamesRely(p) /\ DirOf(p)' /\ BegunOf(p)'
    BY <1>2, <1>5, <2>2 DEF NamesRely, DirOf, BegunOf, BegunPCs
  <2> QED
    BY <1>1, <1>2, <2>1, <2>2, <2>3, AloneStep DEF PendPCs
<1>6. ASSUME NEW s \in Hashed(x.ino), islot[s].lock, FoundLocked(p, x, s), UNCHANGED dirLock
      PROVE  FilesInv' /\ FileStep
  <2>1. /\ islot' = [islot EXCEPT ![s].want = TRUE]
        /\ iproc' = [iproc EXCEPT ![p] = [x EXCEPT !.pc = "iget"]]
    BY <1>6 DEF FoundLocked, InoGoes
  <2>2. s \in Islots /\ islot[s] \in Slots
    BY <1>1 DEF Hashed
  <2>3. [x EXCEPT !.pc = "iget"] = [x EXCEPT !.pc = "iget", !.ip = Nobody]
    BY DEF States
  <2>4. /\ iproc'[p].pc = "iget" /\ iproc'[p].ip = Nobody /\ iproc'[p].ino = x.ino
        /\ \A q \in Iprocs \ {p} : Still(q)
        /\ NamesRely(p) /\ DirOf(p)' /\ BegunOf(p)'
    BY <1>3, <1>6, <2>1, <2>3
  <2>5. \A t \in Islots : SameFile(t) /\ islot'[t].count = islot[t].count
    BY <1>1, <2>1, <2>2 DEF SameFile, Slots
  <2>6. HeldOf(p)'
    BY <1>1, <2>4 DEF HeldOf
  <2> QED
    BY <1>2, <2>4, <2>5, <2>6, CalmStep DEF PendPCs
<1>7. ASSUME NEW s \in Hashed(x.ino), ~islot[s].lock, FoundInCore(p, x, s), UNCHANGED dirLock
      PROVE  FilesInv' /\ FileStep
  <2>1. /\ islot' = [islot EXCEPT ![s].count = @ + 1, ![s].lock = TRUE]
        /\ iproc' = [iproc EXCEPT ![p] = [x EXCEPT !.pc = "got", !.ip = s]]
    BY <1>7 DEF FoundInCore, InoGoes
  <2>2. s \in Islots /\ islot[s] \in Slots /\ islot[s].hashed /\ islot[s].ino = x.ino
    BY <1>1 DEF Hashed
  <2>4. /\ iproc'[p].pc = "got" /\ iproc'[p].ip = s /\ iproc'[p].ino = x.ino
        /\ \A q \in Iprocs \ {p} : Still(q)
        /\ NamesRely(p) /\ DirOf(p)' /\ BegunOf(p)'
    BY <1>3, <1>7, <2>1
  <2>5. \A t \in Islots : SameFile(t)
    BY <1>1, <2>1, <2>2 DEF SameFile, Slots
  <2>6. \A t \in Islots : islot[t].count # 0 => islot'[t].count # 0
    <3>1. \A t \in Islots : islot[t].count \in Nat
      BY FiniteSlots DEF InoInv, CountsOK, Users
    <3>2. islot'[s].count = islot[s].count + 1 /\ \A t \in Islots \ {s} : islot'[t] = islot[t]
      BY <1>1, <2>1, <2>2 DEF Slots
    <3> QED
      BY <3>1, <3>2
  <2>7. HeldOf(p)'
    BY <2>2, <2>4, <2>5 DEF HeldOf, SameFile
  <2> QED
    BY <1>2, <2>4, <2>5, <2>6, <2>7, CalmStep DEF PendPCs
<1> QED
  BY <1>4, <1>5, <1>6, <1>7 DEF Iget

\* Those who call iget.
LEMMA LookFiles ==
    ASSUME InoInv, FilesInv, NEW p \in Iprocs,
           \/ IgetAgain(p) \/ DoiallocPop(p)
           \/ \E i \in Inos : Namei(p, "open", i) \/ Namei(p, "link", i)
    PROVE  FilesInv' /\ FileStep
<1>1. /\ InoTyped /\ iproc[p] \in States /\ ArgsOf(p) /\ DirOf(p) /\ BegunOf(p)
      /\ sInode \in [InoEntries -> 0 .. NInodes] /\ sNinode \in 0 .. NICINOD /\ NICINOD \in Nat
  BY InodeAssumption DEF InoInv, InoTyped, FilesInv, DirHeld, NamesStay
<1>2. CASE IgetAgain(p)
  <2>1. iproc[p].pc = "iget" /\ Iget(p, iproc[p])
    BY <1>2 DEF IgetAgain
  <2>2. iproc[p].ino \in Inos /\ iproc[p].ip = Nobody
    BY <1>1, <2>1 DEF ArgsOf, LockedPCs, KeptPCs, States
  <2> QED
    BY <1>1, <2>1, <2>2, IgetFiles DEF DirOf, BegunOf, BegunPCs
<1>3. CASE DoiallocPop(p)
  <2> PICK i : i = sInode[sNinode - 1]
    OBVIOUS
  <2> PICK x : x = [iproc[p] EXCEPT !.ino = i]
    OBVIOUS
  <2>1. iproc[p].pc = "ialloc" /\ Iget(p, x) /\ sNinode > 0 /\ i # 0
    BY <1>3 DEF DoiallocPop
  <2>2. i \in Inos /\ i \in Int
    BY <1>1, <2>1 DEF InoEntries, Inos
  <2>3. iproc[p].why = "create" /\ dirLock = p /\ iproc[p].ip = Nobody
    BY <1>1, <2>1 DEF DirOf, ArgsOf, LockedPCs, KeptPCs, States
  <2>4. x \in States /\ x.ino \in Inos /\ x.ip = Nobody /\ x.why = "create"
    BY <1>1, <2>2, <2>3 DEF States
  <2> QED
    BY <2>1, <2>3, <2>4, IgetFiles
<1>4. ASSUME NEW c \in {"open", "link"}, NEW i \in Inos, Namei(p, c, i)
      PROVE  FilesInv' /\ FileStep
  <2> PICK x : x = [Out EXCEPT !.why = c, !.ino = i]
    OBVIOUS
  <2>1. iproc[p].pc = "out" /\ dirLock = Nobody /\ entries[i] > 0 /\ Iget(p, x)
    BY <1>4 DEF Namei
  <2>2. x \in States /\ x.ino = i /\ x.ip = Nobody /\ x.why = c
    <3>1. x = [pc |-> "out", why |-> c, ino |-> i, ip |-> Nobody]
      BY DEF Out
    <3>2. x \in States
      BY <3>1 DEF States, BarePCs, Whys, Inos
    <3>3. x.ino = i /\ x.ip = Nobody /\ x.why = c
      BY ONLY <3>1
    <3> QED
      BY <3>2, <3>3
  <2> QED
    BY <2>1, <2>2, IgetFiles
<1> QED
  BY <1>2, <1>3, <1>4

\* The end of iput for the last user.
LEMMA IputLastFiles ==
    ASSUME InoInv, InoInv', FilesInv, NEW p \in Iprocs, IputLast(p)
    PROVE  FilesInv' /\ FileStep
<1> PICK s : s = iproc[p].ip
  OBVIOUS
<1> PICK i : i = iproc[p].ino
  OBVIOUS
<1>0. InoTyped /\ islot \in [Islots -> Slots] /\ dino \in [Inos -> [mode : BOOLEAN, nlink : Int]]
  BY DEF InoInv, InoTyped
<1>1. /\ iproc[p].pc \in {"iput", "ilast"} /\ iproc[p].pc \in LockedPCs
      /\ dino' = IF islot[s].dirty THEN [dino EXCEPT ![islot[s].ino] = Image(islot[s])] ELSE dino
      /\ islot' = [islot EXCEPT ![s] = Released([islot[s] EXCEPT !.count = 0, !.dirty = FALSE])]
      /\ AfterIput(p) /\ UNCHANGED entries
  BY DEF IputLast, Prele, LockedPCs
<1>2. /\ s \in Islots /\ i \in Inos /\ islot[s] \in Slots /\ islot[s].hashed /\ islot[s].ino = i
      /\ islot[s].count # 0 /\ Locks(p, s)
  BY <1>1, HeldSlot
<1>3. /\ iproc'[p].pc \in {"out", "ialloc"}
      /\ \A q \in Iprocs \ {p} : Still(q)
      /\ NamesRely(p) /\ HeldOf(p)' /\ DirOf(p)' /\ BegunOf(p)' /\ FreeingOf(p)'
  BY <1>1, AfterFacts
<1>4. /\ islot'[s].hashed /\ islot'[s].ino = i /\ ~islot'[s].dirty
      /\ Image(islot'[s]) = Image(islot[s])
      /\ \A t \in Islots \ {s} : islot'[t] = islot[t]
  BY <1>0, <1>1, <1>2 DEF Slots, Image, Released
<1>5. /\ \A j \in Inos \ {i} : dino'[j] = dino[j]
      /\ dino'[i] = Image(islot'[s])
  <2>1. PICK m : m = Image(islot[s])
    OBVIOUS
  <2>2. CASE islot[s].dirty
    <3>1. dino' = [dino EXCEPT ![i] = m]
      BY <1>1, <1>2, <2>1, <2>2
    <3> QED
      BY <1>0, <1>2, <1>4, <2>1, <3>1
  <2>3. CASE ~islot[s].dirty
    <3>1. ~Reading(s)
      BY <1>1, <1>2, NotReading DEF InoInv
    <3>2. dino[i] = Image(islot[s])
      BY <1>2, <2>3, <3>1 DEF FilesInv, Copies, CopyOf
    <3> QED
      BY <1>1, <1>4, <2>3, <3>2
  <2> QED
    BY <2>2, <2>3
<1>6. /\ Copies' /\ Cur(i) = Image(islot[s]) /\ Cur(i)' = Image(islot'[s])
      /\ \A j \in Inos \ {i} : Cur(j)' = Cur(j)
  BY <1>1, <1>2, <1>3, <1>4, <1>5, SlotStep DEF InoInv, FilesInv
<1>7. FilesSame
  BY <1>4, <1>6 DEF FilesSame
<1>8. SlotsRely(p)
  BY <1>2, <1>4, LockedRely
<1> QED
  BY <1>1, <1>3, <1>6, <1>7, <1>8, SameStep DEF PendPCs

-----------------------------------------------------------------------------
(* The steps that make, name and remove files *)

\* Links of the inodes p does not work on.
LEMMA OthersLinked ==
    ASSUME Linked, NEW p \in Iprocs, \A q \in Iprocs \ {p} : Still(q), NEW i \in Inos,
           iproc[p].ino = i, iproc'[p].ino = i,
           \A j \in Inos \ {i} : Cur(j)' = Cur(j) /\ entries'[j] = entries[j], LinkedOf(i)'
    PROVE  Linked'
<1>1. ASSUME NEW j \in Inos \ {i} PROVE LinkedOf(j)'
  <2>1. Pend(j)' = Pend(j)
    BY PendSame
  <2> QED
    BY <2>1 DEF Linked, LinkedOf
<1> QED
  BY <1>1 DEF Linked

\* The links of inode i, as numbers.
LEMMA LinkNumbers ==
    ASSUME InoInv, FilesInv, NEW i \in Inos
    PROVE  /\ Cur(i).mode \in BOOLEAN /\ Cur(i).nlink \in Nat /\ entries[i] \in Nat
           /\ Cardinality(Pend(i)) \in Nat
           /\ Cur(i).nlink = entries[i] + Cardinality(Pend(i))
           /\ ~Cur(i).mode => Cur(i).nlink = 0
<1>1. Cur(i).mode \in BOOLEAN /\ Cur(i).nlink \in Int
  BY FileIs DEF FilesInv
<1>2. entries[i] \in Int
  BY DEF InoInv, InoTyped
<1>3. Cardinality(Pend(i)) \in Nat
  BY FiniteSlots DEF Pend
<1>4. LinkedOf(i)
  BY DEF FilesInv, Linked
<1> QED
  BY <1>1, <1>2, <1>3, <1>4 DEF LinkedOf

\* The name is written: wdir for a new file or a new link.
LEMMA NameFiles ==
    ASSUME InoInv, FilesInv, NEW p \in Iprocs, Wdir(p) \/ LinkName(p)
    PROVE  FilesInv' /\ FileStep
<1> PICK s : s = iproc[p].ip
  OBVIOUS
<1> PICK i : i = iproc[p].ino
  OBVIOUS
<1>1. /\ InoTyped /\ islot \in [Islots -> Slots] /\ HeldOf(p) /\ DirOf(p)
      /\ entries \in [Inos -> Int]
  BY DEF InoInv, InoTyped, FilesInv, Holds, DirHeld
<1>2. /\ iproc[p].pc \in {"wdir", "link"} /\ iproc[p].pc \in LockedPCs \cup KeptPCs
      /\ UNCHANGED dino /\ entries' = [entries EXCEPT ![i] = @ + 1]
  BY DEF Wdir, LinkName, LockedPCs, KeptPCs
<1>3. /\ s \in Islots /\ i \in Inos /\ islot[s] \in Slots
      /\ islot[s].hashed /\ islot[s].ino = i
  BY <1>2, HeldSlot
<1>4. \A t \in Islots : SameFile(t) /\ islot'[t].count = islot[t].count
  <2>1. islot' = islot \/ islot' = [islot EXCEPT ![s] = Released(islot[s])]
    BY DEF Wdir, LinkName, Prele
  <2>2. CASE islot' = islot
    BY <2>2 DEF SameFile
  <2>3. CASE islot' = [islot EXCEPT ![s] = Released(islot[s])]
    BY <1>1, <1>3, <2>3 DEF SameFile, Slots, Released
  <2> QED
    BY <2>1, <2>2, <2>3
<1>5. /\ iproc'[p].pc = "open" /\ iproc'[p].ino = i /\ iproc'[p].ip = s
      /\ \A q \in Iprocs \ {p} : Still(q)
      /\ \/ iproc'[p].why = "none" /\ dirLock = p /\ dirLock' = Nobody
         \/ iproc'[p].why = iproc[p].why /\ dirLock' = dirLock
  <2>1. CASE Wdir(p)
    <3>1. /\ iproc' = [iproc EXCEPT ![p].pc = "open", ![p].why = "none"]
          /\ dirLock' = Nobody /\ dirLock = p
      BY <1>1, <2>1 DEF Wdir, DirOf
    <3>2. /\ iproc'[p].pc = "open" /\ iproc'[p].why = "none" /\ iproc'[p].ino = i
          /\ iproc'[p].ip = s /\ \A q \in Iprocs \ {p} : Still(q)
      BY <1>1, <3>1 DEF InoTyped, States, Still
    <3> QED
      BY <3>1, <3>2
  <2>2. CASE LinkName(p)
    <3>1. iproc' = [iproc EXCEPT ![p].pc = "open"] /\ dirLock' = dirLock
      BY <2>2 DEF LinkName
    <3>2. /\ iproc'[p].pc = "open" /\ iproc'[p].why = iproc[p].why /\ iproc'[p].ino = i
          /\ iproc'[p].ip = s /\ \A q \in Iprocs \ {p} : Still(q)
      BY <1>1, <3>1 DEF InoTyped, States, Still
    <3> QED
      BY <3>1, <3>2
  <2> QED
    BY <2>1, <2>2
<1>6. Copies' /\ FilesSame
  BY <1>2, <1>4, <1>5, QuietFiles DEF FilesInv, FilesSame
<1>7. HeldOf(p)' /\ DirOf(p)' /\ BegunOf(p)' /\ FreeingOf(p)'
  <2>1. HeldOf(p)'
    BY <1>3, <1>4, <1>5 DEF HeldOf, SameFile
  <2> QED
    BY <1>1, <1>2, <1>5, <2>1 DEF DirOf, BegunOf, FreeingOf, BegunPCs
<1>8. SlotsRely(p) /\ NamesRely(p)
  <2>1. SlotsRely(p)
    BY <1>4 DEF SlotsRely, SameFile
  <2>2. \A j \in Inos : entries[j] > 0 => entries'[j] > 0
    BY <1>1, <1>2, <1>3
  <2> QED
    BY <1>5, <2>1, <2>2 DEF NamesRely, BegunPCs
<1>9. Holds' /\ DirHeld' /\ NamesStay' /\ Freed'
  BY <1>5, <1>7, <1>8, RelyStep
<1>10. LinkedOf(i)'
  <2>1. /\ Cardinality(Pend(i)') \in Nat
        /\ Cardinality(Pend(i)) = Cardinality(Pend(i)') + 1
    BY <1>2, <1>5, PendLess DEF PendPCs
  <2>2. /\ Cur(i).nlink \in Nat /\ entries[i] \in Nat
        /\ Cur(i).nlink = entries[i] + Cardinality(Pend(i))
        /\ ~Cur(i).mode => Cur(i).nlink = 0
    BY <1>3, LinkNumbers
  <2>3. entries'[i] = entries[i] + 1 /\ Cur(i)' = Cur(i)
    BY <1>1, <1>2, <1>3, <1>6 DEF FilesSame
  <2> QED
    BY <2>1, <2>2, <2>3 DEF LinkedOf
<1>11. Linked'
  <2>1. \A j \in Inos \ {i} : Cur(j)' = Cur(j) /\ entries'[j] = entries[j]
    BY <1>1, <1>2, <1>6 DEF FilesSame
  <2> QED
    BY <1>3, <1>5, <1>10, <2>1, OthersLinked DEF FilesInv
<1> QED
  BY <1>6, <1>9, <1>11 DEF FilesInv, FileStep

\* ialloc has a free inode.
LEMMA MadeFiles ==
    ASSUME InoInv, InoInv', FilesInv, NEW p \in Iprocs, IallocNew(p)
    PROVE  FilesInv' /\ FileStep
<1> PICK s : s = iproc[p].ip
  OBVIOUS
<1> PICK i : i = iproc[p].ino
  OBVIOUS
<1> PICK r : r = Edited(islot[s], TRUE, 1, FALSE)
  OBVIOUS
<1>0. /\ InoTyped /\ islot \in [Islots -> Slots] /\ dino \in [Inos -> [mode : BOOLEAN, nlink : Int]]
      /\ DirOf(p)
  BY DEF InoInv, InoTyped, FilesInv, DirHeld
<1>1. /\ iproc[p].pc = "got" /\ iproc[p].pc \in LockedPCs
      /\ ~islot[s].mode /\ UNCHANGED <<entries, dirLock>> /\ iproc[p].why = "create"
      /\ islot' = [islot EXCEPT ![s] = r]
      /\ dino' = [dino EXCEPT ![r.ino] = Image(r)]
      /\ iproc' = [iproc EXCEPT ![p].pc = "wdir"]
  BY DEF IallocNew, Edited, LockedPCs
<1>2. /\ s \in Islots /\ i \in Inos /\ islot[s] \in Slots /\ islot[s].hashed /\ islot[s].ino = i
      /\ islot[s].count # 0 /\ Locks(p, s)
  BY <1>1, HeldSlot
<1>3. /\ iproc'[p].pc = "wdir" /\ iproc'[p].why = "create"
      /\ iproc'[p].ino = i /\ iproc'[p].ip = s
      /\ \A q \in Iprocs \ {p} : Still(q)
  BY <1>0, <1>1 DEF InoTyped, States, Still
<1>4. /\ r.hashed /\ r.ino = i /\ ~r.dirty /\ Image(r) = [mode |-> TRUE, nlink |-> 1]
  BY <1>2 DEF Slots, Edited, Image
<1>5. /\ islot'[s] = r /\ \A t \in Islots \ {s} : islot'[t] = islot[t]
      /\ dino'[i] = Image(r) /\ \A j \in Inos \ {i} : dino'[j] = dino[j]
  <2>1. islot'[s] = r /\ \A t \in Islots \ {s} : islot'[t] = islot[t]
    BY <1>0, <1>1, <1>2
  <2>2. PICK m : m = Image(r)
    OBVIOUS
  <2>3. dino' = [dino EXCEPT ![i] = m]
    BY <1>1, <1>4, <2>2
  <2>4. dino'[i] = m /\ \A j \in Inos \ {i} : dino'[j] = dino[j]
    BY <1>0, <1>2, <2>3
  <2> QED
    BY <2>1, <2>2, <2>4
<1>6. /\ Copies' /\ Cur(i) = Image(islot[s]) /\ Cur(i)' = Image(islot'[s])
      /\ \A j \in Inos \ {i} : Cur(j)' = Cur(j)
  <2>1. /\ islot'[s].hashed /\ islot'[s].ino = i /\ ~islot'[s].dirty
        /\ dino'[i] = Image(islot'[s])
    BY <1>4, <1>5
  <2> QED
    BY <1>1, <1>2, <1>3, <1>5, <2>1, SlotStep DEF InoInv, FilesInv
<1>7. HeldOf(p)' /\ DirOf(p)' /\ BegunOf(p)' /\ FreeingOf(p)'
  BY <1>0, <1>1, <1>3, <1>4, <1>5 DEF HeldOf, DirOf, BegunOf, FreeingOf, BegunPCs
<1>8. SlotsRely(p) /\ NamesRely(p)
  <2>1. SlotsRely(p)
    BY <1>2, <1>4, <1>5, LockedRely
  <2> QED
    BY <1>1, <1>3, <2>1 DEF NamesRely, BegunPCs
<1>9. Holds' /\ DirHeld' /\ NamesStay' /\ Freed'
  BY <1>3, <1>7, <1>8, RelyStep
<1>10. /\ ~Cur(i).mode /\ Cur(i)' = [mode |-> TRUE, nlink |-> 1]
  BY <1>1, <1>4, <1>5, <1>6 DEF Image
<1>11. LinkedOf(i)'
  <2>1. /\ Cardinality(Pend(i)) \in Nat
        /\ Cardinality(Pend(i)') = Cardinality(Pend(i)) + 1
    BY <1>1, <1>3, PendMore DEF PendPCs
  <2>2. /\ Cur(i).nlink \in Nat /\ entries[i] \in Nat
        /\ Cur(i).nlink = entries[i] + Cardinality(Pend(i))
        /\ ~Cur(i).mode => Cur(i).nlink = 0
    BY <1>2, LinkNumbers
  <2>3. entries[i] = 0 /\ Cardinality(Pend(i)') = 1
    BY <1>10, <2>1, <2>2
  <2>4. Cur(i)'.mode /\ Cur(i)'.nlink = 1
    BY <1>10
  <2> QED
    BY <1>1, <2>3, <2>4 DEF LinkedOf
<1>12. Linked'
  BY <1>1, <1>2, <1>3, <1>6, <1>11, OthersLinked DEF FilesInv
<1>13. FileStep
  BY <1>2, <1>6, <1>10 DEF FileStep, FileMade
<1> QED
  BY <1>6, <1>9, <1>12, <1>13 DEF FilesInv

\* ifree of the inode of a file.
LEMMA GoneFiles ==
    ASSUME InoInv, InoInv', FilesInv, NEW p \in Iprocs, Ifree(p), islot[iproc[p].ip].mode
    PROVE  FilesInv' /\ FileStep
<1> PICK s : s = iproc[p].ip
  OBVIOUS
<1> PICK i : i = iproc[p].ino
  OBVIOUS
<1> PICK r : r = Edited(islot[s], FALSE, islot[s].nlink, FALSE)
  OBVIOUS
<1>0. /\ InoTyped /\ islot \in [Islots -> Slots] /\ dino \in [Inos -> [mode : BOOLEAN, nlink : Int]]
      /\ DirOf(p)
  BY DEF InoInv, InoTyped, FilesInv, DirHeld
<1>1. /\ iproc[p].pc = "ifree" /\ iproc[p].pc \in LockedPCs
      /\ islot[s].mode /\ UNCHANGED <<entries, dirLock>>
      /\ islot' = [islot EXCEPT ![s] = [islot[s] EXCEPT !.mode = FALSE, !.dirty = FALSE]]
      /\ dino' = [dino EXCEPT ![[islot[s] EXCEPT !.mode = FALSE, !.dirty = FALSE].ino]
                                 = Image([islot[s] EXCEPT !.mode = FALSE, !.dirty = FALSE])]
      /\ iproc' = [iproc EXCEPT ![p].pc = "doifree"]
  BY DEF Ifree, LockedPCs
<1>2. /\ s \in Islots /\ i \in Inos /\ islot[s] \in Slots /\ islot[s].hashed /\ islot[s].ino = i
      /\ islot[s].count # 0 /\ Locks(p, s)
  BY <1>1, HeldSlot
<1>14. islot' = [islot EXCEPT ![s] = r] /\ dino' = [dino EXCEPT ![r.ino] = Image(r)]
  <2>1. r = [islot[s] EXCEPT !.mode = FALSE, !.dirty = FALSE]
    BY <1>2 DEF Slots, Edited
  <2> QED
    BY <1>1, <2>1
<1>15. islot[s].nlink = 0 /\ islot[s].count = 1
  BY <1>1 DEF FilesInv, Freed, FreeingOf, InoInv, LastUsers, LastOf
<1>3. /\ iproc'[p].pc = "doifree" /\ iproc'[p].why = iproc[p].why
      /\ iproc'[p].ino = i /\ iproc'[p].ip = s
      /\ \A q \in Iprocs \ {p} : Still(q)
  BY <1>0, <1>1 DEF InoTyped, States, Still
<1>4. /\ r.hashed /\ r.ino = i /\ ~r.dirty /\ Image(r) = [mode |-> FALSE, nlink |-> 0]
  BY <1>2, <1>15 DEF Slots, Edited, Image
<1>5. /\ islot'[s] = r /\ \A t \in Islots \ {s} : islot'[t] = islot[t]
      /\ dino'[i] = Image(r) /\ \A j \in Inos \ {i} : dino'[j] = dino[j]
  <2>1. islot'[s] = r /\ \A t \in Islots \ {s} : islot'[t] = islot[t]
    BY <1>0, <1>14, <1>2
  <2>2. PICK m : m = Image(r)
    OBVIOUS
  <2>3. dino' = [dino EXCEPT ![i] = m]
    BY <1>14, <1>4, <2>2
  <2>4. dino'[i] = m /\ \A j \in Inos \ {i} : dino'[j] = dino[j]
    BY <1>0, <1>2, <2>3
  <2> QED
    BY <2>1, <2>2, <2>4
<1>6. /\ Copies' /\ Cur(i) = Image(islot[s]) /\ Cur(i)' = Image(islot'[s])
      /\ \A j \in Inos \ {i} : Cur(j)' = Cur(j)
  <2>1. /\ islot'[s].hashed /\ islot'[s].ino = i /\ ~islot'[s].dirty
        /\ dino'[i] = Image(islot'[s])
    BY <1>4, <1>5
  <2> QED
    BY <1>1, <1>2, <1>3, <1>5, <2>1, SlotStep DEF InoInv, FilesInv
<1>7. HeldOf(p)' /\ DirOf(p)' /\ BegunOf(p)' /\ FreeingOf(p)'
  BY <1>0, <1>1, <1>3, <1>4, <1>5 DEF HeldOf, DirOf, BegunOf, FreeingOf, BegunPCs
<1>8. SlotsRely(p) /\ NamesRely(p)
  <2>1. SlotsRely(p)
    BY <1>2, <1>4, <1>5, LockedRely
  <2> QED
    BY <1>1, <1>3, <2>1 DEF NamesRely, BegunPCs
<1>9. Holds' /\ DirHeld' /\ NamesStay' /\ Freed'
  BY <1>3, <1>7, <1>8, RelyStep
<1>10. Cur(i) = [mode |-> TRUE, nlink |-> 0] /\ Cur(i)' = [mode |-> FALSE, nlink |-> 0]
  <2>1. islot[s].mode = TRUE
    BY <1>1, <1>2 DEF Slots
  <2>2. Cur(i) = [mode |-> TRUE, nlink |-> 0]
    BY <1>6, <1>15, <2>1 DEF Image
  <2> QED
    BY <1>4, <1>5, <1>6, <2>2
<1>11. LinkedOf(i)'
  <2>1. Pend(i)' = Pend(i)
    BY <1>1, <1>3, PendSame DEF PendPCs
  <2>2. LinkedOf(i)
    BY <1>2 DEF FilesInv, Linked
  <2>3. Cur(i).nlink = 0 /\ Cur(i)'.nlink = 0
    BY <1>10
  <2> QED
    BY <1>1, <2>1, <2>2, <2>3 DEF LinkedOf
<1>12. Linked'
  BY <1>1, <1>2, <1>3, <1>6, <1>11, OthersLinked DEF FilesInv
<1>13. FileStep
  <2>1. Hashed(i) = {s}
    BY <1>2 DEF Hashed, InoInv, HashedOnce
  <2>2. UNION {Users(t) : t \in Hashed(i)} = Users(s)
    BY <2>1
  <2>3. Cardinality(Users(s)) = 1
    BY <1>2, <1>15 DEF InoInv, CountsOK
  <2>4. ~Cur(i)'.mode
    BY <1>10
  <2>5. FileGone(i)
    BY <1>10, <2>2, <2>3, <2>4 DEF FileGone
  <2> QED
    BY <1>2, <1>6, <2>5 DEF FileStep
<1> QED
  BY <1>6, <1>9, <1>12, <1>13 DEF FilesInv

\* unlink, and link when it takes a link back.
LEMMA LessFiles ==
    ASSUME InoInv, InoInv', FilesInv, NEW p \in Iprocs, Unlink(p) \/ LinkUndone(p)
    PROVE  FilesInv' /\ FileStep
<1> PICK s : s = iproc[p].ip
  OBVIOUS
<1> PICK i : i = iproc[p].ino
  OBVIOUS
<1>0. /\ InoTyped /\ islot \in [Islots -> Slots] /\ entries \in [Inos -> Int]
      /\ DirOf(p) /\ BegunOf(p)
  BY DEF InoInv, InoTyped, FilesInv, DirHeld, NamesStay
<1>1. /\ iproc[p].pc \in {"got", "undone"} /\ iproc[p].pc \in LockedPCs
      /\ UNCHANGED <<dino, dirLock>>
      /\ islot' = [islot EXCEPT ![s].nlink = @ - 1, ![s].dirty = TRUE]
      /\ iproc' = [iproc EXCEPT ![p].pc = "iput"]
  BY DEF Unlink, LinkUndone, LockedPCs
<1>2. /\ s \in Islots /\ i \in Inos /\ islot[s] \in Slots /\ islot[s].hashed /\ islot[s].ino = i
      /\ islot[s].count # 0 /\ Locks(p, s)
  BY <1>1, HeldSlot
<1>3. /\ iproc'[p].pc = "iput" /\ iproc'[p].why = iproc[p].why
      /\ iproc'[p].ino = i /\ iproc'[p].ip = s
      /\ \A q \in Iprocs \ {p} : Still(q)
  BY <1>0, <1>1 DEF InoTyped, States, Still
<1>4. /\ islot'[s].hashed /\ islot'[s].ino = i /\ islot'[s].count # 0 /\ islot'[s].dirty
      /\ islot'[s].mode = islot[s].mode /\ islot'[s].nlink = islot[s].nlink - 1
      /\ \A t \in Islots \ {s} : islot'[t] = islot[t]
  BY <1>0, <1>1, <1>2 DEF Slots
<1>5. /\ Copies' /\ Cur(i) = Image(islot[s]) /\ Cur(i)' = Image(islot'[s])
      /\ \A j \in Inos \ {i} : Cur(j)' = Cur(j)
  BY <1>1, <1>2, <1>3, <1>4, SlotStep DEF InoInv, FilesInv
<1>6. /\ Cur(i).nlink \in Nat /\ entries[i] \in Nat /\ Cardinality(Pend(i)) \in Nat
      /\ Cur(i).nlink = entries[i] + Cardinality(Pend(i))
      /\ ~Cur(i).mode => Cur(i).nlink = 0 /\ Cur(i).mode \in BOOLEAN
  BY <1>2, LinkNumbers
<1>7. \/ /\ entries' = [entries EXCEPT ![i] = @ - 1] /\ entries[i] > 0 /\ Pend(i)' = Pend(i)
         /\ dirLock = p /\ Begun("link", i) = {}
      \/ /\ UNCHANGED entries /\ Cardinality(Pend(i)) > 0
         /\ Cardinality(Pend(i)') = Cardinality(Pend(i)) - 1
  <2>1. CASE Unlink(p)
    <3>1. iproc[p].pc = "got" /\ iproc[p].why = "unlink" /\ entries' = [entries EXCEPT ![i] = @ - 1]
      BY <2>1 DEF Unlink
    <3>2. entries[i] > 0 /\ dirLock = p /\ Begun("link", i) = {}
      BY <1>0, <3>1 DEF DirOf, BegunOf, BegunPCs
    <3>3. Pend(i)' = Pend(i)
      BY <1>3, <3>1, PendSame DEF PendPCs
    <3> QED
      BY <3>1, <3>2, <3>3
  <2>2. CASE LinkUndone(p)
    <3>1. iproc[p].pc = "undone" /\ UNCHANGED entries
      BY <2>2 DEF LinkUndone
    <3>2. /\ Cardinality(Pend(i)') \in Nat
          /\ Cardinality(Pend(i)) = Cardinality(Pend(i)') + 1
      BY <1>3, <3>1, PendLess DEF PendPCs
    <3> QED
      BY <3>1, <3>2
  <2> QED
    BY <2>1, <2>2
<1>8. /\ entries'[i] \in Nat
      /\ Cardinality(Pend(i)') \in Nat /\ Cur(i).nlink > 0
      /\ Cur(i).nlink - 1 = entries'[i] + Cardinality(Pend(i)')
      /\ \A j \in Inos \ {i} : entries'[j] = entries[j]
  <2>1. CASE UNCHANGED entries
    BY <1>6, <1>7, <2>1, <1>0, <1>2
  <2>2. CASE entries' = [entries EXCEPT ![i] = @ - 1] /\ entries[i] > 0 /\ Pend(i)' = Pend(i)
    <3>1. entries'[i] = entries[i] - 1 /\ \A j \in Inos \ {i} : entries'[j] = entries[j]
      BY <1>0, <1>2, <2>2
    <3> QED
      BY <1>6, <2>2, <3>1
  <2> QED
    BY <1>7, <2>1, <2>2
<1>9. /\ Cur(i).mode /\ Cur(i)' = [mode |-> TRUE, nlink |-> Cur(i).nlink - 1]
  <2>1. Cur(i).mode = islot[s].mode /\ Cur(i).nlink = islot[s].nlink
    BY <1>5 DEF Image
  <2>2. islot[s].mode = TRUE
    BY <1>2, <1>6, <1>8, <2>1 DEF Slots
  <2>3. Cur(i)' = [mode |-> TRUE, nlink |-> islot[s].nlink - 1]
    BY <1>4, <1>5, <2>2 DEF Image
  <2> QED
    BY <2>1, <2>2, <2>3
<1>10. HeldOf(p)' /\ DirOf(p)' /\ BegunOf(p)' /\ FreeingOf(p)'
  BY <1>0, <1>1, <1>3, <1>4 DEF HeldOf, DirOf, BegunOf, FreeingOf, BegunPCs
<1>11. SlotsRely(p) /\ NamesRely(p)
  <2>1. SlotsRely(p)
    BY <1>2, <1>4, LockedRely
  <2>2. ASSUME NEW j \in Inos, entries[j] > 0
        PROVE  entries'[j] > 0 \/ (dirLock = p /\ Begun("link", j) = {})
    BY <1>7, <1>8, <2>2
  <2> QED
    BY <1>1, <1>3, <2>1, <2>2 DEF NamesRely, BegunPCs
<1>12. Holds' /\ DirHeld' /\ NamesStay' /\ Freed'
  BY <1>3, <1>10, <1>11, RelyStep
<1>13. LinkedOf(i)'
  <2>1. Cur(i)'.mode /\ Cur(i)'.nlink = Cur(i).nlink - 1
    BY <1>9
  <2> QED
    BY <1>8, <2>1 DEF LinkedOf
<1>14. Linked'
  BY <1>2, <1>3, <1>5, <1>8, <1>13, OthersLinked DEF FilesInv
<1>15. FileStep
  <2>1. Keeps(i)
    BY <1>2, <1>3, <1>4 DEF Keeps, Hashed
  <2>2. FileLess(i)
    BY <1>8, <1>9, <2>1 DEF FileLess
  <2> QED
    BY <1>2, <1>5, <2>2 DEF FileStep
<1> QED
  BY <1>5, <1>12, <1>14, <1>15 DEF FilesInv

\* link.
LEMMA MoreFiles ==
    ASSUME InoInv, InoInv', FilesInv, NEW p \in Iprocs, Link(p)
    PROVE  FilesInv' /\ FileStep
<1> PICK s : s = iproc[p].ip
  OBVIOUS
<1> PICK i : i = iproc[p].ino
  OBVIOUS
<1> PICK r : r = Edited(islot[s], islot[s].mode, islot[s].nlink + 1, FALSE)
  OBVIOUS
<1>0. /\ InoTyped /\ islot \in [Islots -> Slots] /\ entries \in [Inos -> Int]
      /\ dino \in [Inos -> [mode : BOOLEAN, nlink : Int]]
      /\ DirOf(p) /\ BegunOf(p)
  BY DEF InoInv, InoTyped, FilesInv, DirHeld, NamesStay
<1>1. /\ iproc[p].pc = "got" /\ iproc[p].pc \in LockedPCs /\ iproc[p].why = "link"
      /\ UNCHANGED <<entries, dirLock>>
      /\ dino' = [dino EXCEPT ![[islot[s] EXCEPT !.nlink = @ + 1, !.dirty = FALSE].ino]
                                 = Image([islot[s] EXCEPT !.nlink = @ + 1, !.dirty = FALSE])]
      /\ islot' = [islot EXCEPT ![s] = Released([islot[s] EXCEPT !.nlink = @ + 1, !.dirty = FALSE])]
      /\ iproc' = [iproc EXCEPT ![p].pc = "link", ![p].why = "none"]
  BY DEF Link, Prele, LockedPCs
<1>2. /\ s \in Islots /\ i \in Inos /\ islot[s] \in Slots /\ islot[s].hashed /\ islot[s].ino = i
      /\ islot[s].count # 0 /\ Locks(p, s)
  BY <1>1, HeldSlot
<1>3. /\ iproc'[p].pc = "link" /\ iproc'[p].why = "none"
      /\ iproc'[p].ino = i /\ iproc'[p].ip = s
      /\ \A q \in Iprocs \ {p} : Still(q)
  BY <1>0, <1>1 DEF InoTyped, States, Still
<1>14. islot' = [islot EXCEPT ![s] = Released(r)] /\ dino' = [dino EXCEPT ![r.ino] = Image(r)]
  <2>1. r = [islot[s] EXCEPT !.nlink = @ + 1, !.dirty = FALSE]
    BY <1>2 DEF Slots, Edited
  <2> QED
    BY <1>1, <2>1
<1>15. /\ r.hashed /\ r.ino = i /\ ~r.dirty
       /\ r.mode = islot[s].mode /\ r.nlink = islot[s].nlink + 1
       /\ Released(r).hashed /\ Released(r).ino = i /\ ~Released(r).dirty
       /\ Image(Released(r)) = Image(r)
  BY <1>2 DEF Slots, Edited, Released, Image
<1>4. /\ islot'[s] = Released(r) /\ \A t \in Islots \ {s} : islot'[t] = islot[t]
      /\ dino'[i] = Image(r) /\ \A j \in Inos \ {i} : dino'[j] = dino[j]
  <2>1. islot'[s] = Released(r) /\ \A t \in Islots \ {s} : islot'[t] = islot[t]
    BY <1>0, <1>2, <1>14
  <2>2. PICK m : m = Image(r)
    OBVIOUS
  <2>3. dino' = [dino EXCEPT ![i] = m]
    BY <1>14, <1>15, <2>2
  <2>4. dino'[i] = m /\ \A j \in Inos \ {i} : dino'[j] = dino[j]
    BY <1>0, <1>2, <2>3
  <2> QED
    BY <2>1, <2>2, <2>4
<1>5. /\ Copies' /\ Cur(i) = Image(islot[s]) /\ Cur(i)' = Image(islot'[s])
      /\ \A j \in Inos \ {i} : Cur(j)' = Cur(j)
  <2>1. /\ islot'[s].hashed /\ islot'[s].ino = i /\ ~islot'[s].dirty
        /\ dino'[i] = Image(islot'[s])
    BY <1>4, <1>15
  <2> QED
    BY <1>1, <1>2, <1>3, <1>4, <2>1, SlotStep DEF InoInv, FilesInv
<1>6. /\ Cur(i).nlink \in Nat /\ entries[i] \in Nat /\ Cardinality(Pend(i)) \in Nat
      /\ Cur(i).nlink = entries[i] + Cardinality(Pend(i))
      /\ ~Cur(i).mode => Cur(i).nlink = 0
  BY <1>2, LinkNumbers
<1>7. entries[i] > 0
  BY <1>0, <1>1 DEF BegunOf, BegunPCs
<1>8. /\ Cur(i).mode /\ Cur(i)' = [mode |-> TRUE, nlink |-> Cur(i).nlink + 1]
  <2>1. Cur(i).mode = islot[s].mode /\ Cur(i).nlink = islot[s].nlink
    BY <1>5 DEF Image
  <2>2. islot[s].mode = TRUE
    BY <1>2, <1>6, <1>7, <2>1 DEF Slots
  <2>3. Cur(i)' = [mode |-> TRUE, nlink |-> islot[s].nlink + 1]
    BY <1>4, <1>5, <1>15, <2>2 DEF Image
  <2> QED
    BY <2>1, <2>2, <2>3
<1>10. HeldOf(p)' /\ DirOf(p)' /\ BegunOf(p)' /\ FreeingOf(p)'
  BY <1>0, <1>1, <1>3, <1>4, <1>15 DEF HeldOf, DirOf, BegunOf, FreeingOf, BegunPCs
<1>11. SlotsRely(p) /\ NamesRely(p)
  <2>1. SlotsRely(p)
    BY ZenonT(60), <1>2, <1>4, <1>15, LockedRely
  <2> QED
    BY <1>1, <1>3, <2>1 DEF NamesRely, BegunPCs
<1>12. Holds' /\ DirHeld' /\ NamesStay' /\ Freed'
  BY <1>3, <1>10, <1>11, RelyStep
<1>13. LinkedOf(i)'
  <2>1. Cur(i)'.mode /\ Cur(i)'.nlink = Cur(i).nlink + 1
    BY <1>8
  <2>2. Cardinality(Pend(i)') = Cardinality(Pend(i)) + 1
    BY <1>1, <1>3, PendMore DEF PendPCs
  <2> QED
    BY <1>1, <1>6, <2>1, <2>2 DEF LinkedOf
<1>16. Linked'
  BY <1>1, <1>2, <1>3, <1>5, <1>13, OthersLinked DEF FilesInv
<1>17. FileStep
  <2>1. Keeps(i)
    BY <1>2, <1>3, <1>4, <1>15 DEF Keeps, Hashed
  <2>2. FileMore(i)
    BY <1>8, <2>1 DEF FileMore
  <2> QED
    BY <1>2, <1>5, <2>2 DEF FileStep
<1> QED
  BY <1>5, <1>12, <1>16, <1>17 DEF FilesInv

-----------------------------------------------------------------------------
(* Files: the theorems *)

\* At first the directory is the only file.
LEMMA FilesStart == InoInit => FilesInv
<1> SUFFICES ASSUME InoInit PROVE FilesInv
  OBVIOUS
<1>1. InoInv /\ Nobody \notin Islots
  BY InitHolds, InodeAssumption
<1>2. /\ \A s \in Islots : ~islot[s].hashed /\ ~islot[s].dirty
      /\ \A p \in Iprocs : iproc[p].pc = "out" /\ iproc[p].why = "none" /\ iproc[p].ip = Nobody
  BY DEF InoInit, Out
<1>3. Copies /\ Holds /\ DirHeld /\ NamesStay /\ Freed
  BY <1>1, <1>2 DEF Copies, CopyOf, Holds, HeldOf, DirHeld, DirOf, NamesStay, BegunOf, BegunPCs,
                    Freed, FreeingOf
<1>4. ASSUME NEW i \in Inos PROVE LinkedOf(i)
  <2>1. Cur(i) = dino[i]
    BY <1>2, CurDisk DEF Hashed
  <2>2. Pend(i) = {}
    BY <1>2 DEF Pend, PendPCs
  <2>3. Cardinality(Pend(i)) = 0
    BY <2>2, FS_EmptySet
  <2>4. CASE i \in Dirs
    <3>1. dino[i].mode /\ dino[i].nlink = 1 /\ entries[i] = 1
      BY <2>4 DEF InoInit
    <3> QED
      BY <2>1, <2>3, <3>1 DEF LinkedOf
  <2>5. CASE i \notin Dirs
    <3>1. dino[i].nlink = 0 /\ entries[i] = 0
      BY <2>5 DEF InoInit
    <3> QED
      BY <2>1, <2>3, <3>1 DEF LinkedOf
  <2> QED
    BY <2>4, <2>5
<1> QED
  BY <1>3, <1>4 DEF FilesInv, Linked

\* Every step keeps the second invariant and does to the files what FileStep says.
LEMMA FilesKept ==
    ASSUME ~LinkRaces
    PROVE  InoInv /\ InoInv' /\ FilesInv /\ [InoNext]_inoVars => FilesInv' /\ FileStep
<1> SUFFICES ASSUME InoInv, InoInv', FilesInv, [InoNext]_inoVars PROVE FilesInv' /\ FileStep
  OBVIOUS
<1>1. CASE UNCHANGED inoVars
  <2>1. UNCHANGED <<islot, ifreelist, mcount, dino, sInode, sNinode, sIlock, entries, dirLock,
                    iproc, ichan>>
    BY <1>1 DEF inoVars
  <2>2. \A i : Cur(i)' = Cur(i) /\ Pend(i)' = Pend(i) /\ Begun("link", i)' = Begun("link", i)
    BY <2>1 DEF Cur, Dirty, Hashed, Pend, Begun, Image
  <2>3. Copies' /\ Holds' /\ DirHeld'
    BY <2>1 DEF FilesInv, Copies, CopyOf, Reading, Image, Holds, HeldOf, DirHeld, DirOf
  <2>4. NamesStay' /\ Freed' /\ Linked'
    BY <2>1, <2>2
    DEF FilesInv, NamesStay, BegunOf, Freed, FreeingOf, Linked, LinkedOf
  <2> QED
    BY <2>2, <2>3, <2>4 DEF FilesInv, FileStep, FilesSame
<1>2. ASSUME NEW p \in Iprocs,
             \/ IgetAgain(p) \/ DoiallocPop(p)
             \/ \E i \in Inos : Namei(p, "open", i) \/ Namei(p, "link", i)
      PROVE  FilesInv' /\ FileStep
  BY <1>2, LookFiles
<1>3. ASSUME NEW p \in Iprocs,
             \/ DoiallocScan(p) \/ DoiallocBlock(p) \/ DoiallocEnd(p) \/ Maknode(p)
             \/ LinkFails(p) \/ \E i \in Inos : UnlinkBegin(p, i)
      PROVE  FilesInv' /\ FileStep
  BY <1>3, BareFiles
<1>4. ASSUME NEW p \in Iprocs, Iread(p) \/ IputTrunc(p) \/ IallocUsed(p) \/ UpdateWrite(p)
      PROVE  FilesInv' /\ FileStep
  BY <1>4, IreadFiles, WriteFiles
<1>5. ASSUME NEW p \in Iprocs, Ifree(p)
      PROVE  FilesInv' /\ FileStep
  BY <1>5, GoneFiles, RefusedFiles
<1>6. ASSUME NEW p \in Iprocs, Doifree(p) \/ UnlinkRefused(p) \/ OpenRefused(p) \/ LinkRefused(p)
      PROVE  FilesInv' /\ FileStep
  BY <1>6, RefusedFiles
<1>7. ASSUME NEW p \in Iprocs, IallocNew(p) \/ Link(p) \/ Unlink(p) \/ LinkUndone(p)
      PROVE  FilesInv' /\ FileStep
  BY <1>7, MadeFiles, MoreFiles, LessFiles
<1>8. ASSUME NEW p \in Iprocs, Wdir(p) \/ LinkName(p) PROVE FilesInv' /\ FileStep
  BY <1>8, NameFiles
<1>9. ASSUME NEW p \in Iprocs, LinkUndo(p) \/ Close(p) PROVE FilesInv' /\ FileStep
  BY <1>9, PlockFiles
<1>10. ASSUME NEW p \in Iprocs, Open(p) \/ IputShared(p) \/ \E s \in Islots : Update(p, s)
       PROVE  FilesInv' /\ FileStep
  BY <1>10, CalmFiles
<1>11. ASSUME NEW p \in Iprocs, IputLast(p) PROVE FilesInv' /\ FileStep
  BY <1>11, IputLastFiles
<1> QED
  BY <1>1, <1>2, <1>3, <1>4, <1>5, <1>6, <1>7, <1>8, <1>9, <1>10, <1>11, Zenon DEF InoNext

\* The second inductive invariant, which says of what is on disk and in core which files there
\* are, if no name is unlinked while link looks for its file.
THEOREM FilesInvariant == ~LinkRaces => (InoSpec => []FilesInv)
<1> SUFFICES ASSUME ~LinkRaces PROVE InoSpec => []FilesInv
  OBVIOUS
<1>1. InoInit => FilesInv
  BY FilesStart
<1>2. InoInv /\ InoInv' /\ FilesInv /\ [InoNext]_inoVars => FilesInv'
  BY FilesKept
<1> QED
  BY <1>1, <1>2, InodeInvariant, PTL DEF InoSpec

\* A name in the directory belongs to a file that is there and has a link for it: link counts a
\* link before it makes the name and takes it back only if there is none, unlink removes
\* the name first, and ialloc, iput and update never lose what was counted.
THEOREM NamesAreCounted == ~LinkRaces => (InoSpec => []NamesCounted)
<1> SUFFICES ASSUME ~LinkRaces PROVE InoSpec => []NamesCounted
  OBVIOUS
<1>1. InoInv /\ FilesInv => NamesCounted
  <2> SUFFICES ASSUME InoInv, FilesInv, NEW i \in Inos, entries[i] > 0
               PROVE  FileOf(i) # Nobody /\ FileOf(i) >= entries[i]
    BY DEF NamesCounted
  <2>1. /\ Cur(i).nlink \in Nat /\ entries[i] \in Nat /\ Cardinality(Pend(i)) \in Nat
        /\ Cur(i).nlink = entries[i] + Cardinality(Pend(i))
        /\ ~Cur(i).mode => Cur(i).nlink = 0
    BY LinkNumbers
  <2>2. FileOf(i) = Cur(i).nlink
    BY <2>1, FileIs DEF FilesInv
  <2>3. Nobody \notin Nat
    BY InodeAssumption
  <2> QED
    BY <2>1, <2>2, <2>3
<1>2. InoSpec => []FilesInv
  BY FilesInvariant
<1> QED
  BY <1>1, <1>2, InodeInvariant, PTL

\* What FileOf says, at the beginning and the end of a step.
FilesKnown == \A i \in Inos : /\ Cur(i).mode \in BOOLEAN /\ Cur(i).nlink \in Nat
                              /\ FileOf(i) = IF Cur(i).mode THEN Cur(i).nlink ELSE Nobody

\* The invariants say what FileOf is.
LEMMA KnownFiles == InoInv /\ FilesInv => FilesKnown
BY FileIs, LinkNumbers DEF FilesInv, FilesKnown

\* The inodes implement FileStore: a file is made only where there is none, its links are changed
\* only by one who uses it, and it is removed only without links and by its only user.
THEOREM FilesAreStored == ~LinkRaces => (InoSpec => IsFileStore)
<1> SUFFICES ASSUME ~LinkRaces PROVE InoSpec => IsFileStore
  OBVIOUS
<1> DEFINE file == [i \in Inos |-> FileOf(i)]
           holders == [i \in Inos |-> UNION {Users(s) : s \in Hashed(i)}]
<1>1. InoInit => InoFiles!Init
  <2> SUFFICES ASSUME InoInit PROVE file \in [Inos -> Nat \cup {Nobody}]
    BY DEF InoFiles!Init
  <2>1. FilesKnown
    BY InitHolds, FilesStart, KnownFiles
  <2> QED
    BY <2>1 DEF FilesKnown
<1>2. InoInv /\ FilesInv /\ InoInv' /\ FilesInv' /\ [InoNext]_inoVars => [InoFiles!Next]_file
  <2> SUFFICES ASSUME InoInv, FilesInv, InoInv', FilesInv', [InoNext]_inoVars
               PROVE  InoFiles!Next \/ file' = file
    OBVIOUS
  <2>1. FileStep
    BY FilesKept
  <2>2. FilesKnown /\ FilesKnown'
    <3>1. (InoInv /\ FilesInv => FilesKnown)'
      BY KnownFiles, PTL
    <3> QED
      BY <3>1, KnownFiles
  <2>3. CASE FilesSame
    <3>1. \A i \in Inos : FileOf(i)' = FileOf(i)
      BY <2>2, <2>3 DEF FilesKnown, FilesSame
    <3> QED
      BY <3>1
  <2>4. ASSUME NEW i \in Inos, \A j \in Inos \ {i} : Cur(j)' = Cur(j),
               FileMade(i) \/ FileMore(i) \/ FileLess(i) \/ FileGone(i)
        PROVE  InoFiles!Next
    <3> PICK new : new = FileOf(i)'
      OBVIOUS
    <3> HIDE DEF file, holders
    <3>1. file' = [file EXCEPT ![i] = new]
      <4>1. \A j \in Inos \ {i} : FileOf(j)' = FileOf(j)
        BY <2>2, <2>4 DEF FilesKnown
      <4> QED
        BY <4>1 DEF file
    <3>2. file[i] = FileOf(i)
      BY DEF file
    <3>3. Nobody \notin Int
      BY InodeAssumption
    <3>4. CASE FileMade(i)
      <4>1. FileOf(i) = Nobody /\ new = 1
        BY <2>2, <3>4 DEF FileMade, FilesKnown
      <4>2. InoFiles!Create(i)
        BY <3>1, <3>2, <4>1 DEF InoFiles!Create, file
      <4> QED
        BY <4>2 DEF InoFiles!Next
    <3>5. ASSUME Keeps(i) PROVE InoFiles!Held(i)
      <4>1. PICK p \in Iprocs, s \in Islots : /\ iproc[p].ip = s /\ iproc'[p].ip = s
                                              /\ s \in Hashed(i) /\ s \in Hashed(i)'
        BY <3>5 DEF Keeps
      <4>2. p \in Users(s) /\ p \in Users(s)'
        BY <4>1 DEF Users
      <4>3. p \in holders[i] /\ p \in holders'[i]
        BY <4>1, <4>2 DEF holders
      <4> QED
        BY <4>3 DEF InoFiles!Held, holders
    <3>6. CASE FileMore(i)
      <4>1. FileOf(i) = Cur(i).nlink /\ FileOf(i) # Nobody /\ new = FileOf(i) + 1
        BY <2>2, <3>3, <3>6 DEF FileMore, FilesKnown
      <4>2. InoFiles!Held(i)
        BY <3>5, <3>6 DEF FileMore
      <4>3. InoFiles!Link(i)
        BY <3>1, <3>2, <4>1, <4>2 DEF InoFiles!Link, file
      <4> QED
        BY <4>3 DEF InoFiles!Next
    <3>7. CASE FileLess(i)
      <4>1. FileOf(i) > 0 /\ FileOf(i) # Nobody /\ new = FileOf(i) - 1
        BY <2>2, <3>3, <3>7 DEF FileLess, FilesKnown
      <4>2. InoFiles!Held(i)
        BY <3>5, <3>7 DEF FileLess
      <4>3. InoFiles!Unlink(i)
        BY <3>1, <3>2, <4>1, <4>2 DEF InoFiles!Unlink, file
      <4> QED
        BY <4>3 DEF InoFiles!Next
    <3>8. CASE FileGone(i)
      <4>1. FileOf(i) = 0 /\ new = Nobody
        BY <2>2, <3>8 DEF FileGone, FilesKnown
      <4>2. Cardinality(holders[i]) = 1
        BY <3>8 DEF FileGone, holders
      <4>3. InoFiles!Remove(i)
        <5>1. file[i] = 0 /\ file' = [file EXCEPT ![i] = Nobody]
          BY <3>1, <3>2, <4>1
        <5>2. InoFiles!Cardinality(holders[i]) = 1
          BY <4>2, Zenon DEF InoFiles!Cardinality, Cardinality
        <5> QED
          BY ONLY <5>1, <5>2 DEF InoFiles!Remove, file, holders
      <4> QED
        BY <4>3 DEF InoFiles!Next
    <3> QED
      BY <2>4, <3>4, <3>6, <3>7, <3>8
  <2> QED
    BY <2>1, <2>3, <2>4 DEF FileStep
<1>3. InoSpec => []FilesInv
  BY FilesInvariant
<1> QED
  BY <1>1, <1>2, <1>3, InodeInvariant, PTL DEF InoSpec, IsFileStore, InoFiles!Spec
=============================================================================
