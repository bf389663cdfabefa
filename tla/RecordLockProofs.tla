-------------------------- MODULE RecordLockProofs --------------------------
(***************************************************************************)
(* Proofs about RecordLock for any number of processes, files and locks.   *)
(***************************************************************************)
EXTENDS RecordLock, ListsAndLoops

-----------------------------------------------------------------------------
(* The search of blocked *)

\* The locks of l are in the order of their starts.
InOrder(l) == \A i, j \in DOMAIN l : i < j => l[i].start <= l[j].start

\* A set of natural numbers that is not empty has a least element, and Min is it.
LEMMA MinOfNats ==
    ASSUME NEW T \in SUBSET Nat, T # {}
    PROVE  Min(T) \in T /\ \A y \in T : Min(T) <= y
BY LeastOfNats DEF Min

\* If blocked (flock.c:422) returns NULL for a list that is in order, then no
\* lock of the list is in the way of the request: giving up at the first lock
\* that starts behind the request misses nothing.
THEOREM BlockedFindsAll ==
    ASSUME NEW l \in Seq(Filocks), InOrder(l),
           NEW p, NEW ld \in Requests, Blocked(l, p, ld) = 0
    PROVE  \A i \in DOMAIN l : ~InTheWay(p, ld, l[i])
<1> DEFINE n == FirstStop(l, p, ld)
           stops == {i \in DOMAIN l : l[i].start >= ld.start \/ Adjoins(p, ld, l[i])}
           S == {i \in DOMAIN l : /\ InTheWay(p, ld, l[i])
                                  /\ \A k \in n .. i - 1 : l[k].start <= ld.end}
<1>1. DOMAIN l = 1 .. Len(l) /\ Len(l) \in Nat
  OBVIOUS
<1>2. n \in Nat /\ n >= 1
  <2>1. stops \cup {Len(l) + 1} \in SUBSET Nat /\ stops \cup {Len(l) + 1} # {}
    BY <1>1
  <2>2. n \in stops \cup {Len(l) + 1}
    BY <2>1, MinOfNats DEF FirstStop
  <2> QED
    BY <1>1, <2>2
<1>3. S = {}
  <2>1. SUFFICES ASSUME S # {} PROVE FALSE
    OBVIOUS
  <2>2. S \in SUBSET Nat
    BY <1>1
  <2>3. Min(S) \in S
    BY <2>1, <2>2, MinOfNats
  <2>4. Min(S) = 0
    BY <2>1 DEF Blocked
  <2> QED
    BY <1>1, <2>3, <2>4
<1>4. SUFFICES ASSUME NEW i \in DOMAIN l, InTheWay(p, ld, l[i]) PROVE FALSE
  OBVIOUS
<1>5. PICK k \in n .. i - 1 : ~(l[k].start <= ld.end)
  BY <1>3, <1>4
<1>6. k \in DOMAIN l /\ k < i
  BY <1>1, <1>2, <1>5
<1>7. l[k].start \in Int /\ l[i].start \in Int /\ ld.end \in Int
  <2>1. l[k] \in Filocks /\ l[i] \in Filocks
    BY <1>6
  <2> QED
    BY <2>1 DEF Filocks, Requests
<1>8. l[k].start <= l[i].start
  BY <1>6 DEF InOrder
<1> QED
  BY <1>4, <1>5, <1>7, <1>8 DEF InTheWay

\* The lock that blocked returns is one that is in the way.
THEOREM BlockedIsInTheWay ==
    ASSUME NEW l \in Seq(Filocks), NEW p, NEW ld \in Requests, Blocked(l, p, ld) # 0
    PROVE  /\ Blocked(l, p, ld) \in DOMAIN l
           /\ InTheWay(p, ld, l[Blocked(l, p, ld)])
<1> DEFINE n == FirstStop(l, p, ld)
           S == {i \in DOMAIN l : /\ InTheWay(p, ld, l[i])
                                  /\ \A k \in n .. i - 1 : l[k].start <= ld.end}
<1>1. S \in SUBSET Nat
  OBVIOUS
<1>2. S # {} /\ Blocked(l, p, ld) = Min(S)
  BY DEF Blocked
<1>3. Min(S) \in S
  BY <1>1, <1>2, MinOfNats
<1> QED
  BY <1>2, <1>3

-----------------------------------------------------------------------------
(* Deadlock detection *)

\* The strengthening: sleeplcks holds processes, in no circle.
Waiting == /\ blkpid \in [Procs -> Procs \cup {None}]
           /\ DeadflckEnds

\* A request of q that has been checked by deadflck closes no circle.
LEMMA SleepKeepsOrder ==
    ASSUME Waiting, NEW p \in Procs, SetflckSleep(p)
    PROVE  Waiting'
<1> DEFINE q == locks[req[p].file][Found(p)].pid
<1>1. blkpid' = [blkpid EXCEPT ![p] = q] /\ ~Deadflck(p, q)
  BY DEF SetflckSleep
<1>2. PICK T \in SUBSET Procs : /\ q \in T
                                /\ \A x \in T : blkpid[x] # None => blkpid[x] \in T
                                /\ p \notin T
  BY <1>1 DEF Deadflck
<1>3. blkpid' \in [Procs -> Procs \cup {None}]
  BY <1>1, <1>2 DEF Waiting
<1>4. SUFFICES ASSUME NEW S \in SUBSET Procs, S # {}, \A x \in S : blkpid'[x] \in S
               PROVE  FALSE
  BY <1>3 DEF Waiting, DeadflckEnds
<1>5. CASE p \notin S
  <2>1. \A x \in S : blkpid[x] \in S
    BY <1>1, <1>4, <1>5 DEF Waiting
  <2> QED
    BY <2>1, <1>4 DEF Waiting, DeadflckEnds
<1>6. CASE p \in S
  <2>1. q \in S \cap T
    BY <1>1, <1>2, <1>4, <1>6 DEF Waiting
  <2>2. ASSUME NEW x \in S \cap T PROVE blkpid[x] \in S \cap T
    <3>1. x # p /\ blkpid'[x] = blkpid[x]
      BY <1>1, <1>2 DEF Waiting
    <3>2. blkpid[x] \in S /\ blkpid[x] # None
      BY <1>4, <3>1, RecordLockAssumption
    <3> QED
      BY <1>2, <3>2
  <2>3. S \cap T \in SUBSET Procs /\ S \cap T # {}
    BY <2>1
  <2> QED
    BY <2>2, <2>3 DEF Waiting, DeadflckEnds
<1> QED
  BY <1>5, <1>6

\* Dropping an entry of sleeplcks closes no circle.
LEMMA DropKeepsOrder ==
    ASSUME Waiting, NEW p \in Procs, blkpid' = [blkpid EXCEPT ![p] = None]
    PROVE  Waiting'
<1>1. blkpid' \in [Procs -> Procs \cup {None}]
  BY DEF Waiting
<1>2. SUFFICES ASSUME NEW S \in SUBSET Procs, S # {}, \A x \in S : blkpid'[x] \in S
               PROVE  FALSE
  BY <1>1 DEF Waiting, DeadflckEnds
<1>3. p \notin S
  BY <1>2, RecordLockAssumption DEF Waiting
<1>4. \A x \in S : blkpid[x] \in S
  BY <1>2, <1>3 DEF Waiting
<1> QED
  BY <1>2, <1>4 DEF Waiting, DeadflckEnds

\* For any number of processes, files and locks, the loop of deadflck
\* (flock.c:622) ends, and requests that wait never wait in a circle.
THEOREM DeadlockDetectionEnds == Spec => []DeadflckEnds
<1>1. Init => Waiting
  <2> SUFFICES ASSUME Init PROVE Waiting
    OBVIOUS
  <2>1. blkpid \in [Procs -> Procs \cup {None}]
    BY DEF Init
  <2>2. ASSUME NEW S \in SUBSET Procs, S # {}, \A p \in S : blkpid[p] \in S
        PROVE  FALSE
    BY <2>2, RecordLockAssumption DEF Init
  <2> QED
    BY <2>1, <2>2 DEF Waiting, DeadflckEnds
<1>2. Waiting /\ [Next]_vars => Waiting'
  <2> SUFFICES ASSUME Waiting, [Next]_vars PROVE Waiting'
    OBVIOUS
  <2>1. ASSUME UNCHANGED blkpid PROVE Waiting'
    BY <2>1 DEF Waiting, DeadflckEnds
  <2>2. ASSUME NEW p \in Procs, Call(p) PROVE Waiting'
    BY <2>1, <2>2 DEF Call, SetflckRefuse, Setflck, Getflck, Cleanlocks
  <2>3. ASSUME NEW p \in Procs, Inside(p) PROVE Waiting'
    <3>1. CASE SetflckAdjust(p) \/ SetflckFail(p)
      BY <2>1, <3>1 DEF SetflckAdjust, SetflckFail
    <3>2. CASE SetflckSleep(p)
      BY <3>2, SleepKeepsOrder
    <3>3. CASE SetflckAgain(p) \/ SetflckIntr(p)
      BY <3>3, DropKeepsOrder DEF SetflckAgain, SetflckIntr
    <3> QED
      BY <2>3, <3>1, <3>2, <3>3 DEF Inside
  <2>4. ASSUME NEW p \in Procs, Signal(p) PROVE Waiting'
    BY <2>1, <2>4 DEF Signal
  <2>5. CASE UNCHANGED vars
    BY <2>1, <2>5 DEF vars
  <2> QED
    BY <2>2, <2>3, <2>4, <2>5 DEF Next
<1>3. Waiting => DeadflckEnds
  BY DEF Waiting
<1> QED
  BY <1>1, <1>2, <1>3, PTL DEF Spec

-----------------------------------------------------------------------------
(* Lists and loops *)

\* A set of natural numbers with an upper bound has a greatest element, and Max
\* is it.
LEMMA MaxOfNats ==
    ASSUME NEW n \in Nat, NEW T \in SUBSET (0 .. n), T # {}
    PROVE  Max(T) \in T /\ \A y \in T : Max(T) >= y
<1> DEFINE U == {n - y : y \in T}
<1>1. U \in SUBSET Nat /\ U # {}
  <2>1. \A y \in T : y \in 0 .. n
    OBVIOUS
  <2>2. \A y \in T : n - y \in Nat
    BY <2>1
  <2> QED
    BY <2>2
<1>2. Min(U) \in U /\ \A y \in U : Min(U) <= y
  BY <1>1, MinOfNats
<1>3. PICK x \in T : Min(U) = n - x
  BY <1>2
<1>4. ASSUME NEW y \in T PROVE x >= y
  <2>1. n - y \in U
    OBVIOUS
  <2>2. n - x <= n - y
    BY <1>2, <1>3, <2>1
  <2> QED
    BY <2>2
<1>5. \E z \in T : \A y \in T : z >= y
  BY <1>4
<1> QED
  BY <1>5 DEF Max

\* The place where flckadj puts a lock is not before the one it looks from.
LEMMA PassIn ==
    ASSUME NEW l \in Seq(Filocks), NEW i \in 1 .. Len(l), NEW x
    PROVE  Pass(l, i, x) \in i .. Len(l)
<1> DEFINE T == {i} \cup {j \in i .. Len(l) : \A k \in i .. j : l[k].start < x}
<1>1. Len(l) \in Nat /\ T # {}
  OBVIOUS
<1>2. T \in SUBSET (0 .. Len(l))
  BY <1>1
<1>3. Max(T) \in T
  BY <1>1, <1>2, MaxOfNats
<1>4. Pass(l, i, x) \in T
  BY <1>3 DEF Pass
<1> HIDE DEF T
<1> QED
  BY <1>1, <1>4 DEF T

\* What one turn of the loop of flckadj keeps, all of them keep.
LEMMA AdjustedIn ==
    ASSUME NEW G, NEW s \in G, NEW p, NEW n \in Nat, \A t \in G : Adjust(t, p) \in G
    PROVE  Adjusted(s, p, n) \in G
<1>1. PICK step : step = [i \in 1 .. n |-> [t \in G |-> Adjust(t, p)]]
  OBVIOUS
<1>2. step \in [1 .. n -> [G -> G]]
  BY <1>1
<1>3. PICK f \in [0 .. n -> G] : f[0] = s /\ \A i \in 1 .. n : f[i] = step[i][f[i - 1]]
  <2>1. Runs(G, step, s, n)
    BY <1>2, LoopRuns
  <2> QED
    BY <2>1 DEF Runs
<1>4. \A i \in 0 .. n : f[i] = IF i = 0 THEN s ELSE Adjust(f[i - 1], p)
  <2>1. ASSUME NEW i \in 1 .. n PROVE f[i] = Adjust(f[i - 1], p)
    <3>1. f[i - 1] \in G
      BY <1>3
    <3> QED
      BY <1>1, <1>3, <3>1
  <2> QED
    BY <1>3, <2>1
<1>5. f = [i \in 0 .. n |-> IF i = 0 THEN s ELSE Adjust(f[i - 1], p)]
  <2>1. PICK h : h = [i \in 0 .. n |-> IF i = 0 THEN s ELSE Adjust(f[i - 1], p)]
    OBVIOUS
  <2>2. \A i \in 0 .. n : f[i] = h[i]
    BY <1>4, <2>1
  <2> QED
    BY <1>3, <2>1, <2>2
<1>6. PICK g : /\ g = [i \in 0 .. n |-> IF i = 0 THEN s ELSE Adjust(g[i - 1], p)]
               /\ Adjusted(s, p, n) = g[n]
  BY <1>5 DEF Adjusted
<1>7. g[0] \in G /\ \A i \in 1 .. n : g[i - 1] \in G => g[i] \in G
  <2>1. \A i \in 0 .. n : g[i] = IF i = 0 THEN s ELSE Adjust(g[i - 1], p)
    BY <1>6
  <2> QED
    BY <2>1
<1> QED
  BY <1>6, <1>7, LoopStays

\* The same for the loop of cleanlocks.
LEMMA CleanedIn ==
    ASSUME NEW G, NEW l, NEW p, NEW k, Len(l) \in Nat, Begin(l, 0, "none", k) \in G,
           \A t \in G : Clean(t, p) \in G
    PROVE  Cleaned(l, p, k) \in G
<1>1. PICK s : s = Begin(l, 0, "none", k)
  OBVIOUS
<1>2. PICK n : n = Len(l)
  OBVIOUS
<1>3. PICK step : step = [i \in 1 .. n |-> [t \in G |-> Clean(t, p)]]
  OBVIOUS
<1>4. step \in [1 .. n -> [G -> G]] /\ s \in G /\ n \in Nat
  BY <1>1, <1>2, <1>3
<1>5. PICK f \in [0 .. n -> G] : f[0] = s /\ \A i \in 1 .. n : f[i] = step[i][f[i - 1]]
  <2>1. Runs(G, step, s, n)
    BY <1>4, LoopRuns
  <2> QED
    BY <2>1 DEF Runs
<1>6. \A i \in 0 .. n : f[i] = IF i = 0 THEN s ELSE Clean(f[i - 1], p)
  <2>1. ASSUME NEW i \in 1 .. n PROVE f[i] = Clean(f[i - 1], p)
    <3>1. f[i - 1] \in G
      BY <1>4, <1>5
    <3> QED
      BY <1>3, <1>5, <3>1
  <2> QED
    BY <1>5, <2>1
<1>7. f = [i \in 0 .. n |-> IF i = 0 THEN s ELSE Clean(f[i - 1], p)]
  <2>1. PICK h : h = [i \in 0 .. n |-> IF i = 0 THEN s ELSE Clean(f[i - 1], p)]
    OBVIOUS
  <2>2. \A i \in 0 .. n : f[i] = h[i]
    BY <1>6, <2>1
  <2> QED
    BY <1>5, <2>1, <2>2
<1>8. PICK g : /\ g = [i \in 0 .. n |-> IF i = 0 THEN s ELSE Clean(g[i - 1], p)]
               /\ Cleaned(l, p, k) = g[n]
  BY ZenonT(60), <1>1, <1>2, <1>7 DEF Cleaned
<1>9. g[0] \in G /\ \A i \in 1 .. n : g[i - 1] \in G => g[i] \in G
  <2>1. \A i \in 0 .. n : g[i] = IF i = 0 THEN s ELSE Clean(g[i - 1], p)
    BY <1>8
  <2> QED
    BY <1>4, <2>1
<1> QED
  BY <1>4, <1>8, <1>9, LoopStays

-----------------------------------------------------------------------------
(* Who sleeps for the locks of a list *)

\* No lock of l is slept for by q.
NotSleptFor(l, q) == \A j \in DOMAIN l : q \notin l[j].slp

\* The lock L is in l, and if q sleeps for a lock of l, it is this one.
SleptForIs(l, q, L) == \E i \in DOMAIN l : /\ l[i] = L
                                          /\ \A j \in DOMAIN l : q \in l[j].slp => j = i

\* What becomes of q when the list l results from a call, and W is woken: if q
\* slept for the lock L before, it still does, or is woken; if it did not sleep
\* for a lock of the list, nothing happens to it.
Fate(l, W, q, L) ==
    IF q \in L.slp
      THEN \/ q \notin W /\ SleptForIs(l, q, L)
           \/ q \in W /\ NotSleptFor(l, q)
      ELSE q \notin W /\ NotSleptFor(l, q)

\* Those woken when the lock f goes (WAKEUP, flock.h).
WokenBy(f) == IF f.wakeflg THEN f.slp ELSE {}

\* A lock is deleted.
LEMMA FateRemove ==
    ASSUME NEW l \in Seq(Filocks), NEW i \in 1 .. Len(l), NEW W, NEW q, NEW L,
           q \in L.slp => L.wakeflg, Fate(l, W, q, L)
    PROVE  Fate(RemoveAt(l, i), W \cup WokenBy(l[i]), q, L)
<1>1. PICK m : m = RemoveAt(l, i)
  OBVIOUS
<1>2. /\ m \in Seq(Filocks) /\ Len(m) = Len(l) - 1
      /\ \A j \in 1 .. Len(l) - 1 : m[j] = IF j < i THEN l[j] ELSE l[j + 1]
  BY <1>1, RemoveFacts
<1>3. Len(l) \in Nat /\ DOMAIN l = 1 .. Len(l) /\ DOMAIN m = 1 .. Len(l) - 1
  BY <1>2
<1>4. \A j \in DOMAIN m : \E k \in DOMAIN l : k # i /\ m[j] = l[k]
  <2>1. ASSUME NEW j \in DOMAIN m PROVE \E k \in DOMAIN l : k # i /\ m[j] = l[k]
    <3>1. CASE j < i
      BY <1>2, <1>3, <3>1
    <3>2. CASE ~(j < i)
      BY <1>2, <1>3, <3>2
    <3> QED
      BY <3>1, <3>2
  <2> QED
    BY <2>1
<1>5. CASE NotSleptFor(l, q)
  <2>1. NotSleptFor(m, q)
    BY <1>4, <1>5 DEF NotSleptFor
  <2>2. q \notin WokenBy(l[i])
    BY <1>3, <1>5 DEF NotSleptFor, WokenBy
  <2>3. ~(q \in L.slp /\ SleptForIs(l, q, L))
    BY <1>5 DEF NotSleptFor, SleptForIs
  <2> QED
    BY <1>1, <2>1, <2>2, <2>3 DEF Fate
<1>6. CASE q \in L.slp /\ q \notin W /\ SleptForIs(l, q, L)
  <2>1. PICK k \in DOMAIN l : l[k] = L /\ \A j \in DOMAIN l : q \in l[j].slp => j = k
    BY <1>6 DEF SleptForIs
  <2>2. CASE k = i
    <3>1. NotSleptFor(m, q)
      BY <1>4, <2>1, <2>2 DEF NotSleptFor
    <3>2. q \in WokenBy(l[i])
      BY <1>6, <2>1, <2>2 DEF WokenBy
    <3> QED
      BY <1>1, <1>6, <3>1, <3>2 DEF Fate
  <2>3. CASE k # i
    <3>1. q \notin WokenBy(l[i])
      BY <1>3, <2>1, <2>3 DEF WokenBy
    <3>2. PICK n \in DOMAIN m : m[n] = L /\ n = IF k < i THEN k ELSE k - 1
      <4>1. CASE k < i
        BY <1>2, <1>3, <2>1, <4>1
      <4>2. CASE ~(k < i)
        <5>1. k - 1 \in DOMAIN m /\ ~(k - 1 < i) /\ (k - 1) + 1 = k
          BY <1>3, <2>3, <4>2
        <5> QED
          BY <1>2, <1>3, <2>1, <4>2, <5>1
      <4> QED
        BY <4>1, <4>2
    <3>3. ASSUME NEW j \in DOMAIN m, q \in m[j].slp PROVE j = n
      <4>1. CASE j < i
        <5>1. m[j] = l[j] /\ j \in DOMAIN l
          BY <1>2, <1>3, <4>1
        <5>2. j = k
          BY <2>1, <3>3, <5>1
        <5> QED
          BY <3>2, <4>1, <5>2
      <4>2. CASE ~(j < i)
        <5>1. m[j] = l[j + 1] /\ j + 1 \in DOMAIN l
          BY <1>2, <1>3, <4>2
        <5>2. j + 1 = k
          BY <2>1, <3>3, <5>1
        <5> QED
          BY <1>3, <3>2, <4>2, <5>2
      <4> QED
        BY <4>1, <4>2
    <3>4. SleptForIs(m, q, L)
      BY <3>2, <3>3 DEF SleptForIs
    <3> QED
      BY <1>1, <1>6, <3>1, <3>4 DEF Fate
  <2> QED
    BY <2>2, <2>3
<1> QED
  BY <1>5, <1>6 DEF Fate

\* A lock nobody sleeps for is added.
LEMMA FateInsert ==
    ASSUME NEW l \in Seq(Filocks), NEW i \in 1 .. Len(l) + 1, NEW e \in Filocks,
           e.slp = {}, NEW W, NEW q, NEW L, Fate(l, W, q, L)
    PROVE  Fate(InsertAt(l, i, e), W, q, L)
<1>1. PICK m : m = InsertAt(l, i, e)
  OBVIOUS
<1>2. /\ m \in Seq(Filocks) /\ Len(m) = Len(l) + 1
      /\ \A j \in 1 .. Len(l) + 1 :
            m[j] = IF j < i THEN l[j] ELSE IF j = i THEN e ELSE l[j - 1]
  <2>1. /\ InsertAt(l, i, e) \in Seq(Filocks)
        /\ Len(InsertAt(l, i, e)) = Len(l) + 1
        /\ \A j \in 1 .. Len(l) + 1 :
              InsertAt(l, i, e)[j] = IF j < i THEN l[j] ELSE IF j = i THEN e ELSE l[j - 1]
    BY InsertFacts
  <2> QED
    BY <1>1, <2>1
<1>3. Len(l) \in Nat /\ DOMAIN l = 1 .. Len(l) /\ DOMAIN m = 1 .. Len(l) + 1
  BY <1>2
<1>4. ASSUME NEW j \in DOMAIN m, q \in m[j].slp
      PROVE  \/ j < i /\ j \in DOMAIN l /\ m[j] = l[j]
             \/ j > i /\ j - 1 \in DOMAIN l /\ m[j] = l[j - 1]
  <2>1. j \in Int /\ i \in Int /\ 1 <= j /\ j <= Len(l) + 1 /\ 1 <= i /\ i <= Len(l) + 1
    BY <1>3
  <2>2. CASE j < i
    <3>1. m[j] = l[j] /\ j \in DOMAIN l
      BY <1>2, <1>3, <2>1, <2>2
    <3> QED
      BY <2>2, <3>1
  <2>3. CASE j = i
    BY <1>2, <1>3, <1>4, <2>3
  <2>4. CASE j > i
    <3>1. m[j] = l[j - 1] /\ j - 1 \in DOMAIN l
      BY <1>2, <1>3, <2>1, <2>4
    <3> QED
      BY <2>4, <3>1
  <2> QED
    BY <2>1, <2>2, <2>3, <2>4
<1>5. NotSleptFor(l, q) => NotSleptFor(m, q)
  BY <1>4 DEF NotSleptFor
<1>6. ASSUME SleptForIs(l, q, L) PROVE SleptForIs(m, q, L)
  <2>1. PICK k \in DOMAIN l : l[k] = L /\ \A j \in DOMAIN l : q \in l[j].slp => j = k
    BY <1>6 DEF SleptForIs
  <2>2. PICK n \in DOMAIN m : m[n] = L /\ n = IF k < i THEN k ELSE k + 1
    <3>1. CASE k < i
      BY <1>2, <1>3, <2>1, <3>1
    <3>2. CASE ~(k < i)
      <4>1. k + 1 \in DOMAIN m /\ ~(k + 1 < i) /\ k + 1 # i /\ (k + 1) - 1 = k
        BY <1>3, <3>2
      <4> QED
        BY <1>2, <1>3, <2>1, <3>2, <4>1
    <3> QED
      BY <3>1, <3>2
  <2>3. ASSUME NEW j \in DOMAIN m, q \in m[j].slp PROVE j = n
    <3>1. CASE j < i /\ j \in DOMAIN l /\ m[j] = l[j]
      <4>1. j = k
        BY <2>1, <2>3, <3>1
      <4> QED
        BY <2>2, <3>1, <4>1
    <3>2. CASE j > i /\ j - 1 \in DOMAIN l /\ m[j] = l[j - 1]
      <4>1. j - 1 = k
        BY <2>1, <2>3, <3>2
      <4> QED
        BY <1>3, <2>2, <3>2, <4>1
    <3> QED
      BY <1>4, <2>3, <3>1, <3>2
  <2> QED
    BY <2>2, <2>3 DEF SleptForIs
<1> QED
  BY <1>1, <1>5, <1>6 DEF Fate

\* A lock changes, and those who sleep for it, if it is marked, are woken.
LEMMA FateEdit ==
    ASSUME NEW l \in Seq(Filocks), NEW i \in 1 .. Len(l), NEW e \in Filocks,
           e.slp = IF l[i].wakeflg THEN {} ELSE l[i].slp, NEW W, NEW q, NEW L,
           q \in L.slp => L.wakeflg, Fate(l, W, q, L)
    PROVE  Fate([l EXCEPT ![i] = e], W \cup WokenBy(l[i]), q, L)
<1>1. PICK m : m = [l EXCEPT ![i] = e]
  OBVIOUS
<1>2. /\ m \in Seq(Filocks) /\ Len(m) = Len(l)
      /\ \A j \in 1 .. Len(l) : m[j] = IF j = i THEN e ELSE l[j]
  BY <1>1, ExceptSeq
<1>3. Len(l) \in Nat /\ DOMAIN l = 1 .. Len(l) /\ DOMAIN m = 1 .. Len(l)
  BY <1>2
<1>4. NotSleptFor(l, q) => NotSleptFor(m, q) /\ q \notin WokenBy(l[i])
  BY <1>2, <1>3 DEF NotSleptFor, WokenBy
<1>5. CASE NotSleptFor(l, q)
  <2>1. ~(q \in L.slp /\ SleptForIs(l, q, L))
    BY <1>5 DEF NotSleptFor, SleptForIs
  <2> QED
    BY <1>1, <1>4, <1>5, <2>1 DEF Fate
<1>6. CASE q \in L.slp /\ q \notin W /\ SleptForIs(l, q, L)
  <2>1. PICK k \in DOMAIN l : l[k] = L /\ \A j \in DOMAIN l : q \in l[j].slp => j = k
    BY <1>6 DEF SleptForIs
  <2>2. CASE k = i
    <3>1. NotSleptFor(m, q)
      BY <1>2, <1>3, <1>6, <2>1, <2>2 DEF NotSleptFor
    <3>2. q \in WokenBy(l[i])
      BY <1>6, <2>1, <2>2 DEF WokenBy
    <3> QED
      BY <1>1, <1>6, <3>1, <3>2 DEF Fate
  <2>3. CASE k # i
    <3>1. q \notin WokenBy(l[i]) /\ q \notin e.slp
      BY <1>3, <2>1, <2>3 DEF WokenBy
    <3>2. SleptForIs(m, q, L)
      BY <1>2, <1>3, <2>1, <2>3, <3>1 DEF SleptForIs
    <3> QED
      BY <1>1, <1>6, <3>1, <3>2 DEF Fate
  <2> QED
    BY <2>2, <2>3
<1> QED
  BY <1>5, <1>6 DEF Fate

-----------------------------------------------------------------------------
(* The loops of flckadj and cleanlocks *)

\* The states of the loops, with a request of D.
Adjs(D) == [l : Seq(Filocks), flp : Nat, insrtp : Nat, ld : D, nfree : Nat,
            woken : SUBSET Procs, rv : {"go", "stop", "ok", "ENOSPC"}]

\* Between two turns: the pointers are into the list, no lock record has been lost
\* of the N in the list and the pool, and no sleeper has been forgotten.
Between(D, N, q, L) ==
    {s \in Adjs(D) : /\ s.flp \in 1 .. Len(s.l) + 1
                     /\ s.insrtp \in 0 .. Len(s.l) /\ s.insrtp <= s.flp
                     /\ s.nfree + Len(s.l) = N
                     /\ Fate(s.l, s.woken, q, L)}

\* Deleting a lock.
LEMMA DeleteKeeps ==
    ASSUME NEW D, NEW N \in Nat, NEW q, NEW L, q \in L.slp => L.wakeflg,
           NEW s \in Between(D, N, q, L), s.flp <= Len(s.l)
    PROVE  /\ Delete(s) \in Between(D, N, q, L)
           /\ Delete(s).flp = s.flp /\ Delete(s).ld = s.ld
           /\ Len(Delete(s).l) = Len(s.l) - 1
<1>1. /\ s \in Adjs(D) /\ s.flp \in 1 .. Len(s.l)
      /\ s.insrtp \in 0 .. Len(s.l) /\ s.insrtp <= s.flp
      /\ s.nfree + Len(s.l) = N /\ Fate(s.l, s.woken, q, L)
  BY DEF Between, Adjs
<1>2. /\ s.l \in Seq(Filocks) /\ Len(s.l) \in Nat /\ s.nfree \in Nat /\ s.flp \in Nat
      /\ s.woken \in SUBSET Procs /\ s.insrtp \in Nat
  BY <1>1 DEF Adjs
<1>3. PICK m : m = RemoveAt(s.l, s.flp)
  OBVIOUS
<1>4. m \in Seq(Filocks) /\ Len(m) = Len(s.l) - 1
  BY <1>1, <1>2, <1>3, RemoveFacts
<1>5. PICK W : W = s.woken \cup WokenBy(s.l[s.flp])
  OBVIOUS
<1>6. W \in SUBSET Procs
  <2>1. s.l[s.flp] \in Filocks
    BY <1>1, <1>2
  <2> QED
    BY <1>2, <1>5, <2>1 DEF WokenBy, Filocks
<1>7. Fate(m, W, q, L)
  BY <1>1, <1>2, <1>3, <1>5, FateRemove
<1>8. PICK k : k = IF s.insrtp = s.flp THEN s.insrtp - 1 ELSE s.insrtp
  OBVIOUS
<1>9. k \in Nat /\ k \in 0 .. Len(m) /\ k <= s.flp
  BY <1>1, <1>2, <1>4, <1>8
<1>10. PICK c \in Nat : c = s.nfree + 1
  BY <1>2
<1>11. PICK t : t = [s EXCEPT !.l = m, !.insrtp = k, !.nfree = c, !.woken = W]
  OBVIOUS
<1>12. Delete(s) = t
  BY <1>1, <1>3, <1>5, <1>8, <1>10, <1>11 DEF Delete, WokenBy, Adjs
<1>13. /\ t \in Adjs(D) /\ t.l = m /\ t.insrtp = k /\ t.nfree = c /\ t.woken = W
       /\ t.flp = s.flp /\ t.ld = s.ld
  BY <1>1, <1>4, <1>6, <1>9, <1>11 DEF Adjs
<1>14. t.nfree + Len(t.l) = N /\ t.flp \in 1 .. Len(t.l) + 1
  <2>1. \A x, y \in Nat : x + y = N => (x + 1) + (y - 1) = N
    OBVIOUS
  <2>2. c + Len(m) = N
    BY ZenonT(60), <1>1, <1>2, <1>4, <1>10, <2>1
  <2>3. s.flp \in 1 .. Len(m) + 1
    BY <1>1, <1>2, <1>4
  <2> QED
    BY <1>13, <2>2, <2>3
<1> QED
  BY <1>4, <1>7, <1>9, <1>12, <1>13, <1>14 DEF Between

\* Cutting a lock short.
LEMMA TrimKeeps ==
    ASSUME NEW N \in Nat, NEW q, NEW L, q \in L.slp => L.wakeflg,
           NEW s \in Between(Requests, N, q, L), s.flp <= Len(s.l)
    PROVE  /\ Trim(s) \in Between(Requests, N, q, L)
           /\ Trim(s).flp = s.flp /\ Len(Trim(s).l) = Len(s.l)
<1>1. /\ s \in Adjs(Requests) /\ s.flp \in 1 .. Len(s.l)
      /\ s.nfree + Len(s.l) = N /\ Fate(s.l, s.woken, q, L)
  BY DEF Between, Adjs
<1>2. /\ s.l \in Seq(Filocks) /\ Len(s.l) \in Nat /\ s.nfree \in Nat /\ s.flp \in Nat
      /\ s.woken \in SUBSET Procs /\ s.ld.start \in Int
  BY <1>1 DEF Adjs, Requests
<1>3. PICK f : f = s.l[s.flp]
  OBVIOUS
<1>4. f \in Filocks
  BY <1>1, <1>2, <1>3
<1>5. PICK e : e = IF f.wakeflg THEN [f EXCEPT !.end = s.ld.start,
                                              !.wakeflg = FALSE, !.slp = {}]
                                ELSE [f EXCEPT !.end = s.ld.start]
  OBVIOUS
<1>6. e \in Filocks /\ e.slp = IF f.wakeflg THEN {} ELSE f.slp
  BY <1>2, <1>4, <1>5 DEF Filocks
<1>7. PICK m : m = [s.l EXCEPT ![s.flp] = e]
  OBVIOUS
<1>8. m \in Seq(Filocks) /\ Len(m) = Len(s.l)
  BY <1>1, <1>2, <1>6, <1>7, ExceptSeq
<1>9. PICK W : W = s.woken \cup WokenBy(f)
  OBVIOUS
<1>10. W \in SUBSET Procs
  BY <1>2, <1>4, <1>9 DEF WokenBy, Filocks
<1>11. Fate(m, W, q, L)
  BY <1>1, <1>2, <1>3, <1>6, <1>7, <1>9, FateEdit
<1>12. PICK t : t = [s EXCEPT !.l = m, !.insrtp = s.flp, !.woken = W]
  OBVIOUS
<1>13. Trim(s) = t
  BY <1>1, <1>3, <1>5, <1>7, <1>9, <1>12 DEF Trim, WokenBy, Adjs
<1>14. /\ t \in Adjs(Requests) /\ t.l = m /\ t.insrtp = s.flp /\ t.nfree = s.nfree
       /\ t.woken = W /\ t.flp = s.flp
  BY <1>1, <1>2, <1>8, <1>10, <1>12 DEF Adjs
<1>15. /\ t.nfree + Len(t.l) = N /\ t.flp \in 1 .. Len(t.l) + 1
       /\ t.insrtp \in 0 .. Len(t.l) /\ t.insrtp <= t.flp
  BY <1>1, <1>2, <1>8, <1>14
<1> QED
  BY <1>8, <1>11, <1>13, <1>14, <1>15 DEF Between

\* A new lock, for which there is a record.
LEMMA NewLockFacts ==
    ASSUME NEW p \in Procs, NEW r, r.type \in {"R", "W"}, r.start \in Int, r.end \in Int
    PROVE  NewLock(p, r) \in Filocks /\ NewLock(p, r).slp = {}
BY DEF NewLock, Filocks

\* The piece behind the request becomes a lock.
LEMMA SeverKeeps ==
    ASSUME NEW N \in Nat, NEW q, NEW L, q \in L.slp => L.wakeflg,
           NEW s \in Between(Requests, N, q, L), s.flp <= Len(s.l), s.nfree # 0
    PROVE  /\ Sever(s) \in Between(Requests, N, q, L)
           /\ Sever(s).flp = s.flp /\ Len(Sever(s).l) = Len(s.l) + 1
<1>1. /\ s \in Adjs(Requests) /\ s.flp \in 1 .. Len(s.l)
      /\ s.insrtp \in 0 .. Len(s.l) /\ s.insrtp <= s.flp
      /\ s.nfree + Len(s.l) = N /\ Fate(s.l, s.woken, q, L)
  BY DEF Between, Adjs
<1>2. /\ s.l \in Seq(Filocks) /\ Len(s.l) \in Nat /\ s.nfree \in Nat /\ s.flp \in Nat
      /\ s.ld.end \in Int /\ s.insrtp \in Nat
  BY <1>1 DEF Adjs, Requests
<1>3. PICK f : f = s.l[s.flp]
  OBVIOUS
<1>4. f \in Filocks
  BY <1>1, <1>2, <1>3
<1>5. PICK e : e = NewLock(f.pid, [f EXCEPT !.start = s.ld.end])
  OBVIOUS
<1>6. e \in Filocks /\ e.slp = {}
  <2>1. PICK r : r = [f EXCEPT !.start = s.ld.end]
    OBVIOUS
  <2>2. f.pid \in Procs /\ r.type \in {"R", "W"} /\ r.start \in Int /\ r.end \in Int
    BY <1>2, <1>4, <2>1 DEF Filocks
  <2>3. NewLock(f.pid, r) \in Filocks /\ NewLock(f.pid, r).slp = {}
    BY <2>2, NewLockFacts
  <2> QED
    BY <1>5, <2>1, <2>3
<1>7. PICK k : k = Pass(s.l, s.flp, s.ld.start) + 1
  OBVIOUS
<1>8. k \in 1 .. Len(s.l) + 1
  BY <1>1, <1>2, <1>7, PassIn
<1>9. PICK m : m = InsertAt(s.l, k, e)
  OBVIOUS
<1>10. m \in Seq(Filocks) /\ Len(m) = Len(s.l) + 1
  BY <1>2, <1>6, <1>8, <1>9, InsertFacts
<1>11. Fate(m, s.woken, q, L)
  BY <1>1, <1>2, <1>6, <1>8, <1>9, FateInsert
<1>12. PICK c \in Nat : c = s.nfree - 1
  BY <1>2
<1>13. PICK t : t = [s EXCEPT !.l = m, !.nfree = c]
  OBVIOUS
<1>14. Sever(s) = t
  BY <1>1, <1>3, <1>5, <1>7, <1>9, <1>12, <1>13 DEF Sever, Adjs
<1>15. /\ t \in Adjs(Requests) /\ t.l = m /\ t.insrtp = s.insrtp
       /\ t.nfree = c /\ t.woken = s.woken /\ t.flp = s.flp
  BY <1>1, <1>10, <1>13 DEF Adjs
<1>16. /\ t.nfree + Len(t.l) = N /\ t.flp \in 1 .. Len(t.l) + 1
       /\ t.insrtp \in 0 .. Len(t.l) /\ t.insrtp <= t.flp
  <2>1. t.nfree + Len(t.l) = N
    <3>1. PICK a \in Nat, b \in Nat : a = s.nfree /\ b = Len(s.l) /\ a + b = N
      BY <1>1, <1>2
    <3>2. t.nfree = a - 1 /\ Len(t.l) = b + 1
      BY <1>10, <1>12, <1>15, <3>1
    <3> QED
      BY <3>1, <3>2
  <2>2. t.flp \in 1 .. Len(t.l) + 1
    BY <1>1, <1>2, <1>10, <1>15
  <2> QED
    BY <1>1, <1>2, <1>10, <1>15, <2>1, <2>2
<1> QED
  BY <1>10, <1>11, <1>14, <1>15, <1>16 DEF Between

\* Moving the pointers, growing the request and leaving the loop.
LEMMA MoveKeeps ==
    ASSUME NEW D, NEW N, NEW q, NEW L, NEW s \in Between(D, N, q, L),
           NEW i \in 1 .. Len(s.l) + 1, s.insrtp <= i,
           NEW r \in {"go", "stop", "ok", "ENOSPC"}
    PROVE  Step(s, i, r) \in Between(D, N, q, L)
<1>1. PICK t : t = [s EXCEPT !.flp = i, !.rv = r]
  OBVIOUS
<1>2. s \in Adjs(D) /\ Len(s.l) \in Nat
  BY DEF Between, Adjs
<1>3. i \in Nat
  BY <1>2
<1>4. /\ t \in Adjs(D) /\ t.l = s.l /\ t.insrtp = s.insrtp /\ t.nfree = s.nfree
      /\ t.woken = s.woken /\ t.flp = i
  BY <1>1, <1>2, <1>3 DEF Adjs
<1> QED
  BY <1>1, <1>4 DEF Step, Between

\* insrtp moves to a place before flp.
LEMMA InsrtpKeeps ==
    ASSUME NEW D, NEW N, NEW q, NEW L, NEW s \in Between(D, N, q, L),
           NEW i \in 0 .. Len(s.l), i <= s.flp
    PROVE  [s EXCEPT !.insrtp = i] \in Between(D, N, q, L)
BY DEF Between, Adjs

\* The request grows.
LEMMA LdKeeps ==
    ASSUME NEW N, NEW q, NEW L, NEW s \in Between(Requests, N, q, L),
           NEW x \in Int
    PROVE  /\ [s EXCEPT !.ld.end = x] \in Between(Requests, N, q, L)
           /\ [s EXCEPT !.ld.start = x] \in Between(Requests, N, q, L)
<1>1. s.ld \in Requests
  BY DEF Between, Adjs
<1>2. [s.ld EXCEPT !.end = x] \in Requests /\ [s.ld EXCEPT !.start = x] \in Requests
  BY <1>1 DEF Requests
<1>3. ASSUME NEW d \in Requests PROVE [s EXCEPT !.ld = d] \in Between(Requests, N, q, L)
  BY DEF Between, Adjs
<1>4. /\ [s EXCEPT !.ld.end = x] = [s EXCEPT !.ld = [s.ld EXCEPT !.end = x]]
      /\ [s EXCEPT !.ld.start = x] = [s EXCEPT !.ld = [s.ld EXCEPT !.start = x]]
  BY DEF Between, Adjs
<1> QED
  BY <1>2, <1>3, <1>4

\* The ways in which a turn of flckadj can end for a lock of the process itself.
Turns(s) ==
    LET f == s.l[s.flp]
        del == Delete(s)
        before == [del EXCEPT !.insrtp = s.flp - 1]
    IN  {Step(s, s.flp, "stop"), Step(s, s.flp, "ok"), Step(s, s.flp, "ENOSPC"),
         Step(s, s.flp + 1, "go"), Step([s EXCEPT !.insrtp = s.flp], s.flp + 1, "go"),
         del, Step(del, s.flp, "stop"), Step([del EXCEPT !.ld.end = f.end], s.flp, "stop"),
         before, [before EXCEPT !.ld.start = f.start], Step(Trim(s), s.flp + 1, "go")}
        \cup {t \in {Step(Delete(Sever(s)), s.flp, "stop"), Step(Trim(Sever(s)), s.flp, "stop"),
                    Step([Delete(Sever(s)) EXCEPT !.insrtp = s.flp - 1], s.flp, "stop")} :
                 s.nfree # 0}

\* There is no other way.
LEMMA OwnForms ==
    ASSUME NEW s
    PROVE  AdjustOwn(s) \in Turns(s)
<1>1. PICK reg : reg = Regflck(s.ld, s.l[s.flp])
  OBVIOUS
<1>2. PICK f : f = s.l[s.flp]
  OBVIOUS
<1>3. PICK del : del = Delete(s)
  OBVIOUS
<1>4. PICK before : before = [del EXCEPT !.insrtp = s.flp - 1]
  OBVIOUS
<1>5. PICK own : own = AdjustOwn(s)
  OBVIOUS
<1>6. own \in Turns(s)
  BY <1>1, <1>2, <1>3, <1>4, <1>5 DEF AdjustOwn, Turns
<1> QED
  BY <1>5, <1>6

\* One turn of flckadj.
LEMMA AdjustKeeps ==
    ASSUME NEW N \in Nat, NEW q, NEW L, q \in L.slp => L.wakeflg,
           NEW s \in Between(Requests, N, q, L), NEW p
    PROVE  Adjust(s, p) \in Between(Requests, N, q, L)
<1> DEFINE B == Between(Requests, N, q, L)
<1>1. /\ s.l \in Seq(Filocks) /\ Len(s.l) \in Nat /\ s.flp \in 1 .. Len(s.l) + 1
      /\ s.insrtp \in 0 .. Len(s.l) /\ s.insrtp <= s.flp
  BY DEF Between, Adjs
<1>2. SUFFICES ASSUME s.flp <= Len(s.l) PROVE Adjust(s, p) \in B
  BY <1>1 DEF Adjust
<1>3. s.flp \in 1 .. Len(s.l) /\ s.flp + 1 \in 1 .. Len(s.l) + 1 /\ s.insrtp <= s.flp + 1
      /\ s.flp - 1 \in 0 .. Len(s.l) - 1 /\ s.flp - 1 <= s.flp
  BY <1>1, <1>2
<1>4. PICK f : f = s.l[s.flp]
  OBVIOUS
<1>5. f.start \in Int /\ f.end \in Int
  <2>1. f \in Filocks
    BY <1>1, <1>3, <1>4
  <2> QED
    BY <2>1 DEF Filocks
<1>6. /\ Step(s, s.flp, "stop") \in B /\ Step(s, s.flp, "ok") \in B
      /\ Step(s, s.flp, "ENOSPC") \in B /\ Step(s, s.flp + 1, "go") \in B
  BY <1>1, <1>3, MoveKeeps
<1>7. Step([s EXCEPT !.insrtp = s.flp], s.flp + 1, "go") \in B
  <2>1. PICK t : t = [s EXCEPT !.insrtp = s.flp]
    OBVIOUS
  <2>2. t \in B
    BY <1>3, <2>1, InsrtpKeeps
  <2>3. t.l = s.l /\ t.insrtp = s.flp
    BY <2>1 DEF Between, Adjs
  <2>4. s.flp + 1 \in 1 .. Len(t.l) + 1 /\ t.insrtp <= s.flp + 1
    BY <1>1, <1>3, <2>3
  <2>5. Step(t, s.flp + 1, "go") \in B
    BY <2>2, <2>4, MoveKeeps
  <2> QED
    BY <2>1, <2>5
<1>8. PICK del : del = Delete(s)
  OBVIOUS
<1>9. del \in B /\ del.flp = s.flp /\ Len(del.l) = Len(s.l) - 1 /\ del.insrtp <= s.flp
  <2>1. del \in B /\ del.flp = s.flp /\ Len(del.l) = Len(s.l) - 1
    BY <1>2, <1>8, DeleteKeeps
  <2> QED
    BY <2>1 DEF Between
<1>10. s.flp \in 1 .. Len(del.l) + 1 /\ s.flp - 1 \in 0 .. Len(del.l)
  BY <1>1, <1>3, <1>9
<1>11. Step(del, s.flp, "stop") \in B
  BY <1>9, <1>10, MoveKeeps
<1>12. Step([del EXCEPT !.ld.end = f.end], s.flp, "stop") \in B
  <2>1. PICK t : t = [del EXCEPT !.ld.end = f.end]
    OBVIOUS
  <2>2. t \in B
    BY <1>5, <1>9, <2>1, LdKeeps
  <2>3. t.l = del.l /\ t.insrtp = del.insrtp
    BY <1>9, <2>1 DEF Between, Adjs
  <2> QED
    BY <1>9, <1>10, <2>1, <2>2, <2>3, MoveKeeps
<1>13. PICK before : before = [del EXCEPT !.insrtp = s.flp - 1]
  OBVIOUS
<1>14. before \in B
  BY <1>3, <1>9, <1>10, <1>13, InsrtpKeeps
<1>15. [before EXCEPT !.ld.start = f.start] \in B
  BY <1>5, <1>14, LdKeeps
<1>16. Step(Trim(s), s.flp + 1, "go") \in B
  <2>1. PICK t : t = Trim(s)
    OBVIOUS
  <2>2. t \in B /\ t.flp = s.flp /\ Len(t.l) = Len(s.l)
    BY <1>2, <2>1, TrimKeeps
  <2>3. t.insrtp <= s.flp + 1
    BY <1>1, <2>2 DEF Between, Adjs
  <2> QED
    BY <1>3, <2>1, <2>2, <2>3, MoveKeeps
<1>17. ASSUME s.nfree # 0
       PROVE  /\ Step(Delete(Sever(s)), s.flp, "stop") \in B
              /\ Step(Trim(Sever(s)), s.flp, "stop") \in B
              /\ Step([Delete(Sever(s)) EXCEPT !.insrtp = s.flp - 1], s.flp, "stop") \in B
  <2>1. PICK v : v = Sever(s)
    OBVIOUS
  <2>2. v \in B /\ v.flp = s.flp /\ Len(v.l) = Len(s.l) + 1 /\ v.flp <= Len(v.l)
    <3>1. v \in B /\ v.flp = s.flp /\ Len(v.l) = Len(s.l) + 1
      BY <1>2, <1>17, <2>1, SeverKeeps
    <3> QED
      BY <1>1, <1>2, <3>1
  <2>3. PICK d : d = Delete(v)
    OBVIOUS
  <2>4. d \in B /\ d.flp = s.flp /\ Len(d.l) = Len(s.l) /\ d.insrtp <= s.flp
    <3>1. d \in B /\ d.flp = v.flp /\ Len(d.l) = Len(v.l) - 1
      BY <2>2, <2>3, DeleteKeeps
    <3>2. d.insrtp <= d.flp
      BY <3>1 DEF Between
    <3> QED
      BY <1>1, <2>2, <3>1, <3>2
  <2>5. Step(d, s.flp, "stop") \in B
    BY <1>1, <2>4, MoveKeeps
  <2>6. PICK e : e = [d EXCEPT !.insrtp = s.flp - 1]
    OBVIOUS
  <2>7. e \in B /\ e.l = d.l /\ e.insrtp = s.flp - 1
    <3>1. s.flp - 1 \in 0 .. Len(d.l) /\ s.flp - 1 <= d.flp
      BY <1>1, <1>3, <2>4
    <3>2. e \in B
      BY <2>4, <2>6, <3>1, InsrtpKeeps
    <3> QED
      BY <2>4, <2>6, <3>2 DEF Between, Adjs
  <2>8. Step(e, s.flp, "stop") \in B
    <3>1. s.flp \in 1 .. Len(e.l) + 1 /\ e.insrtp <= s.flp
      BY <1>1, <1>3, <2>4, <2>7
    <3> QED
      BY <2>7, <3>1, MoveKeeps
  <2>9. PICK t : t = Trim(v)
    OBVIOUS
  <2>10. t \in B /\ s.flp \in 1 .. Len(t.l) + 1 /\ t.insrtp <= s.flp
    <3>1. t \in B /\ t.flp = v.flp
      BY <2>2, <2>9, TrimKeeps
    <3> QED
      BY <2>2, <3>1 DEF Between
  <2>11. Step(t, s.flp, "stop") \in B
    BY <2>10, MoveKeeps
  <2> QED
    BY <2>1, <2>3, <2>5, <2>6, <2>8, <2>9, <2>11
<1>18. Turns(s) \subseteq B
  <2> HIDE DEF B
  <2> QED
    BY <1>4, <1>6, <1>7, <1>8, <1>9, <1>11, <1>12, <1>13, <1>14, <1>15, <1>16, <1>17 DEF Turns
<1>19. AdjustOwn(s) \in B
  BY <1>18, OwnForms
<1> HIDE DEF B
<1> QED
  BY <1>6, <1>19 DEF Adjust, B

\* One turn of cleanlocks.
LEMMA CleanKeeps ==
    ASSUME NEW N \in Nat, NEW q, NEW L, q \in L.slp => L.wakeflg,
           NEW s \in Between({"none"}, N, q, L), NEW p
    PROVE  Clean(s, p) \in Between({"none"}, N, q, L)
<1>1. /\ Len(s.l) \in Nat /\ s.flp \in 1 .. Len(s.l) + 1
      /\ s.insrtp \in 0 .. Len(s.l) /\ s.insrtp <= s.flp
  BY DEF Between, Adjs
<1>2. CASE s.flp > Len(s.l)
  BY <1>2 DEF Clean
<1>3. CASE ~(s.flp > Len(s.l)) /\ s.l[s.flp].pid = p
  <2>1. s.flp <= Len(s.l)
    BY <1>1, <1>3
  <2>2. Delete(s) \in Between({"none"}, N, q, L)
    BY <2>1, DeleteKeeps
  <2> QED
    BY <1>3, <2>2 DEF Clean
<1>4. CASE ~(s.flp > Len(s.l)) /\ s.l[s.flp].pid # p
  <2>1. s.flp + 1 \in 1 .. Len(s.l) + 1 /\ s.insrtp <= s.flp + 1
    BY <1>1, <1>4
  <2>2. Step(s, s.flp + 1, "go") \in Between({"none"}, N, q, L)
    BY <2>1, MoveKeeps
  <2> QED
    BY <1>4, <2>2 DEF Clean
<1> QED
  BY <1>2, <1>3, <1>4

\* Where the loops begin.
LEMMA BeginIn ==
    ASSUME NEW D, NEW ld \in D, NEW l \in Seq(Filocks), NEW i \in 0 .. Len(l),
           NEW k \in Nat, NEW q, NEW L, Fate(l, {}, q, L)
    PROVE  Begin(l, i, ld, k) \in Between(D, k + Len(l), q, L)
<1>1. PICK j : j = IF i = 0 THEN 1 ELSE i
  OBVIOUS
<1>2. Len(l) \in Nat /\ j \in Nat /\ i \in Nat /\ j \in 1 .. Len(l) + 1 /\ i <= j
  BY <1>1
<1>3. PICK s : s = [l |-> l, flp |-> j, insrtp |-> i, ld |-> ld, nfree |-> k,
                    woken |-> {}, rv |-> "go"]
  OBVIOUS
<1>4. s \in Between(D, k + Len(l), q, L)
  BY <1>2, <1>3 DEF Between, Adjs
<1> QED
  BY <1>1, <1>3, <1>4 DEF Begin

\* What a call changes: in the list, in the pool of lock records, and for those
\* who sleep.
Changed(a, l, k, q, L) ==
    /\ a.l \in Seq(Filocks) /\ a.nfree \in Nat /\ a.woken \in SUBSET Procs
    /\ a.nfree + Len(a.l) = k + Len(l)
    /\ Fate(a.l, a.woken, q, L)

\* flckadj loses no lock record, and wakes those who slept for a lock that it
\* removes or cuts short, and nobody else.
THEOREM FlckadjKeeps ==
    ASSUME NEW l \in Seq(Filocks), NEW i \in 0 .. Len(l), NEW ld \in Requests,
           NEW p \in Procs, NEW k \in Nat, NEW q, NEW L, q \in L.slp => L.wakeflg,
           Fate(l, {}, q, L)
    PROVE  Changed(Flckadj(l, i, ld, p, k), l, k, q, L)
<1>1. PICK N \in Nat : N = k + Len(l)
  OBVIOUS
<1>2. PICK s : s = Adjusted(Begin(l, i, ld, k), p, Len(l))
  OBVIOUS
<1>3. s \in Between(Requests, N, q, L)
  <2>1. Begin(l, i, ld, k) \in Between(Requests, N, q, L)
    BY <1>1, BeginIn
  <2>2. \A t \in Between(Requests, N, q, L) : Adjust(t, p) \in Between(Requests, N, q, L)
    BY AdjustKeeps
  <2>3. Len(l) \in Nat
    OBVIOUS
  <2> QED
    BY <1>2, <2>1, <2>2, <2>3, AdjustedIn
<1>4. /\ s \in Adjs(Requests) /\ s.nfree + Len(s.l) = N /\ Fate(s.l, s.woken, q, L)
      /\ s.insrtp \in 0 .. Len(s.l)
  BY <1>3 DEF Between
<1>5. /\ s.l \in Seq(Filocks) /\ Len(s.l) \in Nat /\ s.nfree \in Nat
      /\ s.woken \in SUBSET Procs /\ s.ld \in Requests
  BY <1>4 DEF Adjs
<1>6. Changed(s, l, k, q, L)
  BY <1>1, <1>4, <1>5 DEF Changed
<1>7. \A r : Changed([s EXCEPT !.rv = r], l, k, q, L)
  <2>1. ASSUME NEW r PROVE Changed([s EXCEPT !.rv = r], l, k, q, L)
    <3>1. PICK t : t = [s EXCEPT !.rv = r]
      OBVIOUS
    <3>2. t.l = s.l /\ t.nfree = s.nfree /\ t.woken = s.woken
      BY <1>4, <3>1 DEF Adjs
    <3> QED
      BY <1>6, <3>1, <3>2 DEF Changed
  <2> QED
    BY <2>1
<1>8. PICK j : j = (IF s.insrtp = 0 THEN 0 ELSE Pass(s.l, s.insrtp, s.ld.start)) + 1
  OBVIOUS
<1>9. PICK e : e = NewLock(p, s.ld)
  OBVIOUS
<1>10. ASSUME s.ld.type # "U", s.nfree # 0
       PROVE  Changed([s EXCEPT !.l = InsertAt(s.l, j, e), !.nfree = s.nfree - 1,
                                !.rv = "ok"], l, k, q, L)
  <2>1. j \in 1 .. Len(s.l) + 1
    <3>1. CASE s.insrtp = 0
      BY <1>5, <1>8, <3>1
    <3>2. CASE s.insrtp # 0
      <4>1. s.insrtp \in 1 .. Len(s.l)
        BY <1>4, <1>5, <3>2
      <4>2. Pass(s.l, s.insrtp, s.ld.start) \in s.insrtp .. Len(s.l)
        BY <1>5, <4>1, PassIn
      <4> QED
        BY <1>5, <1>8, <3>2, <4>1, <4>2
    <3> QED
      BY <3>1, <3>2
  <2>2. e \in Filocks /\ e.slp = {}
    <3>1. s.ld.type \in {"R", "W"} /\ s.ld.start \in Int /\ s.ld.end \in Int
      BY <1>5, <1>10 DEF Requests
    <3> QED
      BY <1>9, <3>1, NewLockFacts
  <2>3. PICK m : m = InsertAt(s.l, j, e)
    OBVIOUS
  <2>4. m \in Seq(Filocks) /\ Len(m) = Len(s.l) + 1
    BY <1>5, <2>1, <2>2, <2>3, InsertFacts
  <2>5. Fate(m, s.woken, q, L)
    BY <1>4, <1>5, <2>1, <2>2, <2>3, FateInsert
  <2>6. PICK c \in Nat : c = s.nfree - 1
    BY <1>5, <1>10
  <2>7. PICK t : t = [s EXCEPT !.l = m, !.nfree = c, !.rv = "ok"]
    OBVIOUS
  <2>8. t.l = m /\ t.nfree = c /\ t.woken = s.woken
    BY <1>4, <2>7 DEF Adjs
  <2>9. c + Len(m) = k + Len(l)
    <3>1. c = s.nfree - 1 /\ Len(m) = Len(s.l) + 1 /\ s.nfree + Len(s.l) = N
      BY <1>4, <2>4, <2>6
    <3>2. \A x, y \in Nat : x + y = N => (x - 1) + (y + 1) = N
      OBVIOUS
    <3>3. c + Len(m) = N
      BY <1>5, <3>1, <3>2
    <3> QED
      BY <1>1, <3>3
  <2>10. Changed(t, l, k, q, L)
    BY <1>5, <2>4, <2>5, <2>8, <2>9 DEF Changed
  <2> QED
    BY <2>3, <2>6, <2>7, <2>10
<1>11. PICK a : a = Flckadj(l, i, ld, p, k)
  OBVIOUS
<1>12. CASE s.rv \in {"ok", "ENOSPC"}
  <2>1. a = s
    BY <1>2, <1>11, <1>12 DEF Flckadj
  <2> QED
    BY <1>6, <1>11, <2>1
<1>13. CASE s.rv \notin {"ok", "ENOSPC"} /\ s.ld.type = "U"
  <2>1. a = [s EXCEPT !.rv = "ok"]
    BY <1>2, <1>11, <1>13 DEF Flckadj
  <2> QED
    BY ZenonT(60), <1>7, <1>11, <2>1
<1>14. CASE s.rv \notin {"ok", "ENOSPC"} /\ s.ld.type # "U" /\ s.nfree = 0
  <2>1. a = [s EXCEPT !.rv = "ENOSPC"]
    BY <1>2, <1>11, <1>14 DEF Flckadj
  <2> QED
    BY ZenonT(60), <1>7, <1>11, <2>1
<1>15. CASE s.rv \notin {"ok", "ENOSPC"} /\ s.ld.type # "U" /\ s.nfree # 0
  <2>1. a = [s EXCEPT !.l = InsertAt(@, j, e), !.nfree = @ - 1, !.rv = "ok"]
    BY <1>2, <1>8, <1>9, <1>11, <1>15 DEF Flckadj
  <2>2. a = [s EXCEPT !.l = InsertAt(s.l, j, e), !.nfree = s.nfree - 1, !.rv = "ok"]
    BY <1>4, <2>1 DEF Adjs
  <2> QED
    BY <1>10, <1>11, <1>15, <2>2
<1> QED
  BY <1>12, <1>13, <1>14, <1>15

\* cleanlocks does the same.
LEMMA CleanedKeeps ==
    ASSUME NEW l \in Seq(Filocks), NEW p \in Procs, NEW k \in Nat, NEW q, NEW L,
           q \in L.slp => L.wakeflg, Fate(l, {}, q, L)
    PROVE  Changed(Cleaned(l, p, k), l, k, q, L)
<1>1. PICK N \in Nat : N = k + Len(l)
  OBVIOUS
<1>2. PICK s : s = Cleaned(l, p, k)
  OBVIOUS
<1>3. s \in Between({"none"}, N, q, L)
  <2>1. Begin(l, 0, "none", k) \in Between({"none"}, N, q, L)
    <3>1. 0 \in 0 .. Len(l) /\ "none" \in {"none"}
      OBVIOUS
    <3> QED
      BY <1>1, <3>1, BeginIn
  <2>2. \A t \in Between({"none"}, N, q, L) : Clean(t, p) \in Between({"none"}, N, q, L)
    BY CleanKeeps
  <2>3. Len(l) \in Nat
    OBVIOUS
  <2> QED
    BY <1>2, <2>1, <2>2, <2>3, CleanedIn
<1> QED
  BY <1>1, <1>2, <1>3 DEF Between, Adjs, Changed

-----------------------------------------------------------------------------
(* The invariant of RecordLock *)

\* The types of the variables; whoever is inside a call has a request, and whoever
\* waits has an entry in sleeplcks.
LockTypes ==
    /\ locks \in [Files -> Seq(Filocks)]
    /\ hdr \subseteq Files
    /\ blkpid \in [Procs -> Procs \cup {None}]
    /\ pc \in [Procs -> {"user", "try", "asleep", "woken"}]
    /\ req \in [Procs -> Requests \cup {None}]
    /\ \A p \in Procs : /\ pc[p] # "user" => req[p] \in Requests
                        /\ blkpid[p] # None <=> pc[p] \in {"asleep", "woken"}

\* q sleeps for one lock, which is marked and in its way, or for none.
SleepOf(q) ==
    IF pc[q] = "asleep"
      THEN \E L \in Filocks :
              /\ q \in L.slp /\ L.wakeflg /\ InTheWay(q, req[q], L)
              /\ SleptForIs(locks[req[q].file], q, L)
              /\ \A f \in Files \ {req[q].file} : NotSleptFor(locks[f], q)
      ELSE \A f \in Files : NotSleptFor(locks[f], q)

\* The processes that are in a call for f.
Users(f) == {p \in Procs : pc[p] # "user" /\ req[p].file = f}

\* No request starts before its file, so that convoff never fails in getflck.
NoneBefore == \A g \in Ranges : g[1] >= 0

\* The references to the header of f: at least one for each of its users, and
\* exactly one when getflck has leaked none.
HeaderOf(f) ==
    /\ refcnt[f] >= Cardinality(Users(f))
    /\ NoneBefore => refcnt[f] = Cardinality(Users(f))
    /\ f \in hdr <=> refcnt[f] > 0 \/ locks[f] # <<>>

Headers == refcnt \in [Files -> Nat] /\ \A f \in Files : HeaderOf(f)

\* The lock records of files, and those of sleeplcks.
Slots(lk) == UNION {{f} \X DOMAIN lk[f] : f \in Files}
Entries == {p \in Procs : blkpid[p] # None}

Records == reccnt <= Recs /\ RecordsCounted

LocksInv == LockTypes /\ (\A q \in Procs : SleepOf(q)) /\ Headers /\ Records

-----------------------------------------------------------------------------
(* Counting *)

\* The locks of one file among the locks of all.
LEMMA SlotsSplit ==
    ASSUME NEW lk \in [Files -> Seq(Filocks)], NEW f \in Files
    PROVE  LET rest == UNION {{g} \X DOMAIN lk[g] : g \in Files \ {f}}
           IN  /\ IsFiniteSet(rest) /\ Cardinality(rest) \in Nat
               /\ IsFiniteSet(Slots(lk))
               /\ Cardinality(Slots(lk)) = Cardinality(rest) + Len(lk[f])
<1> DEFINE rest == UNION {{g} \X DOMAIN lk[g] : g \in Files \ {f}}
           mine == {f} \X DOMAIN lk[f]
<1>1. \A g \in Files : IsFiniteSet({g} \X DOMAIN lk[g])
  <2>1. ASSUME NEW g \in Files PROVE IsFiniteSet({g} \X DOMAIN lk[g])
    <3>1. Len(lk[g]) \in Nat /\ DOMAIN lk[g] = 1 .. Len(lk[g])
      BY LenProperties
    <3>2. IsFiniteSet(1 .. Len(lk[g]))
      BY <3>1, FS_Interval
    <3> QED
      BY <3>1, <3>2, FS_Singleton, FS_Product
  <2> QED
    BY <2>1
<1>2. IsFiniteSet(rest)
  <2>1. PICK T : T = {{g} \X DOMAIN lk[g] : g \in Files \ {f}}
    OBVIOUS
  <2>2. IsFiniteSet(T)
    <3>1. IsFiniteSet(Files \ {f})
      BY RecordLockAssumption, FS_Difference
    <3>2. PICK h : h = [g \in Files \ {f} |-> {g} \X DOMAIN lk[g]]
      OBVIOUS
    <3>3. h \in Surjection(Files \ {f}, T)
      BY <2>1, <3>2 DEF Surjection
    <3> QED
      BY <3>1, <3>3, FS_Surjection
  <2>3. \A x \in T : IsFiniteSet(x)
    BY <1>1, <2>1
  <2> QED
    BY <2>1, <2>2, <2>3, FS_UNION
<1>3. Slots(lk) = rest \cup mine
  BY DEF Slots
<1>4. rest \cap mine = {}
  OBVIOUS
<1>5. IsFiniteSet(mine) /\ Cardinality(mine) = Len(lk[f])
  <2>1. PICK n \in Nat : n = Len(lk[f]) /\ DOMAIN lk[f] = 1 .. n
    BY LenProperties
  <2>2. IsFiniteSet(1 .. n) /\ Cardinality(1 .. n) = n
    BY FS_Interval
  <2>3. IsFiniteSet({f}) /\ Cardinality({f}) = 1
    BY FS_Singleton
  <2>4. IsFiniteSet({f} \X (1 .. n)) /\ Cardinality({f} \X (1 .. n)) = Cardinality({f}) * Cardinality(1 .. n)
    BY <2>2, <2>3, FS_Product
  <2> QED
    BY <2>1, <2>2, <2>3, <2>4
<1> HIDE DEF rest, mine
<1>6. Cardinality(rest) \in Nat /\ Len(lk[f]) \in Nat
  BY <1>2, FS_CardinalityType, LenProperties
<1>7. IsFiniteSet(rest \cup mine)
      /\ Cardinality(rest \cup mine) = Cardinality(rest) + Cardinality(mine) - Cardinality(rest \cap mine)
  BY <1>2, <1>5, FS_Union
<1>8. Cardinality(rest \cap mine) = 0
  BY <1>4, FS_EmptySet
<1>9. Cardinality(Slots(lk)) = Cardinality(rest) + Len(lk[f])
  BY <1>3, <1>5, <1>6, <1>7, <1>8
<1> QED
  BY <1>2, <1>3, <1>6, <1>7, <1>9 DEF rest

\* A list that becomes shorter or longer.
LEMMA SlotsChange ==
    ASSUME NEW lk \in [Files -> Seq(Filocks)], NEW f \in Files, NEW l \in Seq(Filocks)
    PROVE  /\ Cardinality(Slots(lk)) \in Nat
           /\ Cardinality(Slots([lk EXCEPT ![f] = l]))
                = Cardinality(Slots(lk)) - Len(lk[f]) + Len(l)
<1>1. PICK k : k = [lk EXCEPT ![f] = l]
  OBVIOUS
<1>2. k \in [Files -> Seq(Filocks)] /\ k[f] = l /\ \A g \in Files \ {f} : k[g] = lk[g]
  BY <1>1
<1>3. PICK rest : rest = UNION {{g} \X DOMAIN lk[g] : g \in Files \ {f}}
  OBVIOUS
<1>4. rest = UNION {{g} \X DOMAIN k[g] : g \in Files \ {f}}
  BY <1>2, <1>3
<1>5. Cardinality(rest) \in Nat /\ Cardinality(Slots(lk)) = Cardinality(rest) + Len(lk[f])
  BY <1>3, SlotsSplit
<1>6. Cardinality(Slots(k)) = Cardinality(rest) + Len(k[f])
  BY <1>2, <1>4, SlotsSplit
<1>7. Len(lk[f]) \in Nat /\ Len(l) \in Nat
  BY LenProperties
<1> QED
  BY <1>1, <1>2, <1>5, <1>6, <1>7

\* The number of lock records is a number.
LEMMA RecordsNat ==
    ASSUME LockTypes, Records
    PROVE  /\ reccnt \in Nat /\ Recs - reccnt \in Nat
           /\ reccnt = Cardinality(Slots(locks)) + Cardinality(Entries)
           /\ Cardinality(Slots(locks)) \in Nat /\ Cardinality(Entries) \in Nat
           /\ IsFiniteSet(Entries)
<1>1. reccnt = Cardinality(Slots(locks)) + Cardinality(Entries)
  BY DEF Records, RecordsCounted, Slots, Entries
<1>2. IsFiniteSet(Entries)
  BY RecordLockAssumption, FS_Subset DEF Entries
<1>3. Cardinality(Entries) \in Nat
  BY <1>2, FS_CardinalityType
<1>4. Cardinality(Slots(locks)) \in Nat
  <2>1. CASE Files = {}
    <3>1. Slots(locks) = {}
      BY <2>1 DEF Slots
    <3> QED
      BY <3>1, FS_EmptySet
  <2>2. CASE Files # {}
    <3>1. PICK f \in Files : TRUE
      BY <2>2
    <3>2. Cardinality(Slots(locks)) \in Nat /\ <<>> \in Seq(Filocks)
      BY SlotsChange DEF LockTypes
    <3> QED
      BY <3>2
  <2> QED
    BY <2>1, <2>2
<1>5. reccnt \in Nat
  BY <1>1, <1>3, <1>4
<1>6. Recs - reccnt \in Nat
  BY <1>5, RecordLockAssumption DEF Records
<1> QED
  BY <1>1, <1>2, <1>3, <1>4, <1>5, <1>6

\* The users of a file.
LEMMA UsersFinite == \A f : IsFiniteSet(Users(f)) /\ Cardinality(Users(f)) \in Nat
<1>1. ASSUME NEW f PROVE IsFiniteSet(Users(f)) /\ Cardinality(Users(f)) \in Nat
  <2>1. Users(f) \in SUBSET Procs
    BY DEF Users
  <2>2. IsFiniteSet(Users(f))
    BY <2>1, RecordLockAssumption, FS_Subset
  <2> QED
    BY <2>2, FS_CardinalityType
<1> QED
  BY <1>1

-----------------------------------------------------------------------------
(* What the parts of the actions keep *)

\* The end of a call of p: nobody but p leaves, and only sleepers are woken.
LEMMA FinishFacts ==
    ASSUME LockTypes, NEW p \in Procs, NEW W, pc[p] # "asleep", Finish(p, W)
    PROVE  /\ pc' \in [Procs -> {"user", "try", "asleep", "woken"}]
           /\ req' \in [Procs -> Requests \cup {None}]
           /\ pc'[p] = "user"
           /\ \A q \in Procs \ {p} :
                 /\ req'[q] = req[q]
                 /\ pc'[q] = IF q \in W /\ pc[q] = "asleep" THEN "woken" ELSE pc[q]
<1>1. pc' = [q \in Procs |-> CASE q = p -> "user"
                              [] q \in W /\ pc[q] = "asleep" -> "woken"
                              [] OTHER -> pc[q]]
  BY DEF Finish
<1>2. pc'[p] = "user"
  BY <1>1
<1>3. ASSUME NEW q \in Procs, q # p
      PROVE  pc'[q] = IF q \in W /\ pc[q] = "asleep" THEN "woken" ELSE pc[q]
  <2>1. CASE q \in W /\ pc[q] = "asleep"
    BY <1>1, <1>3, <2>1
  <2>2. CASE ~(q \in W /\ pc[q] = "asleep")
    BY <1>1, <1>3, <2>2
  <2> QED
    BY <2>1, <2>2
<1>4. \A q \in Procs : pc'[q] \in {"user", "try", "asleep", "woken"}
  BY <1>2, <1>3 DEF LockTypes
<1>5. pc' \in [Procs -> {"user", "try", "asleep", "woken"}]
  <2>1. DOMAIN pc' = Procs /\ pc' = [q \in Procs |-> pc'[q]]
    BY <1>1
  <2> QED
    BY <1>4, <2>1
<1>6. req' = [req EXCEPT ![p] = None]
  BY DEF Finish
<1> QED
  BY <1>2, <1>3, <1>5, <1>6 DEF LockTypes

\* Nobody but p moves, and not into or out of a sleep: who slept still does.
LEMMA SleepSame ==
    ASSUME NEW q \in Procs, SleepOf(q), locks' = locks,
           pc'[q] = "asleep" <=> pc[q] = "asleep",
           pc[q] = "asleep" => req'[q] = req[q]
    PROVE  SleepOf(q)'
<1>1. CASE pc[q] = "asleep"
  BY <1>1 DEF SleepOf
<1>2. CASE pc[q] # "asleep"
  BY <1>2 DEF SleepOf
<1> QED
  BY <1>1, <1>2

\* x and y are the same lock for q.
Alike(q, x, y) ==
    /\ y.pid = x.pid /\ y.type = x.type /\ y.start = x.start /\ y.end = x.end
    /\ x.wakeflg => y.wakeflg
    /\ q \in y.slp <=> q \in x.slp

\* Locks whose marks and sleepers change, but not for q.
LEMMA SleepAlike ==
    ASSUME NEW q \in Procs, LockTypes, SleepOf(q), locks' \in [Files -> Seq(Filocks)],
           \A f \in Files : /\ DOMAIN locks'[f] = DOMAIN locks[f]
                            /\ \A j \in DOMAIN locks[f] : Alike(q, locks[f][j], locks'[f][j]),
           pc'[q] = "asleep" <=> pc[q] = "asleep", req'[q] = req[q]
    PROVE  SleepOf(q)'
<1>1. \A f \in Files : NotSleptFor(locks[f], q) => NotSleptFor(locks'[f], q)
  BY DEF NotSleptFor, Alike
<1>2. CASE pc[q] # "asleep"
  <2>1. \A f \in Files : NotSleptFor(locks'[f], q)
    BY <1>1, <1>2 DEF SleepOf
  <2> QED
    BY <1>2, <2>1 DEF SleepOf
<1>3. CASE pc[q] = "asleep"
  <2>1. PICK h \in Files : h = req[q].file
    BY <1>3 DEF LockTypes, Requests
  <2>2. PICK L \in Filocks : /\ q \in L.slp /\ L.wakeflg /\ InTheWay(q, req[q], L)
                             /\ SleptForIs(locks[h], q, L)
                             /\ \A f \in Files \ {h} : NotSleptFor(locks[f], q)
    BY <1>3, <2>1 DEF SleepOf
  <2>3. PICK i \in DOMAIN locks[h] : /\ locks[h][i] = L
                                     /\ \A j \in DOMAIN locks[h] :
                                           q \in locks[h][j].slp => j = i
    BY <2>2 DEF SleptForIs
  <2>4. PICK M : M = locks'[h][i]
    OBVIOUS
  <2>5. M \in Filocks
    <3>1. i \in DOMAIN locks'[h] /\ locks'[h] \in Seq(Filocks)
      BY <2>3
    <3> QED
      BY <2>4, <3>1
  <2>6. Alike(q, L, M)
    BY <2>3, <2>4
  <2>7. q \in M.slp /\ M.wakeflg /\ InTheWay(q, req[q], M)
    BY <2>2, <2>6 DEF Alike, InTheWay
  <2>8. SleptForIs(locks'[h], q, M)
    <3>1. \A j \in DOMAIN locks'[h] : q \in locks'[h][j].slp => j = i
      BY <2>3 DEF Alike
    <3> QED
      BY <2>3, <2>4, <3>1 DEF SleptForIs
  <2>9. \A f \in Files \ {h} : NotSleptFor(locks'[f], q)
    BY <1>1, <2>2
  <2> QED
    BY <1>3, <2>1, <2>5, <2>7, <2>8, <2>9 DEF SleepOf
<1> QED
  BY <1>2, <1>3

\* The list of f is rewritten by a call of p, which ends, and a's sleepers are
\* woken.
LEMMA RewriteKeeps ==
    ASSUME LockTypes, \A q \in Procs : SleepOf(q), Records, NEW p \in Procs,
           pc[p] \notin {"asleep", "woken"}, NEW f \in Files, NEW a,
           \A q, L : (q \in L.slp => L.wakeflg) /\ Fate(locks[f], {}, q, L)
                        => Changed(a, locks[f], Recs - reccnt, q, L),
           locks' = [locks EXCEPT ![f] = a.l], reccnt' = Recs - a.nfree,
           Finish(p, a.woken), blkpid' = blkpid, hdr' \subseteq Files
    PROVE  LockTypes' /\ (\A q \in Procs : SleepOf(q))' /\ Records'
<1>1. PICK Nobody : Nobody = [slp |-> {}, wakeflg |-> TRUE]
  OBVIOUS
<1>2. ASSUME NEW q, NotSleptFor(locks[f], q)
      PROVE  Changed(a, locks[f], Recs - reccnt, q, Nobody) /\ q \notin a.woken /\ NotSleptFor(a.l, q)
  <2>1. Fate(locks[f], {}, q, Nobody) /\ q \notin Nobody.slp
    BY <1>1, <1>2 DEF Fate
  <2>2. Changed(a, locks[f], Recs - reccnt, q, Nobody)
    BY <2>1
  <2> QED
    BY <2>1, <2>2 DEF Changed, Fate
<1>3. /\ a.l \in Seq(Filocks) /\ a.nfree \in Nat /\ a.woken \in SUBSET Procs
      /\ a.nfree + Len(a.l) = (Recs - reccnt) + Len(locks[f])
  <2>1. NotSleptFor(locks[f], None)
    <3>1. \A j \in DOMAIN locks[f] : locks[f][j] \in Filocks
      BY DEF LockTypes
    <3>2. \A x \in Filocks : None \notin x.slp
      BY RecordLockAssumption DEF Filocks
    <3> QED
      BY <3>1, <3>2 DEF NotSleptFor
  <2> QED
    BY <1>2, <2>1 DEF Changed
<1>4. PICK W : W = a.woken
  OBVIOUS
<1>5. /\ pc' \in [Procs -> {"user", "try", "asleep", "woken"}]
      /\ req' \in [Procs -> Requests \cup {None}]
      /\ pc'[p] = "user"
      /\ \A q \in Procs \ {p} :
            /\ req'[q] = req[q]
            /\ pc'[q] = IF q \in W /\ pc[q] = "asleep" THEN "woken" ELSE pc[q]
  BY <1>4, FinishFacts
<1>6. locks' \in [Files -> Seq(Filocks)] /\ locks'[f] = a.l
      /\ \A g \in Files \ {f} : locks'[g] = locks[g]
  BY <1>3 DEF LockTypes
<1>7. LockTypes'
  <2>1. ASSUME NEW q \in Procs
        PROVE  /\ pc'[q] # "user" => req'[q] \in Requests
               /\ blkpid'[q] # None <=> pc'[q] \in {"asleep", "woken"}
    <3>1. CASE q = p
      BY <1>5, <3>1 DEF LockTypes
    <3>2. CASE q # p
      <4>1. /\ pc[q] # "user" => req[q] \in Requests
            /\ blkpid[q] # None <=> pc[q] \in {"asleep", "woken"}
        BY DEF LockTypes
      <4>2. req'[q] = req[q] /\ blkpid'[q] = blkpid[q]
            /\ pc'[q] = IF q \in W /\ pc[q] = "asleep" THEN "woken" ELSE pc[q]
        BY <1>5, <3>2
      <4> QED
        BY <4>1, <4>2
    <3> QED
      BY <3>1, <3>2
  <2> QED
    BY <1>5, <1>6, <2>1 DEF LockTypes
<1>8. Records'
  <2>1. /\ Cardinality(Slots(locks)) \in Nat
        /\ Cardinality(Slots(locks')) = Cardinality(Slots(locks)) - Len(locks[f]) + Len(a.l)
    BY <1>3, SlotsChange DEF LockTypes
  <2>2. Entries' = Entries
    BY DEF Entries
  <2>3. reccnt \in Nat /\ reccnt = Cardinality(Slots(locks)) + Cardinality(Entries)
        /\ Cardinality(Entries) \in Nat
    BY RecordsNat
  <2>4. Len(locks[f]) \in Nat /\ Len(a.l) \in Nat
    BY <1>3, LenProperties DEF LockTypes
  <2>5. reccnt' = Cardinality(Slots(locks')) + Cardinality(Entries) /\ reccnt' <= Recs
    <3>1. PICK s1, s2, e, l1, l2, n : /\ s1 = Cardinality(Slots(locks))
                                      /\ s2 = Cardinality(Slots(locks'))
                                      /\ e = Cardinality(Entries) /\ l1 = Len(locks[f])
                                      /\ l2 = Len(a.l) /\ n = a.nfree
      OBVIOUS
    <3>2. /\ s1 \in Nat /\ e \in Nat /\ l1 \in Nat /\ l2 \in Nat /\ n \in Nat /\ Recs \in Nat
          /\ s2 = s1 - l1 + l2 /\ n + l2 = (Recs - (s1 + e)) + l1
      BY <1>3, <2>1, <2>3, <2>4, <3>1, RecordLockAssumption
    <3>3. Recs - n = s2 + e /\ Recs - n <= Recs
      BY <3>2
    <3> QED
      BY <3>1, <3>3
  <2>6. (Cardinality(Slots(locks)) + Cardinality(Entries))' = Cardinality(Slots(locks')) + Cardinality(Entries')
    BY DEF Slots
  <2>7. RecordsCounted'
    BY <2>2, <2>5 DEF RecordsCounted, Slots, Entries
  <2> QED
    BY <2>5, <2>7 DEF Records
<1>9. ASSUME NEW q \in Procs PROVE SleepOf(q)'
  <2>1. CASE \A g \in Files : NotSleptFor(locks[g], q)
    <3>1. q = p \/ pc[q] # "asleep"
      <4>1. pc[q] # "asleep"
        <5>1. SUFFICES ASSUME pc[q] = "asleep" PROVE FALSE
          OBVIOUS
        <5>2. req[q] \in Requests
          BY <5>1 DEF LockTypes
        <5>3. PICK L \in Filocks : q \in L.slp /\ SleptForIs(locks[req[q].file], q, L)
          BY <5>1 DEF SleepOf
        <5>4. req[q].file \in Files
          BY <5>2 DEF Requests
        <5> QED
          BY <2>1, <5>3, <5>4 DEF SleptForIs, NotSleptFor
      <4> QED
        BY <4>1
    <3>2. pc'[q] # "asleep"
      BY <1>5, <3>1
    <3>3. NotSleptFor(a.l, q)
      BY <1>2, <2>1
    <3>4. \A g \in Files : NotSleptFor(locks'[g], q)
      BY <1>6, <2>1, <3>3
    <3> QED
      BY <3>2, <3>4 DEF SleepOf
  <2>2. CASE ~\A g \in Files : NotSleptFor(locks[g], q)
    <3>1. pc[q] = "asleep" /\ q # p
      BY <2>2 DEF SleepOf
    <3>2. req'[q] = req[q] /\ req[q] \in Requests
          /\ pc'[q] = IF q \in W THEN "woken" ELSE "asleep"
      BY <1>5, <3>1 DEF LockTypes
    <3>3. PICK h \in Files : h = req[q].file
      BY <3>2 DEF Requests
    <3>4. PICK L \in Filocks : /\ q \in L.slp /\ L.wakeflg /\ InTheWay(q, req[q], L)
                               /\ SleptForIs(locks[h], q, L)
                               /\ \A g \in Files \ {h} : NotSleptFor(locks[g], q)
      BY <3>1, <3>3 DEF SleepOf
    <3>5. CASE h = f
      <4>1. Fate(locks[f], {}, q, L)
        BY <3>4, <3>5 DEF Fate
      <4>2. Fate(a.l, W, q, L)
        BY <1>4, <3>4, <4>1 DEF Changed
      <4>3. CASE q \notin W /\ SleptForIs(a.l, q, L)
        <5>1. pc'[q] = "asleep"
          BY <3>2, <4>3
        <5> QED
          BY <1>6, <3>2, <3>3, <3>4, <3>5, <4>3, <5>1 DEF SleepOf
      <4>4. CASE q \in W /\ NotSleptFor(a.l, q)
        <5>1. pc'[q] # "asleep"
          BY <3>2, <4>4
        <5>2. \A g \in Files : NotSleptFor(locks'[g], q)
          BY <1>6, <3>4, <3>5, <4>4
        <5> QED
          BY <5>1, <5>2 DEF SleepOf
      <4> QED
        BY <3>4, <4>2, <4>3, <4>4 DEF Fate
    <3>6. CASE h # f
      <4>1. q \notin W /\ NotSleptFor(a.l, q)
        BY <1>2, <1>4, <3>4, <3>6
      <4>2. pc'[q] = "asleep" /\ locks'[h] = locks[h]
        BY <1>6, <3>2, <3>6, <4>1
      <4>3. \A g \in Files \ {h} : NotSleptFor(locks'[g], q)
        BY <1>6, <3>4, <4>1
      <4> QED
        BY <3>2, <3>3, <3>4, <4>2, <4>3 DEF SleepOf
    <3> QED
      BY <3>5, <3>6
  <2> QED
    BY <2>1, <2>2
<1> QED
  BY <1>7, <1>8, <1>9

\* p leaves its call, and gives up its reference to the header of its file.
LEMMA LeaveKeeps ==
    ASSUME LockTypes, Headers, NEW p \in Procs, pc[p] # "user",
           NEW f \in Files, f = req[p].file, pc'[p] = "user",
           \A q \in Procs \ {p} : /\ req'[q] = req[q]
                                  /\ pc'[q] = "user" <=> pc[q] = "user",
           Freefid(f, locks'[f]), \A g \in Files \ {f} : locks'[g] = locks[g]
    PROVE  Headers' /\ hdr' \subseteq Files
<1>1. Users(f)' = Users(f) \ {p} /\ p \in Users(f)
  BY DEF Users
<1>2. \A g \in Files \ {f} : Users(g)' = Users(g)
  BY DEF Users
<1>3. Cardinality(Users(f)) \in Nat /\ Cardinality(Users(f)) >= 1
      /\ Cardinality(Users(f))' = Cardinality(Users(f)) - 1
  <2>1. IsFiniteSet(Users(f)) /\ Cardinality(Users(f)) \in Nat
    BY UsersFinite
  <2>2. Cardinality(Users(f) \ {p}) = Cardinality(Users(f)) - 1
    BY <1>1, <2>1, FS_RemoveElement
  <2>3. Cardinality(Users(f) \ {p}) \in Nat
    BY <2>1, FS_RemoveElement, FS_CardinalityType
  <2> QED
    BY <1>1, <2>1, <2>2, <2>3
<1>4. refcnt[f] \in Nat /\ refcnt[f] >= 1 /\ f \in hdr
  BY <1>3 DEF Headers, HeaderOf
<1>5. refcnt' = [refcnt EXCEPT ![f] = refcnt[f] - 1]
  <2>1. (IF refcnt[f] <= 1 /\ locks'[f] = <<>> THEN 0 ELSE refcnt[f] - 1) = refcnt[f] - 1
    BY <1>4
  <2>2. refcnt' = [refcnt EXCEPT ![f] = IF refcnt[f] <= 1 /\ locks'[f] = <<>> THEN 0
                                                                 ELSE refcnt[f] - 1]
    BY DEF Freefid, Headers
  <2> QED
    BY <2>1, <2>2
<1>6. refcnt' \in [Files -> Nat] /\ refcnt'[f] = refcnt[f] - 1
      /\ \A g \in Files \ {f} : refcnt'[g] = refcnt[g]
  BY <1>4, <1>5 DEF Headers
<1>7. hdr' = IF refcnt[f] <= 1 /\ locks'[f] = <<>> THEN hdr \ {f} ELSE hdr
  BY DEF Freefid
<1>8. HeaderOf(f)'
  <2>1. f \in hdr' <=> refcnt'[f] > 0 \/ locks'[f] # <<>>
    BY <1>4, <1>6, <1>7
  <2>2. refcnt[f] >= Cardinality(Users(f)) /\ (NoneBefore => refcnt[f] = Cardinality(Users(f)))
    BY DEF Headers, HeaderOf
  <2>3. refcnt'[f] >= Cardinality(Users(f))' /\ (NoneBefore => refcnt'[f] = Cardinality(Users(f))')
    BY <1>3, <1>4, <1>6, <2>2
  <2> QED
    BY <2>1, <2>3 DEF HeaderOf, NoneBefore
<1>9. ASSUME NEW g \in Files \ {f} PROVE HeaderOf(g)'
  <2>1. HeaderOf(g)
    BY DEF Headers
  <2>2. g \in hdr' <=> g \in hdr
    BY <1>7
  <2>3. Users(g)' = Users(g) /\ refcnt'[g] = refcnt[g] /\ locks'[g] = locks[g]
    BY <1>2, <1>6
  <2> QED
    BY <2>1, <2>2, <2>3 DEF HeaderOf, NoneBefore
<1> QED
  BY <1>6, <1>7, <1>8, <1>9 DEF Headers, LockTypes

\* Nobody comes or leaves, and no list becomes empty or stops being so.
LEMMA StayKeeps ==
    ASSUME Headers, refcnt' = refcnt, hdr' = hdr,
           \A q \in Procs : /\ pc'[q] = "user" <=> pc[q] = "user"
                            /\ pc[q] # "user" => req'[q] = req[q],
           \A f \in Files : locks'[f] = <<>> <=> locks[f] = <<>>
    PROVE  Headers'
<1>1. \A f : Users(f)' = Users(f)
  BY DEF Users
<1>2. ASSUME NEW f \in Files PROVE HeaderOf(f)'
  BY <1>1 DEF Headers, HeaderOf, NoneBefore
<1> QED
  BY <1>2 DEF Headers

-----------------------------------------------------------------------------
(* The actions *)

\* The insrt of blocked is in the list.
LEMMA InsrtIn ==
    ASSUME NEW l \in Seq(Filocks), NEW p, NEW ld
    PROVE  Insrt(l, p, ld) \in 0 .. Len(l)
<1> DEFINE stops == {i \in DOMAIN l : l[i].start >= ld.start \/ Adjoins(p, ld, l[i])}
<1>1. DOMAIN l = 1 .. Len(l) /\ Len(l) \in Nat
  OBVIOUS
<1>2. stops \cup {Len(l) + 1} \in SUBSET Nat /\ stops \cup {Len(l) + 1} # {}
  BY <1>1
<1>3. FirstStop(l, p, ld) \in stops \cup {Len(l) + 1}
  BY <1>2, MinOfNats DEF FirstStop
<1>4. FirstStop(l, p, ld) \in 1 .. Len(l) + 1
  BY <1>1, <1>3
<1> QED
  BY <1>1, <1>4 DEF Insrt

\* A request fits its type.
LEMMA RequestIn ==
    ASSUME NEW f \in Files, NEW t \in {"R", "W", "U"}, NEW g \in Ranges, NEW slp \in SlpFlgs
    PROVE  Request(f, t, g, slp) \in Requests
<1>1. g[1] \in Int /\ g[2] \in Int /\ slp \in BOOLEAN
  BY RecordLockAssumption
<1>2. PICK m \in Nat : m = MaxEnd /\ m > 0
  BY MaxEndAssumption
<1>3. EndOf(g[1], g[2]) \in Int
  <2>1. (g[1] + g[2] + m + 1) \in Int /\ 2 * (m + 1) \in Nat /\ 2 * (m + 1) > 0
    BY <1>1, <1>2
  <2>2. (g[1] + g[2] + m + 1) % (2 * (m + 1)) \in Int
    BY <2>1
  <2> QED
    BY <1>2, <2>2 DEF EndOf
<1> QED
  BY <1>1, <1>3 DEF Request, Requests

\* A call begins.
LEMMA SetflckKeeps ==
    ASSUME LocksInv, NEW p \in Procs, NEW r \in Requests, Setflck(p, r)
    PROVE  LocksInv'
<1>1. /\ pc[p] = "user"
      /\ hdr' = hdr \cup {r.file}
      /\ refcnt' = [refcnt EXCEPT ![r.file] = @ + 1]
      /\ pc' = [pc EXCEPT ![p] = "try"]
      /\ req' = [req EXCEPT ![p] = r]
      /\ locks' = locks /\ reccnt' = reccnt /\ blkpid' = blkpid
  BY DEF Setflck
<1>2. PICK f \in Files : f = r.file
  BY DEF Requests
<1>3. LockTypes'
  <2>1. LockTypes
    BY DEF LocksInv
  <2>2. ASSUME NEW q \in Procs
        PROVE  /\ pc'[q] # "user" => req'[q] \in Requests
               /\ blkpid'[q] # None <=> pc'[q] \in {"asleep", "woken"}
    <3>1. CASE q = p
      BY <1>1, <2>1, <3>1 DEF LockTypes
    <3>2. CASE q # p
      BY <1>1, <2>1, <3>2 DEF LockTypes
    <3> QED
      BY <3>1, <3>2
  <2> QED
    BY <1>1, <1>2, <2>1, <2>2 DEF LockTypes
<1>4. ASSUME NEW q \in Procs PROVE SleepOf(q)'
  <2>1. SleepOf(q) /\ LockTypes
    BY DEF LocksInv
  <2>2. pc'[q] = "asleep" <=> pc[q] = "asleep"
    BY <1>1, <2>1 DEF LockTypes
  <2>3. pc[q] = "asleep" => req'[q] = req[q]
    BY <1>1, <2>1 DEF LockTypes
  <2> QED
    BY <1>1, <2>1, <2>2, <2>3, SleepSame
<1>5. Headers'
  <2>1. Headers /\ LockTypes
    BY DEF LocksInv
  <2>2. Users(f)' = Users(f) \cup {p} /\ p \notin Users(f)
    BY <1>1, <1>2, <2>1 DEF Users, LockTypes
  <2>3. \A g \in Files \ {f} : Users(g)' = Users(g)
    BY <1>1, <1>2, <2>1 DEF Users, LockTypes
  <2>4. Cardinality(Users(f))' = Cardinality(Users(f)) + 1 /\ Cardinality(Users(f)) \in Nat
    BY <2>2, UsersFinite, FS_AddElement
  <2>5. refcnt[f] \in Nat /\ refcnt'[f] = refcnt[f] + 1 /\ refcnt' \in [Files -> Nat]
        /\ \A g \in Files \ {f} : refcnt'[g] = refcnt[g]
    BY <1>1, <1>2, <2>1 DEF Headers
  <2>6. HeaderOf(f)'
    <3>1. refcnt[f] >= Cardinality(Users(f)) /\ (NoneBefore => refcnt[f] = Cardinality(Users(f)))
      BY <2>1 DEF Headers, HeaderOf
    <3>2. refcnt'[f] >= Cardinality(Users(f))' /\ (NoneBefore => refcnt'[f] = Cardinality(Users(f))')
      BY <2>4, <2>5, <3>1
    <3>3. f \in hdr' /\ refcnt'[f] > 0
      BY <1>1, <1>2, <2>5
    <3> QED
      BY <3>2, <3>3 DEF HeaderOf, NoneBefore
  <2>7. ASSUME NEW g \in Files \ {f} PROVE HeaderOf(g)'
    <3>1. HeaderOf(g)
      BY <2>1 DEF Headers
    <3>2. g \in hdr' <=> g \in hdr
      BY <1>1, <1>2
    <3> QED
      BY <1>1, <2>3, <2>5, <3>1, <3>2 DEF HeaderOf, NoneBefore
  <2> QED
    BY <2>5, <2>6, <2>7 DEF Headers
<1>6. Records'
  BY <1>1 DEF LocksInv, Records, RecordsCounted
<1> QED
  BY <1>3, <1>4, <1>5, <1>6 DEF LocksInv

\* Nothing is in the way: the list is changed.
LEMMA SetflckAdjustKeeps ==
    ASSUME LocksInv, NEW p \in Procs, SetflckAdjust(p)
    PROVE  LocksInv'
<1>1. LockTypes /\ (\A q \in Procs : SleepOf(q)) /\ Headers /\ Records
  BY DEF LocksInv
<1>2. PICK r \in Requests : r = req[p]
  BY <1>1 DEF SetflckAdjust, LockTypes
<1>3. PICK f \in Files : f = r.file
  BY DEF Requests
<1>4. PICK l \in Seq(Filocks) : l = locks[f]
  BY <1>1 DEF LockTypes
<1>5. PICK i : i = IF r.type = "U" THEN (IF l = <<>> THEN 0 ELSE 1) ELSE Insrt(l, p, r)
  OBVIOUS
<1>6. PICK a : a = Flckadj(l, i, r, p, Recs - reccnt)
  OBVIOUS
<1>7. /\ pc[p] = "try"
      /\ locks' = [locks EXCEPT ![f] = a.l]
      /\ reccnt' = Recs - a.nfree
      /\ Freefid(f, a.l)
      /\ Finish(p, a.woken)
      /\ blkpid' = blkpid
  BY <1>2, <1>3, <1>4, <1>5, <1>6 DEF SetflckAdjust
<1>8. i \in 0 .. Len(l)
  <2>1. CASE r.type = "U"
    <3>1. Len(l) \in Nat /\ (l # <<>> => Len(l) >= 1)
      BY EmptySeq
    <3> QED
      BY <1>5, <2>1, <3>1
  <2>2. CASE r.type # "U"
    BY <1>5, <2>2, InsrtIn
  <2> QED
    BY <2>1, <2>2
<1>9. Recs - reccnt \in Nat
  BY <1>1, RecordsNat
<1>10. ASSUME NEW q, NEW L, q \in L.slp => L.wakeflg, Fate(locks[f], {}, q, L)
       PROVE  Changed(a, locks[f], Recs - reccnt, q, L)
  BY <1>4, <1>6, <1>8, <1>9, <1>10, FlckadjKeeps
<1>11. hdr' \subseteq Files
  BY <1>1, <1>7 DEF Freefid, LockTypes
<1>12. LockTypes' /\ (\A q \in Procs : SleepOf(q))' /\ Records'
  BY <1>1, <1>7, <1>10, <1>11, RewriteKeeps
<1>13. Headers'
  <2>1. /\ pc'[p] = "user"
        /\ \A q \in Procs \ {p} :
              /\ req'[q] = req[q]
              /\ pc'[q] = IF q \in a.woken /\ pc[q] = "asleep" THEN "woken" ELSE pc[q]
    BY <1>1, <1>7, FinishFacts
  <2>2. \A q \in Procs \ {p} : pc'[q] = "user" <=> pc[q] = "user"
    BY <2>1
  <2>3. locks'[f] = a.l /\ \A g \in Files \ {f} : locks'[g] = locks[g]
    BY <1>1, <1>7 DEF LockTypes
  <2> QED
    BY <1>1, <1>2, <1>3, <1>7, <2>1, <2>2, <2>3, LeaveKeeps
<1> QED
  BY <1>12, <1>13 DEF LocksInv

\* A call ends without a change of the locks, of p in the middle of its request or
\* back from its sleep.
LEMMA LeaveUnchanged ==
    ASSUME LocksInv, NEW p \in Procs, pc[p] \in {"try", "woken"},
           locks' = locks, Freefid(req[p].file, locks[req[p].file]), Finish(p, {})
    PROVE  /\ (\A q \in Procs : SleepOf(q))' /\ Headers' /\ hdr' \subseteq Files
           /\ pc' \in [Procs -> {"user", "try", "asleep", "woken"}]
           /\ req' \in [Procs -> Requests \cup {None}]
           /\ pc'[p] = "user"
           /\ \A q \in Procs \ {p} : req'[q] = req[q] /\ pc'[q] = pc[q]
<1>1. LockTypes /\ (\A q \in Procs : SleepOf(q)) /\ Headers
  BY DEF LocksInv
<1>2. PICK f \in Files : f = req[p].file
  BY <1>1 DEF LockTypes, Requests
<1>3. /\ pc' \in [Procs -> {"user", "try", "asleep", "woken"}]
      /\ req' \in [Procs -> Requests \cup {None}]
      /\ pc'[p] = "user"
      /\ \A q \in Procs \ {p} : req'[q] = req[q] /\ pc'[q] = pc[q]
  BY <1>1, FinishFacts
<1>4. Headers' /\ hdr' \subseteq Files
  BY <1>1, <1>2, <1>3, LeaveKeeps
<1>5. ASSUME NEW q \in Procs PROVE SleepOf(q)'
  <2>1. (pc'[q] = "asleep" <=> pc[q] = "asleep") /\ (pc[q] = "asleep" => req'[q] = req[q])
    BY <1>3
  <2> QED
    BY <1>1, <2>1, SleepSame
<1> QED
  BY <1>3, <1>4, <1>5

\* A lock is in the way, and p does not wait for it.
LEMMA SetflckFailKeeps ==
    ASSUME LocksInv, NEW p \in Procs, SetflckFail(p)
    PROVE  LocksInv'
<1>1. /\ pc[p] = "try" /\ Freefid(req[p].file, locks[req[p].file]) /\ Finish(p, {})
      /\ locks' = locks /\ reccnt' = reccnt /\ blkpid' = blkpid
  BY DEF SetflckFail
<1>2. /\ (\A q \in Procs : SleepOf(q))' /\ Headers' /\ hdr' \subseteq Files
      /\ pc' \in [Procs -> {"user", "try", "asleep", "woken"}]
      /\ req' \in [Procs -> Requests \cup {None}]
      /\ pc'[p] = "user"
      /\ \A q \in Procs \ {p} : req'[q] = req[q] /\ pc'[q] = pc[q]
  BY <1>1, LeaveUnchanged
<1>3. LockTypes'
  <2>1. LockTypes
    BY DEF LocksInv
  <2>2. ASSUME NEW q \in Procs
        PROVE  /\ pc'[q] # "user" => req'[q] \in Requests
               /\ blkpid'[q] # None <=> pc'[q] \in {"asleep", "woken"}
    <3>1. CASE q = p
      BY <1>1, <1>2, <2>1, <3>1 DEF LockTypes
    <3>2. CASE q # p
      BY <1>1, <1>2, <2>1, <3>2 DEF LockTypes
    <3> QED
      BY <3>1, <3>2
  <2> QED
    BY <1>1, <1>2, <2>1, <2>2 DEF LockTypes
<1>4. Records'
  BY <1>1 DEF LocksInv, Records, RecordsCounted
<1> QED
  BY <1>2, <1>3, <1>4 DEF LocksInv

\* An entry of sleeplcks is dropped, and its lock record is free again.
LEMMA DropEntry ==
    ASSUME LocksInv, NEW p \in Procs, pc[p] = "woken", locks' = locks,
           blkpid' = [blkpid EXCEPT ![p] = None], reccnt' = reccnt - 1
    PROVE  Records' /\ blkpid' \in [Procs -> Procs \cup {None}]
<1>1. LockTypes /\ Records
  BY DEF LocksInv
<1>2. blkpid[p] # None /\ blkpid' \in [Procs -> Procs \cup {None}]
  BY <1>1 DEF LockTypes
<1>3. Entries' = Entries \ {p} /\ p \in Entries
  BY <1>1, <1>2 DEF Entries, LockTypes
<1>4. /\ reccnt \in Nat /\ reccnt = Cardinality(Slots(locks)) + Cardinality(Entries)
      /\ Cardinality(Slots(locks)) \in Nat /\ Cardinality(Entries) \in Nat
      /\ IsFiniteSet(Entries)
  BY <1>1, RecordsNat
<1>5. Cardinality(Entries') = Cardinality(Entries) - 1
  BY <1>3, <1>4, FS_RemoveElement
<1>6. reccnt' = Cardinality(Slots(locks)) + Cardinality(Entries')
  BY <1>4, <1>5
<1>7. RecordsCounted'
  BY <1>6 DEF RecordsCounted, Slots, Entries
<1>8. reccnt' <= Recs
  BY <1>1, <1>4, RecordLockAssumption DEF Records
<1> QED
  BY <1>2, <1>7, <1>8 DEF Records

\* A signal ends the call of p.
LEMMA SetflckIntrKeeps ==
    ASSUME LocksInv, NEW p \in Procs, SetflckIntr(p)
    PROVE  LocksInv'
<1>1. /\ pc[p] = "woken" /\ Freefid(req[p].file, locks[req[p].file]) /\ Finish(p, {})
      /\ locks' = locks /\ reccnt' = reccnt - 1 /\ blkpid' = [blkpid EXCEPT ![p] = None]
  BY DEF SetflckIntr
<1>2. /\ (\A q \in Procs : SleepOf(q))' /\ Headers' /\ hdr' \subseteq Files
      /\ pc' \in [Procs -> {"user", "try", "asleep", "woken"}]
      /\ req' \in [Procs -> Requests \cup {None}]
      /\ pc'[p] = "user"
      /\ \A q \in Procs \ {p} : req'[q] = req[q] /\ pc'[q] = pc[q]
  BY <1>1, LeaveUnchanged
<1>3. Records' /\ blkpid' \in [Procs -> Procs \cup {None}]
  BY <1>1, DropEntry
<1>4. LockTypes'
  <2>1. LockTypes
    BY DEF LocksInv
  <2>2. ASSUME NEW q \in Procs
        PROVE  /\ pc'[q] # "user" => req'[q] \in Requests
               /\ blkpid'[q] # None <=> pc'[q] \in {"asleep", "woken"}
    <3>1. CASE q = p
      BY <1>1, <1>2, <2>1, <3>1 DEF LockTypes
    <3>2. CASE q # p
      BY <1>1, <1>2, <2>1, <3>2 DEF LockTypes
    <3> QED
      BY <3>1, <3>2
  <2> QED
    BY <1>1, <1>2, <1>3, <2>1, <2>2 DEF LockTypes
<1> QED
  BY <1>2, <1>3, <1>4 DEF LocksInv

\* p tries again.
LEMMA SetflckAgainKeeps ==
    ASSUME LocksInv, NEW p \in Procs, SetflckAgain(p)
    PROVE  LocksInv'
<1>1. /\ pc[p] = "woken" /\ pc' = [pc EXCEPT ![p] = "try"] /\ req' = req
      /\ locks' = locks /\ reccnt' = reccnt - 1 /\ blkpid' = [blkpid EXCEPT ![p] = None]
      /\ hdr' = hdr /\ refcnt' = refcnt
  BY DEF SetflckAgain
<1>2. LockTypes /\ (\A q \in Procs : SleepOf(q)) /\ Headers
  BY DEF LocksInv
<1>3. Records' /\ blkpid' \in [Procs -> Procs \cup {None}]
  BY <1>1, DropEntry
<1>4. pc'[p] = "try" /\ \A q \in Procs \ {p} : pc'[q] = pc[q]
  BY <1>1, <1>2 DEF LockTypes
<1>5. LockTypes'
  <2>1. ASSUME NEW q \in Procs
        PROVE  /\ pc'[q] # "user" => req'[q] \in Requests
               /\ blkpid'[q] # None <=> pc'[q] \in {"asleep", "woken"}
    <3>1. CASE q = p
      BY <1>1, <1>2, <1>4, <3>1 DEF LockTypes
    <3>2. CASE q # p
      BY <1>1, <1>2, <1>4, <3>2 DEF LockTypes
    <3> QED
      BY <3>1, <3>2
  <2> QED
    BY <1>1, <1>2, <1>3, <2>1 DEF LockTypes
<1>6. ASSUME NEW q \in Procs PROVE SleepOf(q)'
  <2>1. (pc'[q] = "asleep" <=> pc[q] = "asleep") /\ req'[q] = req[q]
    BY <1>1, <1>4
  <2> QED
    BY <1>1, <1>2, <2>1, SleepSame
<1>7. Headers'
  <2>1. \A q \in Procs : pc'[q] = "user" <=> pc[q] = "user"
    BY <1>1, <1>4
  <2> QED
    BY <1>1, <1>2, <2>1, StayKeeps
<1> QED
  BY <1>3, <1>5, <1>6, <1>7 DEF LocksInv

\* p sleeps on the lock in its way.
LEMMA SetflckSleepKeeps ==
    ASSUME LocksInv, NEW p \in Procs, SetflckSleep(p)
    PROVE  LocksInv'
<1>1. LockTypes /\ (\A q \in Procs : SleepOf(q)) /\ Headers /\ Records
  BY DEF LocksInv
<1>2. pc[p] = "try" /\ Found(p) # 0
  BY DEF SetflckSleep
<1>3. PICK r \in Requests : r = req[p]
  BY <1>1, <1>2 DEF LockTypes
<1>4. PICK f \in Files : f = r.file
  BY DEF Requests
<1>5. PICK l \in Seq(Filocks) : l = locks[f]
  BY <1>1 DEF LockTypes
<1>6. PICK i : i = Found(p)
  OBVIOUS
<1>7. i \in 1 .. Len(l) /\ InTheWay(p, r, l[i])
  <2>1. i = Blocked(l, p, r)
    BY <1>2, <1>3, <1>4, <1>5, <1>6 DEF Found
  <2>2. i \in DOMAIN l /\ InTheWay(p, r, l[i])
    BY <1>2, <1>6, <2>1, BlockedIsInTheWay
  <2> QED
    BY <2>2
<1>8. PICK x \in Filocks : x = l[i]
  BY <1>7
<1>9. PICK y : y = [x EXCEPT !.wakeflg = TRUE, !.slp = @ \cup {p}]
  OBVIOUS
<1>10. /\ y \in Filocks /\ y.wakeflg /\ y.slp = x.slp \cup {p}
       /\ y.pid = x.pid /\ y.type = x.type /\ y.start = x.start /\ y.end = x.end
  BY <1>9 DEF Filocks
<1>11. PICK m : m = [l EXCEPT ![i] = y]
  OBVIOUS
<1>12. /\ m \in Seq(Filocks) /\ Len(m) = Len(l) /\ DOMAIN m = DOMAIN l
       /\ m[i] = y /\ \A j \in DOMAIN l : j # i => m[j] = l[j]
  <2>1. /\ m \in Seq(Filocks) /\ Len(m) = Len(l)
        /\ \A j \in 1 .. Len(l) : m[j] = IF j = i THEN y ELSE l[j]
    BY <1>7, <1>10, <1>11, ExceptSeq
  <2> QED
    BY <1>7, <2>1
<1>13. /\ locks' = [locks EXCEPT ![f] = m]
       /\ blkpid' = [blkpid EXCEPT ![p] = x.pid]
       /\ reccnt < Recs /\ reccnt' = reccnt + 1
       /\ pc' = [pc EXCEPT ![p] = "asleep"]
       /\ hdr' = hdr /\ refcnt' = refcnt /\ req' = req
  <2>1. locks' = [locks EXCEPT ![f][i] = [l[i] EXCEPT !.wakeflg = TRUE, !.slp = @ \cup {p}]]
    BY <1>3, <1>4, <1>5, <1>6 DEF SetflckSleep
  <2>2. locks' = [locks EXCEPT ![f][i] = y]
    BY <1>8, <1>9, <2>1
  <2>3. locks' = [locks EXCEPT ![f] = [@ EXCEPT ![i] = y]]
    BY <2>2
  <2>4. locks' = [locks EXCEPT ![f] = m]
    BY <1>5, <1>11, <2>3
  <2> QED
    BY <1>3, <1>4, <1>5, <1>6, <1>8, <2>4 DEF SetflckSleep
<1>14. /\ locks' \in [Files -> Seq(Filocks)] /\ locks'[f] = m
       /\ \A g \in Files \ {f} : locks'[g] = locks[g]
  BY <1>1, <1>12, <1>13 DEF LockTypes
<1>15. pc'[p] = "asleep" /\ (\A q \in Procs \ {p} : pc'[q] = pc[q])
       /\ pc' \in [Procs -> {"user", "try", "asleep", "woken"}]
  BY <1>1, <1>13 DEF LockTypes
<1>16. x.pid \in Procs /\ x.pid # None
  BY RecordLockAssumption DEF Filocks
<1>17. LockTypes'
  <2>1. blkpid' \in [Procs -> Procs \cup {None}] /\ blkpid'[p] = x.pid
        /\ \A q \in Procs \ {p} : blkpid'[q] = blkpid[q]
    BY <1>1, <1>13, <1>16 DEF LockTypes
  <2>2. ASSUME NEW q \in Procs
        PROVE  /\ pc'[q] # "user" => req'[q] \in Requests
               /\ blkpid'[q] # None <=> pc'[q] \in {"asleep", "woken"}
    <3>1. CASE q = p
      BY <1>3, <1>13, <1>15, <1>16, <2>1, <3>1
    <3>2. CASE q # p
      BY <1>1, <1>13, <1>15, <2>1, <3>2 DEF LockTypes
    <3> QED
      BY <3>1, <3>2
  <2> QED
    BY <1>1, <1>13, <1>14, <1>15, <2>1, <2>2 DEF LockTypes
<1>18. Records'
  <2>1. Entries' = Entries \cup {p} /\ p \notin Entries
    BY <1>1, <1>2, <1>13, <1>16 DEF Entries, LockTypes
  <2>2. /\ reccnt \in Nat /\ reccnt = Cardinality(Slots(locks)) + Cardinality(Entries)
        /\ Cardinality(Slots(locks)) \in Nat /\ Cardinality(Entries) \in Nat
        /\ IsFiniteSet(Entries)
    BY <1>1, RecordsNat
  <2>3. Cardinality(Entries') = Cardinality(Entries) + 1
    BY <2>1, <2>2, FS_AddElement
  <2>4. Cardinality(Slots(locks')) = Cardinality(Slots(locks))
    <3>1. Cardinality(Slots(locks')) = Cardinality(Slots(locks)) - Len(l) + Len(l)
      BY <1>1, <1>5, <1>12, <1>13, SlotsChange DEF LockTypes
    <3>2. Len(l) \in Nat
      OBVIOUS
    <3> QED
      BY <2>2, <3>1, <3>2
  <2>5. reccnt' = Cardinality(Slots(locks')) + Cardinality(Entries')
    BY <1>13, <2>2, <2>3, <2>4
  <2>6. RecordsCounted'
    BY <2>5 DEF RecordsCounted, Slots, Entries
  <2>7. reccnt' <= Recs
    BY <1>13, <2>2, RecordLockAssumption
  <2> QED
    BY <2>6, <2>7 DEF Records
<1>19. SleepOf(p)'
  <2>1. \A g \in Files : NotSleptFor(locks[g], p)
    BY <1>1, <1>2 DEF SleepOf
  <2>2. SleptForIs(m, p, y)
    <3>1. \A j \in DOMAIN m : p \in m[j].slp => j = i
      BY <1>5, <1>12, <2>1 DEF NotSleptFor
    <3> QED
      BY <1>7, <1>12, <3>1 DEF SleptForIs
  <2>3. p \in y.slp /\ y.wakeflg /\ InTheWay(p, r, y)
    BY <1>7, <1>8, <1>10 DEF InTheWay
  <2>4. \A g \in Files \ {f} : NotSleptFor(locks'[g], p)
    BY <1>14, <2>1
  <2>5. req'[p] = r
    BY <1>3, <1>13
  <2> QED
    BY <1>4, <1>10, <1>14, <1>15, <2>2, <2>3, <2>4, <2>5 DEF SleepOf
<1>20. ASSUME NEW q \in Procs, q # p PROVE SleepOf(q)'
  <2>1. ASSUME NEW g \in Files
        PROVE  /\ DOMAIN locks'[g] = DOMAIN locks[g]
               /\ \A j \in DOMAIN locks[g] : Alike(q, locks[g][j], locks'[g][j])
    <3>1. CASE g = f
      <4>1. ASSUME NEW j \in DOMAIN l PROVE Alike(q, l[j], m[j])
        <5>1. CASE j = i
          BY <1>8, <1>10, <1>12, <1>20, <5>1 DEF Alike
        <5>2. CASE j # i
          BY <1>12, <5>2 DEF Alike
        <5> QED
          BY <5>1, <5>2
      <4> QED
        BY <1>5, <1>12, <1>14, <3>1, <4>1
    <3>2. CASE g # f
      BY <1>14, <3>2 DEF Alike
    <3> QED
      BY <3>1, <3>2
  <2>2. (pc'[q] = "asleep" <=> pc[q] = "asleep") /\ req'[q] = req[q]
    BY <1>13, <1>15, <1>20
  <2> QED
    BY <1>1, <1>14, <2>1, <2>2, SleepAlike
<1>21. Headers'
  <2>1. \A q \in Procs : (pc'[q] = "user" <=> pc[q] = "user") /\ req'[q] = req[q]
    BY <1>2, <1>13, <1>15
  <2>2. \A g \in Files : locks'[g] = <<>> <=> locks[g] = <<>>
    <3>1. m # <<>> /\ l # <<>>
      BY <1>7, <1>12, EmptySeq
    <3> QED
      BY <1>5, <1>14, <3>1
  <2> QED
    BY <1>1, <1>13, <2>1, <2>2, StayKeeps
<1> QED
  BY <1>17, <1>18, <1>19, <1>20, <1>21 DEF LocksInv

\* A signal takes p off the lock it sleeps for.
LEMMA SignalKeeps ==
    ASSUME LocksInv, NEW p \in Procs, Signal(p)
    PROVE  LocksInv'
<1>1. LockTypes /\ (\A q \in Procs : SleepOf(q)) /\ Headers /\ Records
  BY DEF LocksInv
<1>2. /\ pc[p] = "asleep"
      /\ locks' = [f \in Files |-> [i \in DOMAIN locks[f] |->
                      [locks[f][i] EXCEPT !.slp = @ \ {p}]]]
      /\ pc' = [pc EXCEPT ![p] = "woken"]
      /\ hdr' = hdr /\ refcnt' = refcnt /\ reccnt' = reccnt /\ blkpid' = blkpid /\ req' = req
  BY DEF Signal
<1>3. ASSUME NEW f \in Files
      PROVE  /\ locks'[f] \in Seq(Filocks) /\ DOMAIN locks'[f] = DOMAIN locks[f]
             /\ \A j \in DOMAIN locks[f] :
                   locks'[f][j] = [locks[f][j] EXCEPT !.slp = @ \ {p}]
  <2>1. PICK l \in Seq(Filocks) : l = locks[f]
    BY <1>1 DEF LockTypes
  <2>2. PICK m : m = [i \in DOMAIN l |-> [l[i] EXCEPT !.slp = @ \ {p}]]
    OBVIOUS
  <2>3. locks'[f] = m
    BY <1>2, <2>1, <2>2
  <2>4. Len(l) \in Nat /\ DOMAIN l = 1 .. Len(l) /\ \A i \in DOMAIN l : l[i] \in Filocks
    BY LenProperties
  <2>5. \A x \in Filocks : [x EXCEPT !.slp = @ \ {p}] \in Filocks
    BY DEF Filocks
  <2>6. m \in [1 .. Len(l) -> Filocks]
    BY <2>2, <2>4, <2>5
  <2>7. m \in Seq(Filocks)
    BY <2>4, <2>6, SeqDef
  <2> QED
    BY <2>1, <2>2, <2>3, <2>7
<1>4. locks' \in [Files -> Seq(Filocks)]
  BY <1>2, <1>3
<1>5. pc'[p] = "woken" /\ (\A q \in Procs \ {p} : pc'[q] = pc[q])
      /\ pc' \in [Procs -> {"user", "try", "asleep", "woken"}]
  BY <1>1, <1>2 DEF LockTypes
<1>6. LockTypes'
  <2>1. ASSUME NEW q \in Procs
        PROVE  /\ pc'[q] # "user" => req'[q] \in Requests
               /\ blkpid'[q] # None <=> pc'[q] \in {"asleep", "woken"}
    <3>1. CASE q = p
      BY <1>1, <1>2, <1>5, <3>1 DEF LockTypes
    <3>2. CASE q # p
      BY <1>1, <1>2, <1>5, <3>2 DEF LockTypes
    <3> QED
      BY <3>1, <3>2
  <2> QED
    BY <1>1, <1>2, <1>4, <1>5, <2>1 DEF LockTypes
<1>7. Records'
  <2>1. \A f \in Files : DOMAIN locks'[f] = DOMAIN locks[f]
    BY <1>3
  <2>2. Slots(locks') = Slots(locks) /\ Entries' = Entries
    BY <1>2, <2>1 DEF Slots, Entries
  <2>3. reccnt' = Cardinality(Slots(locks')) + Cardinality(Entries')
    BY <1>1, <1>2, <2>2, RecordsNat
  <2> QED
    BY <1>1, <1>2, <2>3 DEF Records, RecordsCounted, Slots, Entries
<1>8. SleepOf(p)'
  <2>1. ASSUME NEW f \in Files, NEW j \in DOMAIN locks'[f] PROVE p \notin locks'[f][j].slp
    <3>1. j \in DOMAIN locks[f] /\ locks'[f][j] = [locks[f][j] EXCEPT !.slp = @ \ {p}]
      BY <1>3
    <3>2. locks[f][j] \in Filocks
      BY <1>1, <3>1 DEF LockTypes
    <3> QED
      BY <3>1, <3>2 DEF Filocks
  <2> QED
    BY <1>5, <2>1 DEF SleepOf, NotSleptFor
<1>9. ASSUME NEW q \in Procs, q # p PROVE SleepOf(q)'
  <2>1. ASSUME NEW f \in Files, NEW j \in DOMAIN locks[f]
        PROVE  Alike(q, locks[f][j], locks'[f][j])
    <3>1. locks[f][j] \in Filocks
      BY <1>1 DEF LockTypes
    <3>2. locks'[f][j] = [locks[f][j] EXCEPT !.slp = @ \ {p}]
      BY <1>3
    <3> QED
      BY <1>9, <3>1, <3>2 DEF Alike, Filocks
  <2>2. (pc'[q] = "asleep" <=> pc[q] = "asleep") /\ req'[q] = req[q]
    BY <1>2, <1>5, <1>9
  <2>3. \A f \in Files : DOMAIN locks'[f] = DOMAIN locks[f]
    BY <1>3
  <2> QED
    BY <1>1, <1>4, <2>1, <2>2, <2>3, SleepAlike
<1>10. Headers'
  <2>1. \A q \in Procs : (pc'[q] = "user" <=> pc[q] = "user") /\ req'[q] = req[q]
    BY <1>2, <1>5
  <2>2. ASSUME NEW f \in Files PROVE locks'[f] = <<>> <=> locks[f] = <<>>
    <3>1. locks'[f] \in Seq(Filocks) /\ locks[f] \in Seq(Filocks)
          /\ DOMAIN locks'[f] = DOMAIN locks[f]
      BY <1>1, <1>3 DEF LockTypes
    <3> QED
      BY <3>1, EmptySeq, LenProperties
  <2> QED
    BY <1>1, <1>2, <2>1, <2>2, StayKeeps
<1> QED
  BY <1>6, <1>7, <1>8, <1>9, <1>10 DEF LocksInv

\* getflck gives its reference back, unless the request starts before the file.
LEMMA GetflckKeeps ==
    ASSUME LocksInv, NEW p \in Procs, NEW f \in Files, NEW g \in Ranges,
           Getflck(p, f, g[1])
    PROVE  LocksInv'
<1>1. LockTypes /\ (\A q \in Procs : SleepOf(q)) /\ Headers /\ Records
  BY DEF LocksInv
<1>2. /\ locks' = locks /\ reccnt' = reccnt /\ blkpid' = blkpid /\ pc' = pc /\ req' = req
      /\ f \in hdr
  BY DEF Getflck
<1>3. HeaderOf(f) /\ refcnt[f] \in Nat
  BY <1>1 DEF Headers
<1>4. hdr' = hdr /\ Headers'
  <2>1. CASE Convoff(g[1]) = "ok"
    <3>1. ~(refcnt[f] + 1 <= 1 /\ locks[f] = <<>>)
      BY <1>2, <1>3 DEF HeaderOf
    <3>2. hdr' = hdr
      BY <2>1, <3>1 DEF Getflck
    <3>3. (refcnt[f] + 1) - 1 = refcnt[f]
      BY <1>3
    <3>4. refcnt' = refcnt
      BY <1>1, <2>1, <3>3 DEF Getflck, Headers
    <3> QED
      BY <1>1, <1>2, <3>2, <3>4, StayKeeps
  <2>2. CASE Convoff(g[1]) # "ok"
    <3>1. hdr' = hdr /\ refcnt' = [refcnt EXCEPT ![f] = @ + 1]
      BY <2>2 DEF Getflck
    <3>2. g[1] \in Int
      BY RecordLockAssumption
    <3>3. ~NoneBefore
      BY <2>2, <3>2 DEF NoneBefore, Convoff
    <3>4. \A h : Users(h)' = Users(h)
      BY <1>2 DEF Users
    <3>5. refcnt' \in [Files -> Nat] /\ refcnt'[f] = refcnt[f] + 1
          /\ \A h \in Files \ {f} : refcnt'[h] = refcnt[h]
      BY <1>1, <1>3, <3>1 DEF Headers
    <3>6. HeaderOf(f)'
      <4>1. refcnt[f] >= Cardinality(Users(f)) /\ Cardinality(Users(f)) \in Nat
        BY <1>3, UsersFinite DEF HeaderOf
      <4>2. refcnt'[f] >= Cardinality(Users(f)) /\ refcnt'[f] > 0
        BY <1>3, <3>5, <4>1
      <4> QED
        BY <1>2, <3>1, <3>3, <3>4, <4>2 DEF HeaderOf, NoneBefore
    <3>7. ASSUME NEW h \in Files \ {f} PROVE HeaderOf(h)'
      BY <1>1, <1>2, <3>1, <3>4, <3>5 DEF Headers, HeaderOf, NoneBefore
    <3> QED
      BY <3>1, <3>5, <3>6, <3>7 DEF Headers
  <2> QED
    BY <2>1, <2>2
<1>5. LockTypes'
  BY <1>1, <1>2, <1>4 DEF LockTypes
<1>6. ASSUME NEW q \in Procs PROVE SleepOf(q)'
  BY <1>1, <1>2, SleepSame
<1>7. Records'
  BY <1>1, <1>2 DEF Records, RecordsCounted
<1> QED
  BY <1>4, <1>5, <1>6, <1>7 DEF LocksInv

\* A close drops the locks of p on f.
LEMMA CleanlocksKeeps ==
    ASSUME LocksInv, NEW p \in Procs, NEW f \in Files, Cleanlocks(p, f)
    PROVE  LocksInv'
<1>1. LockTypes /\ (\A q \in Procs : SleepOf(q)) /\ Headers /\ Records
  BY DEF LocksInv
<1>2. PICK c : c = Cleaned(locks[f], p, Recs - reccnt)
  OBVIOUS
<1>3. PICK n : n = refcnt[f] + 1
  OBVIOUS
<1>4. /\ pc[p] = "user" /\ f \in hdr
      /\ locks' = [locks EXCEPT ![f] = c.l]
      /\ reccnt' = Recs - c.nfree
      /\ refcnt' = [refcnt EXCEPT ![f] = IF n <= 1 /\ c.l = <<>> THEN 0 ELSE n - 1]
      /\ hdr' = IF n <= 1 /\ c.l = <<>> THEN hdr \ {f} ELSE hdr
      /\ Finish(p, c.woken)
      /\ blkpid' = blkpid
  BY <1>2, <1>3 DEF Cleanlocks
<1>5. locks[f] \in Seq(Filocks) /\ Recs - reccnt \in Nat
  BY <1>1, RecordsNat DEF LockTypes
<1>6. ASSUME NEW q, NEW L, q \in L.slp => L.wakeflg, Fate(locks[f], {}, q, L)
      PROVE  Changed(c, locks[f], Recs - reccnt, q, L)
  BY <1>2, <1>5, <1>6, CleanedKeeps
<1>7. hdr' \subseteq Files
  BY <1>1, <1>4 DEF LockTypes
<1>8. LockTypes' /\ (\A q \in Procs : SleepOf(q))' /\ Records'
  BY <1>1, <1>4, <1>6, <1>7, RewriteKeeps
<1>9. Headers'
  <2>1. /\ pc'[p] = "user"
        /\ \A q \in Procs \ {p} :
              /\ req'[q] = req[q]
              /\ pc'[q] = IF q \in c.woken /\ pc[q] = "asleep" THEN "woken" ELSE pc[q]
    BY <1>1, <1>4, FinishFacts
  <2>2. \A h : Users(h)' = Users(h)
    BY <1>4, <2>1 DEF Users
  <2>3. refcnt[f] \in Nat /\ HeaderOf(f)
    BY <1>1 DEF Headers
  <2>4. (IF n <= 1 /\ c.l = <<>> THEN 0 ELSE n - 1) = refcnt[f]
    BY <1>3, <2>3
  <2>5. refcnt' = refcnt
    BY <1>1, <1>4, <2>4 DEF Headers
  <2>6. locks'[f] = c.l /\ \A h \in Files \ {f} : locks'[h] = locks[h]
    BY <1>1, <1>4 DEF LockTypes
  <2>7. f \in hdr' <=> refcnt'[f] > 0 \/ locks'[f] # <<>>
    BY <1>3, <1>4, <2>3, <2>5, <2>6
  <2>8. HeaderOf(f)'
    BY <2>2, <2>3, <2>5, <2>7 DEF HeaderOf, NoneBefore
  <2>9. ASSUME NEW h \in Files \ {f} PROVE HeaderOf(h)'
    <3>1. HeaderOf(h) /\ (h \in hdr' <=> h \in hdr)
      BY <1>1, <1>4 DEF Headers
    <3> QED
      BY <2>2, <2>5, <2>6, <3>1 DEF HeaderOf, NoneBefore
  <2> QED
    BY <1>1, <2>5, <2>8, <2>9 DEF Headers
<1> QED
  BY <1>8, <1>9 DEF LocksInv

-----------------------------------------------------------------------------
(* The theorems *)

\* At first there are no locks, no headers and no calls.
LEMMA LocksInitially == Init => LocksInv
<1> SUFFICES ASSUME Init PROVE LocksInv
  OBVIOUS
<1> USE DEF Init
<1>1. LockTypes
  <2>1. <<>> \in Seq(Filocks)
    BY EmptySeq
  <2> QED
    BY <2>1 DEF LockTypes
<1>2. \A q \in Procs : SleepOf(q)
  BY DEF SleepOf, NotSleptFor
<1>3. Headers
  <2>1. \A f : Users(f) = {}
    BY DEF Users
  <2>2. \A f : Cardinality(Users(f)) = 0
    BY <2>1, FS_EmptySet
  <2>3. ASSUME NEW f \in Files PROVE HeaderOf(f)
    BY <2>2 DEF HeaderOf
  <2> QED
    BY <2>3 DEF Headers
<1>4. Records
  <2>1. Slots(locks) = {} /\ Entries = {}
    BY DEF Slots, Entries
  <2>2. reccnt = Cardinality(Slots(locks)) + Cardinality(Entries)
    <3>1. Cardinality(Slots(locks)) = 0 /\ Cardinality(Entries) = 0
      BY <2>1, FS_EmptySet
    <3> QED
      BY <3>1
  <2> QED
    BY <2>2, RecordLockAssumption DEF Records, RecordsCounted, Slots, Entries
<1> QED
  BY <1>1, <1>2, <1>3, <1>4 DEF LocksInv

\* Each step keeps the invariant.
LEMMA LocksKept == LocksInv /\ [Next]_vars => LocksInv'
<1> SUFFICES ASSUME LocksInv, [Next]_vars PROVE LocksInv'
  OBVIOUS
<1>1. ASSUME UNCHANGED <<locks, hdr, refcnt, reccnt, blkpid, pc, req>> PROVE LocksInv'
  <2>1. LockTypes' /\ Records'
    BY <1>1 DEF LocksInv, LockTypes, Records, RecordsCounted
  <2>2. ASSUME NEW q \in Procs PROVE SleepOf(q)'
    BY <1>1, SleepSame DEF LocksInv
  <2>3. Headers'
    BY <1>1, StayKeeps DEF LocksInv
  <2> QED
    BY <2>1, <2>2, <2>3 DEF LocksInv
<1>2. ASSUME NEW p \in Procs, NEW r \in Requests, SetflckRefuse(p, r) PROVE LocksInv'
  BY <1>1, <1>2 DEF SetflckRefuse
<1>3. ASSUME NEW p \in Procs, Call(p) PROVE LocksInv'
  <2>1. PICK f \in Files :
           \/ \E t \in {"R", "W", "U"}, g \in Ranges, slp \in SlpFlgs :
                 SetflckRefuse(p, Request(f, t, g, slp)) \/ Setflck(p, Request(f, t, g, slp))
           \/ \E g \in Ranges : Getflck(p, f, g[1])
           \/ Cleanlocks(p, f)
    BY <1>3 DEF Call
  <2>2. ASSUME NEW t \in {"R", "W", "U"}, NEW g \in Ranges, NEW slp \in SlpFlgs,
               SetflckRefuse(p, Request(f, t, g, slp)) \/ Setflck(p, Request(f, t, g, slp))
        PROVE  LocksInv'
    BY <1>2, <2>2, RequestIn, SetflckKeeps
  <2> QED
    BY <2>1, <2>2, GetflckKeeps, CleanlocksKeeps
<1>4. ASSUME NEW p \in Procs, Inside(p) PROVE LocksInv'
  BY <1>4, SetflckAdjustKeeps, SetflckFailKeeps, SetflckSleepKeeps, SetflckAgainKeeps,
     SetflckIntrKeeps DEF Inside
<1>5. ASSUME NEW p \in Procs, Signal(p) PROVE LocksInv'
  BY <1>5, SignalKeeps
<1>6. CASE UNCHANGED vars
  BY <1>1, <1>6 DEF vars
<1> QED
  BY <1>3, <1>4, <1>5, <1>6 DEF Next

\* For any number of processes, files and lock records, and whatever they lock,
\* wait for, cut, merge, sever and close, the invariant of the tables of
\* os/flock.c holds.
THEOREM LocksInvariant == Spec => []LocksInv
BY LocksInitially, LocksKept, PTL DEF Spec

\* No lock record of flock.c is leaked or freed twice: reccnt (flock.c:130, 172)
\* counts those in the lists of the files and in sleeplcks.
THEOREM RecordsKept == Spec => []RecordsCounted
<1>1. LocksInv => RecordsCounted
  BY DEF LocksInv, Records
<1> QED
  BY <1>1, LocksInvariant, PTL

\* Nobody sleeps in setflck (flock.c:557) for a lock that is gone or no longer in
\* its way: whatever flckadj and cleanlocks do to a lock wakes those who sleep
\* for it.
THEOREM LockWakeupsKept == Spec => []NoLostWakeup
<1>1. LocksInv => NoLostWakeup
  <2> SUFFICES ASSUME LocksInv, NEW p \in Procs
               PROVE  IF pc[p] = "asleep"
                        THEN /\ Cardinality(SleptFor(p)) = 1
                             /\ \A x \in SleptFor(p) :
                                   LET f == locks[x[1]][x[2]]
                                   IN  /\ x[1] = req[p].file
                                       /\ f.wakeflg
                                       /\ InTheWay(p, req[p], f)
                        ELSE SleptFor(p) = {}
    BY DEF NoLostWakeup
  <2>1. LockTypes /\ SleepOf(p)
    BY DEF LocksInv
  <2>2. CASE pc[p] # "asleep"
    BY <2>1, <2>2 DEF SleepOf, NotSleptFor, SleptFor
  <2>3. CASE pc[p] = "asleep"
    <3>1. PICK h \in Files : h = req[p].file
      BY <2>1, <2>3 DEF LockTypes, Requests
    <3>2. PICK L \in Filocks : /\ p \in L.slp /\ L.wakeflg /\ InTheWay(p, req[p], L)
                               /\ SleptForIs(locks[h], p, L)
                               /\ \A f \in Files \ {h} : NotSleptFor(locks[f], p)
      BY <2>1, <2>3, <3>1 DEF SleepOf
    <3>3. PICK i \in DOMAIN locks[h] : /\ locks[h][i] = L
                                       /\ \A j \in DOMAIN locks[h] :
                                             p \in locks[h][j].slp => j = i
      BY <3>2 DEF SleptForIs
    <3>4. SleptFor(p) = {<<h, i>>}
      BY <3>1, <3>2, <3>3 DEF SleptFor, NotSleptFor
    <3>5. Cardinality(SleptFor(p)) = 1
      BY <3>4, FS_Singleton
    <3> QED
      BY <2>3, <3>1, <3>2, <3>3, <3>4, <3>5
  <2> QED
    BY <2>2, <2>3
<1> QED
  BY <1>1, LocksInvariant, PTL

\* The header of a file (struct flino) is there as long as somebody is in a call
\* for it: no process comes back from its sleep to a header that has been given
\* to another file.
HeaderThere == \A p \in Procs : pc[p] # "user" => req[p].file \in hdr

\* Nobody's header goes away, whatever getflck leaks.
THEOREM HeaderStays == Spec => []HeaderThere
<1>1. LocksInv => HeaderThere
  <2> SUFFICES ASSUME LocksInv, NEW p \in Procs, pc[p] # "user" PROVE req[p].file \in hdr
    BY DEF HeaderThere
  <2>1. PICK f \in Files : f = req[p].file
    BY DEF LocksInv, LockTypes, Requests
  <2>2. p \in Users(f)
    BY <2>1 DEF Users
  <2>3. Cardinality(Users(f)) # 0 /\ Cardinality(Users(f)) \in Nat
    BY <2>2, UsersFinite, FS_EmptySet
  <2>4. HeaderOf(f) /\ refcnt[f] \in Nat
    BY DEF LocksInv, Headers
  <2> QED
    BY <2>1, <2>3, <2>4 DEF HeaderOf
<1> QED
  BY <1>1, LocksInvariant, PTL

\* If no request starts before its file, fl_refcnt is the number of processes that
\* use the header, as flock.h says, and no header is lost.  With such a request
\* getflck leaks a reference (flock.c:486), and the count is too high.
THEOREM HeadersCounted == NoneBefore => (Spec => []RefcntExact)
<1>1. ASSUME NoneBefore PROVE LocksInv => RefcntExact
  <2> SUFFICES ASSUME LocksInv, NEW f \in Files
               PROVE  /\ refcnt[f] = Cardinality({p \in Procs : pc[p] # "user" /\ req[p].file = f})
                      /\ f \in hdr <=> refcnt[f] > 0 \/ locks[f] # <<>>
    BY DEF RefcntExact
  <2>1. HeaderOf(f)
    BY DEF LocksInv, Headers
  <2> QED
    BY <1>1, <2>1 DEF HeaderOf, Users
<1>2. ASSUME NoneBefore PROVE Spec => []RefcntExact
  <2>1. LocksInv => RefcntExact
    BY <1>1, <1>2
  <2> QED
    BY <2>1, LocksInvariant, PTL
<1> QED
  BY <1>2
=============================================================================
