---------------------------- MODULE PagingProofs ----------------------------
(***************************************************************************)
(* Proofs about Paging, for any number of processes, daemons, regions,     *)
(* frames and pages of swap.                                               *)
(***************************************************************************)
EXTENDS Paging, ListsAndLoops, FunctionTheorems

\* Regions that are shared are locked in core (SHM_LOCK) and filled with zeros at first.
LockedShm == \A k \in Kinds : k.kind = "shared" => k.noswap /\ k.dbd = "DZERO"

-----------------------------------------------------------------------------
(* The values of the variables *)

\* Where a process has its region locked, and where it does not.
LockedPCs == {"cow", "hash", "window", "swapin", "file"}
FreePCs == {"idle", "user", "vfault", "pfault", "mem", "relock"}

Wants == {"zero", "page", "copy"}

Vals == Values \cup {Zero, FileVal, Junk}

Pages == [use : Int, hash : Blocks \cup {Null}, done : BOOLEAN, mod : BOOLEAN, val : Vals]

Rgns == [kind : {"unused", "private", "shared"}, refs : Int, noswap : BOOLEAN, lock : BOOLEAN,
         v : BOOLEAN, pfn : Frames \cup {Null}, cw : BOOLEAN, prot : {"UW", "UR", "KW"},
         pin : BOOLEAN, dbd : Blocks \cup {"NONE", "DZERO"}]

Spots == [pc : LockedPCs \cup FreePCs \cup {"swapout"}, for : Wants \cup {"none"}, got : Nat,
          on : Frames \cup Regions \cup {Null}, inP : BOOLEAN]


-----------------------------------------------------------------------------
(* Sets *)

Bit(b) == IF b THEN 1 ELSE 0

\* Sets that differ in one element at most.
LEMMA OneDiffers ==
    ASSUME NEW S, NEW T, NEW x, IsFiniteSet(S), \A y : y # x => (y \in S <=> y \in T)
    PROVE  /\ IsFiniteSet(T) /\ Cardinality(S) \in Nat /\ Cardinality(T) \in Nat
           /\ Cardinality(T) = Cardinality(S) + Bit(x \in T) - Bit(x \in S)
<1> PICK R : R = S \ {x}
  OBVIOUS
<1>1. /\ IsFiniteSet(R) /\ Cardinality(S) \in Nat /\ Cardinality(R) \in Nat
      /\ Cardinality(R) = Cardinality(S) - Bit(x \in S)
  <2>1. IsFiniteSet(R) /\ Cardinality(R) = IF x \in S THEN Cardinality(S) - 1 ELSE Cardinality(S)
    BY FS_RemoveElement
  <2>2. Cardinality(S) \in Nat /\ Cardinality(R) \in Nat
    BY <2>1, FS_CardinalityType
  <2> QED
    BY <2>1, <2>2 DEF Bit
<1>2. CASE x \in T
  <2>1. T = R \cup {x} /\ x \notin R
    BY <1>2
  <2>2. IsFiniteSet(T) /\ Cardinality(T) = Cardinality(R) + 1
    BY <1>1, <2>1, FS_AddElement
  <2> QED
    BY <1>1, <1>2, <2>2 DEF Bit
<1>3. CASE x \notin T
  <2>1. T = R
    BY <1>3
  <2> QED
    BY <1>1, <1>3, <2>1 DEF Bit
<1> QED
  BY <1>2, <1>3

\* A list on which nothing is twice is as long as the set of what is on it.
LEMMA ListCounts ==
    ASSUME NEW S, NEW q \in Seq(S), \A i, j \in DOMAIN q : q[i] = q[j] => i = j,
           NEW T, \A x : x \in T <=> \E i \in DOMAIN q : q[i] = x
    PROVE  Len(q) = Cardinality(T)
<1>1. PICK n \in Nat : n = Len(q) /\ DOMAIN q = 1 .. n
  OBVIOUS
<1>2. q \in [1 .. n -> T]
  BY <1>1
<1>3. q \in Bijection(1 .. n, T)
  BY <1>1, <1>2, Fun_IsBij
<1> QED
  BY <1>1, <1>3, FS_CountingElements DEF ExistsBijection

\* Nothing on a list is lost when one of its places is removed.
LEMMA UnqueuedFacts ==
    ASSUME NEW S, NEW q \in Seq(S), \A i, j \in DOMAIN q : q[i] = q[j] => i = j,
           NEW f, \E i \in DOMAIN q : q[i] = f
    PROVE  /\ Unqueued(q, f) \in Seq(S) /\ Len(Unqueued(q, f)) = Len(q) - 1
           /\ \A i, j \in DOMAIN Unqueued(q, f) : Unqueued(q, f)[i] = Unqueued(q, f)[j] => i = j
           /\ \A g : (\E i \in DOMAIN Unqueued(q, f) : Unqueued(q, f)[i] = g)
                     <=> g # f /\ \E i \in DOMAIN q : q[i] = g
<1> PICK n \in Nat : n = Len(q) /\ DOMAIN q = 1 .. n
  OBVIOUS
<1> PICK k : k = CHOOSE i \in DOMAIN q : q[i] = f
  OBVIOUS
<1>1. k \in 1 .. n /\ q[k] = f
  OBVIOUS
<1> PICK u : u = Unqueued(q, f)
  OBVIOUS
<1>2. u = RemoveAt(q, k)
  BY DEF Unqueued
<1>3. /\ u \in Seq(S) /\ Len(u) = n - 1 /\ DOMAIN u = 1 .. n - 1
      /\ \A j \in 1 .. n - 1 : u[j] = IF j < k THEN q[j] ELSE q[j + 1]
  <2>1. /\ RemoveAt(q, k) \in Seq(S) /\ Len(RemoveAt(q, k)) = Len(q) - 1
        /\ \A j \in 1 .. Len(q) - 1 : RemoveAt(q, k)[j] = IF j < k THEN q[j] ELSE q[j + 1]
    <3>1. k \in 1 .. Len(q) /\ q \in Seq(S)
      BY <1>1
    <3> QED
      BY ONLY <3>1, RemoveFacts
  <2> QED
    BY <1>2, <2>1
<1>4. ASSUME NEW i \in 1 .. n - 1, NEW j \in 1 .. n - 1, u[i] = u[j] PROVE i = j
  <2> DEFINE To(x) == IF x < k THEN x ELSE x + 1
  <2>1. To(i) \in 1 .. n /\ u[i] = q[To(i)] /\ To(j) \in 1 .. n /\ u[j] = q[To(j)]
    BY <1>1, <1>3
  <2>2. To(i) = To(j)
    BY <1>4, <2>1
  <2> QED
    BY <1>1, <2>2
<1>5. ASSUME NEW g, NEW i \in 1 .. n - 1, u[i] = g PROVE g # f /\ \E j \in 1 .. n : q[j] = g
  <2>1. CASE i < k
    <3>1. i \in 1 .. n /\ q[i] = g /\ i # k
      BY <1>1, <1>3, <1>5, <2>1
    <3> QED
      BY <1>1, <3>1
  <2>2. CASE ~(i < k)
    <3>1. i + 1 \in 1 .. n /\ q[i + 1] = g /\ i + 1 # k
      BY <1>1, <1>3, <1>5, <2>2
    <3> QED
      BY <1>1, <3>1
  <2> QED
    BY <2>1, <2>2
<1>6. ASSUME NEW g, g # f, NEW j \in 1 .. n, q[j] = g PROVE \E i \in 1 .. n - 1 : u[i] = g
  <2>1. CASE j < k
    <3>1. j \in 1 .. n - 1 /\ u[j] = g
      BY <1>1, <1>3, <1>6, <2>1
    <3> QED
      BY <3>1
  <2>2. CASE j > k
    <3>1. j - 1 \in 1 .. n - 1 /\ ~(j - 1 < k) /\ (j - 1) + 1 = j
      BY <1>1, <2>2
    <3>2. u[j - 1] = q[(j - 1) + 1]
      BY <1>3, <3>1
    <3>3. u[j - 1] = g
      BY <1>6, <3>1, <3>2
    <3> QED
      BY <3>1, <3>3
  <2> QED
    BY <1>1, <1>6, <2>1, <2>2
<1>7. \A i, j \in DOMAIN u : u[i] = u[j] => i = j
  BY <1>3, <1>4
<1>8. \A g : (\E i \in DOMAIN u : u[i] = g) <=> g # f /\ \E i \in DOMAIN q : q[i] = g
  BY <1>3, <1>5, <1>6
<1> QED
  BY <1>3, <1>7, <1>8

-----------------------------------------------------------------------------
(* The tables: what holds of frames, queue and swap counts between two operations *)

Tables == [fr : [Frames -> Pages], q : Seq(Frames), free : Int, u : [SwapBlks -> Int], oops : {"none"}]

InQ(q, f) == \E i \in DOMAIN q : q[i] = f

\* A frame is on the queue, once, iff it is not used; a block is in one frame at most, and a
\* block of swap in none if it is free.
TabsOK(m) ==
    /\ m \in Tables
    /\ \A i, j \in DOMAIN m.q : m.q[i] = m.q[j] => i = j
    /\ \A f \in Frames : m.fr[f].use >= 0 /\ (m.fr[f].use = 0 <=> InQ(m.q, f))
    /\ \A f, g \in Frames : m.fr[f].hash = m.fr[g].hash /\ f # g => m.fr[f].hash = Null
    /\ \A f \in Frames : m.fr[f].hash \in SwapBlks => m.u[m.fr[f].hash] > 0

\* Only data and free have changed.
LEMMA SameTabs ==
    ASSUME NEW m, TabsOK(m), NEW n \in Tables, n.q = m.q, n.u = m.u,
           \A f \in Frames : n.fr[f].use = m.fr[f].use /\ n.fr[f].hash = m.fr[f].hash
    PROVE  TabsOK(n)
BY DEF TabsOK

\* Blocks have been taken from frames, or a page of swap that no frame has is given up.
LEMMA FewerHashed ==
    ASSUME NEW m, TabsOK(m), NEW n \in Tables, n.q = m.q,
           \A f \in Frames : /\ n.fr[f].use = m.fr[f].use
                             /\ \/ n.fr[f].hash = Null
                                \/ /\ n.fr[f].hash = m.fr[f].hash
                                   /\ m.fr[f].hash \in SwapBlks => n.u[m.fr[f].hash] > 0
    PROVE  TabsOK(n)
BY BlocksAssumption DEF TabsOK

\* ptfill takes the frame at the head.
LEMMA TakeFacts ==
    ASSUME NEW m, TabsOK(m), Len(m.q) > 0
    PROVE  /\ Head(m.q) \in Frames /\ m.fr[Head(m.q)].use = 0
           /\ TabsOK(Ptfill(m))
           /\ Ptfill(m).fr = [m.fr EXCEPT ![Head(m.q)] =
                 [use |-> 1, hash |-> Null, done |-> FALSE, mod |-> FALSE, val |-> Junk]]
           /\ Len(Ptfill(m).q) = Len(m.q) - 1
           /\ Ptfill(m).free = m.free /\ Ptfill(m).u = m.u
<1> PICK f, n : f = Head(m.q) /\ n = Ptfill(m)
  OBVIOUS
<1> PICK q : q = m.q
  OBVIOUS
<1>0. /\ m \in Tables /\ q \in Seq(Frames) /\ Len(q) \in Nat /\ Len(q) > 0
      /\ \A i, j \in DOMAIN q : q[i] = q[j] => i = j
  BY DEF TabsOK, Tables
<1>1. /\ Tail(q) \in Seq(Frames) /\ Len(Tail(q)) = Len(q) - 1 /\ f = q[1] /\ f \in Frames
      /\ \A i \in 1 .. Len(q) - 1 : Tail(q)[i] = q[i + 1]
      /\ DOMAIN Tail(q) = 1 .. Len(q) - 1 /\ DOMAIN q = 1 .. Len(q)
  BY <1>0
<1>2. InQ(q, f) /\ m.fr[f].use = 0
  BY <1>0, <1>1 DEF InQ, TabsOK
<1>3. /\ n.fr = [m.fr EXCEPT ![f] =
                   [use |-> 1, hash |-> Null, done |-> FALSE, mod |-> FALSE, val |-> Junk]]
      /\ n.q = Tail(q) /\ n.free = m.free /\ n.u = m.u /\ n \in Tables
  <2>1. [use |-> 1, hash |-> Null, done |-> FALSE, mod |-> FALSE, val |-> Junk] \in Pages
    BY DEF Pages, Vals
  <2> QED
    BY <1>0, <1>1, <2>1 DEF Ptfill, Tables
<1>4. \A g : InQ(n.q, g) <=> InQ(q, g) /\ g # f
  <2>1. ASSUME NEW g, InQ(n.q, g) PROVE InQ(q, g) /\ g # f
    <3>1. PICK i \in 1 .. Len(q) - 1 : q[i + 1] = g
      BY <1>1, <1>3, <2>1 DEF InQ
    <3> QED
      BY <1>0, <1>1, <3>1 DEF InQ
  <2>2. ASSUME NEW g, InQ(q, g), g # f PROVE InQ(n.q, g)
    <3>1. PICK i \in 1 .. Len(q) : q[i] = g /\ i # 1
      BY <1>1, <2>2 DEF InQ
    <3>2. i - 1 \in 1 .. Len(q) - 1 /\ n.q[i - 1] = g
      BY <1>0, <1>1, <1>3, <3>1
    <3> QED
      BY <1>1, <1>3, <3>2 DEF InQ
  <2> QED
    BY <2>1, <2>2
<1>5. TabsOK(n)
  <2>1. \A i, j \in DOMAIN n.q : n.q[i] = n.q[j] => i = j
    <3> SUFFICES ASSUME NEW i \in 1 .. Len(q) - 1, NEW j \in 1 .. Len(q) - 1, n.q[i] = n.q[j]
                 PROVE  i = j
      BY <1>1, <1>3
    <3>1. q[i + 1] = q[j + 1] /\ i + 1 \in 1 .. Len(q) /\ j + 1 \in 1 .. Len(q)
      BY <1>0, <1>1, <1>3
    <3>2. i + 1 = j + 1
      BY <1>0, <1>1, <3>1
    <3> QED
      BY <3>2
  <2>2. \A g \in Frames : n.fr[g] = IF g = f THEN [use |-> 1, hash |-> Null, done |-> FALSE,
                                                   mod |-> FALSE, val |-> Junk] ELSE m.fr[g]
    BY <1>0, <1>3 DEF Tables
  <2>3. \A g \in Frames : n.fr[g].use >= 0 /\ (n.fr[g].use = 0 <=> InQ(n.q, g))
    BY <1>4, <2>2 DEF TabsOK
  <2>4. \A g, h \in Frames : n.fr[g].hash = n.fr[h].hash /\ g # h => n.fr[g].hash = Null
    BY <2>2 DEF TabsOK
  <2>5. \A g \in Frames : n.fr[g].hash \in SwapBlks => n.u[n.fr[g].hash] > 0
    BY <1>3, <2>2, BlocksAssumption DEF TabsOK
  <2> QED
    BY <1>3, <2>1, <2>3, <2>4, <2>5 DEF TabsOK
<1> QED
  BY <1>1, <1>2, <1>3, <1>5

\* A frame put at either end of the queue.
LEMMA QueuedFacts ==
    ASSUME NEW q \in Seq(Frames), NEW f \in Frames, NEW r, r = <<f>> \o q \/ r = Append(q, f),
           ~InQ(q, f), \A i, j \in DOMAIN q : q[i] = q[j] => i = j
    PROVE  /\ r \in Seq(Frames) /\ Len(r) = Len(q) + 1
           /\ \A i, j \in DOMAIN r : r[i] = r[j] => i = j
           /\ \A g : InQ(r, g) <=> InQ(q, g) \/ g = f
<1> PICK n \in Nat : n = Len(q) /\ DOMAIN q = 1 .. n
  OBVIOUS
<1>1. CASE r = Append(q, f)
  <2>1. /\ r \in Seq(Frames) /\ Len(r) = n + 1 /\ DOMAIN r = 1 .. n + 1
        /\ \A i \in 1 .. n : r[i] = q[i]
        /\ r[n + 1] = f
    BY <1>1
  <2>2. \A i \in 1 .. n + 1 : i = n + 1 \/ i \in 1 .. n
    OBVIOUS
  <2>3. \A g : InQ(r, g) <=> InQ(q, g) \/ g = f
    BY <2>1, <2>2 DEF InQ
  <2>4. \A i, j \in 1 .. n + 1 : r[i] = r[j] => i = j
    BY <2>1, <2>2 DEF InQ
  <2> QED
    BY <2>1, <2>3, <2>4
<1>2. CASE r = <<f>> \o q
  <2>1. /\ r \in Seq(Frames) /\ Len(r) = n + 1 /\ DOMAIN r = 1 .. n + 1
        /\ \A i \in 1 .. n : r[i + 1] = q[i]
        /\ r[1] = f
    BY <1>2
  <2>2. \A i \in 1 .. n + 1 : i = 1 \/ (i - 1 \in 1 .. n /\ r[i] = q[i - 1])
    BY <2>1
  <2>3. \A g : InQ(r, g) => InQ(q, g) \/ g = f
    <3> SUFFICES ASSUME NEW g, NEW i \in 1 .. n + 1, r[i] = g, g # f PROVE InQ(q, g)
      BY <2>1 DEF InQ
    <3>1. i - 1 \in 1 .. n /\ q[i - 1] = g
      BY <2>1, <2>2
    <3> QED
      BY <3>1 DEF InQ
  <2>4. \A g : InQ(q, g) \/ g = f => InQ(r, g)
    <3> SUFFICES ASSUME NEW g, InQ(q, g) \/ g = f PROVE \E i \in 1 .. n + 1 : r[i] = g
      BY <2>1 DEF InQ
    <3>1. CASE g = f
      <4>1. 1 \in 1 .. n + 1
        OBVIOUS
      <4> QED
        BY <2>1, <3>1, <4>1
    <3>2. ASSUME NEW i \in 1 .. n, q[i] = g PROVE \E j \in 1 .. n + 1 : r[j] = g
      <4>1. i + 1 \in 1 .. n + 1 /\ r[i + 1] = g
        BY <2>1, <3>2
      <4> QED
        BY <4>1
    <3> QED
      BY <3>1, <3>2 DEF InQ
  <2>5. \A i, j \in 1 .. n + 1 : r[i] = r[j] => i = j
    <3> SUFFICES ASSUME NEW i \in 1 .. n + 1, NEW j \in 1 .. n + 1, r[i] = r[j] PROVE i = j
      OBVIOUS
    <3>0. \A k \in 1 .. n : q[k] # f
      BY DEF InQ
    <3>1. CASE i = 1 \/ j = 1
      BY <2>1, <2>2, <3>0, <3>1
    <3>2. CASE i # 1 /\ j # 1
      <4>1. i - 1 \in 1 .. n /\ j - 1 \in 1 .. n /\ q[i - 1] = q[j - 1]
        BY <2>2, <3>2
      <4>2. i - 1 = j - 1
        BY <4>1
      <4> QED
        BY <4>2
    <3> QED
      BY <3>1, <3>2
  <2> QED
    BY <2>1, <2>3, <2>4, <2>5
<1> QED
  BY <1>1, <1>2

\* One reference to a frame is given back.
Released(m, n, f) ==
    /\ TabsOK(n) /\ Len(n.q) - n.free = Len(m.q) - m.free /\ n.free >= m.free /\ n.u = m.u
    /\ \A g \in Frames : n.fr[g].use = m.fr[g].use - Bit(g = f) /\ n.fr[g].hash = m.fr[g].hash

\* Unuse keeps the queue in step with the use counts.
LEMMA UnuseFacts ==
    ASSUME NEW m, TabsOK(m), NEW f \in Frames, m.fr[f].use > 0, NEW first
    PROVE  Released(m, Unuse(m, f, first), f)
<1> PICK n : n = [m EXCEPT !.fr[f].use = @ - 1]
  OBVIOUS
<1> PICK o : o = Unuse(m, f, first)
  OBVIOUS
<1>0. m \in Tables /\ m.fr \in [Frames -> Pages] /\ m.fr[f] \in Pages /\ m.fr[f].use \in Int
  BY DEF TabsOK, Tables, Pages
<1>1. /\ n \in Tables /\ n.fr = [m.fr EXCEPT ![f].use = @ - 1] /\ n.q = m.q /\ n.free = m.free
      /\ n.u = m.u /\ m.free \in Int /\ m.q \in Seq(Frames) /\ Len(m.q) \in Nat
  <2> PICK fr : fr = [m.fr EXCEPT ![f].use = @ - 1]
    OBVIOUS
  <2>1. fr \in [Frames -> Pages]
    BY <1>0 DEF Pages
  <2>2. n = [m EXCEPT !.fr = fr]
    OBVIOUS
  <2>3. n \in Tables /\ n.fr = fr /\ n.q = m.q /\ n.free = m.free /\ n.u = m.u
    BY ONLY <1>0, <2>1, <2>2 DEF Tables
  <2>4. m.free \in Int /\ m.q \in Seq(Frames)
    BY ONLY <1>0 DEF Tables
  <2>5. Len(m.q) \in Nat
    BY ONLY <2>4
  <2> QED
    BY ONLY <2>3, <2>4, <2>5, fr = [m.fr EXCEPT ![f].use = @ - 1]
<1>2. /\ n.fr[f].use = m.fr[f].use - 1
      /\ \A g \in Frames : /\ n.fr[g].hash = m.fr[g].hash /\ n.fr[g].use \in Int
                           /\ g # f => n.fr[g].use = m.fr[g].use
  BY <1>0, <1>1 DEF Pages
<1>5. \A g \in Frames : n.fr[g].use = m.fr[g].use - Bit(g = f)
  <2>1. \A g \in Frames : m.fr[g].use \in Int
    BY <1>0 DEF Pages
  <2> QED
    BY <1>2, <2>1 DEF Bit
<1>3. CASE n.fr[f].use > 0
  <2>1. o = n
    BY <1>3 DEF Unuse
  <2>2. \A g \in Frames : n.fr[g].use >= 0 /\ (n.fr[g].use = 0 <=> InQ(n.q, g))
    BY <1>0, <1>1, <1>2, <1>3 DEF TabsOK
  <2>3. TabsOK(n)
    BY <1>1, <1>2, <2>2 DEF TabsOK
  <2>4. n.q = m.q /\ n.free >= m.free
    BY <1>1
  <2>5. Len(o.q) - o.free = Len(m.q) - m.free
    BY ONLY <1>1, <2>1
  <2> QED
    BY <1>1, <1>5, <2>1, <2>3, <2>4, <2>5 DEF Released
<1>4. CASE ~(n.fr[f].use > 0)
  <2>0. n.fr[f].use = 0
    BY <1>0, <1>2, <1>4
  <2>1. o = [n EXCEPT !.q = IF first THEN <<f>> \o @ ELSE Append(@, f), !.free = @ + 1]
    BY <1>4 DEF Unuse
  <2> DEFINE q == IF first THEN <<f>> \o n.q ELSE Append(n.q, f)
  <2>2. ~InQ(m.q, f)
    BY <1>0 DEF TabsOK
  <2>3. /\ q \in Seq(Frames) /\ Len(q) = Len(m.q) + 1
        /\ \A i, j \in DOMAIN q : q[i] = q[j] => i = j
        /\ \A g : InQ(q, g) <=> InQ(m.q, g) \/ g = f
    <3>1. q = <<f>> \o m.q \/ q = Append(m.q, f)
      BY <1>1
    <3> HIDE DEF q
    <3>2. \A i, j \in DOMAIN m.q : m.q[i] = m.q[j] => i = j
      BY DEF TabsOK
    <3> QED
      BY <1>1, <2>2, <3>1, <3>2, QueuedFacts
  <2>4. /\ o \in Tables /\ o.fr = n.fr /\ o.q = q /\ o.free = m.free + 1 /\ o.u = m.u
    <3>1. o = [n EXCEPT !.q = q, !.free = @ + 1]
      BY <2>1
    <3>2. n \in Tables /\ q \in Seq(Frames) /\ n.free = m.free /\ n.u = m.u
      BY <1>1, <2>3
    <3> HIDE DEF q
    <3>3. o = [fr |-> n.fr, q |-> q, free |-> n.free + 1, u |-> n.u, oops |-> n.oops]
      BY ONLY <3>1, <3>2 DEF Tables
    <3>4. o \in Tables /\ o.fr = n.fr /\ o.q = q /\ o.free = n.free + 1 /\ o.u = n.u
      BY ONLY <3>2, <3>3 DEF Tables
    <3> QED
      BY <3>2, <3>4
  <2> HIDE DEF q
  <2>5. \A g \in Frames : o.fr[g].use >= 0 /\ (o.fr[g].use = 0 <=> InQ(o.q, g))
    BY <1>0, <1>1, <1>2, <2>0, <2>3, <2>4 DEF TabsOK
  <2>6. TabsOK(o)
    BY <1>2, <2>3, <2>4, <2>5 DEF TabsOK
  <2>7. Len(o.q) - o.free = Len(m.q) - m.free /\ o.free >= m.free
    <3>1. Len(o.q) = Len(m.q) + 1 /\ o.free = m.free + 1 /\ Len(m.q) \in Int /\ m.free \in Int
      BY <1>1, <2>3, <2>4
    <3> QED
      BY ONLY <3>1
  <2> QED
    BY <1>1, <1>5, <2>4, <2>6, <2>7 DEF Released
<1> QED
  BY <1>3, <1>4

\* No block is in two frames after a block that is in none is put in one.
LEMMA PinsertFacts ==
    ASSUME NEW m, TabsOK(m), NEW f \in Frames, NEW b \in Blocks, \A g \in Frames : m.fr[g].hash # b,
           b \in SwapBlks => m.u[b] > 0
    PROVE  /\ TabsOK(Pinsert(m, f, b)) /\ Pinsert(m, f, b).fr = [m.fr EXCEPT ![f].hash = b]
           /\ Pinsert(m, f, b).q = m.q /\ Pinsert(m, f, b).free = m.free
           /\ Pinsert(m, f, b).u = m.u
<1> PICK n : n = Pinsert(m, f, b)
  OBVIOUS
<1>0. m \in Tables /\ m.fr \in [Frames -> Pages] /\ m.fr[f] \in Pages /\ m.oops = "none"
  BY DEF TabsOK, Tables
<1>1. Pfind(m, b) = {}
  BY DEF Pfind
<1>2. /\ n \in Tables /\ n.fr = [m.fr EXCEPT ![f].hash = b] /\ n.q = m.q /\ n.free = m.free
      /\ n.u = m.u
  <2>1. [m.fr EXCEPT ![f].hash = b] \in [Frames -> Pages]
    BY <1>0 DEF Pages
  <2> QED
    BY <1>0, <1>1, <2>1 DEF Pinsert, Tables
<1>3. \A g \in Frames : /\ n.fr[g].use = m.fr[g].use
                        /\ n.fr[g].hash = IF g = f THEN b ELSE m.fr[g].hash
  BY <1>0, <1>2 DEF Pages
<1>4. TabsOK(n)
  BY <1>2, <1>3 DEF TabsOK
<1> QED
  BY <1>2, <1>4

\* A frame taken from its block.
LEMMA PremoveFacts ==
    ASSUME NEW m, TabsOK(m), NEW f \in Frames
    PROVE  /\ TabsOK(Premove(m, f)) /\ Premove(m, f).fr = [m.fr EXCEPT ![f].hash = Null]
           /\ Premove(m, f).q = m.q /\ Premove(m, f).free = m.free /\ Premove(m, f).u = m.u
<1> PICK n : n = Premove(m, f)
  OBVIOUS
<1>0. m \in Tables /\ m.fr \in [Frames -> Pages] /\ m.fr[f] \in Pages
  BY DEF TabsOK, Tables
<1>2. /\ n \in Tables /\ n.fr = [m.fr EXCEPT ![f].hash = Null] /\ n.q = m.q /\ n.free = m.free
      /\ n.u = m.u
  <2>1. [m.fr EXCEPT ![f].hash = Null] \in [Frames -> Pages]
    BY <1>0 DEF Pages
  <2> QED
    BY <1>0, <2>1 DEF Premove, Tables
<1>3. \A g \in Frames : /\ n.fr[g].use = m.fr[g].use
                        /\ n.fr[g].hash = IF g = f THEN Null ELSE m.fr[g].hash
  BY <1>0, <1>2 DEF Pages
<1>4. TabsOK(n)
  <2>1. \A g \in Frames : \/ n.fr[g].hash = Null
                          \/ /\ n.fr[g].hash = m.fr[g].hash
                             /\ m.fr[g].hash \in SwapBlks => n.u[m.fr[g].hash] > 0
    BY <1>2, <1>3 DEF TabsOK
  <2> QED
    BY <1>2, <1>3, <2>1, FewerHashed
<1> QED
  BY <1>2, <1>4

\* The use count of a page of swap, one lower; the page's frame forgets it at 0.
Dropped(m, n, b) ==
    /\ TabsOK(n) /\ n.u = [m.u EXCEPT ![b] = @ - 1] /\ n.q = m.q /\ n.free = m.free
    /\ \A f \in Frames : /\ n.fr[f].use = m.fr[f].use
                         /\ n.fr[f].hash = IF m.fr[f].hash = b /\ m.u[b] = 1 THEN Null
                                           ELSE m.fr[f].hash

\* swfree1 gives one use of a page of swap back; with the last one it leaves its frame.
LEMMA SwfreeFacts ==
    ASSUME NEW m, TabsOK(m), NEW b \in SwapBlks, m.u[b] > 0
    PROVE  /\ Swfree1(m, b).u[b] = 0 => Dropped(m, Pbremove(Swfree1(m, b), b), b)
           /\ Swfree1(m, b).u[b] # 0 => Dropped(m, Swfree1(m, b), b)
           /\ Swfree1(m, b).fr = m.fr /\ Swfree1(m, b).u[b] = m.u[b] - 1
           /\ Swfree1(m, b).oops = m.oops
<1> PICK s, n : s = Swfree1(m, b) /\ n = Pbremove(s, b)
  OBVIOUS
<1>0. /\ m \in Tables /\ m.fr \in [Frames -> Pages] /\ m.u \in [SwapBlks -> Int] /\ m.u[b] \in Int
      /\ \A f \in Frames : m.fr[f] \in Pages
  BY DEF TabsOK, Tables
<1>1. /\ s \in Tables /\ s.fr = m.fr /\ s.q = m.q /\ s.free = m.free /\ s.u = [m.u EXCEPT ![b] = @ - 1]
      /\ s.u[b] = m.u[b] - 1 /\ s.oops = m.oops
  <2> PICK u : u = [m.u EXCEPT ![b] = @ - 1]
    OBVIOUS
  <2>1. s = [m EXCEPT !.u = u]
    BY DEF Swfree1
  <2>2. u \in [SwapBlks -> Int] /\ u[b] = m.u[b] - 1
    BY <1>0
  <2>3. s \in Tables /\ s.fr = m.fr /\ s.q = m.q /\ s.free = m.free /\ s.u = u /\ s.oops = m.oops
    BY <1>0, <2>1, <2>2 DEF Tables
  <2> QED
    BY <2>2, <2>3
<1>2. \A c \in SwapBlks : c # b => s.u[c] = m.u[c]
  BY <1>0, <1>1
<1>3. ASSUME s.u[b] # 0 PROVE Dropped(m, s, b)
  <2>1. \A f \in Frames : m.fr[f].hash \in SwapBlks => s.u[m.fr[f].hash] > 0
    BY <1>0, <1>1, <1>2, <1>3 DEF TabsOK
  <2>2. TabsOK(s)
    BY <1>1, <2>1 DEF TabsOK
  <2> QED
    BY <1>0, <1>1, <1>3, <2>2 DEF Dropped
<1>4. ASSUME s.u[b] = 0 PROVE Dropped(m, n, b)
  <2>1. n.fr = [f \in Frames |-> IF m.fr[f].hash = b THEN [m.fr[f] EXCEPT !.hash = Null] ELSE m.fr[f]]
    BY <1>0, <1>1 DEF Pbremove, Tables
  <2>2. n.fr \in [Frames -> Pages]
    BY <1>0, <2>1 DEF Pages
  <2>3. n \in Tables /\ n.q = m.q /\ n.free = m.free /\ n.u = s.u
    <3>1. n = [s EXCEPT !.fr = n.fr]
      BY <1>1, <2>1 DEF Pbremove, Tables
    <3> QED
      BY <1>1, <2>2, <3>1 DEF Tables
  <2>4. \A f \in Frames : /\ n.fr[f].use = m.fr[f].use
                          /\ n.fr[f].hash = IF m.fr[f].hash = b THEN Null ELSE m.fr[f].hash
    BY <1>0, <2>1 DEF Pages
  <2>5. \A f \in Frames : \/ n.fr[f].hash = Null
                          \/ /\ n.fr[f].hash = m.fr[f].hash
                             /\ m.fr[f].hash \in SwapBlks => n.u[m.fr[f].hash] > 0
    BY <1>2, <2>3, <2>4 DEF TabsOK
  <2>6. TabsOK(n)
    BY <2>3, <2>4, <2>5, FewerHashed
  <2>7. m.u[b] = 1
    BY <1>0, <1>1, <1>4
  <2> QED
    BY <1>1, <2>3, <2>4, <2>6, <2>7 DEF Dropped
<1> QED
  BY <1>1, <1>3, <1>4

\* A page of swap may be given up by one of its users, or there is none.
Drop(m, n, b) ==
    /\ TabsOK(n) /\ Len(n.q) - n.free = Len(m.q) - m.free /\ n.free >= m.free
    /\ n.u = IF b \in SwapBlks THEN [m.u EXCEPT ![b] = @ - 1] ELSE m.u
    /\ \A f \in Frames : \/ n.fr[f].hash = m.fr[f].hash
                         \/ n.fr[f].hash = Null /\ m.fr[f].hash = b /\ b \in SwapBlks /\ m.u[b] = 1

\* pfree gives back the reference of a region to its frame and to its page of swap.
LEMMA PfreeFacts ==
    ASSUME NEW m, TabsOK(m), NEW rp \in Rgns, rp.v => rp.pfn \in Frames /\ m.fr[rp.pfn].use > 0,
           rp.dbd \in SwapBlks => m.u[rp.dbd] > 0
    PROVE  /\ Drop(m, Pfree(m, rp), rp.dbd)
           /\ \A f \in Frames : Pfree(m, rp).fr[f].use = m.fr[f].use - Bit(rp.v /\ f = rp.pfn)
<1> PICK n : n = IF rp.v THEN Unuse(m, rp.pfn, rp.dbd = "NONE") ELSE m
  OBVIOUS
<1> PICK o : o = Pfree(m, rp)
  OBVIOUS
<1>0. /\ m \in Tables /\ m.fr \in [Frames -> Pages] /\ m.free \in Int /\ m.q \in Seq(Frames)
      /\ Len(m.q) \in Nat /\ rp.v \in BOOLEAN /\ \A f \in Frames : m.fr[f].use \in Int
  BY DEF TabsOK, Tables, Rgns, Pages
<1>1. /\ TabsOK(n) /\ Len(n.q) - n.free = Len(m.q) - m.free /\ n.free >= m.free /\ n.u = m.u
      /\ \A f \in Frames : /\ n.fr[f].use = m.fr[f].use - Bit(rp.v /\ f = rp.pfn)
                           /\ n.fr[f].hash = m.fr[f].hash
  <2>1. CASE ~rp.v
    BY <1>0, <2>1 DEF Bit
  <2>2. CASE rp.v
    <3>1. (rp.dbd = "NONE") \in BOOLEAN
      OBVIOUS
    <3> PICK w : w = (rp.dbd = "NONE")
      BY Zenon
    <3>2. n = Unuse(m, rp.pfn, w)
      BY <2>2, <3>1, Zenon
    <3>3. Released(m, Unuse(m, rp.pfn, w), rp.pfn)
      BY <2>2, UnuseFacts
    <3>4. Released(m, n, rp.pfn)
      BY ONLY <3>2, <3>3, Zenon
    <3> QED
      BY <2>2, <3>4 DEF Released, Bit
  <2> QED
    BY <2>1, <2>2
<1>2. CASE rp.dbd \notin SwapBlks
  <2>1. o = n
    BY <1>2 DEF Pfree
  <2> QED
    BY <1>1, <1>2, <2>1 DEF Drop
<1>3. CASE rp.dbd \in SwapBlks
  <2> PICK b : b = rp.dbd
    OBVIOUS
  <2>1. /\ Swfree1(n, b).u[b] = 0 => Dropped(n, Pbremove(Swfree1(n, b), b), b)
        /\ Swfree1(n, b).u[b] # 0 => Dropped(n, Swfree1(n, b), b)
    BY <1>1, <1>3, SwfreeFacts
  <2>2. o = IF Swfree1(n, b).u[b] = 0 THEN Pbremove(Swfree1(n, b), b) ELSE Swfree1(n, b)
    BY <1>3 DEF Pfree
  <2>3. Dropped(n, o, b)
    BY <2>1, <2>2
  <2> QED
    BY <1>1, <1>3, <2>3 DEF Dropped, Drop
<1> QED
  BY <1>2, <1>3

\* The page of a frame is there.
LEMMA DoneFacts ==
    ASSUME NEW m, TabsOK(m), NEW f \in Frames
    PROVE  \E k : /\ k = [m EXCEPT !.fr[f].done = TRUE]
                  /\ TabsOK(k) /\ k.q = m.q /\ k.free = m.free /\ k.u = m.u
                  /\ \A g \in Frames : k.fr[g].use = m.fr[g].use /\ k.fr[g].hash = m.fr[g].hash
<1>0. m \in Tables /\ m.fr \in [Frames -> Pages] /\ m.fr[f] \in Pages
  BY DEF TabsOK, Tables
<1> PICK fr : fr = [m.fr EXCEPT ![f].done = TRUE]
  OBVIOUS
<1>1. /\ fr \in [Frames -> Pages]
      /\ \A g \in Frames : fr[g].use = m.fr[g].use /\ fr[g].hash = m.fr[g].hash
  BY <1>0 DEF Pages
<1> PICK k : k = [m EXCEPT !.fr = fr]
  OBVIOUS
<1>2. k = [m EXCEPT !.fr[f].done = TRUE]
  OBVIOUS
<1>3. k \in Tables /\ k.fr = fr /\ k.q = m.q /\ k.free = m.free /\ k.u = m.u
  BY ONLY <1>0, <1>1, k = [m EXCEPT !.fr = fr] DEF Tables
<1>4. TabsOK(k)
  <2>1. \A g \in Frames : k.fr[g].use = m.fr[g].use /\ k.fr[g].hash = m.fr[g].hash
    BY ONLY <1>1, <1>3
  <2>2. TabsOK(m)
    OBVIOUS
  <2> QED
    BY ONLY <1>3, <2>1, <2>2, SameTabs
<1>5. \A g \in Frames : k.fr[g].use = m.fr[g].use /\ k.fr[g].hash = m.fr[g].hash
  BY ONLY <1>1, <1>3
<1> QED
  BY ONLY <1>2, <1>3, <1>4, <1>5, Zenon

\* memfree gives a frame back, and enters it under its page of swap if it has no block yet.
Memfreed(m, n, rp) ==
    /\ TabsOK(n) /\ Len(n.q) - n.free = Len(m.q) - m.free /\ n.free >= m.free /\ n.u = m.u
    /\ \A f \in Frames :
          /\ n.fr[f].use = m.fr[f].use - Bit(f = rp.pfn)
          /\ \/ n.fr[f].hash = m.fr[f].hash
             \/ m.fr[f].hash = Null /\ n.fr[f].hash = rp.dbd /\ rp.dbd \in SwapBlks

\* The block must not be in another frame then.
LEMMA MemfreeFacts ==
    ASSUME NEW m, TabsOK(m), NEW rp \in Rgns, rp.pfn \in Frames, m.fr[rp.pfn].use > 0,
           rp.dbd \in SwapBlks /\ m.fr[rp.pfn].hash = Null
               => m.u[rp.dbd] > 0 /\ \A f \in Frames : m.fr[f].hash # rp.dbd
    PROVE  Memfreed(m, Memfree(m, rp), rp)
<1> PICK f : f = rp.pfn
  OBVIOUS
<1> PICK b : b = rp.dbd
  OBVIOUS
<1> PICK n : n = Memfree(m, rp)
  OBVIOUS
<1> DEFINE Entered(o) ==
      /\ TabsOK(o) /\ o.q = m.q /\ o.free = m.free /\ o.u = m.u
      /\ \A g \in Frames : /\ o.fr[g].use = m.fr[g].use /\ o.fr[g].use \in Int
                           /\ \/ o.fr[g].hash = m.fr[g].hash
                              \/ m.fr[g].hash = Null /\ o.fr[g].hash = b /\ b \in SwapBlks
<1>0. /\ m \in Tables /\ m.fr \in [Frames -> Pages] /\ m.fr[f] \in Pages /\ f \in Frames
      /\ m.free \in Int /\ \A g \in Frames : m.fr[g].use \in Int
  BY DEF TabsOK, Tables, Pages
<1>1. \E o, w : n = Unuse(o, f, w) /\ Entered(o)
  <2>1. CASE b \in SwapBlks /\ m.fr[f].hash = Null
    <3>1. \E k : /\ n = Unuse(Pinsert(k, f, b), f, FALSE)
                 /\ TabsOK(k) /\ k.q = m.q /\ k.free = m.free /\ k.u = m.u
                 /\ \A g \in Frames : k.fr[g].use = m.fr[g].use /\ k.fr[g].hash = m.fr[g].hash
      <4>1. n = Unuse(Pinsert([m EXCEPT !.fr[f].done = TRUE], f, b), f, FALSE)
        BY <2>1 DEF Memfree
      <4>2. f \in Frames /\ TabsOK(m)
        BY <1>0
      <4>3. PICK k : /\ k = [m EXCEPT !.fr[f].done = TRUE]
                     /\ TabsOK(k) /\ k.q = m.q /\ k.free = m.free /\ k.u = m.u
                     /\ \A g \in Frames : k.fr[g].use = m.fr[g].use /\ k.fr[g].hash = m.fr[g].hash
        BY ONLY <4>2, DoneFacts, Zenon
      <4> QED
        BY ONLY <4>1, <4>3, Zenon
    <3> PICK k : /\ n = Unuse(Pinsert(k, f, b), f, FALSE)
                 /\ TabsOK(k) /\ k.q = m.q /\ k.free = m.free /\ k.u = m.u
                 /\ \A g \in Frames : k.fr[g].use = m.fr[g].use /\ k.fr[g].hash = m.fr[g].hash
      BY <3>1, Zenon
    <3> PICK o : o = Pinsert(k, f, b)
      OBVIOUS
    <3>2. /\ TabsOK(o) /\ o.fr = [k.fr EXCEPT ![f].hash = b]
          /\ o.q = k.q /\ o.free = k.free /\ o.u = k.u
      <4>1. b \in Blocks /\ (\A g \in Frames : k.fr[g].hash # b) /\ k.u[b] > 0
        BY <2>1 DEF Blocks
      <4> QED
        BY <1>0, <4>1, PinsertFacts
    <3>3. k.fr \in [Frames -> Pages]
      BY DEF TabsOK, Tables
    <3>4. \A g \in Frames : /\ o.fr[g].use = k.fr[g].use
                            /\ o.fr[g].hash = IF g = f THEN b ELSE k.fr[g].hash
      BY <1>0, <3>2, <3>3 DEF Pages
    <3>5. Entered(o)
      BY <1>0, <2>1, <3>2, <3>4
    <3> HIDE DEF Entered
    <3>6. n = Unuse(o, f, FALSE)
      BY Zenon
    <3> QED
      BY <3>5, <3>6, Zenon
  <2>2. CASE ~(b \in SwapBlks /\ m.fr[f].hash = Null)
    <3>1. n = Unuse(m, f, FALSE)
      BY <2>2 DEF Memfree
    <3>2. Entered(m)
      BY <1>0
    <3> HIDE DEF Entered
    <3> QED
      BY <3>1, <3>2, Zenon
  <2> QED
    BY <2>1, <2>2
<1>2. PICK o, w : n = Unuse(o, f, w) /\ Entered(o)
  BY <1>1
<1>3. Released(o, n, f)
  <2>1. o.fr[f].use > 0 /\ TabsOK(o) /\ n = Unuse(o, f, w) /\ f \in Frames
    BY <1>0, <1>2
  <2> QED
    BY ONLY <2>1, UnuseFacts, Zenon
<1>5. /\ TabsOK(n) /\ Len(n.q) - n.free = Len(m.q) - m.free /\ n.free >= m.free /\ n.u = m.u
  BY <1>2, <1>3 DEF Released
<1>6. \A g \in Frames : /\ n.fr[g].use = m.fr[g].use - Bit(g = rp.pfn)
                        /\ \/ n.fr[g].hash = m.fr[g].hash
                           \/ m.fr[g].hash = Null /\ n.fr[g].hash = rp.dbd /\ rp.dbd \in SwapBlks
  BY <1>2, <1>3 DEF Released
<1> QED
  BY <1>5, <1>6 DEF Memfreed

\* The only user of a frame takes it away from its block, and gives up the page of swap.
Stolen(m, n, rp) ==
    /\ TabsOK(n) /\ n.q = m.q /\ n.free = m.free
    /\ n.u = IF rp.dbd \in SwapBlks THEN [m.u EXCEPT ![rp.dbd] = @ - 1] ELSE m.u
    /\ \A f \in Frames : /\ n.fr[f].use = m.fr[f].use
                         /\ n.fr[f].hash = IF f = rp.pfn THEN Null ELSE m.fr[f].hash

\* Steal does that.
LEMMA StealFacts ==
    ASSUME NEW m, TabsOK(m), NEW rp \in Rgns, rp.pfn \in Frames,
           rp.dbd \in SwapBlks => m.u[rp.dbd] > 0 /\ m.fr[rp.pfn].hash = rp.dbd
    PROVE  Stolen(m, Steal(m, rp), rp)
<1> PICK f : f = rp.pfn
  OBVIOUS
<1> PICK b : b = rp.dbd
  OBVIOUS
<1> PICK n : n = Steal(m, rp)
  OBVIOUS
<1>0. /\ m \in Tables /\ m.fr \in [Frames -> Pages] /\ m.fr[f] \in Pages /\ f \in Frames
  BY DEF TabsOK, Tables, Pages
<1> PICK o : o = IF m.fr[f].hash # Null THEN Premove(m, f) ELSE m
  OBVIOUS
<1>1. /\ TabsOK(o) /\ o.q = m.q /\ o.free = m.free /\ o.u = m.u
      /\ \A g \in Frames : /\ o.fr[g].use = m.fr[g].use
                           /\ o.fr[g].hash = IF g = f THEN Null ELSE m.fr[g].hash
  <2>1. CASE m.fr[f].hash # Null
    <3>1. /\ TabsOK(o) /\ o.fr = [m.fr EXCEPT ![f].hash = Null]
          /\ o.q = m.q /\ o.free = m.free /\ o.u = m.u
      BY <1>0, <2>1, PremoveFacts
    <3> QED
      BY <1>0, <3>1 DEF Pages
  <2>2. CASE m.fr[f].hash = Null
    BY <2>2
  <2> QED
    BY <2>1, <2>2
<1>2. CASE b \notin SwapBlks
  <2>1. n = o
    BY <1>2 DEF Steal
  <2> QED
    BY <1>1, <1>2, <2>1 DEF Stolen
<1>3. CASE b \in SwapBlks
  <2>1. n = Swfree1(o, b)
    BY <1>3 DEF Steal
  <2>2. n = [o EXCEPT !.u = [o.u EXCEPT ![b] = @ - 1]]
    BY <2>1 DEF Swfree1
  <2>3. \A g \in Frames : o.fr[g].hash # b
    BY <1>0, <1>1, <1>3, BlocksAssumption DEF TabsOK
  <2>4. /\ n \in Tables /\ n.fr = o.fr /\ n.q = o.q /\ n.free = o.free
        /\ n.u = [o.u EXCEPT ![b] = @ - 1]
    <3> PICK u : u = [o.u EXCEPT ![b] = @ - 1]
      OBVIOUS
    <3>1. o \in Tables
      BY <1>1 DEF TabsOK
    <3>2. u \in [SwapBlks -> Int]
      BY <1>3, <3>1 DEF Tables
    <3>3. n = [o EXCEPT !.u = u]
      BY <2>2
    <3>4. n \in Tables /\ n.fr = o.fr /\ n.q = o.q /\ n.free = o.free /\ n.u = u
      BY ONLY <3>1, <3>2, <3>3 DEF Tables
    <3> QED
      BY <3>4
  <2>5. \A g \in Frames : o.fr[g].hash \in SwapBlks => n.u[o.fr[g].hash] > 0
    BY <1>1, <2>3, <2>4 DEF TabsOK, Tables
  <2>6. TabsOK(n)
    <3>1. \A g \in Frames : n.fr[g].use = o.fr[g].use
      BY <2>4
    <3>2. \A g \in Frames : /\ n.fr[g].hash = o.fr[g].hash
                            /\ o.fr[g].hash \in SwapBlks => n.u[o.fr[g].hash] > 0
      BY <2>4, <2>5
    <3> QED
      BY <1>1, <2>4, <3>1, <3>2, FewerHashed
  <2> QED
    BY <1>1, <1>3, <2>4, <2>6 DEF Stolen
<1> QED
  BY <1>2, <1>3

-----------------------------------------------------------------------------
(* The inductive invariant *)

PgTyped ==
    /\ freemem \in Nat /\ disk \in [SwapBlks -> Vals]
    /\ reg \in [Regions -> Rgns] /\ at \in [PgProcs -> Regions \cup {Null}]
    /\ loc \in [PgProcs \cup Daemons -> Spots]

\* Who has region r locked: p in a fault, or d while it takes the page.
Locks(a, r) == \/ a \in PgProcs /\ at[a] = r /\ loc[a].pc \in LockedPCs
               \/ a \in Daemons /\ loc[a].on = r

LocksExact ==
    \A r \in Regions :
        /\ reg[r].lock <=> \E a \in PgProcs \cup Daemons : Locks(a, r)
        /\ \A a, b \in PgProcs \cup Daemons : Locks(a, r) /\ Locks(b, r) => a = b

\* Regions are counted, and a private one belongs to one process.
Attached(r) == {p \in PgProcs : at[p] = r}

RefsExact ==
    /\ \A r \in Regions : reg[r].refs = Cardinality(Attached(r))
    /\ \A p, q \in PgProcs : at[p] \in Regions /\ at[p] = at[q] /\ p # q
                             => reg[at[p]].kind = "shared"

\* What holds of a region, where fr are the frames.
PageOf(rp, fr) ==
    /\ rp.refs = 0 => rp = NoRegion
    /\ rp.refs # 0 => rp.kind # "unused"
    /\ rp.kind = "shared" => rp.noswap /\ ~rp.cw /\ rp.dbd = IF rp.v THEN "NONE" ELSE "DZERO"
    /\ rp.v => /\ rp.pfn \in Frames /\ rp.dbd # "DZERO"
               /\ rp.dbd \in Blocks => fr[rp.pfn].hash = rp.dbd
               /\ rp.dbd = "NONE" => fr[rp.pfn].hash # File

RegOf(r) ==
    /\ PageOf(reg[r], frame)
    /\ reg[r].refs # 0 /\ ~reg[r].v /\ reg[r].dbd = "NONE" => Leaving(r)
    /\ reg[r].prot = Prot(reg[r]) \/ (reg[r].prot = "KW" /\ Entering(r))

\* What holds of a process that is at x, with its region rp.
Asleep(x, why) == x.pc \in {"mem", "relock"} /\ x.for = why

Fault(x, rp, fr) ==
    /\ x.pc # "swapout"
    /\ x.pc = "relock" => x.got = Wanted(x)
    /\ x.pc \notin {"relock", "hash"} => x.got = 0
    /\ x.pc \in {"mem", "relock"} => x.for \in Wants
    /\ x.pc # "idle" /\ (x.pc = "pfault" \/ x.inP) => rp.cw
    /\ x.pc = "cow" => rp.v /\ rp.cw
    /\ x.pc = "hash" => /\ ~rp.v /\ rp.dbd \in Blocks
                        /\ x.on \in Frames /\ fr[x.on].hash = rp.dbd
    /\ x.pc \in {"window", "swapin"} => /\ ~rp.v /\ rp.dbd \in SwapBlks
                                        /\ x.on = rp.pfn /\ rp.pfn \in Frames
                                        /\ fr[rp.pfn].hash = rp.dbd
    /\ x.pc = "file" => rp.v /\ rp.dbd = File /\ x.on = rp.pfn
    /\ Asleep(x, "zero") /\ rp.kind # "shared" => rp.dbd = "DZERO"
    /\ Asleep(x, "page") => ~rp.v /\ rp.dbd \in Blocks
    /\ Asleep(x, "copy") => rp.v /\ rp.cw /\ rp.pin
    /\ x.pc # "idle" /\ rp.kind = "shared" => x.pc \in {"user", "vfault"} \/ Asleep(x, "zero")

ProcOf(p) == /\ loc[p].pc = "idle" <=> at[p] = Null
             /\ Fault(loc[p], reg[at[p]], frame)

\* What holds of a daemon that takes the page of a region.
DaemonOf(d) ==
    LET x == loc[d]
        rp == reg[x.on]
    IN  /\ x.pc \in {"idle", "window", "swapout"}
        /\ x.pc = "idle" <=> x.on = Null
        /\ x.pc # "idle" => x.on \in Regions /\ ~rp.v /\ rp.pfn \in Frames
        /\ x.pc = "window" => rp.dbd = "NONE"
        /\ x.pc = "swapout" => /\ rp.dbd \in SwapBlks
                               /\ \A f \in Frames : frame[f].hash # rp.dbd
                               /\ \A r \in Regions \ {x.on} : reg[r].dbd # rp.dbd

\* The regions that have a frame, and the processes that wait until its page is there.
Using(f) == {r \in Regions : reg[r].pfn = f /\ (reg[r].v \/ Leaving(r) \/ Entering(r))}
Waiting(f) == {p \in PgProcs : loc[p].pc = "hash" /\ loc[p].on = f}

UsesExact == \A f \in Frames : frame[f].use = Cardinality(Using(f)) + Cardinality(Waiting(f))

MemExact == IsFiniteSet(Promised) /\ freemem = Len(freeq) - Cardinality(Promised)

PgInv ==
    /\ TabsOK(PgTables) /\ PgTyped /\ LocksExact /\ RefsExact /\ UsesExact /\ MemExact /\ SwapExact
    /\ \A r \in Regions : RegOf(r)
    /\ \A p \in PgProcs : ProcOf(p)
    /\ \A d \in Daemons : DaemonOf(d)

-----------------------------------------------------------------------------
(* One step of a process or a daemon a, on region r *)

Actors == PgProcs \cup Daemons

\* Who else there is, and the regions, keep what they have.
SameRegion(t) == /\ reg'[t].kind = reg[t].kind /\ reg'[t].refs = reg[t].refs
                 /\ reg'[t].lock = reg[t].lock /\ reg'[t].v = reg[t].v
                 /\ reg'[t].pfn = reg[t].pfn /\ reg'[t].dbd = reg[t].dbd

Acts(a, r) ==
    /\ a \in Actors /\ r \in Regions
    /\ a \in PgProcs => at[a] \in {r, Null} /\ at'[a] \in {r, Null}
    /\ a \in Daemons => loc[a].on \in {r, Null} /\ loc'[a].on \in {r, Null}
    /\ \A b \in Actors \ {a} : loc'[b] = loc[b]
    /\ \A q \in PgProcs \ {a} : at'[q] = at[q]
    /\ \A t \in Regions \ {r} : SameRegion(t)

\* A step with the region locked, and one that does not touch it.
WithLock(a, r) == /\ ~reg[r].lock \/ Locks(a, r)
                  /\ reg'[r].lock <=> Locks(a, r)'

Aside(a, r) == /\ reg' = reg /\ ~Locks(a, r) /\ ~Locks(a, r)'
               /\ \A f \in Frames : frame'[f].hash = frame[f].hash

LockStep(a, r) == WithLock(a, r) \/ Aside(a, r)

\* The locks of others are not disturbed.
LEMMA LocksOfOthers ==
    ASSUME NEW a, NEW r, Acts(a, r)
    PROVE  \A b \in Actors, t \in Regions : b # a \/ t # r => (Locks(b, t)' <=> Locks(b, t))
<1> SUFFICES ASSUME NEW b \in Actors, NEW t \in Regions, b # a \/ t # r
             PROVE  Locks(b, t)' <=> Locks(b, t)
  OBVIOUS
<1>0. t # Null
  BY TablesAssumption
<1>1. CASE b # a
  BY <1>1 DEF Acts, Locks, Actors
<1>2. CASE b = a /\ t # r
  BY <1>0, <1>2 DEF Acts, Locks
<1> QED
  BY <1>1, <1>2

\* So reglock goes on to name the one who has the region locked.
LEMMA LocksKept ==
    ASSUME LocksExact, NEW a, NEW r, Acts(a, r), LockStep(a, r)
    PROVE  LocksExact'
<1>0. a \in Actors /\ r \in Regions
  BY DEF Acts
<1>1. \A b \in Actors, t \in Regions : b # a \/ t # r => (Locks(b, t)' <=> Locks(b, t))
  BY LocksOfOthers
<1>2. \A t \in Regions :
         /\ reg[t].lock <=> \E b \in Actors : Locks(b, t)
         /\ \A b, c \in Actors : Locks(b, t) /\ Locks(c, t) => b = c
  BY DEF LocksExact, Actors
<1> SUFFICES ASSUME NEW t \in Regions
             PROVE  /\ reg'[t].lock <=> \E b \in Actors : Locks(b, t)'
                    /\ \A b, c \in Actors : Locks(b, t)' /\ Locks(c, t)' => b = c
  BY Zenon DEF LocksExact, Actors
<1>3. CASE t # r
  <2>1. reg'[t].lock = reg[t].lock
    BY <1>3 DEF Acts, SameRegion
  <2> QED
    BY <1>1, <1>2, <1>3, <2>1
<1>4. CASE t = r /\ WithLock(a, r)
  <2>1. \A b \in Actors : b # a => ~Locks(b, r)'
    BY <1>0, <1>1, <1>2, <1>4 DEF WithLock
  <2> QED
    BY <1>0, <1>4, <2>1 DEF WithLock
<1>5. CASE t = r /\ Aside(a, r)
  <2>1. \A b \in Actors : Locks(b, r)' <=> Locks(b, r)
    BY <1>0, <1>1, <1>5 DEF Aside
  <2> QED
    BY <1>0, <1>2, <1>5, <2>1 DEF Aside
<1> QED
  BY <1>3, <1>4, <1>5 DEF LockStep

\* A set with members counts them.
LEMMA CountFacts ==
    ASSUME NEW S, IsFiniteSet(S)
    PROVE  /\ Cardinality(S) \in Nat /\ (Cardinality(S) = 0 <=> S = {})
           /\ \A x, y \in S : x # y => Cardinality(S) >= 2
<1>1. Cardinality(S) \in Nat /\ (Cardinality(S) = 0 <=> S = {})
  BY FS_CardinalityType, FS_EmptySet
<1>2. ASSUME NEW x \in S, NEW y \in S, x # y PROVE Cardinality(S) # 0 /\ Cardinality(S) # 1
  <2>1. Cardinality(S) # 1
    BY <1>2, FS_Singleton
  <2> QED
    BY <1>1, <2>1
<1> QED
  BY <1>1, <1>2

\* Somebody comes to a region, or leaves it.
RefStep(a, r) ==
    /\ a \in PgProcs => reg'[r].refs = reg[r].refs + Bit(at'[a] = r) - Bit(at[a] = r)
    /\ a \notin PgProcs => reg'[r].refs = reg[r].refs
    /\ a \in PgProcs /\ at'[a] = r /\ at[a] # r => reg[r].refs = 0 \/ reg[r].kind = "shared"
    /\ reg'[r].kind = reg[r].kind \/ reg[r].refs = 0 \/ reg'[r].refs = 0

\* Only processes have regions.
LEMMA AttachedFinite == \A r : IsFiniteSet(Attached(r))
<1> TAKE r
<1>1. Attached(r) \in SUBSET PgProcs
  BY DEF Attached
<1> QED
  BY <1>1, FS_Subset, TablesAssumption

\* r_refcnt goes on to count the processes that have the region.
LEMMA RefsKept ==
    ASSUME RefsExact, NEW a, NEW r, Acts(a, r), RefStep(a, r)
    PROVE  RefsExact'
<1>0. r \in Regions /\ Null \notin Regions
  BY TablesAssumption DEF Acts
<1>1. \A t : IsFiniteSet(Attached(t))
  BY AttachedFinite
<1>2. \A p : p # a => (p \in Attached(r)' <=> p \in Attached(r))
  BY DEF Acts, Attached, Actors
<1>3. /\ IsFiniteSet(Attached(r)') /\ Cardinality(Attached(r)) \in Nat
      /\ Cardinality(Attached(r)') =
             Cardinality(Attached(r)) + Bit(a \in Attached(r)') - Bit(a \in Attached(r))
  <2> PICK S, T : S = Attached(r) /\ T = Attached(r)'
    OBVIOUS
  <2>1. IsFiniteSet(S) /\ \A y : y # a => (y \in S <=> y \in T)
    BY <1>1, <1>2
  <2>2. /\ IsFiniteSet(T) /\ Cardinality(S) \in Nat
        /\ Cardinality(T) = Cardinality(S) + Bit(a \in T) - Bit(a \in S)
    BY ONLY <2>1, OneDiffers
  <2> QED
    BY <2>2
<1>4. reg'[r].refs = Cardinality(Attached(r)')
  <2>1. reg[r].refs = Cardinality(Attached(r))
    BY <1>0 DEF RefsExact
  <2>2. CASE a \in PgProcs
    <3>1. (a \in Attached(r) <=> at[a] = r) /\ (a \in Attached(r)' <=> at'[a] = r)
      BY <2>2 DEF Attached
    <3> QED
      BY <1>3, <2>1, <2>2, <3>1 DEF RefStep, Bit
  <2>3. CASE a \notin PgProcs
    <3>1. a \notin Attached(r) /\ a \notin Attached(r)'
      BY <2>3 DEF Attached
    <3> QED
      BY <1>3, <2>1, <2>3, <3>1 DEF RefStep, Bit
  <2> QED
    BY <2>2, <2>3
<1>5. \A t \in Regions : reg'[t].refs = Cardinality(Attached(t)')
  <2> SUFFICES ASSUME NEW t \in Regions, t # r PROVE reg'[t].refs = Cardinality(Attached(t)')
    BY <1>4
  <2>1. Attached(t)' = Attached(t)
    BY <1>0 DEF Acts, Attached, Actors
  <2>2. reg'[t].refs = reg[t].refs
    BY DEF Acts, SameRegion
  <2> QED
    BY <2>1, <2>2 DEF RefsExact
<1>6. ASSUME NEW p \in PgProcs, NEW q \in PgProcs, p # q, q # a, at'[p] \in Regions,
             at'[p] = at'[q]
      PROVE  reg'[at'[p]].kind = "shared"
  <2> PICK t : t = at'[p]
    OBVIOUS
  <2>0. at[q] = t /\ t \in Regions /\ at'[q] = t
    BY <1>6 DEF Acts
  <2>1. CASE t # r
    <3>1. p # a
      BY <1>0, <1>6, <2>1 DEF Acts
    <3>2. at[p] = t
      BY <1>6, <3>1 DEF Acts
    <3>3. reg[t].kind = "shared"
      BY <1>6, <2>0, <3>2 DEF RefsExact
    <3> QED
      BY <2>0, <2>1, <3>3 DEF Acts, SameRegion
  <2>2. CASE t = r
    <3>1. q \in Attached(r) /\ q \in Attached(r)'
      BY <1>6, <2>0, <2>2 DEF Attached
    <3>2. reg[r].refs = Cardinality(Attached(r)) /\ reg'[r].refs = Cardinality(Attached(r)')
      BY <1>0, <1>4 DEF RefsExact
    <3>3. reg[r].refs # 0 /\ reg'[r].refs # 0
      BY <1>1, <1>3, <3>1, <3>2, CountFacts
    <3>4. reg[r].kind = "shared"
      <4>1. CASE at[p] = r
        BY <1>0, <1>6, <2>0, <2>2, <4>1 DEF RefsExact
      <4>2. CASE at[p] # r
        <5>1. p = a
          BY <1>6, <2>2, <4>2 DEF Acts
        <5> QED
          BY <1>6, <2>2, <3>3, <4>2, <5>1 DEF RefStep
      <4> QED
        BY <4>1, <4>2
    <3> QED
      BY <2>2, <3>3, <3>4 DEF RefStep
  <2> QED
    BY <2>1, <2>2
<1>7. ASSUME NEW p \in PgProcs, NEW q \in PgProcs, p # q, at'[p] \in Regions, at'[p] = at'[q]
      PROVE  reg'[at'[p]].kind = "shared"
  <2>1. CASE q # a
    BY <1>6, <1>7, <2>1
  <2>2. CASE p # a
    BY <1>6, <1>7, <2>2
  <2> QED
    BY <1>7, <2>1, <2>2
<1> QED
  BY <1>5, <1>7 DEF RefsExact

\* References to frames come and go with the region and with the process that waits.
UseStep(a, r) ==
    \A f \in Frames :
        frame'[f].use = frame[f].use + Bit(r \in Using(f)') - Bit(r \in Using(f))
                                     + Bit(a \in Waiting(f)') - Bit(a \in Waiting(f))

\* A frame has finitely many users.
LEMMA UsersFinite == \A f : IsFiniteSet(Using(f)) /\ IsFiniteSet(Waiting(f))
<1> TAKE f
<1>1. Using(f) \in SUBSET Regions /\ Waiting(f) \in SUBSET PgProcs
  BY DEF Using, Waiting
<1> QED
  BY <1>1, FS_Subset, TablesAssumption

\* Regions other than r use what they have used.
LEMMA UsersOfOthers ==
    ASSUME NEW a, NEW r, Acts(a, r)
    PROVE  /\ \A t \in Regions \ {r} : /\ Leaving(t)' <=> Leaving(t)
                                       /\ Entering(t)' <=> Entering(t)
           /\ \A t, f : t # r => (t \in Using(f)' <=> t \in Using(f))
           /\ \A q, f : q # a => (q \in Waiting(f)' <=> q \in Waiting(f))
<1>1. ASSUME NEW t \in Regions \ {r} PROVE Leaving(t)' <=> Leaving(t)
  <2>1. \A d \in Daemons : loc'[d].on = t <=> loc[d].on = t
    BY <1>1, TablesAssumption DEF Acts, Actors
  <2> QED
    BY <2>1 DEF Leaving
<1>2. ASSUME NEW t \in Regions \ {r} PROVE Entering(t)' <=> Entering(t)
  <2>1. \A p \in PgProcs : /\ at'[p] = t <=> at[p] = t
                           /\ at[p] = t => loc'[p] = loc[p]
    BY <1>2, TablesAssumption DEF Acts, Actors
  <2> QED
    BY <2>1 DEF Entering
<1>3. \A t \in Regions \ {r} : reg'[t].v = reg[t].v /\ reg'[t].pfn = reg[t].pfn
  BY DEF Acts, SameRegion
<1>4. \A t, f : t # r => (t \in Using(f)' <=> t \in Using(f))
  BY <1>1, <1>2, <1>3 DEF Using
<1>5. \A q, f : q # a => (q \in Waiting(f)' <=> q \in Waiting(f))
  BY DEF Acts, Actors, Waiting
<1> QED
  BY <1>1, <1>2, <1>4, <1>5

\* pf_use goes on to count the regions that have the frame and the processes that wait for it.
LEMMA UsesKept ==
    ASSUME UsesExact, NEW a, NEW r, Acts(a, r), UseStep(a, r)
    PROVE  UsesExact'
<1> SUFFICES ASSUME NEW f \in Frames
             PROVE  frame'[f].use = Cardinality(Using(f)') + Cardinality(Waiting(f)')
  BY DEF UsesExact
<1> PICK S, T, V, W : S = Using(f) /\ T = Using(f)' /\ V = Waiting(f) /\ W = Waiting(f)'
  OBVIOUS
<1>1. /\ IsFiniteSet(S) /\ \A y : y # r => (y \in S <=> y \in T)
      /\ IsFiniteSet(V) /\ \A y : y # a => (y \in V <=> y \in W)
  BY UsersFinite, UsersOfOthers
<1>2. /\ Cardinality(S) \in Nat /\ Cardinality(T) \in Nat
      /\ Cardinality(T) = Cardinality(S) + Bit(r \in T) - Bit(r \in S)
  BY ONLY <1>1, OneDiffers
<1>3. /\ Cardinality(V) \in Nat /\ Cardinality(W) \in Nat
      /\ Cardinality(W) = Cardinality(V) + Bit(a \in W) - Bit(a \in V)
  BY ONLY <1>1, OneDiffers
<1>4. frame[f].use = Cardinality(S) + Cardinality(V)
  BY DEF UsesExact
<1>5. frame'[f].use = frame[f].use + Bit(r \in T) - Bit(r \in S) + Bit(a \in W) - Bit(a \in V)
  BY DEF UseStep
<1>6. Bit(r \in T) \in Int /\ Bit(r \in S) \in Int /\ Bit(a \in W) \in Int /\ Bit(a \in V) \in Int
  BY DEF Bit
<1> QED
  BY ONLY <1>2, <1>3, <1>4, <1>5, <1>6, S = Using(f) /\ T = Using(f)' /\ V = Waiting(f) /\ W = Waiting(f)'

\* Swap counts go with the region.
SwapStep(r) == \A b \in SwapBlks : ucnt'[b] = ucnt[b] + Bit(reg'[r].dbd = b) - Bit(reg[r].dbd = b)

Having(b) == {t \in Regions : reg[t].dbd = b}

\* st_ucnt goes on to count the regions that have the page of swap.
LEMMA SwapKept ==
    ASSUME SwapExact, NEW a, NEW r, Acts(a, r), SwapStep(r)
    PROVE  SwapExact'
<1> SUFFICES ASSUME NEW b \in SwapBlks PROVE ucnt'[b] = Cardinality(Having(b)')
  BY DEF SwapExact, Having
<1> PICK S, T : S = Having(b) /\ T = Having(b)'
  OBVIOUS
<1>1. IsFiniteSet(S) /\ \A y : y # r => (y \in S <=> y \in T)
  <2>1. Having(b) \in SUBSET Regions
    BY DEF Having
  <2>2. \A y : y # r => (y \in Having(b) <=> y \in Having(b)')
    BY DEF Having, Acts, SameRegion
  <2> QED
    BY <2>1, <2>2, FS_Subset, TablesAssumption
<1>2. /\ Cardinality(S) \in Nat /\ Cardinality(T) \in Nat
      /\ Cardinality(T) = Cardinality(S) + Bit(r \in T) - Bit(r \in S)
  BY ONLY <1>1, OneDiffers
<1>3. (r \in S <=> reg[r].dbd = b) /\ (r \in T <=> reg'[r].dbd = b)
  BY DEF Acts, Having
<1>4. ucnt[b] = Cardinality(S)
  BY DEF SwapExact, Having
<1> QED
  BY <1>2, <1>3, <1>4 DEF SwapStep, Bit

\* What a process has reserved.
Got(a) == IF a \in PgProcs THEN loc[a].got ELSE 0

MemStep(a) == /\ freemem' \in Nat
              /\ Len(freeq') - freemem' - Got(a)' = Len(freeq) - freemem - Got(a)

\* A pile is as high as it is.
LEMMA PileFacts ==
    ASSUME NEW p, NEW n \in Nat
    PROVE  IsFiniteSet({p} \X (1 .. n)) /\ Cardinality({p} \X (1 .. n)) = n
<1> DEFINE f == [i \in 1 .. n |-> <<p, i>>]
<1>1. IsFiniteSet(1 .. n) /\ Cardinality(1 .. n) = n
  BY FS_Interval
<1>2. f \in Injection(1 .. n, {p} \X (1 .. n))
  BY DEF Injection, IsInjective
<1>3. f \in Surjection(1 .. n, {p} \X (1 .. n))
  <2>1. \A z \in {p} \X (1 .. n) : \E i \in 1 .. n : f[i] = z
    <3> SUFFICES ASSUME NEW i \in 1 .. n PROVE \E j \in 1 .. n : f[j] = <<p, i>>
      OBVIOUS
    <3>1. f[i] = <<p, i>>
      OBVIOUS
    <3> QED
      BY <3>1
  <2>2. f \in [1 .. n -> {p} \X (1 .. n)]
    OBVIOUS
  <2> HIDE DEF f
  <2> QED
    BY <2>1, <2>2 DEF Surjection
<1> QED
  BY <1>1, <1>2, <1>3, FS_Surjection

\* What the processes in P have reserved, where l says where they are.
Piles(l, P) == UNION {{p} \X (1 .. l[p].got) : p \in P}

\* What processes have reserved, and what the others have without a.
LEMMA PilesSplit ==
    ASSUME NEW l, NEW P, NEW a, NEW n \in Nat, n = IF a \in P THEN l[a].got ELSE 0,
           IsFiniteSet(Piles(l, P)) \/ IsFiniteSet(Piles(l, P \ {a}))
    PROVE  /\ IsFiniteSet(Piles(l, P)) /\ IsFiniteSet(Piles(l, P \ {a}))
           /\ Cardinality(Piles(l, P \ {a})) \in Nat
           /\ Cardinality(Piles(l, P)) = Cardinality(Piles(l, P \ {a})) + n
<1> PICK A, R, S : A = {a} \X (1 .. n) /\ R = Piles(l, P \ {a}) /\ S = Piles(l, P)
  OBVIOUS
<1>1. IsFiniteSet(A) /\ Cardinality(A) = n
  BY PileFacts
<1>2. R \cap A = {}
  BY DEF Piles
<1>3. S = R \cup A
  <2>1. \A x : x \in S <=> \E p \in P : x \in {p} \X (1 .. l[p].got)
    BY DEF Piles
  <2>2. \A x : x \in R <=> \E p \in P \ {a} : x \in {p} \X (1 .. l[p].got)
    BY DEF Piles
  <2>3. CASE a \in P
    BY <2>1, <2>2, <2>3
  <2>4. CASE a \notin P
    <3>1. A = {}
      BY <2>4
    <3> QED
      BY <2>1, <2>2, <2>4, <3>1
  <2> QED
    BY <2>3, <2>4
<1>4. IsFiniteSet(R)
  <2>1. R \in SUBSET S
    BY ONLY <1>3
  <2> QED
    BY <2>1, FS_Subset
<1>5. IsFiniteSet(S) /\ Cardinality(S) = Cardinality(R) + n - Cardinality(R \cap A)
  BY ONLY <1>1, <1>3, <1>4, FS_Union
<1>6. Cardinality(R) \in Nat /\ Cardinality(R \cap A) = 0
  BY ONLY <1>2, <1>4, FS_CardinalityType, FS_EmptySet
<1>7. Cardinality(S) = Cardinality(R) + n
  BY ONLY <1>5, <1>6, n \in Nat
<1> QED
  BY <1>4, <1>5, <1>6, <1>7

\* freemem goes on to be what is on the queue and not promised.
LEMMA MemKept ==
    ASSUME MemExact, NEW a, NEW r, Acts(a, r), MemStep(a), Got(a) \in Nat, Got(a)' \in Nat,
           freemem \in Nat, Len(freeq) \in Nat, Len(freeq') \in Nat
    PROVE  MemExact'
<1> PICK l, k : l = loc /\ k = loc'
  OBVIOUS
<1> PICK n \in Nat, o \in Nat : n = Got(a) /\ o = Got(a)'
  OBVIOUS
<1>1. Promised = Piles(l, PgProcs) /\ Promised' = Piles(k, PgProcs)
  BY DEF Promised, Piles
<1>2. Piles(k, PgProcs \ {a}) = Piles(l, PgProcs \ {a})
  <2>1. \A p \in PgProcs \ {a} : k[p] = l[p]
    BY DEF Acts, Actors
  <2> QED
    BY <2>1 DEF Piles
<1>3. /\ IsFiniteSet(Piles(l, PgProcs \ {a})) /\ Cardinality(Piles(l, PgProcs \ {a})) \in Nat
      /\ Cardinality(Piles(l, PgProcs)) = Cardinality(Piles(l, PgProcs \ {a})) + n
  <2>1. IsFiniteSet(Piles(l, PgProcs)) /\ n = IF a \in PgProcs THEN l[a].got ELSE 0
    BY <1>1 DEF MemExact, Got
  <2> QED
    BY ONLY <2>1, n \in Nat, PilesSplit
<1>6. /\ IsFiniteSet(Piles(k, PgProcs))
      /\ Cardinality(Piles(k, PgProcs)) = Cardinality(Piles(l, PgProcs \ {a})) + o
  <2>1. IsFiniteSet(Piles(k, PgProcs \ {a})) /\ o = IF a \in PgProcs THEN k[a].got ELSE 0
    BY <1>2, <1>3 DEF Got
  <2>2. /\ IsFiniteSet(Piles(k, PgProcs))
        /\ Cardinality(Piles(k, PgProcs)) = Cardinality(Piles(k, PgProcs \ {a})) + o
    BY ONLY <2>1, o \in Nat, PilesSplit
  <2> QED
    BY <1>2, <2>2
<1>4. freemem = Len(freeq) - Cardinality(Promised)
  BY DEF MemExact
<1>5. freemem' = Len(freeq') - Cardinality(Promised')
  <2>1. Len(freeq') - freemem' - o = Len(freeq) - freemem - n /\ freemem' \in Nat
    BY DEF MemStep
  <2>2. PICK c \in Nat : Cardinality(Promised) = c + n /\ Cardinality(Promised') = c + o
    BY <1>1, <1>3, <1>6
  <2>3. Len(freeq) \in Nat /\ Len(freeq') \in Nat /\ freemem \in Nat
    OBVIOUS
  <2>4. n \in Nat /\ o \in Nat /\ c \in Nat
    OBVIOUS
  <2> QED
    BY ONLY <1>4, <2>1, <2>2, <2>3, <2>4
<1> QED
  BY <1>1, <1>5, <1>6 DEF MemExact

\* A frame with users is used.
LEMMA UserCounts ==
    ASSUME UsesExact, NEW f \in Frames
    PROVE  /\ frame[f].use \in Nat
           /\ \A t \in Using(f) : frame[f].use >= 1
           /\ \A t, s \in Using(f) : t # s => frame[f].use >= 2
           /\ \A q \in Waiting(f) : frame[f].use >= 1
           /\ \A q \in Waiting(f), t \in Using(f) : frame[f].use >= 2
<1>1. IsFiniteSet(Using(f)) /\ IsFiniteSet(Waiting(f))
  BY UsersFinite
<1> PICK S, W : S = Using(f) /\ W = Waiting(f)
  OBVIOUS
<1>2. /\ Cardinality(S) \in Nat /\ (Cardinality(S) = 0 <=> S = {})
      /\ \A x, y \in S : x # y => Cardinality(S) >= 2
  BY <1>1, CountFacts
<1>3. /\ Cardinality(W) \in Nat /\ (Cardinality(W) = 0 <=> W = {})
  BY <1>1, CountFacts
<1>4. frame[f].use = Cardinality(S) + Cardinality(W)
  BY DEF UsesExact
<1> QED
  BY <1>2, <1>3, <1>4

\* A frame gets another block, or loses it, only where that disturbs no other region.
HashStep(a, r) ==
    /\ \A f \in Frames :
          /\ \/ frame'[f].hash = frame[f].hash
             \/ frame[f].use = 0
             \/ frame'[f].hash = Null /\ frame[f].use = 1 /\ r \in Using(f)
             \/ /\ frame'[f].hash = Null
                /\ \A t \in Regions \ {r} : reg[t].dbd # frame[f].hash
             \/ frame[f].hash = Null /\ frame'[f].hash # File
          /\ frame'[f].hash \in {frame[f].hash, Null, reg[r].dbd, reg'[r].dbd}
    /\ \A d \in Daemons \ {a} :
          loc[d].pc = "swapout" /\ loc[d].on # r => reg'[r].dbd # reg[loc[d].on].dbd

\* What others see of the frame they have or wait for.
LEMMA HashOfOthers ==
    ASSUME UsesExact, NEW a, NEW r, HashStep(a, r), NEW t \in Regions \ {r}, NEW f \in Frames,
           t \in Using(f) \/ \E q \in Waiting(f) : TRUE
    PROVE  \/ frame'[f].hash = frame[f].hash
           \/ frame'[f].hash = Null /\ reg[t].dbd # frame[f].hash
           \/ frame[f].hash = Null /\ frame'[f].hash # File
<1>1. /\ frame[f].use \in Nat /\ frame[f].use >= 1
      /\ r \in Using(f) => frame[f].use >= 2
  BY UserCounts
<1> QED
  BY <1>1 DEF HashStep

\* A step on region r leaves what holds of another region.
LEMMA RegKept ==
    ASSUME UsesExact, NEW a, NEW r, Acts(a, r), HashStep(a, r), NEW t \in Regions \ {r},
           RegOf(t), reg'[t] = reg[t]
    PROVE  RegOf(t)'
<1>1. (Leaving(t)' <=> Leaving(t)) /\ (Entering(t)' <=> Entering(t))
  BY UsersOfOthers
<1>2. CASE ~reg[t].v
  BY <1>1, <1>2 DEF RegOf, PageOf
<1>3. CASE reg[t].v
  <2> PICK f : f = reg[t].pfn
    OBVIOUS
  <2>1. f \in Frames /\ t \in Using(f)
    BY <1>3 DEF RegOf, PageOf, Using
  <2>2. \/ frame'[f].hash = frame[f].hash
        \/ frame'[f].hash = Null /\ reg[t].dbd # frame[f].hash
        \/ frame[f].hash = Null /\ frame'[f].hash # File
    BY <2>1, HashOfOthers
  <2>3. /\ reg[t].dbd \in Blocks => frame[f].hash = reg[t].dbd
        /\ reg[t].dbd = "NONE" => frame[f].hash # File
    BY <1>3 DEF RegOf, PageOf
  <2>4. /\ reg[t].dbd \in Blocks => frame'[f].hash = reg[t].dbd
        /\ reg[t].dbd = "NONE" => frame'[f].hash # File
    BY <2>2, <2>3, BlocksAssumption DEF Blocks
  <2> QED
    BY <1>1, <1>3, <2>4 DEF RegOf, PageOf
<1> QED
  BY <1>2, <1>3

\* Somebody else whose region is not touched is where it was.
LEMMA ProcKept ==
    ASSUME UsesExact, NEW a, NEW r, Acts(a, r), HashStep(a, r), NEW q \in PgProcs \ {a}, at[q] # r,
           at[q] \in Regions \cup {Null}, ProcOf(q), at[q] \in Regions => reg'[at[q]] = reg[at[q]]
    PROVE  ProcOf(q)'
<1> PICK t : t = at[q]
  OBVIOUS
<1>0. loc'[q] = loc[q] /\ at'[q] = t /\ q \in Actors
  BY DEF Acts, Actors
<1>1. CASE t = Null
  <2>1. loc[q].pc = "idle"
    BY <1>1 DEF ProcOf, Fault
  <2>2. loc'[q].pc = "idle"
    BY <1>0, <2>1
  <2> QED
    BY <1>0, <1>1, <2>1, <2>2 DEF ProcOf, Fault, Asleep
<1>2. CASE t \in Regions
  <2>1. reg'[t] = reg[t] /\ t \in Regions \ {r}
    BY <1>2
  <2>2. CASE loc[q].pc \notin {"hash", "window", "swapin"}
    BY <1>0, <2>1, <2>2 DEF ProcOf, Fault, Asleep
  <2>3. CASE loc[q].pc = "hash"
    <3> PICK f : f = loc[q].on
      OBVIOUS
    <3>1. f \in Frames /\ q \in Waiting(f) /\ frame[f].hash = reg[t].dbd /\ reg[t].dbd \in Blocks
      BY <2>3 DEF ProcOf, Fault, Waiting
    <3>2. frame'[f].hash = reg[t].dbd
      BY <2>1, <3>1, HashOfOthers, BlocksAssumption DEF Blocks
    <3> QED
      BY <1>0, <2>1, <2>3, <3>1, <3>2 DEF ProcOf, Fault, Asleep
  <2>4. CASE loc[q].pc \in {"window", "swapin"}
    <3> PICK f : f = reg[t].pfn
      OBVIOUS
    <3>1. f \in Frames /\ frame[f].hash = reg[t].dbd /\ reg[t].dbd \in SwapBlks
      BY <2>4 DEF ProcOf, Fault
    <3>2. t \in Using(f)
      BY <2>1, <2>4 DEF Using, Entering
    <3>3. frame'[f].hash = reg[t].dbd
      BY <2>1, <3>1, <3>2, HashOfOthers, BlocksAssumption DEF Blocks
    <3> QED
      BY <1>0, <2>1, <2>4, <3>1, <3>3 DEF ProcOf, Fault, Asleep
  <2> QED
    BY <2>2, <2>3, <2>4
<1> QED
  BY <1>1, <1>2

\* A step of somebody else leaves what holds of a daemon: the region is its own until it is done.
LEMMA DaemonKept ==
    ASSUME LocksExact, NEW a, NEW r, Acts(a, r), LockStep(a, r), HashStep(a, r),
           NEW d \in Daemons \ {a}, DaemonOf(d)
    PROVE  DaemonOf(d)'
<1>0. loc'[d] = loc[d] /\ d \in Actors /\ a \in Actors /\ r \in Regions
  BY DEF Acts, Actors
<1>1. CASE loc[d].pc = "idle"
  BY <1>0, <1>1 DEF DaemonOf
<1>2. CASE loc[d].pc # "idle"
  <2> PICK t \in Regions : t = loc[d].on
    BY <1>2 DEF DaemonOf
  <2>1. CASE Aside(a, r)
    BY <1>0, <1>2, <2>1 DEF DaemonOf, Aside
  <2>2. CASE WithLock(a, r)
    <3>1. t # r
      <4>1. Locks(d, t)
        BY DEF Locks
      <4> QED
        BY <1>0, <2>2, <4>1 DEF LocksExact, WithLock, Actors
    <3>2. reg'[t].v = reg[t].v /\ reg'[t].pfn = reg[t].pfn /\ reg'[t].dbd = reg[t].dbd
      BY <3>1 DEF Acts, SameRegion
    <3>3. CASE loc[d].pc = "swapout"
      <4>1. /\ reg[t].dbd \in SwapBlks
            /\ \A f \in Frames : frame[f].hash # reg[t].dbd
            /\ \A s \in Regions \ {t} : reg[s].dbd # reg[t].dbd
        BY <3>3 DEF DaemonOf
      <4>2. reg'[r].dbd # reg[t].dbd /\ reg[r].dbd # reg[t].dbd
        BY <1>0, <3>1, <3>3, <4>1 DEF HashStep
      <4>3. \A f \in Frames : frame'[f].hash # reg[t].dbd
        BY <4>1, <4>2, BlocksAssumption DEF HashStep
      <4>4. \A s \in Regions \ {t} : reg'[s].dbd # reg[t].dbd
        BY <4>1, <4>2 DEF Acts, SameRegion
      <4> QED
        BY <1>0, <3>2, <3>3, <4>1, <4>3, <4>4 DEF DaemonOf
    <3>4. CASE loc[d].pc # "swapout"
      BY <1>0, <1>2, <3>2, <3>4 DEF DaemonOf
    <3> QED
      BY <3>3, <3>4
  <2> QED
    BY <2>1, <2>2 DEF LockStep
<1> QED
  BY <1>1, <1>2

\* What has to be shown of the region and of those who have it.
Here(a, r) ==
    /\ RegOf(r)'
    /\ a \in PgProcs => ProcOf(a)'
    /\ a \in Daemons => DaemonOf(a)'
    /\ \A q \in PgProcs \ {a} : at[q] = r => ProcOf(q)'
    /\ \A t \in Regions \ {r} : \/ reg'[t] = reg[t]
                                \/ /\ RegOf(t)'
                                   /\ \A q \in PgProcs \ {a} : at[q] = t => ProcOf(q)'

\* Every step that keeps its part of the bargain keeps the invariant.
LEMMA ActorStep ==
    ASSUME PgInv, NEW a, NEW r, Acts(a, r), LockStep(a, r), RefStep(a, r), UseStep(a, r),
           SwapStep(r), MemStep(a), HashStep(a, r), TabsOK(PgTables)', PgTyped', Here(a, r)
    PROVE  PgInv'
<1>0. /\ TabsOK(PgTables) /\ PgTyped /\ LocksExact /\ RefsExact /\ UsesExact /\ MemExact /\ SwapExact
      /\ \A t \in Regions : RegOf(t)
      /\ \A p \in PgProcs : ProcOf(p)
      /\ \A d \in Daemons : DaemonOf(d)
  BY DEF PgInv
<1>1. LocksExact'
  BY <1>0, LocksKept
<1>2. RefsExact'
  BY <1>0, RefsKept
<1>3. UsesExact'
  BY <1>0, UsesKept
<1>4. SwapExact'
  BY <1>0, SwapKept
<1>5. MemExact'
  <2>1. Got(a) \in Nat /\ Got(a)' \in Nat
    BY <1>0 DEF PgTyped, Got, Spots
  <2>2. Len(freeq) \in Nat /\ Len(freeq') \in Nat
    <3>1. freeq \in Seq(Frames) /\ freeq' \in Seq(Frames)
      BY <1>0 DEF TabsOK, Tables, PgTables
    <3> QED
      BY ONLY <3>1
  <2> QED
    BY <1>0, <2>1, <2>2, MemKept DEF PgTyped
<1>6. \A t \in Regions : RegOf(t)'
  BY <1>0, RegKept DEF Here
<1>7. \A q \in PgProcs : ProcOf(q)'
  <2> SUFFICES ASSUME NEW q \in PgProcs \ {a}, at[q] # r PROVE ProcOf(q)'
    BY DEF Here
  <2>1. at[q] \in Regions \cup {Null} /\ ProcOf(q)
    BY <1>0 DEF PgTyped
  <2>2. CASE at[q] \in Regions => reg'[at[q]] = reg[at[q]]
    BY <1>0, <2>1, <2>2, ProcKept
  <2>3. CASE at[q] \in Regions /\ reg'[at[q]] # reg[at[q]]
    BY <2>3 DEF Here
  <2> QED
    BY <2>2, <2>3
<1>8. \A d \in Daemons : DaemonOf(d)'
  BY <1>0, DaemonKept DEF Here
<1> QED
  BY <1>1, <1>2, <1>3, <1>4, <1>5, <1>6, <1>7, <1>8 DEF PgInv

-----------------------------------------------------------------------------
(* One step of a fault: process p, with its region r to itself, leaves the tables as m, *)
(* the region as rp, and is at y                                                        *)

Enters(x) == x.pc \in {"window", "swapin", "file"}
Has(rp, x, f) == rp.pfn = f /\ (rp.v \/ Enters(x))
Awaits(x, f) == x.pc = "hash" /\ x.on = f

Alone(p, r) == /\ p \in PgProcs /\ r \in Regions /\ at[p] = r
               /\ ~reg[r].lock \/ Locks(p, r)

Goes(p, r, m, rp, y) ==
    /\ PgBecomes(m) /\ at' = at /\ disk' \in [SwapBlks -> Vals]
    /\ reg' = [reg EXCEPT ![r] = rp] /\ loc' = [loc EXCEPT ![p] = y]

TypesFit(r, m, rp, y) ==
    /\ TabsOK(m) /\ m.free \in Nat /\ rp \in Rgns /\ y \in Spots
    /\ rp.kind = reg[r].kind /\ rp.refs = reg[r].refs /\ (rp.lock <=> y.pc \in LockedPCs)

MemFits(p, m, y) == Len(m.q) - m.free - y.got = Len(freeq) - freemem - loc[p].got

UsesFit(p, r, m, rp, y) ==
    \A f \in Frames : m.fr[f].use = frame[f].use + Bit(Has(rp, y, f)) - Bit(Has(reg[r], loc[p], f))
                                                 + Bit(Awaits(y, f)) - Bit(Awaits(loc[p], f))

SwapFits(r, m, rp) ==
    /\ \A b \in SwapBlks : m.u[b] = ucnt[b] + Bit(rp.dbd = b) - Bit(reg[r].dbd = b)
    /\ rp.dbd \in {reg[r].dbd, "NONE"}

HashFits(p, r, m) ==
    \A f \in Frames : /\ \/ m.fr[f].hash = frame[f].hash
                         \/ frame[f].use = 0
                         \/ m.fr[f].hash = Null /\ frame[f].use = 1 /\ Has(reg[r], loc[p], f)
                         \/ /\ m.fr[f].hash = Null
                            /\ \A t \in Regions \ {r} : reg[t].dbd # frame[f].hash
                      /\ m.fr[f].hash \in {frame[f].hash, Null, reg[r].dbd}

StateFits(m, rp, y) ==
    /\ PageOf(rp, m.fr) /\ (rp.v \/ rp.dbd # "NONE")
    /\ rp.prot = Prot(rp) \/ (rp.prot = "KW" /\ Enters(y))
    /\ y.pc # "idle" /\ Fault(y, rp, m.fr)

\* Nobody else is at work on the region.
LEMMA AloneFacts ==
    ASSUME PgInv, NEW p \in PgProcs, NEW r \in Regions, ~reg[r].lock \/ Locks(p, r), Acts(p, r)
    PROVE  /\ ~Leaving(r) /\ ~Leaving(r)'
           /\ Entering(r) <=> at[p] = r /\ Enters(loc[p])
           /\ Entering(r)' <=> at'[p] = r /\ Enters(loc'[p])
           /\ \A q \in PgProcs \ {p} : at[q] = r => loc[q].pc \notin LockedPCs
<1>0. p \in Actors /\ \A b \in Actors \ {p} : ~Locks(b, r)
  <2>1. LocksExact
    BY DEF PgInv
  <2> QED
    BY <2>1 DEF LocksExact, Actors
<1>1. \A d \in Daemons : loc[d].on # r /\ loc'[d].on # r
  <2> SUFFICES ASSUME NEW d \in Daemons PROVE loc[d].on # r /\ loc'[d].on # r
    OBVIOUS
  <2>1. d \in Actors \ {p}
    BY TablesAssumption DEF Actors
  <2>2. ~Locks(d, r) /\ loc'[d] = loc[d]
    BY <1>0, <2>1 DEF Acts
  <2> QED
    BY <2>2 DEF Locks
<1>2. \A q \in PgProcs \ {p} : /\ at[q] = r => loc[q].pc \notin LockedPCs
                               /\ at'[q] = at[q] /\ loc'[q] = loc[q]
  BY <1>0 DEF Actors, Locks, Acts
<1>3. \A x : Enters(x) => x.pc \in LockedPCs
  BY DEF Enters, LockedPCs
<1> QED
  BY <1>1, <1>2, <1>3 DEF Leaving, Entering, Enters

\* PgBecomes says what the tables are after a step.
LEMMA TablesAfter ==
    ASSUME NEW m, m \in Tables, PgBecomes(m)
    PROVE  PgTables' = m
BY DEF Tables, PgBecomes, PgTables

\* Every step of a fault that keeps its part of the bargain keeps the invariant.
LEMMA FaultStep ==
    ASSUME PgInv, NEW p, NEW r, Alone(p, r), NEW m, NEW rp, NEW y, Goes(p, r, m, rp, y),
           TypesFit(r, m, rp, y), MemFits(p, m, y), UsesFit(p, r, m, rp, y), SwapFits(r, m, rp),
           HashFits(p, r, m), StateFits(m, rp, y)
    PROVE  PgInv'
<1>0. /\ p \in PgProcs /\ r \in Regions /\ at[p] = r /\ (~reg[r].lock \/ Locks(p, r))
      /\ PgTyped /\ r # Null /\ p \notin Daemons /\ p \in Actors
  BY TablesAssumption DEF Alone, PgInv, Actors
<1>1. /\ at' = at /\ reg'[r] = rp /\ loc'[p] = y /\ frame' = m.fr /\ freeq' = m.q
      /\ freemem' = m.free /\ ucnt' = m.u
      /\ \A t \in Regions \ {r} : reg'[t] = reg[t]
      /\ \A b \in Actors \ {p} : loc'[b] = loc[b]
      /\ PgTyped'
  BY <1>0 DEF Goes, PgBecomes, PgTyped, TypesFit, Actors
<1>2. Acts(p, r)
  BY <1>0, <1>1 DEF Acts, SameRegion
<1>3. /\ ~Leaving(r) /\ ~Leaving(r)'
      /\ Entering(r) <=> Enters(loc[p])
      /\ Entering(r)' <=> Enters(y)
      /\ \A q \in PgProcs \ {p} : at[q] = r => loc[q].pc \notin LockedPCs
  BY <1>0, <1>1, <1>2, AloneFacts
<1>4. LockStep(p, r)
  <2>1. Locks(p, r)' <=> y.pc \in LockedPCs
    BY <1>0, <1>1 DEF Locks
  <2> QED
    BY <1>0, <1>1, <2>1 DEF LockStep, WithLock, TypesFit
<1>5. RefStep(p, r)
  <2>1. PgTyped /\ reg[r].refs \in Int
    BY <1>0 DEF PgTyped, Rgns
  <2> QED
    BY <1>0, <1>1, <2>1 DEF RefStep, TypesFit, Bit
<1>6. UseStep(p, r)
  <2> SUFFICES ASSUME NEW f \in Frames
               PROVE  frame'[f].use = frame[f].use + Bit(r \in Using(f)') - Bit(r \in Using(f))
                                     + Bit(p \in Waiting(f)') - Bit(p \in Waiting(f))
    BY DEF UseStep
  <2>1. /\ r \in Using(f) <=> Has(reg[r], loc[p], f)
        /\ r \in Using(f)' <=> Has(rp, y, f)
    BY <1>0, <1>1, <1>3 DEF Using, Has
  <2>2. /\ p \in Waiting(f) <=> Awaits(loc[p], f)
        /\ p \in Waiting(f)' <=> Awaits(y, f)
    BY <1>0, <1>1 DEF Waiting, Awaits
  <2>3. frame'[f].use = frame[f].use + Bit(Has(rp, y, f)) - Bit(Has(reg[r], loc[p], f))
                                     + Bit(Awaits(y, f)) - Bit(Awaits(loc[p], f))
    BY <1>1 DEF UsesFit
  <2> QED
    BY <2>1, <2>2, <2>3 DEF Bit
<1>7. SwapStep(r)
  BY <1>1 DEF SwapFits, SwapStep
<1>8. MemStep(p)
  BY <1>0, <1>1 DEF MemFits, MemStep, TypesFit, Got
<1>9. HashStep(p, r)
  <2>1. \A f \in Frames : r \in Using(f) <=> Has(reg[r], loc[p], f)
    BY <1>0, <1>3 DEF Using, Has
  <2>2. ASSUME NEW d \in Daemons, loc[d].pc = "swapout", loc[d].on # r
        PROVE  rp.dbd # reg[loc[d].on].dbd
    <3>1. DaemonOf(d)
      BY DEF PgInv
    <3>2. reg[loc[d].on].dbd \in SwapBlks /\ reg[r].dbd # reg[loc[d].on].dbd
      BY <1>0, <2>2, <3>1 DEF DaemonOf
    <3> QED
      BY <3>2, TablesAssumption DEF SwapFits
  <2> QED
    BY <1>1, <2>1, <2>2 DEF HashFits, HashStep
<1>10. TabsOK(PgTables)'
  <2>1. PgTables' = m
    BY TablesAfter DEF Goes, TypesFit, TabsOK
  <2> QED
    BY <2>1 DEF TypesFit
<1>11. Here(p, r)
  <2>1. RegOf(r)'
    <3>1. PageOf(reg'[r], frame')
      BY <1>1 DEF StateFits
    <3>2. reg'[r].prot = Prot(reg'[r]) \/ (reg'[r].prot = "KW" /\ Entering(r)')
      BY <1>1, <1>3 DEF StateFits
    <3>3. reg'[r].v \/ reg'[r].dbd # "NONE"
      BY <1>1 DEF StateFits
    <3> QED
      BY <3>1, <3>2, <3>3 DEF RegOf, PageOf
  <2>2. ProcOf(p)'
    BY <1>0, <1>1 DEF StateFits, ProcOf
  <2>3. ASSUME NEW q \in PgProcs \ {p}, at[q] = r PROVE ProcOf(q)'
    <3>1. reg[r].kind = "shared" /\ rp.kind = "shared"
      BY <1>0, <2>3 DEF PgInv, RefsExact, TypesFit
    <3>2. RegOf(r) /\ ProcOf(q) /\ loc'[q] = loc[q] /\ at'[q] = r
      BY <1>0, <1>1, <2>3 DEF PgInv, Actors
    <3>3. ~reg[r].cw /\ ~rp.cw
      BY <3>1, <3>2 DEF RegOf, PageOf, StateFits
    <3>4. loc[q].pc \in {"user", "vfault"} \/ Asleep(loc[q], "zero")
      BY <1>0, <2>3, <3>1, <3>2 DEF ProcOf, Fault
    <3> QED
      BY <1>0, <1>1, <2>3, <3>1, <3>2, <3>3, <3>4 DEF ProcOf, Fault, Asleep
  <2> QED
    BY <1>0, <1>1, <2>1, <2>2, <2>3 DEF Here
<1> QED
  BY <1>2, <1>4, <1>5, <1>6, <1>7, <1>8, <1>9, <1>1, <1>10, <1>11, ActorStep

-----------------------------------------------------------------------------
(* How a fault goes on *)

\* Process p is about to decide at x what to do; it has its region to itself.
Decides(p, r, x) ==
    /\ Alone(p, r) /\ x \in Spots /\ (x.inP => reg[r].cw)
    /\ ~Enters(loc[p]) /\ loc[p].pc # "idle" /\ loc[p].pc # "swapout"

\* What is known then.
Known(p, r) ==
    /\ reg[r] \in Rgns /\ loc[p] \in Spots
    /\ PageOf(reg[r], frame) /\ reg[r].refs # 0
    /\ reg[r].v \/ reg[r].dbd # "NONE"
    /\ Fault(loc[p], reg[r], frame)
    /\ reg[r].prot = Prot(reg[r]) \/ (reg[r].prot = "KW" /\ Enters(loc[p]))
    /\ TabsOK(PgTables) /\ freemem \in Nat /\ Len(freeq) \in Nat /\ loc[p].got \in Nat
    /\ Len(freeq) >= freemem + loc[p].got
    /\ \A f \in Frames : /\ frame[f] \in Pages /\ frame[f].use \in Nat
                         /\ Has(reg[r], loc[p], f) \/ Awaits(loc[p], f) => frame[f].use > 0
    /\ reg[r].dbd \in SwapBlks =>
          /\ ucnt[reg[r].dbd] \in Nat /\ ucnt[reg[r].dbd] > 0
          /\ ucnt[reg[r].dbd] = 1 => \A t \in Regions \ {r} : reg[t].dbd # reg[r].dbd
    /\ \A b \in SwapBlks : ucnt[b] \in Int
    /\ disk \in [SwapBlks -> Vals]
    /\ \A f \in Frames : frame[f].hash \in SwapBlks => ucnt[frame[f].hash] > 0

\* What is reserved is on the queue.
LEMMA QueueIsLong ==
    ASSUME MemExact, NEW p \in PgProcs, loc[p].got \in Nat, freemem \in Nat, Len(freeq) \in Nat
    PROVE  Len(freeq) >= freemem + loc[p].got
<1> PICK l, n : l = loc /\ n = loc[p].got
  OBVIOUS
<1>1. Promised = Piles(l, PgProcs)
  BY DEF Promised, Piles
<1>2. n \in Nat /\ n = (IF p \in PgProcs THEN l[p].got ELSE 0) /\ IsFiniteSet(Piles(l, PgProcs))
  BY <1>1 DEF MemExact
<1>3. /\ Cardinality(Piles(l, PgProcs \ {p})) \in Nat
      /\ Cardinality(Piles(l, PgProcs)) = Cardinality(Piles(l, PgProcs \ {p})) + n
  BY ONLY <1>2, PilesSplit
<1> QED
  BY <1>1, <1>2, <1>3 DEF MemExact

\* A page of swap that is used once is used by nobody else.
LEMMA SwapUsers ==
    ASSUME SwapExact, NEW r \in Regions, reg[r].dbd \in SwapBlks
    PROVE  /\ ucnt[reg[r].dbd] \in Nat /\ ucnt[reg[r].dbd] > 0
           /\ ucnt[reg[r].dbd] = 1 => \A t \in Regions \ {r} : reg[t].dbd # reg[r].dbd
<1> PICK b \in SwapBlks : b = reg[r].dbd
  OBVIOUS
<1> PICK S : S = Having(b)
  OBVIOUS
<1>1. IsFiniteSet(S) /\ r \in S
  <2>1. S \in SUBSET Regions
    BY DEF Having
  <2> QED
    BY <2>1, FS_Subset, TablesAssumption DEF Having
<1>2. /\ Cardinality(S) \in Nat /\ (Cardinality(S) = 0 <=> S = {})
      /\ \A x, y \in S : x # y => Cardinality(S) >= 2
  BY ONLY <1>1, CountFacts
<1>3. ucnt[b] = Cardinality(S)
  BY DEF SwapExact, Having
<1>4. \A t \in Regions \ {r} : reg[t].dbd = b => t \in S
  BY DEF Having
<1> QED
  BY <1>1, <1>2, <1>3, <1>4

\* All of this follows from the invariant.
LEMMA AloneKnown ==
    ASSUME PgInv, NEW p, NEW r, Alone(p, r)
    PROVE  Known(p, r)
<1>0. /\ p \in PgProcs /\ r \in Regions /\ at[p] = r /\ (~reg[r].lock \/ Locks(p, r)) /\ r # Null
      /\ PgTyped /\ TabsOK(PgTables) /\ RegOf(r) /\ ProcOf(p) /\ UsesExact /\ LocksExact
      /\ RefsExact /\ SwapExact /\ MemExact
  BY TablesAssumption DEF Alone, PgInv
<1>1. /\ reg[r] \in Rgns /\ loc[p] \in Spots /\ freemem \in Nat /\ loc[p].got \in Nat
      /\ disk \in [SwapBlks -> Vals]
  BY <1>0 DEF PgTyped, Spots
<1>2. /\ Len(freeq) \in Nat /\ \A f \in Frames : frame[f] \in Pages
      /\ \A b \in SwapBlks : ucnt[b] \in Int
      /\ \A f \in Frames : frame[f].hash \in SwapBlks => ucnt[frame[f].hash] > 0
  <2>1. /\ freeq \in Seq(Frames) /\ frame \in [Frames -> Pages] /\ ucnt \in [SwapBlks -> Int]
        /\ \A f \in Frames : frame[f].hash \in SwapBlks => ucnt[frame[f].hash] > 0
    BY <1>0 DEF TabsOK, Tables, PgTables
  <2>2. Len(freeq) \in Nat
    BY ONLY <2>1
  <2> QED
    BY <2>1, <2>2
<1>3. Len(freeq) >= freemem + loc[p].got
  BY <1>0, <1>1, <1>2, QueueIsLong
<1>4. ~Leaving(r) /\ (Entering(r) <=> Enters(loc[p]))
  <2>1. \A b \in Actors : b # p => ~Locks(b, r)
    BY <1>0 DEF LocksExact, Actors
  <2>2. \A d \in Daemons : loc[d].on # r
    BY <1>0, <2>1, TablesAssumption DEF Locks, Actors
  <2>3. \A q \in PgProcs : q # p /\ at[q] = r => ~Enters(loc[q])
    BY <1>0, <2>1 DEF Locks, Actors, Enters, LockedPCs
  <2> QED
    BY <1>0, <2>2, <2>3 DEF Leaving, Entering, Enters
<1>5. reg[r].refs # 0
  <2>1. p \in Attached(r) /\ reg[r].refs = Cardinality(Attached(r))
    BY <1>0 DEF Attached, RefsExact
  <2> QED
    BY <2>1, AttachedFinite, CountFacts
<1>6. /\ PageOf(reg[r], frame) /\ (reg[r].v \/ reg[r].dbd # "NONE")
      /\ reg[r].prot = Prot(reg[r]) \/ (reg[r].prot = "KW" /\ Enters(loc[p]))
  BY <1>0, <1>1, <1>4, <1>5 DEF RegOf, Rgns
<1>7. Fault(loc[p], reg[r], frame)
  BY <1>0 DEF ProcOf
<1>8. ASSUME NEW f \in Frames
      PROVE  /\ frame[f].use \in Nat
             /\ Has(reg[r], loc[p], f) \/ Awaits(loc[p], f) => frame[f].use > 0
  <2>1. Has(reg[r], loc[p], f) => r \in Using(f)
    BY <1>0, <1>4 DEF Has, Using
  <2>2. Awaits(loc[p], f) => p \in Waiting(f)
    BY <1>0 DEF Awaits, Waiting
  <2> QED
    BY <1>0, <2>1, <2>2, UserCounts
<1>9. reg[r].dbd \in SwapBlks =>
          /\ ucnt[reg[r].dbd] \in Nat /\ ucnt[reg[r].dbd] > 0
          /\ ucnt[reg[r].dbd] = 1 => \A t \in Regions \ {r} : reg[t].dbd # reg[r].dbd
  BY <1>0, SwapUsers
<1> QED
  BY <1>0, <1>1, <1>2, <1>3, <1>5, <1>6, <1>7, <1>8, <1>9 DEF Known

\* vfault returns.
LEMMA ReturnStep ==
    ASSUME PgInv, NEW p, NEW r, NEW x, Alone(p, r), x \in Spots, x.inP => reg[r].cw,
           NEW m, NEW rp, at' = at, PgReturn(p, m, x, rp),
           TabsOK(m), m.free \in Nat, rp \in Rgns, rp.v, rp.kind = reg[r].kind,
           rp.refs = reg[r].refs, rp.cw = reg[r].cw, rp.prot = Prot(rp),
           Len(m.q) - m.free = Len(freeq) - freemem - loc[p].got,
           UsesFit(p, r, m, rp, At("user")), SwapFits(r, m, rp), HashFits(p, r, m), PageOf(rp, m.fr)
    PROVE  PgInv'
<1> PICK y, z : /\ y = At(IF x.inP THEN "cow" ELSE "user")
                /\ z = [rp EXCEPT !.lock = x.inP]
  OBVIOUS
<1>0. /\ Alone(p, r) /\ x \in Spots /\ (x.inP => reg[r].cw) /\ Known(p, r) /\ x.inP \in BOOLEAN
      /\ r \in Regions /\ at[p] = r
  BY AloneKnown DEF Spots, Alone
<1>1. /\ y \in Spots /\ y.got = 0 /\ y.pc = (IF x.inP THEN "cow" ELSE "user") /\ ~y.inP /\ ~Enters(y)
      /\ y.for = "none" /\ \A f : ~Awaits(y, f)
  BY <1>0 DEF At, Spots, LockedPCs, FreePCs, Enters, Awaits
<1>2. /\ z \in Rgns /\ z.lock = x.inP /\ z.v /\ z.kind = rp.kind /\ z.refs = rp.refs
      /\ z.cw = rp.cw /\ z.prot = rp.prot /\ z.dbd = rp.dbd /\ z.pfn = rp.pfn /\ z.noswap = rp.noswap
  BY <1>0 DEF Rgns
<1>3. Goes(p, r, m, z, y)
  BY <1>0 DEF PgReturn, PgGoes, Goes, Known
<1>4. TypesFit(r, m, z, y)
  BY <1>0, <1>1, <1>2 DEF TypesFit, LockedPCs
<1>5. MemFits(p, m, y)
  <2>1. Len(m.q) \in Nat
    <3>1. m.q \in Seq(Frames)
      BY DEF TabsOK, Tables
    <3> QED
      BY ONLY <3>1
  <2> QED
    BY <1>1, <2>1 DEF MemFits
<1>6. UsesFit(p, r, m, z, y)
  <2>1. \A f : (Has(z, y, f) <=> Has(rp, At("user"), f)) /\ ~Awaits(At("user"), f)
    BY <1>1, <1>2 DEF Has, Awaits, At
  <2> QED
    BY <1>1, <2>1 DEF UsesFit, Bit
<1>7. SwapFits(r, m, z)
  BY <1>2 DEF SwapFits
<1>8. StateFits(m, z, y)
  <2>1. PageOf(z, m.fr)
    BY <1>0, <1>2 DEF PageOf, Known
  <2>2. z.prot = Prot(z)
    BY <1>2 DEF Prot
  <2>3. Fault(y, z, m.fr)
    <3>1. x.inP => z.cw /\ z.kind # "shared"
      BY <1>0, <1>2 DEF Known, PageOf
    <3> QED
      BY <1>1, <1>2, <3>1 DEF Fault, Asleep
  <2> QED
    BY <1>1, <1>2, <2>1, <2>2, <2>3 DEF StateFits
<1> QED
  BY <1>0, <1>3, <1>4, <1>5, <1>6, <1>7, <1>8, FaultStep

\* memreserve goes to sleep.
LEMMA WaitStep ==
    ASSUME PgInv, NEW p, NEW r, NEW x, Decides(p, r, x), x.got = 0,
           NEW m, NEW rp, NEW why \in Wants, at' = at, PgWait(p, m, x, why, rp),
           TabsOK(m), m.free \in Nat, m.u = ucnt, rp \in Rgns,
           \E pin \in BOOLEAN : rp = [reg[r] EXCEPT !.pin = pin],
           Len(m.q) - m.free = Len(freeq) - freemem - loc[p].got,
           \A f \in Frames : m.fr[f].use = frame[f].use,
           HashFits(p, r, m), PageOf(rp, m.fr), loc[p].pc # "hash",
           why = "zero" /\ rp.kind # "shared" => rp.dbd = "DZERO",
           why = "page" => ~rp.v /\ rp.dbd \in Blocks,
           why = "copy" => rp.v /\ rp.cw /\ rp.pin
    PROVE  PgInv'
<1> PICK y, z : /\ y = [x EXCEPT !.pc = "mem", !.for = why]
                /\ z = [rp EXCEPT !.lock = FALSE]
  OBVIOUS
<1>0. /\ Alone(p, r) /\ x \in Spots /\ (x.inP => reg[r].cw) /\ Known(p, r)
      /\ r \in Regions /\ at[p] = r /\ ~Enters(loc[p])
  BY AloneKnown DEF Decides, Alone
<1>1. /\ y \in Spots /\ y.got = 0 /\ y.pc = "mem" /\ y.inP = x.inP /\ ~Enters(y)
      /\ y.for = why /\ \A f : ~Awaits(y, f)
  BY <1>0 DEF Spots, LockedPCs, FreePCs, Enters, Awaits
<1>2. /\ z \in Rgns /\ ~z.lock /\ z.v = reg[r].v /\ z.kind = reg[r].kind /\ z.refs = reg[r].refs
      /\ z.cw = reg[r].cw /\ z.prot = reg[r].prot /\ z.dbd = reg[r].dbd /\ z.pfn = reg[r].pfn
      /\ z.noswap = reg[r].noswap /\ z.pin = rp.pin /\ z.kind = rp.kind /\ z.dbd = rp.dbd
      /\ z.v = rp.v /\ z.cw = rp.cw
  BY <1>0 DEF Rgns, Known
<1>3. Goes(p, r, m, z, y)
  BY <1>0 DEF PgWait, PgGoes, Goes, Known
<1>4. TypesFit(r, m, z, y)
  BY <1>0, <1>1, <1>2 DEF TypesFit, LockedPCs
<1>5. MemFits(p, m, y)
  <2>1. Len(m.q) \in Nat
    <3>1. m.q \in Seq(Frames)
      BY DEF TabsOK, Tables
    <3> QED
      BY ONLY <3>1
  <2> QED
    BY <1>1, <2>1 DEF MemFits
<1>6. UsesFit(p, r, m, z, y)
  <2>1. \A f : (Has(z, y, f) <=> Has(reg[r], loc[p], f)) /\ ~Awaits(loc[p], f)
    BY <1>0, <1>1, <1>2 DEF Has, Awaits
  <2> QED
    BY <1>0, <1>1, <2>1 DEF UsesFit, Bit, Known
<1>7. SwapFits(r, m, z)
  BY <1>0, <1>2 DEF SwapFits, Known, Bit
<1>8. StateFits(m, z, y)
  <2>1. PageOf(z, m.fr)
    <3>1. PageOf(rp, m.fr) /\ rp.refs = reg[r].refs /\ rp.noswap = reg[r].noswap /\ rp.pfn = reg[r].pfn
      BY <1>0 DEF Known, Rgns
    <3> QED
      BY <1>0, <1>2, <3>1 DEF PageOf, Known
  <2>2. z.prot = Prot(z)
    BY <1>0, <1>2 DEF Prot, Known
  <2>3. Fault(y, z, m.fr)
    <3>1. z.kind = "shared" => ~z.cw /\ z.dbd \notin Blocks
      BY <2>1, BlocksAssumption, TablesAssumption DEF PageOf, Blocks
    <3> QED
      BY <1>0, <1>1, <1>2, <3>1 DEF Fault, Asleep, Wants
  <2>4. z.v \/ z.dbd # "NONE"
    BY <1>0, <1>2 DEF Known
  <2>5. y.pc # "idle"
    BY <1>1
  <2> QED
    BY <2>1, <2>2, <2>3, <2>4, <2>5 DEF StateFits
<1> QED
  BY <1>0, <1>3, <1>4, <1>5, <1>6, <1>7, <1>8, FaultStep

\* The frame at the head of the queue is taken, and its page filled.
Taken(m, n, f) ==
    /\ f \in Frames /\ TabsOK(n) /\ Len(n.q) = Len(m.q) - 1 /\ Len(n.q) \in Nat
    /\ n.free = m.free /\ n.u = m.u /\ m.fr[f].use = 0
    /\ \A g \in Frames : /\ n.fr[g].use = m.fr[g].use + Bit(g = f)
                         /\ n.fr[g].hash = IF g = f THEN Null ELSE m.fr[g].hash

\* ptfill takes the frame at the head of the queue, and nothing else changes.
LEMMA TakenFacts ==
    ASSUME NEW m, TabsOK(m), Len(m.q) > 0
    PROVE  Taken(m, Ptfill(m), Head(m.q))
<1> PICK f, n : f = Head(m.q) /\ n = Ptfill(m)
  OBVIOUS
<1>1. /\ f \in Frames /\ m.fr[f].use = 0 /\ TabsOK(n)
      /\ n.fr = [m.fr EXCEPT ![f] =
                   [use |-> 1, hash |-> Null, done |-> FALSE, mod |-> FALSE, val |-> Junk]]
      /\ Len(n.q) = Len(m.q) - 1 /\ n.free = m.free /\ n.u = m.u
  BY TakeFacts
<1>2. m.fr \in [Frames -> Pages] /\ n.q \in Seq(Frames) /\ \A g \in Frames : m.fr[g].use \in Int
  BY <1>1 DEF TabsOK, Tables, Pages
<1>3. Len(n.q) \in Nat
  BY ONLY <1>2
<1>4. \A g \in Frames : /\ n.fr[g].use = m.fr[g].use + Bit(g = f)
                        /\ n.fr[g].hash = IF g = f THEN Null ELSE m.fr[g].hash
  BY <1>1, <1>2 DEF Bit
<1> QED
  BY <1>1, <1>3, <1>4 DEF Taken

\* The data of frames does not matter to the tables.
Refit(m, fr, k) == [m EXCEPT !.fr = fr, !.free = k]

Touched(m, n, k) ==
    /\ TabsOK(n) /\ n.q = m.q /\ n.u = m.u /\ n.free = k
    /\ \A g \in Frames : n.fr[g].use = m.fr[g].use /\ n.fr[g].hash = m.fr[g].hash

\* Frames whose use and block stay may change otherwise.
LEMMA DataFacts ==
    ASSUME NEW m, TabsOK(m), NEW k \in Int, NEW fr \in [Frames -> Pages],
           \A g \in Frames : fr[g].use = m.fr[g].use /\ fr[g].hash = m.fr[g].hash
    PROVE  Touched(m, Refit(m, fr, k), k) /\ Refit(m, fr, k).fr = fr
<1> PICK n : n = Refit(m, fr, k)
  OBVIOUS
<1>0. m \in Tables
  BY DEF TabsOK
<1>1. n \in Tables /\ n.q = m.q /\ n.u = m.u /\ n.free = k /\ n.fr = fr
  BY ONLY <1>0, k \in Int, fr \in [Frames -> Pages], n = Refit(m, fr, k) DEF Tables, Refit
<1>2. TabsOK(n)
  BY <1>1, SameTabs
<1> QED
  BY <1>1, <1>2 DEF Touched

\* One frame gets other data.
LEMMA PageFacts ==
    ASSUME NEW m, TabsOK(m), NEW f \in Frames, NEW pg \in Pages, NEW k \in Int,
           pg.use = m.fr[f].use, pg.hash = m.fr[f].hash, NEW fr, fr = [m.fr EXCEPT ![f] = pg]
    PROVE  Touched(m, Refit(m, fr, k), k) /\ Refit(m, fr, k).fr = fr
<1>0. m.fr \in [Frames -> Pages]
  BY DEF TabsOK, Tables
<1>1. /\ fr \in [Frames -> Pages]
      /\ \A g \in Frames : fr[g].use = m.fr[g].use /\ fr[g].hash = m.fr[g].hash
  BY <1>0
<1>2. TabsOK(m) /\ k \in Int
  OBVIOUS
<1> QED
  BY ONLY <1>1, <1>2, DataFacts, Zenon

\* A page filled with zeros.
LEMMA FillZeroStep ==
    ASSUME PgInv, NEW p, NEW r, NEW x, Alone(p, r), x \in Spots, x.inP => reg[r].cw,
           ~Enters(loc[p]), loc[p].pc # "hash", NEW m, at' = at, FillZero(p, m, x),
           TabsOK(m), m.fr = frame, m.q = freeq, m.u = ucnt, m.free \in Nat,
           m.free + 1 = freemem + loc[p].got, ~reg[r].v, reg[r].dbd = "DZERO"
    PROVE  PgInv'
<1> PICK f, o : f = Head(m.q) /\ o = Ptfill(m)
  OBVIOUS
<1> PICK rp : rp = [reg[r] EXCEPT !.pfn = f, !.v = TRUE, !.dbd = "NONE", !.prot = Prot(reg[r])]
  OBVIOUS
<1>0. Known(p, r) /\ at[p] = r
  BY AloneKnown DEF Alone
<1>1. Taken(m, o, f)
  <2>1. Len(m.q) > 0
    BY <1>0 DEF Known
  <2> QED
    BY <2>1, TakenFacts
<1>2. PICK n : n = [o EXCEPT !.fr[f].val = Zero]
  OBVIOUS
<1>3. Touched(o, n, o.free)
  <2> PICK pg, fr : pg = [o.fr[f] EXCEPT !.val = Zero] /\ fr = [o.fr EXCEPT ![f] = pg]
    OBVIOUS
  <2>1. /\ o \in Tables /\ f \in Frames /\ o.fr \in [Frames -> Pages] /\ o.fr[f] \in Pages
        /\ o.free \in Int /\ TabsOK(o)
    BY <1>1 DEF Taken, TabsOK, Tables
  <2>2. pg \in Pages /\ pg.use = o.fr[f].use /\ pg.hash = o.fr[f].hash
    BY <2>1 DEF Pages, Vals
  <2>3. n = Refit(o, fr, o.free)
    <3>1. n = [o EXCEPT !.fr = fr]
      BY <1>2
    <3> QED
      BY ONLY <2>1, <3>1 DEF Tables, Refit
  <2>4. fr = [o.fr EXCEPT ![f] = pg]
    OBVIOUS
  <2>5. Touched(o, Refit(o, fr, o.free), o.free)
    BY ONLY <2>1, <2>2, <2>4, PageFacts
  <2> QED
    BY ONLY <2>3, <2>5, Zenon
<1>4. PgReturn(p, n, x, rp)
  BY <1>0, <1>2 DEF FillZero
<1>5. /\ rp \in Rgns /\ rp.v /\ rp.kind = reg[r].kind /\ rp.refs = reg[r].refs
      /\ rp.cw = reg[r].cw /\ rp.prot = Prot(rp) /\ rp.pfn = f /\ rp.dbd = "NONE"
      /\ rp.noswap = reg[r].noswap
  BY <1>0, <1>1 DEF Known, Rgns, Taken, Prot
<1>6. n.free \in Nat /\ Len(n.q) - n.free = Len(freeq) - freemem - loc[p].got
  <2>1. /\ n.free = m.free /\ Len(n.q) = Len(freeq) - 1
    BY <1>1, <1>3 DEF Touched, Taken
  <2>2. /\ Len(freeq) \in Nat /\ freemem \in Nat /\ loc[p].got \in Nat /\ m.free \in Nat
        /\ m.free + 1 = freemem + loc[p].got
    BY <1>0 DEF Known
  <2>3. n.free = m.free
    BY <2>1
  <2>4. n.free \in Nat
    BY <2>2, <2>3
  <2> QED
    BY ONLY <2>1, <2>2, <2>4
<1>7. UsesFit(p, r, n, rp, At("user"))
  <2> SUFFICES ASSUME NEW g \in Frames
               PROVE  n.fr[g].use = frame[g].use + Bit(Has(rp, At("user"), g))
                          - Bit(Has(reg[r], loc[p], g)) + Bit(Awaits(At("user"), g))
                          - Bit(Awaits(loc[p], g))
    BY DEF UsesFit
  <2>1. n.fr[g].use = frame[g].use + Bit(g = f)
    BY <1>1, <1>3 DEF Touched, Taken
  <2>2. /\ Has(rp, At("user"), g) <=> g = f
        /\ ~Has(reg[r], loc[p], g) /\ ~Awaits(At("user"), g) /\ ~Awaits(loc[p], g)
    BY <1>5 DEF Has, Awaits, At, Enters
  <2>3. frame[g].use \in Int
    BY <1>0 DEF Known
  <2> QED
    BY <2>1, <2>2, <2>3 DEF Bit
<1>8. SwapFits(r, n, rp)
  <2>1. \A b \in SwapBlks : b # "NONE" /\ b # "DZERO" /\ ucnt[b] \in Int
    BY <1>0, TablesAssumption DEF Known
  <2> QED
    BY <1>1, <1>3, <1>5, <2>1 DEF SwapFits, Bit, Taken, Touched
<1>9. HashFits(p, r, n)
  BY <1>1, <1>3 DEF HashFits, Taken, Touched
<1>10. PageOf(rp, n.fr)
  BY <1>0, <1>1, <1>3, <1>5, BlocksAssumption, TablesAssumption DEF PageOf, Known, Taken, Touched, Blocks
<1> QED
  BY <1>3, <1>4, <1>5, <1>6, <1>7, <1>8, <1>9, <1>10, ReturnStep, SMTT(60), ZenonT(60) DEF Touched

\* The page has been found in frame f, which has its reference already.
LEMMA LatchStep ==
    ASSUME PgInv, NEW p, NEW r, NEW x, Alone(p, r), x \in Spots, x.inP => reg[r].cw,
           ~Enters(loc[p]),
           NEW m, NEW f \in Frames, at' = at, Latch(p, m, x, f), TabsOK(m), m.u = ucnt,
           m.free + x.got \in Nat,
           Len(m.q) - m.free - x.got = Len(freeq) - freemem - loc[p].got,
           ~reg[r].v, reg[r].dbd \in Blocks, frame[f].hash = reg[r].dbd,
           \A g \in Frames : /\ m.fr[g].use = frame[g].use + Bit(g = f) - Bit(Awaits(loc[p], g))
                             /\ m.fr[g].hash = frame[g].hash
    PROVE  PgInv'
<1> PICK rp : rp = [reg[r] EXCEPT !.v = TRUE, !.pfn = f]
  OBVIOUS
<1> PICK n : n = [m EXCEPT !.fr[f].mod = FALSE, !.free = @ + x.got]
  OBVIOUS
<1>0. Known(p, r) /\ at[p] = r
  BY AloneKnown DEF Alone
<1>1. Touched(m, n, m.free + x.got)
  <2> PICK pg, fr, k : /\ pg = [m.fr[f] EXCEPT !.mod = FALSE] /\ fr = [m.fr EXCEPT ![f] = pg]
                       /\ k = m.free + x.got
    OBVIOUS
  <2>1. m \in Tables /\ m.fr[f] \in Pages /\ k \in Int /\ TabsOK(m) /\ f \in Frames
    BY DEF TabsOK, Tables
  <2>2. pg \in Pages /\ pg.use = m.fr[f].use /\ pg.hash = m.fr[f].hash
    BY <2>1 DEF Pages
  <2>3. n = Refit(m, fr, k)
    BY DEF Refit
  <2>4. fr = [m.fr EXCEPT ![f] = pg]
    OBVIOUS
  <2>5. Touched(m, Refit(m, fr, k), k)
    BY ONLY <2>1, <2>2, <2>4, PageFacts
  <2> QED
    BY <2>3, <2>5, Zenon
<1>2. PgReturn(p, n, x, rp)
  BY <1>0 DEF Latch
<1>3. reg[r].kind # "shared" /\ reg[r].prot = Prot(reg[r])
  BY <1>0, BlocksAssumption, TablesAssumption DEF Known, PageOf, Blocks
<1>4. /\ rp \in Rgns /\ rp.v /\ rp.kind = reg[r].kind /\ rp.refs = reg[r].refs
      /\ rp.cw = reg[r].cw /\ rp.prot = reg[r].prot /\ rp.pfn = f /\ rp.dbd = reg[r].dbd
  BY <1>0 DEF Known, Rgns
<1>5. rp.prot = Prot(rp)
  BY <1>3, <1>4 DEF Prot
<1>6. n.free \in Nat /\ Len(n.q) - n.free = Len(freeq) - freemem - loc[p].got
  <2>1. n.q = m.q /\ n.free = m.free + x.got
    BY <1>1 DEF Touched
  <2>2. m.q \in Seq(Frames) /\ m.free \in Int
    BY DEF TabsOK, Tables
  <2>3. Len(m.q) \in Nat
    BY ONLY <2>2
  <2>4. loc[p].got \in Nat /\ Len(freeq) \in Nat /\ freemem \in Nat /\ x.got \in Nat
    BY <1>0 DEF Known, Spots
  <2> QED
    BY <2>1, <2>2, <2>3, <2>4
<1>7. UsesFit(p, r, n, rp, At("user"))
  <2> SUFFICES ASSUME NEW g \in Frames
               PROVE  n.fr[g].use = frame[g].use + Bit(Has(rp, At("user"), g))
                          - Bit(Has(reg[r], loc[p], g)) + Bit(Awaits(At("user"), g))
                          - Bit(Awaits(loc[p], g))
    BY DEF UsesFit
  <2>1. n.fr[g].use = frame[g].use + Bit(g = f) - Bit(Awaits(loc[p], g))
    BY <1>1 DEF Touched
  <2>2. /\ Has(rp, At("user"), g) <=> g = f
        /\ ~Has(reg[r], loc[p], g) /\ ~Awaits(At("user"), g)
    BY <1>4 DEF Has, Awaits, At, Enters
  <2>3. frame[g].use \in Int
    BY <1>0 DEF Known
  <2> QED
    BY <2>1, <2>2, <2>3 DEF Bit
<1>8. SwapFits(r, n, rp)
  <2>1. \A b \in SwapBlks : ucnt[b] \in Int
    BY <1>0 DEF Known
  <2> QED
    BY <1>1, <1>4, <2>1 DEF SwapFits, Bit, Touched
<1>9. HashFits(p, r, n)
  BY <1>1 DEF HashFits, Touched
<1>10. PageOf(rp, n.fr)
  BY <1>0, <1>1, <1>3, <1>4, BlocksAssumption, TablesAssumption DEF PageOf, Known, Touched, Blocks
<1>11. TabsOK(n)
  BY <1>1 DEF Touched
<1>12. /\ PgInv /\ Alone(p, r) /\ x \in Spots /\ (x.inP => reg[r].cw) /\ at' = at
  OBVIOUS
<1> QED
  BY ONLY <1>2, <1>4, <1>5, <1>6, <1>7, <1>8, <1>9, <1>10, <1>11, <1>12, ReturnStep

\* Memory that is taken from what is free is promised.
LEMMA Balance ==
    ASSUME NEW n \in Int, NEW a \in Int, NEW b \in Int, NEW c \in Int, NEW d \in Int,
           a + b = c + d
    PROVE  n - a - b = n - c - d
OBVIOUS

\* The page is on its way in already: p waits until it is there.
LEMMA HashWaitStep ==
    ASSUME PgInv, NEW p, NEW r, NEW x, Decides(p, r, x), loc[p].pc # "hash",
           NEW m, NEW f \in Frames, at' = at, PgBecomes(m), UNCHANGED disk,
           reg' = [reg EXCEPT ![r].lock = TRUE],
           loc' = [loc EXCEPT ![p] = [x EXCEPT !.pc = "hash", !.on = f]],
           TabsOK(m), m.u = ucnt, m.free \in Nat, m.free + x.got = freemem + loc[p].got,
           m.q = freeq, ~reg[r].v, reg[r].dbd \in Blocks, frame[f].hash = reg[r].dbd,
           \A g \in Frames : /\ m.fr[g].use = frame[g].use + Bit(g = f)
                             /\ m.fr[g].hash = frame[g].hash
    PROVE  PgInv'
<1> PICK y, z : /\ y = [x EXCEPT !.pc = "hash", !.on = f]
                /\ z = [reg[r] EXCEPT !.lock = TRUE]
  OBVIOUS
<1>0. /\ Alone(p, r) /\ x \in Spots /\ (x.inP => reg[r].cw) /\ Known(p, r)
      /\ r \in Regions /\ at[p] = r /\ ~Enters(loc[p]) /\ x.got \in Nat
  BY AloneKnown DEF Decides, Alone, Spots
<1>1. /\ y \in Spots /\ y.got = x.got /\ y.pc = "hash" /\ y.inP = x.inP /\ ~Enters(y)
      /\ y.on = f
  BY <1>0 DEF Spots, LockedPCs, FreePCs, Enters
<1>2. /\ z \in Rgns /\ z.lock /\ z.v = reg[r].v /\ z.kind = reg[r].kind /\ z.refs = reg[r].refs
      /\ z.cw = reg[r].cw /\ z.prot = reg[r].prot /\ z.dbd = reg[r].dbd /\ z.pfn = reg[r].pfn
      /\ z.noswap = reg[r].noswap
  BY <1>0 DEF Rgns, Known
<1>3. Goes(p, r, m, z, y)
  BY <1>0 DEF Goes, Known
<1>4. TypesFit(r, m, z, y)
  BY <1>0, <1>1, <1>2 DEF TypesFit, LockedPCs, Known
<1>5. MemFits(p, m, y)
  <2>1. /\ m.free \in Int /\ m.free + y.got = freemem + loc[p].got
        /\ y.got \in Int /\ freemem \in Int /\ loc[p].got \in Int /\ Len(freeq) \in Int
    BY <1>0, <1>1 DEF Known
  <2>2. Len(freeq) - m.free - y.got = Len(freeq) - freemem - loc[p].got
    BY ONLY <2>1, Balance, SMT
  <2>3. m.q = freeq
    OBVIOUS
  <2> QED
    BY ONLY <2>2, <2>3, Zenon DEF MemFits
<1>6. UsesFit(p, r, m, z, y)
  <2> SUFFICES ASSUME NEW g \in Frames
               PROVE  m.fr[g].use = frame[g].use + Bit(Has(z, y, g)) - Bit(Has(reg[r], loc[p], g))
                          + Bit(Awaits(y, g)) - Bit(Awaits(loc[p], g))
    BY DEF UsesFit
  <2>1. /\ Has(z, y, g) <=> Has(reg[r], loc[p], g)
        /\ ~Awaits(loc[p], g) /\ (Awaits(y, g) <=> g = f)
    BY <1>0, <1>1, <1>2 DEF Has, Awaits
  <2>2. frame[g].use \in Int /\ m.fr[g].use = frame[g].use + Bit(g = f)
    BY <1>0 DEF Known
  <2> QED
    BY <2>1, <2>2 DEF Bit
<1>7. SwapFits(r, m, z)
  BY <1>0, <1>2 DEF SwapFits, Known, Bit
<1>8. HashFits(p, r, m)
  BY DEF HashFits
<1>9. StateFits(m, z, y)
  <2>1. PageOf(z, m.fr) /\ z.kind # "shared"
    BY <1>0, <1>2, BlocksAssumption, TablesAssumption DEF PageOf, Known, Blocks
  <2>2. z.prot = Prot(z)
    BY <1>0, <1>2 DEF Prot, Known
  <2>3. Fault(y, z, m.fr)
    BY <1>0, <1>1, <1>2, <2>1 DEF Fault, Asleep
  <2>4. z.dbd # "NONE" /\ y.pc # "idle"
    BY <1>1, <1>2, TablesAssumption DEF Blocks
  <2> QED
    BY <2>1, <2>2, <2>3, <2>4 DEF StateFits
<1> QED
  BY <1>0, <1>3, <1>4, <1>5, <1>6, <1>7, <1>8, <1>9, FaultStep

\* A frame is taken and entered under the block of the region.
LEMMA EnteredFacts ==
    ASSUME NEW m, TabsOK(m), Len(m.q) > 0, m.free \in Nat, NEW b \in Blocks,
           \A g \in Frames : m.fr[g].hash # b, b \in SwapBlks => m.u[b] > 0,
           NEW f, f = Head(m.q), NEW n, n = Pinsert(Ptfill([m EXCEPT !.free = @ + Prep]), f, b)
    PROVE  /\ f \in Frames /\ TabsOK(n) /\ Len(n.q) = Len(m.q) - 1 /\ Len(n.q) \in Nat
           /\ n.free = m.free + Prep /\ n.u = m.u /\ m.fr[f].use = 0
           /\ \A g \in Frames : /\ n.fr[g].use = m.fr[g].use + Bit(g = f)
                                /\ n.fr[g].hash = IF g = f THEN b ELSE m.fr[g].hash
<1> PICK k, l : k = [m EXCEPT !.free = @ + Prep] /\ l = Ptfill(k)
  OBVIOUS
<1>0. m \in Tables /\ m.fr \in [Frames -> Pages] /\ m.free + Prep \in Int
  BY PrepAssumption DEF TabsOK, Tables
<1>1. Touched(m, k, m.free + Prep) /\ k.fr = m.fr
  <2> PICK i \in Int : i = m.free + Prep
    BY <1>0
  <2>1. k = Refit(m, m.fr, i)
    BY <1>0 DEF Refit, Tables
  <2>2. Touched(m, Refit(m, m.fr, i), i)
    BY <1>0, DataFacts
  <2>3. k.fr = m.fr
    BY <1>0 DEF Tables
  <2> QED
    BY <2>1, <2>2, <2>3, Zenon
<1>2. Taken(k, l, f)
  <2>1. TabsOK(k) /\ Len(k.q) > 0 /\ f = Head(k.q) /\ l = Ptfill(k)
    BY <1>1 DEF Touched
  <2> QED
    BY ONLY <2>1, TakenFacts, Zenon
<1>3. n = Pinsert(l, f, b) /\ f \in Frames /\ TabsOK(l) /\ l.fr \in [Frames -> Pages]
  BY <1>2 DEF Taken, TabsOK, Tables
<1>4. \A g \in Frames : /\ l.fr[g].use = m.fr[g].use + Bit(g = f)
                        /\ l.fr[g].hash = IF g = f THEN Null ELSE m.fr[g].hash
  BY <1>1, <1>2 DEF Taken
<1>5. /\ TabsOK(n) /\ n.fr = [l.fr EXCEPT ![f].hash = b] /\ n.q = l.q /\ n.free = l.free
      /\ n.u = l.u
  <2>1. /\ \A g \in Frames : l.fr[g].hash # b
        /\ b \in SwapBlks => l.u[b] > 0
    BY <1>1, <1>2, <1>4, BlocksAssumption DEF Blocks, Taken, Touched
  <2> QED
    BY <1>3, <2>1, PinsertFacts
<1>6. \A g \in Frames : /\ n.fr[g].use = m.fr[g].use + Bit(g = f)
                        /\ n.fr[g].hash = IF g = f THEN b ELSE m.fr[g].hash
  <2> SUFFICES ASSUME NEW g \in Frames
               PROVE  /\ n.fr[g].use = l.fr[g].use
                      /\ n.fr[g].hash = IF g = f THEN b ELSE l.fr[g].hash
    BY <1>4
  <2>1. l.fr[g] \in Pages /\ l.fr[f] \in Pages
    BY <1>3
  <2>2. CASE g = f
    BY SMTT(60), ZenonT(60), <1>3, <1>5, <2>1, <2>2 DEF Pages
  <2>3. CASE g # f
    BY <1>3, <1>5, <2>1, <2>3
  <2> QED
    BY <2>2, <2>3
<1>7. Len(n.q) = Len(m.q) - 1 /\ Len(n.q) \in Nat /\ n.free = m.free + Prep /\ n.u = m.u
      /\ m.fr[f].use = 0
  BY <1>1, <1>2, <1>5 DEF Taken, Touched
<1> QED
  BY <1>3, <1>5, <1>6, <1>7

\* The transfer of a page begins.
LEMMA ReadStep ==
    ASSUME PgInv, NEW p, NEW r, NEW x, Decides(p, r, x), loc[p].pc # "hash",
           NEW m, at' = at, Read(p, m, x), TabsOK(m), m.u = ucnt, m.q = freeq, m.free \in Nat,
           m.free + Prep + 1 = freemem + loc[p].got, ~reg[r].v, reg[r].dbd \in Blocks,
           \A g \in Frames : /\ m.fr[g].use = frame[g].use /\ m.fr[g].hash # reg[r].dbd
                             /\ m.fr[g].hash = frame[g].hash \/ frame[g].use = 0
                             /\ m.fr[g].hash \in {frame[g].hash, Null}
    PROVE  PgInv'
<1> PICK f, b, n : /\ f = Head(m.q) /\ b = reg[r].dbd
                   /\ n = Pinsert(Ptfill([m EXCEPT !.free = @ + Prep]), f, b)
  OBVIOUS
<1> PICK file \in BOOLEAN : file <=> b = File
  OBVIOUS
<1> PICK y, z :
        /\ y = [x EXCEPT !.pc = IF b = File THEN "file" ELSE "window", !.got = 0, !.on = f]
        /\ z = [reg[r] EXCEPT !.lock = TRUE, !.pfn = f, !.v = file,
                              !.prot = IF b = File THEN "KW" ELSE Prot(reg[r])]
  OBVIOUS
<1>0. /\ Alone(p, r) /\ x \in Spots /\ (x.inP => reg[r].cw) /\ Known(p, r) /\ f = Head(freeq)
      /\ r \in Regions /\ at[p] = r /\ ~Enters(loc[p]) /\ b \in Blocks
  BY AloneKnown DEF Decides, Alone
<1>1. /\ f \in Frames /\ TabsOK(n) /\ Len(n.q) = Len(m.q) - 1 /\ Len(n.q) \in Nat
      /\ n.free = m.free + Prep /\ n.u = m.u /\ m.fr[f].use = 0
      /\ \A g \in Frames : /\ n.fr[g].use = m.fr[g].use + Bit(g = f)
                           /\ n.fr[g].hash = IF g = f THEN b ELSE m.fr[g].hash
  <2>1. Len(m.q) > 0
    <3>1. Len(freeq) >= m.free + Prep + 1 /\ Len(freeq) \in Nat
      BY <1>0 DEF Known
    <3> QED
      BY <3>1, PrepAssumption
  <2>2. b \in SwapBlks => m.u[b] > 0
    BY <1>0 DEF Known
  <2>3. \A g \in Frames : m.fr[g].hash # b
    OBVIOUS
  <2>4. /\ TabsOK(m) /\ m.free \in Nat /\ b \in Blocks /\ f = Head(m.q)
        /\ n = Pinsert(Ptfill([m EXCEPT !.free = @ + Prep]), f, b)
    BY <1>0
  <2> QED
    BY ONLY <2>1, <2>2, <2>3, <2>4, EnteredFacts
<1>2. /\ y \in Spots /\ y.got = 0 /\ y.pc = (IF b = File THEN "file" ELSE "window")
      /\ y.inP = x.inP /\ Enters(y) /\ y.on = f /\ \A g : ~Awaits(y, g)
  BY <1>0, <1>1 DEF Spots, LockedPCs, FreePCs, Enters, Awaits
<1>3. /\ z \in Rgns /\ z.lock /\ (z.v <=> b = File) /\ z.kind = reg[r].kind /\ z.refs = reg[r].refs
      /\ z.cw = reg[r].cw /\ z.dbd = b /\ z.pfn = f /\ z.noswap = reg[r].noswap
      /\ z.prot = IF b = File THEN "KW" ELSE Prot(reg[r])
  BY ZenonT(60), <1>0, <1>1 DEF Rgns, Known, Prot
<1>4. Goes(p, r, n, z, y)
  <2>1. z = [reg[r] EXCEPT !.lock = TRUE, !.pfn = f, !.v = (b = File),
                           !.prot = IF b = File THEN "KW" ELSE Prot(reg[r])]
    <3>1. file = (b = File)
      BY Zenon
    <3> QED
      BY <3>1
  <2>2. PgBecomes(n) /\ UNCHANGED disk /\ loc' = [loc EXCEPT ![p] = y]
    BY <1>0 DEF Read, PgGoes
  <2>3. reg' = [reg EXCEPT ![r] = z]
    BY <1>0, <2>1 DEF Read
  <2> QED
    BY <1>0, <2>2, <2>3 DEF Goes, Known
<1>5. TypesFit(r, n, z, y)
  BY <1>0, <1>1, <1>2, <1>3, PrepAssumption DEF TypesFit, LockedPCs
<1>6. MemFits(p, n, y)
  <2>1. Len(freeq) \in Nat /\ freemem \in Nat /\ loc[p].got \in Nat
    BY <1>0 DEF Known
  <2>2. /\ Len(n.q) = Len(freeq) - 1 /\ n.free = m.free + Prep /\ y.got = 0
        /\ m.free \in Nat /\ m.free + Prep + 1 = freemem + loc[p].got
    BY <1>1, <1>2
  <2>3. Len(n.q) - n.free - y.got = Len(freeq) - freemem - loc[p].got
    <3> PICK i \in Nat, j \in Nat, k \in Nat, l \in Nat, h \in Nat :
            /\ i = Len(freeq) /\ j = freemem /\ k = loc[p].got /\ l = m.free /\ h = Prep
      BY <2>1, <2>2, PrepAssumption
    <3>1. Len(n.q) = i - 1 /\ n.free = l + h /\ y.got = 0 /\ l + h + 1 = j + k
      BY <2>2
    <3>2. (i - 1) - (l + h) - 0 = i - j - k
      BY ONLY <3>1, i \in Nat, j \in Nat, k \in Nat, l \in Nat, h \in Nat
    <3> QED
      BY <3>1, <3>2
  <2> QED
    BY <2>3 DEF MemFits
<1>7. UsesFit(p, r, n, z, y)
  <2> SUFFICES ASSUME NEW g \in Frames
               PROVE  n.fr[g].use = frame[g].use + Bit(Has(z, y, g)) - Bit(Has(reg[r], loc[p], g))
                          + Bit(Awaits(y, g)) - Bit(Awaits(loc[p], g))
    BY DEF UsesFit
  <2>1. /\ Has(z, y, g) <=> g = f
        /\ ~Has(reg[r], loc[p], g) /\ ~Awaits(loc[p], g) /\ ~Awaits(y, g)
    BY <1>0, <1>2, <1>3 DEF Has, Awaits
  <2>2. frame[g].use \in Int
    BY <1>0 DEF Known
  <2>3. n.fr[g].use = m.fr[g].use + Bit(g = f) /\ m.fr[g].use = frame[g].use
    BY <1>1
  <2> QED
    BY <2>1, <2>2, <2>3 DEF Bit
<1>8. SwapFits(r, n, z)
  BY <1>0, <1>1, <1>3 DEF SwapFits, Known, Bit
<1>9. HashFits(p, r, n)
  <2>1. frame[f].use = 0
    BY <1>1
  <2> QED
    BY <1>1, <2>1 DEF HashFits
<1>10. StateFits(n, z, y)
  <2>1. reg[r].kind # "shared" /\ b # "NONE" /\ b # "DZERO"
    BY <1>0, BlocksAssumption, TablesAssumption DEF PageOf, Known, Blocks
  <2>2. PageOf(z, n.fr)
    BY <1>0, <1>1, <1>3, <2>1 DEF PageOf, Known
  <2>3. z.prot = Prot(z) \/ (z.prot = "KW" /\ Enters(y))
    BY <1>2, <1>3 DEF Prot
  <2>4. Fault(y, z, n.fr)
    <3>1. CASE b = File
      BY <1>0, <1>1, <1>2, <1>3, <2>1, <3>1 DEF Fault, Asleep
    <3>2. CASE b # File
      BY <1>0, <1>1, <1>2, <1>3, <2>1, <3>2 DEF Fault, Asleep, Blocks
    <3> QED
      BY <3>1, <3>2
  <2> QED
    BY <1>2, <1>3, <2>1, <2>2, <2>3, <2>4 DEF StateFits
<1> QED
  BY <1>0, <1>4, <1>5, <1>6, <1>7, <1>8, <1>9, <1>10, FaultStep

\* The region has frame f for itself and may write to it.
LEMMA WritableStep ==
    ASSUME PgInv, NEW p, NEW r, Alone(p, r), ~Enters(loc[p]), loc[p].pc # "hash",
           NEW m, NEW f \in Frames, at' = at, Writable(p, m, f),
           TabsOK(m), m.free \in Nat, Len(m.q) - m.free = Len(freeq) - freemem - loc[p].got,
           \A g \in Frames : m.fr[g].use = frame[g].use + Bit(g = f) - Bit(g = reg[r].pfn),
           \A b \in SwapBlks : m.u[b] = ucnt[b] - Bit(reg[r].dbd = b),
           HashFits(p, r, m), m.fr[f].hash # File, reg[r].v, reg[r].cw
    PROVE  PgInv'
<1> PICK n : n = [m EXCEPT !.fr[f].mod = TRUE]
  OBVIOUS
<1> PICK y, z : /\ y = At("user")
                /\ z = [reg[r] EXCEPT !.lock = FALSE, !.v = TRUE, !.pfn = f, !.cw = FALSE,
                                      !.prot = "UW", !.pin = FALSE, !.dbd = "NONE"]
  OBVIOUS
<1>0. Known(p, r) /\ r \in Regions /\ at[p] = r
  BY AloneKnown DEF Alone
<1>1. Touched(m, n, m.free)
  <2> PICK pg, fr, k : /\ pg = [m.fr[f] EXCEPT !.mod = TRUE] /\ fr = [m.fr EXCEPT ![f] = pg]
                       /\ k = m.free
    OBVIOUS
  <2>1. m \in Tables /\ m.fr[f] \in Pages /\ k \in Int /\ TabsOK(m) /\ f \in Frames
    BY DEF TabsOK, Tables
  <2>2. pg \in Pages /\ pg.use = m.fr[f].use /\ pg.hash = m.fr[f].hash
    BY <2>1 DEF Pages
  <2>3. n = Refit(m, fr, k)
    <3>1. n = [m EXCEPT !.fr = fr]
      OBVIOUS
    <3>2. k = m.free
      OBVIOUS
    <3> QED
      BY ONLY <2>1, <3>1, <3>2 DEF Refit, Tables
  <2>4. fr = [m.fr EXCEPT ![f] = pg]
    OBVIOUS
  <2>5. Touched(m, Refit(m, fr, k), k)
    BY ONLY <2>1, <2>2, <2>4, PageFacts
  <2> QED
    BY <2>3, <2>5, Zenon
<1>2. y \in Spots /\ y.got = 0 /\ y.pc = "user" /\ ~y.inP /\ ~Enters(y) /\ \A g : ~Awaits(y, g)
  BY DEF Spots, LockedPCs, FreePCs, Enters, Awaits, At
<1>3. /\ z \in Rgns /\ ~z.lock /\ z.v /\ z.pfn = f /\ z.kind = reg[r].kind /\ z.refs = reg[r].refs
      /\ ~z.cw /\ z.prot = "UW" /\ z.dbd = "NONE" /\ z.kind # "shared"
  BY <1>0 DEF Rgns, Known, PageOf
<1>4. Goes(p, r, n, z, y)
  <2>1. PgBecomes(n) /\ UNCHANGED disk /\ loc' = [loc EXCEPT ![p] = y]
    BY DEF Writable, PgGoes
  <2>2. reg' = [reg EXCEPT ![r] = z]
    BY <1>0 DEF Writable
  <2> QED
    BY <1>0, <2>1, <2>2 DEF Goes, Known
<1>5. TypesFit(r, n, z, y)
  BY <1>1, <1>2, <1>3 DEF TypesFit, LockedPCs, Touched
<1>6. MemFits(p, n, y)
  <2>1. m.q \in Seq(Frames) /\ loc[p].got \in Nat /\ freemem \in Nat /\ Len(freeq) \in Nat
    BY <1>0 DEF TabsOK, Tables, Known
  <2>2. Len(m.q) \in Nat
    BY ONLY <2>1
  <2> QED
    BY <1>1, <1>2, <2>1, <2>2 DEF MemFits, Touched
<1>7. UsesFit(p, r, n, z, y)
  <2> SUFFICES ASSUME NEW g \in Frames
               PROVE  n.fr[g].use = frame[g].use + Bit(Has(z, y, g)) - Bit(Has(reg[r], loc[p], g))
                          + Bit(Awaits(y, g)) - Bit(Awaits(loc[p], g))
    BY DEF UsesFit
  <2>1. /\ Has(z, y, g) <=> g = f
        /\ Has(reg[r], loc[p], g) <=> g = reg[r].pfn
        /\ ~Awaits(loc[p], g) /\ ~Awaits(y, g)
    BY <1>2, <1>3 DEF Has, Awaits
  <2>2. frame[g].use \in Int
    BY <1>0 DEF Known
  <2>3. n.fr[g].use = frame[g].use + Bit(g = f) - Bit(g = reg[r].pfn)
    BY <1>1 DEF Touched
  <2> QED
    BY <2>1, <2>2, <2>3 DEF Bit
<1>8. SwapFits(r, n, z)
  <2>1. \A b \in SwapBlks : ucnt[b] \in Int /\ b # "NONE"
    BY <1>0, TablesAssumption DEF Known
  <2> QED
    BY <1>1, <1>3, <2>1 DEF SwapFits, Bit, Touched
<1>9. HashFits(p, r, n)
  BY <1>1 DEF HashFits, Touched
<1>10. StateFits(n, z, y)
  <2>1. PageOf(z, n.fr)
    <3>1. z.refs # 0 /\ z.kind # "unused"
      BY <1>0, <1>3 DEF PageOf, Known
    <3>2. n.fr[f].hash # File
      BY <1>1 DEF Touched
    <3>3. z.dbd \notin Blocks /\ z.dbd # "DZERO"
      BY <1>3, TablesAssumption DEF Blocks
    <3> QED
      BY <1>3, <3>1, <3>2, <3>3 DEF PageOf
  <2>2. z.prot = Prot(z)
    BY <1>3 DEF Prot
  <2>3. Fault(y, z, n.fr)
    BY <1>2, <1>3 DEF Fault, Asleep
  <2> QED
    BY <1>2, <1>3, <2>1, <2>2, <2>3 DEF StateFits
<1> QED
  BY <1>4, <1>5, <1>6, <1>7, <1>8, <1>9, <1>10, FaultStep

\* The page is copied into a new frame.
LEMMA CopyPageStep ==
    ASSUME PgInv, NEW p, NEW r, Alone(p, r), ~Enters(loc[p]), loc[p].pc # "hash",
           NEW m, at' = at, CopyPage(p, m), TabsOK(m), m.fr = frame, m.q = freeq, m.u = ucnt,
           m.free \in Nat, m.free + 1 = freemem + loc[p].got, reg[r].v, reg[r].cw
    PROVE  PgInv'
<1> PICK f, o, rp : f = Head(m.q) /\ o = Ptfill(m) /\ rp = reg[r]
  OBVIOUS
<1> PICK w : w = m.fr[rp.pfn].val
  OBVIOUS
<1> PICK n : n = [o EXCEPT !.fr[f].val = w]
  OBVIOUS
<1> PICK t : t = Pfree(n, rp)
  OBVIOUS
<1>0. Known(p, r) /\ at[p] = r /\ rp \in Rgns /\ rp.pfn \in Frames /\ frame[rp.pfn].use > 0 /\ rp.v
  <2>1. Known(p, r) /\ at[p] = r
    BY AloneKnown DEF Alone
  <2>2. rp.pfn \in Frames
    BY <2>1 DEF Known, PageOf
  <2>3. Has(reg[r], loc[p], rp.pfn)
    BY DEF Has
  <2> QED
    BY <2>1, <2>2, <2>3 DEF Known
<1>1. Taken(m, o, f)
  <2>1. Len(m.q) > 0
    BY <1>0 DEF Known
  <2> QED
    BY <2>1, TakenFacts
<1>2. f # rp.pfn /\ f \in Frames /\ frame[f].use = 0
  BY <1>0, <1>1 DEF Taken
<1>3. Touched(o, n, o.free)
  <2> PICK pg, fr : pg = [o.fr[f] EXCEPT !.val = w] /\ fr = [o.fr EXCEPT ![f] = pg]
    OBVIOUS
  <2>1. /\ o \in Tables /\ f \in Frames /\ o.fr \in [Frames -> Pages] /\ o.fr[f] \in Pages
        /\ o.free \in Int /\ TabsOK(o)
    BY <1>1 DEF Taken, TabsOK, Tables
  <2>2. pg \in Pages /\ pg.use = o.fr[f].use /\ pg.hash = o.fr[f].hash
    <3>1. w \in Vals
      BY <1>0 DEF Known, Pages
    <3> QED
      BY <2>1, <3>1 DEF Pages
  <2>3. n = Refit(o, fr, o.free)
    <3>1. n = [o EXCEPT !.fr = fr]
      OBVIOUS
    <3> QED
      BY ONLY <2>1, <3>1 DEF Tables, Refit
  <2>4. fr = [o.fr EXCEPT ![f] = pg]
    OBVIOUS
  <2>5. Touched(o, Refit(o, fr, o.free), o.free)
    BY ONLY <2>1, <2>2, <2>4, PageFacts
  <2> QED
    BY ONLY <2>3, <2>5, Zenon
<1>4. /\ TabsOK(n) /\ n.free = m.free /\ n.u = ucnt /\ Len(n.q) = Len(freeq) - 1
      /\ \A g \in Frames : /\ n.fr[g].use = frame[g].use + Bit(g = f)
                           /\ n.fr[g].hash = IF g = f THEN Null ELSE frame[g].hash
  BY <1>1, <1>3 DEF Taken, Touched
<1>5. /\ Drop(n, t, rp.dbd)
      /\ \A g \in Frames : t.fr[g].use = n.fr[g].use - Bit(rp.v /\ g = rp.pfn)
  <2>1. rp.v => rp.pfn \in Frames /\ n.fr[rp.pfn].use > 0
    <3>1. n.fr[rp.pfn].use = frame[rp.pfn].use + Bit(rp.pfn = f)
      BY <1>0, <1>4
    <3>2. Bit(rp.pfn = f) = 0 /\ frame[rp.pfn].use \in Nat
      BY <1>0, <1>2 DEF Bit, Known
    <3> QED
      BY <1>0, <3>1, <3>2
  <2>2. rp.dbd \in SwapBlks => n.u[rp.dbd] > 0
    BY <1>0, <1>4 DEF Known
  <2>3. TabsOK(n) /\ rp \in Rgns /\ t = Pfree(n, rp)
    BY <1>0, <1>4
  <2> QED
    BY ONLY <2>1, <2>2, <2>3, PfreeFacts
<1>6. Writable(p, t, f)
  BY <1>0 DEF CopyPage
<1>7. TabsOK(t) /\ t.free \in Nat /\ Len(t.q) - t.free = Len(freeq) - freemem - loc[p].got
  <2>1. t \in Tables /\ t.free >= m.free /\ Len(t.q) - t.free = Len(n.q) - n.free /\ TabsOK(t)
    BY ZenonT(60), <1>4, <1>5 DEF Drop, TabsOK
  <2>2. t.free \in Int
    BY <2>1 DEF Tables
  <2>3. Len(freeq) \in Nat /\ freemem \in Nat /\ loc[p].got \in Nat
    BY <1>0 DEF Known
  <2>4. (Len(freeq) - 1) - m.free = Len(freeq) - freemem - loc[p].got
    BY SMTT(60), ZenonT(60), <2>3
  <2>5. Len(n.q) - n.free = (Len(freeq) - 1) - m.free
    BY <1>4
  <2>6. t.free \in Nat
    BY <2>1, <2>2
  <2> QED
    BY <2>1, <2>4, <2>5, <2>6
<1>8. \A g \in Frames : t.fr[g].use = frame[g].use + Bit(g = f) - Bit(g = rp.pfn)
  <2>1. \A g \in Frames : Bit(rp.v /\ g = rp.pfn) = Bit(g = rp.pfn)
    BY <1>0 DEF Bit
  <2> SUFFICES ASSUME NEW g \in Frames
               PROVE  t.fr[g].use = frame[g].use + Bit(g = f) - Bit(g = rp.pfn)
    OBVIOUS
  <2>2. t.fr[g].use = n.fr[g].use - Bit(g = rp.pfn) /\ n.fr[g].use = frame[g].use + Bit(g = f)
    BY <1>4, <1>5, <2>1
  <2>3. frame[g].use \in Int /\ Bit(g = f) \in Int /\ Bit(g = rp.pfn) \in Int
    BY <1>0 DEF Known, Bit
  <2> QED
    BY ONLY <2>2, <2>3
<1>9. \A b \in SwapBlks : t.u[b] = ucnt[b] - Bit(rp.dbd = b)
  <2>1. \A b \in SwapBlks : ucnt[b] \in Int
    BY <1>0 DEF Known
  <2>2. ucnt \in [SwapBlks -> Int]
    BY DEF TabsOK, Tables
  <2>3. t.u = IF rp.dbd \in SwapBlks THEN [ucnt EXCEPT ![rp.dbd] = @ - 1] ELSE ucnt
    <3>1. n.u = ucnt
      BY <1>4
    <3>2. t.u = IF rp.dbd \in SwapBlks THEN [n.u EXCEPT ![rp.dbd] = @ - 1] ELSE n.u
      BY <1>5 DEF Drop
    <3> QED
      BY ONLY <3>1, <3>2
  <2> QED
    BY ONLY <2>1, <2>2, <2>3 DEF Bit
<1>10. HashFits(p, r, t)
  <2> SUFFICES ASSUME NEW g \in Frames
               PROVE  /\ \/ t.fr[g].hash = frame[g].hash
                         \/ frame[g].use = 0
                         \/ /\ t.fr[g].hash = Null
                            /\ \A s \in Regions \ {r} : reg[s].dbd # frame[g].hash
                      /\ t.fr[g].hash \in {frame[g].hash, Null}
    BY DEF HashFits
  <2>1. \/ t.fr[g].hash = n.fr[g].hash
        \/ t.fr[g].hash = Null /\ n.fr[g].hash = rp.dbd /\ rp.dbd \in SwapBlks /\ n.u[rp.dbd] = 1
    BY <1>5 DEF Drop
  <2>2. CASE g = f
    BY <1>2, <1>4, <2>1, <2>2
  <2>3. CASE g # f
    <3>1. n.fr[g].hash = frame[g].hash /\ n.u = ucnt
      BY <1>4, <2>3
    <3>2. rp.dbd \in SwapBlks /\ ucnt[rp.dbd] = 1 => \A s \in Regions \ {r} : reg[s].dbd # rp.dbd
      BY <1>0 DEF Known
    <3> QED
      BY <2>1, <3>1, <3>2, SMTT(60), ZenonT(60)
  <2> QED
    BY <2>2, <2>3
<1>11. t.fr[f].hash # File
  BY ZenonT(60), <1>2, <1>4, <1>5, BlocksAssumption DEF Drop
<1>12. /\ \A g \in Frames : t.fr[g].use = frame[g].use + Bit(g = f) - Bit(g = reg[r].pfn)
       /\ \A b \in SwapBlks : t.u[b] = ucnt[b] - Bit(reg[r].dbd = b)
  BY <1>8, <1>9
<1>13. /\ PgInv /\ Alone(p, r) /\ ~Enters(loc[p]) /\ loc[p].pc # "hash" /\ at' = at
       /\ f \in Frames /\ reg[r].v /\ reg[r].cw
  BY <1>2
<1> QED
  BY ONLY <1>6, <1>7, <1>10, <1>11, <1>12, <1>13, WritableStep

\* The only user of a frame takes it.
LEMMA StealStep ==
    ASSUME PgInv, NEW p, NEW r, Alone(p, r), ~Enters(loc[p]), loc[p].pc # "hash", loc[p].got = 0,
           at' = at, Writable(p, Steal(PgTables, reg[r]), reg[r].pfn), reg[r].v, reg[r].cw,
           ~(frame[reg[r].pfn].use > 1), reg[r].dbd # File
    PROVE  PgInv'
<1> PICK rp, m, t : rp = reg[r] /\ m = PgTables /\ t = Steal(m, rp)
  OBVIOUS
<1> PICK f : f = rp.pfn
  OBVIOUS
<1>0. /\ Known(p, r) /\ rp \in Rgns /\ f \in Frames /\ frame[f].use = 1 /\ rp.v
      /\ m.fr = frame /\ m.q = freeq /\ m.free = freemem /\ m.u = ucnt /\ TabsOK(m)
      /\ Has(reg[r], loc[p], f)
  <2>1. Known(p, r)
    BY AloneKnown DEF Alone
  <2>2. f \in Frames
    BY <2>1 DEF Known, PageOf
  <2>3. Has(reg[r], loc[p], f)
    BY DEF Has
  <2> QED
    BY <2>1, <2>2, <2>3 DEF Known, PgTables
<1>1. Stolen(m, t, rp)
  <2>1. rp.dbd \in SwapBlks => m.u[rp.dbd] > 0 /\ m.fr[rp.pfn].hash = rp.dbd
    BY <1>0 DEF Known, PageOf, Blocks
  <2> QED
    BY <1>0, <2>1, StealFacts
<1>2. /\ Writable(p, t, f) /\ TabsOK(t) /\ t.q = freeq /\ t.free = freemem
      /\ \A g \in Frames : /\ t.fr[g].use = frame[g].use
                           /\ t.fr[g].hash = IF g = f THEN Null ELSE frame[g].hash
  BY <1>0, <1>1 DEF Stolen
<1>3. t.free \in Nat /\ Len(t.q) - t.free = Len(freeq) - freemem - loc[p].got
  BY <1>0, <1>2 DEF Known
<1>4. \A g \in Frames : t.fr[g].use = frame[g].use + Bit(g = f) - Bit(g = rp.pfn)
  BY <1>0, <1>2 DEF Known, Bit
<1>5. \A b \in SwapBlks : t.u[b] = ucnt[b] - Bit(rp.dbd = b)
  <2>1. \A b \in SwapBlks : ucnt[b] \in Int
    BY <1>0 DEF Known
  <2>2. ucnt \in [SwapBlks -> Int]
    BY <1>0 DEF TabsOK, Tables
  <2> QED
    BY <1>0, <1>1, <2>1, <2>2 DEF Stolen, Bit
<1>6. HashFits(p, r, t)
  BY <1>0, <1>2 DEF HashFits
<1>7. t.fr[f].hash # File
  BY <1>0, <1>2, BlocksAssumption
<1> QED
  BY <1>0, <1>2, <1>3, <1>4, <1>5, <1>6, <1>7, WritableStep

\* Memory that is promised or given back.
LEMMA FreeFacts ==
    ASSUME NEW m, TabsOK(m), NEW k \in Int
    PROVE  Touched(m, [m EXCEPT !.free = k], k) /\ [m EXCEPT !.free = k].fr = m.fr
<1>0. m \in Tables /\ m.fr \in [Frames -> Pages]
  BY DEF TabsOK, Tables
<1>1. [m EXCEPT !.free = k] = Refit(m, m.fr, k)
  BY <1>0 DEF Refit, Tables
<1>2. Touched(m, Refit(m, m.fr, k), k)
  BY <1>0, DataFacts
<1>3. [m EXCEPT !.free = k].fr = m.fr
  BY <1>0 DEF Tables
<1> QED
  BY <1>1, <1>2, <1>3, Zenon

\* One more user of frame f, which is in use, or which is taken from the queue.
Shared(m, f) == [m EXCEPT !.fr[f].use = @ + 1]
Requeued(m, f) == [Shared(m, f) EXCEPT !.free = @ - 1, !.q = Unqueued(@, f)]

Gained(m, n, f) ==
    /\ TabsOK(n) /\ n.u = m.u
    /\ \A g \in Frames : n.fr[g].use = m.fr[g].use + Bit(g = f) /\ n.fr[g].hash = m.fr[g].hash

\* A frame that is in use gets one more user.
LEMMA SharedFacts ==
    ASSUME NEW m, TabsOK(m), NEW f \in Frames, m.fr[f].use # 0, NEW n, n = Shared(m, f)
    PROVE  Gained(m, n, f) /\ n.q = m.q /\ n.free = m.free
<1> PICK pg, fr : pg = [m.fr[f] EXCEPT !.use = @ + 1] /\ fr = [m.fr EXCEPT ![f] = pg]
  OBVIOUS
<1>0. m \in Tables /\ m.fr \in [Frames -> Pages] /\ m.fr[f] \in Pages /\ m.fr[f].use \in Int
  BY DEF TabsOK, Tables, Pages
<1>1. pg \in Pages /\ pg.use = m.fr[f].use + 1 /\ pg.hash = m.fr[f].hash
  <2>1. pg = [m.fr[f] EXCEPT !.use = @ + 1]
    OBVIOUS
  <2> QED
    BY ONLY <1>0, <2>1 DEF Pages
<1>2. n = [m EXCEPT !.fr = fr]
  BY DEF Shared
<1>3. n \in Tables /\ n.q = m.q /\ n.u = m.u /\ n.free = m.free /\ n.fr = fr
  <2>1. fr \in [Frames -> Pages]
    BY <1>0, <1>1
  <2> QED
    BY ONLY <1>0, <1>2, <2>1 DEF Tables
<1>4. \A g \in Frames : fr[g] = IF g = f THEN pg ELSE m.fr[g]
  BY <1>0
<1>5. \A g \in Frames : /\ n.fr[g].use = m.fr[g].use + Bit(g = f) /\ m.fr[g].use \in Int
                        /\ n.fr[g].hash = m.fr[g].hash
  <2> SUFFICES ASSUME NEW g \in Frames
               PROVE  /\ n.fr[g].use = m.fr[g].use + Bit(g = f) /\ m.fr[g].use \in Int
                      /\ n.fr[g].hash = m.fr[g].hash
    OBVIOUS
  <2>1. m.fr[g].use \in Int
    BY <1>0 DEF Pages
  <2>2. g \in Frames
    OBVIOUS
  <2> QED
    BY ONLY <1>1, <1>3, <1>4, <2>1, <2>2 DEF Bit
<1>6. \A g \in Frames : n.fr[g].use >= 0 /\ (n.fr[g].use = 0 <=> InQ(n.q, g))
  <2> SUFFICES ASSUME NEW g \in Frames
               PROVE  n.fr[g].use >= 0 /\ (n.fr[g].use = 0 <=> InQ(n.q, g))
    OBVIOUS
  <2>1. m.fr[g].use >= 0 /\ (m.fr[g].use = 0 <=> InQ(m.q, g))
    BY DEF TabsOK
  <2>2. m.fr[g].use \in Int /\ n.fr[g].use = m.fr[g].use + Bit(g = f) /\ n.q = m.q
    BY <1>3, <1>5
  <2> QED
    BY <2>1, <2>2 DEF Bit
<1>7. TabsOK(n)
  BY <1>3, <1>5, <1>6 DEF TabsOK
<1> QED
  BY <1>3, <1>5, <1>7 DEF Gained

\* A page that is on the queue is found again: its frame is taken from the queue.
LEMMA RequeueFacts ==
    ASSUME NEW m, TabsOK(m), NEW f \in Frames, m.fr[f].use = 0, NEW n,
           n = Requeued(m, f)
    PROVE  Gained(m, n, f) /\ Len(n.q) = Len(m.q) - 1 /\ n.free = m.free - 1
<1> PICK pg, fr, q : /\ pg = [m.fr[f] EXCEPT !.use = @ + 1] /\ fr = [m.fr EXCEPT ![f] = pg]
                     /\ q = Unqueued(m.q, f)
  OBVIOUS
<1>0. /\ m \in Tables /\ m.fr \in [Frames -> Pages] /\ m.fr[f] \in Pages /\ m.fr[f].use \in Int
      /\ m.q \in Seq(Frames) /\ m.free \in Int
  BY DEF TabsOK, Tables, Pages
<1>1. pg \in Pages /\ pg.use = m.fr[f].use + 1 /\ pg.hash = m.fr[f].hash
  <2>1. pg = [m.fr[f] EXCEPT !.use = @ + 1]
    OBVIOUS
  <2> QED
    BY ONLY SMTT(60), ZenonT(60), <1>0, <2>1 DEF Pages
<1>2. /\ q \in Seq(Frames) /\ Len(q) = Len(m.q) - 1
      /\ \A i, j \in DOMAIN q : q[i] = q[j] => i = j
      /\ \A g : InQ(q, g) <=> g # f /\ InQ(m.q, g)
  <2>1. \A i, j \in DOMAIN m.q : m.q[i] = m.q[j] => i = j
    BY DEF TabsOK
  <2>2. \E i \in DOMAIN m.q : m.q[i] = f
    BY DEF TabsOK, InQ
  <2> PICK o \in Seq(Frames) : o = m.q
    BY <1>0
  <2>3. q = Unqueued(o, f) /\ (\A i, j \in DOMAIN o : o[i] = o[j] => i = j)
        /\ \E i \in DOMAIN o : o[i] = f
    BY <2>1, <2>2
  <2>4. /\ q \in Seq(Frames) /\ Len(q) = Len(o) - 1
        /\ \A i, j \in DOMAIN q : q[i] = q[j] => i = j
        /\ \A g : (\E i \in DOMAIN q : q[i] = g) <=> g # f /\ \E i \in DOMAIN o : o[i] = g
    <3>1. /\ Unqueued(o, f) \in Seq(Frames) /\ Len(Unqueued(o, f)) = Len(o) - 1
          /\ \A i, j \in DOMAIN Unqueued(o, f) : Unqueued(o, f)[i] = Unqueued(o, f)[j] => i = j
          /\ \A g : (\E i \in DOMAIN Unqueued(o, f) : Unqueued(o, f)[i] = g)
                    <=> g # f /\ \E i \in DOMAIN o : o[i] = g
      BY ONLY <2>3, o \in Seq(Frames), UnqueuedFacts, Zenon
    <3>2. q = Unqueued(o, f)
      BY <2>3
    <3> QED
      BY ONLY <3>1, <3>2
  <2> QED
    BY <2>4 DEF InQ
<1>3. n \in Tables /\ n.q = q /\ n.u = m.u /\ n.free = m.free - 1 /\ n.fr = fr
  <2>1. fr \in [Frames -> Pages]
    BY <1>0, <1>1
  <2> PICK k : k = [m EXCEPT !.fr = fr]
    OBVIOUS
  <2>2. k = [m EXCEPT !.fr = fr] /\ n = [k EXCEPT !.free = @ - 1, !.q = Unqueued(@, f)]
    BY DEF Shared, Requeued
  <2>3. k \in Tables /\ k.fr = fr /\ k.q = m.q /\ k.free = m.free /\ k.u = m.u
    BY ONLY <1>0, <2>1, <2>2 DEF Tables
  <2>4. q = Unqueued(k.q, f)
    BY <2>3
  <2>5. n = [k EXCEPT !.free = k.free - 1, !.q = q]
    BY <2>4, <2>2
  <2>6. k.free - 1 \in Int
    BY <1>0, <2>3
  <2>7. n \in Tables /\ n.q = q /\ n.u = k.u /\ n.free = k.free - 1 /\ n.fr = k.fr
    <3> PICK i \in Int : i = k.free - 1
      BY <2>6
    <3>1. n = [k EXCEPT !.free = i, !.q = q]
      BY ONLY <2>5, i = k.free - 1
    <3>2. n \in Tables /\ n.q = q /\ n.u = k.u /\ n.free = i /\ n.fr = k.fr
      BY ONLY <1>2, <2>3, <3>1, i \in Int DEF Tables
    <3> QED
      BY <3>2
  <2> QED
    BY ONLY <2>3, <2>7
<1>4. \A g \in Frames : fr[g] = IF g = f THEN pg ELSE m.fr[g]
  BY <1>0
<1>5. \A g \in Frames : /\ n.fr[g].use = m.fr[g].use + Bit(g = f) /\ m.fr[g].use \in Int
                        /\ n.fr[g].hash = m.fr[g].hash
  <2> SUFFICES ASSUME NEW g \in Frames
               PROVE  /\ n.fr[g].use = m.fr[g].use + Bit(g = f) /\ m.fr[g].use \in Int
                      /\ n.fr[g].hash = m.fr[g].hash
    OBVIOUS
  <2>1. m.fr[g].use \in Int
    BY <1>0 DEF Pages
  <2>2. g \in Frames
    OBVIOUS
  <2> QED
    BY ONLY <1>1, <1>3, <1>4, <2>1, <2>2 DEF Bit
<1>6. \A g \in Frames : n.fr[g].use >= 0 /\ (n.fr[g].use = 0 <=> InQ(n.q, g))
  <2> SUFFICES ASSUME NEW g \in Frames
               PROVE  n.fr[g].use >= 0 /\ (n.fr[g].use = 0 <=> InQ(n.q, g))
    OBVIOUS
  <2>1. m.fr[g].use >= 0 /\ (m.fr[g].use = 0 <=> InQ(m.q, g))
    BY DEF TabsOK
  <2>2. m.fr[g].use \in Int /\ n.fr[g].use = m.fr[g].use + Bit(g = f) /\ n.q = q
    BY <1>3, <1>5
  <2>3. InQ(q, g) <=> g # f /\ InQ(m.q, g)
    BY <1>2
  <2> QED
    BY <2>1, <2>2, <2>3 DEF Bit
<1>7. TabsOK(n)
  BY <1>2, <1>3, <1>5, <1>6 DEF TabsOK
<1> QED
  BY <1>2, <1>3, <1>5, <1>7 DEF Gained

\* The page is not in core.
LEMMA MissStep ==
    ASSUME PgInv, NEW p, NEW r, NEW x, Decides(p, r, x), loc[p].pc # "hash",
           x.got \in {0, Prep + 1}, NEW m, at' = at, Miss(p, m, x), TabsOK(m), m.u = ucnt,
           m.q = freeq, m.free \in Nat, m.free + x.got = freemem + loc[p].got, ~reg[r].v, reg[r].dbd \in Blocks,
           \A g \in Frames : /\ m.fr[g].use = frame[g].use /\ m.fr[g].hash # reg[r].dbd
                             /\ m.fr[g].hash = frame[g].hash \/ frame[g].use = 0
                             /\ m.fr[g].hash \in {frame[g].hash, Null}
    PROVE  PgInv'
<1>0. /\ Known(p, r) /\ at[p] = r /\ loc[p].got \in Nat /\ freemem \in Nat
      /\ Prep \in Nat
  BY AloneKnown, PrepAssumption DEF Decides, Alone, Known
<1>1. CASE x.got > 0 /\ Read(p, m, x)
  <2>1. m.free + Prep + 1 = freemem + loc[p].got /\ m.free \in Nat
    BY <1>0, <1>1
  <2> QED
    BY <1>1, <2>1, ReadStep
<1>2. CASE x.got = 0 /\ m.free >= Prep + 1 /\ Read(p, [m EXCEPT !.free = @ - (Prep + 1)], x)
  <2> PICK n, k : k = m.free - (Prep + 1) /\ n = [m EXCEPT !.free = k]
    OBVIOUS
  <2>1. k \in Nat /\ k + Prep + 1 = freemem + loc[p].got
    BY <1>0, <1>2
  <2>2. Touched(m, n, k) /\ n.fr = m.fr
    BY <2>1, FreeFacts
  <2>3. Read(p, n, x)
    BY <1>2
  <2>4. /\ TabsOK(n) /\ n.u = ucnt /\ n.q = freeq /\ n.free = k
    BY <2>2 DEF Touched
  <2>5. \A g \in Frames : /\ n.fr[g].use = frame[g].use /\ n.fr[g].hash # reg[r].dbd
                          /\ n.fr[g].hash = frame[g].hash \/ frame[g].use = 0
                          /\ n.fr[g].hash \in {frame[g].hash, Null}
    BY <2>2
  <2>6. /\ PgInv /\ Decides(p, r, x) /\ loc[p].pc # "hash" /\ at' = at /\ n.free \in Nat
        /\ n.free + Prep + 1 = freemem + loc[p].got /\ ~reg[r].v /\ reg[r].dbd \in Blocks
    BY <2>1, <2>4
  <2> QED
    BY ONLY <2>3, <2>4, <2>5, <2>6, ReadStep
<1>3. CASE x.got = 0 /\ m.free < Prep + 1 /\ PgWait(p, m, x, "page", reg[r])
  <2> PICK rp : rp = reg[r]
    OBVIOUS
  <2>1. rp \in Rgns /\ rp.pin \in BOOLEAN /\ rp = [reg[r] EXCEPT !.pin = rp.pin]
    BY <1>0 DEF Known, Rgns
  <2>2. HashFits(p, r, m)
    BY DEF HashFits
  <2>3. PageOf(rp, m.fr)
    BY <1>0 DEF PageOf, Known
  <2>4. Len(m.q) - m.free = Len(freeq) - freemem - loc[p].got
    BY <1>0, <1>3 DEF Known
  <2>5. \E pin \in BOOLEAN : rp = [reg[r] EXCEPT !.pin = pin]
    BY <2>1
  <2>6. /\ PgInv /\ Decides(p, r, x) /\ x.got = 0 /\ at' = at /\ PgWait(p, m, x, "page", rp)
        /\ TabsOK(m) /\ m.free \in Nat /\ m.u = ucnt /\ loc[p].pc # "hash"
        /\ ~rp.v /\ rp.dbd \in Blocks /\ "page" \in Wants /\ "page" # "zero" /\ "page" # "copy"
    BY <1>0, <1>3 DEF Wants
  <2>7. \A f \in Frames : m.fr[f].use = frame[f].use
    OBVIOUS
  <2> QED
    BY ONLY <2>1, <2>2, <2>3, <2>4, <2>5, <2>6, <2>7, WaitStep
<1> QED
  BY <1>0, <1>1, <1>2, <1>3 DEF Miss

\* pageincache and what follows.
LEMMA CachedStep ==
    ASSUME PgInv, NEW p, NEW r, NEW x, Decides(p, r, x), loc[p].pc # "hash",
           x.got \in {0, Prep + 1}, NEW m, at' = at, Cached(p, m, x), TabsOK(m),
           m.fr = frame, m.q = freeq, m.u = ucnt, m.free \in Nat,
           m.free + x.got = freemem + loc[p].got, ~reg[r].v, reg[r].dbd \in Blocks
    PROVE  PgInv'
<1> PICK found : found = Pfind(m, reg[r].dbd)
  OBVIOUS
<1> PICK f : f = CHOOSE g \in found : TRUE
  OBVIOUS
<1> PICK used : used = [m EXCEPT !.fr[f].use = @ + 1]
  OBVIOUS
<1>0. /\ Known(p, r) /\ at[p] = r /\ x.got \in Nat /\ loc[p].got \in Nat /\ freemem \in Nat
      /\ Alone(p, r) /\ x \in Spots /\ (x.inP => reg[r].cw) /\ ~Enters(loc[p])
      /\ Len(freeq) \in Nat /\ TabsOK(m)
  BY AloneKnown DEF Decides, Alone, Known, Spots
<1>1. m.fr = frame /\ m.q = freeq /\ m.u = ucnt
  OBVIOUS
<1>2. found # {} => f \in Frames /\ frame[f].hash = reg[r].dbd
  BY <1>1 DEF Pfind
<1>3. CASE found = {} /\ Miss(p, m, x)
  <2>1. \A g \in Frames : m.fr[g].hash # reg[r].dbd
    BY <1>3 DEF Pfind
  <2> QED
    BY <1>0, <1>1, <1>3, <2>1, MissStep
<1>4. CASE found # {} /\ m.fr[f].use = 0 /\ m.free <= 0 /\ Miss(p, Premove(m, f), x)
  <2> PICK n : n = Premove(m, f)
    OBVIOUS
  <2>1. /\ TabsOK(n) /\ n.fr = [m.fr EXCEPT ![f].hash = Null]
        /\ n.q = m.q /\ n.free = m.free /\ n.u = m.u
    <3>1. TabsOK(m) /\ f \in Frames /\ n = Premove(m, f)
      BY <1>0, <1>2, <1>4
    <3> QED
      BY ONLY <3>1, PremoveFacts
  <2>2. \A g \in Frames : /\ n.fr[g].use = frame[g].use
                          /\ n.fr[g].hash = IF g = f THEN Null ELSE frame[g].hash
    <3> SUFFICES ASSUME NEW g \in Frames
                 PROVE  /\ n.fr[g].use = frame[g].use
                        /\ n.fr[g].hash = IF g = f THEN Null ELSE frame[g].hash
      OBVIOUS
    <3>1. m.fr \in [Frames -> Pages] /\ m.fr[g] \in Pages /\ g \in Frames
      BY <1>0 DEF TabsOK, Tables
    <3>2. /\ n.fr[g].use = m.fr[g].use
          /\ n.fr[g].hash = IF g = f THEN Null ELSE m.fr[g].hash
      BY ONLY <2>1, <3>1 DEF Pages
    <3> QED
      BY <1>1, <3>2
  <2>3. \A g \in Frames : frame[g].hash = reg[r].dbd => g = f
    <3>1. reg[r].dbd # Null
      BY BlocksAssumption DEF Blocks
    <3>2. f \in Frames /\ frame[f].hash = reg[r].dbd
      BY <1>2, <1>4
    <3> QED
      BY <1>0, <1>1, <3>1, <3>2 DEF TabsOK
  <2>4. \A g \in Frames : /\ n.fr[g].use = frame[g].use /\ n.fr[g].hash # reg[r].dbd
                          /\ n.fr[g].hash = frame[g].hash \/ frame[g].use = 0
                          /\ n.fr[g].hash \in {frame[g].hash, Null}
    BY <1>1, <1>4, <2>2, <2>3, BlocksAssumption DEF Blocks
  <2>5. Miss(p, n, x)
    BY <1>4
  <2>6. n.q = freeq /\ n.free = m.free /\ n.u = ucnt
    BY <1>1, <2>1
  <2> QED
    BY <2>1, <2>4, <2>5, <2>6, MissStep
<1>5. CASE /\ found # {} /\ m.fr[f].use = 0 /\ m.free > 0
           /\ Latch(p, [used EXCEPT !.free = @ - 1, !.q = Unqueued(@, f)], x, f)
  <2> PICK n : n = [used EXCEPT !.free = @ - 1, !.q = Unqueued(@, f)]
    OBVIOUS
  <2>0. n = Requeued(m, f)
    BY DEF Requeued, Shared
  <2>1. /\ TabsOK(n) /\ Len(n.q) = Len(m.q) - 1 /\ n.u = m.u /\ n.free = m.free - 1
        /\ \A g \in Frames : /\ n.fr[g].use = m.fr[g].use + Bit(g = f)
                             /\ n.fr[g].hash = m.fr[g].hash
    <3>1. TabsOK(m) /\ f \in Frames /\ m.fr[f].use = 0
      BY <1>0, <1>2, <1>5
    <3>2. Gained(m, n, f) /\ Len(n.q) = Len(m.q) - 1 /\ n.free = m.free - 1
      BY ONLY <2>0, <3>1, RequeueFacts, Zenon
    <3> QED
      BY <3>2 DEF Gained
  <2>2. /\ n.free + x.got \in Nat
        /\ Len(n.q) - n.free - x.got = Len(freeq) - freemem - loc[p].got
    <3>1. /\ m.free \in Int /\ m.free + x.got = freemem + loc[p].got
          /\ x.got \in Int /\ freemem \in Int /\ loc[p].got \in Int /\ Len(freeq) \in Int
      BY <1>0
    <3>2. Len(n.q) = Len(freeq) - 1 /\ n.free = m.free - 1
      BY <1>1, <2>1
    <3>3. Len(freeq) - m.free - x.got = Len(freeq) - freemem - loc[p].got
      BY ONLY <3>1, Balance, SMTT(60), ZenonT(60)
    <3>4. n.free + x.got \in Nat
      BY <1>0, <1>5, <3>2
    <3>5. Len(n.q) - n.free - x.got = Len(freeq) - m.free - x.got
      BY ONLY <3>1, <3>2
    <3> QED
      BY ONLY <3>3, <3>4, <3>5, Zenon
  <2>3. \A g \in Frames : /\ n.fr[g].use = frame[g].use + Bit(g = f) - Bit(Awaits(loc[p], g))
                          /\ n.fr[g].hash = frame[g].hash
    <3> SUFFICES ASSUME NEW g \in Frames
                 PROVE  /\ n.fr[g].use = frame[g].use + Bit(g = f) - Bit(Awaits(loc[p], g))
                        /\ n.fr[g].hash = frame[g].hash
      OBVIOUS
    <3>1. frame[g].use \in Int /\ ~Awaits(loc[p], g)
      BY <1>0 DEF Known, Awaits
    <3>2. g \in Frames
      OBVIOUS
    <3> QED
      BY ONLY <1>1, <2>1, <3>1, <3>2 DEF Bit
  <2>4. Latch(p, n, x, f)
    BY <1>5
  <2>5. /\ PgInv /\ Alone(p, r) /\ x \in Spots /\ (x.inP => reg[r].cw)
        /\ ~Enters(loc[p]) /\ f \in Frames /\ at' = at /\ TabsOK(n) /\ n.u = ucnt
        /\ ~reg[r].v /\ reg[r].dbd \in Blocks /\ frame[f].hash = reg[r].dbd
    BY <1>0, <1>1, <1>2, <1>5, <2>1
  <2> QED
    BY ONLY <2>2, <2>3, <2>4, <2>5, LatchStep
<1>6. ASSUME found # {}, m.fr[f].use # 0
      PROVE  /\ TabsOK(used) /\ used.q = freeq /\ used.u = ucnt /\ used.free = m.free
             /\ f \in Frames /\ frame[f].hash = reg[r].dbd
             /\ \A g \in Frames : /\ used.fr[g].use = frame[g].use + Bit(g = f)
                                  /\ used.fr[g].hash = frame[g].hash
  <2>1. TabsOK(m) /\ f \in Frames /\ m.fr[f].use # 0 /\ used = Shared(m, f)
    BY <1>0, <1>2, <1>6 DEF Shared
  <2>2. /\ TabsOK(used) /\ used.q = m.q /\ used.u = m.u /\ used.free = m.free
        /\ \A g \in Frames : /\ used.fr[g].use = m.fr[g].use + Bit(g = f)
                             /\ used.fr[g].hash = m.fr[g].hash
    <3>1. Gained(m, used, f) /\ used.q = m.q /\ used.free = m.free
      BY ONLY <2>1, SharedFacts, Zenon
    <3> QED
      BY <3>1 DEF Gained
  <2> QED
    BY <1>1, <1>2, <1>6, <2>2
<1>7. CASE found # {} /\ m.fr[f].use # 0 /\ Latch(p, used, x, f)
  <2>1. /\ used.free + x.got \in Nat
        /\ Len(used.q) - used.free - x.got = Len(freeq) - freemem - loc[p].got
    <3>1. /\ m.free \in Int /\ m.free + x.got = freemem + loc[p].got
          /\ x.got \in Int /\ freemem \in Int /\ loc[p].got \in Int /\ Len(freeq) \in Int
      BY <1>0
    <3>2. used.q = freeq /\ used.free = m.free
      BY <1>1, <1>6, <1>7
    <3>3. used.free + x.got \in Nat
      BY <1>0, <3>2
    <3>4. Len(freeq) - m.free - x.got = Len(freeq) - freemem - loc[p].got
      BY ONLY <3>1, Balance, SMTT(60), ZenonT(60)
    <3> QED
      BY ONLY <3>2, <3>3, <3>4, Zenon
  <2>2. \A g \in Frames : /\ used.fr[g].use = frame[g].use + Bit(g = f) - Bit(Awaits(loc[p], g))
                          /\ used.fr[g].hash = frame[g].hash
    <3> SUFFICES ASSUME NEW g \in Frames
                 PROVE  /\ used.fr[g].use = frame[g].use + Bit(g = f) - Bit(Awaits(loc[p], g))
                        /\ used.fr[g].hash = frame[g].hash
      OBVIOUS
    <3>1. frame[g].use \in Int /\ ~Awaits(loc[p], g)
      BY <1>0 DEF Known, Awaits
    <3> QED
      BY <1>6, <1>7, <3>1 DEF Bit
  <2>3. /\ PgInv /\ Alone(p, r) /\ x \in Spots /\ (x.inP => reg[r].cw)
        /\ ~Enters(loc[p]) /\ f \in Frames /\ at' = at /\ TabsOK(used) /\ used.u = ucnt
        /\ ~reg[r].v /\ reg[r].dbd \in Blocks /\ frame[f].hash = reg[r].dbd
        /\ Latch(p, used, x, f)
    BY <1>0, <1>6, <1>7
  <2> QED
    BY ONLY <2>1, <2>2, <2>3, LatchStep
<1>8. CASE /\ found # {} /\ m.fr[f].use # 0 /\ PgBecomes(used) /\ UNCHANGED disk
           /\ reg' = [reg EXCEPT ![r].lock = TRUE]
           /\ loc' = [loc EXCEPT ![p] = [x EXCEPT !.pc = "hash", !.on = f]]
  <2>1. /\ PgInv /\ Decides(p, r, x) /\ loc[p].pc # "hash" /\ at' = at
        /\ PgBecomes(used) /\ UNCHANGED disk /\ reg' = [reg EXCEPT ![r].lock = TRUE]
        /\ loc' = [loc EXCEPT ![p] = [x EXCEPT !.pc = "hash", !.on = f]]
        /\ ~reg[r].v /\ reg[r].dbd \in Blocks
    BY <1>8
  <2>2. /\ TabsOK(used) /\ used.q = freeq /\ used.u = ucnt
        /\ used.free \in Nat /\ used.free + x.got = freemem + loc[p].got /\ f \in Frames /\ frame[f].hash = reg[r].dbd
        /\ \A g \in Frames : /\ used.fr[g].use = frame[g].use + Bit(g = f)
                             /\ used.fr[g].hash = frame[g].hash
    BY <1>6, <1>8
  <2> QED
    BY ONLY <2>1, <2>2, HashWaitStep, Zenon
<1> QED
  <2>1. \/ found = {} /\ Miss(p, m, x)
        \/ found # {} /\ m.fr[f].use = 0 /\ m.free <= 0 /\ Miss(p, Premove(m, f), x)
        \/ /\ found # {} /\ m.fr[f].use = 0 /\ m.free > 0
           /\ Latch(p, [used EXCEPT !.free = @ - 1, !.q = Unqueued(@, f)], x, f)
        \/ found # {} /\ m.fr[f].use # 0 /\ Latch(p, used, x, f)
        \/ /\ found # {} /\ m.fr[f].use # 0 /\ PgBecomes(used) /\ UNCHANGED disk
           /\ reg' = [reg EXCEPT ![r].lock = TRUE]
           /\ loc' = [loc EXCEPT ![p] = [x EXCEPT !.pc = "hash", !.on = f]]
    <3>1. at[p] = r /\ Cached(p, m, x)
      BY <1>0
    <3> QED
      BY <3>1 DEF Cached, PgGoes
  <2> QED
    BY <1>3, <1>4, <1>5, <1>7, <1>8, <2>1

\* A process that is not idle has a region.
LEMMA InRegion ==
    ASSUME PgInv, NEW p \in PgProcs, loc[p].pc # "idle"
    PROVE  at[p] \in Regions
<1>1. ProcOf(p) /\ at[p] \in Regions \cup {Null}
  BY DEF PgInv, PgTyped
<1> QED
  BY <1>1 DEF ProcOf

\* What vfault does when it has the region.
LEMMA TranslateStep ==
    ASSUME PgInv, NEW p, NEW r, NEW x, Decides(p, r, x), loc[p].pc \in {"vfault", "pfault"},
           x.got = 0, at' = at, Translate(p, x)
    PROVE  PgInv'
<1> PICK m, rp : m = PgTables /\ rp = reg[r]
  OBVIOUS
<1>0. /\ Known(p, r) /\ at[p] = r /\ loc[p].got \in Nat /\ freemem \in Nat
      /\ Alone(p, r) /\ x \in Spots /\ (x.inP => reg[r].cw) /\ ~Enters(loc[p]) /\ TabsOK(m)
      /\ loc[p].pc # "hash" /\ rp \in Rgns
  BY AloneKnown DEF Decides, Alone, Known
<1>1. m.fr = frame /\ m.q = freeq /\ m.free = freemem /\ m.u = ucnt
  BY DEF PgTables
<1>2. loc[p].got = 0
  BY <1>0 DEF Known, Fault
<1>3. HashFits(p, r, m)
  BY <1>1 DEF HashFits
<1>4. PageOf(rp, m.fr)
  BY <1>0, <1>1 DEF Known
<1>5. Len(m.q) - m.free = Len(freeq) - freemem - loc[p].got
  BY <1>0, <1>1, <1>2 DEF Known
<1>6. CASE rp.v /\ PgReturn(p, m, x, rp)
  <2>1. rp.prot = Prot(rp)
    BY <1>0 DEF Known
  <2>2. UsesFit(p, r, m, rp, At("user"))
    <3> SUFFICES ASSUME NEW g \in Frames
                 PROVE  m.fr[g].use = frame[g].use + Bit(Has(rp, At("user"), g))
                            - Bit(Has(reg[r], loc[p], g)) + Bit(Awaits(At("user"), g))
                            - Bit(Awaits(loc[p], g))
      BY DEF UsesFit
    <3>1. /\ Has(rp, At("user"), g) <=> Has(reg[r], loc[p], g)
          /\ ~Awaits(At("user"), g) /\ ~Awaits(loc[p], g)
      BY <1>0 DEF Has, Awaits, At, Enters
    <3>2. frame[g].use \in Int
      BY <1>0 DEF Known
    <3> QED
      BY <1>1, <3>1, <3>2 DEF Bit
  <2>3. SwapFits(r, m, rp)
    BY <1>0, <1>1 DEF SwapFits, Known, Bit
  <2>4. /\ PgInv /\ Alone(p, r) /\ x \in Spots /\ (x.inP => reg[r].cw) /\ at' = at
        /\ PgReturn(p, m, x, rp) /\ TabsOK(m) /\ m.free \in Nat /\ rp \in Rgns /\ rp.v
        /\ rp.kind = reg[r].kind /\ rp.refs = reg[r].refs /\ rp.cw = reg[r].cw
    BY <1>0, <1>1, <1>6
  <2> QED
    BY ONLY <1>3, <1>4, <1>5, <2>1, <2>2, <2>3, <2>4, ReturnStep
<1>7. CASE ~rp.v /\ rp.dbd = "NONE"
  BY <1>0, <1>7 DEF Known
<1>8. CASE ~rp.v /\ rp.dbd = "DZERO" /\ freemem >= 1 /\ FillZero(p, [m EXCEPT !.free = @ - 1], x)
  <2> PICK n, k : k = m.free - 1 /\ n = [m EXCEPT !.free = k]
    OBVIOUS
  <2>1. k \in Nat /\ k + 1 = freemem + loc[p].got
    BY <1>0, <1>1, <1>2, <1>8
  <2>2. Touched(m, n, k) /\ n.fr = m.fr
    BY <1>0, <2>1, FreeFacts
  <2>3. FillZero(p, n, x)
    BY <1>8
  <2>4. /\ TabsOK(n) /\ n.fr = frame /\ n.q = freeq /\ n.u = ucnt /\ n.free \in Nat
        /\ n.free + 1 = freemem + loc[p].got
    BY <1>1, <2>1, <2>2 DEF Touched
  <2>5. /\ PgInv /\ Alone(p, r) /\ x \in Spots /\ (x.inP => reg[r].cw) /\ at' = at
        /\ ~Enters(loc[p]) /\ loc[p].pc # "hash" /\ ~reg[r].v /\ reg[r].dbd = "DZERO"
    BY <1>0, <1>8
  <2> QED
    BY ONLY <2>3, <2>4, <2>5, FillZeroStep
<1>9. CASE ~rp.v /\ rp.dbd = "DZERO" /\ freemem < 1 /\ PgWait(p, m, x, "zero", rp)
  <2>1. rp \in Rgns /\ rp.pin \in BOOLEAN /\ rp = [reg[r] EXCEPT !.pin = rp.pin]
    BY <1>0 DEF Known, Rgns
  <2>2. \E pin \in BOOLEAN : rp = [reg[r] EXCEPT !.pin = pin]
    BY <2>1
  <2>3. /\ PgInv /\ Decides(p, r, x) /\ x.got = 0 /\ at' = at /\ PgWait(p, m, x, "zero", rp)
        /\ TabsOK(m) /\ m.free \in Nat /\ m.u = ucnt /\ loc[p].pc # "hash"
        /\ rp.dbd = "DZERO" /\ "zero" \in Wants /\ "zero" # "page" /\ "zero" # "copy"
    BY <1>0, <1>1, <1>2, <1>9 DEF Wants
  <2>4. \A f \in Frames : m.fr[f].use = frame[f].use
    BY <1>1
  <2> QED
    BY ONLY <1>3, <1>4, <1>5, <2>1, <2>2, <2>3, <2>4, WaitStep
<1>10. CASE ~rp.v /\ rp.dbd \in Blocks /\ Cached(p, m, x)
  <2>1. m.free \in Nat /\ m.free + x.got = freemem + loc[p].got /\ x.got \in {0, Prep + 1}
    BY <1>0, <1>1, <1>2
  <2> QED
    BY <1>0, <1>1, <1>10, <2>1, CachedStep
<1> QED
  BY <1>0, <1>6, <1>7, <1>8, <1>9, <1>10 DEF Translate

\* What pfault does when the page is there.
LEMMA CowStep ==
    ASSUME PgInv, NEW p, NEW r, Alone(p, r), ~Enters(loc[p]), loc[p].pc \in {"pfault", "cow"},
           reg[r].v, reg[r].cw, at' = at, Cow(p)
    PROVE  PgInv'
<1> PICK m, rp : m = PgTables /\ rp = reg[r]
  OBVIOUS
<1>0. /\ Known(p, r) /\ at[p] = r /\ loc[p].got \in Nat /\ freemem \in Nat /\ TabsOK(m) /\ rp \in Rgns
      /\ loc[p].pc # "hash"
  BY AloneKnown DEF Alone, Known
<1>1. m.fr = frame /\ m.q = freeq /\ m.free = freemem /\ m.u = ucnt
  BY DEF PgTables
<1>2. loc[p].got = 0
  BY <1>0 DEF Known, Fault
<1>3. CASE freemem >= 1 /\ CopyPage(p, [m EXCEPT !.free = @ - 1])
  <2> PICK n, k : k = m.free - 1 /\ n = [m EXCEPT !.free = k]
    OBVIOUS
  <2>1. k \in Nat /\ k + 1 = freemem + loc[p].got
    BY <1>0, <1>1, <1>2, <1>3
  <2>2. Touched(m, n, k) /\ n.fr = m.fr
    BY <1>0, <2>1, FreeFacts
  <2>3. CopyPage(p, n)
    BY <1>3
  <2>4. /\ TabsOK(n) /\ n.fr = frame /\ n.q = freeq /\ n.u = ucnt /\ n.free \in Nat
        /\ n.free + 1 = freemem + loc[p].got
    BY <1>1, <2>1, <2>2 DEF Touched
  <2>5. /\ PgInv /\ Alone(p, r) /\ ~Enters(loc[p]) /\ loc[p].pc # "hash" /\ at' = at
        /\ reg[r].v /\ reg[r].cw
    BY <1>0
  <2> QED
    BY ONLY <2>3, <2>4, <2>5, CopyPageStep
<1>4. CASE freemem < 1 /\ PgWait(p, m, At("mem"), "copy", [rp EXCEPT !.pin = TRUE])
  <2> PICK x, z : x = At("mem") /\ z = [rp EXCEPT !.pin = TRUE]
    OBVIOUS
  <2>1. z \in Rgns /\ z.pin /\ z.v /\ z.cw /\ z = [reg[r] EXCEPT !.pin = TRUE]
    BY <1>0 DEF Rgns
  <2>2. \E pin \in BOOLEAN : z = [reg[r] EXCEPT !.pin = pin]
    BY <2>1
  <2>3. x \in Spots /\ x.got = 0 /\ ~x.inP
    BY DEF At, Spots, LockedPCs, FreePCs
  <2>4. HashFits(p, r, m)
    BY <1>1 DEF HashFits
  <2>5. PageOf(z, m.fr)
    <3>1. /\ z.refs = rp.refs /\ z.kind = rp.kind /\ z.noswap = rp.noswap /\ z.cw = rp.cw
          /\ z.dbd = rp.dbd /\ z.v = rp.v /\ z.pfn = rp.pfn
      BY <1>0 DEF Rgns
    <3>2. PageOf(rp, m.fr) /\ rp.refs # 0
      BY <1>0, <1>1 DEF Known
    <3> QED
      BY ONLY <3>1, <3>2 DEF PageOf
  <2>6. Len(m.q) - m.free = Len(freeq) - freemem - loc[p].got
    BY <1>0, <1>1, <1>2 DEF Known
  <2>7. Decides(p, r, x)
    BY <1>2, <2>3 DEF Decides
  <2>8. PgWait(p, m, x, "copy", z)
    BY <1>4
  <2>9. \A f \in Frames : m.fr[f].use = frame[f].use
    BY <1>1
  <2>10. /\ PgInv /\ x.got = 0 /\ at' = at /\ TabsOK(m) /\ m.free \in Nat /\ m.u = ucnt
         /\ loc[p].pc # "hash" /\ "copy" \in Wants /\ "copy" # "page" /\ "copy" # "zero"
    BY <1>0, <1>1, <2>3 DEF Wants
  <2> QED
    BY ONLY <2>1, <2>2, <2>4, <2>5, <2>6, <2>7, <2>8, <2>9, <2>10, WaitStep
<1>5. CASE ~(frame[rp.pfn].use > 1) /\ rp.dbd # File /\ Writable(p, Steal(m, rp), rp.pfn)
  <2>1. /\ PgInv /\ Alone(p, r) /\ ~Enters(loc[p]) /\ loc[p].pc # "hash" /\ loc[p].got = 0
        /\ at' = at /\ Writable(p, Steal(PgTables, reg[r]), reg[r].pfn) /\ reg[r].v /\ reg[r].cw
        /\ ~(frame[reg[r].pfn].use > 1) /\ reg[r].dbd # File
    BY <1>0, <1>2, <1>5
  <2> QED
    BY ONLY <2>1, StealStep
<1> QED
  BY <1>0, <1>3, <1>4, <1>5 DEF Cow

\* A process and its region when nobody has it locked.
LEMMA FreeToGo ==
    ASSUME PgInv, NEW p \in PgProcs, loc[p].pc # "idle", ~reg[at[p]].lock \/ loc[p].pc \in LockedPCs
    PROVE  \E r : Alone(p, r) /\ at[p] = r /\ Known(p, r)
<1> PICK r : r = at[p]
  OBVIOUS
<1>1. r \in Regions
  BY InRegion
<1>2. Alone(p, r)
  BY <1>1 DEF Alone, Locks
<1> QED
  BY <1>2, AloneKnown

\* vfault gets the region.
LEMMA VfaultStep ==
    ASSUME PgInv, NEW p \in PgProcs, Vfault(p)
    PROVE  PgInv'
<1> PICK x : x = At("vfault")
  OBVIOUS
<1>0. loc[p].pc = "vfault" /\ ~reg[at[p]].lock /\ Translate(p, x) /\ at' = at
  BY DEF Vfault
<1> PICK r : Alone(p, r) /\ at[p] = r /\ Known(p, r)
  BY <1>0, FreeToGo
<1>1. x \in Spots /\ x.got = 0 /\ ~x.inP
  BY DEF At, Spots, LockedPCs, FreePCs
<1>2. loc[p].got = 0
  BY <1>0 DEF Known, Fault
<1>3. Decides(p, r, x)
  BY <1>0, <1>1, <1>2 DEF Decides, Enters
<1> QED
  BY <1>0, <1>1, <1>3, TranslateStep

\* pfault gets the region.
LEMMA PfaultStep ==
    ASSUME PgInv, NEW p \in PgProcs, Pfault(p)
    PROVE  PgInv'
<1> PICK x : x = [At("pfault") EXCEPT !.inP = TRUE]
  OBVIOUS
<1>0. loc[p].pc = "pfault" /\ ~reg[at[p]].lock /\ at' = at
  BY DEF Pfault
<1> PICK r : Alone(p, r) /\ at[p] = r /\ Known(p, r)
  BY <1>0, FreeToGo
<1>1. x \in Spots /\ x.got = 0
  BY DEF At, Spots, LockedPCs, FreePCs
<1>2. loc[p].got = 0 /\ reg[r].cw
  BY <1>0 DEF Known, Fault
<1>3. Decides(p, r, x) /\ ~Enters(loc[p])
  BY <1>0, <1>1, <1>2 DEF Decides, Enters
<1>4. \/ ~reg[r].v /\ Translate(p, x)
      \/ reg[r].v /\ Cow(p)
  BY <1>2 DEF Pfault
<1>5. CASE ~reg[r].v /\ Translate(p, x)
  BY <1>0, <1>1, <1>3, <1>5, TranslateStep
<1>6. CASE reg[r].v /\ Cow(p)
  BY <1>0, <1>2, <1>3, <1>6, CowStep
<1> QED
  BY <1>4, <1>5, <1>6

\* pfault goes on after vfault.
LEMMA PfaultAgainStep ==
    ASSUME PgInv, NEW p \in PgProcs, PfaultAgain(p)
    PROVE  PgInv'
<1>0. loc[p].pc = "cow" /\ Cow(p) /\ at' = at
  BY DEF PfaultAgain
<1> PICK r : Alone(p, r) /\ at[p] = r /\ Known(p, r)
  BY <1>0, FreeToGo DEF LockedPCs
<1>1. reg[r].v /\ reg[r].cw /\ ~Enters(loc[p])
  BY <1>0 DEF Known, Fault, Enters
<1> QED
  BY <1>0, <1>1, CowStep

\* p has the memory and the region again: x and m are where it is and the tables then.
LEMMA ResumeStep ==
    ASSUME PgInv, NEW p, NEW r, NEW x, Decides(p, r, x), loc[p].pc # "hash",
           x.pc = "relock", x.got = Wanted(x), Fault(x, reg[r], frame),
           NEW m, at' = at, Resume(p, m, x), TabsOK(m), m.fr = frame, m.q = freeq, m.u = ucnt,
           m.free \in Nat, m.free + x.got = freemem + loc[p].got
    PROVE  PgInv'
<1> PICK rp : rp = reg[r]
  OBVIOUS
<1>1. /\ Alone(p, r) /\ Known(p, r) /\ at[p] = r /\ x \in Spots /\ x.got \in Nat
      /\ (x.inP => rp.cw) /\ ~Enters(loc[p]) /\ rp \in Rgns /\ freemem \in Nat
      /\ loc[p].got \in Nat /\ PageOf(rp, frame) /\ Len(freeq) \in Nat
  BY AloneKnown DEF Decides, Alone, Known, Spots
<1>4. CASE x.for # "copy" /\ rp.v /\ PgReturn(p, [m EXCEPT !.free = @ + x.got], x, rp)
  <2> PICK n, k : k = m.free + x.got /\ n = [m EXCEPT !.free = k]
    OBVIOUS
  <2>0. Touched(m, n, k) /\ k \in Nat
    <3>1. k \in Nat
      BY <1>1
    <3> QED
      BY <1>1, <3>1, FreeFacts
  <2>1. rp.prot = Prot(rp)
    BY <1>1 DEF Known
  <2>2. UsesFit(p, r, n, rp, At("user"))
    <3> SUFFICES ASSUME NEW g \in Frames
                 PROVE  n.fr[g].use = frame[g].use + Bit(Has(rp, At("user"), g))
                            - Bit(Has(reg[r], loc[p], g)) + Bit(Awaits(At("user"), g))
                            - Bit(Awaits(loc[p], g))
      BY DEF UsesFit
    <3>1. /\ Has(rp, At("user"), g) <=> Has(reg[r], loc[p], g)
          /\ ~Awaits(At("user"), g) /\ ~Awaits(loc[p], g)
      BY <1>1 DEF Has, Awaits, At, Enters
    <3>2. frame[g].use \in Int /\ n.fr[g].use = frame[g].use
      BY <1>1, <2>0 DEF Known, Touched
    <3> QED
      BY <3>1, <3>2 DEF Bit
  <2>3. SwapFits(r, n, rp)
    BY <1>1, <2>0 DEF SwapFits, Known, Bit, Touched
  <2>4. HashFits(p, r, n) /\ PageOf(rp, n.fr)
    BY <1>1, <1>4, <2>0 DEF HashFits, PageOf, Touched
  <2>5. Len(n.q) - n.free = Len(freeq) - freemem - loc[p].got
    BY <1>1, <2>0 DEF Touched
  <2>6. PgReturn(p, n, x, rp)
    BY <1>4
  <2>7. /\ PgInv /\ Alone(p, r) /\ x \in Spots /\ (x.inP => reg[r].cw) /\ at' = at
        /\ TabsOK(n) /\ n.free \in Nat /\ rp \in Rgns /\ rp.v
        /\ rp.kind = reg[r].kind /\ rp.refs = reg[r].refs /\ rp.cw = reg[r].cw
    BY <1>1, <1>4, <2>0 DEF Touched
  <2> QED
    BY ONLY <2>1, <2>2, <2>3, <2>4, <2>5, <2>6, <2>7, ReturnStep
<1>5. CASE x.for = "zero" /\ ~rp.v /\ FillZero(p, m, x)
  <2>1. reg[r].dbd = "DZERO" /\ ~reg[r].v
    BY <1>1, <1>5 DEF Fault, PageOf, Asleep
  <2>2. m.free + 1 = freemem + loc[p].got /\ m.free \in Nat
    BY <1>1, <1>5 DEF Wanted
  <2>3. /\ PgInv /\ Alone(p, r) /\ x \in Spots /\ (x.inP => reg[r].cw) /\ at' = at
        /\ ~Enters(loc[p]) /\ loc[p].pc # "hash" /\ TabsOK(m) /\ FillZero(p, m, x)
        /\ m.fr = frame /\ m.q = freeq /\ m.u = ucnt
    BY <1>1, <1>5
  <2> QED
    BY ONLY <2>1, <2>2, <2>3, FillZeroStep
<1>6. CASE x.for = "page" /\ ~rp.v /\ Cached(p, m, x)
  <2>1. x.got \in {0, Prep + 1}
    BY <1>1, <1>6 DEF Wanted
  <2>2. reg[r].dbd \in Blocks /\ ~reg[r].v
    BY <1>1, <1>6 DEF Fault, Asleep
  <2>3. /\ PgInv /\ Decides(p, r, x) /\ loc[p].pc # "hash" /\ at' = at /\ Cached(p, m, x)
        /\ TabsOK(m) /\ m.fr = frame /\ m.q = freeq /\ m.u = ucnt /\ m.free \in Nat
        /\ m.free + x.got = freemem + loc[p].got
    BY <1>1, <1>6
  <2> QED
    BY ONLY <2>1, <2>2, <2>3, CachedStep
<1>7. CASE x.for = "copy" /\ CopyPage(p, m)
  <2>1. reg[r].v /\ reg[r].cw
    BY <1>1, <1>7 DEF Fault, Asleep
  <2>2. m.free + 1 = freemem + loc[p].got /\ m.free \in Nat
    BY <1>1, <1>7 DEF Wanted
  <2>3. /\ PgInv /\ Alone(p, r) /\ at' = at /\ ~Enters(loc[p]) /\ loc[p].pc # "hash"
        /\ TabsOK(m) /\ CopyPage(p, m) /\ m.fr = frame /\ m.q = freeq /\ m.u = ucnt
    BY <1>1, <1>7
  <2> QED
    BY ONLY <2>1, <2>2, <2>3, CopyPageStep
<1> QED
  <2>1. \/ x.for # "copy" /\ rp.v /\ PgReturn(p, [m EXCEPT !.free = @ + x.got], x, rp)
        \/ x.for = "zero" /\ ~rp.v /\ FillZero(p, m, x)
        \/ x.for = "page" /\ ~rp.v /\ Cached(p, m, x)
        \/ x.for = "copy" /\ CopyPage(p, m)
    BY <1>1 DEF Resume
  <2> QED
    BY <1>4, <1>5, <1>6, <1>7, <2>1

\* reglock returns.
LEMMA ReservedStep ==
    ASSUME PgInv, NEW p \in PgProcs, Reserved(p)
    PROVE  PgInv'
<1> PICK x, m : x = loc[p] /\ m = PgTables
  OBVIOUS
<1>0. x.pc = "relock" /\ ~reg[at[p]].lock /\ at' = at /\ Resume(p, m, x)
  BY DEF Reserved
<1> PICK r : Alone(p, r) /\ at[p] = r /\ Known(p, r)
  BY <1>0, FreeToGo
<1>1. /\ x \in Spots /\ x.got = Wanted(x) /\ (x.inP => reg[r].cw) /\ ~Enters(loc[p])
      /\ TabsOK(m) /\ freemem \in Nat /\ x.got = loc[p].got /\ Fault(x, reg[r], frame)
  BY <1>0 DEF Known, Fault, Enters
<1>2. m.fr = frame /\ m.q = freeq /\ m.free = freemem /\ m.u = ucnt
  BY DEF PgTables
<1>3. Decides(p, r, x) /\ loc[p].pc # "hash"
  BY <1>0, <1>1 DEF Decides
<1>4. m.free \in Nat /\ m.free + x.got = freemem + loc[p].got
  BY <1>1, <1>2
<1> QED
  BY ONLY PgInv, <1>0, <1>1, <1>2, <1>3, <1>4, ResumeStep

\* The frame is there for which p has waited.
LEMMA PageDoneStep ==
    ASSUME PgInv, NEW p \in PgProcs, PageDone(p)
    PROVE  PgInv'
<1> PICK x, m, f : x = loc[p] /\ m = PgTables /\ f = loc[p].on
  OBVIOUS
<1>0. x.pc = "hash" /\ Latch(p, m, x, f) /\ at' = at
  BY DEF PageDone
<1> PICK r : Alone(p, r) /\ at[p] = r /\ Known(p, r)
  BY <1>0, FreeToGo DEF LockedPCs
<1>1. /\ ~reg[r].v /\ reg[r].dbd \in Blocks /\ f \in Frames /\ frame[f].hash = reg[r].dbd
      /\ x \in Spots /\ (x.inP => reg[r].cw) /\ ~Enters(loc[p]) /\ TabsOK(m)
      /\ x.got \in Nat /\ freemem \in Nat
  BY <1>0 DEF Known, Fault, Enters
<1>2. m.fr = frame /\ m.q = freeq /\ m.free = freemem /\ m.u = ucnt
  BY DEF PgTables
<1>3. \A g \in Frames : /\ m.fr[g].use = frame[g].use + Bit(g = f) - Bit(Awaits(loc[p], g))
                        /\ m.fr[g].hash = frame[g].hash
  <2> SUFFICES ASSUME NEW g \in Frames
               PROVE  m.fr[g].use = frame[g].use + Bit(g = f) - Bit(Awaits(loc[p], g))
    BY <1>2
  <2>1. frame[g].use \in Int /\ (Awaits(loc[p], g) <=> g = f)
    BY <1>0 DEF Known, Awaits
  <2> QED
    BY <1>2, <2>1 DEF Bit
<1>4. /\ m.free + x.got \in Nat
      /\ Len(m.q) - m.free - x.got = Len(freeq) - freemem - loc[p].got
  BY <1>1, <1>2
<1>5. PgInv /\ Alone(p, r) /\ at' = at /\ m.u = ucnt /\ Latch(p, m, x, f)
  BY <1>0, <1>2
<1> QED
  BY ONLY <1>1, <1>3, <1>4, <1>5, LatchStep

\* swapchunkin has the window.
LEMMA SwapInStep ==
    ASSUME PgInv, NEW p \in PgProcs, SwapIn(p), loc[p].pc = "window"
    PROVE  PgInv'
<1> PICK y, m : y = [loc[p] EXCEPT !.pc = "swapin"] /\ m = PgTables
  OBVIOUS
<1> PICK r : Alone(p, r) /\ at[p] = r /\ Known(p, r)
  BY FreeToGo DEF LockedPCs
<1> PICK rp : rp = reg[r]
  OBVIOUS
<1>0. /\ rp \in Rgns /\ loc[p] \in Spots /\ TabsOK(m) /\ freemem \in Nat /\ PgTyped /\ r \in Regions
      /\ rp.lock
  <2>1. LocksExact /\ PgTyped /\ Locks(p, r) /\ r \in Regions
    BY DEF PgInv, Locks, LockedPCs, Alone
  <2>2. rp.lock
    BY <2>1 DEF LocksExact
  <2> QED
    BY <2>1, <2>2 DEF Known
<1>1. m.fr = frame /\ m.q = freeq /\ m.free = freemem /\ m.u = ucnt /\ m.oops = oops
  BY DEF PgTables
<1>2. /\ y \in Spots /\ y.pc = "swapin" /\ y.for = loc[p].for /\ y.got = loc[p].got
      /\ y.on = loc[p].on /\ y.inP = loc[p].inP
  BY <1>0 DEF Spots, LockedPCs
<1>3. Goes(p, r, m, rp, y)
  <2>1. reg' = [reg EXCEPT ![r] = rp]
    BY <1>0 DEF SwapIn, PgTyped
  <2>2. PgBecomes(m)
    BY <1>1 DEF SwapIn, PgBecomes
  <2>3. disk' = disk /\ at' = at /\ loc' = [loc EXCEPT ![p] = y]
    BY DEF SwapIn, PgGoes
  <2> QED
    BY <2>1, <2>2, <2>3 DEF Goes, Known
<1>4. TypesFit(r, m, rp, y)
  BY <1>0, <1>1, <1>2 DEF TypesFit, LockedPCs
<1>5. MemFits(p, m, y)
  BY <1>1, <1>2 DEF MemFits
<1>6. UsesFit(p, r, m, rp, y)
  <2> SUFFICES ASSUME NEW g \in Frames
               PROVE  m.fr[g].use = frame[g].use + Bit(Has(rp, y, g)) - Bit(Has(reg[r], loc[p], g))
                          + Bit(Awaits(y, g)) - Bit(Awaits(loc[p], g))
    BY DEF UsesFit
  <2>1. frame[g].use \in Int /\ ~Awaits(loc[p], g) /\ ~Awaits(y, g)
    BY <1>2 DEF Known, Awaits
  <2>2. Has(rp, y, g) <=> Has(reg[r], loc[p], g)
    BY <1>2 DEF Has, Enters
  <2> QED
    BY <1>1, <2>1, <2>2 DEF Bit
<1>7. SwapFits(r, m, rp)
  BY <1>1 DEF SwapFits, Known, Bit
<1>8. HashFits(p, r, m)
  BY <1>1 DEF HashFits
<1>9. StateFits(m, rp, y)
  <2>1. PageOf(rp, m.fr) /\ (rp.v \/ rp.dbd # "NONE")
    BY <1>1 DEF Known
  <2>2. rp.prot = Prot(rp) \/ (rp.prot = "KW" /\ Enters(y))
    BY <1>2 DEF Known, Enters
  <2>3. Fault(y, rp, m.fr)
    BY <1>1, <1>2 DEF Known, Fault, Asleep
  <2> QED
    BY <1>2, <2>1, <2>2, <2>3 DEF StateFits
<1> QED
  BY <1>3, <1>4, <1>5, <1>6, <1>7, <1>8, <1>9, FaultStep

\* A transfer is complete.
LEMMA ReadDoneStep ==
    ASSUME PgInv, NEW p \in PgProcs, ReadDone(p)
    PROVE  PgInv'
<1>0. loc[p].pc \in {"swapin", "file"} /\ at' = at
  BY DEF ReadDone
<1> PICK r : Alone(p, r) /\ at[p] = r /\ Known(p, r)
  BY <1>0, FreeToGo DEF LockedPCs
<1> PICK rp, f, x, l : rp = reg[r] /\ f = loc[p].on /\ x = loc[p] /\ l = PgTables
  OBVIOUS
<1> PICK w : w = IF x.pc = "swapin" THEN disk[rp.dbd] ELSE FileVal
  OBVIOUS
<1> PICK pg, fr : /\ pg = [frame[f] EXCEPT !.val = w, !.done = TRUE, !.mod = FALSE]
                  /\ fr = [frame EXCEPT ![f] = pg]
  OBVIOUS
<1> PICK m : m = Refit(l, fr, freemem)
  OBVIOUS
<1> PICK z, y : /\ z = [rp EXCEPT !.v = TRUE, !.prot = Prot(rp), !.lock = x.inP]
                /\ y = At(IF x.inP THEN "cow" ELSE "user")
  OBVIOUS
<1>1. /\ rp \in Rgns /\ x \in Spots /\ TabsOK(l) /\ freemem \in Nat /\ r \in Regions /\ f \in Frames
      /\ f = rp.pfn /\ rp.refs # 0 /\ x.got = 0 /\ (x.inP => rp.cw) /\ rp.dbd \in Blocks
      /\ frame[f].hash = rp.dbd /\ x.inP \in BOOLEAN /\ Enters(x) /\ x.pc # "hash"
      /\ frame \in [Frames -> Pages] /\ l \in Tables
  <2>1. /\ rp \in Rgns /\ x \in Spots /\ TabsOK(l) /\ freemem \in Nat /\ r \in Regions /\ rp.refs # 0
        /\ Fault(x, rp, frame) /\ PageOf(rp, frame)
    BY DEF Known, Alone
  <2>2. f \in Frames /\ f = rp.pfn /\ rp.dbd \in Blocks /\ frame[f].hash = rp.dbd /\ Enters(x)
        /\ x.pc # "hash"
    <3>1. CASE x.pc = "swapin"
      BY <2>1, <3>1 DEF Fault, Blocks, Enters
    <3>2. CASE x.pc = "file"
      BY <2>1, <3>2 DEF Fault, PageOf, Blocks, Enters
    <3> QED
      BY <1>0, <3>1, <3>2
  <2>3. frame \in [Frames -> Pages] /\ l \in Tables
    BY <2>1 DEF TabsOK, Tables, PgTables
  <2>4. x.got = 0 /\ (x.inP => rp.cw) /\ x.inP \in BOOLEAN
    BY <1>0, <2>1 DEF Fault, Spots
  <2> QED
    BY <2>1, <2>2, <2>3, <2>4
<1>2. w \in Vals
  <2>1. x.pc = "swapin" => rp.dbd \in SwapBlks
    BY DEF Known, Fault
  <2>2. disk \in [SwapBlks -> Vals] /\ FileVal \in Vals
    BY DEF Known, Vals
  <2> QED
    BY <2>1, <2>2
<1>3. pg \in Pages /\ pg.use = frame[f].use /\ pg.hash = frame[f].hash
  <2>1. frame[f] \in Pages
    BY <1>1
  <2>2. pg = [frame[f] EXCEPT !.val = w, !.done = TRUE, !.mod = FALSE]
    OBVIOUS
  <2> QED
    BY ONLY <1>2, <2>1, <2>2 DEF Pages
<1>4. Touched(l, m, freemem)
  <2>1. l.fr = frame
    BY DEF PgTables
  <2>2. /\ pg.use = l.fr[f].use /\ pg.hash = l.fr[f].hash /\ fr = [l.fr EXCEPT ![f] = pg]
        /\ freemem \in Int /\ m = Refit(l, fr, freemem) /\ TabsOK(l)
    BY <1>1, <1>3, <2>1
  <2>3. Touched(l, Refit(l, fr, freemem), freemem)
    BY ONLY <1>1, <1>3, <2>2, PageFacts
  <2> QED
    BY <2>2, <2>3, Zenon
<1>5. /\ TabsOK(m) /\ m.q = freeq /\ m.u = ucnt /\ m.free = freemem
      /\ \A g \in Frames : m.fr[g].use = frame[g].use /\ m.fr[g].hash = frame[g].hash
  <2>1. l.fr = frame /\ l.q = freeq /\ l.u = ucnt
    BY DEF PgTables
  <2> QED
    BY <1>4, <2>1 DEF Touched
<1>6. /\ z \in Rgns /\ z.v /\ z.lock = x.inP /\ z.prot = Prot(rp) /\ z.kind = rp.kind
      /\ z.refs = rp.refs /\ z.cw = rp.cw /\ z.dbd = rp.dbd /\ z.pfn = rp.pfn
      /\ z.noswap = rp.noswap
  <2>1. Prot(rp) \in {"UW", "UR", "KW"}
    BY DEF Prot
  <2>2. z = [rp EXCEPT !.v = TRUE, !.prot = Prot(rp), !.lock = x.inP]
    OBVIOUS
  <2> QED
    BY ONLY <1>1, <2>1, <2>2 DEF Rgns
<1>7. /\ y \in Spots /\ y.got = 0 /\ y.pc = (IF x.inP THEN "cow" ELSE "user") /\ ~y.inP /\ ~Enters(y)
      /\ y.for = "none" /\ \A g : ~Awaits(y, g)
  BY DEF At, Spots, LockedPCs, FreePCs, Enters, Awaits
<1>8. Goes(p, r, m, z, y)
  <2>1. PgBecomes(m)
    <3> PICK n : n = [PgTables EXCEPT !.fr[f].val = w, !.fr[f].done = TRUE, !.fr[f].mod = FALSE]
      OBVIOUS
    <3>1. PgBecomes(n)
      BY DEF ReadDone
    <3>2. n = [l EXCEPT !.fr = fr]
      <4> PICK pa, pb : /\ pa = [frame[f] EXCEPT !.val = w]
                        /\ pb = [pa EXCEPT !.done = TRUE]
        OBVIOUS
      <4> PICK fa, fb, fc : /\ fa = [frame EXCEPT ![f].val = w]
                            /\ fb = [fa EXCEPT ![f].done = TRUE]
                            /\ fc = [fb EXCEPT ![f].mod = FALSE]
        OBVIOUS
      <4>1. fa = [frame EXCEPT ![f] = pa] /\ pg = [pb EXCEPT !.mod = FALSE]
        OBVIOUS
      <4>2. fb = [frame EXCEPT ![f] = pb]
        <5>1. fa[f] = pa
          BY ONLY <1>1, <4>1
        <5>2. fb = [fa EXCEPT ![f] = pb]
          BY <5>1
        <5> QED
          BY ONLY <1>1, <4>1, <5>2
      <4>3. fc = [frame EXCEPT ![f] = pg]
        <5>1. fb[f] = pb
          BY ONLY <1>1, <4>2
        <5>2. fc = [fb EXCEPT ![f] = pg]
          BY <4>1, <5>1
        <5> QED
          BY ONLY <1>1, <4>2, <5>2
      <4>4. l.fr = frame /\ fc = fr
        BY <4>3 DEF PgTables
      <4>5. n = [[[l EXCEPT !.fr = fa] EXCEPT !.fr = fb] EXCEPT !.fr = fc]
        <5>1. n = [[[l EXCEPT !.fr[f].val = w] EXCEPT !.fr[f].done = TRUE] EXCEPT !.fr[f].mod = FALSE]
          OBVIOUS
        <5> PICK la, lb : la = [l EXCEPT !.fr[f].val = w] /\ lb = [la EXCEPT !.fr[f].done = TRUE]
          OBVIOUS
        <5>2. la = [l EXCEPT !.fr = fa] /\ la.fr = fa
          BY <1>1, <4>4 DEF Tables
        <5>3. lb = [la EXCEPT !.fr = fb] /\ lb.fr = fb
          BY <1>1, <5>2 DEF Tables
        <5>4. n = [lb EXCEPT !.fr = fc]
          <6>1. n = [lb EXCEPT !.fr[f].mod = FALSE]
            OBVIOUS
          <6>2. fc = [fb EXCEPT ![f].mod = FALSE] /\ lb.fr = fb
            BY <5>3
          <6> QED
            BY ONLY <6>1, <6>2
        <5> QED
          BY <5>2, <5>3, <5>4
      <4> QED
        BY ONLY <1>1, <4>4, <4>5 DEF Tables
    <3>3. n = m
      <4>1. m = Refit(l, fr, freemem) /\ l.free = freemem
        BY DEF PgTables
      <4> QED
        BY ONLY <1>1, <3>2, <4>1 DEF Tables, Refit
    <3> QED
      BY <3>1, <3>3
  <2>2. reg' = [reg EXCEPT ![r] = z] /\ loc' = [loc EXCEPT ![p] = y] /\ disk' = disk /\ at' = at
    BY DEF ReadDone, PgGoes
  <2> QED
    BY <2>1, <2>2 DEF Goes, Known
<1>9. TypesFit(r, m, z, y)
  BY <1>1, <1>5, <1>6, <1>7 DEF TypesFit, LockedPCs
<1>10. MemFits(p, m, y)
  BY <1>1, <1>5, <1>7 DEF MemFits
<1>11. UsesFit(p, r, m, z, y)
  <2> SUFFICES ASSUME NEW g \in Frames
               PROVE  m.fr[g].use = frame[g].use + Bit(Has(z, y, g)) - Bit(Has(reg[r], loc[p], g))
                          + Bit(Awaits(y, g)) - Bit(Awaits(loc[p], g))
    BY DEF UsesFit
  <2>0. frame[g].use \in Int
    BY DEF Known
  <2>1. frame[g].use \in Int /\ m.fr[g].use = frame[g].use
    BY <1>5, <2>0
  <2>2. ~Awaits(loc[p], g) /\ ~Awaits(y, g)
    BY <1>1, <1>7 DEF Awaits
  <2>3. Has(z, y, g) <=> Has(reg[r], loc[p], g)
    BY <1>1, <1>6 DEF Has
  <2> QED
    BY ONLY <2>1, <2>2, <2>3 DEF Bit
<1>12. SwapFits(r, m, z)
  <2>1. z.dbd = reg[r].dbd /\ m.u = ucnt /\ \A b \in SwapBlks : ucnt[b] \in Int
    BY <1>5, <1>6 DEF Known
  <2> QED
    BY ONLY <2>1 DEF SwapFits, Bit
<1>13. HashFits(p, r, m)
  BY <1>5 DEF HashFits
<1>14. StateFits(m, z, y)
  <2>1. rp.kind # "shared" /\ rp.kind # "unused" /\ rp.dbd # "DZERO" /\ rp.dbd # "NONE"
    BY <1>1, TablesAssumption, BlocksAssumption DEF Known, PageOf, Blocks
  <2>2. PageOf(z, m.fr)
    <3>1. m.fr[z.pfn].hash = z.dbd /\ z.pfn \in Frames
      BY ONLY <1>1, <1>5, <1>6
    <3>2. z.refs # 0 /\ z.kind # "unused" /\ z.kind # "shared" /\ z.dbd # "DZERO" /\ z.dbd # "NONE"
      BY <1>1, <1>6, <2>1
    <3> QED
      BY ONLY <3>1, <3>2 DEF PageOf
  <2>3. z.prot = Prot(z)
    BY <1>6 DEF Prot
  <2>4. Fault(y, z, m.fr)
    BY <1>1, <1>6, <1>7, <2>1 DEF Fault, Asleep
  <2> QED
    BY <1>6, <1>7, <2>2, <2>3, <2>4 DEF StateFits
<1> QED
  BY <1>8, <1>9, <1>10, <1>11, <1>12, <1>13, <1>14, FaultStep

-----------------------------------------------------------------------------
(* Steps of processes that do not touch their region *)

\* Process p goes to y, and the data of frames may change.
LEMMA AsideStep ==
    ASSUME PgInv, NEW p \in PgProcs, NEW r \in Regions, at[p] = r, loc[p].pc \notin LockedPCs,
           NEW y \in Spots, y.pc \notin LockedPCs, y.pc # "idle", loc[p].pc # "idle",
           loc' = [loc EXCEPT ![p] = y], reg' = reg, at' = at, disk' = disk, freeq' = freeq,
           ucnt' = ucnt, freemem' \in Nat, freemem' + y.got = freemem + loc[p].got,
           TabsOK(PgTables'), Fault(y, reg[r], frame),
           \A f \in Frames : frame'[f].use = frame[f].use /\ frame'[f].hash = frame[f].hash
    PROVE  PgInv'
<1>0. /\ PgTyped /\ UsesExact /\ RegOf(r) /\ r # Null /\ p \notin Daemons /\ p \in Actors
      /\ \A q \in PgProcs : ProcOf(q)
  BY TablesAssumption DEF PgInv, Actors
<1>1. /\ loc'[p] = y /\ \A b \in Actors \ {p} : loc'[b] = loc[b]
  BY <1>0 DEF PgTyped, Actors
<1>2. Acts(p, r)
  BY <1>0, <1>1 DEF Acts, SameRegion
<1>3. LockStep(p, r)
  <2>1. ~Locks(p, r) /\ ~Locks(p, r)'
    BY <1>0, <1>1 DEF Locks
  <2> QED
    BY <2>1 DEF LockStep, Aside
<1>4. RefStep(p, r)
  <2>1. reg[r].refs \in Int
    BY <1>0 DEF PgTyped, Rgns
  <2> QED
    BY <2>1 DEF RefStep, Bit
<1>5. (Leaving(r)' <=> Leaving(r)) /\ (Entering(r)' <=> Entering(r))
  <2>1. \A d \in Daemons : loc'[d] = loc[d]
    BY <1>0, <1>1 DEF Actors
  <2>2. \A q \in PgProcs : at[q] = r =>
            (loc'[q].pc \in {"window", "swapin", "file"} <=> loc[q].pc \in {"window", "swapin", "file"})
    BY <1>1 DEF LockedPCs, Actors
  <2> QED
    BY <2>1, <2>2 DEF Leaving, Entering
<1>6. UseStep(p, r)
  <2> SUFFICES ASSUME NEW f \in Frames
               PROVE  frame'[f].use = frame[f].use + Bit(r \in Using(f)') - Bit(r \in Using(f))
                                     + Bit(p \in Waiting(f)') - Bit(p \in Waiting(f))
    BY DEF UseStep
  <2>1. r \in Using(f)' <=> r \in Using(f)
    BY <1>5 DEF Using
  <2>2. p \notin Waiting(f) /\ p \notin Waiting(f)'
    BY <1>1 DEF Waiting, LockedPCs
  <2>3. frame[f].use \in Nat /\ frame'[f].use = frame[f].use
    BY <1>0, UserCounts
  <2> QED
    BY <2>1, <2>2, <2>3 DEF Bit
<1>7. SwapStep(r)
  <2>1. \A b \in SwapBlks : ucnt[b] \in Int
    BY DEF PgInv, TabsOK, Tables, PgTables
  <2> QED
    BY <2>1 DEF SwapStep, Bit
<1>8. MemStep(p)
  <2>1. freemem \in Nat /\ loc[p].got \in Nat /\ y.got \in Nat
    BY <1>0 DEF PgTyped, Spots, Actors
  <2>2. Got(p) = loc[p].got /\ Got(p)' = y.got
    BY <1>1 DEF Got
  <2>3. Len(freeq) \in Nat
    <3>1. freeq \in Seq(Frames)
      BY DEF PgInv, TabsOK, Tables, PgTables
    <3> QED
      BY ONLY <3>1
  <2> QED
    BY SMTT(60), ZenonT(60), <2>1, <2>2, <2>3 DEF MemStep
<1>9. HashStep(p, r)
  <2>1. \A d \in Daemons \ {p} :
           loc[d].pc = "swapout" /\ loc[d].on # r => reg'[r].dbd # reg[loc[d].on].dbd
    <3> SUFFICES ASSUME NEW d \in Daemons, loc[d].pc = "swapout", loc[d].on # r
                 PROVE  reg[r].dbd # reg[loc[d].on].dbd
      OBVIOUS
    <3>1. DaemonOf(d)
      BY DEF PgInv
    <3> QED
      BY <3>1 DEF DaemonOf
  <2> QED
    BY <2>1 DEF HashStep
<1>10. PgTyped'
  BY <1>0 DEF PgTyped
<1>11. Here(p, r)
  <2>1. RegOf(r)'
    BY <1>0, <1>5 DEF RegOf, PageOf
  <2>2. ProcOf(p)'
    <3>1. Fault(y, reg[r], frame')
      BY <1>0 DEF Fault, RegOf, PageOf, LockedPCs
    <3> QED
      BY <1>0, <1>1, <3>1 DEF ProcOf
  <2>3. ASSUME NEW q \in PgProcs \ {p}, at[q] = r PROVE ProcOf(q)'
    <3>1. ProcOf(q) /\ loc'[q] = loc[q] /\ at'[q] = r
      BY <1>0, <1>1, <2>3 DEF Actors
    <3>2. loc[q].pc = "hash" => frame'[loc[q].on].hash = frame[loc[q].on].hash
      BY <2>3, <3>1 DEF ProcOf, Fault
    <3>3. loc[q].pc \in {"window", "swapin"} => frame'[reg[r].pfn].hash = frame[reg[r].pfn].hash
      BY <2>3, <3>1 DEF ProcOf, Fault
    <3> QED
      BY <1>0, <2>3, <3>1, <3>2, <3>3 DEF ProcOf, Fault, Asleep
  <2> QED
    BY <1>0, <2>1, <2>2, <2>3 DEF Here
<1> QED
  BY <1>2, <1>3, <1>4, <1>6, <1>7, <1>8, <1>9, <1>10, <1>11, ActorStep

\* What a process that does not fault has, its region and its counts.
LEMMA UserFacts ==
    ASSUME PgInv, NEW p \in PgProcs, loc[p].pc \in {"user", "mem"}
    PROVE  /\ at[p] \in Regions /\ reg[at[p]] \in Rgns /\ loc[p] \in Spots /\ loc[p].got = 0
           /\ freemem \in Nat /\ Fault(loc[p], reg[at[p]], frame) /\ RegOf(at[p])
           /\ reg[at[p]].refs # 0 /\ TabsOK(PgTables) /\ loc \in [PgProcs \cup Daemons -> Spots]
<1>1. at[p] \in Regions
  BY InRegion
<1>2. /\ PgTyped /\ ProcOf(p) /\ RegOf(at[p]) /\ RefsExact /\ TabsOK(PgTables)
  BY <1>1 DEF PgInv
<1>3. reg[at[p]] \in Rgns /\ loc[p] \in Spots /\ freemem \in Nat
  BY <1>1, <1>2 DEF PgTyped
<1>4. reg[at[p]].refs # 0
  <2>1. p \in Attached(at[p]) /\ reg[at[p]].refs = Cardinality(Attached(at[p]))
    BY <1>1, <1>2 DEF Attached, RefsExact
  <2> QED
    BY <2>1, AttachedFinite, CountFacts
<1>5. Fault(loc[p], reg[at[p]], frame) /\ loc[p].got = 0
  BY <1>2 DEF ProcOf, Fault
<1> QED
  BY <1>1, <1>2, <1>3, <1>4, <1>5 DEF PgTyped

\* A process uses its page and traps.
LEMMA TransTrapStep ==
    ASSUME PgInv, NEW p \in PgProcs, TransTrap(p)
    PROVE  PgInv'
<1> PICK y, r : y = At("vfault") /\ r = at[p]
  OBVIOUS
<1>0. /\ loc[p].pc = "user" /\ loc' = [loc EXCEPT ![p] = y] /\ reg' = reg /\ at' = at /\ disk' = disk
      /\ freeq' = freeq /\ ucnt' = ucnt /\ freemem' = freemem /\ frame' = frame /\ oops' = oops
  BY DEF TransTrap, PgGoes
<1>1. /\ r \in Regions /\ reg[r] \in Rgns /\ loc[p].got = 0 /\ freemem \in Nat
      /\ TabsOK(PgTables) /\ loc[p].pc \notin LockedPCs
  BY <1>0, UserFacts DEF LockedPCs
<1>2. y \in Spots /\ y.pc = "vfault" /\ y.pc \notin LockedPCs /\ y.got = 0 /\ ~y.inP
  BY DEF At, Spots, LockedPCs, FreePCs
<1>3. Fault(y, reg[r], frame)
  BY <1>2 DEF Fault, Asleep
<1>4. TabsOK(PgTables')
  BY <1>0, <1>1 DEF PgTables
<1> QED
  BY <1>0, <1>1, <1>2, <1>3, <1>4, AsideStep

\* A process writes to a page that is copied on write, and traps.
LEMMA ProtTrapStep ==
    ASSUME PgInv, NEW p \in PgProcs, ProtTrap(p)
    PROVE  PgInv'
<1> PICK y, r : y = At("pfault") /\ r = at[p]
  OBVIOUS
<1>0. /\ loc[p].pc = "user" /\ loc' = [loc EXCEPT ![p] = y] /\ reg' = reg /\ at' = at /\ disk' = disk
      /\ freeq' = freeq /\ ucnt' = ucnt /\ freemem' = freemem /\ frame' = frame /\ oops' = oops
      /\ reg[r].prot # "UW"
  BY DEF ProtTrap, PgGoes
<1>1. /\ r \in Regions /\ reg[r] \in Rgns /\ loc[p].got = 0 /\ freemem \in Nat
      /\ TabsOK(PgTables) /\ loc[p].pc \notin LockedPCs /\ RegOf(r)
  BY <1>0, UserFacts DEF LockedPCs
<1>2. y \in Spots /\ y.pc = "pfault" /\ y.pc \notin LockedPCs /\ y.got = 0 /\ ~y.inP
  BY DEF At, Spots, LockedPCs, FreePCs
<1>3. ~Entering(r)
  <2> SUFFICES ASSUME NEW q \in PgProcs, at[q] = r, loc[q].pc \in {"window", "swapin", "file"}
               PROVE  FALSE
    BY DEF Entering
  <2>1. q # p
    BY <1>0
  <2>2. reg[r].kind = "shared"
    BY <1>1, <2>1 DEF PgInv, RefsExact
  <2>3. Fault(loc[q], reg[r], frame)
    BY DEF PgInv, ProcOf
  <2> QED
    BY <2>2, <2>3 DEF Fault, Asleep
<1>4. reg[r].cw /\ reg[r].kind # "shared"
  BY <1>0, <1>1, <1>3 DEF RegOf, Prot, PageOf
<1>5. Fault(y, reg[r], frame)
  BY <1>2, <1>4 DEF Fault, Asleep
<1>6. TabsOK(PgTables')
  BY <1>0, <1>1 DEF PgTables
<1> QED
  BY <1>0, <1>1, <1>2, <1>5, <1>6, AsideStep

\* memreserve has the memory.
LEMMA MemreserveStep ==
    ASSUME PgInv, NEW p \in PgProcs, Memreserve(p)
    PROVE  PgInv'
<1> PICK x, r : x = loc[p] /\ r = at[p]
  OBVIOUS
<1> PICK y, k : y = [x EXCEPT !.pc = "relock", !.got = Wanted(x)] /\ k = freemem - Wanted(x)
  OBVIOUS
<1> PICK m : m = [PgTables EXCEPT !.free = k]
  OBVIOUS
<1>0. /\ x.pc = "mem" /\ freemem >= Wanted(x) /\ at' = at
      /\ \/ reg[r].lock /\ PgBecomes(m) /\ loc' = [loc EXCEPT ![p] = y] /\ reg' = reg /\ disk' = disk
         \/ ~reg[r].lock /\ Resume(p, m, y)
  <2>1. m = [PgTables EXCEPT !.free = @ - Wanted(loc[p])]
    BY DEF PgTables
  <2> QED
    BY <2>1 DEF Memreserve, PgGoes
<1>1. /\ r \in Regions /\ reg[r] \in Rgns /\ x \in Spots /\ x.got = 0 /\ freemem \in Nat
      /\ TabsOK(PgTables) /\ x.pc \notin LockedPCs /\ Fault(x, reg[r], frame)
  BY <1>0, UserFacts DEF LockedPCs
<1>2. Wanted(x) \in Nat /\ k \in Nat /\ k + Wanted(x) = freemem
  <2>1. Wanted(x) \in Nat
    BY PrepAssumption DEF Wanted
  <2> QED
    BY <1>0, <1>1, <2>1
<1>3. /\ y \in Spots /\ y.pc = "relock" /\ y.pc \notin LockedPCs /\ y.got = Wanted(x)
      /\ y.inP = x.inP /\ y.for = x.for /\ y.on = x.on /\ Wanted(y) = Wanted(x)
  BY <1>1, <1>2 DEF Spots, LockedPCs, FreePCs, Wanted
<1>4. Fault(y, reg[r], frame)
  BY <1>0, <1>1, <1>3 DEF Fault, Asleep
<1>5. Touched(PgTables, m, k) /\ m.fr = PgTables.fr /\ TabsOK(m)
  <2>1. Touched(PgTables, m, k) /\ m.fr = PgTables.fr
    BY <1>1, <1>2, FreeFacts
  <2> QED
    BY <2>1 DEF Touched
<1>6. m.fr = frame /\ m.q = freeq /\ m.u = ucnt /\ m.free = k
  BY <1>5 DEF PgTables, Touched
<1>7. k + y.got = freemem + loc[p].got
  BY <1>1, <1>2, <1>3
<1>8. CASE reg[r].lock /\ PgBecomes(m) /\ loc' = [loc EXCEPT ![p] = y] /\ reg' = reg /\ disk' = disk
  <2>1. frame' = frame /\ freeq' = freeq /\ freemem' = k /\ ucnt' = ucnt
    BY <1>6, <1>8 DEF PgBecomes
  <2>2. TabsOK(PgTables')
    <3>1. m \in Tables
      BY <1>5 DEF TabsOK
    <3> QED
      BY <1>5, <1>8, <3>1, TablesAfter
  <2>3. /\ freemem' \in Nat /\ freemem' + y.got = freemem + loc[p].got
        /\ \A f \in Frames : frame'[f].use = frame[f].use /\ frame'[f].hash = frame[f].hash
    BY <1>2, <1>7, <2>1
  <2>4. /\ p \in PgProcs /\ r \in Regions /\ at[p] = r /\ y \in Spots
        /\ loc[p].pc \notin LockedPCs /\ loc[p].pc # "idle"
        /\ y.pc \notin LockedPCs /\ y.pc # "idle" /\ Fault(y, reg[r], frame)
    BY <1>0, <1>1, <1>3, <1>4
  <2>5. /\ loc' = [loc EXCEPT ![p] = y] /\ reg' = reg /\ at' = at /\ disk' = disk
        /\ freeq' = freeq /\ ucnt' = ucnt
    BY <1>0, <1>8, <2>1
  <2> QED
    BY ONLY PgInv, <2>2, <2>3, <2>4, <2>5, AsideStep
<1>9. CASE ~reg[r].lock /\ Resume(p, m, y)
  <2>1. Alone(p, r) /\ ~Enters(loc[p])
    BY <1>0, <1>1, <1>9 DEF Alone, Enters
  <2>2. Decides(p, r, y) /\ loc[p].pc # "hash"
    <3>1. y.inP => reg[r].cw
      BY <1>0, <1>1, <1>3 DEF Fault
    <3> QED
      BY <1>0, <1>3, <2>1, <3>1 DEF Decides
  <2>3. y.pc = "relock" /\ y.got = Wanted(y) /\ m.free \in Nat /\ m.free + y.got = freemem + loc[p].got
    BY <1>2, <1>3, <1>6, <1>7
  <2> QED
    BY ONLY PgInv, <1>0, <1>4, <1>5, <1>6, <1>9, <2>2, <2>3, ResumeStep
<1> QED
  BY <1>0, <1>8, <1>9

\* The processor writes.
LEMMA UserWriteStep ==
    ASSUME PgInv, NEW p \in PgProcs, NEW w \in Values, UserWrite(p, w)
    PROVE  PgInv'
<1> PICK y, r, f : y = loc[p] /\ r = at[p] /\ f = reg[r].pfn
  OBVIOUS
<1> PICK pg, fr : /\ pg = [frame[f] EXCEPT !.val = w, !.mod = TRUE]
                  /\ fr = [frame EXCEPT ![f] = pg]
  OBVIOUS
<1>0. /\ y.pc = "user" /\ reg' = reg /\ at' = at /\ disk' = disk /\ loc' = loc
      /\ freeq' = freeq /\ ucnt' = ucnt /\ freemem' = freemem /\ oops' = oops /\ reg[r].v
      /\ frame' = [[frame EXCEPT ![f].val = w] EXCEPT ![f].mod = TRUE]
  BY DEF UserWrite
<1>1. /\ r \in Regions /\ reg[r] \in Rgns /\ y \in Spots /\ y.got = 0 /\ freemem \in Nat
      /\ TabsOK(PgTables) /\ y.pc \notin LockedPCs /\ Fault(y, reg[r], frame) /\ f \in Frames
      /\ frame \in [Frames -> Pages] /\ loc \in [PgProcs \cup Daemons -> Spots]
  <2>1. /\ r \in Regions /\ reg[r] \in Rgns /\ y \in Spots /\ y.got = 0 /\ freemem \in Nat
        /\ TabsOK(PgTables) /\ Fault(y, reg[r], frame) /\ RegOf(r)
        /\ loc \in [PgProcs \cup Daemons -> Spots]
    BY <1>0, UserFacts
  <2>2. f \in Frames
    BY <1>0, <2>1 DEF RegOf, PageOf
  <2>3. frame \in [Frames -> Pages]
    BY <2>1 DEF TabsOK, Tables, PgTables
  <2> QED
    BY <1>0, <2>1, <2>2, <2>3 DEF LockedPCs
<1>2. pg \in Pages /\ pg.use = frame[f].use /\ pg.hash = frame[f].hash
  <2>1. frame[f] \in Pages /\ w \in Vals
    BY <1>1 DEF Vals
  <2>2. pg = [frame[f] EXCEPT !.val = w, !.mod = TRUE]
    OBVIOUS
  <2> QED
    BY ONLY <2>1, <2>2 DEF Pages
<1>3. frame' = fr
  <2> PICK pa, fa : pa = [frame[f] EXCEPT !.val = w] /\ fa = [frame EXCEPT ![f].val = w]
    OBVIOUS
  <2>1. fa = [frame EXCEPT ![f] = pa] /\ pg = [pa EXCEPT !.mod = TRUE]
    OBVIOUS
  <2>2. frame' = [fa EXCEPT ![f].mod = TRUE] /\ fa[f] = pa
    BY <1>0, <1>1, <2>1
  <2>3. frame' = [fa EXCEPT ![f] = pg]
    BY <2>1, <2>2
  <2> QED
    BY ONLY <1>1, <2>1, <2>3, fr = [frame EXCEPT ![f] = pg]
<1>4. Touched(PgTables, PgTables', freemem)
  <2> PICK l : l = PgTables
    OBVIOUS
  <2>1. /\ l.fr = frame /\ l \in Tables
    BY <1>1 DEF PgTables, TabsOK
  <2>2. /\ pg.use = l.fr[f].use /\ pg.hash = l.fr[f].hash /\ fr = [l.fr EXCEPT ![f] = pg]
        /\ freemem \in Int /\ TabsOK(l)
    BY <1>1, <1>2, <2>1
  <2> PICK m : m = Refit(l, fr, freemem)
    OBVIOUS
  <2>3. Touched(l, Refit(l, fr, freemem), freemem) /\ Refit(l, fr, freemem).fr = fr
    BY ONLY <1>1, <1>2, <2>2, PageFacts
  <2>4. Touched(l, m, freemem) /\ m.fr = fr
    BY <2>3, Zenon
  <2>5. m \in Tables /\ m.q = freeq /\ m.u = ucnt /\ m.free = freemem /\ m.oops = oops
    <3>1. l.q = freeq /\ l.u = ucnt /\ l.oops = oops /\ l.oops = "none"
      BY <2>1 DEF PgTables, Tables
    <3>2. m \in Tables /\ m.oops = "none"
      BY <2>4 DEF Touched, TabsOK, Tables
    <3> QED
      BY <2>4, <3>1, <3>2 DEF Touched
  <2>6. PgBecomes(m)
    BY <1>0, <1>3, <2>4, <2>5 DEF PgBecomes
  <2>7. PgTables' = m
    BY <2>5, <2>6, TablesAfter
  <2> QED
    BY <2>4, <2>7, Zenon
<1>5. /\ TabsOK(PgTables')
      /\ \A g \in Frames : frame'[g].use = frame[g].use /\ frame'[g].hash = frame[g].hash
  BY <1>4 DEF Touched, PgTables
<1>6. loc' = [loc EXCEPT ![p] = y] /\ y.pc # "idle" /\ freemem' + y.got = freemem + loc[p].got
  BY <1>0, <1>1
<1> QED
  BY ONLY PgInv, p \in PgProcs, <1>0, <1>1, <1>5, <1>6, AsideStep, r = at[p], y = loc[p]

-----------------------------------------------------------------------------
(* Regions come and go *)

\* A region that is not used is as it was at first, and nobody has it.
LEMMA UnusedFacts ==
    ASSUME PgInv, NEW r \in UnusedRegs
    PROVE  /\ r \in Regions /\ reg[r] = NoRegion /\ reg[r].refs = 0 /\ ~reg[r].lock /\ ~reg[r].v
           /\ reg[r].dbd = "NONE" /\ reg[r].kind = "unused"
           /\ \A q \in PgProcs : at[q] # r
<1>1. r \in Regions /\ reg[r].refs = 0
  BY DEF UnusedRegs
<1>2. RegOf(r) /\ RefsExact
  BY <1>1 DEF PgInv
<1>3. reg[r] = NoRegion
  BY <1>1, <1>2 DEF RegOf, PageOf
<1>4. ASSUME NEW q \in PgProcs, at[q] = r PROVE FALSE
  <2>1. q \in Attached(r) /\ reg[r].refs = Cardinality(Attached(r))
    BY <1>1, <1>2, <1>4 DEF Attached, RefsExact
  <2> QED
    BY <1>1, <2>1, AttachedFinite, CountFacts
<1>5. ~reg[r].lock /\ ~reg[r].v /\ reg[r].dbd = "NONE" /\ reg[r].kind = "unused"
  BY <1>3 DEF NoRegion
<1> QED
  BY <1>1, <1>3, <1>4, <1>5

\* The page of swap that a daemon writes to is not one of region s, when the daemon is not at
\* work on s.
LEMMA WrittenElsewhere ==
    ASSUME PgInv, NEW d \in Daemons, loc[d].pc = "swapout", NEW s \in Regions, loc[d].on # s
    PROVE  reg[loc[d].on].dbd \in SwapBlks /\ reg[s].dbd # reg[loc[d].on].dbd
<1>1. DaemonOf(d)
  BY DEF PgInv
<1> QED
  BY <1>1 DEF DaemonOf

\* A process without a region.
LEMMA IdleFacts ==
    ASSUME PgInv, NEW p \in PgProcs, at[p] = Null
    PROVE  /\ loc[p].pc = "idle" /\ loc[p].got = 0 /\ PgTyped /\ p \in Actors /\ p \notin Daemons
           /\ TabsOK(PgTables) /\ Len(freeq) \in Nat /\ \A b \in SwapBlks : ucnt[b] \in Int
<1>1. ProcOf(p) /\ PgTyped /\ TabsOK(PgTables)
  BY DEF PgInv
<1>2. loc[p].pc = "idle" /\ loc[p].got = 0
  BY <1>1 DEF ProcOf, Fault
<1>3. freeq \in Seq(Frames) /\ \A b \in SwapBlks : ucnt[b] \in Int
  BY <1>1 DEF TabsOK, Tables, PgTables
<1>4. Len(freeq) \in Nat
  BY ONLY <1>3
<1> QED
  BY <1>1, <1>2, <1>3, <1>4, TablesAssumption DEF Actors

\* A region is made.
LEMMA MakeStep ==
    ASSUME PgInv, LockedShm, NEW p \in PgProcs, NEW r \in Regions, NEW k \in Kinds, Make(p, r, k)
    PROVE  PgInv'
<1> PICK y, z : /\ y = At("user")
                /\ z = [NoRegion EXCEPT !.kind = k.kind, !.refs = 1, !.noswap = k.noswap,
                           !.dbd = k.dbd, !.cw = (k.dbd = File),
                           !.prot = IF k.dbd = File THEN "UR" ELSE "UW"]
  OBVIOUS
<1>0. /\ at[p] = Null /\ r \in UnusedRegs /\ loc' = [loc EXCEPT ![p] = y] /\ reg' = [reg EXCEPT ![r] = z]
      /\ at' = [at EXCEPT ![p] = r] /\ frame' = frame /\ freeq' = freeq /\ freemem' = freemem
      /\ ucnt' = ucnt /\ disk' = disk /\ oops' = oops
  BY DEF Make, PgGoes
<1>1. /\ loc[p].pc = "idle" /\ loc[p].got = 0 /\ PgTyped /\ p \in Actors /\ p \notin Daemons
      /\ TabsOK(PgTables) /\ Len(freeq) \in Nat /\ \A b \in SwapBlks : ucnt[b] \in Int
  BY <1>0, IdleFacts
<1>2. /\ reg[r] = NoRegion /\ reg[r].refs = 0 /\ ~reg[r].lock /\ ~reg[r].v
      /\ reg[r].dbd = "NONE" /\ reg[r].kind = "unused" /\ \A q \in PgProcs : at[q] # r
  BY <1>0, UnusedFacts
<1>3. /\ k.kind \in {"private", "shared"} /\ k.noswap \in BOOLEAN /\ k.dbd \in {"DZERO", File}
      /\ k.kind = "shared" => k.noswap /\ k.dbd = "DZERO"
  BY KindsAssumption DEF LockedShm
<1>4. /\ z \in Rgns /\ z.kind = k.kind /\ z.refs = 1 /\ z.noswap = k.noswap /\ z.dbd = k.dbd
      /\ (z.cw <=> k.dbd = File) /\ z.prot = Prot(z) /\ ~z.lock /\ ~z.v /\ ~z.pin
  <2>1. z = [kind |-> k.kind, refs |-> 1, noswap |-> k.noswap, lock |-> FALSE, v |-> FALSE,
             pfn |-> Null, cw |-> k.dbd = File, prot |-> IF k.dbd = File THEN "UR" ELSE "UW",
             pin |-> FALSE, dbd |-> k.dbd]
    BY DEF NoRegion
  <2> PICK c \in BOOLEAN : c <=> k.dbd = File
    OBVIOUS
  <2> PICK u : u = IF k.dbd = File THEN "UR" ELSE "UW"
    OBVIOUS
  <2>2. z = [kind |-> k.kind, refs |-> 1, noswap |-> k.noswap, lock |-> FALSE, v |-> FALSE,
             pfn |-> Null, cw |-> c, prot |-> u, pin |-> FALSE, dbd |-> k.dbd]
    <3>1. c = (k.dbd = File)
      BY Zenon
    <3> QED
      BY <2>1, <3>1
  <2>3. u \in {"UR", "UW"} /\ u = IF c THEN "UR" ELSE "UW"
    OBVIOUS
  <2>4. c \in BOOLEAN /\ (c <=> k.dbd = File)
    OBVIOUS
  <2>5. z \in Rgns
    BY ONLY <1>3, <2>2, <2>3, <2>4 DEF Rgns, Blocks
  <2> QED
    BY ONLY <2>2, <2>3, <2>4, <2>5 DEF Prot
<1>5. y \in Spots /\ y.pc = "user" /\ y.got = 0 /\ ~y.inP /\ y.for = "none" /\ y.on = Null
  BY DEF At, Spots, LockedPCs, FreePCs
<1>6. /\ loc'[p] = y /\ at'[p] = r /\ reg'[r] = z /\ r # Null
      /\ \A b \in Actors \ {p} : loc'[b] = loc[b]
      /\ \A q \in PgProcs \ {p} : at'[q] = at[q]
      /\ \A t \in Regions \ {r} : reg'[t] = reg[t]
  BY <1>0, <1>1, TablesAssumption DEF PgTyped, Actors
<1>7. Acts(p, r)
  BY <1>0, <1>1, <1>6 DEF Acts, SameRegion
<1>8. ~Leaving(r) /\ ~Leaving(r)' /\ ~Entering(r) /\ ~Entering(r)'
  BY <1>0, <1>2, <1>5, <1>6, <1>7, AloneFacts DEF Enters
<1>9. LockStep(p, r)
  <2>1. ~Locks(p, r)'
    BY <1>1, <1>5, <1>6 DEF Locks, LockedPCs
  <2> QED
    BY <1>2, <1>4, <1>6, <2>1 DEF LockStep, WithLock
<1>10. RefStep(p, r)
  <2>1. p \in PgProcs /\ at'[p] = r /\ at[p] # r /\ reg'[r].refs = 1 /\ reg[r].refs = 0
    BY <1>0, <1>2, <1>4, <1>6
  <2> QED
    BY ONLY <2>1 DEF RefStep, Bit
<1>11. UseStep(p, r)
  <2> SUFFICES ASSUME NEW f \in Frames
               PROVE  frame'[f].use = frame[f].use + Bit(r \in Using(f)') - Bit(r \in Using(f))
                                     + Bit(p \in Waiting(f)') - Bit(p \in Waiting(f))
    BY DEF UseStep
  <2>1. r \notin Using(f)' /\ r \notin Using(f)
    BY <1>2, <1>4, <1>6, <1>8 DEF Using
  <2>2. p \notin Waiting(f) /\ p \notin Waiting(f)'
    BY <1>1, <1>5, <1>6 DEF Waiting
  <2>3. frame[f].use \in Nat /\ frame'[f].use = frame[f].use
    BY <1>0, UserCounts DEF PgInv
  <2> QED
    BY ONLY <2>1, <2>2, <2>3 DEF Bit
<1>12. SwapStep(r)
  <2>1. \A b \in SwapBlks : b # "NONE" /\ b # "DZERO" /\ b # File
    BY TablesAssumption, BlocksAssumption
  <2> QED
    BY <1>0, <1>1, <1>2, <1>3, <1>4, <1>6, <2>1 DEF SwapStep, Bit
<1>13. MemStep(p)
  BY <1>0, <1>1, <1>5, <1>6 DEF MemStep, Got, PgTyped
<1>14. HashStep(p, r)
  <2>1. \A d \in Daemons \ {p} :
           loc[d].pc = "swapout" /\ loc[d].on # r => reg'[r].dbd # reg[loc[d].on].dbd
    BY <1>3, <1>4, <1>6, WrittenElsewhere, TablesAssumption, BlocksAssumption
  <2> QED
    BY <1>0, <2>1 DEF HashStep
<1>15. TabsOK(PgTables)'
  BY <1>0, <1>1 DEF PgTables
<1>16. PgTyped'
  BY <1>0, <1>1, <1>4, <1>5 DEF PgTyped
<1>17. Here(p, r)
  <2>1. RegOf(r)'
    <3>1. PageOf(z, frame')
      <4>1. z.refs # 0 /\ z.kind # "unused" /\ (z.kind = "shared" => z.dbd # File)
        BY <1>3, <1>4, TablesAssumption
      <4> QED
        BY ONLY <1>3, <1>4, <4>1 DEF PageOf
    <3>2. z.dbd # "NONE"
      BY <1>3, <1>4, TablesAssumption
    <3> QED
      BY <1>4, <1>6, <3>1, <3>2 DEF RegOf
  <2>2. ProcOf(p)'
    <3>1. Fault(y, z, frame')
      BY <1>5 DEF Fault, Asleep
    <3> QED
      BY <1>5, <1>6, <3>1 DEF ProcOf
  <2> QED
    BY <1>1, <1>2, <1>6, <2>1, <2>2 DEF Here
<1> QED
  BY <1>7, <1>9, <1>10, <1>11, <1>12, <1>13, <1>14, <1>15, <1>16, <1>17, ActorStep

\* A region is attached once more.
LEMMA AttachStep ==
    ASSUME PgInv, NEW p \in PgProcs, NEW r \in Regions, Attach(p, r)
    PROVE  PgInv'
<1> PICK y, z : y = At("user") /\ z = [reg[r] EXCEPT !.refs = @ + 1]
  OBVIOUS
<1>0. /\ at[p] = Null /\ loc' = [loc EXCEPT ![p] = y] /\ reg' = [reg EXCEPT ![r] = z]
      /\ at' = [at EXCEPT ![p] = r] /\ frame' = frame /\ freeq' = freeq /\ freemem' = freemem
      /\ ucnt' = ucnt /\ disk' = disk /\ oops' = oops /\ reg[r].kind = "shared" /\ ~reg[r].lock
  BY DEF Attach, PgGoes
<1>1. /\ loc[p].pc = "idle" /\ loc[p].got = 0 /\ PgTyped /\ p \in Actors /\ p \notin Daemons
      /\ TabsOK(PgTables) /\ Len(freeq) \in Nat /\ \A b \in SwapBlks : ucnt[b] \in Int
  BY <1>0, IdleFacts
<1>2. RegOf(r) /\ reg[r] \in Rgns /\ reg[r].refs \in Nat /\ reg[r].refs # 0
  <2>1. RegOf(r) /\ reg[r] \in Rgns /\ reg[r].refs = Cardinality(Attached(r))
    BY <1>1 DEF PgInv, PgTyped, RefsExact
  <2>2. reg[r].refs \in Nat
    BY <2>1, AttachedFinite, CountFacts
  <2>3. reg[r].refs # 0
    BY <1>0, <2>1 DEF RegOf, PageOf, NoRegion
  <2> QED
    BY <2>1, <2>2, <2>3
<1>4. /\ z \in Rgns /\ z.kind = reg[r].kind /\ z.refs = reg[r].refs + 1 /\ z.noswap = reg[r].noswap
      /\ z.dbd = reg[r].dbd /\ z.cw = reg[r].cw /\ z.prot = reg[r].prot /\ z.lock = reg[r].lock
      /\ z.v = reg[r].v /\ z.pin = reg[r].pin /\ z.pfn = reg[r].pfn
  <2>1. z = [reg[r] EXCEPT !.refs = @ + 1]
    OBVIOUS
  <2> QED
    BY ONLY <1>2, <2>1 DEF Rgns
<1>5. y \in Spots /\ y.pc = "user" /\ y.got = 0 /\ ~y.inP /\ y.for = "none" /\ y.on = Null
  BY DEF At, Spots, LockedPCs, FreePCs
<1>6. /\ loc'[p] = y /\ at'[p] = r /\ reg'[r] = z /\ r # Null
      /\ \A b \in Actors \ {p} : loc'[b] = loc[b]
      /\ \A q \in PgProcs \ {p} : at'[q] = at[q]
      /\ \A t \in Regions \ {r} : reg'[t] = reg[t]
  BY <1>0, <1>1, TablesAssumption DEF PgTyped, Actors
<1>7. Acts(p, r)
  BY <1>0, <1>1, <1>6 DEF Acts, SameRegion
<1>8. ~Leaving(r) /\ ~Leaving(r)' /\ ~Entering(r) /\ ~Entering(r)'
  BY <1>0, <1>5, <1>6, <1>7, AloneFacts DEF Enters
<1>9. LockStep(p, r)
  <2>1. ~Locks(p, r)'
    BY <1>1, <1>5, <1>6 DEF Locks, LockedPCs
  <2> QED
    BY <1>0, <1>4, <1>6, <2>1 DEF LockStep, WithLock
<1>10. RefStep(p, r)
  <2>1. /\ p \in PgProcs /\ at'[p] = r /\ at[p] # r /\ reg'[r].refs = reg[r].refs + 1
        /\ reg[r].refs \in Nat /\ reg[r].kind = "shared" /\ reg'[r].kind = reg[r].kind
    BY <1>0, <1>2, <1>4, <1>6
  <2> QED
    BY ONLY <2>1 DEF RefStep, Bit
<1>11. UseStep(p, r)
  <2> SUFFICES ASSUME NEW f \in Frames
               PROVE  frame'[f].use = frame[f].use + Bit(r \in Using(f)') - Bit(r \in Using(f))
                                     + Bit(p \in Waiting(f)') - Bit(p \in Waiting(f))
    BY DEF UseStep
  <2>1. r \in Using(f)' <=> r \in Using(f)
    BY ZenonT(60), <1>4, <1>6, <1>8 DEF Using
  <2>2. p \notin Waiting(f) /\ p \notin Waiting(f)'
    BY <1>1, <1>5, <1>6 DEF Waiting
  <2>3. frame[f].use \in Nat /\ frame'[f].use = frame[f].use
    BY <1>0, UserCounts DEF PgInv
  <2> QED
    BY ONLY <2>1, <2>2, <2>3 DEF Bit
<1>12. SwapStep(r)
  BY <1>0, <1>1, <1>4, <1>6 DEF SwapStep, Bit
<1>13. MemStep(p)
  BY <1>0, <1>1, <1>5, <1>6 DEF MemStep, Got, PgTyped
<1>14. HashStep(p, r)
  <2>1. \A d \in Daemons \ {p} :
           loc[d].pc = "swapout" /\ loc[d].on # r => reg'[r].dbd # reg[loc[d].on].dbd
    BY <1>4, <1>6, WrittenElsewhere
  <2> QED
    BY <1>0, <2>1 DEF HashStep
<1>15. TabsOK(PgTables)'
  BY <1>0, <1>1 DEF PgTables
<1>16. PgTyped'
  BY <1>0, <1>1, <1>4, <1>5 DEF PgTyped
<1>17. Here(p, r)
  <2>1. RegOf(r)'
    <3>1. PageOf(z, frame')
      BY <1>0, <1>2, <1>4 DEF PageOf, RegOf
    <3>2. z.v \/ z.dbd # "NONE"
      BY <1>0, <1>2, <1>4 DEF PageOf, RegOf
    <3>3. z.prot = Prot(z)
      BY <1>2, <1>4, <1>8 DEF RegOf, Prot
    <3> QED
      BY <1>6, <3>1, <3>2, <3>3 DEF RegOf
  <2>2. ProcOf(p)'
    <3>1. Fault(y, z, frame')
      BY <1>5 DEF Fault, Asleep
    <3> QED
      BY <1>5, <1>6, <3>1 DEF ProcOf
  <2>3. ASSUME NEW q \in PgProcs \ {p}, at[q] = r PROVE ProcOf(q)'
    <3>1. Fault(loc[q], reg[r], frame) /\ (loc[q].pc = "idle" <=> at[q] = Null)
      BY <2>3 DEF PgInv, ProcOf
    <3>2. Fault(loc[q], z, frame)
      BY ONLY <1>4, <3>1 DEF Fault, Asleep
    <3>3. loc'[q] = loc[q] /\ at'[q] = r /\ reg'[r] = z /\ frame' = frame
      BY <1>0, <1>6, <2>3 DEF Actors
    <3> QED
      BY <2>3, <3>1, <3>2, <3>3 DEF ProcOf
  <2> QED
    BY <1>1, <1>6, <2>1, <2>2, <2>3 DEF Here
<1> QED
  BY <1>7, <1>9, <1>10, <1>11, <1>12, <1>13, <1>14, <1>15, <1>16, <1>17, ActorStep

\* A page of swap gets one more user.
Counted(m, b) == [m EXCEPT !.u[b] = @ + 1]

\* swpinc keeps the tables consistent.
LEMMA CountedFacts ==
    ASSUME NEW m, TabsOK(m), NEW b \in SwapBlks
    PROVE  /\ TabsOK(Counted(m, b)) /\ Counted(m, b).fr = m.fr /\ Counted(m, b).q = m.q
           /\ Counted(m, b).free = m.free /\ Counted(m, b).u = [m.u EXCEPT ![b] = @ + 1]
<1> PICK n, u : n = Counted(m, b) /\ u = [m.u EXCEPT ![b] = @ + 1]
  OBVIOUS
<1>0. m \in Tables /\ m.u \in [SwapBlks -> Int]
  BY DEF TabsOK, Tables
<1>1. u \in [SwapBlks -> Int] /\ \A c \in SwapBlks : u[c] = m.u[c] + Bit(c = b)
  BY <1>0 DEF Bit
<1>2. n = [m EXCEPT !.u = u]
  BY DEF Counted
<1>3. n \in Tables /\ n.fr = m.fr /\ n.q = m.q /\ n.free = m.free /\ n.u = u
  BY ONLY <1>0, <1>1, <1>2 DEF Tables
<1>4. \A f \in Frames : n.fr[f].hash \in SwapBlks => n.u[n.fr[f].hash] > 0
  <2> SUFFICES ASSUME NEW f \in Frames, m.fr[f].hash \in SwapBlks PROVE u[m.fr[f].hash] > 0
    BY <1>3
  <2>1. m.u[m.fr[f].hash] > 0 /\ m.u[m.fr[f].hash] \in Int
    BY <1>0 DEF TabsOK
  <2> QED
    BY <1>1, <2>1 DEF Bit
<1>5. TabsOK(n)
  BY <1>3, <1>4 DEF TabsOK
<1> QED
  BY <1>3, <1>5

\* dupreg: the child uses the frame and the page of swap too.
LEMMA DupedFacts ==
    ASSUME NEW m, TabsOK(m), NEW rp \in Rgns, rp.v => rp.pfn \in Frames /\ m.fr[rp.pfn].use # 0,
           NEW k, k = IF rp.v THEN Shared(m, rp.pfn) ELSE m,
           NEW n, n = IF rp.dbd \in SwapBlks THEN Counted(k, rp.dbd) ELSE k
    PROVE  /\ TabsOK(n) /\ n.q = m.q /\ n.free = m.free
           /\ \A f \in Frames : /\ n.fr[f].use = m.fr[f].use + Bit(rp.v /\ f = rp.pfn)
                                /\ n.fr[f].hash = m.fr[f].hash
           /\ \A b \in SwapBlks : n.u[b] = m.u[b] + Bit(rp.dbd = b)
<1>0. /\ m.u \in [SwapBlks -> Int] /\ rp.v \in BOOLEAN
      /\ \A f \in Frames : m.fr[f].use \in Int
  BY DEF TabsOK, Tables, Pages, Rgns
<1>1. /\ TabsOK(k) /\ k.q = m.q /\ k.u = m.u /\ k.free = m.free
      /\ \A f \in Frames : /\ k.fr[f].use = m.fr[f].use + Bit(rp.v /\ f = rp.pfn)
                           /\ k.fr[f].hash = m.fr[f].hash
  <2>1. CASE rp.v
    <3> PICK f \in Frames : f = rp.pfn
      BY <2>1
    <3>1. TabsOK(m) /\ m.fr[f].use # 0 /\ k = Shared(m, f)
      BY <2>1
    <3>2. Gained(m, k, f) /\ k.q = m.q /\ k.free = m.free
      BY ONLY <3>1, f \in Frames, SharedFacts, Zenon
    <3>3. \A g \in Frames : Bit(rp.v /\ g = rp.pfn) = Bit(g = f)
      BY <2>1 DEF Bit
    <3> QED
      BY <3>2, <3>3 DEF Gained
  <2>2. CASE ~rp.v
    <3>1. \A g \in Frames : Bit(rp.v /\ g = rp.pfn) = 0
      BY <2>2 DEF Bit
    <3> QED
      BY <1>0, <2>2, <3>1
  <2> QED
    BY <1>0, <2>1, <2>2
<1>2. CASE rp.dbd \in SwapBlks
  <2> PICK b \in SwapBlks : b = rp.dbd
    BY <1>2
  <2>1. n = Counted(k, b) /\ TabsOK(k)
    BY <1>1, <1>2
  <2>2. TabsOK(n) /\ n.fr = k.fr /\ n.q = k.q /\ n.free = k.free /\ n.u = [k.u EXCEPT ![b] = @ + 1]
    <3>1. /\ TabsOK(Counted(k, b)) /\ Counted(k, b).fr = k.fr /\ Counted(k, b).q = k.q
          /\ Counted(k, b).free = k.free /\ Counted(k, b).u = [k.u EXCEPT ![b] = @ + 1]
      BY ONLY <2>1, b \in SwapBlks, CountedFacts
    <3> QED
      BY <2>1, <3>1
  <2>3. \A c \in SwapBlks : n.u[c] = m.u[c] + Bit(b = c)
    BY <1>0, <1>1, <2>2 DEF Bit
  <2> QED
    BY <1>1, <2>2, <2>3
<1>3. CASE rp.dbd \notin SwapBlks
  <2>1. \A b \in SwapBlks : Bit(rp.dbd = b) = 0 /\ m.u[b] \in Int
    BY <1>0, <1>3 DEF Bit
  <2>2. n = k /\ \A b \in SwapBlks : n.u[b] = m.u[b] + Bit(rp.dbd = b)
    BY <1>1, <1>3, <2>1
  <2> QED
    BY <1>1, <2>2
<1> QED
  BY <1>2, <1>3

\* Fork.
LEMMA DupregStep ==
    ASSUME PgInv, NEW p \in PgProcs, NEW q \in PgProcs, NEW r \in Regions, Dupreg(p, q, r)
    PROVE  PgInv'
<1> PICK t, l : t = at[p] /\ l = PgTables
  OBVIOUS
<1> PICK c \in BOOLEAN : c <=> reg[t].cw \/ reg[t].prot = "UW"
  OBVIOUS
<1> PICK rp : rp = [reg[t] EXCEPT !.prot = "UR", !.cw = reg[t].cw \/ reg[t].prot = "UW"]
  OBVIOUS
<1> PICK z, y : z = [rp EXCEPT !.refs = 1] /\ y = At("user")
  OBVIOUS
<1> PICK k : k = IF rp.v THEN Shared(l, rp.pfn) ELSE l
  OBVIOUS
<1> PICK n : n = IF rp.dbd \in SwapBlks THEN Counted(k, rp.dbd) ELSE k
  OBVIOUS
<1>0. /\ loc[p].pc = "user" /\ at[q] = Null /\ r \in UnusedRegs /\ rp.kind = "private" /\ ~rp.lock
      /\ reg' = [reg EXCEPT ![t] = rp, ![r] = z] /\ at' = [at EXCEPT ![q] = r]
      /\ loc' = [loc EXCEPT ![q] = y] /\ disk' = disk
  BY DEF Dupreg, PgGoes
<1>1. PgBecomes(n)
  <2>1. k = IF rp.v THEN [PgTables EXCEPT !.fr[rp.pfn].use = @ + 1] ELSE PgTables
    <3>1. k = IF rp.v THEN [l EXCEPT !.fr[rp.pfn].use = @ + 1] ELSE l
      BY Zenon DEF Shared
    <3>2. l = PgTables
      OBVIOUS
    <3> QED
      BY ONLY <3>1, <3>2
  <2>2. n = IF rp.dbd \in SwapBlks THEN [k EXCEPT !.u[rp.dbd] = @ + 1] ELSE k
    BY Zenon DEF Counted
  <2>3. PgBecomes(IF rp.dbd \in SwapBlks THEN [k EXCEPT !.u[rp.dbd] = @ + 1] ELSE k)
    BY <2>1 DEF Dupreg
  <2> QED
    BY ONLY <2>2, <2>3
<1>2. /\ loc[q].pc = "idle" /\ loc[q].got = 0 /\ PgTyped /\ q \in Actors /\ q \notin Daemons
      /\ TabsOK(l) /\ Len(freeq) \in Nat /\ \A b \in SwapBlks : ucnt[b] \in Int
  BY <1>0, IdleFacts
<1>3. /\ reg[r] = NoRegion /\ reg[r].refs = 0 /\ ~reg[r].lock /\ ~reg[r].v
      /\ reg[r].dbd = "NONE" /\ reg[r].kind = "unused" /\ \A s \in PgProcs : at[s] # r
  BY <1>0, UnusedFacts
<1>4. /\ t \in Regions /\ reg[t] \in Rgns /\ RegOf(t) /\ reg[t].refs # 0 /\ t # r /\ p # q
  <2>1. t \in Regions /\ reg[t] \in Rgns /\ RegOf(t) /\ reg[t].refs # 0
    BY <1>0, UserFacts
  <2> QED
    BY <1>0, <1>2, <1>3, <2>1
<1>5. /\ rp \in Rgns /\ rp.kind = reg[t].kind /\ rp.refs = reg[t].refs /\ rp.noswap = reg[t].noswap
      /\ rp.lock = reg[t].lock /\ rp.v = reg[t].v /\ rp.pfn = reg[t].pfn /\ rp.prot = "UR"
      /\ rp.pin = reg[t].pin /\ rp.dbd = reg[t].dbd /\ (rp.cw <=> c)
  <2>1. rp = [reg[t] EXCEPT !.prot = "UR", !.cw = c]
    <3>1. c = (reg[t].cw \/ reg[t].prot = "UW")
      BY Zenon
    <3> QED
      BY <3>1
  <2> QED
    BY ONLY <1>4, <2>1, c \in BOOLEAN DEF Rgns
<1>6. /\ z \in Rgns /\ z.kind = rp.kind /\ z.refs = 1 /\ z.noswap = rp.noswap
      /\ z.lock = rp.lock /\ z.v = rp.v /\ z.pfn = rp.pfn /\ z.prot = "UR"
      /\ z.pin = rp.pin /\ z.dbd = rp.dbd /\ z.cw = rp.cw
  <2>1. z = [rp EXCEPT !.refs = 1]
    OBVIOUS
  <2> QED
    BY ONLY <1>5, <2>1 DEF Rgns
<1>7. \A s \in PgProcs : at[s] = t => s = p
  BY <1>0, <1>4, <1>5 DEF PgInv, RefsExact
<1>8. ~Leaving(t) /\ ~Entering(t)
  <2>1. ~reg[t].lock /\ LocksExact
    BY <1>0, <1>5 DEF PgInv
  <2>2. \A d \in Daemons : loc[d].on # t
    BY <1>4, <2>1 DEF LocksExact, Locks
  <2>3. \A s \in PgProcs : at[s] = t => loc[s].pc = "user"
    BY <1>0, <1>7
  <2> QED
    BY <2>2, <2>3 DEF Leaving, Entering
<1>9. c
  BY <1>4, <1>8 DEF RegOf, Prot
<1>10. /\ TabsOK(n) /\ n.q = freeq /\ n.free = freemem
       /\ \A f \in Frames : /\ n.fr[f].use = frame[f].use + Bit(rp.v /\ f = rp.pfn)
                            /\ n.fr[f].hash = frame[f].hash
       /\ \A b \in SwapBlks : n.u[b] = ucnt[b] + Bit(rp.dbd = b)
  <2>1. rp.v => rp.pfn \in Frames /\ l.fr[rp.pfn].use # 0
    <3> SUFFICES ASSUME rp.v PROVE rp.pfn \in Frames /\ l.fr[rp.pfn].use # 0
      OBVIOUS
    <3>1. rp.pfn \in Frames
      BY <1>4, <1>5 DEF RegOf, PageOf
    <3>2. t \in Using(rp.pfn)
      BY <1>4, <1>5 DEF Using
    <3>3. frame[rp.pfn].use \in Nat /\ frame[rp.pfn].use >= 1
      BY <3>1, <3>2, UserCounts DEF PgInv
    <3> QED
      BY <3>1, <3>3 DEF PgTables
  <2>2. l.fr = frame /\ l.q = freeq /\ l.free = freemem /\ l.u = ucnt
    BY DEF PgTables
  <2>3. /\ TabsOK(n) /\ n.q = l.q /\ n.free = l.free
        /\ \A f \in Frames : /\ n.fr[f].use = l.fr[f].use + Bit(rp.v /\ f = rp.pfn)
                             /\ n.fr[f].hash = l.fr[f].hash
        /\ \A b \in SwapBlks : n.u[b] = l.u[b] + Bit(rp.dbd = b)
    <3>1. /\ TabsOK(l) /\ rp \in Rgns /\ k = (IF rp.v THEN Shared(l, rp.pfn) ELSE l)
          /\ n = IF rp.dbd \in SwapBlks THEN Counted(k, rp.dbd) ELSE k
      BY <1>2, <1>5
    <3> QED
      BY ONLY <2>1, <3>1, DupedFacts
  <2> QED
    BY <2>2, <2>3
<1>11. /\ loc'[q] = y /\ at'[q] = r /\ reg'[r] = z /\ reg'[t] = rp /\ r # Null
       /\ \A b \in Actors \ {q} : loc'[b] = loc[b]
       /\ \A s \in PgProcs \ {q} : at'[s] = at[s]
       /\ \A s \in Regions \ {r, t} : reg'[s] = reg[s]
       /\ frame' = n.fr /\ freeq' = freeq /\ freemem' = freemem /\ ucnt' = n.u
  BY <1>0, <1>1, <1>2, <1>4, <1>10, TablesAssumption DEF PgTyped, Actors, PgBecomes
<1>12. y \in Spots /\ y.pc = "user" /\ y.got = 0 /\ ~y.inP /\ y.for = "none" /\ y.on = Null
  BY DEF At, Spots, LockedPCs, FreePCs
<1>13. Acts(q, r)
  <2>1. ASSUME NEW s \in Regions \ {r} PROVE SameRegion(s)
    <3>1. CASE s = t
      BY <1>5, <1>11, <3>1 DEF SameRegion
    <3>2. CASE s # t
      <4>1. reg'[s] = reg[s]
        BY <1>11, <3>2
      <4> QED
        BY ONLY <4>1 DEF SameRegion
    <3> QED
      BY <3>1, <3>2
  <2> QED
    BY <1>0, <1>2, <1>11, <2>1 DEF Acts
<1>14. ~Leaving(r) /\ ~Leaving(r)' /\ ~Entering(r) /\ ~Entering(r)'
  BY <1>0, <1>3, <1>11, <1>12, <1>13, AloneFacts DEF Enters
<1>15. LockStep(q, r)
  <2>1. ~Locks(q, r)'
    BY <1>2, <1>11, <1>12 DEF Locks, LockedPCs
  <2> QED
    BY <1>0, <1>3, <1>6, <1>11, <2>1 DEF LockStep, WithLock
<1>16. RefStep(q, r)
  <2>1. q \in PgProcs /\ at'[q] = r /\ at[q] # r /\ reg'[r].refs = 1 /\ reg[r].refs = 0
    BY <1>0, <1>3, <1>6, <1>11
  <2> QED
    BY ONLY <2>1 DEF RefStep, Bit
<1>17. UseStep(q, r)
  <2> SUFFICES ASSUME NEW f \in Frames
               PROVE  frame'[f].use = frame[f].use + Bit(r \in Using(f)') - Bit(r \in Using(f))
                                     + Bit(q \in Waiting(f)') - Bit(q \in Waiting(f))
    BY DEF UseStep
  <2>1. r \notin Using(f) /\ (r \in Using(f)' <=> rp.v /\ f = rp.pfn)
    <3>1. r \in Using(f) <=> reg[r].pfn = f /\ (reg[r].v \/ Leaving(r) \/ Entering(r))
      BY <1>13 DEF Using, Acts
    <3>2. r \in Using(f)' <=> reg'[r].pfn = f /\ (reg'[r].v \/ Leaving(r)' \/ Entering(r)')
      BY <1>13 DEF Using, Acts
    <3>3. ~reg[r].v /\ reg'[r].v = rp.v /\ reg'[r].pfn = rp.pfn
      BY <1>3, <1>6, <1>11
    <3> QED
      BY ONLY <1>14, <3>1, <3>2, <3>3
  <2>2. q \notin Waiting(f) /\ q \notin Waiting(f)'
    BY <1>2, <1>11, <1>12 DEF Waiting
  <2>3. frame[f].use \in Nat
    BY UserCounts DEF PgInv
  <2>4. frame'[f].use = frame[f].use + Bit(rp.v /\ f = rp.pfn)
    BY <1>10, <1>11
  <2> QED
    BY ONLY <2>1, <2>2, <2>3, <2>4 DEF Bit
<1>18. SwapStep(r)
  <2> SUFFICES ASSUME NEW b \in SwapBlks
               PROVE  ucnt'[b] = ucnt[b] + Bit(reg'[r].dbd = b) - Bit(reg[r].dbd = b)
    BY DEF SwapStep
  <2>1. ucnt'[b] = ucnt[b] + Bit(rp.dbd = b) /\ ucnt[b] \in Int
    BY <1>2, <1>10, <1>11
  <2>2. reg'[r].dbd = rp.dbd /\ reg[r].dbd # b
    BY <1>3, <1>6, <1>11, TablesAssumption
  <2> QED
    BY ONLY <2>1, <2>2 DEF Bit
<1>19. MemStep(q)
  BY <1>2, <1>11, <1>12 DEF MemStep, Got, PgTyped
<1>20. HashStep(q, r)
  <2>1. ASSUME NEW d \in Daemons \ {q}, loc[d].pc = "swapout", loc[d].on # r
        PROVE  reg'[r].dbd # reg[loc[d].on].dbd
    <3>1. loc[d].on # t
      BY <1>8, <2>1 DEF Leaving
    <3>2. reg[t].dbd # reg[loc[d].on].dbd
      BY <1>4, <2>1, <3>1, WrittenElsewhere
    <3> QED
      BY <1>5, <1>6, <1>11, <3>2
  <2>2. \A f \in Frames : frame'[f].hash = frame[f].hash
    BY <1>10, <1>11
  <2> QED
    BY <2>1, <2>2 DEF HashStep
<1>21. TabsOK(PgTables)'
  <2>1. PgTables' = n
    BY <1>1, <1>10, TablesAfter DEF TabsOK
  <2> QED
    BY <1>10, <2>1
<1>22. PgTyped'
  BY <1>0, <1>2, <1>5, <1>6, <1>11, <1>12 DEF PgTyped
<1>23. Here(q, r)
  <2>0. \A f \in Frames : frame'[f].hash = frame[f].hash
    BY <1>10, <1>11
  <2>1. ASSUME NEW s \in Rgns, s.kind = reg[t].kind, s.refs # 0, s.v = reg[t].v, s.pfn = reg[t].pfn,
               s.dbd = reg[t].dbd
        PROVE  PageOf(s, frame') /\ (s.v \/ s.dbd # "NONE")
    <3>1. PageOf(reg[t], frame) /\ (reg[t].v \/ reg[t].dbd # "NONE") /\ reg[t].kind = "private"
      BY <1>0, <1>4, <1>5, <1>8, <1>9 DEF RegOf, Rgns
    <3> QED
      BY <1>4, <2>0, <2>1, <3>1 DEF PageOf
  <2>2. RegOf(r)'
    <3>1. PageOf(z, frame') /\ (z.v \/ z.dbd # "NONE")
      <4>1. /\ z \in Rgns /\ z.kind = reg[t].kind /\ z.refs # 0 /\ z.v = reg[t].v
            /\ z.pfn = reg[t].pfn /\ z.dbd = reg[t].dbd
        BY ONLY <1>5, <1>6
      <4> QED
        BY ONLY <2>1, <4>1
    <3>2. z.prot = Prot(z)
      BY <1>5, <1>6, <1>9 DEF Prot
    <3> QED
      BY <1>11, <3>1, <3>2 DEF RegOf
  <2>3. RegOf(t)'
    <3>1. PageOf(rp, frame') /\ (rp.v \/ rp.dbd # "NONE")
      BY <1>4, <1>5, <2>1
    <3>2. rp.prot = Prot(rp)
      BY <1>5, <1>9 DEF Prot
    <3> QED
      BY <1>11, <3>1, <3>2 DEF RegOf
  <2>4. ProcOf(q)'
    <3>1. Fault(y, z, frame')
      BY <1>12 DEF Fault, Asleep
    <3> QED
      BY <1>11, <1>12, <3>1 DEF ProcOf
  <2>5. ProcOf(p)'
    <3>1. loc'[p] = loc[p] /\ at'[p] = t
      BY <1>4, <1>11 DEF Actors
    <3>2. Fault(loc[p], reg[t], frame)
      BY DEF PgInv, ProcOf
    <3>3. Fault(loc[p], rp, frame')
      BY <1>0, <1>5, <1>9, <3>2 DEF Fault, Asleep
    <3>4. t # Null
      BY <1>4, TablesAssumption
    <3> QED
      BY <1>0, <1>11, <3>1, <3>3, <3>4 DEF ProcOf
  <2> QED
    BY <1>2, <1>3, <1>7, <1>11, <2>2, <2>3, <2>4, <2>5 DEF Here
<1> QED
  BY <1>13, <1>15, <1>16, <1>17, <1>18, <1>19, <1>20, <1>21, <1>22, <1>23, ActorStep

\* What is left of the tables when process p detaches its region r.
Detached(p, r, n) ==
    /\ TabsOK(n) /\ Len(n.q) - n.free = Len(freeq) - freemem /\ n.free \in Nat
    /\ \A f \in Frames : n.fr[f].use = frame[f].use - Bit(reg[r].refs = 1 /\ Has(reg[r], loc[p], f))
    /\ \A b \in SwapBlks : n.u[b] = ucnt[b] - Bit(reg[r].refs = 1 /\ reg[r].dbd = b)
    /\ \A f \in Frames : \/ n.fr[f].hash = frame[f].hash
                         \/ /\ n.fr[f].hash = Null
                            /\ \A t \in Regions \ {r} : reg[t].dbd # frame[f].hash

\* pfree gives up the frame and the page of swap with the last process that has the region.
LEMMA DetachedFacts ==
    ASSUME NEW p, NEW r, Known(p, r), loc[p].pc = "user", NEW n,
           n = IF reg[r].refs = 1 THEN Pfree(PgTables, reg[r]) ELSE PgTables
    PROVE  Detached(p, r, n)
<1> PICK rp, l : rp = reg[r] /\ l = PgTables
  OBVIOUS
<1>0. /\ l.fr = frame /\ l.q = freeq /\ l.u = ucnt /\ l.free = freemem /\ TabsOK(l) /\ rp \in Rgns
      /\ freemem \in Nat /\ Len(freeq) \in Nat /\ rp.v \in BOOLEAN
      /\ \A b \in SwapBlks : ucnt[b] \in Int
      /\ \A f \in Frames : frame[f].use \in Nat
  BY DEF PgTables, Known, Rgns
<1>1. \A f : Has(reg[r], loc[p], f) <=> rp.v /\ f = rp.pfn
  BY DEF Has, Enters
<1>2. CASE rp.refs = 1
  <2>1. rp.v => rp.pfn \in Frames /\ l.fr[rp.pfn].use > 0
    BY <1>0, <1>1 DEF Known, PageOf
  <2>2. rp.dbd \in SwapBlks => l.u[rp.dbd] > 0
    BY <1>0 DEF Known
  <2>3. n = Pfree(l, rp)
    BY <1>2
  <2>4. /\ Drop(l, n, rp.dbd)
        /\ \A f \in Frames : n.fr[f].use = l.fr[f].use - Bit(rp.v /\ f = rp.pfn)
    BY ONLY <1>0, <2>1, <2>2, <2>3, PfreeFacts
  <2>5. TabsOK(n) /\ Len(n.q) - n.free = Len(freeq) - freemem /\ n.free \in Nat
    <3>1. TabsOK(n) /\ Len(n.q) - n.free = Len(l.q) - l.free /\ n.free >= l.free
      BY <2>4 DEF Drop
    <3>2. n.free \in Int
      BY <3>1 DEF TabsOK, Tables
    <3> QED
      BY <1>0, <3>1, <3>2
  <2>6. \A f \in Frames : n.fr[f].use = frame[f].use - Bit(reg[r].refs = 1 /\ Has(reg[r], loc[p], f))
    <3> SUFFICES ASSUME NEW f \in Frames
                 PROVE  n.fr[f].use = frame[f].use - Bit(reg[r].refs = 1 /\ Has(reg[r], loc[p], f))
      OBVIOUS
    <3>1. n.fr[f].use = frame[f].use - Bit(rp.v /\ f = rp.pfn)
      BY <1>0, <2>4
    <3>2. reg[r].refs = 1 /\ Has(reg[r], loc[p], f) <=> rp.v /\ f = rp.pfn
      BY <1>1, <1>2
    <3> QED
      BY ONLY <3>1, <3>2 DEF Bit
  <2>7. \A b \in SwapBlks : n.u[b] = ucnt[b] - Bit(reg[r].refs = 1 /\ reg[r].dbd = b)
    <3>1. ucnt \in [SwapBlks -> Int]
      BY <1>0 DEF TabsOK, Tables
    <3>2. n.u = IF rp.dbd \in SwapBlks THEN [ucnt EXCEPT ![rp.dbd] = @ - 1] ELSE ucnt
      BY <1>0, <2>4 DEF Drop
    <3> QED
      BY ONLY <1>2, <3>1, <3>2, rp = reg[r] DEF Bit
  <2>8. \A f \in Frames : \/ n.fr[f].hash = frame[f].hash
                          \/ /\ n.fr[f].hash = Null
                             /\ \A t \in Regions \ {r} : reg[t].dbd # frame[f].hash
    BY <1>0, <2>4 DEF Drop, Known
  <2> QED
    BY ONLY <2>5, <2>6, <2>7, <2>8 DEF Detached
<1>3. CASE rp.refs # 1
  <2>1. n = l
    BY <1>3
  <2>2. \A f : Bit(reg[r].refs = 1 /\ Has(reg[r], loc[p], f)) = 0
    BY <1>3 DEF Bit
  <2>3. \A b : Bit(reg[r].refs = 1 /\ reg[r].dbd = b) = 0
    BY <1>3 DEF Bit
  <2>4. \A f \in Frames : n.fr[f].use = frame[f].use - Bit(reg[r].refs = 1 /\ Has(reg[r], loc[p], f))
    BY <1>0, <2>1, <2>2
  <2>5. ASSUME NEW b \in SwapBlks
        PROVE  n.u[b] = ucnt[b] - Bit(reg[r].refs = 1 /\ reg[r].dbd = b)
    <3>1. n.u[b] = ucnt[b] /\ ucnt[b] \in Int /\ ~(reg[r].refs = 1 /\ reg[r].dbd = b)
      BY <1>0, <1>3, <2>1
    <3> QED
      BY ONLY <3>1 DEF Bit
  <2> QED
    BY ONLY <1>0, <2>1, <2>4, <2>5 DEF Detached
<1> QED
  BY <1>2, <1>3

\* The region of a process that goes.
LEMMA DetachStep ==
    ASSUME PgInv, NEW p \in PgProcs, Detach(p)
    PROVE  PgInv'
<1>0. loc[p].pc = "user" /\ ~reg[at[p]].lock
  BY DEF Detach
<1> PICK r : Alone(p, r) /\ at[p] = r /\ Known(p, r)
  BY <1>0, FreeToGo
<1> PICK c \in BOOLEAN : c <=> reg[r].refs = 1
  OBVIOUS
<1> PICK y, z, n : /\ y = At("idle") /\ z = IF reg[r].refs = 1 THEN NoRegion ELSE [reg[r] EXCEPT !.refs = @ - 1]
                   /\ n = IF reg[r].refs = 1 THEN Pfree(PgTables, reg[r]) ELSE PgTables
  OBVIOUS
<1>1. /\ PgBecomes(n) /\ reg' = [reg EXCEPT ![r] = z] /\ at' = [at EXCEPT ![p] = Null]
      /\ loc' = [loc EXCEPT ![p] = y] /\ disk' = disk
  <2>1. PgBecomes(n)
    BY DEF Detach
  <2>2. reg' = [reg EXCEPT ![r] = z]
    BY DEF Detach
  <2> QED
    BY <2>1, <2>2 DEF Detach, PgGoes
<1>2. Detached(p, r, n)
  BY <1>0, DetachedFacts
<1>3. /\ PgTyped /\ p \in Actors /\ p \notin Daemons /\ r \in Regions /\ reg[r] \in Rgns /\ r # Null
      /\ RegOf(r) /\ Fault(loc[p], reg[r], frame) /\ loc[p].got = 0 /\ reg[r].refs # 0
      /\ TabsOK(PgTables) /\ Len(freeq) \in Nat /\ \A b \in SwapBlks : ucnt[b] \in Int
  BY <1>0, TablesAssumption DEF PgInv, Actors, Alone, Known, Fault
<1>4. /\ z \in Rgns /\ ~z.lock
      /\ c => z = NoRegion /\ z.refs = 0 /\ z.kind = "unused" /\ ~z.v /\ z.dbd = "NONE"
      /\ ~c => /\ z.kind = reg[r].kind /\ z.refs = reg[r].refs - 1 /\ z.noswap = reg[r].noswap
               /\ z.dbd = reg[r].dbd /\ z.cw = reg[r].cw /\ z.prot = reg[r].prot /\ z.lock = reg[r].lock
               /\ z.v = reg[r].v /\ z.pin = reg[r].pin /\ z.pfn = reg[r].pfn /\ z.refs # 0
  <2>1. CASE c
    BY <2>1, TablesAssumption DEF NoRegion, Rgns
  <2>2. CASE ~c
    <3>1. z = [reg[r] EXCEPT !.refs = @ - 1] /\ reg[r].refs # 1 /\ ~reg[r].lock /\ reg[r] \in Rgns
      BY <1>0, <1>3, <2>2
    <3> QED
      BY ONLY <3>1, <2>2 DEF Rgns
  <2> QED
    BY <2>1, <2>2
<1>5. y \in Spots /\ y.pc = "idle" /\ y.got = 0 /\ ~y.inP /\ y.for = "none" /\ y.on = Null
  BY DEF At, Spots, LockedPCs, FreePCs
<1>6. /\ loc'[p] = y /\ at'[p] = Null /\ reg'[r] = z
      /\ \A b \in Actors \ {p} : loc'[b] = loc[b]
      /\ \A q \in PgProcs \ {p} : at'[q] = at[q]
      /\ \A t \in Regions \ {r} : reg'[t] = reg[t]
      /\ frame' = n.fr /\ freeq' = n.q /\ freemem' = n.free /\ ucnt' = n.u
  BY <1>1, <1>3 DEF PgTyped, Actors, PgBecomes
<1>7. Acts(p, r)
  BY <1>3, <1>6 DEF Acts, SameRegion
<1>8. ~Leaving(r) /\ ~Leaving(r)' /\ ~Entering(r) /\ ~Entering(r)'
  BY <1>0, <1>3, <1>5, <1>6, <1>7, AloneFacts DEF Enters
<1>9. LockStep(p, r)
  <2>1. ~Locks(p, r)'
    BY <1>3, <1>5, <1>6 DEF Locks, LockedPCs
  <2> QED
    BY <1>0, <1>4, <1>6, <2>1 DEF LockStep, WithLock
<1>10. RefStep(p, r)
  <2>1. p \in PgProcs /\ at'[p] # r /\ at[p] = r /\ reg'[r].refs = reg[r].refs - 1 /\ reg[r].refs \in Int
    BY <1>3, <1>4, <1>6 DEF Rgns
  <2>2. reg'[r].kind = reg[r].kind \/ reg'[r].refs = 0
    BY <1>4, <1>6
  <2> QED
    BY ONLY <2>1, <2>2 DEF RefStep, Bit
<1>11. UseStep(p, r)
  <2> SUFFICES ASSUME NEW f \in Frames
               PROVE  frame'[f].use = frame[f].use + Bit(r \in Using(f)') - Bit(r \in Using(f))
                                     + Bit(p \in Waiting(f)') - Bit(p \in Waiting(f))
    BY DEF UseStep
  <2>1. r \in Using(f) <=> reg[r].pfn = f /\ reg[r].v
    BY <1>3, <1>8 DEF Using
  <2>2. r \in Using(f)' <=> z.pfn = f /\ z.v
    BY <1>3, <1>6, <1>8 DEF Using
  <2>3. p \notin Waiting(f) /\ p \notin Waiting(f)'
    BY <1>0, <1>5, <1>6 DEF Waiting
  <2>4. frame[f].use \in Nat
    BY DEF Known
  <2>5. frame'[f].use = frame[f].use - Bit(c /\ Has(reg[r], loc[p], f))
    <3>1. frame'[f].use = frame[f].use - Bit(reg[r].refs = 1 /\ Has(reg[r], loc[p], f))
      BY <1>2, <1>6 DEF Detached
    <3> QED
      BY ONLY <3>1, c <=> reg[r].refs = 1 DEF Bit
  <2>6. Has(reg[r], loc[p], f) <=> reg[r].pfn = f /\ reg[r].v
    BY <1>0 DEF Has, Enters
  <2>7. (c => ~z.v) /\ (~c => z.v = reg[r].v /\ z.pfn = reg[r].pfn)
    BY <1>4
  <2> QED
    BY ONLY <2>1, <2>2, <2>3, <2>4, <2>5, <2>6, <2>7 DEF Bit
<1>12. SwapStep(r)
  <2> SUFFICES ASSUME NEW b \in SwapBlks
               PROVE  ucnt'[b] = ucnt[b] + Bit(reg'[r].dbd = b) - Bit(reg[r].dbd = b)
    BY DEF SwapStep
  <2>1. ucnt'[b] = ucnt[b] - Bit(reg[r].refs = 1 /\ reg[r].dbd = b) /\ ucnt[b] \in Int
    BY <1>2, <1>3, <1>6 DEF Detached
  <2>2. (c => reg'[r].dbd # b) /\ (~c => reg'[r].dbd = reg[r].dbd)
    BY <1>4, <1>6, TablesAssumption
  <2> QED
    BY ONLY <2>1, <2>2, c <=> reg[r].refs = 1, c \in BOOLEAN DEF Bit
<1>13. MemStep(p)
  BY <1>2, <1>3, <1>5, <1>6 DEF MemStep, Got, PgTyped, Detached
<1>14. HashStep(p, r)
  <2>1. ASSUME NEW d \in Daemons \ {p}, loc[d].pc = "swapout", loc[d].on # r
        PROVE  reg'[r].dbd # reg[loc[d].on].dbd
    <3>1. reg[loc[d].on].dbd \in SwapBlks /\ reg[r].dbd # reg[loc[d].on].dbd
      BY <1>3, <2>1, WrittenElsewhere
    <3> QED
      BY <1>4, <1>6, <3>1, TablesAssumption
  <2> QED
    BY <1>2, <1>6, <2>1 DEF HashStep, Detached
<1>15. TabsOK(PgTables)'
  <2>1. PgTables' = n
    BY <1>1, <1>2, TablesAfter DEF TabsOK, Detached
  <2> QED
    BY <1>2, <2>1 DEF Detached
<1>16. PgTyped'
  BY <1>1, <1>2, <1>3, <1>4, <1>5, <1>6 DEF PgTyped, Detached
<1>17. Here(p, r)
  <2>1. ASSUME NEW q \in PgProcs \ {p}, at[q] = r PROVE ~c /\ reg[r].kind = "shared"
    <3>1. p \in Attached(r) /\ q \in Attached(r) /\ p # q /\ reg[r].refs = Cardinality(Attached(r))
      BY <1>3, <2>1 DEF Attached, PgInv, RefsExact
    <3> PICK S : S = Attached(r)
      OBVIOUS
    <3>2. reg[r].refs >= 2
      <4>1. IsFiniteSet(S)
        BY AttachedFinite
      <4>2. \A x, w \in S : x # w => Cardinality(S) >= 2
        BY ONLY <4>1, CountFacts
      <4> QED
        BY <3>1, <4>2
    <3> QED
      BY <1>3, <2>1, <3>2 DEF PgInv, RefsExact
  <2>2. RegOf(r)'
    <3>1. CASE c
      <4>1. PageOf(NoRegion, frame') /\ NoRegion.prot = Prot(NoRegion) /\ NoRegion.refs = 0
        BY DEF PageOf, Prot, NoRegion
      <4> QED
        BY <1>4, <1>6, <3>1, <4>1 DEF RegOf
    <3>2. CASE ~c
      <4>1. reg'[r] = z /\ (z.v \/ z.dbd # "NONE")
        BY <1>3, <1>4, <1>6, <1>8, <3>2 DEF RegOf, Rgns
      <4>2. z.prot = Prot(z)
        BY <1>3, <1>4, <1>8, <3>2 DEF RegOf, Prot
      <4>3. PageOf(z, frame')
        <5>1. PageOf(reg[r], frame)
          BY <1>3 DEF RegOf
        <5>2. frame' = frame
          BY <1>6, <3>2 DEF PgTables
        <5> QED
          BY <1>3, <1>4, <3>2, <5>1, <5>2 DEF PageOf
      <4> QED
        BY <4>1, <4>2, <4>3 DEF RegOf
    <3> QED
      BY <3>1, <3>2
  <2>3. ProcOf(p)'
    <3>1. Fault(y, reg'[Null], frame')
      BY <1>5 DEF Fault, Asleep
    <3> QED
      BY <1>5, <1>6, <3>1 DEF ProcOf
  <2>4. ASSUME NEW q \in PgProcs \ {p}, at[q] = r PROVE ProcOf(q)'
    <3>1. Fault(loc[q], reg[r], frame) /\ (loc[q].pc = "idle" <=> at[q] = Null)
      BY <2>4 DEF PgInv, ProcOf
    <3>2. ~c
      BY <2>1, <2>4
    <3>3. Fault(loc[q], z, frame)
      BY ONLY <1>4, <3>1, <3>2 DEF Fault, Asleep
    <3>4. loc'[q] = loc[q] /\ at'[q] = r /\ reg'[r] = z /\ frame' = frame
      BY <1>6, <2>4, <3>2 DEF Actors, PgTables
    <3> QED
      BY <2>4, <3>1, <3>3, <3>4 DEF ProcOf
  <2> QED
    BY <1>3, <1>6, <2>2, <2>3, <2>4 DEF Here
<1> QED
  BY <1>7, <1>9, <1>10, <1>11, <1>12, <1>13, <1>14, <1>15, <1>16, <1>17, ActorStep

-----------------------------------------------------------------------------
(* Steps of a daemon d that takes the page of a private region r *)

OnIt(d, r) ==
    /\ d \in Daemons /\ r \in Regions /\ loc[d].on \in {r, Null} /\ reg[r].kind # "shared"
    /\ ~reg[r].lock \/ Locks(d, r)
    /\ reg[r].v \/ loc[d].on = r

\* The region has a frame then, and who has the region does not have it locked.
Taking(d, r) ==
    /\ d \in Actors /\ d \notin PgProcs /\ r # Null /\ reg[r] \in Rgns /\ loc[d] \in Spots
    /\ RegOf(r) /\ DaemonOf(d) /\ PgTyped
    /\ ~Entering(r) /\ (Leaving(r) <=> loc[d].on = r) /\ \A b \in Actors \ {d} : ~Locks(b, r)
    /\ reg[r].refs # 0 /\ reg[r].prot = Prot(reg[r])
    /\ \A q \in PgProcs : at[q] = r => loc[q].pc \notin LockedPCs /\ Fault(loc[q], reg[r], frame)
    /\ TabsOK(PgTables) /\ freemem \in Nat /\ Len(freeq) \in Nat
    /\ reg[r].pfn \in Frames /\ frame[reg[r].pfn].use >= 1
    /\ \A f \in Frames : frame[f] \in Pages /\ frame[f].use \in Nat
    /\ \A b \in SwapBlks : ucnt[b] \in Int
    /\ reg[r].dbd \in SwapBlks =>
          /\ ucnt[reg[r].dbd] \in Nat /\ ucnt[reg[r].dbd] > 0
          /\ ucnt[reg[r].dbd] = 1 => \A t \in Regions \ {r} : reg[t].dbd # reg[r].dbd

\* This follows from the invariant.
LEMMA TakingFacts ==
    ASSUME PgInv, NEW d, NEW r, OnIt(d, r)
    PROVE  Taking(d, r)
<1>0. /\ d \in Daemons /\ r \in Regions /\ loc[d].on \in {r, Null} /\ (~reg[r].lock \/ Locks(d, r))
      /\ r # Null /\ d \in Actors /\ d \notin PgProcs
      /\ PgTyped /\ TabsOK(PgTables) /\ RegOf(r) /\ DaemonOf(d) /\ UsesExact /\ LocksExact
      /\ SwapExact
  BY TablesAssumption DEF OnIt, PgInv, Actors
<1>1. reg[r] \in Rgns /\ loc[d] \in Spots /\ freemem \in Nat
  BY <1>0 DEF PgTyped
<1>2. /\ Len(freeq) \in Nat /\ \A f \in Frames : frame[f] \in Pages
      /\ \A b \in SwapBlks : ucnt[b] \in Int
  <2>1. /\ freeq \in Seq(Frames) /\ frame \in [Frames -> Pages] /\ ucnt \in [SwapBlks -> Int]
    BY <1>0 DEF TabsOK, Tables, PgTables
  <2>2. Len(freeq) \in Nat
    BY ONLY <2>1
  <2> QED
    BY <2>1, <2>2
<1>3. \A b \in Actors \ {d} : ~Locks(b, r)
  BY <1>0 DEF LocksExact, Actors
<1>4. Leaving(r) <=> loc[d].on = r
  <2>1. \A e \in Daemons \ {d} : loc[e].on # r
    BY <1>3 DEF Locks, Actors
  <2> QED
    BY <1>0, <2>1 DEF Leaving
<1>5. \A q \in PgProcs : at[q] = r => loc[q].pc \notin LockedPCs /\ Fault(loc[q], reg[r], frame)
  <2> SUFFICES ASSUME NEW q \in PgProcs, at[q] = r
               PROVE  loc[q].pc \notin LockedPCs /\ Fault(loc[q], reg[r], frame)
    OBVIOUS
  <2>1. q \in Actors \ {d} /\ ProcOf(q)
    BY <1>0 DEF Actors, PgInv
  <2> QED
    BY <1>3, <2>1 DEF Locks, ProcOf
<1>6. ~Entering(r)
  BY <1>5 DEF Entering, LockedPCs
<1>7. reg[r].pfn \in Frames /\ reg[r].refs # 0 /\ reg[r].prot = Prot(reg[r])
  <2>1. reg[r].pfn \in Frames
    <3>1. CASE reg[r].v
      BY <1>0, <3>1 DEF RegOf, PageOf
    <3>2. CASE loc[d].on = r
      BY <1>0, <3>2 DEF DaemonOf
    <3> QED
      BY <3>1, <3>2 DEF OnIt
  <2>2. NoRegion.pfn \notin Frames
    BY TablesAssumption DEF NoRegion
  <2> QED
    BY <1>0, <1>6, <2>1, <2>2 DEF RegOf, PageOf
<1>8. r \in Using(reg[r].pfn)
  BY <1>0, <1>4 DEF Using, OnIt
<1>9. /\ \A f \in Frames : frame[f].use \in Nat
      /\ frame[reg[r].pfn].use >= 1
  BY <1>0, <1>7, <1>8, UserCounts
<1>10. reg[r].dbd \in SwapBlks =>
          /\ ucnt[reg[r].dbd] \in Nat /\ ucnt[reg[r].dbd] > 0
          /\ ucnt[reg[r].dbd] = 1 => \A t \in Regions \ {r} : reg[t].dbd # reg[r].dbd
  BY <1>0, SwapUsers
<1> QED
  BY <1>0, <1>1, <1>2, <1>3, <1>4, <1>5, <1>6, <1>7, <1>9, <1>10 DEF Taking

\* What the daemon does to the page does not matter to the process that has the region.
Unminded(rp, z) == \/ rp.v /\ ~rp.pin /\ rp.dbd # "DZERO"
                   \/ ~rp.v /\ rp.dbd = "NONE"
                   \/ z.v = rp.v /\ z.pin = rp.pin /\ z.dbd = rp.dbd

\* A process that does not have its region locked goes on as it is.
LEMMA OwnerKept ==
    ASSUME NEW x, NEW rp, NEW z, NEW fr, NEW gr, Fault(x, rp, fr), x.pc \notin LockedPCs,
           rp.kind # "shared", z.kind = rp.kind, z.cw = rp.cw, Unminded(rp, z)
    PROVE  Fault(x, z, gr)
<1>1. /\ x.pc \notin {"cow", "hash", "window", "swapin", "file"}
  BY DEF LockedPCs
<1>2. /\ Asleep(x, "zero") => rp.dbd = "DZERO"
      /\ Asleep(x, "page") => ~rp.v /\ rp.dbd \in Blocks
      /\ Asleep(x, "copy") => rp.v /\ rp.cw /\ rp.pin
  BY DEF Fault
<1>3. /\ Asleep(x, "zero") => z.dbd = "DZERO"
      /\ Asleep(x, "page") => ~z.v /\ z.dbd \in Blocks
      /\ Asleep(x, "copy") => z.v /\ z.cw /\ z.pin
  <2>1. "NONE" # "DZERO" /\ "NONE" \notin Blocks
    BY TablesAssumption DEF Blocks
  <2>2. Asleep(x, "zero") => rp.dbd = "DZERO" /\ (rp.v \/ z.dbd = rp.dbd)
    BY <1>2, <2>1 DEF Unminded
  <2> QED
    BY <1>2, <2>1 DEF Unminded
<1> QED
  BY <1>1, <1>3 DEF Fault

\* The tables are m then, the region is rp, and the daemon is at y.
Takes(d, r, m, rp, y) ==
    /\ PgBecomes(m) /\ at' = at /\ disk' \in [SwapBlks -> Vals]
    /\ reg' = [reg EXCEPT ![r] = rp] /\ loc' = [loc EXCEPT ![d] = y]

KeepsRegion(r, rp) ==
    /\ rp \in Rgns /\ rp.kind = reg[r].kind /\ rp.refs = reg[r].refs /\ rp.cw = reg[r].cw
    /\ rp.prot = reg[r].prot /\ rp.pfn = reg[r].pfn /\ ~rp.v /\ Unminded(reg[r], rp)

DaemonFits(d, r, m, rp, y) ==
    /\ TabsOK(m) /\ m.free \in Nat /\ Len(m.q) - m.free = Len(freeq) - freemem
    /\ y \in Spots /\ y.on \in {r, Null} /\ (rp.lock <=> y.on = r)
    /\ rp.dbd = "NONE" => y.on = r
    /\ \A f \in Frames : m.fr[f].use = frame[f].use - Bit(f = reg[r].pfn /\ y.on # r)
    /\ \A b \in SwapBlks : m.u[b] = ucnt[b] + Bit(rp.dbd = b) - Bit(reg[r].dbd = b)

\* Every such step keeps the invariant.
LEMMA DaemonStep ==
    ASSUME PgInv, NEW d, NEW r, OnIt(d, r), NEW m, NEW rp, NEW y, Takes(d, r, m, rp, y),
           KeepsRegion(r, rp), DaemonFits(d, r, m, rp, y), HashStep(d, r), DaemonOf(d)'
    PROVE  PgInv'
<1>0. d \in Daemons /\ r \in Regions /\ Taking(d, r)
  BY TakingFacts DEF OnIt
<1>1. /\ reg'[r] = rp /\ loc'[d] = y /\ at' = at
      /\ \A t \in Regions \ {r} : reg'[t] = reg[t]
      /\ \A b \in Actors \ {d} : loc'[b] = loc[b]
      /\ frame' = m.fr /\ freeq' = m.q /\ freemem' = m.free /\ ucnt' = m.u
  BY <1>0 DEF Takes, Taking, PgTyped, Actors, PgBecomes
<1>2. Acts(d, r)
  BY <1>0, <1>1 DEF Acts, SameRegion, Taking, OnIt, DaemonFits
<1>3. LockStep(d, r)
  <2>1. Locks(d, r)' <=> y.on = r
    BY <1>0, <1>1 DEF Locks, Taking
  <2> QED
    BY <1>1, <2>1 DEF LockStep, WithLock, OnIt, DaemonFits
<1>4. RefStep(d, r)
  BY <1>0, <1>1 DEF RefStep, Taking, KeepsRegion
<1>5. /\ Leaving(r) <=> loc[d].on = r
      /\ Leaving(r)' <=> y.on = r
      /\ ~Entering(r) /\ ~Entering(r)'
  <2>1. \A e \in Daemons \ {d} : loc[e].on # r /\ loc'[e].on # r
    BY <1>0, <1>1 DEF Taking, Locks, Actors
  <2>2. Leaving(r)' <=> y.on = r
    BY <1>0, <1>1, <2>1 DEF Leaving
  <2>3. \A q \in PgProcs : at'[q] = at[q] /\ loc'[q] = loc[q]
    BY <1>0, <1>1 DEF Taking, Actors
  <2>4. ~Entering(r)'
    BY <1>0, <2>3 DEF Entering, Taking
  <2> QED
    BY <1>0, <2>2, <2>4 DEF Taking
<1>6. UseStep(d, r)
  <2> SUFFICES ASSUME NEW f \in Frames
               PROVE  frame'[f].use = frame[f].use + Bit(r \in Using(f)') - Bit(r \in Using(f))
                                     + Bit(d \in Waiting(f)') - Bit(d \in Waiting(f))
    BY DEF UseStep
  <2>1. r \in Using(f) <=> f = reg[r].pfn
    BY <1>0, <1>5 DEF Using, OnIt
  <2>2. r \in Using(f)' <=> f = reg[r].pfn /\ y.on = r
    BY <1>0, <1>1, <1>5 DEF Using, KeepsRegion
  <2>3. d \notin Waiting(f) /\ d \notin Waiting(f)'
    BY <1>0 DEF Waiting, Taking
  <2>4. frame[f].use \in Nat /\ frame'[f].use = frame[f].use - Bit(f = reg[r].pfn /\ y.on # r)
    BY <1>0, <1>1 DEF Taking, DaemonFits
  <2> QED
    BY ONLY <2>1, <2>2, <2>3, <2>4 DEF Bit
<1>7. SwapStep(r)
  BY <1>1 DEF SwapStep, DaemonFits
<1>8. MemStep(d)
  BY <1>0, <1>1 DEF MemStep, Got, Taking, DaemonFits
<1>9. TabsOK(PgTables)'
  <2>1. PgTables' = m
    BY TablesAfter DEF Takes, DaemonFits, TabsOK
  <2> QED
    BY <2>1 DEF DaemonFits
<1>10. PgTyped'
  <2>1. reg' \in [Regions -> Rgns] /\ loc' \in [PgProcs \cup Daemons -> Spots]
    BY <1>0 DEF Takes, Taking, PgTyped, KeepsRegion, DaemonFits
  <2>2. at' = at /\ at \in [PgProcs -> Regions \cup {Null}] /\ freemem' \in Nat
    BY <1>0, <1>1 DEF Taking, PgTyped, DaemonFits
  <2>3. disk' \in [SwapBlks -> Vals]
    BY DEF Takes
  <2> QED
    BY <2>1, <2>2, <2>3 DEF PgTyped
<1>11. Here(d, r)
  <2>1. RegOf(r)'
    <3>1. PageOf(rp, frame')
      BY <1>0 DEF PageOf, KeepsRegion, Taking, RegOf, OnIt
    <3>2. rp.prot = Prot(rp)
      BY <1>0 DEF Taking, KeepsRegion, Prot
    <3>3. rp.dbd = "NONE" => Leaving(r)'
      BY <1>5 DEF DaemonFits
    <3> QED
      BY <1>1, <3>1, <3>2, <3>3 DEF RegOf
  <2>2. ASSUME NEW q \in PgProcs, at[q] = r PROVE ProcOf(q)'
    <3>1. loc'[q] = loc[q] /\ at'[q] = r /\ reg'[r] = rp
      BY <1>0, <1>1, <2>2 DEF Taking, Actors
    <3>2. loc[q].pc \notin LockedPCs /\ Fault(loc[q], reg[r], frame)
      BY <1>0, <2>2 DEF Taking
    <3>3. loc[q].pc = "idle" <=> at[q] = Null
      BY DEF PgInv, ProcOf
    <3>4. Fault(loc[q], rp, frame')
      <4>1. reg[r].kind # "shared" /\ rp.kind = reg[r].kind /\ rp.cw = reg[r].cw /\ Unminded(reg[r], rp)
        BY DEF OnIt, KeepsRegion
      <4> QED
        BY ONLY <3>2, <4>1, OwnerKept
    <3> QED
      BY <2>2, <3>1, <3>3, <3>4 DEF ProcOf
  <2> QED
    BY <1>0, <1>1, <2>1, <2>2 DEF Here, Taking
<1> QED
  BY <1>2, <1>3, <1>4, <1>6, <1>7, <1>8, <1>9, <1>10, <1>11, ActorStep

\* getpages, when the page need not be written.
LEMMA GetpagesCleanStep ==
    ASSUME PgInv, NEW d \in Daemons, NEW r \in Regions, GetpagesClean(d, r)
    PROVE  PgInv'
<1> PICK rp, pg, l, y : rp = reg[r] /\ pg = frame[rp.pfn] /\ l = PgTables /\ y = loc[d]
  OBVIOUS
<1> PICK b : b = IF rp.dbd = "NONE" THEN pg.hash ELSE rp.dbd
  OBVIOUS
<1> PICK m : m = IF rp.dbd # "NONE" THEN l ELSE IF b \in SwapBlks THEN Counted(l, b)
                 ELSE [l EXCEPT !.oops = "file block as swap"]
  OBVIOUS
<1> PICK z : z = [rp EXCEPT !.v = FALSE, !.dbd = b]
  OBVIOUS
<1> PICK n : n = Memfree(m, z)
  OBVIOUS
<1>0. /\ y.pc = "idle" /\ rp.v /\ ~rp.pin /\ ~rp.lock /\ ~rp.noswap
      /\ \/ rp.dbd = "NONE" /\ pg.hash # Null
         \/ rp.dbd \in SwapBlks /\ ~pg.mod
      /\ reg' = [reg EXCEPT ![r] = z] /\ disk' = disk /\ at' = at /\ loc' = loc
  BY DEF GetpagesClean
<1>1. PgBecomes(n)
  <2>1. m = IF rp.dbd # "NONE" THEN PgTables
            ELSE IF b \in SwapBlks THEN [PgTables EXCEPT !.u[b] = @ + 1]
            ELSE [PgTables EXCEPT !.oops = "file block as swap"]
    <3>1. m = IF rp.dbd # "NONE" THEN l ELSE IF b \in SwapBlks THEN [l EXCEPT !.u[b] = @ + 1]
              ELSE [l EXCEPT !.oops = "file block as swap"]
      BY Zenon DEF Counted
    <3>2. l = PgTables
      OBVIOUS
    <3> QED
      BY ONLY <3>1, <3>2
  <2> QED
    BY <2>1 DEF GetpagesClean
<1>2. OnIt(d, r)
  <2>1. loc[d].on = Null
    BY <1>0 DEF PgInv, DaemonOf
  <2>2. RegOf(r)
    BY DEF PgInv
  <2> QED
    BY <1>0, <2>1, <2>2 DEF OnIt, RegOf, PageOf
<1>3. /\ rp \in Rgns /\ rp.pfn \in Frames /\ TabsOK(l) /\ y \in Spots /\ rp.dbd # "DZERO"
      /\ rp.refs # 0 /\ rp.kind # "shared" /\ PgTyped /\ DaemonOf(d) /\ pg.hash \in Blocks \cup {Null}
      /\ rp.dbd \in Blocks => pg.hash = rp.dbd
      /\ rp.dbd = "NONE" => pg.hash # File
      /\ l.fr = frame /\ l.q = freeq /\ l.u = ucnt /\ l.free = freemem
      /\ freemem \in Nat /\ Len(freeq) \in Nat
      /\ \A f \in Frames : frame[f].use \in Nat
      /\ \A c \in SwapBlks : ucnt[c] \in Int
      /\ pg.use >= 1
  <2>1. Taking(d, r)
    BY <1>2, TakingFacts
  <2> QED
    BY <1>0, <1>2, <2>1 DEF Taking, RegOf, PageOf, OnIt, PgTables, Pages
<1> PICK S, g, u : S = rp.dbd /\ g = rp.pfn /\ u = ucnt
  OBVIOUS
<1>a. /\ TabsOK(l) /\ l.fr = frame /\ l.q = freeq /\ l.u = u /\ l.free = freemem
      /\ freemem \in Nat /\ Len(freeq) \in Nat /\ u \in [SwapBlks -> Int]
  <2>1. TabsOK(l) /\ l.fr = frame /\ l.q = freeq /\ l.u = u /\ l.free = freemem
        /\ freemem \in Nat /\ Len(freeq) \in Nat
    BY <1>3
  <2>2. u \in [SwapBlks -> Int]
    BY <2>1 DEF TabsOK, Tables
  <2> QED
    BY <2>1, <2>2
<1>b. g \in Frames /\ pg = frame[g] /\ pg.use \in Nat /\ pg.use > 0 /\ y.on = Null /\ r # Null
  <2>1. g \in Frames /\ pg = frame[g] /\ pg.use \in Nat /\ pg.use >= 1
    BY <1>3
  <2>2. y.on = Null /\ r # Null
    BY <1>0, <1>3, TablesAssumption DEF DaemonOf
  <2> QED
    BY ONLY <2>1, <2>2
<1>4. b \in SwapBlks /\ pg.hash = b
  BY <1>0, <1>3, TablesAssumption DEF Blocks
<1>5. /\ TabsOK(m) /\ m.q = l.q /\ m.free = l.free /\ m.fr = l.fr
      /\ \A c \in SwapBlks : m.u[c] = ucnt[c] + Bit(b = c) - Bit(rp.dbd = c)
  <2>1. CASE rp.dbd = "NONE"
    <3>1. m = Counted(l, b)
      BY <1>4, <2>1
    <3>2. /\ TabsOK(m) /\ m.fr = l.fr /\ m.q = l.q /\ m.free = l.free
          /\ m.u = [l.u EXCEPT ![b] = @ + 1]
      <4>1. TabsOK(l) /\ b \in SwapBlks
        BY <1>a, <1>4
      <4> QED
        BY ONLY <3>1, <4>1, CountedFacts
    <3>4. \A c \in SwapBlks : S # c
      BY <2>1, TablesAssumption
    <3>5. \A c \in SwapBlks : m.u[c] = u[c] + Bit(b = c) - Bit(S = c)
      BY ONLY <1>a, <3>2, <3>4 DEF Bit
    <3> QED
      BY <3>2, <3>5
  <2>2. CASE rp.dbd # "NONE"
    <3>1. m = l /\ b = rp.dbd
      BY <2>2
    <3>2. m.u = u /\ b = S
      BY <1>a, <3>1
    <3>3. \A c \in SwapBlks : m.u[c] = u[c] + Bit(b = c) - Bit(S = c)
      BY ONLY <1>a, <3>2 DEF Bit
    <3> QED
      BY <1>a, <3>1, <3>3
  <2> QED
    BY <2>1, <2>2
<1>6. /\ z \in Rgns /\ z.kind = rp.kind /\ z.refs = rp.refs /\ z.cw = rp.cw /\ z.prot = rp.prot
      /\ z.pfn = rp.pfn /\ ~z.v /\ z.dbd = b /\ z.lock = rp.lock
  <2>1. z = [rp EXCEPT !.v = FALSE, !.dbd = b] /\ b \in Blocks
    BY <1>4 DEF Blocks
  <2> QED
    BY ONLY <1>3, <2>1 DEF Rgns
<1>7. Memfreed(m, n, z)
  <2>1. /\ TabsOK(m) /\ z \in Rgns /\ z.pfn \in Frames /\ m.fr[z.pfn].use > 0
        /\ m.fr[z.pfn].hash # Null /\ n = Memfree(m, z)
    <3>1. m.fr[z.pfn] = pg
      BY <1>3, <1>5, <1>6
    <3>2. b # Null /\ z.pfn \in Frames
      BY <1>b, <1>4, <1>6, BlocksAssumption
    <3> QED
      BY ONLY <1>b, <1>4, <1>5, <1>6, <3>1, <3>2, n = Memfree(m, z)
  <2> QED
    BY ONLY <2>1, MemfreeFacts
<1>8. loc' = [loc EXCEPT ![d] = y]
  BY <1>0, <1>3 DEF PgTyped
<1>9. Takes(d, r, n, z, y)
  BY <1>0, <1>1, <1>3, <1>8 DEF Takes, PgTyped
<1>10. KeepsRegion(r, z)
  BY <1>0, <1>3, <1>6 DEF KeepsRegion, Unminded
<1>11. DaemonFits(d, r, n, z, y)
  <2>1. TabsOK(n) /\ Len(n.q) - n.free = Len(freeq) - freemem /\ n.free \in Nat
    <3>1. TabsOK(n) /\ Len(n.q) - n.free = Len(freeq) - freemem /\ n.free >= freemem
      BY ONLY <1>a, <1>5, <1>7 DEF Memfreed
    <3>2. n.free \in Int
      BY ONLY <3>1 DEF TabsOK, Tables
    <3> QED
      BY ONLY <1>a, <3>1, <3>2
  <2>2. y.on = Null /\ y.on # r /\ ~z.lock /\ z.dbd # "NONE" /\ y \in Spots
    <3>1. b # "NONE"
      BY <1>4, TablesAssumption
    <3> QED
      BY ZenonT(60), <1>0, <1>3, <1>b, <1>6, <3>1
  <2>3. ASSUME NEW f \in Frames PROVE n.fr[f].use = frame[f].use - Bit(f = reg[r].pfn /\ y.on # r)
    <3>1. n.fr[f].use = frame[f].use - Bit(f = z.pfn)
      BY ONLY <1>a, <1>5, <1>7, f \in Frames DEF Memfreed
    <3>2. z.pfn = reg[r].pfn
      BY <1>6
    <3> QED
      <4>1. f = z.pfn <=> f = reg[r].pfn /\ y.on # r
        BY <2>2, <3>2
      <4>2. frame[f].use \in Nat
        BY <1>3
      <4> QED
        BY ONLY <3>1, <4>1, <4>2 DEF Bit
  <2>4. \A c \in SwapBlks : n.u[c] = ucnt[c] + Bit(z.dbd = c) - Bit(reg[r].dbd = c)
    <3>1. n.u = m.u /\ z.dbd = b
      BY ONLY <1>6, <1>7 DEF Memfreed
    <3> QED
      BY ONLY <1>5, <3>1, rp = reg[r]
  <2> QED
    BY ONLY <2>1, <2>2, <2>3, <2>4 DEF DaemonFits
<1>12. frame' = n.fr /\ reg'[r] = z
  BY <1>0, <1>1, <1>3 DEF PgBecomes, PgTyped
<1>13. HashStep(d, r)
  <2>1. ASSUME NEW f \in Frames
        PROVE  \/ frame'[f].hash = frame[f].hash
               \/ frame[f].hash = Null /\ frame'[f].hash = b
    BY ONLY <1>a, <1>5, <1>6, <1>7, <1>12, f \in Frames DEF Memfreed
  <2>2. b # File
    BY <1>4, BlocksAssumption
  <2>3. ASSUME NEW e \in Daemons \ {d}, loc[e].pc = "swapout", loc[e].on # r
        PROVE  reg'[r].dbd # reg[loc[e].on].dbd
    <3>1. \A f \in Frames : frame[f].hash # reg[loc[e].on].dbd
      BY <2>3 DEF PgInv, DaemonOf
    <3>2. frame[g].hash = b /\ reg'[r].dbd = b
      BY <1>b, <1>4, <1>6, <1>12
    <3> QED
      BY <1>b, <3>1, <3>2
  <2>4. reg'[r].dbd = b
    BY <1>6, <1>12
  <2> QED
    BY ONLY <2>1, <2>2, <2>3, <2>4 DEF HashStep
<1>14. DaemonOf(d)'
  BY <1>0, <1>3 DEF DaemonOf
<1> QED
  BY <1>2, <1>9, <1>10, <1>11, <1>13, <1>14, DaemonStep

\* getpages, when the page has to be written.
LEMMA GetpagesDirtyStep ==
    ASSUME PgInv, NEW d \in Daemons, NEW r \in Regions, GetpagesDirty(d, r)
    PROVE  PgInv'
<1> PICK rp, pg, l : rp = reg[r] /\ pg = frame[rp.pfn] /\ l = PgTables
  OBVIOUS
<1> PICK b, y : b = rp.dbd /\ y = [At("window") EXCEPT !.on = r]
  OBVIOUS
<1> PICK s : s = Swfree1(l, b)
  OBVIOUS
<1> PICK n : n = IF b \notin SwapBlks THEN l ELSE IF s.u[b] > 0 THEN s
                 ELSE IF Pfind(s, b) = {} THEN [s EXCEPT !.oops = "getpages - pbremove"]
                 ELSE Pbremove(s, b)
  OBVIOUS
<1> PICK z : z = [rp EXCEPT !.lock = TRUE, !.v = FALSE, !.dbd = "NONE"]
  OBVIOUS
<1>0. /\ loc[d].pc = "idle" /\ rp.v /\ ~rp.pin /\ ~rp.lock /\ ~rp.noswap
      /\ reg' = [reg EXCEPT ![r] = z] /\ disk' = disk /\ at' = at /\ loc' = [loc EXCEPT ![d] = y]
  BY DEF GetpagesDirty, PgGoes
<1>1. PgBecomes(n)
  BY DEF GetpagesDirty
<1>2. OnIt(d, r)
  <2>1. loc[d].on = Null
    BY <1>0 DEF PgInv, DaemonOf
  <2>2. RegOf(r)
    BY DEF PgInv
  <2> QED
    BY <1>0, <2>1, <2>2 DEF OnIt, RegOf, PageOf
<1>3. /\ rp \in Rgns /\ rp.pfn \in Frames /\ TabsOK(l) /\ rp.dbd # "DZERO"
      /\ rp.refs # 0 /\ rp.kind # "shared" /\ PgTyped
      /\ b \in Blocks => pg.hash = b
      /\ b \in SwapBlks =>
            /\ ucnt[b] \in Nat /\ ucnt[b] > 0
            /\ ucnt[b] = 1 => \A t \in Regions \ {r} : reg[t].dbd # b
  <2>1. Taking(d, r)
    BY <1>2, TakingFacts
  <2> QED
    BY <1>0, <1>2, <2>1 DEF Taking, RegOf, PageOf, OnIt
<1>4. /\ l.fr = frame /\ l.q = freeq /\ l.u = ucnt /\ l.free = freemem
      /\ freemem \in Nat /\ Len(freeq) \in Nat /\ ucnt \in [SwapBlks -> Int]
      /\ \A f \in Frames : frame[f].use \in Nat
  <2>1. l.fr = frame /\ l.q = freeq /\ l.u = ucnt /\ l.free = freemem
    BY DEF PgTables
  <2>2. ucnt \in [SwapBlks -> Int]
    BY <1>3, <2>1 DEF TabsOK, Tables
  <2>3. freemem \in Nat /\ Len(freeq) \in Nat /\ \A f \in Frames : frame[f].use \in Nat
    BY <1>2, TakingFacts DEF Taking
  <2> QED
    BY <2>1, <2>2, <2>3
<1>5. Drop(l, n, b) /\ \A f \in Frames : n.fr[f].use = frame[f].use
  <2>1. CASE b \notin SwapBlks
    <3>1. n = l
      BY <2>1
    <3> QED
      BY <1>3, <1>4, <2>1, <3>1 DEF Drop
  <2>2. CASE b \in SwapBlks
    <3>0. l.u[b] > 0 /\ l.u[b] \in Int /\ b \in SwapBlks /\ TabsOK(l)
      BY <1>3, <1>4, <2>2
    <3>1. /\ s.u[b] = 0 => Dropped(l, Pbremove(s, b), b)
          /\ s.u[b] # 0 => Dropped(l, s, b)
          /\ s.fr = l.fr /\ s.u[b] = l.u[b] - 1
      <4>1. s = Swfree1(l, b)
        OBVIOUS
      <4> QED
        BY ONLY <3>0, <4>1, SwfreeFacts
    <3>2. Pfind(s, b) # {}
      BY <1>3, <1>4, <2>2, <3>1 DEF Pfind, Blocks
    <3>3. n = IF s.u[b] = 0 THEN Pbremove(s, b) ELSE s
      <4>1. s.u[b] > 0 <=> s.u[b] # 0
        BY ONLY <3>0, <3>1
      <4>2. n = IF s.u[b] # 0 THEN s ELSE Pbremove(s, b)
        BY <2>2, <3>2, <4>1
      <4> QED
        BY ONLY <4>2
    <3>4. Dropped(l, n, b)
      BY <3>1, <3>3
    <3>5. /\ TabsOK(n) /\ n.q = l.q /\ n.free = l.free /\ n.u = [l.u EXCEPT ![b] = @ - 1]
          /\ \A f \in Frames : /\ n.fr[f].use = l.fr[f].use
                              /\ \/ n.fr[f].hash = l.fr[f].hash
                                 \/ n.fr[f].hash = Null /\ l.fr[f].hash = b /\ l.u[b] = 1
      BY ONLY <3>4 DEF Dropped
    <3> QED
      BY ONLY <1>4, <2>2, <3>5 DEF Drop
  <2> QED
    BY <2>1, <2>2
<1>6. /\ z \in Rgns /\ z.kind = rp.kind /\ z.refs = rp.refs /\ z.cw = rp.cw /\ z.prot = rp.prot
      /\ z.pfn = rp.pfn /\ ~z.v /\ z.dbd = "NONE" /\ z.lock
  <2>1. z = [rp EXCEPT !.lock = TRUE, !.v = FALSE, !.dbd = "NONE"]
    OBVIOUS
  <2> QED
    BY ONLY <1>3, <2>1 DEF Rgns
<1>7. y \in Spots /\ y.pc = "window" /\ y.on = r
  BY DEF At, Spots, LockedPCs, FreePCs
<1>8. Takes(d, r, n, z, y)
  BY <1>0, <1>1, <1>3 DEF Takes, PgTyped
<1>9. KeepsRegion(r, z)
  BY <1>0, <1>3, <1>6 DEF KeepsRegion, Unminded
<1>10. DaemonFits(d, r, n, z, y)
  <2>1. TabsOK(n) /\ Len(n.q) - n.free = Len(freeq) - freemem /\ n.free \in Nat
    <3>1. TabsOK(n) /\ Len(n.q) - n.free = Len(freeq) - freemem /\ n.free >= freemem
      BY ONLY <1>4, <1>5 DEF Drop
    <3>2. n.free \in Int
      BY ONLY <3>1 DEF TabsOK, Tables
    <3> QED
      BY ONLY <1>4, <3>1, <3>2
  <2>2. ASSUME NEW f \in Frames PROVE n.fr[f].use = frame[f].use - Bit(f = reg[r].pfn /\ y.on # r)
    <3>1. n.fr[f].use = frame[f].use /\ frame[f].use \in Nat
      BY ONLY <1>4, <1>5, f \in Frames
    <3>2. ~(f = reg[r].pfn /\ y.on # r)
      BY <1>7
    <3> QED
      BY ONLY <3>1, <3>2 DEF Bit
  <2>3. ASSUME NEW c \in SwapBlks PROVE n.u[c] = ucnt[c] + Bit(z.dbd = c) - Bit(reg[r].dbd = c)
    <3>1. n.u = IF b \in SwapBlks THEN [ucnt EXCEPT ![b] = @ - 1] ELSE ucnt
      BY ONLY <1>4, <1>5 DEF Drop
    <3>2. z.dbd # c /\ reg[r].dbd = b
      BY <1>6, TablesAssumption
    <3> QED
      BY ONLY <1>4, <3>1, <3>2, c \in SwapBlks DEF Bit
  <2> QED
    BY ONLY <1>6, <1>7, <2>1, <2>2, <2>3 DEF DaemonFits
<1>11. frame' = n.fr /\ reg'[r] = z /\ loc'[d] = y
  BY <1>0, <1>1, <1>3 DEF PgBecomes, PgTyped
<1>12. HashStep(d, r)
  <2>1. ASSUME NEW f \in Frames
        PROVE  \/ frame'[f].hash = frame[f].hash
               \/ frame'[f].hash = Null /\ \A t \in Regions \ {r} : reg[t].dbd # frame[f].hash
    <3>1. \/ n.fr[f].hash = frame[f].hash
          \/ n.fr[f].hash = Null /\ frame[f].hash = b /\ b \in SwapBlks /\ ucnt[b] = 1
      BY ONLY <1>4, <1>5, f \in Frames DEF Drop
    <3> QED
      BY ZenonT(60), <1>3, <1>11, <3>1
  <2>2. ASSUME NEW e \in Daemons \ {d}, loc[e].pc = "swapout", loc[e].on # r
        PROVE  reg'[r].dbd # reg[loc[e].on].dbd
    <3>1. reg[loc[e].on].dbd \in SwapBlks
      BY <2>2 DEF PgInv, DaemonOf
    <3> QED
      BY ONLY <1>6, <1>11, <3>1, TablesAssumption
  <2> QED
    BY ONLY <2>1, <2>2 DEF HashStep
<1>13. DaemonOf(d)'
  <2>1. r # Null /\ z.pfn \in Frames
    BY <1>3, <1>6, TablesAssumption
  <2> QED
    BY ONLY <1>6, <1>7, <1>11, <2>1, r \in Regions DEF DaemonOf
<1> QED
  BY <1>2, <1>8, <1>9, <1>10, <1>12, <1>13, DaemonStep

\* A page of swap that is free is in no region and in no frame.
LEMMA FreeBlock ==
    ASSUME PgInv, NEW b \in SwapBlks, ucnt[b] = 0
    PROVE  /\ \A t \in Regions : reg[t].dbd # b
           /\ \A f \in Frames : frame[f].hash # b
<1>1. \A t \in Regions : reg[t].dbd # b
  BY SwapUsers DEF PgInv
<1>2. \A f \in Frames : frame[f].hash \in SwapBlks => ucnt[frame[f].hash] > 0
  BY DEF PgInv, TabsOK, PgTables
<1> QED
  BY <1>1, <1>2

\* swapchunk gets its page of swap.
LEMMA SwapchunkStep ==
    ASSUME PgInv, NEW d \in Daemons, NEW b \in SwapBlks, Swapchunk(d, b)
    PROVE  PgInv'
<1> PICK r, l, u : r = loc[d].on /\ l = PgTables /\ u = [ucnt EXCEPT ![b] = 1]
  OBVIOUS
<1> PICK y, z, n : /\ y = [loc[d] EXCEPT !.pc = "swapout"] /\ z = [reg[r] EXCEPT !.dbd = b]
                   /\ n = [l EXCEPT !.u = u]
  OBVIOUS
<1>0. /\ loc[d].pc = "window" /\ ucnt[b] = 0 /\ ucnt' = u /\ loc' = [loc EXCEPT ![d] = y]
      /\ frame' = frame /\ freeq' = freeq /\ freemem' = freemem /\ disk' = disk /\ at' = at
      /\ oops' = oops
  BY DEF Swapchunk, PgGoes
<1>1. reg' = [reg EXCEPT ![r] = z]
  BY DEF Swapchunk
<1>2. r \in Regions /\ ~reg[r].v /\ reg[r].dbd = "NONE" /\ r # Null /\ reg[r].pfn \in Frames
  BY <1>0, TablesAssumption DEF PgInv, DaemonOf
<1>3. OnIt(d, r)
  <2>1. reg[r].kind # "shared"
    BY <1>2, TablesAssumption DEF PgInv, RegOf, PageOf
  <2> QED
    BY <1>2, <2>1 DEF OnIt, Locks
<1>4. /\ reg[r] \in Rgns /\ loc[d] \in Spots /\ PgTyped /\ TabsOK(l) /\ reg[r].lock
      /\ freemem \in Nat /\ Len(freeq) \in Nat /\ \A f \in Frames : frame[f].use \in Nat
  <2>1. Taking(d, r)
    BY <1>3, TakingFacts
  <2>2. reg[r].lock
    <3>1. Locks(d, r) /\ d \in PgProcs \cup Daemons
      BY DEF Locks
    <3> QED
      BY <1>2, <3>1 DEF PgInv, LocksExact
  <2> QED
    BY <2>1, <2>2 DEF Taking
<1>5. /\ l.fr = frame /\ l.q = freeq /\ l.u = ucnt /\ l.free = freemem /\ l \in Tables
      /\ ucnt \in [SwapBlks -> Int]
  BY <1>4 DEF PgTables, TabsOK, Tables
<1>6. /\ \A t \in Regions : reg[t].dbd # b
      /\ \A f \in Frames : frame[f].hash # b
  BY <1>0, FreeBlock
<1>7. u \in [SwapBlks -> Int] /\ \A c \in SwapBlks : u[c] = ucnt[c] + Bit(b = c)
  BY <1>0, <1>5 DEF Bit
<1>8. TabsOK(n) /\ n.fr = frame /\ n.q = freeq /\ n.free = freemem /\ n.u = u
  <2>1. n \in Tables /\ n.fr = frame /\ n.q = freeq /\ n.free = freemem /\ n.u = u
    BY ONLY <1>5, <1>7, n = [l EXCEPT !.u = u] DEF Tables
  <2>2. \A f \in Frames : frame[f].hash \in SwapBlks => u[frame[f].hash] > 0
    <3> SUFFICES ASSUME NEW f \in Frames, frame[f].hash \in SwapBlks PROVE u[frame[f].hash] > 0
      OBVIOUS
    <3>1. ucnt[frame[f].hash] > 0
      BY <1>4, <1>5 DEF TabsOK
    <3> QED
      BY <1>5, <1>6, <1>7, <3>1 DEF Bit
  <2> QED
    BY ONLY <1>4, <1>5, <2>1, <2>2 DEF TabsOK
<1>9. PgBecomes(n)
  <2>1. n.oops = oops
    BY DEF PgTables
  <2> QED
    BY <1>0, <1>8, <2>1 DEF PgBecomes
<1>10. /\ z \in Rgns /\ z.kind = reg[r].kind /\ z.refs = reg[r].refs /\ z.cw = reg[r].cw
       /\ z.prot = reg[r].prot /\ z.pfn = reg[r].pfn /\ ~z.v /\ z.dbd = b /\ z.lock
  <2>1. z = [reg[r] EXCEPT !.dbd = b] /\ b \in Blocks
    BY DEF Blocks
  <2> QED
    BY ONLY <1>2, <1>4, <2>1 DEF Rgns
<1>11. y \in Spots /\ y.pc = "swapout" /\ y.on = r
  <2>1. y = [loc[d] EXCEPT !.pc = "swapout"] /\ loc[d].on = r
    OBVIOUS
  <2> QED
    BY ONLY <1>4, <2>1 DEF Spots
<1>12. Takes(d, r, n, z, y)
  BY <1>0, <1>1, <1>4, <1>9 DEF Takes, PgTyped
<1>13. KeepsRegion(r, z)
  BY <1>2, <1>10 DEF KeepsRegion, Unminded
<1>14. DaemonFits(d, r, n, z, y)
  <2>1. ASSUME NEW f \in Frames PROVE n.fr[f].use = frame[f].use - Bit(f = reg[r].pfn /\ y.on # r)
    <3>1. n.fr[f].use = frame[f].use /\ frame[f].use \in Nat
      BY ONLY <1>4, <1>8, f \in Frames
    <3>2. ~(f = reg[r].pfn /\ y.on # r)
      BY <1>11
    <3> QED
      BY ONLY <3>1, <3>2 DEF Bit
  <2>2. ASSUME NEW c \in SwapBlks PROVE n.u[c] = ucnt[c] + Bit(z.dbd = c) - Bit(reg[r].dbd = c)
    <3>1. reg[r].dbd # c
      BY <1>2, TablesAssumption
    <3> QED
      BY ONLY <1>5, <1>7, <1>8, <1>10, <3>1, c \in SwapBlks DEF Bit
  <2> QED
    BY ONLY <1>4, <1>8, <1>10, <1>11, <2>1, <2>2 DEF DaemonFits
<1>15. reg'[r] = z /\ loc'[d] = y /\ \A t \in Regions \ {r} : reg'[t] = reg[t]
  BY <1>0, <1>1, <1>2, <1>4 DEF PgTyped
<1>16. HashStep(d, r)
  <2>1. \A e \in Daemons \ {d} : loc[e].pc = "swapout" /\ loc[e].on # r
                                 => reg'[r].dbd # reg[loc[e].on].dbd
    <3> SUFFICES ASSUME NEW e \in Daemons \ {d}, loc[e].pc = "swapout"
                 PROVE  reg'[r].dbd # reg[loc[e].on].dbd
      OBVIOUS
    <3>1. loc[e].on \in Regions
      BY DEF PgInv, DaemonOf
    <3> QED
      BY <1>6, <1>10, <1>15, <3>1
  <2> QED
    BY <1>0, <2>1 DEF HashStep
<1>17. DaemonOf(d)'
  <2>1. \A t \in Regions \ {r} : reg'[t].dbd # b
    BY <1>6, <1>15
  <2>2. \A f \in Frames : frame'[f].hash # b
    BY <1>0, <1>6
  <2> QED
    BY ONLY <1>2, <1>10, <1>11, <1>15, <2>1, <2>2, b \in SwapBlks DEF DaemonOf
<1> QED
  BY <1>3, <1>12, <1>13, <1>14, <1>16, <1>17, DaemonStep

\* The page has been written.
LEMMA SwapOutStep ==
    ASSUME PgInv, NEW d \in Daemons, SwapOut(d)
    PROVE  PgInv'
<1> PICK r, l : r = loc[d].on /\ l = PgTables
  OBVIOUS
<1> PICK rp, y, n : rp = reg[r] /\ y = At("idle") /\ n = Memfree(l, reg[r])
  OBVIOUS
<1> PICK z : z = [rp EXCEPT !.lock = FALSE]
  OBVIOUS
<1>0. /\ loc[d].pc = "swapout" /\ PgBecomes(n) /\ loc' = [loc EXCEPT ![d] = y] /\ at' = at
      /\ disk' = [disk EXCEPT ![rp.dbd] = frame[rp.pfn].val]
  BY DEF SwapOut, PgGoes
<1>1. reg' = [reg EXCEPT ![r] = z]
  BY DEF SwapOut
<1>2. /\ r \in Regions /\ ~rp.v /\ rp.dbd \in SwapBlks /\ r # Null /\ rp.pfn \in Frames
      /\ \A f \in Frames : frame[f].hash # rp.dbd
      /\ \A t \in Regions \ {r} : reg[t].dbd # rp.dbd
  BY <1>0, TablesAssumption DEF PgInv, DaemonOf
<1>3. OnIt(d, r)
  <2>1. reg[r].kind # "shared"
    BY <1>2, TablesAssumption DEF PgInv, RegOf, PageOf
  <2> QED
    BY <1>2, <2>1 DEF OnIt, Locks
<1>4. /\ rp \in Rgns /\ PgTyped /\ TabsOK(l) /\ frame[rp.pfn].use >= 1 /\ ucnt[rp.dbd] > 0
      /\ freemem \in Nat /\ Len(freeq) \in Nat /\ frame[rp.pfn].val \in Vals
      /\ \A f \in Frames : frame[f].use \in Nat
  <2>1. Taking(d, r)
    BY <1>3, TakingFacts
  <2>2. /\ rp \in Rgns /\ PgTyped /\ TabsOK(l) /\ frame[rp.pfn].use >= 1 /\ ucnt[rp.dbd] > 0
        /\ freemem \in Nat /\ Len(freeq) \in Nat
        /\ \A f \in Frames : frame[f] \in Pages /\ frame[f].use \in Nat
    BY <1>2, <2>1 DEF Taking
  <2>3. frame[rp.pfn].val \in Vals
    BY <1>2, <2>2 DEF Pages
  <2> QED
    BY ONLY <2>2, <2>3
<1>5. l.fr = frame /\ l.q = freeq /\ l.u = ucnt /\ l.free = freemem /\ ucnt \in [SwapBlks -> Int]
  BY <1>4 DEF PgTables, TabsOK, Tables
<1>6. Memfreed(l, n, rp)
  <2>1. /\ TabsOK(l) /\ rp \in Rgns /\ rp.pfn \in Frames /\ l.fr[rp.pfn].use > 0
        /\ l.u[rp.dbd] > 0 /\ (\A f \in Frames : l.fr[f].hash # rp.dbd) /\ n = Memfree(l, rp)
    <3>1. frame[rp.pfn].use > 0
      BY <1>2, <1>4
    <3> QED
      BY <1>2, <1>4, <1>5, <3>1
  <2> QED
    BY ONLY <2>1, MemfreeFacts
<1>7. /\ z \in Rgns /\ z.kind = rp.kind /\ z.refs = rp.refs /\ z.cw = rp.cw
      /\ z.prot = rp.prot /\ z.pfn = rp.pfn /\ z.v = rp.v /\ z.dbd = rp.dbd /\ ~z.lock
      /\ z.pin = rp.pin
  <2>1. z = [rp EXCEPT !.lock = FALSE]
    OBVIOUS
  <2> QED
    BY ONLY <1>4, <2>1 DEF Rgns
<1>8. y \in Spots /\ y.pc = "idle" /\ y.on = Null
  BY DEF At, Spots, LockedPCs, FreePCs
<1>9. Takes(d, r, n, z, y)
  <2>1. disk' \in [SwapBlks -> Vals]
    BY <1>0, <1>4 DEF PgTyped
  <2> QED
    BY <1>0, <1>1, <2>1 DEF Takes
<1>10. KeepsRegion(r, z)
  <2>1. Unminded(rp, z)
    BY ONLY <1>7 DEF Unminded
  <2> QED
    BY <1>2, <1>7, <2>1 DEF KeepsRegion
<1>11. DaemonFits(d, r, n, z, y)
  <2>1. TabsOK(n) /\ Len(n.q) - n.free = Len(freeq) - freemem /\ n.free \in Nat
    <3>1. TabsOK(n) /\ Len(n.q) - n.free = Len(freeq) - freemem /\ n.free >= freemem
      BY ONLY <1>5, <1>6 DEF Memfreed
    <3>2. n.free \in Int
      BY ONLY <3>1 DEF TabsOK, Tables
    <3> QED
      BY ONLY <1>4, <3>1, <3>2
  <2>2. ASSUME NEW f \in Frames PROVE n.fr[f].use = frame[f].use - Bit(f = reg[r].pfn /\ y.on # r)
    <3>1. n.fr[f].use = frame[f].use - Bit(f = rp.pfn) /\ frame[f].use \in Nat
      BY ONLY <1>4, <1>5, <1>6, f \in Frames DEF Memfreed
    <3>2. f = rp.pfn <=> f = reg[r].pfn /\ y.on # r
      BY <1>2, <1>8
    <3> QED
      BY ONLY <3>1, <3>2 DEF Bit
  <2>3. ASSUME NEW c \in SwapBlks PROVE n.u[c] = ucnt[c] + Bit(z.dbd = c) - Bit(reg[r].dbd = c)
    <3>1. n.u = ucnt /\ z.dbd = reg[r].dbd
      BY <1>5, <1>6, <1>7 DEF Memfreed
    <3> QED
      BY ONLY <1>5, <3>1, c \in SwapBlks DEF Bit
  <2>4. z.dbd # "NONE"
    BY <1>2, <1>7, TablesAssumption
  <2>5. y \in Spots /\ y.on = Null /\ ~z.lock /\ y.on # r
    BY <1>2, <1>7, <1>8
  <2> QED
    BY ONLY <2>1, <2>2, <2>3, <2>4, <2>5 DEF DaemonFits
<1>12. frame' = n.fr /\ reg'[r] = z /\ loc'[d] = y
  BY <1>0, <1>1, <1>2, <1>4 DEF PgBecomes, PgTyped
<1>13. HashStep(d, r)
  <2>1. ASSUME NEW f \in Frames
        PROVE  \/ frame'[f].hash = frame[f].hash
               \/ frame[f].hash = Null /\ frame'[f].hash = rp.dbd
    BY ONLY <1>5, <1>6, <1>12, f \in Frames DEF Memfreed
  <2>2. rp.dbd # File
    BY <1>2, BlocksAssumption
  <2>3. reg[r].dbd = rp.dbd /\ reg'[r].dbd = rp.dbd
    BY <1>7, <1>12
  <2>4. ASSUME NEW e \in Daemons \ {d}, loc[e].pc = "swapout", loc[e].on # r
        PROVE  reg'[r].dbd # reg[loc[e].on].dbd
    <3>1. loc[e].on \in Regions
      BY <2>4 DEF PgInv, DaemonOf
    <3> QED
      BY <1>2, <2>3, <2>4, <3>1
  <2> QED
    BY ONLY <2>1, <2>2, <2>3, <2>4 DEF HashStep
<1>14. DaemonOf(d)'
  BY ONLY <1>8, <1>12 DEF DaemonOf
<1> QED
  BY <1>3, <1>9, <1>10, <1>11, <1>13, <1>14, DaemonStep

-----------------------------------------------------------------------------
(* The theorems *)

\* At first all frames are on the queue, and nobody has a region.
LEMMA PgInitHolds == PgInit => PgInv
<1> SUFFICES ASSUME PgInit PROVE PgInv
  OBVIOUS
<1> PICK n, q, l : n = Cardinality(Frames) /\ q = freeq /\ l = PgTables
  OBVIOUS
<1> PICK pg : pg = [use |-> 0, hash |-> Null, done |-> FALSE, mod |-> FALSE, val |-> Junk]
  OBVIOUS
<1>1. IsFiniteSet(Frames) /\ n \in Nat
  BY FS_CardinalityType, TablesAssumption
<1>2. q \in [1 .. n -> Frames] /\ \A i, j \in 1 .. n : q[i] = q[j] => i = j
  BY DEF PgInit
<1>3. q \in Seq(Frames) /\ Len(q) = n /\ DOMAIN q = 1 .. n
  BY ONLY <1>1, <1>2
<1>4. \A f \in Frames : InQ(q, f)
  <2>1. q \in Injection(1 .. n, Frames)
    BY ONLY <1>1, <1>2, Fun_IsInj
  <2>2. Cardinality(1 .. n) = n /\ IsFiniteSet(1 .. n)
    BY ONLY <1>1, FS_Interval, 1 \in Int
  <2>3. q \in Surjection(1 .. n, Frames)
    BY <1>1, <2>1, <2>2, FS_Injection
  <2> QED
    BY <1>3, <2>3, Fun_SurjectionProperties DEF InQ
<1>5. /\ \A f \in Frames : frame[f] = pg
      /\ frame = [f \in Frames |-> pg] /\ freemem = n /\ ucnt = [b \in SwapBlks |-> 0]
      /\ disk = [b \in SwapBlks |-> Junk] /\ reg = [r \in Regions |-> NoRegion]
      /\ at = [p \in PgProcs |-> Null] /\ loc = [a \in PgProcs \cup Daemons |-> At("idle")]
      /\ oops = "none"
  BY DEF PgInit
<1>6. pg \in Pages /\ pg.use = 0 /\ pg.hash = Null
  BY DEF Pages, Vals
<1>7. TabsOK(l)
  <2>1. l.fr = frame /\ l.q = q /\ l.free = freemem /\ l.u = ucnt
    BY DEF PgTables
  <2>2. l \in Tables
    BY <1>1, <1>3, <1>5, <1>6 DEF PgTables, Tables
  <2> QED
    BY <1>2, <1>3, <1>4, <1>5, <1>6, <2>1, <2>2, BlocksAssumption DEF TabsOK
<1>8. /\ At("idle") \in Spots /\ At("idle").pc = "idle" /\ At("idle").got = 0
      /\ At("idle").on = Null /\ At("idle").for = "none" /\ ~At("idle").inP
  BY DEF At, Spots, LockedPCs, FreePCs
<1>9. /\ NoRegion \in Rgns /\ NoRegion.refs = 0 /\ ~NoRegion.lock /\ NoRegion.dbd = "NONE"
      /\ ~NoRegion.v /\ NoRegion.prot = Prot(NoRegion) /\ NoRegion.kind = "unused"
  BY DEF NoRegion, Rgns, Prot
<1>10. PgTyped
  <2>1. disk \in [SwapBlks -> Vals]
    BY <1>5 DEF Vals
  <2> QED
    BY <1>1, <1>5, <1>8, <1>9, <2>1 DEF PgTyped
<1>11. LocksExact
  <2>1. \A a \in PgProcs \cup Daemons, r \in Regions : ~Locks(a, r)
    BY <1>5, <1>8, TablesAssumption DEF Locks, LockedPCs
  <2> QED
    BY <1>5, <1>9, <2>1 DEF LocksExact
<1>12. RefsExact
  <2>1. \A r \in Regions : Attached(r) = {}
    BY <1>5, TablesAssumption DEF Attached
  <2> QED
    BY <1>5, <1>9, <2>1, FS_EmptySet, TablesAssumption DEF RefsExact
<1>13. UsesExact
  <2> SUFFICES ASSUME NEW f \in Frames
               PROVE  frame[f].use = Cardinality(Using(f)) + Cardinality(Waiting(f))
    BY DEF UsesExact
  <2>1. Using(f) = {}
    <3>1. \A r \in Regions : reg[r].pfn # f
      BY <1>5, TablesAssumption DEF NoRegion
    <3> QED
      BY <3>1 DEF Using
  <2>2. Waiting(f) = {}
    BY <1>5, <1>8 DEF Waiting
  <2> QED
    BY <1>5, <1>6, <2>1, <2>2, FS_EmptySet
<1>14. MemExact
  <2>1. Promised = {}
    <3>1. \A p \in PgProcs : 1 .. loc[p].got = {}
      BY <1>5, <1>8
    <3> QED
      BY <3>1 DEF Promised
  <2> QED
    BY <1>1, <1>3, <1>5, <2>1, FS_EmptySet DEF MemExact
<1>15. SwapExact
  <2> SUFFICES ASSUME NEW b \in SwapBlks PROVE ucnt[b] = Cardinality({r \in Regions : reg[r].dbd = b})
    BY DEF SwapExact
  <2>1. {r \in Regions : reg[r].dbd = b} = {}
    BY <1>5, <1>9, TablesAssumption
  <2> QED
    BY <1>5, <2>1, FS_EmptySet
<1>16. \A r \in Regions : RegOf(r)
  BY <1>5, <1>9 DEF RegOf, PageOf
<1>17. \A p \in PgProcs : ProcOf(p)
  BY <1>5, <1>8 DEF ProcOf, Fault, Asleep
<1>18. \A d \in Daemons : DaemonOf(d)
  BY <1>5, <1>8 DEF DaemonOf
<1> QED
  BY <1>7, <1>10, <1>11, <1>12, <1>13, <1>14, <1>15, <1>16, <1>17, <1>18 DEF PgInv

\* Every operation of a process or a daemon keeps the invariant.
LEMMA PgNextHolds ==
    ASSUME LockedShm, PgInv, [PgNext]_pgVars
    PROVE  PgInv'
<1>1. ASSUME NEW p \in PgProcs, TransTrap(p) PROVE PgInv'
  BY <1>1, TransTrapStep
<1>2. ASSUME NEW p \in PgProcs, Vfault(p) PROVE PgInv'
  BY <1>2, VfaultStep
<1>3. ASSUME NEW p \in PgProcs, PageDone(p) PROVE PgInv'
  BY <1>3, PageDoneStep
<1>4. ASSUME NEW p \in PgProcs, SwapIn(p) PROVE PgInv'
  BY <1>4, SwapInStep DEF SwapIn
<1>5. ASSUME NEW p \in PgProcs, ReadDone(p) PROVE PgInv'
  BY <1>5, ReadDoneStep
<1>6. ASSUME NEW p \in PgProcs, ProtTrap(p) PROVE PgInv'
  BY <1>6, ProtTrapStep
<1>7. ASSUME NEW p \in PgProcs, Pfault(p) PROVE PgInv'
  BY <1>7, PfaultStep
<1>8. ASSUME NEW p \in PgProcs, PfaultAgain(p) PROVE PgInv'
  BY <1>8, PfaultAgainStep
<1>9. ASSUME NEW p \in PgProcs, Memreserve(p) PROVE PgInv'
  BY <1>9, MemreserveStep
<1>10. ASSUME NEW p \in PgProcs, Reserved(p) PROVE PgInv'
  BY <1>10, ReservedStep
<1>11. ASSUME NEW p \in PgProcs, NEW w \in Values, UserWrite(p, w) PROVE PgInv'
  BY <1>11, UserWriteStep
<1>12. ASSUME NEW p \in PgProcs, NEW r \in Regions, Attach(p, r) PROVE PgInv'
  BY <1>12, AttachStep
<1>13. ASSUME NEW p \in PgProcs, NEW r \in Regions, NEW k \in Kinds, Make(p, r, k) PROVE PgInv'
  BY <1>13, MakeStep
<1>14. ASSUME NEW p \in PgProcs, NEW q \in PgProcs, NEW r \in Regions, Dupreg(p, q, r)
       PROVE  PgInv'
  BY <1>14, DupregStep
<1>15. ASSUME NEW p \in PgProcs, Detach(p) PROVE PgInv'
  BY <1>15, DetachStep
<1>16. ASSUME NEW d \in Daemons, NEW r \in Regions, GetpagesClean(d, r) PROVE PgInv'
  BY <1>16, GetpagesCleanStep
<1>17. ASSUME NEW d \in Daemons, NEW r \in Regions, GetpagesDirty(d, r) PROVE PgInv'
  BY <1>17, GetpagesDirtyStep
<1>18. ASSUME NEW d \in Daemons, NEW b \in SwapBlks, Swapchunk(d, b) PROVE PgInv'
  BY <1>18, SwapchunkStep
<1>19. ASSUME NEW d \in Daemons, SwapOut(d) PROVE PgInv'
  BY <1>19, SwapOutStep
<1>20. ASSUME UNCHANGED pgVars PROVE PgInv'
  <2>1. /\ frame' = frame /\ freeq' = freeq /\ freemem' = freemem /\ ucnt' = ucnt /\ disk' = disk
        /\ reg' = reg /\ at' = at /\ loc' = loc /\ oops' = oops
    BY <1>20 DEF pgVars
  <2>2. PgTables' = PgTables
    BY <2>1 DEF PgTables
  <2>3. /\ \A f : Using(f)' = Using(f) /\ Waiting(f)' = Waiting(f)
        /\ Promised' = Promised
    BY <2>1 DEF Using, Waiting, Leaving, Entering, Promised
  <2>4. TabsOK(PgTables)' /\ PgTyped' /\ LocksExact' /\ RefsExact'
    BY <2>1, <2>2 DEF PgInv, PgTyped, LocksExact, RefsExact, Locks, Attached
  <2>5. UsesExact' /\ MemExact' /\ SwapExact'
    BY <2>1, <2>3 DEF PgInv, UsesExact, MemExact, SwapExact
  <2>6. /\ \A r \in Regions : RegOf(r)'
        /\ \A p \in PgProcs : ProcOf(p)'
        /\ \A d \in Daemons : DaemonOf(d)'
    BY <2>1 DEF PgInv, RegOf, ProcOf, DaemonOf, Leaving, Entering
  <2> QED
    BY <2>4, <2>5, <2>6 DEF PgInv
<1> QED
  BY <1>1, <1>2, <1>3, <1>4, <1>5, <1>6, <1>7, <1>8, <1>9, <1>10, <1>11, <1>12, <1>13, <1>14,
     <1>15, <1>16, <1>17, <1>18, <1>19, <1>20 DEF PgNext

\* What holds between two steps of the fault handlers, of getpages and of the operations on
\* regions: the tables, who has which region locked, and what those who sleep rely on when they
\* wake.
THEOREM PagingInvariant == LockedShm => (PgSpec => []PgInv)
<1> SUFFICES ASSUME LockedShm PROVE PgSpec => []PgInv
  OBVIOUS
<1>1. PgInit => PgInv
  BY PgInitHolds
<1>2. PgInv /\ [PgNext]_pgVars => PgInv'
  BY PgNextHolds
<1> QED
  BY <1>1, <1>2, PTL DEF PgSpec

\* pf_use of a frame counts the regions that have it, also while it is read or written, and the
\* processes that wait for it; the free queue holds exactly the frames nobody uses, and freemem
\* is what is on it but not promised: through every sleep of vfault, pfault and getpages.
THEOREM FramesCounted == LockedShm => (PgSpec => []FramesExact)
<1> SUFFICES ASSUME LockedShm PROVE PgSpec => []FramesExact
  OBVIOUS
<1>1. PgInv => FramesExact
  <2> SUFFICES ASSUME PgInv PROVE FramesExact
    OBVIOUS
  <2> PICK l, q : l = PgTables /\ q = freeq
    OBVIOUS
  <2>1. TabsOK(l) /\ l.fr = frame /\ l.q = q
    BY DEF PgInv, PgTables
  <2>2. \A f \in Frames : frame[f].use = Cardinality(Using(f)) + Cardinality(Waiting(f))
    BY DEF PgInv, UsesExact
  <2>3. \A f \in Frames : frame[f].use = 0 <=> InQ(q, f)
    BY <2>1 DEF TabsOK
  <2>4. Len(q) = Cardinality({f \in Frames : frame[f].use = 0})
    <3>1. q \in Seq(Frames) /\ \A i, j \in DOMAIN q : q[i] = q[j] => i = j
      BY <2>1 DEF TabsOK, Tables
    <3>2. \A i \in DOMAIN q : q[i] \in Frames
      BY <3>1
    <3>3. \A f : f \in {g \in Frames : frame[g].use = 0} <=> \E i \in DOMAIN q : q[i] = f
      BY <2>3, <3>2 DEF InQ
    <3> PICK T : T = {g \in Frames : frame[g].use = 0}
      OBVIOUS
    <3>4. \A f : f \in T <=> \E i \in DOMAIN q : q[i] = f
      BY <3>3
    <3>5. Len(q) = Cardinality(T)
      BY ONLY <3>1, <3>4, ListCounts
    <3> QED
      BY <3>5
  <2>5. freemem = Len(q) - Cardinality(Promised)
    BY DEF PgInv, MemExact
  <2> QED
    BY <2>2, <2>3, <2>4, <2>5 DEF FramesExact, Using, Waiting, InQ
<1> QED
  BY <1>1, PagingInvariant, PTL

\* st_ucnt of a page of swap is the number of regions that have it: swpinc, swalloc and swfree1
\* are called as often as fork, the stealing of pages and copies on write need.
THEOREM SwapCounted == LockedShm => (PgSpec => []SwapExact)
<1> SUFFICES ASSUME LockedShm PROVE PgSpec => []SwapExact
  OBVIOUS
<1>1. PgInv => SwapExact
  BY DEF PgInv
<1> QED
  BY <1>1, PagingInvariant, PTL

\* No block gets into two frames ("pinsert dup"), getpages finds the frame it removes
\* ("getpages - pbremove"), a page of a file is never freed as one of swap, and no fault of a
\* process on its own memory ends with a signal.
THEOREM NeverPanics == LockedShm => (PgSpec => []NoPanic)
<1> SUFFICES ASSUME LockedShm PROVE PgSpec => []NoPanic
  OBVIOUS
<1>1. PgInv => NoPanic
  BY DEF PgInv, TabsOK, Tables, PgTables, NoPanic
<1> QED
  BY <1>1, PagingInvariant, PTL
=============================================================================
