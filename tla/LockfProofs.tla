----------------------------- MODULE LockfProofs -----------------------------
(***************************************************************************)
(* Proofs about Lockf for any number of processes, files, records and      *)
(* bytes.                                                                  *)
(***************************************************************************)
EXTENDS Lockf, ListsAndLoops

-----------------------------------------------------------------------------
(* Lists that are put together of parts of others *)

\* One list behind another.
LEMMA JoinFacts ==
    ASSUME NEW S, NEW s \in Seq(S), NEW t \in Seq(S)
    PROVE  s \o t \in Seq(S) /\ ToSet(s \o t) = ToSet(s) \cup ToSet(t)
<1>1. s \o t \in Seq(S) /\ DOMAIN (s \o t) = 1 .. Len(s) + Len(t)
  BY ConcatProperties
<1>2. \A i \in DOMAIN s : i \in DOMAIN (s \o t) /\ (s \o t)[i] = s[i]
  BY <1>1, ConcatProperties
<1>3. ASSUME NEW i \in DOMAIN t
      PROVE  Len(s) + i \in DOMAIN (s \o t) /\ (s \o t)[Len(s) + i] = t[i]
  BY <1>1, ConcatProperties
<1>4. ToSet(s \o t) \subseteq ToSet(s) \cup ToSet(t)
  BY <1>1, ConcatProperties DEF ToSet
<1>5. ToSet(s) \subseteq ToSet(s \o t)
  BY <1>2 DEF ToSet
<1>6. ToSet(t) \subseteq ToSet(s \o t)
  BY <1>3 DEF ToSet
<1> QED
  BY <1>1, <1>4, <1>5, <1>6

\* A part of a list.
LEMMA PartFacts ==
    ASSUME NEW S, NEW l \in Seq(S), NEW a \in 1 .. Len(l) + 1, NEW b \in 0 .. Len(l)
    PROVE  /\ SubSeq(l, a, b) \in Seq(S)
           /\ ToSet(SubSeq(l, a, b)) = {l[i] : i \in a .. b}
           /\ Len(SubSeq(l, a, b)) = IF a <= b THEN b - a + 1 ELSE 0
           /\ \A i \in 1 .. b - a + 1 : SubSeq(l, a, b)[i] = l[a + i - 1]
<1>1. \A i \in a .. b : l[i] \in S
  BY ElementOfSeq
<1>2. /\ SubSeq(l, a, b) \in Seq(S)
      /\ Len(SubSeq(l, a, b)) = IF a <= b THEN b - a + 1 ELSE 0
      /\ \A i \in 1 .. b - a + 1 : SubSeq(l, a, b)[i] = l[a + i - 1]
  BY <1>1, SubSeqProperties
<1>3. DOMAIN SubSeq(l, a, b) = 1 .. b - a + 1
  BY <1>2
<1>4. ASSUME NEW i \in a .. b
      PROVE  i - a + 1 \in 1 .. b - a + 1 /\ SubSeq(l, a, b)[i - a + 1] = l[i]
  BY <1>2
<1>5. \A i \in 1 .. b - a + 1 : a + i - 1 \in a .. b
  OBVIOUS
<1>6. ToSet(SubSeq(l, a, b)) \subseteq {l[i] : i \in a .. b}
  BY <1>2, <1>3, <1>5 DEF ToSet
<1>7. {l[i] : i \in a .. b} \subseteq ToSet(SubSeq(l, a, b))
  BY <1>3, <1>4 DEF ToSet
<1> QED
  BY <1>2, <1>6, <1>7

\* from tells for every place of s of which of the k parts it comes, and where it was there;
\* the order is that of the parts.
ComesFrom(s, k, parts, from) ==
    /\ from \in [1 .. Len(s) -> (1 .. k) \X Nat]
    /\ \A i \in 1 .. Len(s) :
          /\ from[i][2] \in 1 .. Len(parts[from[i][1]])
          /\ s[i] = parts[from[i][1]][from[i][2]]
    /\ \A i, j \in 1 .. Len(s) : i < j =>
          \/ from[i][1] < from[j][1]
          \/ from[i][1] = from[j][1] /\ from[i][2] < from[j][2]

\* Lists put behind each other by FlattenSeq: what is in the list, where it is from, and
\* that it is in the order of the lists.
LEMMA FlattenFacts ==
    ASSUME NEW S, NEW n \in Nat, NEW parts \in [1 .. n -> Seq(S)]
    PROVE  /\ FlattenSeq(parts) \in Seq(S)
           /\ ToSet(FlattenSeq(parts)) = UNION {ToSet(parts[i]) : i \in 1 .. n}
           /\ \E from : ComesFrom(FlattenSeq(parts), n, parts, from)
<1> DEFINE Fix(g) == g = [i \in 1 .. Len(parts) |->
                             IF i = 1 THEN parts[i] ELSE g[i - 1] \o parts[i]]
           flatten == CHOOSE g : Fix(g)
           Comes(s, k, from) == ComesFrom(s, k, parts, from)
           Good(s, k) == /\ s \in Seq(S) /\ ToSet(s) = UNION {ToSet(parts[i]) : i \in 1 .. k}
                         /\ \E from : Comes(s, k, from)
<1>1. parts \in Seq(Seq(S)) /\ Len(parts) = n
  OBVIOUS
<1>2. CASE n = 0
  <2>1. FlattenSeq(parts) = parts /\ parts = << >>
    BY <1>1, <1>2 DEF FlattenSeq
  <2>2. FlattenSeq(parts) \in Seq(S) /\ Len(FlattenSeq(parts)) = 0 /\ ToSet(FlattenSeq(parts)) = {}
    BY <2>1 DEF ToSet
  <2>3. PICK from : from = [i \in 1 .. Len(FlattenSeq(parts)) |-> <<i, i>>]
    OBVIOUS
  <2>4. from \in [1 .. Len(FlattenSeq(parts)) -> (1 .. n) \X Nat]
    BY <2>2, <2>3
  <2> QED
    BY <1>2, <2>2, <2>4 DEF ComesFrom
<1>3. CASE n # 0
  <2>1. FlattenSeq(parts) = flatten[n]
    BY <1>1, <1>3 DEF FlattenSeq
  <2>2. Fix(flatten)
    <3>1. PICK step : step = [i \in 1 .. n |-> [s \in Seq(S) |-> s \o parts[i]]]
      OBVIOUS
    <3>2. step \in [1 .. n -> [Seq(S) -> Seq(S)]]
      BY <3>1, ConcatProperties
    <3>3. PICK r \in [0 .. n -> Seq(S)] :
              r[0] = << >> /\ \A i \in 1 .. n : r[i] = step[i][r[i - 1]]
      <4>1. << >> \in Seq(S)
        OBVIOUS
      <4>2. Runs(Seq(S), step, << >>, n)
        BY <3>2, <4>1, LoopRuns
      <4> QED
        BY <4>2 DEF Runs
    <3>4. ASSUME NEW i \in 1 .. n PROVE r[i] = r[i - 1] \o parts[i]
      <4>1. i - 1 \in 0 .. n
        OBVIOUS
      <4> QED
        BY <3>1, <3>3, <4>1
    <3>5. r[1] = parts[1]
      <4>1. 1 \in 1 .. n /\ r[1 - 1] = << >> /\ parts[1] \in Seq(S)
        BY <1>3, <3>3
      <4>2. r[1] = << >> \o parts[1]
        BY <3>4, <4>1
      <4> QED
        BY <4>1, <4>2, ConcatEmptySeq
    <3>6. PICK g : g = [i \in 1 .. n |-> r[i]]
      OBVIOUS
    <3>7. ASSUME NEW i \in 1 .. n
          PROVE  g[i] = IF i = 1 THEN parts[i] ELSE g[i - 1] \o parts[i]
      <4>1. i # 1 => i - 1 \in 1 .. n
        OBVIOUS
      <4> QED
        BY <3>4, <3>5, <3>6, <4>1
    <3>8. Fix(g)
      BY <1>1, <3>6, <3>7
    <3> HIDE DEF Fix
    <3> QED
      BY <3>8
  <2>3. flatten[1] = parts[1]
    <3> HIDE DEF flatten
    <3>1. 1 \in 1 .. Len(parts)
      BY <1>1, <1>3
    <3> QED
      BY <2>2, <3>1
  <2>4. ASSUME NEW i \in 2 .. n PROVE flatten[i] = flatten[i - 1] \o parts[i]
    <3> HIDE DEF flatten
    <3>1. i \in 1 .. Len(parts) /\ i # 1
      BY <1>1
    <3>2. flatten[i] = IF i = 1 THEN parts[i] ELSE flatten[i - 1] \o parts[i]
      BY <2>2, <3>1
    <3> QED
      BY <3>1, <3>2
  <2>5. Good(flatten[1], 1)
    <3>1. 1 \in 1 .. n /\ 1 .. 1 = {1}
      BY <1>3
    <3>2. PICK s : s = flatten[1]
      OBVIOUS
    <3> HIDE DEF flatten
    <3>3. s \in Seq(S) /\ s = parts[1]
      BY <2>3, <3>1, <3>2
    <3>4. PICK from : from = [i \in 1 .. Len(s) |-> <<1, i>>]
      OBVIOUS
    <3>5. Comes(s, 1, from)
      BY <3>1, <3>3, <3>4 DEF ComesFrom
    <3>6. ToSet(s) = UNION {ToSet(parts[i]) : i \in 1 .. 1}
      BY <3>1, <3>3
    <3> HIDE DEF Comes
    <3> QED
      BY <3>2, <3>3, <3>5, <3>6
  <2>6. ASSUME NEW i \in 2 .. n, Good(flatten[i - 1], i - 1) PROVE Good(flatten[i], i)
    <3>1. PICK s, t, from : s = flatten[i - 1] /\ t = parts[i] /\ Comes(s, i - 1, from)
      BY <2>6
    <3>2. /\ s \in Seq(S) /\ t \in Seq(S) /\ flatten[i] = s \o t
          /\ ToSet(s) = UNION {ToSet(parts[k]) : k \in 1 .. i - 1}
      <4> HIDE DEF Comes, flatten
      <4>1. parts[i] \in Seq(S)
        OBVIOUS
      <4>2. flatten[i] = flatten[i - 1] \o parts[i]
        BY Zenon, <2>4
      <4>3. /\ flatten[i - 1] \in Seq(S)
            /\ ToSet(flatten[i - 1]) = UNION {ToSet(parts[k]) : k \in 1 .. i - 1}
        BY <2>6
      <4> QED
        BY <3>1, <4>1, <4>2, <4>3
    <3>3. PICK u : u = s \o t
      OBVIOUS
    <3>4. /\ u \in Seq(S) /\ Len(u) = Len(s) + Len(t)
          /\ \A k \in 1 .. Len(u) : u[k] = IF k <= Len(s) THEN s[k] ELSE t[k - Len(s)]
      BY <3>2, <3>3, ConcatProperties
    <3>5. ToSet(u) = UNION {ToSet(parts[k]) : k \in 1 .. i}
      <4>1. ToSet(u) = ToSet(s) \cup ToSet(t)
        BY <3>2, <3>3, JoinFacts
      <4>2. ASSUME NEW x
            PROVE  x \in ToSet(u) <=> \E k \in 1 .. i : x \in ToSet(parts[k])
        <5>1. x \in ToSet(s) <=> \E k \in 1 .. i - 1 : x \in ToSet(parts[k])
          BY <3>2
        <5>2. \A k : k \in 1 .. i <=> k \in 1 .. i - 1 \/ k = i
          OBVIOUS
        <5> QED
          BY <3>1, <4>1, <5>1, <5>2
      <4> QED
        BY <4>2
    <3>6. PICK new : new = [k \in 1 .. Len(u) |->
                               IF k <= Len(s) THEN from[k] ELSE <<i, k - Len(s)>>]
      OBVIOUS
    <3>7. ASSUME NEW k \in 1 .. Len(s)
          PROVE  /\ from[k] \in (1 .. i - 1) \X Nat
                 /\ from[k][1] \in 1 .. i - 1 /\ from[k][2] \in Nat
                 /\ new[k] = from[k] /\ u[k] = s[k]
      <4>1. from[k] \in (1 .. i - 1) \X Nat
        BY <3>1 DEF ComesFrom
      <4>2. k \in 1 .. Len(u)
        BY <3>2, <3>4
      <4> QED
        BY <3>4, <3>6, <4>1, <4>2
    <3>8. ASSUME NEW k \in 1 .. Len(u), ~(k <= Len(s))
          PROVE  /\ k - Len(s) \in 1 .. Len(t)
                 /\ new[k][1] = i /\ new[k][2] = k - Len(s) /\ new[k] \in (1 .. i) \X Nat
                 /\ u[k] = t[k - Len(s)]
      BY <3>2, <3>4, <3>6, <3>8
    <3>9. ASSUME NEW k \in 1 .. Len(u)
          PROVE  /\ new[k] \in (1 .. i) \X Nat
                 /\ new[k][2] \in 1 .. Len(parts[new[k][1]])
                 /\ u[k] = parts[new[k][1]][new[k][2]]
      <4>1. CASE k <= Len(s)
        <5>1. k \in 1 .. Len(s)
          BY <3>2, <4>1
        <5>2. from[k] \in (1 .. i) \X Nat
          BY <3>7, <5>1
        <5>3. from[k][2] \in 1 .. Len(parts[from[k][1]]) /\ s[k] = parts[from[k][1]][from[k][2]]
          BY <3>1, <5>1 DEF ComesFrom
        <5> QED
          BY <3>7, <5>1, <5>2, <5>3
      <4>2. CASE ~(k <= Len(s))
        BY <3>1, <3>8, <4>2
      <4> QED
        BY <4>1, <4>2
    <3>10. ASSUME NEW k \in 1 .. Len(u), NEW m \in 1 .. Len(u), k < m
           PROVE  \/ new[k][1] < new[m][1]
                  \/ new[k][1] = new[m][1] /\ new[k][2] < new[m][2]
      <4>1. CASE m <= Len(s)
        <5>1. k \in 1 .. Len(s) /\ m \in 1 .. Len(s)
          BY <3>2, <3>10, <4>1
        <5>2. \/ from[k][1] < from[m][1]
              \/ from[k][1] = from[m][1] /\ from[k][2] < from[m][2]
          BY <3>1, <3>10, <5>1 DEF ComesFrom
        <5> QED
          BY <3>7, <5>1, <5>2
      <4>2. CASE ~(m <= Len(s)) /\ k <= Len(s)
        <5>1. k \in 1 .. Len(s)
          BY <3>2, <4>2
        <5>2. new[m][1] = i
          BY <3>8, <4>2
        <5>3. new[k][1] \in 1 .. i - 1
          BY <3>7, <5>1
        <5> QED
          BY <5>2, <5>3
      <4>3. CASE ~(m <= Len(s)) /\ ~(k <= Len(s))
        BY <3>2, <3>8, <3>10, <4>3
      <4> QED
        BY <4>1, <4>2, <4>3
    <3>11. Comes(u, i, new)
      <4>1. new \in [1 .. Len(u) -> (1 .. i) \X Nat]
        BY <3>6, <3>9
      <4> QED
        BY <3>9, <3>10, <4>1 DEF ComesFrom
    <3> HIDE DEF Comes, flatten
    <3> QED
      BY <3>2, <3>3, <3>4, <3>5, <3>11
  <2>7. Good(flatten[n], n)
    <3> HIDE DEF Good, flatten
    <3>1. PICK holds : holds = {i \in 0 .. n : i = 0 \/ Good(flatten[i], i)}
      OBVIOUS
    <3>2. 0 \in holds
      BY <3>1
    <3>3. ASSUME NEW i \in 1 .. n, i - 1 \in holds PROVE i \in holds
      <4>1. CASE i = 1
        BY <2>5, <3>1, <4>1
      <4>2. CASE i # 1
        <5>1. i \in 2 .. n /\ i - 1 # 0
          BY <4>2
        <5>2. Good(flatten[i - 1], i - 1)
          BY <3>1, <3>3, <5>1
        <5> QED
          BY <2>6, <3>1, <5>1, <5>2
      <4> QED
        BY <4>1, <4>2
    <3>4. 0 .. n \subseteq holds
      BY <3>2, <3>3, UpTo
    <3> QED
      BY <1>3, <3>1, <3>4
  <2>8. PICK s : s = FlattenSeq(parts)
    OBVIOUS
  <2>9. Good(s, n)
    <3> HIDE DEF Good, flatten
    <3> QED
      BY <2>1, <2>7, <2>8
  <2> QED
    BY <2>8, <2>9
<1> QED
  BY <1>2, <1>3

-----------------------------------------------------------------------------
(* No wakeup is lost *)

LockRecord == [id : 1 .. NFLOCKS - 1, proc : LkProcs, start : Int, end : Int, wait : BOOLEAN]

LkTypes ==
    /\ locklist \in [LkFiles -> Seq(LockRecord)]
    /\ lkWchan \in [LkProcs -> 1 .. NFLOCKS - 1 \cup {Unused}]
    /\ lkPc \in [LkProcs -> {"user", "asleep", "woken"}]
    /\ \A p \in LkProcs : lkPc[p] = "asleep" <=> lkWchan[p] # Unused
    /\ lkReq \in [LkProcs -> LockRequest \cup {Unused}]
    /\ \A p \in LkProcs : lkPc[p] # "user" => lkReq[p] \in LockRequest

Records(f) == ToSet(locklist[f])

\* A record has one owner, even if it is on two lists.
OneOwner == \A f, g \in LkFiles : \A x \in Records(f), y \in Records(g) :
                x.id = y.id => x.proc = y.proc

\* x is marked, and in the way of p, which sleeps for it.
HoldsUp(x, p) == /\ x.id = lkWchan[p] /\ x.wait /\ x.proc # p
                 /\ x.start < lkReq[p].end /\ lkReq[p].start < x.end

AsleepForOne == \A p \in LkProcs : lkPc[p] = "asleep" =>
                    \E x \in Records(lkReq[p].file) : HoldsUp(x, p)

\* p sleeps for a record of q.
WaitsFor(p, q) == /\ lkWchan[p] # Unused
                  /\ \E f \in LkFiles : \E x \in Records(f) : x.id = lkWchan[p] /\ x.proc = q

Circle(S) == S # {} /\ \A p \in S : \E q \in S : WaitsFor(p, q)
NoCircle == ~\E S \in SUBSET LkProcs : Circle(S)

LkInv == LkTypes /\ OneOwner /\ AsleepForOne /\ NoCircle

-----------------------------------------------------------------------------
LEMMA LkUnused == Unused \notin 0 .. NFLOCKS /\ Unused \notin LkProcs
BY UnusedAssumption

\* Where the records of a file are.
LEMMA RecordOf ==
    ASSUME LkTypes, NEW f \in LkFiles, NEW x \in Records(f)
    PROVE  x \in LockRecord
<1>1. locklist[f] \in Seq(LockRecord)
  BY DEF LkTypes
<1>2. PICK i \in DOMAIN locklist[f] : x = locklist[f][i]
  BY DEF Records, ToSet
<1> QED
  BY <1>1, <1>2, ElementOfSeq

\* Owner gives the process of the record.
LEMMA OwnerIs ==
    ASSUME LkTypes, OneOwner, NEW f \in LkFiles, NEW x \in Records(f)
    PROVE  Owner(x.id) = x.proc /\ x.proc \in LkProcs
<1>1. x.proc \in LkProcs
  BY RecordOf DEF LockRecord
<1>2. \A p \in LkProcs :
          (\E g \in LkFiles : \E y \in ToSet(locklist[g]) : y.id = x.id /\ y.proc = p) <=> p = x.proc
  BY <1>1 DEF OneOwner, Records
<1>3. Owner(x.id) = CHOOSE p \in LkProcs : p = x.proc
  BY <1>2 DEF Owner
<1> QED
  BY <1>1, <1>3

\* A new record is on no list.
LEMMA LockallocFacts ==
    ASSUME LkTypes
    PROVE  /\ Lockalloc \in 0 .. NFLOCKS - 1
           /\ Lockalloc # 0 => \A f \in LkFiles : \A x \in Records(f) : x.id # Lockalloc
<1> DEFINE free == 1 .. NFLOCKS - 1 \ {x.id : x \in UNION {ToSet(locklist[f]) : f \in LkFiles}}
<1>1. NFLOCKS \in Nat /\ NFLOCKS # 0
  BY LockfAssumption
<1>2. CASE free = {}
  BY <1>1, <1>2 DEF Lockalloc
<1>3. CASE free # {}
  <2>1. PICK T \in SUBSET Nat : T = free /\ T # {}
    <3>1. free \in SUBSET Nat
      BY <1>1
    <3> HIDE DEF free
    <3> QED
      BY <1>3, <3>1
  <2>2. PICK m \in T : \A k \in T : m <= k
    BY <2>1, LeastOfNats
  <2>3. Min(T) \in T
    BY <2>2 DEF Min
  <2>4. Lockalloc \in free
    BY <1>3, <2>1, <2>3 DEF Lockalloc
  <2> QED
    BY <2>4 DEF Records
<1> QED
  BY <1>2, <1>3

\* What a call may do to a list: the marked records of old are in the new list, no smaller
\* and still marked, or whoever sleeps for them is woken; and the records of the new list
\* are old ones, or the one that p has got for it.
Follows(old, new, W, p) ==
    /\ \A x \in ToSet(old) : x.wait =>
          \/ x.id \in W
          \/ \E y \in ToSet(new) : /\ y.wait /\ y.id = x.id /\ y.proc = x.proc
                                   /\ y.start <= x.start /\ x.end <= y.end
    /\ \A y \in ToSet(new) :
          \/ y.id = Lockalloc /\ y.proc = p
          \/ \E x \in ToSet(old) : x.id = y.id /\ x.proc = y.proc

\* A call that changes a list in this way and wakes the processes that sleep for W keeps
\* the invariant.
LEMMA ReturnKeeps ==
    ASSUME LkInv, NEW p \in LkProcs, lkPc[p] # "asleep", NEW r, r.file \in LkFiles,
           NEW l \in Seq(LockRecord), NEW W, NEW res,
           Follows(locklist[r.file], l, W, p), LkReturn(p, r, res, l, W)
    PROVE  LkInv'
<1> DEFINE up == {q \in LkProcs \ {p} : lkPc[q] = "asleep" /\ lkWchan[q] \in W}
<1>1. /\ locklist' = [locklist EXCEPT ![r.file] = l]
      /\ lkPc' = [q \in LkProcs |-> IF q = p THEN "user" ELSE IF q \in up THEN "woken" ELSE lkPc[q]]
      /\ lkWchan' = [q \in LkProcs |-> IF q \in up THEN Unused ELSE lkWchan[q]]
      /\ lkReq' = [lkReq EXCEPT ![p] = Unused]
  BY DEF LkReturn
<1>2. LkTypes /\ OneOwner /\ AsleepForOne /\ NoCircle
  BY DEF LkInv
<1>3. lkWchan[p] = Unused
  BY <1>2 DEF LkTypes
<1>4. \A f \in LkFiles : locklist'[f] = IF f = r.file THEN l ELSE locklist[f]
  BY <1>1, <1>2 DEF LkTypes
<1>5. \A q \in LkProcs : lkWchan'[q] # Unused =>
          q # p /\ q \notin up /\ lkWchan'[q] = lkWchan[q] /\ lkReq'[q] = lkReq[q]
  BY <1>1, <1>2, <1>3 DEF LkTypes
<1>6. LkTypes'
  <2>1. locklist' \in [LkFiles -> Seq(LockRecord)]
    BY <1>1, <1>2 DEF LkTypes
  <2>2. lkWchan' \in [LkProcs -> 1 .. NFLOCKS - 1 \cup {Unused}]
    BY <1>1, <1>2 DEF LkTypes
  <2>3. lkPc' \in [LkProcs -> {"user", "asleep", "woken"}]
    BY <1>1, <1>2 DEF LkTypes
  <2>4. lkReq' \in [LkProcs -> LockRequest \cup {Unused}]
    BY <1>1, <1>2 DEF LkTypes
  <2>5. ASSUME NEW q \in LkProcs PROVE lkPc'[q] = "asleep" <=> lkWchan'[q] # Unused
    BY <1>1, <1>2, <1>3 DEF LkTypes
  <2>6. ASSUME NEW q \in LkProcs, lkPc'[q] # "user" PROVE lkReq'[q] \in LockRequest
    BY <1>1, <1>2, <2>6 DEF LkTypes
  <2> QED
    BY <2>1, <2>2, <2>3, <2>4, <2>5, <2>6 DEF LkTypes
<1>7. ASSUME NEW f \in LkFiles, NEW y \in Records(f)'
      PROVE  \/ y.id = Lockalloc /\ Lockalloc # 0 /\ y.proc = p
             \/ \E g \in LkFiles : \E x \in Records(g) : x.id = y.id /\ x.proc = y.proc
  <2>1. y \in ToSet(locklist'[f])
    BY DEF Records
  <2>2. CASE f = r.file
    <3>1. y \in ToSet(l)
      BY <1>4, <2>1, <2>2
    <3>2. y.id \in 1 .. NFLOCKS - 1
      <4>1. PICK i \in DOMAIN l : y = l[i]
        BY <3>1 DEF ToSet
      <4>2. y \in LockRecord
        BY <4>1, ElementOfSeq
      <4> QED
        BY <4>2 DEF LockRecord
    <3> QED
      BY <3>1, <3>2 DEF Follows, Records
  <2>3. CASE f # r.file
    BY <1>4, <2>1, <2>3 DEF Records
  <2> QED
    BY <2>2, <2>3
<1>8. OneOwner'
  <2>1. ASSUME NEW f \in LkFiles, NEW g \in LkFiles, NEW x \in Records(f)', NEW y \in Records(g)',
               x.id = y.id
        PROVE  x.proc = y.proc
    <3>1. Lockalloc # 0 => \A h \in LkFiles : \A z \in Records(h) : z.id # Lockalloc
      BY <1>2, LockallocFacts
    <3> QED
      BY <1>2, <1>7, <2>1, <3>1 DEF OneOwner
  <2> QED
    BY <2>1 DEF OneOwner
\* Who goes on sleeping does so for the same record, which has the same owner.
<1>9. ASSUME NEW q \in LkProcs, lkWchan'[q] # Unused, NEW f, f = lkReq'[q].file
      PROVE  /\ f \in LkFiles /\ lkWchan[q] = lkWchan'[q]
             /\ \E x \in Records(f), y \in Records(f)' :
                   x.id = y.id /\ x.proc = y.proc /\ HoldsUp(y, q)'
  <2>1. /\ q # p /\ q \notin up /\ lkPc[q] = "asleep" /\ lkWchan'[q] = lkWchan[q]
        /\ lkReq'[q] = lkReq[q] /\ lkReq[q] \in LockRequest /\ f = lkReq[q].file /\ f \in LkFiles
    <3>1. q # p /\ q \notin up /\ lkWchan'[q] = lkWchan[q] /\ lkReq'[q] = lkReq[q]
      BY <1>5, <1>9
    <3>2. lkPc[q] = "asleep" /\ lkReq[q] \in LockRequest
      BY <1>2, <1>9, <3>1 DEF LkTypes
    <3> QED
      BY <1>9, <3>1, <3>2 DEF LockRequest
  <2>2. PICK x \in Records(f) : HoldsUp(x, q)
    BY <1>2, <2>1 DEF AsleepForOne
  <2>3. x.id \notin W
    BY <2>1, <2>2 DEF HoldsUp
  <2>4. x \in LockRecord
    BY <1>2, <2>1, RecordOf
  <2>5. PICK y \in ToSet(locklist'[f]) :
            y.wait /\ y.id = x.id /\ y.proc = x.proc /\ y.start <= x.start /\ x.end <= y.end
    <3>1. CASE f = r.file
      <4>1. x \in ToSet(locklist[r.file]) /\ x.wait
        BY <2>2, <3>1 DEF Records, HoldsUp
      <4>2. \E y \in ToSet(l) : /\ y.wait /\ y.id = x.id /\ y.proc = x.proc
                                /\ y.start <= x.start /\ x.end <= y.end
        BY <2>3, <4>1 DEF Follows
      <4> QED
        BY <1>4, <2>1, <3>1, <4>2
    <3>2. CASE f # r.file
      <4>1. x \in ToSet(locklist'[f]) /\ x.wait
        BY <1>4, <2>1, <2>2, <3>2 DEF Records, HoldsUp
      <4>2. x.start <= x.start /\ x.end <= x.end
        BY <2>4 DEF LockRecord
      <4> QED
        BY <4>1, <4>2
    <3> QED
      BY <3>1, <3>2
  <2>6. y \in LockRecord
    <3>1. PICK s : s = locklist'[f]
      OBVIOUS
    <3>2. s \in Seq(LockRecord)
      BY <1>6, <2>1, <3>1 DEF LkTypes
    <3>3. PICK i \in DOMAIN s : y = s[i]
      BY <2>5, <3>1 DEF ToSet
    <3> QED
      BY <3>2, <3>3, ElementOfSeq
  <2>7. HoldsUp(y, q)'
    <3>1. y.start < lkReq[q].end /\ lkReq[q].start < y.end
      BY <2>1, <2>2, <2>4, <2>5, <2>6 DEF HoldsUp, LockRecord, LockRequest
    <3>2. y.id = lkWchan[q] /\ y.wait /\ y.proc # q
      BY <2>2, <2>5 DEF HoldsUp
    <3> QED
      BY <2>1, <3>1, <3>2 DEF HoldsUp
  <2>8. y \in Records(f)'
    BY <2>5 DEF Records
  <2> QED
    BY <2>1, <2>5, <2>7, <2>8
<1>10. AsleepForOne'
  <2>1. ASSUME NEW q \in LkProcs, lkPc'[q] = "asleep", NEW f, f = lkReq'[q].file
        PROVE  \E y \in Records(f)' : HoldsUp(y, q)'
    <3>1. lkWchan'[q] # Unused
      BY <1>6, <2>1 DEF LkTypes
    <3> QED
      BY <1>9, <2>1, <3>1
  <2> QED
    BY <2>1 DEF AsleepForOne, Records
<1>11. NoCircle'
  <2>1. ASSUME NEW S \in SUBSET LkProcs, Circle(S)' PROVE Circle(S)
    <3>1. ASSUME NEW q \in S, NEW s \in S, WaitsFor(q, s)' PROVE WaitsFor(q, s)
      <4>1. PICK f : f = lkReq'[q].file
        OBVIOUS
      <4>2. lkWchan'[q] # Unused /\ q \in LkProcs
        BY <3>1 DEF WaitsFor
      <4>3. f \in LkFiles /\ lkWchan[q] = lkWchan'[q]
        BY <1>9, <4>1, <4>2
      <4>4. PICK x \in Records(f), y \in Records(f)' :
                x.id = y.id /\ x.proc = y.proc /\ HoldsUp(y, q)'
        BY <1>9, <4>1, <4>2
      <4>5. y.id = lkWchan'[q]
        BY <4>4 DEF HoldsUp
      <4>6. y.proc = s
        BY <1>8, <3>1, <4>3, <4>4, <4>5 DEF WaitsFor, OneOwner
      <4> QED
        BY <4>2, <4>3, <4>4, <4>5, <4>6 DEF WaitsFor
    <3> QED
      BY <2>1, <3>1 DEF Circle
  <2> QED
    BY <1>2, <2>1 DEF NoCircle
<1> QED
  BY <1>6, <1>8, <1>10, <1>11 DEF LkInv

-----------------------------------------------------------------------------
(* The list operations *)

\* A record as lockadd makes it: with id 0, if there is none.
NewRecord == [id : 0 .. NFLOCKS - 1, proc : LkProcs, start : Int, end : Int, wait : BOOLEAN]

\* Max gives the greatest element of a set that is bounded and not empty.
LEMMA MaxFacts ==
    ASSUME NEW a \in Int, NEW b \in Int, NEW T \in SUBSET (a .. b), T # {}
    PROVE  Max(T) \in T /\ \A y \in T : y <= Max(T)
<1>1. PICK U : U = {b - y : y \in T}
  OBVIOUS
<1>2. U \in SUBSET Nat /\ U # {}
  <2>1. ASSUME NEW y \in T PROVE b - y \in Nat
    <3>1. y \in a .. b
      OBVIOUS
    <3> QED
      BY <3>1
  <2> QED
    BY <1>1, <2>1
<1>3. PICK u \in U : \A v \in U : u <= v
  BY <1>2, LeastOfNats
<1>4. PICK x \in T : u = b - x
  BY <1>1, <1>3
<1>5. ASSUME NEW y \in T PROVE x >= y
  <2>1. b - y \in U
    BY <1>1
  <2>2. u <= b - y /\ x \in Int /\ y \in Int
    BY <1>3, <2>1
  <2> QED
    BY <1>4, <2>2
<1>6. Max(T) \in T /\ \A y \in T : Max(T) >= y
  BY <1>5 DEF Max
<1>7. \A y \in T : y \in Int
  OBVIOUS
<1>8. Max(T) \in Int
  BY <1>6, <1>7
<1> QED
  BY <1>6, <1>7, <1>8

\* Max of two numbers.
LEMMA MaxOfTwo ==
    ASSUME NEW a \in Int, NEW b \in Int
    PROVE  Max({a, b}) = IF a >= b THEN a ELSE b
<1>1. \E x \in {a, b} : \A y \in {a, b} : x >= y
  OBVIOUS
<1>2. Max({a, b}) \in {a, b} /\ \A y \in {a, b} : Max({a, b}) >= y
  BY <1>1 DEF Max
<1> QED
  BY <1>2

\* A list of records none of which is missing.
LEMMA AllGot ==
    ASSUME NEW l \in Seq(NewRecord), ~NoRecord(l)
    PROVE  l \in Seq(LockRecord)
<1>1. ASSUME NEW i \in 1 .. Len(l) PROVE l[i] \in LockRecord
  <2>1. l[i] \in NewRecord /\ l[i] \in ToSet(l)
    BY DEF ToSet
  <2>2. l[i].id # 0
    BY <2>1 DEF NoRecord
  <2>3. NFLOCKS \in Nat
    BY LockfAssumption
  <2>4. l[i].id \in 1 .. NFLOCKS - 1
    BY <2>1, <2>2, <2>3 DEF NewRecord
  <2> QED
    BY <2>1, <2>4 DEF NewRecord, LockRecord
<1> QED
  BY <1>1, SeqDef

LEMMA SectionFacts ==
    ASSUME LkTypes, NEW p \in LkProcs, NEW s \in Int, NEW e \in Int
    PROVE  /\ Section(p, s, e) \in NewRecord
           /\ Section(p, s, e).id = Lockalloc /\ Section(p, s, e).proc = p
           /\ Section(p, s, e).start = s /\ Section(p, s, e).end = e
           /\ ~Section(p, s, e).wait
<1>1. Lockalloc \in 0 .. NFLOCKS - 1
  BY LockallocFacts
<1> QED
  BY <1>1 DEF Section, NewRecord

LEMMA OldIsNew == LockRecord \subseteq NewRecord /\ Seq(LockRecord) \subseteq Seq(NewRecord)
<1>1. LockRecord \subseteq NewRecord
  BY LockfAssumption DEF LockRecord, NewRecord
<1> QED
  BY <1>1, SeqMonotonic

\* y is x, or x grown.
Grown(x, y) == /\ y.id = x.id /\ y.proc = x.proc /\ y.wait = x.wait
               /\ y.start <= x.start /\ x.end <= y.end

\* What Absorb does: the records behind place k up to m are gone, and k reaches as far as m.
Absorbed(l, k, m, z, new) ==
    /\ m \in k .. Len(l)
    /\ \A j \in k + 1 .. m : l[j].proc = l[k].proc /\ l[j].start <= l[k].end
    /\ m < Len(l) => \/ l[m + 1].proc # l[k].proc \/ l[k].end < l[m + 1].start
                     \/ m > k /\ l[k].end <= l[m].end
    /\ z = [l[k] EXCEPT !.end = IF l[k].end >= l[m].end THEN l[k].end ELSE l[m].end]
    /\ new.gone = {l[j] : j \in k + 1 .. m}
    /\ new.l \in Seq(NewRecord) /\ Len(new.l) = Len(l) - (m - k)
    /\ \A i \in 1 .. k - 1 : new.l[i] = l[i]
    /\ new.l[k] = z
    /\ \A i \in k + 1 .. Len(l) - (m - k) : new.l[i] = l[i + (m - k)]

LEMMA AbsorbIs ==
    ASSUME NEW l \in Seq(NewRecord), NEW k \in 1 .. Len(l)
    PROVE  \E m, z : z \in NewRecord /\ Absorbed(l, k, m, z, Absorb(l, k))
<1> DEFINE Ok(j) == /\ l[j].proc = l[k].proc /\ l[j].start <= l[k].end
                    /\ j > k + 1 => l[j - 1].end < l[k].end
           next == {m \in k .. Len(l) : \A j \in k + 1 .. m : Ok(j)}
<1>1. PICK n \in Nat : n = Len(l) /\ k \in 1 .. n
  OBVIOUS
<1>2. \A i \in 1 .. n : l[i] \in NewRecord /\ l[i].start \in Int /\ l[i].end \in Int
  <2>1. \A i \in 1 .. n : l[i] \in NewRecord
    BY <1>1, ElementOfSeq
  <2> QED
    BY <2>1 DEF NewRecord
<1>3. PICK m : m = Max(next)
  OBVIOUS
<1>4. m \in next /\ \A i \in next : i <= m
  <2>1. k \in next /\ next \in SUBSET (k .. n)
    BY <1>1
  <2> HIDE DEF next
  <2> QED
    <3>1. k \in Int /\ n \in Int /\ next # {}
      BY <1>1, <2>1
    <3>2. Max(next) \in next /\ \A y \in next : y <= Max(next)
      BY <2>1, <3>1, MaxFacts
    <3> QED
      BY <1>3, <3>2
<1>5. m \in k .. n /\ \A j \in k + 1 .. m : Ok(j)
  BY <1>1, <1>4
<1>6. ASSUME m < n PROVE ~Ok(m + 1)
  <2>1. m + 1 \in k .. n /\ ~(m + 1 <= m)
    BY <1>5, <1>6
  <2>2. m + 1 \notin next
    BY <1>4, <2>1
  <2>3. \E j \in k + 1 .. m + 1 : ~Ok(j)
    BY <1>1, <2>1, <2>2
  <2>4. \A j \in k + 1 .. m + 1 : j \in k + 1 .. m \/ j = m + 1
    BY <1>1, <1>5
  <2> HIDE DEF Ok
  <2> QED
    BY <1>5, <2>3, <2>4
<1>7. PICK z : z = [l[k] EXCEPT !.end = IF l[k].end >= l[m].end THEN l[k].end ELSE l[m].end]
  OBVIOUS
<1>8. z \in NewRecord
  <2>1. m \in 1 .. n
    BY <1>1, <1>5
  <2>2. PICK e \in Int : e = IF l[k].end >= l[m].end THEN l[k].end ELSE l[m].end
    BY <1>1, <1>2, <2>1
  <2>3. l[k] \in NewRecord /\ z = [l[k] EXCEPT !.end = e]
    BY <1>1, <1>2, <1>7, <2>2
  <2> QED
    BY <2>3 DEF NewRecord
<1>9. PICK A, C : A = SubSeq(l, 1, k - 1) /\ C = SubSeq(l, m + 1, n)
  OBVIOUS
<1>10. Absorb(l, k) = [l |-> A \o <<z>> \o C, gone |-> {l[j] : j \in k + 1 .. m}]
  <2>1. Max({l[k].end, l[m].end}) = IF l[k].end >= l[m].end THEN l[k].end ELSE l[m].end
    <3>1. m \in 1 .. n
      BY <1>1, <1>5
    <3>2. l[k].end \in Int /\ l[m].end \in Int
      BY <1>1, <1>2, <3>1
    <3> QED
      BY <3>2, MaxOfTwo
  <2>2. [l[k] EXCEPT !.end = Max({l[k].end, l[m].end})] = z
    BY <1>7, <2>1
  <2> QED
    BY <1>1, <1>3, <1>9, <2>2 DEF Absorb
<1>11. /\ A \in Seq(NewRecord) /\ Len(A) = k - 1 /\ \A i \in 1 .. k - 1 : A[i] = l[i]
  <2>1. 1 \in 1 .. Len(l) + 1 /\ k - 1 \in 0 .. Len(l)
    OBVIOUS
  <2> QED
    BY <1>9, <2>1, PartFacts
<1>12. C \in Seq(NewRecord) /\ Len(C) = n - m /\ \A i \in 1 .. n - m : C[i] = l[m + i]
  <2>1. m + 1 \in 1 .. Len(l) + 1 /\ n \in 0 .. Len(l)
    BY <1>1, <1>5
  <2>2. /\ C \in Seq(NewRecord) /\ Len(C) = (IF m + 1 <= n THEN n - (m + 1) + 1 ELSE 0)
        /\ \A i \in 1 .. n - (m + 1) + 1 : C[i] = l[m + 1 + i - 1]
    BY <1>1, <1>9, <2>1, PartFacts
  <2> QED
    BY <1>5, <2>2
<1>13. PICK B : B = A \o <<z>>
  OBVIOUS
<1>14. B \in Seq(NewRecord) /\ Len(B) = k /\ (\A i \in 1 .. k - 1 : B[i] = l[i]) /\ B[k] = z
  <2>1. <<z>> \in Seq(NewRecord) /\ Len(<<z>>) = 1 /\ <<z>>[1] = z
    BY <1>8
  <2>2. /\ B \in Seq(NewRecord) /\ Len(B) = k
        /\ \A i \in 1 .. k : B[i] = IF i <= k - 1 THEN A[i] ELSE <<z>>[i - (k - 1)]
    BY <1>11, <1>13, <2>1, ConcatProperties
  <2> QED
    BY <1>1, <1>11, <2>1, <2>2
<1>15. PICK new : new = B \o C
  OBVIOUS
<1>16. /\ new \in Seq(NewRecord) /\ Len(new) = k + (n - m)
       /\ \A i \in 1 .. k + (n - m) : new[i] = IF i <= k THEN B[i] ELSE C[i - k]
  <2>1. /\ B \o C \in Seq(NewRecord) /\ Len(B \o C) = Len(B) + Len(C)
        /\ \A i \in 1 .. Len(B) + Len(C) : (B \o C)[i] = IF i <= Len(B) THEN B[i] ELSE C[i - Len(B)]
    BY <1>12, <1>14, ConcatProperties
  <2>2. Len(B) = k /\ Len(C) = n - m
    BY <1>12, <1>14
  <2> QED
    BY <1>15, <2>1, <2>2
<1>17. Absorb(l, k).l = new /\ Absorb(l, k).gone = {l[j] : j \in k + 1 .. m}
  BY <1>10, <1>13, <1>15
<1>18. ASSUME NEW i \in k + 1 .. n - (m - k) PROVE new[i] = l[i + (m - k)]
  <2>1. i - k \in 1 .. n - m /\ i \in 1 .. k + (n - m) /\ ~(i <= k) /\ m + (i - k) = i + (m - k)
    BY <1>1, <1>5
  <2> QED
    BY <1>12, <1>16, <2>1
<1>19. (\A i \in 1 .. k - 1 : new[i] = l[i]) /\ new[k] = z /\ Len(new) = n - (m - k)
  <2>1. n \in Nat /\ k \in 1 .. n /\ m \in k .. n
    BY <1>1, <1>5
  <2>2. \A i \in 1 .. k : i \in 1 .. k + (n - m) /\ i <= k
    BY <2>1
  <2>3. \A i \in 1 .. k : new[i] = B[i]
    BY <1>16, <2>2
  <2>4. k \in 1 .. k /\ \A i \in 1 .. k - 1 : i \in 1 .. k
    BY <2>1
  <2> QED
    BY <1>14, <1>16, <2>1, <2>3, <2>4
<1>20. m < n => \/ l[m + 1].proc # l[k].proc \/ l[k].end < l[m + 1].start
                \/ m > k /\ l[k].end <= l[m].end
  <2>1. ASSUME m < n PROVE /\ m + 1 \in 1 .. n /\ m \in 1 .. n /\ m + 1 - 1 = m
    BY <1>1, <1>5, <2>1
  <2> QED
    BY <1>1, <1>2, <1>5, <1>6, <2>1
<1> HIDE DEF next
<1> QED
  BY <1>1, <1>5, <1>7, <1>8, <1>16, <1>17, <1>18, <1>19, <1>20 DEF Absorbed

\* The records of the old list are in the new one, grown, or gone; those of the new one are
\* old, or the one that p has got for it.
Grows(old, new, gone, p) ==
    /\ \A x \in ToSet(old) : \E y \in ToSet(new) \cup gone : Grown(x, y)
    /\ \A y \in ToSet(new) :
          \/ y.id = Lockalloc /\ y.proc = p
          \/ \E x \in ToSet(old) : x.id = y.id /\ x.proc = y.proc

LEMMA SeqHas ==
    ASSUME NEW S, NEW l \in Seq(S), NEW x \in ToSet(l)
    PROVE  x \in S
<1>1. PICK i \in DOMAIN l : x = l[i]
  BY DEF ToSet
<1> QED
  BY <1>1, ElementOfSeq

LEMMA GrowsOn ==
    ASSUME NEW p, NEW a \in Seq(NewRecord), NEW b \in Seq(NewRecord), NEW c, NEW gone,
           Grows(a, b, {}, p), Grows(b, c, gone, p),
           \A y \in ToSet(c) \cup gone : y \in NewRecord
    PROVE  Grows(a, c, gone, p)
<1>1. ASSUME NEW x \in ToSet(a) PROVE \E y \in ToSet(c) \cup gone : Grown(x, y)
  <2>1. PICK y \in ToSet(b) : Grown(x, y)
    BY DEF Grows
  <2>2. PICK z \in ToSet(c) \cup gone : Grown(y, z)
    BY DEF Grows
  <2>3. x \in NewRecord /\ y \in NewRecord /\ z \in NewRecord
    BY SeqHas
  <2>4. /\ x.start \in Int /\ y.start \in Int /\ z.start \in Int
        /\ x.end \in Int /\ y.end \in Int /\ z.end \in Int
    BY <2>3 DEF NewRecord
  <2>5. Grown(x, z)
    BY <2>1, <2>2, <2>4 DEF Grown
  <2> QED
    BY <2>5
<1>2. ASSUME NEW z \in ToSet(c)
      PROVE  \/ z.id = Lockalloc /\ z.proc = p
             \/ \E x \in ToSet(a) : x.id = z.id /\ x.proc = z.proc
  BY DEF Grows
<1> QED
  BY <1>1, <1>2 DEF Grows

\* A list in which every record is as it was, or grown.
LEMMA GrowsInPlace ==
    ASSUME NEW p, NEW a \in Seq(NewRecord), NEW b \in Seq(NewRecord), Len(a) = Len(b),
           \A i \in 1 .. Len(a) : Grown(a[i], b[i])
    PROVE  Grows(a, b, {}, p)
<1>1. \A i \in DOMAIN a : i \in DOMAIN b /\ a[i] \in ToSet(a) /\ b[i] \in ToSet(b)
  BY DEF ToSet
<1>2. \A x \in ToSet(a) : \E y \in ToSet(b) : Grown(x, y)
  BY <1>1 DEF ToSet
<1>3. \A y \in ToSet(b) : \E x \in ToSet(a) : Grown(x, y)
  <2>1. DOMAIN a = DOMAIN b /\ DOMAIN a = 1 .. Len(a)
    OBVIOUS
  <2> QED
    BY <1>1, <2>1 DEF ToSet
<1> QED
  BY <1>2, <1>3 DEF Grows, Grown

LEMMA GrownSelf ==
    ASSUME NEW x \in NewRecord
    PROVE  Grown(x, x)
BY DEF Grown, NewRecord

LEMMA AbsorbGrows ==
    ASSUME NEW p, NEW l \in Seq(NewRecord), NEW k \in 1 .. Len(l)
    PROVE  /\ Absorb(l, k).l \in Seq(NewRecord)
           /\ Absorb(l, k).gone \subseteq NewRecord
           /\ Grows(l, Absorb(l, k).l, Absorb(l, k).gone, p)
<1>1. PICK m, z : z \in NewRecord /\ Absorbed(l, k, m, z, Absorb(l, k))
  BY AbsorbIs
<1>2. PICK n, new, gone :
          n \in Nat /\ n = Len(l) /\ new = Absorb(l, k).l /\ gone = Absorb(l, k).gone
  OBVIOUS
<1>3. \A i \in 1 .. n : l[i] \in NewRecord /\ l[i] \in ToSet(l) /\ Grown(l[i], l[i])
  <2>1. \A i \in 1 .. n : l[i] \in NewRecord /\ l[i] \in ToSet(l)
    BY <1>2, ElementOfSeq DEF ToSet
  <2> QED
    BY <2>1, GrownSelf
<1>4. n \in Nat /\ k \in 1 .. n /\ m \in k .. n
  BY <1>1, <1>2 DEF Absorbed
<1>5. new \in Seq(NewRecord) /\ Len(new) = n - (m - k) /\ gone = {l[j] : j \in k + 1 .. m}
  BY <1>1, <1>2 DEF Absorbed
<1>6. /\ \A i \in 1 .. k - 1 : new[i] = l[i]
      /\ new[k] = z
      /\ \A i \in k + 1 .. n - (m - k) : new[i] = l[i + (m - k)]
  BY <1>1, <1>2 DEF Absorbed
<1>7. Grown(l[k], z)
  <2>1. l[k] \in NewRecord /\ l[m] \in NewRecord
    BY <1>3, <1>4
  <2>2. PICK e : e = IF l[k].end >= l[m].end THEN l[k].end ELSE l[m].end
    OBVIOUS
  <2>3. z = [l[k] EXCEPT !.end = e]
    BY <1>1, <2>2 DEF Absorbed
  <2>4. e \in Int /\ l[k].end <= e
    BY <2>1, <2>2, SMTT(60), ZenonT(60) DEF NewRecord
  <2> QED
    BY <2>1, <2>3, <2>4 DEF Grown, NewRecord
<1>8. gone \subseteq NewRecord
  <2>1. \A j \in k + 1 .. m : j \in 1 .. n
    BY <1>4
  <2> QED
    BY <1>3, <1>5, <2>1
<1>9. \A i \in 1 .. n - (m - k) : i \in DOMAIN new /\ new[i] \in ToSet(new)
  BY <1>5 DEF ToSet
<1>10. ASSUME NEW i \in 1 .. n PROVE \E y \in ToSet(new) \cup gone : Grown(l[i], y)
  <2>1. CASE i < k
    <3>1. i \in 1 .. k - 1 /\ i \in 1 .. n - (m - k)
      BY <1>4, <2>1
    <3> QED
      BY <1>3, <1>6, <1>9, <3>1
  <2>2. CASE i = k
    <3>1. k \in 1 .. n - (m - k)
      BY <1>4
    <3> QED
      BY <1>6, <1>7, <1>9, <2>2, <3>1
  <2>3. CASE k < i /\ i <= m
    <3>1. i \in k + 1 .. m
      BY <1>4, <2>3
    <3> QED
      BY <1>3, <1>5, <3>1
  <2>4. CASE m < i
    <3>1. /\ i - (m - k) \in k + 1 .. n - (m - k) /\ i - (m - k) \in 1 .. n - (m - k)
          /\ i - (m - k) + (m - k) = i
      BY <1>4, <2>4
    <3>2. new[i - (m - k)] = l[i]
      BY <1>6, <3>1
    <3> QED
      BY <1>3, <1>9, <3>1, <3>2
  <2> QED
    BY <1>4, <2>1, <2>2, <2>3, <2>4
<1>11. ASSUME NEW i \in 1 .. n - (m - k)
       PROVE  \E x \in ToSet(l) : x.id = new[i].id /\ x.proc = new[i].proc
  <2>1. CASE i < k
    <3>1. i \in 1 .. k - 1 /\ i \in 1 .. n
      BY <1>4, <2>1
    <3> QED
      BY <1>3, <1>6, <3>1
  <2>2. CASE i = k
    BY <1>3, <1>4, <1>6, <1>7, <2>2 DEF Grown
  <2>3. CASE k < i
    <3>1. i \in k + 1 .. n - (m - k) /\ i + (m - k) \in 1 .. n
      BY <1>4, <2>3
    <3> QED
      BY <1>3, <1>6, <3>1
  <2> QED
    BY <1>4, <2>1, <2>2, <2>3
<1>12. Grows(l, new, gone, p)
  <2>1. ASSUME NEW x \in ToSet(l) PROVE \E y \in ToSet(new) \cup gone : Grown(x, y)
    <3>1. PICK i \in 1 .. n : x = l[i]
      BY <1>2 DEF ToSet
    <3> QED
      BY <1>10, <3>1
  <2>2. ASSUME NEW y \in ToSet(new) PROVE \E x \in ToSet(l) : x.id = y.id /\ x.proc = y.proc
    <3>1. PICK i \in 1 .. n - (m - k) : y = new[i]
      BY <1>5 DEF ToSet
    <3> QED
      BY <1>11, <3>1
  <2> QED
    BY <2>1, <2>2 DEF Grows
<1> QED
  BY <1>2, <1>5, <1>8, <1>12

-----------------------------------------------------------------------------
\* The list that starts with s, if it is p's.
Start(l, s) == [l EXCEPT ![1].start = IF s < @ THEN s ELSE @]

AddFirst(l, p, e) == l = <<>> \/ e < l[1].start \/ (e = l[1].start /\ l[1].proc # p)

\* What Add does otherwise, with k the record behind which the section goes and l1 the list
\* with its new start.
AddBehind(l1, p, s, e, k, a) ==
    /\ \A j \in 2 .. k : l1[j].start < s
    /\ k < Len(l1) => s <= l1[k + 1].start
    /\ \/ k < Len(l1) /\ e <= l1[k].end /\ a = Kept(l1)
       \/ /\ l1[k].proc = p /\ s <= l1[k].end
          /\ a = Absorb([l1 EXCEPT ![k].end = IF @ >= e THEN @ ELSE e], k)
       \/ /\ l1[k].proc # p \/ l1[k].end < s
          /\ k < Len(l1) => l1[k].end < e
          /\ a = Absorb(InsertAt(l1, k + 1, Section(p, s, e)), k + 1)

LEMMA AddIs ==
    ASSUME NEW l \in Seq(NewRecord), NEW p, NEW s \in Int, NEW e \in Int
    PROVE  \/ AddFirst(l, p, e) /\ Add(l, p, s, e) = Kept(<<Section(p, s, e)>> \o l)
           \/ /\ ~AddFirst(l, p, e) /\ 1 \in 1 .. Len(l)
              /\ Start(l, s) \in Seq(NewRecord) /\ Len(Start(l, s)) = Len(l)
              /\ \E k \in 1 .. Len(l) : AddBehind(Start(l, s), p, s, e, k, Add(l, p, s, e))
<1>1. CASE AddFirst(l, p, e)
  BY <1>1 DEF Add, AddFirst
<1>2. CASE ~AddFirst(l, p, e)
  <2>1. PICK n \in Nat : n = Len(l) /\ 1 \in 1 .. n
    <3>1. Len(l) \in Nat /\ Len(l) # 0
      BY <1>2, EmptySeq DEF AddFirst
    <3> QED
      BY <3>1
  <2>2. PICK l1 : l1 = Start(l, s)
    OBVIOUS
  <2>3. l1 \in Seq(NewRecord) /\ Len(l1) = n
    <3>1. l[1] \in NewRecord
      BY <2>1, ElementOfSeq
    <3>2. PICK x : x = [l[1] EXCEPT !.start = IF s < l[1].start THEN s ELSE l[1].start]
      OBVIOUS
    <3>3. x \in NewRecord
      <4>1. PICK b \in Int : b = IF s < l[1].start THEN s ELSE l[1].start
        BY <3>1 DEF NewRecord
      <4>2. x = [l[1] EXCEPT !.start = b]
        BY <3>2, <4>1
      <4> QED
        BY <3>1, <4>2 DEF NewRecord
    <3>4. l1 = [l EXCEPT ![1] = x]
      BY <2>1, <2>2, <3>2 DEF Start
    <3> QED
      BY <2>1, <3>3, <3>4, ExceptSeq
  <2>4. \A i \in 1 .. n : l1[i] \in NewRecord /\ l1[i].start \in Int /\ l1[i].end \in Int
    <3>1. \A i \in 1 .. n : l1[i] \in NewRecord
      BY <2>3, ElementOfSeq
    <3> QED
      BY <3>1 DEF NewRecord
  <2>5. PICK k : k = Before(l1, s)
    OBVIOUS
  <2>6. k \in 1 .. n /\ (\A j \in 2 .. k : l1[j].start < s) /\ (k < n => s <= l1[k + 1].start)
    <3>1. PICK T : T = {1} \cup {i \in DOMAIN l1 : \A j \in 2 .. i : l1[j].start < s}
      OBVIOUS
    <3>2. DOMAIN l1 = 1 .. n /\ n \in Int
      BY <2>3
    <3>3. T \in SUBSET (1 .. n) /\ T # {} /\ k = Max(T)
      BY <2>1, <2>5, <3>1, <3>2 DEF Before
    <3>4. k \in T /\ \A i \in T : i <= k
      <4>1. \A a, b \in Int : T \in SUBSET (a .. b) => Max(T) \in T /\ \A i \in T : i <= Max(T)
        BY <3>3, MaxFacts
      <4>2. 1 \in Int /\ n \in Int
        BY <3>2
      <4> QED
        BY <3>3, <4>1, <4>2
    <3>5. k \in 1 .. n
      BY <3>3, <3>4
    <3>6. \A j \in 2 .. k : l1[j].start < s
      BY <3>1, <3>4
    <3>7. ASSUME k < n PROVE s <= l1[k + 1].start
      <4>1. k + 1 \in 1 .. n /\ ~(k + 1 <= k)
        BY <3>5, <3>7
      <4>2. \E j \in 2 .. k + 1 : ~(l1[j].start < s)
        BY <3>1, <3>2, <3>4, <4>1
      <4>3. \A j \in 2 .. k + 1 : j \in 2 .. k \/ j = k + 1
        BY <3>5
      <4> QED
        BY <2>4, <3>6, <4>1, <4>2, <4>3
    <3> QED
      BY <3>5, <3>6, <3>7
  <2>7. Add(l, p, s, e) =
            IF k < Len(l1) /\ e <= l1[k].end THEN Kept(l1)
            ELSE IF l1[k].proc = p /\ s <= l1[k].end
              THEN Absorb([l1 EXCEPT ![k].end = Max({@, e})], k)
              ELSE Absorb(InsertAt(l1, k + 1, Section(p, s, e)), k + 1)
    BY <1>2, <2>2, <2>5 DEF Add, AddFirst, Start
  <2>8. [l1 EXCEPT ![k].end = Max({@, e})] = [l1 EXCEPT ![k].end = IF @ >= e THEN @ ELSE e]
    <3>1. Max({l1[k].end, e}) = IF l1[k].end >= e THEN l1[k].end ELSE e
      BY <2>4, <2>6, MaxOfTwo
    <3> QED
      BY <3>1
  <2>9. /\ ~(e <= l1[k].end) => l1[k].end < e
        /\ ~(s <= l1[k].end) => l1[k].end < s
    BY <2>4, <2>6
  <2>10. \/ k < n /\ e <= l1[k].end /\ Add(l, p, s, e) = Kept(l1)
         \/ /\ l1[k].proc = p /\ s <= l1[k].end
            /\ Add(l, p, s, e) = Absorb([l1 EXCEPT ![k].end = IF @ >= e THEN @ ELSE e], k)
         \/ /\ l1[k].proc # p \/ l1[k].end < s
            /\ k < n => l1[k].end < e
            /\ Add(l, p, s, e) = Absorb(InsertAt(l1, k + 1, Section(p, s, e)), k + 1)
    BY <2>3, <2>7, <2>8, <2>9
  <2> QED
    BY <1>2, <2>1, <2>2, <2>3, <2>6, <2>10 DEF AddBehind
<1> QED
  BY <1>1, <1>2

LEMMA GrowsFollows ==
    ASSUME NEW p, NEW old, NEW new, NEW gone, Grows(old, new, gone, p)
    PROVE  Follows(old, new, Waited(gone), p)
<1>1. ASSUME NEW x \in ToSet(old), x.wait
      PROVE  \/ x.id \in Waited(gone)
             \/ \E y \in ToSet(new) : /\ y.wait /\ y.id = x.id /\ y.proc = x.proc
                                      /\ y.start <= x.start /\ x.end <= y.end
  <2>1. PICK y \in ToSet(new) \cup gone : Grown(x, y)
    BY DEF Grows
  <2>2. y.wait /\ y.id = x.id
    BY <1>1, <2>1 DEF Grown
  <2>3. y \in gone => x.id \in Waited(gone)
    BY <2>2 DEF Waited
  <2> QED
    BY <2>1, <2>2, <2>3 DEF Grown
<1> QED
  BY <1>1 DEF Grows, Follows

LEMMA AddFollows ==
    ASSUME LkTypes, NEW p \in LkProcs, NEW l \in Seq(LockRecord), NEW s \in Int, NEW e \in Int,
           NEW a, a = Add(l, p, s, e)
    PROVE  a.l \in Seq(NewRecord) /\ Follows(l, a.l, Waited(a.gone), p)
<1>1. l \in Seq(NewRecord)
  BY OldIsNew
<1>2. PICK x \in NewRecord : x = Section(p, s, e) /\ x.id = Lockalloc /\ x.proc = p
  BY SectionFacts
<1>3. \A i \in 1 .. Len(l) : l[i] \in NewRecord /\ Grown(l[i], l[i])
  <2>1. \A i \in 1 .. Len(l) : l[i] \in NewRecord
    BY <1>1, ElementOfSeq
  <2> QED
    BY <2>1, GrownSelf
<1>4. CASE AddFirst(l, p, e) /\ a = Kept(<<x>> \o l)
  <2>1. a.l = <<x>> \o l /\ a.gone = {}
    BY <1>4 DEF Kept
  <2>2. <<x>> \in Seq(NewRecord) /\ ToSet(<<x>>) = {x}
    BY DEF ToSet
  <2>3. a.l \in Seq(NewRecord) /\ ToSet(a.l) = {x} \cup ToSet(l)
    <3>1. PICK one \in Seq(NewRecord) : one = <<x>> /\ ToSet(one) = {x}
      BY <2>2
    <3>2. one \o l \in Seq(NewRecord) /\ ToSet(one \o l) = ToSet(one) \cup ToSet(l)
      BY <1>1, JoinFacts
    <3> QED
      BY <2>1, <3>1, <3>2
  <2>4. \A y \in ToSet(l) : Grown(y, y)
    BY <1>3 DEF ToSet
  <2>5. Grows(l, a.l, a.gone, p)
    BY <1>2, <2>3, <2>4 DEF Grows
  <2> QED
    BY <2>3, <2>5, GrowsFollows
<1>5. ASSUME 1 \in 1 .. Len(l), NEW l1 \in Seq(NewRecord), l1 = Start(l, s), Len(l1) = Len(l)
      PROVE  Grows(l, l1, {}, p)
  <2>1. l[1] \in NewRecord
    BY <1>3, <1>5
  <2>2. \A i \in 1 .. Len(l) : l1[i] = IF i = 1 THEN [l[1] EXCEPT !.start = IF s < l[1].start THEN s ELSE l[1].start]
                                      ELSE l[i]
    BY <1>5 DEF Start
  <2>3. Grown(l[1], [l[1] EXCEPT !.start = IF s < l[1].start THEN s ELSE l[1].start])
    <3>1. PICK b \in Int : b = (IF s < l[1].start THEN s ELSE l[1].start) /\ b <= l[1].start
      <4>1. PICK c \in Int : c = l[1].start
        BY <2>1 DEF NewRecord
      <4> QED
        BY <4>1
    <3>2. Grown(l[1], [l[1] EXCEPT !.start = b])
      BY <2>1, <3>1 DEF Grown, NewRecord
    <3> QED
      BY <3>1, <3>2
  <2>4. \A i \in 1 .. Len(l) : Grown(l[i], l1[i])
    BY <1>3, <2>2, <2>3
  <2> QED
    BY <1>1, <1>5, <2>4, GrowsInPlace
<1>6. ASSUME NEW l1 \in Seq(NewRecord), NEW k \in 1 .. Len(l1), NEW l2,
             l2 = [l1 EXCEPT ![k].end = IF @ >= e THEN @ ELSE e]
      PROVE  l2 \in Seq(NewRecord) /\ Len(l2) = Len(l1) /\ Grows(l1, l2, {}, p)
  <2>1. \A i \in 1 .. Len(l1) : l1[i] \in NewRecord /\ Grown(l1[i], l1[i])
    <3>1. \A i \in 1 .. Len(l1) : l1[i] \in NewRecord
      BY ElementOfSeq
    <3> QED
      BY <3>1, GrownSelf
  <2>2. PICK b \in Int : b = (IF l1[k].end >= e THEN l1[k].end ELSE e) /\ l1[k].end <= b
    <3>1. PICK c \in Int : c = l1[k].end
      BY <2>1 DEF NewRecord
    <3> QED
      BY <3>1
  <2>3. PICK y : y = [l1[k] EXCEPT !.end = b]
    OBVIOUS
  <2>4. y \in NewRecord /\ Grown(l1[k], y)
    BY <2>1, <2>2, <2>3 DEF Grown, NewRecord
  <2>5. l2 = [l1 EXCEPT ![k] = y]
    BY <1>6, <2>2, <2>3
  <2>6. l2 \in Seq(NewRecord) /\ Len(l2) = Len(l1)
    BY <2>4, <2>5, ExceptSeq
  <2>7. \A i \in 1 .. Len(l1) : Grown(l1[i], l2[i])
    BY <2>1, <2>4, <2>5
  <2> QED
    BY <2>6, <2>7, GrowsInPlace
<1>7. ASSUME NEW l1 \in Seq(NewRecord), NEW k \in 1 .. Len(l1), NEW l2, l2 = InsertAt(l1, k + 1, x)
      PROVE  l2 \in Seq(NewRecord) /\ Len(l2) = Len(l1) + 1 /\ Grows(l1, l2, {}, p)
  <2>1. k + 1 \in 1 .. Len(l1) + 1
    OBVIOUS
  <2>2. /\ l2 \in Seq(NewRecord) /\ Len(l2) = Len(l1) + 1
        /\ \A j \in 1 .. Len(l1) + 1 :
              l2[j] = IF j < k + 1 THEN l1[j] ELSE IF j = k + 1 THEN x ELSE l1[j - 1]
    BY <1>7, <2>1, InsertFacts, SMTT(30), ZenonT(30)
  <2>3. \A j \in 1 .. Len(l1) : l1[j] \in ToSet(l1) /\ Grown(l1[j], l1[j])
    <3>1. \A i \in 1 .. Len(l1) : l1[i] \in NewRecord /\ l1[i] \in ToSet(l1)
      BY ElementOfSeq DEF ToSet
    <3> QED
      BY <3>1, GrownSelf
  <2>4. \A j \in 1 .. Len(l1) + 1 : l2[j] \in ToSet(l2)
    <3>1. DOMAIN l2 = 1 .. Len(l1) + 1
      BY <2>2
    <3> QED
      BY <3>1 DEF ToSet
  <2>5. ASSUME NEW j \in 1 .. Len(l1) PROVE \E y \in ToSet(l2) : Grown(l1[j], y)
    <3>1. CASE j < k + 1
      <4>1. j \in 1 .. Len(l1) + 1
        OBVIOUS
      <4>2. l2[j] = l1[j]
        BY <2>2, <3>1, <4>1
      <4> QED
        BY <2>3, <2>4, <4>1, <4>2
    <3>2. CASE ~(j < k + 1)
      <4>1. j + 1 \in 1 .. Len(l1) + 1 /\ ~(j + 1 < k + 1) /\ j + 1 # k + 1 /\ j + 1 - 1 = j
        BY <3>2
      <4>2. l2[j + 1] = l1[j]
        BY <2>2, <4>1
      <4> QED
        BY <2>3, <2>4, <4>1, <4>2
    <3> QED
      BY <3>1, <3>2
  <2>6. ASSUME NEW j \in 1 .. Len(l1) + 1
        PROVE  l2[j] = x \/ l2[j] \in ToSet(l1)
    <3>1. j < k + 1 => j \in 1 .. Len(l1)
      OBVIOUS
    <3>2. ~(j < k + 1) /\ j # k + 1 => j - 1 \in 1 .. Len(l1)
      OBVIOUS
    <3> QED
      BY <2>2, <2>3, <3>1, <3>2
  <2>7. \A y \in ToSet(l1) : \E z \in ToSet(l2) \cup {} : Grown(y, z)
    BY <2>5 DEF ToSet
  <2>8. \A z \in ToSet(l2) : z = x \/ z \in ToSet(l1)
    BY <2>2, <2>6 DEF ToSet
  <2> QED
    BY <1>2, <2>2, <2>7, <2>8 DEF Grows
<1>8. CASE ~(AddFirst(l, p, e) /\ a = Kept(<<x>> \o l))
  <2>1. PICK l1 : l1 = Start(l, s)
    OBVIOUS
  <2>2. /\ l1 \in Seq(NewRecord) /\ Len(l1) = Len(l) /\ 1 \in 1 .. Len(l)
        /\ \E k \in 1 .. Len(l) : AddBehind(l1, p, s, e, k, a)
    BY <1>1, <1>2, <1>8, <2>1, AddIs
  <2>3. l1 \in Seq(NewRecord) /\ Len(l1) = Len(l) /\ 1 \in 1 .. Len(l)
    BY <2>2
  <2>10. PICK k \in 1 .. Len(l) :
            \/ a = Kept(l1)
            \/ a = Absorb([l1 EXCEPT ![k].end = IF @ >= e THEN @ ELSE e], k)
            \/ a = Absorb(InsertAt(l1, k + 1, x), k + 1)
    BY <1>2, <2>2 DEF AddBehind
  <2>4. Grows(l, l1, {}, p)
    BY <1>5, <2>1, <2>3
  <2>5. ASSUME NEW l2 \in Seq(NewRecord), NEW i \in 1 .. Len(l2), Grows(l1, l2, {}, p), a = Absorb(l2, i)
        PROVE  a.l \in Seq(NewRecord) /\ Follows(l, a.l, Waited(a.gone), p)
    <3>1. a.l \in Seq(NewRecord) /\ a.gone \subseteq NewRecord /\ Grows(l2, a.l, a.gone, p)
      BY <2>5, AbsorbGrows
    <3>2. \A y \in ToSet(a.l) \cup a.gone : y \in NewRecord
      BY <3>1, SeqHas
    <3>3. Grows(l1, a.l, a.gone, p)
      BY <2>3, <2>5, <3>1, <3>2, GrowsOn
    <3>4. Grows(l, a.l, a.gone, p)
      BY <1>1, <2>3, <2>4, <3>2, <3>3, GrowsOn
    <3> QED
      BY <3>1, <3>4, GrowsFollows
  <2>6. CASE a = Kept(l1)
    <3>1. a.l = l1 /\ a.gone = {}
      BY <2>6 DEF Kept
    <3> QED
      BY <2>3, <2>4, <3>1, GrowsFollows
  <2>7. CASE a = Absorb([l1 EXCEPT ![k].end = IF @ >= e THEN @ ELSE e], k)
    <3>1. PICK l2 : l2 = [l1 EXCEPT ![k].end = IF @ >= e THEN @ ELSE e]
      OBVIOUS
    <3>2. l2 \in Seq(NewRecord) /\ Len(l2) = Len(l1) /\ Grows(l1, l2, {}, p)
      BY <1>6, <2>3, <3>1
    <3> QED
      BY <2>3, <2>5, <2>7, <3>1, <3>2
  <2>8. CASE a = Absorb(InsertAt(l1, k + 1, x), k + 1)
    <3>1. PICK l2 : l2 = InsertAt(l1, k + 1, x)
      OBVIOUS
    <3>2. l2 \in Seq(NewRecord) /\ Len(l2) = Len(l1) + 1 /\ Grows(l1, l2, {}, p)
      BY <1>7, <2>3, <3>1
    <3>3. k + 1 \in 1 .. Len(l2)
      BY <2>3, <3>2
    <3> QED
      BY <2>5, <2>8, <3>1, <3>2, <3>3
  <2> QED
    BY <2>10, <2>6, <2>7, <2>8
<1> QED
  BY <1>4, <1>8

-----------------------------------------------------------------------------
LEMMA TwoRecords ==
    ASSUME NEW S, NEW x \in S, NEW y \in S
    PROVE  /\ <<x, y>> \in Seq(S) /\ ToSet(<<x, y>>) = {x, y}
<1>1. <<x, y>> \in Seq(S) /\ ToSet(<<x, y>>) = {x, y}
  <2>1. PICK l \in Seq(S) : l = <<x, y>>
    <3>1. <<x, y>> \in Seq(S)
      OBVIOUS
    <3> QED
      BY <3>1
  <2>2. DOMAIN l = {1, 2} /\ l[1] = x /\ l[2] = y
    BY <2>1
  <2>3. ToSet(l) = {x, y}
    BY <2>2 DEF ToSet
  <2> QED
    BY <2>1, <2>3
<1> QED
  BY <1>1 DEF ToSet

\* What is left of a record, by the four cases.
LEMMA RestFacts ==
    ASSUME LkTypes, NEW x \in NewRecord, NEW s \in Int, NEW e \in Int, NEW rest, rest = Rest(x, s, e)
    PROVE  /\ rest \in Seq(NewRecord)
           /\ \A y \in ToSet(rest) : y.proc = x.proc /\ (y.id = x.id \/ y.id = Lockalloc)
<1>1. PICK left, right, new : /\ left = [x EXCEPT !.end = s, !.wait = FALSE]
                              /\ right = [x EXCEPT !.start = e, !.wait = FALSE]
                              /\ new = Section(x.proc, e, x.end)
  OBVIOUS
<1>2. /\ left \in NewRecord /\ left.id = x.id /\ left.proc = x.proc
      /\ right \in NewRecord /\ right.id = x.id /\ right.proc = x.proc
  BY <1>1 DEF NewRecord
<1>3. new \in NewRecord /\ new.id = Lockalloc /\ new.proc = x.proc
  <2>1. x.proc \in LkProcs /\ x.end \in Int
    BY DEF NewRecord
  <2> QED
    BY <1>1, <2>1, SectionFacts
<1>4. rest = <<left, new>> \/ rest = <<left>> \/ rest = <<right>> \/ rest = <<>>
  <2>1. /\ x.start < s \/ s <= x.start
        /\ e < x.end \/ x.end <= e
    BY DEF NewRecord
  <2> QED
    BY <1>1, <2>1 DEF Rest
<1>5. ASSUME NEW l, l \in Seq(NewRecord), ToSet(l) \subseteq {left, right, new}, rest = l
      PROVE  /\ rest \in Seq(NewRecord)
             /\ \A y \in ToSet(rest) : y.proc = x.proc /\ (y.id = x.id \/ y.id = Lockalloc)
  BY <1>2, <1>3, <1>5
<1>6. CASE rest = <<left, new>>
  <2>1. <<left, new>> \in Seq(NewRecord) /\ ToSet(<<left, new>>) = {left, new}
    <3>1. PICK a \in NewRecord, b \in NewRecord : a = left /\ b = new
      BY <1>2, <1>3
    <3>2. <<a, b>> \in Seq(NewRecord) /\ ToSet(<<a, b>>) = {a, b}
      <4>1. <<a, b>> \in Seq(NewRecord)
        OBVIOUS
      <4>2. ToSet(<<a, b>>) = {a, b}
        BY TwoRecords
      <4> QED
        BY <4>1, <4>2
    <3> QED
      BY <3>1, <3>2
  <2> QED
    BY <1>5, <1>6, <2>1
<1>7. CASE rest = <<left>>
  <2>1. <<left>> \in Seq(NewRecord) /\ ToSet(<<left>>) = {left}
    BY <1>2 DEF ToSet
  <2> QED
    BY <1>5, <1>7, <2>1
<1>8. CASE rest = <<right>>
  <2>1. <<right>> \in Seq(NewRecord) /\ ToSet(<<right>>) = {right}
    BY <1>2 DEF ToSet
  <2> QED
    BY <1>5, <1>8, <2>1
<1>9. CASE rest = <<>>
  <2>1. <<>> \in Seq(NewRecord) /\ ToSet(<<>>) = {}
    BY DEF ToSet
  <2> QED
    BY <1>5, <1>9, <2>1
<1> QED
  BY <1>4, <1>6, <1>7, <1>8, <1>9

\* The parts of which Ulock makes the new list.
UlockPart(l, p, s, e, i) == IF i \in Touched(l, p, s, e) THEN Rest(l[i], s, e) ELSE <<l[i]>>

LEMMA UlockFollows ==
    ASSUME LkTypes, NEW p \in LkProcs, NEW l \in Seq(LockRecord), NEW s \in Int, NEW e \in Int,
           NEW W, W = Waited({l[i] : i \in Touched(l, p, s, e)})
    PROVE  /\ Ulock(l, p, s, e) \in Seq(NewRecord)
           /\ Follows(l, Ulock(l, p, s, e), W, p)
<1>1. l \in Seq(NewRecord) /\ Len(l) \in Nat
  BY OldIsNew
<1>2. \A i \in 1 .. Len(l) : l[i] \in NewRecord /\ l[i] \in ToSet(l)
  BY <1>1, ElementOfSeq DEF ToSet
<1>3. PICK parts : parts = [i \in 1 .. Len(l) |-> UlockPart(l, p, s, e, i)]
  OBVIOUS
<1>4. Ulock(l, p, s, e) = FlattenSeq(parts)
  BY <1>3, SMTT(30), ZenonT(30) DEF Ulock, UlockPart
<1>5. ASSUME NEW i \in 1 .. Len(l)
      PROVE  /\ parts[i] \in Seq(NewRecord)
             /\ i \notin Touched(l, p, s, e) => ToSet(parts[i]) = {l[i]}
             /\ \A y \in ToSet(parts[i]) : \/ y.id = l[i].id /\ y.proc = l[i].proc
                                           \/ y.id = Lockalloc /\ y.proc = p
  <2>1. CASE i \in Touched(l, p, s, e)
    <3>1. l[i].proc = p
      BY <2>1 DEF Touched, Overlaps
    <3>2. parts[i] = Rest(l[i], s, e)
      BY <1>3, <2>1 DEF UlockPart
    <3> QED
      BY <1>2, <2>1, <3>1, <3>2, RestFacts
  <2>2. CASE i \notin Touched(l, p, s, e)
    <3>1. parts[i] = <<l[i]>>
      BY <1>3, <2>2 DEF UlockPart
    <3> QED
      BY <1>2, <3>1 DEF ToSet
  <2> QED
    BY <2>1, <2>2
<1>6. parts \in [1 .. Len(l) -> Seq(NewRecord)]
  BY <1>3, <1>5
<1>7. PICK new : new = FlattenSeq(parts)
  OBVIOUS
<1>8. new \in Seq(NewRecord) /\ ToSet(new) = UNION {ToSet(parts[i]) : i \in 1 .. Len(l)}
  BY <1>1, <1>6, <1>7, FlattenFacts
<1>9. ASSUME NEW x \in ToSet(l), x.wait, x.id \notin W
      PROVE  x \in ToSet(new) /\ x.start <= x.start /\ x.end <= x.end
  <2>1. PICK i \in 1 .. Len(l) : x = l[i]
    BY DEF ToSet
  <2>2. i \notin Touched(l, p, s, e)
    BY <1>9, <2>1 DEF Waited
  <2>3. x \in ToSet(new)
    BY <1>5, <1>8, <2>1, <2>2
  <2>4. x \in NewRecord
    BY <1>2, <2>1
  <2> QED
    BY <2>3, <2>4 DEF NewRecord
<1>10. \A y \in ToSet(new) : \/ y.id = Lockalloc /\ y.proc = p
                             \/ \E x \in ToSet(l) : x.id = y.id /\ x.proc = y.proc
  BY <1>2, <1>5, <1>8
<1>11. Follows(l, new, W, p)
  BY <1>9, <1>10 DEF Follows
<1> QED
  BY <1>4, <1>7, <1>8, <1>11

\* The list of a call that got no record: the wakeups are done, nothing else.
LEMMA WokenFollows ==
    ASSUME NEW p, NEW l \in Seq(LockRecord), NEW W,
           NEW new, new = [i \in DOMAIN l |-> [l[i] EXCEPT !.wait = @ /\ l[i].id \notin W]]
    PROVE  new \in Seq(LockRecord) /\ Follows(l, new, W, p)
<1>1. \A i \in 1 .. Len(l) : l[i] \in LockRecord
  BY ElementOfSeq
<1>2. PICK n \in Nat : n = Len(l) /\ DOMAIN l = 1 .. n
  OBVIOUS
<1>3. ASSUME NEW i \in 1 .. n
      PROVE  /\ new[i] \in LockRecord /\ new[i].id = l[i].id /\ new[i].proc = l[i].proc
             /\ new[i].start = l[i].start /\ new[i].end = l[i].end
             /\ new[i].wait = (l[i].wait /\ l[i].id \notin W)
  <2>1. PICK w \in BOOLEAN : w = (l[i].wait /\ l[i].id \notin W)
    OBVIOUS
  <2>2. new[i] = [l[i] EXCEPT !.wait = w]
    BY <1>2, <2>1
  <2>3. l[i] \in LockRecord
    BY <1>1, <1>2
  <2>4. /\ new[i] \in LockRecord /\ new[i].id = l[i].id /\ new[i].proc = l[i].proc
        /\ new[i].start = l[i].start /\ new[i].end = l[i].end /\ new[i].wait = w
    <3>1. PICK x \in LockRecord : x = l[i]
      BY <2>3
    <3>2. PICK y : y = [x EXCEPT !.wait = w]
      OBVIOUS
    <3>3. /\ y = [id |-> x.id, proc |-> x.proc, start |-> x.start, end |-> x.end, wait |-> w]
          /\ x.id \in 1 .. NFLOCKS - 1 /\ x.proc \in LkProcs /\ x.start \in Int /\ x.end \in Int
      BY <3>2 DEF LockRecord
    <3>4. y \in LockRecord
      BY <3>3 DEF LockRecord
    <3> QED
      BY <2>2, <3>1, <3>2, <3>3, <3>4
  <2> QED
    BY <2>1, <2>4
<1>4. new \in [1 .. n -> LockRecord]
  BY <1>2, <1>3
<1>5. new \in Seq(LockRecord) /\ \A i \in 1 .. n : new[i] \in ToSet(new) /\ l[i] \in ToSet(l)
  BY <1>2, <1>4, SeqDef DEF ToSet
<1>6. ASSUME NEW x \in ToSet(l), x.wait, x.id \notin W
      PROVE  \E y \in ToSet(new) : /\ y.wait /\ y.id = x.id /\ y.proc = x.proc
                                   /\ y.start <= x.start /\ x.end <= y.end
  <2>1. PICK i \in 1 .. n : x = l[i]
    BY <1>2 DEF ToSet
  <2>2. new[i].wait
    BY <1>3, <1>6, <2>1
  <2>3. new[i].start = x.start /\ new[i].end = x.end /\ x \in LockRecord
    BY <1>1, <1>2, <1>3, <2>1
  <2>4. new[i].start <= x.start /\ x.end <= new[i].end
    BY <2>3 DEF LockRecord
  <2>5. new[i] \in ToSet(new) /\ new[i].id = x.id /\ new[i].proc = x.proc
    BY <1>3, <1>5, <2>1
  <2> QED
    BY <2>2, <2>4, <2>5
<1>7. ASSUME NEW y \in ToSet(new) PROVE \E x \in ToSet(l) : x.id = y.id /\ x.proc = y.proc
  <2>1. PICK i \in 1 .. n : y = new[i]
    BY <1>4 DEF ToSet
  <2> QED
    BY <1>3, <1>5, <2>1
<1> QED
  BY <1>5, <1>6, <1>7 DEF Follows

\* The list without the records of p.
LEMMA OthersFacts ==
    ASSUME NEW S, NEW l \in Seq(S), NEW p
    PROVE  Others(l, p) \in Seq(S) /\ ToSet(Others(l, p)) = {x \in ToSet(l) : x.proc # p}
<1>1. PICK parts : parts = [i \in 1 .. Len(l) |-> IF l[i].proc = p THEN <<>> ELSE <<l[i]>>]
  OBVIOUS
<1>2. \A i \in 1 .. Len(l) : l[i] \in S /\ l[i] \in ToSet(l)
  BY ElementOfSeq DEF ToSet
<1>3. ASSUME NEW i \in 1 .. Len(l)
      PROVE  parts[i] \in Seq(S) /\ ToSet(parts[i]) = IF l[i].proc = p THEN {} ELSE {l[i]}
  BY <1>1, <1>2 DEF ToSet
<1>4. parts \in [1 .. Len(l) -> Seq(S)] /\ Len(l) \in Nat /\ Others(l, p) = FlattenSeq(parts)
  BY <1>1, <1>3 DEF Others
<1> DEFINE new == Others(l, p)
<1>5. new \in Seq(S) /\ ToSet(new) = UNION {ToSet(parts[i]) : i \in 1 .. Len(l)}
  BY <1>4, FlattenFacts
<1> HIDE DEF new
<1>6. ASSUME NEW x PROVE x \in ToSet(new) <=> x \in ToSet(l) /\ x.proc # p
  <2>1. x \in ToSet(new) <=> \E i \in 1 .. Len(l) : x \in ToSet(parts[i])
    BY <1>5
  <2>2. \A i \in 1 .. Len(l) : x \in ToSet(parts[i]) <=> l[i].proc # p /\ x = l[i]
    BY <1>3
  <2>3. x \in ToSet(l) <=> \E i \in 1 .. Len(l) : x = l[i]
    BY DEF ToSet
  <2> QED
    BY <2>1, <2>2, <2>3
<1> QED
  BY <1>5, <1>6 DEF new

LEMMA OthersFollow ==
    ASSUME NEW p, NEW l \in Seq(LockRecord), NEW W, W = Waited({x \in ToSet(l) : x.proc = p}), NEW new,
           ToSet(new) = {x \in ToSet(l) : x.proc # p}
    PROVE  Follows(l, new, W, p)
<1>1. ASSUME NEW x \in ToSet(l), x.wait, x.id \notin W
      PROVE  x \in ToSet(new) /\ x.start <= x.start /\ x.end <= x.end
  <2>1. x.proc # p
    BY <1>1 DEF Waited
  <2>2. x \in LockRecord
    BY SeqHas
  <2> QED
    BY <2>1, <2>2 DEF LockRecord
<1> QED
  BY <1>1 DEF Follows

\* A list that stays as it is.
LEMMA SameFollows ==
    ASSUME NEW p, NEW l \in Seq(LockRecord), NEW W
    PROVE  Follows(l, l, W, p)
<1>1. ASSUME NEW x \in ToSet(l) PROVE x.start <= x.start /\ x.end <= x.end
  <2>1. x \in LockRecord
    BY SeqHas
  <2> QED
    BY <2>1 DEF LockRecord
<1> QED
  BY <1>1 DEF Follows

-----------------------------------------------------------------------------
(* The steps *)

LEMMA RequestTypes ==
    ASSUME NEW f \in LkFiles, NEW cmd \in Cmds, NEW g \in LkCalls
    PROVE  LkRequest(f, cmd, g) \in LockRequest
<1>1. g \in (0 .. EndOfFile - 1) \X (-EndOfFile .. EndOfFile) /\ EndOfFile \in Int
  BY LockfAssumption
<1>2. PICK o \in Int, size \in Int : o = g[1] /\ size = g[2]
  BY <1>1
<1>3. Max({0, o + size}) \in Int
  BY <1>2, MaxOfTwo
<1>4. FromTo(o, size)[1] \in Int /\ FromTo(o, size)[2] \in Int
  <2>1. CASE size > 0
    BY <1>1, <2>1 DEF FromTo
  <2>2. CASE size = 0
    BY <1>1, <2>2 DEF FromTo
  <2>3. CASE size < 0
    BY <1>1, <1>3, <2>3 DEF FromTo
  <2> QED
    BY <2>1, <2>2, <2>3
<1>5. PICK section : section = FromTo(o, size)
  OBVIOUS
<1>6. PICK t : t = CASE cmd \in {"LOCK", "TLOCK"} -> "W" [] cmd = "ULOCK" -> "U" [] OTHER -> "T"
  OBVIOUS
<1>8. t \in {"W", "U", "T"}
  <2>1. CASE cmd \in {"LOCK", "TLOCK"}
    BY <1>6, <2>1
  <2>2. CASE cmd = "ULOCK"
    BY <1>6, <2>2
  <2>3. CASE cmd \notin {"LOCK", "TLOCK"} /\ cmd # "ULOCK"
    BY <1>6, <2>3
  <2> QED
    BY <2>1, <2>2, <2>3
<1>7. LkRequest(f, cmd, g) = [file |-> f, cmd |-> cmd, start |-> section[1], end |-> section[2], type |-> t]
  BY <1>2, <1>5, <1>6 DEF LkRequest
<1> QED
  BY <1>4, <1>5, <1>7, <1>8 DEF LockRequest

LEMMA LkInitInv == LkInit => LkInv
<1> SUFFICES ASSUME LkInit PROVE LkInv
  OBVIOUS
<1>1. <<>> \in Seq(LockRecord) /\ ToSet(<<>>) = {}
  BY DEF ToSet
<1>2. LkTypes
  BY <1>1 DEF LkInit, LkTypes
<1>3. \A f \in LkFiles : Records(f) = {}
  BY <1>1 DEF LkInit, Records
<1>4. OneOwner /\ AsleepForOne
  BY <1>3 DEF OneOwner, AsleepForOne, LkInit
<1>5. NoCircle
  BY DEF NoCircle, Circle, WaitsFor, LkInit
<1> QED
  BY <1>2, <1>4, <1>5 DEF LkInv

LEMMA UlockKeeps ==
    ASSUME LkInv, NEW p \in LkProcs, NEW r \in LockRequest, LockfUlock(p, r)
    PROVE  LkInv'
<1>1. PICK l : l = locklist[r.file]
  OBVIOUS
<1>2. /\ LkTypes /\ r.file \in LkFiles /\ r.start \in Int /\ r.end \in Int
      /\ l \in Seq(LockRecord) /\ lkPc[p] # "asleep"
  BY <1>1 DEF LkInv, LkTypes, LockRequest, LockfUlock
<1>3. PICK W : W = Waited({l[i] : i \in Touched(l, p, r.start, r.end)})
  OBVIOUS
<1>4. PICK new : new = Ulock(l, p, r.start, r.end)
  OBVIOUS
<1>5. new \in Seq(NewRecord) /\ Follows(l, new, W, p)
  BY <1>2, <1>3, <1>4, UlockFollows
<1>6. PICK woken : woken = [i \in DOMAIN l |-> [l[i] EXCEPT !.wait = @ /\ l[i].id \notin W]]
  OBVIOUS
<1>7. woken \in Seq(LockRecord) /\ Follows(l, woken, W, p)
  BY <1>2, <1>6, WokenFollows
<1>8. IF NoRecord(new) THEN LkReturn(p, r, "EDEADLK", woken, W) ELSE LkReturn(p, r, "ok", new, W)
  BY <1>1, <1>3, <1>4, <1>6 DEF LockfUlock
<1>9. CASE NoRecord(new)
  BY <1>1, <1>2, <1>7, <1>8, <1>9, ReturnKeeps
<1>10. CASE ~NoRecord(new)
  <2>1. new \in Seq(LockRecord)
    BY <1>5, <1>10, AllGot
  <2> QED
    BY <1>1, <1>2, <1>5, <1>8, <1>10, <2>1, ReturnKeeps
<1> QED
  BY <1>9, <1>10

LEMMA UnlockKeeps ==
    ASSUME LkInv, NEW p \in LkProcs, NEW f \in LkFiles, Unlock(p, f)
    PROVE  LkInv'
<1>1. PICK l : l = locklist[f]
  OBVIOUS
<1>2. LkTypes /\ l \in Seq(LockRecord) /\ lkPc[p] # "asleep"
  BY <1>1 DEF LkInv, LkTypes, Unlock
<1>3. PICK new : new = Others(l, p)
  OBVIOUS
<1>4. PICK W : W = Waited({x \in ToSet(l) : x.proc = p})
  OBVIOUS
<1>5. new \in Seq(LockRecord) /\ ToSet(new) = {x \in ToSet(l) : x.proc # p}
  BY <1>2, <1>3, OthersFacts
<1>6. Follows(l, new, W, p)
  BY <1>2, <1>4, <1>5, OthersFollow
<1>7. PICK r : r = [file |-> f, type |-> "C"]
  OBVIOUS
<1>8. LkReturn(p, r, "ok", new, W) /\ r.file = f
  BY <1>1, <1>3, <1>4, <1>7 DEF Unlock
<1> QED
  BY <1>1, <1>2, <1>5, <1>6, <1>8, ReturnKeeps

\* A call that ends and leaves the list as it is.
LEMMA FailKeeps ==
    ASSUME LkInv, NEW p \in LkProcs, NEW r \in LockRequest, lkPc[p] # "asleep", NEW res, NEW W,
           LkReturn(p, r, res, locklist[r.file], W)
    PROVE  LkInv'
<1>1. PICK l : l = locklist[r.file]
  OBVIOUS
<1>2. r.file \in LkFiles /\ l \in Seq(LockRecord)
  BY <1>1 DEF LkInv, LkTypes, LockRequest
<1>3. Follows(l, l, W, p)
  BY <1>2, SameFollows
<1> QED
  BY <1>1, <1>2, <1>3, ReturnKeeps

LEMMA GrantedKeeps ==
    ASSUME LkInv, NEW p \in LkProcs, NEW r \in LockRequest, lkPc[p] # "asleep", Granted(p, r)
    PROVE  LkInv'
<1>1. PICK l, a : /\ l = locklist[r.file]
                  /\ a = IF r.cmd \in {"TEST", "RDWR"} THEN Kept(l) ELSE Add(l, p, r.start, r.end)
  OBVIOUS
<1>2. LkTypes /\ r.file \in LkFiles /\ r.start \in Int /\ r.end \in Int /\ l \in Seq(LockRecord)
  BY <1>1 DEF LkInv, LkTypes, LockRequest
<1>3. IF NoRecord(a.l) THEN LkReturn(p, r, "EDEADLK", l, {}) ELSE LkReturn(p, r, "ok", a.l, Waited(a.gone))
  BY <1>1 DEF Granted
<1>4. CASE NoRecord(a.l)
  BY <1>1, <1>3, <1>4, FailKeeps
<1>5. CASE ~NoRecord(a.l)
  <2>1. a.l \in Seq(NewRecord) /\ Follows(l, a.l, Waited(a.gone), p)
    <3>1. CASE r.cmd \in {"TEST", "RDWR"}
      <4>1. a.l = l
        BY <1>1, <3>1 DEF Kept
      <4> QED
        BY <1>2, <4>1, OldIsNew, SameFollows
    <3>2. CASE r.cmd \notin {"TEST", "RDWR"}
      BY <1>1, <1>2, <3>2, AddFollows
    <3> QED
      BY <3>1, <3>2
  <2>2. a.l \in Seq(LockRecord)
    BY <1>5, <2>1, AllGot
  <2> QED
    BY <1>1, <1>2, <1>3, <1>5, <2>1, <2>2, ReturnKeeps
<1> QED
  BY <1>4, <1>5

\* The least place of a record in the way.
LEMMA InWay ==
    ASSUME NEW l \in Seq(LockRecord), NEW p, NEW r, InSection(l, p, r) # {}
    PROVE  Min(InSection(l, p, r)) \in InSection(l, p, r)
<1>1. PICK T \in SUBSET Nat : T = InSection(l, p, r) /\ T # {}
  <2>1. \A i \in InSection(l, p, r) : i \in Nat
    BY DEF InSection
  <2> QED
    BY <2>1
<1>2. \E x \in T : \A y \in T : x <= y
  BY <1>1, LeastOfNats
<1>3. Min(T) \in T
  BY <1>2 DEF Min
<1> QED
  BY <1>1, <1>3

LEMMA WaitsKeeps ==
    ASSUME LkInv, NEW p \in LkProcs, NEW r \in LockRequest, lkPc[p] # "asleep", Waits(p, r)
    PROVE  LkInv'
<1>1. PICK l, i : l = locklist[r.file] /\ i = Min(InSection(l, p, r))
  OBVIOUS
<1>2. LkTypes /\ OneOwner /\ AsleepForOne /\ NoCircle
  BY DEF LkInv
<1>3. r.file \in LkFiles /\ l \in Seq(LockRecord) /\ lkWchan[p] = Unused
  BY <1>1, <1>2 DEF LkTypes, LockRequest
<1>4. /\ InSection(l, p, r) # {} /\ ~Deadlock(l[i].proc, p)
      /\ locklist' = [locklist EXCEPT ![r.file] = [l EXCEPT ![i].wait = TRUE]]
      /\ lkWchan' = [lkWchan EXCEPT ![p] = l[i].id]
      /\ lkPc' = [lkPc EXCEPT ![p] = "asleep"]
      /\ lkReq' = [lkReq EXCEPT ![p] = r]
  BY <1>1, <1>2, <1>3 DEF Waits, LkTypes
<1>5. i \in 1 .. Len(l) /\ l[i].proc # p /\ l[i].start < r.end /\ r.start < l[i].end
  <2>1. i \in InSection(l, p, r)
    BY <1>1, <1>3, <1>4, InWay
  <2> QED
    BY <2>1 DEF InSection
<1>6. PICK x \in LockRecord : x = l[i] /\ x \in Records(r.file)
  <2>1. l[i] \in LockRecord
    BY <1>3, <1>5, ElementOfSeq
  <2> QED
    BY <1>1, <1>5, <2>1 DEF Records, ToSet
<1>7. PICK y : y = [x EXCEPT !.wait = TRUE]
  OBVIOUS
<1>8. y \in LockRecord /\ y.wait /\ y.id = x.id /\ y.proc = x.proc /\ y.start = x.start /\ y.end = x.end
  BY <1>7 DEF LockRecord
<1>9. PICK new : new = [l EXCEPT ![i] = y]
  OBVIOUS
<1>10. /\ new \in Seq(LockRecord) /\ Len(new) = Len(l)
       /\ \A j \in 1 .. Len(l) : new[j] = IF j = i THEN y ELSE l[j]
  BY <1>3, <1>5, <1>8, <1>9, ExceptSeq
<1>11. locklist' = [locklist EXCEPT ![r.file] = new]
  <2>1. [l EXCEPT ![i].wait = TRUE] = new
    BY <1>6, <1>7, <1>9
  <2> QED
    BY <1>4, <2>1
<1>12. \A f \in LkFiles : locklist'[f] = IF f = r.file THEN new ELSE locklist[f]
  BY <1>2, <1>11 DEF LkTypes
\* Every record has stayed, but for its mark.
<1>13. ASSUME NEW f \in LkFiles
       PROVE  /\ \A z \in Records(f)' : \E w \in Records(f) : w.id = z.id /\ w.proc = z.proc
              /\ \A w \in Records(f) : \E z \in Records(f)' :
                    /\ z.id = w.id /\ z.proc = w.proc /\ z.start = w.start /\ z.end = w.end
                    /\ (w.wait => z.wait)
  <2>1. CASE f = r.file
    <3>1. \A j \in 1 .. Len(l) : l[j] \in Records(f) /\ new[j] \in Records(f)'
      BY <1>1, <1>10, <1>12, <2>1 DEF Records, ToSet
    <3>2. \A j \in 1 .. Len(l) : /\ new[j].id = l[j].id /\ new[j].proc = l[j].proc
                                 /\ new[j].start = l[j].start /\ new[j].end = l[j].end
                                 /\ l[j].wait => new[j].wait
      BY <1>6, <1>8, <1>10
    <3>3. ASSUME NEW z \in Records(f)' PROVE \E j \in 1 .. Len(l) : z = new[j]
      BY <1>10, <1>12, <2>1 DEF Records, ToSet
    <3>4. ASSUME NEW w \in Records(f) PROVE \E j \in 1 .. Len(l) : w = l[j]
      BY <1>1, <2>1, SMTT(60), ZenonT(60) DEF Records, ToSet
    <3>5. ASSUME NEW z \in Records(f)' PROVE \E w \in Records(f) : w.id = z.id /\ w.proc = z.proc
      <4>1. PICK j \in 1 .. Len(l) : z = new[j]
        BY <3>3
      <4> QED
        BY <3>1, <3>2, <4>1
    <3>6. ASSUME NEW w \in Records(f)
          PROVE  \E z \in Records(f)' : /\ z.id = w.id /\ z.proc = w.proc
                                        /\ z.start = w.start /\ z.end = w.end /\ (w.wait => z.wait)
      <4>1. PICK j \in 1 .. Len(l) : w = l[j]
        BY <3>4
      <4> QED
        BY <3>1, <3>2, <4>1
    <3> QED
      BY <3>5, <3>6
  <2>2. CASE f # r.file
    <3>1. PICK T : T = Records(f) /\ T = Records(f)'
      BY <1>12, <2>2 DEF Records
    <3>2. /\ \A z \in T : \E w \in T : w.id = z.id /\ w.proc = z.proc
          /\ \A w \in T : \E z \in T : /\ z.id = w.id /\ z.proc = w.proc
                                      /\ z.start = w.start /\ z.end = w.end
                                      /\ (w.wait => z.wait)
      BY Zenon
    <3> QED
      BY <3>1, <3>2
  <2> QED
    BY <2>1, <2>2
<1>14. y \in Records(r.file)'
  BY <1>3, <1>5, <1>10, <1>12 DEF Records, ToSet
<1>15. /\ lkWchan'[p] = x.id /\ lkReq'[p] = r
       /\ \A q \in LkProcs \ {p} : /\ lkWchan'[q] = lkWchan[q] /\ lkReq'[q] = lkReq[q]
                                   /\ lkPc'[q] = lkPc[q]
  BY <1>2, <1>4, <1>6 DEF LkTypes
<1>16. LkTypes'
  <2>1. x.id \in 1 .. NFLOCKS - 1 /\ x.id # Unused
    <3>1. x.id \in 1 .. NFLOCKS - 1 /\ NFLOCKS \in Nat
      BY LockfAssumption DEF LockRecord
    <3> QED
      BY <3>1, LkUnused
  <2>2. locklist' \in [LkFiles -> Seq(LockRecord)]
    BY <1>2, <1>10, <1>11 DEF LkTypes
  <2>3. /\ lkWchan' \in [LkProcs -> 1 .. NFLOCKS - 1 \cup {Unused}]
        /\ lkPc' \in [LkProcs -> {"user", "asleep", "woken"}]
        /\ lkReq' \in [LkProcs -> LockRequest \cup {Unused}]
    BY <1>2, <1>4, <1>6, <2>1 DEF LkTypes
  <2>4. ASSUME NEW q \in LkProcs PROVE lkPc'[q] = "asleep" <=> lkWchan'[q] # Unused
    BY <1>2, <1>4, <1>6, <2>1 DEF LkTypes
  <2>5. ASSUME NEW q \in LkProcs, lkPc'[q] # "user" PROVE lkReq'[q] \in LockRequest
    BY <1>2, <1>4, <2>5 DEF LkTypes
  <2> QED
    BY <2>2, <2>3, <2>4, <2>5 DEF LkTypes
<1>17. OneOwner'
  BY <1>2, <1>13 DEF OneOwner
<1>18. AsleepForOne'
  <2>1. ASSUME NEW q \in LkProcs, lkPc'[q] = "asleep", NEW f, f = lkReq'[q].file
        PROVE  \E z \in Records(f)' : HoldsUp(z, q)'
    <3>1. CASE q = p
      <4>1. HoldsUp(y, q)'
        BY <1>5, <1>6, <1>8, <1>15, <3>1 DEF HoldsUp
      <4> QED
        BY <1>14, <1>15, <2>1, <3>1, <4>1
    <3>2. CASE q # p
      <4>1. lkPc[q] = "asleep" /\ lkReq[q] \in LockRequest /\ f = lkReq[q].file /\ f \in LkFiles
        BY <1>2, <1>15, <2>1, <3>2 DEF LkTypes, LockRequest
      <4>2. PICK w \in Records(f) : HoldsUp(w, q)
        BY <1>2, <4>1 DEF AsleepForOne
      <4>3. PICK z \in Records(f)' : /\ z.id = w.id /\ z.proc = w.proc /\ z.start = w.start
                                     /\ z.end = w.end /\ (w.wait => z.wait)
        BY <1>13, <4>1
      <4>4. HoldsUp(z, q)'
        <5>1. z.wait /\ z.id = lkWchan[q] /\ z.proc # q
          BY <4>2, <4>3 DEF HoldsUp
        <5>2. z.start < lkReq[q].end /\ lkReq[q].start < z.end
          BY <4>2, <4>3 DEF HoldsUp
        <5> QED
          BY <1>15, <3>2, <5>1, <5>2 DEF HoldsUp
      <4> QED
        BY <4>4
    <3> QED
      BY <3>1, <3>2
  <2> QED
    BY <2>1 DEF AsleepForOne, Records
\* The processes that x.proc waits for, directly or not, and not p among them.
<1>19. PICK S \in SUBSET LkProcs : /\ x.proc \in S /\ p \notin S
                                   /\ \A q \in S : lkWchan[q] # Unused => Owner(lkWchan[q]) \in S
  BY <1>4, <1>6 DEF Deadlock
<1>20. ASSUME NEW q \in LkProcs, NEW s, WaitsFor(q, s)'
       PROVE  q = p => s = x.proc
  <2>1. ASSUME q = p PROVE s = x.proc
    <3>1. PICK f \in LkFiles : \E z \in Records(f)' : z.id = lkWchan'[q] /\ z.proc = s
      BY <1>20 DEF WaitsFor
    <3>2. PICK z \in Records(f)' : z.id = x.id /\ z.proc = s
      BY <1>15, <2>1, <3>1
    <3> QED
      BY <1>3, <1>8, <1>14, <1>17, <3>2 DEF OneOwner
  <2> QED
    BY <2>1
<1>21. ASSUME NEW q \in LkProcs, q # p, NEW s, WaitsFor(q, s)'
       PROVE  WaitsFor(q, s) /\ Owner(lkWchan[q]) = s /\ lkWchan[q] # Unused
  <2>1. lkWchan[q] # Unused /\ lkWchan'[q] = lkWchan[q]
    BY <1>15, <1>21 DEF WaitsFor
  <2>2. PICK f \in LkFiles : \E z \in Records(f)' : z.id = lkWchan'[q] /\ z.proc = s
    BY <1>21 DEF WaitsFor
  <2>3. PICK w \in Records(f) : w.id = lkWchan[q] /\ w.proc = s
    BY <1>13, <2>1, <2>2
  <2>4. Owner(w.id) = w.proc
    BY <1>2, OwnerIs
  <2> QED
    BY <2>1, <2>3, <2>4 DEF WaitsFor
<1>22. NoCircle'
  <2>1. ASSUME NEW T \in SUBSET LkProcs, Circle(T)' PROVE FALSE
    <3>1. T # {} /\ \A q \in T : \E s \in T : WaitsFor(q, s)'
      BY <2>1 DEF Circle
    <3>2. CASE p \notin T
      <4>1. Circle(T)
        BY <1>21, <3>1, <3>2 DEF Circle
      <4> QED
        BY <1>2, <4>1 DEF NoCircle
    <3>3. CASE p \in T
      <4>1. x.proc \in T
        BY <1>20, <3>1, <3>3
      <4>2. \A q \in T \cap S : \E s \in T \cap S : WaitsFor(q, s)
        BY <1>19, <1>21, <3>1
      <4>3. Circle(T \cap S)
        BY <1>19, <4>1, <4>2 DEF Circle
      <4> QED
        BY <1>2, <4>3 DEF NoCircle
    <3> QED
      BY <3>2, <3>3
  <2> QED
    BY <2>1 DEF NoCircle
<1> QED
  BY <1>16, <1>17, <1>18, <1>22 DEF LkInv

LEMMA LockedKeeps ==
    ASSUME LkInv, NEW p \in LkProcs, NEW r \in LockRequest, lkPc[p] # "asleep", Locked(p, r)
    PROVE  LkInv'
<1>1. CASE Granted(p, r)
  BY <1>1, GrantedKeeps
<1>2. CASE Refused(p, r)
  <2>1. \E res : LkReturn(p, r, res, locklist[r.file], {})
    BY <1>2 DEF Refused
  <2> QED
    BY <2>1, FailKeeps
<1>3. CASE Waits(p, r)
  BY <1>3, WaitsKeeps
<1> QED
  BY <1>1, <1>2, <1>3 DEF Locked

LEMMA SignalKeeps ==
    ASSUME LkInv, NEW p \in LkProcs, LkSignal(p)
    PROVE  LkInv'
<1>1. LkTypes /\ OneOwner /\ AsleepForOne /\ NoCircle
  BY DEF LkInv
<1>2. /\ lkPc[p] = "asleep" /\ lkPc' = [lkPc EXCEPT ![p] = "woken"]
      /\ lkWchan' = [lkWchan EXCEPT ![p] = Unused] /\ locklist' = locklist /\ lkReq' = lkReq
  BY DEF LkSignal
<1>3. LkTypes'
  BY <1>1, <1>2 DEF LkTypes
<1>4. \A f : Records(f)' = Records(f)
  BY <1>2 DEF Records
<1>5. OneOwner'
  BY <1>1, <1>4 DEF OneOwner
<1>6. \A q \in LkProcs : lkWchan'[q] # Unused => q # p /\ lkWchan'[q] = lkWchan[q] /\ lkPc'[q] = lkPc[q]
  BY <1>1, <1>2 DEF LkTypes
<1>7. AsleepForOne'
  <2>1. ASSUME NEW q \in LkProcs, lkPc'[q] = "asleep", NEW f, f = lkReq'[q].file
        PROVE  \E z \in Records(f)' : HoldsUp(z, q)'
    <3>1. lkPc[q] = "asleep" /\ lkWchan'[q] = lkWchan[q] /\ f = lkReq[q].file
      BY <1>2, <1>3, <1>6, <2>1 DEF LkTypes
    <3>2. PICK w \in Records(f) : HoldsUp(w, q)
      BY <1>1, <3>1 DEF AsleepForOne
    <3> QED
      BY <1>2, <1>4, <3>1, <3>2 DEF HoldsUp
  <2> QED
    BY <2>1 DEF AsleepForOne, Records
<1>8. ASSUME NEW q \in LkProcs, NEW s, WaitsFor(q, s)' PROVE WaitsFor(q, s)
  BY <1>4, <1>6, <1>8 DEF WaitsFor
<1>9. NoCircle'
  <2>1. ASSUME NEW T \in SUBSET LkProcs, Circle(T)' PROVE Circle(T)
    BY <1>8, <2>1 DEF Circle
  <2> QED
    BY <1>1, <2>1 DEF NoCircle
<1> QED
  BY <1>3, <1>5, <1>7, <1>9 DEF LkInv

LEMMA LkNextInv == LkInv /\ [LkNext]_lkVars => LkInv'
<1> SUFFICES ASSUME LkInv, [LkNext]_lkVars PROVE LkInv'
  OBVIOUS
<1>1. CASE UNCHANGED lkVars
  <2>1. LkTypes /\ OneOwner /\ AsleepForOne /\ NoCircle
    BY DEF LkInv
  <2>2. /\ locklist' = locklist /\ lkWchan' = lkWchan /\ lkPc' = lkPc /\ lkReq' = lkReq
        /\ \A f : Records(f)' = Records(f)
    BY <1>1 DEF lkVars, Records
  <2>3. LkTypes' /\ OneOwner'
    BY <2>1, <2>2 DEF LkTypes, OneOwner
  <2>4. AsleepForOne'
    BY <2>1, <2>2 DEF AsleepForOne, HoldsUp, Records
  <2>5. NoCircle'
    BY <2>1, <2>2 DEF NoCircle, Circle, WaitsFor
  <2> QED
    BY <2>3, <2>4, <2>5 DEF LkInv
<1>2. CASE LkNext
  <2>1. PICK p \in LkProcs :
            \/ \E f \in LkFiles :
                  \/ \E cmd \in Cmds, g \in LkCalls :
                        LockfUlock(p, LkRequest(f, cmd, g)) \/ Lockf(p, LkRequest(f, cmd, g))
                  \/ Unlock(p, f)
            \/ LockfAgain(p) \/ LkSignal(p) \/ LockfIntr(p)
    BY <1>2 DEF LkNext
  <2>2. ASSUME NEW r \in LockRequest, LockfUlock(p, r) \/ Lockf(p, r) PROVE LkInv'
    <3>1. CASE LockfUlock(p, r)
      BY <3>1, UlockKeeps
    <3>2. CASE Lockf(p, r)
      BY <3>2, LockedKeeps DEF Lockf
    <3> QED
      BY <2>2, <3>1, <3>2
  <2>3. ASSUME NEW f \in LkFiles, NEW cmd \in Cmds, NEW g \in LkCalls,
               LockfUlock(p, LkRequest(f, cmd, g)) \/ Lockf(p, LkRequest(f, cmd, g))
        PROVE  LkInv'
    <3>1. LkRequest(f, cmd, g) \in LockRequest
      BY RequestTypes
    <3> QED
      BY <2>2, <2>3, <3>1
  <2>4. ASSUME NEW f \in LkFiles, Unlock(p, f) PROVE LkInv'
    BY <2>4, UnlockKeeps
  <2>5. lkPc[p] = "woken" => lkReq[p] \in LockRequest
    BY DEF LkInv, LkTypes
  <2>6. CASE LockfAgain(p)
    BY <2>5, <2>6, LockedKeeps DEF LockfAgain
  <2>7. CASE LkSignal(p)
    BY <2>7, SignalKeeps
  <2>8. CASE LockfIntr(p)
    BY <2>5, <2>8, FailKeeps DEF LockfIntr
  <2> QED
    BY <2>1, <2>3, <2>4, <2>6, <2>7, <2>8
<1> QED
  BY <1>1, <1>2

LEMMA LkInvImplies == LkInv => LockfNoLostWakeup
<1> SUFFICES ASSUME LkInv PROVE LockfNoLostWakeup
  OBVIOUS
<1>1. LkTypes /\ OneOwner /\ AsleepForOne /\ NoCircle
  BY DEF LkInv
<1>2. ASSUME NEW p \in LkProcs, lkPc[p] = "asleep", NEW l, l = locklist[lkReq[p].file]
      PROVE  \E i \in InSection(l, p, lkReq[p]) : l[i].id = lkWchan[p] /\ l[i].wait
  <2>1. PICK x \in Records(lkReq[p].file) : HoldsUp(x, p)
    BY <1>1, <1>2 DEF AsleepForOne
  <2>2. PICK i \in DOMAIN l : x = l[i]
    BY <1>2, <2>1 DEF Records, ToSet
  <2> QED
    BY <2>1, <2>2 DEF HoldsUp, InSection
<1>3. ASSUME NEW S \in SUBSET LkProcs, S # {},
             \A p \in S : lkWchan[p] # Unused /\ Owner(lkWchan[p]) \in S
      PROVE  FALSE
  <2>1. ASSUME NEW p \in S PROVE \E q \in S : WaitsFor(p, q)
    <3>1. lkPc[p] = "asleep" /\ lkReq[p] \in LockRequest /\ lkReq[p].file \in LkFiles
      BY <1>1, <1>3 DEF LkTypes, LockRequest
    <3>2. PICK x \in Records(lkReq[p].file) : x.id = lkWchan[p]
      BY <1>1, <3>1 DEF AsleepForOne, HoldsUp
    <3>3. Owner(x.id) = x.proc
      BY <1>1, <3>1, OwnerIs
    <3> QED
      BY <1>3, <3>1, <3>2, <3>3 DEF WaitsFor
  <2>2. Circle(S)
    BY <1>3, <2>1 DEF Circle
  <2> QED
    BY <1>1, <2>2 DEF NoCircle
<1> QED
  BY <1>2, <1>3 DEF LockfNoLostWakeup

\* The record that a process sleeps for is in its way and marked, so that whoever drops or
\* shortens it wakes the process; and no processes sleep for each other in a circle.
THEOREM LockfWakeupsKept == LkSpec => []LockfNoLostWakeup
<1>1. LkInit => LkInv
  BY LkInitInv
<1>2. LkInv /\ [LkNext]_lkVars => LkInv'
  BY LkNextInv
<1>3. LkInv => LockfNoLostWakeup
  BY LkInvImplies
<1> QED
  BY <1>1, <1>2, <1>3, PTL DEF LkSpec

-----------------------------------------------------------------------------
(* The sections that the records cover *)

\* q has locked byte b.
Covers(l, q, b) == \E x \in ToSet(l) : x.proc = q /\ x.start <= b /\ b < x.end

\* The records are in order, and none is empty or overlaps another.
InOrder(l) == /\ \A i \in 1 .. Len(l) : l[i].start < l[i].end
              /\ \A i, j \in 1 .. Len(l) : i < j => l[i].end <= l[j].start

LEMMA RecordInts ==
    ASSUME NEW l \in Seq(NewRecord)
    PROVE  /\ Len(l) \in Nat
           /\ \A i \in 1 .. Len(l) : l[i] \in NewRecord /\ l[i].start \in Int /\ l[i].end \in Int
<1>1. \A i \in 1 .. Len(l) : l[i] \in NewRecord
  BY ElementOfSeq
<1> QED
  BY <1>1 DEF NewRecord

LEMMA CoversIs ==
    ASSUME NEW S, NEW l \in Seq(S), NEW q, NEW b
    PROVE  Covers(l, q, b) <=> \E i \in 1 .. Len(l) : l[i].proc = q /\ l[i].start <= b /\ b < l[i].end
BY DEF Covers, ToSet

\* The same, but for the record k, which may reach into those of its process that follow.
InOrderBut(l, k) ==
    /\ \A i \in 1 .. Len(l) : l[i].start < l[i].end
    /\ \A i, j \in 1 .. Len(l) : i < j /\ i # k => l[i].end <= l[j].start
    /\ \A j \in 1 .. Len(l) : k < j =>
          /\ l[k].start <= l[j].start
          /\ l[j].proc # l[k].proc => l[k].end <= l[j].start

\* Absorb restores the order, and the bytes that are locked stay the same.
LEMMA AbsorbBytes ==
    ASSUME NEW l \in Seq(NewRecord), NEW k \in 1 .. Len(l), InOrderBut(l, k),
           NEW new, new = Absorb(l, k).l
    PROVE  /\ InOrder(new)
           /\ \A q : \A b \in Int : Covers(new, q, b) <=> Covers(l, q, b)
<1>1. PICK m, z : z \in NewRecord /\ Absorbed(l, k, m, z, Absorb(l, k))
  BY AbsorbIs
<1>2. PICK n \in Nat : n = Len(l)
  OBVIOUS
<1>3. k \in 1 .. n /\ m \in k .. n
  BY <1>1, <1>2 DEF Absorbed
<1>4. PICK d \in Nat : d = m - k
  BY <1>3
<1>5. /\ new \in Seq(NewRecord) /\ Len(new) = n - d
      /\ \A i \in 1 .. k - 1 : new[i] = l[i]
      /\ new[k] = z
      /\ \A i \in k + 1 .. n - d : new[i] = l[i + d]
  BY <1>1, <1>2, <1>4 DEF Absorbed
<1>6. /\ \A i \in 1 .. n : l[i] \in NewRecord /\ l[i].start \in Int /\ l[i].end \in Int
  BY <1>2, RecordInts
<1>7. /\ z.start = l[k].start /\ z.proc = l[k].proc
      /\ z.end = IF l[k].end >= l[m].end THEN l[k].end ELSE l[m].end
  <2>1. PICK e : e = IF l[k].end >= l[m].end THEN l[k].end ELSE l[m].end
    OBVIOUS
  <2>2. z = [l[k] EXCEPT !.end = e]
    BY <1>1, <2>1 DEF Absorbed
  <2>3. l[k] \in NewRecord
    BY <1>3, <1>6
  <2> QED
    BY <2>1, <2>2, <2>3 DEF NewRecord
<1>8. z.start \in Int /\ z.end \in Int /\ l[k].end <= z.end /\ l[m].end <= z.end
  BY <1>3, <1>6, <1>7
<1>9. \A j \in k + 1 .. m : l[j].proc = l[k].proc /\ l[j].start <= l[k].end
  BY <1>1 DEF Absorbed
<1>10. m < n => \/ l[m + 1].proc # l[k].proc \/ l[k].end < l[m + 1].start
                \/ m > k /\ l[k].end <= l[m].end
  BY <1>1, <1>2 DEF Absorbed
<1>11. \A i \in 1 .. n : l[i].start < l[i].end
  BY <1>2 DEF InOrderBut
<1>12. \A i, j \in 1 .. n : i < j /\ i # k => l[i].end <= l[j].start
  BY <1>2 DEF InOrderBut
<1>13. \A j \in 1 .. n : k < j =>
          /\ l[k].start <= l[j].start
          /\ l[j].proc # l[k].proc => l[k].end <= l[j].start
  BY <1>2 DEF InOrderBut
\* The grown record ends before what follows it.
<1>14. ASSUME NEW j \in m + 1 .. n PROVE z.end <= l[j].start
  <2>1. PICK c \in 1 .. n : c = m + 1 /\ c <= j /\ k < c /\ j \in 1 .. n
    BY <1>3
  <2>2. l[c].start <= l[j].start
    <3>1. CASE c = j
      BY <1>6, <2>1, <3>1
    <3>2. CASE c # j
      <4>1. l[c].end <= l[j].start
        BY <1>12, <2>1, <3>2
      <4> QED
        BY <1>6, <1>11, <2>1, <4>1
    <3> QED
      BY <3>1, <3>2
  <2>3. m > k => l[m].end <= l[c].start
    BY <1>3, <1>12, <2>1
  <2>4. l[k].end <= l[c].start
    <3>1. m < n
      BY <1>3, <2>1
    <3>2. CASE l[c].proc # l[k].proc
      BY <1>13, <2>1, <3>2
    <3>3. CASE l[k].end < l[c].start
      BY <1>3, <1>6, <2>1, <3>3
    <3>4. CASE m > k /\ l[k].end <= l[m].end
      BY <1>3, <1>6, <2>1, <2>3, <3>4
    <3> QED
      BY <1>10, <2>1, <3>1, <3>2, <3>3, <3>4
  <2>5. z.end <= l[c].start
    BY <1>3, <1>7, <2>3, <2>4
  <2> QED
    BY <1>6, <1>8, <2>1, <2>2, <2>5
<1>15. \A i \in k + 1 .. n - d : i + d \in m + 1 .. n /\ i + d \in 1 .. n
  BY <1>3, <1>4
<1>16. ASSUME NEW i \in 1 .. n - d PROVE new[i].start < new[i].end
  <2>1. CASE i < k
    <3>1. i \in 1 .. k - 1 /\ i \in 1 .. n
      BY <1>3, <2>1
    <3> QED
      BY <1>5, <1>11, <3>1
  <2>2. CASE i = k
    BY <1>3, <1>5, <1>6, <1>7, <1>8, <1>11, <2>2, SMTT(60), ZenonT(60)
  <2>3. CASE i > k
    <3>1. i \in k + 1 .. n - d
      BY <1>3, <2>3
    <3> QED
      BY <1>5, <1>11, <1>15, <3>1
  <2> QED
    BY <1>3, <2>1, <2>2, <2>3
<1>17. ASSUME NEW i \in 1 .. n - d, NEW j \in 1 .. n - d, i < j PROVE new[i].end <= new[j].start
  <2>1. CASE j < k
    <3>1. i \in 1 .. k - 1 /\ j \in 1 .. k - 1 /\ i \in 1 .. n /\ j \in 1 .. n /\ i # k
      BY <1>3, <1>17, <2>1
    <3> QED
      BY <1>5, <1>12, <1>17, <3>1
  <2>2. CASE j = k
    <3>1. i \in 1 .. k - 1 /\ i \in 1 .. n /\ i # k
      BY <1>3, <1>17, <2>2
    <3> QED
      BY <1>3, <1>5, <1>7, <1>12, <1>17, <2>2, <3>1
  <2>3. CASE k < j
    <3>1. j \in k + 1 .. n - d
      BY <1>3, <2>3
    <3>2. new[j] = l[j + d] /\ j + d \in 1 .. n /\ j + d \in m + 1 .. n
      BY <1>5, <1>15, <3>1
    <3>3. CASE i < k
      <4>1. i \in 1 .. k - 1 /\ i \in 1 .. n /\ i # k /\ i < j + d
        BY <1>3, <1>4, <2>3, <3>3
      <4> QED
        BY <1>5, <1>12, <3>2, <4>1
    <3>4. CASE i = k
      BY <1>5, <1>14, <3>2, <3>4
    <3>5. CASE k < i
      <4>1. i \in k + 1 .. n - d /\ i + d # k /\ i + d < j + d
        BY <1>3, <1>4, <1>17, <3>5
      <4> QED
        BY <1>5, <1>12, <1>15, <3>2, <4>1
    <3> QED
      BY <1>3, <3>3, <3>4, <3>5
  <2> QED
    BY <1>3, <2>1, <2>2, <2>3
<1>18. InOrder(new)
  BY <1>5, <1>16, <1>17 DEF InOrder
<1>19. ASSUME NEW q, NEW b \in Int PROVE Covers(new, q, b) <=> Covers(l, q, b)
  <2> DEFINE In(x) == x.proc = q /\ x.start <= b /\ b < x.end
  <2>1. Covers(new, q, b) <=> \E i \in 1 .. n - d : In(new[i])
    <3>1. Covers(new, q, b) <=> \E i \in 1 .. Len(new) : In(new[i])
      BY <1>5, CoversIs
    <3> QED
      BY <1>5, <3>1
  <2>2. Covers(l, q, b) <=> \E i \in 1 .. n : In(l[i])
    BY <1>2, CoversIs
  <2>3. ASSUME NEW i \in 1 .. n - d, In(new[i]) PROVE \E j \in 1 .. n : In(l[j])
    <3>1. CASE i < k
      <4>1. i \in 1 .. k - 1 /\ i \in 1 .. n
        BY <1>3, <3>1
      <4> QED
        BY <1>5, <2>3, <4>1
    <3>2. CASE i = k
      <4>1. In(z)
        BY <1>5, <2>3, <3>2
      <4>2. CASE b < l[k].end
        BY <1>3, <1>7, <4>1, <4>2
      <4>3. CASE ~(b < l[k].end)
        <5>1. z.end = l[m].end /\ m # k
          BY <1>3, <1>6, <1>7, <4>1, <4>3
        <5>2. m \in k + 1 .. m /\ m \in 1 .. n
          BY <1>3, <5>1
        <5>3. l[m].proc = q /\ l[m].start <= l[k].end
          BY <1>7, <1>9, <4>1, <5>2
        <5>4. l[m].start <= b
          BY <1>3, <1>6, <4>3, <5>2, <5>3
        <5> QED
          BY <4>1, <5>1, <5>2, <5>3, <5>4
      <4> QED
        BY <4>2, <4>3
    <3>3. CASE k < i
      <4>1. i \in k + 1 .. n - d
        BY <1>3, <3>3
      <4> QED
        BY <1>5, <1>15, <2>3, <4>1
    <3> QED
      BY <1>3, <3>1, <3>2, <3>3
  <2>4. ASSUME NEW j \in 1 .. n, In(l[j]) PROVE \E i \in 1 .. n - d : In(new[i])
    <3>1. k \in 1 .. n - d /\ \A i \in 1 .. k - 1 : i \in 1 .. n - d
      BY <1>3, <1>4
    <3>2. CASE j < k
      <4>1. j \in 1 .. k - 1
        BY <1>3, <3>2
      <4> QED
        BY <1>5, <2>4, <3>1, <4>1
    <3>3. CASE j = k
      <4>1. In(z)
        BY <1>3, <1>6, <1>7, <1>8, <2>4, <3>3
      <4> QED
        BY <1>5, <3>1, <4>1
    <3>4. CASE k < j /\ j <= m
      <4>1. j \in k + 1 .. m
        BY <1>3, <3>4
      <4>2. z.proc = q
        BY <1>7, <1>9, <2>4, <4>1
      <4>3. z.start <= b
        BY <1>3, <1>6, <1>7, <1>13, <2>4, <3>4
      <4>4. l[j].end <= l[m].end
        <5>1. CASE j = m
          BY <1>6, <5>1
        <5>2. CASE j # m
          <6>1. j < m /\ j # k /\ m \in 1 .. n
            BY <1>3, <3>4, <5>2
          <6> QED
            BY <1>6, <1>11, <1>12, <6>1
        <5> QED
          BY <5>1, <5>2
      <4>5. b < z.end
        BY <1>3, <1>6, <1>8, <2>4, <4>4
      <4> QED
        BY <1>5, <3>1, <4>2, <4>3, <4>5
    <3>5. CASE m < j
      <4>1. j - d \in k + 1 .. n - d /\ j - d + d = j /\ j - d \in 1 .. n - d
        BY <1>3, <1>4, <3>5
      <4> QED
        BY <1>5, <2>4, <4>1
    <3> QED
      BY <1>3, <3>2, <3>3, <3>4, <3>5
  <2> QED
    BY <2>1, <2>2, <2>3, <2>4
<1> QED
  BY <1>18, <1>19

LEMMA OneRecord ==
    ASSUME NEW x \in NewRecord
    PROVE  <<x>> \in Seq(NewRecord) /\ Len(<<x>>) = 1 /\ <<x>>[1] = x /\ ToSet(<<x>>) = {x}
<1>1. <<x>> \in Seq(NewRecord) /\ Len(<<x>>) = 1 /\ <<x>>[1] = x
  OBVIOUS
<1>2. DOMAIN <<x>> = {1}
  BY <1>1
<1> QED
  BY <1>1, <1>2 DEF ToSet

Inserted(l, c, x, new) ==
    /\ new \in Seq(NewRecord) /\ Len(new) = Len(l) + 1
    /\ \A j \in 1 .. Len(l) + 1 : new[j] = IF j < c THEN l[j] ELSE IF j = c THEN x ELSE l[j - 1]

LEMMA InsertedRecord ==
    ASSUME NEW l \in Seq(NewRecord), NEW x \in NewRecord, NEW c \in 1 .. Len(l) + 1
    PROVE  Inserted(l, c, x, InsertAt(l, c, x))
BY InsertFacts DEF Inserted

\* Nobody but p has locked bytes of the section.
FreeFor(l, p, s, e) == \A i \in 1 .. Len(l) : l[i].proc # p => l[i].end <= s \/ e <= l[i].start

\* Add locks the section for p, and nothing else changes.
LEMMA AddBytes ==
    ASSUME LkTypes, NEW p \in LkProcs, NEW l \in Seq(NewRecord), NEW s \in Int, NEW e \in Int, s < e,
           InOrder(l), FreeFor(l, p, s, e), NEW new, new = Add(l, p, s, e).l
    PROVE  /\ InOrder(new)
           /\ \A q : \A b \in Int : Covers(new, q, b) <=> Covers(l, q, b) \/ (q = p /\ s <= b /\ b < e)
<1>1. PICK x \in NewRecord : x = Section(p, s, e) /\ x.proc = p /\ x.start = s /\ x.end = e
  BY SectionFacts
<1>2. PICK n \in Nat : n = Len(l)
  OBVIOUS
<1>3. \A i \in 1 .. n : l[i] \in NewRecord /\ l[i].start \in Int /\ l[i].end \in Int
  BY <1>2, RecordInts
<1>4. /\ \A i \in 1 .. n : l[i].start < l[i].end
      /\ \A i, j \in 1 .. n : i < j => l[i].end <= l[j].start
  BY <1>2 DEF InOrder
<1>5. \A i \in 1 .. n : l[i].proc # p => l[i].end <= s \/ e <= l[i].start
  BY <1>2 DEF FreeFor
<1>6. CASE AddFirst(l, p, e) /\ Add(l, p, s, e) = Kept(<<Section(p, s, e)>> \o l)
  <2> DEFINE one == <<x>>
  <2>1. one \in Seq(NewRecord) /\ Len(one) = 1 /\ one[1] = x /\ ToSet(one) = {x}
    BY OneRecord
  <2> HIDE DEF one
  <2>2. new = one \o l
    BY <1>1, <1>6 DEF Kept, one
  <2>3. /\ new \in Seq(NewRecord) /\ Len(new) = 1 + n
        /\ \A i \in 1 .. 1 + n : new[i] = IF i <= 1 THEN one[i] ELSE l[i - 1]
    <3>1. /\ one \o l \in Seq(NewRecord) /\ Len(one \o l) = Len(one) + Len(l)
          /\ \A i \in 1 .. Len(one) + Len(l) :
                (one \o l)[i] = IF i <= Len(one) THEN one[i] ELSE l[i - Len(one)]
      BY <2>1, ConcatProperties
    <3> QED
      BY <1>2, <2>1, <2>2, <3>1
  <2>4. \A i \in 1 .. 1 + n : new[i] = IF i = 1 THEN x ELSE l[i - 1]
    BY <2>1, <2>3
  <2>5. \A i \in 1 .. n : e <= l[i].start
    <3>1. n # 0 => 1 \in 1 .. n /\ e <= l[1].start
      <4>1. l # <<>> => e < l[1].start \/ e = l[1].start
        BY <1>6 DEF AddFirst
      <4>2. n # 0 => l # <<>>
        BY <1>2
      <4>3. n # 0 => 1 \in 1 .. n
        OBVIOUS
      <4> QED
        BY <1>3, <4>1, <4>2, <4>3
    <3>2. ASSUME NEW i \in 1 .. n PROVE e <= l[i].start
      <4>1. 1 \in 1 .. n /\ n # 0
        OBVIOUS
      <4>2. i # 1 => 1 < i
        OBVIOUS
      <4>3. i # 1 => l[1].end <= l[i].start
        BY <1>4, <4>1, <4>2
      <4> QED
        BY <1>3, <1>4, <3>1, <4>1, <4>3
    <3> QED
      BY <3>2
  <2>6. \A i \in 1 .. 1 + n : i # 1 => i - 1 \in 1 .. n
    OBVIOUS
  <2>7. \A i \in 1 .. 1 + n : new[i].start < new[i].end
    BY <1>1, <1>4, <2>4, <2>6
  <2>8. ASSUME NEW i \in 1 .. 1 + n, NEW j \in 1 .. 1 + n, i < j PROVE new[i].end <= new[j].start
    <3>1. j # 1 /\ j - 1 \in 1 .. n /\ new[j] = l[j - 1]
      BY <2>4, <2>8
    <3>2. CASE i = 1
      BY <1>1, <2>4, <2>5, <3>1, <3>2
    <3>3. CASE i # 1
      <4>1. i - 1 \in 1 .. n /\ i - 1 < j - 1 /\ new[i] = l[i - 1]
        BY <2>4, <2>8, <3>3
      <4> QED
        BY <1>4, <3>1, <4>1
    <3> QED
      BY <3>2, <3>3
  <2>9. InOrder(new)
    BY <2>3, <2>7, <2>8 DEF InOrder
  <2>10. ToSet(new) = {x} \cup ToSet(l)
    <3>1. ToSet(one \o l) = ToSet(one) \cup ToSet(l)
      BY <2>1, JoinFacts
    <3> QED
      BY <2>1, <2>2, <3>1
  <2>11. \A q : \A b \in Int : Covers(new, q, b) <=> Covers(l, q, b) \/ (q = p /\ s <= b /\ b < e)
    BY <1>1, <2>10 DEF Covers
  <2> QED
    BY <2>9, <2>11
<1>7. CASE ~(AddFirst(l, p, e) /\ Add(l, p, s, e) = Kept(<<Section(p, s, e)>> \o l))
  <2>1. PICK l1 : l1 = Start(l, s)
    OBVIOUS
  <2>2. /\ ~AddFirst(l, p, e) /\ 1 \in 1 .. Len(l)
        /\ l1 \in Seq(NewRecord) /\ Len(l1) = Len(l)
        /\ \E k \in 1 .. Len(l) : AddBehind(l1, p, s, e, k, Add(l, p, s, e))
    BY <1>7, <2>1, AddIs
  <2>3. PICK k \in 1 .. n : AddBehind(l1, p, s, e, k, Add(l, p, s, e))
    BY <1>2, <2>2
  <2>4. l1 \in Seq(NewRecord) /\ Len(l1) = n /\ 1 \in 1 .. n
    BY <1>2, <2>2
  <2>5. /\ l[1].start <= e
        /\ l[1].start = e => l[1].proc = p
    <3>1. l # <<>>
      BY <1>2, <2>4
    <3> QED
      BY <1>3, <2>2, <2>4 DEF AddFirst
  <2>6. /\ \A i \in 2 .. n : l1[i] = l[i]
        /\ l1[1].proc = l[1].proc /\ l1[1].end = l[1].end
        /\ l1[1].start = IF s < l[1].start THEN s ELSE l[1].start
    <3>1. PICK b : b = IF s < l[1].start THEN s ELSE l[1].start
      OBVIOUS
    <3>2. l1[1] = [l[1] EXCEPT !.start = b]
      BY <1>2, <2>1, <2>4, <3>1 DEF Start
    <3>3. l[1] \in NewRecord
      BY <1>3, <2>4
    <3>4. \A i \in 2 .. n : l1[i] = l[i]
      BY <1>2, <2>1 DEF Start
    <3> QED
      BY <3>1, <3>2, <3>3, <3>4 DEF NewRecord
  <2>7. s < l[1].start => l[1].proc = p
    BY <1>3, <1>4, <1>5, <2>4, <2>5
  <2>8. \A i \in 1 .. n : l1[i] \in NewRecord /\ l1[i].start \in Int /\ l1[i].end \in Int
    BY <2>4, RecordInts
  <2>9. \A i \in 1 .. n : /\ l1[i].proc = l[i].proc /\ l1[i].end = l[i].end
                          /\ l1[i].start <= l[i].start
                          /\ i # 1 => l1[i].start = l[i].start
    <3>1. \A i \in 1 .. n : i # 1 => i \in 2 .. n
      OBVIOUS
    <3> QED
      BY <1>3, <2>4, <2>6, <3>1
  <2>10. \A i \in 1 .. n : l1[i].start < l1[i].end
    BY <1>3, <1>4, <2>8, <2>9, SMTT(60), ZenonT(60)
  <2>11. \A i, j \in 1 .. n : i < j => l1[i].end <= l1[j].start
    BY <1>4, <2>9
  <2>12. \A i \in 1 .. n : l1[i].proc # p => l1[i].end <= s \/ e <= l1[i].start
    <3>1. l[1].proc # p => l1[1].start = l[1].start
      BY <2>6, <2>7
    <3> QED
      BY <1>5, <2>9, <3>1
  \* The new start of the first record is the one of the section.
  <2>13. ASSUME NEW q, NEW b \in Int
         PROVE  /\ Covers(l, q, b) => Covers(l1, q, b)
                /\ Covers(l1, q, b) => Covers(l, q, b) \/ (q = p /\ s <= b /\ b < e)
    <3> DEFINE In(y) == y.proc = q /\ y.start <= b /\ b < y.end
    <3>1. Covers(l, q, b) <=> \E i \in 1 .. n : In(l[i])
      BY <1>2, CoversIs
    <3>2. Covers(l1, q, b) <=> \E i \in 1 .. n : In(l1[i])
      <4>1. Covers(l1, q, b) <=> \E i \in 1 .. Len(l1) : In(l1[i])
        BY <2>4, CoversIs
      <4> QED
        BY <2>4, <4>1
    <3>3. \A i \in 1 .. n : In(l[i]) => In(l1[i])
      BY <1>3, <2>8, <2>9
    <3>4. ASSUME NEW i \in 1 .. n, In(l1[i]) PROVE In(l[i]) \/ (q = p /\ s <= b /\ b < e)
      <4>1. CASE i # 1
        BY <2>9, <3>4, <4>1
      <4>2. CASE i = 1
        BY <1>3, <2>4, <2>5, <2>6, <2>7, <3>4, <4>2
      <4> QED
        BY <4>1, <4>2
    <3> QED
      BY <3>1, <3>2, <3>3, <3>4
  <2>14. l1[k].start <= s
    <3>1. CASE k = 1
      BY <1>3, <2>4, <2>6, <3>1
    <3>2. CASE k # 1
      <4>1. k \in 2 .. k /\ k \in 1 .. n
        BY <3>2
      <4>2. l1[k].start < s
        BY <2>3, <4>1 DEF AddBehind
      <4> QED
        BY <2>8, <4>2
    <3> QED
      BY <3>1, <3>2
  <2>15. ASSUME NEW j \in 1 .. n, k < j PROVE s <= l1[j].start
    <3>1. k < n /\ k + 1 \in 1 .. n
      BY <2>15
    <3>2. s <= l1[k + 1].start
      BY <2>3, <2>4, <3>1 DEF AddBehind
    <3>3. CASE j = k + 1
      BY <3>2, <3>3
    <3>4. CASE j # k + 1
      <4>1. k + 1 < j
        BY <2>15, <3>4
      <4>2. l1[k + 1].end <= l1[j].start
        BY <2>11, <3>1, <4>1
      <4> QED
        BY <2>8, <2>10, <3>1, <3>2, <4>2
    <3> QED
      BY <3>3, <3>4
  \* What others have behind k is behind the section.
  <2>16. ASSUME NEW j \in 1 .. n, k < j, l1[j].proc # p PROVE e <= l1[j].start
    BY <2>8, <2>10, <2>12, <2>15, <2>16
  <2>17. l1[k].proc # p => l1[k].end <= s
    BY <2>8, <2>12, <2>14
  <2>18. ASSUME NEW l2 \in Seq(NewRecord), NEW i \in 1 .. Len(l2), InOrderBut(l2, i), new = Absorb(l2, i).l,
                \A q : \A b \in Int :
                   Covers(l2, q, b) <=> Covers(l1, q, b) \/ (q = p /\ s <= b /\ b < e)
         PROVE  /\ InOrder(new)
                /\ \A q : \A b \in Int :
                      Covers(new, q, b) <=> Covers(l, q, b) \/ (q = p /\ s <= b /\ b < e)
    <3>1. InOrder(new) /\ \A q : \A b \in Int : Covers(new, q, b) <=> Covers(l2, q, b)
      BY <2>18, AbsorbBytes
    <3> QED
      BY <2>13, <2>18, <3>1
  <2>19. CASE k < Len(l1) /\ e <= l1[k].end /\ Add(l, p, s, e) = Kept(l1)
    <3>1. new = l1 /\ e <= l1[k].end
      BY <2>19 DEF Kept
    <3>2. InOrder(new)
      BY <2>4, <2>10, <2>11, <3>1 DEF InOrder
    <3>3. l1[k].proc = p
      BY <2>8, <2>17, <3>1
    <3>4. ASSUME NEW b \in Int, s <= b, b < e PROVE Covers(l1, p, b)
      <4>1. l1[k].start <= b /\ b < l1[k].end
        BY <2>8, <2>14, <3>1, <3>4
      <4>2. l1[k] \in ToSet(l1)
        BY <2>4 DEF ToSet
      <4> QED
        BY <3>3, <4>1, <4>2 DEF Covers
    <3> QED
      BY <2>13, <3>1, <3>2, <3>4
  <2>20. CASE /\ l1[k].proc = p /\ s <= l1[k].end
              /\ Add(l, p, s, e) = Absorb([l1 EXCEPT ![k].end = IF @ >= e THEN @ ELSE e], k)
    <3>1. PICK t \in Int : t = IF l1[k].end >= e THEN l1[k].end ELSE e
      BY <2>8
    <3>2. PICK y \in NewRecord : y = [l1[k] EXCEPT !.end = t]
      <4>1. l1[k] \in NewRecord
        BY <2>8
      <4> QED
        BY <4>1 DEF NewRecord
    <3>3. y.proc = p /\ y.start = l1[k].start /\ y.end = t /\ l1[k].end <= t /\ e <= t
      <4>1. l1[k] \in NewRecord
        BY <2>8
      <4>2. y.proc = l1[k].proc /\ y.start = l1[k].start /\ y.end = t
        BY <3>2, <4>1 DEF NewRecord
      <4> QED
        BY <2>8, <2>20, <3>1, <4>2
    <3>4. PICK l2 : l2 = [l1 EXCEPT ![k] = y]
      OBVIOUS
    <3>5. l2 = [l1 EXCEPT ![k].end = IF @ >= e THEN @ ELSE e]
      BY <3>1, <3>2, <3>4
    <3>6. /\ l2 \in Seq(NewRecord) /\ Len(l2) = n
          /\ \A i \in 1 .. n : l2[i] = IF i = k THEN y ELSE l1[i]
      BY <2>4, <3>4, ExceptSeq
    <3>7. InOrderBut(l2, k)
      <4>1. \A i \in 1 .. n : l2[i].start < l2[i].end
        BY <2>8, <2>10, <3>3, <3>6
      <4>2. \A i, j \in 1 .. n : i < j /\ i # k => l2[i].end <= l2[j].start
        BY <2>11, <3>3, <3>6
      <4>3. ASSUME NEW j \in 1 .. n, k < j
            PROVE  l2[k].start <= l2[j].start /\ (l2[j].proc # l2[k].proc => l2[k].end <= l2[j].start)
        <5>1. l2[j] = l1[j] /\ l2[k] = y
          BY <3>6, <4>3
        <5>2. l1[k].end <= l1[j].start
          BY <2>11, <4>3
        <5>3. l1[j].proc # p => e <= l1[j].start
          BY <2>16, <4>3
        <5> QED
          BY <2>8, <2>10, <3>1, <3>3, <5>1, <5>2, <5>3
      <4> QED
        BY <3>6, <4>1, <4>2, <4>3 DEF InOrderBut
    <3>8. ASSUME NEW q, NEW b \in Int
          PROVE  Covers(l2, q, b) <=> Covers(l1, q, b) \/ (q = p /\ s <= b /\ b < e)
      <4> DEFINE In(v) == v.proc = q /\ v.start <= b /\ b < v.end
      <4>1. Covers(l1, q, b) <=> \E i \in 1 .. n : In(l1[i])
        <5>1. Covers(l1, q, b) <=> \E i \in 1 .. Len(l1) : In(l1[i])
          BY <2>4, CoversIs
        <5> QED
          BY <2>4, <5>1
      <4>2. Covers(l2, q, b) <=> \E i \in 1 .. n : In(l2[i])
        <5>1. Covers(l2, q, b) <=> \E i \in 1 .. Len(l2) : In(l2[i])
          BY <3>6, CoversIs, SMTT(60), ZenonT(60)
        <5> QED
          BY <3>6, <5>1
      <4>3. In(y) <=> In(l1[k]) \/ (q = p /\ s <= b /\ b < e)
        BY <2>8, <2>14, <2>20, <3>1, <3>3
      <4>4. \A i \in 1 .. n : i # k => l2[i] = l1[i]
        BY <3>6
      <4>5. l2[k] = y
        BY <3>6
      <4> QED
        BY <4>1, <4>2, <4>3, <4>4, <4>5
    <3>9. new = Absorb(l2, k).l
      BY <2>20, <3>5
    <3> QED
      BY <2>18, <3>6, <3>7, <3>8, <3>9
  <2>21. CASE /\ l1[k].proc # p \/ l1[k].end < s
              /\ Add(l, p, s, e) = Absorb(InsertAt(l1, k + 1, Section(p, s, e)), k + 1)
    <3>1. PICK l2 : l2 = InsertAt(l1, k + 1, x)
      OBVIOUS
    <3>2. k + 1 \in 1 .. n + 1
      OBVIOUS
    <3>3. /\ l2 \in Seq(NewRecord) /\ Len(l2) = n + 1
          /\ \A j \in 1 .. n + 1 : l2[j] = IF j < k + 1 THEN l1[j] ELSE IF j = k + 1 THEN x ELSE l1[j - 1]
      <4>1. k + 1 \in 1 .. Len(l1) + 1
        BY <2>4, <3>2
      <4>2. /\ l2 \in Seq(NewRecord) /\ Len(l2) = Len(l1) + 1
            /\ \A j \in 1 .. Len(l1) + 1 :
                  l2[j] = IF j < k + 1 THEN l1[j] ELSE IF j = k + 1 THEN x ELSE l1[j - 1]
        <5>1. PICK c \in 1 .. Len(l1) + 1 : c = k + 1
          BY <4>1
        <5>2. Inserted(l1, c, x, InsertAt(l1, c, x))
          BY <2>4, InsertedRecord
        <5> QED
          BY <3>1, <5>1, <5>2 DEF Inserted
      <4> QED
        BY <2>4, <4>2
    <3>4. l1[k].end <= s
      BY <2>8, <2>17, <2>21
    <3>5. \A j \in 1 .. n + 1 : j < k + 1 => j \in 1 .. n /\ j <= k /\ l2[j] = l1[j]
      BY <3>3
    <3>6. l2[k + 1] = x
      BY <3>2, <3>3
    <3>7. \A j \in 1 .. n + 1 : k + 1 < j => j - 1 \in 1 .. n /\ k < j - 1 /\ l2[j] = l1[j - 1]
      BY <3>3
    <3>8. InOrderBut(l2, k + 1)
      <4>1. ASSUME NEW i \in 1 .. n + 1 PROVE l2[i].start < l2[i].end
        BY <1>1, <2>10, <3>5, <3>6, <3>7
      <4>2. ASSUME NEW i \in 1 .. n + 1, NEW j \in 1 .. n + 1, i < j, i # k + 1
            PROVE  l2[i].end <= l2[j].start
        <5>1. CASE j < k + 1
          BY <2>11, <3>5, <4>2, <5>1
        <5>2. CASE j = k + 1
          <6>1. i \in 1 .. n /\ i <= k /\ l2[i] = l1[i]
            BY <3>5, <4>2, <5>2
          <6>2. CASE i = k
            BY <1>1, <3>4, <3>6, <5>2, <6>1, <6>2
          <6>3. CASE i # k
            <7>1. l1[i].end <= l1[k].start
              BY <2>11, <6>1, <6>3
            <7> QED
              BY <1>1, <2>8, <2>14, <3>6, <5>2, <6>1, <7>1
          <6> QED
            BY <6>2, <6>3
        <5>3. CASE k + 1 < j
          <6>1. j - 1 \in 1 .. n /\ k < j - 1 /\ l2[j] = l1[j - 1]
            BY <3>7, <5>3
          <6>2. CASE i < k + 1
            <7>1. i \in 1 .. n /\ i < j - 1 /\ l2[i] = l1[i]
              BY <3>5, <5>3, <6>2
            <7> QED
              BY <2>11, <6>1, <7>1
          <6>3. CASE k + 1 < i
            <7>1. i - 1 \in 1 .. n /\ i - 1 < j - 1 /\ l2[i] = l1[i - 1]
              BY <3>7, <4>2, <6>3
            <7> QED
              BY <2>11, <6>1, <7>1
          <6> QED
            BY <4>2, <6>2, <6>3
        <5> QED
          BY <5>1, <5>2, <5>3
      <4>3. ASSUME NEW j \in 1 .. n + 1, k + 1 < j
            PROVE  /\ l2[k + 1].start <= l2[j].start
                   /\ l2[j].proc # l2[k + 1].proc => l2[k + 1].end <= l2[j].start
        BY <1>1, <2>15, <2>16, <3>6, <3>7, <4>3
      <4> QED
        BY <3>3, <4>1, <4>2, <4>3 DEF InOrderBut
    <3>9. ASSUME NEW q, NEW b \in Int
          PROVE  Covers(l2, q, b) <=> Covers(l1, q, b) \/ (q = p /\ s <= b /\ b < e)
      <4> DEFINE In(v) == v.proc = q /\ v.start <= b /\ b < v.end
      <4>1. Covers(l1, q, b) <=> \E i \in 1 .. n : In(l1[i])
        <5>1. Covers(l1, q, b) <=> \E i \in 1 .. Len(l1) : In(l1[i])
          BY <2>4, CoversIs
        <5> QED
          BY <2>4, <5>1
      <4>2. Covers(l2, q, b) <=> \E i \in 1 .. n + 1 : In(l2[i])
        <5>1. Covers(l2, q, b) <=> \E i \in 1 .. Len(l2) : In(l2[i])
          BY <3>3, CoversIs
        <5> QED
          BY <3>3, <5>1
      <4>3. In(x) <=> (q = p /\ s <= b /\ b < e)
        BY <1>1
      <4>4. ASSUME NEW i \in 1 .. n + 1, In(l2[i])
            PROVE  (\E j \in 1 .. n : In(l1[j])) \/ In(x)
        <5>1. CASE i < k + 1
          <6>1. i \in 1 .. n /\ l2[i] = l1[i]
            BY <3>5, <5>1
          <6>2. In(l1[i])
            BY <4>4, <6>1
          <6> QED
            BY <6>1, <6>2
        <5>2. CASE i = k + 1
          <6>1. In(x)
            BY <3>6, <4>4, <5>2
          <6> QED
            BY <6>1
        <5>3. CASE k + 1 < i
          <6>1. i - 1 \in 1 .. n /\ l2[i] = l1[i - 1]
            BY <3>7, <5>3
          <6>2. In(l1[i - 1])
            BY <4>4, <6>1
          <6> QED
            BY <6>1, <6>2
        <5> QED
          BY <5>1, <5>2, <5>3
      <4>5. ASSUME NEW j \in 1 .. n, In(l1[j]) PROVE \E i \in 1 .. n + 1 : In(l2[i])
        <5>1. CASE j <= k
          <6>1. j \in 1 .. n + 1 /\ j < k + 1
            BY <5>1
          <6> QED
            BY <3>5, <4>5, <6>1
        <5>2. CASE k < j
          <6>1. j + 1 \in 1 .. n + 1 /\ k + 1 < j + 1 /\ j + 1 - 1 = j
            BY <5>2
          <6>2. l2[j + 1] = l1[j]
            BY <3>7, <6>1
          <6> QED
            BY <4>5, <6>1, <6>2
        <5> QED
          BY <5>1, <5>2
      <4>6. k + 1 \in 1 .. n + 1
        OBVIOUS
      <4> QED
        BY <3>6, <4>1, <4>2, <4>3, <4>4, <4>5, <4>6
    <3>10. new = Absorb(l2, k + 1).l
      BY <1>1, <2>21, <3>1
    <3>11. k + 1 \in 1 .. Len(l2)
      BY <3>2, <3>3
    <3> QED
      BY <2>18, <3>3, <3>8, <3>9, <3>10, <3>11
  <2> QED
    BY <2>3, <2>19, <2>20, <2>21 DEF AddBehind
<1> QED
  BY <1>6, <1>7

-----------------------------------------------------------------------------
(* The sections that a release leaves *)

Has(x, q, b) == x.proc = q /\ x.start <= b /\ b < x.end

\* part is of the bytes of x.
Within(x, part) == /\ InOrder(part)
                   /\ \A j \in 1 .. Len(part) : x.start <= part[j].start /\ part[j].end <= x.end

LEMMA OneWithin ==
    ASSUME NEW x \in NewRecord, x.start < x.end
    PROVE  Within(x, <<x>>)
<1>1. PICK l \in Seq(NewRecord) : l = <<x>> /\ Len(l) = 1 /\ l[1] = x
  BY OneRecord
<1>2. x.start \in Int /\ x.end \in Int
  BY DEF NewRecord
<1>3. \A j \in 1 .. Len(l) : j = 1
  BY <1>1
<1>4. InOrder(l)
  BY <1>1, <1>3 DEF InOrder
<1> QED
  BY <1>1, <1>2, <1>3, <1>4 DEF Within

LEMMA NoneWithin ==
    ASSUME NEW x, NEW part, part = <<>>
    PROVE  Within(x, part)
<1>1. Len(part) = 0
  OBVIOUS
<1>2. \A j \in 1 .. Len(part) : FALSE
  BY <1>1
<1> QED
  BY <1>2 DEF Within, InOrder

\* Parts of the records of a list in order, put behind each other, are in order.
LEMMA PartsInOrder ==
    ASSUME NEW l \in Seq(NewRecord), InOrder(l), NEW n \in Nat, n = Len(l),
           NEW parts \in [1 .. n -> Seq(NewRecord)], \A i \in 1 .. n : Within(l[i], parts[i]),
           NEW new, new = FlattenSeq(parts)
    PROVE  InOrder(new)
<1>1. PICK from : ComesFrom(new, n, parts, from)
  BY FlattenFacts
<1>2. new \in Seq(NewRecord)
  BY FlattenFacts
<1>3. \A i \in 1 .. n : l[i].start \in Int /\ l[i].end \in Int
  BY RecordInts
<1>4. \A i \in 1 .. Len(new) : new[i].start \in Int /\ new[i].end \in Int
  BY <1>2, RecordInts
<1>5. ASSUME NEW i \in 1 .. Len(new), NEW a, NEW c, a = from[i][1], c = from[i][2]
      PROVE  /\ a \in 1 .. n /\ c \in 1 .. Len(parts[a]) /\ new[i] = parts[a][c]
             /\ new[i].start < new[i].end
             /\ l[a].start <= new[i].start /\ new[i].end <= l[a].end
  <2>1. a \in 1 .. n /\ c \in 1 .. Len(parts[a]) /\ new[i] = parts[a][c]
    <3>1. from[i] \in (1 .. n) \X Nat
      BY <1>1 DEF ComesFrom
    <3> QED
      BY <1>1, <1>5, <3>1 DEF ComesFrom
  <2>2. Within(l[a], parts[a])
    BY <2>1
  <2> QED
    BY <2>1, <2>2 DEF Within, InOrder
<1>6. ASSUME NEW i \in 1 .. Len(new), NEW j \in 1 .. Len(new), i < j
      PROVE  new[i].end <= new[j].start
  <2>1. PICK a, c : a = from[i][1] /\ c = from[i][2]
    OBVIOUS
  <2>2. PICK d, g : d = from[j][1] /\ g = from[j][2]
    OBVIOUS
  <2>3. /\ a \in 1 .. n /\ c \in 1 .. Len(parts[a]) /\ new[i] = parts[a][c] /\ new[i].end <= l[a].end
    BY <1>5, <2>1
  <2>4. /\ d \in 1 .. n /\ g \in 1 .. Len(parts[d]) /\ new[j] = parts[d][g] /\ l[d].start <= new[j].start
    BY <1>5, <2>2
  <2>5. a < d \/ (a = d /\ c < g)
    BY <1>1, <1>6, <2>1, <2>2 DEF ComesFrom
  <2>6. CASE a < d
    <3>1. l[a].end <= l[d].start
      BY <2>3, <2>4, <2>6 DEF InOrder
    <3> QED
      BY <1>3, <1>4, <2>3, <2>4, <3>1, SMTT(60), ZenonT(60)
  <2>7. CASE a = d /\ c < g
    <3>1. InOrder(parts[a])
      BY <2>3 DEF Within
    <3> QED
      BY <2>3, <2>4, <2>7, <3>1 DEF InOrder
  <2> QED
    BY <2>5, <2>6, <2>7
<1> QED
  BY <1>5, <1>6 DEF InOrder

\* The bytes that are covered by parts put behind each other.
LEMMA PartsCover ==
    ASSUME NEW n \in Nat, NEW parts \in [1 .. n -> Seq(NewRecord)], NEW q, NEW b
    PROVE  Covers(FlattenSeq(parts), q, b) <=>
               \E i \in 1 .. n : \E y \in ToSet(parts[i]) : Has(y, q, b)
<1>1. ToSet(FlattenSeq(parts)) = UNION {ToSet(parts[i]) : i \in 1 .. n}
  BY FlattenFacts
<1> QED
  BY <1>1 DEF Covers, Has

\* Of a record that is cut, what is outside of the section stays.
LEMMA RestBytes ==
    ASSUME LkTypes, NEW x \in NewRecord, x.start < x.end, NEW s \in Int, NEW e \in Int, s < e,
           x.start < e, s < x.end, NEW rest, rest = Rest(x, s, e)
    PROVE  /\ Within(x, rest)
           /\ \A q : \A b \in Int : (\E y \in ToSet(rest) : Has(y, q, b)) <=>
                                        Has(x, q, b) /\ ~(s <= b /\ b < e)
<1>0. x.start \in Int /\ x.end \in Int /\ x.proc \in LkProcs
  BY DEF NewRecord
<1>1. PICK left : left = [x EXCEPT !.end = s, !.wait = FALSE]
  OBVIOUS
<1>2. PICK right : right = [x EXCEPT !.start = e, !.wait = FALSE]
  OBVIOUS
<1>3. PICK new \in NewRecord : /\ new = Section(x.proc, e, x.end)
                               /\ new.proc = x.proc /\ new.start = e /\ new.end = x.end
  BY <1>0, SectionFacts
<1>4. left \in NewRecord /\ left.proc = x.proc /\ left.start = x.start /\ left.end = s
  BY <1>1 DEF NewRecord
<1>5. right \in NewRecord /\ right.proc = x.proc /\ right.start = e /\ right.end = x.end
  BY <1>2 DEF NewRecord
<1>6. CASE x.start < s /\ e < x.end
  <2>1. rest = <<left, new>>
    BY <1>0, <1>1, <1>2, <1>3, <1>6 DEF Rest
  <2>2. ToSet(rest) = {left, new}
    BY <1>3, <1>4, <2>1, TwoRecords
  <2>3. Len(rest) = 2 /\ rest[1] = left /\ rest[2] = new
    BY <2>1
  <2>4. \A j \in 1 .. Len(rest) : j = 1 \/ j = 2
    BY <2>3
  <2>5. InOrder(rest)
    BY <1>0, <1>3, <1>4, <1>6, <2>3, <2>4 DEF InOrder
  <2>6. Within(x, rest)
    BY <1>0, <1>3, <1>4, <1>6, <2>3, <2>4, <2>5 DEF Within
  <2>7. ASSUME NEW q, NEW b \in Int
        PROVE  (Has(left, q, b) \/ Has(new, q, b)) <=> Has(x, q, b) /\ ~(s <= b /\ b < e)
    BY <1>0, <1>3, <1>4, <1>6 DEF Has
  <2> QED
    BY <2>2, <2>6, <2>7
<1>7. CASE x.start < s /\ x.end <= e
  <2>1. rest = <<left>>
    BY <1>0, <1>1, <1>7 DEF Rest
  <2>2. ToSet(rest) = {left} /\ Len(rest) = 1 /\ rest[1] = left
    BY <1>4, <2>1, OneRecord
  <2>3. \A j \in 1 .. Len(rest) : j = 1
    BY <2>2
  <2>4. InOrder(rest)
    BY <1>0, <1>4, <1>7, <2>2, <2>3 DEF InOrder
  <2>5. Within(x, rest)
    BY <1>0, <1>4, <1>7, <2>2, <2>3, <2>4 DEF Within
  <2>6. ASSUME NEW q, NEW b \in Int
        PROVE  Has(left, q, b) <=> Has(x, q, b) /\ ~(s <= b /\ b < e)
    BY <1>0, <1>4, <1>7 DEF Has
  <2> QED
    BY <2>2, <2>5, <2>6
<1>8. CASE s <= x.start /\ e < x.end
  <2>1. rest = <<right>>
    BY <1>0, <1>2, <1>8 DEF Rest
  <2>2. ToSet(rest) = {right} /\ Len(rest) = 1 /\ rest[1] = right
    BY <1>5, <2>1, OneRecord
  <2>3. \A j \in 1 .. Len(rest) : j = 1
    BY <2>2
  <2>4. InOrder(rest)
    BY <1>0, <1>5, <1>8, <2>2, <2>3 DEF InOrder
  <2>5. Within(x, rest)
    BY <1>0, <1>5, <1>8, <2>2, <2>3, <2>4 DEF Within
  <2>6. ASSUME NEW q, NEW b \in Int
        PROVE  Has(right, q, b) <=> Has(x, q, b) /\ ~(s <= b /\ b < e)
    BY <1>0, <1>5, <1>8 DEF Has
  <2> QED
    BY <2>2, <2>5, <2>6
<1>9. CASE s <= x.start /\ x.end <= e
  <2>1. rest = <<>>
    BY <1>0, <1>9 DEF Rest
  <2>2. ToSet(rest) = {}
    BY <2>1 DEF ToSet
  <2>3. Within(x, rest)
    BY <2>1, NoneWithin
  <2>4. ASSUME NEW q, NEW b \in Int
        PROVE  ~(Has(x, q, b) /\ ~(s <= b /\ b < e))
    BY <1>0, <1>9 DEF Has
  <2> QED
    BY <2>2, <2>3, <2>4
<1> QED
  BY <1>0, <1>6, <1>7, <1>8, <1>9

\* In a list in order a record that ends behind the section is the last that is in it.
LEMMA TouchedIs ==
    ASSUME NEW l \in Seq(NewRecord), InOrder(l), NEW p, NEW s \in Int, NEW e \in Int, NEW i \in 1 .. Len(l)
    PROVE  i \in Touched(l, p, s, e) <=> Overlaps(l[i], p, s, e)
<1>1. \A j \in 1 .. Len(l) : l[j].start \in Int /\ l[j].end \in Int
  BY RecordInts
<1>2. ASSUME Overlaps(l[i], p, s, e), NEW j \in 1 .. i - 1
      PROVE  l[j].end <= e
  <2>1. j \in 1 .. Len(l) /\ j < i
    BY RecordInts
  <2>2. l[j].end <= l[i].start
    BY <2>1 DEF InOrder
  <2> QED
    BY <1>1, <1>2, <2>1, <2>2 DEF Overlaps
<1> QED
  BY <1>2 DEF Touched

LEMMA UlockBytes ==
    ASSUME LkTypes, NEW p \in LkProcs, NEW l \in Seq(LockRecord), NEW s \in Int, NEW e \in Int, s < e,
           InOrder(l), NEW new, new = Ulock(l, p, s, e)
    PROVE  /\ InOrder(new)
           /\ \A q : \A b \in Int : Covers(new, q, b) <=> Covers(l, q, b) /\ ~(q = p /\ s <= b /\ b < e)
<1>1. l \in Seq(NewRecord)
  BY OldIsNew
<1>2. PICK n \in Nat : n = Len(l)
  BY <1>1, RecordInts
<1>3. PICK parts : parts = [i \in 1 .. n |-> UlockPart(l, p, s, e, i)]
  OBVIOUS
<1>4. new = FlattenSeq(parts)
  BY <1>2, <1>3 DEF Ulock, UlockPart
<1>5. \A i \in 1 .. n : /\ l[i] \in NewRecord /\ l[i].start < l[i].end
                        /\ l[i].start \in Int /\ l[i].end \in Int
  BY <1>1, <1>2, RecordInts DEF InOrder
<1>6. ASSUME NEW i \in 1 .. n
      PROVE  /\ parts[i] \in Seq(NewRecord) /\ Within(l[i], parts[i])
             /\ \A q : \A b \in Int : (\E y \in ToSet(parts[i]) : Has(y, q, b)) <=>
                                          Has(l[i], q, b) /\ ~(q = p /\ s <= b /\ b < e)
  <2>1. i \in Touched(l, p, s, e) <=> Overlaps(l[i], p, s, e)
    BY <1>1, <1>2, TouchedIs
  <2>2. CASE Overlaps(l[i], p, s, e)
    <3>1. parts[i] = Rest(l[i], s, e)
      BY <1>3, <2>1, <2>2 DEF UlockPart
    <3>2. l[i].proc = p /\ l[i].start < e /\ s < l[i].end
      BY <2>2 DEF Overlaps
    <3>3. parts[i] \in Seq(NewRecord)
      BY <1>5, <3>1, RestFacts
    <3>4. /\ Within(l[i], parts[i])
          /\ \A q : \A b \in Int : (\E y \in ToSet(parts[i]) : Has(y, q, b)) <=>
                                       Has(l[i], q, b) /\ ~(s <= b /\ b < e)
      BY <1>5, <3>1, <3>2, RestBytes
    <3>5. \A q, b : Has(l[i], q, b) => q = p
      BY <3>2 DEF Has
    <3> QED
      BY <3>3, <3>4, <3>5
  <2>3. CASE ~Overlaps(l[i], p, s, e)
    <3>1. parts[i] = <<l[i]>>
      BY <1>3, <2>1, <2>3 DEF UlockPart
    <3>2. parts[i] \in Seq(NewRecord) /\ ToSet(parts[i]) = {l[i]}
      BY <1>5, <3>1, OneRecord
    <3>3. Within(l[i], parts[i])
      BY <1>5, <3>1, OneWithin
    <3>4. ASSUME NEW q, NEW b \in Int, Has(l[i], q, b) PROVE ~(q = p /\ s <= b /\ b < e)
      BY <1>5, <2>3, <3>4 DEF Has, Overlaps
    <3> QED
      BY <3>2, <3>3, <3>4
  <2> QED
    BY <2>2, <2>3
<1>7. parts \in [1 .. n -> Seq(NewRecord)]
  BY <1>3, <1>6
<1>8. InOrder(new)
  BY <1>1, <1>2, <1>4, <1>6, <1>7, PartsInOrder
<1>9. ASSUME NEW q, NEW b \in Int
      PROVE  Covers(new, q, b) <=> Covers(l, q, b) /\ ~(q = p /\ s <= b /\ b < e)
  <2>1. Covers(new, q, b) <=> \E i \in 1 .. n : \E y \in ToSet(parts[i]) : Has(y, q, b)
    BY <1>4, <1>7, PartsCover
  <2>2. Covers(l, q, b) <=> \E i \in 1 .. n : Has(l[i], q, b)
    BY <1>1, <1>2, CoversIs DEF Has
  <2> QED
    BY <1>6, <2>1, <2>2
<1> QED
  BY <1>8, <1>9

\* At a close all records of p go.
LEMMA OthersBytes ==
    ASSUME NEW p, NEW l \in Seq(LockRecord), InOrder(l), NEW new, new = Others(l, p)
    PROVE  /\ InOrder(new)
           /\ \A q, b : Covers(new, q, b) <=> Covers(l, q, b) /\ q # p
<1>1. l \in Seq(NewRecord)
  BY OldIsNew
<1>2. PICK n \in Nat : n = Len(l)
  BY <1>1, RecordInts
<1>3. PICK parts : parts = [i \in 1 .. n |-> IF l[i].proc = p THEN <<>> ELSE <<l[i]>>]
  OBVIOUS
<1>4. new = FlattenSeq(parts)
  BY <1>2, <1>3 DEF Others
<1>5. \A i \in 1 .. n : l[i] \in NewRecord /\ l[i].start < l[i].end
  BY <1>1, <1>2, RecordInts DEF InOrder
<1>6. ASSUME NEW i \in 1 .. n
      PROVE  parts[i] \in Seq(NewRecord) /\ Within(l[i], parts[i])
  <2>1. CASE l[i].proc = p
    BY <1>3, <2>1, NoneWithin
  <2>2. CASE l[i].proc # p
    <3>1. parts[i] = <<l[i]>>
      BY <1>3, <2>2
    <3> QED
      BY <1>5, <3>1, OneRecord, OneWithin
  <2> QED
    BY <2>1, <2>2
<1>7. parts \in [1 .. n -> Seq(NewRecord)]
  BY <1>3, <1>6
<1>8. InOrder(new)
  BY <1>1, <1>2, <1>4, <1>6, <1>7, PartsInOrder
<1>9. ToSet(new) = {x \in ToSet(l) : x.proc # p}
  BY OthersFacts
<1> QED
  BY <1>8, <1>9 DEF Covers

\* Marks change neither the order nor the sections.
LEMMA SameBytes ==
    ASSUME NEW l \in Seq(LockRecord), InOrder(l), NEW new \in Seq(LockRecord), Len(new) = Len(l),
           \A i \in 1 .. Len(l) : /\ new[i].proc = l[i].proc
                                  /\ new[i].start = l[i].start /\ new[i].end = l[i].end
    PROVE  InOrder(new) /\ \A q, b : Covers(new, q, b) <=> Covers(l, q, b)
<1>1. InOrder(new)
  BY DEF InOrder
<1>2. ASSUME NEW q, NEW b PROVE Covers(new, q, b) <=> Covers(l, q, b)
  BY CoversIs
<1> QED
  BY <1>1, <1>2

-----------------------------------------------------------------------------
(* Lockf implements ByteLocks *)

\* No call names a section without a byte.
NoEmpty == \A g \in LkCalls : g[2] < 0 => g[1] > 0

Proper(r) == /\ r \in LockRequest /\ r.start < r.end
             /\ r.type = IF r.cmd \in {"LOCK", "TLOCK"} THEN "W" ELSE IF r.cmd = "ULOCK" THEN "U" ELSE "T"

LkOrdered == /\ \A f \in LkFiles : InOrder(locklist[f])
             /\ \A p \in LkProcs : lkPc[p] # "user" => Proper(lkReq[p]) /\ lkReq[p].cmd # "ULOCK"

\* The locks of the processes, as ByteLocks has them.
lkHeld == [p \in LkProcs |-> [f \in LkFiles |-> [b \in LkBytes |->
              IF Covers(locklist[f], p, b) THEN "W" ELSE "N"]]]

LEMMA RequestProper ==
    ASSUME NoEmpty, NEW f \in LkFiles, NEW cmd \in Cmds, NEW g \in LkCalls
    PROVE  Proper(LkRequest(f, cmd, g)) /\ LkRequest(f, cmd, g).cmd = cmd
<1>1. g \in (0 .. EndOfFile - 1) \X (-EndOfFile .. EndOfFile) /\ EndOfFile \in Int
  BY LockfAssumption
<1>2. PICK o \in Int, size \in Int : o = g[1] /\ size = g[2] /\ o \in 0 .. EndOfFile - 1
  BY <1>1
<1>3. size < 0 => o > 0
  BY <1>2 DEF NoEmpty
<1>4. Max({0, o + size}) = IF 0 >= o + size THEN 0 ELSE o + size
  BY <1>2, MaxOfTwo
<1>5. PICK section : section = FromTo(o, size)
  OBVIOUS
<1>6. section[1] < section[2]
  <2>1. CASE size > 0
    <3>1. section = <<o, o + size>>
      BY <1>5, <2>1 DEF FromTo
    <3> QED
      BY <2>1, <3>1
  <2>2. CASE size = 0
    <3>1. section = <<o, EndOfFile>>
      BY <1>5, <2>2 DEF FromTo
    <3> QED
      BY <1>1, <1>2, <3>1
  <2>3. CASE size < 0
    <3>1. section = <<Max({0, o + size}), o>>
      BY <1>5, <2>3 DEF FromTo
    <3> QED
      BY <1>2, <1>3, <1>4, <2>3, <3>1
  <2> QED
    BY <2>1, <2>2, <2>3
<1>7. PICK t : t = CASE cmd \in {"LOCK", "TLOCK"} -> "W" [] cmd = "ULOCK" -> "U" [] OTHER -> "T"
  OBVIOUS
<1>8. t = IF cmd \in {"LOCK", "TLOCK"} THEN "W" ELSE IF cmd = "ULOCK" THEN "U" ELSE "T"
  BY <1>7
<1>9. LkRequest(f, cmd, g) = [file |-> f, cmd |-> cmd, start |-> section[1], end |-> section[2], type |-> t]
  BY <1>2, <1>5, <1>7 DEF LkRequest
<1>10. LkRequest(f, cmd, g) \in LockRequest
  BY RequestTypes
<1> QED
  BY <1>6, <1>8, <1>9, <1>10 DEF Proper

-----------------------------------------------------------------------------
(* The lists stay in order *)

LEMMA ReturnOrdered ==
    ASSUME LkTypes, LkOrdered, NEW p \in LkProcs, NEW r, r.file \in LkFiles, NEW res, NEW W,
           NEW new, InOrder(new), LkReturn(p, r, res, new, W)
    PROVE  LkOrdered'
<1> DEFINE up == {q \in LkProcs \ {p} : lkPc[q] = "asleep" /\ lkWchan[q] \in W}
<1>1. /\ locklist' = [locklist EXCEPT ![r.file] = new]
      /\ lkPc' = [q \in LkProcs |-> IF q = p THEN "user" ELSE IF q \in up THEN "woken" ELSE lkPc[q]]
      /\ lkReq' = [lkReq EXCEPT ![p] = Unused]
  BY DEF LkReturn
<1>2. \A f \in LkFiles : locklist'[f] = IF f = r.file THEN new ELSE locklist[f]
  BY <1>1 DEF LkTypes
<1>3. \A f \in LkFiles : InOrder(locklist'[f])
  BY <1>2 DEF LkOrdered
<1>4. ASSUME NEW q \in LkProcs, lkPc'[q] # "user"
      PROVE  lkReq'[q] = lkReq[q] /\ lkPc[q] # "user"
  BY <1>1, <1>4 DEF LkTypes
<1> QED
  BY <1>3, <1>4 DEF LkOrdered

\* What Waits does with the list.
LEMMA MarkedFacts ==
    ASSUME LkTypes, NEW p \in LkProcs, NEW r \in LockRequest, Waits(p, r),
           NEW l, l = locklist[r.file], InOrder(l)
    PROVE  \E new : /\ locklist' = [locklist EXCEPT ![r.file] = new]
                    /\ InOrder(new)
                    /\ \A q, b : Covers(new, q, b) <=> Covers(l, q, b)
<1>1. r.file \in LkFiles /\ l \in Seq(LockRecord)
  BY DEF LkTypes, LockRequest
<1>2. PICK i : i = Min(InSection(l, p, r))
  OBVIOUS
<1>3. /\ InSection(l, p, r) # {}
      /\ locklist' = [locklist EXCEPT ![r.file] = [l EXCEPT ![i].wait = TRUE]]
  BY <1>2 DEF Waits
<1>4. i \in 1 .. Len(l)
  <2>1. i \in InSection(l, p, r)
    BY <1>1, <1>2, <1>3, InWay
  <2> QED
    BY <1>1, <2>1 DEF InSection
<1>5. l[i] \in LockRecord
  BY <1>1, <1>4, ElementOfSeq
<1>6. PICK y : y = [l[i] EXCEPT !.wait = TRUE]
  OBVIOUS
<1>7. y \in LockRecord /\ y.proc = l[i].proc /\ y.start = l[i].start /\ y.end = l[i].end
  BY <1>5, <1>6 DEF LockRecord
<1>8. PICK new : new = [l EXCEPT ![i] = y]
  OBVIOUS
<1>9. /\ new \in Seq(LockRecord) /\ Len(new) = Len(l)
      /\ \A j \in 1 .. Len(l) : new[j] = IF j = i THEN y ELSE l[j]
  BY <1>1, <1>4, <1>7, <1>8
<1>10. InOrder(new) /\ \A q, b : Covers(new, q, b) <=> Covers(l, q, b)
  BY <1>1, <1>7, <1>9, SameBytes
<1> QED
  BY <1>3, <1>6, <1>8, <1>10

-----------------------------------------------------------------------------
(* The steps of ByteLocks *)

\* The list new has the locks of l, but those of p on the bytes in S are t.
Puts(new, l, p, S, t) ==
    \A q \in LkProcs, b \in LkBytes :
        Covers(new, q, b) <=> IF q = p /\ b \in S THEN t = "W" ELSE Covers(l, q, b)

\* The list of a file has changed, and with it the locks of p on the bytes in S.
LEMMA HeldPut ==
    ASSUME LkTypes, NEW p \in LkProcs, NEW r, NEW f \in LkFiles, f = r.file, NEW new,
           locklist' = [locklist EXCEPT ![f] = new], NEW S \in SUBSET LkBytes, NEW t \in {"W", "N"},
           Puts(new, locklist[f], p, S, t)
    PROVE  Locks!Put(p, r, S, t)
<1> USE DEF Puts
<1>1. \A g \in LkFiles : locklist'[g] = IF g = f THEN new ELSE locklist[g]
  BY DEF LkTypes
<1>2. PICK h : h = [lkHeld EXCEPT ![p][f] = [b \in LkBytes |-> IF b \in S THEN t ELSE lkHeld[p][f][b]]]
  OBVIOUS
<1>3. \A q \in LkProcs, g \in LkFiles, b \in LkBytes :
          h[q][g][b] = IF q = p /\ g = f /\ b \in S THEN t ELSE lkHeld[q][g][b]
  BY <1>2 DEF lkHeld
<1>4. \A q \in LkProcs, g \in LkFiles, b \in LkBytes :
          lkHeld[q][g][b] = IF Covers(locklist[g], q, b) THEN "W" ELSE "N"
  BY DEF lkHeld
<1>5. ASSUME NEW q \in LkProcs, NEW g \in LkFiles, NEW b \in LkBytes
      PROVE  h[q][g][b] = IF Covers(locklist'[g], q, b) THEN "W" ELSE "N"
  <2>1. CASE g = f
    BY <1>1, <1>3, <1>4, <2>1
  <2>2. CASE g # f
    BY <1>1, <1>3, <1>4, <2>2
  <2> QED
    BY <2>1, <2>2
<1>6. h = [q \in LkProcs |-> [g \in LkFiles |-> [b \in LkBytes |-> h[q][g][b]]]]
  BY <1>2 DEF lkHeld
<1>7. lkHeld' = [q \in LkProcs |-> [g \in LkFiles |-> [b \in LkBytes |->
                    IF Covers(locklist'[g], q, b) THEN "W" ELSE "N"]]]
  BY DEF lkHeld, LkBytes
<1>8. [q \in LkProcs |-> [g \in LkFiles |-> [b \in LkBytes |-> h[q][g][b]]]] =
      [q \in LkProcs |-> [g \in LkFiles |-> [b \in LkBytes |->
          IF Covers(locklist'[g], q, b) THEN "W" ELSE "N"]]]
  BY <1>5
<1>9. lkHeld' = [lkHeld EXCEPT ![p][f] = [b \in LkBytes |-> IF b \in S THEN t ELSE lkHeld[p][f][b]]]
  BY <1>2, <1>6, <1>7, <1>8
<1> QED
  BY <1>9 DEF Locks!Put, lkHeld, Covers

\* The list of a file has changed, but no lock.
LEMMA HeldSame ==
    ASSUME LkTypes, NEW f \in LkFiles, NEW new, locklist' = [locklist EXCEPT ![f] = new],
           \A q \in LkProcs, b \in LkBytes : Covers(new, q, b) <=> Covers(locklist[f], q, b)
    PROVE  lkHeld' = lkHeld
<1>1. \A g \in LkFiles : locklist'[g] = IF g = f THEN new ELSE locklist[g]
  BY DEF LkTypes
<1>2. \A q \in LkProcs, g \in LkFiles, b \in LkBytes :
          Covers(locklist'[g], q, b) <=> Covers(locklist[g], q, b)
  BY <1>1
<1>3. lkHeld' = [q \in LkProcs |-> [g \in LkFiles |-> [b \in LkBytes |->
                    IF Covers(locklist'[g], q, b) THEN "W" ELSE "N"]]]
  BY DEF lkHeld, LkBytes
<1> QED
  BY <1>2, <1>3 DEF lkHeld

\* Nothing returns, and the locks stay.
LEMMA LocksStutter ==
    ASSUME lkHeld' = lkHeld, lkLast' = lkLast
    PROVE  [Locks!Next]_(Locks!vars)
BY DEF Locks!vars, lkHeld, Covers

CloseRequest(f) == [file |-> f, type |-> "C"]

\* A call returns, and the locks are as ByteLocks says.
LEMMA LocksNext ==
    ASSUME NEW p \in LkProcs, NEW r, r \in LockRequest \/ \E f \in LkFiles : r = CloseRequest(f),
           NEW res \in {"ok", "EDEADLK", "EACCES", "EINTR"},
           lkLast' = [p |-> p, r |-> r, res |-> res],
           IF res = "ok" THEN Locks!Lock(p, r) \/ Locks!Unlock(p, r) \/ Locks!Close(p, r) \/ Locks!Use(p, r)
                         ELSE lkHeld' = lkHeld
    PROVE  [Locks!Next]_(Locks!vars)
<1>1. r \in LockRequest \cup [file : LkFiles, type : {"C"}]
  BY DEF CloseRequest
<1>2. lkLast' \in [p : LkProcs, r : LockRequest \cup [file : LkFiles, type : {"C"}],
                   res : {"ok", "EDEADLK", "EACCES", "EINTR"}]
  BY <1>1
<1>3. lkLast' # Unused
  BY <1>2, UnusedAssumption
<1>4. lkLast'.p = p /\ lkLast'.r = r /\ lkLast'.res = res
  OBVIOUS
<1>5. res # "ok" => Locks!Fail(p, r, res)
  BY DEF Locks!Fail, lkHeld, Covers
<1>6. Locks!Return(p, r, res)
  BY <1>5 DEF Locks!Return
<1>7. PICK call : call = lkLast'
  OBVIOUS
<1>8. Locks!Return(call.p, call.r, call.res)
  <2>1. call.p = p /\ call.r = r /\ call.res = res
    BY <1>4, <1>7
  <2> QED
    BY <1>6, <2>1
<1>9. Locks!Next
  BY <1>3, <1>7, <1>8 DEF Locks!Next
<1> QED
  BY <1>9

\* A call that fails.
LEMMA FailIsStep ==
    ASSUME LkTypes, NEW p \in LkProcs, NEW r \in LockRequest, NEW res \in {"EDEADLK", "EACCES", "EINTR"},
           NEW W, NEW new, LkReturn(p, r, res, new, W),
           \A q, b : Covers(new, q, b) <=> Covers(locklist[r.file], q, b)
    PROVE  [Locks!Next]_(Locks!vars)
<1>1. r.file \in LkFiles
  BY DEF LockRequest
<1>2. locklist' = [locklist EXCEPT ![r.file] = new] /\ lkLast' = [p |-> p, r |-> r, res |-> res]
  BY DEF LkReturn
<1>3. lkHeld' = lkHeld
  BY <1>1, <1>2, HeldSame
<1> QED
  BY <1>2, <1>3, LocksNext

\* The lists are in order afterwards, and the step is one of ByteLocks.
OrderedStep == LkOrdered' /\ [Locks!Next]_(Locks!vars)

Named(r) == {b \in LkBytes : r.start <= b /\ b < r.end}

\* Where nobody else has records in the section, nobody else has locked a byte of it.
LEMMA FreeBytes ==
    ASSUME LkTypes, NEW p \in LkProcs, NEW r \in LockRequest, NEW l, l = locklist[r.file],
           InSection(l, p, r) = {}
    PROVE  /\ FreeFor(l, p, r.start, r.end)
           /\ \A q \in LkProcs \ {p}, b \in Named(r) : lkHeld[q][r.file][b] = "N"
<1>1. r.file \in LkFiles /\ l \in Seq(LockRecord) /\ r.start \in Int /\ r.end \in Int
  BY DEF LkTypes, LockRequest
<1>2. l \in Seq(NewRecord)
  BY <1>1, OldIsNew
<1>3. \A i \in 1 .. Len(l) : l[i].start \in Int /\ l[i].end \in Int
  BY <1>2, RecordInts
<1>4. \A i \in 1 .. Len(l) : ~(l[i].proc # p /\ l[i].start < r.end /\ r.start < l[i].end)
  BY <1>1 DEF InSection
<1>5. FreeFor(l, p, r.start, r.end)
  BY <1>1, <1>3, <1>4 DEF FreeFor
<1>6. ASSUME NEW q \in LkProcs \ {p}, NEW b \in Named(r)
      PROVE  lkHeld[q][r.file][b] = "N"
  <2>1. b \in LkBytes /\ b \in Int /\ r.start <= b /\ b < r.end
    BY LockfAssumption DEF Named, LkBytes
  <2>2. ASSUME NEW i \in 1 .. Len(l), l[i].proc = q, l[i].start <= b, b < l[i].end
        PROVE  FALSE
    <3>1. l[i].proc # p /\ l[i].start \in Int /\ l[i].end \in Int
      BY <1>3, <2>2
    <3>2. ~(l[i].start < r.end /\ r.start < l[i].end)
      BY <1>4, <2>2, <3>1
    <3> QED
      BY <1>1, <2>1, <2>2, <3>1, <3>2
  <2>3. ~Covers(l, q, b)
    BY <1>2, <2>2, CoversIs
  <2> QED
    BY <1>1, <2>1, <2>3 DEF lkHeld
<1> QED
  BY <1>5, <1>6

\* A section is locked.
LEMMA LockIsStep ==
    ASSUME LkTypes, NEW p \in LkProcs, NEW r, Proper(r), r.type = "W", NEW l, l = locklist[r.file],
           InSection(l, p, r) = {}, NEW new, NEW W, LkReturn(p, r, "ok", new, W),
           \A q : \A b \in Int : Covers(new, q, b) <=> Covers(l, q, b) \/ (q = p /\ r.start <= b /\ b < r.end)
    PROVE  [Locks!Next]_(Locks!vars)
<1>1. r \in LockRequest /\ r.file \in LkFiles
  BY DEF Proper, LockRequest
<1>2. \A q \in LkProcs \ {p}, b \in Named(r) : lkHeld[q][r.file][b] = "N"
  BY <1>1, FreeBytes
<1>3. locklist' = [locklist EXCEPT ![r.file] = new] /\ lkLast' = [p |-> p, r |-> r, res |-> "ok"]
  BY DEF LkReturn
<1>4. Puts(new, locklist[r.file], p, Named(r), "W")
  <2>1. \A b \in LkBytes : b \in Int
    BY LockfAssumption DEF LkBytes
  <2> QED
    BY <2>1 DEF Named, Puts
<1>5. Named(r) \in SUBSET LkBytes
  BY DEF Named
<1>6. Locks!Put(p, r, Named(r), "W")
  BY <1>1, <1>3, <1>4, <1>5, HeldPut
<1>7. Locks!Lock(p, r)
  <2>1. Locks!Named(r) = Named(r)
    BY DEF Locks!Named, Named
  <2>2. \A q \in LkProcs \ {p}, b \in Locks!Named(r) : lkHeld[q][r.file][b] # "N" => FALSE
    BY <1>2, <2>1
  <2> QED
    BY <1>6, <2>1, <2>2 DEF Locks!Lock, lkHeld, Covers
<1> QED
  BY <1>1, <1>3, <1>7, LocksNext

\* Bytes are used.
LEMMA UseIsStep ==
    ASSUME LkTypes, NEW p \in LkProcs, NEW r, Proper(r), r.type = "T", NEW l, l = locklist[r.file],
           InSection(l, p, r) = {}, NEW W, LkReturn(p, r, "ok", l, W)
    PROVE  [Locks!Next]_(Locks!vars)
<1>1. r \in LockRequest /\ r.file \in LkFiles
  BY DEF Proper, LockRequest
<1>2. \A q \in LkProcs \ {p}, b \in Named(r) : lkHeld[q][r.file][b] = "N"
  BY <1>1, FreeBytes
<1>3. locklist' = [locklist EXCEPT ![r.file] = l] /\ lkLast' = [p |-> p, r |-> r, res |-> "ok"]
  BY DEF LkReturn
<1>4. lkHeld' = lkHeld
  BY <1>1, <1>3, HeldSame
<1>5. Locks!Use(p, r)
  BY <1>2, <1>4 DEF Locks!Use, Locks!Named, Named, lkHeld, Covers
<1> QED
  BY <1>1, <1>3, <1>5, LocksNext

\* A section is unlocked.
LEMMA UnlockIsStep ==
    ASSUME LkTypes, NEW p \in LkProcs, NEW r, Proper(r), r.type = "U", NEW l, l = locklist[r.file],
           NEW new, NEW W, LkReturn(p, r, "ok", new, W),
           \A q : \A b \in Int : Covers(new, q, b) <=> Covers(l, q, b) /\ ~(q = p /\ r.start <= b /\ b < r.end)
    PROVE  [Locks!Next]_(Locks!vars)
<1>1. r \in LockRequest /\ r.file \in LkFiles
  BY DEF Proper, LockRequest
<1>2. locklist' = [locklist EXCEPT ![r.file] = new] /\ lkLast' = [p |-> p, r |-> r, res |-> "ok"]
  BY DEF LkReturn
<1>3. Puts(new, locklist[r.file], p, Named(r), "N")
  <2>1. \A b \in LkBytes : b \in Int
    BY LockfAssumption DEF LkBytes
  <2> QED
    BY <2>1 DEF Named, Puts
<1>4. Named(r) \in SUBSET LkBytes
  BY DEF Named
<1>5. Locks!Put(p, r, Named(r), "N")
  BY <1>1, <1>2, <1>3, <1>4, HeldPut
<1>6. Locks!Unlock(p, r)
  BY <1>5 DEF Locks!Unlock, Locks!Named, Named
<1> QED
  BY <1>1, <1>2, <1>6, LocksNext

\* All bytes of a file are unlocked.
LEMMA CloseIsStep ==
    ASSUME LkTypes, NEW p \in LkProcs, NEW f \in LkFiles, NEW r, r = CloseRequest(f),
           NEW l, l = locklist[f],
           NEW new, NEW W, LkReturn(p, r, "ok", new, W), \A q, b : Covers(new, q, b) <=> Covers(l, q, b) /\ q # p
    PROVE  [Locks!Next]_(Locks!vars)
<1>1. r.file = f /\ r.type = "C"
  BY DEF CloseRequest
<1>2. locklist' = [locklist EXCEPT ![f] = new] /\ lkLast' = [p |-> p, r |-> r, res |-> "ok"]
  BY <1>1 DEF LkReturn
<1>3. Puts(new, locklist[f], p, LkBytes, "N")
  BY DEF Puts
<1>4. Locks!Put(p, r, LkBytes, "N")
  BY <1>1, <1>2, <1>3, HeldPut
<1>5. Locks!Close(p, r)
  BY <1>1, <1>4 DEF Locks!Close
<1> QED
  BY <1>2, <1>5, LocksNext

\* The section is free: it is locked, tested or used.
LEMMA GrantedStep ==
    ASSUME LkTypes, LkOrdered, NEW p \in LkProcs, NEW r, Proper(r), r.cmd # "ULOCK", Granted(p, r)
    PROVE  OrderedStep
<1>1. PICK l, a : /\ l = locklist[r.file]
                  /\ a = IF r.cmd \in {"TEST", "RDWR"} THEN Kept(l) ELSE Add(l, p, r.start, r.end)
  OBVIOUS
<1>2. /\ r \in LockRequest /\ r.file \in LkFiles /\ r.start \in Int /\ r.end \in Int /\ r.cmd \in Cmds
      /\ r.start < r.end
  BY DEF Proper, LockRequest
<1>3. l \in Seq(LockRecord) /\ l \in Seq(NewRecord) /\ InOrder(l)
  BY <1>1, <1>2, OldIsNew DEF LkTypes, LkOrdered
<1>4. /\ InSection(l, p, r) = {}
      /\ IF NoRecord(a.l) THEN LkReturn(p, r, "EDEADLK", l, {})
                          ELSE LkReturn(p, r, "ok", a.l, Waited(a.gone))
  BY <1>1 DEF Granted
<1>5. CASE NoRecord(a.l)
  <2>1. LkReturn(p, r, "EDEADLK", l, {})
    BY <1>4, <1>5
  <2>2. LkOrdered'
    BY <1>2, <1>3, <2>1, ReturnOrdered
  <2>3. [Locks!Next]_(Locks!vars)
    BY <1>1, <1>2, <2>1, FailIsStep
  <2> QED
    BY <2>2, <2>3 DEF OrderedStep
<1>6. CASE ~NoRecord(a.l) /\ r.cmd \in {"TEST", "RDWR"}
  <2>1. a.l = l /\ r.type = "T"
    BY <1>1, <1>6 DEF Kept, Proper
  <2>2. LkReturn(p, r, "ok", l, Waited(a.gone))
    BY <1>4, <1>6, <2>1
  <2>3. LkOrdered'
    BY <1>2, <1>3, <2>2, ReturnOrdered
  <2>4. [Locks!Next]_(Locks!vars)
    BY <1>1, <1>4, <2>1, <2>2, UseIsStep
  <2> QED
    BY <2>3, <2>4 DEF OrderedStep
<1>7. CASE ~NoRecord(a.l) /\ r.cmd \notin {"TEST", "RDWR"}
  <2>1. PICK new : new = a.l
    OBVIOUS
  <2>2. r.type = "W" /\ new = Add(l, p, r.start, r.end).l
    BY <1>1, <1>2, <1>7, <2>1 DEF Proper, Cmds
  <2>3. LkReturn(p, r, "ok", new, Waited(a.gone))
    BY <1>4, <1>7, <2>1
  <2>4. FreeFor(l, p, r.start, r.end)
    BY <1>1, <1>2, <1>4, FreeBytes
  <2>5. PICK s \in Int, e \in Int : s = r.start /\ e = r.end
    BY <1>2
  <2>6. /\ InOrder(new)
        /\ \A q : \A b \in Int : Covers(new, q, b) <=> Covers(l, q, b) \/ (q = p /\ s <= b /\ b < e)
    <3>1. s < e /\ FreeFor(l, p, s, e) /\ new = Add(l, p, s, e).l
      BY <1>2, <2>2, <2>4, <2>5
    <3> QED
      BY <1>3, <3>1, AddBytes
  <2>7. LkOrdered'
    BY <1>2, <2>3, <2>6, ReturnOrdered
  <2>8. [Locks!Next]_(Locks!vars)
    BY <1>1, <1>4, <2>2, <2>3, <2>5, <2>6, LockIsStep
  <2> QED
    BY <2>7, <2>8 DEF OrderedStep
<1> QED
  BY <1>5, <1>6, <1>7

\* The section is not free, and the call does not wait.
LEMMA RefusedStep ==
    ASSUME LkTypes, LkOrdered, NEW p \in LkProcs, NEW r \in LockRequest, NEW res \in {"EDEADLK", "EACCES", "EINTR"},
           NEW W, LkReturn(p, r, res, locklist[r.file], W)
    PROVE  OrderedStep
<1>1. r.file \in LkFiles /\ InOrder(locklist[r.file])
  BY DEF LockRequest, LkOrdered
<1>2. LkOrdered'
  BY <1>1, ReturnOrdered
<1>3. [Locks!Next]_(Locks!vars)
  BY FailIsStep
<1> QED
  BY <1>2, <1>3 DEF OrderedStep

\* The call sleeps.
LEMMA WaitsStep ==
    ASSUME LkTypes, LkOrdered, NEW p \in LkProcs, NEW r, Proper(r), r.cmd # "ULOCK", Waits(p, r)
    PROVE  OrderedStep
<1>1. r \in LockRequest /\ r.file \in LkFiles
  BY DEF Proper, LockRequest
<1>2. PICK l : l = locklist[r.file]
  OBVIOUS
<1>3. InOrder(l)
  BY <1>1, <1>2 DEF LkOrdered
<1>4. PICK new : /\ locklist' = [locklist EXCEPT ![r.file] = new]
                 /\ InOrder(new)
                 /\ \A q, b : Covers(new, q, b) <=> Covers(l, q, b)
  BY <1>1, <1>2, <1>3, MarkedFacts
<1>5. /\ lkPc' = [lkPc EXCEPT ![p] = "asleep"] /\ lkReq' = [lkReq EXCEPT ![p] = r] /\ lkLast' = lkLast
  BY DEF Waits
<1>6. LkOrdered'
  <2>1. \A f \in LkFiles : locklist'[f] = IF f = r.file THEN new ELSE locklist[f]
    BY <1>4 DEF LkTypes
  <2>2. \A f \in LkFiles : InOrder(locklist'[f])
    BY <1>4, <2>1 DEF LkOrdered
  <2>3. ASSUME NEW q \in LkProcs, lkPc'[q] # "user"
        PROVE  Proper(lkReq'[q]) /\ lkReq'[q].cmd # "ULOCK"
    <3>1. CASE q = p
      <4>1. lkReq'[q] = r
        BY <1>5, <3>1 DEF LkTypes
      <4> QED
        BY <4>1
    <3>2. CASE q # p
      <4>1. lkReq'[q] = lkReq[q] /\ lkPc[q] # "user"
        BY <1>5, <2>3, <3>2 DEF LkTypes
      <4> QED
        BY <4>1 DEF LkOrdered
    <3> QED
      BY <3>1, <3>2
  <2> QED
    BY <2>2, <2>3 DEF LkOrdered
<1>7. lkHeld' = lkHeld
  BY <1>1, <1>2, <1>4, HeldSame
<1> QED
  BY <1>5, <1>6, <1>7, LocksStutter DEF OrderedStep

LEMMA LockedStep ==
    ASSUME LkTypes, LkOrdered, NEW p \in LkProcs, NEW r, Proper(r), r.cmd # "ULOCK", Locked(p, r)
    PROVE  OrderedStep
<1>1. CASE Refused(p, r)
  <2>1. PICK res \in {"EDEADLK", "EACCES"} : LkReturn(p, r, res, locklist[r.file], {})
    BY <1>1 DEF Refused
  <2>2. r \in LockRequest /\ res \in {"EDEADLK", "EACCES", "EINTR"}
    BY DEF Proper
  <2> QED
    BY <2>1, <2>2, RefusedStep
<1> QED
  BY <1>1, GrantedStep, WaitsStep DEF Locked

LEMMA UlockStep ==
    ASSUME LkTypes, LkOrdered, NEW p \in LkProcs, NEW r, Proper(r), LockfUlock(p, r)
    PROVE  OrderedStep
<1>1. PICK l, new, W : /\ l = locklist[r.file] /\ new = Ulock(l, p, r.start, r.end)
                       /\ W = Waited({l[i] : i \in Touched(l, p, r.start, r.end)})
  OBVIOUS
<1>2. /\ r \in LockRequest /\ r.file \in LkFiles /\ r.start \in Int /\ r.end \in Int /\ r.start < r.end
  BY DEF Proper, LockRequest
<1>3. l \in Seq(LockRecord) /\ InOrder(l)
  BY <1>1, <1>2 DEF LkTypes, LkOrdered
<1>4. /\ r.cmd = "ULOCK"
      /\ IF NoRecord(new)
           THEN LkReturn(p, r, "EDEADLK",
                         [i \in DOMAIN l |-> [l[i] EXCEPT !.wait = @ /\ l[i].id \notin W]], W)
           ELSE LkReturn(p, r, "ok", new, W)
  BY <1>1 DEF LockfUlock
<1>5. CASE NoRecord(new)
  <2>1. PICK same : same = [i \in DOMAIN l |-> [l[i] EXCEPT !.wait = @ /\ l[i].id \notin W]]
    OBVIOUS
  <2>2. ASSUME NEW i \in 1 .. Len(l)
        PROVE  same[i].proc = l[i].proc /\ same[i].start = l[i].start /\ same[i].end = l[i].end
    <3>1. l[i] \in LockRecord /\ i \in DOMAIN l
      BY <1>3, ElementOfSeq
    <3>2. same[i] = [l[i] EXCEPT !.wait = @ /\ l[i].id \notin W]
      BY <2>1, <3>1
    <3> QED
      BY <3>1, <3>2 DEF LockRecord
  <2>3. same \in Seq(LockRecord)
    BY <1>3, <2>1, WokenFollows
  <2>4. Len(same) = Len(l)
    BY <1>3, <2>1
  <2>5. InOrder(same) /\ \A q, b : Covers(same, q, b) <=> Covers(l, q, b)
    BY <1>3, <2>2, <2>3, <2>4, SameBytes
  <2>6. LkReturn(p, r, "EDEADLK", same, W)
    BY <1>4, <1>5, <2>1
  <2>7. LkOrdered'
    BY <1>2, <2>5, <2>6, ReturnOrdered
  <2>8. [Locks!Next]_(Locks!vars)
    BY <1>1, <1>2, <2>5, <2>6, FailIsStep
  <2> QED
    BY <2>7, <2>8 DEF OrderedStep
<1>6. CASE ~NoRecord(new)
  <2>1. LkReturn(p, r, "ok", new, W) /\ r.type = "U"
    BY <1>4, <1>6 DEF Proper
  <2>2. PICK s \in Int, e \in Int : s = r.start /\ e = r.end
    BY <1>2
  <2>3. /\ InOrder(new)
        /\ \A q : \A b \in Int : Covers(new, q, b) <=> Covers(l, q, b) /\ ~(q = p /\ s <= b /\ b < e)
    BY <1>1, <1>2, <1>3, <2>2, UlockBytes
  <2>4. LkOrdered'
    BY <1>2, <2>1, <2>3, ReturnOrdered
  <2>5. [Locks!Next]_(Locks!vars)
    BY <1>1, <2>1, <2>2, <2>3, UnlockIsStep
  <2> QED
    BY <2>4, <2>5 DEF OrderedStep
<1> QED
  BY <1>5, <1>6

LEMMA UnlockStep ==
    ASSUME LkTypes, LkOrdered, NEW p \in LkProcs, NEW f \in LkFiles, Unlock(p, f)
    PROVE  OrderedStep
<1>1. PICK l, r, new, W : /\ l = locklist[f] /\ r = CloseRequest(f) /\ new = Others(l, p)
                          /\ W = Waited({x \in ToSet(l) : x.proc = p})
  OBVIOUS
<1>2. LkReturn(p, r, "ok", new, W) /\ r.file = f
  BY <1>1 DEF Unlock, CloseRequest
<1>3. l \in Seq(LockRecord) /\ InOrder(l)
  BY <1>1 DEF LkTypes, LkOrdered
<1>4. InOrder(new) /\ \A q, b : Covers(new, q, b) <=> Covers(l, q, b) /\ q # p
  BY <1>1, <1>3, OthersBytes
<1>5. LkOrdered'
  BY <1>2, <1>4, ReturnOrdered
<1>6. [Locks!Next]_(Locks!vars)
  BY <1>1, <1>2, <1>4, CloseIsStep
<1> QED
  BY <1>5, <1>6 DEF OrderedStep

LEMMA SignalStep ==
    ASSUME LkTypes, LkOrdered, NEW p \in LkProcs, LkSignal(p)
    PROVE  OrderedStep
<1>1. /\ lkPc[p] = "asleep" /\ lkPc' = [lkPc EXCEPT ![p] = "woken"]
      /\ locklist' = locklist /\ lkReq' = lkReq /\ lkLast' = lkLast
  BY DEF LkSignal
<1>2. \A q \in LkProcs : lkPc'[q] # "user" => lkPc[q] # "user"
  BY <1>1 DEF LkTypes
<1>3. LkOrdered'
  BY <1>1, <1>2 DEF LkOrdered
<1>4. lkHeld' = lkHeld
  BY <1>1 DEF lkHeld, LkBytes
<1> QED
  BY <1>1, <1>3, <1>4, LocksStutter DEF OrderedStep

LEMMA LkNextStep == NoEmpty /\ LkTypes /\ LkOrdered /\ [LkNext]_lkVars => OrderedStep
<1> SUFFICES ASSUME NoEmpty, LkTypes, LkOrdered, [LkNext]_lkVars
             PROVE  OrderedStep
  OBVIOUS
<1>1. CASE UNCHANGED lkVars
  <2>1. locklist' = locklist /\ lkPc' = lkPc /\ lkReq' = lkReq /\ lkLast' = lkLast
    BY <1>1 DEF lkVars
  <2>2. LkOrdered'
    BY <2>1 DEF LkOrdered
  <2>3. lkHeld' = lkHeld
    BY <2>1 DEF lkHeld, LkBytes
  <2> QED
    BY <2>1, <2>2, <2>3, LocksStutter DEF OrderedStep
<1>2. ASSUME NEW p \in LkProcs, NEW f \in LkFiles, NEW cmd \in Cmds, NEW g \in LkCalls,
             LockfUlock(p, LkRequest(f, cmd, g)) \/ Lockf(p, LkRequest(f, cmd, g))
      PROVE  OrderedStep
  <2>1. PICK r : r = LkRequest(f, cmd, g)
    OBVIOUS
  <2>2. Proper(r)
    BY <2>1, RequestProper
  <2>3. CASE LockfUlock(p, r)
    BY <2>2, <2>3, UlockStep
  <2>4. CASE Lockf(p, r)
    <3>1. r.cmd # "ULOCK" /\ Locked(p, r)
      BY <2>4 DEF Lockf
    <3> QED
      BY <2>2, <3>1, LockedStep
  <2> QED
    BY <1>2, <2>1, <2>3, <2>4
<1>3. ASSUME NEW p \in LkProcs, NEW f \in LkFiles, Unlock(p, f)
      PROVE  OrderedStep
  BY <1>3, UnlockStep
<1>4. ASSUME NEW p \in LkProcs, LockfAgain(p)
      PROVE  OrderedStep
  <2>1. Locked(p, lkReq[p]) /\ Proper(lkReq[p]) /\ lkReq[p].cmd # "ULOCK"
    BY <1>4 DEF LockfAgain, LkOrdered
  <2> QED
    BY <2>1, LockedStep
<1>5. ASSUME NEW p \in LkProcs, LkSignal(p)
      PROVE  OrderedStep
  BY <1>5, SignalStep
<1>6. ASSUME NEW p \in LkProcs, LockfIntr(p)
      PROVE  OrderedStep
  <2>1. lkReq[p] \in LockRequest /\ LkReturn(p, lkReq[p], "EINTR", locklist[lkReq[p].file], {})
    BY <1>6 DEF LockfIntr, LkTypes
  <2> QED
    BY <2>1, RefusedStep
<1> QED
  BY <1>1, <1>2, <1>3, <1>4, <1>5, <1>6 DEF LkNext

LEMMA LkInitIs == LkInit => LkOrdered /\ Locks!Init
<1> SUFFICES ASSUME LkInit
             PROVE  LkOrdered /\ Locks!Init
  OBVIOUS
<1>1. \A f \in LkFiles : locklist[f] = <<>> /\ Len(locklist[f]) = 0 /\ ToSet(locklist[f]) = {}
  BY DEF LkInit, ToSet
<1>2. LkOrdered
  BY <1>1 DEF LkInit, LkOrdered, InOrder
<1>3. Locks!Init
  BY <1>1 DEF LkInit, Locks!Init
<1> QED
  BY <1>2, <1>3

\* Where no call names an empty section, lockf implements the locks on bytes: lockf, read,
\* write and close grant, use and drop exactly the bytes that they name, however lockadd,
\* lockf and unlock join, cut and sever the records of i_locklist for it.
THEOREM LockfIsByteLocks == NoEmpty => (LkSpec => IsLockf)
<1> SUFFICES ASSUME NoEmpty
             PROVE  LkSpec => IsLockf
  OBVIOUS
<1>1. LkInit => LkInv /\ LkOrdered /\ Locks!Init
  BY LkInitInv, LkInitIs
<1>2. LkInv /\ LkOrdered /\ [LkNext]_lkVars => LkInv' /\ LkOrdered' /\ [Locks!Next]_(Locks!vars)
  BY LkNextInv, LkNextStep DEF LkInv, OrderedStep
<1> QED
  BY <1>1, <1>2, PTL DEF LkSpec, IsLockf, Locks!Spec
==============================================================================
