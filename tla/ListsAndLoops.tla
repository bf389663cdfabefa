--------------------------- MODULE ListsAndLoops ---------------------------
(***************************************************************************)
(* What the proofs need about lists of which entries are put in and        *)
(* removed, and about the recursive functions that model loops of the      *)
(* code.                                                                   *)
(***************************************************************************)
EXTENDS Integers, SequencesExt,
        WellFoundedInduction, SequenceTheorems, FiniteSetTheorems, TLAPS

\* e put in at place i of a list: it is there, and what was there follows.
LEMMA InsertFacts ==
    ASSUME NEW S, NEW l \in Seq(S), NEW e \in S, NEW i \in 1 .. Len(l) + 1
    PROVE  /\ InsertAt(l, i, e) \in Seq(S)
           /\ Len(InsertAt(l, i, e)) = Len(l) + 1
           /\ \A j \in 1 .. Len(l) + 1 :
                 InsertAt(l, i, e)[j] = IF j < i THEN l[j] ELSE IF j = i THEN e ELSE l[j - 1]
<1>1. PICK a : a = SubSeq(l, 1, i - 1)
  OBVIOUS
<1>2. PICK b : b = SubSeq(l, i, Len(l))
  OBVIOUS
<1>3. Len(l) \in Nat /\ \A j \in 1 .. Len(l) : l[j] \in S
  OBVIOUS
<1>4. a \in Seq(S) /\ Len(a) = i - 1 /\ \A j \in 1 .. i - 1 : a[j] = l[j]
  <2>1. \A j \in 1 .. i - 1 : l[j] \in S
    BY <1>3
  <2> QED
    BY <1>1, <1>3, <2>1, SubSeqProperties
<1>5. b \in Seq(S) /\ Len(b) = Len(l) - i + 1 /\ \A j \in 1 .. Len(l) - i + 1 : b[j] = l[i + j - 1]
  <2>1. \A j \in i .. Len(l) : l[j] \in S
    BY <1>3
  <2> QED
    BY <1>2, <1>3, <2>1, SubSeqProperties
<1>6. PICK c : c = a \o <<e>>
  OBVIOUS
<1>7. c \in Seq(S) /\ Len(c) = i /\ \A j \in 1 .. i : c[j] = IF j < i THEN l[j] ELSE e
  <2>1. <<e>> \in Seq(S) /\ Len(<<e>>) = 1 /\ <<e>>[1] = e
    OBVIOUS
  <2> QED
    BY <1>4, <1>6, <2>1, ConcatProperties
<1>8. InsertAt(l, i, e) = c \o b
  BY <1>1, <1>2, <1>6 DEF InsertAt
<1>9. PICK r : r = c \o b
  OBVIOUS
<1>10. /\ r \in Seq(S) /\ Len(r) = Len(c) + Len(b)
       /\ \A j \in 1 .. Len(c) + Len(b) : r[j] = IF j <= Len(c) THEN c[j] ELSE b[j - Len(c)]
  BY <1>5, <1>7, <1>9, ConcatProperties
<1>11. Len(c) + Len(b) = Len(l) + 1
  BY <1>3, <1>5, <1>7
<1>12. ASSUME NEW j \in 1 .. Len(l) + 1
       PROVE  r[j] = IF j < i THEN l[j] ELSE IF j = i THEN e ELSE l[j - 1]
  <2>1. CASE j <= i
    <3>1. r[j] = c[j] /\ j \in 1 .. i
      BY <1>7, <1>10, <1>11, <2>1
    <3> QED
      BY <1>7, <3>1
  <2>2. CASE ~(j <= i)
    <3>1. r[j] = b[j - i] /\ j - i \in 1 .. Len(l) - i + 1
      BY <1>3, <1>7, <1>10, <1>11, <2>2
    <3>2. b[j - i] = l[i + (j - i) - 1] /\ i + (j - i) - 1 = j - 1
      BY <1>3, <1>5, <3>1
    <3> QED
      BY <2>2, <3>1, <3>2
  <2> QED
    BY <2>1, <2>2
<1> QED
  BY <1>8, <1>9, <1>10, <1>11, <1>12

\* The one at place i of a list removed.
LEMMA RemoveFacts ==
    ASSUME NEW S, NEW l \in Seq(S), NEW i \in 1 .. Len(l)
    PROVE  /\ RemoveAt(l, i) \in Seq(S)
           /\ Len(RemoveAt(l, i)) = Len(l) - 1
           /\ \A j \in 1 .. Len(l) - 1 :
                 RemoveAt(l, i)[j] = IF j < i THEN l[j] ELSE l[j + 1]
<1>1. PICK a : a = SubSeq(l, 1, i - 1)
  OBVIOUS
<1>2. PICK b : b = SubSeq(l, i + 1, Len(l))
  OBVIOUS
<1>3. Len(l) \in Nat /\ \A j \in 1 .. Len(l) : l[j] \in S
  OBVIOUS
<1>4. a \in Seq(S) /\ Len(a) = i - 1 /\ \A j \in 1 .. i - 1 : a[j] = l[j]
  <2>1. \A j \in 1 .. i - 1 : l[j] \in S
    BY <1>3
  <2> QED
    BY <1>1, <1>3, <2>1, SubSeqProperties
<1>5. b \in Seq(S) /\ Len(b) = Len(l) - i /\ \A j \in 1 .. Len(l) - i : b[j] = l[i + j]
  <2>1. \A j \in i + 1 .. Len(l) : l[j] \in S
    BY <1>3
  <2> QED
    BY <1>2, <1>3, <2>1, SubSeqProperties
<1>6. RemoveAt(l, i) = a \o b
  BY <1>1, <1>2 DEF RemoveAt
<1>7. PICK r : r = a \o b
  OBVIOUS
<1>8. /\ r \in Seq(S) /\ Len(r) = Len(a) + Len(b)
      /\ \A j \in 1 .. Len(a) + Len(b) : r[j] = IF j <= Len(a) THEN a[j] ELSE b[j - Len(a)]
  BY <1>4, <1>5, <1>7, ConcatProperties
<1>9. Len(a) + Len(b) = Len(l) - 1
  BY <1>3, <1>4, <1>5
<1>10. ASSUME NEW j \in 1 .. Len(l) - 1 PROVE r[j] = IF j < i THEN l[j] ELSE l[j + 1]
  <2>1. CASE j < i
    <3>1. r[j] = a[j] /\ j \in 1 .. i - 1
      BY <1>3, <1>4, <1>8, <1>9, <2>1
    <3> QED
      BY <1>4, <2>1, <3>1
  <2>2. CASE ~(j < i)
    <3>1. r[j] = b[j - (i - 1)] /\ j - (i - 1) \in 1 .. Len(l) - i
      BY <1>3, <1>4, <1>8, <1>9, <2>2
    <3>2. b[j - (i - 1)] = l[i + (j - (i - 1))] /\ i + (j - (i - 1)) = j + 1
      BY <1>3, <1>5, <3>1
    <3> QED
      BY <2>2, <3>1, <3>2
  <2> QED
    BY <2>1, <2>2
<1> QED
  BY <1>6, <1>7, <1>8, <1>9, <1>10

-----------------------------------------------------------------------------
(* Loops: each fact is proved by the least number that does not have it *)

\* A set of natural numbers that is not empty has a least element.
LEMMA LeastOfNats ==
    ASSUME NEW T \in SUBSET Nat, T # {}
    PROVE  \E x \in T : \A y \in T : x <= y
<1>1. PICK x \in T : \A y \in T : ~(<<y, x>> \in OpToRel(<, Nat))
  BY NatLessThanWellFounded, WFMin
<1>2. ASSUME NEW y \in T PROVE x <= y
  <2>1. <<y, x>> \in Nat \X Nat /\ ~(<<y, x>> \in {ss \in Nat \X Nat : ss[1] < ss[2]})
    BY <1>1 DEF OpToRel
  <2> QED
    BY <2>1
<1> QED
  BY <1>2

\* What holds of 0, and of i when it holds of i - 1, holds up to n.
LEMMA UpTo ==
    ASSUME NEW n \in Nat, NEW holds, 0 \in holds,
           \A i \in 1 .. n : i - 1 \in holds => i \in holds
    PROVE  0 .. n \subseteq holds
<1> DEFINE Bad == {k \in 0 .. n : k \notin holds}
<1>1. ASSUME Bad # {} PROVE FALSE
  <2>1. PICK m \in Bad : \A k \in Bad : m <= k
    <3>1. Bad \in SUBSET Nat
      OBVIOUS
    <3> HIDE DEF Bad
    <3> QED
      BY <1>1, <3>1, LeastOfNats
  <2>2. m \in 0 .. n /\ m \notin holds
    BY <2>1
  <2>3. m \in 1 .. n /\ m - 1 \in 0 .. n /\ ~(m <= m - 1)
    BY <2>2
  <2>4. m - 1 \notin Bad
    BY <2>1, <2>3
  <2> QED
    BY <2>2, <2>3, <2>4
<1> QED
  BY <1>1

\* A function of n values in G of which each is one step from the one before.
Runs(G, step, s, n) ==
    \E f \in [0 .. n -> G] : f[0] = s /\ \A i \in 1 .. n : f[i] = step[i][f[i - 1]]

\* A loop whose turns stay in G can make all of them.
LEMMA LoopRuns ==
    ASSUME NEW G, NEW n \in Nat, NEW step \in [1 .. n -> [G -> G]], NEW s \in G
    PROVE  Runs(G, step, s, n)
<1> DEFINE holds == {k \in 0 .. n : Runs(G, step, s, k)}
<1>1. 0 \in holds
  <2>1. PICK f : f = [i \in 0 .. 0 |-> s]
    OBVIOUS
  <2>2. f \in [0 .. 0 -> G] /\ f[0] = s /\ \A i \in 1 .. 0 : f[i] = step[i][f[i - 1]]
    BY <2>1
  <2> QED
    BY <2>2 DEF Runs
<1>2. ASSUME NEW m \in 1 .. n, m - 1 \in holds PROVE m \in holds
  <2>1. PICK f \in [0 .. m - 1 -> G] :
            f[0] = s /\ \A i \in 1 .. m - 1 : f[i] = step[i][f[i - 1]]
    BY <1>2 DEF Runs
  <2>2. PICK g : g = [i \in 0 .. m |-> IF i < m THEN f[i] ELSE step[m][f[m - 1]]]
    OBVIOUS
  <2>3. f[m - 1] \in G /\ step[m][f[m - 1]] \in G
    BY <2>1
  <2>4. g \in [0 .. m -> G] /\ g[0] = s
    BY <2>1, <2>2, <2>3
  <2>5. ASSUME NEW i \in 1 .. m PROVE g[i] = step[i][g[i - 1]]
    <3>1. CASE i = m
      BY <2>2, <3>1
    <3>2. CASE i # m
      <4>1. i \in 1 .. m - 1 /\ i \in 0 .. m /\ i - 1 \in 0 .. m /\ i < m /\ i - 1 < m
        BY <3>2
      <4>2. g[i] = f[i] /\ g[i - 1] = f[i - 1]
        BY <2>2, <4>1
      <4> QED
        BY <2>1, <4>1, <4>2
    <3> QED
      BY <3>1, <3>2
  <2>6. Runs(G, step, s, m)
    BY <2>4, <2>5 DEF Runs
  <2> QED
    BY <2>6
<1>3. 0 .. n \subseteq holds
  <2> HIDE DEF holds
  <2> QED
    BY <1>1, <1>2, UpTo
<1>4. n \in holds
  BY <1>3
<1> QED
  BY <1>4

\* What holds before the first turn, and is kept by each, holds after the last.
LEMMA LoopStays ==
    ASSUME NEW G, NEW n \in Nat, NEW f, f[0] \in G,
           \A i \in 1 .. n : f[i - 1] \in G => f[i] \in G
    PROVE  f[n] \in G
<1> DEFINE holds == {k \in 0 .. n : f[k] \in G}
<1>1. 0 \in holds /\ \A i \in 1 .. n : i - 1 \in holds => i \in holds
  OBVIOUS
<1>2. 0 .. n \subseteq holds
  <2> HIDE DEF holds
  <2> QED
    BY <1>1, UpTo
<1> QED
  BY <1>2
-----------------------------------------------------------------------------
(* Sums over a finite set, as SumFunctionOnSet of the module Functions     *)
(* makes them: one by one, in an order that CHOOSE gives                   *)

\* The sums of f over the subsets of S.
Summed(f, S, it) ==
    /\ it \in [SUBSET S -> Int]
    /\ \A s \in SUBSET S :
          it[s] = IF s = {} THEN 0
                  ELSE f[CHOOSE x \in s : TRUE] + it[s \ {CHOOSE x \in s : TRUE}]

\* There are such sums: those of the sets of i elements need those of i - 1.
LEMMA HasSums ==
    ASSUME NEW S, IsFiniteSet(S), NEW f, \A x \in S : f[x] \in Int
    PROVE  \E it : Summed(f, S, it)
<1> DEFINE Pick(s) == CHOOSE x \in s : TRUE
           Sum(h, s) == IF s = {} THEN 0 ELSE f[Pick(s)] + h[s \ {Pick(s)}]
           G == [SUBSET S -> Int]
<1>1. PICK n \in Nat : n = Cardinality(S) + 1
  <2>1. Cardinality(S) \in Nat
    BY FS_CardinalityType
  <2> QED
    BY <2>1
<1>2. ASSUME NEW s \in SUBSET S, s # {} PROVE Pick(s) \in s /\ s \ {Pick(s)} \in SUBSET S
  BY <1>2
<1>3. PICK step : step = [i \in 1 .. n |-> [h \in G |-> [s \in SUBSET S |-> Sum(h, s)]]]
  OBVIOUS
<1>4. ASSUME NEW h \in G PROVE [s \in SUBSET S |-> Sum(h, s)] \in G
  <2>1. ASSUME NEW s \in SUBSET S PROVE Sum(h, s) \in Int
    <3>1. s # {} => f[Pick(s)] \in Int /\ h[s \ {Pick(s)}] \in Int
      BY <1>2
    <3> HIDE DEF Pick
    <3> QED
      BY <3>1
  <2> HIDE DEF Sum
  <2> QED
    BY <2>1
<1>5. PICK z : z = [s \in SUBSET S |-> 0]
  OBVIOUS
<1>6. z \in G
  BY <1>5
<1> HIDE DEF Sum, G
<1>7. step \in [1 .. n -> [G -> G]]
  BY <1>3, <1>4
<1>8. PICK r \in [0 .. n -> G] : r[0] = z /\ \A i \in 1 .. n : r[i] = step[i][r[i - 1]]
  <2>1. Runs(G, step, z, n)
    BY <1>6, <1>7, LoopRuns
  <2> QED
    BY <2>1 DEF Runs
<1>9. ASSUME NEW i \in 1 .. n, NEW s \in SUBSET S PROVE r[i][s] = Sum(r[i - 1], s)
  <2>1. i - 1 \in 0 .. n
    OBVIOUS
  <2>2. r[i - 1] \in G
    BY <1>8, <2>1
  <2>3. r[i] = [t \in SUBSET S |-> Sum(r[i - 1], t)]
    BY <1>3, <1>8, <2>2
  <2> QED
    BY <2>3
<1>10. PICK holds : holds = {i \in 0 .. n : \A s \in SUBSET S :
                                Cardinality(s) < i => r[i][s] = Sum(r[i], s)}
  OBVIOUS
<1>11. ASSUME NEW s \in SUBSET S
       PROVE  /\ Cardinality(s) \in Nat /\ Cardinality(s) < n
              /\ s # {} => Cardinality(s \ {Pick(s)}) = Cardinality(s) - 1
  <2>1. IsFiniteSet(s) /\ Cardinality(s) <= Cardinality(S) /\ Cardinality(s) \in Nat
    BY FS_Subset, FS_CardinalityType
  <2>2. s # {} => Cardinality(s \ {Pick(s)}) = Cardinality(s) - 1
    BY <1>2, <2>1, FS_RemoveElement
  <2> QED
    BY <1>1, <2>1, <2>2, FS_CardinalityType
<1>12. 0 \in holds
  <2>1. ASSUME NEW s \in SUBSET S PROVE ~(Cardinality(s) < 0)
    <3>1. PICK k \in Nat : k = Cardinality(s)
      BY <1>11
    <3> QED
      BY <3>1
  <2> QED
    BY <1>10, <2>1
<1>13. ASSUME NEW i \in 1 .. n, i - 1 \in holds PROVE i \in holds
  <2>1. ASSUME NEW s \in SUBSET S, Cardinality(s) < i PROVE r[i][s] = Sum(r[i], s)
    <3>1. CASE s = {}
      BY <1>9, <3>1 DEF Sum
    <3>2. CASE s # {}
      <4>1. PICK t \in SUBSET S : t = s \ {Pick(s)} /\ Cardinality(t) < i - 1
        <5>1. s \ {Pick(s)} \in SUBSET S
          BY <1>2, <3>2
        <5>2. Cardinality(s \ {Pick(s)}) = Cardinality(s) - 1 /\ Cardinality(s) \in Nat
          BY <1>11, <3>2
        <5>3. Cardinality(s \ {Pick(s)}) < i - 1
          BY <2>1, <5>2
        <5> QED
          BY <5>1, <5>3
      <4>2. r[i - 1][t] = Sum(r[i - 1], t)
        BY <1>10, <1>13, <4>1
      <4>3. r[i][t] = r[i - 1][t]
        BY <1>9, <4>2
      <4>4. r[i][s] = f[Pick(s)] + r[i - 1][t]
        BY <1>9, <3>2, <4>1 DEF Sum
      <4>5. Sum(r[i], s) = f[Pick(s)] + r[i][t]
        BY <3>2, <4>1 DEF Sum
      <4> QED
        BY <4>3, <4>4, <4>5
    <3> QED
      BY <3>1, <3>2
  <2> QED
    BY <1>10, <2>1
<1>14. n \in holds
  <2>1. 0 .. n \subseteq holds
    BY <1>12, <1>13, UpTo
  <2> QED
    BY <2>1
<1>15. \A s \in SUBSET S : r[n][s] = Sum(r[n], s)
  BY <1>10, <1>11, <1>14
<1>16. r[n] \in G
  BY <1>8
<1> QED
  BY <1>15, <1>16 DEF Summed, Sum, G

\* SumFunctionOnSet gives one of them.
LEMMA SumIs ==
    ASSUME NEW S, IsFiniteSet(S), NEW f, \A x \in S : f[x] \in Int
    PROVE  \E it : Summed(f, S, it) /\ SumFunctionOnSet(f, S) = it[S]
<1> DEFINE Fix(it) == it = [s \in SUBSET S |->
                IF s = {} THEN 0 ELSE f[CHOOSE x \in s : TRUE] + it[s \ {CHOOSE x \in s : TRUE}]]
           sums == CHOOSE it : Fix(it)
<1>1. SumFunctionOnSet(f, S) = sums[S]
  BY Zenon DEF SumFunctionOnSet, FoldFunctionOnSet, MapThenFoldSet
<1>2. PICK it : Summed(f, S, it)
  BY HasSums
<1>3. Fix(it)
  BY <1>2 DEF Summed
<1>4. Fix(sums)
  <2> HIDE DEF Fix
  <2> QED
    BY <1>3
<1>5. \A s \in SUBSET S : sums[s] = it[s]
  <2>1. PICK n \in Nat : n = Cardinality(S)
    BY FS_CardinalityType
  <2>2. PICK holds : holds = {k \in 0 .. n : \A s \in SUBSET S :
                                Cardinality(s) <= k => sums[s] = it[s]}
    OBVIOUS
  <2> HIDE DEF sums
  <2>3. ASSUME NEW s \in SUBSET S
        PROVE  /\ IsFiniteSet(s) /\ Cardinality(s) \in 0 .. n
               /\ sums[s] = IF s = {} THEN 0
                            ELSE f[CHOOSE x \in s : TRUE] + sums[s \ {CHOOSE x \in s : TRUE}]
    <3>1. IsFiniteSet(s) /\ Cardinality(s) \in 0 .. n
      BY <2>1, FS_Subset, FS_CardinalityType
    <3> QED
      BY <1>4, <3>1
  <2>4. \A s \in SUBSET S : s = {} => sums[s] = it[s]
    BY <1>2, <2>3 DEF Summed
  <2>5. 0 \in holds
    <3>1. \A s \in SUBSET S : Cardinality(s) <= 0 => s = {}
      <4>1. ASSUME NEW s \in SUBSET S, Cardinality(s) <= 0 PROVE Cardinality(s) = 0
        <5>1. PICK k \in 0 .. n : k = Cardinality(s)
          BY <2>3
        <5> QED
          BY <4>1, <5>1
      <4> QED
        BY <2>3, <4>1, FS_EmptySet
    <3> QED
      BY <2>2, <2>4, <3>1
  <2>6. ASSUME NEW k \in 1 .. n, k - 1 \in holds PROVE k \in holds
    <3>1. ASSUME NEW s \in SUBSET S, Cardinality(s) <= k, s # {} PROVE sums[s] = it[s]
      <4>1. PICK c \in s : c = CHOOSE x \in s : TRUE
        BY <3>1
      <4>2. PICK t \in SUBSET S : t = s \ {c}
        OBVIOUS
      <4>3. Cardinality(t) = Cardinality(s) - 1
        BY <2>3, <4>1, <4>2, FS_RemoveElement
      <4>4. Cardinality(t) <= k - 1
        <5>1. PICK j \in 0 .. n : j = Cardinality(s)
          BY <2>3
        <5> QED
          BY <3>1, <4>3, <5>1
      <4>5. sums[t] = it[t]
        BY <2>2, <2>6, <4>4
      <4>6. sums[s] = f[c] + sums[t] /\ it[s] = f[c] + it[t]
        BY <1>2, <2>3, <3>1, <4>1, <4>2 DEF Summed
      <4> QED
        BY <4>5, <4>6
    <3> QED
      BY <2>2, <2>4, <3>1
  <2>7. 0 .. n \subseteq holds
    BY <2>5, <2>6, UpTo
  <2>8. ASSUME NEW s \in SUBSET S PROVE sums[s] = it[s]
    <3>1. PICK k \in 0 .. n : k = Cardinality(s) /\ Cardinality(s) <= k
      <4>1. PICK k \in 0 .. n : k = Cardinality(s)
        BY <2>3
      <4> QED
        BY <4>1
    <3> QED
      BY <2>2, <2>7, <3>1
  <2> QED
    BY <2>8
<1> QED
  BY <1>1, <1>2, <1>5

\* A term taken out of a sum, whichever it is.
LEMMA SumTerm ==
    ASSUME NEW S, IsFiniteSet(S), NEW f, \A x \in S : f[x] \in Int, NEW it, Summed(f, S, it),
           NEW T \in SUBSET S, NEW b \in T
    PROVE  it[T] = f[b] + it[T \ {b}]
<1>1. PICK n \in Nat : n = Cardinality(S)
  BY FS_CardinalityType
<1>2. PICK holds : holds = {k \in 0 .. n : \A s \in SUBSET S :
                        Cardinality(s) <= k => \A a \in s : it[s] = f[a] + it[s \ {a}]}
  OBVIOUS
<1>3. ASSUME NEW s \in SUBSET S
      PROVE  /\ IsFiniteSet(s) /\ it[s] \in Int
             /\ \E k \in 0 .. n : k = Cardinality(s)
             /\ \A a \in s : Cardinality(s \ {a}) = Cardinality(s) - 1
  <2>1. IsFiniteSet(s) /\ Cardinality(s) \in 0 .. n
    BY <1>1, FS_Subset, FS_CardinalityType
  <2>2. \A a \in s : Cardinality(s \ {a}) = Cardinality(s) - 1
    BY <2>1, FS_RemoveElement
  <2> QED
    BY <2>1, <2>2 DEF Summed
<1>4. 0 \in holds
  <2>1. ASSUME NEW s \in SUBSET S, Cardinality(s) <= 0 PROVE s = {}
    <3>1. PICK k \in 0 .. n : k = Cardinality(s)
      BY <1>3
    <3> QED
      BY <1>3, <2>1, <3>1, FS_EmptySet
  <2> QED
    BY <1>2, <2>1
<1>5. ASSUME NEW k \in 1 .. n, k - 1 \in holds PROVE k \in holds
  <2>1. ASSUME NEW s \in SUBSET S, Cardinality(s) <= k, NEW a \in s
        PROVE  it[s] = f[a] + it[s \ {a}]
    <3>1. PICK c \in s : c = CHOOSE x \in s : TRUE
      OBVIOUS
    <3>2. it[s] = f[c] + it[s \ {c}]
      BY <3>1 DEF Summed
    <3>3. CASE a # c
      <4>1. PICK t \in SUBSET S, v \in SUBSET S, w \in SUBSET S :
                t = s \ {c} /\ v = s \ {a} /\ w = v \ {c} /\ w = t \ {a}
        <5>1. (s \ {a}) \ {c} = (s \ {c}) \ {a}
          OBVIOUS
        <5>2. s \ {c} \in SUBSET S /\ s \ {a} \in SUBSET S /\ (s \ {a}) \ {c} \in SUBSET S
          OBVIOUS
        <5> QED
          BY <5>1, <5>2
      <4>2. Cardinality(t) <= k - 1 /\ Cardinality(v) <= k - 1
        <5>1. PICK j \in 0 .. n : j = Cardinality(s)
          BY <1>3
        <5>2. Cardinality(t) = j - 1 /\ Cardinality(v) = j - 1
          BY <1>3, <4>1, <5>1
        <5> QED
          BY <2>1, <5>1, <5>2
      <4>3. it[t] = f[a] + it[w]
        BY <1>2, <1>5, <3>3, <4>1, <4>2
      <4>4. it[v] = f[c] + it[w]
        BY <1>2, <1>5, <3>3, <4>1, <4>2
      <4>5. f[a] \in Int /\ f[c] \in Int /\ it[w] \in Int
        BY <1>3
      <4>6. it[s] = f[c] + (f[a] + it[w]) /\ it[s \ {a}] = f[c] + it[w]
        BY <3>2, <4>1, <4>3, <4>4
      <4>7. PICK x \in Int, y \in Int, z \in Int : x = f[a] /\ y = f[c] /\ z = it[w]
        BY <4>5
      <4>8. y + (x + z) = x + (y + z)
        OBVIOUS
      <4> QED
        BY ONLY <4>6, <4>7, <4>8
    <3> QED
      BY <3>2, <3>3
  <2> QED
    BY <1>2, <2>1
<1>6. 0 .. n \subseteq holds
  BY <1>4, <1>5, UpTo
<1>7. PICK k \in 0 .. n : k = Cardinality(T) /\ Cardinality(T) <= k
  <2>1. PICK k \in 0 .. n : k = Cardinality(T)
    BY <1>3
  <2> QED
    BY <2>1
<1> QED
  BY <1>2, <1>6, <1>7

\* Sums of the same terms are the same.
LEMMA SumSame ==
    ASSUME NEW S, IsFiniteSet(S), NEW f, NEW g, NEW it, Summed(f, S, it), NEW jt, Summed(g, S, jt),
           NEW T \in SUBSET S, \A x \in T : f[x] = g[x]
    PROVE  it[T] = jt[T]
<1>1. PICK n \in Nat : n = Cardinality(S)
  BY FS_CardinalityType
<1>2. PICK holds : holds = {k \in 0 .. n : \A s \in SUBSET T :
                        Cardinality(s) <= k => it[s] = jt[s]}
  OBVIOUS
<1>3. ASSUME NEW s \in SUBSET T
      PROVE  /\ IsFiniteSet(s) /\ s \in SUBSET S
             /\ \E k \in 0 .. n : k = Cardinality(s)
             /\ \A a \in s : Cardinality(s \ {a}) = Cardinality(s) - 1
  <2>0. s \in SUBSET S
    OBVIOUS
  <2>1. IsFiniteSet(s) /\ Cardinality(s) \in 0 .. n
    BY <1>1, <2>0, FS_Subset, FS_CardinalityType
  <2>2. \A a \in s : Cardinality(s \ {a}) = Cardinality(s) - 1
    BY <2>1, FS_RemoveElement
  <2> QED
    BY <2>0, <2>1, <2>2
<1>4. it[{}] = jt[{}]
  <2>1. {} \in SUBSET S
    OBVIOUS
  <2> QED
    BY <2>1 DEF Summed
<1>5. 0 \in holds
  <2>1. ASSUME NEW s \in SUBSET T, Cardinality(s) <= 0 PROVE s = {}
    <3>1. PICK k \in 0 .. n : k = Cardinality(s)
      BY <1>3
    <3> QED
      BY <1>3, <2>1, <3>1, FS_EmptySet
  <2>2. \A s \in SUBSET T : Cardinality(s) <= 0 => it[s] = jt[s]
    <3> SUFFICES ASSUME NEW s \in SUBSET T, Cardinality(s) <= 0 PROVE it[s] = jt[s]
      OBVIOUS
    <3>1. s = {}
      BY <2>1
    <3> QED
      BY <1>4, <3>1
  <2> QED
    BY <1>2, <2>2
<1>6. ASSUME NEW k \in 1 .. n, k - 1 \in holds PROVE k \in holds
  <2>1. ASSUME NEW s \in SUBSET T, Cardinality(s) <= k, s # {} PROVE it[s] = jt[s]
    <3>1. PICK c \in s : c = CHOOSE x \in s : TRUE
      BY <2>1
    <3>2. PICK t \in SUBSET T : t = s \ {c}
      OBVIOUS
    <3>3. Cardinality(t) <= k - 1
      <4>1. PICK j \in 0 .. n : j = Cardinality(s)
        BY <1>3
      <4>2. Cardinality(t) = j - 1
        BY <1>3, <3>2, <4>1
      <4> QED
        BY <2>1, <4>1, <4>2
    <3>4. it[t] = jt[t]
      BY <1>2, <1>6, <3>3
    <3>5. it[s] = f[c] + it[t] /\ jt[s] = g[c] + jt[t]
      BY <1>3, <2>1, <3>1, <3>2 DEF Summed
    <3> QED
      BY <3>4, <3>5
  <2>2. \A s \in SUBSET T : Cardinality(s) <= k => it[s] = jt[s]
    BY <1>4, <2>1
  <2> QED
    BY <1>2, <2>2
<1>7. 0 .. n \subseteq holds
  BY <1>5, <1>6, UpTo
<1>8. PICK k \in 0 .. n : k = Cardinality(T) /\ Cardinality(T) <= k
  <2>1. PICK k \in 0 .. n : k = Cardinality(T)
    BY <1>3
  <2> QED
    BY <2>1
<1>9. T \in SUBSET T
  OBVIOUS
<1> QED
  BY <1>2, <1>7, <1>8, <1>9

\* A sum of which one term changes.
LEMMA SumChanges ==
    ASSUME NEW S, IsFiniteSet(S), NEW f, \A x \in S : f[x] \in Int,
           NEW g, \A x \in S : g[x] \in Int, NEW b \in S, \A x \in S \ {b} : g[x] = f[x]
    PROVE  /\ SumFunctionOnSet(f, S) \in Int
           /\ SumFunctionOnSet(g, S) = SumFunctionOnSet(f, S) - f[b] + g[b]
<1>1. PICK it : Summed(f, S, it) /\ SumFunctionOnSet(f, S) = it[S]
  BY SumIs
<1>2. PICK jt : Summed(g, S, jt) /\ SumFunctionOnSet(g, S) = jt[S]
  BY SumIs
<1>3. PICK T \in SUBSET S : T = S \ {b}
  OBVIOUS
<1>4. it[S] = f[b] + it[T]
  <2>1. S \in SUBSET S
    OBVIOUS
  <2>2. it[S] = f[b] + it[S \ {b}]
    BY <1>1, <2>1, SumTerm
  <2> QED
    BY ONLY <1>3, <2>2
<1>5. jt[S] = g[b] + jt[T]
  <2>1. S \in SUBSET S
    OBVIOUS
  <2> QED
    BY <1>2, <1>3, <2>1, SumTerm
<1>6. it[T] = jt[T]
  BY <1>1, <1>2, <1>3, SumSame
<1>7. it[T] \in Int /\ it[S] \in Int /\ f[b] \in Int /\ g[b] \in Int
  BY <1>1 DEF Summed
<1>8. PICK x \in Int, y \in Int, z \in Int : x = f[b] /\ y = g[b] /\ z = it[T]
  BY <1>7
<1>9. it[S] = x + z /\ jt[S] = y + z
  BY <1>4, <1>5, <1>6, <1>8
<1>10. jt[S] = it[S] - x + y
  BY ONLY <1>9, x \in Int, y \in Int, z \in Int
<1>11. jt[S] = it[S] - f[b] + g[b]
  BY ONLY <1>8, <1>10
<1> QED
  BY ONLY <1>1, <1>2, <1>7, <1>11, Zenon

\* A sum of zeros.
LEMMA SumOfZeros ==
    ASSUME NEW S, IsFiniteSet(S), NEW f, \A x \in S : f[x] = 0
    PROVE  SumFunctionOnSet(f, S) = 0
<1>1. PICK it : Summed(f, S, it) /\ SumFunctionOnSet(f, S) = it[S]
  BY SumIs
<1>2. PICK z : z = [s \in SUBSET S |-> 0]
  OBVIOUS
<1>3. Summed(f, S, z)
  <2>1. ASSUME NEW s \in SUBSET S, s # {}
        PROVE  0 = f[CHOOSE x \in s : TRUE] + z[s \ {CHOOSE x \in s : TRUE}]
    <3>1. (CHOOSE x \in s : TRUE) \in S
      BY <2>1
    <3>2. PICK t \in SUBSET S : t = s \ {CHOOSE x \in s : TRUE}
      OBVIOUS
    <3> QED
      BY <1>2, <3>1, <3>2
  <2> QED
    BY <1>2, <2>1 DEF Summed
<1>4. it[S] = z[S]
  <2>1. S \in SUBSET S
    OBVIOUS
  <2> QED
    BY <1>1, <1>3, <2>1, SumSame
<1> QED
  BY <1>1, <1>2, <1>4

\* A sum of one term.
LEMMA SumOfOne ==
    ASSUME NEW f, NEW b, f[b] \in Int
    PROVE  SumFunctionOnSet(f, {b}) = f[b]
<1>1. PICK S : S = {b} /\ IsFiniteSet(S)
  BY FS_Singleton
<1>2. PICK it : Summed(f, S, it) /\ SumFunctionOnSet(f, S) = it[S]
  BY <1>1, SumIs
<1>3. it[S] = f[b] + it[{}]
  <2>1. S \in SUBSET S /\ S # {}
    BY <1>1
  <2>2. PICK c : c = CHOOSE x \in S : TRUE
    OBVIOUS
  <2>3. it[S] = f[c] + it[S \ {c}]
    BY <1>2, <2>1, <2>2 DEF Summed
  <2>4. c = b /\ S \ {c} = {}
    BY <1>1, <2>2
  <2> QED
    BY ONLY <2>3, <2>4
<1>4. it[{}] = 0
  <2>1. {} \in SUBSET S
    OBVIOUS
  <2> QED
    BY <1>2, <2>1 DEF Summed
<1>5. f[b] + 0 = f[b]
  BY ONLY f[b] \in Int
<1>6. it[S] = f[b]
  BY ONLY <1>3, <1>4, <1>5
<1> QED
  BY ONLY <1>1, <1>2, <1>6, Zenon
=============================================================================
