--------------------------- MODULE SemaphoresProofs ---------------------------
(***************************************************************************)
(* Proofs about Semaphores, for any number of processes, sets, semaphores  *)
(* and lists of operations, whatever page faults and signals come.         *)
(***************************************************************************)
EXTENDS Semaphores, ListsAndLoops

\* The types the counts, the sleepers and the channels they remember have.
Typed ==
    /\ cnt \in [Chans -> Nat]
    /\ wchan \in [Procs -> Chans \cup {None}]
    /\ pc \in [Procs -> {"user", "fault", "slept"}]
    /\ DOMAIN call = Procs
    /\ \A p \in Procs : pc[p] = "slept" => call[p].chan \in Chans

\* Accounted is inductive together with the types.
Sleeping == Typed /\ Accounted

\* A wakeup of the channels of W keeps the sleepers that remain accounted for.
LEMMA WakeupKeeps ==
    ASSUME Sleeping, NEW W
    PROVE  /\ Counts(W) \in [Chans -> Nat]
           /\ Woken(W) \in [Procs -> Chans \cup {None}]
           /\ \A q \in Procs : Woken(W)[q] # None => Counts(W)[Woken(W)[q]] > 0
           /\ \A q \in Procs : Woken(W)[q] \in {None, wchan[q]}
BY NoneAssumption DEF Sleeping, Typed, Accounted, Counts, Woken

\* The same for the actions that do nothing else to the sleepers.
LEMMA WakeupStep ==
    ASSUME Sleeping, NEW W, Wakeup(W), UNCHANGED <<pc, call>>
    PROVE  Sleeping'
BY WakeupKeeps DEF Sleeping, Typed, Accounted, Wakeup

\* A return from semop after a wakeup.
LEMMA ReturnStep ==
    ASSUME Sleeping, NEW W, NEW p \in Procs, Wakeup(W), Return(p)
    PROVE  Sleeping'
<1>1. pc' \in [Procs -> {"user", "fault", "slept"}] /\ DOMAIN call' = Procs
  BY DEF Sleeping, Typed, Return
<1>2. \A q \in Procs : pc'[q] = "slept" => call'[q].chan \in Chans
  BY DEF Sleeping, Typed, Return
<1>. QED  BY <1>1, <1>2, WakeupKeeps DEF Sleeping, Typed, Accounted, Wakeup

\* Going to sleep, or not because of a signal.
LEMMA WaitStep ==
    ASSUME Sleeping, NEW p \in Procs, NEW c \in Chans, NEW id, NEW list, NEW r,
           Wait(p, c, id, list, r)
    PROVE  Sleeping'
<1>. DEFINE C == Counts(r.wake)
            W == Woken(r.wake)
<1>1. /\ C \in [Chans -> Nat]
      /\ W \in [Procs -> Chans \cup {None}]
      /\ \A q \in Procs : W[q] # None => C[W[q]] > 0
      /\ \A q \in Procs : W[q] \in {None, wchan[q]}
  BY WakeupKeeps
<1>2. CASE /\ cnt' = [C EXCEPT ![c] = C[c] + 1]
           /\ wchan' = [W EXCEPT ![p] = c]
           /\ pc' = [pc EXCEPT ![p] = "slept"]
           /\ call' = [call EXCEPT ![p] = [id |-> id, ops |-> list, again |-> TRUE,
                                           copied |-> 0, chan |-> c]]
  <2>. HIDE DEF C, W
  <2>1. cnt' \in [Chans -> Nat] /\ wchan' \in [Procs -> Chans \cup {None}]
    BY <1>1, <1>2
  <2>2. pc' \in [Procs -> {"user", "fault", "slept"}] /\ DOMAIN call' = Procs
    BY <1>2 DEF Sleeping, Typed
  <2>3. \A q \in Procs : pc'[q] = "slept" => call'[q].chan \in Chans
    BY <1>2 DEF Sleeping, Typed
  <2>4. Accounted'
    BY <1>1, <1>2 DEF Accounted
  <2>. QED  BY <2>1, <2>2, <2>3, <2>4 DEF Sleeping, Typed
<1>3. CASE /\ cnt' = C
           /\ wchan' = [q \in Procs |-> IF C[c] = 0 /\ wchan[q] = c THEN None ELSE W[q]]
           /\ Return(p)
  <2>. HIDE DEF C, W
  <2>1. cnt' \in [Chans -> Nat] /\ wchan' \in [Procs -> Chans \cup {None}]
    BY <1>1, <1>3
  <2>2. pc' \in [Procs -> {"user", "fault", "slept"}] /\ DOMAIN call' = Procs
    BY <1>3 DEF Sleeping, Typed, Return
  <2>3. \A q \in Procs : pc'[q] = "slept" => call'[q].chan \in Chans
    BY <1>3 DEF Sleeping, Typed, Return
  <2>4. Accounted'
    BY <1>1, <1>3 DEF Accounted
  <2>. QED  BY <2>1, <2>2, <2>3, <2>4 DEF Sleeping, Typed
<1>. QED  BY <1>2, <1>3 DEF Wait

\* A copy of the operations, with the page fault or the pass at its end.
LEMMA MoveStep ==
    ASSUME Sleeping, NEW p \in Procs, NEW id, NEW list, NEW k, NEW again,
           Move(p, id, list, k, again)
    PROVE  Sleeping'
<1>1. CASE \E j \in k .. Len(list) - 1 :
             /\ pc' = [pc EXCEPT ![p] = "fault"]
             /\ call' = [call EXCEPT ![p] = [id |-> id, ops |-> list, again |-> again,
                                             copied |-> j, chan |-> None]]
             /\ UNCHANGED <<cnt, wchan>>
  BY <1>1 DEF Sleeping, Typed, Accounted
<1>2. ASSUME NEW ops, Semops(p, id, list, ops, again)
      PROVE  Sleeping'
  BY <1>2, ReturnStep, WaitStep DEF Semops, Succeed, Fail
<1>3. CASE Refused(p, id, again)
  BY <1>3 DEF Refused, Return, Sleeping, Typed, Accounted
<1>. QED  BY <1>1, <1>2, <1>3 DEF Move

\* Every step keeps the sleepers accounted for.
LEMMA SleepingStep == Sleeping /\ [Next]_vars => Sleeping'
<1>. SUFFICES ASSUME Sleeping, [Next]_vars PROVE Sleeping'
  OBVIOUS
<1>1. CASE UNCHANGED vars
  BY <1>1 DEF vars, Sleeping, Typed, Accounted
<1>2. ASSUME NEW p \in Procs, Semget(p)
      PROVE  Sleeping'
  BY <1>2 DEF Semget, UnchangedCalls, Sleeping, Typed, Accounted
<1>3. ASSUME NEW p \in Procs, Semexit(p)
      PROVE  Sleeping'
  BY <1>3, WakeupStep DEF Semexit, UnchangedCalls
<1>4. ASSUME NEW p \in Procs, NEW id, Semctl(p, id)
      PROVE  Sleeping'
  <2>1. CASE Rmid(p, id)
    BY <2>1, WakeupStep DEF Rmid, UnchangedCalls
  <2>2. ASSUME NEW n, NEW v, Setval(p, id, n, v)
        PROVE  Sleeping'
    BY <2>2, WakeupStep DEF Setval, UnchangedCalls
  <2>3. ASSUME NEW vals, Setall(p, id, vals)
        PROVE  Sleeping'
    BY <2>3, WakeupStep DEF Setall, UnchangedCalls
  <2>. QED  BY <1>4, <2>1, <2>2, <2>3 DEF Semctl
<1>5. ASSUME NEW p \in Procs, NEW id, NEW list, Semop(p, id, list)
      PROVE  Sleeping'
  BY <1>5, MoveStep DEF Semop
<1>6. ASSUME NEW p \in Procs, PageIn(p)
      PROVE  Sleeping'
  BY <1>6, MoveStep DEF PageIn
<1>7. ASSUME NEW p \in Procs, SemopAgain(p)
      PROVE  Sleeping'
  <2>1. CASE Move(p, call[p].id, call[p].ops, 0, TRUE)
    BY <2>1, MoveStep
  <2>2. CASE Return(p) /\ UNCHANGED <<cnt, wchan>>
    BY <2>2 DEF Return, Sleeping, Typed, Accounted
  <2>. QED  BY <1>7, <2>1, <2>2 DEF SemopAgain
<1>8. ASSUME NEW p \in Procs, SemopIntr(p)
      PROVE  Sleeping'
  <2>. DEFINE c == call[p].chan
  <2>0. c \in Chans
    BY <1>8 DEF SemopIntr, Sleeping, Typed
  <2>1. cnt' \in [Chans -> Nat] /\ wchan' \in [Procs -> Chans \cup {None}]
    BY <1>8, <2>0 DEF SemopIntr, Awaken, Sleeping, Typed
  <2>2. pc' \in [Procs -> {"user", "fault", "slept"}] /\ DOMAIN call' = Procs
    BY <1>8 DEF SemopIntr, Sleeping, Typed, Return
  <2>3. \A q \in Procs : pc'[q] = "slept" => call'[q].chan \in Chans
    BY <1>8 DEF SemopIntr, Sleeping, Typed, Return
  <2>4. Accounted'
    BY <1>8, <2>0 DEF SemopIntr, Awaken, Accounted, Sleeping, Typed
  <2>. QED  BY <2>1, <2>2, <2>3, <2>4 DEF Sleeping, Typed
<1>9. ASSUME NEW p \in Procs, Signal(p)
      PROVE  Sleeping'
  BY <1>9 DEF Signal, Sleeping, Typed, Accounted
<1>. QED  BY <1>1, <1>2, <1>3, <1>4, <1>5, <1>6, <1>7, <1>8, <1>9 DEF Next

\* Nobody sleeps in semop uncounted, so that every change of a value that concerns
\* him wakes him, and so does IPC_RMID: the counts are reset by those who wake and
\* taken back by those who are interrupted, in any order.
THEOREM SleepersAccounted == Spec => []Accounted
<1>1. Init => Sleeping
  BY DEF Init, Sleeping, Typed, Accounted
<1>2. Sleeping => Accounted
  BY DEF Sleeping
<1>. QED  BY <1>1, <1>2, SleepingStep, PTL DEF Spec

-----------------------------------------------------------------------------
\* Without page faults, whoever sleeps sleeps for the set he named.
Settled ==
    /\ Sleeping
    /\ DOMAIN alloc = Slots /\ DOMAIN seq = Slots
    /\ \A p \in Procs : pc[p] # "fault" /\ (pc[p] = "user" => wchan[p] = None)
    /\ NoSleepOnRemoved

\* The sleepers after a step that leaves the table of sets alone, wakes some
\* processes and changes nothing for the sleepers that remain.
LEMMA SettledKept ==
    ASSUME Settled, Sleeping', UNCHANGED tables,
           \A q \in Procs : pc'[q] # "fault",
           \A q \in Procs : wchan'[q] # None => /\ wchan'[q] = wchan[q] /\ call'[q] = call[q]
                                            /\ pc'[q] = pc[q]
    PROVE  Settled'
BY DEF Settled, NoSleepOnRemoved, Semconv, Slot, tables

\* A process that returns after waking some others does not sleep.
LEMMA SettledReturn ==
    ASSUME Settled, Sleeping', NEW p \in Procs, NEW W, wchan[p] = None,
           Return(p), Wakeup(W), UNCHANGED tables
    PROVE  Settled'
<1>1. \A q \in Procs : wchan'[q] # None => /\ wchan'[q] = wchan[q] /\ call'[q] = call[q]
                                            /\ pc'[q] = pc[q]
  BY WakeupKeeps DEF Settled, Sleeping, Typed, Wakeup, Return
<1>2. \A q \in Procs : pc'[q] # "fault"
  BY DEF Settled, Sleeping, Typed, Return
<1>. QED  BY <1>1, <1>2, SettledKept

\* A pass of semop with an identifier that names a set.
LEMMA SettledPass ==
    ASSUME Settled, Sleeping', Paged = {},
           NEW p \in Procs, NEW id, NEW list, NEW k, NEW again,
           wchan[p] = None, Semconv(id), Move(p, id, list, k, again)
    PROVE  Settled'
<1>0. UNCHANGED tables
  BY DEF Move
<1>1. CASE Refused(p, id, again)
  BY <1>0, <1>1 DEF Refused, Semconv
<1>2. ASSUME NEW ops, Semops(p, id, list, ops, again)
      PROVE  Settled'
  <2>1. ASSUME NEW W, Return(p), Wakeup(W)
        PROVE  Settled'
    BY <1>0, <2>1, SettledReturn
  <2>2. ASSUME NEW c \in Chans, NEW r, c[1] = Slot(id), Wait(p, c, id, list, r)
        PROVE  Settled'
    <3>. DEFINE C == Counts(r.wake)
                W == Woken(r.wake)
    <3>1. \A q \in Procs : W[q] \in {None, wchan[q]}
      BY WakeupKeeps DEF Settled
    <3>2. CASE /\ wchan' = [W EXCEPT ![p] = c]
               /\ pc' = [pc EXCEPT ![p] = "slept"]
               /\ call' = [call EXCEPT ![p] = [id |-> id, ops |-> list, again |-> TRUE,
                                               copied |-> 0, chan |-> c]]
      <4>1. \A q \in Procs : pc'[q] # "fault" /\ (pc'[q] = "user" => wchan'[q] = None)
        BY <3>1, <3>2 DEF Settled, Sleeping, Typed, Woken
      <4>2. wchan'[p] = c /\ call'[p].id = id
        BY <3>2 DEF Settled, Sleeping, Typed, Woken
      <4>3. \A q \in Procs \ {p} : wchan'[q] \in {None, wchan[q]} /\ call'[q] = call[q]
        BY <3>1, <3>2 DEF Settled, Sleeping, Typed, Woken
      <4>4. NoSleepOnRemoved'
        BY <1>0, <2>2, <4>2, <4>3 DEF Settled, NoSleepOnRemoved, Semconv, Slot, tables
      <4>. QED  BY <1>0, <4>1, <4>4 DEF Settled, tables
    <3>3. CASE /\ wchan' = [q \in Procs |-> IF C[c] = 0 /\ wchan[q] = c THEN None ELSE W[q]]
               /\ Return(p)
      <4>1. \A q \in Procs : wchan'[q] # None => /\ wchan'[q] = wchan[q] /\ call'[q] = call[q]
                                                /\ pc'[q] = pc[q]
        BY <3>1, <3>3 DEF Settled, Sleeping, Typed, Return
      <4>2. \A q \in Procs : pc'[q] # "fault"
        BY <3>3 DEF Settled, Sleeping, Typed, Return
      <4>. QED  BY <1>0, <4>1, <4>2, SettledKept
    <3>. QED  BY <2>2, <3>2, <3>3 DEF Wait
  <2>. QED  BY <1>2, <2>1, <2>2 DEF Semops, Succeed, Fail
<1>. QED  BY <1>1, <1>2 DEF Move

\* Every step keeps whoever sleeps with a set.
LEMMA SettledStep == Paged = {} /\ Settled /\ [Next]_vars => Settled'
<1>. SUFFICES ASSUME Paged = {}, Settled, [Next]_vars PROVE Settled'
  OBVIOUS
<1>0. Sleeping'
  BY SleepingStep DEF Settled
<1>1. CASE UNCHANGED vars
  BY <1>0, <1>1, SettledKept DEF vars, Settled
<1>2. ASSUME NEW p \in Procs, Semget(p)
      PROVE  Settled'
  BY <1>0, <1>2 DEF Semget, UnchangedCalls, Settled, NoSleepOnRemoved, Semconv, Slot
<1>3. ASSUME NEW p \in Procs, NEW W, Wakeup(W), UnchangedCalls, UNCHANGED tables
      PROVE  Settled'
  BY <1>0, <1>3, WakeupKeeps, SettledKept DEF Wakeup, UnchangedCalls, Settled
<1>4. ASSUME NEW p \in Procs, Semexit(p)
      PROVE  Settled'
  BY <1>3, <1>4 DEF Semexit
<1>5. ASSUME NEW p \in Procs, NEW id, Rmid(p, id)
      PROVE  Settled'
  <2>. DEFINE s == Slot(id)
              W == {s} \X Nums \X {"ncnt", "zcnt"}
  <2>1. \A q \in Procs : wchan'[q] # None => wchan'[q] = wchan[q] /\ wchan[q] \notin W
    BY <1>5 DEF Rmid, Wakeup, Woken, Settled, Sleeping, Typed, Accounted
  <2>2. \A q \in Procs : wchan'[q] # None => wchan[q][1] # s
    BY <2>1 DEF Settled, Sleeping, Typed, Chans
  <2>3. \A q \in Procs : wchan'[q] # None => wchan[q][1] \in Slots
    BY <2>1 DEF Settled, Sleeping, Typed, Chans
  <2>4. NoSleepOnRemoved'
    BY <1>5, <2>1, <2>2, <2>3
    DEF Rmid, UnchangedCalls, Settled, NoSleepOnRemoved, Semconv, Slot
  <2>. QED  BY <1>0, <1>5, <2>1, <2>4 DEF Settled, Rmid, UnchangedCalls
<1>6. ASSUME NEW p \in Procs, NEW id, Semctl(p, id)
      PROVE  Settled'
  BY <1>3, <1>5, <1>6 DEF Semctl, Setval, Setall
<1>7. ASSUME NEW p \in Procs, NEW id, NEW list, Semop(p, id, list)
      PROVE  Settled'
  BY <1>0, <1>7, SettledPass DEF Semop, Outside, Settled
<1>8. ASSUME NEW p \in Procs, PageIn(p)
      PROVE  Settled'
  BY <1>8 DEF PageIn, Settled
<1>9. ASSUME NEW p \in Procs, SemopAgain(p)
      PROVE  Settled'
  <2>1. CASE Semconv(call[p].id) /\ Move(p, call[p].id, call[p].ops, 0, TRUE)
    BY <1>0, <1>9, <2>1, SettledPass DEF SemopAgain
  <2>2. CASE Return(p) /\ UNCHANGED <<tables, wchan>>
    <3>1. \A q \in Procs : pc'[q] # "fault"
      BY <2>2 DEF Return, Settled, Sleeping, Typed
    <3>2. \A q \in Procs \ {p} : call'[q] = call[q] /\ pc'[q] = pc[q]
      BY <2>2 DEF Return, Settled, Sleeping, Typed
    <3>. QED  BY <1>0, <1>9, <2>2, <3>1, <3>2, SettledKept DEF SemopAgain
  <2>. QED  BY <1>9, <2>1, <2>2 DEF SemopAgain
<1>10. ASSUME NEW p \in Procs, SemopIntr(p)
       PROVE  Settled'
  <2>1. \A q \in Procs : pc'[q] # "fault"
    BY <1>10 DEF SemopIntr, Return, Settled, Sleeping, Typed
  <2>2. \A q \in Procs \ {p} : call'[q] = call[q] /\ pc'[q] = pc[q]
    BY <1>10 DEF SemopIntr, Return, Settled, Sleeping, Typed
  <2>3. \A q \in Procs : wchan'[q] \in {None, wchan[q]}
    BY <1>10 DEF SemopIntr, Awaken
  <2>. QED  BY <1>0, <1>10, <2>1, <2>2, <2>3, SettledKept DEF SemopIntr
<1>11. ASSUME NEW p \in Procs, Signal(p)
       PROVE  Settled'
  <2>1. \A q \in Procs : wchan'[q] \in {None, wchan[q]}
    BY <1>11 DEF Signal, Settled, Sleeping, Typed
  <2>. QED  BY <1>0, <1>11, <2>1, SettledKept DEF Signal, Settled
<1>. QED
  BY <1>1, <1>2, <1>4, <1>6, <1>7, <1>8, <1>9, <1>10, <1>11 DEF Next

\* When no page of a caller is out, IPC_RMID sends everybody away who sleeps for
\* the set, and nobody goes to sleep for a set that is not there.
THEOREM RemovalWakesAll == Paged = {} => (Spec => []NoSleepOnRemoved)
<1>. SUFFICES ASSUME Paged = {} PROVE Spec => []NoSleepOnRemoved
  OBVIOUS
<1>1. Init => Settled
  BY DEF Init, Settled, Sleeping, Typed, Accounted, NoSleepOnRemoved
<1>2. Settled /\ [Next]_vars => Settled'
  BY SettledStep
<1>3. Settled => NoSleepOnRemoved
  BY DEF Settled
<1>. QED  BY <1>1, <1>2, <1>3, PTL DEF Spec

-----------------------------------------------------------------------------
(* A pass of semop *)

\* The entries of an undo structure, and what a process can have of them.
Entry == [id : Int, num : Nums, aoe : Int]
Undos == Seq(Entry) \cup {None}

\* The states of a pass.
States == [val : [Nums -> Int], u : Undos, wake : SUBSET Chans, n : Nat,
           res : {"ok", "error", "ncnt", "zcnt"}]

\* The place of a semaphore is one in the list or the one behind its end.
LEMMA PlaceInList ==
    ASSUME NEW u \in Seq(Entry), NEW id, NEW n
    PROVE  Place(u, id, n) \in 1 .. Len(u) + 1
<1>1. PICK T : T = {i \in DOMAIN u : \A j \in 1 .. i : u[j].id < id \/ (u[j].id = id /\ u[j].num < n)}
  OBVIOUS
<1>2. Len(u) \in Nat /\ T \in SUBSET (1 .. Len(u))
  BY <1>1
<1>3. IsFiniteSet(1 .. Len(u)) /\ Cardinality(1 .. Len(u)) = Len(u)
  <2>1. IsFiniteSet(1 .. Len(u)) /\ Cardinality(1 .. Len(u)) = IF 1 > Len(u) THEN 0 ELSE Len(u) - 1 + 1
    BY <1>2, FS_Interval
  <2> QED
    BY <1>2, <2>1
<1>4. IsFiniteSet(T) /\ Cardinality(T) <= Len(u)
  BY <1>2, <1>3, FS_Subset
<1>5. Cardinality(T) \in Nat
  BY <1>4, FS_CardinalityType
<1>6. Place(u, id, n) = 1 + Cardinality(T)
  BY <1>1 DEF Place
<1> QED
  BY <1>2, <1>4, <1>5, <1>6

\* What semaoe may make of an undo structure.
LEMMA SemaoeTypes ==
    ASSUME NEW u0 \in Undos, NEW avail \in BOOLEAN, NEW v \in Int, NEW id \in Int, NEW n \in Nums
    PROVE  /\ Semaoe(u0, avail, v, id, n).ok \in BOOLEAN
           /\ Semaoe(u0, avail, v, id, n).u \in Undos
<1>1. PICK u : u = IF u0 = None THEN <<>> ELSE u0
  OBVIOUS
<1>2. u \in Seq(Entry)
  BY <1>1 DEF Undos
<1>3. PICK i : i = Place(u, id, n)
  OBVIOUS
<1>4. i \in 1 .. Len(u) + 1 /\ Len(u) \in Nat
  BY <1>2, <1>3, PlaceInList
<1>5. PICK found \in BOOLEAN : found <=> (i \in DOMAIN u /\ u[i].id = id /\ u[i].num = n)
  OBVIOUS
<1>6. found => i \in 1 .. Len(u) /\ u[i] \in Entry
  BY <1>2, <1>5
<1>7. PICK aoe : aoe = IF found THEN u[i].aoe - v ELSE -v
  OBVIOUS
<1>8. aoe \in Int
  BY <1>6, <1>7 DEF Entry
<1>9. Short(id) \in Int
  BY DEF Short
<1>10. InsertAt(u, i, [id |-> Short(id), num |-> n, aoe |-> aoe]) \in Undos
  <2>1. [id |-> Short(id), num |-> n, aoe |-> aoe] \in Entry
    BY <1>8, <1>9 DEF Entry
  <2> QED
    BY <1>2, <1>4, <2>1, InsertFacts DEF Undos
<1>11. found => RemoveAt(u, i) \in Undos
  BY <1>2, <1>6, RemoveFacts DEF Undos
<1>12. found => [u EXCEPT ![i].aoe = aoe] \in Undos
  <2>1. ASSUME found PROVE [u EXCEPT ![i].aoe = aoe] = [u EXCEPT ![i] = [u[i] EXCEPT !.aoe = aoe]]
    OBVIOUS
  <2>2. ASSUME found PROVE [u[i] EXCEPT !.aoe = aoe] \in Entry
    BY <1>6, <1>8, <2>2 DEF Entry
  <2> QED
    BY <1>2, <1>6, <2>1, <2>2, ExceptSeq DEF Undos
<1>13. u \in Undos
  BY <1>2 DEF Undos
<1>14. PICK w : w = IF ~found THEN InsertAt(u, i, [id |-> Short(id), num |-> n, aoe |-> aoe])
                    ELSE IF aoe = 0 THEN RemoveAt(u, i)
                    ELSE [u EXCEPT ![i].aoe = aoe]
  OBVIOUS
<1>15. w \in Undos
  BY <1>10, <1>11, <1>12, <1>14
<1>16. Semaoe(u0, avail, v, id, n) =
         IF v = 0 THEN [ok |-> TRUE, u |-> u0]
         ELSE IF Abs(v) > SEMAEM \/ (u0 = None /\ ~avail) THEN [ok |-> FALSE, u |-> u0]
         ELSE IF (~found /\ Len(u) >= SEMUME) \/ Abs(aoe) > SEMAEM THEN [ok |-> FALSE, u |-> u]
         ELSE [ok |-> TRUE, u |-> w]
  BY <1>1, <1>3, <1>5, <1>7, <1>14 DEF Semaoe
<1> QED
  BY <1>13, <1>15, <1>16

\* Operation o has been done in state st, which gives r.
Done(st, o, s, id, r) ==
    /\ r.res = "ok" /\ r.n = st.n + 1
    /\ r.val = [st.val EXCEPT ![o.num] = @ + o.op]
    /\ o.op < 0 => st.val[o.num] + o.op >= 0
    /\ o.op = 0 => st.val[o.num] = 0
    /\ st.wake \subseteq r.wake
    /\ o.op > 0 => <<s, o.num, "ncnt">> \in r.wake
    /\ o.op # 0 /\ r.val[o.num] = 0 => <<s, o.num, "zcnt">> \in r.wake
    /\ IF o.undo THEN Semaoe(st.u, Avail, o.op, id, o.num) = [ok |-> TRUE, u |-> r.u]
                 ELSE r.u = st.u

\* Operation o cannot be done in state st, which gives r.
Stopped(st, o, id, r) ==
    /\ r.res \in {"error", "ncnt", "zcnt"}
    /\ r.n = st.n /\ r.val = st.val /\ r.wake = st.wake
    /\ r.res = "ncnt" => o.op < 0 /\ st.val[o.num] + o.op < 0
    /\ r.res = "zcnt" => o.op = 0 /\ st.val[o.num] # 0
    /\ r.u \in {st.u, Semaoe(st.u, Avail, o.op, id, o.num).u}
    /\ r.u # st.u => ~Semaoe(st.u, Avail, o.op, id, o.num).ok

\* An operation is done or not.
LEMMA OperateFacts ==
    ASSUME NEW st \in States, NEW o \in Sembuf, NEW s \in Slots, NEW id \in Int,
           NEW r, r = Operate(st, o, s, id), st.res = "ok"
    PROVE  /\ r \in States
           /\ Done(st, o, s, id, r) \/ Stopped(st, o, id, r)
<1>1. PICK v : v = st.val[o.num] + o.op
  OBVIOUS
<1>2. PICK b : b = Semaoe(st.u, Avail, o.op, id, o.num)
  OBVIOUS
<1>3. PICK a : a = IF o.undo THEN b ELSE [ok |-> TRUE, u |-> st.u]
  OBVIOUS
<1>4. o.num \in Nums /\ o.op \in Int /\ o.undo \in BOOLEAN
  BY DEF Sembuf
<1>5. st.val \in [Nums -> Int] /\ st.u \in Undos /\ st.wake \in SUBSET Chans /\ st.n \in Nat
  BY DEF States
<1>6. v \in Int
  BY <1>1, <1>4, <1>5
<1>7. b.ok \in BOOLEAN /\ b.u \in Undos
  <2>1. Avail \in BOOLEAN
    BY DEF Avail
  <2> QED
    BY <1>2, <1>4, <1>5, <2>1, SemaoeTypes
<1>8. a.ok \in BOOLEAN /\ a.u \in Undos
  BY <1>3, <1>4, <1>5, <1>7
<1>9. PICK w : w = st.wake \cup (IF o.op > 0 THEN {<<s, o.num, "ncnt">>} ELSE {})
                           \cup (IF o.op # 0 /\ v = 0 THEN {<<s, o.num, "zcnt">>} ELSE {})
  OBVIOUS
<1>10. <<s, o.num, "ncnt">> \in Chans /\ <<s, o.num, "zcnt">> \in Chans
  BY <1>4 DEF Chans
<1>11. w \in SUBSET Chans
  BY <1>5, <1>9, <1>10
<1>12. PICK d : d = [st EXCEPT !.val[o.num] = v, !.u = a.u, !.n = @ + 1, !.wake = w]
  OBVIOUS
<1>13. r = IF o.op > 0 /\ v > SEMVMX THEN [st EXCEPT !.res = "error"]
           ELSE IF o.op < 0 /\ v < 0 THEN [st EXCEPT !.res = "ncnt"]
           ELSE IF o.op = 0 /\ v # 0 THEN [st EXCEPT !.res = "zcnt"]
           ELSE IF ~a.ok THEN [st EXCEPT !.res = "error", !.u = a.u]
           ELSE d
  BY <1>1, <1>2, <1>3, <1>9, <1>12 DEF Operate
<1>14. CASE r \in {[st EXCEPT !.res = x] : x \in {"error", "ncnt", "zcnt"}}
  <2>1. r \in States
    BY <1>14 DEF States
  <2>2. r.res = "ncnt" => o.op < 0 /\ v < 0
    BY <1>4, <1>13, <1>14, <1>12 DEF States
  <2>3. r.res = "zcnt" => o.op = 0 /\ v # 0
    BY <1>4, <1>13, <1>14, <1>12 DEF States
  <2>4. r.res \in {"error", "ncnt", "zcnt"} /\ r.n = st.n /\ r.val = st.val /\ r.wake = st.wake /\ r.u = st.u
    BY <1>14 DEF States
  <2>5. o.op = 0 => v = st.val[o.num]
    BY <1>1, <1>4, <1>5
  <2>6. Stopped(st, o, id, r)
    BY <1>1, <2>2, <2>3, <2>4, <2>5 DEF Stopped
  <2> QED
    BY <2>1, <2>6
<1>15. CASE ~a.ok /\ r = [st EXCEPT !.res = "error", !.u = a.u]
  <2>1. r \in States
    BY <1>8, <1>15 DEF States
  <2>2. o.undo /\ a = b
    BY <1>3, <1>15
  <2>3. r.res = "error" /\ r.n = st.n /\ r.val = st.val /\ r.wake = st.wake /\ r.u = b.u /\ ~b.ok
    BY <1>15, <2>2 DEF States
  <2>4. Stopped(st, o, id, r)
    BY <1>2, <2>3 DEF Stopped
  <2> QED
    BY <2>1, <2>4
<1>16. CASE a.ok /\ r = d
  <2>0. PICK x : x = [st.val EXCEPT ![o.num] = v]
    OBVIOUS
  <2>1. r \in States
    <3>1. x \in [Nums -> Int]
      BY <1>4, <1>5, <1>6, <2>0
    <3>2. r = [val |-> x, u |-> a.u, wake |-> w, n |-> st.n + 1, res |-> st.res]
      BY <1>12, <1>16, <2>0 DEF States
    <3>3. st.n + 1 \in Nat /\ st.res \in {"ok", "error", "ncnt", "zcnt"}
      BY DEF States
    <3> QED
      BY <1>8, <1>11, <3>1, <3>2, <3>3 DEF States
  <2>2. r.res = "ok" /\ r.n = st.n + 1 /\ r.wake = w /\ r.u = a.u
    BY <1>12, <1>16 DEF States
  <2>3. r.val = [st.val EXCEPT ![o.num] = v]
    BY <1>12, <1>16 DEF States
  <2>4. r.val = [st.val EXCEPT ![o.num] = @ + o.op] /\ r.val[o.num] = v
    BY <1>1, <1>4, <1>5, <2>3
  <2>5. /\ st.wake \subseteq r.wake
        /\ o.op > 0 => <<s, o.num, "ncnt">> \in r.wake
        /\ o.op # 0 /\ r.val[o.num] = 0 => <<s, o.num, "zcnt">> \in r.wake
    BY <1>9, <2>2, <2>4
  <2>6. IF o.undo THEN b = [ok |-> TRUE, u |-> r.u] ELSE r.u = st.u
    <3>1. b = [ok |-> b.ok, u |-> b.u]
      BY <1>2 DEF Semaoe
    <3>2. o.undo => b.ok = TRUE /\ b.u = r.u
      BY <1>3, <1>16, <1>7, <2>2
    <3>3. ~o.undo => r.u = st.u
      BY <1>3, <2>2
    <3> QED
      BY <3>1, <3>2, <3>3
  <2>8. (o.op < 0 => v >= 0) /\ (o.op = 0 => v = 0)
    <3>1. r.res # "error" /\ r.res # "ncnt" /\ r.res # "zcnt"
      BY <2>2
    <3>2. ~(o.op < 0 /\ v < 0) /\ ~(o.op = 0 /\ v # 0)
      BY <1>4, <1>6, <1>13, <3>1 DEF States
    <3> QED
      BY <1>4, <1>6, <3>2
  <2>9. (o.op < 0 => st.val[o.num] + o.op >= 0) /\ (o.op = 0 => st.val[o.num] = 0)
    BY <1>1, <1>4, <1>5, <2>8
  <2>7. Done(st, o, s, id, r)
    BY <1>2, <2>2, <2>4, <2>5, <2>6, <2>9 DEF Done
  <2> QED
    BY <2>1, <2>7
<1> QED
  BY <1>13, <1>14, <1>15, <1>16

\* The states f of the loop of semop from st.
DoSteps(f, ops, st, s, id) ==
    /\ f \in [0 .. Len(ops) -> States]
    /\ f[0] = st
    /\ \A i \in 1 .. Len(ops) :
           f[i] = IF f[i - 1].res = "ok" THEN Operate(f[i - 1], ops[i], s, id) ELSE f[i - 1]

\* The loop of semop goes through them, and Do is the last.
LEMMA DoRuns ==
    ASSUME NEW ops \in Seq(Sembuf), NEW st \in States, NEW s \in Slots, NEW id \in Int
    PROVE  \E f : DoSteps(f, ops, st, s, id) /\ Do(ops, st, s, id) = f[Len(ops)]
<1> DEFINE Turn(i, t) == IF t.res = "ok" THEN Operate(t, ops[i], s, id) ELSE t
<1>1. PICK n \in Nat : n = Len(ops)
  OBVIOUS
<1>2. PICK step : step = [i \in 1 .. n |-> [t \in States |-> Turn(i, t)]]
  OBVIOUS
<1>3. ASSUME NEW i \in 1 .. n, NEW t \in States PROVE Turn(i, t) \in States
  BY <1>1, OperateFacts
<1>4. step \in [1 .. n -> [States -> States]]
  <2> HIDE DEF Turn
  <2> QED
    BY <1>2, <1>3
<1>5. PICK f \in [0 .. n -> States] : f[0] = st /\ \A i \in 1 .. n : f[i] = step[i][f[i - 1]]
  <2>1. Runs(States, step, st, n)
    BY <1>4, LoopRuns
  <2> QED
    BY <2>1 DEF Runs
<1>6. ASSUME NEW i \in 1 .. n PROVE f[i] = Turn(i, f[i - 1])
  <2>1. f[i - 1] \in States
    BY <1>5
  <2> HIDE DEF Turn
  <2> QED
    BY <1>2, <1>5, <2>1
<1>7. \A i \in 0 .. n : f[i] = IF i = 0 THEN st ELSE Turn(i, f[i - 1])
  <2> HIDE DEF Turn
  <2> QED
    BY <1>5, <1>6
<1>8. f = [i \in 0 .. n |-> IF i = 0 THEN st
                            ELSE IF f[i - 1].res = "ok" THEN Operate(f[i - 1], ops[i], s, id)
                            ELSE f[i - 1]]
  <2>1. PICK h : h = [i \in 0 .. n |-> IF i = 0 THEN st
                                       ELSE IF f[i - 1].res = "ok" THEN Operate(f[i - 1], ops[i], s, id)
                                       ELSE f[i - 1]]
    OBVIOUS
  <2>2. \A i \in 0 .. n : f[i] = h[i]
    BY <1>7, <2>1
  <2> QED
    BY <1>5, <2>1, <2>2
<1>9. PICK g : /\ g = [i \in 0 .. Len(ops) |-> IF i = 0 THEN st
                                     ELSE IF g[i - 1].res = "ok" THEN Operate(g[i - 1], ops[i], s, id)
                                     ELSE g[i - 1]]
               /\ Do(ops, st, s, id) = g[Len(ops)]
  BY <1>1, <1>8 DEF Do
<1>10. DOMAIN g = 0 .. n /\ \A i \in 0 .. n : g[i] = IF i = 0 THEN st ELSE Turn(i, g[i - 1])
  BY <1>1, <1>9
<1>11. 0 .. n \subseteq {i \in 0 .. n : g[i] \in States}
  <2>1. PICK holds : holds = {i \in 0 .. n : g[i] \in States}
    OBVIOUS
  <2>2. 0 \in holds
    BY <1>10, <2>1
  <2>3. ASSUME NEW i \in 1 .. n, i - 1 \in holds PROVE i \in holds
    <3>1. g[i - 1] \in States /\ g[i] = Turn(i, g[i - 1])
      BY <1>10, <2>1, <2>3
    <3> HIDE DEF Turn
    <3> QED
      BY <1>3, <2>1, <3>1
  <2> QED
    BY <2>1, <2>2, <2>3, UpTo
<1>12. g \in [0 .. n -> States]
  <2>1. \A i \in 0 .. n : g[i] \in States
    BY <1>11
  <2>2. g = [i \in 0 .. n |-> g[i]]
    BY <1>1, <1>9
  <2> QED
    BY <2>1, <2>2
<1>13. g[0] = st /\ \A i \in 1 .. n : g[i] = Turn(i, g[i - 1])
  BY <1>10
<1> QED
  BY <1>1, <1>9, <1>12, <1>13 DEF DoSteps

\* What the first operations of a list add to semaphore n.
Sums(ops, n, g) ==
    /\ g \in [0 .. Len(ops) -> Int]
    /\ g[0] = 0
    /\ \A i \in 1 .. Len(ops) : g[i] = g[i - 1] + (IF ops[i].num = n THEN ops[i].op ELSE 0)

\* There are such sums, and the last is what semop would add.
LEMMA SumsTotal ==
    ASSUME NEW ops \in Seq(Sembuf), NEW n
    PROVE  \E g : Sums(ops, n, g) /\ Total(ops, n) = g[Len(ops)]
<1>1. PICK m \in Nat : m = Len(ops)
  OBVIOUS
<1>2. PICK e : e = [i \in 1 .. m |-> IF ops[i].num = n THEN ops[i].op ELSE 0]
  OBVIOUS
<1>3. e \in [1 .. m -> Int]
  <2>1. ASSUME NEW i \in 1 .. m PROVE ops[i].op \in Int
    <3>1. ops[i] \in Sembuf
      BY <1>1, ElementOfSeq
    <3> QED
      BY <3>1 DEF Sembuf
  <2> QED
    BY <1>2, <2>1
<1>4. PICK step : step = [i \in 1 .. m |-> [t \in Int |-> t + e[i]]]
  OBVIOUS
<1>5. step \in [1 .. m -> [Int -> Int]]
  BY <1>3, <1>4
<1>6. PICK f \in [0 .. m -> Int] : f[0] = 0 /\ \A i \in 1 .. m : f[i] = step[i][f[i - 1]]
  <2>1. 0 \in Int /\ m \in Nat
    OBVIOUS
  <2>2. Runs(Int, step, 0, m)
    BY <1>5, <2>1, LoopRuns
  <2> QED
    BY <2>2 DEF Runs
<1>7. ASSUME NEW i \in 1 .. m PROVE f[i] = f[i - 1] + e[i]
  <2>1. f[i - 1] \in Int /\ f[i] = step[i][f[i - 1]]
    BY <1>6
  <2>2. step[i] = [t \in Int |-> t + e[i]]
    BY <1>4
  <2> QED
    BY <2>1, <2>2
<1>8. f = [i \in 0 .. m |-> IF i = 0 THEN 0
                            ELSE f[i - 1] + (IF ops[i].num = n THEN ops[i].op ELSE 0)]
  <2>1. PICK h : h = [i \in 0 .. m |-> IF i = 0 THEN 0
                            ELSE f[i - 1] + (IF ops[i].num = n THEN ops[i].op ELSE 0)]
    OBVIOUS
  <2>2. ASSUME NEW i \in 0 .. m PROVE f[i] = h[i]
    <3>1. CASE i = 0
      BY <1>6, <2>1, <3>1
    <3>2. CASE i # 0
      <4>1. i \in 1 .. m /\ h[i] = f[i - 1] + (IF ops[i].num = n THEN ops[i].op ELSE 0)
        BY <2>1, <3>2
      <4> QED
        BY <1>2, <1>7, <4>1
    <3> QED
      BY <3>1, <3>2
  <2> QED
    BY <1>6, <2>1, <2>2
<1>9. PICK g : /\ g = [i \in 0 .. Len(ops) |-> IF i = 0 THEN 0
                            ELSE g[i - 1] + (IF ops[i].num = n THEN ops[i].op ELSE 0)]
               /\ Total(ops, n) = g[Len(ops)]
  BY <1>1, <1>8 DEF Total
<1>10. g[0] = 0 /\ \A i \in 1 .. m : g[i] = g[i - 1] + e[i]
  BY <1>1, <1>2, <1>9
<1>11. 0 .. m \subseteq {i \in 0 .. m : g[i] \in Int}
  <2>1. PICK holds : holds = {i \in 0 .. m : g[i] \in Int}
    OBVIOUS
  <2>2. 0 \in holds
    BY <1>10, <2>1
  <2>3. ASSUME NEW i \in 1 .. m, i - 1 \in holds PROVE i \in holds
    BY <1>3, <1>10, <2>1, <2>3
  <2> QED
    BY <2>1, <2>2, <2>3, UpTo
<1>12. g \in [0 .. m -> Int]
  <2>1. \A i \in 0 .. m : g[i] \in Int
    BY <1>11
  <2>2. g = [i \in 0 .. m |-> g[i]]
    BY <1>1, <1>9
  <2> QED
    BY <2>1, <2>2
<1>13. \A i \in 1 .. Len(ops) : g[i] = g[i - 1] + (IF ops[i].num = n THEN ops[i].op ELSE 0)
  BY <1>1, <1>2, <1>10
<1> QED
  BY <1>1, <1>9, <1>10, <1>12, <1>13 DEF Sums

\* What holds of the state st of a pass that began with the values val of set s
\* and has looked at the first i operations.
InPass(ops, val, s, i, st) ==
    /\ st \in States
    /\ st.n \in 0 .. i /\ (st.res = "ok" => st.n = i)
    /\ \A n \in Nums : \A g : Sums(ops, n, g) => st.val[n] = val[n] + g[st.n]
    /\ \A n \in Nums : val[n] >= 0 => st.val[n] >= 0
    /\ st.res # "ok" => st.n + 1 \in 1 .. Len(ops)
    /\ st.res = "ncnt" => ops[st.n + 1].op < 0 /\ st.val[ops[st.n + 1].num] + ops[st.n + 1].op < 0
    /\ st.res = "zcnt" => ops[st.n + 1].op = 0 /\ st.val[ops[st.n + 1].num] # 0
    /\ \A n \in Nums :
           /\ st.val[n] <= val[n] \/ <<s, n, "ncnt">> \in st.wake
           /\ st.val[n] # 0 \/ st.val[n] = val[n] \/ <<s, n, "zcnt">> \in st.wake

\* Each turn keeps it.
LEMMA InPassTurn ==
    ASSUME NEW ops \in Seq(Sembuf), NEW val \in [Nums -> Int], NEW s \in Slots, NEW id \in Int,
           NEW i \in 1 .. Len(ops), NEW st, InPass(ops, val, s, i - 1, st)
    PROVE  InPass(ops, val, s, i, IF st.res = "ok" THEN Operate(st, ops[i], s, id) ELSE st)
<1>1. CASE st.res # "ok"
  BY <1>1 DEF InPass
<1>2. CASE st.res = "ok"
  <2>1. PICK o \in Sembuf : o = ops[i]
    BY ElementOfSeq
  <2>2. PICK r : r = Operate(st, o, s, id)
    OBVIOUS
  <2>3. st \in States /\ st.n = i - 1
    BY <1>2 DEF InPass
  <2>4. r \in States /\ (Done(st, o, s, id, r) \/ Stopped(st, o, id, r))
    BY <1>2, <2>2, <2>3, OperateFacts
  <2>5. CASE Stopped(st, o, id, r)
    <3>1. r.res # "ok" /\ r.n = i - 1 /\ r.val = st.val /\ r.wake = st.wake
      BY <2>3, <2>5 DEF Stopped
    <3>2. r.n + 1 = i
      BY <3>1
    <3>3. /\ r.res = "ncnt" => o.op < 0 /\ r.val[o.num] + o.op < 0
          /\ r.res = "zcnt" => o.op = 0 /\ r.val[o.num] # 0
      BY <2>5, <3>1 DEF Stopped
    <3>4. InPass(ops, val, s, i, r)
      BY <2>1, <2>3, <2>4, <3>1, <3>2, <3>3 DEF InPass
    <3> QED
      BY <1>2, <2>1, <2>2, <3>4
  <2>6. CASE Done(st, o, s, id, r)
    <3>1. r.res = "ok" /\ r.n = i /\ r.val = [st.val EXCEPT ![o.num] = st.val[o.num] + o.op]
      BY <2>3, <2>6 DEF Done
    <3>2. o.num \in Nums /\ o.op \in Int
      BY DEF Sembuf
    <3>3. st.val \in [Nums -> Int]
      BY <2>3 DEF States
    <3>4. ASSUME NEW n \in Nums
          PROVE  r.val[n] = st.val[n] + (IF o.num = n THEN o.op ELSE 0)
      BY <3>1, <3>2, <3>3
    <3>5. ASSUME NEW n \in Nums, NEW g, Sums(ops, n, g) PROVE r.val[n] = val[n] + g[r.n]
      <4>1. st.val[n] = val[n] + g[i - 1]
        BY <2>3, <3>5 DEF InPass
      <4>2. g[i] = g[i - 1] + (IF o.num = n THEN o.op ELSE 0) /\ g[i - 1] \in Int
        BY <2>1, <3>5 DEF Sums
      <4>3. val[n] \in Int
        OBVIOUS
      <4> QED
        BY <3>1, <3>2, <3>4, <4>1, <4>2, <4>3
    <3>8. ASSUME NEW n \in Nums, val[n] >= 0 PROVE r.val[n] >= 0
      <4>1. st.val[n] >= 0 /\ st.val[n] \in Int
        BY <3>3, <3>8 DEF InPass
      <4>2. o.op < 0 => st.val[o.num] + o.op >= 0
        BY <2>6 DEF Done
      <4> QED
        BY <3>2, <3>4, <4>1, <4>2
    <3>6. ASSUME NEW n \in Nums
          PROVE  /\ r.val[n] <= val[n] \/ <<s, n, "ncnt">> \in r.wake
                 /\ r.val[n] # 0 \/ r.val[n] = val[n] \/ <<s, n, "zcnt">> \in r.wake
      <4>1. /\ st.val[n] <= val[n] \/ <<s, n, "ncnt">> \in st.wake
            /\ st.val[n] # 0 \/ st.val[n] = val[n] \/ <<s, n, "zcnt">> \in st.wake
        <5>1. \A m \in Nums :
                 /\ st.val[m] <= val[m] \/ <<s, m, "ncnt">> \in st.wake
                 /\ st.val[m] # 0 \/ st.val[m] = val[m] \/ <<s, m, "zcnt">> \in st.wake
          BY DEF InPass
        <5> QED
          BY <5>1
      <4>2. /\ st.wake \subseteq r.wake
            /\ o.op > 0 => <<s, o.num, "ncnt">> \in r.wake
            /\ o.op # 0 /\ r.val[o.num] = 0 => <<s, o.num, "zcnt">> \in r.wake
        BY <2>6 DEF Done
      <4>3. st.val[n] \in Int /\ val[n] \in Int
        BY <3>3
      <4>4. CASE o.num # n \/ o.op = 0
        <5>1. r.val[n] = st.val[n]
          BY <3>2, <3>4, <4>3, <4>4
        <5> QED
          BY <4>1, <4>2, <5>1
      <4>5. CASE o.num = n /\ o.op # 0
        <5>1. r.val[n] = st.val[n] + o.op
          BY <3>4, <4>5
        <5>2. o.op > 0 \/ r.val[n] <= st.val[n]
          BY <3>2, <4>3, <5>1
        <5>3. r.val[n] <= val[n] \/ <<s, n, "ncnt">> \in r.wake
          <6>1. \A x, y, z \in Int : x <= y /\ y <= z => x <= z
            OBVIOUS
          <6>2. r.val[n] \in Int
            BY <3>2, <4>3, <5>1
          <6> QED
            BY <4>1, <4>2, <4>3, <4>5, <5>2, <6>1, <6>2
        <5> QED
          BY <4>2, <4>5, <5>3
      <4> QED
        BY <4>4, <4>5
    <3>7. InPass(ops, val, s, i, r)
      BY <2>4, <3>1, <3>5, <3>6, <3>8 DEF InPass
    <3> QED
      BY <1>2, <2>1, <2>2, <3>7
  <2> QED
    BY <2>4, <2>5, <2>6
<1> QED
  BY <1>1, <1>2

\* So it always holds.
LEMMA DoFacts ==
    ASSUME NEW ops \in Seq(Sembuf), NEW val \in [Nums -> Int], NEW s \in Slots, NEW id \in Int,
           NEW u \in Undos, NEW st,
           st = [val |-> val, u |-> u, wake |-> {}, n |-> 0, res |-> "ok"]
    PROVE  \E f : /\ DoSteps(f, ops, st, s, id) /\ Do(ops, st, s, id) = f[Len(ops)]
                  /\ \A i \in 0 .. Len(ops) : InPass(ops, val, s, i, f[i])
<1>1. st \in States
  BY DEF States
<1>2. PICK f : DoSteps(f, ops, st, s, id) /\ Do(ops, st, s, id) = f[Len(ops)]
  BY <1>1, DoRuns
<1>3. InPass(ops, val, s, 0, f[0])
  <2>1. f[0] = st
    BY <1>2 DEF DoSteps
  <2>2. /\ st.n = 0 /\ st.val = val /\ st.res = "ok"
    OBVIOUS
  <2>3. ASSUME NEW n \in Nums, NEW g, Sums(ops, n, g) PROVE st.val[n] = val[n] + g[st.n]
    <3>1. g[0] = 0 /\ val[n] \in Int
      BY <2>3 DEF Sums
    <3> QED
      BY <2>2, <3>1
  <2>4. \A n \in Nums : st.val[n] <= val[n] /\ st.val[n] = val[n]
    BY <2>2
  <2>5. st.n \in 0 .. 0
    BY <2>2
  <2> QED
    BY <1>1, <2>1, <2>2, <2>3, <2>4, <2>5 DEF InPass
<1>4. PICK holds : holds = {i \in 0 .. Len(ops) : InPass(ops, val, s, i, f[i])}
  OBVIOUS
<1>5. 0 \in holds
  BY <1>3, <1>4
<1>6. ASSUME NEW i \in 1 .. Len(ops), i - 1 \in holds PROVE i \in holds
  <2>1. InPass(ops, val, s, i - 1, f[i - 1])
    BY <1>4, <1>6
  <2>2. f[i] = IF f[i - 1].res = "ok" THEN Operate(f[i - 1], ops[i], s, id) ELSE f[i - 1]
    BY <1>2 DEF DoSteps
  <2>3. InPass(ops, val, s, i, f[i])
    BY <2>1, <2>2, InPassTurn
  <2> QED
    BY <1>4, <2>3
<1>7. Len(ops) \in Nat
  OBVIOUS
<1>8. 0 .. Len(ops) \subseteq holds
  BY <1>5, <1>6, <1>7, UpTo
<1> QED
  BY <1>2, <1>4, <1>7, <1>8

\* What takes operation o back.
Opposite(o) == -o.op

\* One operation taken back.
LEMMA TakeBackFacts ==
    ASSUME NEW st \in States, NEW o \in Sembuf, NEW id \in Int, NEW r, r = TakeBack(st, o, id)
    PROVE  /\ r \in States
           /\ r.n = st.n /\ r.res = st.res /\ r.wake = st.wake
           /\ r.val = [st.val EXCEPT ![o.num] = st.val[o.num] - o.op]
           /\ o.undo => r.u = Semaoe(st.u, Avail, Opposite(o), id, o.num).u
           /\ ~o.undo => r.u = st.u
<1>1. o.num \in Nums /\ o.op \in Int /\ o.undo \in BOOLEAN
  BY DEF Sembuf
<1>2. st.val \in [Nums -> Int] /\ st.u \in Undos
  BY DEF States
<1>3. CASE o.op = 0
  <2>0. \A v : v = 0 => Semaoe(st.u, Avail, v, id, o.num).u = st.u
    BY DEF Semaoe
  <2>1. Semaoe(st.u, Avail, -o.op, id, o.num).u = st.u
    BY <1>3, <2>0
  <2>2. st.val = [st.val EXCEPT ![o.num] = st.val[o.num] - o.op]
    BY <1>1, <1>2, <1>3
  <2> QED
    BY <1>3, <2>1, <2>2 DEF TakeBack, Opposite
<1>4. CASE o.op # 0
  <2>1. PICK x : x = [st.val EXCEPT ![o.num] = st.val[o.num] - o.op]
    OBVIOUS
  <2>2. PICK w : w = Semaoe(st.u, Avail, -o.op, id, o.num).u
    OBVIOUS
  <2>3. PICK y : y = IF o.undo THEN w ELSE st.u
    OBVIOUS
  <2>4. x \in [Nums -> Int]
    BY <1>1, <1>2, <2>1
  <2>5. y \in Undos
    <3>1. Avail \in BOOLEAN /\ -o.op \in Int
      BY <1>1 DEF Avail
    <3>2. w \in Undos
      BY <1>1, <1>2, <2>2, <3>1, SemaoeTypes
    <3> QED
      BY <1>2, <2>3, <3>2
  <2>6. r = [st EXCEPT !.val[o.num] = @ - o.op,
                       !.u = IF o.undo THEN Semaoe(@, Avail, -o.op, id, o.num).u ELSE @]
    BY <1>4 DEF TakeBack
  <2>7. r = [val |-> x, u |-> y, wake |-> st.wake, n |-> st.n, res |-> st.res]
    BY <2>1, <2>2, <2>3, <2>6 DEF States
  <2>8. r \in States
    BY <2>4, <2>5, <2>7 DEF States
  <2> QED
    BY <2>1, <2>2, <2>3, <2>7, <2>8 DEF Opposite
<1> QED
  BY <1>3, <1>4

\* The states b of the loop of semundo from st.
BackSteps(b, ops, st, id) ==
    /\ b \in [0 .. st.n -> States]
    /\ b[0] = st
    /\ \A i \in 1 .. st.n : b[i] = TakeBack(b[i - 1], ops[st.n - i + 1], id)

\* The loop of semundo goes through them, and Semundo is the last.
LEMMA BackRuns ==
    ASSUME NEW ops \in Seq(Sembuf), NEW st \in States, st.n <= Len(ops), NEW id \in Int
    PROVE  \E b : BackSteps(b, ops, st, id) /\ Semundo(ops, st, id) = b[st.n]
<1>1. PICK n \in Nat : n = st.n
  BY DEF States
<1>2. ASSUME NEW i \in 1 .. n PROVE ops[n - i + 1] \in Sembuf
  <2>1. n - i + 1 \in 1 .. Len(ops)
    BY <1>1
  <2> QED
    BY <2>1, ElementOfSeq
<1>3. PICK step : step = [i \in 1 .. n |-> [t \in States |-> TakeBack(t, ops[n - i + 1], id)]]
  OBVIOUS
<1>4. ASSUME NEW i \in 1 .. n, NEW t \in States PROVE TakeBack(t, ops[n - i + 1], id) \in States
  BY <1>2, TakeBackFacts
<1>5. step \in [1 .. n -> [States -> States]]
  BY <1>3, <1>4
<1>6. PICK f \in [0 .. n -> States] : f[0] = st /\ \A i \in 1 .. n : f[i] = step[i][f[i - 1]]
  <2>1. Runs(States, step, st, n)
    BY <1>5, LoopRuns
  <2> QED
    BY <2>1 DEF Runs
<1>7. ASSUME NEW i \in 1 .. n PROVE f[i] = TakeBack(f[i - 1], ops[n - i + 1], id)
  <2>1. f[i - 1] \in States
    BY <1>6
  <2> QED
    BY <1>3, <1>6, <2>1
<1>8. f = [i \in 0 .. st.n |-> IF i = 0 THEN st ELSE TakeBack(f[i - 1], ops[st.n - i + 1], id)]
  <2>1. PICK h : h = [i \in 0 .. st.n |-> IF i = 0 THEN st
                                          ELSE TakeBack(f[i - 1], ops[st.n - i + 1], id)]
    OBVIOUS
  <2>2. ASSUME NEW i \in 0 .. n PROVE f[i] = h[i]
    <3>1. h[i] = IF i = 0 THEN st ELSE TakeBack(f[i - 1], ops[n - i + 1], id)
      BY <1>1, <2>1
    <3>2. i # 0 => i \in 1 .. n
      OBVIOUS
    <3> QED
      BY <1>6, <1>7, <3>1, <3>2
  <2>3. DOMAIN f = 0 .. n /\ DOMAIN h = 0 .. n
    BY <1>1, <1>6, <2>1
  <2>4. f = h
    BY <1>6, <2>1, <2>2, <2>3
  <2> QED
    BY <2>1, <2>4
<1>9. PICK g : /\ g = [i \in 0 .. st.n |-> IF i = 0 THEN st
                                           ELSE TakeBack(g[i - 1], ops[st.n - i + 1], id)]
               /\ Semundo(ops, st, id) = g[st.n]
  BY <1>8 DEF Semundo
<1>10. g[0] = st /\ \A i \in 1 .. n : g[i] = TakeBack(g[i - 1], ops[n - i + 1], id)
  BY <1>1, <1>9
<1>11. 0 .. n \subseteq {i \in 0 .. n : g[i] \in States}
  <2>1. PICK holds : holds = {i \in 0 .. n : g[i] \in States}
    OBVIOUS
  <2>2. 0 \in holds
    BY <1>10, <2>1
  <2>3. ASSUME NEW i \in 1 .. n, i - 1 \in holds PROVE i \in holds
    BY <1>4, <1>10, <2>1, <2>3
  <2> QED
    BY <2>1, <2>2, <2>3, UpTo
<1>12. g \in [0 .. n -> States]
  <2>1. \A i \in 0 .. n : g[i] \in States
    BY <1>11
  <2>2. g = [i \in 0 .. n |-> g[i]]
    BY <1>1, <1>9
  <2> QED
    BY <2>1, <2>2
<1> QED
  BY <1>1, <1>9, <1>10, <1>12 DEF BackSteps

\* Semundo gives the semaphores their values back, and keeps the rest but the undo entries.
LEMMA SemundoFacts ==
    ASSUME NEW ops \in Seq(Sembuf), NEW val \in [Nums -> Int], NEW s \in Slots, NEW id \in Int,
           NEW st, InPass(ops, val, s, Len(ops), st), NEW r, r = Semundo(ops, st, id)
    PROVE  r \in States /\ r.val = val /\ r.n = st.n /\ r.res = st.res /\ r.wake = st.wake
<1>1. PICK n \in Nat : n = st.n /\ n <= Len(ops)
  BY DEF InPass
<1>2. st \in States
  BY DEF InPass
<1>3. PICK b : /\ b \in [0 .. n -> States] /\ b[0] = st /\ r = b[n]
               /\ \A i \in 1 .. n : b[i] = TakeBack(b[i - 1], ops[n - i + 1], id)
  <2>1. PICK b : BackSteps(b, ops, st, id) /\ r = b[n]
    BY <1>1, <1>2, BackRuns
  <2> QED
    BY <1>1, <2>1 DEF BackSteps
<1>4. PICK back : back = {i \in 0 .. n :
          /\ b[i].n = n /\ b[i].res = st.res /\ b[i].wake = st.wake
          /\ \A m \in Nums : \A g : Sums(ops, m, g) => b[i].val[m] = val[m] + g[n - i]}
  OBVIOUS
<1>5. 0 \in back
  <2>1. b[0] = st
    BY <1>3
  <2>2. ASSUME NEW m \in Nums, NEW g, Sums(ops, m, g) PROVE b[0].val[m] = val[m] + g[n - 0]
    BY <1>1, <2>1, <2>2 DEF InPass
  <2> QED
    BY <1>1, <1>4, <2>1, <2>2
<1>6. ASSUME NEW i \in 1 .. n, i - 1 \in back PROVE i \in back
  <2>1. n - i + 1 \in 1 .. Len(ops)
    BY <1>1
  <2>2. PICK o \in Sembuf : o = ops[n - i + 1]
    BY <2>1, ElementOfSeq
  <2>3. b[i - 1] \in States /\ b[i] = TakeBack(b[i - 1], o, id)
    BY <1>3, <2>2
  <2>4. /\ b[i].n = n /\ b[i].res = st.res /\ b[i].wake = st.wake
        /\ b[i].val = [b[i - 1].val EXCEPT ![o.num] = b[i - 1].val[o.num] - o.op]
    <3>1. b[i - 1].n = n /\ b[i - 1].res = st.res /\ b[i - 1].wake = st.wake
      BY <1>4, <1>6
    <3>2. PICK x \in States : x = b[i - 1]
      BY <2>3
    <3>3. PICK y : y = b[i]
      OBVIOUS
    <3>4. y = TakeBack(x, o, id)
      BY <2>3, <3>2, <3>3
    <3>5. /\ y.n = x.n /\ y.res = x.res /\ y.wake = x.wake
          /\ y.val = [x.val EXCEPT ![o.num] = x.val[o.num] - o.op]
      BY SMTT(60), ZenonT(60), <3>4, TakeBackFacts
    <3> QED
      BY <3>1, <3>2, <3>3, <3>5
  <2>5. b[i - 1].val \in [Nums -> Int] /\ o.num \in Nums /\ o.op \in Int
    BY <2>3 DEF States, Sembuf
  <2>6. ASSUME NEW m \in Nums, NEW g, Sums(ops, m, g) PROVE b[i].val[m] = val[m] + g[n - i]
    <3>1. b[i - 1].val[m] = val[m] + g[n - (i - 1)]
      BY <1>4, <1>6, <2>6
    <3>2. PICK k : k = n - i + 1
      OBVIOUS
    <3>3. k \in 1 .. Len(ops) /\ k - 1 \in 0 .. Len(ops) /\ k - 1 = n - i /\ n - (i - 1) = k
      BY SMTT(60), ZenonT(60), <1>1, <3>2
    <3>6. g[k] = g[k - 1] + (IF o.num = m THEN o.op ELSE 0) /\ g[k - 1] \in Int
      BY <2>2, <2>6, <3>2, <3>3 DEF Sums
    <3>4. b[i].val[m] = b[i - 1].val[m] - (IF o.num = m THEN o.op ELSE 0)
      BY <2>4, <2>5
    <3>5. PICK d : d = IF o.num = m THEN o.op ELSE 0
      OBVIOUS
    <3>10. d \in Int
      BY <2>5, <3>5
    <3>7. val[m] \in Int /\ g[k] = g[k - 1] + d /\ b[i].val[m] = b[i - 1].val[m] - d
      BY <3>4, <3>5, <3>6
    <3>8. b[i - 1].val[m] = val[m] + g[k]
      BY <3>1, <3>3
    <3>9. b[i].val[m] = val[m] + g[k - 1]
      BY <3>6, <3>7, <3>8, <3>10
    <3> QED
      BY <3>3, <3>9
  <2>7. i \in 0 .. n
    OBVIOUS
  <2> QED
    BY <1>4, <2>4, <2>6, <2>7
<1>7. n \in back
  <2>1. 0 .. n \subseteq back
    BY <1>5, <1>6, UpTo
  <2> QED
    BY <2>1
<1>8. r \in States
  BY <1>1, <1>3
<1>9. ASSUME NEW m \in Nums PROVE r.val[m] = val[m]
  <2>1. PICK g : Sums(ops, m, g)
    BY SumsTotal
  <2>2. b[n].val[m] = val[m] + g[n - n] /\ g[0] = 0
    BY <1>4, <1>7, <2>1 DEF Sums
  <2>3. n - n = 0 /\ val[m] \in Int
    OBVIOUS
  <2> QED
    BY <1>3, <2>2, <2>3
<1>10. r.val = val
  <2>1. r.val \in [Nums -> Int]
    BY <1>8 DEF States
  <2> QED
    BY <1>9, <2>1
<1> QED
  BY <1>1, <1>3, <1>4, <1>7, <1>8, <1>10

\* What a pass over the operations of process p comes to.
PassFacts(ops, s, r) ==
    /\ r \in States
    /\ IF r.res = "ok"
         THEN \A n \in Nums : \A g : Sums(ops, n, g) => r.val[n] = semval[s][n] + g[Len(ops)]
         ELSE r.val = semval[s] /\ r.n + 1 \in 1 .. Len(ops)
    /\ \A n \in Nums : semval[s][n] >= 0 => r.val[n] >= 0
    /\ \A n \in Nums :
           /\ r.val[n] <= semval[s][n] \/ <<s, n, "ncnt">> \in r.wake
           /\ r.val[n] # 0 \/ r.val[n] = semval[s][n] \/ <<s, n, "zcnt">> \in r.wake
    /\ r.res = "ncnt" => /\ ops[r.n + 1].op < 0
                         /\ \A g : Sums(ops, ops[r.n + 1].num, g) =>
                                semval[s][ops[r.n + 1].num] + g[r.n] + ops[r.n + 1].op < 0
    /\ r.res = "zcnt" => /\ ops[r.n + 1].op = 0
                         /\ \A g : Sums(ops, ops[r.n + 1].num, g) =>
                                semval[s][ops[r.n + 1].num] + g[r.n] # 0

\* A pass of semop does what PassFacts says.
LEMMA PassDoes ==
    ASSUME NEW ops \in Seq(Sembuf), NEW p \in Procs, NEW s \in Slots, NEW id \in Int,
           semval[s] \in [Nums -> Int], undo[p] \in Undos
    PROVE  PassFacts(ops, s, Pass(p, ops, s, id))
<1>1. PICK val \in [Nums -> Int] : val = semval[s]
  OBVIOUS
<1>2. PICK beg : beg = [val |-> val, u |-> undo[p], wake |-> {}, n |-> 0, res |-> "ok"]
  OBVIOUS
<1>3. PICK st : st = Do(ops, beg, s, id)
  OBVIOUS
<1>4. InPass(ops, val, s, Len(ops), st)
  <2>1. PICK f : /\ st = f[Len(ops)]
                 /\ \A i \in 0 .. Len(ops) : InPass(ops, val, s, i, f[i])
    BY ZenonT(60), <1>2, <1>3, DoFacts
  <2> QED
    BY <2>1
<1>5. PICK r : r = Pass(p, ops, s, id)
  OBVIOUS
<1>6. r = IF st.res = "ok" THEN st ELSE Semundo(ops, st, id)
  BY <1>1, <1>2, <1>3, <1>5 DEF Pass
<1>7. CASE st.res = "ok"
  <2>1. r = st
    BY <1>6, <1>7
  <2>2. r \in States /\ r.n = Len(ops)
    BY <1>4, <1>7, <2>1 DEF InPass
  <2>3. \A n \in Nums : \A g : Sums(ops, n, g) => r.val[n] = val[n] + g[Len(ops)]
    BY <1>4, <2>1, <2>2 DEF InPass
  <2>4. \A n \in Nums :
           /\ r.val[n] <= val[n] \/ <<s, n, "ncnt">> \in r.wake
           /\ r.val[n] # 0 \/ r.val[n] = val[n] \/ <<s, n, "zcnt">> \in r.wake
    BY <1>4, <2>1 DEF InPass
  <2>5. \A n \in Nums : val[n] >= 0 => r.val[n] >= 0
    BY <1>4, <2>1 DEF InPass
  <2> QED
    BY <1>1, <1>5, <1>7, <2>1, <2>2, <2>3, <2>4, <2>5 DEF PassFacts
<1>8. CASE st.res # "ok"
  <2>1. r = Semundo(ops, st, id)
    BY <1>6, <1>8
  <2>2. r \in States /\ r.val = val /\ r.n = st.n /\ r.res = st.res /\ r.wake = st.wake
    BY <1>4, <2>1, SemundoFacts
  <2>3. r.n + 1 \in 1 .. Len(ops)
    BY <1>4, <1>8, <2>2 DEF InPass
  <2>4. PICK o \in Sembuf : o = ops[r.n + 1]
    BY <2>3, ElementOfSeq
  <2>5. /\ r.res = "ncnt" => o.op < 0 /\ st.val[o.num] + o.op < 0
        /\ r.res = "zcnt" => o.op = 0 /\ st.val[o.num] # 0
    BY <1>4, <2>2, <2>4 DEF InPass
  <2>6. ASSUME NEW g, Sums(ops, o.num, g) PROVE st.val[o.num] = val[o.num] + g[r.n]
    <3>1. o.num \in Nums
      BY DEF Sembuf
    <3> QED
      BY <1>4, <2>2, <2>6, <3>1 DEF InPass
  <2>7. \A n \in Nums : r.val[n] <= val[n] /\ r.val[n] = val[n]
    BY <2>2
  <2>8. \A g : Sums(ops, o.num, g) => /\ r.res = "ncnt" => val[o.num] + g[r.n] + o.op < 0
                                      /\ r.res = "zcnt" => val[o.num] + g[r.n] # 0
    BY <2>5, <2>6
  <2> QED
    BY <1>1, <1>5, <1>8, <2>2, <2>3, <2>4, <2>5, <2>7, <2>8 DEF PassFacts
<1> QED
  BY <1>7, <1>8

\* With value v of semaphore n, one of the operations cannot be done: it takes more than
\* there is, or it waits for zero, before any other operation has changed n.
Blocked(ops, v, n, how) ==
    \E k \in 1 .. Len(ops) :
        /\ ops[k].num = n
        /\ \A g : Sums(ops, n, g) =>
             \/ how = "ncnt" /\ ops[k].op < 0 /\ v + g[k - 1] + ops[k].op < 0
             \/ how = "zcnt" /\ ops[k].op = 0 /\ g[k - 1] = 0 /\ v # 0

\* A smaller value does not help those who wait for more, nor another one than zero those
\* who wait for zero.
LEMMA BlockedStays ==
    ASSUME NEW ops \in Seq(Sembuf), NEW n \in Nums, NEW v \in Int, NEW w \in Int, NEW how,
           Blocked(ops, v, n, how),
           how = "ncnt" => w <= v,
           how = "zcnt" => w # 0 \/ w = v
    PROVE  Blocked(ops, w, n, how)
<1>1. PICK k \in 1 .. Len(ops) :
        /\ ops[k].num = n
        /\ \A g : Sums(ops, n, g) =>
             \/ how = "ncnt" /\ ops[k].op < 0 /\ v + g[k - 1] + ops[k].op < 0
             \/ how = "zcnt" /\ ops[k].op = 0 /\ g[k - 1] = 0 /\ v # 0
  BY DEF Blocked
<1>2. ops[k] \in Sembuf
  BY ElementOfSeq
<1>3. ASSUME NEW g, Sums(ops, n, g)
      PROVE  \/ how = "ncnt" /\ ops[k].op < 0 /\ w + g[k - 1] + ops[k].op < 0
             \/ how = "zcnt" /\ ops[k].op = 0 /\ g[k - 1] = 0 /\ w # 0
  <2>1. g[k - 1] \in Int /\ ops[k].op \in Int
    BY <1>2, <1>3 DEF Sums, Sembuf
  <2>2. CASE how = "ncnt" /\ ops[k].op < 0 /\ v + g[k - 1] + ops[k].op < 0
    BY <2>1, <2>2
  <2>3. CASE how = "zcnt" /\ ops[k].op = 0 /\ g[k - 1] = 0 /\ v # 0
    BY <2>3
  <2> QED
    BY <1>1, <1>3, <2>2, <2>3
<1> QED
  BY <1>1, <1>3 DEF Blocked

\* Whoever is blocked does not get through his operations.
LEMMA BlockedFails ==
    ASSUME NEW ops \in Seq(Sembuf), NEW p \in Procs, NEW s \in Slots, NEW id \in Int,
           semval[s] \in [Nums -> Int], undo[p] \in Undos,
           NEW n \in Nums, NEW how, Blocked(ops, semval[s][n], n, how)
    PROVE  Pass(p, ops, s, id).res # "ok"
<1>1. PICK val \in [Nums -> Int] : val = semval[s]
  OBVIOUS
<1>2. PICK beg : beg = [val |-> val, u |-> undo[p], wake |-> {}, n |-> 0, res |-> "ok"]
  OBVIOUS
<1>3. PICK f : /\ DoSteps(f, ops, beg, s, id) /\ Do(ops, beg, s, id) = f[Len(ops)]
               /\ \A i \in 0 .. Len(ops) : InPass(ops, val, s, i, f[i])
  BY <1>2, DoFacts
<1>4. PICK k \in 1 .. Len(ops) :
        /\ ops[k].num = n
        /\ \A g : Sums(ops, n, g) =>
             \/ how = "ncnt" /\ ops[k].op < 0 /\ val[n] + g[k - 1] + ops[k].op < 0
             \/ how = "zcnt" /\ ops[k].op = 0 /\ g[k - 1] = 0 /\ val[n] # 0
  BY <1>1 DEF Blocked
<1>5. PICK o \in Sembuf : o = ops[k]
  BY ElementOfSeq
<1>6. f[k].res # "ok"
  <2>1. SUFFICES ASSUME f[k].res = "ok" PROVE FALSE
    OBVIOUS
  <2>2. f[k] = IF f[k - 1].res = "ok" THEN Operate(f[k - 1], o, s, id) ELSE f[k - 1]
    BY <1>3, <1>5 DEF DoSteps
  <2>3. PICK st : st = f[k - 1]
    OBVIOUS
  <2>4. st.res = "ok" /\ f[k] = Operate(st, o, s, id)
    BY <2>1, <2>2, <2>3
  <2>5. InPass(ops, val, s, k - 1, st)
    BY <1>3, <2>3
  <2>6. st \in States /\ st.n = k - 1
    BY <2>4, <2>5 DEF InPass
  <2>7. Done(st, o, s, id, f[k])
    <3>1. Done(st, o, s, id, f[k]) \/ Stopped(st, o, id, f[k])
      BY <2>4, <2>6, OperateFacts
    <3> QED
      BY <2>1, <3>1 DEF Stopped
  <2>8. PICK g : Sums(ops, n, g)
    BY SumsTotal
  <2>9. st.val[n] = val[n] + g[k - 1] /\ g[k - 1] \in Int /\ val[n] \in Int
    <3>1. k - 1 \in 0 .. Len(ops) /\ g \in [0 .. Len(ops) -> Int]
      BY <2>8 DEF Sums
    <3>2. \A m \in Nums : \A h : Sums(ops, m, h) => st.val[m] = val[m] + h[st.n]
      BY <2>5 DEF InPass
    <3> QED
      BY <2>6, <2>8, <3>1, <3>2
  <2>10. o.num = n /\ o.op \in Int
    BY <1>4, <1>5 DEF Sembuf
  <2>11. /\ o.op < 0 => st.val[n] + o.op >= 0
         /\ o.op = 0 => st.val[n] = 0
    BY <2>7, <2>10 DEF Done
  <2>12. \/ o.op < 0 /\ val[n] + g[k - 1] + o.op < 0
         \/ o.op = 0 /\ g[k - 1] = 0 /\ val[n] # 0
    BY <1>4, <1>5, <2>8
  <2> QED
    BY <2>9, <2>10, <2>11, <2>12
<1>7. PICK holds : holds = {i \in 0 .. Len(ops) : i >= k => f[i].res # "ok"}
  OBVIOUS
<1>8. 0 \in holds
  BY <1>7
<1>9. ASSUME NEW i \in 1 .. Len(ops), i - 1 \in holds PROVE i \in holds
  <2>1. f[i] = IF f[i - 1].res = "ok" THEN Operate(f[i - 1], ops[i], s, id) ELSE f[i - 1]
    BY <1>3 DEF DoSteps
  <2>2. i >= k => i = k \/ i - 1 >= k
    OBVIOUS
  <2>3. i - 1 >= k => f[i - 1].res # "ok"
    BY <1>7, <1>9
  <2> QED
    BY <1>6, <1>7, <2>1, <2>2, <2>3
<1>10. Len(ops) \in Nat /\ Len(ops) >= k
  OBVIOUS
<1>11. Len(ops) \in holds
  <2>1. 0 .. Len(ops) \subseteq holds
    BY <1>8, <1>9, <1>10, UpTo
  <2> QED
    BY <1>10, <2>1
<1>12. PICK st : st = Do(ops, beg, s, id)
  OBVIOUS
<1>13. st.res # "ok" /\ InPass(ops, val, s, Len(ops), st)
  BY <1>3, <1>7, <1>10, <1>11, <1>12
<1>14. Pass(p, ops, s, id) = Semundo(ops, st, id)
  BY <1>1, <1>2, <1>12, <1>13 DEF Pass
<1>15. Semundo(ops, st, id).res = st.res
  BY <1>13, SemundoFacts
<1> QED
  BY <1>13, <1>14, <1>15

-----------------------------------------------------------------------------
(* The entries semunrm leaves *)

\* r consists of some of the first i entries of u, in their order.
Part(r, u, i) ==
    /\ r \in Seq(Entry) /\ Len(r) <= i
    /\ \E h \in [1 .. Len(r) -> 1 .. i] :
           /\ \A j \in 1 .. Len(r) : r[j] = u[h[j]]
           /\ \A a, b \in 1 .. Len(r) : a < b => h[a] < h[b]

\* The lists that the loop of semunrm goes through, one entry after the other.
OthersSteps(g, u, id, low, high) ==
    /\ g[0] = <<>>
    /\ \A i \in 1 .. Len(u) : g[i] = IF u[i].id = id /\ u[i].num \in low .. high
                                      THEN g[i - 1] ELSE Append(g[i - 1], u[i])

\* It goes through them, and leaves the last.
LEMMA OthersRuns ==
    ASSUME NEW u \in Seq(Entry), NEW id, NEW low, NEW high
    PROVE  \E g : OthersSteps(g, u, id, low, high) /\ Others(u, id, low, high) = g[Len(u)]
<1> DEFINE Turn(i, t) == IF u[i].id = id /\ u[i].num \in low .. high THEN t ELSE Append(t, u[i])
<1>1. PICK n \in Nat : n = Len(u)
  OBVIOUS
<1>2. ASSUME NEW i \in 1 .. n PROVE u[i] \in Entry
  BY <1>1, ElementOfSeq
<1>3. PICK step : step = [i \in 1 .. n |-> [t \in Seq(Entry) |-> Turn(i, t)]]
  OBVIOUS
<1>4. ASSUME NEW i \in 1 .. n, NEW t \in Seq(Entry) PROVE Turn(i, t) \in Seq(Entry)
  BY <1>2, AppendProperties
<1>5. step \in [1 .. n -> [Seq(Entry) -> Seq(Entry)]]
  <2> HIDE DEF Turn
  <2> QED
    BY <1>3, <1>4
<1>6. PICK f \in [0 .. n -> Seq(Entry)] : f[0] = <<>> /\ \A i \in 1 .. n : f[i] = step[i][f[i - 1]]
  <2>1. <<>> \in Seq(Entry)
    BY EmptySeq
  <2>2. PICK e \in Seq(Entry) : e = <<>>
    BY <2>1
  <2>3. Runs(Seq(Entry), step, e, n)
    BY <1>5, LoopRuns
  <2> QED
    BY <2>2, <2>3 DEF Runs
<1>7. ASSUME NEW i \in 1 .. n PROVE f[i] = Turn(i, f[i - 1])
  <2>1. f[i - 1] \in Seq(Entry)
    BY <1>6
  <2> HIDE DEF Turn
  <2> QED
    BY <1>3, <1>6, <2>1
<1>8. f = [i \in 0 .. Len(u) |-> IF i = 0 THEN <<>>
                                 ELSE IF u[i].id = id /\ u[i].num \in low .. high THEN f[i - 1]
                                 ELSE Append(f[i - 1], u[i])]
  <2>1. PICK h : h = [i \in 0 .. Len(u) |->
                         IF i = 0 THEN <<>>
                         ELSE IF u[i].id = id /\ u[i].num \in low .. high THEN f[i - 1]
                         ELSE Append(f[i - 1], u[i])]
    OBVIOUS
  <2>2. ASSUME NEW i \in 0 .. n PROVE f[i] = h[i]
    <3>1. h[i] = IF i = 0 THEN <<>> ELSE Turn(i, f[i - 1])
      BY <1>1, <2>1
    <3>2. i # 0 => i \in 1 .. n
      OBVIOUS
    <3> HIDE DEF Turn
    <3> QED
      BY <1>6, <1>7, <3>1, <3>2
  <2>3. DOMAIN f = 0 .. n /\ DOMAIN h = 0 .. n
    BY <1>1, <1>6, <2>1
  <2>4. f = h
    BY <1>6, <2>1, <2>2, <2>3
  <2> QED
    BY <2>1, <2>4
<1>9. PICK g : /\ g = [i \in 0 .. Len(u) |->
                          IF i = 0 THEN <<>>
                          ELSE IF u[i].id = id /\ u[i].num \in low .. high THEN g[i - 1]
                          ELSE Append(g[i - 1], u[i])]
               /\ Others(u, id, low, high) = g[Len(u)]
  BY <1>8 DEF Others
<1>10. g[0] = <<>> /\ \A i \in 1 .. n : g[i] = Turn(i, g[i - 1])
  <2>1. \A i \in 0 .. n : g[i] = IF i = 0 THEN <<>>
                                 ELSE IF u[i].id = id /\ u[i].num \in low .. high THEN g[i - 1]
                                 ELSE Append(g[i - 1], u[i])
    BY <1>1, <1>9
  <2>2. ASSUME NEW i \in 1 .. n PROVE g[i] = Turn(i, g[i - 1])
    <3>1. i \in 0 .. n /\ i # 0
      OBVIOUS
    <3> QED
      BY <2>1, <3>1
  <2>3. 0 \in 0 .. n
    OBVIOUS
  <2>4. g[0] = <<>>
    BY <2>1, <2>3
  <2> HIDE DEF Turn
  <2> QED
    BY <2>2, <2>4
<1> QED
  BY <1>1, <1>9, <1>10 DEF OthersSteps

\* What semunrm leaves of the entries is a part of them.
LEMMA OthersFacts ==
    ASSUME NEW u \in Seq(Entry), NEW id, NEW low, NEW high
    PROVE  Part(Others(u, id, low, high), u, Len(u))
<1> DEFINE Turn(i, t) == IF u[i].id = id /\ u[i].num \in low .. high THEN t ELSE Append(t, u[i])
<1>1. PICK n \in Nat : n = Len(u)
  OBVIOUS
<1>2. ASSUME NEW i \in 1 .. n PROVE u[i] \in Entry
  BY <1>1, ElementOfSeq
<1>9. PICK g : OthersSteps(g, u, id, low, high) /\ Others(u, id, low, high) = g[Len(u)]
  BY OthersRuns
<1>10. g[0] = <<>> /\ \A i \in 1 .. n : g[i] = Turn(i, g[i - 1])
  BY <1>1, <1>9 DEF OthersSteps
<1> HIDE DEF Turn
<1>11. PICK kept : kept = {i \in 0 .. n : Part(g[i], u, i)}
  OBVIOUS
<1>12. 0 \in kept
  <2>1. PICK h : h = [j \in 1 .. 0 |-> j]
    OBVIOUS
  <2>2. g[0] \in Seq(Entry) /\ Len(g[0]) = 0
    BY <1>10, EmptySeq
  <2>3. h \in [1 .. Len(g[0]) -> 1 .. 0]
    BY <2>1, <2>2
  <2> QED
    <3>1. \A j \in 1 .. Len(g[0]) : FALSE
      BY <2>2
    <3>2. Part(g[0], u, 0)
      BY <2>2, <2>3, <3>1 DEF Part
    <3> QED
      BY <1>11, <3>2
<1>13. ASSUME NEW i \in 1 .. n, i - 1 \in kept PROVE i \in kept
  <2>1. PICK t \in Seq(Entry) : t = g[i - 1]
    BY <1>11, <1>13 DEF Part
  <2>2. Len(t) \in Nat /\ Len(t) <= i - 1
    BY <1>11, <1>13, <2>1 DEF Part
  <2>3. PICK h \in [1 .. Len(t) -> 1 .. i - 1] :
                 /\ \A j \in 1 .. Len(t) : t[j] = u[h[j]]
                 /\ \A a, b \in 1 .. Len(t) : a < b => h[a] < h[b]
    <3>1. Part(t, u, i - 1)
      BY <1>11, <1>13, <2>1
    <3> QED
      BY <3>1 DEF Part
  <2>4. g[i] = Turn(i, t)
    BY <1>10, <2>1
  <2>5. CASE g[i] = t
    <3>1. h \in [1 .. Len(t) -> 1 .. i] /\ Len(t) <= i
      BY <2>2, <2>3
    <3>2. Part(t, u, i)
      BY <2>3, <3>1 DEF Part
    <3> QED
      BY <1>11, <2>5, <3>2
  <2>6. CASE g[i] = Append(t, u[i])
    <3>1. PICK r1 : r1 = Append(t, u[i])
      OBVIOUS
    <3>2. /\ r1 \in Seq(Entry) /\ Len(r1) = Len(t) + 1
          /\ \A j \in 1 .. Len(t) : r1[j] = t[j]
          /\ r1[Len(t) + 1] = u[i]
      BY <1>2, <3>1, AppendProperties
    <3>3. PICK m : m = [j \in 1 .. Len(r1) |-> IF j <= Len(t) THEN h[j] ELSE i]
      OBVIOUS
    <3>4. \A j \in 1 .. Len(t) : h[j] \in 1 .. i - 1
      BY <2>3
    <3>5. m \in [1 .. Len(r1) -> 1 .. i]
      <4>1. ASSUME NEW j \in 1 .. Len(r1) PROVE m[j] \in 1 .. i
        <5>1. j <= Len(t) => j \in 1 .. Len(t)
          BY <2>2, <3>2
        <5>2. m[j] = IF j <= Len(t) THEN h[j] ELSE i
          BY <3>3
        <5> QED
          BY <3>4, <5>1, <5>2
      <4> QED
        BY <3>3, <4>1
    <3>6. ASSUME NEW j \in 1 .. Len(r1) PROVE r1[j] = u[m[j]]
      <4>1. CASE j <= Len(t)
        <5>1. j \in 1 .. Len(t) /\ m[j] = h[j]
          BY <2>2, <3>2, <3>3, <4>1
        <5> QED
          BY <2>3, <3>2, <5>1
      <4>2. CASE ~(j <= Len(t))
        <5>1. j = Len(t) + 1 /\ m[j] = i
          BY <2>2, <3>2, <3>3, <4>2
        <5> QED
          BY <3>2, <5>1
      <4> QED
        BY <4>1, <4>2
    <3>7. ASSUME NEW a \in 1 .. Len(r1), NEW b \in 1 .. Len(r1), a < b PROVE m[a] < m[b]
      <4>1. a \in 1 .. Len(t) /\ m[a] = h[a]
        BY <2>2, <3>2, <3>3, <3>7
      <4>2. CASE b <= Len(t)
        <5>1. b \in 1 .. Len(t) /\ m[b] = h[b]
          BY <2>2, <3>2, <3>3, <4>2
        <5> QED
          BY <2>3, <3>7, <4>1, <5>1
      <4>3. CASE ~(b <= Len(t))
        <5>1. m[b] = i
          BY <3>3, <4>3
        <5> QED
          BY <3>4, <4>1, <5>1
      <4> QED
        BY <4>2, <4>3
    <3>8. Len(r1) <= i
      BY <2>2, <3>2
    <3>9. Part(r1, u, i)
      BY <3>2, <3>5, <3>6, <3>7, <3>8 DEF Part
    <3>10. i \in 0 .. n /\ Part(g[i], u, i)
      BY <2>6, <3>1, <3>9
    <3> QED
      BY <1>11, <3>10
  <2>7. g[i] = t \/ g[i] = Append(t, u[i])
    BY <2>4 DEF Turn
  <2> QED
    BY <2>5, <2>6, <2>7
<1>14. n \in kept
  <2>1. 0 .. n \subseteq kept
    BY <1>12, <1>13, UpTo
  <2> QED
    BY <2>1
<1> QED
  BY <1>1, <1>9, <1>11, <1>14

-----------------------------------------------------------------------------
(* Types of the actions' results *)

\* The types of what the passes work on.
Valued ==
    /\ seq \in [Slots -> Int]
    /\ semval \in [Slots -> [Nums -> Nat]]
    /\ undo \in [Procs -> Undos]
    /\ semtmp \in Seq(Sembuf)
    /\ \A p \in Procs : pc[p] # "user" => call[p].id \in Int /\ call[p].ops \in Lists
    /\ \A p \in Procs : pc[p] = "fault" => call[p].copied \in 0 .. Len(semtmp)

\* Every identifier has a slot: sem.c:152 takes it modulo semmni.
LEMMA SlotOfInt == \A id \in Int : Slot(id) \in Slots
BY SizesAssumption DEF Slot, Slots

\* semunrm leaves undo structures.
LEMMA SemunrmTypes ==
    ASSUME Valued, NEW id, NEW low, NEW high
    PROVE  Semunrm(id, low, high) \in [Procs -> Undos]
<1>1. ASSUME NEW q \in Procs, undo[q] # None PROVE Others(undo[q], id, low, high) \in Undos
  <2>1. undo[q] \in Seq(Entry)
    BY <1>1 DEF Valued, Undos
  <2>2. Part(Others(undo[q], id, low, high), undo[q], Len(undo[q]))
    BY <2>1, OthersFacts
  <2> QED
    BY <2>2 DEF Part, Undos
<1> QED
  BY <1>1 DEF Semunrm, Undos

\* An exit leaves values of the type they have.
LEMMA PutTypes ==
    ASSUME NEW f \in [Slots -> [Nums -> Nat]], NEW g, \A e \in DOMAIN g : g[e] \in Nat
    PROVE  Put(f, g) \in [Slots -> [Nums -> Nat]]
<1>1. ASSUME NEW s \in Slots, NEW n \in Nums, NEW E, E = {e \in DOMAIN g : Slot(e.id) = s /\ e.num = n}
      PROVE  (IF E = {} THEN f[s][n] ELSE g[CHOOSE e \in E : TRUE]) \in Nat
  <2>1. E # {} => (CHOOSE e \in E : TRUE) \in E
    OBVIOUS
  <2> QED
    BY <1>1, <2>1
<1> QED
  BY <1>1 DEF Put

\* The adjustments of exit.
LEMMA MadeTypes ==
    ASSUME Valued, NEW p \in Procs, undo[p] # None
    PROVE  /\ \A e \in Made(p) : /\ e \in Entry /\ Slot(e.id) \in Slots
                                 /\ Adjusted(e) = semval[Slot(e.id)][e.num] + e.aoe
                                 /\ Adjusted(e) \in Nat
<1>1. undo[p] \in Seq(Entry)
  BY DEF Valued, Undos
<1>2. \A e \in Entries(p) : e \in Entry
  BY <1>1 DEF Entries
<1>3. ASSUME NEW e \in Made(p)
      PROVE  /\ e \in Entry /\ Slot(e.id) \in Slots
             /\ Adjusted(e) = semval[Slot(e.id)][e.num] + e.aoe
             /\ Adjusted(e) \in Nat
  <2>1. e \in Entry
    BY <1>2 DEF Made
  <2>2. Slot(e.id) \in Slots /\ e.num \in Nums /\ e.aoe \in Int
    BY <2>1, SlotOfInt DEF Entry
  <2>3. Adjusted(e) \in 0 .. SEMVMX
    BY DEF Made
  <2>4. Adjusted(e) \in Nat
    BY <2>3, SizesAssumption
  <2> QED
    BY <2>1, <2>2, <2>4 DEF Adjusted
<1> QED
  BY <1>3

\* A list copied over the front of another one, which keeps its tail.
LEMMA OverTypes ==
    ASSUME NEW S, NEW a \in Seq(S), NEW l \in Seq(S)
    PROVE  /\ a \o SubSeq(l, Len(a) + 1, Len(l)) \in Seq(S)
           /\ Len(a \o SubSeq(l, Len(a) + 1, Len(l))) >= Len(l)
           /\ Len(a \o SubSeq(l, Len(a) + 1, Len(l))) >= Len(a)
<1>1. PICK m \in Nat, n \in Nat : m = Len(a) /\ n = Len(l)
  BY LenProperties
<1>2. PICK t : t = SubSeq(l, m + 1, n)
  OBVIOUS
<1>3. t \in Seq(S) /\ Len(t) = IF m + 1 <= n THEN n - (m + 1) + 1 ELSE 0
  <2>1. ASSUME NEW i \in m + 1 .. n PROVE l[i] \in S
    <3>1. i \in 1 .. Len(l)
      BY <1>1
    <3> QED
      BY <3>1, ElementOfSeq
  <2>2. m + 1 \in Int /\ n \in Int
    OBVIOUS
  <2> QED
    BY <1>2, <2>1, <2>2, SubSeqProperties
<1>4. a \o t \in Seq(S) /\ Len(a \o t) = m + Len(t)
  BY <1>1, <1>3, ConcatProperties
<1> QED
  BY <1>1, <1>2, <1>3, <1>4

\* What MOVE has copied, when the first k operations were there.
LEMMA CopyTypes ==
    ASSUME NEW l \in Seq(Sembuf), NEW list \in Seq(Sembuf), NEW k \in 0 .. Len(l), NEW j \in Int,
           j <= Len(list)
    PROVE  /\ SubSeq(l, 1, k) \o SubSeq(list, k + 1, j) \in Seq(Sembuf)
           /\ j >= k => Len(SubSeq(l, 1, k) \o SubSeq(list, k + 1, j)) = j
<1>1. PICK a, b : a = SubSeq(l, 1, k) /\ b = SubSeq(list, k + 1, j)
  OBVIOUS
<1>2. Len(l) \in Nat /\ Len(list) \in Nat /\ k \in Nat
  BY LenProperties
<1>3. a \in Seq(Sembuf) /\ Len(a) = IF 1 <= k THEN k - 1 + 1 ELSE 0
  <2>1. ASSUME NEW i \in 1 .. k PROVE l[i] \in Sembuf
    BY <1>2, ElementOfSeq
  <2> QED
    BY <1>1, <1>2, <2>1, SubSeqProperties
<1>4. b \in Seq(Sembuf) /\ Len(b) = IF k + 1 <= j THEN j - (k + 1) + 1 ELSE 0
  <2>1. ASSUME NEW i \in k + 1 .. j PROVE list[i] \in Sembuf
    BY <1>2, ElementOfSeq
  <2>2. k + 1 \in Int
    BY <1>2
  <2> QED
    BY <1>1, <2>1, <2>2, SubSeqProperties
<1>5. a \o b \in Seq(Sembuf) /\ Len(a \o b) = Len(a) + Len(b)
  BY <1>3, <1>4, ConcatProperties
<1> QED
  BY <1>1, <1>2, <1>3, <1>4, <1>5

\* The part of Valued that a process has to do with.
CallValued(p) ==
    /\ pc[p] # "user" => call[p].id \in Int /\ call[p].ops \in Lists
    /\ pc[p] = "fault" => call[p].copied \in 0 .. Len(semtmp)

\* MOVE and the pass after it.
LEMMA MoveTypes ==
    ASSUME Sleeping, Valued, NEW p \in Procs, NEW id \in Int, NEW list \in Lists,
           NEW k \in 0 .. Len(semtmp), NEW again, Move(p, id, list, k, again)
    PROVE  Valued'
<1>1. list \in Seq(Sembuf) /\ semtmp \in Seq(Sembuf) /\ Len(list) \in Nat /\ Len(semtmp) \in Nat
  BY ListsAssumption, LenProperties DEF Valued
<1>2. pc \in [Procs -> {"user", "fault", "slept"}] /\ DOMAIN call = Procs
  BY DEF Sleeping, Typed
<1>3. SUFFICES ASSUME semtmp' \in Seq(Sembuf) /\ Len(semtmp') >= Len(semtmp)
               PROVE  /\ semval' \in [Slots -> [Nums -> Nat]]
                      /\ undo' \in [Procs -> Undos]
                      /\ CallValued(p)'
                      /\ \A q \in Procs \ {p} : pc'[q] = pc[q] /\ call'[q] = call[q]
  <2>1. semtmp' \in Seq(Sembuf) /\ Len(semtmp') >= Len(semtmp)
    <3>1. ASSUME NEW j \in k .. Len(list) - 1,
                 semtmp' = SubSeq(semtmp, 1, k) \o SubSeq(list, k + 1, j)
                             \o SubSeq(semtmp, j + 1, Len(semtmp))
          PROVE  semtmp' \in Seq(Sembuf) /\ Len(semtmp') >= Len(semtmp)
      <4>1. PICK a : a = SubSeq(semtmp, 1, k) \o SubSeq(list, k + 1, j)
        OBVIOUS
      <4>2. j \in Int /\ j <= Len(list) /\ j >= k
        BY <1>1
      <4>3. a \in Seq(Sembuf) /\ Len(a) = j
        BY <1>1, <4>1, <4>2, CopyTypes
      <4> QED
        BY <1>1, <3>1, <4>1, <4>3, OverTypes
    <3>2. ASSUME NEW ops, ops = SubSeq(semtmp, 1, k) \o SubSeq(list, k + 1, Len(list)),
                 semtmp' = ops \o SubSeq(semtmp, Len(ops) + 1, Len(semtmp))
          PROVE  semtmp' \in Seq(Sembuf) /\ Len(semtmp') >= Len(semtmp)
      <4>1. Len(list) \in Int /\ Len(list) <= Len(list)
        BY <1>1
      <4>2. ops \in Seq(Sembuf)
        BY <1>1, <3>2, <4>1, CopyTypes
      <4> QED
        BY <1>1, <3>2, <4>2, OverTypes
    <3> QED
      BY <3>1, <3>2 DEF Move
  <2>2. /\ semval' \in [Slots -> [Nums -> Nat]] /\ undo' \in [Procs -> Undos]
        /\ CallValued(p)'
        /\ \A q \in Procs \ {p} : pc'[q] = pc[q] /\ call'[q] = call[q]
    BY <1>3, <2>1
  <2>3. ASSUME NEW q \in Procs PROVE CallValued(q)'
    <3>1. CASE q = p
      BY <2>2, <3>1
    <3>2. CASE q # p
      <4>1. pc'[q] = pc[q] /\ call'[q] = call[q]
        BY <2>2, <3>2
      <4>2. call[q].copied \in 0 .. Len(semtmp) => call[q].copied \in 0 .. Len(semtmp')
        <5>1. Len(semtmp') \in Nat
          BY <2>1, LenProperties
        <5> QED
          BY <1>1, <2>1, <5>1
      <4> QED
        BY <4>1, <4>2 DEF Valued, CallValued
    <3> QED
      BY <3>1, <3>2
  <2>4. seq' \in [Slots -> Int]
    BY DEF Valued, Move, tables
  <2> QED
    BY <2>1, <2>2, <2>3, <2>4 DEF Valued, CallValued
<1>4. ASSUME NEW j \in k .. Len(list) - 1,
             semtmp' = SubSeq(semtmp, 1, k) \o SubSeq(list, k + 1, j)
                             \o SubSeq(semtmp, j + 1, Len(semtmp)),
             pc' = [pc EXCEPT ![p] = "fault"],
             call' = [call EXCEPT ![p] = [id |-> id, ops |-> list, again |-> again,
                                          copied |-> j, chan |-> None]],
             UNCHANGED <<semval, cnt, undo, wchan, sig, base>>
      PROVE  /\ semval' \in [Slots -> [Nums -> Nat]]
             /\ undo' \in [Procs -> Undos]
             /\ CallValued(p)'
             /\ \A q \in Procs \ {p} : pc'[q] = pc[q] /\ call'[q] = call[q]
  <2>1. PICK a : a = SubSeq(semtmp, 1, k) \o SubSeq(list, k + 1, j)
    OBVIOUS
  <2>2. j \in Int /\ j <= Len(list) /\ j >= k /\ j \in Nat
    BY <1>1
  <2>3. a \in Seq(Sembuf) /\ Len(a) = j
    BY <1>1, <2>1, <2>2, CopyTypes
  <2>4. Len(semtmp') >= j
    BY <1>1, <1>4, <2>1, <2>3, OverTypes
  <2>5. Len(semtmp') \in Nat
    BY <1>3, LenProperties
  <2>6. CallValued(p)'
    <3>1. call'[p] = [id |-> id, ops |-> list, again |-> again, copied |-> j, chan |-> None]
      BY <1>2, <1>4
    <3>2. call'[p].id \in Int /\ call'[p].ops \in Lists /\ call'[p].copied = j
      BY <3>1
    <3>3. j \in 0 .. Len(semtmp')
      BY <2>2, <2>4, <2>5
    <3> QED
      BY <3>2, <3>3 DEF CallValued
  <2> QED
    BY <1>2, <1>4, <2>6 DEF Valued
<1>5. ASSUME NEW ops, ops = SubSeq(semtmp, 1, k) \o SubSeq(list, k + 1, Len(list)),
             Semops(p, id, list, ops, again)
      PROVE  /\ semval' \in [Slots -> [Nums -> Nat]]
             /\ undo' \in [Procs -> Undos]
             /\ CallValued(p)'
             /\ \A q \in Procs \ {p} : pc'[q] = pc[q] /\ call'[q] = call[q]
  <2>1. ops \in Seq(Sembuf)
    <3>1. Len(list) \in Int /\ Len(list) <= Len(list)
      BY <1>1
    <3> QED
      BY <1>1, <1>5, <3>1, CopyTypes
  <2>2. PICK s : s = Slot(id)
    OBVIOUS
  <2>3. s \in Slots /\ semval[s] \in [Nums -> Int] /\ undo[p] \in Undos
    BY <2>2, SlotOfInt DEF Valued
  <2>4. PICK r : r = Pass(p, ops, s, id)
    OBVIOUS
  <2>5. r \in States
    BY <2>1, <2>3, <2>4, PassDoes DEF PassFacts
  <2>6. r.val \in [Nums -> Nat] /\ r.u \in Undos
    <3>1. \A n \in Nums : semval[s][n] \in Nat
      BY <2>3 DEF Valued
    <3>2. \A n \in Nums : r.val[n] \in Int /\ r.val[n] >= 0
      BY <2>1, <2>3, <2>4, <2>5, <3>1, PassDoes DEF PassFacts, States
    <3>3. r.val \in [Nums -> Int] /\ r.u \in Undos
      BY <2>5 DEF States
    <3> QED
      BY <3>2, <3>3
  <2>7. semval' = [semval EXCEPT ![s] = r.val] /\ undo' = [undo EXCEPT ![p] = r.u]
    BY <1>5, <2>2, <2>4 DEF Semops
  <2>8. semval' \in [Slots -> [Nums -> Nat]] /\ undo' \in [Procs -> Undos]
    BY <2>3, <2>6, <2>7 DEF Valued
  <2>9. Return(p) \/ \E c \in Chans : Wait(p, c, id, list, r)
    BY <1>5, <2>2, <2>4 DEF Semops, Succeed, Fail
  <2>10. CASE Return(p)
    BY <1>2, <2>8, <2>10 DEF Return, CallValued
  <2>11. ASSUME NEW c \in Chans, pc' = [pc EXCEPT ![p] = "slept"],
                call' = [call EXCEPT ![p] = [id |-> id, ops |-> list, again |-> TRUE,
                                             copied |-> 0, chan |-> c]]
         PROVE  /\ CallValued(p)'
                /\ \A q \in Procs \ {p} : pc'[q] = pc[q] /\ call'[q] = call[q]
    BY <1>2, <2>11 DEF CallValued
  <2> QED
    BY <2>8, <2>9, <2>10, <2>11 DEF Wait
<1>6. ASSUME Refused(p, id, again)
      PROVE  /\ semval' \in [Slots -> [Nums -> Nat]]
             /\ undo' \in [Procs -> Undos]
             /\ CallValued(p)'
             /\ \A q \in Procs \ {p} : pc'[q] = pc[q] /\ call'[q] = call[q]
  BY <1>2, <1>6 DEF Refused, Return, CallValued, Valued
<1> QED
  BY <1>4, <1>5, <1>6 DEF Move

\* The identifiers of sets.
LEMMA IdsInt == Valued => \A id \in Ids : id \in Int
<1> SUFFICES ASSUME Valued, NEW s \in Slots PROVE IdOf(s) \in Int
  BY DEF Ids
<1>1. seq[s] \in Int /\ s \in Int /\ SEMMNI \in Int
  BY SizesAssumption DEF Valued, Slots
<1> QED
  BY <1>1 DEF IdOf

\* The types stay.
LEMMA ValuedStep == Sleeping /\ Valued /\ [Next]_vars => Valued'
<1> SUFFICES ASSUME Sleeping, Valued, [Next]_vars PROVE Valued'
  OBVIOUS
<1>0. pc \in [Procs -> {"user", "fault", "slept"}] /\ DOMAIN call = Procs
  BY DEF Sleeping, Typed
<1>1. CASE UNCHANGED vars
  BY <1>1 DEF vars, tables, Valued
<1>2. ASSUME NEW p \in Procs, Semget(p) PROVE Valued'
  BY <1>2 DEF Semget, UnchangedCalls, Valued
<1>3. ASSUME NEW p \in Procs, Semexit(p) PROVE Valued'
  <2>1. PICK g : g = [e \in Made(p) |-> Adjusted(e)]
    OBVIOUS
  <2>2. \A e \in DOMAIN g : g[e] \in Nat
    BY <1>3, <2>1, MadeTypes DEF Semexit
  <2>3. semval' = Put(semval, g)
    BY <1>3, <2>1 DEF Semexit
  <2>4. semval' \in [Slots -> [Nums -> Nat]]
    BY <2>2, <2>3, PutTypes DEF Valued
  <2>5. undo' \in [Procs -> Undos]
    BY <1>3 DEF Semexit, Valued, Undos
  <2> QED
    BY <1>3, <2>4, <2>5 DEF Semexit, UnchangedCalls, tables, Valued
<1>4. ASSUME NEW p \in Procs, NEW id, Semctl(p, id) PROVE Valued'
  <2>1. CASE Rmid(p, id)
    <3>1. undo' \in [Procs -> Undos]
      BY <2>1, SemunrmTypes DEF Rmid
    <3>8. PICK s : s = Slot(id)
      OBVIOUS
    <3>9. PICK z : z = [n \in Nums |-> 0]
      OBVIOUS
    <3>4. PICK m : m = (seq[s] + 1) % 65536
      OBVIOUS
    <3>5. semval' = [semval EXCEPT ![s] = z] /\ seq' = [seq EXCEPT ![s] = m]
      BY <2>1, <3>4, <3>8, <3>9 DEF Rmid
    <3>6. z \in [Nums -> Nat]
      BY <3>9
    <3>7. s \in Slots => m \in Int
      BY <3>4 DEF Valued
    <3>2. semval' \in [Slots -> [Nums -> Nat]]
      BY <3>5, <3>6 DEF Valued
    <3>3. seq' \in [Slots -> Int]
      BY <3>5, <3>7 DEF Valued
    <3> QED
      BY <2>1, <3>1, <3>2, <3>3 DEF Rmid, UnchangedCalls, Valued
  <2>2. ASSUME NEW v \in SetVals, NEW n \in Nums, Setval(p, id, n, v) PROVE Valued'
    <3>1. undo' \in [Procs -> Undos]
      BY <2>2, SemunrmTypes DEF Setval
    <3>2. v \in Nat
      BY SizesAssumption
    <3>3. semval' \in [Slots -> [Nums -> Nat]]
      BY <2>2, <3>2 DEF Setval, Valued
    <3> QED
      BY <2>2, <3>1, <3>3 DEF Setval, UnchangedCalls, Valued, tables
  <2>3. ASSUME NEW vals \in [Nums -> SetVals], Setall(p, id, vals) PROVE Valued'
    <3>1. undo' \in [Procs -> Undos]
      BY <2>3, SemunrmTypes DEF Setall
    <3>4. \A v \in SetVals : v \in Nat
      BY SizesAssumption
    <3>2. vals \in [Nums -> Nat]
      BY <3>4
    <3>3. semval' \in [Slots -> [Nums -> Nat]]
      BY <2>3, <3>2 DEF Setall, Valued
    <3> QED
      BY <2>3, <3>1, <3>3 DEF Setall, UnchangedCalls, Valued, tables
  <2> QED
    BY <1>4, <2>1, <2>2, <2>3 DEF Semctl
<1>5. ASSUME NEW p \in Procs, NEW id \in Ids, NEW list \in Lists, Semop(p, id, list) PROVE Valued'
  <2>1. id \in Int
    BY IdsInt
  <2>2. 0 \in 0 .. Len(semtmp)
    BY LenProperties DEF Valued
  <2> QED
    BY <1>5, <2>1, <2>2, MoveTypes DEF Semop
<1>6. ASSUME NEW p \in Procs, PageIn(p) PROVE Valued'
  <2>1. call[p].id \in Int /\ call[p].ops \in Lists /\ call[p].copied \in 0 .. Len(semtmp)
    BY <1>6 DEF PageIn, Valued
  <2> QED
    BY <1>6, <2>1, MoveTypes DEF PageIn
<1>7. ASSUME NEW p \in Procs, SemopAgain(p) PROVE Valued'
  <2>1. CASE Move(p, call[p].id, call[p].ops, 0, TRUE)
    <3>1. call[p].id \in Int /\ call[p].ops \in Lists
      BY <1>7 DEF SemopAgain, Valued
    <3>2. 0 \in 0 .. Len(semtmp)
      BY LenProperties DEF Valued
    <3> QED
      BY <2>1, <3>1, <3>2, MoveTypes
  <2>2. CASE Return(p) /\ UNCHANGED <<tables, semval, undo, semtmp>>
    BY <1>0, <2>2 DEF Return, Valued, tables
  <2> QED
    BY <1>7, <2>1, <2>2 DEF SemopAgain
<1>8. ASSUME NEW p \in Procs, SemopIntr(p) PROVE Valued'
  BY <1>0, <1>8 DEF SemopIntr, Return, Valued, tables
<1>9. ASSUME NEW p \in Procs, Signal(p) PROVE Valued'
  BY <1>9 DEF Signal, Valued, tables
<1> QED
  BY <1>1, <1>2, <1>3, <1>4, <1>5, <1>6, <1>7, <1>8, <1>9 DEF Next

-----------------------------------------------------------------------------
(* Who sleeps is blocked *)

\* A list that may wait for a semaphore to be zero does so before it has changed it.
ZeroFirst ==
    \A ops \in Lists : \A k \in 1 .. Len(ops) :
        ops[k].op = 0 /\ ~ops[k].nowait =>
            \A j \in 1 .. k - 1 : ops[j].num = ops[k].num => ops[j].op = 0

\* Process q sleeps only as long as one of its operations cannot be done.
BlockedAt(q) ==
    wchan[q] # None =>
        Blocked(call[q].ops, semval[wchan[q][1]][wchan[q][2]], wchan[q][2], wchan[q][3])

\* The invariant.
Awaiting == Settled /\ Valued /\ \A q \in Procs : BlockedAt(q)

\* The change of the values is announced: those who may wait for it are in W.
Announced(W) ==
    \A s \in Slots, n \in Nums :
        /\ semval'[s][n] <= semval[s][n] \/ <<s, n, "ncnt">> \in W
        /\ semval'[s][n] # 0 \/ semval'[s][n] = semval[s][n] \/ <<s, n, "zcnt">> \in W

\* Whoever is woken does not sleep.
LEMMA WokenGone ==
    ASSUME Sleeping, NEW W, NEW q \in Procs, Woken(W)[q] # None
    PROVE  Woken(W)[q] = wchan[q] /\ wchan[q] \notin W
BY DEF Sleeping, Typed, Accounted, Woken

\* Whoever still sleeps after a change that was announced is still blocked.
LEMMA BlockedKept ==
    ASSUME Awaiting, Valued', NEW W, Announced(W), NEW q \in Procs,
           wchan'[q] # None => wchan'[q] = wchan[q] /\ wchan[q] \notin W /\ call'[q] = call[q]
    PROVE  BlockedAt(q)'
<1> SUFFICES ASSUME wchan'[q] # None
             PROVE  Blocked(call[q].ops, semval'[wchan[q][1]][wchan[q][2]], wchan[q][2], wchan[q][3])
  BY DEF BlockedAt
<1>1. PICK s, n, how : wchan[q] = <<s, n, how>> /\ s \in Slots /\ n \in Nums /\ how \in {"ncnt", "zcnt"}
  BY DEF Awaiting, Settled, Sleeping, Typed, Chans
<1>2. Blocked(call[q].ops, semval[s][n], n, how)
  BY <1>1 DEF Awaiting, BlockedAt
<1>3. semval[s][n] \in Int /\ semval'[s][n] \in Int
  BY <1>1 DEF Awaiting, Valued
<1>4. /\ how = "ncnt" => semval'[s][n] <= semval[s][n]
      /\ how = "zcnt" => semval'[s][n] # 0 \/ semval'[s][n] = semval[s][n]
  BY <1>1 DEF Announced
<1>5. call[q].ops \in Seq(Sembuf)
  <2>1. pc[q] # "user"
    BY DEF Awaiting, Settled
  <2> QED
    BY <2>1, ListsAssumption DEF Awaiting, Valued
<1>6. Blocked(call[q].ops, semval'[s][n], n, how)
  BY <1>1, <1>2, <1>3, <1>4, <1>5, BlockedStays
<1> QED
  BY <1>1, <1>6

\* Without page faults the list is copied at once.
LEMMA CopiedAtOnce ==
    ASSUME NEW list \in Lists, NEW l
    PROVE  SubSeq(l, 1, 0) \o SubSeq(list, 0 + 1, Len(list)) = list
<1>1. list \in Seq(Sembuf)
  BY ListsAssumption
<1>2. SubSeq(l, 1, 0) = <<>>
  BY SubSeqEmpty
<1>3. SubSeq(list, 0 + 1, Len(list)) = list
  BY <1>1, SubSeqFull
<1> QED
  BY <1>1, <1>2, <1>3, ConcatEmptySeq

\* A list that waits for zero has not changed the semaphore before.
LEMMA NothingBefore ==
    ASSUME ZeroFirst, NEW ops \in Lists, NEW k \in 1 .. Len(ops),
           ops[k].op = 0, ~ops[k].nowait, NEW g, Sums(ops, ops[k].num, g)
    PROVE  g[k - 1] = 0
<1>1. ops \in Seq(Sembuf)
  BY ListsAssumption
<1>2. PICK holds : holds = {i \in 0 .. Len(ops) : i < k => g[i] = 0}
  OBVIOUS
<1>3. 0 \in holds
  BY <1>2 DEF Sums
<1>4. ASSUME NEW i \in 1 .. Len(ops), i - 1 \in holds PROVE i \in holds
  <2>1. g[i] = g[i - 1] + (IF ops[i].num = ops[k].num THEN ops[i].op ELSE 0)
    BY DEF Sums
  <2>2. ASSUME i < k PROVE g[i] = 0
    <3>1. i \in 1 .. k - 1 /\ i - 1 < k
      BY <2>2
    <3>2. g[i - 1] = 0
      BY <1>2, <1>4, <3>1
    <3>3. ops[i].num = ops[k].num => ops[i].op = 0
      BY <3>1 DEF ZeroFirst
    <3> QED
      BY <2>1, <3>2, <3>3
  <2> QED
    BY <1>2, <2>2
<1>5. Len(ops) \in Nat /\ k - 1 \in 0 .. Len(ops) /\ k - 1 < k
  BY <1>1, LenProperties
<1>6. 0 .. Len(ops) \subseteq holds
  BY <1>3, <1>4, <1>5, UpTo
<1> QED
  BY <1>2, <1>5, <1>6

\* A pass: it announces what it changes, and whoever goes to sleep is blocked.
LEMMA PassBlocks ==
    ASSUME ZeroFirst, Paged = {}, Awaiting, Valued',
           NEW p \in Procs, NEW id \in Int, NEW list \in Lists, NEW again,
           wchan[p] = None, Move(p, id, list, 0, again)
    PROVE  \A q \in Procs : BlockedAt(q)'
<1>0. Sleeping /\ Valued /\ list \in Seq(Sembuf)
  BY ListsAssumption DEF Awaiting, Settled
<1>1. CASE Refused(p, id, again)
  <2>1. Announced({})
    BY <1>1 DEF Refused, Announced, Valued
  <2>2. ASSUME NEW q \in Procs, wchan'[q] # None PROVE wchan'[q] = wchan[q] /\ call'[q] = call[q]
    BY <1>0, <1>1, <2>2 DEF Refused, Return, Sleeping, Typed
  <2> QED
    BY <2>1, <2>2, BlockedKept
<1>2. CASE Semops(p, id, list, list, again)
  <2>1. PICK s \in Slots : s = Slot(id)
    BY SlotOfInt
  <2>2. PICK r : r = Pass(p, list, s, id)
    OBVIOUS
  <2>3. semval[s] \in [Nums -> Int] /\ undo[p] \in Undos
    BY <1>0 DEF Valued
  <2>4. PassFacts(list, s, r)
    BY <1>0, <2>2, <2>3, PassDoes
  <2>5. semval' = [semval EXCEPT ![s] = r.val]
    BY <1>2, <2>1, <2>2 DEF Semops
  <2>6. Announced(r.wake)
    <3>1. ASSUME NEW t \in Slots, NEW n \in Nums
          PROVE  /\ semval'[t][n] <= semval[t][n] \/ <<t, n, "ncnt">> \in r.wake
                 /\ semval'[t][n] # 0 \/ semval'[t][n] = semval[t][n] \/ <<t, n, "zcnt">> \in r.wake
      <4>1. CASE t = s
        <5>1. semval'[t][n] = r.val[n]
          BY <1>0, <2>5, <4>1 DEF Valued
        <5> QED
          BY <2>4, <4>1, <5>1 DEF PassFacts
      <4>2. CASE t # s
        <5>1. semval'[t][n] = semval[t][n] /\ semval[t][n] \in Int
          BY <1>0, <2>5, <4>2 DEF Valued
        <5> QED
          BY <5>1
      <4> QED
        BY <4>1, <4>2
    <3> QED
      BY <3>1 DEF Announced
  <2>7. ASSUME NEW q \in Procs, q # p, wchan'[q] \in {None, Woken(r.wake)[q]}, call'[q] = call[q]
        PROVE  BlockedAt(q)'
    BY <1>0, <2>6, <2>7, WokenGone, BlockedKept
  <2>8. ASSUME NEW q \in Procs, wchan'[q] = None
        PROVE  BlockedAt(q)'
    BY <2>8 DEF BlockedAt
  <2>9. Woken(r.wake)[p] = None /\ Woken(r.wake) \in [Procs -> Chans \cup {None}]
    BY <1>0, WakeupKeeps
  <2>10. CASE Return(p) /\ Wakeup(r.wake)
    <3>1. \A q \in Procs : wchan'[q] = Woken(r.wake)[q]
      BY <2>10 DEF Wakeup
    <3>2. \A q \in Procs \ {p} : call'[q] = call[q]
      BY <1>0, <2>10 DEF Return, Sleeping, Typed
    <3> QED
      BY <2>7, <2>8, <2>9, <3>1, <3>2
  <2>11. ASSUME NEW c \in Chans, c = <<s, list[r.n + 1].num, r.res>>,
                r.res \in {"ncnt", "zcnt"}, ~list[r.n + 1].nowait, Wait(p, c, id, list, r)
         PROVE  \A q \in Procs : BlockedAt(q)'
    <3>1. CASE /\ wchan' = [Woken(r.wake) EXCEPT ![p] = c]
               /\ call' = [call EXCEPT ![p] = [id |-> id, ops |-> list, again |-> TRUE,
                                               copied |-> 0, chan |-> c]]
      <4>1. \A q \in Procs \ {p} : wchan'[q] = Woken(r.wake)[q] /\ call'[q] = call[q]
        BY <1>0, <2>9, <3>1 DEF Sleeping, Typed
      <4>2. wchan'[p] = c /\ call'[p].ops = list
        BY <1>0, <2>9, <3>1 DEF Sleeping, Typed
      <4>3. r.res # "ok"
        BY <2>11
      <4>4. r.n + 1 \in 1 .. Len(list) /\ r.val = semval[s] /\ r.n \in Nat
        BY <2>4, <4>3 DEF PassFacts, States
      <4>5. PICK k \in 1 .. Len(list) : k = r.n + 1 /\ k - 1 = r.n
        BY <4>4
      <4>6. PICK n : n = list[k].num
        OBVIOUS
      <4>7. Blocked(list, semval[s][n], n, r.res)
        <5>1. ASSUME NEW g, Sums(list, n, g)
              PROVE  \/ r.res = "ncnt" /\ list[k].op < 0 /\ semval[s][n] + g[k - 1] + list[k].op < 0
                     \/ r.res = "zcnt" /\ list[k].op = 0 /\ g[k - 1] = 0 /\ semval[s][n] # 0
          <6>1. CASE r.res = "ncnt"
            BY <2>4, <4>5, <4>6, <5>1, <6>1 DEF PassFacts
          <6>2. CASE r.res = "zcnt"
            <7>1. list[k].op = 0 /\ semval[s][n] + g[k - 1] # 0
              BY <2>4, <4>5, <4>6, <5>1, <6>2 DEF PassFacts
            <7>2. g[k - 1] = 0
              BY <2>11, <4>5, <4>6, <5>1, <7>1, NothingBefore
            <7>3. n \in Nums
              <8>1. list[k] \in Sembuf
                BY <1>0, ElementOfSeq
              <8> QED
                BY <4>6, <8>1 DEF Sembuf
            <7>4. semval[s][n] \in Int
              BY <2>3, <7>3
            <7> QED
              BY <6>2, <7>1, <7>2, <7>4
          <6> QED
            BY <2>11, <6>1, <6>2
        <5> QED
          BY <4>6, <5>1 DEF Blocked
      <4>8. semval'[s] = r.val
        BY <1>0, <2>5 DEF Valued
      <4>9. c[1] = s /\ c[2] = n /\ c[3] = r.res
        BY <2>11, <4>5, <4>6
      <4>10. BlockedAt(p)'
        BY <4>2, <4>4, <4>7, <4>8, <4>9 DEF BlockedAt
      <4> QED
        BY <2>7, <4>1, <4>10
    <3>2. CASE /\ wchan' = [q \in Procs |-> IF Counts(r.wake)[c] = 0 /\ wchan[q] = c
                                               THEN None ELSE Woken(r.wake)[q]]
               /\ Return(p)
      <4>1. \A q \in Procs : wchan'[q] \in {None, Woken(r.wake)[q]}
        BY <3>2
      <4>2. \A q \in Procs \ {p} : call'[q] = call[q]
        BY <1>0, <3>2 DEF Return, Sleeping, Typed
      <4> QED
        BY <2>7, <2>8, <2>9, <4>1, <4>2
    <3> QED
      BY <2>11, <3>1, <3>2 DEF Wait
  <2> QED
    BY <1>2, <2>1, <2>2, <2>10, <2>11 DEF Semops, Succeed, Fail
<1>3. \/ Semops(p, id, list, list, again) \/ Refused(p, id, again)
  BY CopiedAtOnce DEF Move
<1> QED
  BY <1>1, <1>2, <1>3

\* A wakeup of those who may wait for the values that change.
LEMMA WakeupBlocks ==
    ASSUME Awaiting, Valued', NEW W, Announced(W), Wakeup(W), UNCHANGED call
    PROVE  \A q \in Procs : BlockedAt(q)'
<1>1. ASSUME NEW q \in Procs, wchan'[q] # None
      PROVE  wchan'[q] = wchan[q] /\ wchan[q] \notin W
  BY <1>1, WokenGone DEF Wakeup, Awaiting, Settled
<1> QED
  BY <1>1, BlockedKept

\* What exit adjusts, it announces.
LEMMA SemexitAnnounces ==
    ASSUME Valued, NEW p \in Procs, Semexit(p)
    PROVE  Announced({<<Slot(e.id), e.num, "zcnt">> : e \in {d \in Made(p) : Adjusted(d) = 0}}
              \cup {<<Slot(e.id), e.num, "ncnt">> : e \in {d \in Made(p) : d.aoe > 0}})
<1>1. PICK W : W = {<<Slot(e.id), e.num, "zcnt">> : e \in {d \in Made(p) : Adjusted(d) = 0}}
              \cup {<<Slot(e.id), e.num, "ncnt">> : e \in {d \in Made(p) : d.aoe > 0}}
  OBVIOUS
<1>2. \A e \in Made(p) : /\ Adjusted(e) = 0 => <<Slot(e.id), e.num, "zcnt">> \in W
                         /\ e.aoe > 0 => <<Slot(e.id), e.num, "ncnt">> \in W
  BY <1>1
<1>3. \A e \in Made(p) : /\ e \in Entry
                         /\ Adjusted(e) = semval[Slot(e.id)][e.num] + e.aoe
  BY MadeTypes DEF Semexit
<1>4. ASSUME NEW s \in Slots, NEW n \in Nums
      PROVE  /\ semval'[s][n] <= semval[s][n] \/ <<s, n, "ncnt">> \in W
             /\ semval'[s][n] # 0 \/ semval'[s][n] = semval[s][n] \/ <<s, n, "zcnt">> \in W
  <2>1. PICK g : g = [e \in Made(p) |-> Adjusted(e)]
    OBVIOUS
  <2>2. PICK E : E = {e \in Made(p) : Slot(e.id) = s /\ e.num = n}
    OBVIOUS
  <2>3. semval' = Put(semval, g)
    BY <2>1 DEF Semexit
  <2>4. semval'[s][n] = IF E = {} THEN semval[s][n] ELSE g[CHOOSE e \in E : TRUE]
    BY <2>1, <2>2, <2>3 DEF Put
  <2>5. semval[s][n] \in Int
    BY DEF Valued
  <2>6. CASE E = {}
    BY <2>4, <2>5, <2>6
  <2>7. CASE E # {}
    <3>1. PICK e : e = CHOOSE x \in E : TRUE
      OBVIOUS
    <3>2. e \in E
      BY <2>7, <3>1
    <3>3. e \in Made(p) /\ Slot(e.id) = s /\ e.num = n
      BY <2>2, <3>2
    <3>4. semval'[s][n] = semval[s][n] + e.aoe /\ e.aoe \in Int /\ semval'[s][n] = Adjusted(e)
      BY <1>3, <2>1, <2>4, <2>7, <3>1, <3>3 DEF Entry
    <3>5. e.aoe > 0 => <<s, n, "ncnt">> \in W
      BY <1>2, <3>3
    <3>6. semval'[s][n] = 0 => <<s, n, "zcnt">> \in W
      BY <1>2, <3>3, <3>4
    <3> QED
      BY <2>5, <3>4, <3>5, <3>6
  <2> QED
    BY <2>6, <2>7
<1> QED
  BY <1>1, <1>4 DEF Announced

\* Every step keeps whoever sleeps blocked.
LEMMA AwaitingStep == ZeroFirst /\ Paged = {} /\ Awaiting /\ [Next]_vars => Awaiting'
<1> SUFFICES ASSUME ZeroFirst, Paged = {}, Awaiting, [Next]_vars
             PROVE  \A q \in Procs : BlockedAt(q)'
  BY SettledStep, ValuedStep DEF Awaiting, Settled
<1>0. Valued' /\ Sleeping /\ Valued
  BY ValuedStep DEF Awaiting, Settled
<1>1. CASE UNCHANGED vars
  BY <1>1 DEF vars, Awaiting, BlockedAt
<1>2. ASSUME NEW p \in Procs, Semget(p) PROVE \A q \in Procs : BlockedAt(q)'
  BY <1>2 DEF Semget, UnchangedCalls, Awaiting, BlockedAt
<1>3. ASSUME NEW p \in Procs, Semexit(p) PROVE \A q \in Procs : BlockedAt(q)'
  BY <1>0, <1>3, SemexitAnnounces, WakeupBlocks DEF Semexit, UnchangedCalls
<1>4. ASSUME NEW p \in Procs, NEW id \in Ids, Semctl(p, id) PROVE \A q \in Procs : BlockedAt(q)'
  <2>1. PICK s \in Slots : s = Slot(id)
    BY <1>0, IdsInt, SlotOfInt
  <2>2. CASE Rmid(p, id)
    <3>1. semval' = [semval EXCEPT ![s] = [n \in Nums |-> 0]]
      BY <2>1, <2>2 DEF Rmid
    <3>2. ASSUME NEW t \in Slots, NEW n \in Nums
          PROVE  t = s \/ (semval'[t][n] = semval[t][n] /\ semval[t][n] <= semval[t][n])
      BY <1>0, <3>1 DEF Valued
    <3>3. Announced({s} \X Nums \X {"ncnt", "zcnt"})
      BY <3>2 DEF Announced
    <3> QED
      BY <1>0, <2>1, <2>2, <3>3, WakeupBlocks DEF Rmid, UnchangedCalls
  <2>3. ASSUME NEW v \in SetVals, NEW n \in Nums, Setval(p, id, n, v)
        PROVE  \A q \in Procs : BlockedAt(q)'
    <3>1. semval' = [semval EXCEPT ![s][n] = v]
      BY <2>1, <2>3 DEF Setval
    <3>2. \A t \in Slots, m \in Nums : semval[t][m] \in Nat
      BY <1>0 DEF Valued
    <3>3. ASSUME NEW t \in Slots, NEW m \in Nums
          PROVE  /\ semval'[t][m] <= semval[t][m] \/ <<t, m, "ncnt">> \in Waiting(s, n, v)
                 /\ semval'[t][m] # 0 \/ semval'[t][m] = semval[t][m] \/ <<t, m, "zcnt">> \in Waiting(s, n, v)
      <4>1. CASE t = s /\ m = n /\ v = 0
        <5>1. semval'[t][m] = 0
          BY <1>0, <3>1, <4>1 DEF Valued
        <5>2. semval'[t][m] <= semval[t][m]
          BY <3>2, <5>1
        <5> QED
          BY <4>1, <5>2 DEF Waiting
      <4>2. CASE t = s /\ m = n /\ v # 0
        <5>1. semval'[t][m] = v
          BY <1>0, <3>1, <4>2 DEF Valued
        <5> QED
          BY <4>2, <5>1 DEF Waiting
      <4>3. CASE t # s \/ m # n
        <5>1. semval'[t][m] = semval[t][m] /\ semval[t][m] \in Int
          BY <1>0, <3>1, <4>3 DEF Valued
        <5> QED
          BY <5>1
      <4> QED
        BY <4>1, <4>2, <4>3
    <3>4. Announced(Waiting(s, n, v))
      BY <3>3 DEF Announced
    <3> QED
      BY <1>0, <2>1, <2>3, <3>4, WakeupBlocks DEF Setval, UnchangedCalls
  <2>4. ASSUME NEW vals \in [Nums -> SetVals], Setall(p, id, vals)
        PROVE  \A q \in Procs : BlockedAt(q)'
    <3>1. semval' = [semval EXCEPT ![s] = vals]
      BY <2>1, <2>4 DEF Setall
    <3>2. PICK W : W = UNION {Waiting(s, n, vals[n]) : n \in Nums}
      OBVIOUS
    <3>3. ASSUME NEW m \in Nums
          PROVE  /\ vals[m] # 0 => <<s, m, "ncnt">> \in W
                 /\ vals[m] = 0 => <<s, m, "zcnt">> \in W
      <4>1. Waiting(s, m, vals[m]) \subseteq W
        BY <3>2
      <4> QED
        BY <4>1 DEF Waiting
    <3>4. ASSUME NEW t \in Slots, NEW m \in Nums
          PROVE  /\ semval'[t][m] <= semval[t][m] \/ <<t, m, "ncnt">> \in W
                 /\ semval'[t][m] # 0 \/ semval'[t][m] = semval[t][m] \/ <<t, m, "zcnt">> \in W
      <4>1. semval'[t][m] = IF t = s THEN vals[m] ELSE semval[t][m]
        BY <1>0, <3>1 DEF Valued
      <4>2. semval[t][m] \in Nat
        BY <1>0 DEF Valued
      <4>3. CASE t = s /\ vals[m] = 0
        BY <3>3, <4>1, <4>2, <4>3
      <4>4. CASE t = s /\ vals[m] # 0
        BY <3>3, <4>1, <4>4
      <4>5. CASE t # s
        BY <4>1, <4>2, <4>5
      <4> QED
        BY <4>3, <4>4, <4>5
    <3>5. Announced(W)
      BY <3>4 DEF Announced
    <3> QED
      BY <1>0, <2>1, <2>4, <3>2, <3>5, WakeupBlocks DEF Setall, UnchangedCalls
  <2> QED
    BY <1>4, <2>2, <2>3, <2>4 DEF Semctl
<1>5. ASSUME NEW p \in Procs, NEW id \in Ids, NEW list \in Lists, Semop(p, id, list)
      PROVE  \A q \in Procs : BlockedAt(q)'
  <2>1. id \in Int
    BY <1>0, IdsInt
  <2>2. wchan[p] = None
    BY <1>5 DEF Semop, Outside, Awaiting, Settled
  <2> QED
    BY <1>0, <1>5, <2>1, <2>2, PassBlocks DEF Semop
<1>6. ASSUME NEW p \in Procs, PageIn(p) PROVE \A q \in Procs : BlockedAt(q)'
  BY <1>6 DEF PageIn, Awaiting, Settled
<1>7. ASSUME NEW p \in Procs, SemopAgain(p) PROVE \A q \in Procs : BlockedAt(q)'
  <2>1. CASE Move(p, call[p].id, call[p].ops, 0, TRUE)
    <3>1. call[p].id \in Int /\ call[p].ops \in Lists
      BY <1>0, <1>7 DEF SemopAgain, Valued
    <3> QED
      BY <1>0, <1>7, <2>1, <3>1, PassBlocks DEF SemopAgain
  <2>2. CASE Return(p) /\ UNCHANGED <<semval, wchan>>
    <3>1. \A q \in Procs \ {p} : call'[q] = call[q]
      BY <1>0, <2>2 DEF Return, Sleeping, Typed
    <3> QED
      BY <1>7, <2>2, <3>1 DEF SemopAgain, BlockedAt, Awaiting
  <2> QED
    BY <1>7, <2>1, <2>2 DEF SemopAgain
<1>8. ASSUME NEW p \in Procs, SemopIntr(p) PROVE \A q \in Procs : BlockedAt(q)'
  <2>1. \A q \in Procs \ {p} : call'[q] = call[q]
    BY <1>0, <1>8 DEF SemopIntr, Return, Sleeping, Typed
  <2>2. \A q \in Procs : wchan'[q] \in {None, wchan[q]}
    BY <1>8 DEF SemopIntr, Awaken
  <2>3. wchan[p] = None /\ semval' = semval
    BY <1>8 DEF SemopIntr
  <2> QED
    BY <2>1, <2>2, <2>3 DEF BlockedAt, Awaiting
<1>9. ASSUME NEW p \in Procs, Signal(p) PROVE \A q \in Procs : BlockedAt(q)'
  <2>1. \A q \in Procs : wchan'[q] \in {None, wchan[q]}
    BY <1>0, <1>9 DEF Signal, Sleeping, Typed
  <2> QED
    BY <1>9, <2>1 DEF Signal, BlockedAt, Awaiting
<1> QED
  BY <1>1, <1>2, <1>3, <1>4, <1>5, <1>6, <1>7, <1>8, <1>9 DEF Next

\* Whoever sleeps for semaphores could not carry out his operations now: every change of
\* a value that he waits for wakes him.  It takes that no page of a list is out, and that a
\* list waits for zero before it changes a semaphore; see the remark in the README.
THEOREM SemWakeupsKept == ZeroFirst /\ Paged = {} => (Spec => []NoLostWakeup)
<1> SUFFICES ASSUME ZeroFirst, Paged = {} PROVE Spec => []NoLostWakeup
  OBVIOUS
<1>1. Init => Awaiting
  <2> SUFFICES ASSUME Init PROVE Awaiting
    OBVIOUS
  <2>1. Settled
    BY DEF Init, Settled, Sleeping, Typed, Accounted, NoSleepOnRemoved
  <2>2. Valued
    <3>1. semtmp \in Seq(Sembuf)
      BY EmptySeq DEF Init
    <3>2. FirstSeq \in Int
      BY SizesAssumption
    <3> QED
      BY <3>1, <3>2 DEF Init, Valued, Undos
  <2>3. \A q \in Procs : BlockedAt(q)
    BY DEF Init, BlockedAt
  <2> QED
    BY <2>1, <2>2, <2>3 DEF Awaiting
<1>2. Awaiting /\ [Next]_vars => Awaiting'
  BY AwaitingStep
<1>3. Awaiting => NoLostWakeup
  <2> SUFFICES ASSUME Awaiting, NEW p \in Procs, wchan[p] # None PROVE ~Doable(p)
    BY DEF NoLostWakeup
  <2>1. PICK s, n, how : wchan[p] = <<s, n, how>> /\ s \in Slots /\ n \in Nums
    BY DEF Awaiting, Settled, Sleeping, Typed, Chans
  <2>2. s = Slot(call[p].id)
    <3>1. wchan[p][1] = Slot(call[p].id)
      BY DEF Awaiting, Settled, NoSleepOnRemoved
    <3>2. <<s, n, how>>[1] = s
      OBVIOUS
    <3> QED
      BY <2>1, <3>1, <3>2
  <2>3. pc[p] # "user"
    BY DEF Awaiting, Settled
  <2>4. call[p].ops \in Seq(Sembuf) /\ call[p].id \in Int
    BY <2>3, ListsAssumption DEF Awaiting, Valued
  <2>5. Blocked(call[p].ops, semval[s][n], n, how)
    BY <2>1 DEF Awaiting, BlockedAt
  <2>6. semval[s] \in [Nums -> Int] /\ undo[p] \in Undos
    BY <2>1 DEF Awaiting, Valued
  <2>7. Pass(p, call[p].ops, s, call[p].id).res # "ok"
    BY <2>1, <2>4, <2>5, <2>6, BlockedFails
  <2> QED
    BY <2>2, <2>7 DEF Doable
<1> QED
  BY <1>1, <1>2, <1>3, PTL DEF Spec

-----------------------------------------------------------------------------
(* What semaoe has recorded is taken back *)

\* Entry e comes before the one of semaphore n of set id.
Before(e, id, n) == e.id < id \/ (e.id = id /\ e.num < n)

\* The place of that semaphore in u is i.
Placed(u, id, n, i) ==
    /\ i \in 1 .. Len(u) + 1
    /\ \A j \in 1 .. i - 1 : Before(u[j], id, n)
    /\ i <= Len(u) => ~Before(u[i], id, n)

\* There is such a place, and it is the one that the model counts.
LEMMA PlaceIs ==
    ASSUME NEW u \in Seq(Entry), NEW id, NEW n, NEW i, Placed(u, id, n, i)
    PROVE  Place(u, id, n) = i
<1>1. Len(u) \in Nat /\ i \in 1 .. Len(u) + 1 /\ DOMAIN u = 1 .. Len(u)
  BY DEF Placed
<1>2. PICK T : T = {k \in DOMAIN u : \A j \in 1 .. k : u[j].id < id \/ (u[j].id = id /\ u[j].num < n)}
  OBVIOUS
<1>3. ASSUME NEW k \in 1 .. i - 1 PROVE k \in T
  <2>1. k \in DOMAIN u /\ \A j \in 1 .. k : j \in 1 .. i - 1
    BY <1>1
  <2> QED
    BY <1>2, <2>1 DEF Placed, Before
<1>4. ASSUME NEW k \in T PROVE k \in 1 .. i - 1
  <2>1. k \in 1 .. Len(u) /\ \A j \in 1 .. k : Before(u[j], id, n)
    BY <1>1, <1>2 DEF Before
  <2>2. ~(k >= i)
    <3>1. k >= i => i \in 1 .. k /\ i <= Len(u)
      BY <1>1, <2>1
    <3> QED
      BY <2>1, <3>1 DEF Placed
  <2> QED
    BY <1>1, <2>1, <2>2
<1>5. T = 1 .. i - 1
  BY <1>3, <1>4
<1>6. Cardinality(T) = i - 1
  <2>1. i - 1 \in Int
    BY <1>1
  <2>2. Cardinality(1 .. i - 1) = IF 1 > i - 1 THEN 0 ELSE i - 1 - 1 + 1
    BY <2>1, FS_Interval
  <2> QED
    BY <1>1, <1>5, <2>2
<1>7. Place(u, id, n) = 1 + Cardinality(T)
  BY <1>2 DEF Place
<1> QED
  BY <1>1, <1>6, <1>7

\* Every semaphore has a place in every list.
LEMMA HasPlace ==
    ASSUME NEW u \in Seq(Entry), NEW id, NEW n
    PROVE  \E i : Placed(u, id, n, i)
<1>1. Len(u) \in Nat
  OBVIOUS
<1>2. PICK T : T = {i \in 1 .. Len(u) + 1 : i <= Len(u) => ~Before(u[i], id, n)}
  OBVIOUS
<1>3. Len(u) + 1 \in T
  BY <1>1, <1>2
<1>4. PICK i \in T : \A j \in T : i <= j
  <2>1. T \in SUBSET Nat
    BY <1>1, <1>2
  <2> QED
    BY <1>3, <2>1, LeastOfNats
<1>5. ASSUME NEW j \in 1 .. i - 1 PROVE Before(u[j], id, n)
  <2>1. j \in 1 .. Len(u) + 1 /\ ~(i <= j)
    BY <1>1, <1>2
  <2> QED
    BY <1>2, <1>4, <2>1
<1> QED
  BY <1>2, <1>5 DEF Placed

\* The identifiers of sets that a short can hold.
ShortIds == 0 .. 32767

LEMMA UndoSizes == SEMUME \in Nat /\ SEMAEM \in Nat
BY SizesAssumption

LEMMA ShortInt == \A id \in ShortIds : id \in Int
BY DEF ShortIds

\* A short keeps them.
LEMMA ShortIs ==
    ASSUME NEW id \in ShortIds
    PROVE  Short(id) = id
<1>1. id \in Nat /\ id < 32768
  BY DEF ShortIds
<1>2. ((id + 32768) % 65536) - 32768 = id
  BY <1>1
<1> QED
  BY <1>2 DEF Short

\* The semaphore has an entry at place i, and what becomes of the adjustment.
FoundAt(u, id, n, i) == i <= Len(u) /\ u[i].id = id /\ u[i].num = n
NewAoe(u, v, id, n, i) == IF FoundAt(u, id, n, i) THEN u[i].aoe - v ELSE -v

\* What semaoe makes of the entries u0, or of none (u), where the place of the semaphore is i.
Outcome(u0, u, avail, v, id, n, i) ==
    IF Abs(v) > SEMAEM \/ (u0 = None /\ ~avail) THEN [ok |-> FALSE, u |-> u0]
    ELSE IF (~FoundAt(u, id, n, i) /\ Len(u) >= SEMUME) \/ Abs(NewAoe(u, v, id, n, i)) > SEMAEM
           THEN [ok |-> FALSE, u |-> u]
    ELSE [ok |-> TRUE,
          u |-> IF ~FoundAt(u, id, n, i)
                  THEN InsertAt(u, i, [id |-> id, num |-> n, aoe |-> NewAoe(u, v, id, n, i)])
                ELSE IF NewAoe(u, v, id, n, i) = 0 THEN RemoveAt(u, i)
                ELSE [u EXCEPT ![i].aoe = NewAoe(u, v, id, n, i)]]

\* It does that.
LEMMA SemaoeIs ==
    ASSUME NEW u \in Seq(Entry), NEW u0, u0 = None => u = <<>>, u0 # None => u = u0,
           NEW avail, NEW v, v # 0, NEW id \in ShortIds, NEW n, NEW i, Placed(u, id, n, i)
    PROVE  Semaoe(u0, avail, v, id, n) = Outcome(u0, u, avail, v, id, n, i)
<1>1. Place(u, id, n) = i /\ Short(id) = id
  BY PlaceIs, ShortIs
<1>2. (i \in DOMAIN u) <=> i <= Len(u)
  BY LenProperties DEF Placed
<1>3. PICK f \in BOOLEAN : f <=> (i \in DOMAIN u /\ u[i].id = id /\ u[i].num = n)
  OBVIOUS
<1>4. PICK aoe : aoe = IF f THEN u[i].aoe - v ELSE -v
  OBVIOUS
<1>5. Semaoe(u0, avail, v, id, n) =
             IF Abs(v) > SEMAEM \/ (u0 = None /\ ~avail) THEN [ok |-> FALSE, u |-> u0]
             ELSE IF (~f /\ Len(u) >= SEMUME) \/ Abs(aoe) > SEMAEM THEN [ok |-> FALSE, u |-> u]
             ELSE [ok |-> TRUE,
                   u |-> IF ~f THEN InsertAt(u, i, [id |-> Short(id), num |-> n, aoe |-> aoe])
                         ELSE IF aoe = 0 THEN RemoveAt(u, i)
                         ELSE [u EXCEPT ![i].aoe = aoe]]
  BY <1>1, <1>3, <1>4 DEF Semaoe
<1>6. f <=> FoundAt(u, id, n, i)
  BY <1>2, <1>3 DEF FoundAt
<1>7. aoe = NewAoe(u, v, id, n, i)
  BY <1>4, <1>6 DEF NewAoe
<1> QED
  BY <1>1, <1>5, <1>6, <1>7 DEF Outcome

\* The undo entries a process can have: sorted, no two of a semaphore, no more than fit,
\* none of zero and none out of range.
Ordered(u) == \A a, b \in 1 .. Len(u) : a < b => Before(u[a], u[b].id, u[b].num)

Recorded(u) ==
    /\ u \in Seq(Entry) /\ Len(u) <= SEMUME /\ Ordered(u)
    /\ \A a \in 1 .. Len(u) : u[a].aoe # 0 /\ Abs(u[a].aoe) <= SEMAEM

\* semaoe makes a new entry: it fits in, and the opposite removes it.
LEMMA SemaoeAdds ==
    ASSUME NEW u, Recorded(u), Len(u) < SEMUME, NEW v \in Int, v # 0, Abs(v) <= SEMAEM,
           NEW id \in ShortIds, NEW n \in Nums, NEW i, Placed(u, id, n, i),
           ~FoundAt(u, id, n, i), NEW avail, NEW w,
           w = InsertAt(u, i, [id |-> id, num |-> n, aoe |-> -v])
    PROVE  Recorded(w) /\ Semaoe(w, avail, -v, id, n).u = u
<1>1. u \in Seq(Entry) /\ Len(u) \in Nat /\ i \in 1 .. Len(u) + 1 /\ id \in Int /\ SEMUME \in Nat /\ SEMAEM \in Nat
  <2>1. u \in Seq(Entry) /\ i \in 1 .. Len(u) + 1
    BY DEF Recorded, Placed
  <2>2. Len(u) \in Nat
    BY <2>1, LenProperties
  <2> QED
    BY ShortInt, UndoSizes, <2>1, <2>2
<1>2. PICK e : e = [id |-> id, num |-> n, aoe |-> -v]
  OBVIOUS
<1>3. e \in Entry /\ e.id = id /\ e.num = n /\ e.aoe = -v
  BY <1>1, <1>2 DEF Entry
<1>4. /\ w \in Seq(Entry) /\ Len(w) = Len(u) + 1
      /\ \A j \in 1 .. Len(u) + 1 : w[j] = IF j < i THEN u[j] ELSE IF j = i THEN e ELSE u[j - 1]
  BY <1>1, <1>2, <1>3, InsertFacts
<1>5. \A j \in 1 .. Len(u) : u[j] \in Entry /\ u[j].id \in Int /\ u[j].num \in Int
  <2>1. \A j \in 1 .. Len(u) : u[j] \in Entry
    BY <1>1, ElementOfSeq
  <2> QED
    BY <2>1 DEF Entry, Nums
<1>6. \A j \in 1 .. i - 1 : Before(u[j], id, n)
  BY DEF Placed
<1>7. ASSUME NEW j \in i .. Len(u) PROVE Before(e, u[j].id, u[j].num)
  <2>1. i \in 1 .. Len(u) /\ j \in 1 .. Len(u) /\ i <= Len(u)
    BY <1>1
  <2>2. ~Before(u[i], id, n) /\ ~(u[i].id = id /\ u[i].num = n)
    BY <2>1 DEF Placed, FoundAt
  <2>3. Before(e, u[i].id, u[i].num)
    BY <1>1, <1>3, <1>5, <2>1, <2>2 DEF Before, Nums
  <2>4. CASE i = j
    BY <2>3, <2>4
  <2>5. CASE i < j
    <3>1. Before(u[i], u[j].id, u[j].num)
      BY <2>1, <2>5 DEF Recorded, Ordered
    <3>2. u[i].id \in Int /\ u[j].id \in Int /\ u[i].num \in Int /\ u[j].num \in Int /\ n \in Int
      BY <1>5, <2>1 DEF Nums
    <3>3. PICK a \in Int, b \in Int, c \in Int, d \in Int :
             a = u[i].id /\ b = u[i].num /\ c = u[j].id /\ d = u[j].num
      BY <3>2
    <3>4. e.id < a \/ (e.id = a /\ e.num < b)
      BY <2>3, <3>3 DEF Before
    <3>5. a < c \/ (a = c /\ b < d)
      BY <3>1, <3>3 DEF Before
    <3>6. e.id \in Int /\ e.num \in Int
      BY <1>1, <1>3, <3>2
    <3>7. e.id < c \/ (e.id = c /\ e.num < d)
      BY <3>4, <3>5, <3>6
    <3> QED
      BY <3>3, <3>7 DEF Before
  <2> QED
    BY <1>1, <2>1, <2>4, <2>5
<1>8. Ordered(w)
  <2> SUFFICES ASSUME NEW a \in 1 .. Len(u) + 1, NEW b \in 1 .. Len(u) + 1, a < b
               PROVE  Before(w[a], w[b].id, w[b].num)
    BY <1>4 DEF Ordered
  <2>0. \A x, y \in 1 .. Len(u) : x < y => Before(u[x], u[y].id, u[y].num)
    BY DEF Recorded, Ordered
  <2>1. CASE b < i
    <3>1. w[a] = u[a] /\ w[b] = u[b] /\ a \in 1 .. Len(u) /\ b \in 1 .. Len(u)
      BY <1>1, <1>4, <2>1
    <3> QED
      BY <2>0, <3>1
  <2>2. CASE b = i
    <3>1. w[a] = u[a] /\ w[b] = e /\ a \in 1 .. i - 1
      BY <1>1, <1>4, <2>2
    <3> QED
      BY <1>3, <1>6, <3>1
  <2>3. CASE b > i /\ a < i
    <3>1. w[a] = u[a] /\ w[b] = u[b - 1] /\ a \in 1 .. Len(u) /\ b - 1 \in 1 .. Len(u) /\ a < b - 1
      BY <1>1, <1>4, <2>3
    <3> QED
      BY <2>0, <3>1
  <2>4. CASE b > i /\ a = i
    <3>1. w[a] = e /\ w[b] = u[b - 1] /\ b - 1 \in i .. Len(u)
      BY <1>1, <1>4, <2>4
    <3> QED
      BY <1>7, <3>1
  <2>5. CASE b > i /\ a > i
    <3>1. w[a] = u[a - 1] /\ w[b] = u[b - 1] /\ a - 1 \in 1 .. Len(u) /\ b - 1 \in 1 .. Len(u) /\ a - 1 < b - 1
      <4>1. a - 1 \in 1 .. Len(u) /\ b - 1 \in 1 .. Len(u) /\ a - 1 < b - 1
        BY ONLY <1>1, <2>5, a \in 1 .. Len(u) + 1, b \in 1 .. Len(u) + 1, a < b
      <4>2. ~(a < i) /\ a # i /\ ~(b < i) /\ b # i
        BY <1>1, <2>5
      <4> QED
        BY <1>4, <4>1, <4>2
    <3> QED
      BY <2>0, <3>1
  <2> QED
    BY <1>1, <2>1, <2>2, <2>3, <2>4, <2>5
<1>9. Abs(-v) = Abs(v)
  BY DEF Abs
<1>10. Recorded(w)
  <2>1. ASSUME NEW a \in 1 .. Len(w) PROVE w[a].aoe # 0 /\ Abs(w[a].aoe) <= SEMAEM
    <3>1. w[a] = e \/ \E j \in 1 .. Len(u) : w[a] = u[j]
      <4>1. CASE a < i
        <5>1. a \in 1 .. Len(u) /\ w[a] = u[a]
          BY <1>1, <1>4, <4>1
        <5> QED
          BY <5>1
      <4>2. CASE a = i
        BY <1>4, <4>2
      <4>3. CASE a > i
        <5>1. a - 1 \in 1 .. Len(u) /\ w[a] = u[a - 1]
          BY <1>1, <1>4, <4>3
        <5> QED
          BY <5>1
      <4> QED
        BY <1>1, <4>1, <4>2, <4>3
    <3>2. e.aoe # 0 /\ Abs(e.aoe) <= SEMAEM
      BY <1>3, <1>9
    <3> QED
      BY <3>1, <3>2 DEF Recorded
  <2>2. Len(w) <= SEMUME
    BY <1>1, <1>4
  <2> QED
    BY <1>4, <1>8, <2>1, <2>2 DEF Recorded
<1>11. w # None
  BY <1>4, NoneAssumption DEF Entry
<1>12. Placed(w, id, n, i) /\ i <= Len(w) /\ w[i] = e
  <2>1. i \in 1 .. Len(w) + 1 /\ i <= Len(w) /\ w[i] = e
    BY <1>1, <1>4
  <2>2. \A j \in 1 .. i - 1 : w[j] = u[j]
    BY <1>1, <1>4
  <2>3. ~Before(e, id, n)
    BY <1>1, <1>3 DEF Before, Nums
  <2> QED
    BY <1>6, <2>1, <2>2, <2>3 DEF Placed
<1>13. Semaoe(w, avail, -v, id, n).u = RemoveAt(w, i)
  <2>1. PICK m \in Int : m = -v /\ m # 0 /\ Abs(m) <= SEMAEM
    BY <1>9
  <2>2. PICK aoe : aoe = w[i].aoe - m
    OBVIOUS
  <2>3. aoe = 0 /\ Abs(aoe) <= SEMAEM /\ Abs(aoe) \in Int /\ Abs(m) \in Int
    BY <1>1, <1>3, <1>12, <2>1, <2>2 DEF Abs
  <2>4. FoundAt(w, id, n, i)
    BY <1>3, <1>12 DEF FoundAt
  <2>5. Semaoe(w, avail, m, id, n) = Outcome(w, w, avail, m, id, n, i)
    <3>1. w \in Seq(Entry) /\ Placed(w, id, n, i) /\ m # 0
      BY <1>4, <1>12, <2>1
    <3>2. w # None
      BY <1>11
    <3> QED
      BY <3>1, <3>2, SemaoeIs
  <2>6. NewAoe(w, m, id, n, i) = 0
    BY <2>2, <2>3, <2>4 DEF NewAoe
  <2> QED
    BY <1>1, <1>11, <2>1, <2>3, <2>4, <2>5, <2>6 DEF Outcome
<1>14. RemoveAt(w, i) = u
  <2>0. PICK r : r = RemoveAt(w, i)
    OBVIOUS
  <2>1. /\ r \in Seq(Entry) /\ Len(r) = Len(w) - 1
        /\ \A j \in 1 .. Len(w) - 1 : r[j] = IF j < i THEN w[j] ELSE w[j + 1]
    <3>1. i \in 1 .. Len(w)
      BY <1>1, <1>4
    <3> QED
      BY <1>4, <2>0, <3>1, RemoveFacts
  <2>2. Len(w) - 1 = Len(u)
    BY <1>1, <1>4
  <2>3. ASSUME NEW j \in 1 .. Len(u) PROVE r[j] = u[j]
    <3>1. r[j] = IF j < i THEN w[j] ELSE w[j + 1]
      BY <2>1, <2>2
    <3>2. j < i => w[j] = u[j]
      BY <1>1, <1>4
    <3>3. ~(j < i) => w[j + 1] = u[j]
      <4>1. j + 1 \in 1 .. Len(u) + 1 /\ (j + 1) - 1 = j
        BY <1>1
      <4>2. ~(j < i) => ~(j + 1 < i) /\ j + 1 # i
        BY <1>1
      <4> QED
        BY <1>4, <4>1, <4>2
    <3> QED
      BY <3>1, <3>2, <3>3
  <2>4. r = u
    <3>1. r \in Seq(Entry) /\ u \in Seq(Entry) /\ Len(r) = Len(u)
      BY <1>1, <2>1, <2>2
    <3>2. \A j \in 1 .. Len(r) : r[j] = u[j]
      BY <2>3, <3>1
    <3> QED
      BY <3>1, <3>2, SeqEqual
  <2> QED
    BY <2>0, <2>4
<1> QED
  BY <1>10, <1>13, <1>14

\* semaoe removes an entry: the opposite puts it back.
LEMMA SemaoeDrops ==
    ASSUME NEW u, Recorded(u), NEW v \in Int, v # 0, Abs(v) <= SEMAEM,
           NEW id \in ShortIds, NEW n \in Nums, NEW i, Placed(u, id, n, i),
           FoundAt(u, id, n, i), u[i].aoe = v, NEW avail, NEW w, w = RemoveAt(u, i)
    PROVE  Recorded(w) /\ Semaoe(w, avail, -v, id, n).u = u
<1>0. u \in Seq(Entry) /\ Len(u) \in Nat
  BY LenProperties DEF Recorded
<1>1. u \in Seq(Entry) /\ Len(u) \in Nat /\ i \in 1 .. Len(u) /\ id \in Int /\ SEMUME \in Nat /\ SEMAEM \in Nat
  <2>1. i \in 1 .. Len(u)
    BY <1>0 DEF Placed, FoundAt
  <2> QED
    BY <1>0, <2>1, ShortInt, UndoSizes
<1>2. /\ w \in Seq(Entry) /\ Len(w) = Len(u) - 1
      /\ \A j \in 1 .. Len(u) - 1 : w[j] = IF j < i THEN u[j] ELSE u[j + 1]
  BY <1>1, RemoveFacts
<1>3. \A x, y \in 1 .. Len(u) : x < y => Before(u[x], u[y].id, u[y].num)
  BY DEF Recorded, Ordered
<1>4. PICK h : h = [j \in 1 .. Len(u) - 1 |-> IF j < i THEN j ELSE j + 1]
  OBVIOUS
<1>5. \A j \in 1 .. Len(u) - 1 : h[j] \in 1 .. Len(u) /\ w[j] = u[h[j]]
  BY <1>1, <1>2, <1>4
<1>6. \A a, b \in 1 .. Len(u) - 1 : a < b => h[a] < h[b]
  BY <1>1, <1>4
<1>7. Recorded(w)
  <2>1. Ordered(w)
    BY SMTT(60), ZenonT(60), <1>2, <1>3, <1>5, <1>6 DEF Ordered
  <2>2. Len(w) <= SEMUME
    BY <1>1, <1>2 DEF Recorded
  <2>3. \A a \in 1 .. Len(w) : w[a].aoe # 0 /\ Abs(w[a].aoe) <= SEMAEM
    BY <1>2, <1>5 DEF Recorded
  <2> QED
    BY <1>2, <2>1, <2>2, <2>3 DEF Recorded
<1>8. w # None
  BY <1>2, NoneAssumption DEF Entry
<1>9. u[i] = [id |-> id, num |-> n, aoe |-> v] /\ u[i] \in Entry
  <2>1. u[i] \in Entry
    BY <1>1, ElementOfSeq
  <2> QED
    BY <2>1 DEF FoundAt, Entry
<1>10. i <= Len(w) => Before(u[i], w[i].id, w[i].num) /\ w[i] \in Entry
  <2> SUFFICES ASSUME i <= Len(w) PROVE Before(u[i], w[i].id, w[i].num) /\ w[i] \in Entry
    OBVIOUS
  <2>1. w[i] = u[i + 1] /\ i + 1 \in 1 .. Len(u) /\ i < i + 1 /\ i \in 1 .. Len(w)
    BY <1>1, <1>2
  <2>2. w[i] \in Entry
    BY <1>2, <2>1, ElementOfSeq
  <2> QED
    BY <1>1, <1>3, <2>1, <2>2
<1>11. Placed(w, id, n, i) /\ ~FoundAt(w, id, n, i)
  <2>1. i \in 1 .. Len(w) + 1
    BY <1>1, <1>2
  <2>2. ASSUME NEW j \in 1 .. i - 1 PROVE Before(w[j], id, n)
    <3>1. w[j] = u[j]
      BY <1>1, <1>2
    <3> QED
      BY <3>1 DEF Placed
  <2>3. ASSUME i <= Len(w) PROVE ~Before(w[i], id, n) /\ ~(w[i].id = id /\ w[i].num = n)
    <3>1. PICK x, y : x = w[i].id /\ y = w[i].num
      OBVIOUS
    <3>2. x \in Int /\ y \in Int /\ n \in Int
      BY <1>10, <2>3, <3>1 DEF Entry, Nums
    <3>3. id < x \/ (id = x /\ n < y)
      BY <1>9, <1>10, <2>3, <3>1 DEF Before
    <3> QED
      BY <1>1, <3>1, <3>2, <3>3 DEF Before
  <2> QED
    BY <2>1, <2>2, <2>3 DEF Placed, FoundAt
<1>12. Semaoe(w, avail, -v, id, n).u = InsertAt(w, i, u[i])
  <2>1. PICK m \in Int : m = -v /\ m # 0 /\ Abs(m) <= SEMAEM /\ -m = v
    BY DEF Abs
  <2>2. Semaoe(w, avail, m, id, n) = Outcome(w, w, avail, m, id, n, i)
    <3>1. w \in Seq(Entry) /\ Placed(w, id, n, i) /\ m # 0
      BY <1>2, <1>11, <2>1
    <3>2. w # None
      BY <1>8
    <3> QED
      BY <3>1, <3>2, SemaoeIs
  <2>3. NewAoe(w, m, id, n, i) = v
    BY <1>11, <2>1 DEF NewAoe
  <2>4. Len(w) < SEMUME /\ Abs(m) \in Int /\ Abs(v) \in Int /\ Len(w) \in Nat
    BY <1>1, <1>2, <2>1 DEF Recorded, Abs
  <2> QED
    BY <1>1, <1>8, <1>9, <1>11, <2>1, <2>2, <2>3, <2>4 DEF Outcome
<1>13. InsertAt(w, i, u[i]) = u
  <2>0. PICK r : r = InsertAt(w, i, u[i])
    OBVIOUS
  <2>1. /\ r \in Seq(Entry) /\ Len(r) = Len(w) + 1
        /\ \A j \in 1 .. Len(w) + 1 :
              r[j] = IF j < i THEN w[j] ELSE IF j = i THEN u[i] ELSE w[j - 1]
    <3>1. i \in 1 .. Len(w) + 1
      BY <1>1, <1>2
    <3>2. PICK e \in Entry : e = u[i]
      BY <1>9
    <3>3. r = InsertAt(w, i, e)
      BY <2>0, <3>2
    <3>4. /\ r \in Seq(Entry) /\ Len(r) = Len(w) + 1
          /\ \A j \in 1 .. Len(w) + 1 :
                r[j] = IF j < i THEN w[j] ELSE IF j = i THEN e ELSE w[j - 1]
      <4>1. w \in Seq(Entry)
        BY <1>2
      <4>2. /\ InsertAt(w, i, e) \in Seq(Entry) /\ Len(InsertAt(w, i, e)) = Len(w) + 1
            /\ \A j \in 1 .. Len(w) + 1 :
                  InsertAt(w, i, e)[j] = IF j < i THEN w[j] ELSE IF j = i THEN e ELSE w[j - 1]
        BY ONLY <3>1, <4>1, e \in Entry, InsertFacts
      <4> QED
        BY ONLY <3>3, <4>2
    <3> QED
      BY <3>2, <3>4
  <2>2. Len(w) + 1 = Len(u)
    BY <1>1, <1>2
  <2>3. ASSUME NEW j \in 1 .. Len(u) PROVE r[j] = u[j]
    <3>1. r[j] = IF j < i THEN w[j] ELSE IF j = i THEN u[i] ELSE w[j - 1]
      BY <2>1, <2>2
    <3>2. CASE j < i
      <4>1. w[j] = u[j]
        BY <1>1, <1>2, <3>2
      <4> QED
        BY <3>1, <3>2, <4>1
    <3>3. CASE j = i
      BY <3>1, <3>3
    <3>4. CASE j > i
      <4>1. j - 1 \in 1 .. Len(u) - 1 /\ ~(j - 1 < i) /\ (j - 1) + 1 = j
        BY <1>1, <3>4
      <4>2. w[j - 1] = u[j]
        BY <1>2, <4>1
      <4> QED
        BY <1>1, <3>1, <3>4, <4>2
    <3> QED
      BY <1>1, <3>2, <3>3, <3>4
  <2>4. r = u
    <3>1. r \in Seq(Entry) /\ u \in Seq(Entry) /\ Len(r) = Len(u)
      BY <1>1, <2>1, <2>2
    <3>2. \A j \in 1 .. Len(r) : r[j] = u[j]
      BY <2>3, <3>1
    <3> QED
      BY <3>1, <3>2, SeqEqual
  <2> QED
    BY <2>0, <2>4
<1> QED
  BY <1>7, <1>12, <1>13

\* Entry i of u takes v less, which makes it aoe and the list w.
Reduced(u, i, v, aoe, w) == aoe = u[i].aoe - v /\ w = [u EXCEPT ![i].aoe = aoe]

\* semaoe changes an entry: the opposite changes it back.
LEMMA SemaoeChanges ==
    ASSUME NEW u, Recorded(u), NEW v \in Int, v # 0, Abs(v) <= SEMAEM,
           NEW id \in ShortIds, NEW n \in Nums, NEW i, Placed(u, id, n, i),
           FoundAt(u, id, n, i), NEW aoe, aoe # 0, Abs(aoe) <= SEMAEM,
           NEW avail, NEW w, Reduced(u, i, v, aoe, w)
    PROVE  Recorded(w) /\ Semaoe(w, avail, -v, id, n).u = u
<1>0. u \in Seq(Entry) /\ Len(u) \in Nat
  BY LenProperties DEF Recorded
<1>1. u \in Seq(Entry) /\ Len(u) \in Nat /\ i \in 1 .. Len(u) /\ id \in Int /\ SEMUME \in Nat /\ SEMAEM \in Nat
  <2>1. i \in 1 .. Len(u)
    BY <1>0 DEF Placed, FoundAt
  <2> QED
    BY ONLY <1>0, <2>1, id \in ShortIds, ShortInt, UndoSizes
<1>2. u[i] \in Entry /\ u[i].aoe \in Int /\ aoe \in Int /\ u[i].aoe # 0 /\ Abs(u[i].aoe) <= SEMAEM
  <2>1. u[i] \in Entry
    BY <1>1, ElementOfSeq
  <2>2. u[i].aoe \in Int
    BY <2>1 DEF Entry
  <2>3. u[i].aoe # 0 /\ Abs(u[i].aoe) <= SEMAEM
    BY <1>1 DEF Recorded
  <2>4. PICK x \in Int : x = u[i].aoe
    BY <2>2
  <2>5. aoe = x - v
    BY <2>4 DEF Reduced
  <2>6. aoe \in Int
    BY <2>5
  <2> QED
    BY <2>1, <2>2, <2>3, <2>6
<1>3. PICK e : e = [u[i] EXCEPT !.aoe = aoe]
  OBVIOUS
<1>4. e \in Entry /\ e.id = id /\ e.num = n /\ e.aoe = aoe
  BY <1>2, <1>3 DEF Entry, FoundAt
<1>5. w = [u EXCEPT ![i] = e]
  BY <1>3 DEF Reduced
<1>6. /\ w \in Seq(Entry) /\ Len(w) = Len(u) /\ w[i] = e
      /\ \A j \in 1 .. Len(u) : j # i => w[j] = u[j]
  BY <1>1, <1>4, <1>5, ExceptSeq
<1>7. \A j \in 1 .. Len(u) : w[j].id = u[j].id /\ w[j].num = u[j].num
  BY <1>4, <1>6 DEF FoundAt
<1>8. Recorded(w)
  <2>1. Ordered(w)
    BY <1>6, <1>7 DEF Recorded, Ordered, Before
  <2>2. ASSUME NEW a \in 1 .. Len(u) PROVE w[a].aoe # 0 /\ Abs(w[a].aoe) <= SEMAEM
    BY <1>4, <1>6 DEF Recorded
  <2> QED
    BY <1>6, <2>1, <2>2 DEF Recorded
<1>9. w # None
  BY <1>6, NoneAssumption DEF Entry
<1>10. Placed(w, id, n, i) /\ FoundAt(w, id, n, i)
  <2>1. \A j \in 1 .. i - 1 : j \in 1 .. Len(u)
    BY <1>1
  <2> QED
    BY <1>1, <1>4, <1>6, <1>7, <2>1 DEF Placed, FoundAt, Before
<1>11. Semaoe(w, avail, -v, id, n).u = [w EXCEPT ![i].aoe = u[i].aoe]
  <2>1. PICK m \in Int : m = -v /\ m # 0 /\ Abs(m) <= SEMAEM
    BY DEF Abs
  <2>2. Semaoe(w, avail, m, id, n) = Outcome(w, w, avail, m, id, n, i)
    <3>1. w \in Seq(Entry)
      BY <1>6
    <3>3. Placed(w, id, n, i) /\ m # 0
      BY <1>10, <2>1
    <3>2. w # None
      BY <1>9
    <3> HIDE DEF Placed
    <3> QED
      BY ONLY <3>1, <3>2, <3>3, id \in ShortIds, SemaoeIs
  <2>5. PICK x \in Int : x = u[i].aoe /\ x # 0 /\ Abs(x) <= SEMAEM
    BY <1>2
  <2>3. NewAoe(w, m, id, n, i) = x
    <3>1. aoe = x - v /\ w[i].aoe = aoe /\ m = -v
      BY <1>4, <1>6, <2>1, <2>5 DEF Reduced
    <3>2. w[i].aoe - m = x
      BY <3>1
    <3> QED
      BY <1>10, <3>2 DEF NewAoe
  <2>4. ~(Abs(m) > SEMAEM) /\ ~(Abs(x) > SEMAEM)
    BY <1>1, <2>1, <2>5 DEF Abs
  <2>6. Outcome(w, w, avail, m, id, n, i) = [ok |-> TRUE, u |-> [w EXCEPT ![i].aoe = x]]
    <3>1. Outcome(w, w, avail, m, id, n, i) =
            [ok |-> TRUE, u |-> [w EXCEPT ![i].aoe = NewAoe(w, m, id, n, i)]]
      <4>1. ~(w = None) /\ FoundAt(w, id, n, i) /\ NewAoe(w, m, id, n, i) # 0
        BY <1>9, <1>10, <2>3, <2>5
      <4>2. ~(Abs(NewAoe(w, m, id, n, i)) > SEMAEM) /\ ~(Abs(m) > SEMAEM)
        BY <2>3, <2>4
      <4> QED
        BY <4>1, <4>2, Zenon DEF Outcome
    <3> QED
      BY <2>3, <3>1
  <2>7. Semaoe(w, avail, m, id, n).u = [w EXCEPT ![i].aoe = x]
    BY ONLY <2>2, <2>6
  <2> QED
    BY <2>1, <2>5, <2>7
<1>12. [w EXCEPT ![i].aoe = u[i].aoe] = u
  <2>1. PICK d : d = [w[i] EXCEPT !.aoe = u[i].aoe]
    OBVIOUS
  <2>2. d = u[i]
    BY <1>2, <1>3, <1>6, <2>1 DEF Entry
  <2>3. [w EXCEPT ![i].aoe = u[i].aoe] = [w EXCEPT ![i] = d]
    BY <2>1
  <2>4. PICK r : r = [w EXCEPT ![i] = u[i]]
    OBVIOUS
  <2>5. r \in Seq(Entry) /\ Len(r) = Len(w) /\ r[i] = u[i] /\ \A j \in 1 .. Len(w) : j # i => r[j] = w[j]
    BY <1>1, <1>2, <1>6, <2>4, ExceptSeq
  <2>6. r = u
    <3>1. \A j \in 1 .. Len(r) : r[j] = u[j]
      BY <1>6, <2>5
    <3> QED
      BY <1>1, <1>6, <2>5, <3>1, SeqEqual
  <2> QED
    BY <2>2, <2>3, <2>4, <2>6
<1> QED
  BY <1>8, <1>11, <1>12

\* What is as good as the undo structure y: an empty one may be left where there was none.
Same(x, y) == x = y \/ (y = None /\ x = <<>>)

\* An empty list of entries is a proper one.
LEMMA NothingRecorded == Recorded(<<>>)
<1>1. PICK u \in Seq(Entry) : u = <<>> /\ Len(u) = 0
  BY EmptySeq
<1>2. Len(u) <= SEMUME
  BY <1>1, SizesAssumption
<1> QED
  BY <1>1, <1>2 DEF Recorded, Ordered

\* The steps of semaoe: from the entries u, at the place i of the semaphore, to w.
Did(u, v, id, n, i, w) ==
    /\ Recorded(u) /\ Placed(u, id, n, i) /\ Abs(v) <= SEMAEM
    /\ ~((~FoundAt(u, id, n, i) /\ Len(u) >= SEMUME) \/ Abs(NewAoe(u, v, id, n, i)) > SEMAEM)
    /\ w = IF ~FoundAt(u, id, n, i)
             THEN InsertAt(u, i, [id |-> id, num |-> n, aoe |-> NewAoe(u, v, id, n, i)])
           ELSE IF NewAoe(u, v, id, n, i) = 0 THEN RemoveAt(u, i)
           ELSE [u EXCEPT ![i].aoe = NewAoe(u, v, id, n, i)]

\* It goes through them, with the entries there were, or with none.
LEMMA SemaoeDid ==
    ASSUME NEW u0, u0 = None \/ Recorded(u0), NEW avail, NEW v \in Int, v # 0,
           NEW id \in ShortIds, NEW n \in Nums, NEW w,
           Semaoe(u0, avail, v, id, n) = [ok |-> TRUE, u |-> w]
    PROVE  \E u, i : u = (IF u0 = None THEN <<>> ELSE u0) /\ Did(u, v, id, n, i, w)
<1>1. PICK u : u = IF u0 = None THEN <<>> ELSE u0
  OBVIOUS
<1>2. Recorded(u) /\ u \in Seq(Entry)
  BY <1>1, NothingRecorded DEF Recorded
<1>3. PICK i : Placed(u, id, n, i)
  BY <1>2, HasPlace
<1>4. Semaoe(u0, avail, v, id, n) = Outcome(u0, u, avail, v, id, n, i)
  <2>1. u0 = None => u = <<>>
    BY <1>1
  <2>2. u0 # None => u = u0
    BY <1>1
  <2>3. u \in Seq(Entry)
    BY <1>2
  <2> QED
    BY ONLY v # 0, <1>3, <2>1, <2>2, <2>3, id \in ShortIds, SemaoeIs
<1>5. Outcome(u0, u, avail, v, id, n, i) = [ok |-> TRUE, u |-> w]
  BY <1>4
<1>6. PICK aoe : aoe = NewAoe(u, v, id, n, i)
  OBVIOUS
<1>7. /\ ~(Abs(v) > SEMAEM)
      /\ ~((~FoundAt(u, id, n, i) /\ Len(u) >= SEMUME) \/ Abs(aoe) > SEMAEM)
  <2>1. Outcome(u0, u, avail, v, id, n, i).ok = TRUE
    BY <1>5
  <2> QED
    BY <1>6, <2>1 DEF Outcome
<1>8. w = IF ~FoundAt(u, id, n, i)
            THEN InsertAt(u, i, [id |-> id, num |-> n, aoe |-> aoe])
          ELSE IF aoe = 0 THEN RemoveAt(u, i)
          ELSE [u EXCEPT ![i].aoe = aoe]
  <2>1. PICK y : y = IF ~FoundAt(u, id, n, i)
                       THEN InsertAt(u, i, [id |-> id, num |-> n, aoe |-> aoe])
                     ELSE IF aoe = 0 THEN RemoveAt(u, i)
                     ELSE [u EXCEPT ![i].aoe = aoe]
    OBVIOUS
  <2>2. Outcome(u0, u, avail, v, id, n, i) =
          IF Abs(v) > SEMAEM \/ (u0 = None /\ ~avail) THEN [ok |-> FALSE, u |-> u0]
          ELSE IF (~FoundAt(u, id, n, i) /\ Len(u) >= SEMUME) \/ Abs(aoe) > SEMAEM
                 THEN [ok |-> FALSE, u |-> u]
          ELSE [ok |-> TRUE, u |-> y]
    BY <1>6, <2>1 DEF Outcome
  <2>3. [ok |-> TRUE, u |-> y].u = [ok |-> TRUE, u |-> w].u
    BY ONLY <1>5, <1>7, <2>2
  <2>4. w = y
    BY <2>3
  <2> QED
    BY <2>1, <2>4
<1>9. Abs(v) <= SEMAEM
  <2>1. Abs(v) \in Int /\ SEMAEM \in Int
    BY SizesAssumption DEF Abs
  <2> QED
    BY <1>7, <2>1
<1> QED
  BY <1>1, <1>2, <1>3, <1>6, <1>7, <1>8, <1>9 DEF Did

\* What semaoe does, with the opposite it takes back, and the entries stay proper.
LEMMA SemaoeBack ==
    ASSUME NEW u0, u0 = None \/ Recorded(u0), NEW avail, NEW v \in Int, NEW id \in ShortIds,
           NEW n \in Nums, NEW w, Semaoe(u0, avail, v, id, n) = [ok |-> TRUE, u |-> w]
    PROVE  /\ w = None \/ Recorded(w)
           /\ \A x, some : Same(x, w) => Same(Semaoe(x, some, -v, id, n).u, u0)
<1>1. CASE v = 0
  <2>1. \A x, some, z : z = 0 => Semaoe(x, some, z, id, n) = [ok |-> TRUE, u |-> x]
    BY DEF Semaoe
  <2>2. w = u0
    <3>1. Semaoe(u0, avail, v, id, n) = [ok |-> TRUE, u |-> u0]
      BY <1>1, <2>1
    <3>2. [ok |-> TRUE, u |-> u0].u = [ok |-> TRUE, u |-> w].u
      BY <3>1
    <3> QED
      BY <3>2
  <2>3. -v = 0
    <3>1. -v = 0 - v
      BY ONLY v \in Int
    <3>2. 0 - v = 0
      BY <1>1
    <3> QED
      BY ONLY <3>1, <3>2
  <2>4. \A x, some : Semaoe(x, some, -v, id, n).u = x
    BY <2>1, <2>3
  <2> QED
    BY <2>2, <2>4
<1>2. CASE v # 0
  <2>1. PICK u, i : u = (IF u0 = None THEN <<>> ELSE u0) /\ Did(u, v, id, n, i, w)
    BY SMTT(60), ZenonT(60), <1>2, SemaoeDid
  <2>2. Recorded(u) /\ u \in Seq(Entry)
    BY <2>1 DEF Did, Recorded
  <2>3. Placed(u, id, n, i)
    BY <2>1 DEF Did
  <2>6. PICK aoe : aoe = NewAoe(u, v, id, n, i)
    OBVIOUS
  <2>7. ~((~FoundAt(u, id, n, i) /\ Len(u) >= SEMUME) \/ Abs(aoe) > SEMAEM)
    BY <2>1, <2>6 DEF Did
  <2>8. w = IF ~FoundAt(u, id, n, i)
              THEN InsertAt(u, i, [id |-> id, num |-> n, aoe |-> aoe])
            ELSE IF aoe = 0 THEN RemoveAt(u, i)
            ELSE [u EXCEPT ![i].aoe = aoe]
    BY <2>1, <2>6 DEF Did
  <2>9. Abs(v) <= SEMAEM
    BY <2>1 DEF Did
  <2>10. Recorded(w) /\ \A some : Semaoe(w, some, -v, id, n).u = u
    <3>1. CASE ~FoundAt(u, id, n, i)
      <4>1. aoe = -v
        BY <2>6, <3>1 DEF NewAoe
      <4>2. w = InsertAt(u, i, [id |-> id, num |-> n, aoe |-> -v])
        BY <2>8, <3>1, <4>1
      <4>3. Len(u) < SEMUME
        <5>1. Len(u) \in Nat /\ SEMUME \in Nat
          BY <2>2, LenProperties, SizesAssumption
        <5> QED
          BY <2>7, <3>1, <5>1
      <4> QED
        BY <1>2, <2>2, <2>3, <2>9, <3>1, <4>2, <4>3, SemaoeAdds
    <3>2. CASE FoundAt(u, id, n, i) /\ aoe = 0
      <4>1. w = RemoveAt(u, i)
        BY <2>8, <3>2
      <4>2. u[i] \in Entry
        <5>1. Len(u) \in Nat
          BY <2>2, LenProperties
        <5>2. i \in 1 .. Len(u)
          BY <2>3, <3>2, <5>1 DEF Placed, FoundAt
        <5> QED
          BY <2>2, <5>2, ElementOfSeq
      <4>3. PICK z \in Int : z = u[i].aoe
        BY <4>2 DEF Entry
      <4>4. z - v = 0
        BY <2>6, <3>2, <4>3 DEF NewAoe
      <4>5. u[i].aoe = v
        BY <4>3, <4>4
      <4> QED
        BY <1>2, <2>2, <2>3, <2>9, <3>2, <4>1, <4>5, SemaoeDrops
    <3>3. CASE FoundAt(u, id, n, i) /\ aoe # 0
      <4>1. w = [u EXCEPT ![i].aoe = aoe]
        BY <2>8, <3>3
      <4>2. aoe = u[i].aoe - v
        BY <2>6, <3>3 DEF NewAoe
      <4>4. u[i] \in Entry
        <5>1. Len(u) \in Nat
          BY <2>2, LenProperties
        <5>2. i \in 1 .. Len(u)
          BY <2>3, <3>3, <5>1 DEF Placed, FoundAt
        <5> QED
          BY <2>2, <5>2, ElementOfSeq
      <4>5. PICK z \in Int : z = u[i].aoe
        BY <4>4 DEF Entry
      <4>6. aoe \in Int
        BY <4>2, <4>5
      <4>3. Abs(aoe) <= SEMAEM
        <5>1. Abs(aoe) \in Int /\ SEMAEM \in Int
          BY <4>6, SizesAssumption DEF Abs
        <5> QED
          BY <2>7, <5>1
      <4>7. ASSUME NEW some PROVE Recorded(w) /\ Semaoe(w, some, -v, id, n).u = u
        <5>1. Recorded(u) /\ v # 0 /\ FoundAt(u, id, n, i) /\ aoe # 0
          BY <1>2, <2>2, <3>3
        <5>2. Reduced(u, i, v, aoe, w)
          BY <4>1, <4>2 DEF Reduced
        <5> QED
          BY ONLY <2>3, <2>9, <4>3, <5>1, <5>2, v \in Int, id \in ShortIds, n \in Nums,
                  SemaoeChanges
      <4> QED
        BY <4>7
    <3> QED
      BY <3>1, <3>2, <3>3
  <2>11. w # None
    BY <2>10, NoneAssumption DEF Recorded, Entry
  <2>12. Same(u, u0)
    BY <2>1 DEF Same
  <2> QED
    BY <2>10, <2>11, <2>12 DEF Same
<1> QED
  BY <1>1, <1>2

\* What semaoe leaves when it cannot be done is as good as what there was.
LEMMA SemaoeFails ==
    ASSUME NEW u0, NEW avail, NEW v, NEW id, NEW n, ~Semaoe(u0, avail, v, id, n).ok
    PROVE  Same(Semaoe(u0, avail, v, id, n).u, u0)
<1>1. PICK u : u = IF u0 = None THEN <<>> ELSE u0
  OBVIOUS
<1>2. PICK i : i = Place(u, id, n)
  OBVIOUS
<1>3. PICK found \in BOOLEAN : found <=> (i \in DOMAIN u /\ u[i].id = id /\ u[i].num = n)
  OBVIOUS
<1>4. PICK aoe : aoe = IF found THEN u[i].aoe - v ELSE -v
  OBVIOUS
<1>5. PICK w : w = IF ~found THEN InsertAt(u, i, [id |-> Short(id), num |-> n, aoe |-> aoe])
                    ELSE IF aoe = 0 THEN RemoveAt(u, i)
                    ELSE [u EXCEPT ![i].aoe = aoe]
  OBVIOUS
<1>6. Semaoe(u0, avail, v, id, n) =
         IF v = 0 THEN [ok |-> TRUE, u |-> u0]
         ELSE IF Abs(v) > SEMAEM \/ (u0 = None /\ ~avail) THEN [ok |-> FALSE, u |-> u0]
         ELSE IF (~found /\ Len(u) >= SEMUME) \/ Abs(aoe) > SEMAEM THEN [ok |-> FALSE, u |-> u]
         ELSE [ok |-> TRUE, u |-> w]
  BY <1>1, <1>2, <1>3, <1>4, <1>5 DEF Semaoe
<1>7. Semaoe(u0, avail, v, id, n).u \in {u0, u}
  BY ONLY <1>6, ~Semaoe(u0, avail, v, id, n).ok
<1> QED
  BY <1>1, <1>7 DEF Same

-----------------------------------------------------------------------------
(* A pass that fails leaves the undo entries as they were *)

\* The operations that state i of a pass counts as done have been done, and its undo
\* entries are those of the last of them.
Traced(f, ops, s, id, i) ==
    /\ f[i].n \in 0 .. i
    /\ \A j \in 1 .. f[i].n : Done(f[j - 1], ops[j], s, id, f[j])
    /\ Same(f[i].u, f[f[i].n].u)

\* Each turn of the loop of semop keeps it.
LEMMA TracedTurn ==
    ASSUME NEW ops \in Seq(Sembuf), NEW val \in [Nums -> Int], NEW s \in Slots, NEW id \in Int,
           NEW beg, NEW f, DoSteps(f, ops, beg, s, id), NEW i \in 1 .. Len(ops),
           InPass(ops, val, s, i - 1, f[i - 1]), Traced(f, ops, s, id, i - 1)
    PROVE  Traced(f, ops, s, id, i)
<1>1. f[i] = IF f[i - 1].res = "ok" THEN Operate(f[i - 1], ops[i], s, id) ELSE f[i - 1]
  BY DEF DoSteps
<1>2. CASE f[i - 1].res # "ok"
  <2>1. f[i] = f[i - 1]
    BY <1>1, <1>2
  <2>2. f[i].n \in 0 .. i
    BY <2>1 DEF Traced
  <2> QED
    BY <2>1, <2>2 DEF Traced
<1>3. CASE f[i - 1].res = "ok"
  <2>1. PICK o \in Sembuf : o = ops[i]
    BY ElementOfSeq
  <2>2. PICK st \in States : st = f[i - 1] /\ st.n = i - 1 /\ st.res = "ok"
    BY <1>3 DEF InPass
  <2>3. PICK r : r = f[i] /\ r = Operate(st, o, s, id)
    BY <1>1, <1>3, <2>1, <2>2
  <2>4. Done(st, o, s, id, r) \/ Stopped(st, o, id, r)
    BY <2>2, <2>3, OperateFacts
  <2>5. CASE Done(st, o, s, id, r)
    <3>1. r.n = i
      BY <2>2, <2>5 DEF Done
    <3>2. ASSUME NEW j \in 1 .. i PROVE Done(f[j - 1], ops[j], s, id, f[j])
      <4>1. CASE j = i
        BY <2>1, <2>2, <2>3, <2>5, <4>1
      <4>2. CASE j # i
        <5>1. j \in 1 .. f[i - 1].n
          BY <2>2, <4>2
        <5> QED
          BY <5>1 DEF Traced
      <4> QED
        BY <4>1, <4>2
    <3>3. f[i].n = i /\ i \in 0 .. i
      BY <2>3, <3>1
    <3>4. f[f[i].n].u = f[i].u
      BY <3>3
    <3> QED
      BY <3>2, <3>3, <3>4 DEF Traced, Same
  <2>6. CASE Stopped(st, o, id, r)
    <3>1. r.n = i - 1 /\ i - 1 \in 0 .. i
      BY <2>2, <2>6 DEF Stopped
    <3>2. Same(r.u, st.u)
      <4>1. CASE r.u = st.u
        BY <4>1 DEF Same
      <4>2. CASE r.u # st.u
        BY <2>6, <4>2, SemaoeFails DEF Stopped
      <4> QED
        BY <4>1, <4>2
    <3>3. \A j \in 1 .. i - 1 : Done(f[j - 1], ops[j], s, id, f[j])
      BY <2>2 DEF Traced
    <3> QED
      BY <2>2, <2>3, <3>1, <3>2, <3>3 DEF Traced
  <2> QED
    BY <2>4, <2>5, <2>6
<1> QED
  BY <1>2, <1>3

\* What is as good as proper entries is proper.
LEMMA SameRecorded ==
    ASSUME NEW x, NEW y, Same(x, y), y = None \/ Recorded(y)
    PROVE  x = None \/ Recorded(x)
BY NothingRecorded DEF Same

\* The states f of the loop of a pass, which did the first st.n operations of the list and came
\* to st, with proper undo entries on the way; r is what the pass comes to.
Trace(f, st, ops, p, s, id, r) ==
    /\ st \in States /\ st.n \in 0 .. Len(ops) /\ f[0].val = semval[s] /\ f[0].u = undo[p]
    /\ st.res = "ok" => st.n = Len(ops) /\ st = f[Len(ops)]
    /\ \A j \in 0 .. st.n : f[j] \in States /\ (f[j].u = None \/ Recorded(f[j].u))
    /\ \A j \in 1 .. st.n : Done(f[j - 1], ops[j], s, id, f[j])
    /\ Same(st.u, f[st.n].u)
    /\ r = (IF st.res = "ok" THEN st ELSE Semundo(ops, st, id)) /\ r.res = st.res

\* A pass goes through such states.
LEMMA PassTrace ==
    ASSUME NEW ops \in Seq(Sembuf), NEW p \in Procs, NEW s \in Slots, NEW id \in ShortIds,
           semval[s] \in [Nums -> Int], undo[p] \in Undos, undo[p] = None \/ Recorded(undo[p]),
           NEW r, r = Pass(p, ops, s, id)
    PROVE  \E f, st : Trace(f, st, ops, p, s, id, r)
<1>0. id \in Int
  BY ShortInt
<1>1. PICK val \in [Nums -> Int] : val = semval[s]
  OBVIOUS
<1>2. PICK beg : beg = [val |-> val, u |-> undo[p], wake |-> {}, n |-> 0, res |-> "ok"]
  OBVIOUS
<1>3. PICK f : /\ DoSteps(f, ops, beg, s, id) /\ Do(ops, beg, s, id) = f[Len(ops)]
               /\ \A i \in 0 .. Len(ops) : InPass(ops, val, s, i, f[i])
  BY <1>0, <1>2, DoFacts
<1>4. PICK m \in Nat : m = Len(ops)
  BY LenProperties
<1>5. f[0] = beg
  BY <1>3 DEF DoSteps
<1>6. Traced(f, ops, s, id, m)
  <2>1. PICK holds : holds = {i \in 0 .. m : Traced(f, ops, s, id, i)}
    OBVIOUS
  <2>2. 0 \in holds
    <3>1. f[0].n = 0
      BY <1>2, <1>5
    <3>2. Traced(f, ops, s, id, 0)
      BY <3>1 DEF Traced, Same
    <3> QED
      BY <2>1, <3>2
  <2>3. ASSUME NEW i \in 1 .. m, i - 1 \in holds PROVE i \in holds
    <3>1. InPass(ops, val, s, i - 1, f[i - 1]) /\ Traced(f, ops, s, id, i - 1)
      BY <1>3, <1>4, <2>1, <2>3
    <3>2. Traced(f, ops, s, id, i)
      BY <1>0, <1>3, <1>4, <3>1, TracedTurn
    <3> QED
      BY <2>1, <3>2
  <2>4. 0 .. m \subseteq holds
    BY <2>2, <2>3, UpTo
  <2> QED
    BY <2>1, <2>4
<1>7. PICK st \in States : st = f[m]
  BY <1>3, <1>4 DEF InPass
<1>8. PICK n \in 0 .. m : n = st.n
  BY <1>6, <1>7 DEF Traced
<1>9. ASSUME NEW j \in 1 .. n PROVE Done(f[j - 1], ops[j], s, id, f[j])
  BY <1>6, <1>7, <1>8 DEF Traced
<1>10. ASSUME NEW j \in 1 .. n PROVE ops[j] \in Sembuf
  BY <1>4, ElementOfSeq
<1>11. PICK good : good = {j \in 0 .. n : f[j].u = None \/ Recorded(f[j].u)}
  OBVIOUS
<1>12. 0 .. n \subseteq good
  <2>1. 0 \in good
    BY <1>2, <1>5, <1>11
  <2>2. ASSUME NEW j \in 1 .. n, j - 1 \in good PROVE j \in good
    <3>1. PICK o \in Sembuf : o = ops[j]
      BY <1>10
    <3>2. PICK x, y : x = f[j - 1].u /\ y = f[j].u
      OBVIOUS
    <3>3. IF o.undo THEN Semaoe(x, Avail, o.op, id, o.num) = [ok |-> TRUE, u |-> y] ELSE y = x
      BY <1>9, <3>1, <3>2 DEF Done
    <3>4. x = None \/ Recorded(x)
      BY <1>11, <2>2, <3>2
    <3>5. y = None \/ Recorded(y)
      <4>1. o.op \in Int /\ o.num \in Nums
        BY DEF Sembuf
      <4> QED
        BY <3>3, <3>4, <4>1, SemaoeBack
    <3> QED
      BY <1>11, <3>2, <3>5
  <2>3. n \in Nat
    OBVIOUS
  <2> QED
    BY ONLY <2>1, <2>2, <2>3, UpTo
<1>13. Same(st.u, f[n].u) /\ (f[n].u = None \/ Recorded(f[n].u))
  BY <1>6, <1>7, <1>8, <1>11, <1>12 DEF Traced
<1>14. r = IF st.res = "ok" THEN st ELSE Semundo(ops, st, id)
  BY <1>1, <1>2, <1>3, <1>4, <1>7 DEF Pass
<1>15. \A j \in 0 .. n : f[j] \in States
  <2>1. \A j \in 0 .. n : j \in 0 .. Len(ops)
    BY <1>4, <1>8
  <2> QED
    BY <1>3, <2>1 DEF InPass
<1>16. st.res = "ok" => st.n = Len(ops)
  BY <1>3, <1>4, <1>7 DEF InPass
<1>17. f[0].val = semval[s] /\ f[0].u = undo[p]
  BY <1>1, <1>2, <1>5
<1>18. r.res = st.res
  BY <1>0, <1>3, <1>4, <1>7, <1>14, SemundoFacts
<1>19. Trace(f, st, ops, p, s, id, r)
  BY <1>4, <1>7, <1>8, <1>9, <1>11, <1>12, <1>13, <1>14, <1>15, <1>16, <1>17, <1>18 DEF Trace
<1> QED
  BY <1>19

\* What a pass leaves is proper, and when it fails it is what there was.
LEMMA PassUndo ==
    ASSUME NEW ops \in Seq(Sembuf), NEW p \in Procs, NEW s \in Slots, NEW id \in ShortIds,
           semval[s] \in [Nums -> Int], undo[p] \in Undos, undo[p] = None \/ Recorded(undo[p]),
           NEW r, r = Pass(p, ops, s, id)
    PROVE  /\ r.u = None \/ Recorded(r.u)
           /\ r.res # "ok" => Same(r.u, undo[p])
<1>0. id \in Int
  BY ShortInt
<1>3. PICK f, st : Trace(f, st, ops, p, s, id, r)
  BY PassTrace
<1>7. st \in States
  BY <1>3 DEF Trace
<1>8. PICK n \in 0 .. Len(ops) : n = st.n
  BY <1>3 DEF Trace
<1>9. ASSUME NEW j \in 1 .. n PROVE Done(f[j - 1], ops[j], s, id, f[j])
  BY <1>3, <1>8 DEF Trace
<1>10. ASSUME NEW j \in 1 .. n PROVE ops[j] \in Sembuf
  <2>1. j \in 1 .. Len(ops)
    BY <1>8, LenProperties
  <2> QED
    BY <2>1, ElementOfSeq
<1>11. PICK good : good = {j \in 0 .. n : f[j].u = None \/ Recorded(f[j].u)}
  OBVIOUS
<1>12. 0 .. n \subseteq good
  BY <1>3, <1>8, <1>11 DEF Trace
<1>13. Same(st.u, f[n].u) /\ (f[n].u = None \/ Recorded(f[n].u))
  <2>1. n \in 0 .. n
    BY <1>8, LenProperties
  <2> QED
    BY <1>3, <1>8, <2>1 DEF Trace
<1>14. r = IF st.res = "ok" THEN st ELSE Semundo(ops, st, id)
  BY <1>3 DEF Trace
<1>15. CASE st.res = "ok"
  <2>1. r = st
    BY <1>14, <1>15
  <2> QED
    BY <1>13, <1>15, <2>1, SameRecorded
<1>16. CASE st.res # "ok"
  <2>1. st.n <= Len(ops)
    BY <1>8, LenProperties
  <2>2. PICK b : BackSteps(b, ops, st, id) /\ r = b[n]
    BY <1>0, <1>7, <1>8, <1>14, <1>16, <2>1, BackRuns
  <2>3. /\ b \in [0 .. n -> States] /\ b[0] = st
        /\ \A i \in 1 .. n : b[i] = TakeBack(b[i - 1], ops[n - i + 1], id)
    BY <1>8, <2>2 DEF BackSteps
  <2>4. PICK back : back = {i \in 0 .. n : Same(b[i].u, f[n - i].u)}
    OBVIOUS
  <2>5. 0 \in back
    <3>1. n - 0 = n
      OBVIOUS
    <3> QED
      BY <1>13, <2>3, <2>4, <3>1
  <2>6. ASSUME NEW i \in 1 .. n, i - 1 \in back PROVE i \in back
    <3>1. PICK k \in 1 .. n : k = n - i + 1 /\ k = n - (i - 1) /\ k - 1 = n - i
      OBVIOUS
    <3>2. PICK o \in Sembuf : o = ops[k]
      BY <1>10
    <3>3. PICK x, y : x = f[k - 1].u /\ y = f[k].u
      OBVIOUS
    <3>4. IF o.undo THEN Semaoe(x, Avail, o.op, id, o.num) = [ok |-> TRUE, u |-> y] ELSE y = x
      BY <1>9, <3>2, <3>3 DEF Done
    <3>5. x = None \/ Recorded(x)
      <4>1. k - 1 \in 0 .. n
        OBVIOUS
      <4> QED
        BY <1>11, <1>12, <3>3, <4>1
    <3>6. PICK c \in States : c = b[i - 1]
      <4>1. i - 1 \in 0 .. n
        OBVIOUS
      <4> QED
        BY <2>3, <4>1
    <3>7. PICK d : d = b[i]
      OBVIOUS
    <3>12. d = TakeBack(c, o, id)
      BY <2>3, <3>1, <3>2, <3>6, <3>7
    <3>8. /\ o.undo => d.u = Semaoe(c.u, Avail, Opposite(o), id, o.num).u
          /\ ~o.undo => d.u = c.u
      <4>1. /\ d \in States
            /\ d.n = c.n /\ d.res = c.res /\ d.wake = c.wake
            /\ d.val = [c.val EXCEPT ![o.num] = c.val[o.num] - o.op]
            /\ o.undo => d.u = Semaoe(c.u, Avail, Opposite(o), id, o.num).u
            /\ ~o.undo => d.u = c.u
        BY ONLY <1>0, <3>12, c \in States, o \in Sembuf, TakeBackFacts
      <4> QED
        BY ONLY <4>1
    <3>9. Same(c.u, y)
      BY <2>4, <2>6, <3>1, <3>3, <3>6
    <3>10. Same(d.u, x)
      <4>1. o.op \in Int /\ o.num \in Nums
        BY DEF Sembuf
      <4>2. CASE o.undo
        <5>1. Semaoe(x, Avail, o.op, id, o.num) = [ok |-> TRUE, u |-> y]
          BY <3>4, <4>2
        <5>2. \A z, some : Same(z, y) => Same(Semaoe(z, some, -o.op, id, o.num).u, x)
          BY <3>5, <4>1, <5>1, SemaoeBack
        <5>3. Same(Semaoe(c.u, Avail, Opposite(o), id, o.num).u, x)
          BY <3>9, <5>2 DEF Opposite
        <5> QED
          BY <3>8, <4>2, <5>3
      <4>3. CASE ~o.undo
        BY <3>4, <3>8, <3>9, <4>3
      <4> QED
        BY <4>2, <4>3
    <3>11. i \in 0 .. n
      OBVIOUS
    <3> QED
      BY <2>4, <3>1, <3>3, <3>7, <3>10, <3>11
  <2>7. n \in back
    <3>1. n \in Nat
      OBVIOUS
    <3>2. 0 .. n \subseteq back
      BY <2>5, <2>6, <3>1, UpTo
    <3> QED
      BY <3>1, <3>2
  <2>8. Same(r.u, undo[p])
    <3>1. n - n = 0 /\ f[0].u = undo[p]
      BY <1>3, <1>8, LenProperties DEF Trace
    <3> QED
      BY <2>2, <2>4, <2>7, <3>1
  <2>9. r.u = None \/ Recorded(r.u)
    BY <2>8, SameRecorded
  <2> QED
    BY <2>8, <2>9
<1> QED
  BY <1>15, <1>16

\* The identifiers of the sets there can be fit in the short of an undo entry, and
\* sem_perm.seq does not wrap around.
IdsFit ==
    /\ FirstSeq + MaxRmid < 65536
    /\ \A s \in Slots, k \in FirstSeq .. FirstSeq + MaxRmid : k * SEMMNI + s \in ShortIds

\* The invariant: the undo entries of every process are proper.
Undoable ==
    /\ Sleeping /\ Valued
    /\ seq \in [Slots -> FirstSeq .. FirstSeq + MaxRmid]
    /\ \A p \in Procs : pc[p] # "user" => call[p].id \in ShortIds
    /\ \A p \in Procs : undo[p] = None \/ Recorded(undo[p])

\* The identifiers of the sets there are fit.
LEMMA IdsShort ==
    ASSUME IdsFit, Undoable
    PROVE  /\ \A s \in Slots : IdOf(s) \in ShortIds
           /\ \A id \in Ids : id \in ShortIds
<1>1. ASSUME NEW s \in Slots PROVE IdOf(s) \in ShortIds
  <2>1. seq[s] \in FirstSeq .. FirstSeq + MaxRmid
    BY DEF Undoable
  <2> QED
    BY <2>1 DEF IdsFit, IdOf
<1> QED
  BY <1>1 DEF Ids

\* Some of the entries of a proper list are proper.
LEMMA PartRecorded ==
    ASSUME NEW u, Recorded(u), NEW r, Part(r, u, Len(u))
    PROVE  Recorded(r)
<1>1. u \in Seq(Entry) /\ Len(u) \in Nat /\ r \in Seq(Entry) /\ Len(r) \in Nat /\ SEMUME \in Nat
  BY LenProperties, SizesAssumption DEF Recorded, Part
<1>2. PICK h \in [1 .. Len(r) -> 1 .. Len(u)] :
           /\ \A j \in 1 .. Len(r) : r[j] = u[h[j]]
           /\ \A a, b \in 1 .. Len(r) : a < b => h[a] < h[b]
  BY DEF Part
<1>3. Len(r) <= SEMUME
  BY <1>1 DEF Part, Recorded
<1>4. Ordered(r)
  <2> SUFFICES ASSUME NEW a \in 1 .. Len(r), NEW b \in 1 .. Len(r), a < b
               PROVE  Before(r[a], r[b].id, r[b].num)
    BY DEF Ordered
  <2>1. r[a] = u[h[a]] /\ r[b] = u[h[b]] /\ h[a] < h[b]
    BY <1>2
  <2>2. PICK c \in 1 .. Len(u), d \in 1 .. Len(u) : c = h[a] /\ d = h[b]
    BY <1>2
  <2>3. Before(u[c], u[d].id, u[d].num)
    BY <2>1, <2>2 DEF Recorded, Ordered
  <2> QED
    BY <2>1, <2>2, <2>3
<1>5. \A a \in 1 .. Len(r) : r[a].aoe # 0 /\ Abs(r[a].aoe) <= SEMAEM
  BY <1>2 DEF Recorded
<1> QED
  BY <1>1, <1>3, <1>4, <1>5 DEF Recorded

\* semunrm leaves proper entries.
LEMMA SemunrmRecorded ==
    ASSUME Undoable, NEW id, NEW low, NEW high, undo' = Semunrm(id, low, high), NEW p \in Procs
    PROVE  undo'[p] = None \/ Recorded(undo'[p])
<1>1. CASE undo[p] = None
  BY <1>1 DEF Semunrm
<1>2. CASE undo[p] # None
  <2>1. PICK u : u = undo[p] /\ Recorded(u)
    BY <1>2 DEF Undoable
  <2>2. PICK r : r = Others(u, id, low, high)
    OBVIOUS
  <2>3. Part(r, u, Len(u))
    BY <2>1, <2>2, OthersFacts DEF Recorded
  <2>4. undo'[p] = r
    BY <1>2, <2>1, <2>2 DEF Semunrm
  <2> QED
    BY <2>1, <2>3, <2>4, PartRecorded
<1> QED
  BY <1>1, <1>2

\* The part of Undoable that a process has to do with.
CallUndoable(p) ==
    /\ pc[p] # "user" => call[p].id \in ShortIds
    /\ undo[p] = None \/ Recorded(undo[p])

\* MOVE and the pass after it leave proper entries.
LEMMA MoveRecorded ==
    ASSUME Undoable, NEW p \in Procs, NEW id \in ShortIds, NEW list \in Lists,
           NEW k \in 0 .. Len(semtmp), NEW again, Move(p, id, list, k, again)
    PROVE  \A q \in Procs : CallUndoable(q)'
<1>1. /\ list \in Seq(Sembuf) /\ semtmp \in Seq(Sembuf) /\ Len(list) \in Nat /\ id \in Int
      /\ DOMAIN call = Procs /\ pc \in [Procs -> {"user", "fault", "slept"}]
      /\ undo \in [Procs -> Undos]
  <2>1. Sleeping /\ Valued
    BY DEF Undoable
  <2>2. semtmp \in Seq(Sembuf) /\ undo \in [Procs -> Undos]
    BY <2>1 DEF Valued
  <2>3. DOMAIN call = Procs /\ pc \in [Procs -> {"user", "fault", "slept"}]
    BY <2>1 DEF Sleeping, Typed
  <2>4. list \in Seq(Sembuf)
    BY ListsAssumption
  <2>5. Len(list) \in Nat
    BY <2>4, LenProperties
  <2>6. id \in Int
    BY ShortInt
  <2> QED
    BY <2>2, <2>3, <2>4, <2>5, <2>6
<1>2. ASSUME NEW q \in Procs, undo'[q] = undo[q], pc'[q] = "user" \/ call'[q].id = id
                                                    \/ (pc'[q] = pc[q] /\ call'[q] = call[q])
      PROVE  CallUndoable(q)'
  BY <1>2 DEF Undoable, CallUndoable
<1>3. ASSUME NEW j, pc' = [pc EXCEPT ![p] = "fault"],
             call' = [call EXCEPT ![p] = [id |-> id, ops |-> list, again |-> again,
                                          copied |-> j, chan |-> None]],
             undo' = undo
      PROVE  \A q \in Procs : CallUndoable(q)'
  <2>1. \A q \in Procs : call'[q].id = id \/ (pc'[q] = pc[q] /\ call'[q] = call[q])
    BY <1>1, <1>3
  <2> QED
    BY <1>2, <1>3, <2>1
<1>4. CASE Refused(p, id, again)
  <2>1. \A q \in Procs : pc'[q] = "user" \/ (pc'[q] = pc[q] /\ call'[q] = call[q])
    BY <1>1, <1>4 DEF Refused, Return
  <2> QED
    BY <1>2, <1>4, <2>1 DEF Refused
<1>5. ASSUME NEW ops, ops = SubSeq(semtmp, 1, k) \o SubSeq(list, k + 1, Len(list)),
             Semops(p, id, list, ops, again)
      PROVE  \A q \in Procs : CallUndoable(q)'
  <2>1. ops \in Seq(Sembuf)
    <3>1. Len(list) \in Int /\ Len(list) <= Len(list)
      BY <1>1
    <3> QED
      BY <1>1, <1>5, <3>1, CopyTypes
  <2>2. PICK s \in Slots : s = Slot(id)
    BY <1>1, SlotOfInt
  <2>3. semval[s] \in [Nums -> Int] /\ undo[p] \in Undos /\ (undo[p] = None \/ Recorded(undo[p]))
    BY <1>1 DEF Undoable, Valued
  <2>4. PICK r : r = Pass(p, ops, s, id)
    OBVIOUS
  <2>5. r.u = None \/ Recorded(r.u)
    BY <2>1, <2>3, <2>4, PassUndo
  <2>6. undo' = [undo EXCEPT ![p] = r.u]
    BY <1>5, <2>2, <2>4 DEF Semops
  <2>7. \A q \in Procs : undo'[q] = IF q = p THEN r.u ELSE undo[q]
    BY <1>1, <2>6
  <2>8. \A q \in Procs : undo'[q] = None \/ Recorded(undo'[q])
    BY <2>5, <2>7 DEF Undoable
  <2>9. Return(p) \/ \E c \in Chans : Wait(p, c, id, list, r)
    BY <1>5, <2>2, <2>4 DEF Semops, Succeed, Fail
  <2>10. \A q \in Procs : pc'[q] = "user" \/ call'[q].id = id \/ (pc'[q] = pc[q] /\ call'[q] = call[q])
    BY <1>1, <2>9 DEF Return, Wait
  <2> QED
    BY <2>8, <2>10 DEF Undoable, CallUndoable
<1> QED
  BY <1>3, <1>4, <1>5 DEF Move

\* The entries stay proper.
LEMMA UndoableStep == IdsFit /\ Undoable /\ [Next]_vars => Undoable'
<1> SUFFICES ASSUME IdsFit, Undoable, [Next]_vars PROVE Undoable'
  OBVIOUS
<1>0. /\ Sleeping /\ Valued /\ DOMAIN call = Procs /\ undo \in [Procs -> Undos]
      /\ pc \in [Procs -> {"user", "fault", "slept"}]
      /\ seq \in [Slots -> FirstSeq .. FirstSeq + MaxRmid]
  BY DEF Undoable, Sleeping, Typed, Valued
<1> SUFFICES /\ seq' \in [Slots -> FirstSeq .. FirstSeq + MaxRmid]
             /\ \A q \in Procs : CallUndoable(q)'
  BY <1>0, SleepingStep, ValuedStep DEF Undoable, CallUndoable
<1>1. ASSUME NEW q \in Procs, undo'[q] \in {None, undo[q]},
             pc'[q] = "user" \/ (pc'[q] = pc[q] /\ call'[q] = call[q])
      PROVE  CallUndoable(q)'
  BY <1>1 DEF Undoable, CallUndoable
<1>2. CASE UNCHANGED vars
  BY <1>0, <1>1, <1>2 DEF vars, tables
<1>3. ASSUME NEW p \in Procs, Semget(p) \/ Semexit(p)
      PROVE  /\ seq' \in [Slots -> FirstSeq .. FirstSeq + MaxRmid]
             /\ \A q \in Procs : CallUndoable(q)'
  <2>1. \A q \in Procs : undo'[q] \in {None, undo[q]}
    BY <1>0, <1>3 DEF Semget, Semexit
  <2>2. UNCHANGED <<pc, call, seq>>
    BY <1>3 DEF Semget, Semexit, UnchangedCalls, tables
  <2> QED
    BY <1>0, <1>1, <2>1, <2>2
<1>4. ASSUME NEW p \in Procs, NEW id \in Ids, Semctl(p, id)
      PROVE  /\ seq' \in [Slots -> FirstSeq .. FirstSeq + MaxRmid]
             /\ \A q \in Procs : CallUndoable(q)'
  <2>rmid. ASSUME Rmid(p, id) PROVE undo' = Semunrm(id, 0, NSems) /\ UNCHANGED <<pc, call>>
    BY <2>rmid DEF Rmid, UnchangedCalls
  <2>setval. ASSUME NEW v, NEW n, Setval(p, id, n, v)
        PROVE  undo' = Semunrm(id, n, n) /\ UNCHANGED <<pc, call>>
    BY <2>setval DEF Setval, UnchangedCalls
  <2>setall. ASSUME NEW vals, Setall(p, id, vals)
        PROVE  undo' = Semunrm(id, 0, NSems) /\ UNCHANGED <<pc, call>>
    BY <2>setall DEF Setall, UnchangedCalls
  <2>1. \E low, high : undo' = Semunrm(id, low, high)
    BY <1>4, <2>rmid, <2>setval, <2>setall DEF Semctl
  <2>2. UNCHANGED <<pc, call>>
    BY <1>4, <2>rmid, <2>setval, <2>setall DEF Semctl
  <2>3. \A q \in Procs : CallUndoable(q)'
    BY <2>1, <2>2, SemunrmRecorded DEF Undoable, CallUndoable
  <2>4. CASE Rmid(p, id)
    <3>1. PICK s \in Slots : s = Slot(id)
      BY <1>0, IdsInt, SlotOfInt
    <3>2. seq[s] < FirstSeq + MaxRmid /\ seq[s] \in FirstSeq .. FirstSeq + MaxRmid
      BY <1>0, <2>4, <3>1 DEF Rmid
    <3>3. PICK m : m = (seq[s] + 1) % 65536
      OBVIOUS
    <3>4. seq' = [seq EXCEPT ![s] = m]
      BY <2>4, <3>1, <3>3 DEF Rmid
    <3>5. m \in FirstSeq .. FirstSeq + MaxRmid
      <4>1. FirstSeq \in Nat /\ MaxRmid \in Nat /\ FirstSeq + MaxRmid < 65536
        BY SizesAssumption DEF IdsFit
      <4>2. PICK x \in Nat : x = seq[s] + 1 /\ x \in FirstSeq .. FirstSeq + MaxRmid /\ x < 65536
        BY <3>2, <4>1
      <4>3. x % 65536 = x
        BY <4>2
      <4> QED
        BY <3>3, <4>2, <4>3
    <3> QED
      BY <1>0, <2>3, <3>4, <3>5
  <2>5. CASE UNCHANGED tables
    BY <1>0, <2>3, <2>5 DEF tables
  <2> QED
    BY <1>4, <2>4, <2>5 DEF Semctl, Setval, Setall
<1>5. ASSUME NEW p \in Procs, NEW id \in ShortIds, NEW list \in Lists, NEW k \in 0 .. Len(semtmp),
             NEW again, Move(p, id, list, k, again)
      PROVE  /\ seq' \in [Slots -> FirstSeq .. FirstSeq + MaxRmid]
             /\ \A q \in Procs : CallUndoable(q)'
  <2>1. UNCHANGED seq
    BY <1>5 DEF Move, tables
  <2>2. \A q \in Procs : CallUndoable(q)'
    BY <1>5, MoveRecorded
  <2> QED
    BY <1>0, <2>1, <2>2
<1>6. 0 \in 0 .. Len(semtmp)
  BY <1>0, LenProperties DEF Valued
<1>7. ASSUME NEW p \in Procs, NEW id \in Ids, NEW list \in Lists, Semop(p, id, list)
      PROVE  /\ seq' \in [Slots -> FirstSeq .. FirstSeq + MaxRmid]
             /\ \A q \in Procs : CallUndoable(q)'
  <2>1. id \in ShortIds
    BY IdsShort
  <2> QED
    BY <1>5, <1>6, <1>7, <2>1 DEF Semop
<1>8. ASSUME NEW p \in Procs, PageIn(p)
      PROVE  /\ seq' \in [Slots -> FirstSeq .. FirstSeq + MaxRmid]
             /\ \A q \in Procs : CallUndoable(q)'
  <2>1. call[p].id \in ShortIds /\ call[p].ops \in Lists /\ call[p].copied \in 0 .. Len(semtmp)
    BY <1>8 DEF PageIn, Undoable, Valued
  <2> QED
    BY <1>5, <1>8, <2>1 DEF PageIn
<1>9. ASSUME NEW p \in Procs, Return(p), undo' = undo, seq' = seq
      PROVE  /\ seq' \in [Slots -> FirstSeq .. FirstSeq + MaxRmid]
             /\ \A q \in Procs : CallUndoable(q)'
  <2>1. \A q \in Procs : pc'[q] = "user" \/ (pc'[q] = pc[q] /\ call'[q] = call[q])
    BY <1>0, <1>9 DEF Return
  <2> QED
    BY <1>0, <1>1, <1>9, <2>1
<1>10. ASSUME NEW p \in Procs, SemopAgain(p)
       PROVE  /\ seq' \in [Slots -> FirstSeq .. FirstSeq + MaxRmid]
              /\ \A q \in Procs : CallUndoable(q)'
  <2>1. CASE Move(p, call[p].id, call[p].ops, 0, TRUE)
    <3>1. call[p].id \in ShortIds /\ call[p].ops \in Lists
      BY <1>10 DEF SemopAgain, Undoable, Valued
    <3> QED
      BY <1>5, <1>6, <2>1, <3>1
  <2>2. CASE Return(p) /\ UNCHANGED <<tables, undo>>
    BY <1>9, <2>2 DEF tables
  <2> QED
    BY <1>10, <2>1, <2>2 DEF SemopAgain
<1>11. ASSUME NEW p \in Procs, SemopIntr(p)
       PROVE  /\ seq' \in [Slots -> FirstSeq .. FirstSeq + MaxRmid]
              /\ \A q \in Procs : CallUndoable(q)'
  BY <1>9, <1>11 DEF SemopIntr, tables
<1>12. ASSUME NEW p \in Procs, Signal(p)
       PROVE  /\ seq' \in [Slots -> FirstSeq .. FirstSeq + MaxRmid]
              /\ \A q \in Procs : CallUndoable(q)'
  BY <1>0, <1>1, <1>12 DEF Signal, tables
<1> QED
  BY <1>2, <1>3, <1>4, <1>7, <1>8, <1>10, <1>11, <1>12 DEF Next

\* They are when the system starts.
LEMMA UndoableInit == Init => Undoable
<1> SUFFICES ASSUME Init PROVE Undoable
  OBVIOUS
<1>1. Sleeping
  BY DEF Init, Sleeping, Typed, Accounted
<1>2. FirstSeq \in Nat /\ MaxRmid \in Nat
  BY SizesAssumption
<1>3. Valued
  <2>1. semtmp \in Seq(Sembuf)
    BY EmptySeq DEF Init
  <2> QED
    BY <1>2, <2>1 DEF Init, Valued, Undos
<1>4. seq \in [Slots -> FirstSeq .. FirstSeq + MaxRmid]
  BY <1>2 DEF Init
<1> QED
  BY <1>1, <1>3, <1>4 DEF Init, Undoable

\* A pass of semop over a list of operations does all of them, or takes back with semundo
\* what it did: on the values and on the undo entries, even when these are full on the way.
\* The identifiers of the sets have to fit in the short of an undo entry.
THEOREM SemopAllOrNothing == IdsFit => (Spec => []AllOrNothing)
<1> SUFFICES ASSUME IdsFit PROVE Spec => []AllOrNothing
  OBVIOUS
<1>1. Init => Undoable
  BY UndoableInit
<1>2. Undoable /\ [Next]_vars => Undoable'
  BY UndoableStep
<1>3. Undoable => AllOrNothing
  <2> SUFFICES ASSUME Undoable, NEW p \in Procs, NEW s \in Slots, NEW ops \in Lists,
                      NEW r, r = Pass(p, ops, s, IdOf(s))
               PROVE  IF r.res = "ok"
                        THEN \A n \in Nums : r.val[n] = semval[s][n] + Total(ops, n)
                        ELSE r.val = semval[s] /\ r.u \in {undo[p]} \cup
                                         (IF undo[p] = None THEN {<<>>} ELSE {})
    BY DEF AllOrNothing
  <2>1. PICK id \in ShortIds : id = IdOf(s)
    BY IdsShort
  <2>2. ops \in Seq(Sembuf) /\ id \in Int
    BY ListsAssumption, ShortInt
  <2>3. semval[s] \in [Nums -> Int] /\ undo[p] \in Undos /\ (undo[p] = None \/ Recorded(undo[p]))
    BY DEF Undoable, Valued
  <2>4. PassFacts(ops, s, r)
    BY <2>1, <2>2, <2>3, PassDoes
  <2>5. r.res # "ok" => Same(r.u, undo[p])
    BY <2>1, <2>2, <2>3, PassUndo
  <2>6. CASE r.res = "ok"
    <3>1. ASSUME NEW n \in Nums PROVE r.val[n] = semval[s][n] + Total(ops, n)
      <4>1. PICK g : Sums(ops, n, g) /\ Total(ops, n) = g[Len(ops)]
        BY <2>2, SumsTotal
      <4> QED
        BY <2>4, <2>6, <4>1 DEF PassFacts
    <3> QED
      BY <2>6, <3>1
  <2>7. CASE r.res # "ok"
    BY <2>4, <2>5, <2>7 DEF PassFacts, Same
  <2> QED
    BY <2>6, <2>7
<1> QED
  BY <1>1, <1>2, <1>3, PTL DEF Spec

-----------------------------------------------------------------------------
(* What exit will adjust, and what has been done with SEM_UNDO *)

\* There is an entry of x for semaphore n of set id in u.
Has(u, id, n, x) == \E i \in 1 .. Len(u) : u[i].id = id /\ u[i].num = n /\ u[i].aoe = x

\* The entry of a semaphore is the only one, so that it is what is owed.
LEMMA OwedHas ==
    ASSUME NEW u, Recorded(u), NEW id, NEW n, NEW x, Has(u, id, n, x)
    PROVE  Owed(u, id, n) = x /\ x \in Int /\ x # 0
<1>1. u \in Seq(Entry) /\ Len(u) \in Nat /\ DOMAIN u = 1 .. Len(u)
  BY LenProperties DEF Recorded
<1>2. u # None
  BY <1>1, NoneAssumption DEF Entry
<1>3. PICK i \in 1 .. Len(u) : u[i].id = id /\ u[i].num = n /\ u[i].aoe = x
  BY DEF Has
<1>4. ASSUME NEW j \in 1 .. Len(u) PROVE u[j].id \in Int /\ u[j].num \in Int /\ u[j].aoe \in Int
  <2>1. u[j] \in Entry
    BY <1>1, ElementOfSeq
  <2> QED
    BY <2>1 DEF Entry, Nums
<1>5. PICK T : T = {j \in DOMAIN u : u[j].id = id /\ u[j].num = n}
  OBVIOUS
<1>6. ASSUME NEW j \in T PROVE j = i
  <2>1. j \in 1 .. Len(u) /\ u[j].id = id /\ u[j].num = n
    BY <1>1, <1>5
  <2>2. ~Before(u[i], u[j].id, u[j].num) /\ ~Before(u[j], u[i].id, u[i].num)
    BY <1>3, <1>4, <2>1 DEF Before
  <2>3. ~(i < j) /\ ~(j < i)
    BY <2>1, <2>2 DEF Recorded, Ordered
  <2> QED
    BY <1>1, <2>1, <2>3
<1>7. T = {i}
  BY <1>1, <1>3, <1>5, <1>6
<1>8. PICK f : f = [j \in DOMAIN u |-> u[j].aoe]
  OBVIOUS
<1>9. f[i] = x /\ x \in Int
  BY <1>1, <1>3, <1>4, <1>8
<1>10. SumFunctionOnSet(f, {i}) = f[i]
  BY <1>9, SumOfOne
<1>11. Owed(u, id, n) = SumFunctionOnSet(f, T)
  BY <1>2, <1>5, <1>8 DEF Owed
<1>12. x # 0
  BY <1>3 DEF Recorded
<1> QED
  BY <1>7, <1>9, <1>10, <1>11, <1>12

\* Without an entry nothing is owed.
LEMMA OwedNothing ==
    ASSUME NEW u, u = None \/ Recorded(u), NEW id, NEW n,
           u = None \/ \A x : ~Has(u, id, n, x)
    PROVE  Owed(u, id, n) = 0
<1>1. CASE u = None
  BY <1>1 DEF Owed
<1>2. CASE u # None
  <2>1. u \in Seq(Entry) /\ DOMAIN u = 1 .. Len(u)
    BY <1>2, LenProperties DEF Recorded
  <2>2. PICK T : T = {j \in DOMAIN u : u[j].id = id /\ u[j].num = n}
    OBVIOUS
  <2>3. T = {}
    BY <1>2, <2>1, <2>2 DEF Has
  <2>4. PICK f : f = [j \in DOMAIN u |-> u[j].aoe]
    OBVIOUS
  <2>5. Owed(u, id, n) = SumFunctionOnSet(f, T)
    BY <1>2, <2>2, <2>4 DEF Owed
  <2>6. SumFunctionOnSet(f, {}) = 0
    <3>1. IsFiniteSet({}) /\ \A x \in {} : f[x] = 0
      BY FS_EmptySet
    <3> QED
      BY <3>1, SumOfZeros
  <2> QED
    BY <2>3, <2>5, <2>6
<1> QED
  BY <1>1, <1>2

\* What is owed is a number, and comes from an entry when it is not zero.
LEMMA OwedIs ==
    ASSUME NEW u, u = None \/ Recorded(u), NEW id, NEW n
    PROVE  /\ Owed(u, id, n) \in Int
           /\ Owed(u, id, n) # 0 => u # None /\ Has(u, id, n, Owed(u, id, n))
<1>1. CASE u = None \/ \A x : ~Has(u, id, n, x)
  BY <1>1, OwedNothing
<1>2. CASE u # None /\ \E x : Has(u, id, n, x)
  <2>1. PICK x : Has(u, id, n, x)
    BY <1>2
  <2> QED
    BY <1>2, <2>1, OwedHas
<1> QED
  BY <1>1, <1>2

\* Lists with the same entry for a semaphore owe it the same.
LEMMA OwedSame ==
    ASSUME NEW u, Recorded(u), NEW w, Recorded(w), NEW id, NEW n,
           \A x : Has(u, id, n, x) <=> Has(w, id, n, x)
    PROVE  Owed(u, id, n) = Owed(w, id, n)
<1>1. CASE \A x : ~Has(u, id, n, x)
  BY <1>1, OwedNothing
<1>2. CASE \E x : Has(u, id, n, x)
  BY <1>2, OwedHas
<1> QED
  BY <1>1, <1>2

\* An undo structure that is as good as another owes the same.
LEMMA SameOwed ==
    ASSUME NEW u, NEW w, Same(u, w), NEW id, NEW n
    PROVE  Owed(u, id, n) = Owed(w, id, n)
<1>1. CASE u = w
  BY <1>1
<1>2. CASE w = None /\ u = <<>>
  <2>1. Owed(w, id, n) = 0
    BY <1>2 DEF Owed
  <2>2. PICK e \in Seq(Entry) : e = <<>> /\ Len(e) = 0
    BY EmptySeq
  <2>3. \A x : ~Has(e, id, n, x)
    BY <2>2 DEF Has
  <2>4. Owed(e, id, n) = 0
    BY <2>2, <2>3, NothingRecorded, OwedNothing
  <2> QED
    BY <1>2, <2>1, <2>2, <2>4
<1> QED
  BY <1>1, <1>2 DEF Same

\* A semaphore that is not found at its place has no entry.
LEMMA NotFoundHasNot ==
    ASSUME NEW u, Recorded(u), NEW id \in Int, NEW n \in Nums, NEW i, Placed(u, id, n, i),
           ~FoundAt(u, id, n, i), NEW x
    PROVE  ~Has(u, id, n, x)
<1>1. u \in Seq(Entry) /\ Len(u) \in Nat /\ i \in 1 .. Len(u) + 1
  BY LenProperties DEF Recorded, Placed
<1>2. ASSUME NEW j \in 1 .. Len(u), u[j].id = id, u[j].num = n PROVE FALSE
  <2>1. \A k \in 1 .. Len(u) : u[k].id \in Int /\ u[k].num \in Int
    <3>1. \A k \in 1 .. Len(u) : u[k] \in Entry
      BY <1>1, ElementOfSeq
    <3> QED
      BY <3>1 DEF Entry, Nums
  <2>2. ~Before(u[j], id, n)
    BY <1>2, <2>1 DEF Before, Nums
  <2>3. ~(j < i)
    BY <1>1, <2>2 DEF Placed
  <2>4. j # i
    BY <1>2 DEF FoundAt
  <2>5. i \in 1 .. Len(u) /\ i < j
    BY <1>1, <2>3, <2>4
  <2>6. Before(u[i], u[j].id, u[j].num)
    BY <2>5 DEF Recorded, Ordered
  <2>7. ~Before(u[i], id, n)
    BY <2>5 DEF Placed
  <2> QED
    BY <1>2, <2>6, <2>7
<1> QED
  BY <1>2 DEF Has

\* What a list has after an entry is put in, taken out or changed.
LEMMA InsertHas ==
    ASSUME NEW u \in Seq(Entry), NEW e \in Entry, NEW i \in 1 .. Len(u) + 1,
           NEW w, w = InsertAt(u, i, e), NEW id, NEW n, NEW x
    PROVE  Has(w, id, n, x) <=> Has(u, id, n, x) \/ (e.id = id /\ e.num = n /\ e.aoe = x)
<1>1. /\ Len(w) = Len(u) + 1 /\ Len(u) \in Nat
      /\ \A j \in 1 .. Len(u) + 1 : w[j] = IF j < i THEN u[j] ELSE IF j = i THEN e ELSE u[j - 1]
  BY SMTT(60), ZenonT(60), InsertFacts, LenProperties
<1>2. ASSUME NEW j \in 1 .. Len(w) PROVE w[j] = e \/ \E k \in 1 .. Len(u) : w[j] = u[k]
  <2>1. CASE j < i
    <3>1. j \in 1 .. Len(u) /\ w[j] = u[j]
      BY <1>1, <2>1
    <3> QED
      BY <3>1
  <2>2. CASE j = i
    BY <1>1, <2>2
  <2>3. CASE j > i
    <3>1. j - 1 \in 1 .. Len(u) /\ w[j] = u[j - 1]
      BY <1>1, <2>3
    <3> QED
      BY <3>1
  <2> QED
    BY <1>1, <2>1, <2>2, <2>3
<1>3. ASSUME NEW k \in 1 .. Len(u) PROVE \E j \in 1 .. Len(w) : w[j] = u[k]
  <2>1. CASE k < i
    <3>1. k \in 1 .. Len(w) /\ w[k] = u[k]
      BY <1>1, <2>1
    <3> QED
      BY <3>1
  <2>2. CASE ~(k < i)
    <3>1. k + 1 \in 1 .. Len(w) /\ w[k + 1] = u[k]
      BY <1>1, <2>2
    <3> QED
      BY <3>1
  <2> QED
    BY <2>1, <2>2
<1>4. i \in 1 .. Len(w) /\ w[i] = e
  BY <1>1
<1>5. Has(w, id, n, x) => Has(u, id, n, x) \/ (e.id = id /\ e.num = n /\ e.aoe = x)
  BY <1>2 DEF Has
<1>6. Has(u, id, n, x) => Has(w, id, n, x)
  BY <1>3 DEF Has
<1>7. e.id = id /\ e.num = n /\ e.aoe = x => Has(w, id, n, x)
  BY <1>4 DEF Has
<1> QED
  BY <1>5, <1>6, <1>7

LEMMA RemoveHas ==
    ASSUME NEW u \in Seq(Entry), NEW i \in 1 .. Len(u), NEW w, w = RemoveAt(u, i),
           NEW id, NEW n, ~(u[i].id = id /\ u[i].num = n), NEW x
    PROVE  Has(w, id, n, x) <=> Has(u, id, n, x)
<1>1. /\ Len(w) = Len(u) - 1 /\ Len(u) \in Nat
      /\ \A j \in 1 .. Len(u) - 1 : w[j] = IF j < i THEN u[j] ELSE u[j + 1]
  BY RemoveFacts, LenProperties
<1>2. ASSUME NEW j \in 1 .. Len(w) PROVE \E k \in 1 .. Len(u) : w[j] = u[k]
  <2>1. CASE j < i
    <3>1. j \in 1 .. Len(u) /\ w[j] = u[j]
      BY <1>1, <2>1
    <3> QED
      BY <3>1
  <2>2. CASE ~(j < i)
    <3>1. j + 1 \in 1 .. Len(u) /\ w[j] = u[j + 1]
      BY <1>1, <2>2
    <3> QED
      BY <3>1
  <2> QED
    BY <2>1, <2>2
<1>3. ASSUME NEW k \in 1 .. Len(u), k # i PROVE \E j \in 1 .. Len(w) : w[j] = u[k]
  <2>1. CASE k < i
    <3>1. k \in 1 .. Len(w) /\ w[k] = u[k]
      BY <1>1, <2>1
    <3> QED
      BY <3>1
  <2>2. CASE ~(k < i)
    <3>1. k - 1 \in 1 .. Len(w) /\ w[k - 1] = u[k]
      BY <1>1, <1>3, <2>2
    <3> QED
      BY <3>1
  <2> QED
    BY <2>1, <2>2
<1>4. Has(w, id, n, x) => Has(u, id, n, x)
  BY <1>2 DEF Has
<1>5. Has(u, id, n, x) => Has(w, id, n, x)
  BY <1>3 DEF Has
<1> QED
  BY <1>4, <1>5

\* One entry of a list is taken out: its semaphore has none any more.
LEMMA RemovedHasNot ==
    ASSUME NEW u, Recorded(u), NEW i \in 1 .. Len(u), NEW w, w = RemoveAt(u, i), NEW x
    PROVE  ~Has(w, u[i].id, u[i].num, x)
<1>0. u \in Seq(Entry)
  BY DEF Recorded
<1>1. /\ Len(w) = Len(u) - 1 /\ Len(u) \in Nat
      /\ \A j \in 1 .. Len(u) - 1 : w[j] = IF j < i THEN u[j] ELSE u[j + 1]
  BY <1>0, RemoveFacts, LenProperties
<1>2. \A k \in 1 .. Len(u) : u[k].id \in Int /\ u[k].num \in Int
  <2>1. \A k \in 1 .. Len(u) : u[k] \in Entry
    BY <1>0, ElementOfSeq
  <2> QED
    BY <2>1 DEF Entry, Nums
<1>3. ASSUME NEW k \in 1 .. Len(u), k # i PROVE ~(u[k].id = u[i].id /\ u[k].num = u[i].num)
  <2>1. k < i \/ i < k
    BY <1>1, <1>3
  <2>2. Before(u[k], u[i].id, u[i].num) \/ Before(u[i], u[k].id, u[k].num)
    BY <2>1 DEF Recorded, Ordered
  <2> QED
    BY <1>2, <2>2 DEF Before
<1>4. ASSUME NEW j \in 1 .. Len(w) PROVE \E k \in 1 .. Len(u) : k # i /\ w[j] = u[k]
  <2>1. CASE j < i
    <3>1. j \in 1 .. Len(u) /\ w[j] = u[j] /\ j # i
      BY <1>1, <2>1
    <3> QED
      BY <3>1
  <2>2. CASE ~(j < i)
    <3>1. j + 1 \in 1 .. Len(u) /\ w[j] = u[j + 1] /\ j + 1 # i
      BY <1>1, <2>2
    <3> QED
      BY <3>1
  <2> QED
    BY <2>1, <2>2
<1> QED
  BY <1>3, <1>4 DEF Has

LEMMA ChangeHas ==
    ASSUME NEW u \in Seq(Entry), NEW i \in 1 .. Len(u), NEW aoe \in Int,
           NEW v, NEW w, Reduced(u, i, v, aoe, w)
    PROVE  /\ Has(w, u[i].id, u[i].num, aoe)
           /\ \A id, n, x : ~(u[i].id = id /\ u[i].num = n) => (Has(w, id, n, x) <=> Has(u, id, n, x))
<1>1. u[i] \in Entry /\ Len(u) \in Nat
  BY ElementOfSeq, LenProperties
<1>2. PICK e \in Entry : e = [u[i] EXCEPT !.aoe = aoe]
  BY <1>1 DEF Entry
<1>3. e.id = u[i].id /\ e.num = u[i].num /\ e.aoe = aoe
  BY <1>1, <1>2 DEF Entry
<1>4. w = [u EXCEPT ![i] = e]
  BY <1>2 DEF Reduced
<1>5. Len(w) = Len(u) /\ \A j \in 1 .. Len(u) : w[j] = IF j = i THEN e ELSE u[j]
  BY <1>4, ExceptSeq
<1> QED
  BY <1>3, <1>5 DEF Has

\* What semaoe does to what is owed.
LEMMA SemaoeOwed ==
    ASSUME NEW u0, u0 = None \/ Recorded(u0), NEW avail, NEW v \in Int, NEW id \in ShortIds,
           NEW n \in Nums, NEW w, Semaoe(u0, avail, v, id, n) = [ok |-> TRUE, u |-> w]
    PROVE  /\ Owed(w, id, n) = Owed(u0, id, n) - v
           /\ \A a, b : ~(a = id /\ b = n) => Owed(w, a, b) = Owed(u0, a, b)
<1>0. w = None \/ Recorded(w)
  BY SemaoeBack
<1>1. CASE v = 0
  <2>1. Semaoe(u0, avail, v, id, n) = [ok |-> TRUE, u |-> u0]
    BY <1>1 DEF Semaoe
  <2>2. [ok |-> TRUE, u |-> u0].u = [ok |-> TRUE, u |-> w].u
    BY <2>1
  <2>3. w = u0
    BY <2>2
  <2>4. Owed(u0, id, n) \in Int
    BY OwedIs
  <2>5. Owed(u0, id, n) - v = Owed(u0, id, n)
    BY <1>1, <2>4
  <2> QED
    BY <2>3, <2>5
<1>2. CASE v # 0
  <2>1. PICK u, i : u = (IF u0 = None THEN <<>> ELSE u0) /\ Did(u, v, id, n, i, w)
    BY SMTT(60), ZenonT(60), <1>2, SemaoeDid
  <2>2. Recorded(u) /\ u \in Seq(Entry) /\ Placed(u, id, n, i)
    BY <2>1 DEF Did, Recorded
  <2>3. Same(u, u0)
    BY <2>1 DEF Same
  <2>4. \A a, b : Owed(u0, a, b) = Owed(u, a, b)
    BY <2>3, SameOwed
  <2>5. id \in Int /\ Len(u) \in Nat /\ i \in 1 .. Len(u) + 1
    BY <2>2, LenProperties, ShortInt DEF Placed
  <2>6. /\ Recorded(w) /\ Owed(w, id, n) = Owed(u, id, n) - v
        /\ \A a, b : ~(a = id /\ b = n) => Owed(w, a, b) = Owed(u, a, b)
    <3>1. CASE ~FoundAt(u, id, n, i)
      <4>0. PICK e : e = [id |-> id, num |-> n, aoe |-> -v]
        OBVIOUS
      <4>1. e \in Entry /\ e.id = id /\ e.num = n /\ e.aoe = -v
        BY <2>5, <4>0 DEF Entry
      <4>2. w = InsertAt(u, i, e)
        BY <2>1, <3>1, <4>0 DEF Did, NewAoe
      <4>3. \A x : ~Has(u, id, n, x)
        BY <2>2, <2>5, <3>1, NotFoundHasNot
      <4>4. \A a, b, x : Has(w, a, b, x) <=> Has(u, a, b, x) \/ (a = id /\ b = n /\ x = -v)
        <5>1. \A a, b, x : Has(w, a, b, x) <=> Has(u, a, b, x) \/ (e.id = a /\ e.num = b /\ e.aoe = x)
          BY <2>2, <2>5, <4>1, <4>2, InsertHas
        <5> QED
          BY <4>1, <5>1
      <4>5. Recorded(w)
        <5>1. Has(w, id, n, -v)
          BY <4>4
        <5>2. w # None
          <6>1. w \in Seq(Entry)
            BY <2>2, <2>5, <4>1, <4>2, InsertFacts
          <6> QED
            BY <6>1, NoneAssumption DEF Entry
        <5> QED
          BY <1>0, <5>2
      <4>6. Owed(w, id, n) = -v /\ Owed(u, id, n) = 0
        BY <2>2, <4>3, <4>4, <4>5, OwedHas, OwedNothing
      <4>7. -v = 0 - v
        OBVIOUS
      <4>8. ASSUME NEW a, NEW b, ~(a = id /\ b = n) PROVE Owed(w, a, b) = Owed(u, a, b)
        <5>1. \A x : Has(w, a, b, x) <=> Has(u, a, b, x)
          BY <4>4, <4>8
        <5> QED
          BY <2>2, <4>5, <5>1, OwedSame
      <4> QED
        BY <4>5, <4>6, <4>7, <4>8
    <3>2. CASE FoundAt(u, id, n, i)
      <4>1. i \in 1 .. Len(u) /\ u[i].id = id /\ u[i].num = n
        BY <2>5, <3>2 DEF FoundAt
      <4>2. PICK z \in Int : z = u[i].aoe
        <5>1. u[i] \in Entry
          BY <2>2, <4>1, ElementOfSeq
        <5> QED
          BY <5>1 DEF Entry
      <4>3. Owed(u, id, n) = z
        BY <2>2, <4>1, <4>2, OwedHas DEF Has
      <4>4. NewAoe(u, v, id, n, i) = z - v
        BY <3>2, <4>2 DEF NewAoe
      <4>5. CASE z - v = 0
        <5>1. w = RemoveAt(u, i)
          BY <2>1, <3>2, <4>4, <4>5 DEF Did
        <5>2. w \in Seq(Entry)
          BY <2>2, <4>1, <5>1, RemoveFacts
        <5>3. Recorded(w)
          BY <1>0, <5>2, NoneAssumption DEF Entry
        <5>4. \A x : ~Has(w, id, n, x)
          BY <2>2, <4>1, <5>1, RemovedHasNot
        <5>5. Owed(w, id, n) = 0
          BY <5>3, <5>4, OwedNothing
        <5>6. ASSUME NEW a, NEW b, ~(a = id /\ b = n) PROVE Owed(w, a, b) = Owed(u, a, b)
          <6>1. \A x : Has(w, a, b, x) <=> Has(u, a, b, x)
            BY <2>2, <4>1, <5>1, <5>6, RemoveHas
          <6> QED
            BY <2>2, <5>3, <6>1, OwedSame
        <5> QED
          BY <4>3, <4>5, <5>3, <5>5, <5>6
      <4>6. CASE z - v # 0
        <5>1. PICK y \in Int : y = z - v
          OBVIOUS
        <5>2. w = [u EXCEPT ![i].aoe = y]
          BY <2>1, <3>2, <4>4, <4>6, <5>1 DEF Did
        <5>3. /\ Has(w, id, n, y)
              /\ \A a, b, x : ~(a = id /\ b = n) => (Has(w, a, b, x) <=> Has(u, a, b, x))
          <6>1. /\ Has(w, u[i].id, u[i].num, y)
                /\ \A a, b, x : ~(u[i].id = a /\ u[i].num = b) => (Has(w, a, b, x) <=> Has(u, a, b, x))
            <7>1. Reduced(u, i, v, y, w)
              BY <4>2, <5>1, <5>2 DEF Reduced
            <7> QED
              BY ONLY <2>2, <4>1, <7>1, y \in Int, ChangeHas
          <6> QED
            BY <4>1, <6>1
        <5>4. Recorded(w)
          <6>1. PICK e \in Entry : e = [u[i] EXCEPT !.aoe = y]
            <7>1. u[i] \in Entry
              BY <2>2, <4>1, ElementOfSeq
            <7> QED
              BY <7>1 DEF Entry
          <6>2. w = [u EXCEPT ![i] = e]
            BY <5>2, <6>1
          <6>3. w \in Seq(Entry)
            BY <2>2, <4>1, <6>2, ExceptSeq
          <6> QED
            BY <1>0, <6>3, NoneAssumption DEF Entry
        <5>5. Owed(w, id, n) = y
          BY <5>3, <5>4, OwedHas
        <5>6. ASSUME NEW a, NEW b, ~(a = id /\ b = n) PROVE Owed(w, a, b) = Owed(u, a, b)
          BY <2>2, <5>3, <5>4, <5>6, OwedSame
        <5> QED
          BY <4>3, <5>1, <5>4, <5>5, <5>6
      <4> QED
        BY <4>5, <4>6
    <3> QED
      BY <3>1, <3>2
  <2> QED
    BY <2>4, <2>6
<1> QED
  BY <1>1, <1>2

\* What the first operations of a list that are done without SEM_UNDO add to semaphore n.
Lastings(ops, n, g) ==
    /\ g \in [0 .. Len(ops) -> Int]
    /\ g[0] = 0
    /\ \A i \in 1 .. Len(ops) : g[i] = g[i - 1] + (IF ops[i].num = n /\ ~ops[i].undo THEN ops[i].op ELSE 0)

\* There are such sums, and the last is what stays of the list after an exit.
LEMMA LastingsTotal ==
    ASSUME NEW ops \in Seq(Sembuf), NEW n
    PROVE  \E g : Lastings(ops, n, g) /\ Lasting(ops, n) = g[Len(ops)]
<1>1. PICK m \in Nat : m = Len(ops)
  OBVIOUS
<1>2. PICK e : e = [i \in 1 .. m |-> IF ops[i].num = n /\ ~ops[i].undo THEN ops[i].op ELSE 0]
  OBVIOUS
<1>3. e \in [1 .. m -> Int]
  <2>1. ASSUME NEW i \in 1 .. m PROVE ops[i].op \in Int
    <3>1. ops[i] \in Sembuf
      BY <1>1, ElementOfSeq
    <3> QED
      BY <3>1 DEF Sembuf
  <2> QED
    BY <1>2, <2>1
<1>4. PICK step : step = [i \in 1 .. m |-> [t \in Int |-> t + e[i]]]
  OBVIOUS
<1>5. step \in [1 .. m -> [Int -> Int]]
  BY <1>3, <1>4
<1>6. PICK f \in [0 .. m -> Int] : f[0] = 0 /\ \A i \in 1 .. m : f[i] = step[i][f[i - 1]]
  <2>1. 0 \in Int /\ m \in Nat
    OBVIOUS
  <2>2. Runs(Int, step, 0, m)
    BY <1>5, <2>1, LoopRuns
  <2> QED
    BY <2>2 DEF Runs
<1>7. ASSUME NEW i \in 1 .. m PROVE f[i] = f[i - 1] + e[i]
  <2>1. f[i - 1] \in Int /\ f[i] = step[i][f[i - 1]]
    BY <1>6
  <2>2. step[i] = [t \in Int |-> t + e[i]]
    BY <1>4
  <2> QED
    BY <2>1, <2>2
<1>8. f = [i \in 0 .. m |-> IF i = 0 THEN 0
                            ELSE f[i - 1] + (IF ops[i].num = n /\ ~ops[i].undo THEN ops[i].op ELSE 0)]
  <2>1. PICK h : h = [i \in 0 .. m |-> IF i = 0 THEN 0
                            ELSE f[i - 1] + (IF ops[i].num = n /\ ~ops[i].undo THEN ops[i].op ELSE 0)]
    OBVIOUS
  <2>2. ASSUME NEW i \in 0 .. m PROVE f[i] = h[i]
    <3>1. CASE i = 0
      BY <1>6, <2>1, <3>1
    <3>2. CASE i # 0
      <4>1. i \in 1 .. m /\ h[i] = f[i - 1] + (IF ops[i].num = n /\ ~ops[i].undo THEN ops[i].op ELSE 0)
        BY <2>1, <3>2
      <4> QED
        BY <1>2, <1>7, <4>1
    <3> QED
      BY <3>1, <3>2
  <2> QED
    BY <1>6, <2>1, <2>2
<1>9. PICK g : /\ g = [i \in 0 .. Len(ops) |-> IF i = 0 THEN 0
                            ELSE g[i - 1] + (IF ops[i].num = n /\ ~ops[i].undo THEN ops[i].op ELSE 0)]
               /\ Lasting(ops, n) = g[Len(ops)]
  BY <1>1, <1>8 DEF Lasting
<1>10. g[0] = 0 /\ \A i \in 1 .. m : g[i] = g[i - 1] + e[i]
  BY <1>1, <1>2, <1>9
<1>11. 0 .. m \subseteq {i \in 0 .. m : g[i] \in Int}
  <2>1. PICK holds : holds = {i \in 0 .. m : g[i] \in Int}
    OBVIOUS
  <2>2. 0 \in holds
    BY <1>10, <2>1
  <2>3. ASSUME NEW i \in 1 .. m, i - 1 \in holds PROVE i \in holds
    BY <1>3, <1>10, <2>1, <2>3
  <2> QED
    BY <2>1, <2>2, <2>3, UpTo
<1>12. g \in [0 .. m -> Int]
  <2>1. \A i \in 0 .. m : g[i] \in Int
    BY <1>11
  <2>2. g = [i \in 0 .. m |-> g[i]]
    BY <1>1, <1>9
  <2> QED
    BY <2>1, <2>2
<1>13. \A i \in 1 .. Len(ops) : g[i] = g[i - 1] + (IF ops[i].num = n /\ ~ops[i].undo THEN ops[i].op ELSE 0)
  BY <1>1, <1>2, <1>10
<1> QED
  BY <1>1, <1>9, <1>10, <1>12, <1>13 DEF Lastings

\* An operation that is done changes a value and what is owed by the same, without SEM_UNDO
\* only the value.
LEMMA DoneOwed ==
    ASSUME NEW st \in States, st.u = None \/ Recorded(st.u), NEW o \in Sembuf, NEW s,
           NEW id \in ShortIds, NEW r \in States, Done(st, o, s, id, r)
    PROVE  /\ \A n \in Nums : r.val[n] + Owed(r.u, id, n) = st.val[n] + Owed(st.u, id, n)
                                   + (IF o.num = n /\ ~o.undo THEN o.op ELSE 0)
           /\ \A a, b : a # id => Owed(r.u, a, b) = Owed(st.u, a, b)
<1>1. /\ o.num \in Nums /\ o.op \in Int /\ o.undo \in BOOLEAN
      /\ st.val \in [Nums -> Int] /\ r.val = [st.val EXCEPT ![o.num] = st.val[o.num] + o.op]
  BY DEF Sembuf, States, Done
<1>2. CASE o.undo
  <2>1. Semaoe(st.u, Avail, o.op, id, o.num) = [ok |-> TRUE, u |-> r.u]
    BY <1>2 DEF Done
  <2>2. /\ Owed(r.u, id, o.num) = Owed(st.u, id, o.num) - o.op
        /\ \A a, b : ~(a = id /\ b = o.num) => Owed(r.u, a, b) = Owed(st.u, a, b)
    BY <1>1, <2>1, SemaoeOwed
  <2>3. ASSUME NEW n \in Nums
        PROVE  r.val[n] + Owed(r.u, id, n) = st.val[n] + Owed(st.u, id, n) + 0
    <3>1. PICK x \in Int, y \in Int, v \in Int :
              x = st.val[n] /\ y = Owed(st.u, id, n) /\ v = o.op
      BY <1>1, OwedIs
    <3>2. CASE n = o.num
      <4>1. r.val[n] = x + v /\ Owed(r.u, id, n) = y - v
        BY <1>1, <2>2, <3>1, <3>2
      <4>2. (x + v) + (y - v) = x + y + 0
        OBVIOUS
      <4> QED
        BY ONLY <3>1, <4>1, <4>2
    <3>3. CASE n # o.num
      <4>1. r.val[n] = x /\ Owed(r.u, id, n) = y
        BY <1>1, <2>2, <3>1, <3>3
      <4>2. x + y = x + y + 0
        OBVIOUS
      <4> QED
        BY ONLY <3>1, <4>1, <4>2
    <3> QED
      BY <3>2, <3>3
  <2> QED
    BY <1>2, <2>2, <2>3
<1>3. CASE ~o.undo
  <2>1. r.u = st.u
    BY <1>3 DEF Done
  <2>2. ASSUME NEW n \in Nums
        PROVE  r.val[n] + Owed(r.u, id, n) = st.val[n] + Owed(st.u, id, n)
                                               + (IF o.num = n THEN o.op ELSE 0)
    <3>1. PICK x \in Int, y \in Int, v \in Int :
              x = st.val[n] /\ y = Owed(st.u, id, n) /\ v = o.op
      BY <1>1, OwedIs
    <3>2. r.val[n] = x + (IF o.num = n THEN v ELSE 0)
      BY <1>1, <3>1
    <3>3. (x + (IF o.num = n THEN v ELSE 0)) + y = x + y + (IF o.num = n THEN v ELSE 0)
      OBVIOUS
    <3> QED
      BY ONLY <2>1, <3>1, <3>2, <3>3
  <2> QED
    BY <1>3, <2>1, <2>2
<1> QED
  BY <1>1, <1>2, <1>3

\* A pass that does all of its operations keeps the values and what is owed together, but
\* for what is done without SEM_UNDO.
LEMMA PassOwed ==
    ASSUME NEW ops \in Seq(Sembuf), NEW p \in Procs, NEW s \in Slots, NEW id \in ShortIds,
           semval[s] \in [Nums -> Int], undo[p] \in Undos, undo[p] = None \/ Recorded(undo[p]),
           NEW r, r = Pass(p, ops, s, id)
    PROVE  /\ \A n \in Nums : r.val[n] + Owed(r.u, id, n) = semval[s][n] + Owed(undo[p], id, n)
                                   + (IF r.res = "ok" THEN Lasting(ops, n) ELSE 0)
           /\ \A a, b : a # id => Owed(r.u, a, b) = Owed(undo[p], a, b)
<1>0. id \in Int
  BY ShortInt
<1>1. PICK f, st : Trace(f, st, ops, p, s, id, r)
  BY PassTrace
<1>2. CASE r.res # "ok"
  <2>1. r.val = semval[s]
    BY <1>0, <1>2, PassDoes DEF PassFacts
  <2>2. Same(r.u, undo[p])
    BY <1>2, PassUndo
  <2>3. \A a, b : Owed(r.u, a, b) = Owed(undo[p], a, b)
    BY <2>2, SameOwed
  <2>4. ASSUME NEW n \in Nums
        PROVE  r.val[n] + Owed(r.u, id, n) = semval[s][n] + Owed(undo[p], id, n) + 0
    <3>1. semval[s][n] + Owed(undo[p], id, n) \in Int
      BY OwedIs
    <3> QED
      BY <2>1, <2>3, <3>1
  <2> QED
    BY <1>2, <2>3, <2>4
<1>3. CASE r.res = "ok"
  <2>1. r = st /\ st.n = Len(ops) /\ r = f[Len(ops)]
    BY <1>1, <1>3 DEF Trace
  <2>2. PICK m \in Nat : m = Len(ops)
    BY LenProperties
  <2>3. ASSUME NEW j \in 1 .. m
        PROVE  /\ f[j - 1] \in States /\ (f[j - 1].u = None \/ Recorded(f[j - 1].u))
               /\ ops[j] \in Sembuf /\ f[j] \in States /\ Done(f[j - 1], ops[j], s, id, f[j])
    <3>1. j - 1 \in 0 .. m /\ j \in 0 .. m
      OBVIOUS
    <3>2. ops[j] \in Sembuf
      BY <2>2, ElementOfSeq
    <3> QED
      BY <1>1, <2>1, <2>2, <3>1, <3>2 DEF Trace
  <2>4. ASSUME NEW n \in Nums
        PROVE  r.val[n] + Owed(r.u, id, n) = semval[s][n] + Owed(undo[p], id, n) + Lasting(ops, n)
    <3>1. PICK g : Lastings(ops, n, g) /\ Lasting(ops, n) = g[Len(ops)]
      BY LastingsTotal
    <3>2. PICK b \in Int : b = semval[s][n] + Owed(undo[p], id, n)
      BY OwedIs
    <3>3. PICK holds : holds = {j \in 0 .. m : f[j].val[n] + Owed(f[j].u, id, n) = b + g[j]}
      OBVIOUS
    <3>4. 0 \in holds
      <4>1. f[0].val[n] + Owed(f[0].u, id, n) = b
        BY <1>1, <3>2 DEF Trace
      <4>2. g[0] = 0
        BY <3>1 DEF Lastings
      <4> QED
        BY <3>2, <3>3, <4>1, <4>2
    <3>5. ASSUME NEW j \in 1 .. m, j - 1 \in holds PROVE j \in holds
      <4>1. PICK z \in Int : z = IF ops[j].num = n /\ ~ops[j].undo THEN ops[j].op ELSE 0
        BY <2>3 DEF Sembuf
      <4>2. f[j].val[n] + Owed(f[j].u, id, n) = f[j - 1].val[n] + Owed(f[j - 1].u, id, n) + z
        BY <2>3, <4>1, DoneOwed
      <4>3. PICK y \in Int : y = g[j - 1] /\ g[j] = y + z
        <5>1. j - 1 \in 0 .. m
          OBVIOUS
        <5> QED
          BY <2>2, <3>1, <4>1, <5>1 DEF Lastings
      <4>4. f[j - 1].val[n] + Owed(f[j - 1].u, id, n) = b + y
        BY <3>3, <3>5, <4>3
      <4>5. (b + y) + z = b + (y + z)
        OBVIOUS
      <4>6. f[j].val[n] + Owed(f[j].u, id, n) = b + g[j]
        BY ONLY <4>2, <4>3, <4>4, <4>5
      <4> QED
        BY <3>3, <4>6
    <3>6. m \in holds
      <4>1. 0 .. m \subseteq holds
        BY <3>4, <3>5, UpTo
      <4> QED
        BY <4>1
    <3> QED
      BY <2>1, <2>2, <3>1, <3>2, <3>3, <3>6
  <2>5. ASSUME NEW a, NEW b, a # id PROVE Owed(r.u, a, b) = Owed(undo[p], a, b)
    <3>1. PICK holds : holds = {j \in 0 .. m : Owed(f[j].u, a, b) = Owed(undo[p], a, b)}
      OBVIOUS
    <3>2. 0 \in holds
      BY <1>1, <3>1 DEF Trace
    <3>3. ASSUME NEW j \in 1 .. m, j - 1 \in holds PROVE j \in holds
      <4>1. Owed(f[j].u, a, b) = Owed(f[j - 1].u, a, b)
        <5>1. \A c, d : c # id => Owed(f[j].u, c, d) = Owed(f[j - 1].u, c, d)
          BY <2>3, DoneOwed
        <5> QED
          BY <2>5, <5>1
      <4> QED
        BY <3>1, <3>3, <4>1
    <3>4. m \in holds
      <4>1. 0 .. m \subseteq holds
        BY <3>2, <3>3, UpTo
      <4> QED
        BY <4>1
    <3> QED
      BY <2>1, <2>2, <3>1, <3>4
  <2> QED
    BY <1>3, <2>4, <2>5
<1> QED
  BY <1>2, <1>3

-----------------------------------------------------------------------------
(* What semunrm leaves is what is owed for other semaphores *)

\* One entry more at the end of a list.
LEMMA AppendHas ==
    ASSUME NEW t \in Seq(Entry), NEW e \in Entry, NEW id, NEW n, NEW x
    PROVE  Has(Append(t, e), id, n, x) <=> Has(t, id, n, x) \/ (e.id = id /\ e.num = n /\ e.aoe = x)
<1>1. PICK w : w = Append(t, e)
  OBVIOUS
<1>2. /\ Len(w) = Len(t) + 1 /\ Len(t) \in Nat
      /\ \A j \in 1 .. Len(t) : w[j] = t[j]
      /\ w[Len(t) + 1] = e
  BY <1>1, AppendProperties, LenProperties
<1>3. Has(w, id, n, x) => Has(t, id, n, x) \/ (e.id = id /\ e.num = n /\ e.aoe = x)
  <2>1. \A j \in 1 .. Len(w) : j \in 1 .. Len(t) \/ j = Len(t) + 1
    BY <1>2
  <2> QED
    BY <1>2, <2>1 DEF Has
<1>4. Has(t, id, n, x) => Has(w, id, n, x)
  <2>1. \A j \in 1 .. Len(t) : j \in 1 .. Len(w)
    BY <1>2
  <2> QED
    BY <1>2, <2>1 DEF Has
<1>5. e.id = id /\ e.num = n /\ e.aoe = x => Has(w, id, n, x)
  <2>1. Len(t) + 1 \in 1 .. Len(w)
    BY <1>2
  <2> QED
    BY <1>2, <2>1 DEF Has
<1> QED
  BY <1>1, <1>3, <1>4, <1>5

\* The semaphores low .. high of set id.
Within(a, b, id, low, high) == a = id /\ b \in low .. high

\* There is an entry of x for semaphore b of set a among the first i of u.
Among(u, i, a, b, x) == \E j \in 1 .. i : u[j].id = a /\ u[j].num = b /\ u[j].aoe = x

\* It is the last of them or one of the others.
LEMMA AmongLast ==
    ASSUME NEW u, NEW i \in Nat \ {0}, NEW a, NEW b, NEW x
    PROVE  Among(u, i, a, b, x) <=>
             Among(u, i - 1, a, b, x) \/ (u[i].id = a /\ u[i].num = b /\ u[i].aoe = x)
<1>1. \A j \in 1 .. i : j \in 1 .. i - 1 \/ j = i
  OBVIOUS
<1>2. \A j \in 1 .. i - 1 : j \in 1 .. i
  OBVIOUS
<1>3. i \in 1 .. i
  OBVIOUS
<1>4. ASSUME Among(u, i, a, b, x)
      PROVE  Among(u, i - 1, a, b, x) \/ (u[i].id = a /\ u[i].num = b /\ u[i].aoe = x)
  BY <1>1, <1>4 DEF Among
<1>5. ASSUME Among(u, i - 1, a, b, x) \/ (u[i].id = a /\ u[i].num = b /\ u[i].aoe = x)
      PROVE  Among(u, i, a, b, x)
  BY <1>2, <1>3, <1>5 DEF Among
<1> QED
  BY <1>4, <1>5

\* r has those of the first i entries of u that are not of them.
LeftOf(r, u, i, id, low, high) ==
    /\ r \in Seq(Entry)
    /\ \A a, b, x : Has(r, a, b, x) <=> Among(u, i, a, b, x) /\ ~Within(a, b, id, low, high)

\* semunrm leaves all the others.
LEMMA OthersLeft ==
    ASSUME NEW u \in Seq(Entry), NEW id, NEW low, NEW high
    PROVE  LeftOf(Others(u, id, low, high), u, Len(u), id, low, high)
<1>1. PICK n \in Nat : n = Len(u)
  BY LenProperties
<1>2. PICK g : OthersSteps(g, u, id, low, high) /\ Others(u, id, low, high) = g[Len(u)]
  BY OthersRuns
<1>3. PICK left : left = {i \in 0 .. n : LeftOf(g[i], u, i, id, low, high)}
  OBVIOUS
<1>4. 0 \in left
  <2>1. PICK e \in Seq(Entry) : e = <<>> /\ Len(e) = 0
    BY EmptySeq
  <2>2. g[0] = e
    BY <1>2, <2>1 DEF OthersSteps
  <2>3. \A a, b, x : ~Has(e, a, b, x)
    BY <2>1 DEF Has
  <2>4. LeftOf(e, u, 0, id, low, high)
    BY <2>1, <2>3 DEF LeftOf, Among
  <2> QED
    BY <1>3, <2>2, <2>4
<1>5. ASSUME NEW i \in 1 .. n, i - 1 \in left PROVE i \in left
  <2>1. PICK t : t = g[i - 1] /\ LeftOf(t, u, i - 1, id, low, high)
    BY <1>3, <1>5
  <2>2. PICK e \in Entry : e = u[i]
    BY <1>1, ElementOfSeq
  <2>3. g[i] = IF Within(e.id, e.num, id, low, high) THEN t ELSE Append(t, e)
    BY <1>1, <1>2, <2>1, <2>2 DEF OthersSteps, Within
  <2>4. ASSUME NEW a, NEW b, NEW x
        PROVE  Among(u, i, a, b, x) <=>
                 Among(u, i - 1, a, b, x) \/ (e.id = a /\ e.num = b /\ e.aoe = x)
    <3>1. i \in Nat \ {0}
      OBVIOUS
    <3> QED
      BY <2>2, <3>1, AmongLast
  <2>5. LeftOf(g[i], u, i, id, low, high)
    <3>1. CASE Within(e.id, e.num, id, low, high)
      <4>1. g[i] = t
        BY <2>3, <3>1
      <4>2. t \in Seq(Entry)
        BY <2>1 DEF LeftOf
      <4>3. ASSUME NEW a, NEW b, NEW x
            PROVE  Has(t, a, b, x) <=> Among(u, i, a, b, x) /\ ~Within(a, b, id, low, high)
        <5>1. Has(t, a, b, x) <=> Among(u, i - 1, a, b, x) /\ ~Within(a, b, id, low, high)
          BY <2>1 DEF LeftOf
        <5>2. e.id = a /\ e.num = b => Within(a, b, id, low, high)
          BY <3>1
        <5>3. Among(u, i, a, b, x) <=>
                Among(u, i - 1, a, b, x) \/ (e.id = a /\ e.num = b /\ e.aoe = x)
          BY <2>4
        <5> QED
          BY <5>1, <5>2, <5>3, Zenon
      <4> QED
        BY <4>1, <4>2, <4>3 DEF LeftOf
    <3>2. CASE ~Within(e.id, e.num, id, low, high)
      <4>1. PICK w : w = Append(t, e) /\ g[i] = w
        BY <2>3, <3>2
      <4>2. w \in Seq(Entry)
        BY <2>1, <4>1, AppendProperties DEF LeftOf
      <4>3. ASSUME NEW a, NEW b, NEW x
            PROVE  Has(w, a, b, x) <=> Among(u, i, a, b, x) /\ ~Within(a, b, id, low, high)
        <5>1. Has(t, a, b, x) <=> Among(u, i - 1, a, b, x) /\ ~Within(a, b, id, low, high)
          BY <2>1 DEF LeftOf
        <5>2. e.id = a /\ e.num = b => ~Within(a, b, id, low, high)
          BY <3>2
        <5>3. Has(w, a, b, x) <=> Has(t, a, b, x) \/ (e.id = a /\ e.num = b /\ e.aoe = x)
          BY <2>1, <4>1, AppendHas DEF LeftOf
        <5>4. Among(u, i, a, b, x) <=>
                Among(u, i - 1, a, b, x) \/ (e.id = a /\ e.num = b /\ e.aoe = x)
          BY <2>4
        <5> QED
          BY <5>1, <5>2, <5>3, <5>4, Zenon
      <4> QED
        BY <4>1, <4>2, <4>3 DEF LeftOf
    <3> QED
      BY <3>1, <3>2
  <2> QED
    BY <1>3, <2>5
<1>6. n \in left
  <2>1. 0 .. n \subseteq left
    BY <1>4, <1>5, UpTo
  <2> QED
    BY <2>1
<1> QED
  BY <1>1, <1>2, <1>3, <1>6

\* So nothing is owed any more for the semaphores that are named, and the same for others.
LEMMA SemunrmOwed ==
    ASSUME Undoable, NEW id, NEW low, NEW high, undo' = Semunrm(id, low, high), NEW q \in Procs,
           NEW a, NEW b
    PROVE  Owed(undo'[q], a, b) = IF Within(a, b, id, low, high) THEN 0 ELSE Owed(undo[q], a, b)
<1>1. CASE undo[q] = None
  <2>1. undo'[q] = None
    BY <1>1 DEF Semunrm
  <2> QED
    BY <1>1, <2>1 DEF Owed
<1>2. CASE undo[q] # None
  <2>1. PICK u : u = undo[q] /\ Recorded(u) /\ u \in Seq(Entry)
    BY <1>2 DEF Undoable, Recorded
  <2>2. PICK r : r = Others(u, id, low, high) /\ undo'[q] = r
    BY <1>2, <2>1 DEF Semunrm
  <2>3. Recorded(r)
    BY <2>1, <2>2, OthersFacts, PartRecorded
  <2>4. ASSUME NEW x
        PROVE  Has(r, a, b, x) <=> Has(u, a, b, x) /\ ~Within(a, b, id, low, high)
    <3>1. LeftOf(r, u, Len(u), id, low, high)
      BY <2>1, <2>2, OthersLeft
    <3>2. Has(r, a, b, x) <=> Among(u, Len(u), a, b, x) /\ ~Within(a, b, id, low, high)
      BY <3>1 DEF LeftOf
    <3> QED
      BY <3>2 DEF Has, Among
  <2>5. CASE Within(a, b, id, low, high)
    BY <2>2, <2>3, <2>4, <2>5, OwedNothing
  <2>6. CASE ~Within(a, b, id, low, high)
    BY <2>1, <2>2, <2>3, <2>4, <2>6, OwedSame
  <2> QED
    BY <2>5, <2>6
<1> QED
  BY <1>1, <1>2

-----------------------------------------------------------------------------
(* Identifiers and debts *)

\* Quotient and remainder are the only ones.
LEMMA Divided ==
    ASSUME NEW m \in Nat \ {0}, NEW k \in Int, NEW r \in 0 .. m - 1, NEW x \in Int, x = k * m + r
    PROVE  x \div m = k /\ x % m = r
<1>1. PICK a \in Int, b \in Int : a = x \div m /\ b = x % m
  OBVIOUS
<1>2. x = a * m + b /\ b \in 0 .. m - 1
  BY <1>1
<1>3. (a - k) * m = r - b /\ r - b < m /\ r - b > -m
  BY <1>2
<1>4. PICK d \in Int : d = a - k /\ d * m = r - b
  BY <1>3
<1>5. ~(d >= 1)
  BY <1>2, <1>3, <1>4
<1>6. ~(d <= -1)
  BY <1>2, <1>3, <1>4
<1>7. d = 0
  BY <1>5, <1>6
<1>8. a = k
  BY <1>4, <1>7
<1>9. b = r
  BY <1>2, <1>8
<1> QED
  BY <1>1, <1>8, <1>9

\* The identifier of a slot leads to it, and to no other.
LEMMA SlotOfId ==
    ASSUME seq \in [Slots -> Nat], NEW s \in Slots
    PROVE  /\ IdOf(s) \in Nat /\ Slot(IdOf(s)) = s /\ IdOf(s) \div SEMMNI = seq[s]
           /\ Semconv(IdOf(s)) <=> alloc[s]
<1>1. SEMMNI \in Nat \ {0} /\ seq[s] \in Nat /\ s \in 0 .. SEMMNI - 1
  BY SizesAssumption DEF Slots
<1>2. PICK m \in Nat \ {0}, k \in Nat : m = SEMMNI /\ k = seq[s] /\ s \in 0 .. m - 1
  BY <1>1
<1>3. PICK id \in Int : id = k * m + s
  BY <1>2
<1>4. id \div m = k /\ id % m = s
  <2>1. PICK r \in 0 .. m - 1 : r = s
    BY <1>2
  <2>2. k \in Int /\ id = k * m + r
    BY <1>3, <2>1
  <2>3. id \div m = k /\ id % m = r
    BY ONLY <2>2, Divided, m \in Nat \ {0}, k \in Int, r \in 0 .. m - 1, id \in Int
  <2> QED
    BY <2>1, <2>3
<1>5. id \in Nat
  <2>1. k * m \in Nat
    BY <1>2
  <2> QED
    BY <1>2, <1>3, <2>1
<1>6. IdOf(s) = id
  BY <1>2, <1>3 DEF IdOf
<1>7. IdOf(s) \in Nat /\ Slot(IdOf(s)) = s /\ IdOf(s) \div SEMMNI = seq[s]
  BY <1>2, <1>4, <1>5, <1>6 DEF Slot
<1> QED
  BY <1>7 DEF Semconv

\* An identifier that names a set is that of its slot.
LEMMA IdOfSlot ==
    ASSUME seq \in [Slots -> Nat], NEW id \in Int, Semconv(id)
    PROVE  Slot(id) \in Slots /\ alloc[Slot(id)] /\ IdOf(Slot(id)) = id
<1>1. PICK m \in Nat \ {0} : m = SEMMNI
  BY SizesAssumption
<1>2. PICK q \in Int, r \in Int : q = id \div m /\ r = id % m
  BY <1>1
<1>3. id = q * m + r
  BY <1>1, <1>2
<1>4. r = Slot(id) /\ seq[r] = q /\ alloc[r]
  BY <1>1, <1>2 DEF Slot, Semconv
<1> QED
  BY <1>1, <1>3, <1>4, SlotOfInt DEF IdOf

\* What all processes with the undo structures un owe to semaphore n of set id.
Debt(un, id, n) == SumFunction([q \in Procs |-> Owed(un[q], id, n)])

\* The undo structures are proper.
Proper(un) == \A q \in Procs : un[q] = None \/ Recorded(un[q])

\* A debt is a number, which changes with what one process owes.
LEMMA DebtChanges ==
    ASSUME NEW un, Proper(un), NEW vn, Proper(vn), NEW id, NEW n, NEW p \in Procs,
           \A q \in Procs \ {p} : Owed(vn[q], id, n) = Owed(un[q], id, n)
    PROVE  /\ Debt(un, id, n) \in Int
           /\ Debt(vn, id, n) = Debt(un, id, n) - Owed(un[p], id, n) + Owed(vn[p], id, n)
<1>1. PICK f, g : /\ f = [q \in Procs |-> Owed(un[q], id, n)]
                  /\ g = [q \in Procs |-> Owed(vn[q], id, n)]
  OBVIOUS
<1>2. \A q \in Procs : f[q] \in Int /\ g[q] \in Int
  BY <1>1, OwedIs DEF Proper
<1>3. \A q \in Procs \ {p} : g[q] = f[q]
  BY <1>1
<1>4. /\ SumFunctionOnSet(f, Procs) \in Int
      /\ SumFunctionOnSet(g, Procs) = SumFunctionOnSet(f, Procs) - f[p] + g[p]
  BY <1>2, <1>3, ProcsAssumption, SumChanges
<1>5. Debt(un, id, n) = SumFunctionOnSet(f, Procs) /\ Debt(vn, id, n) = SumFunctionOnSet(g, Procs)
  BY <1>1 DEF Debt, SumFunction
<1> QED
  BY <1>1, <1>4, <1>5

\* It stays when everybody owes what he did.
LEMMA DebtStays ==
    ASSUME NEW un, NEW vn, NEW id, NEW n,
           \A q \in Procs : Owed(vn[q], id, n) = Owed(un[q], id, n)
    PROVE  Debt(vn, id, n) = Debt(un, id, n)
<1>1. [q \in Procs |-> Owed(vn[q], id, n)] = [q \in Procs |-> Owed(un[q], id, n)]
  OBVIOUS
<1> QED
  BY <1>1 DEF Debt

\* It is zero when nobody owes anything.
LEMMA DebtGone ==
    ASSUME NEW un, NEW id, NEW n, \A q \in Procs : Owed(un[q], id, n) = 0
    PROVE  Debt(un, id, n) = 0
<1>1. PICK f : f = [q \in Procs |-> Owed(un[q], id, n)]
  OBVIOUS
<1>2. SumFunctionOnSet(f, Procs) = 0
  BY <1>1, ProcsAssumption, SumOfZeros
<1> QED
  BY <1>1, <1>2 DEF Debt, SumFunction

-----------------------------------------------------------------------------
(* The balance is kept *)

\* The invariant on the semaphores and what is owed to them: undo entries are there only for
\* sets that are, an entry of the table that is free has zero values, and the values of the
\* others with what is owed to them are the base.
Debts ==
    /\ alloc \in [Slots -> BOOLEAN]
    /\ base \in [Slots -> [Nums -> Int]]
    /\ \A q \in Procs, a \in Int, n \in Nums : Owed(undo[q], a, n) # 0 => Semconv(a)
    /\ \A s \in Slots, n \in Nums :
           IF alloc[s] THEN semval[s][n] + Debt(undo, IdOf(s), n) = base[s][n]
                       ELSE semval[s][n] = 0

Balanced == Settled /\ Undoable /\ Debts

\* What is known of the variables.
LEMMA BalancedTypes ==
    ASSUME Balanced
    PROVE  /\ seq \in [Slots -> Nat] /\ alloc \in [Slots -> BOOLEAN]
           /\ semval \in [Slots -> [Nums -> Nat]] /\ base \in [Slots -> [Nums -> Int]]
           /\ undo \in [Procs -> Undos] /\ Proper(undo)
<1>1. FirstSeq \in Nat /\ MaxRmid \in Nat
  BY SizesAssumption
<1>2. seq \in [Slots -> FirstSeq .. FirstSeq + MaxRmid]
  BY DEF Balanced, Undoable
<1>3. seq \in [Slots -> Nat]
  BY <1>1, <1>2
<1> QED
  BY <1>3 DEF Balanced, Debts, Undoable, Valued, Proper

\* A debt is a number.
LEMMA DebtIs ==
    ASSUME NEW un, Proper(un), NEW id, NEW n, NEW p \in Procs
    PROVE  Debt(un, id, n) \in Int
BY DebtChanges

\* Two sets have different identifiers.
LEMMA IdsDiffer ==
    ASSUME seq \in [Slots -> Nat], NEW s \in Slots, NEW t \in Slots, IdOf(s) = IdOf(t)
    PROVE  s = t
BY SlotOfId

\* A step that touches none of this.
LEMMA DebtsFrame ==
    ASSUME Balanced, UNCHANGED <<tables, semval, undo, base>>
    PROVE  Debts'
BY DEF Balanced, Debts, tables, Semconv, Slot, IdOf

\* A new set is owed nothing: nobody had its identifier before.
LEMMA DebtsGet ==
    ASSUME Balanced, NEW p \in Procs, Semget(p)
    PROVE  Debts'
<1>1. PICK s \in Slots : /\ ~alloc[s]
                         /\ alloc' = [alloc EXCEPT ![s] = TRUE]
                         /\ base' = [base EXCEPT ![s] = [n \in Nums |-> 0]]
  BY DEF Semget
<1>2. UNCHANGED <<seq, semval, undo>>
  BY <1>1 DEF Semget
<1>3. /\ seq \in [Slots -> Nat] /\ alloc \in [Slots -> BOOLEAN]
      /\ base \in [Slots -> [Nums -> Int]]
  BY BalancedTypes
<1>4. \A t \in Slots : IdOf(t)' = IdOf(t)
  BY <1>2 DEF IdOf
<1>5. ASSUME NEW n \in Nums PROVE Debt(undo, IdOf(s), n) = 0
  <2>1. IdOf(s) \in Int /\ ~Semconv(IdOf(s))
    BY <1>1, <1>3, SlotOfId
  <2>2. \A q \in Procs : Owed(undo[q], IdOf(s), n) = 0
    BY <2>1 DEF Balanced, Debts
  <2> QED
    BY <2>2, DebtGone
<1>6. alloc' \in [Slots -> BOOLEAN] /\ base' \in [Slots -> [Nums -> Int]]
  BY <1>1, <1>3
<1>7. ASSUME NEW q \in Procs, NEW a \in Int, NEW n \in Nums, Owed(undo'[q], a, n) # 0
      PROVE  Semconv(a)'
  <2>1. Semconv(a)
    BY <1>2, <1>7 DEF Balanced, Debts
  <2>2. alloc'[Slot(a)]
    BY <1>1, <1>3, <2>1, SlotOfInt DEF Semconv
  <2> QED
    BY <1>2, <2>1, <2>2 DEF Semconv, Slot
<1>8. ASSUME NEW t \in Slots, NEW n \in Nums
      PROVE  IF alloc'[t] THEN semval'[t][n] + Debt(undo', IdOf(t)', n) = base'[t][n]
                          ELSE semval'[t][n] = 0
  <2>1. CASE t = s
    <3>1. semval[s][n] = 0 /\ alloc'[s] /\ base'[s][n] = 0
      BY <1>1, <1>3 DEF Balanced, Debts
    <3> QED
      BY <1>2, <1>4, <1>5, <2>1, <3>1
  <2>2. CASE t # s
    <3>1. alloc'[t] = alloc[t] /\ base'[t] = base[t]
      BY <1>1, <1>3, <2>2
    <3>2. semval'[t][n] = semval[t][n] /\ Debt(undo', IdOf(t)', n) = Debt(undo, IdOf(t), n)
      BY <1>2, <1>4
    <3> QED
      BY <3>1, <3>2 DEF Balanced, Debts
  <2> QED
    BY <2>1, <2>2
<1> QED
  BY <1>6, <1>7, <1>8 DEF Debts

\* What semunrm does to what is owed to the sets there are.
LEMMA SemunrmDebts ==
    ASSUME Balanced, NEW id \in Int, NEW low, NEW high, undo' = Semunrm(id, low, high),
           NEW n
    PROVE  /\ \A a : ~Within(a, n, id, low, high) => Debt(undo', a, n) = Debt(undo, a, n)
           /\ \A a : Within(a, n, id, low, high) => Debt(undo', a, n) = 0
           /\ \A q \in Procs : \A a : Owed(undo'[q], a, n) # 0 =>
                  Owed(undo[q], a, n) # 0 /\ ~Within(a, n, id, low, high)
<1>1. \A q \in Procs : \A a : Owed(undo'[q], a, n) = IF Within(a, n, id, low, high) THEN 0
                                                ELSE Owed(undo[q], a, n)
  BY SemunrmOwed DEF Balanced
<1>2. ASSUME NEW a, ~Within(a, n, id, low, high) PROVE Debt(undo', a, n) = Debt(undo, a, n)
  <2>1. \A q \in Procs : Owed(undo'[q], a, n) = Owed(undo[q], a, n)
    BY <1>1, <1>2
  <2> QED
    BY <2>1, DebtStays
<1>3. ASSUME NEW a, Within(a, n, id, low, high) PROVE Debt(undo', a, n) = 0
  <2>1. \A q \in Procs : Owed(undo'[q], a, n) = 0
    BY <1>1, <1>3
  <2> QED
    BY <2>1, DebtGone
<1> QED
  BY <1>1, <1>2, <1>3

\* IPC_RMID: the entries of the set go with it.
LEMMA DebtsRmid ==
    ASSUME Balanced, NEW p \in Procs, NEW id \in Int, Rmid(p, id)
    PROVE  Debts'
<1>1. /\ seq \in [Slots -> Nat] /\ alloc \in [Slots -> BOOLEAN]
      /\ semval \in [Slots -> [Nums -> Nat]] /\ base \in [Slots -> [Nums -> Int]]
  BY BalancedTypes
<1>2. PICK s \in Slots : s = Slot(id) /\ alloc[s] /\ IdOf(s) = id
  BY <1>1, IdOfSlot DEF Rmid
<1>3. /\ undo' = Semunrm(id, 0, NSems)
      /\ semval' = [semval EXCEPT ![s] = [n \in Nums |-> 0]]
      /\ alloc' = [alloc EXCEPT ![s] = FALSE]
      /\ base' = [base EXCEPT ![s] = [n \in Nums |-> 0]]
  BY <1>2 DEF Rmid
<1>4. \A t \in Slots \ {s} : seq'[t] = seq[t] /\ alloc'[t] = alloc[t]
  BY <1>1, <1>2 DEF Rmid
<1>5. \A n \in Nums : n \in 0 .. NSems
  BY SizesAssumption DEF Nums
<1>6. alloc' \in [Slots -> BOOLEAN] /\ base' \in [Slots -> [Nums -> Int]]
  BY <1>1, <1>3
<1>7. ASSUME NEW q \in Procs, NEW a \in Int, NEW n \in Nums, Owed(undo'[q], a, n) # 0
      PROVE  Semconv(a)'
  <2>1. Owed(undo[q], a, n) # 0 /\ ~Within(a, n, id, 0, NSems)
    BY <1>3, <1>7, SemunrmDebts
  <2>2. Semconv(a) /\ a # id
    BY <1>5, <2>1 DEF Balanced, Debts, Within
  <2>3. Slot(a) \in Slots /\ IdOf(Slot(a)) = a
    BY <1>1, <2>2, IdOfSlot
  <2>4. Slot(a) \in Slots \ {s}
    BY <1>2, <2>2, <2>3
  <2>5. seq'[Slot(a)] = seq[Slot(a)] /\ alloc'[Slot(a)] = alloc[Slot(a)]
    BY <1>4, <2>4
  <2> QED
    BY <2>2, <2>5 DEF Semconv, Slot
<1>8. ASSUME NEW t \in Slots, NEW n \in Nums
      PROVE  IF alloc'[t] THEN semval'[t][n] + Debt(undo', IdOf(t)', n) = base'[t][n]
                          ELSE semval'[t][n] = 0
  <2>1. CASE t = s
    BY <1>1, <1>3, <2>1
  <2>2. CASE t # s
    <3>1. alloc'[t] = alloc[t] /\ base'[t] = base[t] /\ semval'[t] = semval[t]
      BY <1>1, <1>3, <2>2
    <3>2. IdOf(t)' = IdOf(t)
      BY <1>4, <2>2 DEF IdOf
    <3>3. IdOf(t) # id
      BY <1>1, <1>2, <2>2, IdsDiffer
    <3>4. Debt(undo', IdOf(t), n) = Debt(undo, IdOf(t), n)
      BY <1>3, <3>3, SemunrmDebts DEF Within
    <3> QED
      BY <3>1, <3>2, <3>4 DEF Balanced, Debts
  <2> QED
    BY <2>1, <2>2
<1> QED
  BY <1>6, <1>7, <1>8 DEF Debts

\* SETVAL and SETALL: semaphores get new values, and nothing is owed to them any more.
LEMMA DebtsSet ==
    ASSUME Balanced, NEW id \in Int, Semconv(id), NEW low, NEW high,
           NEW vals \in [Nums -> Nat],
           undo' = Semunrm(id, low, high), UNCHANGED tables,
           \A n \in Nums : n \notin low .. high => vals[n] = semval[Slot(id)][n],
           semval' = [semval EXCEPT ![Slot(id)] = vals],
           base' = [base EXCEPT ![Slot(id)] =
                       [n \in Nums |-> IF n \in low .. high THEN vals[n] ELSE base[Slot(id)][n]]]
    PROVE  Debts'
<1>1. /\ seq \in [Slots -> Nat] /\ alloc \in [Slots -> BOOLEAN]
      /\ semval \in [Slots -> [Nums -> Nat]] /\ base \in [Slots -> [Nums -> Int]]
  BY BalancedTypes
<1>2. PICK s \in Slots : s = Slot(id) /\ alloc[s] /\ IdOf(s) = id
  BY <1>1, IdOfSlot
<1>3. UNCHANGED <<alloc, seq>>
  BY DEF tables
<1>4. PICK bs : bs = [n \in Nums |-> IF n \in low .. high THEN vals[n] ELSE base[s][n]]
  OBVIOUS
<1>5. bs \in [Nums -> Int] /\ base' = [base EXCEPT ![s] = bs]
  BY <1>1, <1>2, <1>4
<1>6. alloc' \in [Slots -> BOOLEAN] /\ base' \in [Slots -> [Nums -> Int]]
  BY <1>1, <1>3, <1>5
<1>7. ASSUME NEW q \in Procs, NEW a \in Int, NEW n \in Nums, Owed(undo'[q], a, n) # 0
      PROVE  Semconv(a)'
  <2>1. Owed(undo[q], a, n) # 0
    BY <1>7, SemunrmDebts
  <2>2. Semconv(a)
    BY <2>1 DEF Balanced, Debts
  <2> QED
    BY <1>3, <2>2 DEF Semconv, Slot
<1>8. ASSUME NEW t \in Slots, NEW n \in Nums
      PROVE  IF alloc'[t] THEN semval'[t][n] + Debt(undo', IdOf(t)', n) = base'[t][n]
                          ELSE semval'[t][n] = 0
  <2>0. IdOf(t)' = IdOf(t) /\ alloc'[t] = alloc[t]
    BY <1>3 DEF IdOf
  <2>1. CASE t = s /\ n \in low .. high
    <3>1. Debt(undo', id, n) = 0
      BY <2>1, SemunrmDebts DEF Within
    <3>2. semval'[t][n] = vals[n] /\ base'[t][n] = vals[n] /\ vals[n] \in Nat
      BY <1>1, <1>2, <1>4, <1>5, <2>1
    <3> QED
      BY <1>2, <2>0, <2>1, <3>1, <3>2
  <2>2. CASE ~(t = s /\ n \in low .. high)
    <3>1. ~Within(IdOf(t), n, id, low, high)
      BY <1>1, <1>2, <2>2, IdsDiffer DEF Within
    <3>2. Debt(undo', IdOf(t), n) = Debt(undo, IdOf(t), n)
      BY <3>1, SemunrmDebts
    <3>3. semval'[t][n] = semval[t][n] /\ base'[t][n] = base[t][n]
      <4>1. CASE t = s
        BY <1>1, <1>2, <1>4, <1>5, <2>2, <4>1
      <4>2. CASE t # s
        BY <1>1, <1>2, <1>5, <4>2
      <4> QED
        BY <4>1, <4>2
    <3> QED
      BY <2>0, <3>2, <3>3 DEF Balanced, Debts
  <2> QED
    BY <2>1, <2>2
<1> QED
  BY <1>6, <1>7, <1>8 DEF Debts

\* semctl.
LEMMA DebtsCtl ==
    ASSUME Balanced, NEW p \in Procs, NEW id \in Int, Semctl(p, id)
    PROVE  Debts'
<1>1. semval \in [Slots -> [Nums -> Nat]] /\ base \in [Slots -> [Nums -> Int]] /\ SetVals \subseteq Nat
  BY BalancedTypes, SizesAssumption
<1>2. ASSUME NEW v \in SetVals, NEW m \in Nums, Setval(p, id, m, v)
      PROVE  Debts'
  <2>1. PICK s \in Slots : s = Slot(id)
    BY SlotOfInt
  <2>2. /\ Semconv(id) /\ undo' = Semunrm(id, m, m) /\ UNCHANGED tables
        /\ semval' = [semval EXCEPT ![s][m] = v] /\ base' = [base EXCEPT ![s][m] = v]
    BY <1>2, <2>1 DEF Setval
  <2>3. PICK vals : vals = [semval[s] EXCEPT ![m] = v]
    OBVIOUS
  <2>4. vals \in [Nums -> Nat]
    BY <1>1, <2>3
  <2>5. \A n \in Nums : n \notin m .. m => vals[n] = semval[s][n]
    BY <1>1, <2>3 DEF Nums
  <2>6. semval' = [semval EXCEPT ![s] = vals]
    BY <1>1, <2>2, <2>3
  <2>7. base' = [base EXCEPT ![s] = [n \in Nums |-> IF n \in m .. m THEN vals[n] ELSE base[s][n]]]
    <3>1. [base[s] EXCEPT ![m] = v] = [n \in Nums |-> IF n \in m .. m THEN vals[n] ELSE base[s][n]]
      <4>1. \A n \in Nums : n \in m .. m <=> n = m
        BY DEF Nums
      <4>2. vals[m] = v
        BY <1>1, <2>3
      <4>3. base[s] \in [Nums -> Int]
        BY <1>1
      <4>4. [base[s] EXCEPT ![m] = v] = [n \in Nums |-> IF n = m THEN v ELSE base[s][n]]
        BY <4>3
      <4> QED
        BY <4>1, <4>2, <4>4
    <3> QED
      BY <1>1, <2>2, <3>1
  <2> QED
    <3>1. PICK low, high : low = m /\ high = m
      OBVIOUS
    <3>2. undo' = Semunrm(id, low, high)
      BY <2>2, <3>1
    <3>3. \A n \in Nums : n \notin low .. high => vals[n] = semval[Slot(id)][n]
      BY <2>1, <2>5, <3>1
    <3>4. base' = [base EXCEPT ![Slot(id)] =
                      [n \in Nums |-> IF n \in low .. high THEN vals[n] ELSE base[Slot(id)][n]]]
      BY <2>1, <2>7, <3>1
    <3>5. semval' = [semval EXCEPT ![Slot(id)] = vals]
      BY <2>1, <2>6
    <3>6. Balanced /\ Semconv(id) /\ UNCHANGED tables
      BY <2>2
    <3> QED
      BY <2>4, <3>2, <3>3, <3>4, <3>5, <3>6, DebtsSet, Zenon
<1>3. ASSUME NEW vals \in [Nums -> SetVals], Setall(p, id, vals)
      PROVE  Debts'
  <2>1. PICK s \in Slots : s = Slot(id)
    BY SlotOfInt
  <2>2. /\ Semconv(id) /\ undo' = Semunrm(id, 0, NSems) /\ UNCHANGED tables
        /\ semval' = [semval EXCEPT ![s] = vals] /\ base' = [base EXCEPT ![s] = vals]
    BY <1>3, <2>1 DEF Setall
  <2>3. \A n \in Nums : n \in 0 .. NSems
    BY SizesAssumption DEF Nums
  <2>4. vals \in [Nums -> Nat]
    BY <1>1
  <2>5. vals = [n \in Nums |-> IF n \in 0 .. NSems THEN vals[n] ELSE base[s][n]]
    BY <2>3
  <2>6. base' = [base EXCEPT ![s] =
                    [n \in Nums |-> IF n \in 0 .. NSems THEN vals[n] ELSE base[s][n]]]
    BY <2>2, <2>5
  <2> QED
    BY <2>1, <2>2, <2>3, <2>4, <2>6, DebtsSet
<1> QED
  BY <1>2, <1>3, DebtsRmid DEF Semctl

\* Put changes the semaphores that have an entry.
LEMMA PutIs ==
    ASSUME NEW f, NEW g, NEW s \in Slots, NEW n \in Nums
    PROVE  /\ (\A e \in DOMAIN g : ~(Slot(e.id) = s /\ e.num = n)) => Put(f, g)[s][n] = f[s][n]
           /\ \A e \in DOMAIN g :
                 /\ Slot(e.id) = s /\ e.num = n
                 /\ \A d \in DOMAIN g : Slot(d.id) = s /\ d.num = n => d = e
                 => Put(f, g)[s][n] = g[e]
<1>1. PICK E : E = {e \in DOMAIN g : Slot(e.id) = s /\ e.num = n}
  OBVIOUS
<1>2. Put(f, g)[s][n] = IF E = {} THEN f[s][n] ELSE g[CHOOSE e \in E : TRUE]
  BY <1>1 DEF Put
<1>3. ASSUME \A e \in DOMAIN g : ~(Slot(e.id) = s /\ e.num = n)
      PROVE  Put(f, g)[s][n] = f[s][n]
  <2>1. E = {}
    BY <1>1, <1>3
  <2> QED
    BY <1>2, <2>1
<1>4. ASSUME NEW e \in DOMAIN g, Slot(e.id) = s, e.num = n,
             \A d \in DOMAIN g : Slot(d.id) = s /\ d.num = n => d = e
      PROVE  Put(f, g)[s][n] = g[e]
  <2>1. E = {e}
    BY <1>1, <1>4
  <2>2. (CHOOSE d \in E : TRUE) = e
    BY <2>1
  <2> QED
    BY <1>2, <2>1, <2>2
<1> QED
  BY <1>3, <1>4

\* The entries of a process are of sets that are there; there is one for each semaphore
\* that something is owed to, of what is owed.
LEMMA EntriesAre ==
    ASSUME Balanced, NEW p \in Procs, undo[p] # None
    PROVE  /\ \A e \in Entries(p) :
                 /\ e \in Entry /\ Semconv(e.id) /\ Slot(e.id) \in Slots
                 /\ IdOf(Slot(e.id)) = e.id /\ e.aoe = Owed(undo[p], e.id, e.num)
           /\ \A d, e \in Entries(p) : d.id = e.id /\ d.num = e.num => d = e
           /\ \A id, n : Owed(undo[p], id, n) # 0 =>
                 \E e \in Entries(p) : e.id = id /\ e.num = n
<1>1. PICK u : u = undo[p] /\ Recorded(u)
  BY DEF Balanced, Undoable
<1>2. u \in Seq(Entry) /\ DOMAIN u = 1 .. Len(u)
  BY <1>1, LenProperties DEF Recorded
<1>3. Entries(p) = {u[i] : i \in 1 .. Len(u)}
  BY <1>1, <1>2 DEF Entries
<1>4. ASSUME NEW e \in Entries(p)
      PROVE  /\ e \in Entry /\ Semconv(e.id) /\ Slot(e.id) \in Slots
             /\ IdOf(Slot(e.id)) = e.id /\ e.aoe = Owed(undo[p], e.id, e.num)
  <2>1. PICK i \in 1 .. Len(u) : e = u[i]
    BY <1>3
  <2>2. e \in Entry
    BY <1>2, <2>1, ElementOfSeq
  <2>3. e.id \in Int /\ e.num \in Nums
    BY <2>2 DEF Entry
  <2>4. Has(u, e.id, e.num, e.aoe)
    BY <2>1 DEF Has
  <2>5. Owed(u, e.id, e.num) = e.aoe /\ e.aoe # 0
    BY <1>1, <2>4, OwedHas
  <2>6. Semconv(e.id)
    BY <1>1, <2>3, <2>5 DEF Balanced, Debts
  <2>7. Slot(e.id) \in Slots /\ IdOf(Slot(e.id)) = e.id
    BY <2>3, <2>6, BalancedTypes, IdOfSlot
  <2> QED
    BY <1>1, <2>2, <2>5, <2>6, <2>7
<1>5. ASSUME NEW d \in Entries(p), NEW e \in Entries(p), d.id = e.id, d.num = e.num
      PROVE  d = e
  <2>1. d \in Entry /\ e \in Entry /\ d.aoe = e.aoe
    BY <1>4, <1>5
  <2> QED
    BY <1>5, <2>1 DEF Entry
<1>6. ASSUME NEW id, NEW n, Owed(undo[p], id, n) # 0
      PROVE  \E e \in Entries(p) : e.id = id /\ e.num = n
  <2>1. Has(u, id, n, Owed(u, id, n))
    BY <1>1, <1>6, OwedIs
  <2> QED
    BY <1>3, <2>1 DEF Has
<1> QED
  BY <1>4, <1>5, <1>6

\* exit: what the process owed is put on the values, or taken from the base when that would
\* leave the range of a semaphore.
LEMMA DebtsExit ==
    ASSUME Balanced, Undoable', NEW p \in Procs, Semexit(p)
    PROVE  Debts'
<1>1. /\ seq \in [Slots -> Nat] /\ alloc \in [Slots -> BOOLEAN]
      /\ semval \in [Slots -> [Nums -> Nat]] /\ base \in [Slots -> [Nums -> Int]]
      /\ undo \in [Procs -> Undos] /\ Proper(undo)
  BY BalancedTypes
<1>2. /\ undo[p] # None /\ UNCHANGED <<alloc, seq>>
      /\ undo' = [undo EXCEPT ![p] = None]
  BY DEF Semexit, tables
<1>a. PICK g : g = [e \in Made(p) |-> Adjusted(e)]
  OBVIOUS
<1>3. DOMAIN g = Made(p) /\ \A e \in Made(p) : g[e] = Adjusted(e)
  BY <1>a
<1>b. PICK h : h = [e \in Skipped(p) |-> base[Slot(e.id)][e.num] - e.aoe]
  OBVIOUS
<1>4. DOMAIN h = Skipped(p) /\ \A e \in Skipped(p) : h[e] = base[Slot(e.id)][e.num] - e.aoe
  BY <1>b
<1>5. semval' = Put(semval, g) /\ base' = Put(base, h)
  BY <1>a, <1>b DEF Semexit
<1>6. /\ \A e \in Entries(p) : (e \in Made(p) /\ e \notin Skipped(p)) \/ (e \notin Made(p) /\ e \in Skipped(p))
      /\ Made(p) \subseteq Entries(p) /\ Skipped(p) \subseteq Entries(p)
  BY <1>2, EntriesAre DEF Made, Skipped
<1>7. Proper(undo') /\ undo'[p] = None /\ \A q \in Procs \ {p} : undo'[q] = undo[q]
  <2>1. Proper(undo')
    BY DEF Undoable, Proper
  <2> QED
    BY <1>1, <1>2, <2>1
<1>8. ASSUME NEW id, NEW n
      PROVE  /\ Debt(undo', id, n) = Debt(undo, id, n) - Owed(undo[p], id, n)
             /\ Debt(undo, id, n) \in Int
  <2>1. Owed(undo'[p], id, n) = 0
    BY <1>7, OwedNothing
  <2>2. /\ Debt(undo, id, n) \in Int
        /\ Debt(undo', id, n) = Debt(undo, id, n) - Owed(undo[p], id, n) + Owed(undo'[p], id, n)
    BY <1>1, <1>7, DebtChanges
  <2>3. Owed(undo[p], id, n) \in Int
    BY <1>1, OwedIs DEF Proper
  <2> QED
    BY <2>1, <2>2, <2>3
<1>9. ASSUME NEW t \in Slots, NEW n \in Nums
      PROVE  /\ base'[t][n] \in Int
             /\ IF alloc'[t] THEN semval'[t][n] + Debt(undo', IdOf(t)', n) = base'[t][n]
                             ELSE semval'[t][n] = 0
  <2>1. IdOf(t)' = IdOf(t) /\ alloc'[t] = alloc[t]
    BY <1>2 DEF IdOf
  <2>2. semval[t][n] \in Nat /\ base[t][n] \in Int
    BY <1>1
  <2>3. IF alloc[t] THEN semval[t][n] + Debt(undo, IdOf(t), n) = base[t][n] ELSE semval[t][n] = 0
    BY DEF Balanced, Debts
  <2>4. CASE \A e \in Entries(p) : ~(Slot(e.id) = t /\ e.num = n)
    <3>1. semval'[t][n] = semval[t][n]
      BY <1>3, <1>5, <1>6, <2>4, PutIs
    <3>2. base'[t][n] = base[t][n]
      BY <1>4, <1>5, <1>6, <2>4, PutIs
    <3>3. Owed(undo[p], IdOf(t), n) = 0
      <4>1. Slot(IdOf(t)) = t
        BY <1>1, SlotOfId
      <4> QED
        BY <1>2, <2>4, <4>1, EntriesAre
    <3>4. Debt(undo', IdOf(t), n) = Debt(undo, IdOf(t), n)
      BY <1>8, <3>3
    <3> QED
      BY <2>1, <2>2, <2>3, <3>1, <3>2, <3>4
  <2>5. ASSUME NEW e \in Entries(p), Slot(e.id) = t, e.num = n
        PROVE  /\ base'[t][n] \in Int
               /\ IF alloc'[t] THEN semval'[t][n] + Debt(undo', IdOf(t)', n) = base'[t][n]
                               ELSE semval'[t][n] = 0
    <3>1. /\ IdOf(t) = e.id /\ e.aoe = Owed(undo[p], IdOf(t), n) /\ e.aoe \in Int /\ alloc[t]
      BY <1>2, <2>5, EntriesAre DEF Entry, Semconv
    <3>2. \A d \in Entries(p) : Slot(d.id) = t /\ d.num = n => d = e
      <4>1. ASSUME NEW d \in Entries(p), Slot(d.id) = t, d.num = n PROVE d = e
        <5>1. d.id = IdOf(t)
          BY <1>2, <4>1, EntriesAre
        <5> QED
          BY <1>2, <2>5, <3>1, <4>1, <5>1, EntriesAre
      <4> QED
        BY <4>1
    <3>3. /\ Debt(undo', IdOf(t), n) = Debt(undo, IdOf(t), n) - e.aoe
          /\ Debt(undo, IdOf(t), n) \in Int
      BY <1>8, <3>1
    <3>4. CASE e \in Made(p) /\ e \notin Skipped(p)
      <4>1. semval'[t][n] = Adjusted(e)
        <5>1. \A d \in DOMAIN g : Slot(d.id) = t /\ d.num = n => d = e
          BY <1>3, <1>6, <3>2
        <5>2. Put(semval, g)[t][n] = g[e]
          BY <1>3, <2>5, <3>4, <5>1, PutIs
        <5> QED
          BY <1>3, <1>5, <3>4, <5>2
      <4>2. base'[t][n] = base[t][n]
        <5>1. \A d \in DOMAIN h : ~(Slot(d.id) = t /\ d.num = n)
          BY <1>4, <1>6, <3>2, <3>4
        <5> QED
          BY <1>5, <5>1, PutIs
      <4>3. Adjusted(e) = semval[t][n] + e.aoe
        BY <2>5 DEF Adjusted
      <4> QED
        BY <2>1, <2>2, <2>3, <3>1, <3>3, <4>1, <4>2, <4>3
    <3>5. CASE e \notin Made(p) /\ e \in Skipped(p)
      <4>1. base'[t][n] = base[t][n] - e.aoe
        <5>1. \A d \in DOMAIN h : Slot(d.id) = t /\ d.num = n => d = e
          BY <1>4, <1>6, <3>2
        <5>2. Put(base, h)[t][n] = h[e]
          BY <1>4, <2>5, <3>5, <5>1, PutIs
        <5> QED
          BY <1>4, <1>5, <2>5, <3>5, <5>2
      <4>2. semval'[t][n] = semval[t][n]
        <5>1. \A d \in DOMAIN g : ~(Slot(d.id) = t /\ d.num = n)
          BY <1>3, <1>6, <3>2, <3>5
        <5> QED
          BY <1>5, <5>1, PutIs
      <4> QED
        BY <2>1, <2>2, <2>3, <3>1, <3>3, <4>1, <4>2
    <3> QED
      BY <1>6, <3>4, <3>5
  <2> QED
    BY <2>4, <2>5
<1>10. base' \in [Slots -> [Nums -> Int]]
  <2>1. PICK F : Put(base, h) = [t \in Slots |-> [n \in Nums |-> F[t][n]]]
    <3>1. PICK P : P = Put(base, h)
      OBVIOUS
    <3>2. DOMAIN P = Slots /\ \A t \in Slots : P[t] = [n \in Nums |-> P[t][n]]
      BY <3>1 DEF Put
    <3>3. P = [t \in Slots |-> P[t]]
      BY <3>1, <3>2 DEF Put
    <3> QED
      BY <3>1, <3>2, <3>3
  <2> QED
    BY <1>5, <1>9, <2>1
<1>11. ASSUME NEW q \in Procs, NEW a \in Int, NEW n \in Nums, Owed(undo'[q], a, n) # 0
       PROVE  Semconv(a)'
  <2>1. q # p
    BY <1>7, <1>11, OwedNothing
  <2>2. Semconv(a)
    BY <1>7, <1>11, <2>1 DEF Balanced, Debts
  <2> QED
    BY <1>2, <2>2 DEF Semconv, Slot
<1>12. alloc' \in [Slots -> BOOLEAN]
  BY <1>1, <1>2
<1> QED
  BY <1>9, <1>10, <1>11, <1>12 DEF Debts

\* A pass of semop: what it adds to a value with SEM_UNDO is owed, what it adds without is
\* added to the base.
LEMMA DebtsPass ==
    ASSUME Balanced, Undoable', NEW p \in Procs, NEW id \in ShortIds, Semconv(id),
           NEW list \in Lists, NEW again, UNCHANGED tables, Semops(p, id, list, list, again)
    PROVE  Debts'
<1>1. /\ seq \in [Slots -> Nat] /\ alloc \in [Slots -> BOOLEAN]
      /\ semval \in [Slots -> [Nums -> Nat]] /\ base \in [Slots -> [Nums -> Int]]
      /\ undo \in [Procs -> Undos] /\ Proper(undo)
  BY BalancedTypes
<1>2. id \in Int /\ list \in Seq(Sembuf)
  BY ListsAssumption, ShortInt
<1>3. PICK s \in Slots : s = Slot(id) /\ alloc[s] /\ IdOf(s) = id
  BY <1>1, <1>2, IdOfSlot
<1>4. PICK r : r = Pass(p, list, s, id)
  OBVIOUS
<1>5. /\ semval' = [semval EXCEPT ![s] = r.val]
      /\ undo' = [undo EXCEPT ![p] = r.u]
      /\ IF r.res = "ok" THEN base' = [base EXCEPT ![s] = [n \in Nums |-> base[s][n] + Lasting(list, n)]]
                         ELSE base' = base
  BY <1>3, <1>4 DEF Semops, Succeed, Fail, Wait
<1>6. semval[s] \in [Nums -> Int] /\ undo[p] \in Undos /\ (undo[p] = None \/ Recorded(undo[p]))
  BY <1>1 DEF Proper
<1>7. /\ \A n \in Nums : r.val[n] + Owed(r.u, id, n) = semval[s][n] + Owed(undo[p], id, n)
                             + (IF r.res = "ok" THEN Lasting(list, n) ELSE 0)
      /\ \A a, b : a # id => Owed(r.u, a, b) = Owed(undo[p], a, b)
  BY <1>2, <1>4, <1>6, PassOwed
<1>8. \A n \in Nums : r.val[n] \in Int
  <2>1. PassFacts(list, s, r)
    BY <1>2, <1>4, <1>6, PassDoes
  <2> QED
    BY <2>1 DEF PassFacts, States
<1>9. \A n \in Nums : Lasting(list, n) \in Int
  <2>1. ASSUME NEW n \in Nums PROVE Lasting(list, n) \in Int
    <3>1. PICK g : Lastings(list, n, g) /\ Lasting(list, n) = g[Len(list)]
      BY <1>2, LastingsTotal
    <3>2. Len(list) \in 0 .. Len(list)
      BY <1>2, LenProperties
    <3> QED
      BY <3>1, <3>2 DEF Lastings
  <2> QED
    BY <2>1
<1>10. Proper(undo') /\ undo'[p] = r.u /\ \A q \in Procs \ {p} : undo'[q] = undo[q]
  <2>1. Proper(undo')
    BY DEF Undoable, Proper
  <2> QED
    BY <1>1, <1>5, <2>1
<1>11. ASSUME NEW a, NEW n
       PROVE  /\ Debt(undo', a, n) = Debt(undo, a, n) - Owed(undo[p], a, n) + Owed(r.u, a, n)
              /\ Debt(undo, a, n) \in Int /\ Owed(undo[p], a, n) \in Int /\ Owed(r.u, a, n) \in Int
  <2>1. /\ Debt(undo, a, n) \in Int
        /\ Debt(undo', a, n) = Debt(undo, a, n) - Owed(undo[p], a, n) + Owed(undo'[p], a, n)
    BY <1>1, <1>10, DebtChanges
  <2>2. Owed(undo[p], a, n) \in Int /\ Owed(undo'[p], a, n) \in Int
    BY <1>1, <1>10, OwedIs DEF Proper
  <2> QED
    BY <1>10, <2>1, <2>2
<1>12. UNCHANGED <<alloc, seq>>
  BY DEF tables
<1>13. alloc' \in [Slots -> BOOLEAN] /\ base' \in [Slots -> [Nums -> Int]]
  <2>1. PICK f : f = [n \in Nums |-> base[s][n] + Lasting(list, n)]
    OBVIOUS
  <2>2. f \in [Nums -> Int]
    BY <1>1, <1>9, <2>1
  <2>3. base' = base \/ base' = [base EXCEPT ![s] = f]
    BY <1>5, <2>1
  <2> QED
    BY <1>1, <1>12, <2>2, <2>3
<1>14. ASSUME NEW q \in Procs, NEW a \in Int, NEW n \in Nums, Owed(undo'[q], a, n) # 0
       PROVE  Semconv(a)'
  <2>1. a = id \/ Owed(undo[q], a, n) # 0
    BY <1>7, <1>10, <1>14
  <2>2. Semconv(a)
    BY <2>1 DEF Balanced, Debts
  <2> QED
    BY <1>12, <2>2 DEF Semconv, Slot
<1>15. ASSUME NEW t \in Slots, NEW n \in Nums
       PROVE  IF alloc'[t] THEN semval'[t][n] + Debt(undo', IdOf(t)', n) = base'[t][n]
                           ELSE semval'[t][n] = 0
  <2>1. IdOf(t)' = IdOf(t) /\ alloc'[t] = alloc[t]
    BY <1>12 DEF IdOf
  <2>2. semval[t][n] \in Nat /\ base[t][n] \in Int
    BY <1>1
  <2>3. IF alloc[t] THEN semval[t][n] + Debt(undo, IdOf(t), n) = base[t][n] ELSE semval[t][n] = 0
    BY DEF Balanced, Debts
  <2>4. CASE t = s
    <3>1. semval'[s][n] = r.val[n]
      BY <1>1, <1>5
    <3>2. base'[s][n] = base[s][n] + (IF r.res = "ok" THEN Lasting(list, n) ELSE 0)
      <4>1. CASE r.res = "ok"
        BY <1>1, <1>5, <4>1
      <4>2. CASE r.res # "ok"
        BY <1>1, <1>5, <4>2
      <4> QED
        BY <4>1, <4>2
    <3>3. PICK more \in Int : more = IF r.res = "ok" THEN Lasting(list, n) ELSE 0
      BY <1>9
    <3>4. r.val[n] + Owed(r.u, id, n) = semval[s][n] + Owed(undo[p], id, n) + more
      BY <1>7, <3>3
    <3>5. semval[s][n] + Debt(undo, id, n) = base[s][n]
      BY <1>3, <2>3, <2>4
    <3>6. r.val[n] + Debt(undo', id, n) = base[s][n] + more
      BY <1>8, <1>11, <2>2, <2>4, <3>4, <3>5
    <3> QED
      BY <1>3, <2>1, <2>4, <3>1, <3>2, <3>3, <3>6
  <2>5. CASE t # s
    <3>1. semval'[t] = semval[t] /\ base'[t] = base[t]
      BY <1>1, <1>5, <2>5
    <3>2. IdOf(t) # id
      BY <1>1, <1>3, <2>5, IdsDiffer
    <3>3. Debt(undo', IdOf(t), n) = Debt(undo, IdOf(t), n)
      BY <1>7, <1>11, <3>2
    <3> QED
      BY <2>1, <2>3, <3>1, <3>3
  <2> QED
    BY <2>4, <2>5
<1> QED
  BY <1>13, <1>14, <1>15 DEF Debts

\* MOVE, without a page fault, and the pass after it.
LEMMA DebtsMove ==
    ASSUME Balanced, Undoable', Paged = {}, NEW p \in Procs, NEW id \in ShortIds, Semconv(id),
           NEW list \in Lists, NEW again, Move(p, id, list, 0, again)
    PROVE  Debts'
<1>1. UNCHANGED tables
  BY DEF Move
<1>2. PICK ops : ops = SubSeq(semtmp, 1, 0) \o SubSeq(list, 0 + 1, Len(list))
  OBVIOUS
<1>3. ops = list
  BY <1>2, CopiedAtOnce
<1>4. Semops(p, id, list, ops, again) \/ Refused(p, id, again)
  BY <1>2 DEF Move
<1>5. CASE Semops(p, id, list, ops, again)
  BY <1>1, <1>3, <1>5, DebtsPass
<1>6. CASE Refused(p, id, again)
  BY <1>1, <1>6, DebtsFrame DEF Refused
<1> QED
  BY <1>4, <1>5, <1>6

\* Every step keeps the balance.
LEMMA BalancedStep == IdsFit /\ Paged = {} /\ Balanced /\ [Next]_vars => Balanced'
<1> SUFFICES ASSUME IdsFit, Paged = {}, Balanced, [Next]_vars PROVE Balanced'
  OBVIOUS
<1>1. Settled' /\ Undoable'
  BY SettledStep, UndoableStep DEF Balanced
<1> SUFFICES Debts'
  BY <1>1 DEF Balanced
<1>2. CASE UNCHANGED vars
  BY <1>2, DebtsFrame DEF vars
<1>3. ASSUME NEW p \in Procs, Semexit(p) PROVE Debts'
  BY <1>1, <1>3, DebtsExit
<1>4. ASSUME NEW p \in Procs, NEW id \in Ids, Semctl(p, id) PROVE Debts'
  <2>1. id \in Int
    BY IdsInt DEF Balanced, Undoable
  <2> QED
    BY <1>4, <2>1, DebtsCtl
<1>5. ASSUME NEW p \in Procs, NEW id \in Ids, NEW list \in Lists, Semop(p, id, list) PROVE Debts'
  <2>1. id \in ShortIds
    BY IdsShort DEF Balanced
  <2> QED
    BY <1>1, <1>5, <2>1, DebtsMove DEF Semop
<1>6. ASSUME NEW p \in Procs, PageIn(p) PROVE Debts'
  BY <1>6 DEF PageIn, Balanced, Settled
<1>7. ASSUME NEW p \in Procs, SemopAgain(p) PROVE Debts'
  <2>1. call[p].id \in ShortIds /\ call[p].ops \in Lists
    BY <1>7 DEF SemopAgain, Balanced, Undoable, Valued
  <2>2. CASE Semconv(call[p].id) /\ Move(p, call[p].id, call[p].ops, 0, TRUE)
    BY <1>1, <2>1, <2>2, DebtsMove
  <2>3. CASE UNCHANGED <<tables, semval, undo, base>>
    BY <2>3, DebtsFrame
  <2> QED
    BY <1>7, <2>2, <2>3 DEF SemopAgain
<1>8. ASSUME NEW p \in Procs, SemopIntr(p) \/ Signal(p) PROVE Debts'
  BY <1>8, DebtsFrame DEF SemopIntr, Signal
<1> QED
  BY <1>2, <1>3, <1>4, <1>5, <1>6, <1>7, <1>8, DebtsGet DEF Next

\* The adjustments that exit will make, of all processes together, lead every semaphore back to
\* what it would be without the operations with SEM_UNDO: through semop, its semundo, SETVAL and
\* SETALL, removals, and exits that make or skip theirs.  Two conditions: the identifiers fit in
\* the short of an undo entry, and no page of a caller is out, since after a page fault semop
\* goes on with the identifier of a set that is gone.
THEOREM UndoBalanced == IdsFit /\ Paged = {} => (Spec => []UndoBalance)
<1> SUFFICES ASSUME IdsFit, Paged = {} PROVE Spec => []UndoBalance
  OBVIOUS
<1>1. Init => Balanced
  <2> SUFFICES ASSUME Init PROVE Balanced
    OBVIOUS
  <2>1. Settled
    BY DEF Init, Settled, Sleeping, Typed, Accounted, NoSleepOnRemoved
  <2>2. Undoable
    BY UndoableInit
  <2>3. \A q \in Procs : \A a, n : Owed(undo[q], a, n) = 0
    BY DEF Init, Owed
  <2>4. Debts
    BY <2>3 DEF Init, Debts
  <2> QED
    BY <2>1, <2>2, <2>4 DEF Balanced
<1>2. Balanced /\ [Next]_vars => Balanced'
  BY BalancedStep
<1>3. Balanced => UndoBalance
  BY DEF Balanced, Debts, UndoBalance, Debt
<1> QED
  BY <1>1, <1>2, <1>3, PTL DEF Spec
=============================================================================
