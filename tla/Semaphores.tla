------------------------------ MODULE Semaphores ------------------------------
(***************************************************************************)
(* System V semaphores, os/sem.c with the table of os/ipc.c: semget,       *)
(* semctl, semop and what exit does.                                       *)
(*                                                                         *)
(* A process in the kernel is not preempted, so a pass of semop over its   *)
(* list of operations is one step: it carries them out one by one, undoes  *)
(* them when one has to wait or fails, and then sleeps or returns.  Others *)
(* run while it sleeps for a semaphore, and while a page fault in the copy *)
(* of the list from user space (MOVE) is served.                           *)
(*                                                                         *)
(* A set keeps its place in the array sem[], all sets have the same size,  *)
(* and the processes have permission for what they do.                     *)
(***************************************************************************)
EXTENDS Integers, SequencesExt

CONSTANTS Procs,
          SEMMNI,    \* identifiers
          NSems,     \* semaphores of a set
          SEMVMX,    \* greatest value of a semaphore
          SEMAEM,    \* greatest adjustment on exit
          SEMUME,    \* undo entries of a process
          SEMMNU,    \* undo structures
          Lists,     \* the lists of operations passed to semop
          SetVals,   \* the values SETVAL and SETALL are called with
          FirstSeq,  \* sem_perm.seq after the removals of an earlier time
          MaxRmid,   \* bound: removals of a set from then on
          Paged,     \* the lists that are on a page that may be out
          None

Slots == 0 .. SEMMNI - 1
Nums == 0 .. NSems - 1

\* &sem[..].semncnt and &sem[..].semzcnt, the channels processes sleep on.
Chans == Slots \X Nums \X {"ncnt", "zcnt"}

\* struct sembuf, with the two flags it may have.
Sembuf == [num : Nums, op : Int, undo : BOOLEAN, nowait : BOOLEAN]

ASSUME ProcsAssumption == IsFiniteSet(Procs)
ASSUME SizesAssumption ==
    /\ SEMMNI \in Nat \ {0} /\ NSems \in Nat \ {0}
    /\ {SEMVMX, SEMAEM, SEMUME, SEMMNU, FirstSeq, MaxRmid} \subseteq Nat
    /\ SetVals \subseteq 0 .. SEMVMX
    /\ Paged \subseteq Lists
ASSUME ListsAssumption == Lists \subseteq Seq(Sembuf)
ASSUME NoneAssumption == None \notin Chans \cup Seq([id : Int, num : Nums, aoe : Int])

VARIABLES
    alloc,   \* [Slots -> BOOLEAN]: IPC_ALLOC of sem_perm.mode
    seq,     \* [Slots -> Nat]: sem_perm.seq
    semval,  \* [Slots -> [Nums -> Nat]]
    cnt,     \* [Chans -> Nat]: semncnt and semzcnt
    undo,    \* per process: its undo structure, a list of entries, or None
    semtmp,  \* the area of the kernel the operations are copied to
    pc,      \* per process: "user", "fault" (in MOVE) or "slept" (in sleep)
    call,    \* per process: the semop it is in
    wchan,   \* per process: the channel it sleeps on, or None
    sig,     \* per process: a signal has come for it
    base     \* history: what the semaphores would be with all undo done

tables == <<alloc, seq>>
vars == <<tables, semval, cnt, undo, semtmp, pc, call, wchan, sig, base>>

-----------------------------------------------------------------------------
(* Identifiers *)

Slot(id) == id % SEMMNI

\* semconv: the identifier names a set.
Semconv(id) == id >= 0 /\ alloc[Slot(id)] /\ id \div SEMMNI = seq[Slot(id)]

\* u.u_rval1 of semget.
IdOf(s) == seq[s] * SEMMNI + s

\* un_id is a short, semid an int.
Short(id) == ((id + 32768) % 65536) - 32768

-----------------------------------------------------------------------------
(* Wakeup of all the channels of W that are counted to have a sleeper *)

Counts(W) == [c \in Chans |-> IF c \in W THEN 0 ELSE cnt[c]]

Woken(W) == [q \in Procs |-> IF wchan[q] \in {c \in W : cnt[c] > 0}
                               THEN None ELSE wchan[q]]

Wakeup(W) == cnt' = Counts(W) /\ wchan' = Woken(W)

\* The wakeup of an interrupted process, whatever the count.
Awaken(c) == /\ cnt' = [cnt EXCEPT ![c] = 0]
             /\ wchan' = [q \in Procs |-> IF wchan[q] = c THEN None ELSE wchan[q]]

\* What a new value v wakes in SETVAL and SETALL.
Waiting(s, n, v) == {<<s, n, IF v # 0 THEN "ncnt" ELSE "zcnt">>}

-----------------------------------------------------------------------------
(* Undo entries *)

\* The place of the entry of a semaphore in the sorted list, where it is or
\* would be put.
Place(u, id, n) ==
    1 + Cardinality({i \in DOMAIN u :
            \A j \in 1 .. i : u[j].id < id \/ (u[j].id = id /\ u[j].num < n)})

Abs(v) == IF v < 0 THEN -v ELSE v

\* semaoe: the new undo structure, and whether it could be done.
Semaoe(u0, avail, v, id, n) ==
    LET u == IF u0 = None THEN <<>> ELSE u0
        i == Place(u, id, n)
        found == i \in DOMAIN u /\ u[i].id = id /\ u[i].num = n
        aoe == IF found THEN u[i].aoe - v ELSE -v
    IN  IF v = 0 THEN [ok |-> TRUE, u |-> u0]
        ELSE IF Abs(v) > SEMAEM \/ (u0 = None /\ ~avail) THEN [ok |-> FALSE, u |-> u0]
        ELSE IF (~found /\ Len(u) >= SEMUME) \/ Abs(aoe) > SEMAEM THEN [ok |-> FALSE, u |-> u]
        ELSE [ok |-> TRUE,
              u |-> IF ~found
                      THEN InsertAt(u, i, [id |-> Short(id), num |-> n, aoe |-> aoe])
                    ELSE IF aoe = 0 THEN RemoveAt(u, i)
                    ELSE [u EXCEPT ![i].aoe = aoe]]

\* There is a free undo structure.
Avail == Cardinality({q \in Procs : undo[q] # None}) < SEMMNU

\* The entries of u that are not of the semaphores low .. high of a set.
Others(u, id, low, high) ==
    LET kept[i \in 0 .. Len(u)] ==
            IF i = 0 THEN <<>>
            ELSE IF u[i].id = id /\ u[i].num \in low .. high THEN kept[i - 1]
            ELSE Append(kept[i - 1], u[i])
    IN  kept[Len(u)]

\* Fault: the last semaphore is left out.
SemunrmShort(id, low, high) ==
    [q \in Procs |-> IF undo[q] = None THEN None ELSE Others(undo[q], id, low, high - 1)]

\* semunrm: the undo entries of the semaphores low .. high of a set go.
Semunrm(id, low, high) ==
    [q \in Procs |-> IF undo[q] = None THEN None ELSE Others(undo[q], id, low, high)]

-----------------------------------------------------------------------------
(* A pass of semop over its operations.  Its state: the values val of the  *)
(* set and the undo structure u, the channels woken, the number n of       *)
(* operations done and, in res, whether to go on.                          *)

\* Fault: an operation that takes a semaphore down to zero wakes nobody.
OperateNoZero(st, o, s, id) ==
    LET v == st.val[o.num] + o.op
        a == IF o.undo THEN Semaoe(st.u, Avail, o.op, id, o.num)
                       ELSE [ok |-> TRUE, u |-> st.u]
    IN  IF o.op > 0 /\ v > SEMVMX THEN [st EXCEPT !.res = "error"]
        ELSE IF o.op < 0 /\ v < 0 THEN [st EXCEPT !.res = "ncnt"]
        ELSE IF o.op = 0 /\ v # 0 THEN [st EXCEPT !.res = "zcnt"]
        ELSE IF ~a.ok THEN [st EXCEPT !.res = "error", !.u = a.u]
        ELSE [st EXCEPT
                !.val[o.num] = v, !.u = a.u, !.n = @ + 1,
                !.wake = @ \cup (IF o.op > 0 THEN {<<s, o.num, "ncnt">>} ELSE {})]

\* The next operation o.
Operate(st, o, s, id) ==
    LET v == st.val[o.num] + o.op
        a == IF o.undo THEN Semaoe(st.u, Avail, o.op, id, o.num)
                       ELSE [ok |-> TRUE, u |-> st.u]
    IN  IF o.op > 0 /\ v > SEMVMX THEN [st EXCEPT !.res = "error"]
        ELSE IF o.op < 0 /\ v < 0 THEN [st EXCEPT !.res = "ncnt"]
        ELSE IF o.op = 0 /\ v # 0 THEN [st EXCEPT !.res = "zcnt"]
        ELSE IF ~a.ok THEN [st EXCEPT !.res = "error", !.u = a.u]
        ELSE [st EXCEPT
                !.val[o.num] = v, !.u = a.u, !.n = @ + 1,
                !.wake = @ \cup (IF o.op > 0 THEN {<<s, o.num, "ncnt">>} ELSE {})
                           \cup (IF o.op # 0 /\ v = 0 THEN {<<s, o.num, "zcnt">>}
                                                      ELSE {})]

\* All of them, up to the first that cannot be done.
Do(ops, st, s, id) ==
    LET after[i \in 0 .. Len(ops)] ==
            IF i = 0 THEN st
            ELSE IF after[i - 1].res = "ok" THEN Operate(after[i - 1], ops[i], s, id)
            ELSE after[i - 1]
    IN  after[Len(ops)]

\* Take back operation o.
TakeBack(st, o, id) ==
    IF o.op = 0 THEN st
    ELSE [st EXCEPT !.val[o.num] = @ - o.op,
                    !.u = IF o.undo THEN Semaoe(@, Avail, -o.op, id, o.num).u ELSE @]

\* Fault: the operations are taken back in the order they were done.
SemundoForward(ops, st, id) ==
    LET back[i \in 0 .. st.n] ==
            IF i = 0 THEN st ELSE TakeBack(back[i - 1], ops[i], id)
    IN  back[st.n]

\* semundo: take back the st.n operations that were done, the last one first.
Semundo(ops, st, id) ==
    LET back[i \in 0 .. st.n] ==
            IF i = 0 THEN st ELSE TakeBack(back[i - 1], ops[st.n - i + 1], id)
    IN  back[st.n]

\* The pass of process p.
Pass(p, ops, s, id) ==
    LET st == Do(ops, [val |-> semval[s], u |-> undo[p], wake |-> {}, n |-> 0,
                       res |-> "ok"], s, id)
    IN  IF st.res = "ok" THEN st ELSE Semundo(ops, st, id)

-----------------------------------------------------------------------------
Init ==
    /\ alloc = [s \in Slots |-> FALSE]
    /\ seq = [s \in Slots |-> FirstSeq]
    /\ semval = [s \in Slots |-> [n \in Nums |-> 0]]
    /\ cnt = [c \in Chans |-> 0]
    /\ undo = [p \in Procs |-> None]
    /\ semtmp = <<>>
    /\ pc = [p \in Procs |-> "user"]
    /\ call = [p \in Procs |-> None]
    /\ wchan = [p \in Procs |-> None]
    /\ sig = [p \in Procs |-> FALSE]
    /\ base = semval

-----------------------------------------------------------------------------
(* semget and semctl, from processes outside semop *)

Outside(p) == pc[p] = "user"

UnchangedCalls == UNCHANGED <<semtmp, pc, call, sig>>

\* semget of a key that has no set: ipcget takes the first free entry.  The
\* values are those that IPC_RMID, or the start of the system, has left.
Semget(p) ==
    /\ Outside(p)
    /\ \E s \in Slots : /\ ~alloc[s] /\ \A t \in 0 .. s - 1 : alloc[t]
                        /\ alloc' = [alloc EXCEPT ![s] = TRUE]
                        /\ base' = [base EXCEPT ![s] = [n \in Nums |-> 0]]
    /\ UnchangedCalls
    /\ UNCHANGED <<seq, semval, cnt, undo, wchan>>

\* Fault: only those who wait for a greater value are woken.
RmidHalf(p, id) ==
    LET s == Slot(id)
    IN  /\ Outside(p) /\ Semconv(id)
        /\ seq[s] < FirstSeq + MaxRmid
        /\ undo' = Semunrm(id, 0, NSems)
        /\ semval' = [semval EXCEPT ![s] = [n \in Nums |-> 0]]
        /\ Wakeup({s} \X Nums \X {"ncnt"})
        /\ seq' = [seq EXCEPT ![s] = (@ + 1) % 65536]
        /\ alloc' = [alloc EXCEPT ![s] = FALSE]
        /\ base' = [base EXCEPT ![s] = [n \in Nums |-> 0]]
        /\ UnchangedCalls

\* semctl IPC_RMID.
Rmid(p, id) ==
    LET s == Slot(id)
    IN  /\ Outside(p) /\ Semconv(id)
        /\ seq[s] < FirstSeq + MaxRmid
        /\ undo' = Semunrm(id, 0, NSems)
        /\ semval' = [semval EXCEPT ![s] = [n \in Nums |-> 0]]
        /\ Wakeup({s} \X Nums \X {"ncnt", "zcnt"})
        /\ seq' = [seq EXCEPT ![s] = (@ + 1) % 65536]
        /\ alloc' = [alloc EXCEPT ![s] = FALSE]
        /\ base' = [base EXCEPT ![s] = [n \in Nums |-> 0]]
        /\ UnchangedCalls

\* semctl SETVAL.
Setval(p, id, n, v) ==
    LET s == Slot(id)
    IN  /\ Outside(p) /\ Semconv(id)
        /\ semval' = [semval EXCEPT ![s][n] = v]
        /\ Wakeup(Waiting(s, n, v))
        /\ undo' = Semunrm(id, n, n)
        /\ base' = [base EXCEPT ![s][n] = v]
        /\ UnchangedCalls
        /\ UNCHANGED tables

\* semctl SETALL; its own use of semtmp is left out.
Setall(p, id, vals) ==
    LET s == Slot(id)
    IN  /\ Outside(p) /\ Semconv(id)
        /\ semval' = [semval EXCEPT ![s] = vals]
        /\ Wakeup(UNION {Waiting(s, n, vals[n]) : n \in Nums})
        /\ undo' = Semunrm(id, 0, NSems)
        /\ base' = [base EXCEPT ![s] = vals]
        /\ UnchangedCalls
        /\ UNCHANGED tables

-----------------------------------------------------------------------------
(* semexit *)

Entries(q) == IF undo[q] = None THEN {} ELSE {undo[q][i] : i \in DOMAIN undo[q]}

\* The value of e's semaphore after the adjustment.
Adjusted(e) == semval[Slot(e.id)][e.num] + e.aoe

\* The adjustments of q that are made, and those that are skipped because they
\* would leave the range of a semaphore.
Made(q) == {e \in Entries(q) : Semconv(e.id) /\ Adjusted(e) \in 0 .. SEMVMX}
Skipped(q) == {e \in Entries(q) : Semconv(e.id)} \ Made(q)

\* f with g[e] at the semaphore of each entry e in the domain of g.
Put(f, g) ==
    [s \in Slots |-> [n \in Nums |->
        LET E == {e \in DOMAIN g : Slot(e.id) = s /\ e.num = n}
        IN  IF E = {} THEN f[s][n] ELSE g[CHOOSE e \in E : TRUE]]]

\* Called by exit; the entry of the process table is then used by a new process.
Semexit(p) ==
    /\ Outside(p) /\ undo[p] # None
    /\ semval' = Put(semval, [e \in Made(p) |-> Adjusted(e)])
    /\ Wakeup({<<Slot(e.id), e.num, "zcnt">> : e \in {d \in Made(p) : Adjusted(d) = 0}}
              \cup {<<Slot(e.id), e.num, "ncnt">> : e \in {d \in Made(p) : d.aoe > 0}})
    /\ undo' = [undo EXCEPT ![p] = None]
    /\ base' = Put(base, [e \in Skipped(p) |-> base[Slot(e.id)][e.num] - e.aoe])
    /\ UnchangedCalls
    /\ UNCHANGED tables

-----------------------------------------------------------------------------
(* semop *)

Return(p) == /\ pc' = [pc EXCEPT ![p] = "user"]
             /\ call' = [call EXCEPT ![p] = None]
             /\ sig' = [sig EXCEPT ![p] = FALSE]

\* What the operations without SEM_UNDO add to semaphore n.
Lasting(ops, n) ==
    LET sum[i \in 0 .. Len(ops)] ==
            IF i = 0 THEN 0
            ELSE sum[i - 1] + (IF ops[i].num = n /\ ~ops[i].undo THEN ops[i].op ELSE 0)
    IN  sum[Len(ops)]

\* All operations were done.
Succeed(p, s, ops, r) ==
    /\ r.res = "ok"
    /\ base' = [base EXCEPT ![s] = [n \in Nums |-> @[n] + Lasting(ops, n)]]
    /\ Wakeup(r.wake)
    /\ Return(p)

\* One of them failed, or would have to wait and must not (IPC_NOWAIT).
Fail(p, ops, r) ==
    /\ r.res = "error" \/ (r.res \in {"ncnt", "zcnt"} /\ ops[r.n + 1].nowait)
    /\ Wakeup(r.wake)
    /\ Return(p)
    /\ UNCHANGED base

\* One of them has to wait and may: count the process and sleep on channel c, or, when a
\* signal is already there, take the count back and return with EINTR.
Wait(p, c, id, list, r) ==
    LET n == Counts(r.wake)[c]
    IN  /\ \/ /\ cnt' = [Counts(r.wake) EXCEPT ![c] = n + 1]
              /\ wchan' = [Woken(r.wake) EXCEPT ![p] = c]
              /\ pc' = [pc EXCEPT ![p] = "slept"]
              /\ call' = [call EXCEPT ![p] = [id |-> id, ops |-> list, again |-> TRUE,
                                              copied |-> 0, chan |-> c]]
              /\ UNCHANGED sig
           \/ /\ cnt' = Counts(r.wake)
              /\ wchan' = [q \in Procs |-> IF n = 0 /\ wchan[q] = c THEN None
                                                                 ELSE Woken(r.wake)[q]]
              /\ Return(p)
        /\ UNCHANGED base

\* From the end of MOVE, with ops in semtmp, to the sleep or return.  On the
\* first pass ipcaccess refuses a set that is no longer there.
Semops(p, id, list, ops, again) ==
    LET s == Slot(id)
        r == Pass(p, ops, s, id)
    IN  /\ again \/ alloc[s]
        /\ semval' = [semval EXCEPT ![s] = r.val]
        /\ undo' = [undo EXCEPT ![p] = r.u]
        /\ \/ Succeed(p, s, ops, r)
           \/ Fail(p, ops, r)
           \/ /\ r.res \in {"ncnt", "zcnt"} /\ ~ops[r.n + 1].nowait
              /\ \E c \in Chans : /\ c = <<s, ops[r.n + 1].num, r.res>>
                                  /\ Wait(p, c, id, list, r)

Refused(p, id, again) == /\ ~again /\ ~alloc[Slot(id)]
                         /\ Return(p)
                         /\ UNCHANGED <<semval, cnt, undo, wchan, base>>

\* MOVE of the user's list to semtmp, of which the first k operations are there:
\* a page fault lets others run when j of them are, or the copy is completed.
Move(p, id, list, k, again) ==
    /\ \/ \E j \in k .. Len(list) - 1 :
             /\ list \in Paged
             /\ semtmp' = SubSeq(semtmp, 1, k) \o SubSeq(list, k + 1, j)
                             \o SubSeq(semtmp, j + 1, Len(semtmp))
             /\ pc' = [pc EXCEPT ![p] = "fault"]
             /\ call' = [call EXCEPT ![p] = [id |-> id, ops |-> list, again |-> again,
                                             copied |-> j, chan |-> None]]
             /\ UNCHANGED <<semval, cnt, undo, wchan, sig, base>>
       \/ LET ops == SubSeq(semtmp, 1, k) \o SubSeq(list, k + 1, Len(list))
          IN  /\ semtmp' = ops \o SubSeq(semtmp, Len(ops) + 1, Len(semtmp))
              /\ Semops(p, id, list, ops, again) \/ Refused(p, id, again)
    /\ UNCHANGED tables

\* The system call.
Semop(p, id, list) == Outside(p) /\ Semconv(id) /\ Move(p, id, list, 0, FALSE)

\* The page is there.
PageIn(p) == /\ pc[p] = "fault"
             /\ Move(p, call[p].id, call[p].ops, call[p].copied, call[p].again)

\* Awake again, without a signal: start over, or EIDRM.
SemopAgain(p) ==
    /\ pc[p] = "slept" /\ wchan[p] = None /\ ~sig[p]
    /\ \/ /\ Semconv(call[p].id)
          /\ Move(p, call[p].id, call[p].ops, 0, TRUE)
       \/ /\ ~Semconv(call[p].id)
          /\ Return(p)
          /\ UNCHANGED <<tables, semval, cnt, undo, semtmp, wchan, base>>

\* Fault: the count is reset without a wakeup.
SemopIntrSilent(p) ==
    LET c == call[p].chan
    IN  /\ pc[p] = "slept" /\ wchan[p] = None /\ sig[p]
        /\ cnt' = [cnt EXCEPT ![c] = IF @ <= 1 THEN 0 ELSE @ - 1]
        /\ Return(p)
        /\ UNCHANGED <<tables, semval, undo, semtmp, wchan, base>>

\* Awake again, with a signal: EINTR, counted off at the semaphore it slept on,
\* whosesoever that is now.
SemopIntr(p) ==
    LET c == call[p].chan
    IN  /\ pc[p] = "slept" /\ wchan[p] = None /\ sig[p]
        /\ IF cnt[c] <= 1 THEN Awaken(c) ELSE /\ cnt' = [cnt EXCEPT ![c] = @ - 1]
                                                /\ UNCHANGED wchan
        /\ Return(p)
        /\ UNCHANGED <<tables, semval, undo, semtmp, base>>

\* psignal: a process that sleeps is set running.
Signal(p) ==
    /\ pc[p] = "slept" /\ ~sig[p]
    /\ sig' = [sig EXCEPT ![p] = TRUE]
    /\ wchan' = [wchan EXCEPT ![p] = None]
    /\ UNCHANGED <<tables, semval, cnt, undo, semtmp, pc, call, base>>

-----------------------------------------------------------------------------
Ids == {IdOf(s) : s \in Slots}

Semctl(p, id) ==
    \/ Rmid(p, id)
    \/ \E v \in SetVals : \E n \in Nums : Setval(p, id, n, v)
    \/ \E vals \in [Nums -> SetVals] : Setall(p, id, vals)

Next == \E p \in Procs :
            \/ Semget(p) \/ Semexit(p)
            \/ \E id \in Ids : Semctl(p, id) \/ \E list \in Lists : Semop(p, id, list)
            \/ PageIn(p) \/ SemopAgain(p) \/ SemopIntr(p) \/ Signal(p)

Spec == Init /\ [][Next]_vars

-----------------------------------------------------------------------------
(* Properties *)

\* Process p would get through its operations now.
Doable(p) == Pass(p, call[p].ops, Slot(call[p].id), call[p].id).res = "ok"

\* sem.c:513, "Loop waiting for the operations to be satisified atomically":
\* whoever sleeps could not carry out his operations now.
NoLostWakeup == \A p \in Procs : wchan[p] # None => ~Doable(p)

\* Whoever sleeps can be woken: nobody calls wakeup for a count of zero.  The
\* counts are reset by those who wake, taken back by those who are interrupted
\* (for a semaphore that may be somebody else's by then) and go wrong on the way.
Accounted == \A p \in Procs : wchan[p] # None => cnt[wchan[p]] > 0

\* Whoever sleeps, sleeps for a set that is there, under the identifier he named:
\* IPC_RMID sends everybody away.
NoSleepOnRemoved ==
    \A p \in Procs : wchan[p] # None =>
        /\ Semconv(call[p].id)
        /\ wchan[p][1] = Slot(call[p].id)

\* What semop would do to semaphore n with list ops.
Total(ops, n) == LET sum[i \in 0 .. Len(ops)] ==
                        IF i = 0 THEN 0
                        ELSE sum[i - 1] + (IF ops[i].num = n THEN ops[i].op ELSE 0)
                 IN  sum[Len(ops)]

\* A pass over a list does all of its operations or, semundo having taken back
\* the first ones, none: neither on the values nor on the undo entries.
AllOrNothing ==
    \A p \in Procs, s \in Slots, ops \in Lists :
        LET r == Pass(p, ops, s, IdOf(s))
        IN  IF r.res = "ok"
              THEN \A n \in Nums : r.val[n] = semval[s][n] + Total(ops, n)
              ELSE r.val = semval[s] /\ r.u \in {undo[p]} \cup
                                         (IF undo[p] = None THEN {<<>>} ELSE {})

\* What the entries of u would add to semaphore n of set id at an exit.
Owed(u, id, n) ==
    IF u = None THEN 0
    ELSE SumFunctionOnSet([i \in DOMAIN u |-> u[i].aoe],
                          {i \in DOMAIN u : u[i].id = id /\ u[i].num = n})

\* The adjustments that exit will make are those of the operations that were done
\* with SEM_UNDO: taken together they lead back to what the value would be without.
UndoBalance ==
    \A s \in {t \in Slots : alloc[t]}, n \in Nums :
        semval[s][n] + SumFunction([q \in Procs |-> Owed(undo[q], IdOf(s), n)]) = base[s][n]

\* p has changed semaphores after a page fault in its MOVE.
Changed(p) == pc[p] = "fault" /\ pc'[p] = "user" /\ semval' # semval

\* sem.c:517, "Verify that the semaphores haven't been removed": semop changes
\* only the set its identifier names.
OnlyNamedSet == [][\A p \in Procs : Changed(p) => Semconv(call[p].id)]_vars
=============================================================================
