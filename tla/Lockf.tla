------------------------------- MODULE Lockf --------------------------------
(***************************************************************************)
(* The locks of lockf, os/lockf.c, which are kept apart from those of      *)
(* fcntl: a list of sections per inode, each for one process alone, that   *)
(* lockf changes, read and write wait for (rdwr), and close drops.         *)
(*                                                                         *)
(* Nothing but locked() sleeps, so a call runs from its entry to its end   *)
(* or its sleep while nobody else does.                                    *)
(***************************************************************************)
EXTENDS Integers, FiniteSets, SequencesExt

CONSTANTS LkProcs, LkFiles,
          LkCalls,    \* the f_offset of a call with its size, as pairs
          NFLOCKS,    \* v.v_nflocks, of which one record heads the free list
          EndOfFile,  \* 0x40000000, where a lock of size 0 ends
          Unused

ASSUME LockfAssumption ==
    /\ EndOfFile \in Nat /\ NFLOCKS \in Nat \ {0}
    /\ LkCalls \subseteq (0 .. EndOfFile - 1) \X (-EndOfFile .. EndOfFile)

Cmds == {"LOCK", "TLOCK", "TEST", "ULOCK", "RDWR"}
LockRequest == [file : LkFiles, cmd : Cmds, start : Int, end : Int, type : {"W", "U", "T"}]

ASSUME UnusedAssumption ==
    Unused \notin LkProcs \cup (0 .. NFLOCKS)
                  \cup [p : LkProcs, r : LockRequest \cup [file : LkFiles, type : {"C"}],
                        res : {"ok", "EDEADLK", "EACCES", "EINTR"}]

VARIABLES
    locklist,  \* per file the list at i_locklist: ll_proc, ll_start, ll_end, F_WAITLOCK,
               \* and id for the address
    lkWchan,   \* per process: the record it sleeps for, or Unused
    lkPc,      \* per process: "user", "asleep", "woken"
    lkReq,     \* per process: the request of the call in progress, or Unused
    lkLast     \* history: the last call that returned

lkVars == <<locklist, lkWchan, lkPc, lkReq, lkLast>>

LkInit == /\ locklist = [f \in LkFiles |-> <<>>]
          /\ lkWchan = [p \in LkProcs |-> Unused]
          /\ lkPc = [p \in LkProcs |-> "user"]
          /\ lkReq = [p \in LkProcs |-> Unused]
          /\ lkLast = Unused

-----------------------------------------------------------------------------
\* The record lockalloc takes from the free list, 0 if there is none.
Lockalloc ==
    LET free == 1 .. NFLOCKS - 1 \ {x.id : x \in UNION {ToSet(locklist[f]) : f \in LkFiles}}
    IN  IF free = {} THEN 0 ELSE Min(free)

\* lockadd has got no record for a list that should be l.
NoRecord(l) == \E x \in ToSet(l) : x.id = 0

Section(p, s, e) ==
    [id |-> Lockalloc, proc |-> p, start |-> s, end |-> e, wait |-> FALSE]

\* The section that a call names.
FromTo(offset, size) ==
    CASE size > 0 -> <<offset, offset + size>>
      [] size = 0 -> <<offset, EndOfFile>>
      [] size < 0 -> <<Max({0, offset + size}), offset>>

\* The call of p ends with res; the file has the list l now, and those are woken that
\* sleep for the records in W.
LkReturn(p, r, res, l, W) ==
    /\ locklist' = [locklist EXCEPT ![r.file] = l]
    /\ LET up == {q \in LkProcs \ {p} : lkPc[q] = "asleep" /\ lkWchan[q] \in W}
       IN  /\ lkPc' = [q \in LkProcs |-> CASE q = p -> "user"
                                           [] q \in up -> "woken"
                                           [] OTHER -> lkPc[q]]
           /\ lkWchan' = [q \in LkProcs |-> IF q \in up THEN Unused ELSE lkWchan[q]]
    /\ lkReq' = [lkReq EXCEPT ![p] = Unused]
    /\ lkLast' = [p |-> p, r |-> r, res |-> res]

\* The records of S whose F_WAITLOCK is set.
Waited(S) == {x.id : x \in {y \in S : y.wait}}

-----------------------------------------------------------------------------
(* lockf F_ULOCK, and unlock *)

Overlaps(x, p, s, e) == x.proc = p /\ x.start < e /\ s < x.end

\* The places of the records that are changed, up to the first that goes on behind e.
Touched(l, p, s, e) ==
    {i \in DOMAIN l : /\ Overlaps(l[i], p, s, e)
                      /\ \A j \in 1 .. i - 1 : Overlaps(l[j], p, s, e) => l[j].end <= e}

\* What is left of a record.
Rest(x, s, e) ==
    LET left == [x EXCEPT !.end = s, !.wait = FALSE]
        right == [x EXCEPT !.start = e, !.wait = FALSE]
    IN  CASE x.start < s /\ e < x.end -> <<left, Section(x.proc, e, x.end)>>
          [] x.start < s /\ x.end <= e -> <<left>>
          [] s <= x.start /\ e < x.end -> <<right>>
          [] s <= x.start /\ x.end <= e -> <<>>

Ulock(l, p, s, e) ==
    FlattenSeq([i \in DOMAIN l |->
        IF i \in Touched(l, p, s, e) THEN Rest(l[i], s, e) ELSE <<l[i]>>])

LockfUlock(p, r) ==
    LET l == locklist[r.file]
        new == Ulock(l, p, r.start, r.end)
        W == Waited({l[i] : i \in Touched(l, p, r.start, r.end)})
    IN  /\ r.cmd = "ULOCK" /\ lkPc[p] = "user"
        /\ IF NoRecord(new)
             THEN LkReturn(p, r, "EDEADLK",
                           [i \in DOMAIN l |-> [l[i] EXCEPT !.wait = @ /\ l[i].id \notin W]], W)
             ELSE LkReturn(p, r, "ok", new, W)

Others(l, p) == FlattenSeq([i \in DOMAIN l |-> IF l[i].proc = p THEN <<>> ELSE <<l[i]>>])

\* unlock: any close of the file drops the records of the process.
Unlock(p, f) ==
    /\ lkPc[p] = "user" /\ \E i \in DOMAIN locklist[f] : locklist[f][i].proc = p
    /\ LkReturn(p, [file |-> f, type |-> "C"], "ok",
                Others(locklist[f], p),
                Waited({x \in ToSet(locklist[f]) : x.proc = p}))

-----------------------------------------------------------------------------
(* locked and deadlock *)

InSection(l, p, r) ==
    {i \in DOMAIN l : l[i].proc # p /\ l[i].start < r.end /\ r.start < l[i].end}

\* The owner of a record of a list.
Owner(i) == CHOOSE p \in LkProcs :
                \E f \in LkFiles : \E x \in ToSet(locklist[f]) : x.id = i /\ x.proc = p

\* Fault: only the process that q waits for is looked at.
DeadlockOne(q, p) == lkWchan[q] # Unused /\ Owner(lkWchan[q]) = p

\* q waits for p, directly or not: every set that has q, and with a process that sleeps
\* for a record the owner of the record, has p.
Deadlock(q, p) ==
    \A S \in SUBSET LkProcs :
        q \in S /\ (\A x \in S : lkWchan[x] # Unused => Owner(lkWchan[x]) \in S) => p \in S

-----------------------------------------------------------------------------
(* lockf F_LOCK and F_TLOCK *)

\* The record behind which a section that starts at s goes.
Before(l, s) == Max({1} \cup {i \in DOMAIN l : \A j \in 2 .. i : l[j].start < s})

\* Fault: what follows the grown record is swallowed as a whole.
AbsorbWhole(l, k) ==
    LET next == {m \in k .. Len(l) : \A j \in k + 1 .. m : /\ l[j].proc = l[k].proc
                                                           /\ l[j].start <= l[k].end}
    IN  [l |-> SubSeq(l, 1, k) \o SubSeq(l, Max(next) + 1, Len(l)),
         gone |-> {l[j] : j \in k + 1 .. Max(next)}]

\* Record k has grown: the records of the process that follow it and that it reaches
\* become part of it.
Absorb(l, k) ==
    LET next == {m \in k .. Len(l) : \A j \in k + 1 .. m : /\ l[j].proc = l[k].proc
                                                           /\ l[j].start <= l[k].end
                                                           /\ j > k + 1 => l[j - 1].end < l[k].end}
        m == Max(next)
    IN  [l |-> SubSeq(l, 1, k - 1) \o <<[l[k] EXCEPT !.end = Max({l[k].end, l[m].end})]>>
                 \o SubSeq(l, m + 1, Len(l)),
         gone |-> {l[j] : j \in k + 1 .. m}]

Kept(l) == [l |-> l, gone |-> {}]

\* The list with p's section added, and the records that are not needed any more.
Add(l, p, s, e) ==
    IF l = <<>> \/ e < l[1].start \/ (e = l[1].start /\ l[1].proc # p)
      THEN Kept(<<Section(p, s, e)>> \o l)
      ELSE LET l1 == [l EXCEPT ![1].start = IF s < @ THEN s ELSE @]
               k == Before(l1, s)
           IN  IF k < Len(l1) /\ e <= l1[k].end THEN Kept(l1)
               ELSE IF l1[k].proc = p /\ s <= l1[k].end
                 THEN Absorb([l1 EXCEPT ![k].end = Max({@, e})], k)
                 ELSE Absorb(InsertAt(l1, k + 1, Section(p, s, e)), k + 1)

-----------------------------------------------------------------------------
\* Nothing is in the way.
Granted(p, r) ==
    LET l == locklist[r.file]
        a == IF r.cmd \in {"TEST", "RDWR"} THEN Kept(l) ELSE Add(l, p, r.start, r.end)
    IN  /\ InSection(l, p, r) = {}
        /\ IF NoRecord(a.l) THEN LkReturn(p, r, "EDEADLK", l, {})
                            ELSE LkReturn(p, r, "ok", a.l, Waited(a.gone))

\* Something is: fail,
Refused(p, r) ==
    LET l == locklist[r.file]
    IN  /\ InSection(l, p, r) # {}
        /\ LET q == l[Min(InSection(l, p, r))].proc
               res == IF r.cmd \in {"TLOCK", "TEST"} THEN "EACCES" ELSE "EDEADLK"
           IN  (res = "EDEADLK" => Deadlock(q, p)) /\ LkReturn(p, r, res, l, {})

\* or sleep for the first of it.
Waits(p, r) ==
    LET l == locklist[r.file]
        i == Min(InSection(l, p, r))
    IN  /\ r.cmd \in {"LOCK", "RDWR"} /\ InSection(l, p, r) # {} /\ ~Deadlock(l[i].proc, p)
        /\ locklist' = [locklist EXCEPT ![r.file][i].wait = TRUE]
        /\ lkWchan' = [lkWchan EXCEPT ![p] = l[i].id]
        /\ lkPc' = [lkPc EXCEPT ![p] = "asleep"]
        /\ lkReq' = [lkReq EXCEPT ![p] = r]
        /\ UNCHANGED lkLast

Locked(p, r) == Granted(p, r) \/ Refused(p, r) \/ Waits(p, r)

\* lockf, and rdwr where it asks for the section it reads or writes.
Lockf(p, r) == r.cmd # "ULOCK" /\ lkPc[p] = "user" /\ Locked(p, r)

LockfAgain(p) == lkPc[p] = "woken" /\ Locked(p, lkReq[p])

\* A signal ends the sleep, and the call.
LkSignal(p) == /\ lkPc[p] = "asleep"
               /\ lkPc' = [lkPc EXCEPT ![p] = "woken"]
               /\ lkWchan' = [lkWchan EXCEPT ![p] = Unused]
               /\ UNCHANGED <<locklist, lkReq, lkLast>>

LockfIntr(p) == /\ lkPc[p] = "woken"
                /\ LkReturn(p, lkReq[p], "EINTR", locklist[lkReq[p].file], {})

LkRequest(f, cmd, g) ==
    LET section == FromTo(g[1], g[2])
    IN  [file |-> f, cmd |-> cmd, start |-> section[1], end |-> section[2],
         type |-> CASE cmd \in {"LOCK", "TLOCK"} -> "W"
                    [] cmd = "ULOCK" -> "U"
                    [] OTHER -> "T"]

LkNext == \E p \in LkProcs :
    \/ \E f \in LkFiles :
          \/ \E cmd \in Cmds, g \in LkCalls :
                /\ cmd = "RDWR" => g[2] > 0
                /\ LockfUlock(p, LkRequest(f, cmd, g)) \/ Lockf(p, LkRequest(f, cmd, g))
          \/ Unlock(p, f)
    \/ LockfAgain(p) \/ LkSignal(p) \/ LockfIntr(p)

LkSpec == LkInit /\ [][LkNext]_lkVars

-----------------------------------------------------------------------------
\* Whoever sleeps is woken once the others go on: the record it sleeps for is in its way,
\* and is marked, so that who shortens or frees it wakes the process; and processes never
\* wait for each other's records in a circle, in which deadlock() would not end either.
LockfNoLostWakeup ==
    /\ \A p \in LkProcs : lkPc[p] = "asleep" =>
          LET l == locklist[lkReq[p].file]
          IN  \E i \in InSection(l, p, lkReq[p]) : l[i].id = lkWchan[p] /\ l[i].wait
    /\ ~\E S \in (SUBSET LkProcs) \ {{}} :
          \A p \in S : lkWchan[p] # Unused /\ Owner(lkWchan[p]) \in S

LkBytes == 0 .. EndOfFile - 1
Locks == INSTANCE ByteLocks WITH
    Procs <- LkProcs, Files <- LkFiles, Bytes <- LkBytes, None <- Unused, last <- lkLast,
    held <- [p \in LkProcs |-> [f \in LkFiles |-> [b \in LkBytes |->
                IF \E x \in ToSet(locklist[f]) : x.proc = p /\ x.start <= b /\ b < x.end
                  THEN "W" ELSE "N"]]]

\* Sections are locked and unlocked byte by byte as asked for, whatever the records are
\* that are joined, cut and severed for it; no byte is locked by two processes; and read,
\* write and a test go on only if nobody else has locked what they name.
IsLockf == Locks!Spec
=============================================================================
