------------------------------ MODULE FlockList ------------------------------
(***************************************************************************)
(* The list of record locks of one file, and the operations of os/flock.c  *)
(* on it: which lock stands in the way of a request (blocked), and what a  *)
(* lock or unlock does to the locks its process has already (flckadj).     *)
(*                                                                         *)
(* A lock is a record of its owner, its type, and the bytes it covers,     *)
(* start .. end - 1.  wakeflg says that somebody sleeps for it, slp who    *)
(* does: a process sleeps on the address of the lock that is in its way.   *)
(* A pointer into the list is an index, NULL the index 0.                  *)
(***************************************************************************)
EXTENDS Integers, SequencesExt

CONSTANT MaxEnd    \* MAXEND, the end of a lock "until end of file"

ASSUME MaxEndAssumption == MaxEnd \in Nat \ {0}

\* l_end: a length of 0 reaches to the end of any file; the sum of two longs
\* keeps the width of a long, whose largest value is MAXEND.
EndOf(start, len) ==
    IF len = 0 THEN MaxEnd
               ELSE ((start + len + MaxEnd + 1) % (2 * (MaxEnd + 1))) - (MaxEnd + 1)

\* A new lock record for the request ld of process p (insflck).
NewLock(p, ld) == [pid |-> p, type |-> ld.type, start |-> ld.start, end |-> ld.end,
                   wakeflg |-> FALSE, slp |-> {}]

-----------------------------------------------------------------------------
(* blocked *)

\* Lock f of another process is in the way of the request ld of p.
InTheWay(p, ld, f) == /\ f.pid # p
                      /\ ld.start < f.end /\ ld.end > f.start
                      /\ f.type = "W" \/ (f.type = "R" /\ ld.type = "W")

\* Lock f of p itself overlaps or adjoins the request.
Adjoins(p, ld, f) == f.pid = p /\ ld.start <= f.end /\ ld.end >= f.start

\* Where blocked's first loop stops: at a lock that does not start before the
\* request, or at one of p's own that adjoins it.
FirstStop(l, p, ld) ==
    Min({i \in DOMAIN l : l[i].start >= ld.start \/ Adjoins(p, ld, l[i])}
        \cup {Len(l) + 1})

\* The lock blocked returns.  The second loop gives up at a lock that starts
\* after the request, since the locks are meant to be in the order of their
\* starts.
Blocked(l, p, ld) ==
    LET n == FirstStop(l, p, ld)
        S == {i \in DOMAIN l : /\ InTheWay(p, ld, l[i])
                               /\ \A k \in n .. i - 1 : l[k].start <= ld.end}
    IN  IF S = {} THEN 0 ELSE Min(S)

\* Fault: a new lock always goes to the head of the list.
InsrtHead(l, p, ld) == 0

\* The insrt blocked leaves when it returns NULL.
Insrt(l, p, ld) ==
    LET n == FirstStop(l, p, ld)
    IN  IF n <= Len(l) /\ l[n].start < ld.start THEN n ELSE n - 1

-----------------------------------------------------------------------------
(* regflck and flckadj *)

\* Where a request starts and ends relative to an existing lock f.
Regflck(ld, f) ==
    IF ld.start >= f.end /\ ld.start > f.start
      THEN <<IF ld.start = f.end THEN "END" ELSE "AFTER", "AFTER">>
      ELSE <<CASE ld.start > f.start -> "MIDDLE"
               [] ld.start = f.start -> "START"
               [] OTHER              -> "BEFORE",
             CASE ld.end > f.start /\ ld.end > f.end -> "AFTER"
               [] ld.end > f.start /\ ld.end = f.end -> "END"
               [] ld.end > f.start /\ ld.end < f.end -> "MIDDLE"
               [] ld.end = f.start                   -> "START"
               [] OTHER                              -> "BEFORE">>

\* From index i on, pass over the locks that start before x.
Pass(l, i, x) == Max({i} \cup {j \in i .. Len(l) :
                                  \A k \in i .. j : l[k].start < x})

\* The state of flckadj's loop: the list, flp, insrtp, the request (which grows
\* when it is merged), the free lock records, the processes woken so far, and
\* rv: "go" in the loop, "stop" behind it, "ok" and "ENOSPC" when it returns.
Step(s, i, r) == [s EXCEPT !.flp = i, !.rv = r]

\* delflck of flp; insrtp moves off it, next is the element that takes its place.
Delete(s) ==
    [s EXCEPT !.l = RemoveAt(@, s.flp),
              !.insrtp = IF @ = s.flp THEN @ - 1 ELSE @,
              !.nfree = @ + 1,
              !.woken = @ \cup (IF s.l[s.flp].wakeflg THEN s.l[s.flp].slp ELSE {})]

\* Fault: the sleepers of a lock that is cut short are not woken.
TrimSilently(s) ==
    [s EXCEPT !.l[s.flp].end = s.ld.start,
              !.insrtp = s.flp]

\* flp ends where the request starts, and its sleepers are woken.
Trim(s) ==
    LET f == s.l[s.flp]
    IN  [s EXCEPT !.l[s.flp] = IF f.wakeflg
                                 THEN [f EXCEPT !.end = s.ld.start,
                                                !.wakeflg = FALSE, !.slp = {}]
                                 ELSE [f EXCEPT !.end = s.ld.start],
                  !.insrtp = s.flp,
                  !.woken = @ \cup (IF f.wakeflg THEN f.slp ELSE {})]

\* Fault: the piece behind the request starts where the request starts.
SeverAtStart(s) ==
    LET f == s.l[s.flp]
        td == NewLock(f.pid, [f EXCEPT !.start = s.ld.start])
    IN  [s EXCEPT !.l = InsertAt(@, Pass(@, s.flp, s.ld.start) + 1, td),
                  !.nfree = @ - 1]

\* The piece of flp behind the request becomes a lock of its own.
Sever(s) ==
    LET f == s.l[s.flp]
        td == NewLock(f.pid, [f EXCEPT !.start = s.ld.end])
    IN  [s EXCEPT !.l = InsertAt(@, Pass(@, s.flp, s.ld.start) + 1, td),
                  !.nfree = @ - 1]

\* One turn of the loop, for a lock flp of the process itself.
AdjustOwn(s) ==
    LET f == s.l[s.flp]
        same == s.ld.type = f.type
        reg == Regflck(s.ld, f)
        del == Delete(s)
        before == [del EXCEPT !.insrtp = s.flp - 1]    \* insrtp = flp->prev
    IN  CASE reg = <<"BEFORE", "BEFORE">> -> Step(s, s.flp, "stop")
          [] reg = <<"BEFORE", "START">> ->
                Step(IF same THEN [del EXCEPT !.ld.end = f.end] ELSE s, s.flp, "stop")
          [] reg = <<"START", "END">> -> IF same THEN Step(s, s.flp, "ok") ELSE before
          [] reg = <<"START", "AFTER">> -> before
          [] reg = <<"BEFORE", "END">> -> IF same THEN Step(del, s.flp, "stop") ELSE del
          [] reg = <<"BEFORE", "AFTER">> -> del
          [] reg = <<"BEFORE", "MIDDLE">> ->
                IF same THEN Step([del EXCEPT !.ld.end = f.end], s.flp, "stop")
                ELSE IF s.nfree = 0 THEN Step(s, s.flp, "ENOSPC")
                ELSE Step(Delete(Sever(s)), s.flp, "stop")
          [] reg \in {<<"START", "MIDDLE">>, <<"MIDDLE", "MIDDLE">>} ->
                IF same THEN Step(s, s.flp, "ok")
                ELSE IF s.nfree = 0 THEN Step(s, s.flp, "ENOSPC")
                ELSE IF reg[1] = "MIDDLE" THEN Step(Trim(Sever(s)), s.flp, "stop")
                ELSE Step([Delete(Sever(s)) EXCEPT !.insrtp = s.flp - 1], s.flp, "stop")
          [] reg = <<"MIDDLE", "END">> ->
                IF same THEN Step(s, s.flp, "ok") ELSE Step(Trim(s), s.flp + 1, "go")
          [] reg \in {<<"MIDDLE", "AFTER">>, <<"END", "AFTER">>} ->
                IF same THEN [before EXCEPT !.ld.start = f.start]
                        ELSE Step(Trim(s), s.flp + 1, "go")
          [] reg = <<"AFTER", "AFTER">> ->
                Step([s EXCEPT !.insrtp = s.flp], s.flp + 1, "go")
          [] OTHER -> Step(s, s.flp + 1, "go")      \* only for an empty lock

\* One turn of the loop.
Adjust(s, p) ==
    IF s.rv # "go" \/ s.flp > Len(s.l) THEN s
    ELSE IF s.l[s.flp].pid = p THEN AdjustOwn(s)
    ELSE IF s.l[s.flp].start > s.ld.end THEN Step(s, s.flp, "stop")
    ELSE Step(s, s.flp + 1, "go")

\* Where flckadj begins: at the lock insrtp, with nfree lock records to be had.
Begin(l, insrtp, ld, nfree) ==
    [l |-> l, flp |-> IF insrtp = 0 THEN 1 ELSE insrtp, insrtp |-> insrtp, ld |-> ld,
     nfree |-> nfree, woken |-> {}, rv |-> "go"]

\* The state of the loop after n turns.
Adjusted(s, p, n) ==
    LET loop[i \in 0 .. n] == IF i = 0 THEN s ELSE Adjust(loop[i - 1], p)
    IN  loop[n]

\* flckadj for the request ld of p on the list l: the new list, the processes
\* woken, the records left, and the value returned.
Flckadj(l, insrtp, ld, p, nfree) ==
    LET s == Adjusted(Begin(l, insrtp, ld, nfree), p, Len(l))
    IN  IF s.rv \in {"ok", "ENOSPC"} THEN s
        ELSE IF s.ld.type = "U" THEN [s EXCEPT !.rv = "ok"]
        ELSE IF s.nfree = 0 THEN [s EXCEPT !.rv = "ENOSPC"]
        ELSE LET i == IF s.insrtp = 0 THEN 0 ELSE Pass(s.l, s.insrtp, s.ld.start)
             IN  [s EXCEPT !.l = InsertAt(@, i + 1, NewLock(p, s.ld)),
                           !.nfree = @ - 1, !.rv = "ok"]

-----------------------------------------------------------------------------
(* cleanlocks *)

\* One turn of the loop of cleanlocks: a lock of p is deleted.
Clean(s, p) ==
    IF s.flp > Len(s.l) THEN s
    ELSE IF s.l[s.flp].pid = p THEN Delete(s)
    ELSE Step(s, s.flp + 1, "go")

\* What is left of the list l without the locks of p: it has no request.
Cleaned(l, p, nfree) ==
    LET loop[i \in 0 .. Len(l)] ==
            IF i = 0 THEN Begin(l, 0, "none", nfree) ELSE Clean(loop[i - 1], p)
    IN  loop[Len(l)]

-----------------------------------------------------------------------------
\* Byte b is covered by the lock or request f.
Covers(f, b) == f.start <= b /\ b < f.end
=============================================================================
