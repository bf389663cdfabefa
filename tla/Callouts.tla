------------------------------ MODULE Callouts ------------------------------
(***************************************************************************)
(* The callout table, os/timeout.c: timeout, cancelto and timein, which    *)
(* the clock interrupt (os/clock.c) calls at spl1, so that other           *)
(* interrupts, the next one of the clock among them, may come in between.  *)
(*                                                                         *)
(* A function stands for a function with its argument.  The time of an     *)
(* entry without a function is not kept: the code changes but never uses   *)
(* it.                                                                     *)
(***************************************************************************)
EXTENDS Integers, FiniteSets, Functions

CONSTANTS Funs,
          Periodic,  \* those that ask for themselves again when they are called
          Delays,    \* the times asked for
          NCALL,     \* v.v_call, the entries of the table
          Drivers,   \* input: interrupts of drivers call timeout and cancelto while
                     \* timein runs
          Nofun

ASSUME CalloutsAssumption ==
    /\ Periodic \subseteq Funs /\ Nofun \notin Funs
    /\ Delays \subseteq Nat \ {0} /\ NCALL \in Nat \ {0, 1} /\ Drivers \in BOOLEAN

VARIABLES
    callout,  \* the table: per entry c_func with its c_arg, and c_time
    timein,   \* where timein is, with its p1 and p2
    panicked,
    event     \* history: what has happened last

clkVars == <<callout, timein, panicked, event>>

Callos == 0 .. NCALL - 1
Nothing == [fun |-> Nofun, time |-> 0]
TimeinIdle == [at |-> "idle", p1 |-> 0, p2 |-> 0, ticked |-> FALSE]

ClkInit == /\ callout = [e \in Callos |-> Nothing]
           /\ timein = TimeinIdle
           /\ panicked = FALSE
           /\ event = [op |-> "none"]

\* Where a loop that runs from entry e while the entries are in S stops.
Stop(e, S) == CHOOSE n \in e .. NCALL - 1 :
                  n \notin S /\ \A k \in e .. n - 1 : k \in S

InUse(c) == {e \in Callos : c[e].fun # Nofun}

\* The sum of the times from entry a to entry b.
Elapsed(c, a, b) == FoldFunctionOnSet(+, 0, [e \in Callos |-> c[e].time], a .. b)

-----------------------------------------------------------------------------
(* timeout and cancelto, at splhi *)

\* Fault: the entry that follows the new one keeps its time.
EnterLate(c, f, t) ==
    LET p1 == Stop(0, {e \in InUse(c) : Elapsed(c, 0, e) <= t})
        p2 == Stop(p1, InUse(c))
    IN  [e \in Callos |->
            CASE e < p1 \/ e > p2 + 1 -> c[e]
              [] e = p1 -> [fun |-> f, time |-> t - Elapsed(c, 0, p1 - 1)]
              [] OTHER -> c[e - 1]]

\* The table after timeout has put f into its place.
Enter(c, f, t) ==
    LET p1 == Stop(0, {e \in InUse(c) : Elapsed(c, 0, e) <= t})
        p2 == Stop(p1, InUse(c))
        rest == t - Elapsed(c, 0, p1 - 1)
    IN  [e \in Callos |->
            CASE e < p1 \/ e > p2 + 1 -> c[e]
              [] e = p1 -> [fun |-> f, time |-> rest]
              [] e = p1 + 1 /\ p1 # p2 -> [c[p1] EXCEPT !.time = @ - rest]
              [] OTHER -> c[e - 1]]

Overflow == callout[NCALL - 2].fun # Nofun

\* Drivers may interrupt timein; processes do not run then.
Allowed == ~panicked /\ (timein.at = "idle" \/ Drivers)

\* The entries that are still to be called, or to be kept.
Live == CASE timein.at = "idle" -> 0 .. Stop(0, InUse(callout)) - 1
          [] timein.at = "walk" -> timein.p1 .. Stop(timein.p1, InUse(callout)) - 1
          [] timein.at = "move" -> (0 .. timein.p2 - 1)
                                     \cup (timein.p1 .. Stop(timein.p1, InUse(callout)) - 1)

Due(f) == {e \in Live : callout[e].fun = f}

\* Nobody asks for a function twice.
Timeout(f, t) ==
    /\ Allowed /\ Due(f) = {}
    /\ IF Overflow THEN panicked' = TRUE /\ event' = [op |-> "none"] /\ UNCHANGED callout
                   ELSE /\ callout' = Enter(callout, f, t)
                        /\ event' = [op |-> "ask", f |-> f, t |-> t]
                        /\ UNCHANGED panicked
    /\ UNCHANGED timein

\* The table after entry e has been taken out; the next one takes over its time.
TakeOut(c, e) ==
    LET end == Stop(e + 1, InUse(c))
        joined == [c EXCEPT ![e + 1].time = @ + c[e].time]
    IN  [k \in Callos |-> CASE k \in e .. end - 2 -> joined[k + 1]
                             [] k = end - 1 -> Nothing
                             [] OTHER -> c[k]]

\* The search goes on behind the end of the table in use, where old entries may be.
Cancelto(f) ==
    /\ Allowed
    /\ LET S == {e \in 0 .. NCALL - 2 : callout[e].fun = f}
       IN  callout' = IF S = {} THEN callout
                      ELSE TakeOut(callout, CHOOSE e \in S : \A k \in S : e <= k)
    /\ event' = [op |-> "cancel", f |-> f]
    /\ UNCHANGED <<timein, panicked>>

-----------------------------------------------------------------------------
(* The clock *)

\* The first entry that is not due yet is one tick nearer.
Counted(c) == LET e == Stop(0, {k \in InUse(c) : c[k].time <= 0})
              IN  IF c[e].fun = Nofun THEN c ELSE [c EXCEPT ![e].time = @ - 1]

\* The interrupt; low: what it interrupts runs at priority 0.  While timein runs there
\* is one more of them at most (bound: ticked).
Clock(low) ==
    /\ ~panicked /\ ~timein.ticked
    /\ callout' = Counted(callout)
    /\ timein' = CASE timein.at # "idle" -> [timein EXCEPT !.ticked = TRUE]
                   [] /\ timein.at = "idle" /\ low
                      /\ callout'[0].fun # Nofun /\ callout'[0].time <= 0
                        -> [TimeinIdle EXCEPT !.at = "walk"]
                   [] OTHER -> timein
    /\ event' = [op |-> "tick"]
    /\ UNCHANGED panicked

\* A function that is due is called.
TimeinCall ==
    LET e == timein.p1
        f == callout[e].fun
    IN  /\ timein.at = "walk" /\ f # Nofun /\ callout[e].time <= 0
        /\ timein' = [timein EXCEPT !.p1 = e + 1]
        /\ \/ /\ f \notin Periodic
              /\ event' = [op |-> "call", f |-> f, t |-> Nofun]
              /\ UNCHANGED <<callout, panicked>>
           \/ /\ f \in Periodic
              /\ \E t \in Delays :
                    /\ event' = [op |-> "call", f |-> f, t |-> IF Overflow THEN Nofun ELSE t]
                    /\ callout' = IF Overflow THEN callout ELSE Enter(callout, f, t)
              /\ panicked' = Overflow

\* Nothing more is due: move what is left to the front,
TimeinEnd ==
    /\ timein.at = "walk" /\ (callout[timein.p1].fun = Nofun \/ callout[timein.p1].time > 0)
    /\ timein' = [timein EXCEPT !.at = "move"]
    /\ event' = [op |-> "none"]
    /\ UNCHANGED <<callout, panicked>>

\* one entry after the other.
TimeinMove ==
    LET e == callout[timein.p1]
    IN  /\ timein.at = "move"
        /\ callout' = [callout EXCEPT ![timein.p2] = e]
        /\ timein' = IF e.fun = Nofun THEN TimeinIdle
                     ELSE [timein EXCEPT !.p1 = @ + 1, !.p2 = @ + 1]
        /\ event' = [op |-> "none"]
        /\ UNCHANGED panicked

Timein == ~panicked /\ (TimeinCall \/ TimeinEnd \/ TimeinMove)

ClkNext == \/ \E f \in Funs : (\E t \in Delays : Timeout(f, t)) \/ Cancelto(f)
           \/ \E low \in BOOLEAN : Clock(low)
           \/ Timein

ClkSpec == ClkInit /\ [][ClkNext]_clkVars

-----------------------------------------------------------------------------
\* How long it will be until the function of entry e is due.
Left(e) == IF timein.at = "move" /\ e >= timein.p1
           THEN Elapsed(callout, 0, timein.p2 - 1) + Elapsed(callout, timein.p1, e)
           ELSE Elapsed(callout, 0, e)

Timing == INSTANCE Timers WITH
    Off <- Nofun,
    left <- [f \in Funs |-> IF Due(f) = {} THEN Nofun ELSE Left(CHOOSE e \in Due(f) : TRUE)]

\* timeout.c:20, "timeout is called to arrange that fun(arg) is called in tim/HZ
\* seconds": once, not before, and whatever else is asked for, cancelled or called.
IsTimers == Timing!Spec
=============================================================================
