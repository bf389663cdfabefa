------------------------------- MODULE Timers -------------------------------
(***************************************************************************)
(* What timeout promises: a function that has been asked for is called     *)
(* once, when as many ticks of the clock have passed as were asked for, or *)
(* later, unless it is cancelled before.                                   *)
(***************************************************************************)
EXTENDS Naturals

CONSTANTS Funs, Off

VARIABLES left,  \* per function: the ticks until it is due, or Off
          event  \* what has happened last

Init == left = [f \in Funs |-> Off] /\ event = [op |-> "none"]

Ask(f, t) == left[f] = Off /\ left' = [left EXCEPT ![f] = t]

Cancel(f) == left' = [left EXCEPT ![f] = Off]

Tick == left' = [f \in Funs |-> IF left[f] = Off \/ left[f] = 0 THEN left[f] ELSE left[f] - 1]

\* f is called, and may ask for itself again.
Call(f, t) == left[f] = 0 /\ left' = [left EXCEPT ![f] = t]

Next == CASE event'.op = "ask" -> Ask(event'.f, event'.t)
          [] event'.op = "cancel" -> Cancel(event'.f)
          [] event'.op = "tick" -> Tick
          [] event'.op = "call" -> Call(event'.f, event'.t)
          [] OTHER -> UNCHANGED left

Spec == Init /\ [][Next]_<<left, event>>
=============================================================================
