---------------------------- MODULE AddressSpace ----------------------------
(***************************************************************************)
(* What paging must not disturb: a region holds what was last written to   *)
(* it by the processes attached to it, a new one what it is made from, and *)
(* the copy a fork makes what its original held.                           *)
(***************************************************************************)
CONSTANTS Regions, Free

VARIABLES mem,   \* per region: its contents, or Free
          last   \* the operation of a process that was done last

Init == mem = [r \in Regions |-> Free] /\ last = [op |-> "none"]

Make(r, w) == mem[r] = Free /\ mem' = [mem EXCEPT ![r] = w]

Write(r, w) == mem[r] # Free /\ mem' = [mem EXCEPT ![r] = w]

Copy(r, s) == mem[s] = Free /\ mem' = [mem EXCEPT ![s] = mem[r]]

Drop(r) == mem' = [mem EXCEPT ![r] = Free]

Next == CASE last'.op = "make" -> Make(last'.r, last'.w)
          [] last'.op = "write" -> Write(last'.r, last'.w)
          [] last'.op = "copy" -> Copy(last'.r, last'.s)
          [] last'.op = "drop" -> Drop(last'.r)
          [] OTHER -> UNCHANGED mem

Spec == Init /\ [][Next]_<<mem, last>>
=============================================================================
