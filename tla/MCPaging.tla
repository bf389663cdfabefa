------------------------------ MODULE MCPaging ------------------------------
(* Small instances of Paging for TLC. *)
EXTENDS Paging, TLC

Kind(k, n, d) == [kind |-> k, noswap |-> n, dbd |-> d]

\* Data of programs, and shared memory that is locked in core (SHM_LOCK).
Programs == {Kind("private", FALSE, "DZERO"), Kind("private", FALSE, File),
             Kind("shared", TRUE, "DZERO")}

\* Shared memory that is not locked.
Swappable == {Kind("shared", FALSE, "DZERO")}

\* What free frames and free pages of swap hold does not matter.
PgView == <<[f \in Frames |-> IF frame[f].use = 0 /\ frame[f].hash = Null
                              THEN Null ELSE frame[f]],
          freeq, freemem, ucnt,
          [b \in SwapBlks |-> IF ucnt[b] = 0 THEN Null ELSE disk[b]],
          gpgslock, reg, at, loc, oops>>

PgSymmetry == Permutations(PgProcs) \cup Permutations(Daemons) \cup Permutations(Regions)
              \cup Permutations(Frames) \cup Permutations(SwapBlks) \cup Permutations(Values)
=============================================================================
