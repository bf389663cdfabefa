------------------------------ MODULE MCKernel ------------------------------
(* Five tables of the kernel that share no state: record locks, messages, memory,   *)
(* inodes and callouts.  Which of them is exercised is chosen at the start; the     *)
(* others stay as they are.                                                         *)
EXTENDS MCRecordLock, MCMessageQueues, MCPaging, InodeTable, Callouts

CONSTANT Parts  \* a subset of {"rec", "msg", "mem", "ino", "clk"}

VARIABLE part

KernelInit == Init /\ MsgInit /\ PgInit /\ InoInit /\ ClkInit /\ part \in Parts

RecStep == part = "rec" /\ Next /\ UNCHANGED <<msgVars, pgVars, inoVars, clkVars, part>>
MsgStep == part = "msg" /\ MsgNext /\ UNCHANGED <<vars, pgVars, inoVars, clkVars, part>>
MemStep == part = "mem" /\ PgNext /\ UNCHANGED <<vars, msgVars, inoVars, clkVars, part>>
InoStep == part = "ino" /\ InoNext /\ UNCHANGED <<vars, msgVars, pgVars, clkVars, part>>
ClkStep == part = "clk" /\ ClkNext /\ UNCHANGED <<vars, msgVars, pgVars, inoVars, part>>

KernelSpec == KernelInit /\ [][RecStep \/ MsgStep \/ MemStep \/ InoStep \/ ClkStep]_
                                 <<vars, msgVars, pgVars, inoVars, clkVars, part>>

\* What is left of the super block's list does not matter.
InoView == <<islot, ifreelist, mcount, dino,
             [e \in InoEntries |-> IF e = 0 \/ e < sNinode \/ sIlock THEN sInode[e] ELSE 0],
             sNinode, sIlock, entries, dirLock, iproc, ichan>>
KernelView == CASE part = "rec" -> <<part, View>>
                [] part = "msg" -> <<part, MsgView>>
                [] part = "mem" -> <<part, PgView>>
                [] part = "ino" -> <<part, InoView>>
                [] part = "clk" -> <<part, callout, timein, panicked>>

\* The processes are the same but for record locks, of which they take different types, and
\* the slots of inodes are named like frames.
KernelSymmetry == Permutations(MsgProcs) \cup Permutations(Frames)
=============================================================================
