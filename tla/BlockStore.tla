----------------------------- MODULE BlockStore -----------------------------
(***************************************************************************)
(* What the buffer cache of os/bio.c promises to the file system code that *)
(* calls it: every disk block behaves as one cell that at most one process *)
(* has in its hands at a time, and a process that reads a block sees what  *)
(* was last written to it.  Buffers, the available list, delayed writes,   *)
(* read-ahead and the disk queue do not exist at this level.               *)
(***************************************************************************)
CONSTANTS Procs,    \* processes that call bread, getblk, bwrite ...
          Blocks,   \* blocks of the devices that stay open
          Values,   \* contents of a block
          Junk,     \* contents left over from some other use of a buffer
          None      \* "no block in hand"

VARIABLES store,    \* [Blocks -> Values]: the contents of each block
          hand      \* per process: the block it was handed, or None

vars == <<store, hand>>

\* "read": handed out by bread or breada; "blank": handed out by getblk.
Handle == [how : {"read", "blank"}, blk : Blocks, val : Values \cup {Junk}]

TypeOK == /\ store \in [Blocks -> Values]
          /\ hand \in [Procs -> Handle \cup {None}]

Init == /\ store \in [Blocks -> Values]
        /\ hand = [p \in Procs |-> None]

\* Nobody has block b in hand.
Free(b) == \A p \in Procs : hand[p] = None \/ hand[p].blk # b

\* bread and breada: the process is handed the current contents.
Read(p, b) ==
    /\ hand[p] = None /\ Free(b)
    /\ hand' = [hand EXCEPT ![p] = [how |-> "read", blk |-> b, val |-> store[b]]]
    /\ UNCHANGED store

\* getblk: the process is handed the block for overwriting; a block that was
\* not in core comes with whatever the buffer held before.
Grab(p, b) ==
    /\ hand[p] = None /\ Free(b)
    /\ \E v \in {store[b], Junk} :
          hand' = [hand EXCEPT ![p] = [how |-> "blank", blk |-> b, val |-> v]]
    /\ UNCHANGED store

\* bwrite, bawrite and bdwrite: the new contents are the block's from the call on.
Write(p, v) ==
    /\ hand[p] # None
    /\ store' = [store EXCEPT ![hand[p].blk] = v]
    /\ hand' = [hand EXCEPT ![p] = None]

\* brelse: the block is given back as it was.
Release(p) ==
    /\ hand[p] # None
    /\ hand' = [hand EXCEPT ![p] = None]
    /\ UNCHANGED store

Next == \E p \in Procs :
            \/ \E b \in Blocks : Read(p, b) \/ Grab(p, b)
            \/ \E v \in Values : Write(p, v)
            \/ Release(p)

Spec == Init /\ [][Next]_vars
=============================================================================
