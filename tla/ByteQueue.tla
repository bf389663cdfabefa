------------------------------ MODULE ByteQueue ------------------------------
(***************************************************************************)
(* What a pipe promises (os/pipe.c and the FIFO parts of os/rdwri.c): a    *)
(* queue of at most Size bytes.  Bytes are put at its end only while       *)
(* somebody has it open for reading, and are taken from its front.  When   *)
(* the last one has left, what is in it is thrown away before anything is  *)
(* put into it or taken out of it again.  A copy from or to user space     *)
(* that fails half way spoils the contents until the queue is empty.       *)
(***************************************************************************)
EXTENDS Sequences, Naturals

CONSTANTS Bytes, Size

VARIABLES queue,    \* the bytes in the pipe
          spoilt,   \* the contents are not to be relied on
          stale,    \* everybody has left, and the contents have to go
          readers,  \* open files, and opens under way, for reading
          writers   \* the same for writing

vars == <<queue, spoilt, stale, readers, writers>>

Init == /\ queue = <<>> /\ spoilt = FALSE /\ stale = FALSE
        /\ readers = 0 /\ writers = 0

Put == \E n \in 1 .. Size, b \in Bytes :
          /\ readers > 0
          /\ Len(queue) + n <= Size
          /\ ~spoilt /\ ~stale
          /\ queue' = queue \o [i \in 1 .. n |-> b]
          /\ UNCHANGED <<spoilt, stale, readers, writers>>

Get == \E n \in 1 .. Len(queue) :
          /\ ~spoilt /\ ~stale
          /\ queue' = SubSeq(queue, n + 1, Len(queue))
          /\ UNCHANGED <<spoilt, stale, readers, writers>>

Spoil == /\ ~stale /\ spoilt'
         /\ UNCHANGED <<stale, readers, writers>>

Recover == /\ ~stale /\ spoilt /\ ~spoilt' /\ queue' = <<>>
           /\ UNCHANGED <<stale, readers, writers>>

Join == /\ readers' >= readers /\ writers' >= writers
        /\ UNCHANGED <<queue, spoilt, stale>>

Leave == /\ readers' <= readers /\ writers' <= writers
         /\ stale' = (readers' = 0 /\ writers' = 0)
         /\ UNCHANGED <<queue, spoilt>>

Discard == /\ stale /\ ~stale'
           /\ queue' = <<>> /\ ~spoilt'
           /\ UNCHANGED <<readers, writers>>

Next == Put \/ Get \/ Spoil \/ Recover \/ Join \/ Leave \/ Discard

Spec == Init /\ [][Next]_vars
=============================================================================
