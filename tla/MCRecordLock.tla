---------------------------- MODULE MCRecordLock ----------------------------
(* Small instances of RecordLock for TLC. *)
EXTENDS RecordLock

\* Every lock of one byte or more that fits, each given by its length, the ones
\* to the end of the file, and one that starts before the file.
Proper == {g \in (0 .. MaxEnd - 1) \X (0 .. MaxEnd) : g[1] + g[2] <= MaxEnd}
              \cup {<<-1, 1>>}

\* One lock for each byte, and one for all of them.
Whole == {<<start, 1>> : start \in 0 .. MaxEnd - 1} \cup {<<0, MaxEnd>>}

\* The state without the record of the last call, on which no step depends.
View == <<locks, hdr, refcnt, reccnt, blkpid, pc, req>>

\* Files are alike, and so are the processes that have the same rights.
Permuted == Permutations(Files) \cup Permutations(Readers)
                \cup Permutations(Procs \ Readers)
=============================================================================
