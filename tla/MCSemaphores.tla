---------------------------- MODULE MCSemaphores ----------------------------
(* Small instances of Semaphores for TLC. *)
EXTENDS Semaphores, TLC

O(n, v, f) == [num |-> n, op |-> v, undo |-> "U" \in f, nowait |-> "N" \in f]

\* Lists that wait for one or two semaphores, and that raise them; some do so
\* with SEM_UNDO, and fail or wait after they have done something.
Waits == {<<O(0, 1, {"U"})>>, <<O(0, -1, {"U"})>>, <<O(1, 1, {})>>,
          <<O(0, -1, {}), O(1, -1, {})>>,
          <<O(0, 0, {}), O(0, 1, {"N"})>>,
          <<O(0, -1, {"U"}), O(1, 1, {"U"}), O(0, -1, {"N"})>>}

\* Lists that start with different operations.
Mixed == {<<O(0, 1, {}), O(1, 1, {})>>, <<O(1, 1, {})>>, <<O(1, -1, {}), O(0, 0, {})>>}

\* A list of one operation that does not wait: while its page is out nothing is in semtmp.
Raise == {<<O(1, 1, {})>>}

\* No step reads semtmp that it has not written, when the list of Raise is all that may be out.
View == <<tables, semval, cnt, undo, pc, call, wchan, sig, base>>

Permuted == Permutations(Procs)
=============================================================================
