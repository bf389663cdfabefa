----------------------------- MODULE FileStore -----------------------------
(***************************************************************************)
(* What the inodes of a file system promise: a file is there from its      *)
(* creation until it has neither a link nor a user left.                   *)
(***************************************************************************)
EXTENDS Integers, FiniteSets

CONSTANTS Inos, Gone

VARIABLES file,    \* per inode number: the link count of its file, or Gone
          holders  \* per inode number: who uses it

Init == file \in [Inos -> Nat \cup {Gone}]

Create(i) == file[i] = Gone /\ file' = [file EXCEPT ![i] = 1]

\* Only a user of a file changes its links, and still uses it then.
Held(i) == holders[i] \cap holders'[i] # {}

Link(i) == file[i] # Gone /\ Held(i) /\ file' = [file EXCEPT ![i] = @ + 1]

Unlink(i) == /\ file[i] # Gone /\ file[i] > 0 /\ Held(i)
             /\ file' = [file EXCEPT ![i] = @ - 1]

Remove(i) == /\ file[i] = 0 /\ Cardinality(holders[i]) = 1
             /\ file' = [file EXCEPT ![i] = Gone]

Next == \E i \in Inos : Create(i) \/ Link(i) \/ Unlink(i) \/ Remove(i)

Spec == Init /\ [][Next]_file
=============================================================================
