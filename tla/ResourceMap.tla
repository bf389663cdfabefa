----------------------------- MODULE ResourceMap -----------------------------
(***************************************************************************)
(* Resource maps, os/malloc.c: the free units of some space as a list of   *)
(* extents in order of address.                                            *)
(*                                                                         *)
(* A map is a record: ent, the entries up to the one of size 0 that ends   *)
(* the list; left, the entries still unused (mapsize); want, whether       *)
(* somebody sleeps for space (mapwant, a count of which only 0 matters).   *)
(***************************************************************************)
EXTENDS Integers, SequencesExt

Extent(a, n) == [addr |-> a, size |-> n]

ExtentEnd(e) == e.addr + e.size

\* mapinit.
EmptyMap(entries) == [ent |-> <<>>, left |-> entries, want |-> FALSE]

\* malloc: the first entry that is large enough gives n units from its start.
\* The address is 0 when there is none.
Malloc(mp, n) ==
    LET fits == {i \in DOMAIN mp.ent : mp.ent[i].size >= n}
        i == Min(fits)
        e == mp.ent[i]
    IN  CASE fits = {} -> [addr |-> 0, map |-> mp]
          [] fits # {} /\ e.size = n ->
                [addr |-> e.addr, map |-> [mp EXCEPT !.ent = RemoveAt(@, i), !.left = @ + 1]]
          [] OTHER ->
                [addr |-> e.addr, map |-> [mp EXCEPT !.ent[i] = Extent(e.addr + n, e.size - n)]]

\* The list of mfree: n > 0 units from a are put where they belong, and joined to
\* their neighbours.  An entry of their own may be one too many: then they are lost.
MfreeEnt(mp, n, a) ==
    LET after == {i \in DOMAIN mp.ent : mp.ent[i].addr > a}
        i == IF after = {} THEN Len(mp.ent) + 1 ELSE Min(after)
        joinPrev == i > 1 /\ ExtentEnd(mp.ent[i - 1]) = a
        joinNext == i <= Len(mp.ent) /\ a + n = mp.ent[i].addr
    IN  CASE joinPrev /\ joinNext ->
                [mp EXCEPT !.ent = RemoveAt([@ EXCEPT ![i - 1].size = @ + n + mp.ent[i].size], i),
                           !.left = @ + 1]
          [] joinPrev /\ ~joinNext -> [mp EXCEPT !.ent[i - 1].size = @ + n]
          [] ~joinPrev /\ joinNext -> [mp EXCEPT !.ent[i] = Extent(a, n + @.size)]
          [] ~joinPrev /\ ~joinNext /\ mp.left = 0 -> mp
          [] OTHER -> [mp EXCEPT !.ent = InsertAt(@, i, Extent(a, n)), !.left = @ - 1]

\* mfree: the map afterwards, and whether those who sleep for space are woken
\* (not when the units are lost).
Mfree(mp, n, a) ==
    LET m == MfreeEnt(mp, n, a)
    IN  [map |-> IF m = mp THEN mp ELSE [m EXCEPT !.want = FALSE],
         wakes |-> mp.want /\ m # mp]

-----------------------------------------------------------------------------
(* What a map should be *)

UnitsOf(e) == e.addr .. e.addr + e.size - 1

FreeUnits(mp) == UNION {UnitsOf(mp.ent[i]) : i \in DOMAIN mp.ent}

\* The entries are in order with something in use between any two of them.
InOrder(mp) == \A i \in 1 .. Len(mp.ent) - 1 : ExtentEnd(mp.ent[i]) < mp.ent[i + 1].addr
=============================================================================
