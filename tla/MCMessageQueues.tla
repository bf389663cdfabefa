-------------------------- MODULE MCMessageQueues --------------------------
(* Small instances of MessageQueues for TLC. *)
EXTENDS MessageQueues, TLC

\* Any message, the first of a type, the first of the lowest type up to 2.
Asked == {0, 1, -2}

\* One segment for the message with the higher type, and two for the other.
Letters == {<<1, 3>>, <<2, 1>>}

\* What free headers and the segments that no message has hold does not matter, nor what a
\* receiver in the middle of a copy no longer looks at.  There is no step once a copy has
\* spoilt something.
MsgView ==
    LET queued == UNION {ToSet(OnQueue(q)) : q \in Queues}
        texts == UNION {UnitsOf(Extent(msgh[h].spot + 1, Btoq(msgh[h].ts))) :
                            h \in {h \in queued : msgh[h].ts > 0}}
        call(p) == IF Copies(p, "rcv")
                     THEN <<"copies", mcall[p].arg.id, mcall[p].arg.type, mcall[p].pm, mcall[p].h,
                            mcall[p].seen \cap queued>>
                     ELSE mcall[p]
    IN  IF spoilt # Nil THEN <<spoilt, mcall[spoilt].arg.op>>
        ELSE <<que, [h \in Headers |-> IF h \in queued THEN msgh[h] ELSE [next |-> msgh[h].next]],
               msgfp, msgmap, [i \in DOMAIN pool |-> IF i + 1 \in texts THEN pool[i] ELSE Nil],
               [p \in MsgProcs |-> call(p)], mchan, raised>>
=============================================================================
