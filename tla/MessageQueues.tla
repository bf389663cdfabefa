---------------------------- MODULE MessageQueues ----------------------------
(***************************************************************************)
(* System V message queues, os/msg.c with the tables of os/ipc.c: msgget,  *)
(* msgctl, msgsnd and msgrcv.                                              *)
(*                                                                         *)
(* Headers are linked into queues and into the free list msgfp; the texts  *)
(* are in a pool of segments that a resource map (os/malloc.c) hands out.  *)
(* A process gives up the processor only where it sleeps: for room on a    *)
(* queue, for a header, for segments, for a message, and in a copy from or *)
(* to its memory when the page is out.  After such a copy nothing is       *)
(* looked at again.  When what it has found before is no longer so, the    *)
(* code writes through a null pointer, frees a message a second time or    *)
(* puts one on a queue that is not the one it was sent to; this is noted   *)
(* in spoilt, and not followed further.                                    *)
(*                                                                         *)
(* The callers have permission for what they do.                           *)
(***************************************************************************)
EXTENDS ResourceMap, FiniteSetsExt

CONSTANTS MsgProcs,
          MSGMNI,     \* queues
          MSGTQL,     \* headers
          MSGSEG,     \* segments of the pool
          MSGSSZ,     \* bytes of a segment
          MSGMAP,     \* entries of the map, besides the first and the last
          MSGMNB,     \* bytes a new queue may hold
          Sent,       \* the messages sent: pairs of a type and a length
          MsgAsks,    \* the types asked for: msgtyp of msgrcv
          RcvSizes,   \* the lengths of the buffers of receivers
          Limits,     \* the values IPC_SET gives msg_qbytes
          Keys,       \* the keys besides IPC_PRIVATE
          MaxMsgRmid, \* bound: removals
          Nil

Private == "IPC_PRIVATE"
Queues == 0 .. MSGMNI - 1
Headers == 1 .. MSGTQL
NULL == 0

ASSUME MsgSizesAssumption ==
    /\ {MSGMNI, MSGTQL, MSGSEG, MSGSSZ, MSGMAP} \subseteq Nat \ {0}
    /\ {MSGMNB, MaxMsgRmid} \subseteq Nat
    /\ RcvSizes \cup Limits \subseteq Nat
    /\ Sent \subseteq (Nat \ {0}) \X Nat /\ MsgAsks \subseteq Int
ASSUME MapAssumption == MSGMAP > MSGTQL + Cardinality(MsgProcs)
ASSUME NilAssumption == Nil \notin MsgProcs /\ Private \notin Keys

VARIABLES
    que,     \* msgque: per queue its key, sequence number, flags, ends and counts
    msgh,    \* per header msg_next, msg_type, msg_ts and msg_spot
    msgfp,   \* the first free header
    msgmap,  \* the map of the pool
    pool,    \* the segments: who wrote each of them last
    mcall,   \* per process: the call it is in and what it slept on, or Nil
    mchan,   \* per process: what it sleeps on, or Nil
    raised,  \* history, per queue: msg_qbytes has been raised over a sleeper
    done,    \* history: the call that returned last
    spoilt   \* history: the end of whose copy found things changed, or Nil

msgVars == <<que, msgh, msgfp, msgmap, pool, mcall, mchan, raised, done, spoilt>>

\* What processes sleep on: a queue, its msg_qnum, msgfp and the map.
Room(q) == <<"room", q>>
Num(q) == <<"qnum", q>>
Fp == <<"msgfp", NULL>>
Space == <<"msgmap", NULL>>
\* The page of a copy; nobody but the pager wakes those who wait for that.
Page == <<"page", NULL>>

NewQueue(key, seq) ==
    [alloc |-> TRUE, key |-> key, seq |-> seq, rwait |-> FALSE, wwait |-> FALSE,
     first |-> NULL, last |-> NULL, cbytes |-> 0, qnum |-> 0, qbytes |-> MSGMNB]

MsgInit ==
    /\ que = [q \in Queues |-> [NewQueue(Private, 0) EXCEPT !.alloc = FALSE, !.qbytes = 0]]
    /\ msgh = [h \in Headers |-> [next |-> IF h = MSGTQL THEN NULL ELSE h + 1,
                                 type |-> 0, ts |-> 0, spot |-> 0]]
    /\ msgfp = 1
    /\ msgmap = Mfree(EmptyMap(MSGMAP), MSGSEG, 1).map
    /\ pool = [i \in 0 .. MSGSEG - 1 |-> Nil]
    /\ mcall = [p \in MsgProcs |-> Nil]
    /\ mchan = [p \in MsgProcs |-> Nil]
    /\ raised = [q \in Queues |-> FALSE]
    /\ done = [op |-> "none"]
    /\ spoilt = Nil

-----------------------------------------------------------------------------
(* Helpers *)

Btoq(n) == (n + MSGSSZ - 1) \div MSGSSZ

\* The identifiers that have been given out or will be.
MsgIds == 0 .. (MaxMsgRmid + 1) * MSGMNI - 1

QueueOf(id) == id % MSGMNI

\* msgconv.
Msgconv(id) == que[QueueOf(id)].alloc /\ id \div MSGMNI = que[QueueOf(id)].seq

\* The headers from h along msg_next, in order.
ListFrom(h) ==
    LET at[n \in 1 .. MSGTQL] == IF n = 1 THEN h
                                 ELSE IF at[n - 1] = NULL THEN NULL ELSE msgh[at[n - 1]].next
    IN  SelectSeq([n \in 1 .. MSGTQL |-> at[n]], LAMBDA g : g # NULL)

OnQueue(q) == ListFrom(que[q].first)

\* MsgWakeup of the channels of C, after which p sleeps on chan (or not, when Nil).
MsgWakeup(C, p, chan) ==
    /\ mchan' = [r \in MsgProcs |-> IF r = p THEN chan
                                   ELSE IF mchan[r] \in C THEN Nil ELSE mchan[r]]
    /\ raised' = [q \in Queues |-> raised[q] /\ Room(q) \notin C]

Sleeps(p, c, chan) == /\ mcall' = [mcall EXCEPT ![p] = [arg |-> c, on |-> chan]]
                      /\ MsgWakeup({}, p, chan)
                      /\ done' = [op |-> "none"]

\* The page of p is out: it is in the middle of call c, with x for the rest of it.
Faults(p, c, x) == /\ mcall' = [mcall EXCEPT ![p] = [arg |-> c, on |-> Page] @@ x]
                   /\ done' = [op |-> "none"]
                   /\ UNCHANGED <<mchan, raised>>

Waits(p, op) == mcall[p] # Nil /\ mcall[p].arg.op = op /\ mcall[p].on # Page
Copies(p, op) == mcall[p] # Nil /\ mcall[p].arg.op = op /\ mcall[p].on = Page

\* What the code does next is not modelled.
Spoils(p) == /\ spoilt' = p
             /\ UNCHANGED <<que, msgh, msgfp, msgmap, pool, mcall, mchan, raised, done>>

Returns(p, C, r) == /\ mcall' = [mcall EXCEPT ![p] = Nil]
                    /\ MsgWakeup(C, p, Nil)
                    /\ done' = r

Fails(p, C) == Returns(p, C, [op |-> "none"])

\* Fault: the last message of a queue goes and msg_last stays.
MsgfreeStaleLast(s, q, pm, h) ==
    LET nxt == s.msgh[h].next
        m == IF s.msgh[h].ts > 0
               THEN Mfree(s.map, Btoq(s.msgh[h].ts), s.msgh[h].spot + 1)
               ELSE [map |-> s.map, wakes |-> FALSE]
        unlinked == IF pm = NULL THEN s.msgh ELSE [s.msgh EXCEPT ![pm].next = nxt]
    IN  [que |-> [s.que EXCEPT ![q].first = IF pm = NULL THEN nxt ELSE @,
                               ![q].qnum = @ - 1,
                               ![q].wwait = FALSE],
         msgh |-> [unlinked EXCEPT ![h].next = s.fp],
         fp |-> h,
         map |-> m.map,
         W |-> s.W \cup (IF s.que[q].wwait THEN {Room(q)} ELSE {})
                   \cup (IF m.wakes THEN {Space} ELSE {})
                   \cup (IF s.fp = NULL THEN {Fp} ELSE {})]

\* msgfree of header h that stands after pm on queue q, in the state s of the tables.
\* W collects what is woken.
Msgfree(s, q, pm, h) ==
    LET nxt == s.msgh[h].next
        m == IF s.msgh[h].ts > 0
               THEN Mfree(s.map, Btoq(s.msgh[h].ts), s.msgh[h].spot + 1)
               ELSE [map |-> s.map, wakes |-> FALSE]
        unlinked == IF pm = NULL THEN s.msgh ELSE [s.msgh EXCEPT ![pm].next = nxt]
    IN  [que |-> [s.que EXCEPT ![q].first = IF pm = NULL THEN nxt ELSE @,
                               ![q].last = IF nxt = NULL THEN pm ELSE @,
                               ![q].qnum = @ - 1,
                               ![q].wwait = FALSE],
         msgh |-> [unlinked EXCEPT ![h].next = s.fp],
         fp |-> h,
         map |-> m.map,
         W |-> s.W \cup (IF s.que[q].wwait THEN {Room(q)} ELSE {})
                   \cup (IF m.wakes THEN {Space} ELSE {})
                   \cup (IF s.fp = NULL THEN {Fp} ELSE {})]

Tables == [que |-> que, msgh |-> msgh, fp |-> msgfp, map |-> msgmap, W |-> {}]

Becomes(s) == /\ msgh' = s.msgh /\ msgfp' = s.fp /\ msgmap' = s.map

-----------------------------------------------------------------------------
(* msgget and msgctl *)

\* ipcget: an entry that has the key is found, else the first free one is made, if the
\* caller asks for that; IPC_PRIVATE always makes one.
Msgget(p, key) ==
    LET free == {q \in Queues : ~que[q].alloc}
        q == Min(free)
    IN  /\ mcall[p] = Nil /\ free # {}
        /\ key # Private => \A r \in Queues : que[r].alloc => que[r].key # key
        /\ que' = [que EXCEPT ![q] = [NewQueue(key, @.seq) EXCEPT !.cbytes = que[q].cbytes]]
        /\ Fails(p, {})
        /\ UNCHANGED <<msgh, msgfp, msgmap, pool>>

\* msgctl IPC_RMID.
MsgRmid(p, q) ==
    LET s == FoldLeft(LAMBDA t, h : Msgfree(t, q, NULL, h), Tables, OnQueue(q))
        woken == s.W \cup (IF que[q].rwait THEN {Num(q)} ELSE {})
                     \cup (IF s.que[q].wwait THEN {Room(q)} ELSE {})
    IN  /\ mcall[p] = Nil /\ que[q].alloc
        /\ que[q].seq < MaxMsgRmid
        /\ Becomes(s)
        /\ que' = [s.que EXCEPT ![q].cbytes = 0, ![q].seq = @ + 1, ![q].alloc = FALSE,
                                ![q].rwait = FALSE, ![q].wwait = FALSE]
        /\ Returns(p, woken, [op |-> "remove", q |-> q])
        /\ UNCHANGED pool

\* msgctl IPC_SET.  Nobody is woken.
MsgSet(p, q, limit) ==
    /\ mcall[p] = Nil /\ que[q].alloc /\ limit # que[q].qbytes
    /\ que' = [que EXCEPT ![q].qbytes = limit]
    /\ raised' = [raised EXCEPT ![q] = @ \/ (limit > que[q].qbytes
                                              /\ \E r \in MsgProcs : mchan[r] = Room(q))]
    /\ done' = [op |-> "none"]
    /\ UNCHANGED <<msgh, msgfp, msgmap, pool, mcall, mchan>>

-----------------------------------------------------------------------------
(* msgsnd.  A call is a record with the identifier, the length and so on. *)

SndCalls == {[op |-> "snd", id |-> id, type |-> m[1], size |-> m[2]] : id \in MsgIds, m \in Sent}

Full(c) == c.size + que[QueueOf(c.id)].cbytes > que[QueueOf(c.id)].qbytes
NoSpace(c) == c.size > 0 /\ Malloc(msgmap, Btoq(c.size)).addr = 0

\* EIDRM.
MsgsndGone(p, c) == /\ ~Msgconv(c.id)
                    /\ Fails(p, {})
                    /\ UNCHANGED <<que, msgh, msgfp, msgmap, pool>>

\* No room on the queue, no header, or no segments.
MsgsndSleep(p, c) ==
    LET q == QueueOf(c.id)
    IN  /\ Msgconv(c.id)
        /\ \/ /\ Full(c)
              /\ que' = [que EXCEPT ![q].wwait = TRUE]
              /\ Sleeps(p, c, Room(q))
              /\ UNCHANGED msgmap
           \/ /\ ~Full(c) /\ msgfp = NULL
              /\ Sleeps(p, c, Fp)
              /\ UNCHANGED <<que, msgmap>>
           \/ /\ ~Full(c) /\ msgfp # NULL /\ NoSpace(c)
              /\ msgmap' = [msgmap EXCEPT !.want = TRUE]
              /\ Sleeps(p, c, Space)
              /\ UNCHANGED que
        /\ UNCHANGED <<msgh, msgfp, pool>>

CanPut(c) == Msgconv(c.id) /\ ~Full(c) /\ msgfp # NULL /\ ~NoSpace(c)

\* The segments at a for c go back.
GiveBack(p, c, map, a) ==
    LET f == Mfree(map, Btoq(c.size), a)
    IN  /\ msgmap' = f.map
        /\ Fails(p, IF f.wakes THEN {Space} ELSE {})
        /\ UNCHANGED <<que, msgh, msgfp, pool>>

\* The message, whose text is in the segments at a, is put at the end of the queue.
\* Receivers in the middle of a copy have not seen it.
Put(p, c, map, a) ==
    LET q == QueueOf(c.id)
        h == msgfp
        old == que[q].last
    IN  /\ msgmap' = map
        /\ pool' = IF c.size = 0 THEN pool
                   ELSE [i \in DOMAIN pool |->
                           IF i + 1 \in UnitsOf(Extent(a, Btoq(c.size))) THEN p ELSE pool[i]]
        /\ msgfp' = msgh[h].next
        /\ msgh' = LET new == [next |-> NULL, type |-> c.type, ts |-> c.size,
                               spot |-> IF c.size > 0 THEN a - 1 ELSE -1]
                       placed == [msgh EXCEPT ![h] = new]
                   IN  IF old = NULL THEN placed ELSE [placed EXCEPT ![old].next = h]
        /\ que' = [que EXCEPT ![q].qnum = @ + 1, ![q].cbytes = @ + c.size,
                              ![q].first = IF old = NULL THEN h ELSE @, ![q].last = h,
                              ![q].rwait = FALSE]
        /\ mcall' = [r \in MsgProcs |-> IF r = p THEN Nil
                                        ELSE IF Copies(r, "rcv") THEN [mcall[r] EXCEPT !.seen = @ \ {h}]
                                        ELSE mcall[r]]
        /\ MsgWakeup(IF que[q].rwait THEN {Num(q)} ELSE {}, p, Nil)
        /\ done' = [op |-> "send", q |-> q, m |-> [type |-> c.type, size |-> c.size,
                                                   from |-> IF c.size = 0 THEN Nil ELSE p]]

\* The copy of the text: it goes through, fails (EFAULT), or has to wait for the page.
MsgsndPut(p, c) ==
    LET m == Malloc(msgmap, Btoq(c.size))
    IN  /\ CanPut(c)
        /\ \/ c.size = 0 /\ Put(p, c, msgmap, 0)
           \/ c.size > 0 /\ Put(p, c, m.map, m.addr)
           \/ c.size > 0 /\ GiveBack(p, c, m.map, m.addr)
           \/ /\ c.size > 0
              /\ msgmap' = m.map
              /\ Faults(p, c, [addr |-> m.addr])
              /\ UNCHANGED <<que, msgh, msgfp, pool>>

\* Fault: the segments are lost when a copy fails that has waited for its page.
MsgsndCopiedKeeps(p) ==
    LET c == mcall[p].arg
        a == mcall[p].addr
        there == Msgconv(c.id) /\ msgfp # NULL
    IN  /\ Copies(p, "snd")
        /\ \/ there /\ Put(p, c, msgmap, a) /\ UNCHANGED spoilt
           \/ ~there /\ Spoils(p)
           \/ Fails(p, {}) /\ UNCHANGED <<que, msgh, msgfp, msgmap, pool, spoilt>>

\* The page has come in, or there is none.  The queue and msgfp are not looked at again.
MsgsndCopied(p) ==
    LET c == mcall[p].arg
        a == mcall[p].addr
        there == Msgconv(c.id) /\ msgfp # NULL
    IN  /\ Copies(p, "snd")
        /\ \/ there /\ Put(p, c, msgmap, a) /\ UNCHANGED spoilt
           \/ ~there /\ Spoils(p)
           \/ GiveBack(p, c, msgmap, a) /\ UNCHANGED spoilt

\* getres.
Getres(p, c) == MsgsndGone(p, c) \/ MsgsndSleep(p, c) \/ MsgsndPut(p, c)

Msgsnd(p, c) == mcall[p] = Nil /\ Msgconv(c.id) /\ Getres(p, c)

\* EAGAIN: with IPC_NOWAIT the call fails where it would sleep.
MsgsndNowait(p, c) == /\ mcall[p] = Nil /\ Msgconv(c.id) /\ ~CanPut(c)
                      /\ Fails(p, {})
                      /\ UNCHANGED <<que, msgh, msgfp, msgmap, pool>>

MsgsndAgain(p) == /\ Waits(p, "snd") /\ mchan[p] = Nil
                  /\ Getres(p, mcall[p].arg)

\* Fault: a sender that is interrupted takes the flag away and wakes nobody.
MsgsndIntrQuiet(p) ==
    LET q == QueueOf(mcall[p].arg.id)
        forRoom == mcall[p].on = Room(q)
    IN  /\ Waits(p, "snd")
        /\ que' = IF forRoom THEN [que EXCEPT ![q].wwait = FALSE] ELSE que
        /\ Fails(p, {})
        /\ UNCHANGED <<msgh, msgfp, msgmap, pool>>

\* A signal in the sleep.  One that waited for room wakes the others who do.
MsgsndIntr(p) ==
    LET q == QueueOf(mcall[p].arg.id)
        forRoom == mcall[p].on = Room(q)
    IN  /\ Waits(p, "snd")
        /\ que' = IF forRoom THEN [que EXCEPT ![q].wwait = FALSE] ELSE que
        /\ Fails(p, IF forRoom THEN {Room(q)} ELSE {})
        /\ UNCHANGED <<msgh, msgfp, msgmap, pool>>

-----------------------------------------------------------------------------
(* msgrcv *)

RcvCalls == [op : {"rcv"}, id : MsgIds, size : RcvSizes, type : MsgAsks, noerror : BOOLEAN]

\* Fault: among the messages of the lowest type the last one is taken.
FindmsgLast(s, t) ==
    IF t = 0 THEN (IF s = <<>> THEN 0 ELSE 1)
    ELSE IF t > 0
      THEN LET is == {i \in DOMAIN s : msgh[s[i]].type = t}
           IN  IF is = {} THEN 0 ELSE Min(is)
      ELSE FoldLeft(LAMBDA b, i : IF /\ msgh[s[i]].type <= -t
                                     /\ b = 0 \/ msgh[s[b]].type >= msgh[s[i]].type
                                    THEN i ELSE b,
                    0, [i \in 1 .. Len(s) |-> i])

\* findmsg: the place of the best message on the list s for the type t, or 0.  For a
\* negative t the loop goes over the whole list, and a later message is better only
\* when its type is lower.
Findmsg(s, t) ==
    IF t = 0 THEN (IF s = <<>> THEN 0 ELSE 1)
    ELSE IF t > 0
      THEN LET is == {i \in DOMAIN s : msgh[s[i]].type = t}
           IN  IF is = {} THEN 0 ELSE Min(is)
      ELSE FoldLeft(LAMBDA b, i : IF /\ msgh[s[i]].type <= -t
                                     /\ b = 0 \/ msgh[s[b]].type > msgh[s[i]].type
                                    THEN i ELSE b,
                    0, [i \in 1 .. Len(s) |-> i])

Sought(c) == Findmsg(OnQueue(QueueOf(c.id)), c.type)

\* EIDRM; E2BIG, or EFAULT in the copy to the user.
MsgrcvFail(p, c) ==
    /\ ~Msgconv(c.id) \/ Sought(c) # 0
    /\ Fails(p, {})
    /\ UNCHANGED <<que, msgh, msgfp, msgmap, pool>>

MsgrcvSleep(p, c) ==
    LET q == QueueOf(c.id)
    IN  /\ Msgconv(c.id) /\ Sought(c) = 0
        /\ que' = [que EXCEPT ![q].rwait = TRUE]
        /\ Sleeps(p, c, Num(q))
        /\ UNCHANGED <<msgh, msgfp, msgmap, pool>>

\* The text of a message, by its sender, or Nil when the segments have been
\* written by others.
Text(h) == LET n == msgh[h].spot
           IN  IF msgh[h].ts > 0 /\ \A i \in n .. n + Btoq(msgh[h].ts) - 1 : pool[i] = pool[n]
                 THEN pool[n] ELSE Nil

MessageOf(h) == [type |-> msgh[h].type, size |-> msgh[h].ts, from |-> Text(h)]

Contents(q) == LET s == OnQueue(q) IN [i \in DOMAIN s |-> MessageOf(s[i])]

\* Message h, which stands after pm, has been copied out, and is freed.  It was chosen
\* among the first n of the queue.
Take(p, c, pm, h, n) ==
    LET q == QueueOf(c.id)
        t == Msgfree(Tables, q, pm, h)
    IN  /\ Becomes(t)
        /\ que' = [t.que EXCEPT ![q].cbytes = @ - msgh[h].ts]
        /\ Returns(p, t.W, [op |-> "receive", q |-> q, t |-> c.type, m |-> MessageOf(h), n |-> n])
        /\ UNCHANGED pool

\* The message is chosen and copied out, cut short with MSG_NOERROR; the copy goes through
\* or has to wait for the page.
MsgrcvTake(p, c) ==
    LET s == OnQueue(QueueOf(c.id))
        i == Sought(c)
        h == s[i]
        pm == IF i = 1 THEN NULL ELSE s[i - 1]
    IN  /\ Msgconv(c.id) /\ i # 0
        /\ c.size >= msgh[h].ts \/ c.noerror
        /\ \/ Take(p, c, pm, h, Len(s))
           \/ /\ Faults(p, c, [pm |-> pm, h |-> h, seen |-> ToSet(s)])
              /\ UNCHANGED <<que, msgh, msgfp, msgmap, pool>>

\* The page has come in, or there is none.  The message and its predecessor are not looked
\* for again.
MsgrcvCopied(p) ==
    LET x == mcall[p]
        s == OnQueue(QueueOf(x.arg.id))
        there == \E i \in DOMAIN s : /\ s[i] = x.h /\ x.h \in x.seen
                                     /\ x.pm = IF i = 1 THEN NULL ELSE s[i - 1]
    IN  /\ Copies(p, "rcv")
        /\ \/ /\ there /\ Take(p, x.arg, x.pm, x.h, Cardinality(x.seen \cap ToSet(s)))
              /\ UNCHANGED spoilt
           \/ ~there /\ Spoils(p)
           \/ Fails(p, {}) /\ UNCHANGED <<que, msgh, msgfp, msgmap, pool, spoilt>>

Rcv(p, c) == MsgrcvFail(p, c) \/ MsgrcvSleep(p, c) \/ MsgrcvTake(p, c)

Msgrcv(p, c) == mcall[p] = Nil /\ Msgconv(c.id) /\ Rcv(p, c)

\* ENOMSG, with IPC_NOWAIT.
MsgrcvNowait(p, c) == /\ mcall[p] = Nil /\ Msgconv(c.id) /\ Sought(c) = 0
                      /\ Fails(p, {})
                      /\ UNCHANGED <<que, msgh, msgfp, msgmap, pool>>

MsgrcvAgain(p) == /\ Waits(p, "rcv") /\ mchan[p] = Nil
                  /\ Rcv(p, mcall[p].arg)

MsgrcvIntr(p) == /\ Waits(p, "rcv")
                 /\ Fails(p, {})
                 /\ UNCHANGED <<que, msgh, msgfp, msgmap, pool>>

-----------------------------------------------------------------------------
MsgNext ==
    /\ spoilt = Nil
    /\ \E p \in MsgProcs :
          \/ /\ \/ \E key \in Keys \cup {Private} : Msgget(p, key)
                \/ \E q \in Queues : MsgRmid(p, q) \/ \E n \in Limits : MsgSet(p, q, n)
                \/ \E c \in SndCalls : Msgsnd(p, c) \/ MsgsndNowait(p, c)
                \/ MsgsndAgain(p) \/ MsgsndIntr(p)
                \/ \E c \in RcvCalls : Msgrcv(p, c) \/ MsgrcvNowait(p, c)
                \/ MsgrcvAgain(p) \/ MsgrcvIntr(p)
             /\ UNCHANGED spoilt
          \/ MsgsndCopied(p) \/ MsgrcvCopied(p)

MsgSpec == MsgInit /\ [][MsgNext]_msgVars

-----------------------------------------------------------------------------
(* Properties *)

\* Every header is on the free list or on exactly one queue, and the ends and the counts
\* of a queue (msg_last, msg_qnum, msg_cbytes) agree with what is on it, whatever is
\* received from the middle or removed.
HeadersExact ==
    LET free == ListFrom(msgfp)
        on(q) == OnQueue(q)
    IN  /\ \A q \in Queues :
              /\ que[q].qnum = Len(on(q))
              /\ que[q].cbytes = FoldLeft(LAMBDA n, h : n + msgh[h].ts, 0, on(q))
              /\ que[q].last = IF on(q) = <<>> THEN NULL ELSE Last(on(q))
              /\ on(q) # <<>> => que[q].alloc /\ msgh[Last(on(q))].next = NULL
        /\ Len(free) + FoldSet(LAMBDA q, n : n + Len(on(q)), 0, Queues) = MSGTQL
        /\ ToSet(free) \cup UNION {ToSet(on(q)) : q \in Queues} = Headers

\* No segment is lost and none belongs to two messages: the free extents of the map, the
\* texts of the messages on the queues and the segments of senders in the middle of a copy
\* make up the pool.  The map never overflows, although mfree would then drop what it is
\* given: one entry for each of these texts, and one more, is enough.
PoolExact ==
    LET queued == UNION {ToSet(OnQueue(q)) : q \in Queues}
        texts == {Extent(msgh[h].spot + 1, Btoq(msgh[h].ts)) : h \in {h \in queued : msgh[h].ts > 0}}
        copied == {Extent(mcall[p].addr, Btoq(mcall[p].arg.size)) :
                       p \in {p \in MsgProcs : Copies(p, "snd")}}
        used == texts \cup copied
    IN  /\ InOrder(msgmap)
        /\ Len(msgmap.ent) + msgmap.left = MSGMAP
        /\ FreeUnits(msgmap) \cup UNION {UnitsOf(e) : e \in used} = 1 .. MSGSEG
        /\ Cardinality(used) = Cardinality({h \in queued : msgh[h].ts > 0})
                                 + Cardinality({p \in MsgProcs : Copies(p, "snd")})
        /\ \A e \in used : /\ UnitsOf(e) \cap FreeUnits(msgmap) = {}
                           /\ \A f \in used \ {e} : UnitsOf(e) \cap UnitsOf(f) = {}

\* Whoever sleeps has a reason to: there is no message for a receiver, and for a sender
\* what it waits for is still missing, unless IPC_SET has raised the limit of its queue
\* (nobody is woken for that) or its queue is gone while it waits for a header or for
\* segments (RMID wakes only those who wait for the queue).
MsgNoLostWakeup ==
    \A p \in MsgProcs :
        mchan[p] # Nil =>
            LET c == mcall[p].arg
                q == QueueOf(c.id)
            IN  CASE mchan[p] = Num(q) -> Msgconv(c.id) /\ que[q].rwait /\ Sought(c) = 0
                  [] mchan[p] = Room(q) -> /\ Msgconv(c.id) /\ que[q].wwait
                                           /\ Full(c) \/ raised[q]
                  [] mchan[p] = Fp -> msgfp = NULL
                  [] OTHER -> msgmap.want /\ Malloc(msgmap, Btoq(c.size)).addr = 0

\* "Everything is available, copy in text and put msg on q." (msg.c:430) The sender that has
\* copied the text in still has the queue that it sends to, and a header.
EverythingAvailable == spoilt # Nil => ~Copies(spoilt, "snd")

\* The queues implement MessageStore: each message arrives once, with its own text, in
\* the order msgrcv promises.
Store == INSTANCE MessageStore WITH
            Messages <- {[type |-> m[1], size |-> m[2], from |-> p] :
                           m \in Sent, p \in MsgProcs \cup {Nil}},
            Requests <- MsgAsks,
            queue <- [q \in Queues |-> Contents(q)]
IsMessageStore == Store!Spec
=============================================================================
