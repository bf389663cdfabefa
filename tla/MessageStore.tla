---------------------------- MODULE MessageStore ----------------------------
(***************************************************************************)
(* What message queues promise: a message that has been sent stays as it   *)
(* is until exactly one receiver takes it or its queue is removed.  A      *)
(* receiver gets the first message, the first of the type it asks for, or  *)
(* the first of the lowest type up to the one it gives, of those that were *)
(* on the queue when it looked.                                            *)
(***************************************************************************)
EXTENDS Integers, SequencesExt

CONSTANTS Queues, Messages, Requests

VARIABLES queue,  \* per queue: its messages in the order they were sent
          done    \* the call that returned last

Init == queue = [q \in Queues |-> <<>>] /\ done = [op |-> "none"]

\* The place of the message a receiver that asks for t gets.
Best(s, t) ==
    {i \in DOMAIN s :
        /\ t > 0 => s[i].type = t
        /\ t < 0 => s[i].type <= -t
        /\ \A j \in DOMAIN s :
              /\ t >= 0 /\ j < i => t > 0 /\ s[j].type # t
              /\ t < 0 => s[i].type < s[j].type \/ (s[i].type = s[j].type /\ i <= j)}

Send(q, m) == q \in Queues /\ m \in Messages /\ queue' = [queue EXCEPT ![q] = Append(@, m)]

\* A receiver has looked at the first n messages of the queue.
Receive(q, t, m, n) ==
    /\ q \in Queues /\ t \in Requests /\ n \in 1 .. Len(queue[q])
    /\ \E i \in Best(SubSeq(queue[q], 1, n), t) : /\ m = queue[q][i]
                                                  /\ queue' = [queue EXCEPT ![q] = RemoveAt(@, i)]

Empty(q) == q \in Queues /\ queue' = [queue EXCEPT ![q] = <<>>]

\* A call that fails changes nothing.
Next == CASE done'.op = "send" -> Send(done'.q, done'.m)
          [] done'.op = "receive" -> Receive(done'.q, done'.t, done'.m, done'.n)
          [] done'.op = "remove" -> Empty(done'.q)
          [] OTHER -> UNCHANGED queue

Spec == Init /\ [][Next]_<<queue, done>>
=============================================================================
