------------------------------ MODULE FifoQueue ------------------------------
(***************************************************************************)
(* What producer-consumer/producer-consumer.h promises: a bounded FIFO     *)
(* queue whose two operations are atomic.  A call of pcq_enqueue lasts     *)
(* until its element is in the queue, and waits while the queue is full; a *)
(* call of pcq_dequeue lasts until it has taken the oldest element, and    *)
(* waits while the queue is empty.                                         *)
(***************************************************************************)
EXTENDS Naturals, Sequences

CONSTANTS Producers,  \* the threads that call pcq_enqueue
          Consumers,  \* the threads that call pcq_dequeue
          Elems,      \* the pointers that are enqueued
          NoElem,     \* no pointer: nothing offered, nothing dequeued yet
          Capacity    \* the capacity given to pcq_create

VARIABLES queue,      \* the elements in the queue, the oldest first
          got,        \* the last element each consumer dequeued
          offered,    \* what each producer in pcq_enqueue has still to put
          asking      \* the consumers in pcq_dequeue that have yet to take

vars == <<queue, got, offered, asking>>

Init ==
    /\ queue = << >>
    /\ got = [c \in Consumers |-> NoElem]
    /\ offered = [p \in Producers |-> NoElem]
    /\ asking = {}

\* What the operations do to the queue.
Put(e) ==
    /\ Len(queue) < Capacity
    /\ queue' = Append(queue, e)
    /\ UNCHANGED got

Take(c) ==
    /\ queue # << >>
    /\ got' = [got EXCEPT ![c] = Head(queue)]
    /\ queue' = Tail(queue)

\* The calls.
Offer(p, e) ==
    /\ offered[p] = NoElem
    /\ offered' = [offered EXCEPT ![p] = e]
    /\ UNCHANGED <<queue, got, asking>>

PutOffered(p) ==
    /\ offered[p] # NoElem
    /\ Put(offered[p])
    /\ offered' = [offered EXCEPT ![p] = NoElem]
    /\ UNCHANGED asking

Ask(c) ==
    /\ c \notin asking
    /\ asking' = asking \cup {c}
    /\ UNCHANGED <<queue, got, offered>>

TakeAsked(c) ==
    /\ c \in asking
    /\ Take(c)
    /\ asking' = asking \ {c}
    /\ UNCHANGED offered

Next ==
    \/ \E p \in Producers : PutOffered(p) \/ \E e \in Elems : Offer(p, e)
    \/ \E c \in Consumers : TakeAsked(c) \/ Ask(c)

Spec == Init /\ [][Next]_vars

\* While a producer is in pcq_enqueue and there is room, or a consumer is in
\* pcq_dequeue and there is an element, some call comes to its end.  Nobody
\* has to call.
FairSpec ==
    /\ Spec
    /\ WF_vars(\E p \in Producers : PutOffered(p))
    /\ WF_vars(\E c \in Consumers : TakeAsked(c))
==============================================================================
