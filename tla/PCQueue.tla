------------------------------- MODULE PCQueue -------------------------------
(***************************************************************************)
(* The producer-consumer queue between the broker's main thread and its    *)
(* workers, producer-consumer/producer-consumer.c: a ring buffer under     *)
(* three mutexes and two condition variables.  A thread is somewhere in    *)
(* the body of pcq_enqueue ("e_...") or pcq_dequeue ("d_...") and takes    *)
(* one synchronisation step at a time.  The wait set of a condition        *)
(* variable is the set of threads at "e_wait" (pcq_pusher_condvar) or      *)
(* "d_wait" (pcq_popper_condvar): pthread_cond_wait gives the mutex up     *)
(* when it enters the set, and a woken thread locks it again before it     *)
(* rechecks the loop's condition.                                          *)
(***************************************************************************)
EXTENDS Integers, FiniteSets

CONSTANTS Producers,  \* the threads that call pcq_enqueue
          Consumers,  \* the threads that call pcq_dequeue
          Elems,      \* the pointers that are enqueued
          NoElem,     \* no pointer: an unused slot, no result yet
          Nobody,     \* the owner of a free mutex
          Capacity    \* the capacity given to pcq_create

Threads == Producers \cup Consumers
Slots == 0 .. Capacity - 1

ASSUME ThreadsAssumption ==
    /\ IsFiniteSet(Producers)
    /\ IsFiniteSet(Consumers)
    /\ Producers \cap Consumers = {}
    /\ Nobody \notin Threads
ASSUME ElemAssumption == NoElem \notin Elems
ASSUME CapacityAssumption == Capacity \in Nat \ {0}

VARIABLES pcq_buffer, pcq_current_size, pcq_head, pcq_tail,
          pcq_current_size_lock, pcq_head_lock, pcq_tail_lock,
          pc,         \* where each thread is
          elem        \* the argument of pcq_enqueue, the result of pcq_dequeue

ring == <<pcq_buffer, pcq_current_size, pcq_head, pcq_tail>>
locks == <<pcq_current_size_lock, pcq_head_lock, pcq_tail_lock>>
vars == <<ring, locks, pc, elem>>

\* pcq_create
Init ==
    /\ pcq_buffer = [i \in Slots |-> NoElem]
    /\ pcq_current_size = 0
    /\ pcq_head = 0
    /\ pcq_tail = 0
    /\ pcq_current_size_lock = Nobody
    /\ pcq_head_lock = Nobody
    /\ pcq_tail_lock = Nobody
    /\ pc = [t \in Threads |-> "idle"]
    /\ elem = [t \in Threads |-> NoElem]

Goto(t, from, to) ==
    /\ pc[t] = from
    /\ pc' = [pc EXCEPT ![t] = to]

Lock(t) == pcq_current_size_lock = Nobody /\ pcq_current_size_lock' = t
Unlock(t) == pcq_current_size_lock = t /\ pcq_current_size_lock' = Nobody

\* pthread_cond_signal: one of the threads at "waiting" goes back to the mutex,
\* if there is one; the signaller goes on from "from" to "to".
Signal(t, from, to, waiting, woken) ==
    /\ pc[t] = from
    /\ \/ \E w \in Threads :
            /\ pc[w] = waiting
            /\ pc' = [pc EXCEPT ![t] = to, ![w] = woken]
       \/ /\ \A w \in Threads : pc[w] # waiting
          /\ pc' = [pc EXCEPT ![t] = to]
    /\ UNCHANGED <<ring, locks, elem>>

------------------------------------------------------------------------------
(* pcq_enqueue(queue, e) *)

EnqueueCall(p, e) ==
    /\ Goto(p, "idle", "e_lock")
    /\ elem' = [elem EXCEPT ![p] = e]
    /\ UNCHANGED <<ring, locks>>

EnqueueLock(p) ==
    /\ Goto(p, "e_lock", "e_check")
    /\ Lock(p)
    /\ UNCHANGED <<ring, pcq_head_lock, pcq_tail_lock, elem>>

EnqueueWait(p) ==
    /\ pcq_current_size = Capacity
    /\ Goto(p, "e_check", "e_wait")
    /\ Unlock(p)
    /\ UNCHANGED <<ring, pcq_head_lock, pcq_tail_lock, elem>>

\* Mutation: the size is not checked.
EnqueueLockTailUnchecked(p) ==
    /\ Goto(p, "e_check", "e_put")
    /\ pcq_tail_lock = Nobody
    /\ pcq_tail_lock' = p
    /\ UNCHANGED <<ring, pcq_current_size_lock, pcq_head_lock, elem>>

EnqueueLockTail(p) ==
    /\ pcq_current_size # Capacity
    /\ Goto(p, "e_check", "e_put")
    /\ pcq_tail_lock = Nobody
    /\ pcq_tail_lock' = p
    /\ UNCHANGED <<ring, pcq_current_size_lock, pcq_head_lock, elem>>

\* Mutation: the tail moves before the element is stored.
EnqueuePutAhead(p) ==
    /\ Goto(p, "e_put", "e_signal")
    /\ pcq_buffer' = [pcq_buffer EXCEPT ![(pcq_tail + 1) % Capacity] = elem[p]]
    /\ pcq_tail' = (pcq_tail + 1) % Capacity
    /\ pcq_current_size' = pcq_current_size + 1
    /\ pcq_tail_lock' = Nobody
    /\ UNCHANGED <<pcq_head, pcq_current_size_lock, pcq_head_lock, elem>>

EnqueuePut(p) ==
    /\ Goto(p, "e_put", "e_signal")
    /\ pcq_buffer' = [pcq_buffer EXCEPT ![pcq_tail] = elem[p]]
    /\ pcq_tail' = (pcq_tail + 1) % Capacity
    /\ pcq_current_size' = pcq_current_size + 1
    /\ pcq_tail_lock' = Nobody
    /\ UNCHANGED <<pcq_head, pcq_current_size_lock, pcq_head_lock, elem>>

\* Mutations: poppers are signalled when the queue was empty only, or never.
EnqueueSignalFirst(p) ==
    \/ pcq_current_size = 1 /\ Signal(p, "e_signal", "e_unlock", "d_wait", "d_lock")
    \/ pcq_current_size # 1 /\ Goto(p, "e_signal", "e_unlock") /\ UNCHANGED <<ring, locks, elem>>

EnqueueSignalNever(p) == Goto(p, "e_signal", "e_unlock") /\ UNCHANGED <<ring, locks, elem>>

EnqueueSignal(p) == Signal(p, "e_signal", "e_unlock", "d_wait", "d_lock")

EnqueueReturn(p) ==
    /\ Goto(p, "e_unlock", "idle")
    /\ Unlock(p)
    /\ UNCHANGED <<ring, pcq_head_lock, pcq_tail_lock, elem>>

Enqueue(p) ==
    \/ EnqueueLock(p) \/ EnqueueWait(p) \/ EnqueueLockTail(p)
    \/ EnqueuePut(p) \/ EnqueueSignal(p) \/ EnqueueReturn(p)

------------------------------------------------------------------------------
(* pcq_dequeue(queue) *)

DequeueCall(c) ==
    /\ Goto(c, "idle", "d_lock")
    /\ UNCHANGED <<ring, locks, elem>>

DequeueLock(c) ==
    /\ Goto(c, "d_lock", "d_check")
    /\ Lock(c)
    /\ UNCHANGED <<ring, pcq_head_lock, pcq_tail_lock, elem>>

DequeueWait(c) ==
    /\ pcq_current_size = 0
    /\ Goto(c, "d_check", "d_wait")
    /\ Unlock(c)
    /\ UNCHANGED <<ring, pcq_head_lock, pcq_tail_lock, elem>>

DequeueLockHead(c) ==
    /\ pcq_current_size # 0
    /\ Goto(c, "d_check", "d_take")
    /\ pcq_head_lock = Nobody
    /\ pcq_head_lock' = c
    /\ UNCHANGED <<ring, pcq_current_size_lock, pcq_tail_lock, elem>>

DequeueTake(c) ==
    /\ Goto(c, "d_take", "d_signal")
    /\ elem' = [elem EXCEPT ![c] = pcq_buffer[pcq_head]]
    /\ pcq_head' = (pcq_head + 1) % Capacity
    /\ pcq_current_size' = pcq_current_size - 1
    /\ pcq_head_lock' = Nobody
    /\ UNCHANGED <<pcq_buffer, pcq_tail, pcq_current_size_lock, pcq_tail_lock>>

DequeueSignal(c) == Signal(c, "d_signal", "d_unlock", "e_wait", "e_lock")

DequeueReturn(c) ==
    /\ Goto(c, "d_unlock", "idle")
    /\ Unlock(c)
    /\ UNCHANGED <<ring, pcq_head_lock, pcq_tail_lock, elem>>

Dequeue(c) ==
    \/ DequeueLock(c) \/ DequeueWait(c)   \/ DequeueLockHead(c)
    \/ DequeueTake(c) \/ DequeueSignal(c) \/ DequeueReturn(c)

------------------------------------------------------------------------------
\* POSIX lets pthread_cond_wait return without a signal.
SpuriousWakeup(t) ==
    /\ \/ Goto(t, "e_wait", "e_lock")
       \/ Goto(t, "d_wait", "d_lock")
    /\ UNCHANGED <<ring, locks, elem>>

Next ==
    \/ \E p \in Producers : Enqueue(p) \/ \E e \in Elems : EnqueueCall(p, e)
    \/ \E c \in Consumers : Dequeue(c) \/ DequeueCall(c)
    \/ \E t \in Threads : SpuriousWakeup(t)

Spec == Init /\ [][Next]_vars

(***************************************************************************)
(* A thread inside one of the two functions keeps running.  Nothing says   *)
(* that a producer or a consumer calls again (a worker's session may last  *)
(* for ever), that a mutex is granted in any order (weak fairness only),   *)
(* or how long spurious wakeups go on, except that they end.               *)
(***************************************************************************)
FairSpec ==
    /\ Spec
    /\ \A p \in Producers : WF_vars(Enqueue(p))
    /\ \A c \in Consumers : WF_vars(Dequeue(c))
    /\ <>[][\A t \in Threads : ~ SpuriousWakeup(t)]_vars

------------------------------------------------------------------------------
(* Properties *)

EnqueuePCs == {"e_lock", "e_check", "e_wait", "e_put", "e_signal", "e_unlock"}
DequeuePCs == {"d_lock", "d_check", "d_wait", "d_take", "d_signal", "d_unlock"}

\* The fields of pc_queue_t stay in their ranges: the size never passes the
\* capacity nor goes below zero, whoever runs between a check and its update.
TypeOK ==
    /\ pcq_buffer \in [Slots -> Elems \cup {NoElem}]
    /\ pcq_current_size \in 0 .. Capacity
    /\ pcq_head \in Slots
    /\ pcq_tail \in Slots
    /\ pcq_current_size_lock \in Threads \cup {Nobody}
    /\ pcq_head_lock \in Consumers \cup {Nobody}
    /\ pcq_tail_lock \in Producers \cup {Nobody}
    /\ pc \in [Threads -> {"idle"} \cup EnqueuePCs \cup DequeuePCs]
    /\ \A p \in Producers : pc[p] \notin DequeuePCs
    /\ \A c \in Consumers : pc[c] \notin EnqueuePCs
    /\ elem \in [Threads -> Elems \cup {NoElem}]

At(S, labels) == {t \in S : pc[t] \in labels}

\* No wakeup is lost.  While a consumer sleeps on pcq_popper_condvar every
\* element in the queue has a consumer on its way to take it or a producer
\* that has yet to signal; while a producer sleeps on pcq_pusher_condvar the
\* same holds of every free slot.  One pthread_cond_signal per operation,
\* lines 59 and 79, is enough because of this.
NoLostPop ==
    At(Consumers, {"d_wait"}) # {} =>
        pcq_current_size
            <= Cardinality(At(Consumers, {"d_lock", "d_check", "d_take"}))
               + Cardinality(At(Producers, {"e_signal"}))

NoLostPush ==
    At(Producers, {"e_wait"}) # {} =>
        Capacity - pcq_current_size
            <= Cardinality(At(Producers, {"e_lock", "e_check", "e_put"}))
               + Cardinality(At(Consumers, {"d_signal"}))

NoLostWakeup == NoLostPop /\ NoLostPush

\* The ring implements the FIFO queue of the header: seen through the elements
\* between head and tail and the calls that have yet to put or to take, every
\* step is one call, one atomic PutOffered, one atomic TakeAsked of the oldest
\* element, or invisible.
Contents ==
    [i \in 1 .. pcq_current_size |-> pcq_buffer[(pcq_head + i - 1) % Capacity]]

Offered ==
    [p \in Producers |->
        IF pc[p] \in {"e_lock", "e_check", "e_wait", "e_put"} THEN elem[p] ELSE NoElem]

Asking == At(Consumers, {"d_lock", "d_check", "d_wait", "d_take"})

Fifo == INSTANCE FifoQueue WITH
    queue <- Contents,
    got <- [c \in Consumers |-> elem[c]],
    offered <- Offered,
    asking <- Asking

ImplementsFifo == Fifo!Spec

\* While somebody is in pcq_dequeue and the queue is not empty an element is
\* eventually taken, and while somebody is in pcq_enqueue and the queue is not
\* full an element is eventually put, whatever the interleaving.
EventuallyDequeued == Fifo!FairSpec
==============================================================================
