---------------------------- MODULE PCQueueProofs ----------------------------
(***************************************************************************)
(* Proofs about the producer-consumer queue, for every number of producers *)
(* and consumers and every capacity: the fields stay in range, no wakeup   *)
(* is lost, and the ring under its locks implements the FIFO queue.        *)
(***************************************************************************)
EXTENDS PCQueue, FiniteSetTheorems, SequenceTheorems, TLAPS

\* The labels at which a thread holds pcq_current_size_lock.
CriticalPCs == {"e_check", "e_put", "e_signal", "e_unlock",
                "d_check", "d_take", "d_signal", "d_unlock"}

MutexInv ==
    \A t \in Threads : pc[t] \in CriticalPCs => pcq_current_size_lock = t

\* What the loop's condition established still holds when the ring changes,
\* because the mutex is held in between.
CheckedInv ==
    /\ \A p \in Producers : pc[p] = "e_put" => pcq_current_size < Capacity
    /\ \A c \in Consumers : pc[c] = "d_take" => pcq_current_size > 0

RingInv == pcq_tail = (pcq_head + pcq_current_size) % Capacity

ArgumentInv == \A p \in Producers : pc[p] \in EnqueuePCs => elem[p] \in Elems

IInv == TypeOK /\ MutexInv /\ CheckedInv /\ RingInv /\ ArgumentInv

------------------------------------------------------------------------------
\* A sum of two ring indices wraps at most once.
LEMMA ModOnce ==
    ASSUME NEW n \in 0 .. 2 * Capacity - 1
    PROVE  n % Capacity = IF n < Capacity THEN n ELSE n - Capacity
BY CapacityAssumption

LEMMA ModSucc ==
    ASSUME NEW i \in Slots
    PROVE  (i + 1) % Capacity = IF i + 1 = Capacity THEN 0 ELSE i + 1
BY CapacityAssumption, ModOnce DEF Slots

\* Adding an element at the tail moves the tail one slot on.
LEMMA RingPut ==
    ASSUME NEW h \in Slots, NEW n \in 0 .. Capacity - 1
    PROVE  (((h + n) % Capacity) + 1) % Capacity = (h + (n + 1)) % Capacity
  <1>1. (h + n) % Capacity = IF h + n < Capacity THEN h + n ELSE h + n - Capacity
    BY CapacityAssumption, ModOnce DEF Slots
  <1>2. (h + (n + 1)) % Capacity
            = IF h + n + 1 < Capacity THEN h + n + 1 ELSE h + n + 1 - Capacity
    BY CapacityAssumption, ModOnce DEF Slots
  <1> QED
    BY <1>1, <1>2, CapacityAssumption, ModSucc DEF Slots

\* Moving the head one slot on renumbers the slots after it, and leaves them.
LEMMA RingTake ==
    ASSUME NEW h \in Slots, NEW n \in 0 .. Capacity - 1
    PROVE  (((h + 1) % Capacity) + n) % Capacity = (h + (n + 1)) % Capacity
  <1>1. (h + 1) % Capacity = IF h + 1 = Capacity THEN 0 ELSE h + 1
    BY ModSucc
  <1>2. (h + (n + 1)) % Capacity
            = IF h + n + 1 < Capacity THEN h + n + 1 ELSE h + n + 1 - Capacity
    BY CapacityAssumption, ModOnce DEF Slots
  <1>3. CASE h + 1 = Capacity
    BY <1>1, <1>2, <1>3, CapacityAssumption, ModOnce DEF Slots
  <1>4. CASE h + 1 # Capacity
    BY <1>1, <1>2, <1>4, CapacityAssumption, ModOnce DEF Slots
  <1> QED
    BY <1>3, <1>4

LEMMA InitIInv == Init => IInv
  <1> SUFFICES ASSUME Init PROVE IInv
    OBVIOUS
  <1>1. TypeOK
    BY CapacityAssumption DEF Init, TypeOK, Slots, EnqueuePCs, DequeuePCs, Threads
  <1>2. MutexInv /\ CheckedInv /\ ArgumentInv
    BY DEF Init, MutexInv, CheckedInv, ArgumentInv, CriticalPCs, EnqueuePCs, Threads
  <1>3. RingInv
    BY CapacityAssumption, ModOnce DEF Init, RingInv
  <1> QED
    BY <1>1, <1>2, <1>3 DEF IInv

------------------------------------------------------------------------------
\* Type correctness of every step.
LEMMA TypeStep ==
    ASSUME TypeOK, MutexInv, CheckedInv, ArgumentInv, [Next]_vars
    PROVE  TypeOK'
  <1> USE CapacityAssumption, ThreadsAssumption DEF TypeOK, Goto, Lock, Unlock,
        ring, locks, EnqueuePCs, DequeuePCs, Threads
  <1>1. ASSUME NEW p \in Producers, NEW e \in Elems, EnqueueCall(p, e)
        PROVE  TypeOK'
    BY <1>1 DEF EnqueueCall
  <1>2. ASSUME NEW p \in Producers, EnqueueLock(p) PROVE TypeOK'
    BY <1>2 DEF EnqueueLock
  <1>3. ASSUME NEW p \in Producers, EnqueueWait(p) PROVE TypeOK'
    BY <1>3 DEF EnqueueWait
  <1>4. ASSUME NEW p \in Producers, EnqueueLockTail(p) PROVE TypeOK'
    BY <1>4 DEF EnqueueLockTail
  <1>5. ASSUME NEW p \in Producers, EnqueuePut(p) PROVE TypeOK'
    <2>1. pcq_current_size' \in 0 .. Capacity /\ pcq_tail' \in Slots
      BY <1>5, ModSucc DEF EnqueuePut, CheckedInv, Slots
    <2>2. pcq_buffer' \in [Slots -> Elems \cup {NoElem}]
      BY <1>5 DEF EnqueuePut
    <2> QED
      BY <1>5, <2>1, <2>2 DEF EnqueuePut
  <1>6. ASSUME NEW p \in Producers, EnqueueSignal(p) PROVE TypeOK'
    BY <1>6 DEF EnqueueSignal, Signal
  <1>7. ASSUME NEW p \in Producers, EnqueueReturn(p) PROVE TypeOK'
    BY <1>7 DEF EnqueueReturn
  <1>8. ASSUME NEW c \in Consumers, DequeueCall(c) PROVE TypeOK'
    BY <1>8 DEF DequeueCall
  <1>9. ASSUME NEW c \in Consumers, DequeueLock(c) PROVE TypeOK'
    BY <1>9 DEF DequeueLock
  <1>10. ASSUME NEW c \in Consumers, DequeueWait(c) PROVE TypeOK'
    BY <1>10 DEF DequeueWait
  <1>11. ASSUME NEW c \in Consumers, DequeueLockHead(c) PROVE TypeOK'
    BY <1>11 DEF DequeueLockHead
  <1>12. ASSUME NEW c \in Consumers, DequeueTake(c) PROVE TypeOK'
    <2>1. pcq_current_size' \in 0 .. Capacity /\ pcq_head' \in Slots
      BY <1>12, ModSucc DEF DequeueTake, CheckedInv, Slots
    <2>2. elem' \in [Threads -> Elems \cup {NoElem}]
      BY <1>12 DEF DequeueTake
    <2> QED
      BY <1>12, <2>1, <2>2 DEF DequeueTake
  <1>13. ASSUME NEW c \in Consumers, DequeueSignal(c) PROVE TypeOK'
    BY <1>13 DEF DequeueSignal, Signal
  <1>14. ASSUME NEW c \in Consumers, DequeueReturn(c) PROVE TypeOK'
    BY <1>14 DEF DequeueReturn
  <1>15. ASSUME NEW t \in Threads, SpuriousWakeup(t) PROVE TypeOK'
    BY <1>15 DEF SpuriousWakeup
  <1>16. CASE UNCHANGED vars
    BY <1>16 DEF vars
  <1> QED
    BY <1>1, <1>2, <1>3, <1>4, <1>5, <1>6, <1>7, <1>8, <1>9, <1>10, <1>11,
       <1>12, <1>13, <1>14, <1>15, <1>16 DEF Next, Enqueue, Dequeue

\* Only the owner of the mutex is at a critical label, so what its check
\* established cannot be undone by another thread.
LEMMA ControlStep ==
    ASSUME TypeOK, MutexInv, CheckedInv, ArgumentInv, [Next]_vars
    PROVE  MutexInv' /\ CheckedInv' /\ ArgumentInv'
  <1> DEFINE Goal == MutexInv /\ CheckedInv /\ ArgumentInv
  <1> USE ThreadsAssumption DEF TypeOK, MutexInv, CheckedInv, ArgumentInv, Goto,
        Lock, Unlock, ring, locks, CriticalPCs, EnqueuePCs, DequeuePCs, Threads
  <1>1. ASSUME NEW p \in Producers, NEW e \in Elems, EnqueueCall(p, e) PROVE Goal'
    BY <1>1 DEF EnqueueCall
  <1>2. ASSUME NEW p \in Producers, EnqueueLock(p) PROVE Goal'
    BY <1>2 DEF EnqueueLock
  <1>3. ASSUME NEW p \in Producers, EnqueueWait(p) PROVE Goal'
    BY <1>3 DEF EnqueueWait
  <1>4. ASSUME NEW p \in Producers, EnqueueLockTail(p) PROVE Goal'
    BY <1>4, CapacityAssumption DEF EnqueueLockTail
  <1>5. ASSUME NEW p \in Producers, EnqueuePut(p) PROVE Goal'
    <2>1. MutexInv' /\ ArgumentInv'
      BY <1>5 DEF EnqueuePut
    <2>2. \A t \in Threads : pc'[t] \notin {"e_put", "d_take"}
      BY <1>5 DEF EnqueuePut
    <2>3. CheckedInv'
      BY <2>2
    <2> QED
      BY <2>1, <2>3
  <1>6. ASSUME NEW p \in Producers, EnqueueSignal(p) PROVE Goal'
    BY <1>6 DEF EnqueueSignal, Signal
  <1>7. ASSUME NEW p \in Producers, EnqueueReturn(p) PROVE Goal'
    BY <1>7 DEF EnqueueReturn
  <1>8. ASSUME NEW c \in Consumers, DequeueCall(c) PROVE Goal'
    BY <1>8 DEF DequeueCall
  <1>9. ASSUME NEW c \in Consumers, DequeueLock(c) PROVE Goal'
    BY <1>9 DEF DequeueLock
  <1>10. ASSUME NEW c \in Consumers, DequeueWait(c) PROVE Goal'
    BY <1>10 DEF DequeueWait
  <1>11. ASSUME NEW c \in Consumers, DequeueLockHead(c) PROVE Goal'
    BY <1>11 DEF DequeueLockHead
  <1>12. ASSUME NEW c \in Consumers, DequeueTake(c) PROVE Goal'
    BY <1>12 DEF DequeueTake
  <1>13. ASSUME NEW c \in Consumers, DequeueSignal(c) PROVE Goal'
    BY <1>13 DEF DequeueSignal, Signal
  <1>14. ASSUME NEW c \in Consumers, DequeueReturn(c) PROVE Goal'
    BY <1>14 DEF DequeueReturn
  <1>15. ASSUME NEW t \in Threads, SpuriousWakeup(t) PROVE Goal'
    BY <1>15 DEF SpuriousWakeup
  <1>16. CASE UNCHANGED vars
    BY <1>16 DEF vars
  <1> QED
    BY <1>1, <1>2, <1>3, <1>4, <1>5, <1>6, <1>7, <1>8, <1>9, <1>10, <1>11,
       <1>12, <1>13, <1>14, <1>15, <1>16 DEF Next, Enqueue, Dequeue

\* The tail is always size slots ahead of the head.
LEMMA RingStep ==
    ASSUME TypeOK, CheckedInv, RingInv, [Next]_vars
    PROVE  RingInv'
  <1> USE DEF RingInv, ring
  <1>1. ASSUME NEW p \in Producers, NEW e \in Elems, EnqueueCall(p, e) PROVE RingInv'
    BY <1>1 DEF EnqueueCall
  <1>2. ASSUME NEW p \in Producers, EnqueueLock(p) PROVE RingInv'
    BY <1>2 DEF EnqueueLock
  <1>3. ASSUME NEW p \in Producers, EnqueueWait(p) PROVE RingInv'
    BY <1>3 DEF EnqueueWait
  <1>4. ASSUME NEW p \in Producers, EnqueueLockTail(p) PROVE RingInv'
    BY <1>4 DEF EnqueueLockTail
  <1>5. ASSUME NEW p \in Producers, EnqueuePut(p) PROVE RingInv'
    <2>1. pcq_head \in Slots /\ pcq_current_size \in 0 .. Capacity - 1
      BY <1>5, CapacityAssumption DEF EnqueuePut, Goto, TypeOK, CheckedInv
    <2> QED
      BY <1>5, <2>1, RingPut DEF EnqueuePut
  <1>6. ASSUME NEW p \in Producers, EnqueueSignal(p) PROVE RingInv'
    BY <1>6 DEF EnqueueSignal, Signal
  <1>7. ASSUME NEW p \in Producers, EnqueueReturn(p) PROVE RingInv'
    BY <1>7 DEF EnqueueReturn
  <1>8. ASSUME NEW c \in Consumers, DequeueCall(c) PROVE RingInv'
    BY <1>8 DEF DequeueCall
  <1>9. ASSUME NEW c \in Consumers, DequeueLock(c) PROVE RingInv'
    BY <1>9 DEF DequeueLock
  <1>10. ASSUME NEW c \in Consumers, DequeueWait(c) PROVE RingInv'
    BY <1>10 DEF DequeueWait
  <1>11. ASSUME NEW c \in Consumers, DequeueLockHead(c) PROVE RingInv'
    BY <1>11 DEF DequeueLockHead
  <1>12. ASSUME NEW c \in Consumers, DequeueTake(c) PROVE RingInv'
    <2>1. pcq_head \in Slots /\ pcq_current_size - 1 \in 0 .. Capacity - 1
      BY <1>12, CapacityAssumption DEF DequeueTake, Goto, TypeOK, CheckedInv
    <2>2. (pcq_current_size - 1) + 1 = pcq_current_size
      BY CapacityAssumption DEF TypeOK
    <2>3. (((pcq_head + 1) % Capacity) + (pcq_current_size - 1)) % Capacity
              = (pcq_head + pcq_current_size) % Capacity
      BY <2>1, <2>2, RingTake
    <2> QED
      BY <1>12, <2>3 DEF DequeueTake
  <1>13. ASSUME NEW c \in Consumers, DequeueSignal(c) PROVE RingInv'
    BY <1>13 DEF DequeueSignal, Signal
  <1>14. ASSUME NEW c \in Consumers, DequeueReturn(c) PROVE RingInv'
    BY <1>14 DEF DequeueReturn
  <1>15. ASSUME NEW t \in Threads, SpuriousWakeup(t) PROVE RingInv'
    BY <1>15 DEF SpuriousWakeup
  <1>16. CASE UNCHANGED vars
    BY <1>16 DEF vars
  <1> QED
    BY <1>1, <1>2, <1>3, <1>4, <1>5, <1>6, <1>7, <1>8, <1>9, <1>10, <1>11,
       <1>12, <1>13, <1>14, <1>15, <1>16 DEF Next, Enqueue, Dequeue

LEMMA IInvStep == IInv /\ [Next]_vars => IInv'
  BY TypeStep, ControlStep, RingStep DEF IInv

\* The strengthened invariant is one: it holds in every reachable state.
THEOREM IInvCorrect == Spec => []IInv
  <1> QED
    BY InitIInv, IInvStep, PTL DEF Spec

\* The fields of the queue stay in their ranges, for every number of threads
\* and every capacity.
THEOREM TypeCorrect == Spec => []TypeOK
  <1>1. IInv => TypeOK
    BY DEF IInv
  <1> QED
    BY <1>1, IInvCorrect, PTL

------------------------------------------------------------------------------
(* No lost wakeup *)

LEMMA AtFinite ==
    ASSUME NEW S, IsFiniteSet(S), NEW labels
    PROVE  /\ IsFiniteSet(At(S, labels))
           /\ Cardinality(At(S, labels)) \in Nat
  <1>1. At(S, labels) \subseteq S
    BY DEF At
  <1> QED
    BY <1>1, FS_Subset, FS_CardinalityType

\* The elements in the queue are covered by the consumers awake and the signals
\* still to come, as long as a consumer sleeps.
LEMMA NoLostPopStep ==
    ASSUME IInv, NoLostPop, [Next]_vars
    PROVE  NoLostPop'
  <1> DEFINE Asleep == At(Consumers, {"d_wait"})
             Awake == At(Consumers, {"d_lock", "d_check", "d_take"})
             Signals == At(Producers, {"e_signal"})
  <1>t. TypeOK /\ MutexInv /\ CheckedInv
    BY DEF IInv
  <1>n. pcq_current_size \in Nat
    BY <1>t DEF TypeOK
  <1>h. Asleep # {} => pcq_current_size <= Cardinality(Awake) + Cardinality(Signals)
    BY DEF NoLostPop
  <1>g. ASSUME Asleep' # {} =>
                 pcq_current_size' <= Cardinality(Awake') + Cardinality(Signals')
        PROVE  NoLostPop'
    BY <1>g DEF NoLostPop
  <1>f. /\ IsFiniteSet(Awake) /\ Cardinality(Awake) \in Nat
        /\ IsFiniteSet(Signals) /\ Cardinality(Signals) \in Nat
    BY ThreadsAssumption, AtFinite
  <1>s. ASSUME UNCHANGED pcq_current_size, Asleep' \subseteq Asleep,
               Awake' = Awake, Signals' = Signals
        PROVE  NoLostPop'
    BY <1>s DEF NoLostPop
  <1>a. ASSUME NEW c \in Consumers, c \notin Awake, UNCHANGED pcq_current_size,
               Asleep' \subseteq Asleep, Awake' = Awake \cup {c}, Signals' = Signals
        PROVE  NoLostPop'
    <2>1. Cardinality(Awake') = Cardinality(Awake) + 1
      BY <1>a, <1>f, FS_AddElement
    <2> QED
      BY <1>a, <1>f, <1>n, <2>1 DEF NoLostPop
  <1> USE ThreadsAssumption DEF TypeOK, At, Goto, ring, locks, EnqueuePCs,
        DequeuePCs, Threads
  <1>1. ASSUME NEW p \in Producers, NEW e \in Elems, EnqueueCall(p, e) PROVE NoLostPop'
    <2>1. /\ UNCHANGED pcq_current_size /\ Asleep' = Asleep
          /\ Awake' = Awake /\ Signals' = Signals
      BY <1>1, <1>t DEF EnqueueCall
    <2> QED
      BY <2>1, <1>s
  <1>2. ASSUME NEW p \in Producers, EnqueueLock(p) PROVE NoLostPop'
    <2>1. /\ UNCHANGED pcq_current_size /\ Asleep' = Asleep
          /\ Awake' = Awake /\ Signals' = Signals
      BY <1>2, <1>t DEF EnqueueLock
    <2> QED
      BY <2>1, <1>s
  <1>3. ASSUME NEW p \in Producers, EnqueueWait(p) PROVE NoLostPop'
    <2>1. /\ UNCHANGED pcq_current_size /\ Asleep' = Asleep
          /\ Awake' = Awake /\ Signals' = Signals
      BY <1>3, <1>t DEF EnqueueWait
    <2> QED
      BY <2>1, <1>s
  <1>4. ASSUME NEW p \in Producers, EnqueueLockTail(p) PROVE NoLostPop'
    <2>1. /\ UNCHANGED pcq_current_size /\ Asleep' = Asleep
          /\ Awake' = Awake /\ Signals' = Signals
      BY <1>4, <1>t DEF EnqueueLockTail
    <2> QED
      BY <2>1, <1>s
  <1>5. ASSUME NEW p \in Producers, EnqueuePut(p) PROVE NoLostPop'
    <2>1. /\ pcq_current_size' = pcq_current_size + 1 /\ Asleep' = Asleep
          /\ Awake' = Awake /\ Signals' = Signals \cup {p} /\ p \notin Signals
      BY <1>5, <1>t DEF EnqueuePut
    <2>2. Cardinality(Signals') = Cardinality(Signals) + 1
      BY <2>1, <1>f, FS_AddElement
    <2> QED
      BY <2>1, <2>2, <1>f, <1>n DEF NoLostPop
  <1>6. ASSUME NEW p \in Producers, EnqueueSignal(p) PROVE NoLostPop'
    <2>1. CASE \A w \in Threads : pc[w] # "d_wait"
      BY <1>6, <1>t, <2>1 DEF EnqueueSignal, Signal, NoLostPop
    <2>2. CASE \E w \in Threads : pc[w] = "d_wait"
      <3>1. PICK w \in Threads :
              /\ pc[w] = "d_wait"
              /\ pc' = [pc EXCEPT ![p] = "e_unlock", ![w] = "d_lock"]
        BY <1>6, <2>2 DEF EnqueueSignal, Signal
      <3>2. w \in Consumers
        BY <3>1, <1>t
      <3>3. /\ UNCHANGED pcq_current_size
            /\ Awake' = Awake \cup {w} /\ w \notin Awake /\ w \in Asleep
            /\ Signals' = Signals \ {p} /\ p \in Signals
        BY <1>6, <1>t, <3>1, <3>2 DEF EnqueueSignal, Signal
      <3> HIDE DEF At, Asleep, Awake, Signals
      <3>4. Cardinality(Awake') = Cardinality(Awake) + 1
        BY <3>3, <1>f, FS_AddElement
      <3>5. Cardinality(Signals') = Cardinality(Signals) - 1
        BY <3>3, <1>f, FS_RemoveElement
      <3> QED
        BY <3>3, <3>4, <3>5, <1>f, <1>n, <1>h, <1>g
    <2> QED
      BY <2>1, <2>2
  <1>7. ASSUME NEW p \in Producers, EnqueueReturn(p) PROVE NoLostPop'
    <2>1. /\ UNCHANGED pcq_current_size /\ Asleep' = Asleep
          /\ Awake' = Awake /\ Signals' = Signals
      BY <1>7, <1>t DEF EnqueueReturn
    <2> QED
      BY <2>1, <1>s
  <1>8. ASSUME NEW c \in Consumers, DequeueCall(c) PROVE NoLostPop'
    <2>1. /\ UNCHANGED pcq_current_size /\ Asleep' = Asleep
          /\ Awake' = Awake \cup {c} /\ c \notin Awake /\ Signals' = Signals
      BY <1>8, <1>t DEF DequeueCall
    <2> QED
      BY <2>1, <1>a
  <1>9. ASSUME NEW c \in Consumers, DequeueLock(c) PROVE NoLostPop'
    <2>1. /\ UNCHANGED pcq_current_size /\ Asleep' = Asleep
          /\ Awake' = Awake /\ Signals' = Signals
      BY <1>9, <1>t DEF DequeueLock
    <2> QED
      BY <2>1, <1>s
  <1>10. ASSUME NEW c \in Consumers, DequeueWait(c) PROVE NoLostPop'
    <2>1. pcq_current_size' = 0
      BY <1>10 DEF DequeueWait
    <2>2. Cardinality(Awake') \in Nat /\ Cardinality(Signals') \in Nat
      <3>1. Awake' \subseteq Consumers /\ Signals' \subseteq Producers
        OBVIOUS
      <3> QED
        BY <3>1, FS_Subset, FS_CardinalityType
    <2> QED
      BY <2>1, <2>2 DEF NoLostPop
  <1>11. ASSUME NEW c \in Consumers, DequeueLockHead(c) PROVE NoLostPop'
    <2>1. /\ UNCHANGED pcq_current_size /\ Asleep' = Asleep
          /\ Awake' = Awake /\ Signals' = Signals
      BY <1>11, <1>t DEF DequeueLockHead
    <2> QED
      BY <2>1, <1>s
  <1>12. ASSUME NEW c \in Consumers, DequeueTake(c) PROVE NoLostPop'
    <2>1. /\ pcq_current_size' = pcq_current_size - 1 /\ Asleep' = Asleep
          /\ Awake' = Awake \ {c} /\ c \in Awake /\ Signals' = Signals
      BY <1>12, <1>t DEF DequeueTake
    <2> HIDE DEF At, Asleep, Awake, Signals
    <2>2. Cardinality(Awake') = Cardinality(Awake) - 1
      BY <2>1, <1>f, FS_RemoveElement
    <2> QED
      BY <2>1, <2>2, <1>f, <1>n, <1>h, <1>g
  <1>13. ASSUME NEW c \in Consumers, DequeueSignal(c) PROVE NoLostPop'
    <2>1. /\ UNCHANGED pcq_current_size /\ Asleep' = Asleep
          /\ Awake' = Awake /\ Signals' = Signals
      BY <1>13, <1>t DEF DequeueSignal, Signal
    <2> QED
      BY <2>1, <1>s
  <1>14. ASSUME NEW c \in Consumers, DequeueReturn(c) PROVE NoLostPop'
    <2>1. /\ UNCHANGED pcq_current_size /\ Asleep' = Asleep
          /\ Awake' = Awake /\ Signals' = Signals
      BY <1>14, <1>t DEF DequeueReturn
    <2> QED
      BY <2>1, <1>s
  <1>15. ASSUME NEW t \in Threads, SpuriousWakeup(t) PROVE NoLostPop'
    <2>1. CASE t \in Producers
      <3>1. /\ UNCHANGED pcq_current_size /\ Asleep' = Asleep
            /\ Awake' = Awake /\ Signals' = Signals
        BY <1>15, <1>t, <2>1 DEF SpuriousWakeup
      <3> QED
        BY <3>1, <1>s
    <2>2. CASE t \in Consumers
      <3>1. /\ UNCHANGED pcq_current_size /\ Asleep' \subseteq Asleep
            /\ Awake' = Awake \cup {t} /\ t \notin Awake /\ Signals' = Signals
        BY <1>15, <1>t, <2>2 DEF SpuriousWakeup
      <3> QED
        BY <3>1, <2>2, <1>a
    <2> QED
      BY <2>1, <2>2
  <1>16. CASE UNCHANGED vars
    BY <1>16, <1>s DEF vars
  <1> QED
    BY <1>1, <1>2, <1>3, <1>4, <1>5, <1>6, <1>7, <1>8, <1>9, <1>10, <1>11,
       <1>12, <1>13, <1>14, <1>15, <1>16 DEF Next, Enqueue, Dequeue

\* The free slots are covered by the producers awake and the signals still to
\* come, as long as a producer sleeps.
LEMMA NoLostPushStep ==
    ASSUME IInv, NoLostPush, [Next]_vars
    PROVE  NoLostPush'
  <1> DEFINE Asleep == At(Producers, {"e_wait"})
             Awake == At(Producers, {"e_lock", "e_check", "e_put"})
             Signals == At(Consumers, {"d_signal"})
  <1>t. TypeOK /\ MutexInv /\ CheckedInv
    BY DEF IInv
  <1>n. pcq_current_size \in Nat /\ Capacity \in Nat
    BY <1>t, CapacityAssumption DEF TypeOK
  <1>f. /\ IsFiniteSet(Awake) /\ Cardinality(Awake) \in Nat
        /\ IsFiniteSet(Signals) /\ Cardinality(Signals) \in Nat
    BY ThreadsAssumption, AtFinite
  <1>h. Asleep # {} =>
            Capacity - pcq_current_size <= Cardinality(Awake) + Cardinality(Signals)
    BY DEF NoLostPush
  <1>g. ASSUME Asleep' # {} =>
            Capacity - pcq_current_size' <= Cardinality(Awake') + Cardinality(Signals')
        PROVE  NoLostPush'
    BY <1>g DEF NoLostPush
  <1>s. ASSUME UNCHANGED pcq_current_size, Asleep' \subseteq Asleep,
               Awake' = Awake, Signals' = Signals
        PROVE  NoLostPush'
    BY <1>s, <1>h, <1>g
  <1>a. ASSUME NEW p \in Producers, p \notin Awake, UNCHANGED pcq_current_size,
               Asleep' \subseteq Asleep, Awake' = Awake \cup {p}, Signals' = Signals
        PROVE  NoLostPush'
    <2> HIDE DEF Asleep, Awake, Signals
    <2>1. Cardinality(Awake') = Cardinality(Awake) + 1
      BY <1>a, <1>f, FS_AddElement
    <2> QED
      BY <1>a, <1>f, <1>n, <1>h, <1>g, <2>1
  <1> USE ThreadsAssumption DEF TypeOK, At, Goto, ring, locks, EnqueuePCs,
        DequeuePCs, Threads
  <1>1. ASSUME NEW p \in Producers, NEW e \in Elems, EnqueueCall(p, e) PROVE NoLostPush'
    <2>1. /\ UNCHANGED pcq_current_size /\ Asleep' = Asleep
          /\ Awake' = Awake \cup {p} /\ p \notin Awake /\ Signals' = Signals
      BY <1>1, <1>t DEF EnqueueCall
    <2> QED
      BY <2>1, <1>a
  <1>2. ASSUME NEW p \in Producers, EnqueueLock(p) PROVE NoLostPush'
    <2>1. /\ UNCHANGED pcq_current_size /\ Asleep' = Asleep
          /\ Awake' = Awake /\ Signals' = Signals
      BY <1>2, <1>t DEF EnqueueLock
    <2> QED
      BY <2>1, <1>s
  <1>3. ASSUME NEW p \in Producers, EnqueueWait(p) PROVE NoLostPush'
    <2>1. pcq_current_size' = Capacity
      BY <1>3 DEF EnqueueWait
    <2>2. Cardinality(Awake') \in Nat /\ Cardinality(Signals') \in Nat
      <3>1. Awake' \subseteq Producers /\ Signals' \subseteq Consumers
        OBVIOUS
      <3> QED
        BY <3>1, FS_Subset, FS_CardinalityType
    <2> HIDE DEF At, Asleep, Awake, Signals
    <2> QED
      BY <2>1, <2>2, <1>n, <1>g
  <1>4. ASSUME NEW p \in Producers, EnqueueLockTail(p) PROVE NoLostPush'
    <2>1. /\ UNCHANGED pcq_current_size /\ Asleep' = Asleep
          /\ Awake' = Awake /\ Signals' = Signals
      BY <1>4, <1>t DEF EnqueueLockTail
    <2> QED
      BY <2>1, <1>s
  <1>5. ASSUME NEW p \in Producers, EnqueuePut(p) PROVE NoLostPush'
    <2>1. /\ pcq_current_size' = pcq_current_size + 1 /\ Asleep' = Asleep
          /\ Awake' = Awake \ {p} /\ p \in Awake /\ Signals' = Signals
      BY <1>5, <1>t DEF EnqueuePut
    <2> HIDE DEF At, Asleep, Awake, Signals
    <2>2. Cardinality(Awake') = Cardinality(Awake) - 1
      BY <2>1, <1>f, FS_RemoveElement
    <2> QED
      BY <2>1, <2>2, <1>f, <1>n, <1>h, <1>g
  <1>6. ASSUME NEW p \in Producers, EnqueueSignal(p) PROVE NoLostPush'
    <2>1. /\ UNCHANGED pcq_current_size /\ Asleep' = Asleep
          /\ Awake' = Awake /\ Signals' = Signals
      BY <1>6, <1>t DEF EnqueueSignal, Signal
    <2> QED
      BY <2>1, <1>s
  <1>7. ASSUME NEW p \in Producers, EnqueueReturn(p) PROVE NoLostPush'
    <2>1. /\ UNCHANGED pcq_current_size /\ Asleep' = Asleep
          /\ Awake' = Awake /\ Signals' = Signals
      BY <1>7, <1>t DEF EnqueueReturn
    <2> QED
      BY <2>1, <1>s
  <1>8. ASSUME NEW c \in Consumers, DequeueCall(c) PROVE NoLostPush'
    <2>1. /\ UNCHANGED pcq_current_size /\ Asleep' = Asleep
          /\ Awake' = Awake /\ Signals' = Signals
      BY <1>8, <1>t DEF DequeueCall
    <2> QED
      BY <2>1, <1>s
  <1>9. ASSUME NEW c \in Consumers, DequeueLock(c) PROVE NoLostPush'
    <2>1. /\ UNCHANGED pcq_current_size /\ Asleep' = Asleep
          /\ Awake' = Awake /\ Signals' = Signals
      BY <1>9, <1>t DEF DequeueLock
    <2> QED
      BY <2>1, <1>s
  <1>10. ASSUME NEW c \in Consumers, DequeueWait(c) PROVE NoLostPush'
    <2>1. /\ UNCHANGED pcq_current_size /\ Asleep' = Asleep
          /\ Awake' = Awake /\ Signals' = Signals
      BY <1>10, <1>t DEF DequeueWait
    <2> QED
      BY <2>1, <1>s
  <1>11. ASSUME NEW c \in Consumers, DequeueLockHead(c) PROVE NoLostPush'
    <2>1. /\ UNCHANGED pcq_current_size /\ Asleep' = Asleep
          /\ Awake' = Awake /\ Signals' = Signals
      BY <1>11, <1>t DEF DequeueLockHead
    <2> QED
      BY <2>1, <1>s
  <1>12. ASSUME NEW c \in Consumers, DequeueTake(c) PROVE NoLostPush'
    <2>1. /\ pcq_current_size' = pcq_current_size - 1 /\ Asleep' = Asleep
          /\ Awake' = Awake /\ Signals' = Signals \cup {c} /\ c \notin Signals
      BY <1>12, <1>t DEF DequeueTake
    <2> HIDE DEF At, Asleep, Awake, Signals
    <2>2. Cardinality(Signals') = Cardinality(Signals) + 1
      BY <2>1, <1>f, FS_AddElement
    <2> QED
      BY <2>1, <2>2, <1>f, <1>n, <1>h, <1>g
  <1>13. ASSUME NEW c \in Consumers, DequeueSignal(c) PROVE NoLostPush'
    <2>1. CASE \A w \in Threads : pc[w] # "e_wait"
      BY <1>13, <1>t, <2>1 DEF DequeueSignal, Signal, NoLostPush
    <2>2. CASE \E w \in Threads : pc[w] = "e_wait"
      <3>1. PICK w \in Threads :
              /\ pc[w] = "e_wait"
              /\ pc' = [pc EXCEPT ![c] = "d_unlock", ![w] = "e_lock"]
        BY <1>13, <2>2 DEF DequeueSignal, Signal
      <3>2. w \in Producers
        BY <3>1, <1>t
      <3>3. /\ UNCHANGED pcq_current_size
            /\ Awake' = Awake \cup {w} /\ w \notin Awake /\ w \in Asleep
            /\ Signals' = Signals \ {c} /\ c \in Signals
        BY <1>13, <1>t, <3>1, <3>2 DEF DequeueSignal, Signal
      <3> HIDE DEF At, Asleep, Awake, Signals
      <3>4. Cardinality(Awake') = Cardinality(Awake) + 1
        BY <3>3, <1>f, FS_AddElement
      <3>5. Cardinality(Signals') = Cardinality(Signals) - 1
        BY <3>3, <1>f, FS_RemoveElement
      <3> QED
        BY <3>3, <3>4, <3>5, <1>f, <1>n, <1>h, <1>g
    <2> QED
      BY <2>1, <2>2
  <1>14. ASSUME NEW c \in Consumers, DequeueReturn(c) PROVE NoLostPush'
    <2>1. /\ UNCHANGED pcq_current_size /\ Asleep' = Asleep
          /\ Awake' = Awake /\ Signals' = Signals
      BY <1>14, <1>t DEF DequeueReturn
    <2> QED
      BY <2>1, <1>s
  <1>15. ASSUME NEW t \in Threads, SpuriousWakeup(t) PROVE NoLostPush'
    <2>1. CASE t \in Consumers
      <3>1. /\ UNCHANGED pcq_current_size /\ Asleep' = Asleep
            /\ Awake' = Awake /\ Signals' = Signals
        BY <1>15, <1>t, <2>1 DEF SpuriousWakeup
      <3> QED
        BY <3>1, <1>s
    <2>2. CASE t \in Producers
      <3>1. /\ UNCHANGED pcq_current_size /\ Asleep' \subseteq Asleep
            /\ Awake' = Awake \cup {t} /\ t \notin Awake /\ Signals' = Signals
        BY <1>15, <1>t, <2>2 DEF SpuriousWakeup
      <3> QED
        BY <3>1, <2>2, <1>a
    <2> QED
      BY <2>1, <2>2
  <1>16. CASE UNCHANGED vars
    BY <1>16, <1>s DEF vars
  <1> QED
    BY <1>1, <1>2, <1>3, <1>4, <1>5, <1>6, <1>7, <1>8, <1>9, <1>10, <1>11,
       <1>12, <1>13, <1>14, <1>15, <1>16 DEF Next, Enqueue, Dequeue

\* No wakeup is lost, for every number of threads and every capacity: one signal
\* per operation under the mutex is enough.
THEOREM NoWakeupLost == Spec => []NoLostWakeup
  <1>1. Init => NoLostWakeup
    BY DEF Init, NoLostWakeup, NoLostPop, NoLostPush, At, Threads
  <1>2. IInv /\ NoLostWakeup /\ [Next]_vars => NoLostWakeup'
    BY NoLostPopStep, NoLostPushStep DEF NoLostWakeup
  <1> QED
    BY <1>1, <1>2, IInvCorrect, PTL DEF Spec

------------------------------------------------------------------------------
(* The ring buffer under its locks implements the FIFO queue of the header. *)
(* The refinement mapping reads the elements from pcq_head on; the write of *)
(* pcq_enqueue is Put, the read of pcq_dequeue is Take, every other step is *)
(* invisible.                                                               *)

Cells == Elems \cup {NoElem}

------------------------------------------------------------------------------
\* An index computed from the head is a slot of the ring.
LEMMA RingIndex ==
    ASSUME NEW h \in Slots, NEW n \in 0 .. Capacity
    PROVE  (h + n) % Capacity \in Slots
BY CapacityAssumption, ModOnce DEF Slots

\* Two elements of the queue, or the last and the slot after it, are apart.
LEMMA RingApart ==
    ASSUME NEW h \in Slots, NEW n \in 0 .. Capacity - 1, NEW m \in 0 .. n - 1
    PROVE  (h + m) % Capacity # (h + n) % Capacity
<1>1. (h + m) % Capacity = IF h + m < Capacity THEN h + m ELSE h + m - Capacity
    BY CapacityAssumption, ModOnce DEF Slots
<1>2. (h + n) % Capacity = IF h + n < Capacity THEN h + n ELSE h + n - Capacity
    BY CapacityAssumption, ModOnce DEF Slots
<1> QED
    BY <1>1, <1>2, CapacityAssumption DEF Slots

\* What n slots of a ring hold from slot h on.
Window(buffer, h, n) == [i \in 1 .. n |-> buffer[(h + i - 1) % Capacity]]

LEMMA WindowSeq ==
    ASSUME NEW buffer \in [Slots -> Cells], NEW h \in Slots, NEW n \in 0 .. Capacity
    PROVE  /\ Window(buffer, h, n) \in Seq(Cells)
           /\ Len(Window(buffer, h, n)) = n
           /\ \A i \in 1 .. n : Window(buffer, h, n)[i] = buffer[(h + (i - 1)) % Capacity]
<1>1. \A i \in 1 .. n : h + i - 1 = h + (i - 1) /\ i - 1 \in 0 .. Capacity
    BY CapacityAssumption DEF Slots
<1>2. \A i \in 1 .. n : buffer[(h + i - 1) % Capacity] \in Cells
    BY <1>1, RingIndex
<1>3. n \in Nat
    BY CapacityAssumption
<1>4. Window(buffer, h, n) \in [1 .. n -> Cells]
    BY <1>2 DEF Window
<1>5. Window(buffer, h, n) \in Seq(Cells)
    BY <1>3, <1>4, SeqDef
<1>6. Len(Window(buffer, h, n)) = n
    <2>1. DOMAIN Window(buffer, h, n) = 1 .. n
        BY DEF Window
    <2>2. /\ Len(Window(buffer, h, n)) \in Nat
          /\ DOMAIN Window(buffer, h, n) = 1 .. Len(Window(buffer, h, n))
        BY <1>5, LenProperties
    <2>3. \A j, k \in Nat : 1 .. j = 1 .. k => j = k
        BY Z3
    <2> QED
        BY <1>3, <2>1, <2>2, <2>3
<1>7. \A i \in 1 .. n : Window(buffer, h, n)[i] = buffer[(h + (i - 1)) % Capacity]
    BY <1>1 DEF Window
<1> QED
    BY <1>5, <1>6, <1>7

\* Writing in the slot after the last one appends to the window.
LEMMA WindowPut ==
    ASSUME NEW buffer \in [Slots -> Cells], NEW h \in Slots, NEW n \in 0 .. Capacity - 1,
           NEW e \in Cells
    PROVE  Window([buffer EXCEPT ![(h + n) % Capacity] = e], h, n + 1)
               = Append(Window(buffer, h, n), e)
<1> DEFINE tail == (h + n) % Capacity
           buffer2 == [buffer EXCEPT ![tail] = e]
           old == Window(buffer, h, n)
           new == Window(buffer2, h, n + 1)
<1>1. n \in 0 .. Capacity /\ n + 1 \in 0 .. Capacity /\ tail \in Slots
    BY CapacityAssumption, RingIndex
<1>2. buffer2 \in [Slots -> Cells]
    BY <1>1
<1>3. /\ old \in Seq(Cells) /\ Len(old) = n
      /\ \A i \in 1 .. n : old[i] = buffer[(h + (i - 1)) % Capacity]
    BY <1>1, WindowSeq
<1>4. /\ new \in Seq(Cells) /\ Len(new) = n + 1
      /\ \A i \in 1 .. n + 1 : new[i] = buffer2[(h + (i - 1)) % Capacity]
    BY <1>1, <1>2, WindowSeq
<1>5. \A i \in 1 .. n : new[i] = old[i]
    <2> SUFFICES ASSUME NEW i \in 1 .. n PROVE new[i] = old[i]
        OBVIOUS
    <2>1. i - 1 \in 0 .. n - 1 /\ i \in 1 .. n + 1 /\ i - 1 \in 0 .. Capacity
        BY CapacityAssumption
    <2>2. (h + (i - 1)) % Capacity # tail /\ (h + (i - 1)) % Capacity \in Slots
        BY <2>1, RingApart, RingIndex
    <2> HIDE DEF tail
    <2>3. buffer2[(h + (i - 1)) % Capacity] = buffer[(h + (i - 1)) % Capacity]
        BY <2>2
    <2> QED
        BY <1>3, <1>4, <2>1, <2>3
<1>6. new[n + 1] = e
    <2>1. n + 1 \in 1 .. n + 1 /\ (n + 1) - 1 = n
        BY CapacityAssumption
    <2>2. new[n + 1] = buffer2[tail]
        BY <1>4, <2>1
    <2> QED
        BY <1>1, <2>2
<1> HIDE DEF tail, buffer2, old, new
<1>7. Append(old, e) \in Seq(Cells) /\ Len(Append(old, e)) = n + 1
    BY <1>3
<1>8. \A i \in 1 .. n + 1 : Append(old, e)[i] = IF i = n + 1 THEN e ELSE old[i]
    BY <1>3
<1>9. \A i \in 1 .. n + 1 : new[i] = Append(old, e)[i]
    <2> TAKE i \in 1 .. n + 1
    <2>1. CASE i = n + 1
        BY <1>6, <1>8, <2>1
    <2>2. CASE i # n + 1
        <3>1. i \in 1 .. n
            BY <2>2, CapacityAssumption
        <3> QED
            BY <1>5, <1>8, <2>2, <3>1
    <2> QED
        BY <2>1, <2>2
<1>10. new = Append(old, e)
    BY <1>4, <1>7, <1>9, SeqEqual
<1> QED
    BY <1>10 DEF tail, buffer2, old, new

\* Moving the head on drops the head of the window.
LEMMA WindowTake ==
    ASSUME NEW buffer \in [Slots -> Cells], NEW h \in Slots, NEW n \in 1 .. Capacity
    PROVE  /\ Window(buffer, h, n) # << >>
           /\ Head(Window(buffer, h, n)) = buffer[h]
           /\ Window(buffer, (h + 1) % Capacity, n - 1) = Tail(Window(buffer, h, n))
<1> DEFINE next == (h + 1) % Capacity
           old == Window(buffer, h, n)
           new == Window(buffer, next, n - 1)
<1>1. n \in 0 .. Capacity /\ n - 1 \in 0 .. Capacity - 1 /\ n - 1 \in 0 .. Capacity /\ next \in Slots
    BY CapacityAssumption, RingIndex
<1>2. /\ old \in Seq(Cells) /\ Len(old) = n
      /\ \A i \in 1 .. n : old[i] = buffer[(h + (i - 1)) % Capacity]
    BY <1>1, WindowSeq
<1>3. /\ new \in Seq(Cells) /\ Len(new) = n - 1
      /\ \A i \in 1 .. n - 1 : new[i] = buffer[(next + (i - 1)) % Capacity]
    BY <1>1, WindowSeq
<1>4. old # << >>
    BY <1>2, CapacityAssumption
<1>5. Head(old) = buffer[h]
    <2>1. (h + (1 - 1)) % Capacity = h
        BY CapacityAssumption, ModOnce DEF Slots
    <2>2. old[1] = buffer[h]
        BY <1>2, <2>1, CapacityAssumption
    <2> QED
        BY <1>2, <1>4, <2>2
<1>6. /\ Tail(old) \in Seq(Cells) /\ Len(Tail(old)) = n - 1
      /\ \A i \in 1 .. n - 1 : Tail(old)[i] = old[i + 1]
    BY <1>2, <1>4, HeadTailProperties
<1>7. \A i \in 1 .. n - 1 : new[i] = Tail(old)[i]
    <2> SUFFICES ASSUME NEW i \in 1 .. n - 1 PROVE new[i] = Tail(old)[i]
        OBVIOUS
    <2>1. i - 1 \in 0 .. Capacity - 1 /\ i + 1 \in 1 .. n /\ (i + 1) - 1 = i /\ (i - 1) + 1 = i
        BY CapacityAssumption
    <2>2. (next + (i - 1)) % Capacity = (h + i) % Capacity
        BY <2>1, RingTake
    <2>3. new[i] = buffer[(h + i) % Capacity]
        BY <1>3, <2>2
    <2>4. Tail(old)[i] = buffer[(h + i) % Capacity]
        BY <1>2, <1>6, <2>1
    <2> QED
        BY <2>3, <2>4
<1> HIDE DEF next, old, new
<1>8. new = Tail(old)
    BY <1>3, <1>6, <1>7, SeqEqual
<1> QED
    BY <1>4, <1>5, <1>8 DEF next, old, new

------------------------------------------------------------------------------
(* The refinement *)

Got == [c \in Consumers |-> elem[c]]

\* The labels of pcq_enqueue before the element is in the ring, and those of
\* pcq_dequeue before it is out.
PutPCs == {"e_lock", "e_check", "e_wait", "e_put"}
TakePCs == {"d_lock", "d_check", "d_wait", "d_take"}

LEMMA InitRefines == Init => Fifo!Init
<1> SUFFICES ASSUME Init
             PROVE  /\ Contents = << >> /\ Got = [c \in Consumers |-> NoElem]
                    /\ Offered = [p \in Producers |-> NoElem] /\ Asking = {}
    BY DEF Fifo!Init, Got
<1>1. Contents = << >>
    BY DEF Init, Contents
<1>2. Got = [c \in Consumers |-> NoElem]
    BY DEF Init, Got, Threads
<1>3. Offered = [p \in Producers |-> NoElem] /\ Asking = {}
    BY DEF Init, Offered, Asking, At, Threads
<1> QED
    BY <1>1, <1>2, <1>3

\* A step of a thread that leaves it on its side of the put, or of the take,
\* changes neither what is offered nor who is asking.
LEMMA CallsStay ==
    ASSUME IInv, UNCHANGED elem,
           \A p \in Producers : pc'[p] \in PutPCs <=> pc[p] \in PutPCs,
           \A c \in Consumers : pc'[c] \in TakePCs <=> pc[c] \in TakePCs
    PROVE  Offered' = Offered /\ Asking' = Asking
BY DEF Offered, Asking, At, PutPCs, TakePCs

LEMMA PutRefines ==
    ASSUME IInv, NEW p \in Producers, EnqueuePut(p)
    PROVE  Fifo!PutOffered(p)
<1>1. /\ pcq_buffer \in [Slots -> Cells] /\ pcq_head \in Slots
      /\ pcq_current_size \in 0 .. Capacity - 1
    BY CapacityAssumption DEF IInv, TypeOK, CheckedInv, EnqueuePut, Goto, Cells
<1>2. elem[p] \in Elems
    BY DEF IInv, ArgumentInv, EnqueuePut, Goto, EnqueuePCs
<1>3. Contents = Window(pcq_buffer, pcq_head, pcq_current_size)
    BY DEF Contents, Window
<1>4. Contents' = Window([pcq_buffer EXCEPT ![pcq_tail] = elem[p]], pcq_head, pcq_current_size + 1)
    BY DEF Contents, Window, EnqueuePut
<1>5. Contents' = Append(Contents, elem[p])
    BY <1>1, <1>2, <1>3, <1>4, WindowPut DEF IInv, RingInv, Cells
<1>6. Len(Contents) < Capacity
    <2>1. pcq_current_size \in 0 .. Capacity
        BY <1>1, CapacityAssumption
    <2>2. Len(Contents) = pcq_current_size
        BY <1>1, <1>3, <2>1, WindowSeq
    <2> QED
        BY <1>1, <2>2, CapacityAssumption
<1>7. UNCHANGED Got
    BY DEF EnqueuePut, Got
<1>t. pc \in [Threads -> {"idle"} \cup EnqueuePCs \cup DequeuePCs] /\ p \in Threads
    BY DEF IInv, TypeOK, Threads
<1>8. pc[p] = "e_put" /\ pc' = [pc EXCEPT ![p] = "e_signal"] /\ elem' = elem
    BY DEF EnqueuePut, Goto
<1>9. Offered[p] = elem[p] /\ elem[p] # NoElem
    BY <1>2, <1>8, ElemAssumption DEF Offered
<1>10. Offered' = [Offered EXCEPT ![p] = NoElem]
    BY <1>t, <1>8 DEF Offered, Threads
<1>11. Asking' = Asking
    BY <1>t, <1>8, ThreadsAssumption DEF Asking, At, Threads
<1> QED
    BY <1>5, <1>6, <1>7, <1>9, <1>10, <1>11 DEF Fifo!PutOffered, Fifo!Put, Got

LEMMA TakeRefines ==
    ASSUME IInv, NEW c \in Consumers, DequeueTake(c)
    PROVE  Fifo!TakeAsked(c)
<1>1. /\ pcq_buffer \in [Slots -> Cells] /\ pcq_head \in Slots
      /\ pcq_current_size \in 1 .. Capacity
    BY CapacityAssumption DEF IInv, TypeOK, CheckedInv, DequeueTake, Goto, Cells
<1>2. Contents = Window(pcq_buffer, pcq_head, pcq_current_size)
    BY DEF Contents, Window
<1>3. Contents' = Window(pcq_buffer, (pcq_head + 1) % Capacity, pcq_current_size - 1)
    BY DEF Contents, Window, DequeueTake
<1>4. Contents # << >> /\ Head(Contents) = pcq_buffer[pcq_head] /\ Contents' = Tail(Contents)
    BY <1>1, <1>2, <1>3, WindowTake
<1>5. Got' = [Got EXCEPT ![c] = pcq_buffer[pcq_head]]
    BY DEF DequeueTake, Got, IInv, TypeOK, Threads
<1>t. /\ pc \in [Threads -> {"idle"} \cup EnqueuePCs \cup DequeuePCs]
      /\ elem \in [Threads -> Elems \cup {NoElem}] /\ c \in Threads /\ c \notin Producers
    BY ThreadsAssumption DEF IInv, TypeOK, Threads
<1>6. /\ pc[c] = "d_take" /\ pc' = [pc EXCEPT ![c] = "d_signal"]
      /\ elem' = [elem EXCEPT ![c] = pcq_buffer[pcq_head]]
    BY DEF DequeueTake, Goto
<1>7. c \in Asking /\ Asking' = Asking \ {c}
    BY <1>t, <1>6 DEF Asking, At
<1>8. Offered' = Offered
    BY <1>t, <1>6 DEF Offered, Threads
<1> QED
    BY <1>4, <1>5, <1>7, <1>8 DEF Fifo!TakeAsked, Fifo!Take, Got

\* The ring and the results are as before in every other step.
LEMMA ContentsStay ==
    ASSUME UNCHANGED ring, \A c \in Consumers : elem'[c] = elem[c]
    PROVE  Contents' = Contents /\ UNCHANGED Got
BY DEF Contents, Got, ring

LEMMA OfferRefines ==
    ASSUME IInv, NEW p \in Producers, NEW e \in Elems, EnqueueCall(p, e)
    PROVE  Fifo!Offer(p, e)
<1>t. /\ pc \in [Threads -> {"idle"} \cup EnqueuePCs \cup DequeuePCs]
      /\ elem \in [Threads -> Elems \cup {NoElem}] /\ p \in Threads /\ p \notin Consumers
    BY ThreadsAssumption DEF IInv, TypeOK, Threads
<1>1. /\ pc[p] = "idle" /\ pc' = [pc EXCEPT ![p] = "e_lock"]
      /\ elem' = [elem EXCEPT ![p] = e] /\ UNCHANGED ring
    BY DEF EnqueueCall, Goto
<1>2. Offered[p] = NoElem /\ Offered' = [Offered EXCEPT ![p] = e]
    BY <1>t, <1>1 DEF Offered, Threads
<1>3. Asking' = Asking
    BY <1>t, <1>1 DEF Asking, At, Threads
<1>4. \A c \in Consumers : elem'[c] = elem[c]
    BY <1>t, <1>1 DEF Threads
<1> QED
    BY <1>1, <1>2, <1>3, <1>4, ContentsStay DEF Fifo!Offer, Got

LEMMA AskRefines ==
    ASSUME IInv, NEW c \in Consumers, DequeueCall(c)
    PROVE  Fifo!Ask(c)
<1>t. /\ pc \in [Threads -> {"idle"} \cup EnqueuePCs \cup DequeuePCs]
      /\ c \in Threads /\ c \notin Producers
    BY ThreadsAssumption DEF IInv, TypeOK, Threads
<1>1. pc[c] = "idle" /\ pc' = [pc EXCEPT ![c] = "d_lock"] /\ UNCHANGED <<ring, elem>>
    BY DEF DequeueCall, Goto
<1>2. c \notin Asking /\ Asking' = Asking \cup {c}
    BY <1>t, <1>1 DEF Asking, At
<1>3. Offered' = Offered
    BY <1>t, <1>1 DEF Offered, Threads
<1> QED
    BY <1>1, <1>2, <1>3, ContentsStay DEF Fifo!Ask, Got

\* Every other step leaves the elements in the ring, the results and the calls
\* in progress alone.
LEMMA OtherStutters ==
    ASSUME IInv,
           \/ \E p \in Producers :
                \/ EnqueueLock(p) \/ EnqueueWait(p) \/ EnqueueLockTail(p)
                \/ EnqueueSignal(p) \/ EnqueueReturn(p)
           \/ \E c \in Consumers :
                \/ DequeueLock(c) \/ DequeueWait(c)
                \/ DequeueLockHead(c) \/ DequeueSignal(c) \/ DequeueReturn(c)
           \/ \E t \in Threads : SpuriousWakeup(t)
           \/ UNCHANGED vars
    PROVE  UNCHANGED Fifo!vars
<1>1. UNCHANGED ring /\ UNCHANGED elem
    BY DEF EnqueueLock, EnqueueWait, EnqueueLockTail, EnqueueSignal,
           EnqueueReturn, DequeueLock, DequeueWait, DequeueLockHead,
           DequeueSignal, DequeueReturn, SpuriousWakeup, Signal, vars
<1>t. pc \in [Threads -> {"idle"} \cup EnqueuePCs \cup DequeuePCs]
    BY DEF IInv, TypeOK
<1>2. /\ \A p \in Producers : pc'[p] \in PutPCs <=> pc[p] \in PutPCs
      /\ \A c \in Consumers : pc'[c] \in TakePCs <=> pc[c] \in TakePCs
    <2>1. CASE \E p \in Producers : EnqueueSignal(p)
        BY <1>t, <2>1 DEF EnqueueSignal, Signal, PutPCs, TakePCs, Threads
    <2>2. CASE \E c \in Consumers : DequeueSignal(c)
        BY <1>t, <2>2 DEF DequeueSignal, Signal, PutPCs, TakePCs, Threads
    <2>3. CASE \E t \in Threads : SpuriousWakeup(t)
        BY <1>t, <2>3 DEF SpuriousWakeup, Goto, PutPCs, TakePCs, Threads
    <2>4. CASE UNCHANGED vars
        BY <2>4 DEF vars
    <2>5. CASE \E p \in Producers :
                  EnqueueLock(p) \/ EnqueueWait(p) \/ EnqueueLockTail(p) \/ EnqueueReturn(p)
        BY <1>t, <2>5 DEF EnqueueLock, EnqueueWait, EnqueueLockTail, EnqueueReturn, Goto,
           PutPCs, TakePCs, Threads
    <2>6. CASE \E c \in Consumers :
                  DequeueLock(c) \/ DequeueWait(c) \/ DequeueLockHead(c) \/ DequeueReturn(c)
        BY <1>t, <2>6 DEF DequeueLock, DequeueWait, DequeueLockHead, DequeueReturn, Goto,
           PutPCs, TakePCs, Threads
    <2> QED
        BY <2>1, <2>2, <2>3, <2>4, <2>5, <2>6
<1> QED
    BY <1>1, <1>2, ContentsStay, CallsStay DEF Fifo!vars, Got

LEMMA StepRefines == IInv /\ [Next]_vars => [Fifo!Next]_(Fifo!vars)
<1> SUFFICES ASSUME IInv, [Next]_vars PROVE [Fifo!Next]_(Fifo!vars)
    OBVIOUS
<1>1. CASE \E p \in Producers : EnqueuePut(p)
    BY <1>1, PutRefines DEF Fifo!Next
<1>2. CASE \E c \in Consumers : DequeueTake(c)
    BY <1>2, TakeRefines DEF Fifo!Next
<1>3. CASE \E p \in Producers, e \in Elems : EnqueueCall(p, e)
    BY <1>3, OfferRefines DEF Fifo!Next
<1>4. CASE \E c \in Consumers : DequeueCall(c)
    BY <1>4, AskRefines DEF Fifo!Next
<1> QED
    BY <1>1, <1>2, <1>3, <1>4, OtherStutters DEF Next, Enqueue, Dequeue

\* The ring buffer implements the FIFO queue: elements leave in the order in
\* which they entered, each call puts or takes exactly one, and never more than
\* the capacity of them are in it, whatever the threads do.
THEOREM RefinesFifo == Spec => ImplementsFifo
<1> QED
    BY InitRefines, StepRefines, IInvCorrect, PTL DEF Spec, ImplementsFifo, Fifo!Spec
==============================================================================
