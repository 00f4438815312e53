---------------------------- MODULE SessionsProofs ----------------------------
(***************************************************************************)
(* The sessions, for any number of workers, boxes, requests and messages,  *)
(* whatever the clients do and however memory is reused: no subscriber     *)
(* sleeps through an announcement, unless its box was removed and its      *)
(* memory made another box under it, the locals of the workers and the     *)
(* boxes are well formed, TecnicoFS keeps its invariant, and handle 0 is   *)
(* taken by the first box.  At the end are the strings in a buffer, and that the *)
(* merge sort of a listing sorts any list of responses.  What becomes of   *)
(* the boxes is in SessionsBoxes, what subscribers are sent in             *)
(* SessionsDeliveries.                                                     *)
(***************************************************************************)
EXTENDS Sessions, FiniteSetTheorems, SequenceTheorems, NaturalsInduction, TLAPS

Fields == {"pc", "new_box_name", "handle", "box", "message", "last_size",
           "full_box_buffer", "replay", "client", "delivered"}

BoxFields == {"box_name", "box_size", "n_publishers", "box_condvar_lock", "next", "allocated"}

\* Where a session has its box, and where it has looked for it.
InBox == {"p_claim", "p_read", "p_lock", "p_write", "p_announce", "p_release",
          "s_test", "s_replay", "s_send", "s_lock", "s_loop", "s_sleep", "s_wait",
          "s_read", "s_push"}
Found == {"p_check", "s_open", "s_check"}

Shape ==
    /\ DOMAIN worker = Workers
    /\ \A w \in Workers : DOMAIN worker[w] = Fields
    /\ DOMAIN box_data = Addresses
    /\ \A a \in Addresses : DOMAIN box_data[a] = BoxFields

\* Where a session asks for a box that has a name.
Asking == {"publish", "p_find", "subscribe", "s_open", "create", "c_insert", "remove", "r_delete"}

Names ==
    /\ DOMAIN budget = {"left", "names"}
    /\ budget.names \subseteq BoxNames
    /\ \A w \in Workers : worker[w].pc \in Asking => worker[w].new_box_name \in BoxNames

\* A session's box is memory that has been a box: never used memory has NoName.
Pointers ==
    \A w \in Workers :
        /\ worker[w].pc \in InBox =>
             worker[w].box \in Addresses /\ Box(w).box_name # NoName
        /\ worker[w].pc \in Found =>
             \/ worker[w].box = NULL
             \/ worker[w].box \in Addresses /\ Box(w).box_name # NoName

\* The lock of a box is held by the worker between its lock and its unlock,
\* unless it was initialised for another box meanwhile.
Locked ==
    \A w \in Workers :
        Held(w) /\ worker[w].box \notin reinitialised => Box(w).box_condvar_lock = w

\* A subscriber that has decided to sleep has seen all, like one asleep.
Seen ==
    \A w \in Workers :
        worker[w].pc \in {"s_sleep", "s_wait"} /\ worker[w].box \notin reinitialised =>
            Box(w).box_size = worker[w].last_size

IInv == Shape /\ Names /\ Pointers /\ Locked /\ Seen

\* find_box returns NULL or the address of a box of that name.
LEMMA FindBoxResult ==
    ASSUME NEW list, NEW boxes, NEW name
    PROVE  LET found == FindBox(list, boxes, name)
           IN  found = NULL \/ (found \in Addresses /\ boxes[found].box_name = name)
PROOF
<1> DEFINE node == Nodes(list, boxes)
           named == {n \in Positions : node[n] \in Addresses /\ boxes[node[n]].box_name = name}
<1>1. CASE named = {}
  BY <1>1 DEF FindBox
<1>2. CASE named # {}
  <2>1. named \subseteq Nat
    BY AddressAssumption, FS_CardinalityType DEF Positions
  <2>2. PICK m \in named : \A n \in named : ~ (<<n, m>> \in OpToRel(<, Nat))
    BY <1>2, <2>1, WFMin, NatLessThanWellFounded
  <2>3. \A n \in named : m <= n
    <3>1. \A n \in Nat : n < m => <<n, m>> \in {ss \in Nat \X Nat : ss[1] < ss[2]}
      BY <2>1
    <3>2. OpToRel(<, Nat) = {ss \in Nat \X Nat : ss[1] < ss[2]}
      BY Zenon DEF OpToRel
    <3>3. \A n \in named : ~ (n < m)
      BY <2>1, <2>2, <3>1, <3>2
    <3>. QED
      BY <2>1, <3>3
  <2>4. Min(named) \in named
    BY <2>3 DEF Min
  <2>. QED
    BY <1>2, <2>4 DEF FindBox
<1>. QED
  BY <1>1, <1>2

\* The initial states satisfy the invariant: all workers are at "dequeue".
LEMMA InvInit ==
    Init => IInv
PROOF
  BY RequestAssumption DEF Init, IInv, Shape, Names, Asking, Pointers, Locked, Seen, Held, NewBox, Fields, BoxFields, InBox, Found

\* An announcement wakes all who wait for the box: none is left with an old size.
LEMMA AnnounceKeepsInv ==
    ASSUME IInv, NEW w \in Workers, PublisherAnnounce(w)
    PROVE  IInv'
PROOF
<1>0. PICK woken \in SUBSET Asleep(w) :
        (worker[w].box \notin reinitialised => woken = Asleep(w)) /\ Announce(w, woken)
  BY DEF PublisherAnnounce
<1>1. Shape /\ Names /\ Pointers /\ Locked /\ Seen
  BY DEF IInv
<1>2. /\ worker[w].pc = "p_announce" /\ UNCHANGED <<budget, reinitialised>>
      /\ DOMAIN worker' = Workers
      /\ \A v \in Workers :
          /\ DOMAIN worker'[v] = Fields
          /\ worker'[v].box = worker[v].box /\ worker'[v].last_size = worker[v].last_size
          /\ worker'[v].new_box_name = worker[v].new_box_name
          /\ worker'[v].pc = IF v \in woken THEN "s_lock"
                             ELSE IF v = w THEN "p_read" ELSE worker[v].pc
  <2>1. /\ worker[w].pc = "p_announce" /\ UNCHANGED <<budget, reinitialised>>
        /\ worker' = [v \in Workers |->
                        IF v \in woken THEN [worker[v] EXCEPT !.pc = "s_lock"]
                        ELSE IF v = w THEN [worker[v] EXCEPT !.pc = "p_read"] ELSE worker[v]]
    BY <1>0 DEF Announce, At, otherVars
  <2>2. DOMAIN worker' = Workers /\ \A v \in Workers :
          worker'[v] = IF v \in woken THEN [worker[v] EXCEPT !.pc = "s_lock"]
                       ELSE IF v = w THEN [worker[v] EXCEPT !.pc = "p_read"] ELSE worker[v]
    BY <2>1
  <2>3. ASSUME NEW v \in Workers, NEW label, worker'[v] = [worker[v] EXCEPT !.pc = label]
        PROVE  /\ DOMAIN worker'[v] = Fields /\ worker'[v].pc = label
               /\ worker'[v].box = worker[v].box /\ worker'[v].last_size = worker[v].last_size
               /\ worker'[v].new_box_name = worker[v].new_box_name
    BY <1>1, <2>3 DEF Shape, Fields
  <2>4. \A v \in Workers : DOMAIN worker[v] = Fields
    BY <1>1 DEF Shape
  <2>. DEFINE Kept(v) ==
                /\ DOMAIN worker'[v] = Fields
                /\ worker'[v].box = worker[v].box /\ worker'[v].last_size = worker[v].last_size
                /\ worker'[v].new_box_name = worker[v].new_box_name
  <2>5. ASSUME NEW v \in Workers, v \in woken PROVE Kept(v) /\ worker'[v].pc = "s_lock"
    <3>1. worker'[v] = [worker[v] EXCEPT !.pc = "s_lock"]
      BY <2>2, <2>5
    <3>. QED
      BY <2>3, <3>1
  <2>6. ASSUME w \notin woken PROVE Kept(w) /\ worker'[w].pc = "p_read"
    <3>1. worker'[w] = [worker[w] EXCEPT !.pc = "p_read"]
      BY <2>2, <2>6
    <3>. QED
      BY <2>3, <3>1
  <2>7. ASSUME NEW v \in Workers, v \notin woken, v # w
        PROVE  Kept(v) /\ worker'[v].pc = worker[v].pc
    <3>1. worker'[v] = worker[v]
      BY <2>2, <2>7
    <3>. QED
      BY <2>4, <3>1
  <2>8. \A v \in Workers :
          Kept(v) /\ worker'[v].pc = IF v \in woken THEN "s_lock"
                                     ELSE IF v = w THEN "p_read" ELSE worker[v].pc
    BY <2>5, <2>6, <2>7
  <2>. QED
    BY <2>1, <2>2, <2>8
<1>3. worker[w].box \in Addresses
  BY <1>1, <1>2 DEF Pointers, InBox
<1>4. /\ DOMAIN box_data' = Addresses
      /\ \A a \in Addresses :
          /\ DOMAIN box_data'[a] = BoxFields
          /\ box_data'[a].box_name = box_data[a].box_name
          /\ a # worker[w].box => box_data'[a] = box_data[a]
  BY <1>0, <1>1 DEF Announce, Shape, BoxFields
<1>5. Shape' /\ Names'
  BY <1>1, <1>2, <1>4 DEF Shape, Names, Asking
<1>6. Pointers'
  <2>1. \A v \in Workers :
          /\ worker'[v].pc \in InBox => worker[v].pc \in InBox
          /\ worker'[v].pc \in Found => worker[v].pc \in Found
    BY <1>0, <1>2 DEF Asleep, InBox, Found
  <2>2. \A v \in Workers : worker'[v].box = worker[v].box
    BY <1>2
  <2>3. \A a \in Addresses : box_data[a].box_name # NoName => box_data'[a].box_name # NoName
    BY <1>4
  <2>. QED
    BY <1>1, <2>1, <2>2, <2>3 DEF Pointers, Box
<1>7. \A v \in Workers : Held(v)' /\ worker'[v].box \notin reinitialised =>
          Held(v) /\ v # w /\ worker'[v].box # worker[w].box
  BY <1>0, <1>1, <1>2, WorkerAssumption DEF Locked, Held, Box
<1>8. Locked'
  <2>1. \A v \in Workers : Held(v) => worker[v].box \in Addresses
    BY <1>1 DEF Pointers, Held, InBox
  <2>. QED
    BY <1>1, <1>2, <1>4, <1>7, <2>1 DEF Locked, Box
<1>9. Seen'
  <2>1. \A v \in Workers :
          worker'[v].pc \in {"s_sleep", "s_wait"} /\ worker'[v].box \notin reinitialised =>
          worker'[v].box \in Addresses /\ worker'[v].box # worker[w].box
          /\ worker[v].pc \in {"s_sleep", "s_wait"}
    <3>1. ASSUME NEW v \in Workers, worker'[v].pc = "s_sleep"
          PROVE  Held(v)' /\ worker[v].pc = "s_sleep"
      BY <1>2, <3>1 DEF Held
    <3>2. ASSUME NEW v \in Workers, worker'[v].pc = "s_wait",
                 worker'[v].box \notin reinitialised
          PROVE  worker[v].box # worker[w].box /\ worker[v].pc = "s_wait"
      BY <1>0, <1>2, <3>2 DEF Asleep
    <3>3. \A v \in Workers : worker[v].pc \in {"s_sleep", "s_wait"} => worker[v].box \in Addresses
      BY <1>1 DEF Pointers, InBox
    <3>. QED
      BY <1>2, <1>7, <3>1, <3>2, <3>3
  <2>. QED
    BY <1>1, <1>2, <1>4, <2>1 DEF Seen, Box
<1>. QED
  BY <1>5, <1>6, <1>8, <1>9 DEF IInv

\* The publishers' steps.
LEMMA PublisherKeepsInv ==
    ASSUME IInv, NEW w \in Workers, Publisher(w)
    PROVE  IInv'
PROOF
<1>. USE DEF IInv, Shape, Names, Asking, Pointers, Locked, Seen, Held, Box, Fields, BoxFields, InBox, Found,
             At, Goto, boxVars, otherVars
<1>1. CASE PublisherOpen(w)
  BY <1>1, WorkerAssumption, AddressAssumption, RequestAssumption DEF PublisherOpen, OpenIt
<1>2. CASE PublisherFind(w)
  BY FindBoxResult, <1>2, WorkerAssumption, AddressAssumption, RequestAssumption DEF PublisherFind, FindIt
<1>3. CASE PublisherCheck(w)
  BY <1>3, WorkerAssumption, AddressAssumption, RequestAssumption DEF PublisherCheck, Move
<1>4. CASE PublisherClaim(w)
  BY <1>4, WorkerAssumption, AddressAssumption, RequestAssumption DEF PublisherClaim
<1>5. CASE PublisherRead(w)
  BY <1>5, WorkerAssumption, AddressAssumption, RequestAssumption DEF PublisherRead
<1>6. CASE PublisherLock(w)
  BY <1>6, WorkerAssumption, AddressAssumption, RequestAssumption DEF PublisherLock, Lock
<1>7. CASE PublisherWrite(w)
  BY <1>7, WorkerAssumption, AddressAssumption, RequestAssumption DEF PublisherWrite, WriteMessage
<1>8. CASE PublisherAnnounce(w)
  BY <1>8, AnnounceKeepsInv
<1>9. CASE PublisherRelease(w)
  BY <1>9, WorkerAssumption, AddressAssumption, RequestAssumption DEF PublisherRelease
<1>. QED
  BY <1>1, <1>2, <1>3, <1>4, <1>5, <1>6, <1>7, <1>8, <1>9 DEF Publisher

\* A write to a client ends a step that leaves the box and last_size alone.
LEMMA WriteKeepsInv ==
    ASSUME IInv, NEW w \in Workers, NEW sent, NEW failed, WriteToClient(w, sent, failed),
           worker[w].pc \in {"s_test", "s_send", "s_push"},
           \A after \in {sent, failed} :
               /\ DOMAIN after = Fields
               /\ after.pc \in {"s_replay", "s_send", "s_lock", "dequeue"}
               /\ after.box = worker[w].box
    PROVE  IInv'
PROOF
  BY WorkerAssumption, AddressAssumption, RequestAssumption
  DEF IInv, Shape, Names, Asking, Pointers, Locked, Seen, Held, Box, Fields, BoxFields, InBox,
      Found, boxVars, otherVars, WriteToClient

\* The subscribers' steps.
LEMMA SubscriberKeepsInv ==
    ASSUME IInv, NEW w \in Workers, Subscriber(w)
    PROVE  IInv'
PROOF
<1>. USE DEF IInv, Shape, Names, Asking, Pointers, Locked, Seen, Held, Box, Fields, BoxFields, InBox, Found,
             At, Goto, boxVars, otherVars
<1>1. CASE SubscriberFind(w)
  BY FindBoxResult, <1>1, WorkerAssumption, AddressAssumption, RequestAssumption DEF SubscriberFind, FindIt
<1>2. CASE SubscriberOpen(w)
  BY <1>2, WorkerAssumption, AddressAssumption, RequestAssumption DEF SubscriberOpen, OpenIt
<1>3. CASE SubscriberCheck(w)
  BY <1>3, WorkerAssumption, AddressAssumption, RequestAssumption DEF SubscriberCheck, Move
<1>4. CASE SubscriberTest(w)
  <2>. DEFINE next == [worker[w] EXCEPT !.pc = "s_replay"]
  <2>1. WriteToClient(w, next, next) /\ worker[w].pc = "s_test"
    BY <1>4 DEF SubscriberTest
  <2>2. DOMAIN next = Fields /\ next.pc = "s_replay" /\ next.box = worker[w].box
    OBVIOUS
  <2>. QED
    BY <2>1, <2>2, WriteKeepsInv
<1>5. CASE SubscriberReplay(w)
  BY <1>5, WorkerAssumption, AddressAssumption, RequestAssumption DEF SubscriberReplay
<1>6. CASE SubscriberSend(w)
  <2>. DEFINE rest == [worker[w] EXCEPT !.replay = Tail(@)]
              sent == [rest EXCEPT !.delivered = Append(@, Head(worker[w].replay))]
  <2>1. WriteToClient(w, sent, rest) /\ worker[w].pc = "s_send"
    BY <1>6 DEF SubscriberSend
  <2>2. \A after \in {sent, rest} :
            DOMAIN after = Fields /\ after.pc = "s_send" /\ after.box = worker[w].box
    BY <2>1
  <2>. HIDE DEF rest, sent
  <2>. QED
    BY <2>1, <2>2, WriteKeepsInv
<1>7. CASE SubscriberLast(w)
  BY <1>7, WorkerAssumption, AddressAssumption, RequestAssumption DEF SubscriberLast
<1>8. CASE SubscriberLock(w)
  BY <1>8, WorkerAssumption, AddressAssumption, RequestAssumption DEF SubscriberLock, Lock
<1>9. CASE SubscriberLoop(w)
  BY <1>9, WorkerAssumption, AddressAssumption, RequestAssumption DEF SubscriberLoop, Move
<1>10. CASE SubscriberWait(w)
  BY <1>10, WorkerAssumption, AddressAssumption, RequestAssumption DEF SubscriberWait
<1>11. CASE SubscriberRead(w)
  BY <1>11, WorkerAssumption, AddressAssumption, RequestAssumption DEF SubscriberRead
<1>12. CASE SubscriberPush(w)
  <2>. DEFINE sent(string) ==
                [worker[w] EXCEPT !.pc = "s_lock", !.delivered = Append(@, string)]
              failed == [worker[w] EXCEPT !.pc = "dequeue"]
  <2>1. PICK string : WriteToClient(w, sent(string), failed) /\ worker[w].pc = "s_push"
    BY <1>12, Zenon DEF SubscriberPush
  <2>2. \A after \in {sent(string), failed} :
            /\ DOMAIN after = Fields
            /\ after.pc \in {"s_lock", "dequeue"}
            /\ after.box = worker[w].box
    OBVIOUS
  <2>. HIDE DEF sent, failed
  <2>. QED
    BY <2>1, <2>2, WriteKeepsInv
<1>. QED
  BY <1>1, <1>2, <1>3, <1>4, <1>5, <1>6, <1>7, <1>8, <1>9, <1>10, <1>11, <1>12 DEF Subscriber

\* Taking a box out of the list changes nothing in the boxes but next and
\* allocated.
LEMMA DeletingKeepsBoxes ==
    ASSUME NEW list, NEW boxes, NEW name, DOMAIN boxes = Addresses,
           \A a \in Addresses : DOMAIN boxes[a] = BoxFields
    PROVE  LET after == BoxesWithout(list, boxes, name)
           IN  /\ DOMAIN after = Addresses
               /\ \A a \in Addresses :
                    /\ DOMAIN after[a] = BoxFields
                    /\ after[a].box_name = boxes[a].box_name
                    /\ after[a].box_size = boxes[a].box_size
                    /\ after[a].box_condvar_lock = boxes[a].box_condvar_lock
PROOF
<1> DEFINE a == FindBox(list, boxes, name)
<1>1. CASE a = NULL
  BY <1>1 DEF BoxesWithout
<1>2. CASE a # NULL /\ a = list.head
  BY <1>2 DEF BoxesWithout, BoxFields
<1>3. CASE a # NULL /\ a # list.head
  BY <1>3 DEF BoxesWithout, BoxFields
<1>. QED
  BY <1>1, <1>2, <1>3

\* A response to a manager leaves the boxes alone.
LEMMA ResponseKeepsInv ==
    ASSUME IInv, NEW w \in Workers, NEW sent, RespondToManager(w, sent),
           DOMAIN sent = Fields, sent.pc \in {"dequeue", "l_send"}
    PROVE  IInv'
PROOF
  BY WorkerAssumption, AddressAssumption, RequestAssumption
  DEF IInv, Shape, Names, Asking, Pointers, Locked, Seen, Held, Box, Fields, BoxFields, InBox,
      Found, boxVars, otherVars, RespondToManager

\* The managers' steps.  Memory that is given out again is reinitialised when a
\* worker holds its lock or waits on its condition variable.
LEMMA ManagerKeepsInv ==
    ASSUME IInv, NEW w \in Workers, Manager(w)
    PROVE  IInv'
PROOF
<1>. USE DEF IInv, Shape, Names, Asking, Pointers, Locked, Seen, Held, Box, Fields, BoxFields, InBox, Found,
             At, Goto, boxVars, otherVars
<1>1. CASE ManagerCreate(w)
  BY <1>1, WorkerAssumption, AddressAssumption, RequestAssumption DEF ManagerCreate
<1>2. CASE ManagerInsert(w)
  <2>1. PICK a \in Malloc :
          /\ box_data' = BoxesWith(box_list, box_data, a, NewBox(worker[w].new_box_name))
          /\ reinitialised' = IF InUse(a) THEN reinitialised \cup {a} ELSE reinitialised \ {a}
    BY <1>2 DEF ManagerInsert
  <2>2. /\ worker[w].pc = "c_insert" /\ worker' = [worker EXCEPT ![w].pc = "m_respond"]
        /\ UNCHANGED budget
    BY <1>2 DEF ManagerInsert
  <2>3. /\ a \in Addresses /\ DOMAIN box_data' = Addresses
        /\ DOMAIN box_data'[a] = BoxFields /\ box_data'[a].box_name = worker[w].new_box_name
        /\ \A b \in Addresses \ {a} :
             /\ DOMAIN box_data'[b] = BoxFields
             /\ box_data'[b].box_name = box_data[b].box_name
             /\ box_data'[b].box_size = box_data[b].box_size
             /\ box_data'[b].box_condvar_lock = box_data[b].box_condvar_lock
    BY <2>1 DEF Malloc, BoxesWith, NewBox
  <2>4. \A v \in Workers : worker[v].box = a /\ (Held(v) \/ worker[v].pc = "s_wait") =>
          a \in reinitialised'
    BY <2>1 DEF InUse
  <2>5. \A b \in Addresses \ {a} : b \in reinitialised' <=> b \in reinitialised
    BY <2>1
  <2>6. Shape' /\ Names'
    BY <2>2, <2>3, WorkerAssumption, AddressAssumption, RequestAssumption
  <2>7. Pointers'
    BY <2>2, <2>3, RequestAssumption, AddressAssumption
  <2>8. Locked' /\ Seen'
    BY <2>2, <2>3, <2>4, <2>5
  <2>. QED
    BY <2>6, <2>7, <2>8
<1>3. CASE ManagerRemove(w)
  BY <1>3, WorkerAssumption, AddressAssumption, RequestAssumption DEF ManagerRemove
<1>4. CASE ManagerDelete(w)
  BY DeletingKeepsBoxes, <1>4, WorkerAssumption, AddressAssumption, RequestAssumption DEF ManagerDelete, Delete
<1>5. CASE ManagerRespond(w)
  <2>. DEFINE sent == [worker[w] EXCEPT !.pc = "dequeue"]
  <2>1. DOMAIN sent = Fields /\ sent.pc = "dequeue"
    OBVIOUS
  <2>. QED
    BY <1>5, <2>1, ResponseKeepsInv DEF ManagerRespond
<1>6. CASE ListLock(w)
  BY <1>6, WorkerAssumption, AddressAssumption, RequestAssumption DEF ListLock
<1>7. CASE ListSend(w)
  <2>. DEFINE sent(next, responses) ==
                [worker[w] EXCEPT !.box = next, !.delivered = responses]
  <2>1. PICK next, responses : RespondToManager(w, sent(next, responses))
    BY <1>7, Zenon DEF ListSend
  <2>2. DOMAIN sent(next, responses) = Fields /\ sent(next, responses).pc = "l_send"
    BY <1>7 DEF ListSend
  <2>. HIDE DEF sent
  <2>. QED
    BY <2>1, <2>2, ResponseKeepsInv
<1>8. CASE ListUnlock(w)
  BY <1>8, WorkerAssumption, AddressAssumption, RequestAssumption DEF ListUnlock
<1>. QED
  BY <1>1, <1>2, <1>3, <1>4, <1>5, <1>6, <1>7, <1>8 DEF Manager

\* The remaining steps, and steps that change nothing.
LEMMA NextKeepsInv ==
    IInv /\ [Next]_vars => IInv'
PROOF
<1>. SUFFICES ASSUME IInv, [Next]_vars PROVE IInv'
  OBVIOUS
<1>1. ASSUME NEW w \in Workers, NEW kind \in Kinds, NEW name \in budget.names,
             Dequeue(w, kind, name)
      PROVE  IInv'
  <2>1. Shape /\ Names /\ Pointers /\ Locked /\ Seen
    BY DEF IInv
  <2>2. /\ worker[w].pc = "dequeue" /\ UNCHANGED <<box_data, reinitialised>>
        /\ DOMAIN budget' = {"left", "names"} /\ budget'.names = budget.names
        /\ DOMAIN worker' = Workers /\ \A v \in Workers : DOMAIN worker'[v] = Fields
        /\ \A v \in Workers \ {w} : worker'[v] = worker[v]
        /\ worker'[w].pc = kind /\ (kind # "list" => worker'[w].new_box_name = name)
    BY <1>1, <2>1 DEF Dequeue, At, Shape, Names, Fields, boxVars
  <2>3. Shape' /\ Names'
    BY <1>1, <2>1, <2>2 DEF Shape, Names, Asking, Kinds
  <2>4. Pointers' /\ Locked' /\ Seen'
    BY <2>1, <2>2 DEF Pointers, Locked, Seen, Held, Box, InBox, Found, Kinds
  <2>. QED
    BY <2>3, <2>4 DEF IInv
<1>2. ASSUME NEW w \in Workers, ClientLeaves(w)
      PROVE  IInv'
  BY <1>2
  DEF IInv, Shape, Names, Asking, Pointers, Locked, Seen, Held, Box, Fields, BoxFields, InBox, Found,
      At, boxVars, otherVars, ClientLeaves
<1>3. ASSUME NEW w \in Workers, SpuriousWakeup(w)
      PROVE  IInv'
  BY <1>3
  DEF IInv, Shape, Names, Asking, Pointers, Locked, Seen, Held, Box, Fields, BoxFields, InBox, Found,
      At, Goto, boxVars, otherVars, SpuriousWakeup, Move
<1>4. CASE UNCHANGED vars
  BY <1>4 DEF IInv, Shape, Names, Asking, Pointers, Locked, Seen, Held, Box, Fields, BoxFields, InBox, Found,
              vars, boxVars, otherVars
<1>. QED
  BY <1>1, <1>2, <1>3, <1>4, PublisherKeepsInv, SubscriberKeepsInv, ManagerKeepsInv DEF Next

\* No wakeup is lost (mbroker.c, lines 208 and 270): a subscriber asleep on
\* box_condvar has seen all that was announced in its box -- unless the box was
\* removed and its memory made another box while it slept (protocol.c, lines 7,
\* 37 and 52), which sets box_size and box_condvar under it.
THEOREM NoSubscriberSleepsThrough ==
    Spec => []AsleepUpToDate
PROOF
<1>1. IInv => AsleepUpToDate
  BY DEF IInv, Seen, AsleepUpToDate
<1>. QED
  BY InvInit, NextKeepsInv, <1>1, PTL DEF Spec

\* A worker between the lock and the unlock of box_condvar_lock holds the lock
\* of its box, even when the box has been removed, unless its memory was made
\* another box meanwhile.
THEOREM SectionsHoldTheirLock ==
    Spec => []Locked
PROOF
<1>1. IInv => Locked
  BY DEF IInv
<1>. QED
  BY InvInit, NextKeepsInv, <1>1, PTL DEF Spec

------------------------------------------------------------------------------
(* What TFSProofs and TFSRefinement know of the file system. *)

Files == INSTANCE TFSRefinement WITH
    Names <- BoxNames, LongNames <- {}, BadPaths <- {},
    Modes <- {{}, {"TFS_O_APPEND"}, {"TFS_O_CREAT"}},
    Buffers <- {Append(Script[i], NUL) : i \in DOMAIN Script},
    ReadLengths <- {BLOCK_SIZE}

LEMMA FilesAssumptions ==
  Files!SizeAssumption /\ Files!NameAssumption /\ Files!ArgumentAssumption
PROOF
<1>1. Files!SizeAssumption
  BY FileSystemAssumption DEF FS!SizeAssumption, Files!SizeAssumption, FS!DataSize, Files!DataSize
<1>2. Files!NameAssumption
  BY FileSystemAssumption DEF FS!NameAssumption, Files!NameAssumption
<1>3. Files!ArgumentAssumption
  BY FileSystemAssumption DEF FS!ArgumentAssumption, Files!ArgumentAssumption, FS!DataSize, Files!DataSize
<1>. QED
  BY <1>1, <1>2, <1>3

\* The two instances of TFS are the same.
LEMMA SameInit ==
  FS!Init <=> Files!Init
PROOF
  BY DEF FS!Init, Files!Init, FS!Inodes, Files!Inodes, FS!Blocks, Files!Blocks, FS!Bytes,
         Files!Bytes, FS!DataSize, Files!DataSize, FS!Slots, Files!Slots, FS!Handles,
         Files!Handles, FS!ROOT_DIR_INUM, Files!ROOT_DIR_INUM, FS!RootBlock, Files!RootBlock,
         FS!Junk, Files!Junk

LEMMA SameOpen ==
  ASSUME NEW name, NEW mode, NEW ret
  PROVE  FS!Open(name, mode, ret) <=> Files!Open(name, mode, ret)
PROOF
  BY DEF FS!Open, Files!Open, FS!OpenExisting, Files!OpenExisting, FS!OpenCreate,
         Files!OpenCreate, FS!OpenNoEntry, Files!OpenNoEntry, FS!OpenFails, Files!OpenFails,
         FS!FoundIn, Files!FoundIn, FS!InDir, Files!InDir, FS!FreeBlockOf, Files!FreeBlockOf,
         FS!ResetInode, Files!ResetInode, FS!AddDirEntry, Files!AddDirEntry,
         FS!AddToOpenFileTable, Files!AddToOpenFileTable, FS!IsFirst, Files!IsFirst,
         FS!FreeInodes, Files!FreeInodes, FS!FreeSlots, Files!FreeSlots, FS!FreeHandles,
         Files!FreeHandles, FS!Inodes, Files!Inodes, FS!Slots, Files!Slots, FS!Handles,
         Files!Handles, FS!inodeVars, Files!inodeVars, FS!blockVars, Files!blockVars,
         FS!dirVars, Files!dirVars, FS!openVars, Files!openVars, FS!vars, Files!vars

LEMMA SameUnlink ==
  ASSUME NEW name, NEW ret
  PROVE  FS!Unlink(name, ret) <=> Files!Unlink(name, ret)
PROOF
  BY DEF FS!Unlink, Files!Unlink, FS!UnlinkExisting, Files!UnlinkExisting, FS!FoundIn,
         Files!FoundIn, FS!InDir, Files!InDir, FS!FreeBlockOf, Files!FreeBlockOf,
         FS!ClearDirEntry, Files!ClearDirEntry, FS!IsFirst, Files!IsFirst, FS!Slots,
         Files!Slots, FS!inodeVars, Files!inodeVars, FS!blockVars, Files!blockVars, FS!dirVars,
         Files!dirVars, FS!openVars, Files!openVars, FS!vars, Files!vars

LEMMA SameWrite ==
  ASSUME NEW h, NEW buf, NEW ret
  PROVE  FS!Write(h, buf, ret) <=> Files!Write(h, buf, ret)
PROOF
  BY DEF FS!Write, Files!Write, FS!WriteOpened, Files!WriteOpened, FS!Opened, Files!Opened,
         FS!Handles, Files!Handles, FS!ToWrite, Files!ToWrite, FS!CopyIn, Files!CopyIn,
         FS!BytesAt, Files!BytesAt, FS!Address, Files!Address, FS!Bytes, Files!Bytes, FS!Blocks,
         Files!Blocks, FS!DataSize, Files!DataSize, FS!FreeBlocks, Files!FreeBlocks, FS!IsFirst,
         Files!IsFirst, FS!Abort, Files!Abort, FS!inodeVars, Files!inodeVars, FS!blockVars,
         Files!blockVars, FS!dirVars, Files!dirVars, FS!openVars, Files!openVars, FS!vars,
         Files!vars

LEMMA SameRead ==
  ASSUME NEW h, NEW len, NEW ret
  PROVE  FS!Read(h, len, ret) <=> Files!Read(h, len, ret)
PROOF
  BY DEF FS!Read, Files!Read, FS!ReadOpened, Files!ReadOpened, FS!Opened, Files!Opened,
         FS!Handles, Files!Handles, FS!ToRead, Files!ToRead, FS!BytesAt, Files!BytesAt,
         FS!Address, Files!Address, FS!Bytes, Files!Bytes, FS!Blocks, Files!Blocks, FS!DataSize,
         Files!DataSize, FS!Abort, Files!Abort, FS!inodeVars, Files!inodeVars, FS!blockVars,
         Files!blockVars, FS!dirVars, Files!dirVars, FS!openVars, Files!openVars, FS!vars,
         Files!vars

LEMMA SameSets ==
  /\ FS!Handles = Files!Handles /\ FS!Inodes = Files!Inodes
  /\ FS!FreeInodes = Files!FreeInodes /\ FS!FreeHandles = Files!FreeHandles
  /\ \A name : FS!InDir(name) <=> Files!InDir(name)
  /\ \A name : FS!FileNamed(name) = Files!FileNamed(name)
PROOF
  BY DEF FS!Handles, Files!Handles, FS!Inodes, Files!Inodes, FS!FreeInodes, Files!FreeInodes,
         FS!FreeHandles, Files!FreeHandles, FS!InDir, Files!InDir, FS!FileNamed,
         Files!FileNamed, FS!UsedSlots, Files!UsedSlots, FS!FreeSlots, Files!FreeSlots,
         FS!Slots, Files!Slots

------------------------------------------------------------------------------
(* The locals of the workers and the contents of the boxes are well formed. *)
(* What becomes of the list of boxes is in SessionsBoxes.                   *)

WorkerTypes ==
    \A w \in Workers :
        /\ worker[w].pc \in {"dequeue"} \cup PublisherPCs \cup SubscriberPCs \cup ManagerPCs
        /\ worker[w].new_box_name \in BoxNames \cup {NoName}
        /\ worker[w].handle \in FS!Handles \cup {-1}
        /\ worker[w].box \in Addresses \cup {NULL}
        /\ worker[w].last_size \in Nat
        /\ DOMAIN worker[w].full_box_buffer = 1 .. BLOCK_SIZE

\* The message of a publisher is one of the script.
Messages ==
    /\ script \in Seq(Range(Script))
    /\ \A w \in Workers :
          worker[w].pc \in {"p_lock", "p_write", "p_announce"} => worker[w].message \in Range(Script)

BoxTypes ==
    \A a \in Addresses :
        /\ box_data[a].box_name \in BoxNames \cup {NoName}
        /\ box_data[a].box_size \in Nat
        /\ box_data[a].n_publishers \in {0, 1}
        /\ box_data[a].box_condvar_lock \in Workers \cup {Nobody}
        /\ box_data[a].next \in Addresses \cup {NULL}
        /\ box_data[a].allocated \in BOOLEAN

\* box_list_lock is held during a listing, and at no other time.
ListTypes ==
    /\ DOMAIN box_list = {"head", "tail", "box_list_lock"}
    /\ box_list.head \in Addresses \cup {NULL}
    /\ box_list.box_list_lock \in Workers \cup {Nobody}
    /\ \A w \in Workers : worker[w].pc = "l_send" <=> box_list.box_list_lock = w

Ends == {"running", "panic", "memory fault", "killed", "exited"}

ProcessTypes ==
    sigpipe \in {"default", "caught"} /\ process \in Ends /\ reinitialised \subseteq Addresses

Types == WorkerTypes /\ Messages /\ BoxTypes /\ ListTypes /\ ProcessTypes

LEMMA MessageLength ==
  ASSUME NEW message \in Range(Script)
  PROVE  /\ Len(message) \in Nat
         /\ Append(message, NUL) \in {Append(Script[i], NUL) : i \in DOMAIN Script}
         /\ Len(Append(message, NUL)) = Len(message) + 1
PROOF
<1>1. message \in Seq(Range(message))
  BY ScriptAssumption
<1>2. PICK i \in DOMAIN Script : message = Script[i]
  BY DEF Range
<1>3. Len(message) \in Nat
  BY <1>1
<1>4. Append(message, NUL) \in {Append(Script[j], NUL) : j \in DOMAIN Script}
  BY <1>2
<1>5. Len(Append(message, NUL)) = Len(message) + 1
  <2>. DEFINE S == Range(message) \cup {NUL}
  <2>1. message \in Seq(S)
    BY <1>1
  <2>. HIDE DEF S
  <2>2. NUL \in S
    BY DEF S
  <2>. QED
    BY <2>1, <2>2
<1>. QED
  BY <1>3, <1>4, <1>5

LEMMA TypesInit ==
  Init => Types
PROOF
<1>. SUFFICES ASSUME Init PROVE Types
  OBVIOUS
<1>1. WorkerTypes
  BY StackAssumption DEF Init, WorkerTypes
<1>2. Messages
  BY ScriptAssumption DEF Init, Messages
<1>3. BoxTypes /\ ListTypes
  BY WorkerAssumption DEF Init, BoxTypes, ListTypes, NewBox
<1>4. ProcessTypes
  <2>1. process = "running" /\ sigpipe = "default" /\ reinitialised \subseteq Addresses
    BY DEF Init, FS!Init
  <2>. QED
    BY <2>1, Zenon DEF ProcessTypes, Ends
<1>. QED
  BY <1>1, <1>2, <1>3, <1>4 DEF Types

\* TecnicoFS leaves the process running or aborts it.
LEMMA FileProcess ==
  /\ \A name, mode, ret : FS!Open(name, mode, ret) => process' \in Ends
  /\ \A name, ret : FS!Unlink(name, ret) => process' \in Ends
  /\ \A h, buf, ret : FS!Write(h, buf, ret) => process' \in Ends
  /\ \A h, len, ret : FS!Read(h, len, ret) => process' \in Ends
PROOF
<1>0. "running" \in Ends /\ "panic" \in Ends /\ "memory fault" \in Ends
  BY Zenon DEF Ends
<1>1. \A name, mode, ret : FS!Open(name, mode, ret) => process' = "running"
  BY DEF FS!Open, FS!OpenExisting, FS!OpenCreate, FS!OpenNoEntry, FS!OpenFails, FS!vars
<1>2. \A name, ret : FS!Unlink(name, ret) => process' = "running"
  BY DEF FS!Unlink, FS!UnlinkExisting, FS!vars
<1>3. \A h, buf, ret : FS!Write(h, buf, ret) => process' = "running" \/ process' = "memory fault"
  BY ZenonT(60) DEF FS!Write, FS!WriteOpened, FS!Abort, FS!vars
<1>4. \A h, len, ret : FS!Read(h, len, ret) =>
        process' = "running" \/ process' = "panic" \/ process' = "memory fault"
  BY ZenonT(60) DEF FS!Read, FS!ReadOpened, FS!Abort, FS!vars
<1>. QED
  BY <1>0, <1>1, <1>2, <1>3, <1>4, Zenon

\* What a step makes of the process, of SIGPIPE and of reinitialised.
LEMMA NextKeepsProcess ==
  ASSUME ProcessTypes, [Next]_vars
  PROVE  ProcessTypes'
PROOF
<1>. USE DEF ProcessTypes, boxVars, otherVars, fsVars, At, Goto, Move
<1>0. "killed" \in Ends /\ "exited" \in Ends
  BY Zenon DEF Ends
<1>1. ASSUME NEW w \in Workers, Publisher(w) PROVE ProcessTypes'
  <2>. USE <1>1
  <2>1. CASE PublisherOpen(w)
    BY <2>1, FileProcess, Zenon DEF PublisherOpen, OpenIt
  <2>2. CASE PublisherWrite(w)
    BY <2>2, FileProcess, Zenon DEF PublisherWrite, WriteMessage
  <2>3. CASE PublisherFind(w) \/ PublisherCheck(w) \/ PublisherClaim(w) \/ PublisherRead(w) \/ PublisherLock(w)
    BY <2>3 DEF PublisherFind, FindIt, PublisherCheck, PublisherClaim, PublisherRead, PublisherLock, Lock
  <2>4. CASE PublisherAnnounce(w) \/ PublisherRelease(w)
    <3>1. ASSUME NEW woken, Announce(w, woken) PROVE ProcessTypes'
      BY <3>1 DEF Announce
    <3>. QED
      BY <2>4, <3>1, Zenon DEF PublisherAnnounce, PublisherRelease
  <2>. QED
    BY <2>1, <2>2, <2>3, <2>4 DEF Publisher
<1>2. ASSUME NEW w, NEW sent, NEW failed, WriteToClient(w, sent, failed) PROVE ProcessTypes'
  BY <1>0, <1>2 DEF WriteToClient
<1>3. ASSUME NEW w \in Workers, Subscriber(w) PROVE ProcessTypes'
  <2>. USE <1>3
  <2>1. CASE SubscriberOpen(w)
    BY <2>1, FileProcess, Zenon DEF SubscriberOpen, OpenIt
  <2>2. CASE SubscriberReplay(w)
    BY <2>2, FileProcess, Zenon DEF SubscriberReplay
  <2>3. CASE SubscriberRead(w)
    BY <2>3, FileProcess, Zenon DEF SubscriberRead
  <2>4. CASE SubscriberTest(w) \/ SubscriberSend(w) \/ SubscriberPush(w)
    BY <2>4, <1>2, Zenon DEF SubscriberTest, SubscriberSend, SubscriberPush
  <2>5. CASE SubscriberFind(w) \/ SubscriberCheck(w) \/ SubscriberLast(w) \/ SubscriberLock(w)
    BY <2>5 DEF SubscriberFind, FindIt, SubscriberCheck, SubscriberLast, SubscriberLock, Lock
  <2>6. CASE SubscriberLoop(w) \/ SubscriberWait(w)
    BY <2>6 DEF SubscriberLoop, SubscriberWait
  <2>. QED
    BY <2>1, <2>2, <2>3, <2>4, <2>5, <2>6, Zenon DEF Subscriber
<1>4. ASSUME NEW w \in Workers, Manager(w) PROVE ProcessTypes'
  <2>. USE <1>4
  <2>1. CASE ManagerCreate(w)
    BY <2>1, FileProcess, Zenon DEF ManagerCreate
  <2>2. CASE ManagerRemove(w)
    BY <2>2, FileProcess, Zenon DEF ManagerRemove
  <2>3. CASE ManagerInsert(w) \/ ManagerDelete(w)
    <3>1. CASE ManagerInsert(w)
      <4>1. /\ reinitialised' \subseteq reinitialised \cup Malloc
            /\ UNCHANGED <<sigpipe, process>>
        BY <3>1 DEF ManagerInsert
      <4>2. Malloc \subseteq Addresses
        BY DEF Malloc
      <4>. QED
        BY <4>1, <4>2
    <3>2. CASE ManagerDelete(w)
      BY <3>2 DEF ManagerDelete, Delete
    <3>. QED
      BY <2>3, <3>1, <3>2
  <2>4. CASE ListLock(w) \/ ListUnlock(w)
    BY <2>4 DEF ListLock, ListUnlock
  <2>5. ASSUME NEW sent, RespondToManager(w, sent) PROVE ProcessTypes'
    BY <1>0, <2>5 DEF RespondToManager
  <2>6. CASE ManagerRespond(w) \/ ListSend(w)
    BY <2>5, <2>6, Zenon DEF ManagerRespond, ListSend
  <2>. QED
    BY <2>1, <2>2, <2>3, <2>4, <2>6 DEF Manager
<1>5. ASSUME NEW w \in Workers, NEW kind \in Kinds, NEW name \in budget.names, Dequeue(w, kind, name)
      PROVE  ProcessTypes'
  BY <1>5 DEF Dequeue
<1>6. ASSUME NEW w \in Workers, ClientLeaves(w) \/ SpuriousWakeup(w) PROVE ProcessTypes'
  BY <1>6 DEF ClientLeaves, SpuriousWakeup
<1>7. CASE UNCHANGED vars
  BY <1>7 DEF vars
<1>. QED
  BY <1>1, <1>3, <1>4, <1>5, <1>6, <1>7, Zenon DEF Next

\* An announcement adds the length of the message to the size of the box.
LEMMA AnnounceKeepsTypes ==
  ASSUME IInv, Types, NEW w \in Workers, PublisherAnnounce(w)
  PROVE  WorkerTypes' /\ Messages' /\ BoxTypes' /\ ListTypes'
PROOF
<1>0. PICK woken \in SUBSET Asleep(w) : Announce(w, woken)
  BY Zenon DEF PublisherAnnounce
<1>1. worker[w].pc = "p_announce" /\ worker[w].box \in Addresses
  BY <1>0 DEF Announce, At, IInv, Pointers, InBox
<1>2. Len(worker[w].message) \in Nat
  BY <1>1, MessageLength DEF Types, Messages
<1>3. BoxTypes'
  <2>1. box_data' = [box_data EXCEPT ![worker[w].box].box_size = @ + Len(worker[w].message),
                                     ![worker[w].box].box_condvar_lock = Nobody]
    BY <1>0 DEF Announce
  <2>. DEFINE n == Len(worker[w].message)
              b == worker[w].box
  <2>2. n \in Nat /\ b \in Addresses
    BY <1>1, <1>2
  <2>3. box_data' = [box_data EXCEPT ![b].box_size = @ + n, ![b].box_condvar_lock = Nobody]
    BY <2>1
  <2>. HIDE DEF n, b
  <2>. QED
    BY <2>2, <2>3 DEF Types, BoxTypes, IInv, Shape, BoxFields
<1>4. box_list' = box_list /\ script' = script
  BY <1>0 DEF Announce, otherVars
<1>. DEFINE Kept(v) ==
              /\ \/ worker'[v].pc = worker[v].pc
                 \/ worker'[v].pc = "s_lock" /\ worker[v].pc = "s_wait"
                 \/ worker'[v].pc = "p_read" /\ worker[v].pc = "p_announce"
              /\ worker'[v].new_box_name = worker[v].new_box_name
              /\ worker'[v].handle = worker[v].handle
              /\ worker'[v].box = worker[v].box
              /\ worker'[v].last_size = worker[v].last_size
              /\ worker'[v].full_box_buffer = worker[v].full_box_buffer
              /\ worker'[v].message = worker[v].message
<1>5. ASSUME NEW v \in Workers PROVE Kept(v)
  <2>1. worker'[v] = IF v \in woken THEN [worker[v] EXCEPT !.pc = "s_lock"]
                     ELSE IF v = w THEN [worker[v] EXCEPT !.pc = "p_read"] ELSE worker[v]
    BY <1>0 DEF Announce
  <2>2. DOMAIN worker[v] = Fields
    BY DEF IInv, Shape
  <2>3. CASE v \in woken
    <3>1. worker'[v] = [worker[v] EXCEPT !.pc = "s_lock"] /\ worker[v].pc = "s_wait"
      BY <1>0, <2>1, <2>3 DEF Asleep
    <3>. QED
      BY <2>2, <3>1 DEF Fields
  <2>4. CASE v \notin woken /\ v = w
    <3>1. worker'[v] = [worker[v] EXCEPT !.pc = "p_read"] /\ worker[v].pc = "p_announce"
      BY <1>1, <2>1, <2>4
    <3>. QED
      BY <2>2, <3>1 DEF Fields
  <2>5. CASE v \notin woken /\ v # w
    BY <2>1, <2>5
  <2>. QED
    BY <2>3, <2>4, <2>5
<1>6. WorkerTypes'
  BY <1>5 DEF Types, WorkerTypes, PublisherPCs, SubscriberPCs
<1>7. Messages'
  BY <1>4, <1>5 DEF Types, Messages
<1>8. ListTypes'
  BY <1>4, <1>5 DEF Types, ListTypes
<1>. QED
  BY <1>3, <1>6, <1>7, <1>8

LEMMA PublisherKeepsTypes ==
  ASSUME IInv, Types, NEW w \in Workers, Publisher(w)
  PROVE  WorkerTypes' /\ Messages' /\ BoxTypes' /\ ListTypes'
PROOF
<1>. USE WorkerAssumption, AddressAssumption
     DEF IInv, Shape, Fields, BoxFields, Pointers, InBox, Found, Types, WorkerTypes, Messages, BoxTypes,
         ListTypes, PublisherPCs, SubscriberPCs, ManagerPCs,
         At, Goto, boxVars, otherVars
<1>1. CASE PublisherOpen(w)
  <2>1. PICK handle \in FS!Handles \cup {-1} :
            worker' = [worker EXCEPT ![w].pc = "p_find", ![w].handle = handle]
    BY <1>1, Zenon DEF PublisherOpen, OpenIt
  <2>2. worker[w].pc = "publish" /\ box_list' = box_list /\ box_data' = box_data /\ script' = script
    BY <1>1 DEF PublisherOpen, OpenIt
  <2>. QED
    BY <2>1, <2>2
<1>2. CASE PublisherFind(w)
  BY <1>2, FindBoxResult DEF PublisherFind, FindIt
<1>3. CASE PublisherCheck(w)
  BY <1>3 DEF PublisherCheck, Move
<1>4. CASE PublisherClaim(w)
  BY <1>4 DEF PublisherClaim
<1>5. CASE PublisherRead(w)
  <2>1. CASE Goto(w, "p_release") /\ UNCHANGED script
    BY <1>5, <2>1 DEF PublisherRead
  <2>2. CASE /\ script # << >>
             /\ script' = Tail(script)
             /\ worker' = [worker EXCEPT ![w].pc = "p_lock", ![w].message = Head(script)]
    <3>. DEFINE message == Head(script)
    <3>1. message \in Range(Script) /\ script' \in Seq(Range(Script))
      BY <2>2
    <3>2. worker' = [worker EXCEPT ![w].pc = "p_lock", ![w].message = message]
      BY <2>2
    <3>. HIDE DEF message
    <3>3. worker[w].pc = "p_read" /\ box_list' = box_list /\ box_data' = box_data
      BY <1>5 DEF PublisherRead
    <3>. QED
      BY <3>1, <3>2, <3>3
  <2>. QED
    BY <1>5, <2>1, <2>2 DEF PublisherRead
<1>6. CASE PublisherLock(w)
  BY <1>6 DEF PublisherLock, Lock
<1>7. CASE PublisherWrite(w)
  <2>1. PICK label \in {"p_release", "p_announce"} : worker' = [worker EXCEPT ![w].pc = label]
    BY <1>7, Zenon DEF PublisherWrite, WriteMessage
  <2>2. worker[w].pc = "p_write" /\ box_list' = box_list /\ box_data' = box_data /\ script' = script
    BY <1>7 DEF PublisherWrite, WriteMessage
  <2>. QED
    BY <2>1, <2>2
<1>8. CASE PublisherAnnounce(w)
  BY <1>8, AnnounceKeepsTypes
<1>9. CASE PublisherRelease(w)
  BY <1>9 DEF PublisherRelease
<1>. QED
  BY <1>1, <1>2, <1>3, <1>4, <1>5, <1>6, <1>7, <1>8, <1>9 DEF Publisher

\* A write to a client changes the worker's variables only.
LEMMA WriteKeepsTypes ==
  ASSUME IInv, Types, NEW w \in Workers, NEW sent, NEW failed, WriteToClient(w, sent, failed),
         worker[w].pc \in {"s_test", "s_send", "s_push"},
         \A after \in {sent, failed} :
             /\ after.pc \in {"s_replay", "s_send", "s_lock", "dequeue"}
             /\ after.new_box_name = worker[w].new_box_name
             /\ after.handle = worker[w].handle
             /\ after.box = worker[w].box
             /\ after.last_size = worker[w].last_size
             /\ after.full_box_buffer = worker[w].full_box_buffer
  PROVE  WorkerTypes' /\ Messages' /\ BoxTypes' /\ ListTypes'
PROOF
<1>1. box_list' = box_list /\ box_data' = box_data /\ script' = script
  BY DEF WriteToClient, boxVars
<1>2. BoxTypes'
  BY <1>1 DEF Types, BoxTypes
<1>3. ASSUME NEW after, worker' = [worker EXCEPT ![w] = after],
             after.pc = "s_replay" \/ after.pc = "s_send" \/ after.pc = "s_lock" \/ after.pc = "dequeue",
             after.new_box_name = worker[w].new_box_name,
             after.handle = worker[w].handle,
             after.box = worker[w].box,
             after.last_size = worker[w].last_size,
             after.full_box_buffer = worker[w].full_box_buffer
      PROVE  WorkerTypes' /\ Messages' /\ ListTypes'
  <2>1. worker'[w] = after /\ \A v \in Workers \ {w} : worker'[v] = worker[v]
    BY <1>3 DEF IInv, Shape
  <2>2. WorkerTypes'
    BY <1>3, <2>1 DEF Types, WorkerTypes, SubscriberPCs
  <2>3. Messages'
    BY <1>1, <1>3, <2>1 DEF Types, Messages
  <2>4. ListTypes'
    BY <1>1, <1>3, <2>1 DEF Types, ListTypes
  <2>. QED
    BY <2>2, <2>3, <2>4
<1>4. CASE worker' = worker
  <2>1. WorkerTypes'
    BY <1>1, <1>4 DEF Types, WorkerTypes
  <2>2. Messages'
    BY <1>1, <1>4 DEF Types, Messages
  <2>3. ListTypes'
    BY <1>1, <1>4 DEF Types, ListTypes
  <2>. QED
    BY <1>2, <2>1, <2>2, <2>3
<1>5. worker' = worker \/ worker' = [worker EXCEPT ![w] = sent] \/ worker' = [worker EXCEPT ![w] = failed]
  BY DEF WriteToClient
<1>. QED
  <2>1. CASE worker' = [worker EXCEPT ![w] = sent]
    BY <1>2, <1>3, <2>1
  <2>2. CASE worker' = [worker EXCEPT ![w] = failed]
    BY <1>2, <1>3, <2>2
  <2>. QED
    BY <1>2, <1>4, <1>5, <2>1, <2>2

LEMMA SubscriberKeepsTypes ==
  ASSUME IInv, Types, NEW w \in Workers, Subscriber(w)
  PROVE  WorkerTypes' /\ Messages' /\ BoxTypes' /\ ListTypes'
PROOF
<1>. USE WorkerAssumption, AddressAssumption
     DEF IInv, Shape, Fields, BoxFields, Pointers, InBox, Found, Types, WorkerTypes, Messages, BoxTypes,
         ListTypes, PublisherPCs, SubscriberPCs, ManagerPCs, Box,
         At, Goto, boxVars, otherVars
<1>1. CASE SubscriberFind(w)
  BY <1>1, FindBoxResult DEF SubscriberFind, FindIt
<1>2. CASE SubscriberOpen(w)
  <2>1. PICK handle \in FS!Handles \cup {-1} :
            worker' = [worker EXCEPT ![w].pc = "s_check", ![w].handle = handle]
    BY <1>2, Zenon DEF SubscriberOpen, OpenIt
  <2>2. worker[w].pc = "s_open" /\ box_list' = box_list /\ box_data' = box_data /\ script' = script
    BY <1>2 DEF SubscriberOpen, OpenIt
  <2>. QED
    BY <2>1, <2>2
<1>3. CASE SubscriberCheck(w)
  BY <1>3 DEF SubscriberCheck, Move
<1>4. CASE SubscriberTest(w)
  <2>. DEFINE next == [worker[w] EXCEPT !.pc = "s_replay"]
  <2>1. WriteToClient(w, next, next) /\ worker[w].pc = "s_test"
    BY <1>4 DEF SubscriberTest
  <2>2. /\ next.pc = "s_replay" /\ next.new_box_name = worker[w].new_box_name
        /\ next.handle = worker[w].handle /\ next.box = worker[w].box
        /\ next.last_size = worker[w].last_size /\ next.full_box_buffer = worker[w].full_box_buffer
    OBVIOUS
  <2>. HIDE DEF next
  <2>. QED
    BY <2>1, <2>2, WriteKeepsTypes
<1>5. CASE SubscriberReplay(w)
  <2>. DEFINE data == FS!ReadData(worker[w].handle, BLOCK_SIZE)
              buffer == Overwritten(worker[w].full_box_buffer, data)
  <2>1. DOMAIN buffer = 1 .. BLOCK_SIZE
    BY DEF Overwritten
  <2>2. worker[w].pc = "s_replay" /\ box_list' = box_list /\ box_data' = box_data /\ script' = script
    BY <1>5 DEF SubscriberReplay
  <2>3. \/ worker' = worker
        \/ \E replay : worker' = [worker EXCEPT ![w].pc = "s_send", ![w].full_box_buffer = buffer,
                                                ![w].replay = replay]
    BY <1>5, Zenon DEF SubscriberReplay
  <2>. HIDE DEF buffer
  <2>4. CASE worker' = worker
    BY <2>2, <2>4
  <2>5. ASSUME NEW replay,
               worker' = [worker EXCEPT ![w].pc = "s_send", ![w].full_box_buffer = buffer,
                                        ![w].replay = replay]
        PROVE  WorkerTypes' /\ Messages' /\ BoxTypes' /\ ListTypes'
    BY <2>1, <2>2, <2>5
  <2>. QED
    BY <2>3, <2>4, <2>5
<1>6. CASE SubscriberSend(w)
  <2>. DEFINE rest == [worker[w] EXCEPT !.replay = Tail(@)]
              sent == [rest EXCEPT !.delivered = Append(@, Head(worker[w].replay))]
  <2>1. WriteToClient(w, sent, rest) /\ worker[w].pc = "s_send"
    BY <1>6 DEF SubscriberSend
  <2>2. /\ rest.pc = "s_send" /\ rest.new_box_name = worker[w].new_box_name
        /\ rest.handle = worker[w].handle /\ rest.box = worker[w].box
        /\ rest.last_size = worker[w].last_size /\ rest.full_box_buffer = worker[w].full_box_buffer
        /\ DOMAIN rest = Fields
    BY <2>1
  <2>3. /\ sent.pc = "s_send" /\ sent.new_box_name = worker[w].new_box_name
        /\ sent.handle = worker[w].handle /\ sent.box = worker[w].box
        /\ sent.last_size = worker[w].last_size /\ sent.full_box_buffer = worker[w].full_box_buffer
    <3>. HIDE DEF rest
    <3>. QED
      BY <2>2
  <2>. HIDE DEF rest, sent
  <2>. QED
    BY <2>1, <2>2, <2>3, WriteKeepsTypes
<1>7. CASE SubscriberLast(w)
  BY <1>7 DEF SubscriberLast
<1>8. CASE SubscriberLock(w)
  BY <1>8 DEF SubscriberLock, Lock
<1>9. CASE SubscriberLoop(w)
  BY <1>9 DEF SubscriberLoop, Move
<1>10. CASE SubscriberWait(w)
  BY <1>10 DEF SubscriberWait
<1>11. CASE SubscriberRead(w)
  <2>. DEFINE data == FS!ReadData(worker[w].handle, BLOCK_SIZE)
              buffer == Overwritten(worker[w].full_box_buffer, data)
  <2>1. DOMAIN buffer = 1 .. BLOCK_SIZE
    BY DEF Overwritten
  <2>2. worker[w].pc = "s_read" /\ box_list' = box_list /\ script' = script
    BY <1>11 DEF SubscriberRead
  <2>3. \/ worker' = worker /\ box_data' = box_data
        \/ /\ worker' = [worker EXCEPT ![w].pc = "s_push", ![w].last_size = Box(w).box_size,
                                       ![w].full_box_buffer = buffer]
           /\ box_data' = [box_data EXCEPT ![worker[w].box].box_condvar_lock = Nobody]
    BY <1>11 DEF SubscriberRead
  <2>. HIDE DEF buffer
  <2>. QED
    BY <2>1, <2>2, <2>3
<1>12. CASE SubscriberPush(w)
  <2>. DEFINE sent(string) ==
                [worker[w] EXCEPT !.pc = "s_lock", !.delivered = Append(@, string)]
              failed == [worker[w] EXCEPT !.pc = "dequeue"]
  <2>1. PICK string : WriteToClient(w, sent(string), failed) /\ worker[w].pc = "s_push"
    BY <1>12, Zenon DEF SubscriberPush
  <2>2. /\ failed.pc = "dequeue" /\ failed.new_box_name = worker[w].new_box_name
        /\ failed.handle = worker[w].handle /\ failed.box = worker[w].box
        /\ failed.last_size = worker[w].last_size
        /\ failed.full_box_buffer = worker[w].full_box_buffer
    OBVIOUS
  <2>3. /\ sent(string).pc = "s_lock" /\ sent(string).new_box_name = worker[w].new_box_name
        /\ sent(string).handle = worker[w].handle /\ sent(string).box = worker[w].box
        /\ sent(string).last_size = worker[w].last_size
        /\ sent(string).full_box_buffer = worker[w].full_box_buffer
    OBVIOUS
  <2>. HIDE DEF sent, failed
  <2>. QED
    BY <2>1, <2>2, <2>3, WriteKeepsTypes
<1>. QED
  BY <1>1, <1>2, <1>3, <1>4, <1>5, <1>6, <1>7, <1>8, <1>9, <1>10, <1>11, <1>12 DEF Subscriber

\* Deleting a box keeps the types of list and boxes: next becomes another next.
LEMMA DeletingKeepsTypes ==
  ASSUME Shape, BoxTypes, ListTypes, NEW name
  PROVE  LET list == ListWithout(box_list, box_data, name)
             boxes == BoxesWithout(box_list, box_data, name)
         IN  /\ DOMAIN list = {"head", "tail", "box_list_lock"}
             /\ list.head \in Addresses \cup {NULL}
             /\ list.box_list_lock = box_list.box_list_lock
             /\ \A a \in Addresses :
                  /\ DOMAIN boxes[a] = BoxFields
                  /\ boxes[a].box_name = box_data[a].box_name
                  /\ boxes[a].box_size = box_data[a].box_size
                  /\ boxes[a].n_publishers = box_data[a].n_publishers
                  /\ boxes[a].box_condvar_lock = box_data[a].box_condvar_lock
                  /\ boxes[a].next \in Addresses \cup {NULL}
                  /\ boxes[a].allocated \in BOOLEAN
                  /\ boxes[a].allocated => box_data[a].allocated
PROOF
<1>. DEFINE found == FindBox(box_list, box_data, name)
            before == Before(box_list, box_data, found)
            Same(boxes, a) ==
                  /\ DOMAIN boxes[a] = BoxFields
                  /\ boxes[a].box_name = box_data[a].box_name
                  /\ boxes[a].box_size = box_data[a].box_size
                  /\ boxes[a].n_publishers = box_data[a].n_publishers
                  /\ boxes[a].box_condvar_lock = box_data[a].box_condvar_lock
                  /\ boxes[a].next \in Addresses \cup {NULL}
                  /\ boxes[a].allocated \in BOOLEAN
                  /\ boxes[a].allocated => box_data[a].allocated
<1>1. found = NULL \/ found \in Addresses
  BY FindBoxResult
<1>. HIDE DEF found, before
<1>. USE AddressAssumption DEF Shape, BoxFields, BoxTypes, ListTypes
<1>2. CASE found = NULL
  <2>1. ListWithout(box_list, box_data, name) = box_list /\ BoxesWithout(box_list, box_data, name) = box_data
    BY <1>2 DEF ListWithout, BoxesWithout, found
  <2>. QED
    BY <2>1
<1>3. CASE found # NULL /\ found = box_list.head
  <2>1. /\ ListWithout(box_list, box_data, name) = [box_list EXCEPT !.head = box_data[found].next]
        /\ BoxesWithout(box_list, box_data, name) = [box_data EXCEPT ![found].allocated = FALSE]
    BY <1>3 DEF ListWithout, BoxesWithout, found
  <2>. DEFINE list == ListWithout(box_list, box_data, name)
              boxes == BoxesWithout(box_list, box_data, name)
  <2>. HIDE DEF list, boxes
  <2>2. /\ DOMAIN list = {"head", "tail", "box_list_lock"} /\ list.head \in Addresses \cup {NULL}
        /\ list.box_list_lock = box_list.box_list_lock
    BY <1>1, <1>3, <2>1 DEF list
  <2>3. boxes = [box_data EXCEPT ![found].allocated = FALSE]
    BY <2>1 DEF boxes
  <2>4. ASSUME NEW a \in Addresses PROVE Same(boxes, a)
    <3>1. CASE a = found
      BY <1>1, <2>3, <3>1
    <3>2. CASE a # found
      BY <2>3, <3>2
    <3>. QED
      BY <3>1, <3>2
  <2>. QED
    BY <2>2, <2>4 DEF list, boxes
<1>4. CASE found # NULL /\ found # box_list.head
  <2>1. PICK last : ListWithout(box_list, box_data, name) = [box_list EXCEPT !.tail = last]
    BY <1>4 DEF ListWithout, found
  <2>2. BoxesWithout(box_list, box_data, name)
          = [box_data EXCEPT ![found].allocated = FALSE, ![before].next = box_data[found].next]
    BY <1>4 DEF BoxesWithout, found, before
  <2>. DEFINE list == ListWithout(box_list, box_data, name)
              boxes == BoxesWithout(box_list, box_data, name)
  <2>. HIDE DEF list, boxes
  <2>3. /\ DOMAIN list = {"head", "tail", "box_list_lock"} /\ list.head \in Addresses \cup {NULL}
        /\ list.box_list_lock = box_list.box_list_lock
    BY <2>1 DEF list
  <2>4. boxes = [box_data EXCEPT ![found].allocated = FALSE, ![before].next = box_data[found].next]
    BY <2>2 DEF boxes
  <2>5. ASSUME NEW a \in Addresses PROVE Same(boxes, a)
    <3>1. found \in Addresses /\ box_data[found].next \in Addresses \cup {NULL}
      BY <1>1, <1>4
    <3>2. CASE a = found /\ a # before
      <4>1. boxes[a] = [box_data[a] EXCEPT !.allocated = FALSE]
        BY <2>4, <3>1, <3>2
      <4>. QED
        BY <4>1
    <3>5. CASE a = found /\ a = before
      BY <2>4, <3>1, <3>5
    <3>3. CASE a # found /\ a = before
      BY <2>4, <3>1, <3>3
    <3>4. CASE a # found /\ a # before
      BY <2>4, <3>4
    <3>. QED
      BY <3>2, <3>3, <3>4, <3>5
  <2>. QED
    BY <2>3, <2>5 DEF list, boxes
<1>. QED
  BY <1>2, <1>3, <1>4

LEMMA ManagerKeepsTypes ==
  ASSUME IInv, Types, NEW w \in Workers, Manager(w)
  PROVE  WorkerTypes' /\ Messages' /\ BoxTypes' /\ ListTypes'
PROOF
<1>. USE WorkerAssumption, AddressAssumption
     DEF IInv, Shape, Fields, BoxFields, Types, WorkerTypes, Messages, BoxTypes,
         ListTypes, PublisherPCs, SubscriberPCs, ManagerPCs, Box,
         At, Goto, boxVars, otherVars
<1>1. CASE ManagerCreate(w)
  <2>1. PICK label \in {"m_respond", "c_insert"} : worker' = [worker EXCEPT ![w].pc = label]
    BY <1>1, Zenon DEF ManagerCreate
  <2>2. worker[w].pc = "create" /\ box_list' = box_list /\ box_data' = box_data /\ script' = script
    BY <1>1 DEF ManagerCreate
  <2>. QED
    BY <2>1, <2>2
<1>2. CASE ManagerInsert(w)
  <2>1. PICK a \in Addresses :
            /\ box_data' = BoxesWith(box_list, box_data, a, NewBox(worker[w].new_box_name))
            /\ box_list' = ListWith(box_list, a)
    BY <1>2 DEF ManagerInsert, Malloc
  <2>2. /\ worker[w].pc = "c_insert" /\ worker' = [worker EXCEPT ![w].pc = "m_respond"]
        /\ box_list.box_list_lock = Nobody /\ script' = script
    BY <1>2 DEF ManagerInsert, ListUnlocked
  <2>3. BoxTypes'
    BY <2>1 DEF BoxesWith, NewBox
  <2>4. ListTypes'
    BY <2>1, <2>2 DEF ListWith
  <2>5. WorkerTypes' /\ Messages'
    BY <2>2
  <2>. QED
    BY <2>3, <2>4, <2>5
<1>3. CASE ManagerRemove(w)
  <2>1. PICK label \in {"m_respond", "r_delete"} : worker' = [worker EXCEPT ![w].pc = label]
    BY <1>3, Zenon DEF ManagerRemove
  <2>2. worker[w].pc = "remove" /\ box_list' = box_list /\ box_data' = box_data /\ script' = script
    BY <1>3 DEF ManagerRemove
  <2>. QED
    BY <2>1, <2>2
<1>4. CASE ManagerDelete(w)
  <2>1. /\ worker[w].pc = "r_delete" /\ worker' = [worker EXCEPT ![w].pc = "m_respond"]
        /\ box_list' = ListWithout(box_list, box_data, worker[w].new_box_name)
        /\ box_data' = BoxesWithout(box_list, box_data, worker[w].new_box_name)
        /\ script' = script
    BY <1>4 DEF ManagerDelete, Delete
  <2>2. BoxTypes' /\ ListTypes'
    BY <2>1, DeletingKeepsTypes
  <2>3. WorkerTypes' /\ Messages'
    BY <2>1
  <2>. QED
    BY <2>2, <2>3
<1>5. CASE ManagerRespond(w)
  <2>1. /\ worker[w].pc = "m_respond" /\ box_list' = box_list /\ box_data' = box_data /\ script' = script
        /\ worker' = worker \/ worker' = [worker EXCEPT ![w].pc = "dequeue"]
    BY <1>5 DEF ManagerRespond, RespondToManager
  <2>2. CASE worker' = worker
    BY <2>1, <2>2
  <2>3. CASE worker' = [worker EXCEPT ![w].pc = "dequeue"]
    BY <2>1, <2>3
  <2>. QED
    BY <2>1, <2>2, <2>3
<1>6. CASE ListLock(w)
  BY <1>6 DEF ListLock, ListUnlocked
<1>7. CASE ListSend(w)
  <2>. DEFINE response == [box_name |-> Box(w).box_name, last |-> worker[w].box = box_list.tail]
  <2>1. /\ worker[w].pc = "l_send" /\ worker[w].box \in Addresses
        /\ box_list' = box_list /\ box_data' = box_data /\ script' = script
    BY <1>7 DEF ListSend, RespondToManager
  <2>2. \/ worker' = worker
        \/ worker' = [worker EXCEPT ![w].box = box_data[worker[w].box].next,
                                    ![w].delivered = Append(@, response)]
    BY <1>7 DEF ListSend, RespondToManager
  <2>. HIDE DEF response
  <2>. QED
    BY <2>1, <2>2
<1>8. CASE ListUnlock(w)
  BY <1>8 DEF ListUnlock
<1>. QED
  BY <1>1, <1>2, <1>3, <1>4, <1>5, <1>6, <1>7, <1>8 DEF Manager

LEMMA StutterKeepsTypes ==
  ASSUME Types, UNCHANGED vars
  PROVE  WorkerTypes' /\ Messages' /\ BoxTypes' /\ ListTypes'
PROOF
<1>1. worker' = worker /\ box_list' = box_list /\ box_data' = box_data /\ script' = script
  BY DEF vars, boxVars, otherVars
<1>2. WorkerTypes'
  BY <1>1 DEF Types, WorkerTypes
<1>3. BoxTypes'
  BY <1>1 DEF Types, BoxTypes
<1>4. Messages' /\ ListTypes'
  BY <1>1 DEF Types, Messages, ListTypes
<1>. QED
  BY <1>2, <1>3, <1>4

\* The locals and the boxes keep their types.
LEMMA MovesKeepTypes ==
  ASSUME IInv, Types, Next
  PROVE  WorkerTypes' /\ Messages' /\ BoxTypes' /\ ListTypes'
PROOF
<1>. USE WorkerAssumption
     DEF IInv, Shape, Names, Fields, Types, WorkerTypes, Messages, BoxTypes, ListTypes, PublisherPCs,
         SubscriberPCs, ManagerPCs, At, Goto, Kinds, boxVars, otherVars
<1>. DEFINE Well == WorkerTypes /\ Messages /\ BoxTypes /\ ListTypes
<1>1. ASSUME NEW w \in Workers, NEW kind \in Kinds, NEW name \in budget.names, Dequeue(w, kind, name)
      PROVE  Well'
  <2>1. PICK asked : worker' = [worker EXCEPT ![w].pc = kind, ![w].new_box_name = asked,
                                              ![w].client = "here", ![w].delivered = << >>]
                     /\ asked \in BoxNames \cup {NoName}
    <3>. DEFINE asked == IF kind = "list" THEN worker[w].new_box_name ELSE name
    <3>1. asked \in BoxNames \cup {NoName}
      BY <1>1
    <3>2. worker' = [worker EXCEPT ![w].pc = kind, ![w].new_box_name = asked,
                                   ![w].client = "here", ![w].delivered = << >>]
      BY <1>1 DEF Dequeue
    <3>. QED
      BY <3>1, <3>2, Zenon
  <2>2. worker[w].pc = "dequeue" /\ box_list' = box_list /\ box_data' = box_data /\ script' = script
    BY <1>1 DEF Dequeue
  <2>. QED
    BY <2>1, <2>2
<1>2. ASSUME NEW w \in Workers, ClientLeaves(w) PROVE Well'
  BY <1>2 DEF ClientLeaves
<1>3. ASSUME NEW w \in Workers, SpuriousWakeup(w) PROVE Well'
  BY <1>3 DEF SpuriousWakeup, Move
<1>5. ASSUME NEW w \in Workers, Publisher(w) \/ Subscriber(w) \/ Manager(w) PROVE Well'
  BY <1>5, PublisherKeepsTypes, SubscriberKeepsTypes, ManagerKeepsTypes
<1>6. Well'
  <2>. HIDE DEF Well, Kinds
  <2>1. PICK w \in Workers :
            \/ \E kind \in Kinds, name \in budget.names : Dequeue(w, kind, name)
            \/ Publisher(w) \/ Subscriber(w) \/ Manager(w)
            \/ ClientLeaves(w) \/ SpuriousWakeup(w)
    BY Zenon DEF Next
  <2>2. CASE \E kind \in Kinds, name \in budget.names : Dequeue(w, kind, name)
    <3>1. PICK kind \in Kinds, name \in budget.names : Dequeue(w, kind, name)
      BY <2>2, Zenon
    <3>. QED
      BY <1>1, <3>1, Zenon
  <2>3. CASE Publisher(w) \/ Subscriber(w) \/ Manager(w)
    BY <1>5, <2>3, Zenon
  <2>4. CASE ClientLeaves(w) \/ SpuriousWakeup(w)
    BY <1>2, <1>3, <2>4, Zenon
  <2>. QED
    BY <2>1, <2>2, <2>3, <2>4, Zenon
<1>. QED
  BY <1>6

LEMMA NextKeepsTypes ==
  ASSUME IInv, Types, [Next]_vars
  PROVE  Types'
PROOF
<1>1. ProcessTypes'
  BY NextKeepsProcess DEF Types
<1>2. WorkerTypes' /\ Messages' /\ BoxTypes' /\ ListTypes'
  BY MovesKeepTypes, StutterKeepsTypes
<1>. QED
  BY <1>1, <1>2 DEF Types

------------------------------------------------------------------------------
(* Steps that leave TecnicoFS, the names and order of the boxes and the     *)
(* sessions' handles alone.                                                 *)

\* A session has its handle: from tfs_open on.
Publishing == PublisherPCs \ {"publish"}
Subscribing == SubscriberPCs \ {"subscribe", "s_open"}
Writing == Publishing \ {"p_find", "p_check"}

\* A publisher's box is of the name it asked for.
BoxesRight ==
    \A v \in Workers : worker[v].pc \in Publishing \ {"p_find"} /\ worker[v].box \in Addresses =>
        Box(v).box_name = worker[v].new_box_name

SameBoxes ==
    /\ box_list'.head = box_list.head /\ reinitialised' = reinitialised
    /\ \A a \in Addresses : /\ box_data'[a].box_name = box_data[a].box_name
                            /\ box_data'[a].next = box_data[a].next
                            /\ box_data'[a].allocated = box_data[a].allocated

SameSession(v) ==
    /\ worker'[v].pc \in Publishing =>
         /\ worker[v].pc \in Publishing
         /\ worker'[v].handle = worker[v].handle
         /\ worker'[v].new_box_name = worker[v].new_box_name
    /\ worker'[v].pc \in Subscribing =>
         worker[v].pc \in Subscribing /\ worker'[v].handle = worker[v].handle
    /\ worker'[v].pc \in Writing => worker[v].pc \in Writing \/ worker[v].handle >= 0
    /\ worker'[v].pc = "s_check" => worker[v].pc = "s_check" /\ worker'[v].box = worker[v].box
    /\ worker'[v].pc = "c_insert" <=> worker[v].pc = "c_insert"
    /\ worker'[v].pc = "r_delete" <=> worker[v].pc = "r_delete"
    /\ worker'[v].pc \in {"c_insert", "r_delete"} =>
         worker'[v].new_box_name = worker[v].new_box_name

SameFiles ==
    /\ UNCHANGED <<tables, history>>
    /\ process' = process \/ process' = "killed" \/ process' = "exited"

Settled ==
    /\ SameBoxes
    /\ \A v \in Workers : SameSession(v)
    /\ BoxesRight => BoxesRight'
    /\ \A a \in Addresses : Abandoned(a)' => Abandoned(a)

Quiet == SameFiles /\ Settled

\* A step of w alone: its session goes on, and it keeps its box or has found
\* one of the right name; it holds the lock that it has taken, and keeps it.
MovedOn(w) ==
    /\ SameBoxes
    /\ SameSession(w)
    /\ \A v \in Workers \ {w} : worker'[v] = worker[v]
    /\ worker'[w].pc \in Publishing \ {"p_find"} /\ worker'[w].box \in Addresses =>
         \/ worker[w].pc \in Publishing \ {"p_find"} /\ worker'[w].box = worker[w].box
         \/ box_data[worker'[w].box].box_name = worker'[w].new_box_name
    /\ \A a \in Addresses : box_data'[a].box_condvar_lock \in Workers =>
         \/ box_data'[a].box_condvar_lock = w /\ Held(w)' /\ worker'[w].box = a
         \/ /\ box_data'[a].box_condvar_lock = box_data[a].box_condvar_lock
            /\ box_data[a].box_condvar_lock = w /\ Held(w) /\ worker[w].box = a =>
                 Held(w)' /\ worker'[w].box = a

Moved(w) == SameFiles /\ MovedOn(w)

LEMMA MovesSettle ==
  ASSUME NEW w \in Workers, MovedOn(w)
  PROVE  Settled
PROOF
<1>1. \A v \in Workers : SameSession(v)
  BY DEF MovedOn, SameSession
<1>2. ASSUME BoxesRight PROVE BoxesRight'
  <2>1. ASSUME NEW v \in Workers, worker'[v].pc \in Publishing \ {"p_find"}, worker'[v].box \in Addresses
        PROVE  box_data'[worker'[v].box].box_name = worker'[v].new_box_name
    <3>1. CASE v # w
      BY <1>2, <2>1, <3>1 DEF MovedOn, BoxesRight, SameBoxes, Box
    <3>2. CASE v = w
      BY <1>2, <2>1, <3>2 DEF MovedOn, BoxesRight, SameBoxes, SameSession, Box
    <3>. QED
      BY <3>1, <3>2
  <2>. QED
    BY <2>1 DEF BoxesRight, Box
<1>3. ASSUME NEW a \in Addresses, Abandoned(a)' PROVE Abandoned(a)
  <2>1. PICK owner : owner = box_data'[a].box_condvar_lock
    OBVIOUS
  <2>2. owner \in Workers /\ ~ (Held(owner)' /\ worker'[owner].box = a)
    BY <1>3, <2>1 DEF Abandoned, Held
  <2>3. /\ owner = box_data[a].box_condvar_lock
        /\ owner = w /\ Held(w) /\ worker[w].box = a => Held(w)' /\ worker'[w].box = a
    BY <2>1, <2>2 DEF MovedOn
  <2>4. CASE owner = w
    BY <2>2, <2>3, <2>4 DEF Abandoned
  <2>5. CASE owner # w
    <3>1. worker'[owner] = worker[owner]
      BY <2>2, <2>5 DEF MovedOn
    <3>. QED
      BY <2>2, <2>3, <3>1 DEF Abandoned, Held
  <2>. QED
    BY <2>4, <2>5
<1>. QED
  BY <1>1, <1>2, <1>3 DEF MovedOn, Settled

LEMMA QuietMove ==
  ASSUME NEW w \in Workers, Moved(w)
  PROVE  Quiet
PROOF
  BY MovesSettle DEF Moved, Quiet

LEMMA QuietPublisher ==
  ASSUME IInv, Types, NEW w \in Workers,
         \/ PublisherFind(w) \/ PublisherCheck(w) \/ PublisherClaim(w) \/ PublisherRead(w)
         \/ PublisherLock(w) \/ PublisherRelease(w)
  PROVE  Moved(w)
PROOF
<1>. USE WorkerAssumption, AddressAssumption
     DEF IInv, Shape, Fields, BoxFields, Pointers, InBox, Found, Types, WorkerTypes, BoxTypes, ListTypes,
         Moved, MovedOn, SameFiles, SameBoxes, SameSession, Publishing, Subscribing, Writing, PublisherPCs,
         SubscriberPCs, Held, At, Goto, boxVars, otherVars, fsVars
<1>1. CASE PublisherFind(w)
  BY <1>1, FindBoxResult DEF PublisherFind, FindIt
<1>2. CASE PublisherCheck(w)
  BY <1>2 DEF PublisherCheck, Move
<1>3. CASE PublisherClaim(w)
  BY <1>3 DEF PublisherClaim
<1>4. CASE PublisherRead(w)
  BY <1>4 DEF PublisherRead
<1>5. CASE PublisherLock(w)
  BY <1>5 DEF PublisherLock, Lock
<1>6. CASE PublisherRelease(w)
  BY <1>6 DEF PublisherRelease
<1>. QED
  BY <1>1, <1>2, <1>3, <1>4, <1>5, <1>6

\* A write to a client, whatever its outcome.
LEMMA QuietWrite ==
  ASSUME IInv, NEW w \in Workers, NEW sent, NEW failed, WriteToClient(w, sent, failed),
         worker[w].pc \in {"s_test", "s_send", "s_push"},
         sent.pc \in {"s_replay", "s_send", "s_lock"}, sent.handle = worker[w].handle,
         failed.pc \in {"s_replay", "s_send", "dequeue"}, failed.handle = worker[w].handle
  PROVE  Moved(w)
PROOF
<1>1. SameFiles /\ SameBoxes /\ box_data' = box_data
  BY DEF SameFiles, SameBoxes, WriteToClient, boxVars
<1>2. worker' = worker \/ worker' = [worker EXCEPT ![w] = sent] \/ worker' = [worker EXCEPT ![w] = failed]
  BY DEF WriteToClient
<1>. USE <1>1 DEF IInv, Shape, Moved, MovedOn, SameSession, Publishing, Subscribing, Writing, PublisherPCs, SubscriberPCs, Held
<1>3. CASE worker' = worker
  BY <1>3
<1>4. CASE worker' = [worker EXCEPT ![w] = sent]
  BY <1>4
<1>5. CASE worker' = [worker EXCEPT ![w] = failed]
  BY <1>5
<1>. QED
  BY <1>2, <1>3, <1>4, <1>5

LEMMA QuietSubscriber ==
  ASSUME IInv, Types, NEW w \in Workers,
         \/ SubscriberFind(w) \/ SubscriberCheck(w) \/ SubscriberTest(w) \/ SubscriberSend(w)
         \/ SubscriberLast(w) \/ SubscriberLock(w) \/ SubscriberLoop(w) \/ SubscriberWait(w)
         \/ SubscriberPush(w) \/ SpuriousWakeup(w)
  PROVE  Moved(w)
PROOF
<1>. USE WorkerAssumption, AddressAssumption
     DEF IInv, Shape, Fields, BoxFields, Pointers, InBox, Found, Types, WorkerTypes, BoxTypes, ListTypes,
         Moved, MovedOn, SameFiles, SameBoxes, SameSession, Publishing, Subscribing, Writing, PublisherPCs,
         SubscriberPCs, Held, At, Goto, boxVars, otherVars, fsVars
<1>1. CASE SubscriberFind(w)
  BY <1>1, FindBoxResult DEF SubscriberFind, FindIt
<1>2. CASE SubscriberCheck(w)
  BY <1>2 DEF SubscriberCheck, Move
<1>3. CASE SubscriberTest(w)
  <2>. DEFINE next == [worker[w] EXCEPT !.pc = "s_replay"]
  <2>1. WriteToClient(w, next, next) /\ worker[w].pc = "s_test"
    BY <1>3 DEF SubscriberTest
  <2>2. next.pc = "s_replay" /\ next.handle = worker[w].handle
    OBVIOUS
  <2>. HIDE DEF next
  <2>. QED
    BY <2>1, <2>2, QuietWrite
<1>4. CASE SubscriberSend(w)
  <2>. DEFINE rest == [worker[w] EXCEPT !.replay = Tail(@)]
              sent == [rest EXCEPT !.delivered = Append(@, Head(worker[w].replay))]
  <2>1. WriteToClient(w, sent, rest) /\ worker[w].pc = "s_send"
    BY <1>4 DEF SubscriberSend
  <2>2. DOMAIN rest = Fields /\ rest.pc = "s_send" /\ rest.handle = worker[w].handle
    BY <2>1
  <2>3. sent.pc = "s_send" /\ sent.handle = worker[w].handle
    <3>. HIDE DEF rest
    <3>. QED
      BY <2>2
  <2>. HIDE DEF rest, sent
  <2>. QED
    BY <2>1, <2>2, <2>3, QuietWrite
<1>5. CASE SubscriberLast(w)
  BY <1>5 DEF SubscriberLast
<1>6. CASE SubscriberLock(w)
  BY <1>6 DEF SubscriberLock, Lock
<1>7. CASE SubscriberLoop(w)
  BY <1>7 DEF SubscriberLoop, Move
<1>8. CASE SubscriberWait(w)
  BY <1>8 DEF SubscriberWait
<1>9. CASE SubscriberPush(w)
  <2>. DEFINE sent(string) ==
                [worker[w] EXCEPT !.pc = "s_lock", !.delivered = Append(@, string)]
              failed == [worker[w] EXCEPT !.pc = "dequeue"]
  <2>1. PICK string : WriteToClient(w, sent(string), failed) /\ worker[w].pc = "s_push"
    BY <1>9, Zenon DEF SubscriberPush
  <2>2. sent(string).pc = "s_lock" /\ sent(string).handle = worker[w].handle
    OBVIOUS
  <2>3. failed.pc = "dequeue" /\ failed.handle = worker[w].handle
    OBVIOUS
  <2>. HIDE DEF sent, failed
  <2>. QED
    BY <2>1, <2>2, <2>3, QuietWrite
<1>10. CASE SpuriousWakeup(w)
  BY <1>10 DEF SpuriousWakeup, Move
<1>. QED
  BY <1>1, <1>2, <1>3, <1>4, <1>5, <1>6, <1>7, <1>8, <1>9, <1>10, Zenon

LEMMA QuietManager ==
  ASSUME IInv, Types, NEW w \in Workers,
         ManagerRespond(w) \/ ListLock(w) \/ ListSend(w) \/ ListUnlock(w) \/ ClientLeaves(w)
  PROVE  Moved(w)
PROOF
<1>. USE WorkerAssumption, AddressAssumption
     DEF IInv, Shape, Fields, BoxFields, Types, WorkerTypes, BoxTypes, ListTypes,
         Moved, MovedOn, SameFiles, SameBoxes, SameSession, Publishing, Subscribing, Writing, PublisherPCs,
         SubscriberPCs, Held, At, Goto, boxVars, otherVars, fsVars
<1>6. ASSUME NEW sent, RespondToManager(w, sent), worker[w].pc \in {"m_respond", "l_send"},
             DOMAIN sent = Fields, sent.pc \in {"dequeue", "l_send"}
      PROVE  Moved(w)
  BY <1>6 DEF RespondToManager
<1>1. CASE ManagerRespond(w)
  <2>. DEFINE sent == [worker[w] EXCEPT !.pc = "dequeue"]
  <2>1. DOMAIN sent = Fields /\ sent.pc = "dequeue"
    OBVIOUS
  <2>2. RespondToManager(w, sent) /\ worker[w].pc = "m_respond"
    BY <1>1 DEF ManagerRespond
  <2>. HIDE DEF sent
  <2>. QED
    BY <1>6, <2>1, <2>2
<1>2. CASE ListLock(w)
  BY <1>2 DEF ListLock
<1>3. CASE ListSend(w)
  <2>. DEFINE sent(next, responses) ==
                [worker[w] EXCEPT !.box = next, !.delivered = responses]
  <2>1. PICK next, responses : RespondToManager(w, sent(next, responses))
    BY <1>3, Zenon DEF ListSend
  <2>2. /\ DOMAIN sent(next, responses) = Fields /\ sent(next, responses).pc = "l_send"
        /\ worker[w].pc = "l_send"
    BY <1>3 DEF ListSend
  <2>. HIDE DEF sent
  <2>. QED
    BY <1>6, <2>1, <2>2
<1>4. CASE ListUnlock(w)
  BY <1>4 DEF ListUnlock
<1>5. CASE ClientLeaves(w)
  BY <1>5 DEF ClientLeaves
<1>. QED
  BY <1>1, <1>2, <1>3, <1>4, <1>5

LEMMA QuietDequeue ==
  ASSUME IInv, NEW w \in Workers, NEW kind \in Kinds, NEW name, Dequeue(w, kind, name)
  PROVE  Moved(w)
PROOF
  BY DEF Dequeue, Kinds, IInv, Shape, Fields, Moved, MovedOn, SameFiles, SameBoxes, SameSession, Publishing,
         Subscribing, Writing, PublisherPCs, SubscriberPCs, Held, At, boxVars, fsVars

LEMMA QuietStutter ==
  ASSUME UNCHANGED vars
  PROVE  Quiet
PROOF
<1>1. /\ worker' = worker /\ box_list' = box_list /\ box_data' = box_data
      /\ UNCHANGED <<reinitialised, tables, history>> /\ process' = process
  BY DEF vars, boxVars, otherVars, fsVars
<1>2. \A v \in Workers : SameSession(v)
  BY <1>1 DEF SameSession
<1>3. BoxesRight => BoxesRight'
  BY <1>1 DEF BoxesRight, Box
<1>4. \A a \in Addresses : Abandoned(a)' => Abandoned(a)
  BY <1>1 DEF Abandoned, Held
<1>. QED
  BY <1>1, <1>2, <1>3, <1>4 DEF Quiet, Settled, SameFiles, SameBoxes

\* Those who are woken wait for the lock that the publisher gives up.
LEMMA QuietAnnounce ==
  ASSUME IInv, Types, NEW w \in Workers, PublisherAnnounce(w)
  PROVE  Quiet
PROOF
<1>0. PICK woken \in SUBSET Asleep(w) : Announce(w, woken)
  BY Zenon DEF PublisherAnnounce
<1>1. worker[w].pc = "p_announce" /\ worker[w].box \in Addresses
  BY <1>0 DEF Announce, At, IInv, Pointers, InBox
<1>2. SameFiles
  BY <1>0 DEF Announce, SameFiles, otherVars, fsVars
<1>3. /\ box_list' = box_list /\ reinitialised' = reinitialised
      /\ \A a \in Addresses :
           /\ box_data'[a].box_name = box_data[a].box_name
           /\ box_data'[a].next = box_data[a].next
           /\ box_data'[a].allocated = box_data[a].allocated
           /\ \/ box_data'[a].box_condvar_lock = box_data[a].box_condvar_lock /\ a # worker[w].box
              \/ box_data'[a].box_condvar_lock = Nobody
  BY <1>0, <1>1 DEF Announce, IInv, Shape, BoxFields, otherVars
<1>. DEFINE Kept(v) ==
              /\ \/ worker'[v].pc = worker[v].pc /\ v # w
                 \/ worker'[v].pc = "s_lock" /\ worker[v].pc = "s_wait"
                 \/ worker'[v].pc = "p_read" /\ v = w
              /\ worker'[v].new_box_name = worker[v].new_box_name
              /\ worker'[v].handle = worker[v].handle
              /\ worker'[v].box = worker[v].box
<1>4. ASSUME NEW v \in Workers PROVE Kept(v)
  <2>1. worker'[v] = IF v \in woken THEN [worker[v] EXCEPT !.pc = "s_lock"]
                     ELSE IF v = w THEN [worker[v] EXCEPT !.pc = "p_read"] ELSE worker[v]
    BY <1>0 DEF Announce
  <2>2. DOMAIN worker[v] = Fields
    BY DEF IInv, Shape
  <2>3. CASE v \in woken
    <3>1. worker'[v] = [worker[v] EXCEPT !.pc = "s_lock"] /\ worker[v].pc = "s_wait"
      BY <1>0, <2>1, <2>3 DEF Asleep
    <3>. QED
      BY <2>2, <3>1 DEF Fields
  <2>4. CASE v \notin woken /\ v = w
    <3>1. worker'[v] = [worker[v] EXCEPT !.pc = "p_read"]
      BY <2>1, <2>4
    <3>. QED
      BY <2>2, <2>4, <3>1 DEF Fields
  <2>5. CASE v \notin woken /\ v # w
    BY <2>1, <2>5
  <2>. QED
    BY <2>3, <2>4, <2>5
<1>5. \A v \in Workers : SameSession(v)
  BY <1>1, <1>4 DEF SameSession, Publishing, Subscribing, Writing, PublisherPCs, SubscriberPCs
<1>6. ASSUME BoxesRight PROVE BoxesRight'
  BY <1>1, <1>3, <1>4, <1>6 DEF BoxesRight, Box, Publishing, PublisherPCs
<1>7. ASSUME NEW a \in Addresses, Abandoned(a)' PROVE Abandoned(a)
  <2>1. PICK owner : owner = box_data'[a].box_condvar_lock
    OBVIOUS
  <2>2. owner \in Workers /\ ~ (Held(owner)' /\ worker'[owner].box = a)
    BY <1>7, <2>1 DEF Abandoned, Held
  <2>3. owner = box_data[a].box_condvar_lock /\ a # worker[w].box
    BY <1>3, <2>1, <2>2, WorkerAssumption
  <2>4. Held(owner) /\ worker[owner].box = a => Held(owner)' /\ worker'[owner].box = a
    BY <1>4, <2>2, <2>3 DEF Held
  <2>. QED
    BY <2>2, <2>3, <2>4 DEF Abandoned
<1>. QED
  BY <1>2, <1>3, <1>5, <1>6, <1>7 DEF Quiet, Settled, SameBoxes

\* The steps that are not quiet.
Loud(w) ==
    \/ PublisherOpen(w) \/ PublisherWrite(w)
    \/ SubscriberOpen(w) \/ SubscriberReplay(w) \/ SubscriberRead(w)
    \/ ManagerCreate(w) \/ ManagerInsert(w) \/ ManagerRemove(w) \/ ManagerDelete(w)

LEMMA QuietOrLoud ==
  ASSUME IInv, Types, [Next]_vars
  PROVE  Quiet \/ \E w \in Workers : Loud(w)
PROOF
<1>1. ASSUME NEW w \in Workers, Publisher(w) PROVE Quiet \/ Loud(w)
  BY <1>1, QuietPublisher, QuietMove, QuietAnnounce DEF Publisher, Loud
<1>2. ASSUME NEW w \in Workers, Subscriber(w) PROVE Quiet \/ Loud(w)
  BY <1>2, QuietSubscriber, QuietMove DEF Subscriber, Loud
<1>3. ASSUME NEW w \in Workers, Manager(w) PROVE Quiet \/ Loud(w)
  BY <1>3, QuietManager, QuietMove DEF Manager, Loud
<1>4. ASSUME NEW w \in Workers, NEW kind \in Kinds, NEW name \in budget.names, Dequeue(w, kind, name)
      PROVE  Quiet
  BY <1>4, QuietDequeue, QuietMove
<1>5. ASSUME NEW w \in Workers, ClientLeaves(w) \/ SpuriousWakeup(w)
      PROVE  Quiet
  BY <1>5, QuietManager, QuietSubscriber, QuietMove
<1>. QED
  BY <1>1, <1>2, <1>3, <1>4, <1>5, QuietStutter DEF Next

------------------------------------------------------------------------------
(* TecnicoFS under the sessions *)

OpenModes == {{}, {"TFS_O_APPEND"}, {"TFS_O_CREAT"}}
MessageBuffers == {Append(Script[i], NUL) : i \in DOMAIN Script}

\* The operations of TecnicoFS that the steps of the workers are.
Opens(name, mode, ret) ==
    /\ Files!Open(name, mode, ret)
    /\ name \in BoxNames /\ ret \in Files!Handles \cup {-1}
    /\ removed' = removed

Unlinks(name, ret) ==
    /\ Files!Unlink(name, ret)
    /\ name \in BoxNames /\ ret \in {0, -1}
    /\ removed' = removed \cup (Files!FreeInodes' \ Files!FreeInodes)

Writes(h, buf, ret) ==
    /\ Files!Write(h, buf, ret)
    /\ h \in Files!Handles \cup {-1} /\ buf \in MessageBuffers
    /\ Len(buf) \in Nat \ {0} /\ ret \in -1 .. Len(buf)
    /\ removed' = removed

Reads(h, ret) ==
    /\ Files!Read(h, BLOCK_SIZE, ret)
    /\ h \in Files!Handles \cup {-1} /\ ret \in -1 .. BLOCK_SIZE
    /\ removed' = removed

LEMMA OpenSteps ==
  ASSUME IInv, NEW w \in Workers, NEW mode, NEW ret \in FS!Handles \cup {-1},
         worker[w].pc \in {"publish", "s_open", "create"},
         FS!Open(worker[w].new_box_name, mode, ret), removed' = removed
  PROVE  \E name : name = worker[w].new_box_name /\ Opens(name, mode, ret)
PROOF
<1>1. PICK name : name = worker[w].new_box_name
  OBVIOUS
<1>2. name \in BoxNames
  BY <1>1 DEF IInv, Names, Asking
<1>3. FS!Open(name, mode, ret)
  BY <1>1 DEF FS!Open, FS!OpenExisting, FS!OpenCreate, FS!OpenNoEntry, FS!OpenFails, FS!FoundIn, FS!InDir,
              FS!AddDirEntry
<1>4. ret \in Files!Handles \cup {-1}
  BY SameSets
<1>. QED
  BY <1>1, <1>2, <1>3, <1>4, SameOpen DEF Opens

\* What the steps of a worker do in TecnicoFS, and where they leave the worker.
PublisherOpens(w, name, ret) ==
    /\ worker[w].pc = "publish" /\ name = worker[w].new_box_name
    /\ Opens(name, {"TFS_O_APPEND"}, ret)
    /\ worker' = [worker EXCEPT ![w].pc = "p_find", ![w].handle = ret]
    /\ UNCHANGED <<boxVars, reinitialised>> /\ Overlap(w)

SubscriberOpens(w, name, ret) ==
    /\ worker[w].pc = "s_open" /\ name = worker[w].new_box_name
    /\ Opens(name, {}, ret)
    /\ worker' = [worker EXCEPT ![w].pc = "s_check", ![w].handle = ret]
    /\ UNCHANGED <<boxVars, reinitialised, overlapped>>

ManagerCreates(w, name, ret) ==
    /\ worker[w].pc = "create" /\ name = worker[w].new_box_name
    /\ Opens(name, {"TFS_O_CREAT"}, ret)
    /\ worker' = [worker EXCEPT ![w].pc = IF ret = -1 THEN "m_respond" ELSE "c_insert"]
    /\ UNCHANGED <<boxVars, reinitialised, overlapped>>

ManagerUnlinks(w, name, ret) ==
    /\ worker[w].pc = "remove" /\ name = worker[w].new_box_name
    /\ Unlinks(name, ret)
    /\ worker' = [worker EXCEPT ![w].pc = IF ret = -1 THEN "m_respond" ELSE "r_delete"]
    /\ UNCHANGED <<boxVars, reinitialised, overlapped>>

PublisherWrites(w, h, buf, ret) ==
    /\ worker[w].pc = "p_write" /\ h = worker[w].handle
    /\ Writes(h, buf, ret)
    /\ worker' = [worker EXCEPT ![w].pc = IF ret < 1 THEN "p_release" ELSE "p_announce"]
    /\ UNCHANGED <<boxVars, reinitialised, overlapped>>

SubscriberReads(w, h, ret) ==
    /\ worker[w].pc \in {"s_replay", "s_read"} /\ h = worker[w].handle
    /\ Reads(h, ret)
    /\ MovedOn(w) /\ UNCHANGED overlapped

LEMMA OpeningSteps ==
  ASSUME IInv, NEW w \in Workers
  PROVE  /\ PublisherOpen(w) => \E name, ret : PublisherOpens(w, name, ret)
         /\ SubscriberOpen(w) => \E name, ret : SubscriberOpens(w, name, ret)
         /\ ManagerCreate(w) => \E name, ret : ManagerCreates(w, name, ret)
PROOF
<1>1. ASSUME PublisherOpen(w) PROVE \E name, ret : PublisherOpens(w, name, ret)
  <2>1. PICK ret \in FS!Handles \cup {-1} :
            /\ FS!Open(worker[w].new_box_name, {"TFS_O_APPEND"}, ret)
            /\ worker' = [worker EXCEPT ![w].pc = "p_find", ![w].handle = ret]
    BY <1>1, Zenon DEF PublisherOpen, OpenIt
  <2>2. worker[w].pc = "publish" /\ removed' = removed /\ UNCHANGED <<boxVars, reinitialised>> /\ Overlap(w)
    BY <1>1 DEF PublisherOpen, OpenIt, At
  <2>3. PICK name : name = worker[w].new_box_name /\ Opens(name, {"TFS_O_APPEND"}, ret)
    BY <2>1, <2>2, OpenSteps
  <2>. QED
    BY <2>1, <2>2, <2>3, Zenon DEF PublisherOpens
<1>2. ASSUME SubscriberOpen(w) PROVE \E name, ret : SubscriberOpens(w, name, ret)
  <2>1. PICK ret \in FS!Handles \cup {-1} :
            /\ FS!Open(worker[w].new_box_name, {}, ret)
            /\ worker' = [worker EXCEPT ![w].pc = "s_check", ![w].handle = ret]
    BY <1>2, Zenon DEF SubscriberOpen, OpenIt
  <2>2. worker[w].pc = "s_open" /\ removed' = removed /\ UNCHANGED <<boxVars, reinitialised, overlapped>>
    BY <1>2 DEF SubscriberOpen, OpenIt, At
  <2>3. PICK name : name = worker[w].new_box_name /\ Opens(name, {}, ret)
    BY <2>1, <2>2, OpenSteps
  <2>. QED
    BY <2>1, <2>2, <2>3, Zenon DEF SubscriberOpens
<1>3. ASSUME ManagerCreate(w) PROVE \E name, ret : ManagerCreates(w, name, ret)
  <2>1. PICK ret \in FS!Handles \cup {-1} :
            /\ FS!Open(worker[w].new_box_name, {"TFS_O_CREAT"}, ret)
            /\ worker' = [worker EXCEPT ![w].pc = IF ret = -1 THEN "m_respond" ELSE "c_insert"]
    BY <1>3, Zenon DEF ManagerCreate, Goto
  <2>2. worker[w].pc = "create" /\ removed' = removed /\ UNCHANGED <<boxVars, reinitialised, overlapped>>
    BY <1>3 DEF ManagerCreate, At
  <2>3. PICK name : name = worker[w].new_box_name /\ Opens(name, {"TFS_O_CREAT"}, ret)
    BY <2>1, <2>2, OpenSteps
  <2>. QED
    BY <2>1, <2>2, <2>3, Zenon DEF ManagerCreates
<1>. QED
  BY <1>1, <1>2, <1>3, Zenon

LEMMA UnlinkingSteps ==
  ASSUME IInv, NEW w \in Workers, ManagerRemove(w)
  PROVE  \E name, ret : ManagerUnlinks(w, name, ret)
PROOF
<1>1. PICK ret \in {0, -1} :
        /\ FS!Unlink(worker[w].new_box_name, ret)
        /\ worker' = [worker EXCEPT ![w].pc = IF ret = -1 THEN "m_respond" ELSE "r_delete"]
  BY Zenon DEF ManagerRemove, Goto
<1>2. /\ worker[w].pc = "remove" /\ removed' = removed \cup (FS!FreeInodes' \ FS!FreeInodes)
      /\ UNCHANGED <<boxVars, reinitialised, overlapped>>
  BY DEF ManagerRemove, At
<1>3. PICK name : name = worker[w].new_box_name
  OBVIOUS
<1>4. name \in BoxNames
  BY <1>2, <1>3 DEF IInv, Names, Asking
<1>5. FS!Unlink(name, ret)
  BY <1>1, <1>3 DEF FS!Unlink, FS!UnlinkExisting, FS!FoundIn, FS!InDir, FS!ClearDirEntry
<1>6. Files!Unlink(name, ret)
  BY <1>5, SameUnlink
<1>7. FS!FreeInodes = Files!FreeInodes /\ FS!FreeInodes' = Files!FreeInodes'
  BY DEF FS!FreeInodes, Files!FreeInodes, FS!Inodes, Files!Inodes
<1>. QED
  BY <1>1, <1>2, <1>3, <1>4, <1>6, <1>7, Zenon DEF Unlinks, ManagerUnlinks

LEMMA WritingSteps ==
  ASSUME Types, NEW w \in Workers, PublisherWrite(w)
  PROVE  \E h, buf, ret : PublisherWrites(w, h, buf, ret)
PROOF
<1>1. PICK ret \in -1 .. Len(worker[w].message) + 1 :
        /\ FS!Write(worker[w].handle, Append(worker[w].message, NUL), ret)
        /\ worker' = [worker EXCEPT ![w].pc = IF ret < 1 THEN "p_release" ELSE "p_announce"]
  BY Zenon DEF PublisherWrite, WriteMessage, Goto
<1>2. worker[w].pc = "p_write" /\ removed' = removed /\ UNCHANGED <<boxVars, reinitialised, overlapped>>
  BY DEF PublisherWrite, WriteMessage, At, otherVars, history
<1>3. PICK h : h = worker[w].handle
  OBVIOUS
<1>4. PICK message : message = worker[w].message
  OBVIOUS
<1>5. PICK buf : buf = Append(message, NUL)
  OBVIOUS
<1>6. message \in Range(Script)
  BY <1>2, <1>4 DEF Types, Messages
<1>7. buf \in MessageBuffers /\ Len(buf) \in Nat \ {0} /\ Len(buf) = Len(message) + 1
  BY <1>5, <1>6, MessageLength DEF MessageBuffers
<1>8. h \in Files!Handles \cup {-1}
  BY <1>3, SameSets DEF Types, WorkerTypes
<1>9. Files!Write(h, buf, ret)
  <2>1. buf = Append(worker[w].message, NUL)
    BY <1>4, <1>5
  <2>2. FS!Write(h, buf, ret)
    BY <1>1, <1>3, <2>1, ZenonT(60) DEF FS!Write, FS!WriteOpened, FS!Opened, FS!ToWrite, FS!CopyIn
  <2>. QED
    BY <2>2, SameWrite
<1>10. ret \in -1 .. Len(buf)
  BY <1>1, <1>4, <1>7
<1>. QED
  BY <1>1, <1>2, <1>3, <1>7, <1>8, <1>9, <1>10, Zenon DEF Writes, PublisherWrites

LEMMA ReadingSteps ==
  ASSUME IInv, Types, NEW w \in Workers, SubscriberReplay(w) \/ SubscriberRead(w)
  PROVE  \E h, ret : SubscriberReads(w, h, ret)
PROOF
<1>1. PICK ret \in -1 .. BLOCK_SIZE : FS!Read(worker[w].handle, BLOCK_SIZE, ret)
  BY Zenon DEF SubscriberReplay, SubscriberRead
<1>2. worker[w].pc \in {"s_replay", "s_read"} /\ removed' = removed /\ UNCHANGED overlapped
  BY DEF SubscriberReplay, SubscriberRead, At, otherVars, history
<1>3. PICK h : h = worker[w].handle
  OBVIOUS
<1>4. FS!Read(h, BLOCK_SIZE, ret)
  BY <1>1, <1>3, Zenon DEF FS!Read, FS!ReadOpened, FS!Opened, FS!ToRead
<1>5. Files!Read(h, BLOCK_SIZE, ret)
  BY <1>4, SameRead
<1>6. h \in Files!Handles \cup {-1}
  BY <1>3, SameSets DEF Types, WorkerTypes
<1>7. MovedOn(w)
  <2>. USE WorkerAssumption, AddressAssumption
       DEF IInv, Shape, Fields, BoxFields, Pointers, InBox, MovedOn, SameBoxes, SameSession,
           Publishing, Subscribing, Writing, PublisherPCs, SubscriberPCs, Held, At, boxVars
  <2>1. CASE worker' = worker /\ box_data' = box_data /\ UNCHANGED <<box_list, reinitialised>>
    BY <2>1
  <2>2. ASSUME NEW buffer, NEW replay, box_data' = box_data, UNCHANGED <<box_list, reinitialised>>,
               worker[w].pc = "s_replay",
               worker' = [worker EXCEPT ![w].pc = "s_send", ![w].full_box_buffer = buffer,
                                        ![w].replay = replay]
        PROVE  MovedOn(w)
    BY <2>2
  <2>3. ASSUME NEW buffer, UNCHANGED <<box_list, reinitialised>>, worker[w].pc = "s_read",
               worker' = [worker EXCEPT ![w].pc = "s_push", ![w].last_size = Box(w).box_size,
                                        ![w].full_box_buffer = buffer],
               box_data' = [box_data EXCEPT ![worker[w].box].box_condvar_lock = Nobody]
        PROVE  MovedOn(w)
    BY <2>3
  <2>4. CASE SubscriberReplay(w)
    BY <2>1, <2>2, <2>4, Zenon DEF SubscriberReplay
  <2>5. CASE SubscriberRead(w)
    BY <2>1, <2>3, <2>5, Zenon DEF SubscriberRead, otherVars
  <2>. QED
    BY <2>4, <2>5
<1>. QED
  BY <1>1, <1>2, <1>3, <1>5, <1>6, <1>7, Zenon DEF Reads, SubscriberReads

\* TecnicoFS keeps its invariant, and that of a careful caller as long as no
\* file has been removed.  No operation is called once the process has ended.
Broken == {"running", "panic", "memory fault"}

FilesInv ==
    /\ Files!DirectoryExact
    /\ process \in Broken => Files!IInv
    /\ removed = {} /\ process = "running" => Files!CInv

LEMMA FilesInvInit ==
  Init => FilesInv
PROOF
<1>1. Init => Files!Init
  BY SameInit DEF Init
<1>2. Files!Init => Files!CInv
  BY FilesAssumptions, Files!InitCInv
<1>3. Files!CInv => Files!IInv /\ Files!DirectoryExact
  BY DEF Files!CInv, Files!IInv
<1>. QED
  BY <1>1, <1>2, <1>3 DEF FilesInv

\* The program calls TecnicoFS, with care as long as no file has been removed.
Called ==
    /\ Files!Next /\ process = "running"
    /\ removed' = {} => removed = {} /\ Files!Careful

LEMMA FileStep ==
  ASSUME FilesInv, Called
  PROVE  FilesInv'
PROOF
<1>1. process \in Broken
  BY Zenon DEF Called, Broken
<1>2. Files!IInv'
  BY <1>1, FilesAssumptions, Files!IInvStep DEF FilesInv, Called
<1>3. removed' = {} => Files!CInv'
  BY FilesAssumptions, Files!CInvStep DEF FilesInv, Called
<1>4. Files!DirectoryExact'
  BY <1>2 DEF Files!IInv
<1>. QED
  BY <1>2, <1>3, <1>4 DEF FilesInv

\* A step that frees no inode and shortens no file is careful.
LEMMA StaysCareful ==
  ASSUME Files!CInv, Files!IInv',
         \A i \in Files!Inodes \ Files!FreeInodes :
            i \notin Files!FreeInodes' /\ i_size'[i] >= i_size[i]
  PROVE  Files!Careful
PROOF
<1>1. freeinode_ts' \in [Files!Inodes -> {"FREE", "TAKEN"}]
  BY Zenon DEF Files!IInv, Files!TypeOK
<1>2. \A i \in Files!Inodes : Files!IsOpen(i) => freeinode_ts[i] = "TAKEN"
  BY Zenon DEF Files!CInv, Files!HandlesInFiles, Files!IsOpen, Files!Live
<1>3. \A i \in Files!Inodes : freeinode_ts[i] = "TAKEN" => i \notin Files!FreeInodes
  BY DEF Files!FreeInodes
<1>4. \A i \in Files!Inodes : i \notin Files!FreeInodes' => freeinode_ts'[i] = "TAKEN"
  BY <1>1 DEF Files!FreeInodes
<1>. QED
  BY <1>2, <1>3, <1>4 DEF Files!Careful

\* tfs_open, for a publisher, a subscriber or a manager.
LEMMA OpenKeepsFiles ==
  ASSUME FilesInv, NEW name, NEW mode \in OpenModes, NEW ret, Opens(name, mode, ret)
  PROVE  /\ FilesInv' /\ Called
         /\ process = "running" /\ process' = "running"
         /\ Files!IInv
         /\ Files!FilesStay
         /\ \A n : Files!InDir(n)' =>
                Files!InDir(n) \/ (n = name /\ "TFS_O_CREAT" \in mode)
         /\ \/ /\ ret = -1 /\ UNCHANGED Files!openVars
               /\ Files!InDir(name)' => Files!FreeHandles = {}
            \/ Files!HandleTaken(name, mode, ret)
PROOF
<1>1. /\ Files!Open(name, mode, ret) /\ name \in BoxNames /\ ret \in Files!Handles \cup {-1}
      /\ removed' = removed
  BY DEF Opens
<1>2. process = "running"
  BY <1>1, Zenon DEF Files!Open
<1>3. Files!IInv
  BY <1>2, Zenon DEF FilesInv, Broken
<1>4. "TFS_O_TRUNC" \notin mode
  BY DEF OpenModes
<1>5. /\ process' = "running"
      /\ Files!FilesStay
      /\ \A n : Files!InDir(n)' => Files!InDir(n) \/ (n = name /\ "TFS_O_CREAT" \in mode)
      /\ \/ /\ ret = -1 /\ UNCHANGED Files!openVars
            /\ Files!InDir(name)' => Files!FreeHandles = {}
         \/ Files!HandleTaken(name, mode, ret)
  BY <1>1, <1>3, <1>4, FilesAssumptions, Files!OpenEffects
<1>6. Files!Next
  <2>1. name \in Files!Paths /\ mode \in {{}, {"TFS_O_APPEND"}, {"TFS_O_CREAT"}}
    BY <1>1 DEF Files!Paths, OpenModes
  <2>. QED
    BY <1>1, <2>1, Zenon DEF Files!Next
<1>7. Files!IInv'
  BY <1>3, <1>6, FilesAssumptions, Files!IInvStep, Zenon
<1>8. ASSUME removed' = {} PROVE removed = {} /\ Files!Careful
  <2>1. removed = {} /\ Files!CInv
    BY <1>1, <1>2, <1>8 DEF FilesInv
  <2>2. i_size \in [Files!Inodes -> 0 .. BLOCK_SIZE]
    BY <1>3, Zenon DEF Files!IInv, Files!TypeOK
  <2>3. \A i \in Files!Inodes \ Files!FreeInodes : i \notin Files!FreeInodes' /\ i_size'[i] = i_size[i]
    BY <1>5 DEF Files!FilesStay
  <2>4. \A i \in Files!Inodes \ Files!FreeInodes :
            i \notin Files!FreeInodes' /\ i_size'[i] >= i_size[i]
    BY <2>2, <2>3
  <2>. QED
    BY <1>7, <2>1, <2>4, StaysCareful
<1>9. Called
  BY <1>2, <1>6, <1>8, Zenon DEF Called
<1>. QED
  BY <1>2, <1>3, <1>5, <1>9, FileStep, Zenon

\* tfs_unlink, which is what makes a caller careless.
LEMMA UnlinkKeepsFiles ==
  ASSUME FilesInv, NEW name, NEW ret, Unlinks(name, ret)
  PROVE  /\ FilesInv' /\ Called
         /\ process = "running" /\ process' = "running"
         /\ Files!IInv
         /\ UNCHANGED <<Files!openVars, i_size>>
         /\ \/ /\ ret = -1 /\ UNCHANGED <<Files!vars, removed>>
               /\ ~ Files!InDir(name)
            \/ /\ ret = 0
               /\ Files!InDir(name) /\ ~ Files!InDir(name)'
               /\ \A n \in BoxNames \ {name} : \A i :
                     Files!FileIs(n, i)' <=> Files!FileIs(n, i)
               /\ \E inum \in Files!Inodes : /\ Files!FileIs(name, inum)
                                             /\ removed' = removed \cup {inum}
PROOF
<1>1. /\ Files!Unlink(name, ret) /\ name \in BoxNames /\ ret \in {0, -1}
      /\ removed' = removed \cup (Files!FreeInodes' \ Files!FreeInodes)
  BY DEF Unlinks
<1>2. process = "running"
  BY <1>1, Zenon DEF Files!Unlink
<1>3. Files!IInv
  BY <1>2, Zenon DEF FilesInv, Broken
<1>4. /\ process' = "running"
      /\ UNCHANGED <<Files!openVars, i_size>>
      /\ \/ /\ ret = -1 /\ UNCHANGED Files!vars
            /\ ~ Files!InDir(name)
         \/ /\ ret = 0
            /\ Files!InDir(name) /\ ~ Files!InDir(name)'
            /\ \A n \in BoxNames \ {name} : \A i : Files!FileIs(n, i)' <=> Files!FileIs(n, i)
            /\ \E inum \in Files!Inodes : /\ Files!FileIs(name, inum)
                                          /\ Files!FreeInodes' = Files!FreeInodes \cup {inum}
  BY <1>1, <1>3, FilesAssumptions, Files!UnlinkEffects
<1>5. Files!Next
  <2>1. name \in Files!Paths
    BY <1>1 DEF Files!Paths
  <2>. QED
    BY <1>1, <2>1, Zenon DEF Files!Next
<1>6. CASE ret = -1
  <2>1. ret # 0
    BY <1>6
  <2>2. UNCHANGED Files!vars /\ ~ Files!InDir(name)
    BY <1>4, <2>1, Zenon
  <2>3. Files!FreeInodes' = Files!FreeInodes
    BY <2>2 DEF Files!vars, Files!inodeVars, Files!FreeInodes
  <2>4. removed' = removed
    BY <1>1, <2>3
  <2>5. ASSUME removed' = {} PROVE removed = {} /\ Files!Careful
    <3>1. removed = {} /\ Files!CInv
      BY <1>2, <2>4, <2>5 DEF FilesInv
    <3>2. Files!IInv'
      BY <1>3, <1>5, FilesAssumptions, Files!IInvStep, Zenon
    <3>3. i_size \in [Files!Inodes -> 0 .. BLOCK_SIZE] /\ BLOCK_SIZE \in Nat
      BY <1>3, FilesAssumptions, Zenon DEF Files!IInv, Files!TypeOK, Files!SizeAssumption
    <3>4. \A i \in Files!Inodes : i_size'[i] >= i_size[i]
      BY <1>4, <3>3
    <3>. QED
      BY <2>3, <3>1, <3>2, <3>4, StaysCareful
  <2>6. Called
    BY <1>2, <1>5, <2>5, Zenon DEF Called
  <2>. QED
    BY <1>2, <1>3, <1>4, <1>6, <2>2, <2>4, <2>6, FileStep, Zenon
<1>7. CASE ret = 0
  <2>1. ret # -1
    BY <1>7
  <2>2. PICK inum \in Files!Inodes : /\ Files!FileIs(name, inum)
                                     /\ Files!FreeInodes' = Files!FreeInodes \cup {inum}
    BY <1>4, <2>1, Zenon
  <2>3. inum \notin Files!FreeInodes
    BY <2>2, FilesAssumptions, Files!FilesAreExact, Zenon DEF FilesInv
  <2>4. removed' = removed \cup {inum}
    BY <1>1, <2>2, <2>3
  <2>5. removed' # {}
    BY <2>4
  <2>6. Called
    BY <1>2, <1>5, <2>5, Zenon DEF Called
  <2>. QED
    BY <1>2, <1>3, <1>4, <1>7, <2>1, <2>2, <2>4, <2>6, FileStep, Zenon
<1>. QED
  BY <1>1, <1>6, <1>7

\* tfs_write: a file that is open stays, and does not get shorter.
LEMMA WriteKeepsFiles ==
  ASSUME FilesInv, NEW h, NEW buf, NEW ret, Writes(h, buf, ret)
  PROVE  /\ FilesInv' /\ Called
         /\ process = "running"
         /\ Files!IInv
         /\ UNCHANGED <<freeinode_ts, Files!dirVars, free_open_file_entries, of_inumber>>
         /\ \A i \in Files!Inodes : i_size'[i] >= i_size[i]
         /\ \A i \in Files!Inodes \ {of_inumber[h]} : i_size'[i] = i_size[i]
         /\ \A g \in Files!Handles \ {h} : of_offset'[g] = of_offset[g]
         /\ Files!Opened(h) /\ of_offset[h] = i_size[of_inumber[h]] =>
                of_offset'[h] = i_size'[of_inumber[h]]
PROOF
<1>1. /\ Files!Write(h, buf, ret) /\ h \in Files!Handles \cup {-1} /\ buf \in MessageBuffers
      /\ ret \in -1 .. Len(buf) /\ removed' = removed
  BY DEF Writes
<1>2. process = "running"
  BY <1>1, Zenon DEF Files!Write
<1>3. Files!IInv
  BY <1>2, Zenon DEF FilesInv, Broken
<1>4. i_size \in [Files!Inodes -> 0 .. BLOCK_SIZE] /\ BLOCK_SIZE \in Nat
  BY <1>3, FilesAssumptions, Zenon DEF Files!IInv, Files!TypeOK, Files!SizeAssumption
<1>. DEFINE Effects ==
              /\ UNCHANGED <<freeinode_ts, Files!dirVars, free_open_file_entries, of_inumber>>
              /\ \A i \in Files!Inodes : i_size'[i] >= i_size[i]
              /\ \A i \in Files!Inodes \ {of_inumber[h]} : i_size'[i] = i_size[i]
              /\ \A g \in Files!Handles \ {h} : of_offset'[g] = of_offset[g]
              /\ Files!Opened(h) /\ of_offset[h] = i_size[of_inumber[h]] =>
                     of_offset'[h] = i_size'[of_inumber[h]]
<1>5. ASSUME Files!Opened(h) PROVE Effects
  <2>1. /\ UNCHANGED <<freeinode_ts, Files!dirVars, free_open_file_entries, of_inumber>>
        /\ \A i \in Files!Inodes \ {of_inumber[h]} : i_size'[i] = i_size[i]
        /\ i_size[of_inumber[h]] <= i_size'[of_inumber[h]]
        /\ \A g \in Files!Handles \ {h} : of_offset'[g] = of_offset[g]
        /\ of_offset[h] = i_size[of_inumber[h]] => of_offset'[h] = i_size'[of_inumber[h]]
    BY <1>1, <1>3, <1>5, FilesAssumptions, Files!WriteEffects DEF MessageBuffers
  <2>2. \A i \in Files!Inodes : i_size'[i] >= i_size[i]
    BY <1>4, <2>1
  <2>. QED
    BY <2>1, <2>2, Zenon
<1>6. ASSUME ~ Files!Opened(h) PROVE Effects
  <2>1. UNCHANGED Files!vars
    BY <1>1, <1>6, Zenon DEF Files!Write
  <2>. QED
    BY <1>4, <1>6, <2>1 DEF Files!vars, Files!inodeVars, Files!dirVars, Files!openVars
<1>7. Effects
  BY <1>5, <1>6
<1>8. Files!Next
  BY <1>1, Zenon DEF Files!Next, MessageBuffers
<1>9. Files!IInv'
  BY <1>3, <1>8, FilesAssumptions, Files!IInvStep, Zenon
<1>10. ASSUME removed' = {} PROVE removed = {} /\ Files!Careful
  <2>1. removed = {} /\ Files!CInv
    BY <1>1, <1>2, <1>10 DEF FilesInv
  <2>2. Files!FreeInodes' = Files!FreeInodes
    BY <1>7 DEF Files!FreeInodes
  <2>. QED
    BY <1>7, <1>9, <2>1, <2>2, StaysCareful
<1>11. Called
  BY <1>2, <1>8, <1>10, Zenon DEF Called
<1>. QED
  BY <1>2, <1>3, <1>7, <1>11, FileStep, Zenon

\* tfs_read.
LEMMA ReadKeepsFiles ==
  ASSUME FilesInv, NEW h, NEW ret, Reads(h, ret)
  PROVE  /\ FilesInv' /\ Called
         /\ process = "running"
         /\ UNCHANGED <<Files!inodeVars, Files!dirVars, free_open_file_entries, of_inumber>>
         /\ \A g \in Files!Handles \ {h} : of_offset'[g] = of_offset[g]
PROOF
<1>1. /\ Files!Read(h, BLOCK_SIZE, ret) /\ h \in Files!Handles \cup {-1}
      /\ ret \in -1 .. BLOCK_SIZE /\ removed' = removed
  BY DEF Reads
<1>2. process = "running"
  BY <1>1, Zenon DEF Files!Read
<1>3. Files!IInv
  BY <1>2, Zenon DEF FilesInv, Broken
<1>4. i_size \in [Files!Inodes -> 0 .. BLOCK_SIZE] /\ BLOCK_SIZE \in Nat
  BY <1>3, FilesAssumptions, Zenon DEF Files!IInv, Files!TypeOK, Files!SizeAssumption
<1>5. /\ UNCHANGED <<Files!inodeVars, Files!dirVars, free_open_file_entries, of_inumber>>
      /\ \A g \in Files!Handles \ {h} : of_offset'[g] = of_offset[g]
  BY <1>1, <1>3, FilesAssumptions, Files!ReadEffects
<1>6. Files!Next
  BY <1>1, Zenon DEF Files!Next
<1>7. Files!IInv'
  BY <1>3, <1>6, FilesAssumptions, Files!IInvStep, Zenon
<1>8. ASSUME removed' = {} PROVE removed = {} /\ Files!Careful
  <2>1. removed = {} /\ Files!CInv
    BY <1>1, <1>2, <1>8 DEF FilesInv
  <2>2. Files!FreeInodes' = Files!FreeInodes /\ i_size' = i_size
    BY <1>5 DEF Files!FreeInodes, Files!inodeVars
  <2>3. \A i \in Files!Inodes : i_size'[i] >= i_size[i]
    BY <1>4, <2>2
  <2>. QED
    BY <1>7, <2>1, <2>2, <2>3, StaysCareful
<1>9. Called
  BY <1>2, <1>6, <1>8, Zenon DEF Called
<1>. QED
  BY <1>2, <1>5, <1>9, FileStep, Zenon

LEMMA TablesKeepFiles ==
  ASSUME FilesInv, UNCHANGED <<tables, removed>>,
         process' = process \/ process' = "killed" \/ process' = "exited"
  PROVE  FilesInv'
PROOF
<1>1. UNCHANGED <<freeinode_ts, i_size, i_data_block, free_blocks, fs_data, d_name, d_inumber,
                  free_open_file_entries, of_inumber, of_offset>>
  BY DEF tables
<1>2. Files!DirectoryExact'
  BY <1>1 DEF FilesInv, Files!DirectoryExact, Files!UsedSlots, Files!FreeSlots, Files!Live
<1>3. CASE process' = process
  <2>1. UNCHANGED Files!vars
    BY <1>1, <1>3 DEF Files!vars, Files!inodeVars, Files!blockVars, Files!dirVars, Files!openVars
  <2>2. process \in Broken => Files!IInv'
    BY <2>1, FilesAssumptions, Files!IInvStep, Zenon DEF FilesInv
  <2>3. removed = {} /\ process = "running" => Files!CInv'
    BY <2>1, FilesAssumptions, Files!CInvStep, Zenon DEF FilesInv
  <2>. QED
    BY <1>2, <1>3, <2>2, <2>3, Zenon DEF FilesInv
<1>4. CASE process' = "killed" \/ process' = "exited"
  <2>1. process' \notin Broken /\ process' # "running"
    BY <1>4, Zenon DEF Broken
  <2>. QED
    BY <1>2, <2>1, Zenon DEF FilesInv
<1>. QED
  BY <1>3, <1>4

\* Every step keeps what is known of TecnicoFS.
LEMMA NextKeepsFiles ==
  ASSUME IInv, Types, FilesInv, [Next]_vars
  PROVE  FilesInv'
PROOF
<1>1. CASE Quiet
  BY <1>1, TablesKeepFiles DEF Quiet, SameFiles, history
<1>2. ASSUME NEW w \in Workers, PublisherOpen(w) \/ SubscriberOpen(w) \/ ManagerCreate(w)
      PROVE  FilesInv'
  <2>1. \E name, ret : \E mode \in OpenModes : Opens(name, mode, ret)
    BY <1>2, OpeningSteps, Zenon DEF PublisherOpens, SubscriberOpens, ManagerCreates, OpenModes
  <2>. QED
    BY <2>1, OpenKeepsFiles
<1>3. ASSUME NEW w \in Workers, ManagerRemove(w) PROVE FilesInv'
  BY <1>3, UnlinkingSteps, UnlinkKeepsFiles DEF ManagerUnlinks
<1>4. ASSUME NEW w \in Workers, PublisherWrite(w) PROVE FilesInv'
  BY <1>4, WritingSteps, WriteKeepsFiles DEF PublisherWrites
<1>5. ASSUME NEW w \in Workers, SubscriberReplay(w) \/ SubscriberRead(w) PROVE FilesInv'
  BY <1>5, ReadingSteps, ReadKeepsFiles DEF SubscriberReads
<1>6. ASSUME NEW w \in Workers, ManagerInsert(w) \/ ManagerDelete(w) PROVE FilesInv'
  BY <1>6, TablesKeepFiles DEF ManagerInsert, ManagerDelete, Delete, otherVars, fsVars, history
<1>. QED
  BY <1>1, <1>2, <1>3, <1>4, <1>5, <1>6, QuietOrLoud DEF Loud

------------------------------------------------------------------------------
(* Handle 0 is taken by the file that is created first. *)

ZeroTaken ==
    (\E a \in Addresses : box_data[a].box_name # NoName) \/ (\E v \in Workers : worker[v].pc = "c_insert")
    => 0 \notin Files!FreeHandles

ZeroInv == ZeroTaken /\ HandleZeroNotRefused

LEMMA ZeroInit ==
  Init => ZeroInv
PROOF
  BY DEF Init, ZeroInv, ZeroTaken, HandleZeroNotRefused, NewBox

\* No handle is ever given back.
LEMMA HandlesStayTaken ==
  ASSUME FilesInv, NEW name, NEW mode \in OpenModes, NEW ret, Opens(name, mode, ret)
  PROVE  /\ Files!FreeHandles' \subseteq Files!FreeHandles
         /\ ret = -1 \/ (ret \in Files!FreeHandles /\ \A h \in Files!FreeHandles : ret <= h)
         /\ ret \notin Files!FreeHandles'
PROOF
<1>1. \/ ret = -1 /\ UNCHANGED Files!openVars
      \/ Files!HandleTaken(name, mode, ret)
  BY OpenKeepsFiles
<1>2. CASE ret = -1 /\ UNCHANGED Files!openVars
  <2>1. ret \notin Files!Handles
    BY <1>2 DEF Files!Handles
  <2>. QED
    BY <1>2, <2>1 DEF Files!openVars, Files!FreeHandles
<1>3. CASE Files!HandleTaken(name, mode, ret)
  BY <1>3 DEF Files!HandleTaken
<1>. QED
  BY <1>1, <1>2, <1>3

LEMMA NextKeepsZero ==
  ASSUME IInv, Types, FilesInv, ZeroInv, [Next]_vars
  PROVE  ZeroInv'
PROOF
<1>1. ASSUME Files!FreeHandles' = Files!FreeHandles, Settled PROVE ZeroInv'
  BY <1>1 DEF ZeroInv, ZeroTaken, HandleZeroNotRefused, Settled, SameBoxes, SameSession, Subscribing, SubscriberPCs
<1>2. CASE Quiet
  BY <1>1, <1>2 DEF Quiet, SameFiles, tables, Files!FreeHandles
<1>3. ASSUME NEW w \in Workers, NEW name, NEW ret, PublisherOpens(w, name, ret) PROVE ZeroInv'
  <2>1. Files!FreeHandles' \subseteq Files!FreeHandles
    BY <1>3, HandlesStayTaken DEF PublisherOpens, OpenModes
  <2>2. /\ worker' = [worker EXCEPT ![w].pc = "p_find", ![w].handle = ret] /\ box_data' = box_data
    BY <1>3 DEF PublisherOpens, boxVars
  <2>3. \A v \in Workers : worker'[v].pc \in {"s_check", "c_insert"} => worker'[v] = worker[v]
    BY <2>2 DEF IInv, Shape, Fields
  <2>. QED
    BY <2>1, <2>2, <2>3 DEF ZeroInv, ZeroTaken, HandleZeroNotRefused
<1>4. ASSUME NEW w \in Workers, NEW name, NEW ret, SubscriberOpens(w, name, ret) PROVE ZeroInv'
  <2>1. /\ Files!FreeHandles' \subseteq Files!FreeHandles
        /\ ret = -1 \/ ret \in Files!FreeHandles
    BY <1>4, HandlesStayTaken DEF SubscriberOpens, OpenModes
  <2>2. /\ worker' = [worker EXCEPT ![w].pc = "s_check", ![w].handle = ret] /\ box_data' = box_data
        /\ worker[w].pc = "s_open"
    BY <1>4 DEF SubscriberOpens, boxVars
  <2>3. /\ \A v \in Workers \ {w} : worker'[v] = worker[v]
        /\ worker'[w].pc = "s_check" /\ worker'[w].handle = ret /\ worker'[w].box = worker[w].box
    BY <2>2 DEF IInv, Shape, Fields
  <2>4. worker[w].box # NULL => 0 \notin Files!FreeHandles
    BY <2>2 DEF IInv, Pointers, Found, Box, ZeroInv, ZeroTaken
  <2>5. worker[w].box # NULL => ret # 0
    BY <2>1, <2>4
  <2>. QED
    BY <2>1, <2>2, <2>3, <2>5 DEF ZeroInv, ZeroTaken, HandleZeroNotRefused
<1>5. ASSUME NEW w \in Workers, NEW name, NEW ret, ManagerCreates(w, name, ret) PROVE ZeroInv'
  <2>1. /\ Files!FreeHandles' \subseteq Files!FreeHandles /\ ret \notin Files!FreeHandles'
        /\ ret = -1 \/ (ret \in Files!FreeHandles /\ \A h \in Files!FreeHandles : ret <= h)
    BY <1>5, HandlesStayTaken DEF ManagerCreates, OpenModes
  <2>2. /\ worker' = [worker EXCEPT ![w].pc = IF ret = -1 THEN "m_respond" ELSE "c_insert"]
        /\ box_data' = box_data
    BY <1>5 DEF ManagerCreates, boxVars
  <2>3. /\ \A v \in Workers \ {w} : worker'[v] = worker[v]
        /\ worker'[w].pc = IF ret = -1 THEN "m_respond" ELSE "c_insert"
    BY <2>2 DEF IInv, Shape, Fields
  <2>4. ret # -1 => 0 \notin Files!FreeHandles'
    <3>1. Files!FreeHandles \subseteq 0 .. MAX_OPEN_FILES - 1 /\ MAX_OPEN_FILES \in Nat
      BY FilesAssumptions DEF Files!FreeHandles, Files!Handles, Files!SizeAssumption
    <3>2. \A h \in Files!FreeHandles : h \in Nat
      BY <3>1
    <3>. QED
      BY <2>1, <3>2
  <2>. QED
    BY <2>1, <2>2, <2>3, <2>4 DEF ZeroInv, ZeroTaken, HandleZeroNotRefused
<1>6. ASSUME NEW w \in Workers, NEW name, NEW ret, ManagerUnlinks(w, name, ret) PROVE ZeroInv'
  <2>1. Files!FreeHandles' = Files!FreeHandles
    BY <1>6, UnlinkKeepsFiles DEF ManagerUnlinks, Files!openVars, Files!FreeHandles
  <2>2. /\ worker' = [worker EXCEPT ![w].pc = IF ret = -1 THEN "m_respond" ELSE "r_delete"]
        /\ box_data' = box_data
    BY <1>6 DEF ManagerUnlinks, boxVars
  <2>3. /\ \A v \in Workers \ {w} : worker'[v] = worker[v]
        /\ worker'[w].pc = "m_respond" \/ worker'[w].pc = "r_delete"
    BY <2>2 DEF IInv, Shape, Fields
  <2>. QED
    BY <2>1, <2>2, <2>3 DEF ZeroInv, ZeroTaken, HandleZeroNotRefused
<1>7. ASSUME NEW w \in Workers, NEW h, NEW buf, NEW ret, PublisherWrites(w, h, buf, ret) PROVE ZeroInv'
  <2>1. Files!FreeHandles' = Files!FreeHandles
    BY <1>7, WriteKeepsFiles DEF PublisherWrites, Files!FreeHandles
  <2>2. /\ worker' = [worker EXCEPT ![w].pc = IF ret < 1 THEN "p_release" ELSE "p_announce"]
        /\ box_data' = box_data
    BY <1>7 DEF PublisherWrites, boxVars
  <2>3. /\ \A v \in Workers \ {w} : worker'[v] = worker[v]
        /\ worker'[w].pc = "p_release" \/ worker'[w].pc = "p_announce"
    BY <2>2 DEF IInv, Shape, Fields
  <2>. QED
    BY <2>1, <2>2, <2>3 DEF ZeroInv, ZeroTaken, HandleZeroNotRefused
<1>8. ASSUME NEW w \in Workers, NEW h, NEW ret, SubscriberReads(w, h, ret) PROVE ZeroInv'
  <2>1. Files!FreeHandles' = Files!FreeHandles
    BY <1>8, ReadKeepsFiles DEF SubscriberReads, Files!FreeHandles
  <2>. QED
    BY <1>1, <1>8, <2>1, MovesSettle DEF SubscriberReads
<1>9. ASSUME NEW w \in Workers, ManagerInsert(w) PROVE ZeroInv'
  <2>1. /\ worker[w].pc = "c_insert" /\ worker' = [worker EXCEPT ![w].pc = "m_respond"]
        /\ UNCHANGED tables
    BY <1>9 DEF ManagerInsert, At, Goto, fsVars
  <2>2. /\ \A v \in Workers \ {w} : worker'[v] = worker[v]
        /\ worker'[w].pc = "m_respond"
    BY <2>1 DEF IInv, Shape, Fields
  <2>3. Files!FreeHandles' = Files!FreeHandles
    BY <2>1 DEF tables, Files!FreeHandles
  <2>. QED
    BY <2>1, <2>2, <2>3 DEF ZeroInv, ZeroTaken, HandleZeroNotRefused
<1>10. ASSUME NEW w \in Workers, ManagerDelete(w) PROVE ZeroInv'
  <2>1. /\ worker' = [worker EXCEPT ![w].pc = "m_respond"]
        /\ box_data' = BoxesWithout(box_list, box_data, worker[w].new_box_name)
        /\ UNCHANGED tables
    BY <1>10 DEF ManagerDelete, Delete, Goto, fsVars
  <2>2. /\ \A v \in Workers \ {w} : worker'[v] = worker[v]
        /\ worker'[w].pc = "m_respond"
    BY <2>1 DEF IInv, Shape, Fields
  <2>3. Files!FreeHandles' = Files!FreeHandles
    BY <2>1 DEF tables, Files!FreeHandles
  <2>4. \A a \in Addresses : box_data'[a].box_name = box_data[a].box_name
    BY <2>1, DeletingKeepsTypes DEF IInv, Types
  <2>. QED
    BY <2>2, <2>3, <2>4 DEF ZeroInv, ZeroTaken, HandleZeroNotRefused
<1>. QED
  BY <1>2, <1>3, <1>4, <1>5, <1>6, <1>7, <1>8, <1>9, <1>10, QuietOrLoud, OpeningSteps, UnlinkingSteps,
     WritingSteps, ReadingSteps DEF Loud

------------------------------------------------------------------------------
(* Induction over the numbers, without an operator as a parameter *)

LEMMA LeastOf ==
  ASSUME NEW S, S \subseteq Nat, S # {}
  PROVE  \E m \in S : \A n \in S : m <= n
PROOF
<1>1. \E m \in S : \A n \in S : ~ (<<n, m>> \in OpToRel(<, Nat))
  BY WFMin, NatLessThanWellFounded, Zenon
<1>2. OpToRel(<, Nat) = {ss \in Nat \X Nat : ss[1] < ss[2]}
  BY Zenon DEF OpToRel
<1>3. \E m \in S : \A n \in S : ~ (<<n, m>> \in {ss \in Nat \X Nat : ss[1] < ss[2]})
  BY <1>1, <1>2, Zenon
<1>4. PICK m \in S : \A n \in S : ~ (<<n, m>> \in {ss \in Nat \X Nat : ss[1] < ss[2]})
  BY <1>3
<1>5. ASSUME NEW n \in S PROVE m <= n
  <2>1. n \in Nat /\ m \in Nat
    OBVIOUS
  <2>2. ~ (n < m)
    BY <1>4, <2>1
  <2>. QED
    BY <2>1, <2>2
<1>. QED
  BY <1>5

\* Induction, for the set of the numbers that have a property.
LEMMA NatSetInduction ==
  ASSUME NEW S, 0 \in S, \A n \in Nat : n \in S => n + 1 \in S
  PROVE  Nat \subseteq S
PROOF
<1>. SUFFICES ASSUME Nat \ S # {} PROVE FALSE
  OBVIOUS
<1>1. PICK m \in Nat \ S : \A n \in Nat \ S : m <= n
  BY LeastOf
<1>2. m # 0 /\ m - 1 \in Nat
  BY <1>1
<1>3. m - 1 \in S
  BY <1>1, <1>2
<1>. QED
  BY <1>1, <1>2, <1>3

------------------------------------------------------------------------------
(* The strings in a buffer *)

Below(S, i) == {j \in S : j < i}

LEMMA BelowGrows ==
  ASSUME NEW S \in SUBSET Nat, IsFiniteSet(S), NEW i \in S
  PROVE  /\ Cardinality(Below(S, i)) \in 0 .. Cardinality(S) - 1
         /\ \A h \in S : h < i => Cardinality(Below(S, h)) < Cardinality(Below(S, i))
PROOF
<1>1. ASSUME NEW T, T \subseteq S, NEW R, R \subseteq T, NEW x \in T \ R
      PROVE  Cardinality(R) \in Nat /\ Cardinality(T) \in Nat /\ Cardinality(R) < Cardinality(T)
  <2>1. IsFiniteSet(T) /\ IsFiniteSet(R)
    BY <1>1, FS_Subset
  <2>2. Cardinality(T) \in Nat /\ Cardinality(R) \in Nat
    BY <2>1, FS_CardinalityType
  <2>3. Cardinality(R) <= Cardinality(T) /\ Cardinality(R) # Cardinality(T)
    BY <1>1, <2>1, FS_Subset
  <2>. QED
    BY <2>2, <2>3
<1>2. Cardinality(Below(S, i)) \in Nat /\ Cardinality(S) \in Nat /\ Cardinality(Below(S, i)) < Cardinality(S)
  <2>1. Below(S, i) \subseteq S /\ i \in S \ Below(S, i)
    BY DEF Below
  <2>. QED
    BY <1>1, <2>1
<1>3. ASSUME NEW h \in S, h < i PROVE Cardinality(Below(S, h)) < Cardinality(Below(S, i))
  <2>0. \A j \in S : j \in Nat
    OBVIOUS
  <2>1. /\ Below(S, i) \subseteq S
        /\ \A j \in S : j < h => j < i
        /\ ~ h < h
    BY <1>3, <2>0 DEF Below
  <2>2. Below(S, h) \subseteq Below(S, i) /\ h \in Below(S, i) \ Below(S, h)
    BY <1>3, <2>1, Zenon DEF Below
  <2>. QED
    BY <1>1, <2>1, <2>2
<1>. QED
  BY <1>2, <1>3

\* Each element of a finite set of numbers has its place in the order.
Ranked(S) ==
    \A k \in 1 .. Cardinality(S) :
        \E i \in S : /\ Cardinality(Below(S, i)) = k - 1
                     /\ \A h \in S : Cardinality(Below(S, h)) = k - 1 => h = i

LEMMA RankedGrows ==
  ASSUME NEW S \in SUBSET Nat, IsFiniteSet(S), Ranked(S),
         NEW x \in Nat, \A i \in S : i < x
  PROVE  /\ Cardinality(S \cup {x}) = Cardinality(S) + 1
         /\ Ranked(S \cup {x})
         /\ Below(S \cup {x}, x) = S
         /\ \A i \in S : Below(S \cup {x}, i) = Below(S, i)
PROOF
<1>1. x \notin S
  OBVIOUS
<1>2. IsFiniteSet(S \cup {x}) /\ Cardinality(S \cup {x}) = Cardinality(S) + 1
  BY <1>1, FS_AddElement
<1>0. ~ x < x /\ \A i \in S : i \in Nat /\ i < x /\ ~ x < i
  OBVIOUS
<1>3. Below(S \cup {x}, x) = S
  <2>1. \A j : j \in S \cup {x} /\ j < x <=> j \in S
    BY <1>0
  <2>. QED
    BY <2>1, Zenon DEF Below
<1>4. \A i \in S : Below(S \cup {x}, i) = Below(S, i)
  BY <1>0 DEF Below
<1>5. Cardinality(S) \in Nat
  BY FS_CardinalityType
<1>6. \A i \in S : Cardinality(Below(S, i)) \in 0 .. Cardinality(S) - 1
  BY BelowGrows
<1>7. ASSUME NEW k \in 1 .. Cardinality(S) + 1
      PROVE  \E i \in S \cup {x} :
                /\ Cardinality(Below(S \cup {x}, i)) = k - 1
                /\ \A h \in S \cup {x} : Cardinality(Below(S \cup {x}, h)) = k - 1 => h = i
  <2>1. CASE k = Cardinality(S) + 1
    <3>1. Cardinality(Below(S \cup {x}, x)) = k - 1
      BY <1>3, <1>5, <2>1
    <3>2. \A h \in S : Cardinality(Below(S \cup {x}, h)) # k - 1
      <4>. SUFFICES ASSUME NEW h \in S PROVE Cardinality(Below(S \cup {x}, h)) # k - 1
        OBVIOUS
      <4>1. Cardinality(Below(S, h)) \in 0 .. Cardinality(S) - 1 /\ k - 1 = Cardinality(S)
        BY <1>5, <1>6, <2>1
      <4>. QED
        BY <1>4, <1>5, <4>1
    <3>. QED
      BY <3>1, <3>2
  <2>2. CASE k \in 1 .. Cardinality(S)
    <3>1. PICK i \in S : /\ Cardinality(Below(S, i)) = k - 1
                         /\ \A h \in S : Cardinality(Below(S, h)) = k - 1 => h = i
      BY <2>2 DEF Ranked
    <3>2. Cardinality(Below(S \cup {x}, x)) # k - 1
      BY <1>3, <1>5, <2>2
    <3>3. i \in S \cup {x} /\ Cardinality(Below(S \cup {x}, i)) = k - 1
      BY <1>4, <3>1
    <3>4. \A h \in S \cup {x} : Cardinality(Below(S \cup {x}, h)) = k - 1 => h = i
      BY <1>4, <3>1, <3>2
    <3>. QED
      BY <3>3, <3>4
  <2>3. k = Cardinality(S) + 1 \/ k \in 1 .. Cardinality(S)
    BY <1>5
  <2>. QED
    BY <2>1, <2>2, <2>3, Zenon
<1>8. Ranked(S \cup {x})
  BY <1>2, <1>7 DEF Ranked
<1>. QED
  BY <1>2, <1>3, <1>4, <1>8

LEMMA NumbersAreRanked ==
  ASSUME NEW n \in Nat, NEW S, S \subseteq 1 .. n
  PROVE  IsFiniteSet(S) /\ Ranked(S)
PROOF
<1>. DEFINE Done == {m \in Nat : \A T \in SUBSET (1 .. m) : Ranked(T)}
<1>1. ASSUME NEW m \in Nat, NEW T \in SUBSET (1 .. m) PROVE IsFiniteSet(T)
  <2>1. IsFiniteSet(1 .. m)
    BY FS_Interval
  <2>. QED
    BY <2>1, FS_Subset
<1>2. 0 \in Done
  <2>1. 1 .. 0 = {}
    OBVIOUS
  <2>2. Ranked({})
    BY FS_EmptySet DEF Ranked
  <2>. QED
    BY <2>1, <2>2
<1>3. ASSUME NEW m \in Nat, m \in Done PROVE m + 1 \in Done
  <2>. SUFFICES ASSUME NEW T \in SUBSET (1 .. m + 1) PROVE Ranked(T)
    OBVIOUS
  <2>1. CASE m + 1 \notin T
    BY <1>3, <2>1
  <2>2. CASE m + 1 \in T
    <3>1. PICK R : R = T \ {m + 1}
      OBVIOUS
    <3>2. R \in SUBSET (1 .. m) /\ T = R \cup {m + 1}
      BY <2>2, <3>1
    <3>3. IsFiniteSet(R) /\ Ranked(R)
      BY <1>1, <1>3, <3>2
    <3>4. R \in SUBSET Nat /\ \A i \in R : i < m + 1
      BY <3>2
    <3>. QED
      BY <3>2, <3>3, <3>4, RankedGrows
  <2>. QED
    BY <2>1, <2>2
<1>. HIDE DEF Done
<1>4. n \in Done
  BY <1>2, <1>3, NatSetInduction
<1>. QED
  BY <1>1, <1>4 DEF Done

\* The element with k - 1 smaller ones.
LEMMA NthIs ==
  ASSUME NEW S, NEW k, NEW i \in S, Cardinality(Below(S, i)) = k - 1,
         \A h \in S : Cardinality(Below(S, h)) = k - 1 => h = i
  PROVE  Nth(S, k) = i
PROOF
  BY DEF Nth, Below

LEMMA NthInSet ==
  ASSUME NEW n \in Nat, NEW S, S \subseteq 1 .. n, NEW k \in 1 .. Cardinality(S)
  PROVE  /\ Nth(S, k) \in S
         /\ Cardinality(Below(S, Nth(S, k))) = k - 1
         /\ \A h \in S : Cardinality(Below(S, h)) = k - 1 => h = Nth(S, k)
PROOF
<1>1. PICK i \in S : /\ Cardinality(Below(S, i)) = k - 1
                     /\ \A h \in S : Cardinality(Below(S, h)) = k - 1 => h = i
  BY NumbersAreRanked DEF Ranked
<1>2. Nth(S, k) = i
  BY <1>1, NthIs
<1>. QED
  BY <1>1, <1>2

\* A greater number comes last and moves no other.
ComesLast(S, x) ==
    /\ Cardinality(S) \in Nat
    /\ Cardinality(S \cup {x}) = Cardinality(S) + 1
    /\ Nth(S \cup {x}, Cardinality(S) + 1) = x
    /\ \A k \in 1 .. Cardinality(S) : Nth(S \cup {x}, k) = Nth(S, k)

LEMMA NthGrows ==
  ASSUME NEW n \in Nat, NEW S, S \subseteq 1 .. n, NEW x \in Nat, x > n
  PROVE  ComesLast(S, x)
PROOF
<1>1. S \in SUBSET Nat /\ IsFiniteSet(S) /\ Ranked(S) /\ \A i \in S : i < x
  <2>1. \A i \in S : i \in Nat /\ i < x
    OBVIOUS
  <2>. QED
    BY <2>1, NumbersAreRanked
<1>2. /\ Cardinality(S \cup {x}) = Cardinality(S) + 1
      /\ Below(S \cup {x}, x) = S
      /\ \A i \in S : Below(S \cup {x}, i) = Below(S, i)
  BY <1>1, RankedGrows
<1>3. Cardinality(S) \in Nat
  BY <1>1, FS_CardinalityType
<1>4. \A i \in S : Cardinality(Below(S, i)) \in 0 .. Cardinality(S) - 1
  BY <1>1, BelowGrows
<1>5. Nth(S \cup {x}, Cardinality(S) + 1) = x
  <2>1. PICK T : T = S \cup {x}
    OBVIOUS
  <2>2. PICK k : k = Cardinality(S) + 1
    OBVIOUS
  <2>3. k - 1 = Cardinality(S)
    BY <1>3, <2>2
  <2>4. x \in T /\ Cardinality(Below(T, x)) = k - 1
    BY <1>2, <2>1, <2>3
  <2>5. ASSUME NEW h \in T, Cardinality(Below(T, h)) = k - 1 PROVE h = x
    BY <1>2, <1>3, <1>4, <2>1, <2>3, <2>5
  <2>6. Nth(T, k) = x
    BY <2>4, <2>5, NthIs
  <2>. QED
    BY <2>1, <2>2, <2>6
<1>6. ASSUME NEW k \in 1 .. Cardinality(S) PROVE Nth(S \cup {x}, k) = Nth(S, k)
  <2>1. PICK i : i = Nth(S, k)
    OBVIOUS
  <2>2. /\ i \in S /\ Cardinality(Below(S, i)) = k - 1
        /\ \A h \in S : Cardinality(Below(S, h)) = k - 1 => h = i
    BY <2>1, NthInSet
  <2>3. i \in S \cup {x} /\ Cardinality(Below(S \cup {x}, i)) = k - 1
    BY <1>2, <2>2
  <2>4. \A h \in S \cup {x} : Cardinality(Below(S \cup {x}, h)) = k - 1 => h = i
    BY <1>2, <1>3, <2>2
  <2>. QED
    BY <2>1, <2>3, <2>4, NthIs
<1>. QED
  BY <1>2, <1>3, <1>5, <1>6 DEF ComesLast

\* A string goes on to the first NUL.
LEMMA StringIs ==
  ASSUME NEW S, NEW memory \in Seq(S), NEW i \in 1 .. Len(memory), NEW e \in i .. Len(memory),
         memory[e] = NUL, \A j \in i .. e - 1 : memory[j] # NUL
  PROVE  StringAt(memory, i) = SubSeq(memory, i, e - 1)
PROOF
<1>. DEFINE ends == {k \in i .. Len(memory) : memory[k] = NUL}
<1>1. e \in ends
  OBVIOUS
<1>2. \A j \in ends : e <= j
  OBVIOUS
<1>3. \A k \in ends : (\A j \in ends : k <= j) => k = e
  BY <1>1, <1>2
<1>4. (CHOOSE k \in ends : \A j \in ends : k <= j) = e
  <2>. HIDE DEF ends
  <2>. QED
    BY <1>1, <1>2, <1>3
<1>5. ends # {}
  BY <1>1
<1>. QED
  BY <1>4, <1>5 DEF StringAt

\* The strings of a buffer that ends with a string's NUL.
Ended(c) == Len(c) > 0 => c[Len(c)] = NUL

Starts(c) == {i \in 1 .. Len(c) : i = 1 \/ c[i - 1] = NUL}

Text(c) == [k \in 1 .. Cardinality(Starts(c)) |-> StringAt(c, Nth(Starts(c), k))]

\* d goes on where c ends.
Continues(d, c) == Len(d) >= Len(c) /\ \A i \in 1 .. Len(c) : d[i] = c[i]

LEMMA StringEnds ==
  ASSUME NEW S, NEW c \in Seq(S), Ended(c), NEW i \in 1 .. Len(c)
  PROVE  \E e \in i .. Len(c) : c[e] = NUL /\ \A j \in i .. e - 1 : c[j] # NUL
PROOF
<1>. DEFINE ends == {k \in i .. Len(c) : c[k] = NUL}
<1>1. Len(c) \in ends
  BY DEF Ended
<1>2. ends \subseteq Nat /\ ends # {}
  BY <1>1
<1>3. PICK e \in ends : \A k \in ends : e <= k
  <2>. HIDE DEF ends
  <2>. QED
    BY <1>2, LeastOf
<1>4. e \in i .. Len(c) /\ c[e] = NUL
  OBVIOUS
<1>5. ASSUME NEW j \in i .. e - 1 PROVE c[j] # NUL
  BY <1>3, <1>4
<1>. QED
  BY <1>4, <1>5

LEMMA SamePart ==
  ASSUME NEW S, NEW c \in Seq(S), NEW d \in Seq(S), Continues(d, c),
         NEW i \in 1 .. Len(c), NEW e \in i .. Len(c)
  PROVE  SubSeq(d, i, e - 1) = SubSeq(c, i, e - 1)
PROOF
<1>1. \A j \in i .. e - 1 : d[j] = c[j] /\ d[j] \in S /\ c[j] \in S
  BY DEF Continues
<1>2. i \in Int /\ e - 1 \in Int
  OBVIOUS
<1>3. PICK s, t : s = SubSeq(d, i, e - 1) /\ t = SubSeq(c, i, e - 1)
  OBVIOUS
<1>4. /\ s \in Seq(S) /\ Len(s) = (IF i <= e - 1 THEN e - 1 - i + 1 ELSE 0)
      /\ \A j \in 1 .. e - 1 - i + 1 : s[j] = d[i + j - 1]
  <2>1. \A j \in i .. e - 1 : d[j] \in S
    BY <1>1
  <2>. QED
    BY <1>2, <1>3, <2>1, SubSeqProperties
<1>5. /\ t \in Seq(S) /\ Len(t) = (IF i <= e - 1 THEN e - 1 - i + 1 ELSE 0)
      /\ \A j \in 1 .. e - 1 - i + 1 : t[j] = c[i + j - 1]
  <2>1. \A j \in i .. e - 1 : c[j] \in S
    BY <1>1
  <2>. QED
    BY <1>2, <1>3, <2>1, SubSeqProperties
<1>6. \A j \in 1 .. Len(s) : s[j] = t[j]
  <2>. SUFFICES ASSUME NEW j \in 1 .. Len(s) PROVE s[j] = t[j]
    OBVIOUS
  <2>1. j \in 1 .. e - 1 - i + 1
    BY <1>4
  <2>2. i + j - 1 \in i .. e - 1
    BY <2>1
  <2>. QED
    BY <1>1, <1>4, <1>5, <2>1, <2>2
<1>7. s = t
  BY <1>4, <1>5, <1>6, SeqEqual
<1>. QED
  BY <1>3, <1>7

LEMMA SameString ==
  ASSUME NEW S, NEW c \in Seq(S), NEW d \in Seq(S), Ended(c), Continues(d, c), NEW i \in 1 .. Len(c)
  PROVE  StringAt(d, i) = StringAt(c, i)
PROOF
<1>1. PICK e \in i .. Len(c) : c[e] = NUL /\ \A j \in i .. e - 1 : c[j] # NUL
  BY StringEnds
<1>2. StringAt(c, i) = SubSeq(c, i, e - 1)
  BY <1>1, StringIs
<1>3. /\ i \in 1 .. Len(d) /\ e \in i .. Len(d)
      /\ d[e] = NUL /\ \A j \in i .. e - 1 : d[j] # NUL
  BY <1>1 DEF Continues
<1>4. StringAt(d, i) = SubSeq(d, i, e - 1)
  BY <1>3, StringIs
<1>. QED
  BY <1>2, <1>4, SamePart

\* A string of a buffer that has room for all of them is not cut off.
LEMMA WholeString ==
  ASSUME NEW S, NEW c \in Seq(S), NEW d \in Seq(S), Ended(c), Continues(d, c), NEW i \in 1 .. Len(c),
         NEW n \in Nat, Len(c) <= n
  PROVE  FirstString(d, i, n) = StringAt(c, i)
PROOF
<1>1. PICK e \in i .. Len(c) : c[e] = NUL /\ \A j \in i .. e - 1 : c[j] # NUL
  BY StringEnds
<1>2. StringAt(c, i) = SubSeq(c, i, e - 1)
  BY <1>1, StringIs
<1>3. Len(SubSeq(c, i, e - 1)) <= n
  BY <1>1, SubSeqProperties
<1>4. StringAt(d, i) = StringAt(c, i)
  BY SameString
<1>5. Len(StringAt(d, i)) \in Nat /\ ~ (Len(StringAt(d, i)) > n)
  BY <1>1, <1>2, <1>3, <1>4, SubSeqProperties
<1>. QED
  BY <1>4, <1>5 DEF FirstString

\* The buffer holds the strings up to the end of what was read into it, when NUL
\* follows and no string is empty.
LEMMA TextOfMemory ==
  ASSUME NEW S, NEW c \in Seq(S), NEW memory \in Seq(S), Ended(c), ~ HasEmptyString(c),
         Len(c) < BLOCK_SIZE, Len(memory) > BLOCK_SIZE,
         Continues(memory, c), memory[Len(c) + 1] = NUL
  PROVE  Strings(memory) = Text(c)
PROOF
<1>. DEFINE fills == \A i \in 1 .. BLOCK_SIZE - 1 : memory[i] # NUL
            starts == {i \in 1 .. BLOCK_SIZE + 1 :
                         i = 1 \/ memory[i - 1] = NUL \/ (fills /\ i = BLOCK_SIZE + 1)}
            taken == {i \in starts : \A j \in starts : j <= i => memory[j] # NUL}
<1>0. BLOCK_SIZE \in Nat \ {0} /\ Len(c) \in Nat
  BY FileSystemAssumption DEF FS!SizeAssumption
<1>1. Len(c) + 1 \in starts
  BY <1>0 DEF Ended, Continues
<1>2. \A i \in taken : i <= Len(c)
  BY <1>0, <1>1
<1>3. \A i \in 1 .. Len(c) : i \in starts <=> i \in Starts(c)
  BY <1>0 DEF Starts, Continues
<1>4. \A i \in Starts(c) : i \in 1 .. Len(c) /\ memory[i] # NUL
  <2>1. DOMAIN c = 1 .. Len(c)
    OBVIOUS
  <2>. QED
    BY <2>1 DEF Starts, HasEmptyString, Continues
<1>5. ASSUME NEW i \in Starts(c) PROVE i \in taken
  <2>1. i \in 1 .. Len(c) /\ i \in starts
    BY <1>3, <1>4
  <2>2. ASSUME NEW j \in starts, j <= i PROVE memory[j] # NUL
    <3>1. j \in 1 .. Len(c)
      BY <1>0, <2>1, <2>2
    <3>. QED
      BY <1>3, <1>4, <3>1
  <2>. QED
    BY <2>1, <2>2
<1>6. taken = Starts(c)
  <2>1. ASSUME NEW i \in taken PROVE i \in Starts(c)
    <3>1. i \in starts /\ i \in 1 .. Len(c)
      BY <1>0, <1>2
    <3>. QED
      BY <1>3, <3>1
  <2>. QED
    BY <1>5, <2>1
<1>7. Strings(memory) = [k \in 1 .. Cardinality(taken) |->
                             FirstString(memory, Nth(taken, k), BLOCK_SIZE - 1)]
  BY Zenon DEF Strings
<1>. HIDE DEF taken, starts, fills
<1>8. ASSUME NEW k \in 1 .. Cardinality(Starts(c))
      PROVE  FirstString(memory, Nth(Starts(c), k), BLOCK_SIZE - 1) = StringAt(c, Nth(Starts(c), k))
  <2>1. PICK i : i = Nth(Starts(c), k)
    OBVIOUS
  <2>2. Starts(c) \subseteq 1 .. Len(c)
    BY DEF Starts
  <2>3. i \in 1 .. Len(c)
    BY <1>0, <2>1, <2>2, NthInSet
  <2>. QED
    BY <1>0, <2>1, <2>3, WholeString
<1>. QED
  BY <1>6, <1>7, <1>8 DEF Text

\* A message with its NUL behind the others.
Adds(d, c, m) ==
    /\ Len(d) = Len(c) + Len(m) + 1
    /\ Continues(d, c)
    /\ \A j \in 1 .. Len(m) : d[Len(c) + j] = m[j]
    /\ d[Len(c) + Len(m) + 1] = NUL

LEMMA TextGrows ==
  ASSUME NEW S, NEW c \in Seq(S), NEW d \in Seq(S), NEW m \in Seq(S), Ended(c), Adds(d, c, m),
         m # << >>, \A j \in 1 .. Len(m) : m[j] # NUL
  PROVE  Text(d) = Append(Text(c), m) /\ Ended(d)
PROOF
<1>0. /\ Len(c) \in Nat /\ Len(m) \in Nat \ {0} /\ Len(d) = Len(c) + Len(m) + 1
      /\ Continues(d, c)
  BY DEF Adds
<1>1. Starts(c) \subseteq 1 .. Len(c)
  BY DEF Starts
<1>2. Starts(d) = Starts(c) \cup {Len(c) + 1}
  <2>1. ASSUME NEW i \in 1 .. Len(d) PROVE i \in Starts(d) <=> i \in Starts(c) \/ i = Len(c) + 1
    <3>1. CASE i <= Len(c)
      BY <1>0, <3>1 DEF Starts, Continues
    <3>2. CASE i = Len(c) + 1
      BY <1>0, <3>2 DEF Starts, Continues, Ended
    <3>3. CASE i > Len(c) + 1
      <4>1. PICK j \in 1 .. Len(m) : i - 1 = Len(c) + j
        <5>1. i - 1 - Len(c) \in 1 .. Len(m) /\ i - 1 = Len(c) + (i - 1 - Len(c))
          BY <1>0, <3>3
        <5>. QED
          BY <5>1
      <4>2. d[i - 1] # NUL
        BY <4>1 DEF Adds
      <4>. QED
        BY <1>0, <1>1, <3>3, <4>2 DEF Starts
    <3>. QED
      BY <1>0, <3>1, <3>2, <3>3
  <2>2. Starts(d) \subseteq 1 .. Len(d) /\ Starts(c) \cup {Len(c) + 1} \subseteq 1 .. Len(d)
    BY <1>0, <1>1 DEF Starts
  <2>. QED
    BY <2>1, <2>2
<1>3. PICK n : n = Cardinality(Starts(c))
  OBVIOUS
<1>4. /\ n \in Nat /\ Cardinality(Starts(d)) = n + 1
      /\ Nth(Starts(d), n + 1) = Len(c) + 1
      /\ \A k \in 1 .. n : Nth(Starts(d), k) = Nth(Starts(c), k)
  <2>1. PICK l, x, T : l = Len(c) /\ x = Len(c) + 1 /\ T = Starts(c)
    OBVIOUS
  <2>2. l \in Nat /\ x \in Nat /\ x > l /\ T \subseteq 1 .. l
    BY <1>0, <1>1, <2>1
  <2>3. ComesLast(T, x)
    BY <2>2, NthGrows
  <2>4. Starts(d) = T \cup {x} /\ n = Cardinality(T)
    BY <1>2, <1>3, <2>1
  <2>. QED
    BY <2>1, <2>3, <2>4 DEF ComesLast
<1>5. StringAt(d, Len(c) + 1) = m
  <2>1. PICK i, e : i = Len(c) + 1 /\ e = Len(c) + Len(m) + 1
    OBVIOUS
  <2>2. i \in 1 .. Len(d) /\ e \in i .. Len(d) /\ e - 1 - i + 1 = Len(m)
    BY <1>0, <2>1
  <2>3. \A j \in 1 .. Len(m) : d[i + j - 1] = m[j]
    <3>. SUFFICES ASSUME NEW j \in 1 .. Len(m) PROVE d[i + j - 1] = m[j]
      OBVIOUS
    <3>1. i + j - 1 = Len(c) + j
      BY <1>0, <2>1
    <3>. QED
      BY <3>1 DEF Adds
  <2>4. \A j \in i .. e - 1 : d[j] # NUL
    <3>. SUFFICES ASSUME NEW j \in i .. e - 1 PROVE d[j] # NUL
      OBVIOUS
    <3>1. j - Len(c) \in 1 .. Len(m) /\ i + (j - Len(c)) - 1 = j
      BY <1>0, <2>1
    <3>. QED
      BY <2>3, <3>1
  <2>5. d[e] = NUL
    BY <2>1 DEF Adds
  <2>6. StringAt(d, i) = SubSeq(d, i, e - 1)
    BY <2>2, <2>4, <2>5, StringIs
  <2>7. PICK s : s = SubSeq(d, i, e - 1)
    OBVIOUS
  <2>8. s \in Seq(S) /\ Len(s) = Len(m) /\ \A j \in 1 .. Len(m) : s[j] = d[i + j - 1]
    <3>1. i \in Int /\ e - 1 \in Int /\ \A j \in i .. e - 1 : d[j] \in S
      BY <1>0, <2>2
    <3>2. /\ s \in Seq(S) /\ Len(s) = (IF i <= e - 1 THEN e - 1 - i + 1 ELSE 0)
          /\ \A j \in 1 .. e - 1 - i + 1 : s[j] = d[i + j - 1]
      BY <2>7, <3>1, SubSeqProperties
    <3>3. i <= e - 1
      BY <1>0, <2>1
    <3>. QED
      BY <2>2, <3>2, <3>3
  <2>9. s = m
    BY <2>3, <2>8, SeqEqual
  <2>. QED
    BY <2>1, <2>6, <2>7, <2>9
<1>6. ASSUME NEW k \in 1 .. n
      PROVE  StringAt(d, Nth(Starts(d), k)) = StringAt(c, Nth(Starts(c), k))
  <2>1. PICK i : i = Nth(Starts(c), k)
    OBVIOUS
  <2>2. i \in 1 .. Len(c)
    BY <1>0, <1>1, <1>3, <2>1, NthInSet
  <2>. QED
    BY <1>0, <1>4, <2>1, <2>2, SameString
<1>7. Text(d) = [k \in 1 .. n + 1 |-> IF k <= n THEN Text(c)[k] ELSE m]
  <2>1. ASSUME NEW k \in 1 .. n + 1
        PROVE  StringAt(d, Nth(Starts(d), k)) = IF k <= n THEN Text(c)[k] ELSE m
    <3>1. CASE k <= n
      BY <1>3, <1>4, <1>6, <3>1 DEF Text
    <3>2. CASE k = n + 1
      BY <1>4, <1>5, <3>2
    <3>. QED
      BY <1>4, <3>1, <3>2
  <2>. QED
    BY <1>4, <2>1 DEF Text
<1>8. Append(Text(c), m) = [k \in 1 .. n + 1 |-> IF k <= n THEN Text(c)[k] ELSE m]
  <2>1. PICK t : t = Text(c)
    OBVIOUS
  <2>2. PICK T : T = {t[k] : k \in 1 .. n} \cup {m}
    OBVIOUS
  <2>3. t = [k \in 1 .. n |-> t[k]]
    BY <1>3, <2>1 DEF Text
  <2>4. \A k \in 1 .. n : t[k] \in T
    BY <2>2
  <2>5. t \in Seq(T) /\ Len(t) = n /\ m \in T
    <3>1. n \in Nat /\ m \in T
      BY <1>4, <2>2
    <3>2. t \in Seq(T) /\ Len(t) = n
      BY <2>3, <2>4, <3>1, FilesAssumptions, Files!FunctionSeq, Zenon
    <3>. QED
      BY <3>1, <3>2
  <2>6. PICK u : u = Append(t, m)
    OBVIOUS
  <2>7. u \in Seq(T) /\ Len(u) = n + 1 /\ (\A k \in 1 .. n : u[k] = t[k]) /\ u[n + 1] = m
    BY <2>5, <2>6, AppendProperties
  <2>8. u = [k \in 1 .. n + 1 |-> u[k]]
    BY <2>7
  <2>9. \A k \in 1 .. n + 1 : u[k] = IF k <= n THEN t[k] ELSE m
    BY <1>4, <2>7
  <2>. QED
    BY <2>1, <2>6, <2>8, <2>9
<1>9. Ended(d)
  BY <1>0 DEF Ended, Adds
<1>. QED
  BY <1>7, <1>8, <1>9

------------------------------------------------------------------------------
(* Recursive functions: a step that needs the values for smaller arguments  *)
(* only defines a function.                                                 *)

\* Functions that satisfy the recursion for all arguments smaller than n.
Solutions(D, V, size, step, n) ==
    {g \in [D -> V] : \A p \in D : size[p] < n => g[p] = step[<<g, p>>]}

\* The value of step for p depends on values for smaller arguments only.
Descends(D, V, size, step) ==
    /\ size \in [D -> Nat] /\ step \in [[D -> V] \X D -> V]
    /\ \A g, h \in [D -> V], p \in D :
          (\A q \in D : size[q] < size[p] => g[q] = h[q]) => step[<<g, p>>] = step[<<h, p>>]

LEMMA SolutionsAgree ==
  ASSUME NEW D, NEW V, NEW size, NEW step, Descends(D, V, size, step), NEW n \in Nat,
         NEW g \in Solutions(D, V, size, step, n), NEW h \in Solutions(D, V, size, step, n)
  PROVE  \A p \in D : size[p] < n => g[p] = h[p]
PROOF
<1>. DEFINE Agree == {k \in Nat : k <= n => \A p \in D : size[p] < k => g[p] = h[p]}
<1>0. size \in [D -> Nat] /\ g \in [D -> V] /\ h \in [D -> V]
  BY DEF Descends, Solutions
<1>1. 0 \in Agree
  BY <1>0
<1>2. ASSUME NEW k \in Nat, k \in Agree PROVE k + 1 \in Agree
  <2>. SUFFICES ASSUME k + 1 <= n, NEW p \in D, size[p] < k + 1 PROVE g[p] = h[p]
    OBVIOUS
  <2>1. size[p] \in Nat /\ size[p] <= k
    BY <1>0
  <2>2. \A q \in D : size[q] < size[p] => g[q] = h[q]
    BY <1>0, <1>2, <2>1
  <2>3. step[<<g, p>>] = step[<<h, p>>]
    BY <1>0, <2>2 DEF Descends
  <2>4. g[p] = step[<<g, p>>] /\ h[p] = step[<<h, p>>]
    BY <2>1 DEF Solutions
  <2>. QED
    BY <2>3, <2>4
<1>. HIDE DEF Agree
<1>3. n \in Agree
  BY <1>1, <1>2, NatSetInduction
<1>. QED
  BY <1>3 DEF Agree

LEMMA SolutionsExist ==
  ASSUME NEW D, NEW V, NEW size, NEW step, Descends(D, V, size, step), [D -> V] # {}
  PROVE  \A n \in Nat : Solutions(D, V, size, step, n) # {}
PROOF
<1>. DEFINE Solved == {k \in Nat : Solutions(D, V, size, step, k) # {}}
<1>0. size \in [D -> Nat] /\ step \in [[D -> V] \X D -> V]
  BY DEF Descends
<1>1. 0 \in Solved
  <2>1. PICK g \in [D -> V] : TRUE
    OBVIOUS
  <2>2. g \in Solutions(D, V, size, step, 0)
    BY <1>0 DEF Solutions
  <2>. QED
    BY <2>2
<1>2. ASSUME NEW k \in Nat, k \in Solved PROVE k + 1 \in Solved
  <2>1. PICK g \in Solutions(D, V, size, step, k) : TRUE
    BY <1>2
  <2>2. g \in [D -> V] /\ \A p \in D : size[p] < k => g[p] = step[<<g, p>>]
    BY DEF Solutions
  <2>. DEFINE h == [p \in D |-> step[<<g, p>>]]
  <2>3. h \in [D -> V]
    BY <1>0, <2>2
  <2>4. ASSUME NEW p \in D, size[p] < k + 1 PROVE h[p] = step[<<h, p>>]
    <3>1. \A q \in D : size[q] < size[p] => g[q] = h[q]
      BY <1>0, <2>2, <2>4
    <3>2. h[p] = step[<<g, p>>]
      OBVIOUS
    <3>. HIDE DEF h
    <3>3. step[<<g, p>>] = step[<<h, p>>]
      BY <2>2, <2>3, <3>1 DEF Descends
    <3>. QED
      BY <3>2, <3>3
  <2>. HIDE DEF h
  <2>5. h \in Solutions(D, V, size, step, k + 1)
    BY <2>3, <2>4 DEF Solutions
  <2>. QED
    BY <2>5
<1>. HIDE DEF Solved
<1>3. Nat \subseteq Solved
  BY <1>1, <1>2, NatSetInduction
<1>. QED
  BY <1>3 DEF Solved

LEMMA RecursionExists ==
  ASSUME NEW D, NEW V, NEW size, NEW step, Descends(D, V, size, step), [D -> V] # {}
  PROVE  \E f \in [D -> V] : \A p \in D : f[p] = step[<<f, p>>]
PROOF
<1>. DEFINE S(n) == Solutions(D, V, size, step, n)
            G(n) == CHOOSE g : g \in S(n)
            f == [p \in D |-> G(size[p] + 1)[p]]
<1>0. size \in [D -> Nat]
  BY DEF Descends
<1>1. ASSUME NEW n \in Nat PROVE G(n) \in S(n)
  BY SolutionsExist
<1>2. ASSUME NEW m \in Nat, NEW n \in Nat, n <= m, NEW g \in S(m) PROVE g \in S(n)
  BY <1>0, <1>2 DEF Solutions
<1>. HIDE DEF G
<1>3. ASSUME NEW p \in D PROVE G(size[p] + 1) \in [D -> V]
  <2>1. size[p] + 1 \in Nat
    BY <1>0
  <2>. QED
    BY <1>1, <2>1 DEF Solutions
<1>4. f \in [D -> V]
  BY <1>3
<1>5. ASSUME NEW p \in D PROVE f[p] = step[<<f, p>>]
  <2>1. PICK n \in Nat : n = size[p] + 1
    BY <1>0
  <2>2. ASSUME NEW q \in D, size[q] < size[p] PROVE f[q] = G(n)[q]
    <3>1. PICK m \in Nat : m = size[q] + 1
      BY <1>0
    <3>2. m <= n
      BY <1>0, <2>1, <2>2, <3>1
    <3>3. G(n) \in S(m)
      BY <1>1, <1>2, <3>2
    <3>4. G(m) \in S(m)
      BY <1>1
    <3>. HIDE DEF S
    <3>5. G(m)[q] = G(n)[q]
      <4>1. size[q] < m
        BY <1>0, <3>1
      <4>. QED
        BY <3>3, <3>4, <4>1, SolutionsAgree DEF S
    <3>. QED
      BY <3>1, <3>5
  <2>3. G(n) \in [D -> V] /\ G(n)[p] = step[<<G(n), p>>]
    <3>1. G(n) \in S(n)
      BY <1>1
    <3>. QED
      BY <1>0, <2>1, <3>1 DEF Solutions
  <2>4. f[p] = G(n)[p]
    BY <2>1
  <2>. HIDE DEF f
  <2>5. step[<<f, p>>] = step[<<G(n), p>>]
    <3>1. \A q \in D : size[q] < size[p] => f[q] = G(n)[q]
      BY <2>2
    <3>. QED
      BY <1>4, <2>3, <3>1 DEF Descends
  <2>. QED
    BY <2>3, <2>4, <2>5
<1>. HIDE DEF f
<1>. QED
  BY <1>4, <1>5

------------------------------------------------------------------------------
(* merge and merge_sort, by what their recursive definitions say: merge is  *)
(* Merging(merge, _), and merge_sort is Sorting(merge_sort, _).             *)

Merging(g, sides) ==
    IF sides[1] = << >> THEN sides[2]
    ELSE IF sides[2] = << >> THEN sides[1]
    ELSE IF Head(sides[1]).box_name < Head(sides[2]).box_name
           THEN <<Head(sides[1])>> \o g[<<Tail(sides[1]), sides[2]>>]
           ELSE <<Head(sides[2])>> \o g[<<sides[1], Tail(sides[2])>>]

Half(list) == (Len(list) + 1) \div 2

Sorting(g, list) ==
    IF Len(list) < 2 THEN list
    ELSE merge[<<g[SubSeq(list, 1, Half(list))],
                 g[SubSeq(list, Half(list) + 1, Len(list))]>>]

LEMMA TailIsShorter ==
  ASSUME NEW list \in Listing, list # << >>
  PROVE  /\ Head(list) \in Response /\ Tail(list) \in Listing
         /\ Len(list) \in Nat /\ Len(list) > 0 /\ Len(Tail(list)) = Len(list) - 1
         /\ list = <<Head(list)>> \o Tail(list)
PROOF
<1>. HIDE DEF Response
<1>1. list \in Seq(Response)
  BY DEF Listing
<1>2. Head(list) \in Response /\ Tail(list) \in Seq(Response) /\ Len(Tail(list)) = Len(list) - 1
  BY <1>1
<1>3. Len(list) \in Nat /\ Len(list) > 0
  BY <1>1
<1>4. list = <<Head(list)>> \o Tail(list)
  BY <1>1
<1>. QED
  BY <1>2, <1>3, <1>4 DEF Listing

LEMMA MergeRecursion ==
  ASSUME NEW left \in Listing, NEW right \in Listing
  PROVE  merge[<<left, right>>] = Merging(merge, <<left, right>>)
PROOF
<1>. DEFINE D == Listing \X Listing
            size == [p \in D |-> Len(p[1]) + Len(p[2])]
            step == [gp \in [D -> Listing] \X D |-> Merging(gp[1], gp[2])]
            Is(g) == g = [p \in D |-> Merging(g, p)]
<1>1. merge = CHOOSE g : Is(g)
  BY DEF merge, Merging
<1>2. ASSUME NEW p \in D PROVE Len(p[1]) \in Nat /\ Len(p[2]) \in Nat /\ size[p] = Len(p[1]) + Len(p[2])
  <2>1. p[1] \in Listing /\ p[2] \in Listing
    OBVIOUS
  <2>2. \A l \in Listing : Len(l) \in Nat
    BY DEF Listing
  <2>. QED
    BY <2>1, <2>2
<1>3. size \in [D -> Nat]
  <2>1. \A p \in D : Len(p[1]) + Len(p[2]) \in Nat
    BY <1>2
  <2>. HIDE DEF D
  <2>. QED
    BY <2>1
<1>4. ASSUME NEW g \in [D -> Listing], NEW p \in D
      PROVE  Merging(g, p) \in Listing
  <2>1. p[1] \in Listing /\ p[2] \in Listing
    OBVIOUS
  <2>2. ASSUME NEW x \in Response, NEW l \in Listing PROVE <<x>> \o l \in Listing
    BY DEF Listing
  <2>3. CASE p[1] # << >> /\ p[2] # << >>
    <3>1. Tail(p[1]) \in Listing /\ Tail(p[2]) \in Listing /\ Head(p[1]) \in Response /\ Head(p[2]) \in Response
      BY <2>1, <2>3, TailIsShorter
    <3>2. g[<<Tail(p[1]), p[2]>>] \in Listing /\ g[<<p[1], Tail(p[2])>>] \in Listing
      BY <2>1, <3>1
    <3>. QED
      BY <2>2, <3>1, <3>2 DEF Merging
  <2>4. CASE ~ (p[1] # << >> /\ p[2] # << >>)
    BY <2>1, <2>4 DEF Merging
  <2>. QED
    BY <2>3, <2>4
<1>5. step \in [[D -> Listing] \X D -> Listing]
  BY <1>4
<1>6. ASSUME NEW g \in [D -> Listing], NEW h \in [D -> Listing], NEW p \in D,
             \A q \in D : size[q] < size[p] => g[q] = h[q]
      PROVE  step[<<g, p>>] = step[<<h, p>>]
  <2>1. p[1] \in Listing /\ p[2] \in Listing
    OBVIOUS
  <2>2. CASE p[1] # << >> /\ p[2] # << >>
    <3>1. /\ Tail(p[1]) \in Listing /\ Tail(p[2]) \in Listing
          /\ Len(Tail(p[1])) = Len(p[1]) - 1 /\ Len(Tail(p[2])) = Len(p[2]) - 1
      BY <2>1, <2>2, TailIsShorter
    <3>2. <<Tail(p[1]), p[2]>> \in D /\ <<p[1], Tail(p[2])>> \in D
      BY <2>1, <3>1
    <3>3. size[<<Tail(p[1]), p[2]>>] < size[p] /\ size[<<p[1], Tail(p[2])>>] < size[p]
      <4>1. /\ size[<<Tail(p[1]), p[2]>>] = Len(Tail(p[1])) + Len(p[2])
            /\ size[<<p[1], Tail(p[2])>>] = Len(p[1]) + Len(Tail(p[2]))
        BY <3>2
      <4>2. Len(p[1]) \in Nat /\ Len(p[2]) \in Nat /\ size[p] = Len(p[1]) + Len(p[2])
        BY <1>2
      <4>3. PICK m \in Nat, n \in Nat : m = Len(p[1]) /\ n = Len(p[2])
        BY <4>2
      <4>4. /\ size[p] = m + n
            /\ size[<<Tail(p[1]), p[2]>>] = m - 1 + n
            /\ size[<<p[1], Tail(p[2])>>] = m + (n - 1)
        BY <3>1, <4>1, <4>2, <4>3, Zenon
      <4>. HIDE DEF size, D
      <4>. QED
        BY <4>4
    <3>4. /\ g[<<Tail(p[1]), p[2]>>] = h[<<Tail(p[1]), p[2]>>]
          /\ g[<<p[1], Tail(p[2])>>] = h[<<p[1], Tail(p[2])>>]
      BY <1>6, <3>2, <3>3
    <3>5. Merging(g, p) = Merging(h, p)
      BY <3>4 DEF Merging
    <3>. QED
      BY <3>5
  <2>3. CASE ~ (p[1] # << >> /\ p[2] # << >>)
    <3>1. Merging(g, p) = Merging(h, p)
      BY <2>3 DEF Merging
    <3>. QED
      BY <3>1
  <2>. QED
    BY <2>2, <2>3
<1>7. [D -> Listing] # {}
  <2>1. << >> \in Listing
    BY DEF Listing
  <2>2. [p \in D |-> << >>] \in [D -> Listing]
    BY <2>1
  <2>. QED
    BY <2>2
<1>8. PICK f \in [D -> Listing] : \A p \in D : f[p] = step[<<f, p>>]
  <2>. HIDE DEF D, size, step
  <2>1. Descends(D, Listing, size, step)
    BY <1>3, <1>5, <1>6 DEF Descends
  <2>. QED
    BY <1>7, <2>1, RecursionExists
<1>9. Is(f)
  <2>1. \A p \in D : f[p] = Merging(f, p)
    BY <1>8
  <2>2. f = [p \in D |-> f[p]]
    OBVIOUS
  <2>. QED
    BY <2>1, <2>2
<1>10. Is(merge)
  <2>. HIDE DEF Is
  <2>. QED
    BY <1>1, <1>9
<1>. QED
  BY <1>10

------------------------------------------------------------------------------
(* Lists with the same elements *)

\* The n elements of s are those of t: p says where in t each one is, and q where
\* in s.
Arranges(p, q, n, s, t) ==
    /\ Len(s) = n /\ Len(t) = n
    /\ p \in [1 .. n -> 1 .. n] /\ q \in [1 .. n -> 1 .. n]
    /\ \A i \in 1 .. n : q[p[i]] = i /\ p[q[i]] = i /\ s[i] = t[p[i]]

\* s has the elements of t, each as often as t has it.
Rearranged(s, t) == \E p, q, n : Arranges(p, q, n, s, t)

Sorted(s) == \A i, j \in 1 .. Len(s) : i < j => s[i].box_name <= s[j].box_name

LEMMA ListingConcat ==
  ASSUME NEW s \in Listing, NEW t \in Listing
  PROVE  /\ s \o t \in Listing /\ Len(s) \in Nat /\ Len(t) \in Nat
         /\ Len(s \o t) = Len(s) + Len(t)
         /\ \A i \in 1 .. Len(s) + Len(t) : (s \o t)[i] = IF i <= Len(s) THEN s[i] ELSE t[i - Len(s)]
PROOF
<1>. HIDE DEF Response
<1>1. s \in Seq(Response) /\ t \in Seq(Response)
  BY DEF Listing
<1>. QED
  BY <1>1 DEF Listing

LEMMA RearrangedSelf ==
  ASSUME NEW s \in Listing
  PROVE  Rearranged(s, s)
PROOF
<1>1. PICK n \in Nat : n = Len(s)
  BY DEF Listing
<1>. DEFINE p == [i \in 1 .. n |-> i]
<1>2. p \in [1 .. n -> 1 .. n] /\ \A i \in 1 .. n : p[i] = i
  OBVIOUS
<1>. HIDE DEF p
<1>3. Arranges(p, p, n, s, s)
  BY <1>1, <1>2 DEF Arranges
<1>. QED
  BY <1>3, Zenon DEF Rearranged

LEMMA RearrangedAgain ==
  ASSUME NEW s \in Listing, NEW t \in Listing, NEW u \in Listing, Rearranged(s, t), Rearranged(t, u)
  PROVE  Rearranged(s, u)
PROOF
<1>0. PICK p, q, n : Arranges(p, q, n, s, t)
  BY DEF Rearranged
<1>1. PICK f, g, m : Arranges(f, g, m, t, u)
  BY DEF Rearranged
<1>2. /\ Len(s) = n /\ p \in [1 .. n -> 1 .. n] /\ q \in [1 .. n -> 1 .. n]
      /\ \A i \in 1 .. n : q[p[i]] = i /\ p[q[i]] = i /\ s[i] = t[p[i]]
  BY <1>0 DEF Arranges
<1>3. /\ Len(u) = n /\ f \in [1 .. n -> 1 .. n] /\ g \in [1 .. n -> 1 .. n]
      /\ \A i \in 1 .. n : g[f[i]] = i /\ f[g[i]] = i /\ t[i] = u[f[i]]
  BY <1>0, <1>1 DEF Arranges
<1>. DEFINE h == [i \in 1 .. n |-> f[p[i]]]
            k == [i \in 1 .. n |-> q[g[i]]]
<1>4. h \in [1 .. n -> 1 .. n] /\ k \in [1 .. n -> 1 .. n]
  BY <1>2, <1>3
<1>5. ASSUME NEW i \in 1 .. n PROVE k[h[i]] = i /\ h[k[i]] = i /\ s[i] = u[h[i]]
  <2>1. p[i] \in 1 .. n /\ g[i] \in 1 .. n /\ f[p[i]] \in 1 .. n /\ q[g[i]] \in 1 .. n
    BY <1>2, <1>3
  <2>2. h[i] = f[p[i]] /\ k[i] = q[g[i]] /\ k[f[p[i]]] = q[g[f[p[i]]]] /\ h[q[g[i]]] = f[p[q[g[i]]]]
    BY <2>1
  <2>. HIDE DEF h, k
  <2>3. k[h[i]] = i
    <3>1. g[f[p[i]]] = p[i] /\ q[p[i]] = i
      BY <1>2, <1>3, <2>1, Zenon
    <3>. QED
      BY <2>2, <3>1, Zenon
  <2>4. h[k[i]] = i
    <3>1. p[q[g[i]]] = g[i] /\ f[g[i]] = i
      BY <1>2, <1>3, <2>1, Zenon
    <3>. QED
      BY <2>2, <3>1, Zenon
  <2>5. s[i] = u[h[i]]
    <3>1. s[i] = t[p[i]] /\ t[p[i]] = u[f[p[i]]]
      BY <1>2, <1>3, <2>1, Zenon
    <3>. QED
      BY <2>2, <3>1, Zenon
  <2>. QED
    BY <2>3, <2>4, <2>5
<1>. HIDE DEF h, k
<1>6. \A i \in 1 .. n : k[h[i]] = i /\ h[k[i]] = i /\ s[i] = u[h[i]]
  BY <1>5, Zenon
<1>7. Arranges(h, k, n, s, u)
  BY <1>2, <1>3, <1>4, <1>6, Zenon DEF Arranges
<1>. QED
  BY <1>7, Zenon DEF Rearranged

LEMMA Shifted ==
  \A m, n \in Nat : \A a \in 1 .. n : m + a \in 1 .. m + n /\ ~ (m + a <= m) /\ (m + a) - m = a
PROOF
  OBVIOUS

LEMMA RearrangedConcat ==
  ASSUME NEW s \in Listing, NEW t \in Listing, NEW u \in Listing, NEW v \in Listing,
         Rearranged(s, t), Rearranged(u, v)
  PROVE  Rearranged(s \o u, t \o v)
PROOF
<1>1. PICK p, q, m : Arranges(p, q, m, s, t)
  BY DEF Rearranged
<1>2. PICK f, g, n : Arranges(f, g, n, u, v)
  BY DEF Rearranged
<1>3. /\ m \in Nat /\ Len(s) = m /\ Len(t) = m
      /\ p \in [1 .. m -> 1 .. m] /\ q \in [1 .. m -> 1 .. m]
      /\ \A i \in 1 .. m : q[p[i]] = i /\ p[q[i]] = i /\ s[i] = t[p[i]]
  BY <1>1 DEF Arranges, Listing
<1>4. /\ n \in Nat /\ Len(u) = n /\ Len(v) = n
      /\ f \in [1 .. n -> 1 .. n] /\ g \in [1 .. n -> 1 .. n]
      /\ \A i \in 1 .. n : g[f[i]] = i /\ f[g[i]] = i /\ u[i] = v[f[i]]
  BY <1>2 DEF Arranges, Listing
<1>. DEFINE h == [i \in 1 .. m + n |-> IF i <= m THEN p[i] ELSE m + f[i - m]]
            k == [i \in 1 .. m + n |-> IF i <= m THEN q[i] ELSE m + g[i - m]]
<1>5. ASSUME NEW i \in 1 .. m + n
      PROVE  /\ h[i] = IF i <= m THEN p[i] ELSE m + f[i - m]
             /\ k[i] = IF i <= m THEN q[i] ELSE m + g[i - m]
             /\ i <= m => i \in 1 .. m /\ p[i] \in 1 .. m /\ q[i] \in 1 .. m
             /\ ~ (i <= m) => i - m \in 1 .. n /\ f[i - m] \in 1 .. n /\ g[i - m] \in 1 .. n
  <2>1. (i <= m => i \in 1 .. m) /\ (~ (i <= m) => i - m \in 1 .. n)
    <3>1. m \in Nat /\ n \in Nat
      BY <1>3, <1>4
    <3>. QED
      BY <3>1
  <2>2. \A j \in 1 .. m : p[j] \in 1 .. m /\ q[j] \in 1 .. m
    BY <1>3
  <2>3. \A j \in 1 .. n : f[j] \in 1 .. n /\ g[j] \in 1 .. n
    BY <1>4
  <2>4. /\ h[i] = IF i <= m THEN p[i] ELSE m + f[i - m]
        /\ k[i] = IF i <= m THEN q[i] ELSE m + g[i - m]
    OBVIOUS
  <2>. HIDE DEF h, k
  <2>. QED
    BY <2>1, <2>2, <2>3, <2>4, Zenon
<1>6. h \in [1 .. m + n -> 1 .. m + n] /\ k \in [1 .. m + n -> 1 .. m + n]
  <2>1. ASSUME NEW i \in 1 .. m + n PROVE h[i] \in 1 .. m + n /\ k[i] \in 1 .. m + n
    <3>. HIDE DEF h, k
    <3>0. 1 .. m \subseteq 1 .. m + n
      BY <1>3, <1>4
    <3>1. CASE i <= m
      <4>1. h[i] = p[i] /\ k[i] = q[i] /\ p[i] \in 1 .. m /\ q[i] \in 1 .. m
        BY <1>5, <3>1, Zenon
      <4>. QED
        BY <3>0, <4>1, Zenon
    <3>2. CASE ~ (i <= m)
      <4>1. /\ h[i] = m + f[i - m] /\ f[i - m] \in 1 .. n
            /\ k[i] = m + g[i - m] /\ g[i - m] \in 1 .. n
        BY <1>5, <3>2, Zenon
      <4>2. m + f[i - m] \in 1 .. m + n /\ m + g[i - m] \in 1 .. m + n
        BY <1>3, <1>4, <4>1, Shifted, Zenon
      <4>. QED
        BY <4>1, <4>2, Zenon
    <3>. QED
      BY <3>1, <3>2
  <2>. QED
    BY <2>1
<1>. HIDE DEF h, k
<1>7. ASSUME NEW i \in 1 .. m + n PROVE k[h[i]] = i /\ h[k[i]] = i
  <2>1. CASE i <= m
    <3>0. \A j \in 1 .. m : j <= m /\ j \in 1 .. m + n
      BY <1>3, <1>4
    <3>1. i \in 1 .. m /\ h[i] = p[i] /\ k[i] = q[i] /\ p[i] \in 1 .. m /\ q[i] \in 1 .. m
      BY <1>5, <2>1, Zenon
    <3>2. k[p[i]] = q[p[i]] /\ h[q[i]] = p[q[i]]
      BY <1>5, <3>0, <3>1, Zenon
    <3>. QED
      BY <1>3, <3>1, <3>2, Zenon
  <2>2. CASE ~ (i <= m)
    <3>1. PICK j \in 1 .. n : j = i - m
      BY <1>5, <2>2
    <3>2. h[i] = m + f[j] /\ k[i] = m + g[j] /\ f[j] \in 1 .. n /\ g[j] \in 1 .. n
      BY <1>5, <2>2, <3>1
    <3>3. k[m + f[j]] = m + g[f[j]] /\ h[m + g[j]] = m + f[g[j]]
      <4>1. m + f[j] \in 1 .. m + n /\ ~ (m + f[j] <= m) /\ (m + f[j]) - m = f[j]
        BY <1>3, <1>4, <3>2, Shifted, Zenon
      <4>2. m + g[j] \in 1 .. m + n /\ ~ (m + g[j] <= m) /\ (m + g[j]) - m = g[j]
        BY <1>3, <1>4, <3>2, Shifted, Zenon
      <4>. QED
        BY <1>5, <4>1, <4>2
    <3>4. g[f[j]] = j /\ f[g[j]] = j /\ m + j = i
      BY <1>3, <1>4, <3>1
    <3>. QED
      BY <3>2, <3>3, <3>4, Zenon
  <2>. QED
    BY <2>1, <2>2
<1>8. ASSUME NEW i \in 1 .. m + n PROVE (s \o u)[i] = (t \o v)[h[i]]
  <2>1. h[i] \in 1 .. m + n
    BY <1>6
  <2>2. /\ (s \o u)[i] = IF i <= m THEN s[i] ELSE u[i - m]
        /\ (t \o v)[h[i]] = IF h[i] <= m THEN t[h[i]] ELSE v[h[i] - m]
    <3>1. \A j \in 1 .. m + n : (s \o u)[j] = IF j <= m THEN s[j] ELSE u[j - m]
      <4>1. \A j \in 1 .. Len(s) + Len(u) : (s \o u)[j] = IF j <= Len(s) THEN s[j] ELSE u[j - Len(s)]
        BY ListingConcat, Zenon
      <4>. QED
        BY <1>3, <1>4, <4>1, Zenon
    <3>2. \A j \in 1 .. m + n : (t \o v)[j] = IF j <= m THEN t[j] ELSE v[j - m]
      <4>1. \A j \in 1 .. Len(t) + Len(v) : (t \o v)[j] = IF j <= Len(t) THEN t[j] ELSE v[j - Len(t)]
        BY ListingConcat, Zenon
      <4>. QED
        BY <1>3, <1>4, <4>1, Zenon
    <3>. QED
      BY <2>1, <3>1, <3>2, Zenon
  <2>3. CASE i <= m
    BY <1>3, <1>5, <2>2, <2>3
  <2>4. CASE ~ (i <= m)
    <3>1. PICK j \in 1 .. n : j = i - m
      BY <1>5, <2>4
    <3>2. PICK a \in 1 .. n : a = f[j] /\ h[i] = m + a
      BY <1>5, <2>4, <3>1
    <3>3. ~ (h[i] <= m) /\ h[i] - m = a
      <4>1. ~ (m + a <= m) /\ (m + a) - m = a
        BY <1>3, <1>4, Shifted, Zenon
      <4>. QED
        BY <3>2, <4>1
    <3>4. u[j] = v[a]
      BY <1>4, <3>2
    <3>. QED
      BY <2>2, <2>4, <3>1, <3>3, <3>4
  <2>. QED
    BY <2>3, <2>4
<1>9. Len(s \o u) = m + n /\ Len(t \o v) = m + n
  <2>1. Len(s \o u) = Len(s) + Len(u) /\ Len(t \o v) = Len(t) + Len(v)
    BY ListingConcat
  <2>. QED
    BY <1>3, <1>4, <2>1, Zenon
<1>10. \A i \in 1 .. m + n : k[h[i]] = i /\ h[k[i]] = i /\ (s \o u)[i] = (t \o v)[h[i]]
  BY <1>7, <1>8, Zenon
<1>11. Arranges(h, k, m + n, s \o u, t \o v)
  BY <1>6, <1>9, <1>10, Zenon DEF Arranges
<1>. QED
  BY <1>11, Zenon DEF Rearranged

LEMMA RearrangedSwap ==
  ASSUME NEW s \in Listing, NEW t \in Listing
  PROVE  Rearranged(s \o t, t \o s)
PROOF
<1>1. PICK m \in Nat, n \in Nat : m = Len(s) /\ n = Len(t)
  BY DEF Listing
<1>. DEFINE p == [i \in 1 .. m + n |-> IF i <= m THEN i + n ELSE i - m]
            q == [i \in 1 .. m + n |-> IF i <= n THEN i + m ELSE i - n]
<1>2. p \in [1 .. m + n -> 1 .. m + n] /\ q \in [1 .. m + n -> 1 .. m + n]
  OBVIOUS
<1>3. \A i \in 1 .. m + n : /\ p[i] = IF i <= m THEN i + n ELSE i - m
                            /\ q[i] = IF i <= n THEN i + m ELSE i - n
  OBVIOUS
<1>. HIDE DEF p, q
<1>4. ASSUME NEW i \in 1 .. m + n PROVE q[p[i]] = i /\ p[q[i]] = i
  <2>1. PICK a \in 1 .. m + n : a = p[i]
    BY <1>2
  <2>2. PICK b \in 1 .. m + n : b = q[i]
    BY <1>2
  <2>3. a = IF i <= m THEN i + n ELSE i - m
    BY <1>3, <2>1
  <2>4. b = IF i <= n THEN i + m ELSE i - n
    BY <1>3, <2>2
  <2>5. q[a] = IF a <= n THEN a + m ELSE a - n
    BY <1>3
  <2>6. p[b] = IF b <= m THEN b + n ELSE b - m
    BY <1>3
  <2>. QED
    BY <2>1, <2>2, <2>3, <2>4, <2>5, <2>6
<1>5. ASSUME NEW i \in 1 .. m + n PROVE (s \o t)[i] = (t \o s)[p[i]]
  <2>1. p[i] \in 1 .. m + n
    BY <1>2
  <2>2. /\ (s \o t)[i] = IF i <= m THEN s[i] ELSE t[i - m]
        /\ (t \o s)[p[i]] = IF p[i] <= n THEN t[p[i]] ELSE s[p[i] - n]
    <3>1. \A j \in 1 .. m + n : (s \o t)[j] = IF j <= m THEN s[j] ELSE t[j - m]
      BY <1>1, ListingConcat
    <3>2. \A j \in 1 .. n + m : (t \o s)[j] = IF j <= n THEN t[j] ELSE s[j - n]
      BY <1>1, ListingConcat
    <3>3. m + n = n + m
      OBVIOUS
    <3>. QED
      BY <2>1, <3>1, <3>2, <3>3, Zenon
  <2>3. CASE i <= m
    <3>1. p[i] = i + n /\ ~ (p[i] <= n) /\ p[i] - n = i
      BY <1>3, <2>3
    <3>. QED
      BY <2>2, <2>3, <3>1
  <2>4. CASE ~ (i <= m)
    <3>1. p[i] = i - m /\ p[i] <= n
      BY <1>3, <2>4
    <3>. QED
      BY <2>2, <2>4, <3>1
  <2>. QED
    BY <2>3, <2>4
<1>6. Len(s \o t) = m + n /\ Len(t \o s) = m + n
  BY <1>1, ListingConcat
<1>7. \A i \in 1 .. m + n : q[p[i]] = i /\ p[q[i]] = i /\ (s \o t)[i] = (t \o s)[p[i]]
  BY <1>4, <1>5
<1>8. Arranges(p, q, m + n, s \o t, t \o s)
  BY <1>2, <1>6, <1>7, Zenon DEF Arranges
<1>. QED
  BY <1>8, Zenon DEF Rearranged

------------------------------------------------------------------------------
(* What merge makes of two lists *)

LEMMA OneResponse ==
  ASSUME NEW x \in Response
  PROVE  <<x>> \in Listing
PROOF
  BY DEF Listing

LEMMA ConcatOrder ==
  ASSUME NEW s \in Listing, NEW t \in Listing, NEW u \in Listing
  PROVE  (s \o t) \o u = s \o (t \o u)
PROOF
  BY DEF Listing

LEMMA TailSorted ==
  ASSUME NEW s \in Listing, s # << >>, Sorted(s)
  PROVE  /\ Sorted(Tail(s))
         /\ \A i \in 1 .. Len(Tail(s)) : Head(s).box_name <= Tail(s)[i].box_name
PROOF
<1>. HIDE DEF Response
<1>1. PICK n \in Nat : n = Len(s) /\ n > 0 /\ Len(Tail(s)) = n - 1
  BY TailIsShorter
<1>2. Head(s) = s[1] /\ \A i \in 1 .. n - 1 : Tail(s)[i] = s[i + 1]
  BY <1>1 DEF Listing
<1>3. \A i, j \in 1 .. n : i < j => s[i].box_name <= s[j].box_name
  BY <1>1 DEF Sorted
<1>4. ASSUME NEW i \in 1 .. n - 1, NEW j \in 1 .. n - 1, i < j
      PROVE  Tail(s)[i].box_name <= Tail(s)[j].box_name
  <2>1. i + 1 \in 1 .. n /\ j + 1 \in 1 .. n /\ i + 1 < j + 1
    BY <1>4
  <2>. QED
    BY <1>2, <1>3, <2>1
<1>5. ASSUME NEW i \in 1 .. n - 1 PROVE Head(s).box_name <= Tail(s)[i].box_name
  <2>1. 1 \in 1 .. n /\ i + 1 \in 1 .. n /\ 1 < i + 1
    BY <1>1
  <2>. QED
    BY <1>2, <1>3, <2>1
<1>. QED
  BY <1>1, <1>4, <1>5 DEF Sorted

\* The least element before the others, which are in order, is in order.
LEMMA LeastFirst ==
  ASSUME NEW x \in Response, NEW m \in Listing, NEW t \in Listing,
         Sorted(m), Rearranged(m, t), \A i \in 1 .. Len(t) : x.box_name <= t[i].box_name
  PROVE  Sorted(<<x>> \o m)
PROOF
<1>1. PICK p, q, n : Arranges(p, q, n, m, t)
  BY DEF Rearranged
<1>2. n \in Nat /\ Len(m) = n
  BY <1>1 DEF Arranges, Listing
<1>3. ASSUME NEW i \in 1 .. n PROVE x.box_name <= m[i].box_name
  BY <1>1 DEF Arranges
<1>4. /\ Len(<<x>> \o m) = n + 1
      /\ \A i \in 1 .. n + 1 : (<<x>> \o m)[i] = IF i = 1 THEN x ELSE m[i - 1]
  <2>. HIDE DEF Response
  <2>. QED
    BY <1>2 DEF Listing
<1>5. \A i, j \in 1 .. n : i < j => m[i].box_name <= m[j].box_name
  BY <1>2 DEF Sorted
<1>6. ASSUME NEW i \in 1 .. n + 1, NEW j \in 1 .. n + 1, i < j
      PROVE  (<<x>> \o m)[i].box_name <= (<<x>> \o m)[j].box_name
  <2>1. j - 1 \in 1 .. n /\ (<<x>> \o m)[j] = m[j - 1]
    BY <1>2, <1>4, <1>6
  <2>2. CASE i = 1
    BY <1>3, <1>4, <2>1, <2>2
  <2>3. CASE i # 1
    <3>1. i - 1 \in 1 .. n /\ i - 1 < j - 1 /\ (<<x>> \o m)[i] = m[i - 1]
      BY <1>2, <1>4, <1>6, <2>3
    <3>. QED
      BY <1>5, <2>1, <3>1
  <2>. QED
    BY <2>2, <2>3
<1>. QED
  BY <1>4, <1>6 DEF Sorted

\* What merging two listings is to give.
Merged(left, right, m) ==
    /\ m \in Listing /\ Rearranged(m, left \o right)
    /\ Sorted(left) /\ Sorted(right) => Sorted(m)

\* What is not greater than the first element is not greater than the others.
LEMMA HeadIsLeast ==
  ASSUME NEW s \in Listing, s # << >>, Sorted(s), NEW x \in Response,
         ~ (Head(s).box_name < x.box_name)
  PROVE  \A i \in 1 .. Len(s) : x.box_name <= s[i].box_name
PROOF
<1>1. PICK n \in Nat : n = Len(s) /\ n > 0
  BY TailIsShorter
<1>2. \A i, j \in 1 .. n : i < j => s[i].box_name <= s[j].box_name
  BY <1>1 DEF Sorted
<1>3. Head(s) = s[1] /\ s \in [1 .. n -> Response]
  <2>. HIDE DEF Response
  <2>. QED
    BY <1>1 DEF Listing
<1>4. x.box_name \in Nat /\ \A i \in 1 .. n : s[i].box_name \in Nat
  BY <1>3 DEF Response
<1>5. ASSUME NEW i \in 1 .. n PROVE s[1].box_name <= s[i].box_name
  BY <1>1, <1>2, <1>4
<1>6. x.box_name <= s[1].box_name
  <2>1. 1 \in 1 .. n
    BY <1>1
  <2>. QED
    BY <1>3, <1>4, <2>1
<1>7. ASSUME NEW i \in 1 .. n PROVE x.box_name <= s[i].box_name
  <2>1. 1 \in 1 .. n
    BY <1>1
  <2>. QED
    BY <1>4, <1>5, <1>6, <2>1
<1>. QED
  BY <1>1, <1>7

LEMMA MergeLeft ==
  ASSUME NEW left \in Listing, NEW right \in Listing, left # << >>, right # << >>,
         Head(left).box_name < Head(right).box_name, NEW m, Merged(Tail(left), right, m)
  PROVE  Merged(left, right, <<Head(left)>> \o m)
PROOF
<1>1. /\ Head(left) \in Response /\ Tail(left) \in Listing /\ left = <<Head(left)>> \o Tail(left)
      /\ Len(Tail(left)) \in Nat
  BY TailIsShorter DEF Listing
<1>2. m \in Listing /\ Rearranged(m, Tail(left) \o right)
  BY DEF Merged
<1>3. PICK x \in Listing : x = <<Head(left)>>
  BY <1>1, OneResponse
<1>4. x \o m \in Listing /\ Rearranged(x \o m, left \o right)
  <2>1. Rearranged(x \o m, x \o (Tail(left) \o right))
    BY <1>1, <1>2, <1>3, RearrangedSelf, RearrangedConcat, ListingConcat
  <2>2. x \o (Tail(left) \o right) = left \o right
    BY <1>1, <1>3, ConcatOrder
  <2>. QED
    BY <1>2, <1>3, <2>1, <2>2, ListingConcat
<1>5. ASSUME Sorted(left), Sorted(right) PROVE Sorted(x \o m)
  <2>1. Sorted(m)
    BY <1>5, TailSorted DEF Merged
  <2>2. \A i \in 1 .. Len(Tail(left)) : Head(left).box_name <= Tail(left)[i].box_name
    BY <1>5, TailSorted
  <2>3. \A i \in 1 .. Len(right) : Head(left).box_name <= right[i].box_name
    <3>1. ~ (Head(right).box_name < Head(left).box_name)
      <4>1. Head(right) \in Response
        BY TailIsShorter
      <4>. QED
        BY <1>1, <4>1 DEF Response
    <3>. QED
      BY <1>1, <1>5, <3>1, HeadIsLeast
  <2>4. ASSUME NEW i \in 1 .. Len(Tail(left) \o right)
        PROVE  Head(left).box_name <= (Tail(left) \o right)[i].box_name
    <3>1. PICK k \in Nat : k = Len(Tail(left))
      BY <1>1
    <3>2. PICK n \in Nat : n = Len(right)
      BY DEF Listing
    <3>3. i \in 1 .. k + n /\ (Tail(left) \o right)[i] = IF i <= k THEN Tail(left)[i] ELSE right[i - k]
      BY <1>1, <3>1, <3>2, ListingConcat
    <3>4. CASE i <= k
      BY <2>2, <3>1, <3>3, <3>4
    <3>5. CASE ~ (i <= k)
      <4>1. i - k \in 1 .. n
        BY <3>3, <3>5
      <4>. QED
        BY <2>3, <3>2, <3>3, <3>5, <4>1
    <3>. QED
      BY <3>4, <3>5
  <2>5. Tail(left) \o right \in Listing
    BY <1>1, ListingConcat
  <2>. QED
    BY <1>1, <1>2, <1>3, <2>1, <2>4, <2>5, LeastFirst
<1>. QED
  BY <1>3, <1>4, <1>5 DEF Merged

LEMMA MergeRight ==
  ASSUME NEW left \in Listing, NEW right \in Listing, left # << >>, right # << >>,
         ~ (Head(left).box_name < Head(right).box_name), NEW m, Merged(left, Tail(right), m)
  PROVE  Merged(left, right, <<Head(right)>> \o m)
PROOF
<1>1. /\ Head(right) \in Response /\ Tail(right) \in Listing /\ right = <<Head(right)>> \o Tail(right)
      /\ Len(left) \in Nat
  BY TailIsShorter DEF Listing
<1>2. m \in Listing /\ Rearranged(m, left \o Tail(right))
  BY DEF Merged
<1>3. PICK x \in Listing : x = <<Head(right)>>
  BY <1>1, OneResponse
<1>4. x \o m \in Listing /\ Rearranged(x \o m, left \o right)
  <2>0. /\ left \o Tail(right) \in Listing /\ x \o left \in Listing /\ left \o x \in Listing
        /\ x \o m \in Listing
    BY <1>1, <1>2, <1>3, ListingConcat
  <2>1. Rearranged(x \o m, x \o (left \o Tail(right)))
    BY <1>1, <1>2, <1>3, <2>0, RearrangedSelf, RearrangedConcat
  <2>2. x \o (left \o Tail(right)) = (x \o left) \o Tail(right)
    BY <1>1, <1>3, ConcatOrder
  <2>3. Rearranged((x \o left) \o Tail(right), (left \o x) \o Tail(right))
    BY <1>1, <1>3, <2>0, RearrangedSelf, RearrangedSwap, RearrangedConcat
  <2>4. (left \o x) \o Tail(right) = left \o right
    <3>1. (left \o x) \o Tail(right) = left \o (x \o Tail(right))
      BY <1>1, <1>3, ConcatOrder, Zenon
    <3>2. right = x \o Tail(right)
      BY <1>1, <1>3
    <3>. QED
      BY <3>1, <3>2, Zenon
  <2>5. Rearranged(x \o m, (x \o left) \o Tail(right))
    BY <2>1, <2>2
  <2>6. Rearranged((x \o left) \o Tail(right), left \o right)
    BY <2>3, <2>4
  <2>7. (x \o left) \o Tail(right) \in Listing /\ left \o right \in Listing
    BY <1>1, <2>0, ListingConcat
  <2>. QED
    BY <2>0, <2>5, <2>6, <2>7, RearrangedAgain
<1>5. ASSUME Sorted(left), Sorted(right) PROVE Sorted(x \o m)
  <2>1. Sorted(m)
    BY <1>5, TailSorted DEF Merged
  <2>2. \A i \in 1 .. Len(Tail(right)) : Head(right).box_name <= Tail(right)[i].box_name
    BY <1>5, TailSorted
  <2>3. \A i \in 1 .. Len(left) : Head(right).box_name <= left[i].box_name
    BY <1>1, <1>5, HeadIsLeast
  <2>4. ASSUME NEW i \in 1 .. Len(left \o Tail(right))
        PROVE  Head(right).box_name <= (left \o Tail(right))[i].box_name
    <3>1. PICK k \in Nat : k = Len(left)
      BY <1>1
    <3>2. PICK n \in Nat : n = Len(Tail(right))
      BY <1>1, ListingConcat
    <3>3. i \in 1 .. k + n /\ (left \o Tail(right))[i] = IF i <= k THEN left[i] ELSE Tail(right)[i - k]
      BY <1>1, <3>1, <3>2, ListingConcat
    <3>4. CASE i <= k
      BY <2>3, <3>1, <3>3, <3>4
    <3>5. CASE ~ (i <= k)
      <4>1. i - k \in 1 .. n
        BY <3>3, <3>5
      <4>. QED
        BY <2>2, <3>2, <3>3, <3>5, <4>1
    <3>. QED
      BY <3>4, <3>5
  <2>5. left \o Tail(right) \in Listing
    BY <1>1, ListingConcat
  <2>. QED
    BY <1>1, <1>2, <1>3, <2>1, <2>4, <2>5, LeastFirst
<1>. QED
  BY <1>3, <1>4, <1>5 DEF Merged

LEMMA MergeMerges ==
  ASSUME NEW left \in Listing, NEW right \in Listing
  PROVE  Merged(left, right, merge[<<left, right>>])
PROOF
<1>. DEFINE Done == {n \in Nat : \A l, r \in Listing :
                        Len(l) + Len(r) = n => Merged(l, r, merge[<<l, r>>])}
<1>0. \A l \in Listing : Len(l) \in Nat
  BY DEF Listing
<1>1. ASSUME NEW l \in Listing, NEW r \in Listing, l = << >> \/ r = << >>
      PROVE  Merged(l, r, merge[<<l, r>>])
  <2>. HIDE DEF Response
  <2>1. merge[<<l, r>>] = l \o r /\ l \o r \in Listing
    <3>1. merge[<<l, r>>] = IF l = << >> THEN r ELSE l
      BY <1>1, MergeRecursion DEF Merging
    <3>. QED
      BY <1>1, <3>1 DEF Listing
  <2>2. l \o r = IF l = << >> THEN r ELSE l
    BY <1>1 DEF Listing
  <2>3. Sorted(l) /\ Sorted(r) => Sorted(l \o r)
    BY <2>2
  <2>. QED
    BY <2>1, <2>3, RearrangedSelf DEF Merged
<1>2. ASSUME NEW l \in Listing, NEW r \in Listing, l # << >>, r # << >>,
             Merged(Tail(l), r, merge[<<Tail(l), r>>]), Merged(l, Tail(r), merge[<<l, Tail(r)>>])
      PROVE  Merged(l, r, merge[<<l, r>>])
  <2>1. merge[<<l, r>>] = IF Head(l).box_name < Head(r).box_name
                            THEN <<Head(l)>> \o merge[<<Tail(l), r>>]
                            ELSE <<Head(r)>> \o merge[<<l, Tail(r)>>]
    BY <1>2, MergeRecursion DEF Merging
  <2>2. CASE Head(l).box_name < Head(r).box_name
    BY <1>2, <2>1, <2>2, MergeLeft
  <2>3. CASE ~ (Head(l).box_name < Head(r).box_name)
    BY <1>2, <2>1, <2>3, MergeRight
  <2>. QED
    BY <2>2, <2>3
<1>3. 0 \in Done
  <2>. SUFFICES ASSUME NEW l \in Listing, NEW r \in Listing, Len(l) + Len(r) = 0
                PROVE  l = << >>
    BY <1>1
  <2>1. Len(l) = 0
    BY <1>0
  <2>. QED
    BY <2>1 DEF Listing
<1>4. ASSUME NEW n \in Nat, n \in Done PROVE n + 1 \in Done
  <2>. SUFFICES ASSUME NEW l \in Listing, NEW r \in Listing, Len(l) + Len(r) = n + 1,
                       l # << >>, r # << >>
                PROVE  Merged(l, r, merge[<<l, r>>])
    BY <1>1
  <2>1. PICK i \in Nat, j \in Nat : i = Len(l) /\ j = Len(r)
    BY <1>0
  <2>2. Tail(l) \in Listing /\ Tail(r) \in Listing /\ Len(Tail(l)) = i - 1 /\ Len(Tail(r)) = j - 1
    BY <2>1, TailIsShorter
  <2>3. (i - 1) + j = n /\ i + (j - 1) = n
    BY <2>1
  <2>4. Merged(Tail(l), r, merge[<<Tail(l), r>>]) /\ Merged(l, Tail(r), merge[<<l, Tail(r)>>])
    BY <1>4, <2>1, <2>2, <2>3
  <2>. QED
    BY <1>2, <2>4
<1>. HIDE DEF Done
<1>5. Nat \subseteq Done
  BY <1>3, <1>4, NatSetInduction
<1>6. Len(left) + Len(right) \in Done
  BY <1>0, <1>5
<1>. QED
  BY <1>6 DEF Done

------------------------------------------------------------------------------
(* What merge_sort makes of a list *)

LEMMA Halves ==
  ASSUME NEW list \in Listing, ~ (Len(list) < 2)
  PROVE  LET left == SubSeq(list, 1, Half(list))
             right == SubSeq(list, Half(list) + 1, Len(list))
         IN  /\ left \in Listing /\ right \in Listing /\ left \o right = list
             /\ Len(left) \in Nat /\ Len(right) \in Nat /\ Len(list) \in Nat
             /\ Len(left) < Len(list) /\ Len(right) < Len(list)
PROOF
<1>. HIDE DEF Response
<1>1. list \in Seq(Response)
  BY DEF Listing
<1>2. PICK n \in Nat : n = Len(list) /\ n >= 2
  BY <1>1
<1>3. PICK h \in 1 .. n - 1 : h = Half(list)
  BY <1>2 DEF Half
<1>. DEFINE left == SubSeq(list, 1, h)
            right == SubSeq(list, h + 1, n)
<1>4. /\ left \in Seq(Response) /\ Len(left) = h
      /\ \A i \in 1 .. h : left[i] = list[i]
  BY <1>1, <1>2, <1>3
<1>5. /\ right \in Seq(Response) /\ Len(right) = n - h
      /\ \A i \in 1 .. n - h : right[i] = list[h + i]
  <2>1. h + 1 \in 1 .. n + 1 /\ (n - (h + 1)) + 1 = n - h /\ n - h \in Nat
    BY <1>3
  <2>2. right \in Seq(Response) /\ Len(right) = (n - (h + 1)) + 1
    BY <1>1, <1>2, <2>1
  <2>3. ASSUME NEW i \in 1 .. n - h PROVE right[i] = list[h + i]
    <3>1. (h + 1) + i - 1 = h + i
      BY <1>3
    <3>2. i \in 1 .. (n - (h + 1)) + 1
      BY <2>1
    <3>. QED
      BY <1>1, <1>2, <2>1, <3>1, <3>2
  <2>. QED
    BY <2>1, <2>2, <2>3
<1>. HIDE DEF left, right
<1>6. left \o right = list
  <2>1. /\ left \o right \in Seq(Response) /\ Len(left \o right) = n
        /\ \A i \in 1 .. n : (left \o right)[i] = IF i <= h THEN left[i] ELSE right[i - h]
    <3>1. left \in Listing /\ right \in Listing
      BY <1>4, <1>5 DEF Listing
    <3>2. left \o right \in Seq(Response)
      BY <3>1, ListingConcat DEF Listing
    <3>3. Len(left) + Len(right) = n
      BY <1>3, <1>4, <1>5
    <3>4. /\ Len(left \o right) = n
          /\ \A i \in 1 .. n : (left \o right)[i] = IF i <= Len(left) THEN left[i] ELSE right[i - Len(left)]
      BY <3>1, <3>3, ListingConcat
    <3>. QED
      BY <1>4, <3>2, <3>4
  <2>2. ASSUME NEW i \in 1 .. n PROVE (left \o right)[i] = list[i]
    <3>1. CASE i <= h
      BY <1>3, <1>4, <2>1, <3>1
    <3>2. CASE ~ (i <= h)
      <4>1. i - h \in 1 .. n - h /\ h + (i - h) = i
        BY <1>3, <3>2
      <4>. QED
        BY <1>5, <2>1, <3>2, <4>1
    <3>. QED
      BY <3>1, <3>2
  <2>3. PICK both : both = left \o right
    OBVIOUS
  <2>4. both \in Seq(Response) /\ Len(both) = n
    BY <2>1, <2>3
  <2>5. both \in [1 .. n -> Response] /\ list \in [1 .. n -> Response]
    <3>. HIDE DEF left, right
    <3>. QED
      BY <1>1, <1>2, <2>4
  <2>6. \A i \in 1 .. n : both[i] = list[i]
    BY <2>2, <2>3, Zenon
  <2>7. both = list
    BY <2>5, <2>6
  <2>. QED
    BY <2>3, <2>7, Zenon
<1>7. h \in Nat /\ n - h \in Nat /\ h < n /\ n - h < n
  BY <1>3
<1>8. /\ left \in Listing /\ right \in Listing
      /\ Len(left) \in Nat /\ Len(right) \in Nat /\ Len(list) \in Nat
      /\ Len(left) < Len(list) /\ Len(right) < Len(list)
  BY <1>2, <1>4, <1>5, <1>7 DEF Listing
<1>9. left = SubSeq(list, 1, Half(list)) /\ right = SubSeq(list, Half(list) + 1, Len(list))
  BY <1>2, <1>3 DEF left, right
<1>. QED
  BY <1>6, <1>8, <1>9

LEMMA SortRecursion ==
  ASSUME NEW list \in Listing
  PROVE  merge_sort[list] = Sorting(merge_sort, list)
PROOF
<1>. DEFINE size == [l \in Listing |-> Len(l)]
            step == [gl \in [Listing -> Listing] \X Listing |-> Sorting(gl[1], gl[2])]
            Is(g) == g = [l \in Listing |-> Sorting(g, l)]
            left(l) == SubSeq(l, 1, Half(l))
            right(l) == SubSeq(l, Half(l) + 1, Len(l))
<1>1. merge_sort = CHOOSE g : Is(g)
  BY DEF merge_sort, Sorting, Half
<1>2. size \in [Listing -> Nat]
  BY DEF Listing
<1>3. ASSUME NEW g \in [Listing -> Listing], NEW l \in Listing
      PROVE  Sorting(g, l) \in Listing
  <2>1. CASE ~ (Len(l) < 2)
    <3>1. left(l) \in Listing /\ right(l) \in Listing
      BY <2>1, Halves
    <3>2. g[left(l)] \in Listing /\ g[right(l)] \in Listing
      BY <3>1
    <3>3. merge[<<g[left(l)], g[right(l)]>>] \in Listing
      BY <3>2, MergeMerges DEF Merged
    <3>. QED
      BY <2>1, <3>3 DEF Sorting
  <2>2. CASE Len(l) < 2
    BY <2>2 DEF Sorting
  <2>. QED
    BY <2>1, <2>2
<1>4. step \in [[Listing -> Listing] \X Listing -> Listing]
  BY <1>3
<1>5. ASSUME NEW g \in [Listing -> Listing], NEW h \in [Listing -> Listing], NEW l \in Listing,
             \A k \in Listing : size[k] < size[l] => g[k] = h[k]
      PROVE  step[<<g, l>>] = step[<<h, l>>]
  <2>1. CASE ~ (Len(l) < 2)
    <3>1. /\ left(l) \in Listing /\ right(l) \in Listing
          /\ Len(left(l)) < Len(l) /\ Len(right(l)) < Len(l)
      BY <2>1, Halves
    <3>2. size[left(l)] < size[l] /\ size[right(l)] < size[l]
      BY <3>1
    <3>. HIDE DEF size
    <3>3. g[left(l)] = h[left(l)] /\ g[right(l)] = h[right(l)]
      BY <1>5, <3>1, <3>2
    <3>4. Sorting(g, l) = Sorting(h, l)
      BY <3>3 DEF Sorting
    <3>. QED
      BY <3>4
  <2>2. CASE Len(l) < 2
    <3>1. Sorting(g, l) = Sorting(h, l)
      BY <2>2 DEF Sorting
    <3>. QED
      BY <3>1
  <2>. QED
    BY <2>1, <2>2
<1>6. [l \in Listing |-> l] \in [Listing -> Listing]
  OBVIOUS
<1>7. PICK f \in [Listing -> Listing] : \A l \in Listing : f[l] = step[<<f, l>>]
  <2>. HIDE DEF size, step
  <2>1. Descends(Listing, Listing, size, step)
    BY <1>2, <1>4, <1>5 DEF Descends
  <2>2. [Listing -> Listing] # {}
    BY <1>6
  <2>. QED
    BY <2>1, <2>2, RecursionExists
<1>8. Is(f)
  <2>1. \A l \in Listing : f[l] = Sorting(f, l)
    BY <1>7
  <2>2. f = [l \in Listing |-> f[l]]
    OBVIOUS
  <2>. QED
    BY <2>1, <2>2
<1>9. Is(merge_sort)
  <2>. HIDE DEF Is
  <2>. QED
    BY <1>1, <1>8
<1>. QED
  BY <1>9

\* The elements of list, in the order of their names.
IsSorting(list, m) == m \in Listing /\ Rearranged(m, list) /\ Sorted(m)

\* merge_sort_boxdata_list (protocol.c, lines 129-169) sorts every list of responses
\* by box name, and neither loses nor repeats one.
THEOREM MergeSortSorts ==
  ASSUME NEW list \in Listing
  PROVE  IsSorting(list, merge_sort[list])
PROOF
<1>. DEFINE Done == {n \in Nat : \A l \in Listing : Len(l) < n => IsSorting(l, merge_sort[l])}
<1>0. \A l \in Listing : Len(l) \in Nat
  BY DEF Listing
<1>1. 0 \in Done
  BY <1>0
<1>2. ASSUME NEW n \in Nat, n \in Done PROVE n + 1 \in Done
  <2>. SUFFICES ASSUME NEW l \in Listing, Len(l) < n + 1 PROVE IsSorting(l, merge_sort[l])
    OBVIOUS
  <2>1. CASE Len(l) < 2
    <3>1. merge_sort[l] = l
      BY <2>1, SortRecursion DEF Sorting
    <3>2. Sorted(l)
      BY <1>0, <2>1 DEF Sorted
    <3>. QED
      BY <3>1, <3>2, RearrangedSelf DEF IsSorting
  <2>2. CASE ~ (Len(l) < 2)
    <3>. DEFINE left == SubSeq(l, 1, Half(l))
                right == SubSeq(l, Half(l) + 1, Len(l))
                m == merge[<<merge_sort[left], merge_sort[right]>>]
    <3>1. /\ left \in Listing /\ right \in Listing /\ left \o right = l
          /\ Len(left) \in Nat /\ Len(right) \in Nat /\ Len(l) \in Nat
          /\ Len(left) < Len(l) /\ Len(right) < Len(l)
      BY <2>2, Halves
    <3>2. merge_sort[l] = m
      BY <2>2, SortRecursion DEF Sorting
    <3>. HIDE DEF left, right
    <3>3. Len(left) < n /\ Len(right) < n
      BY <3>1
    <3>4. IsSorting(left, merge_sort[left]) /\ IsSorting(right, merge_sort[right])
      BY <1>2, <3>1, <3>3
    <3>5. Merged(merge_sort[left], merge_sort[right], m)
      BY <3>4, MergeMerges DEF IsSorting
    <3>. HIDE DEF m
    <3>6. Rearranged(m, merge_sort[left] \o merge_sort[right]) /\ m \in Listing /\ Sorted(m)
      BY <3>4, <3>5 DEF IsSorting, Merged
    <3>7. Rearranged(merge_sort[left] \o merge_sort[right], left \o right)
      BY <3>1, <3>4, RearrangedConcat DEF IsSorting
    <3>8. merge_sort[left] \o merge_sort[right] \in Listing /\ left \o right \in Listing
      BY <3>1, <3>4, ListingConcat DEF IsSorting
    <3>9. Rearranged(m, left \o right)
      BY <3>6, <3>7, <3>8, RearrangedAgain
    <3>. QED
      BY <3>1, <3>2, <3>6, <3>9 DEF IsSorting
  <2>. QED
    BY <2>1, <2>2
<1>. HIDE DEF Done
<1>3. Nat \subseteq Done
  BY <1>1, <1>2, NatSetInduction
<1>4. Len(list) + 1 \in Done
  BY <1>0, <1>3
<1>. QED
  BY <1>0, <1>4 DEF Done

LEMMA RearrangedReverse ==
  ASSUME NEW s \in Listing
  PROVE  Reverse(s) \in Listing /\ Rearranged(Reverse(s), s)
PROOF
<1>1. PICK n \in Nat : n = Len(s)
  BY DEF Listing
<1>. DEFINE p == [i \in 1 .. n |-> (n - i) + 1]
<1>2. /\ Reverse(s) \in Listing /\ Len(Reverse(s)) = n
      /\ \A i \in 1 .. n : Reverse(s)[i] = s[(n - i) + 1]
  <2>. HIDE DEF Response
  <2>1. s \in [1 .. n -> Response]
    BY <1>1 DEF Listing
  <2>2. \A i \in 1 .. n : (n - i) + 1 \in 1 .. n
    OBVIOUS
  <2>3. Reverse(s) = [i \in 1 .. n |-> s[(n - i) + 1]]
    BY <1>1 DEF Reverse
  <2>4. Reverse(s) \in [1 .. n -> Response]
    BY <2>1, <2>2, <2>3
  <2>5. Reverse(s) \in Seq(Response) /\ Len(Reverse(s)) = n
    BY <2>3, <2>4
  <2>. QED
    BY <2>3, <2>5 DEF Listing
<1>3. \A i \in 1 .. n : p[i] = (n - i) + 1 /\ p[i] \in 1 .. n
  OBVIOUS
<1>4. p \in [1 .. n -> 1 .. n]
  OBVIOUS
<1>. HIDE DEF p
<1>5. ASSUME NEW i \in 1 .. n PROVE p[p[i]] = i
  <2>1. PICK a \in 1 .. n : a = p[i]
    BY <1>3
  <2>2. a = (n - i) + 1 /\ p[a] = (n - a) + 1
    BY <1>3, <2>1
  <2>. QED
    BY <2>1, <2>2
<1>6. Arranges(p, p, n, Reverse(s), s)
  BY <1>1, <1>2, <1>3, <1>4, <1>5 DEF Arranges
<1>. QED
  BY <1>2, <1>6, Zenon DEF Rearranged
===============================================================================
