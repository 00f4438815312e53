---------------------------- MODULE SessionsDeliveries ----------------------------
(***************************************************************************)
(* What the subscribers are sent, for any number of sessions, boxes and    *)
(* messages and any size of block.  A subscriber that waits has been sent  *)
(* what its box holds: the replay of the file ends where the messages that *)
(* the worker forwards begin, and whoever publishes finds it waiting.      *)
(***************************************************************************)
EXTENDS SessionsBoxes

------------------------------------------------------------------------------
(* The files that the workers have open *)

\* The files keep their contents, and the handles in use but h their places.
SameData(h) ==
    /\ \A n, i : Files!FileIs(n, i) => Files!FileIs(n, i)' /\ Files!Contents(i)' = Files!Contents(i)
    /\ \A n, i : Files!FileIs(n, i)' => Files!FileIs(n, i) \/ i_size'[i] = 0
    /\ \A g \in Files!Handles \ Files!FreeHandles :
         of_inumber'[g] = of_inumber[g] /\ (g # h => of_offset'[g] = of_offset[g])

LEMMA TablesSame ==
  ASSUME UNCHANGED tables
  PROVE  SameData(-1)
PROOF
<1>1. UNCHANGED <<d_name, d_inumber, i_size, i_data_block, fs_data, of_inumber, of_offset>>
  BY DEF tables
<1>2. \A i : Files!Contents(i)' = Files!Contents(i)
  BY <1>1 DEF Files!Contents
<1>. QED
  BY <1>1, <1>2, SameTablesKeepFiles DEF SameData

LEMMA OpenSame ==
  ASSUME FilesInv, NEW name, NEW mode \in OpenModes, NEW ret, Opens(name, mode, ret)
  PROVE  SameData(-1)
PROOF
<1>1. Files!IInv /\ Files!FilesStay
  BY OpenKeepsFiles
<1>2. "TFS_O_TRUNC" \notin mode
  BY DEF OpenModes
<1>3. Files!ContentsStay
  BY <1>1, <1>2, FilesAssumptions, Files!OpenContents DEF Opens
<1>4. ASSUME NEW g \in Files!Handles \ Files!FreeHandles
      PROVE  of_inumber'[g] = of_inumber[g] /\ of_offset'[g] = of_offset[g]
  <2>1. CASE UNCHANGED Files!openVars
    BY <2>1 DEF Files!openVars
  <2>2. CASE Files!HandleTaken(name, mode, ret)
    BY <2>2 DEF Files!HandleTaken
  <2>. QED
    BY <2>1, <2>2, OpenKeepsFiles
<1>. QED
  BY <1>1, <1>3, <1>4 DEF SameData, Files!ContentsStay, Files!FilesStay

LEMMA ReadSame ==
  ASSUME FilesInv, removed = {}, NEW h, NEW ret, Reads(h, ret)
  PROVE  SameData(h)
PROOF
<1>1. Files!CInv
  <2>1. process = "running"
    BY DEF Reads, Files!Read
  <2>. QED
    BY <2>1 DEF FilesInv
<1>2. UNCHANGED Files!vars \/ Files!ReadOn(h, Files!ToRead(h, BLOCK_SIZE))
  <2>1. BLOCK_SIZE \in Nat /\ Files!Read(h, BLOCK_SIZE, ret)
    BY FilesAssumptions DEF Reads, Files!SizeAssumption
  <2>. QED
    BY <1>1, <2>1, FilesAssumptions, Files!ReadStays
<1>3. UNCHANGED <<d_name, d_inumber, i_size, i_data_block, fs_data, of_inumber>>
  BY <1>2 DEF Files!vars, Files!ReadOn, Files!inodeVars, Files!blockVars, Files!dirVars,
              Files!openVars
<1>4. \A g \in Files!Handles \ Files!FreeHandles : g # h => of_offset'[g] = of_offset[g]
  BY ReadKeepsFiles
<1>5. \A i : Files!Contents(i)' = Files!Contents(i)
  BY <1>3 DEF Files!Contents
<1>. QED
  BY <1>3, <1>4, <1>5, SameTablesKeepFiles DEF SameData

\* A file is a sequence of bytes that fits in a block.
LEMMA FileContents ==
  ASSUME FilesInv, process \in Broken, NEW n, NEW i, Files!FileIs(n, i)
  PROVE  /\ Files!Contents(i) \in Seq(Files!FileBytes)
         /\ Len(Files!Contents(i)) = i_size[i] /\ i_size[i] \in 0 .. BLOCK_SIZE
PROOF
<1>1. Files!IInv
  BY DEF FilesInv
<1>2. PICK s \in Files!UsedSlots : d_name[s] = n /\ d_inumber[s] = i
  BY DEF Files!FileIs
<1>3. i \in Files!Inodes
  BY <1>1, FileNumbers
<1>. QED
  BY <1>1, <1>2, <1>3, FilesAssumptions, Files!ContentsSeq DEF Files!IInv, Files!TypeOK

------------------------------------------------------------------------------
(* What a subscriber has of its box, and steps that leave it alone *)

Data(v) == Files!Contents(of_inumber[worker[v].handle])
Place(v) == of_offset[worker[v].handle]

OnlyBox(name) ==
    \A x, y \in Addresses : box_data[x].box_name = name /\ box_data[y].box_name = name => x = y

\* Where nothing has been sent to the subscriber, and nothing read.
Unread == {"s_check", "s_test", "s_replay"}
Unserved == Unread \cup {"subscribe", "s_open"}

\* The file that a subscriber reads is the one of its box.
SubLink(v) ==
    LET r == worker[v]
    IN  /\ r.pc \in Subscribing \cup {"s_open"} /\ r.box \in Addresses =>
             Box(v).box_name = r.new_box_name
        /\ r.pc \in Subscribing /\ r.handle >= 0 =>
             /\ Files!FileIs(r.new_box_name, of_inumber[r.handle])
             /\ r.pc \in Unread => Place(v) = 0
        /\ r.pc \in Subscribing \ {"s_check"} => r.handle >= 0 /\ r.box \in Addresses
        /\ r.pc \in Unserved => r.delivered = << >>

\* The messages that are in a box and not announced yet.
Pending(a) ==
    {worker[v].message : v \in {u \in Workers : worker[u].pc = "p_announce" /\ worker[u].box = a}}

\* A step of w that publishes nothing and moves no handle but h.
Calm(w, h) ==
    /\ \A v \in Workers \ {w} : worker'[v] = worker[v] /\ (v \in stale' <=> v \in stale)
    /\ worker[w].pc # "p_announce" /\ worker'[w].pc # "p_announce"
    /\ \A a \in Addresses : box_data[a].box_name # NoName =>
          box_data'[a].box_name = box_data[a].box_name /\ box_data'[a].box_size = box_data[a].box_size
    /\ overlapped \subseteq overlapped'
    /\ SameData(h) /\ (h = -1 \/ (HasHandle(w) /\ h = worker[w].handle))

LEMMA PendingStays ==
  ASSUME NEW w \in Workers, NEW h, Calm(w, h), NEW a
  PROVE  Pending(a)' = Pending(a)
PROOF
<1>1. \A v \in Workers : worker'[v] = worker[v] \/ (v = w /\ worker[v].pc # "p_announce" /\ worker'[v].pc # "p_announce")
  BY DEF Calm
<1>2. {u \in Workers : worker'[u].pc = "p_announce" /\ worker'[u].box = a} =
      {u \in Workers : worker[u].pc = "p_announce" /\ worker[u].box = a}
  BY <1>1
<1>3. \A u \in Workers : worker[u].pc = "p_announce" => worker'[u] = worker[u]
  BY <1>1
<1>. QED
  BY <1>2, <1>3 DEF Pending

SameSight(v) ==
    /\ worker'[v].new_box_name = worker[v].new_box_name
    /\ worker'[v].handle = worker[v].handle
    /\ worker'[v].box = worker[v].box

SameBoxOf(v) ==
    /\ Box(v)'.box_name = Box(v).box_name /\ Box(v)'.box_size = Box(v).box_size
    /\ \A a : Pending(a)' = Pending(a)

SameFileOf(v) ==
    /\ Data(v)' = Data(v)
    /\ of_inumber'[worker[v].handle] = of_inumber[worker[v].handle]
    /\ \A n, i : i = of_inumber[worker[v].handle] /\ Files!FileIs(n, i) => Files!FileIs(n, i)'

LEMMA BoxStays ==
  ASSUME NEW w \in Workers, NEW h, Calm(w, h), NEW v \in Workers, SameSight(v),
         worker[v].box \in Addresses, Box(v).box_name # NoName
  PROVE  SameBoxOf(v)
PROOF
<1>1. \A a : Pending(a)' = Pending(a)
  BY PendingStays
<1>. QED
  BY <1>1 DEF SameBoxOf, SameSight, Box, Calm

LEMMA FileStays ==
  ASSUME HandlesInv, NEW w \in Workers, NEW h, Calm(w, h), NEW v \in Workers, SameSight(v),
         HasHandle(v), NEW name, Files!FileIs(name, of_inumber[worker[v].handle])
  PROVE  SameFileOf(v) /\ (worker[v].handle # h => Place(v)' = Place(v))
PROOF
<1>1. PICK g : g = worker[v].handle
  OBVIOUS
<1>2. g \in Files!Handles \ Files!FreeHandles
  BY <1>1 DEF HandlesInv
<1>3. of_inumber'[g] = of_inumber[g] /\ (g # h => of_offset'[g] = of_offset[g])
  BY <1>2 DEF Calm, SameData
<1>4. \A n, i : Files!FileIs(n, i) =>
        Files!FileIs(n, i)' /\ Files!Contents(i)' = Files!Contents(i)
  BY DEF Calm, SameData
<1>5. Data(v)' = Data(v)
  BY <1>1, <1>3, <1>4 DEF Data, SameSight
<1>. QED
  BY <1>1, <1>3, <1>4, <1>5 DEF SameFileOf, SameSight, Place

\* Whose file and box are these: no other worker's handle, no other box.
LEMMA SubscriberHas ==
  ASSUME IInv, HandlesInv, NEW v \in Workers, SubLink(v), worker[v].pc \in Subscribing \ {"s_check"}
  PROVE  /\ HasHandle(v) /\ worker[v].handle \in Files!Handles \ Files!FreeHandles
         /\ worker[v].handle # -1
         /\ Files!FileIs(worker[v].new_box_name, of_inumber[worker[v].handle])
         /\ worker[v].box \in Addresses
         /\ Box(v).box_name = worker[v].new_box_name /\ Box(v).box_name # NoName
PROOF
<1>1. HasHandle(v) /\ worker[v].box \in Addresses
  BY DEF SubLink, HasHandle
<1>2. worker[v].pc \in InBox
  BY DEF Subscribing, SubscriberPCs, InBox
<1>3. worker[v].handle >= 0
  BY DEF SubLink
<1>4. worker[v].handle \in Files!Handles \ Files!FreeHandles
  BY <1>1 DEF HandlesInv
<1>5. worker[v].handle # -1
  BY <1>3, <1>4, FilesAssumptions DEF Files!Handles, Files!SizeAssumption
<1>. QED
  BY <1>1, <1>2, <1>3, <1>4, <1>5 DEF SubLink, IInv, Pointers

------------------------------------------------------------------------------
(* What a subscriber has been sent of the file of its box: c are the         *)
(* contents, off is its place there and r its locals                         *)

CaughtUp(r, off, c) == off = Len(c) /\ r.delivered = Text(c)

\* One message, m, is in the file and not read.
LagsBy(r, off, c, m) ==
    /\ m \in Range(Script) /\ m # << >>
    /\ Len(c) = off + Len(m) + 1
    /\ \A j \in 1 .. Len(m) : c[off + j] = m[j]
    /\ c[Len(c)] = NUL
    /\ Text(c) = Append(r.delivered, m)

IsBuffer(buffer) == (\E S : buffer \in Seq(S)) /\ Len(buffer) = BLOCK_SIZE

\* That message is in the buffer.
Pushing(r, off, c, m) ==
    /\ m \in Range(Script) /\ Len(m) < BLOCK_SIZE
    /\ off = Len(c) /\ IsBuffer(r.full_box_buffer)
    /\ \A j \in 1 .. Len(m) : r.full_box_buffer[j] = m[j]
    /\ r.full_box_buffer[Len(m) + 1] = NUL
    /\ Text(c) = Append(r.delivered, m)

Replaying(r, off, c) ==
    /\ off = Len(c)
    /\ \E S : r.delivered \in Seq(S) /\ r.replay \in Seq(S)
    /\ r.delivered \o r.replay = Text(c)

\* With Paced publishing, at most one message is ahead of the subscriber.
UpTo(r, size, off, c, pending) ==
    /\ r.pc = "s_send" => Replaying(r, off, c)
    /\ r.pc \in {"s_lock", "s_loop"} =>
         IF size = r.last_size THEN CaughtUp(r, off, c) ELSE \E m : LagsBy(r, off, c, m)
    /\ r.pc = "s_sleep" => CaughtUp(r, off, c)
    /\ r.pc = "s_wait" =>
         /\ \A m \in pending : LagsBy(r, off, c, m)
         /\ pending = {} => CaughtUp(r, off, c)
    /\ r.pc = "s_read" => \E m : LagsBy(r, off, c, m)
    /\ r.pc = "s_push" => size = r.last_size /\ \E m : Pushing(r, off, c, m)

\* Where there is something to say: nothing got in between the subscriber and
\* its box.
Good(v) ==
    LET name == worker[v].new_box_name
    IN  /\ worker[v].client = "here" /\ v \notin stale
        /\ name \notin overlapped /\ OnlyBox(name)
        /\ Len(Data(v)) < BLOCK_SIZE /\ ~ HasEmptyString(Data(v))

Streaming == {"s_send", "s_lock", "s_loop", "s_sleep", "s_wait", "s_read", "s_push"}

Stream(v) ==
    worker[v].pc \in Streaming /\ Good(v) =>
        \A a : a = worker[v].box =>
            UpTo(worker[v], Box(v).box_size, Place(v), Data(v), Pending(a))

\* What holds in the next state held before.
LEMMA GoodStays ==
  ASSUME NEW w \in Workers, NEW h, Calm(w, h), NEW v \in Workers, SameSight(v), Data(v)' = Data(v),
         worker[v].new_box_name # NoName,
         worker'[v].client = "here" => worker[v].client = "here", v \in stale => v \in stale',
         Good(v)'
  PROVE  Good(v)
PROOF
<1>1. PICK name : name = worker[v].new_box_name
  OBVIOUS
<1>2. OnlyBox(name)'
  BY <1>1 DEF Good, SameSight, OnlyBox
<1>3. OnlyBox(name)
  BY <1>1, <1>2 DEF OnlyBox, Calm
<1>4. PICK c : c = Data(v)
  OBVIOUS
<1>5. Data(v)' = c
  BY <1>4
<1>6. /\ worker'[v].client = "here" /\ v \notin stale' /\ name \notin overlapped'
      /\ Len(c) < BLOCK_SIZE /\ ~ HasEmptyString(c)
  BY <1>1, <1>5 DEF Good, SameSight
<1>. QED
  BY <1>1, <1>3, <1>4, <1>6 DEF Good, Calm

\* A subscriber that stays where it is has the same box and the same file.
LEMMA LinkStays ==
  ASSUME IInv, NEW w \in Workers, NEW h, Calm(w, h), HandlesInv, NEW v \in Workers,
         HasHandle(v) => worker[v].handle # h, SubLink(v), SameSight(v),
         worker'[v].pc = worker[v].pc, worker'[v].delivered = worker[v].delivered
  PROVE  /\ SubLink(v)'
         /\ worker[v].pc \in Subscribing \ {"s_check"} =>
              SameBoxOf(v) /\ SameFileOf(v) /\ Place(v)' = Place(v)
PROOF
<1>1. ASSUME worker[v].pc \in Subscribing \cup {"s_open"}, worker[v].box \in Addresses
      PROVE  SameBoxOf(v)
  <2>1. worker[v].pc \in InBox \cup Found
    BY <1>1 DEF Subscribing, SubscriberPCs, InBox, Found
  <2>2. Box(v).box_name # NoName
    BY <1>1, <2>1, AddressAssumption DEF IInv, Pointers
  <2>. QED
    BY <1>1, <2>2, BoxStays
<1>2. ASSUME worker[v].pc \in Subscribing, worker[v].handle >= 0
      PROVE  SameFileOf(v) /\ Place(v)' = Place(v)
  <2>1. HasHandle(v) /\ Files!FileIs(worker[v].new_box_name, of_inumber[worker[v].handle])
    BY <1>2 DEF HasHandle, SubLink
  <2>. QED
    BY <2>1, FileStays
<1>3. worker[v].pc \in Subscribing \cup {"s_open"} /\ worker[v].box \in Addresses =>
        Box(v)'.box_name = worker[v].new_box_name
  BY <1>1 DEF SubLink, SameBoxOf
<1>4. PICK n, i : n = worker[v].new_box_name /\ i = of_inumber[worker[v].handle]
  OBVIOUS
<1>5. worker[v].pc \in Subscribing /\ worker[v].handle >= 0 =>
        /\ Files!FileIs(n, i)' /\ of_inumber'[worker[v].handle] = i
        /\ worker[v].pc \in Unread => Place(v)' = 0
  BY <1>2, <1>4 DEF SubLink, SameFileOf
<1>6. SubLink(v)'
  BY <1>3, <1>4, <1>5 DEF SubLink, SameSight
<1>. QED
  BY <1>1, <1>2, <1>6 DEF SubLink

\* The subscribers on whom a step has no effect.
LEMMA OthersStay ==
  ASSUME IInv, HandlesInv, NEW w \in Workers, NEW h, Calm(w, h),
         NEW v \in Workers, v # w, SubLink(v), Stream(v)
  PROVE  SubLink(v)' /\ Stream(v)'
PROOF
<1>1. worker'[v] = worker[v] /\ SameSight(v)
  BY DEF Calm, SameSight
<1>2. HasHandle(v) => worker[v].handle # h
  BY FilesAssumptions DEF HandlesInv, Calm, Files!Handles, Files!SizeAssumption
<1>3. /\ SubLink(v)'
      /\ worker[v].pc \in Subscribing \ {"s_check"} =>
           SameBoxOf(v) /\ SameFileOf(v) /\ Place(v)' = Place(v)
  BY <1>1, <1>2, LinkStays
<1>4. Stream(v)'
  <2>. SUFFICES ASSUME worker'[v].pc \in Streaming, Good(v)', NEW a, a = worker'[v].box
                PROVE  UpTo(worker'[v], Box(v)'.box_size, Place(v)', Data(v)', Pending(a)')
    BY DEF Stream
  <2>1. worker[v].pc \in Streaming /\ worker[v].pc \in Subscribing \ {"s_check"}
    BY <1>1 DEF Streaming, Subscribing, SubscriberPCs
  <2>2. Box(v).box_name = worker[v].new_box_name /\ Box(v).box_name # NoName
    BY <2>1, SubscriberHas
  <2>3. SameBoxOf(v) /\ SameFileOf(v) /\ Place(v)' = Place(v)
    BY <1>3, <2>1
  <2>4. Good(v)
    <3>1. v \in stale => v \in stale'
      BY DEF Calm
    <3>. QED
      BY <1>1, <2>2, <2>3, <3>1, GoodStays DEF SameFileOf
  <2>5. UpTo(worker[v], Box(v).box_size, Place(v), Data(v), Pending(a))
    BY <1>1, <2>1, <2>4 DEF Stream
  <2>. QED
    BY <1>1, <2>3, <2>5 DEF SameBoxOf, SameFileOf
<1>. QED
  BY <1>3, <1>4

------------------------------------------------------------------------------
(* All steps but a publisher's write and announcement are calm. *)

LEMMA MovedCalm ==
  ASSUME NEW w \in Workers, Moved(w), worker[w].pc # "p_announce", worker'[w].pc # "p_announce",
         \A a \in Addresses : box_data'[a].box_size = box_data[a].box_size
  PROVE  Calm(w, -1)
PROOF
<1>1. UNCHANGED tables /\ overlapped' = overlapped /\ stale' = stale
  BY DEF Moved, SameFiles, history
<1>2. SameData(-1)
  BY <1>1, TablesSame
<1>. QED
  BY <1>1, <1>2 DEF Calm, Moved, MovedOn, SameBoxes

\* Neither publishes nor opens, reads, inserts or removes.
Plain(w) ==
    \/ PublisherFind(w) \/ PublisherCheck(w) \/ PublisherClaim(w) \/ PublisherRead(w)
    \/ PublisherLock(w) \/ PublisherRelease(w)
    \/ SubscriberFind(w) \/ SubscriberCheck(w) \/ SubscriberTest(w) \/ SubscriberSend(w)
    \/ SubscriberLast(w) \/ SubscriberLock(w) \/ SubscriberLoop(w) \/ SubscriberWait(w)
    \/ SubscriberPush(w) \/ SpuriousWakeup(w)
    \/ ManagerRespond(w) \/ ListLock(w) \/ ListSend(w) \/ ListUnlock(w) \/ ClientLeaves(w)
    \/ \E kind \in Kinds, name \in budget.names : Dequeue(w, kind, name)

LEMMA PlainSizes ==
  ASSUME IInv, Types, NEW w \in Workers, Plain(w)
  PROVE  \A a \in Addresses : box_data'[a].box_size = box_data[a].box_size
PROOF
<1>1. \/ box_data' = box_data
      \/ /\ worker[w].box \in Addresses
         /\ \/ box_data' = [box_data EXCEPT ![worker[w].box].n_publishers = 1]
            \/ box_data' = [box_data EXCEPT ![worker[w].box].n_publishers = 0]
            \/ box_data' = [box_data EXCEPT ![worker[w].box].box_condvar_lock = w]
            \/ box_data' = [box_data EXCEPT ![worker[w].box].box_condvar_lock = Nobody]
  <2>1. worker[w].pc \in {"p_claim", "p_release", "p_lock", "s_lock", "s_sleep"} =>
          worker[w].box \in Addresses
    BY DEF IInv, Pointers, InBox
  <2>2. CASE PublisherClaim(w) \/ PublisherRelease(w) \/ PublisherLock(w) \/ SubscriberLock(w)
             \/ SubscriberWait(w)
    BY <2>1, <2>2 DEF PublisherClaim, PublisherRelease, PublisherLock, SubscriberLock,
                      SubscriberWait, Lock, At
  <2>3. CASE PublisherFind(w) \/ PublisherCheck(w) \/ PublisherRead(w) \/ SubscriberFind(w)
             \/ SubscriberCheck(w) \/ SubscriberLast(w) \/ SubscriberLoop(w) \/ SpuriousWakeup(w)
    BY <2>3 DEF PublisherFind, PublisherCheck, PublisherRead, SubscriberFind, SubscriberCheck,
                SubscriberLast, SubscriberLoop, SpuriousWakeup, FindIt, Move, boxVars
  <2>4. CASE SubscriberTest(w) \/ SubscriberSend(w) \/ SubscriberPush(w)
    BY <2>4, Zenon DEF SubscriberTest, SubscriberSend, SubscriberPush, WriteToClient, boxVars
  <2>5. CASE ManagerRespond(w) \/ ListLock(w) \/ ListSend(w) \/ ListUnlock(w) \/ ClientLeaves(w)
    BY <2>5, Zenon DEF ManagerRespond, ListLock, ListSend, ListUnlock, ClientLeaves, RespondToManager,
                       boxVars
  <2>6. CASE \E kind \in Kinds, name \in budget.names : Dequeue(w, kind, name)
    BY <2>6 DEF Dequeue, boxVars
  <2>. QED
    BY <2>2, <2>3, <2>4, <2>5, <2>6, Zenon DEF Plain
<1>. QED
  BY <1>1 DEF IInv, Shape, BoxFields

LEMMA PlainMoves ==
  ASSUME IInv, Types, NEW w \in Workers, Plain(w)
  PROVE  Moved(w)
PROOF
<1>1. CASE \E kind \in Kinds, name \in budget.names : Dequeue(w, kind, name)
  BY <1>1, QuietDequeue
<1>. QED
  BY <1>1, QuietPublisher, QuietSubscriber, QuietManager, Zenon DEF Plain

\* Where a worker comes from and goes to.
LEMMA PlainLabels ==
  ASSUME IInv, Types, NEW w \in Workers, Plain(w)
  PROVE  worker[w].pc # "p_announce" /\ worker'[w].pc # "p_announce"
PROOF
<1>. USE DEF IInv, Shape, Fields, At, Goto, Move
<1>1. CASE PublisherFind(w) \/ PublisherCheck(w) \/ PublisherClaim(w) \/ PublisherRead(w)
           \/ PublisherLock(w) \/ PublisherRelease(w)
  BY <1>1 DEF PublisherFind, PublisherCheck, PublisherClaim, PublisherRead, PublisherLock,
              PublisherRelease, FindIt, Lock
<1>2. CASE SubscriberFind(w) \/ SubscriberCheck(w) \/ SubscriberLast(w) \/ SubscriberLock(w)
           \/ SubscriberLoop(w) \/ SubscriberWait(w) \/ SpuriousWakeup(w)
  BY <1>2 DEF SubscriberFind, SubscriberCheck, SubscriberLast, SubscriberLock, SubscriberLoop,
              SubscriberWait, SpuriousWakeup, FindIt, Lock
<1>3. CASE SubscriberTest(w) \/ SubscriberSend(w) \/ SubscriberPush(w)
  <2>1. worker[w].pc \in {"s_test", "s_send", "s_push"}
    BY <1>3, Zenon DEF SubscriberTest, SubscriberSend, SubscriberPush
  <2>2. Moved(w)
    BY PlainMoves
  <2>. QED
    BY <2>1, <2>2 DEF Moved, MovedOn, SameSession, Publishing, PublisherPCs
<1>4. CASE ManagerRespond(w) \/ ListLock(w) \/ ListSend(w) \/ ListUnlock(w) \/ ClientLeaves(w)
  BY <1>4 DEF ManagerRespond, ListLock, ListSend, ListUnlock, ClientLeaves, RespondToManager,
              SubscriberPCs, ManagerPCs
<1>5. CASE \E kind \in Kinds, name \in budget.names : Dequeue(w, kind, name)
  BY <1>5 DEF Dequeue, Kinds
<1>. QED
  BY <1>1, <1>2, <1>3, <1>4, <1>5, Zenon DEF Plain

LEMMA PlainCalm ==
  ASSUME IInv, Types, NEW w \in Workers, Plain(w)
  PROVE  Calm(w, -1)
PROOF
  BY PlainSizes, PlainMoves, PlainLabels, MovedCalm

LEMMA OpeningCalm ==
  ASSUME IInv, FilesInv, NEW w \in Workers,
         PublisherOpen(w) \/ SubscriberOpen(w) \/ ManagerCreate(w)
  PROVE  Calm(w, -1)
PROOF
<1>1. PICK name, ret : PublisherOpens(w, name, ret) \/ SubscriberOpens(w, name, ret)
                       \/ ManagerCreates(w, name, ret)
  BY OpeningSteps
<1>2. /\ \A v \in Workers \ {w} : worker'[v] = worker[v]
      /\ worker'[w].pc # "p_announce" /\ worker[w].pc # "p_announce"
  BY <1>1 DEF PublisherOpens, SubscriberOpens, ManagerCreates, IInv, Shape, Fields
<1>3. SameData(-1)
  BY <1>1, OpenSame DEF PublisherOpens, SubscriberOpens, ManagerCreates, OpenModes
<1>4. box_data' = box_data /\ overlapped \subseteq overlapped'
  BY <1>1 DEF PublisherOpens, SubscriberOpens, ManagerCreates, Overlap, boxVars
<1>5. stale' = stale
  BY Zenon DEF PublisherOpen, SubscriberOpen, OpenIt, ManagerCreate
<1>. QED
  BY <1>2, <1>3, <1>4, <1>5 DEF Calm

\* As long as no box is removed, a new one takes memory that has not been a box.
LEMMA InsertCalm ==
  ASSUME IInv, FullInv, removed = {}, NEW w \in Workers, ManagerInsert(w)
  PROVE  Calm(w, -1)
PROOF
<1>1. PICK a \in Malloc :
        box_data' = BoxesWith(box_list, box_data, a, NewBox(worker[w].new_box_name))
  BY Zenon DEF ManagerInsert
<1>2. /\ worker[w].pc = "c_insert" /\ worker' = [worker EXCEPT ![w].pc = "m_respond"]
      /\ UNCHANGED <<tables, overlapped, stale>>
  BY DEF ManagerInsert, At, Goto, fsVars, otherVars, history
<1>3. /\ \A v \in Workers \ {w} : worker'[v] = worker[v]
      /\ worker'[w].pc = "m_respond"
  BY <1>2 DEF IInv, Shape, Fields
<1>4. a \in Addresses /\ box_data[a].box_name = NoName
  BY <1>1 DEF Malloc, FullInv
<1>5. \A b \in Addresses \ {a} : box_data'[b] = box_data[b]
  BY <1>1, <1>4 DEF BoxesWith, IInv, Shape
<1>6. SameData(-1)
  BY <1>2, TablesSame
<1>. QED
  BY <1>2, <1>3, <1>4, <1>5, <1>6 DEF Calm

\* A removal that finds no file.
LEMMA RemoveCalm ==
  ASSUME IInv, FilesInv, removed' = {}, NEW w \in Workers, ManagerRemove(w)
  PROVE  Calm(w, -1) /\ worker'[w].pc = "m_respond"
PROOF
<1>1. PICK name, ret : ManagerUnlinks(w, name, ret)
  BY UnlinkingSteps
<1>2. /\ ret = -1 /\ UNCHANGED Files!vars
      /\ worker[w].pc = "remove"
      /\ worker' = [worker EXCEPT ![w].pc = IF ret = -1 THEN "m_respond" ELSE "r_delete"]
      /\ UNCHANGED <<boxVars, overlapped>>
  BY <1>1, UnlinkKeepsFiles DEF ManagerUnlinks
<1>3. /\ \A v \in Workers \ {w} : worker'[v] = worker[v]
      /\ worker'[w].pc = "m_respond"
  BY <1>2 DEF IInv, Shape, Fields
<1>4. stale' = stale
  BY Zenon DEF ManagerRemove
<1>5. UNCHANGED tables
  BY <1>2 DEF tables, Files!vars, Files!inodeVars, Files!blockVars, Files!dirVars, Files!openVars
<1>6. SameData(-1)
  BY <1>5, TablesSame
<1>. QED
  BY <1>2, <1>3, <1>4, <1>6 DEF Calm, boxVars

LEMMA ReadingCalm ==
  ASSUME IInv, Types, FilesInv, removed = {}, NEW w \in Workers, SubLink(w),
         SubscriberReplay(w) \/ SubscriberRead(w)
  PROVE  Calm(w, worker[w].handle)
PROOF
<1>1. PICK h, ret : SubscriberReads(w, h, ret)
  BY ReadingSteps
<1>2. /\ worker[w].pc \in {"s_replay", "s_read"} /\ h = worker[w].handle
      /\ Reads(h, ret) /\ MovedOn(w) /\ overlapped' = overlapped
  BY <1>1 DEF SubscriberReads
<1>3. HasHandle(w) /\ worker'[w].pc # "p_announce"
  BY <1>2 DEF SubLink, HasHandle, Subscribing, SubscriberPCs, MovedOn, SameSession, Publishing,
              PublisherPCs
<1>4. SameData(h)
  BY <1>2, ReadSame
<1>5. \A v \in Workers \ {w} : v \in stale' <=> v \in stale
  <2>1. stale' = stale \/ stale' = stale \ {w} \/ stale' = stale \cup {w}
    BY Zenon DEF SubscriberReplay, SubscriberRead, NoteStale, otherVars, history
  <2>. QED
    BY <2>1
<1>6. \A a \in Addresses : box_data'[a].box_size = box_data[a].box_size
  <2>1. \/ box_data' = box_data
        \/ box_data' = [box_data EXCEPT ![worker[w].box].box_condvar_lock = Nobody]
    BY Zenon DEF SubscriberReplay, SubscriberRead, boxVars
  <2>2. worker[w].box \in Addresses
    BY <1>2 DEF IInv, Pointers, InBox
  <2>. QED
    BY <2>1, <2>2 DEF IInv, Shape, BoxFields
<1>7. \A a \in Addresses : box_data'[a].box_name = box_data[a].box_name
  BY <1>2 DEF MovedOn, SameBoxes
<1>. QED
  BY <1>2, <1>3, <1>4, <1>5, <1>6, <1>7 DEF Calm, MovedOn

------------------------------------------------------------------------------
(* What a subscriber's steps make of its locals *)

LEMMA BlockSize ==
  BLOCK_SIZE \in Nat \ {0}
PROOF
  BY FileSystemAssumption DEF FS!SizeAssumption

\* What was read is at the front of the buffer.
Filled(after, buffer, data, n) ==
    /\ IsBuffer(after)
    /\ \A k \in 1 .. n : after[k] = data[k]
    /\ \A k \in n + 1 .. BLOCK_SIZE : after[k] = buffer[k]

LEMMA OverwrittenIs ==
  ASSUME NEW buffer, DOMAIN buffer = 1 .. BLOCK_SIZE, NEW n \in 0 .. BLOCK_SIZE,
         NEW data, DOMAIN data = 1 .. n
  PROVE  Filled(Overwritten(buffer, data), buffer, data, n)
PROOF
<1>1. PICK after : after = Overwritten(buffer, data)
  OBVIOUS
<1>3. after = [k \in 1 .. BLOCK_SIZE |-> IF k \in 1 .. n THEN data[k] ELSE buffer[k]]
  BY <1>1 DEF Overwritten
<1>4. PICK S : S = {after[k] : k \in 1 .. BLOCK_SIZE}
  OBVIOUS
<1>5. after = [k \in 1 .. BLOCK_SIZE |-> after[k]] /\ \A k \in 1 .. BLOCK_SIZE : after[k] \in S
  BY <1>3, <1>4
<1>6. BLOCK_SIZE \in Nat
  BY BlockSize
<1>7. after \in Seq(S) /\ Len(after) = BLOCK_SIZE
  BY <1>5, <1>6, FilesAssumptions, Files!FunctionSeq, Zenon
<1>8. /\ \A k \in 1 .. n : after[k] = data[k]
      /\ \A k \in n + 1 .. BLOCK_SIZE : after[k] = buffer[k]
  BY <1>3, <1>6
<1>. QED
  BY <1>1, <1>7, <1>8 DEF IsBuffer, Filled

LEMMA MemoryIs ==
  ASSUME NEW buffer, IsBuffer(buffer), NEW beyond \in Beyond
  PROVE  LET memory == buffer \o beyond
         IN  /\ \E S : memory \in Seq(S)
             /\ Len(memory) \in Nat /\ Len(memory) > BLOCK_SIZE
             /\ \A k \in 1 .. BLOCK_SIZE : memory[k] = buffer[k]
PROOF
<1>1. PICK S : buffer \in Seq(S)
  BY DEF IsBuffer
<1>2. PICK T : T = S \cup Range(beyond)
  OBVIOUS
<1>3. buffer \in Seq(T) /\ beyond \in Seq(T)
  <2>1. beyond \in Seq(Range(beyond))
    BY StackAssumption
  <2>. QED
    BY <1>1, <1>2, <2>1
<1>4. Len(buffer) = BLOCK_SIZE /\ Len(beyond) > 1
  BY StackAssumption DEF IsBuffer
<1>5. PICK memory : memory = buffer \o beyond
  OBVIOUS
<1>6. /\ memory \in Seq(T) /\ Len(memory) = Len(buffer) + Len(beyond)
      /\ \A i \in 1 .. Len(buffer) + Len(beyond) :
            memory[i] = IF i <= Len(buffer) THEN buffer[i] ELSE beyond[i - Len(buffer)]
  BY <1>3, <1>5, ConcatProperties
<1>7. Len(beyond) \in Nat
  BY <1>3
<1>8. /\ Len(memory) \in Nat /\ Len(memory) > BLOCK_SIZE
      /\ \A k \in 1 .. BLOCK_SIZE : memory[k] = buffer[k]
  BY <1>4, <1>6, <1>7, BlockSize
<1>. QED
  BY <1>5, <1>6, <1>8

\* SubscriberReplay of a file that ends where the buffer has NUL.
LEMMA ReplayedIs ==
  ASSUME NEW S, NEW c \in Seq(S), Ended(c), ~ HasEmptyString(c), Len(c) < BLOCK_SIZE,
         NEW buffer, DOMAIN buffer = 1 .. BLOCK_SIZE, buffer[Len(c) + 1] = NUL,
         NEW data, data = [k \in 1 .. Len(c) |-> c[k]], NEW beyond \in Beyond
  PROVE  Strings(Overwritten(buffer, data) \o beyond) = Text(c)
PROOF
<1>1. PICK n, after : n = Len(c) /\ after = Overwritten(buffer, data)
  OBVIOUS
<1>2. n \in 0 .. BLOCK_SIZE /\ n + 1 \in n + 1 .. BLOCK_SIZE /\ n + 1 \in 1 .. BLOCK_SIZE
  BY <1>1, BlockSize
<1>3. DOMAIN data = 1 .. n /\ \A k \in 1 .. n : data[k] = c[k]
  BY <1>1
<1>4. /\ IsBuffer(after) /\ \A k \in 1 .. n : after[k] = data[k]
      /\ \A k \in n + 1 .. BLOCK_SIZE : after[k] = buffer[k]
  <2>1. Filled(Overwritten(buffer, data), buffer, data, n)
    BY <1>2, <1>3, OverwrittenIs
  <2>. QED
    BY <1>1, <2>1 DEF Filled
<1>5. PICK memory : memory = after \o beyond
  OBVIOUS
<1>6. /\ \E T : memory \in Seq(T)
      /\ Len(memory) \in Nat /\ Len(memory) > BLOCK_SIZE
      /\ \A k \in 1 .. BLOCK_SIZE : memory[k] = after[k]
  BY <1>4, <1>5, MemoryIs, Zenon
<1>7. PICK T : memory \in Seq(T)
  BY <1>6
<1>8. memory \in Seq(S \cup T) /\ c \in Seq(S \cup T)
  BY <1>7
<1>9. Continues(memory, c)
  BY <1>1, <1>2, <1>3, <1>4, <1>6, BlockSize DEF Continues
<1>10. memory[Len(c) + 1] = NUL
  BY <1>1, <1>2, <1>4, <1>6
<1>11. Strings(memory) = Text(c)
  BY <1>6, <1>8, <1>9, <1>10, TextOfMemory
<1>. QED
  BY <1>1, <1>5, <1>11

\* SubscriberPush: the first string of the buffer.
LEMMA PushedIs ==
  ASSUME NEW m \in Range(Script), Len(m) < BLOCK_SIZE, NEW buffer, IsBuffer(buffer),
         \A j \in 1 .. Len(m) : buffer[j] = m[j], buffer[Len(m) + 1] = NUL, NEW beyond \in Beyond
  PROVE  FirstString(buffer \o beyond, 1, BLOCK_SIZE - 1) = m
PROOF
<1>1. m \in Seq(Range(m)) /\ NUL \notin Range(m) /\ Len(m) \in Nat
  BY ScriptAssumption
<1>2. \A j \in 1 .. Len(m) : m[j] \in Range(m)
  BY <1>1
<1>3. PICK memory : memory = buffer \o beyond
  OBVIOUS
<1>4. /\ \E T : memory \in Seq(T)
      /\ Len(memory) \in Nat /\ Len(memory) > BLOCK_SIZE
      /\ \A k \in 1 .. BLOCK_SIZE : memory[k] = buffer[k]
  BY <1>3, MemoryIs, Zenon
<1>5. PICK T : memory \in Seq(T)
  BY <1>4
<1>6. PICK e : e = Len(m) + 1
  OBVIOUS
<1>7. /\ 1 \in 1 .. Len(memory) /\ e \in 1 .. Len(memory) /\ e \in 1 .. BLOCK_SIZE
      /\ e - 1 = Len(m)
  BY <1>1, <1>4, <1>6, BlockSize
<1>8. \A j \in 1 .. Len(m) : j \in 1 .. BLOCK_SIZE /\ memory[j] = m[j] /\ m[j] # NUL
  BY <1>1, <1>2, <1>4, BlockSize
<1>9. memory[e] = NUL /\ \A j \in 1 .. e - 1 : memory[j] # NUL
  BY <1>4, <1>6, <1>7, <1>8
<1>10. StringAt(memory, 1) = SubSeq(memory, 1, e - 1)
  BY <1>5, <1>7, <1>9, StringIs
<1>11. PICK s : s = SubSeq(memory, 1, e - 1)
  OBVIOUS
<1>12. s \in Seq(T) /\ Len(s) = Len(m) /\ \A j \in 1 .. Len(m) : s[j] = memory[j]
  <2>1. \A j \in 1 .. e - 1 : memory[j] \in T
    BY <1>5, <1>7
  <2>2. /\ s \in Seq(T) /\ Len(s) = (IF 1 <= e - 1 THEN e - 1 - 1 + 1 ELSE 0)
        /\ \A j \in 1 .. e - 1 - 1 + 1 : s[j] = memory[1 + j - 1]
    BY <1>7, <1>11, <2>1, SubSeqProperties
  <2>3. \A j \in 1 .. Len(m) : 1 + j - 1 = j
    BY <1>1
  <2>. QED
    BY <1>1, <1>7, <2>2, <2>3
<1>13. s = m
  BY <1>1, <1>8, <1>12, SeqEqual
<1>14. StringAt(memory, 1) = m
  BY <1>10, <1>11, <1>13
<1>15. ~ (Len(m) > BLOCK_SIZE - 1)
  BY <1>1, BlockSize
<1>. QED
  BY <1>3, <1>14, <1>15 DEF FirstString

\* SubscriberRead of the message that is ahead.
LEMMA ReadIs ==
  ASSUME NEW r, NEW after, NEW off \in Nat, NEW S, NEW c \in Seq(S), NEW m, LagsBy(r, off, c, m),
         Len(c) < BLOCK_SIZE, DOMAIN r.full_box_buffer = 1 .. BLOCK_SIZE,
         NEW data, data = [k \in 1 .. Len(c) - off |-> c[off + k]],
         after.delivered = r.delivered, after.full_box_buffer = Overwritten(r.full_box_buffer, data)
  PROVE  Pushing(after, Len(c), c, m)
PROOF
<1>1. PICK buffer, filled : buffer = r.full_box_buffer /\ filled = after.full_box_buffer
  OBVIOUS
<1>2. m \in Range(Script) /\ Len(m) \in Nat /\ Len(c) = off + Len(m) + 1
  BY ScriptAssumption DEF LagsBy
<1>3. PICK n : n = Len(m) + 1
  OBVIOUS
<1>4. /\ n \in 0 .. BLOCK_SIZE /\ Len(c) - off = n /\ n \in 1 .. n /\ off + n = Len(c)
      /\ \A j \in 1 .. Len(m) : j \in 1 .. n
  BY <1>2, <1>3, BlockSize
<1>5. DOMAIN data = 1 .. n /\ \A k \in 1 .. n : data[k] = c[off + k]
  BY <1>4
<1>6. DOMAIN buffer = 1 .. BLOCK_SIZE /\ filled = Overwritten(buffer, data)
  BY <1>1
<1>7. IsBuffer(filled) /\ \A k \in 1 .. n : filled[k] = data[k]
  <2>1. Filled(Overwritten(buffer, data), buffer, data, n)
    BY <1>4, <1>5, <1>6, OverwrittenIs
  <2>. QED
    BY <1>6, <2>1 DEF Filled
<1>8. \A j \in 1 .. Len(m) : filled[j] = m[j]
  BY <1>4, <1>5, <1>7 DEF LagsBy
<1>9. filled[n] = NUL
  BY <1>4, <1>5, <1>7 DEF LagsBy
<1>10. Len(m) < BLOCK_SIZE
  BY <1>2, BlockSize
<1>. QED
  BY <1>1, <1>2, <1>3, <1>7, <1>8, <1>9, <1>10 DEF Pushing, LagsBy

\* SubscriberSend: one string moves from what is left to what has been sent.
LEMMA SentIs ==
  ASSUME NEW S, NEW d \in Seq(S), NEW t \in Seq(S), t # << >>
  PROVE  /\ Append(d, Head(t)) \in Seq(S) /\ Tail(t) \in Seq(S)
         /\ Append(d, Head(t)) \o Tail(t) = d \o t
PROOF
<1>1. Head(t) \in S /\ Tail(t) \in Seq(S)
  BY HeadTailProperties
<1>2. Append(d, Head(t)) = d \o << Head(t) >>
  BY <1>1, AppendIsConcat
<1>3. << Head(t) >> \in Seq(S)
  BY <1>1
<1>4. (d \o << Head(t) >>) \o Tail(t) = d \o (<< Head(t) >> \o Tail(t))
  BY <1>1, <1>3, ConcatAssociative
<1>5. << Head(t) >> \o Tail(t) = t
  <2>1. PICK h, u, s : h = << Head(t) >> /\ u = Tail(t) /\ s = h \o u
    OBVIOUS
  <2>2. /\ h \in Seq(S) /\ Len(h) = 1 /\ h[1] = t[1]
        /\ u \in Seq(S) /\ Len(u) = Len(t) - 1 /\ \A i \in 1 .. Len(u) : u[i] = t[i + 1]
    BY <1>1, <1>3, <2>1, HeadTailProperties
  <2>3. /\ s \in Seq(S) /\ Len(s) = Len(h) + Len(u)
        /\ \A i \in 1 .. Len(h) + Len(u) : s[i] = IF i <= Len(h) THEN h[i] ELSE u[i - Len(h)]
    BY <2>1, <2>2, ConcatProperties
  <2>4. Len(t) \in Nat \ {0}
    OBVIOUS
  <2>5. \A i \in 1 .. Len(t) : s[i] = t[i]
    <3>. SUFFICES ASSUME NEW i \in 1 .. Len(t) PROVE s[i] = t[i]
      OBVIOUS
    <3>1. CASE i = 1
      BY <2>2, <2>3, <2>4, <3>1
    <3>2. CASE i # 1
      <4>1. i - 1 \in 1 .. Len(u) /\ (i - 1) + 1 = i
        BY <2>2, <2>4, <3>2
      <4>2. u[i - 1] = t[i]
        BY <2>2, <4>1
      <4>3. s[i] = u[i - 1]
        BY <2>2, <2>3, <2>4, <3>2
      <4>. QED
        BY <4>2, <4>3
    <3>. QED
      BY <3>1, <3>2
  <2>6. s = t
    BY <2>2, <2>3, <2>4, <2>5, SeqEqual
  <2>. QED
    BY <2>1, <2>6
<1>. QED
  BY <1>1, <1>2, <1>4, <1>5, AppendProperties

------------------------------------------------------------------------------
(* The steps of a subscriber itself *)

LEMMA PacedNone ==
  ASSUME Paced, NEW w \in Workers, Awake(w), NEW a, a = worker[w].box
  PROVE  Pending(a) = {}
PROOF
  BY DEF Pending, Paced

\* A step inside the session after the check.
LEMMA Onward ==
  ASSUME IInv, HandlesInv, NEW w \in Workers, Calm(w, -1), SubLink(w), SameSight(w),
         worker[w].pc \in Subscribing \ {"s_check"}, worker'[w].pc # "s_check",
         worker'[w].pc \in Unread => worker[w].pc \in Unread,
         worker'[w].pc \in Unserved => worker'[w].delivered = << >>
  PROVE  SubLink(w)' /\ SameBoxOf(w) /\ SameFileOf(w) /\ Place(w)' = Place(w)
PROOF
<1>1. /\ HasHandle(w) /\ worker[w].handle # -1
      /\ Files!FileIs(worker[w].new_box_name, of_inumber[worker[w].handle])
      /\ worker[w].box \in Addresses
      /\ Box(w).box_name = worker[w].new_box_name /\ Box(w).box_name # NoName
  BY SubscriberHas
<1>2. SameBoxOf(w)
  BY <1>1, BoxStays
<1>3. SameFileOf(w) /\ Place(w)' = Place(w)
  BY <1>1, FileStays
<1>4. PICK n, i : n = worker[w].new_box_name /\ i = of_inumber[worker[w].handle]
  OBVIOUS
<1>5. Files!FileIs(n, i)' /\ of_inumber'[worker[w].handle] = i /\ worker[w].handle >= 0
  BY <1>1, <1>3, <1>4 DEF SameFileOf, SubLink
<1>6. Box(w)'.box_name = n
  BY <1>1, <1>2, <1>4 DEF SameBoxOf
<1>7. worker'[w].pc \in Unread => Place(w)' = 0
  BY <1>3, <1>5 DEF SubLink
<1>8. SubLink(w)'
  BY <1>1, <1>4, <1>5, <1>6, <1>7 DEF SubLink, SameSight
<1>. QED
  BY <1>2, <1>3, <1>8

LEMMA StreamOnward ==
  ASSUME IInv, HandlesInv, NEW w \in Workers, Calm(w, -1), SubLink(w), SameSight(w), stale' = stale,
         worker[w].pc \in Subscribing \ {"s_check"}, worker'[w].pc # "s_check",
         worker'[w].pc \in Unread => worker[w].pc \in Unread,
         worker'[w].pc \in Unserved => worker'[w].delivered = << >>,
         worker'[w].client = "here" => worker[w].client = "here",
         \A a : /\ a = worker[w].box /\ Good(w)
                /\ worker'[w].pc \in Streaming /\ worker'[w].client = "here"
                => UpTo(worker'[w], Box(w).box_size, Place(w), Data(w), Pending(a))
  PROVE  SubLink(w)' /\ Stream(w)'
PROOF
<1>1. SubLink(w)' /\ SameBoxOf(w) /\ SameFileOf(w) /\ Place(w)' = Place(w)
  BY Onward
<1>2. Stream(w)'
  <2>. SUFFICES ASSUME worker'[w].pc \in Streaming, Good(w)', NEW a, a = worker'[w].box
                PROVE  UpTo(worker'[w], Box(w)'.box_size, Place(w)', Data(w)', Pending(a)')
    BY DEF Stream
  <2>1. Box(w).box_name = worker[w].new_box_name /\ Box(w).box_name # NoName
    BY SubscriberHas
  <2>2. Good(w)
    BY <1>1, <2>1, GoodStays DEF SameFileOf
  <2>3. worker'[w].client = "here"
    BY DEF Good
  <2>4. UpTo(worker'[w], Box(w).box_size, Place(w), Data(w), Pending(a))
    BY <2>2, <2>3 DEF SameSight
  <2>. QED
    BY <1>1, <2>4 DEF SameBoxOf, SameFileOf
<1>. QED
  BY <1>1, <1>2

\* The worker has left its subscriber's session, or begins one.
LEMMA ElsewhereStays ==
  ASSUME NEW w \in Workers,
         \/ worker'[w].pc \notin SubscriberPCs
         \/ worker'[w].pc = "subscribe" /\ worker'[w].delivered = << >>
  PROVE  SubLink(w)' /\ Stream(w)'
PROOF
<1>1. worker'[w].pc \notin Subscribing \cup {"s_open"} /\ worker'[w].pc \notin Streaming
  BY DEF Subscribing, SubscriberPCs, Streaming
<1>2. worker'[w].pc \in Unserved => worker'[w].delivered = << >>
  BY DEF Unserved, Unread, SubscriberPCs
<1>. QED
  BY <1>1, <1>2, Zenon DEF SubLink, Stream

LEMMA WrittenIs ==
  ASSUME IInv, NEW w \in Workers, NEW sent, NEW failed, WriteToClient(w, sent, failed)
  PROVE  \/ worker[w].client = "here" /\ worker'[w] = sent
         \/ worker[w].client = "gone" /\ (worker'[w] = failed \/ worker'[w] = worker[w])
PROOF
  BY DEF WriteToClient, IInv, Shape

\* Before the loop: the box is found, the file is open.
LEMMA EarlyStepsStay ==
  ASSUME IInv, Types, HandlesInv, NEW w \in Workers, SubLink(w),
         SubscriberFind(w) \/ SubscriberCheck(w) \/ SubscriberTest(w)
  PROVE  SubLink(w)' /\ Stream(w)'
PROOF
<1>0. Plain(w) /\ Calm(w, -1) /\ stale' = stale
  <2>1. Plain(w)
    BY DEF Plain
  <2>. QED
    BY <2>1, PlainCalm, PlainMoves DEF Moved, SameFiles, history
<1>1. CASE SubscriberFind(w)
  <2>1. /\ worker[w].pc = "subscribe" /\ box_data' = box_data
        /\ worker'[w].pc = "s_open" /\ worker'[w].new_box_name = worker[w].new_box_name
        /\ worker'[w].delivered = worker[w].delivered
        /\ worker'[w].box = FindBox(box_list, box_data, worker[w].new_box_name)
    BY <1>1 DEF SubscriberFind, FindIt, At, boxVars, IInv, Shape, Fields
  <2>2. worker'[w].box \in Addresses => box_data[worker'[w].box].box_name = worker[w].new_box_name
    BY <2>1, FindBoxResult, AddressAssumption
  <2>. QED
    BY <2>1, <2>2 DEF SubLink, Stream, Box, Unread, Unserved, Subscribing, SubscriberPCs, Streaming
<1>2. CASE SubscriberCheck(w)
  <2>1. /\ worker[w].pc = "s_check"
        /\ worker' = [worker EXCEPT ![w].pc =
               IF worker[w].box # NULL /\ worker[w].handle > 0 THEN "s_test" ELSE "dequeue"]
    BY <1>2 DEF SubscriberCheck, Move, At, Goto
  <2>2. CASE ~ (worker[w].box # NULL /\ worker[w].handle > 0)
    <3>1. worker'[w].pc = "dequeue"
      BY <2>1, <2>2 DEF IInv, Shape, Fields
    <3>. QED
      BY <3>1, ElsewhereStays DEF SubscriberPCs
  <2>3. CASE worker[w].box # NULL /\ worker[w].handle > 0
    <3>1. worker'[w].pc = "s_test" /\ SameSight(w) /\ worker'[w].delivered = worker[w].delivered
      BY <2>1, <2>3 DEF IInv, Shape, Fields, SameSight
    <3>2. worker[w].box \in Addresses
      BY <2>3 DEF Types, WorkerTypes
    <3>3. worker[w].pc \in Subscribing /\ worker[w].pc \in Found /\ worker[w].pc \in Unread
      BY <2>1 DEF Subscribing, SubscriberPCs, Found, Unread
    <3>4. worker[w].handle >= 0 /\ HasHandle(w) /\ worker[w].handle # -1
      <4>1. worker[w].handle \in Int
        BY FilesAssumptions, SameSets DEF Types, WorkerTypes, Files!Handles, Files!SizeAssumption
      <4>2. \A k \in Int : k > 0 => k >= 0 /\ k # -1
        OBVIOUS
      <4>. QED
        BY <2>3, <3>3, <4>1, <4>2 DEF HasHandle
    <3>5. PICK n, i : n = worker[w].new_box_name /\ i = of_inumber[worker[w].handle]
      OBVIOUS
    <3>6. Files!FileIs(n, i) /\ Place(w) = 0 /\ Box(w).box_name = n /\ worker[w].delivered = << >>
      BY <3>2, <3>3, <3>4, <3>5 DEF SubLink, Unserved
    <3>7. SameFileOf(w) /\ Place(w)' = Place(w)
      BY <1>0, <3>1, <3>4, <3>5, <3>6, FileStays
    <3>8. SameBoxOf(w)
      <4>1. Box(w).box_name # NoName
        BY <3>2, <3>3, AddressAssumption DEF IInv, Pointers
      <4>. QED
        BY <1>0, <3>1, <3>2, <4>1, BoxStays
    <3>9. Files!FileIs(n, i)' /\ of_inumber'[worker[w].handle] = i
      BY <3>5, <3>6, <3>7 DEF SameFileOf
    <3>10. Box(w)'.box_name = n
      BY <3>6, <3>8 DEF SameBoxOf
    <3>11. SubLink(w)'
      BY <3>1, <3>2, <3>4, <3>5, <3>6, <3>7, <3>9, <3>10 DEF SubLink, SameSight
    <3>12. Stream(w)'
      BY <3>1 DEF Stream, Streaming
    <3>. QED
      BY <3>11, <3>12
  <2>. QED
    BY <2>2, <2>3
<1>3. CASE SubscriberTest(w)
  <2>. DEFINE next == [worker[w] EXCEPT !.pc = "s_replay"]
  <2>1. worker[w].pc = "s_test" /\ WriteToClient(w, next, next)
    BY <1>3, Zenon DEF SubscriberTest, At
  <2>2. /\ next.pc = "s_replay" /\ next.box = worker[w].box /\ next.handle = worker[w].handle
        /\ next.new_box_name = worker[w].new_box_name /\ next.delivered = worker[w].delivered
        /\ next.client = worker[w].client
    BY DEF IInv, Shape, Fields
  <2>. HIDE DEF next
  <2>3. worker'[w] = next \/ worker'[w] = worker[w]
    BY <2>1, WrittenIs
  <2>4. worker[w].pc \in Unread /\ worker'[w].pc \in Unread \ {"s_check"}
    BY <2>1, <2>2, <2>3 DEF Unread
  <2>5. SameSight(w) /\ worker'[w].client = worker[w].client
    BY <2>2, <2>3 DEF SameSight
  <2>6. worker'[w].delivered = << >>
    BY <2>2, <2>3, <2>4 DEF SubLink, Unserved
  <2>7. worker[w].pc \in Subscribing \ {"s_check"} /\ worker'[w].pc \notin Streaming /\ worker'[w].pc # "s_check"
    BY <2>1, <2>4 DEF Subscribing, SubscriberPCs, Streaming, Unread
  <2>8. worker'[w].pc \in Unread
    BY <2>4
  <2>. QED
    BY <1>0, <2>4, <2>5, <2>6, <2>7, StreamOnward
<1>. QED
  BY <1>1, <1>2, <1>3

\* A step of the loop: the worker keeps its box and its client, or the client has
\* gone.
LoopStep(w, from) ==
    /\ Plain(w) /\ worker[w].pc = from
    /\ SameSight(w)
    /\ worker'[w].client = "here" => worker[w].client = "here"
    /\ worker'[w].pc \in Streaming \cup {"dequeue"}

LEMMA LoopStepStays ==
  ASSUME IInv, Types, HandlesInv, NEW w \in Workers, SubLink(w), Stream(w),
         NEW from \in Streaming, LoopStep(w, from),
         \A a : /\ a = worker[w].box
                /\ UpTo(worker[w], Box(w).box_size, Place(w), Data(w), Pending(a))
                /\ worker'[w].pc \in Streaming /\ worker'[w].client = "here"
                => UpTo(worker'[w], Box(w).box_size, Place(w), Data(w), Pending(a))
  PROVE  SubLink(w)' /\ Stream(w)'
PROOF
<1>1. Calm(w, -1) /\ stale' = stale
  BY PlainCalm, PlainMoves DEF LoopStep, Moved, SameFiles, history
<1>2. worker[w].pc \in Subscribing \ {"s_check"} /\ worker[w].pc \in Streaming
  BY DEF LoopStep, Streaming, Subscribing, SubscriberPCs
<1>3. worker'[w].pc # "s_check" /\ worker'[w].pc \notin Unserved /\ worker'[w].pc \notin Unread
  BY DEF LoopStep, Streaming, Unserved, Unread
<1>4. \A a : a = worker[w].box /\ Good(w) => UpTo(worker[w], Box(w).box_size, Place(w), Data(w), Pending(a))
  BY <1>2 DEF Stream
<1>5. SameSight(w) /\ (worker'[w].client = "here" => worker[w].client = "here")
  BY DEF LoopStep
<1>. QED
  BY <1>1, <1>2, <1>3, <1>4, <1>5, StreamOnward

\* What the client has been sent and what is left are sequences: see SentIs.
LEMMA SendStays ==
  ASSUME IInv, Types, HandlesInv, NEW w \in Workers, SubLink(w), Stream(w), SubscriberSend(w)
  PROVE  SubLink(w)' /\ Stream(w)'
PROOF
<1>. DEFINE rest == [worker[w] EXCEPT !.replay = Tail(@)]
            sent == [rest EXCEPT !.delivered = Append(@, Head(worker[w].replay))]
<1>1. worker[w].pc = "s_send" /\ worker[w].replay # << >> /\ WriteToClient(w, sent, rest)
  BY Zenon DEF SubscriberSend, At
<1>2. /\ DOMAIN rest = Fields
      /\ rest.pc = "s_send" /\ rest.box = worker[w].box /\ rest.handle = worker[w].handle
      /\ rest.new_box_name = worker[w].new_box_name /\ rest.delivered = worker[w].delivered
      /\ rest.client = worker[w].client /\ rest.replay = Tail(worker[w].replay)
  BY <1>1 DEF IInv, Shape, Fields
<1>3. /\ sent.pc = "s_send" /\ sent.box = worker[w].box /\ sent.handle = worker[w].handle
      /\ sent.new_box_name = worker[w].new_box_name /\ sent.client = worker[w].client
      /\ sent.delivered = Append(worker[w].delivered, Head(worker[w].replay))
      /\ sent.replay = Tail(worker[w].replay)
  <2>. HIDE DEF rest
  <2>. QED
    BY <1>2 DEF Fields
<1>. HIDE DEF rest, sent
<1>4. \/ worker[w].client = "here" /\ worker'[w] = sent
      \/ worker[w].client = "gone" /\ (worker'[w] = rest \/ worker'[w] = worker[w])
  BY <1>1, WrittenIs
<1>5. LoopStep(w, "s_send")
  <2>1. Plain(w)
    BY DEF Plain
  <2>2. SameSight(w) /\ worker'[w].client = worker[w].client /\ worker'[w].pc = "s_send"
    BY <1>1, <1>2, <1>3, <1>4 DEF SameSight
  <2>. QED
    BY <1>1, <2>1, <2>2 DEF LoopStep, Streaming
<1>6. ASSUME NEW size, NEW off, NEW c, NEW pending, UpTo(worker[w], size, off, c, pending),
             worker'[w].client = "here"
      PROVE  UpTo(worker'[w], size, off, c, pending)
  <2>1. worker'[w] = sent
    BY <1>2, <1>4, <1>6
  <2>2. Replaying(worker[w], off, c)
    BY <1>1, <1>6 DEF UpTo
  <2>3. PICK d, t : d = worker[w].delivered /\ t = worker[w].replay
    OBVIOUS
  <2>4. off = Len(c) /\ (\E S : d \in Seq(S) /\ t \in Seq(S)) /\ d \o t = Text(c)
    BY <2>2, <2>3 DEF Replaying
  <2>5. PICK S : d \in Seq(S) /\ t \in Seq(S)
    BY <2>4
  <2>6. /\ Append(d, Head(t)) \in Seq(S) /\ Tail(t) \in Seq(S)
        /\ Append(d, Head(t)) \o Tail(t) = d \o t
    <3>1. t # << >>
      BY <1>1, <2>3
    <3>. QED
      BY <2>5, <3>1, SentIs
  <2>7. Replaying(sent, off, c)
    BY <1>3, <2>3, <2>4, <2>6 DEF Replaying
  <2>. QED
    BY <1>3, <2>1, <2>7 DEF UpTo
<1>. QED
  BY <1>5, <1>6, LoopStepStays DEF Streaming

LEMMA LoopStays ==
  ASSUME IInv, Types, HandlesInv, Paced, Paced', reinitialised = {},
         NEW w \in Workers, SubLink(w), Stream(w),
         \/ SubscriberLast(w) \/ SubscriberLock(w) \/ SubscriberLoop(w) \/ SubscriberWait(w)
         \/ SpuriousWakeup(w)
  PROVE  SubLink(w)' /\ Stream(w)'
PROOF
<1>. DEFINE r == worker[w]
            after == worker'[w]
<1>1. CASE SubscriberLast(w)
  <2>1. /\ r.pc = "s_send" /\ r.replay = << >>
        /\ after.pc = "s_lock" /\ after.last_size = Box(w).box_size
        /\ after.delivered = r.delivered /\ after.client = r.client
        /\ SameSight(w) /\ Plain(w)
    BY <1>1 DEF SubscriberLast, At, IInv, Shape, Fields, SameSight, Plain
  <2>. HIDE DEF r, after
  <2>2. LoopStep(w, "s_send")
    BY <2>1 DEF LoopStep, Streaming, r, after
  <2>3. ASSUME NEW off, NEW c, NEW pending, UpTo(r, Box(w).box_size, off, c, pending)
        PROVE  UpTo(after, Box(w).box_size, off, c, pending)
    <3>1. Replaying(r, off, c)
      BY <2>1, <2>3 DEF UpTo
    <3>2. PICK S : r.delivered \in Seq(S)
      BY <3>1 DEF Replaying
    <3>3. r.delivered \o << >> = r.delivered
      BY <3>2, ConcatEmptySeq
    <3>4. CaughtUp(after, off, c)
      BY <2>1, <3>1, <3>3 DEF CaughtUp, Replaying
    <3>. QED
      BY <2>1, <3>4 DEF UpTo
  <2>. QED
    BY <2>2, <2>3, LoopStepStays DEF Streaming, r, after
<1>2. CASE SubscriberLock(w)
  <2>1. /\ r.pc = "s_lock" /\ after.pc = "s_loop" /\ after.last_size = r.last_size
        /\ after.delivered = r.delivered /\ after.client = r.client
        /\ SameSight(w) /\ Plain(w)
    BY <1>2 DEF SubscriberLock, Lock, Goto, At, IInv, Shape, Fields, SameSight, Plain
  <2>. HIDE DEF r, after
  <2>2. LoopStep(w, "s_lock")
    BY <2>1 DEF LoopStep, Streaming, r, after
  <2>3. ASSUME NEW off, NEW c, NEW pending, UpTo(r, Box(w).box_size, off, c, pending)
        PROVE  UpTo(after, Box(w).box_size, off, c, pending)
    BY <2>1, <2>3 DEF UpTo, CaughtUp, LagsBy
  <2>. QED
    BY <2>2, <2>3, LoopStepStays DEF Streaming, r, after
<1>3. CASE SubscriberLoop(w)
  <2>1. /\ r.pc = "s_loop" /\ after.last_size = r.last_size
        /\ after.pc = IF Box(w).box_size = r.last_size THEN "s_sleep" ELSE "s_read"
        /\ after.delivered = r.delivered /\ after.client = r.client
        /\ SameSight(w) /\ Plain(w)
    BY <1>3 DEF SubscriberLoop, Move, Goto, At, IInv, Shape, Fields, SameSight, Plain
  <2>. HIDE DEF r, after
  <2>2. LoopStep(w, "s_loop")
    BY <2>1 DEF LoopStep, Streaming, r, after
  <2>3. ASSUME NEW off, NEW c, NEW pending, UpTo(r, Box(w).box_size, off, c, pending)
        PROVE  UpTo(after, Box(w).box_size, off, c, pending)
    BY <2>1, <2>3 DEF UpTo, CaughtUp, LagsBy
  <2>. QED
    BY <2>2, <2>3, LoopStepStays DEF Streaming, r, after
<1>4. CASE SubscriberWait(w)
  <2>1. /\ r.pc = "s_sleep" /\ after.pc = "s_wait"
        /\ after.delivered = r.delivered /\ after.client = r.client
        /\ SameSight(w) /\ Plain(w)
    BY <1>4 DEF SubscriberWait, Goto, At, IInv, Shape, Fields, SameSight, Plain
  <2>2. \A a : a = worker[w].box => Pending(a) = {}
    BY <2>1, PacedNone DEF Awake, SubscriberPCs
  <2>. HIDE DEF r, after
  <2>3. LoopStep(w, "s_sleep")
    BY <2>1 DEF LoopStep, Streaming, r, after
  <2>4. ASSUME NEW off, NEW c, UpTo(r, Box(w).box_size, off, c, {})
        PROVE  UpTo(after, Box(w).box_size, off, c, {})
    BY <2>1, <2>4 DEF UpTo, CaughtUp
  <2>. QED
    BY <2>2, <2>3, <2>4, LoopStepStays DEF Streaming, r, after
<1>5. CASE SpuriousWakeup(w)
  <2>1. /\ r.pc = "s_wait" /\ after.pc = "s_lock" /\ after.last_size = r.last_size
        /\ after.delivered = r.delivered /\ after.client = r.client
        /\ SameSight(w) /\ Plain(w)
    BY <1>5 DEF SpuriousWakeup, Move, Goto, At, IInv, Shape, Fields, SameSight, Plain
  <2>2. \A a : a = worker[w].box => Pending(a) = {}
    <3>. SUFFICES ASSUME NEW a, a = worker[w].box PROVE Pending(a) = {}
      OBVIOUS
    <3>1. Awake(w)' /\ a = worker'[w].box
      BY <2>1 DEF Awake, SubscriberPCs, SameSight
    <3>2. \A v \in Workers : worker'[v].pc = "p_announce" => worker'[v].box # a
      BY <3>1 DEF Paced
    <3>3. Calm(w, -1)
      BY <2>1, PlainCalm
    <3>4. \A v \in Workers : worker[v].pc = "p_announce" => worker'[v] = worker[v]
      BY <2>1, <3>3 DEF Calm
    <3>. QED
      BY <3>2, <3>4 DEF Pending
  <2>3. Box(w).box_size = r.last_size
    BY <2>1 DEF IInv, Seen
  <2>. HIDE DEF r, after
  <2>4. LoopStep(w, "s_wait")
    BY <2>1 DEF LoopStep, Streaming, r, after
  <2>5. ASSUME NEW off, NEW c, UpTo(r, Box(w).box_size, off, c, {})
        PROVE  UpTo(after, Box(w).box_size, off, c, {})
    BY <2>1, <2>3, <2>5 DEF UpTo, CaughtUp
  <2>. QED
    BY <2>2, <2>4, <2>5, LoopStepStays DEF Streaming, r, after
<1>. QED
  BY <1>1, <1>2, <1>3, <1>4, <1>5

LEMMA PushStays ==
  ASSUME IInv, Types, HandlesInv, NEW w \in Workers, SubLink(w), Stream(w), SubscriberPush(w)
  PROVE  SubLink(w)' /\ Stream(w)'
PROOF
<1>. DEFINE sent(string) == [worker[w] EXCEPT !.pc = "s_lock", !.delivered = Append(@, string)]
            failed == [worker[w] EXCEPT !.pc = "dequeue"]
<1>1. worker[w].pc = "s_push"
  BY DEF SubscriberPush, At
<1>2. PICK beyond \in Beyond :
        WriteToClient(w, sent(FirstString(worker[w].full_box_buffer \o beyond, 1, BLOCK_SIZE - 1)),
                      failed)
  BY Zenon DEF SubscriberPush
<1>3. PICK string : string = FirstString(worker[w].full_box_buffer \o beyond, 1, BLOCK_SIZE - 1)
  OBVIOUS
<1>4. PICK done : done = sent(string)
  OBVIOUS
<1>5. /\ done.pc = "s_lock" /\ done.box = worker[w].box /\ done.handle = worker[w].handle
      /\ done.new_box_name = worker[w].new_box_name /\ done.client = worker[w].client
      /\ done.delivered = Append(worker[w].delivered, string)
      /\ done.last_size = worker[w].last_size
  BY <1>4 DEF IInv, Shape, Fields
<1>6. /\ failed.pc = "dequeue" /\ failed.box = worker[w].box /\ failed.handle = worker[w].handle
      /\ failed.new_box_name = worker[w].new_box_name /\ failed.client = worker[w].client
  BY DEF IInv, Shape, Fields
<1>7. WriteToClient(w, done, failed)
  BY <1>2, <1>3, <1>4
<1>. HIDE DEF sent, failed
<1>8. \/ worker[w].client = "here" /\ worker'[w] = done
      \/ worker[w].client = "gone" /\ (worker'[w] = failed \/ worker'[w] = worker[w])
  BY <1>7, WrittenIs
<1>9. LoopStep(w, "s_push")
  <2>1. Plain(w)
    BY DEF Plain
  <2>2. SameSight(w) /\ worker'[w].client = worker[w].client
    BY <1>1, <1>5, <1>6, <1>8 DEF SameSight
  <2>3. worker'[w].pc \in {"s_lock", "dequeue", "s_push"}
    BY <1>1, <1>5, <1>6, <1>8
  <2>. QED
    BY <1>1, <2>1, <2>2, <2>3 DEF LoopStep, Streaming
<1>10. ASSUME NEW size, NEW off, NEW c, NEW pending, UpTo(worker[w], size, off, c, pending),
             worker'[w].client = "here"
      PROVE  UpTo(worker'[w], size, off, c, pending)
  <2>1. worker'[w] = done
    BY <1>5, <1>6, <1>8, <1>10
  <2>2. size = worker[w].last_size /\ \E m : Pushing(worker[w], off, c, m)
    BY <1>1, <1>10 DEF UpTo
  <2>3. PICK m : Pushing(worker[w], off, c, m)
    BY <2>2
  <2>4. PICK buffer : buffer = worker[w].full_box_buffer
    OBVIOUS
  <2>5. /\ m \in Range(Script) /\ Len(m) < BLOCK_SIZE /\ IsBuffer(buffer)
        /\ \A j \in 1 .. Len(m) : buffer[j] = m[j]
        /\ buffer[Len(m) + 1] = NUL
    BY <2>3, <2>4 DEF Pushing
  <2>6. FirstString(buffer \o beyond, 1, BLOCK_SIZE - 1) = m
    BY <2>5, PushedIs
  <2>7. string = m
    BY <1>3, <2>4, <2>6
  <2>8. CaughtUp(done, off, c)
    BY <1>5, <2>3, <2>7 DEF CaughtUp, Pushing
  <2>. QED
    BY <1>5, <2>1, <2>2, <2>8 DEF UpTo
<1>. QED
  BY <1>9, <1>10, LoopStepStays DEF Streaming

LEMMA LeavingStays ==
  ASSUME IInv, Types, HandlesInv, NEW w \in Workers, SubLink(w), ClientLeaves(w)
  PROVE  SubLink(w)' /\ Stream(w)'
PROOF
<1>1. Calm(w, -1)
  <2>1. Plain(w)
    BY DEF Plain
  <2>. QED
    BY <2>1, PlainCalm
<1>2. /\ worker'[w].client = "gone" /\ SameSight(w)
      /\ worker'[w].pc = worker[w].pc /\ worker'[w].delivered = worker[w].delivered
  BY DEF ClientLeaves, IInv, Shape, Fields, SameSight
<1>3. HasHandle(w) => worker[w].handle # -1
  BY FilesAssumptions DEF HandlesInv, Files!Handles, Files!SizeAssumption
<1>4. SubLink(w)'
  BY <1>1, <1>2, <1>3, LinkStays
<1>5. ~ Good(w)'
  BY <1>2 DEF Good
<1>. QED
  BY <1>4, <1>5 DEF Stream

\* The steps of publishers and managers, and those between sessions.
LEMMA OtherSessionsStay ==
  ASSUME IInv, NEW w \in Workers,
         \/ Publisher(w) \/ Manager(w)
         \/ \E kind \in Kinds, name \in budget.names : Dequeue(w, kind, name)
  PROVE  SubLink(w)' /\ Stream(w)'
PROOF
<1>. DEFINE elsewhere == {"dequeue"} \cup PublisherPCs \cup ManagerPCs
<1>1. DOMAIN worker = Workers /\ DOMAIN worker[w] = Fields
  BY DEF IInv, Shape
<1>2. \A pc \in elsewhere : pc \notin SubscriberPCs
  BY DEF PublisherPCs, ManagerPCs, SubscriberPCs
<1>3. ASSUME Publisher(w) PROVE worker'[w].pc \in elsewhere
  <2>1. CASE PublisherOpen(w)
    BY <1>1, <2>1, Zenon DEF PublisherOpen, OpenIt, PublisherPCs, Fields
  <2>2. CASE PublisherFind(w)
    BY <1>1, <2>2 DEF PublisherFind, FindIt, PublisherPCs, Fields
  <2>3. CASE PublisherCheck(w)
    BY <1>1, <2>3 DEF PublisherCheck, Move, Goto, PublisherPCs, Fields
  <2>4. CASE PublisherClaim(w)
    BY <1>1, <2>4 DEF PublisherClaim, Goto, PublisherPCs, Fields
  <2>5. CASE PublisherRead(w)
    BY <1>1, <2>5 DEF PublisherRead, Goto, PublisherPCs, Fields
  <2>6. CASE PublisherLock(w)
    BY <1>1, <2>6 DEF PublisherLock, Lock, Goto, PublisherPCs, Fields
  <2>7. CASE PublisherWrite(w)
    <3>1. \E ret : Goto(w, IF ret < 1 THEN "p_release" ELSE "p_announce")
      BY <2>7, Zenon DEF PublisherWrite, WriteMessage
    <3>. QED
      BY <1>1, <3>1 DEF Goto, PublisherPCs, Fields
  <2>8. CASE PublisherAnnounce(w)
    <3>1. worker[w].pc = "p_announce"
      BY <2>8 DEF PublisherAnnounce, Announce, At
    <3>2. worker'[w].pc = "p_read"
      BY <1>1, <2>8, <3>1 DEF PublisherAnnounce, Announce, Asleep, Fields
    <3>. QED
      BY <3>2 DEF PublisherPCs
  <2>9. CASE PublisherRelease(w)
    BY <1>1, <2>9 DEF PublisherRelease, Goto, PublisherPCs, Fields
  <2>. QED
    BY <1>3, <2>1, <2>2, <2>3, <2>4, <2>5, <2>6, <2>7, <2>8, <2>9, Zenon DEF Publisher
<1>4. ASSUME Manager(w) PROVE worker'[w].pc \in elsewhere
  <2>1. ManagerCreate(w) => \E ret : Goto(w, IF ret = -1 THEN "m_respond" ELSE "c_insert")
    BY Zenon DEF ManagerCreate
  <2>2. ManagerRemove(w) => \E ret : Goto(w, IF ret = -1 THEN "m_respond" ELSE "r_delete")
    BY Zenon DEF ManagerRemove
  <2>3. CASE ManagerCreate(w)
    BY <1>1, <2>1, <2>3 DEF Goto, ManagerPCs, Fields
  <2>4. CASE ManagerInsert(w)
    BY <1>1, <2>4, Zenon DEF ManagerInsert, Goto, ManagerPCs, Fields
  <2>5. CASE ManagerRemove(w)
    BY <1>1, <2>2, <2>5 DEF Goto, ManagerPCs, Fields
  <2>6. CASE ManagerDelete(w)
    BY <1>1, <2>6, Zenon DEF ManagerDelete, Delete, Goto, ManagerPCs, Fields
  <2>7. CASE ManagerRespond(w)
    BY <1>1, <2>7 DEF ManagerRespond, RespondToManager, At, ManagerPCs, Fields
  <2>8. CASE ListLock(w)
    BY <1>1, <2>8 DEF ListLock, ManagerPCs, Fields
  <2>9. CASE ListSend(w)
    <3>1. worker[w].pc = "l_send"
      BY <2>9 DEF ListSend, At
    <3>. DEFINE sent(next, responses) == [worker[w] EXCEPT !.box = next, !.delivered = responses]
    <3>2. \E next, responses : RespondToManager(w, sent(next, responses))
      BY <2>9, Zenon DEF ListSend
    <3>3. \A next, responses : sent(next, responses).pc = worker[w].pc
      BY <1>1 DEF Fields
    <3>4. DOMAIN worker = Workers
      BY <1>1
    <3>. HIDE DEF sent
    <3>. QED
      BY <3>1, <3>2, <3>3, <3>4 DEF RespondToManager, ManagerPCs
  <2>10. CASE ListUnlock(w)
    BY <1>1, <2>10 DEF ListUnlock, Goto, ManagerPCs, Fields
  <2>. QED
    BY <1>4, <2>3, <2>4, <2>5, <2>6, <2>7, <2>8, <2>9, <2>10, Zenon DEF Manager
<1>5. ASSUME NEW kind \in Kinds, NEW name, Dequeue(w, kind, name)
      PROVE  worker'[w].pc \in elsewhere \/ (worker'[w].pc = "subscribe" /\ worker'[w].delivered = << >>)
  <2>1. \E n : worker' = [worker EXCEPT ![w].pc = kind, ![w].new_box_name = n, ![w].client = "here",
                                        ![w].delivered = << >>]
    BY <1>5, Zenon DEF Dequeue
  <2>2. worker'[w].pc = kind /\ worker'[w].delivered = << >>
    BY <1>1, <2>1 DEF Fields
  <2>. QED
    BY <2>2 DEF Kinds, PublisherPCs, ManagerPCs
<1>6. worker'[w].pc \in elsewhere \/ (worker'[w].pc = "subscribe" /\ worker'[w].delivered = << >>)
  BY <1>3, <1>4, <1>5
<1>. HIDE DEF elsewhere
<1>. QED
  BY <1>2, <1>6, ElsewhereStays

\* All steps that neither use TecnicoFS nor announce.
LEMMA PlainStays ==
  ASSUME IInv, Types, HandlesInv, Paced, Paced', reinitialised = {},
         NEW w \in Workers, Plain(w), SubLink(w), Stream(w)
  PROVE  SubLink(w)' /\ Stream(w)'
PROOF
<1>1. CASE SubscriberFind(w) \/ SubscriberCheck(w) \/ SubscriberTest(w)
  BY <1>1, EarlyStepsStay
<1>2. CASE SubscriberSend(w)
  BY <1>2, SendStays
<1>3. CASE \/ SubscriberLast(w) \/ SubscriberLock(w) \/ SubscriberLoop(w) \/ SubscriberWait(w)
           \/ SpuriousWakeup(w)
  BY <1>3, LoopStays
<1>4. CASE SubscriberPush(w)
  BY <1>4, PushStays
<1>5. CASE ClientLeaves(w)
  BY <1>5, LeavingStays
<1>6. CASE \/ Publisher(w) \/ Manager(w)
           \/ \E kind \in Kinds, name \in budget.names : Dequeue(w, kind, name)
  BY <1>6, OtherSessionsStay
<1>. QED
  BY <1>1, <1>2, <1>3, <1>4, <1>5, <1>6, Zenon DEF Plain, Publisher, Manager

\* The file that a subscriber opens is the one of its name, from its beginning.
LEMMA OpeningStays ==
  ASSUME IInv, FilesInv, NEW w \in Workers, SubLink(w), SubscriberOpen(w)
  PROVE  SubLink(w)' /\ Stream(w)'
PROOF
<1>1. PICK name, ret : SubscriberOpens(w, name, ret)
  BY OpeningSteps
<1>2. /\ worker[w].pc = "s_open" /\ name = worker[w].new_box_name
      /\ Opens(name, {}, ret)
      /\ UNCHANGED boxVars
  BY <1>1 DEF SubscriberOpens
<1>3. /\ worker'[w].pc = "s_check" /\ worker'[w].handle = ret
      /\ worker'[w].new_box_name = name /\ worker'[w].box = worker[w].box
      /\ worker'[w].delivered = worker[w].delivered
  BY <1>1, <1>2 DEF SubscriberOpens, IInv, Shape, Fields
<1>4. ret = -1 \/ Files!HandleTaken(name, {}, ret)
  <2>1. {} \in OpenModes
    BY DEF OpenModes
  <2>. QED
    BY <1>2, <2>1, OpenKeepsFiles
<1>. PICK i : i = of_inumber'[ret]
  OBVIOUS
<1>5. ret >= 0 => Files!FileIs(name, i)' /\ of_offset'[ret] = 0
  <2>1. ret >= 0 => Files!HandleTaken(name, {}, ret)
    BY <1>4
  <2>2. Files!HandleTaken(name, {}, ret) => Files!FileIs(name, i)'
    BY Zenon DEF Files!HandleTaken, Files!FileIs
  <2>3. Files!HandleTaken(name, {}, ret) => of_offset'[ret] = 0
    BY DEF Files!HandleTaken
  <2>. QED
    BY <2>1, <2>2, <2>3
<1>6. worker[w].box \in Addresses => Box(w).box_name = name
  BY <1>2 DEF SubLink
<1>7. Box(w)' = Box(w)
  BY <1>2, <1>3 DEF Box, boxVars
<1>8. worker[w].delivered = << >>
  BY <1>2 DEF SubLink, Unserved
<1>9. SubLink(w)'
  <2>1. Place(w)' = of_offset'[ret]
    BY <1>3 DEF Place
  <2>2. worker'[w].pc \in Subscribing /\ worker'[w].handle >= 0 =>
          /\ Files!FileIs(name, i)' /\ of_inumber'[worker'[w].handle] = i
          /\ worker'[w].pc \in Unread => Place(w)' = 0
    BY <1>3, <1>5, <2>1
  <2>. QED
    BY <1>3, <1>6, <1>7, <1>8, <2>2 DEF SubLink
<1>10. Stream(w)'
  BY <1>3 DEF Stream, Streaming
<1>. QED
  BY <1>9, <1>10

\* A subscriber reads the rest of its box's file.
RestRead(w, c, off) ==
    /\ process' = "running"
    /\ c \in Seq(Files!FileBytes) /\ off \in 0 .. Len(c)
    /\ FS!ReadData(worker[w].handle, BLOCK_SIZE) = [k \in 1 .. Len(c) - off |-> c[off + k]]
    /\ Place(w)' = Len(c)

ReadOn(w) ==
    /\ worker'[w].pc \in {"s_send", "s_push"} /\ worker'[w].delivered = worker[w].delivered
    /\ worker'[w].client = worker[w].client
    /\ SameSight(w) /\ SameBoxOf(w) /\ SameFileOf(w)
    /\ SubLink(w)'

LEMMA ReadingRest ==
  ASSUME IInv, Types, FilesInv, HandlesInv, removed = {}, NEW w \in Workers, SubLink(w),
         SubscriberReplay(w) \/ SubscriberRead(w), NEW c, NEW off, c = Data(w), off = Place(w)
  PROVE  RestRead(w, c, off) /\ ReadOn(w)
PROOF
<1>1. PICK h, ret : SubscriberReads(w, h, ret)
  BY ReadingSteps
<1>2. worker[w].pc \in {"s_replay", "s_read"} /\ h = worker[w].handle /\ Files!Read(h, BLOCK_SIZE, ret)
  BY <1>1 DEF SubscriberReads, Reads
<1>3. process = "running" /\ Files!CInv
  BY <1>2 DEF Files!Read, FilesInv
<1>4. /\ HasHandle(w) /\ h \in Files!Handles \ Files!FreeHandles
      /\ worker[w].box \in Addresses /\ Box(w).box_name = worker[w].new_box_name
      /\ Box(w).box_name # NoName
  BY <1>2, SubscriberHas DEF Subscribing, SubscriberPCs
<1>. PICK n, i : n = worker[w].new_box_name /\ i = of_inumber[h]
  OBVIOUS
<1>5. Files!FileIs(n, i)
  BY <1>2, SubscriberHas DEF Subscribing, SubscriberPCs
<1>6. Files!Opened(h)
  BY <1>3, <1>4 DEF Files!Opened, Files!FreeHandles, Files!CInv, Files!IInv, Files!TypeOK
<1>7. /\ process' = "running"
      /\ of_offset'[h] = i_size[i]
      /\ Files!ReadData(h, BLOCK_SIZE) =
           [k \in 1 .. i_size[i] - off |-> Files!Contents(i)[off + k]]
  <2>1. /\ process' = "running"
        /\ of_offset'[h] = i_size[of_inumber[h]]
        /\ Files!ReadData(h, BLOCK_SIZE) =
             [k \in 1 .. i_size[of_inumber[h]] - of_offset[h] |->
                Files!Contents(of_inumber[h])[of_offset[h] + k]]
    <3>1. ASSUME NEW g, NEW r, Files!CInv, Files!Opened(g), Files!Read(g, BLOCK_SIZE, r)
          PROVE  /\ process' = "running"
                 /\ of_offset'[g] = i_size[of_inumber[g]]
                 /\ Files!ReadData(g, BLOCK_SIZE) =
                      [k \in 1 .. i_size[of_inumber[g]] - of_offset[g] |->
                         Files!Contents(of_inumber[g])[of_offset[g] + k]]
      BY <3>1, FilesAssumptions, Files!ReadToEnd, Zenon
    <3>. QED
      BY <1>2, <1>3, <1>6, <3>1, Zenon
  <2>2. off = of_offset[h]
    BY <1>2 DEF Place
  <2>. QED
    BY <2>1, <2>2
<1>8. c = Files!Contents(i)
  BY <1>2 DEF Data
<1>9. c \in Seq(Files!FileBytes) /\ Len(c) = i_size[i]
  BY <1>3, <1>5, <1>8, FileContents DEF Broken
<1>10. off \in 0 .. Len(c)
  <2>1. of_offset[h] \in 0 .. BLOCK_SIZE /\ of_offset[h] <= i_size[of_inumber[h]] /\ i_size[of_inumber[h]] \in 0 .. BLOCK_SIZE
    BY <1>3, <1>6, FilesAssumptions, Files!HandleTypes DEF Files!CInv
  <2>. QED
    BY <1>2, <1>9, <2>1 DEF Place
<1>11. FS!ReadData(h, BLOCK_SIZE) = Files!ReadData(h, BLOCK_SIZE)
  BY DEF FS!ReadData, Files!ReadData, FS!ToRead, Files!ToRead, FS!Address, Files!Address
<1>12. /\ worker'[w].pc \in {"s_send", "s_push"} /\ worker'[w].delivered = worker[w].delivered
       /\ worker'[w].client = worker[w].client
       /\ SameSight(w)
  <2>1. CASE SubscriberReplay(w)
    <3>1. \E buffer, replay : worker' = [worker EXCEPT ![w].pc = "s_send", ![w].full_box_buffer = buffer,
                                                       ![w].replay = replay]
      BY <1>7, <2>1, Zenon DEF SubscriberReplay
    <3>. QED
      BY <3>1 DEF IInv, Shape, Fields, SameSight
  <2>2. CASE SubscriberRead(w)
    <3>1. \E size, buffer : worker' = [worker EXCEPT ![w].pc = "s_push", ![w].last_size = size,
                                                     ![w].full_box_buffer = buffer]
      BY <1>7, <2>2, Zenon DEF SubscriberRead
    <3>. QED
      BY <3>1 DEF IInv, Shape, Fields, SameSight
  <2>. QED
    BY <2>1, <2>2
<1>13. Place(w)' = Len(c)
  BY <1>2, <1>7, <1>9, <1>12 DEF Place, SameSight
<1>14. Calm(w, h)
  BY <1>2, ReadingCalm
<1>15. SameBoxOf(w) /\ SameFileOf(w)
  <2>1. SameBoxOf(w)
    BY <1>4, <1>12, <1>14, BoxStays
  <2>2. SameFileOf(w)
    BY <1>2, <1>4, <1>5, <1>12, <1>14, FileStays
  <2>. QED
    BY <2>1, <2>2
<1>16. SubLink(w)'
  <2>1. Files!FileIs(n, i)' /\ of_inumber'[worker[w].handle] = i /\ worker[w].handle >= 0
    BY <1>2, <1>4, <1>5, <1>15 DEF SameFileOf, HasHandle
  <2>2. Box(w)'.box_name = n
    BY <1>4, <1>15 DEF SameBoxOf
  <2>. QED
    BY <1>4, <1>12, <2>1, <2>2 DEF SubLink, SameSight, Unread, Unserved
<1>17. RestRead(w, c, off)
  BY <1>2, <1>7, <1>8, <1>9, <1>10, <1>11, <1>13 DEF RestRead
<1>. QED
  BY <1>12, <1>15, <1>16, <1>17 DEF ReadOn

\* The strings of a buffer are a sequence, as SentIs wants it.
LEMMA TextIsSeq ==
  ASSUME NEW S, NEW c \in Seq(S)
  PROVE  \E T : Text(c) \in Seq(T)
PROOF
<1>1. Len(c) \in Nat /\ Starts(c) \subseteq 1 .. Len(c)
  BY DEF Starts
<1>2. IsFiniteSet(Starts(c))
  BY <1>1, NumbersAreRanked
<1>3. PICK n : n = Cardinality(Starts(c))
  OBVIOUS
<1>4. n \in Nat
  BY <1>2, <1>3, FS_CardinalityType
<1>5. PICK f : f = Text(c)
  OBVIOUS
<1>6. PICK T : T = {f[k] : k \in 1 .. n}
  OBVIOUS
<1>7. f = [k \in 1 .. n |-> f[k]]
  BY <1>3, <1>5 DEF Text
<1>8. \A k \in 1 .. n : f[k] \in T
  BY <1>6
<1>9. f \in Seq(T)
  BY <1>4, <1>7, <1>8, FilesAssumptions, Files!FunctionSeq
<1>. QED
  BY <1>5, <1>9

\* As long as no publishers overlap, a file that is not full ends with NUL.
Terminated ==
    \A n, i : Files!FileIs(n, i) /\ n \notin overlapped /\ Len(Files!Contents(i)) < BLOCK_SIZE =>
        Ended(Files!Contents(i))

\* The replay is all that is in the box.
LEMMA ReplayStays ==
  ASSUME IInv, Types, FilesInv, HandlesInv, removed = {}, Terminated, NEW w \in Workers, SubLink(w),
         SubscriberReplay(w)
  PROVE  SubLink(w)' /\ Stream(w)'
PROOF
<1>. PICK c, off : c = Data(w) /\ off = Place(w)
  OBVIOUS
<1>1. worker[w].pc = "s_replay"
  BY DEF SubscriberReplay, At
<1>2. RestRead(w, c, off) /\ ReadOn(w)
  BY ReadingRest
<1>3. off = 0 /\ worker[w].delivered = << >>
  BY <1>1 DEF SubLink, Subscribing, SubscriberPCs, Unread, Unserved
<1>4. PICK data, buffer : data = FS!ReadData(worker[w].handle, BLOCK_SIZE) /\ buffer = worker[w].full_box_buffer
  OBVIOUS
<1>5. data = [k \in 1 .. Len(c) |-> c[k]] /\ c \in Seq(Files!FileBytes) /\ Len(c) \in Nat
  <2>1. /\ data = [k \in 1 .. Len(c) - off |-> c[off + k]]
        /\ c \in Seq(Files!FileBytes) /\ Len(c) \in Nat
    BY <1>2, <1>4 DEF RestRead
  <2>2. PICK n : n = Len(c)
    OBVIOUS
  <2>3. n - 0 = n /\ \A k \in 1 .. n : 0 + k = k
    BY <2>1, <2>2
  <2>4. data = [k \in 1 .. n |-> c[0 + k]]
    BY <1>3, <2>1, <2>2, <2>3
  <2>5. data = [k \in 1 .. n |-> c[k]]
    BY <2>3, <2>4
  <2>. QED
    BY <2>1, <2>2, <2>5
<1>6. PICK beyond \in Beyond :
        worker' = [worker EXCEPT ![w].pc = "s_send", ![w].full_box_buffer = Overwritten(buffer, data),
                                 ![w].replay = Strings(Overwritten(buffer, data) \o beyond)]
  BY <1>2, <1>4, Zenon DEF SubscriberReplay, RestRead
<1>7. NoteStale(w, data)
  BY <1>2, <1>4, Zenon DEF SubscriberReplay, RestRead
<1>8. /\ worker'[w].pc = "s_send" /\ worker'[w].delivered = << >>
      /\ worker'[w].replay = Strings(Overwritten(buffer, data) \o beyond)
      /\ worker'[w].new_box_name = worker[w].new_box_name
  BY <1>3, <1>6 DEF IInv, Shape, Fields
<1>9. Data(w)' = c /\ Place(w)' = Len(c)
  BY <1>2 DEF ReadOn, SameFileOf, RestRead
<1>10. ASSUME Good(w)' PROVE Replaying(worker'[w], Len(c), c)
  <2>1. /\ w \notin stale' /\ worker[w].new_box_name \notin overlapped'
        /\ Len(c) < BLOCK_SIZE /\ ~ HasEmptyString(c)
    BY <1>8, <1>9, <1>10 DEF Good
  <2>2. Len(data) = Len(c)
    BY <1>5
  <2>3. buffer[Len(c) + 1] = NUL
    BY <1>4, <1>7, <2>1, <2>2 DEF NoteStale
  <2>4. Ended(c)
    <3>1. Files!FileIs(worker[w].new_box_name, of_inumber[worker[w].handle])
      BY <1>1, SubscriberHas DEF Subscribing, SubscriberPCs
    <3>2. overlapped' = overlapped
      BY DEF SubscriberReplay
    <3>. QED
      BY <2>1, <3>1, <3>2 DEF Terminated, Data
  <2>5. DOMAIN buffer = 1 .. BLOCK_SIZE
    BY <1>4 DEF Types, WorkerTypes
  <2>6. worker'[w].replay = Text(c)
    BY <1>5, <1>8, <2>1, <2>3, <2>4, <2>5, ReplayedIs
  <2>7. PICK S : Text(c) \in Seq(S)
    BY <1>5, TextIsSeq
  <2>8. << >> \in Seq(S) /\ << >> \o Text(c) = Text(c)
    BY <2>7, EmptySeq, ConcatEmptySeq
  <2>. QED
    BY <1>8, <2>6, <2>7, <2>8 DEF Replaying
<1>11. Stream(w)'
  <2>. SUFFICES ASSUME Good(w)', NEW a, a = worker'[w].box
                PROVE  UpTo(worker'[w], Box(w)'.box_size, Place(w)', Data(w)', Pending(a)')
    BY DEF Stream
  <2>. QED
    BY <1>8, <1>9, <1>10 DEF UpTo
<1>. QED
  BY <1>2, <1>11 DEF ReadOn

\* One message is read.
LEMMA ReadStays ==
  ASSUME IInv, Types, FilesInv, HandlesInv, removed = {}, NEW w \in Workers, SubLink(w), Stream(w),
         SubscriberRead(w)
  PROVE  SubLink(w)' /\ Stream(w)'
PROOF
<1>. PICK c, off : c = Data(w) /\ off = Place(w)
  OBVIOUS
<1>1. worker[w].pc = "s_read"
  BY DEF SubscriberRead, At
<1>2. RestRead(w, c, off) /\ ReadOn(w)
  BY ReadingRest
<1>3. PICK data : data = FS!ReadData(worker[w].handle, BLOCK_SIZE)
  OBVIOUS
<1>4. worker' = [worker EXCEPT ![w].pc = "s_push", ![w].last_size = Box(w).box_size,
                               ![w].full_box_buffer = Overwritten(@, data)]
  BY <1>2, <1>3, Zenon DEF SubscriberRead, RestRead
<1>5. PICK r, after : r = worker[w] /\ after = worker'[w]
  OBVIOUS
<1>6. /\ after.pc = "s_push" /\ after.delivered = r.delivered /\ after.client = r.client
      /\ after.last_size = Box(w).box_size
      /\ after.full_box_buffer = Overwritten(r.full_box_buffer, data)
      /\ after.new_box_name = r.new_box_name
  BY <1>4, <1>5 DEF IInv, Shape, Fields
<1>7. Data(w)' = c /\ Place(w)' = Len(c) /\ Box(w)'.box_size = Box(w).box_size
  BY <1>2 DEF ReadOn, SameFileOf, SameBoxOf, RestRead
<1>8. ASSUME Good(w)' PROVE \E m : Pushing(after, Len(c), c, m)
  <2>1. Good(w)
    <3>1. Calm(w, worker[w].handle)
      BY ReadingCalm
    <3>2. worker[w].new_box_name # NoName
      BY <1>1, SubscriberHas DEF Subscribing, SubscriberPCs
    <3>3. stale' = stale /\ SameSight(w) /\ worker'[w].client = worker[w].client
      BY <1>2 DEF SubscriberRead, otherVars, history, ReadOn
    <3>. QED
      BY <1>7, <1>8, <3>1, <3>2, <3>3, GoodStays
  <2>2. \E m : LagsBy(r, off, c, m)
    BY <1>1, <1>5, <2>1 DEF Stream, Streaming, UpTo
  <2>3. PICK m : LagsBy(r, off, c, m)
    BY <2>2
  <2>4. Len(c) < BLOCK_SIZE
    BY <2>1 DEF Good
  <2>5. DOMAIN r.full_box_buffer = 1 .. BLOCK_SIZE
    BY <1>5 DEF Types, WorkerTypes
  <2>6. c \in Seq(Files!FileBytes) /\ off \in Nat /\ data = [k \in 1 .. Len(c) - off |-> c[off + k]]
    BY <1>2, <1>3 DEF RestRead
  <2>7. Pushing(after, Len(c), c, m)
    BY <1>6, <2>3, <2>4, <2>5, <2>6, ReadIs
  <2>. QED
    BY <2>7
<1>9. Stream(w)'
  <2>. SUFFICES ASSUME Good(w)', NEW a, a = worker'[w].box
                PROVE  UpTo(worker'[w], Box(w)'.box_size, Place(w)', Data(w)', Pending(a)')
    BY DEF Stream
  <2>. QED
    BY <1>5, <1>6, <1>7, <1>8 DEF UpTo
<1>. QED
  BY <1>2, <1>9 DEF ReadOn

------------------------------------------------------------------------------
(* A publisher writes a message to the file of its box, and announces it *)

\* The message m that w appends to its file, unless others may have written there.
Wrote(w, m, inum) ==
    /\ Files!FileIs(worker[w].new_box_name, inum)
    /\ m = worker[w].message /\ m \in Range(Script)
    /\ process = "running" /\ process' = "running"
    /\ Files!OthersKeepContents(inum)
    /\ UNCHANGED <<d_name, d_inumber, of_inumber, overlapped, stale, box_data>>
    /\ \A v \in Workers \ {w} :
         HasHandle(v) => of_offset'[worker[v].handle] = of_offset[worker[v].handle]
    /\ worker[w].pc = "p_write" /\ worker'[w].message = m /\ worker'[w].box = worker[w].box
    /\ \A v \in Workers \ {w} : worker'[v] = worker[v]
    /\ worker[w].new_box_name \notin overlapped =>
         \/ i_size'[inum] = BLOCK_SIZE
         \/ /\ \A c, d : c = Files!Contents(inum) /\ d = Files!Contents(inum)' /\ c \in Seq(Files!FileBytes) =>
                 Adds(d, c, m)
            /\ worker'[w].pc = "p_announce"

LEMMA NewContents ==
  \A n, i : FilesInv' /\ process' \in Broken /\ Files!FileIs(n, i)' =>
    (\E S : Files!Contents(i)' \in Seq(S)) /\ Len(Files!Contents(i)') = i_size'[i]
PROOF
<1>1. \A n, i : FilesInv /\ process \in Broken /\ Files!FileIs(n, i) =>
        (\E S : Files!Contents(i) \in Seq(S)) /\ Len(Files!Contents(i)) = i_size[i]
  BY FileContents
<1>2. (\A n, i : FilesInv /\ process \in Broken /\ Files!FileIs(n, i) =>
         (\E S : Files!Contents(i) \in Seq(S)) /\ Len(Files!Contents(i)) = i_size[i])'
  BY <1>1, PTL
<1>. QED
  BY <1>2

LEMMA FileWritten ==
  ASSUME IInv, Types, FilesInv, FilesInv', HandlesInv, PlacesInv, removed = {}, NEW w \in Workers,
         PublisherWrite(w)
  PROVE  \E m, inum : Wrote(w, m, inum)
PROOF
<1>1. PICK ret \in -1 .. Len(worker[w].message) + 1 :
        /\ FS!Write(worker[w].handle, Append(worker[w].message, NUL), ret)
        /\ worker' = [worker EXCEPT ![w].pc = IF ret < 1 THEN "p_release" ELSE "p_announce"]
  BY Zenon DEF PublisherWrite, WriteMessage, Goto
<1>. PICK h, m, buf, inum : /\ h = worker[w].handle /\ m = worker[w].message
                            /\ buf = Append(m, NUL) /\ inum = of_inumber[h]
  OBVIOUS
<1>2. worker[w].pc = "p_write" /\ removed' = removed /\ UNCHANGED <<boxVars, overlapped, stale>>
  BY DEF PublisherWrite, WriteMessage, At, otherVars, history
<1>3. m \in Range(Script)
  BY <1>2 DEF Types, Messages
<1>4. /\ buf \in MessageBuffers /\ Len(m) \in Nat /\ Len(buf) = Len(m) + 1
  BY <1>3, MessageLength DEF MessageBuffers
<1>5. Files!Write(h, buf, ret)
  <2>1. buf = Append(worker[w].message, NUL)
    OBVIOUS
  <2>2. FS!Write(h, buf, ret)
    BY <1>1, <2>1, ZenonT(60) DEF FS!Write, FS!WriteOpened, FS!Opened, FS!ToWrite, FS!CopyIn
  <2>. QED
    BY <2>2, SameWrite
<1>6. process = "running" /\ Files!CInv
  BY <1>5 DEF Files!Write, FilesInv
<1>7. HasHandle(w) /\ h \in Files!Handles \ Files!FreeHandles
  BY <1>2 DEF HandlesInv, HasHandle, Writing, Publishing, PublisherPCs
<1>8. Files!Opened(h)
  BY <1>6, <1>7 DEF Files!Opened, Files!FreeHandles, Files!CInv, Files!IInv, Files!TypeOK
<1>9. /\ Files!FileIs(worker[w].new_box_name, inum)
      /\ worker[w].new_box_name \notin overlapped => of_offset[h] = i_size[inum]
  <2>1. AppendsAt(w)
    BY DEF PlacesInv
  <2>. QED
    BY <1>2, <1>7, <2>1 DEF AppendsAt, HasHandle, Publishing, PublisherPCs
<1>10. Writes(h, buf, ret)
  BY <1>1, <1>2, <1>4, <1>5, <1>7 DEF Writes
<1>11. /\ UNCHANGED <<d_name, d_inumber, of_inumber>>
       /\ \A g \in Files!Handles \ {h} : of_offset'[g] = of_offset[g]
  BY <1>10, WriteKeepsFiles DEF Files!dirVars
<1>12. \A v \in Workers \ {w} :
         HasHandle(v) => of_offset'[worker[v].handle] = of_offset[worker[v].handle]
  BY <1>7, <1>11 DEF HandlesInv
<1>13. buf \in {Append(Script[i], NUL) : i \in DOMAIN Script} /\ ret \in Int /\ Len(buf) > 0
  BY <1>1, <1>4 DEF MessageBuffers
<1>14. Files!OthersKeepContents(inum)
  BY <1>5, <1>6, <1>8, <1>13, FilesAssumptions, Files!WriteKeepsOthers
<1>15. DOMAIN worker = Workers /\ DOMAIN worker[w] = Fields
  BY DEF IInv, Shape
<1>16. /\ worker'[w].pc = IF ret < 1 THEN "p_release" ELSE "p_announce"
       /\ worker'[w].message = m /\ worker'[w].box = worker[w].box
       /\ \A v \in Workers \ {w} : worker'[v] = worker[v]
  BY <1>1, <1>15 DEF Fields
<1>17. ASSUME worker[w].new_box_name \notin overlapped
       PROVE  \/ i_size'[inum] = BLOCK_SIZE
              \/ ret >= 1 /\ Files!Appended(inum, buf, Len(buf))
  <2>1. INODE_TABLE_SIZE <= DATA_BLOCKS
    BY FileSystemAssumption
  <2>2. of_offset[h] = i_size[inum]
    BY <1>9, <1>17
  <2>. QED
    BY <1>5, <1>6, <1>8, <1>13, <2>1, <2>2, FilesAssumptions, Files!WriteAppends
<1>18. /\ Len(Files!Contents(inum)) = i_size[inum] /\ i_size[inum] \in Nat
       /\ Files!Contents(inum) \in Seq(Files!FileBytes)
  BY <1>6, <1>9, FileContents, BlockSize DEF Broken
<1>19. process' = "running"
  <2>1. UNCHANGED Files!vars \/ \E block \in Files!Blocks : Files!CopyTo(h, buf, Files!ToWrite(h, buf), block)
    BY <1>5, <1>6, <1>13, FilesAssumptions, Files!WriteStays
  <2>. QED
    BY <1>6, <2>1 DEF Files!vars, Files!CopyTo
<1>20. ASSUME Files!Appended(inum, buf, Len(buf)), NEW c, NEW d,
              c = Files!Contents(inum), d = Files!Contents(inum)'
       PROVE  Adds(d, c, m)
  <2>1. PICK s, n : s = i_size[inum] /\ n = Len(m)
    OBVIOUS
  <2>2. s \in Nat /\ n \in Nat /\ Len(c) = s
    BY <1>4, <1>18, <1>20, <2>1
  <2>3. /\ i_size'[inum] = s + (n + 1)
        /\ \A k \in 1 .. s : d[k] = c[k]
        /\ \A k \in 1 .. n + 1 : d[s + k] = buf[k]
    BY <1>4, <1>20, <2>1 DEF Files!Appended
  <2>4. Len(d) = i_size'[inum]
    <3>1. PICK name : name = worker[w].new_box_name
      OBVIOUS
    <3>2. Files!FileIs(name, inum)'
      BY <1>9, <1>11, <3>1, SameTablesKeepFiles
    <3>3. process' \in Broken
      BY <1>19 DEF Broken
    <3>. QED
      BY <1>20, <3>2, <3>3, NewContents
  <2>5. (\A k \in 1 .. n : buf[k] = m[k]) /\ buf[n + 1] = NUL
    BY <1>3, <2>1, ScriptAssumption
  <2>6. Len(d) = Len(c) + Len(m) + 1 /\ Len(d) >= Len(c)
    <3>1. \A x, y \in Nat : x + (y + 1) = x + y + 1 /\ x + y + 1 >= x
      OBVIOUS
    <3>2. Len(d) = s + n + 1 /\ Len(d) >= s
      BY <2>2, <2>3, <2>4, <3>1
    <3>. QED
      BY <2>1, <2>2, <3>2
  <2>7. Continues(d, c)
    BY <2>2, <2>3, <2>6 DEF Continues
  <2>8. d[Len(c) + Len(m) + 1] = NUL
    <3>1. s + (n + 1) = s + n + 1 /\ n + 1 \in 1 .. n + 1
      BY <2>2
    <3>2. d[s + (n + 1)] = NUL
      BY <2>3, <2>5, <3>1
    <3>. QED
      BY <2>1, <2>2, <3>1, <3>2
  <2>9. \A j \in 1 .. Len(m) : d[Len(c) + j] = m[j]
    BY <2>1, <2>2, <2>3, <2>5
  <2>. QED
    BY <2>6, <2>7, <2>8, <2>9 DEF Adds
<1>. QED
  <2>1. UNCHANGED <<d_name, d_inumber, of_inumber, overlapped, stale, box_data>>
    BY <1>2, <1>11 DEF boxVars
  <2>2. worker[w].new_box_name \notin overlapped =>
         \/ i_size'[inum] = BLOCK_SIZE
         \/ /\ \A c, d : c = Files!Contents(inum) /\ d = Files!Contents(inum)' /\ c \in Seq(Files!FileBytes) =>
                 Adds(d, c, m)
            /\ worker'[w].pc = "p_announce"
    BY <1>1, <1>16, <1>17, <1>20
  <2>3. Wrote(w, m, inum)
    BY <1>2, <1>3, <1>6, <1>9, <1>12, <1>14, <1>16, <1>19, <2>1, <2>2 DEF Wrote
  <2>. QED
    BY <2>3

\* What is appended to a file that its subscribers have read to the end.
LEMMA MessageAhead ==
  ASSUME NEW S, NEW c \in Seq(S), NEW T, NEW d \in Seq(T), Ended(c), NEW m \in Range(Script), Adds(d, c, m),
         ~ HasEmptyString(d), NEW r, NEW off, CaughtUp(r, off, c)
  PROVE  LagsBy(r, off, d, m)
PROOF
<1>. PICK k, n : k = Len(c) /\ n = Len(m)
  OBVIOUS
<1>1. k \in Nat /\ n \in Nat /\ Len(d) \in Nat
  BY MessageLength
<1>2. /\ Len(d) = k + n + 1 /\ Continues(d, c) /\ d[k + n + 1] = NUL
      /\ \A j \in 1 .. n : d[k + j] = m[j]
  BY DEF Adds
<1>3. m \in Seq(Range(m)) /\ NUL \notin Range(m)
  BY ScriptAssumption
<1>4. \A j \in 1 .. n : m[j] # NUL
  BY <1>3 DEF Range
<1>5. m # << >>
  <2>1. SUFFICES ASSUME n = 0 PROVE FALSE
    BY <1>3
  <2>2. d[k + 1] = NUL /\ k + 1 \in DOMAIN d
    BY <1>1, <1>2, <2>1
  <2>3. k + 1 = 1 \/ d[(k + 1) - 1] = NUL
    <3>1. CASE k = 0
      BY <3>1
    <3>2. CASE k # 0
      <4>1. (k + 1) - 1 = k /\ k \in 1 .. k /\ k > 0
        BY <1>1, <3>2
      <4>2. c[k] = NUL /\ d[k] = c[k]
        BY <1>2, <4>1 DEF Ended, Continues
      <4>. QED
        BY <4>1, <4>2
    <3>. QED
      BY <3>1, <3>2
  <2>. QED
    BY <2>2, <2>3 DEF HasEmptyString
<1>6. Text(d) = Append(Text(c), m)
  <2>1. PICK U : U = S \cup T \cup Range(m)
    OBVIOUS
  <2>2. c \in Seq(U) /\ d \in Seq(U) /\ m \in Seq(U)
    BY <1>3, <2>1
  <2>. QED
    BY <1>4, <1>5, <2>2, TextGrows
<1>. QED
  BY <1>2, <1>5, <1>6 DEF LagsBy, CaughtUp

LEMMA WrittenFile ==
  ASSUME FilesInv, FilesInv', Terminated, NEW w \in Workers, NEW m, NEW inum, Wrote(w, m, inum),
         worker[w].new_box_name \notin overlapped, NEW c, NEW d,
         c = Files!Contents(inum), d = Files!Contents(inum)', Len(d) < BLOCK_SIZE
  PROVE  /\ worker'[w].pc = "p_announce"
         /\ \E S, T : c \in Seq(S) /\ d \in Seq(T)
         /\ Ended(c) /\ Adds(d, c, m)
PROOF
<1>1. PICK n : n = worker[w].new_box_name
  OBVIOUS
<1>2. /\ Files!FileIs(n, inum) /\ process = "running" /\ process' = "running"
      /\ UNCHANGED <<d_name, d_inumber>> /\ n \notin overlapped
  BY <1>1 DEF Wrote
<1>3. c \in Seq(Files!FileBytes)
  BY <1>2, FileContents DEF Broken
<1>4. Files!FileIs(n, inum)'
  BY <1>2, SameTablesKeepFiles
<1>5. (\E T : d \in Seq(T)) /\ Len(d) = i_size'[inum]
  <2>1. process' \in Broken
    BY <1>2 DEF Broken
  <2>. QED
    BY <1>4, <2>1, NewContents
<1>6. i_size'[inum] # BLOCK_SIZE
  BY <1>5, BlockSize
<1>7. Adds(d, c, m) /\ worker'[w].pc = "p_announce"
  BY <1>3, <1>6, Zenon DEF Wrote
<1>8. Ended(c)
  <2>1. Len(c) < BLOCK_SIZE
    <3>1. \A x, y, z : x >= y /\ x < z /\ x \in Nat /\ y \in Nat /\ z \in Nat => y < z
      OBVIOUS
    <3>2. Len(d) >= Len(c) /\ Len(d) \in Nat /\ Len(c) \in Nat
      BY <1>3, <1>5, <1>7 DEF Adds, Continues
    <3>. QED
      BY <3>1, <3>2, BlockSize
  <2>. QED
    BY <1>2, <2>1 DEF Terminated
<1>. QED
  BY <1>3, <1>5, <1>7, <1>8

LEMMA WritingStays ==
  ASSUME IInv, FilesInv, FilesInv', HandlesInv, BoxesRight, Terminated, Paced', reinitialised = {},
         NEW w \in Workers, NEW m, NEW inum, Wrote(w, m, inum),
         NEW v \in Workers, v # w, SubLink(v), Stream(v)
  PROVE  SubLink(v)' /\ Stream(v)'
PROOF
<1>1. /\ worker'[v] = worker[v] /\ UNCHANGED <<of_inumber, box_data, d_name, d_inumber>>
      /\ HasHandle(v) => Place(v)' = Place(v)
  BY DEF Wrote, Place
<1>2. Box(v)' = Box(v)
  BY <1>1 DEF Box
<1>3. SubLink(v)'
  <2>1. PICK n, i : n = worker[v].new_box_name /\ i = of_inumber[worker[v].handle]
    OBVIOUS
  <2>2. worker[v].pc \in Subscribing /\ worker[v].handle >= 0 =>
          /\ Files!FileIs(n, i)' /\ of_inumber'[worker[v].handle] = i
          /\ worker[v].pc \in Unread => Place(v)' = 0
    BY <1>1, <2>1, SameTablesKeepFiles DEF SubLink, HasHandle
  <2>. QED
    BY <1>1, <1>2, <2>1, <2>2 DEF SubLink
<1>4. Stream(v)'
  <2>. SUFFICES ASSUME worker[v].pc \in Streaming, Good(v)', NEW a, a = worker[v].box
                PROVE  UpTo(worker[v], Box(v).box_size, Place(v)', Data(v)', Pending(a)')
    BY <1>1, <1>2 DEF Stream
  <2>. PICK name, i, c, d, h : /\ name = worker[v].new_box_name /\ h = worker[v].handle
                               /\ i = of_inumber[h] /\ c = Data(v) /\ d = Data(v)'
    OBVIOUS
  <2>1. worker[v].pc \in Subscribing \ {"s_check"}
    BY DEF Streaming, Subscribing, SubscriberPCs
  <2>2. /\ HasHandle(v) /\ Files!FileIs(name, i)
        /\ a \in Addresses /\ box_data[a].box_name = name
    BY <2>1, SubscriberHas DEF Box
  <2>3. Place(v)' = Place(v) /\ c = Files!Contents(i) /\ d = Files!Contents(i)'
    BY <1>1, <2>2 DEF Data
  <2>4. /\ worker[v].client = "here" /\ v \notin stale /\ name \notin overlapped /\ OnlyBox(name)
        /\ Len(d) < BLOCK_SIZE /\ ~ HasEmptyString(d)
    <3>1. OnlyBox(name)' => OnlyBox(name)
      BY <1>1 DEF OnlyBox
    <3>2. stale' = stale /\ overlapped' = overlapped
      BY DEF Wrote
    <3>. QED
      BY <1>1, <3>1, <3>2 DEF Good
  <2>5. /\ worker[w].pc = "p_write" /\ worker[w].box \in Addresses
        /\ box_data[worker[w].box].box_name = worker[w].new_box_name
        /\ Files!FileIs(worker[w].new_box_name, inum)
    <3>1. worker[w].pc = "p_write" /\ Files!FileIs(worker[w].new_box_name, inum)
      BY DEF Wrote
    <3>2. worker[w].box \in Addresses
      BY <3>1 DEF IInv, Pointers, InBox
    <3>. QED
      BY <3>1, <3>2 DEF BoxesRight, Publishing, PublisherPCs, Box
  <2>6. \A n, k, j, l : Files!FileIs(n, j) /\ Files!FileIs(k, l) => (n = k <=> j = l)
    <3>1. Files!DirectoryExact
      BY DEF FilesInv
    <3>. QED
      BY <3>1, FilesAssumptions, Files!FilesAreExact
  <2>7. CASE name # worker[w].new_box_name
    <3>1. i # inum
      BY <2>6, <2>2, <2>5, <2>7
    <3>2. d = c
      BY <2>2, <2>3, <3>1 DEF Wrote, Files!OthersKeepContents
    <3>3. Good(v)
      BY <2>4, <3>2 DEF Good
    <3>4. worker[w].box # a
      BY <2>2, <2>5, <2>7
    <3>5. Pending(a)' = Pending(a)
      <4>1. \A u \in Workers : worker'[u] = worker[u] \/ (u = w /\ worker'[u].box # a /\ worker[u].box # a)
        BY <3>4 DEF Wrote
      <4>2. {u \in Workers : worker'[u].pc = "p_announce" /\ worker'[u].box = a} =
            {u \in Workers : worker[u].pc = "p_announce" /\ worker[u].box = a}
        BY <4>1
      <4>3. \A u \in Workers : worker[u].box = a => worker'[u] = worker[u]
        BY <4>1
      <4>. QED
        BY <4>2, <4>3 DEF Pending
    <3>6. UpTo(worker[v], Box(v).box_size, Place(v), Data(v), Pending(a))
      BY <3>3 DEF Stream
    <3>. QED
      BY <2>3, <3>2, <3>5, <3>6
  <2>8. CASE name = worker[w].new_box_name
    <3>1. i = inum
      BY <2>6, <2>2, <2>5, <2>8
    <3>2. /\ worker'[w].pc = "p_announce"
          /\ \E S, T : c \in Seq(S) /\ d \in Seq(T)
          /\ Ended(c) /\ Adds(d, c, m)
      BY <2>3, <2>4, <2>8, <3>1, WrittenFile
    <3>3. PICK S, T : c \in Seq(S) /\ d \in Seq(T)
      BY <3>2
    <3>4. worker[w].box = a
      BY <2>2, <2>4, <2>5, <2>8 DEF OnlyBox
    <3>5. worker[v].pc = "s_wait"
      <4>1. worker'[w].box = worker'[v].box
        BY <1>1, <3>4 DEF Wrote
      <4>2. ~ Awake(v)'
        BY <3>2, <4>1 DEF Paced
      <4>. QED
        BY <1>1, <4>2 DEF Awake, Streaming, SubscriberPCs
    <3>6. Pending(a) = {}
      <4>1. Held(w) /\ Box(w).box_condvar_lock = w
        BY <2>5 DEF Held, IInv, Locked
      <4>2. \A u \in Workers : worker[u].pc = "p_announce" => Held(u) /\ Box(u).box_condvar_lock = u
        BY DEF Held, IInv, Locked
      <4>3. \A u \in Workers : ~ (worker[u].pc = "p_announce" /\ worker[u].box = a)
        BY <2>5, <3>4, <4>1, <4>2 DEF Box
      <4>. QED
        BY <4>3 DEF Pending
    <3>7. Len(c) <= Len(d) /\ Len(c) < BLOCK_SIZE
      <4>1. \A x, y, z : x >= y /\ x < z /\ x \in Nat /\ y \in Nat /\ z \in Nat => y <= x /\ y < z
        OBVIOUS
      <4>2. Len(d) >= Len(c) /\ Len(d) \in Nat /\ Len(c) \in Nat
        BY <3>2, <3>3 DEF Adds, Continues
      <4>. QED
        BY <2>4, <4>1, <4>2, BlockSize
    <3>8. ~ HasEmptyString(c)
      <4>. SUFFICES ASSUME NEW k \in DOMAIN c, c[k] = NUL /\ (k = 1 \/ c[k - 1] = NUL)
                    PROVE  HasEmptyString(d)
        BY <2>4 DEF HasEmptyString
      <4>1. k \in 1 .. Len(c) /\ k \in 1 .. Len(d) /\ (k = 1 \/ k - 1 \in 1 .. Len(c))
        BY <3>3, <3>7
      <4>2. d[k] = NUL /\ (k = 1 \/ d[k - 1] = NUL)
        BY <3>2, <4>1 DEF Adds, Continues
      <4>. QED
        BY <3>3, <4>1, <4>2 DEF HasEmptyString
    <3>9. CaughtUp(worker[v], Place(v), c)
      <4>1. Good(v)
        BY <2>4, <3>7, <3>8 DEF Good
      <4>. QED
        BY <3>5, <3>6, <4>1 DEF Stream, UpTo
    <3>10. LagsBy(worker[v], Place(v), d, m)
      <4>1. m \in Range(Script)
        BY DEF Wrote
      <4>. QED
        BY <2>4, <3>2, <3>3, <3>9, <4>1, MessageAhead
    <3>11. \A x \in Pending(a)' : x = m
      <4>1. \A u \in Workers : worker[u].pc = "p_announce" => worker[u].box # a
        BY <3>6 DEF Pending
      <4>2. \A u \in Workers : worker'[u].pc = "p_announce" /\ worker'[u].box = a => u = w
        BY <4>1 DEF Wrote
      <4>3. worker'[w].message = m
        BY DEF Wrote
      <4>. QED
        BY <4>2, <4>3 DEF Pending
    <3>12. Pending(a)' # {}
      <4>1. worker'[w].box = a
        BY <3>4 DEF Wrote
      <4>. QED
        BY <3>2, <4>1 DEF Pending
    <3>. QED
      BY <2>3, <3>5, <3>10, <3>11, <3>12 DEF UpTo
  <2>. QED
    BY <2>7, <2>8
<1>. QED
  BY <1>3, <1>4

\* Those who wait have one message ahead of them.
LEMMA AnnouncingStays ==
  ASSUME IInv, Types, HandlesInv, Paced, reinitialised = {}, NEW w \in Workers, PublisherAnnounce(w),
         NEW v \in Workers, v # w, SubLink(v), Stream(v)
  PROVE  SubLink(v)' /\ Stream(v)'
PROOF
<1>1. /\ worker[w].pc = "p_announce" /\ UNCHANGED <<tables, overlapped, stale>>
      /\ box_data' = [box_data EXCEPT ![worker[w].box].box_size = @ + Len(worker[w].message),
                                      ![worker[w].box].box_condvar_lock = Nobody]
      /\ worker' = [u \in Workers |->
                      IF u \in Asleep(w) THEN [worker[u] EXCEPT !.pc = "s_lock"]
                      ELSE IF u = w THEN [worker[u] EXCEPT !.pc = "p_read"]
                      ELSE worker[u]]
  <2>1. worker[w].box \notin reinitialised
    OBVIOUS
  <2>2. Announce(w, Asleep(w))
    BY <2>1, Zenon DEF PublisherAnnounce
  <2>. QED
    BY <2>2, Zenon DEF Announce, At, otherVars, history, fsVars
<1>2. /\ UNCHANGED <<d_name, d_inumber, i_size, i_data_block, fs_data, of_inumber, of_offset>>
      /\ \A i : Files!Contents(i)' = Files!Contents(i)
  <2>1. UNCHANGED <<d_name, d_inumber, i_size, i_data_block, fs_data, of_inumber, of_offset>>
    BY <1>1 DEF tables
  <2>. QED
    BY <2>1 DEF Files!Contents
<1>3. worker[w].box \in Addresses
  BY <1>1 DEF IInv, Pointers, InBox
<1>4. /\ \A a \in Addresses : box_data'[a].box_name = box_data[a].box_name
      /\ \A a \in Addresses : a # worker[w].box => box_data'[a] = box_data[a]
      /\ box_data'[worker[w].box].box_size = box_data[worker[w].box].box_size + Len(worker[w].message)
  BY <1>1, <1>3 DEF IInv, Shape, BoxFields
<1>. PICK r, after : r = worker[v] /\ after = worker'[v]
  OBVIOUS
<1>5. /\ v \in Asleep(w) => after = [r EXCEPT !.pc = "s_lock"] /\ r.pc = "s_wait" /\ r.box = worker[w].box
      /\ v \notin Asleep(w) => after = r
  BY <1>1 DEF Asleep
<1>6. /\ after.new_box_name = r.new_box_name /\ after.handle = r.handle /\ after.box = r.box
      /\ after.client = r.client /\ after.delivered = r.delivered /\ after.last_size = r.last_size
      /\ after.pc = r.pc \/ (r.pc = "s_wait" /\ after.pc = "s_lock")
  BY <1>5 DEF IInv, Shape, Fields
<1>7. SubLink(v)'
  <2>1. PICK n, i : n = r.new_box_name /\ i = of_inumber[r.handle]
    OBVIOUS
  <2>2. r.pc \in Subscribing /\ r.handle >= 0 =>
          /\ Files!FileIs(n, i)' /\ of_inumber'[r.handle] = i
          /\ r.pc \in Unread => of_offset'[r.handle] = 0
    BY <1>2, <2>1, SameTablesKeepFiles DEF SubLink, Place
  <2>3. r.pc \in Subscribing \cup {"s_open"} /\ r.box \in Addresses => box_data'[r.box].box_name = n
    BY <1>4, <2>1 DEF SubLink, Box
  <2>4. /\ after.pc \in Subscribing <=> r.pc \in Subscribing
        /\ after.pc \in Subscribing \ {"s_check"} <=> r.pc \in Subscribing \ {"s_check"}
        /\ after.pc \in Unread <=> r.pc \in Unread
        /\ after.pc \in Unserved <=> r.pc \in Unserved
        /\ after.pc = "s_open" <=> r.pc = "s_open"
    BY <1>6 DEF Subscribing, SubscriberPCs, Unread, Unserved
  <2>. QED
    BY <1>6, <2>1, <2>2, <2>3, <2>4 DEF SubLink, Place, Box
<1>8. Stream(v)'
  <2>. SUFFICES ASSUME after.pc \in Streaming, Good(v)', NEW a, a = after.box
                PROVE  UpTo(after, Box(v)'.box_size, Place(v)', Data(v)', Pending(a)')
    BY DEF Stream
  <2>. PICK name, c, off, size : name = r.new_box_name /\ c = Data(v) /\ off = Place(v) /\ size = Box(v).box_size
    OBVIOUS
  <2>1. Data(v)' = c /\ Place(v)' = off
    BY <1>2, <1>6 DEF Data, Place
  <2>2. r.pc \in Streaming
    BY <1>6 DEF Streaming
  <2>3. Good(v)
    <3>1. OnlyBox(name)'
      BY <1>6 DEF Good, OnlyBox
    <3>2. OnlyBox(name)
      BY <1>4, <3>1 DEF OnlyBox
    <3>. QED
      BY <1>1, <1>6, <2>1, <3>2 DEF Good
  <2>4. UpTo(r, size, off, c, Pending(a)) /\ a = r.box /\ a \in Addresses
    <3>1. r.pc \in Subscribing \ {"s_check"}
      BY <2>2 DEF Streaming, Subscribing, SubscriberPCs
    <3>. QED
      BY <1>6, <2>2, <2>3, <3>1, SubscriberHas DEF Stream
  <2>5. CASE v \in Asleep(w)
    <3>1. r.pc = "s_wait" /\ after.pc = "s_lock" /\ a = worker[w].box
      BY <1>5, <1>6, <2>4, <2>5 DEF IInv, Shape, Fields
    <3>2. PICK m : m = worker[w].message
      OBVIOUS
    <3>3. LagsBy(r, off, c, m)
      <4>1. m \in Pending(a)
        BY <1>1, <3>1, <3>2 DEF Pending
      <4>. QED
        BY <2>4, <3>1, <4>1 DEF UpTo
    <3>4. LagsBy(after, off, c, m)
      BY <1>6, <3>3 DEF LagsBy
    <3>5. Box(v)'.box_size # after.last_size
      <4>1. Len(m) \in Nat \ {0}
        BY <3>3, MessageLength, ScriptAssumption DEF LagsBy
      <4>2. size \in Nat /\ size = after.last_size
        BY <1>6, <2>4, <3>1 DEF IInv, Seen, Types, BoxTypes, Box
      <4>3. Box(v)'.box_size = size + Len(m)
        BY <1>4, <1>6, <2>4, <3>1, <3>2 DEF Box
      <4>. QED
        BY <4>1, <4>2, <4>3
    <3>. QED
      BY <2>1, <3>1, <3>4, <3>5 DEF UpTo
  <2>6. CASE v \notin Asleep(w)
    <3>1. after = r
      BY <1>5, <2>6
    <3>2. a # worker[w].box
      <4>1. ~ Awake(v) => r.pc = "s_wait"
        BY <2>2 DEF Awake, Streaming, SubscriberPCs
      <4>2. r.pc = "s_wait" => worker[v].box # worker[w].box
        BY <2>6 DEF Asleep
      <4>3. Awake(v) => worker[w].box # worker[v].box
        BY <1>1 DEF Paced
      <4>. QED
        BY <2>4, <4>1, <4>2, <4>3
    <3>3. Box(v)' = Box(v)
      BY <1>4, <1>6, <2>4, <3>2 DEF Box
    <3>4. Pending(a)' = Pending(a)
      <4>1. ASSUME NEW u \in Workers, worker[u].box = a \/ worker'[u].box = a
            PROVE  worker'[u] = worker[u]
        <5>1. worker'[u].box = worker[u].box
          BY <1>1 DEF IInv, Shape, Fields
        <5>2. u # w /\ u \notin Asleep(w)
          BY <3>2, <4>1, <5>1 DEF Asleep
        <5>. QED
          BY <1>1, <5>2
      <4>2. {u \in Workers : worker'[u].pc = "p_announce" /\ worker'[u].box = a} =
            {u \in Workers : worker[u].pc = "p_announce" /\ worker[u].box = a}
        BY <4>1
      <4>. QED
        BY <4>1, <4>2 DEF Pending
    <3>. QED
      BY <2>1, <2>4, <3>1, <3>3, <3>4
  <2>. QED
    BY <2>5, <2>6
<1>. QED
  BY <1>7, <1>8

------------------------------------------------------------------------------
(* All the steps together *)

\* As long as no box is removed, all boxes are in the list.
AllListed == \A a \in Addresses : box_data[a].box_name # NoName => a \in Boxes

\* The sizes of the files, also when the process has ended.
Sized == \A n, i : Files!FileIs(n, i) => i_size[i] \in 0 .. BLOCK_SIZE

DInv == removed = {} =>
            /\ AllListed /\ Terminated /\ Sized
            /\ \A u \in Workers : SubLink(u) /\ Stream(u)

\* Steps of w that write no message: those of other workers are not concerned.
CalmStep(w) ==
    /\ \E h : Calm(w, h)
    /\ process' \in Broken \/ UNCHANGED tables

Telling(w) == PublisherWrite(w) \/ PublisherAnnounce(w)

LEMMA StepsOf ==
  ASSUME NEW w \in Workers,
         \/ \E kind \in Kinds, name \in budget.names : Dequeue(w, kind, name)
         \/ Publisher(w) \/ Subscriber(w) \/ Manager(w)
         \/ ClientLeaves(w) \/ SpuriousWakeup(w)
  PROVE  \/ Plain(w) \/ Telling(w)
         \/ PublisherOpen(w) \/ SubscriberOpen(w) \/ ManagerCreate(w)
         \/ ManagerInsert(w) \/ ManagerRemove(w) \/ ManagerDelete(w)
         \/ SubscriberReplay(w) \/ SubscriberRead(w)
PROOF
<1>. QED
  BY Zenon DEF Plain, Telling, Publisher, Subscriber, Manager

LEMMA CalmSteps ==
  ASSUME SInv, Paced, Paced', removed = {}, removed' = {}, Terminated, NEW w \in Workers,
         SubLink(w), Stream(w),
         \/ Plain(w)
         \/ PublisherOpen(w) \/ SubscriberOpen(w) \/ ManagerCreate(w)
         \/ ManagerInsert(w) \/ ManagerRemove(w) \/ ManagerDelete(w)
         \/ SubscriberReplay(w) \/ SubscriberRead(w)
  PROVE  CalmStep(w) /\ SubLink(w)' /\ Stream(w)'
PROOF
<1>1. /\ IInv /\ Types /\ FilesInv /\ HandlesInv /\ FullInv
      /\ reinitialised = {}
  BY DEF SInv, FullInv
<1>2. CASE Plain(w)
  <2>1. Calm(w, -1) /\ UNCHANGED tables
    BY <1>1, <1>2, PlainCalm, PlainMoves DEF Moved, SameFiles
  <2>. QED
    BY <1>1, <1>2, <2>1, PlainStays DEF CalmStep
<1>3. CASE PublisherOpen(w) \/ SubscriberOpen(w) \/ ManagerCreate(w)
  <2>1. Calm(w, -1)
    BY <1>1, <1>3, OpeningCalm
  <2>2. \E name, mode, ret : mode \in OpenModes /\ Opens(name, mode, ret)
    <3>1. \/ \E name, ret : PublisherOpens(w, name, ret)
          \/ \E name, ret : SubscriberOpens(w, name, ret)
          \/ \E name, ret : ManagerCreates(w, name, ret)
      BY <1>1, <1>3, OpeningSteps, Zenon
    <3>2. \A name, ret : /\ PublisherOpens(w, name, ret) => Opens(name, {"TFS_O_APPEND"}, ret)
                         /\ SubscriberOpens(w, name, ret) => Opens(name, {}, ret)
                         /\ ManagerCreates(w, name, ret) => Opens(name, {"TFS_O_CREAT"}, ret)
      BY Zenon DEF PublisherOpens, SubscriberOpens, ManagerCreates
    <3>3. {"TFS_O_APPEND"} \in OpenModes /\ {} \in OpenModes /\ {"TFS_O_CREAT"} \in OpenModes
      BY DEF OpenModes
    <3>. QED
      BY <3>1, <3>2, <3>3, Zenon
  <2>3. process' = "running"
    BY <1>1, <2>2, OpenKeepsFiles
  <2>4. SubLink(w)' /\ Stream(w)'
    BY <1>1, <1>3, OpeningStays, OtherSessionsStay DEF Publisher, Manager
  <2>. QED
    BY <2>1, <2>3, <2>4 DEF CalmStep, Broken
<1>4. CASE ManagerInsert(w)
  <2>1. Calm(w, -1) /\ UNCHANGED tables
    BY <1>1, <1>4, InsertCalm DEF ManagerInsert, fsVars
  <2>. QED
    BY <1>1, <1>4, <2>1, OtherSessionsStay DEF CalmStep, Manager
<1>5. CASE ManagerRemove(w)
  <2>1. Calm(w, -1)
    BY <1>1, <1>5, RemoveCalm
  <2>2. process' = "running"
    BY <1>1, <1>5, UnlinkingSteps, UnlinkKeepsFiles DEF ManagerUnlinks
  <2>. QED
    BY <1>1, <1>5, <2>1, <2>2, OtherSessionsStay DEF CalmStep, Broken, Manager
<1>6. CASE ManagerDelete(w)
  BY <1>1, <1>6 DEF FullInv, ManagerDelete, Delete, At
<1>7. CASE SubscriberReplay(w) \/ SubscriberRead(w)
  <2>1. Calm(w, worker[w].handle)
    BY <1>1, <1>7, ReadingCalm
  <2>2. process' = "running"
    <3>1. \A c, off : c = Data(w) /\ off = Place(w) => RestRead(w, c, off)
      BY <1>1, <1>7, ReadingRest
    <3>. QED
      BY <3>1 DEF RestRead
  <2>3. SubLink(w)' /\ Stream(w)'
    BY <1>1, <1>7, ReplayStays, ReadStays
  <2>. QED
    BY <2>1, <2>2, <2>3 DEF CalmStep, Broken
<1>. QED
  BY <1>2, <1>3, <1>4, <1>5, <1>6, <1>7

\* Nothing becomes of files that ends them elsewhere.
LEMMA CalmTerminates ==
  ASSUME Terminated, NEW w \in Workers, CalmStep(w)
  PROVE  Terminated'
PROOF
<1>1. PICK h : Calm(w, h)
  BY DEF CalmStep
<1>. SUFFICES ASSUME NEW n, NEW i, Files!FileIs(n, i)', n \notin overlapped',
                     Len(Files!Contents(i)') < BLOCK_SIZE
              PROVE  Ended(Files!Contents(i)')
  BY DEF Terminated, Ended
<1>2. n \notin overlapped
  BY <1>1 DEF Calm
<1>3. CASE Files!FileIs(n, i)
  <2>1. Files!Contents(i)' = Files!Contents(i)
    BY <1>1, <1>3 DEF Calm, SameData
  <2>. QED
    BY <1>2, <1>3, <2>1 DEF Terminated
<1>4. CASE i_size'[i] = 0
  <2>1. PICK f : f = Files!Contents(i)'
    OBVIOUS
  <2>2. f = [k \in 1 .. 0 |-> f[k]]
    BY <1>4, <2>1 DEF Files!Contents
  <2>3. Len(f) = 0
    <3>1. \A k \in 1 .. 0 : f[k] \in {}
      OBVIOUS
    <3>. QED
      BY <2>2, <3>1, FilesAssumptions, Files!FunctionSeq
  <2>. QED
    BY <2>1, <2>3 DEF Ended
<1>. QED
  BY <1>1, <1>3, <1>4 DEF Calm, SameData

LEMMA WriteTerminates ==
  ASSUME FilesInv, FilesInv', Terminated, NEW w \in Workers, NEW m, NEW inum, Wrote(w, m, inum)
  PROVE  Terminated'
PROOF
<1>. SUFFICES ASSUME NEW n, NEW i, Files!FileIs(n, i)', n \notin overlapped',
                     Len(Files!Contents(i)') < BLOCK_SIZE
              PROVE  Ended(Files!Contents(i)')
  BY DEF Terminated, Ended
<1>1. Files!FileIs(n, i) /\ n \notin overlapped
  BY SameTablesKeepFiles DEF Wrote
<1>2. CASE i # inum
  <2>1. Files!Contents(i)' = Files!Contents(i)
    BY <1>1, <1>2 DEF Wrote, Files!OthersKeepContents
  <2>. QED
    BY <1>1, <2>1 DEF Terminated
<1>3. CASE i = inum
  <2>1. PICK name : name = worker[w].new_box_name
    OBVIOUS
  <2>2. Files!FileIs(name, inum)
    BY <2>1 DEF Wrote
  <2>3. n = name
    <3>1. Files!DirectoryExact
      BY DEF FilesInv
    <3>2. \A a, b, j, k : Files!FileIs(a, j) /\ Files!FileIs(b, k) => (a = b <=> j = k)
      BY <3>1, FilesAssumptions, Files!FilesAreExact
    <3>. QED
      BY <1>1, <1>3, <2>2, <3>2
  <2>4. PICK c, d : c = Files!Contents(inum) /\ d = Files!Contents(inum)'
    OBVIOUS
  <2>5. /\ \E S, T : c \in Seq(S) /\ d \in Seq(T)
        /\ Adds(d, c, m)
    BY <1>1, <1>3, <2>1, <2>3, <2>4, WrittenFile
  <2>6. d[Len(d)] = NUL
    BY <2>5 DEF Adds
  <2>. QED
    BY <1>3, <2>4, <2>6 DEF Ended
<1>. QED
  BY <1>2, <1>3

LEMMA RemovedGrows ==
  ASSUME IInv, Types, [Next]_vars
  PROVE  removed \subseteq removed'
PROOF
<1>1. CASE Quiet
  BY <1>1 DEF Quiet, SameFiles, history
<1>2. ASSUME NEW w \in Workers, Loud(w) PROVE removed \subseteq removed'
  <2>1. CASE PublisherOpen(w) \/ SubscriberOpen(w)
    BY <2>1 DEF PublisherOpen, SubscriberOpen, OpenIt
  <2>2. CASE ManagerCreate(w)
    BY <2>2 DEF ManagerCreate
  <2>3. CASE PublisherWrite(w)
    BY <2>3 DEF PublisherWrite, WriteMessage, otherVars, history
  <2>4. CASE SubscriberReplay(w)
    BY <2>4, Zenon DEF SubscriberReplay
  <2>5. CASE SubscriberRead(w)
    BY <2>5, Zenon DEF SubscriberRead, otherVars, history
  <2>6. CASE ManagerInsert(w)
    BY <2>6 DEF ManagerInsert, otherVars, history
  <2>7. CASE ManagerDelete(w)
    BY <2>7 DEF ManagerDelete, Delete, otherVars, history
  <2>8. CASE ManagerRemove(w)
    BY <2>8 DEF ManagerRemove
  <2>. QED
    BY <1>2, <2>1, <2>2, <2>3, <2>4, <2>5, <2>6, <2>7, <2>8 DEF Loud
<1>. QED
  BY <1>1, <1>2, QuietOrLoud

LEMMA NextKeepsAllListed ==
  ASSUME SInv, removed = {}, AllListed, [Next]_vars
  PROVE  AllListed'
PROOF
<1>1. IInv /\ Types /\ ListInv /\ FullInv
  BY DEF SInv
<1>2. CASE SameBoxes
  <2>1. Boxes' = Boxes
    BY <1>1, <1>2, SameBoxesKeepList
  <2>. QED
    BY <1>2, <2>1 DEF AllListed, SameBoxes
<1>3. ASSUME NEW w \in Workers, ManagerInsert(w) PROVE AllListed'
  <2>1. PICK a \in Addresses \ Boxes :
          /\ Boxes' = Boxes \cup {a}
          /\ \A b \in Addresses \ {a} : box_data'[b].box_name = box_data[b].box_name
    BY <1>1, <1>3, InsertKeepsList
  <2>. QED
    BY <2>1 DEF AllListed
<1>4. ASSUME NEW w \in Workers, ManagerDelete(w) PROVE FALSE
  BY <1>1, <1>4 DEF FullInv, ManagerDelete, Delete, At
<1>. QED
  BY <1>1, <1>2, <1>3, <1>4, BoxesStay

LEMMA TablesKeepSizes ==
  ASSUME Sized, UNCHANGED tables
  PROVE  Sized'
PROOF
<1>1. UNCHANGED <<d_name, d_inumber, i_size>>
  BY DEF tables
<1>. QED
  BY <1>1, SameTablesKeepFiles DEF Sized

LEMMA FilesAreSized ==
  FilesInv' /\ process' \in Broken => Sized'
PROOF
<1>1. FilesInv /\ process \in Broken => Sized
  BY FileContents DEF Sized
<1>2. (FilesInv /\ process \in Broken)' => Sized'
  BY <1>1, PTL
<1>. QED
  BY <1>2

LEMMA NextKeepsDInv ==
  ASSUME SInv, SInv', Paced, Paced', DInv, [Next]_vars
  PROVE  DInv'
PROOF
<1>1. /\ IInv /\ Types /\ FilesInv /\ HandlesInv /\ PlacesInv /\ FullInv
      /\ FilesInv'
  BY DEF SInv
<1>. SUFFICES ASSUME removed' = {}
              PROVE  /\ AllListed' /\ Terminated' /\ Sized'
                     /\ \A u \in Workers : SubLink(u)' /\ Stream(u)'
  BY DEF DInv
<1>2. removed = {}
  BY <1>1, RemovedGrows
<1>3. AllListed /\ Terminated /\ Sized /\ \A u \in Workers : SubLink(u) /\ Stream(u)
  BY <1>2 DEF DInv
<1>4. AllListed'
  BY <1>2, <1>3, NextKeepsAllListed
<1>5. CASE UNCHANGED vars
  <2>1. UNCHANGED <<worker, box_data, stale, overlapped, tables>>
    BY <1>5 DEF vars, boxVars, otherVars, history, fsVars
  <2>2. UNCHANGED <<d_name, d_inumber, i_size, i_data_block, fs_data, of_inumber, of_offset>>
    BY <2>1 DEF tables
  <2>3. Terminated' = Terminated
    BY <2>1, <2>2 DEF Terminated, Ended, Files!FileIs, Files!UsedSlots, Files!FreeSlots, Files!Contents
  <2>4. \A v \in Workers : Data(v)' = Data(v)
    BY <2>1, <2>2 DEF Data, Files!Contents
  <2>5. \A n, i : Files!FileIs(n, i)' <=> Files!FileIs(n, i)
    BY <2>2, SameTablesKeepFiles
  <2>6. \A v \in Workers : SubLink(v)' = SubLink(v)
    BY <2>1, <2>2 DEF SubLink, Box, Place, Files!FileIs, Files!UsedSlots, Files!FreeSlots
  <2>7. \A v \in Workers : Stream(v)' = Stream(v)
    BY <2>1, <2>2, <2>4 DEF Stream, Good, OnlyBox, Box, Place, Pending
  <2>. QED
    BY <1>3, <1>4, <2>1, <2>3, <2>6, <2>7, TablesKeepSizes
<1>6. ASSUME NEW w \in Workers, CalmStep(w) /\ SubLink(w)' /\ Stream(w)'
      PROVE  /\ Terminated' /\ Sized'
             /\ \A u \in Workers : SubLink(u)' /\ Stream(u)'
  <2>1. PICK h : Calm(w, h)
    BY <1>6 DEF CalmStep
  <2>2. \A u \in Workers : SubLink(u)' /\ Stream(u)'
    BY <1>1, <1>3, <1>6, <2>1, OthersStay
  <2>. QED
    BY <1>1, <1>3, <1>6, <2>2, CalmTerminates, TablesKeepSizes, FilesAreSized DEF CalmStep
<1>7. ASSUME NEW w \in Workers, PublisherWrite(w)
      PROVE  /\ Terminated' /\ Sized'
             /\ \A u \in Workers : SubLink(u)' /\ Stream(u)'
  <2>1. PICK m, inum : Wrote(w, m, inum)
    BY <1>1, <1>2, <1>7, FileWritten
  <2>2. BoxesRight /\ reinitialised = {}
    BY <1>1, <1>2 DEF FullInv
  <2>3. SubLink(w)' /\ Stream(w)'
    BY <1>1, <1>7, OtherSessionsStay DEF Publisher
  <2>4. \A u \in Workers : SubLink(u)' /\ Stream(u)'
    BY <1>1, <1>3, <2>1, <2>2, <2>3, WritingStays
  <2>5. process' \in Broken
    BY <2>1 DEF Wrote, Broken
  <2>. QED
    BY <1>1, <1>3, <2>1, <2>4, <2>5, WriteTerminates, FilesAreSized
<1>8. ASSUME NEW w \in Workers, PublisherAnnounce(w)
      PROVE  /\ Terminated' /\ Sized'
             /\ \A u \in Workers : SubLink(u)' /\ Stream(u)'
  <2>1. UNCHANGED <<tables, overlapped>>
    BY <1>8 DEF PublisherAnnounce, Announce, otherVars, history, fsVars
  <2>2. SubLink(w)' /\ Stream(w)'
    BY <1>1, <1>8, OtherSessionsStay DEF Publisher
  <2>3. \A u \in Workers : SubLink(u)' /\ Stream(u)'
    <3>1. reinitialised = {}
      BY <1>1, <1>2 DEF FullInv
    <3>. QED
      BY <1>1, <1>3, <1>8, <2>2, <3>1, AnnouncingStays
  <2>4. Terminated'
    <3>1. UNCHANGED <<d_name, d_inumber, i_size, i_data_block, fs_data>>
      BY <2>1 DEF tables
    <3>2. Terminated' = Terminated
      BY <2>1, <3>1 DEF Terminated, Ended, Files!FileIs, Files!UsedSlots, Files!FreeSlots, Files!Contents
    <3>. QED
      BY <1>3, <3>2
  <2>. QED
    BY <1>3, <2>1, <2>3, <2>4, TablesKeepSizes
<1>9. ASSUME NEW w \in Workers,
             \/ \E kind \in Kinds, name \in budget.names : Dequeue(w, kind, name)
             \/ Publisher(w) \/ Subscriber(w) \/ Manager(w)
             \/ ClientLeaves(w) \/ SpuriousWakeup(w)
      PROVE  /\ Terminated' /\ Sized'
             /\ \A u \in Workers : SubLink(u)' /\ Stream(u)'
  <2>1. CASE Telling(w)
    BY <1>7, <1>8, <2>1 DEF Telling
  <2>2. CASE ~ Telling(w)
    <3>1. \/ Plain(w)
          \/ PublisherOpen(w) \/ SubscriberOpen(w) \/ ManagerCreate(w)
          \/ ManagerInsert(w) \/ ManagerRemove(w) \/ ManagerDelete(w)
          \/ SubscriberReplay(w) \/ SubscriberRead(w)
      BY <1>9, <2>2, StepsOf, Zenon
    <3>2. SubLink(w) /\ Stream(w) /\ Terminated
      BY <1>3
    <3>3. CalmStep(w) /\ SubLink(w)' /\ Stream(w)'
      BY <1>2, <3>1, <3>2, CalmSteps
    <3>. QED
      BY <1>6, <2>2, <3>3
  <2>. QED
    BY <2>1, <2>2
<1>10. UNCHANGED vars \/ \E w \in Workers :
             \/ \E kind \in Kinds, name \in budget.names : Dequeue(w, kind, name)
             \/ Publisher(w) \/ Subscriber(w) \/ Manager(w)
             \/ ClientLeaves(w) \/ SpuriousWakeup(w)
  BY Zenon DEF Next
<1>. QED
  BY <1>4, <1>5, <1>9, <1>10

LEMMA DInvInit ==
  Init => DInv
PROOF
<1>. SUFFICES ASSUME Init PROVE AllListed /\ Terminated /\ Sized /\ \A u \in Workers : SubLink(u) /\ Stream(u)
  BY DEF DInv
<1>1. \A n, i : ~ Files!FileIs(n, i)
  BY SameInit DEF Init, Files!Init, Files!FileIs, Files!UsedSlots, Files!FreeSlots
<1>2. \A u \in Workers : worker[u].pc = "dequeue"
  BY DEF Init
<1>3. AllListed
  BY DEF Init, AllListed, NewBox
<1>4. Terminated /\ Sized
  BY <1>1 DEF Terminated, Sized
<1>5. \A u \in Workers : SubLink(u) /\ Stream(u)
  BY <1>2 DEF SubLink, Stream, Subscribing, SubscriberPCs, Unserved, Unread, Streaming
<1>. QED
  BY <1>3, <1>4, <1>5

LEMMA FunctionIsSeq ==
  ASSUME NEW n \in Nat, NEW f, f = [k \in 1 .. n |-> f[k]]
  PROVE  \A S : (\A k \in 1 .. n : f[k] \in S) => f \in Seq(S) /\ Len(f) = n
PROOF
<1>. SUFFICES ASSUME NEW S, \A k \in 1 .. n : f[k] \in S
              PROVE  f \in Seq(S) /\ Len(f) = n
  OBVIOUS
<1>. QED
  BY FilesAssumptions, Files!FunctionSeq

\* The contents of the file in memory that holds nothing else.
LEMMA FileStringsAre ==
  ASSUME NEW S, NEW c \in Seq(S), Ended(c), ~ HasEmptyString(c), Len(c) < BLOCK_SIZE,
         NEW pad, pad = [i \in 1 .. BLOCK_SIZE + 1 - Len(c) |-> NUL]
  PROVE  Strings(c \o pad) = Text(c)
PROOF
<1>. PICK T, n : T = S \cup {NUL} /\ n = BLOCK_SIZE + 1 - Len(c)
  OBVIOUS
<1>1. n \in Nat /\ n >= 1 /\ Len(c) \in Nat /\ Len(c) + n = BLOCK_SIZE + 1
  BY BlockSize
<1>2. pad \in Seq(T) /\ Len(pad) = n /\ pad[1] = NUL
  <2>1. pad = [k \in 1 .. n |-> pad[k]]
    OBVIOUS
  <2>4. \A k \in 1 .. n : pad[k] \in T
    OBVIOUS
  <2>2. pad \in Seq(T) /\ Len(pad) = n
    BY <1>1, <2>1, <2>4, FunctionIsSeq
  <2>3. 1 \in 1 .. n
    BY <1>1
  <2>. QED
    BY <2>2, <2>3
<1>3. c \in Seq(T)
  OBVIOUS
<1>4. PICK memory : memory = c \o pad
  OBVIOUS
<1>5. /\ memory \in Seq(T) /\ Len(memory) = Len(c) + n
      /\ \A k \in 1 .. Len(c) : memory[k] = c[k]
      /\ memory[Len(c) + 1] = NUL
  <2>1. /\ memory \in Seq(T) /\ Len(memory) = Len(c) + Len(pad)
        /\ \A k \in 1 .. Len(c) + Len(pad) :
              memory[k] = IF k <= Len(c) THEN c[k] ELSE pad[k - Len(c)]
    BY <1>2, <1>3, <1>4, ConcatProperties
  <2>2. Len(c) + 1 \in 1 .. Len(c) + n /\ ~ (Len(c) + 1 <= Len(c)) /\ (Len(c) + 1) - Len(c) = 1
    BY <1>1
  <2>3. memory[Len(c) + 1] = NUL
    BY <1>2, <2>1, <2>2
  <2>4. \A k \in 1 .. Len(c) : k \in 1 .. Len(c) + n /\ k <= Len(c)
    BY <1>1
  <2>. QED
    BY <1>2, <2>1, <2>3, <2>4
<1>6. Continues(memory, c) /\ Len(memory) > BLOCK_SIZE
  BY <1>1, <1>5, BlockSize DEF Continues
<1>. QED
  BY <1>3, <1>4, <1>5, <1>6, TextOfMemory

LEMMA ListedOnce ==
  ASSUME ListInv, AllListed, NEW name, name # NoName, Listed(name) = 1
  PROVE  OnlyBox(name)
PROOF
<1>1. PICK L : L = {a \in Boxes : box_data[a].box_name = name}
  OBVIOUS
<1>2. IsFiniteSet(L)
  <2>1. IsFiniteSet(Boxes)
    BY BoxesAre
  <2>. QED
    BY <1>1, <2>1, FS_Subset
<1>3. Cardinality(L) = 1
  BY <1>1 DEF Listed, Boxes
<1>4. \E x : L = {x}
  BY <1>2, <1>3, FS_Singleton
<1>. QED
  BY <1>1, <1>4 DEF OnlyBox, AllListed

LEMMA DeliveriesAreUpToDate ==
  ASSUME SInv, DInv
  PROVE  SubscribersUpToDate
PROOF
<1>1. IInv /\ HandlesInv /\ ListInv
  BY DEF SInv
<1>. SUFFICES ASSUME NEW w \in Workers, NEW name, NEW c, NEW h, NEW i,
                     name = worker[w].new_box_name, h = worker[w].handle,
                     i = of_inumber[h], c = FS!Contents(i),
                     worker[w].pc = "s_wait", worker[w].client = "here", w \notin stale,
                     ~ Announcing(worker[w].box), removed = {}, name \notin overlapped,
                     Listed(name) = 1, Len(c) < BLOCK_SIZE, ~ HasEmptyString(c)
              PROVE  worker[w].delivered = FileStrings(h)
  BY DEF SubscribersUpToDate
<1>2. AllListed /\ Terminated /\ Sized /\ SubLink(w) /\ Stream(w)
  BY DEF DInv
<1>3. /\ Files!FileIs(name, i) /\ Box(w).box_name = name /\ Box(w).box_name # NoName
  BY <1>1, <1>2, SubscriberHas DEF Subscribing, SubscriberPCs
<1>4. c = Files!Contents(i) /\ c = Data(w)
  BY DEF Data, FS!Contents, Files!Contents, FS!Address, Files!Address
<1>5. OnlyBox(name)
  BY <1>1, <1>2, <1>3, ListedOnce
<1>6. Good(w)
  BY <1>4, <1>5 DEF Good
<1>7. Pending(worker[w].box) = {}
  BY DEF Announcing, Pending
<1>8. worker[w].delivered = Text(c)
  <2>1. PICK a : a = worker[w].box
    OBVIOUS
  <2>2. UpTo(worker[w], Box(w).box_size, Place(w), c, Pending(a))
    BY <1>2, <1>4, <1>6, <2>1 DEF Stream, Streaming
  <2>. QED
    BY <1>7, <2>1, <2>2 DEF UpTo, CaughtUp
<1>9. i_size[i] \in 0 .. BLOCK_SIZE
  BY <1>2, <1>3 DEF Sized
<1>10. i_size[i] \in Nat
  BY <1>9, BlockSize
<1>11. (\E S : c \in Seq(S)) /\ Len(c) = i_size[i]
  <2>1. PICK n, f : n = i_size[i] /\ f = Files!Contents(i)
    OBVIOUS
  <2>2. f = [k \in 1 .. n |-> f[k]]
    BY <2>1 DEF Files!Contents
  <2>3. PICK S : S = {f[k] : k \in 1 .. n}
    OBVIOUS
  <2>4. \A k \in 1 .. n : f[k] \in S
    BY <2>3
  <2>5. n \in Nat
    BY <1>10, <2>1
  <2>6. f \in Seq(S) /\ Len(f) = n
    BY <2>2, <2>4, <2>5, FunctionIsSeq
  <2>. QED
    BY <1>4, <2>1, <2>6
<1>12. Ended(c)
  BY <1>2, <1>3, <1>4 DEF Terminated
<1>13. PICK pad : pad = [k \in 1 .. BLOCK_SIZE + 1 - i_size[i] |-> NUL]
  OBVIOUS
<1>14. FileStrings(h) = Strings(c \o pad)
  BY <1>13 DEF FileStrings
<1>15. pad = [k \in 1 .. BLOCK_SIZE + 1 - Len(c) |-> NUL]
  BY <1>11, <1>13
<1>16. Strings(c \o pad) = Text(c)
  BY <1>11, <1>12, <1>15, FileStringsAre
<1>. QED
  BY <1>8, <1>14, <1>16

\* At the pace of the subscribers (PacedSpec), a subscriber that sleeps has been
\* sent each message of its box, once and in order (mbroker.c, lines 246-281),
\* for any number of workers and boxes, as long as nothing gets in between:
\* removals, publishers that overlap, a second box of the name, a full box, an
\* empty message, a stale buffer or a client that has gone.
THEOREM PacedSubscribersAreUpToDate ==
  PacedSpec => []SubscribersUpToDate
PROOF
<1>1. Init => SInv /\ Paced /\ DInv
  <2>1. Init => SInv
    BY InvInit, TypesInit, FilesInvInit, ZeroInit, PlacesInit, FullInit,
       ListInit, ListedInit DEF SInv
  <2>2. Init => Paced
    BY DEF Init, Paced
  <2>. QED
    BY <2>1, <2>2, DInvInit
<1>2. SInv /\ Paced /\ DInv /\ [Next /\ Paced']_vars => (SInv /\ Paced /\ DInv)'
  <2>. SUFFICES ASSUME SInv, Paced, DInv, [Next /\ Paced']_vars PROVE SInv' /\ Paced' /\ DInv'
    OBVIOUS
  <2>1. [Next]_vars
    OBVIOUS
  <2>2. SInv'
    BY <2>1, NextKeepsInv, NextKeepsTypes, NextKeepsFiles, NextKeepsZero, NextKeepsPlaces,
       NextKeepsFull, NextKeepsList, NextKeepsListed DEF SInv
  <2>3. Paced'
    BY DEF vars, Paced, Awake
  <2>. QED
    BY <2>1, <2>2, <2>3, NextKeepsDInv
<1>3. SInv /\ DInv => SubscribersUpToDate
  BY DeliveriesAreUpToDate
<1>. QED
  BY <1>1, <1>2, <1>3, PTL DEF PacedSpec
=================================================================================
