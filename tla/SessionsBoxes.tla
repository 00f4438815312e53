----------------------------- MODULE SessionsBoxes -----------------------------
(***************************************************************************)
(* What the sessions do to the boxes, for any number of workers, boxes,    *)
(* requests and messages, whatever the clients do and however memory is    *)
(* reused: publishers write at the end of their boxes, a lock is left only *)
(* on a box that is full, and the list of boxes is well formed and has the *)
(* files of TecnicoFS in it.  At the end are the listings: what a manager  *)
(* prints is the list of boxes in the order of the names, because a        *)
(* listing, which holds box_list_lock, sends a response for each box of    *)
(* the list.                                                               *)
(***************************************************************************)
EXTENDS SessionsProofs

------------------------------------------------------------------------------
(* Each session has a handle of its own, which nobody closes; a publisher's *)
(* is at the end of its box, as long as its file is there and no other      *)
(* publisher's session overlaps.                                            *)

HasHandle(v) == worker[v].pc \in Publishing \cup Subscribing /\ worker[v].handle >= 0

HandlesInv ==
    /\ \A v \in Workers : HasHandle(v) => worker[v].handle \in Files!Handles \ Files!FreeHandles
    /\ \A u, v \in Workers : HasHandle(u) /\ HasHandle(v) /\ u # v => worker[u].handle # worker[v].handle
    /\ \A v \in Workers : worker[v].pc \in Writing => worker[v].handle >= 0

AppendsAt(v) ==
    LET inum == of_inumber[worker[v].handle]
    IN  worker[v].pc \in Publishing /\ worker[v].handle >= 0 /\ inum \notin removed =>
            /\ Files!FileIs(worker[v].new_box_name, inum)
            /\ worker[v].new_box_name \notin overlapped =>
                 of_offset[worker[v].handle] = i_size[inum]

OverlapsNoted ==
    \A u, v \in Workers :
        /\ u # v /\ worker[u].pc \in Publishing /\ worker[v].pc \in Publishing
        /\ worker[u].new_box_name = worker[v].new_box_name
        => worker[v].new_box_name \in overlapped

PlacesInv == (\A v \in Workers : AppendsAt(v)) /\ OverlapsNoted

LEMMA PlacesInit ==
  Init => HandlesInv /\ PlacesInv
PROOF
  BY DEF Init, HandlesInv, HasHandle, PlacesInv, AppendsAt, OverlapsNoted, Publishing, Subscribing,
         Writing, PublisherPCs, SubscriberPCs

\* A session that goes on, or has ended.
KeepsHandle(v) ==
    /\ worker'[v].pc \in Publishing =>
         /\ worker[v].pc \in Publishing
         /\ worker'[v].handle = worker[v].handle
         /\ worker'[v].new_box_name = worker[v].new_box_name
    /\ worker'[v].pc \in Subscribing =>
         worker[v].pc \in Subscribing /\ worker'[v].handle = worker[v].handle
    /\ worker'[v].pc \in Writing => worker[v].pc \in Writing \/ worker[v].handle >= 0

LEMMA SessionsKeepHandles ==
  /\ (\A v \in Workers : SameSession(v)) => \A v \in Workers : KeepsHandle(v)
  /\ \A v \in Workers : worker'[v] = worker[v] => KeepsHandle(v)
PROOF
  BY DEF SameSession, KeepsHandle

LEMMA HandlesKept ==
  ASSUME HandlesInv, Files!FreeHandles' \subseteq Files!FreeHandles,
         \A v \in Workers : KeepsHandle(v)
  PROVE  HandlesInv'
PROOF
<1>1. \A v \in Workers : HasHandle(v)' => HasHandle(v) /\ worker'[v].handle = worker[v].handle
  BY DEF KeepsHandle, HasHandle
<1>2. Files!Handles' = Files!Handles
  BY DEF Files!Handles
<1>3. \A v \in Workers : worker'[v].pc \in Writing => worker'[v].handle >= 0
  BY DEF HandlesInv, KeepsHandle, Writing
<1>. QED
  BY <1>1, <1>2, <1>3 DEF HandlesInv

\* The handle a step of w has opened is w's from then on.
LEMMA HandleJoins ==
  ASSUME HandlesInv, NEW w \in Workers, NEW ret,
         ret = -1 \/ ret \in Files!FreeHandles,
         Files!FreeHandles' \subseteq Files!FreeHandles, ret \notin Files!FreeHandles',
         worker'[w].handle = ret, worker'[w].pc \notin Writing,
         \A v \in Workers \ {w} : worker'[v] = worker[v]
  PROVE  HandlesInv'
PROOF
<1>1. Files!Handles' = Files!Handles /\ Files!FreeHandles \subseteq Files!Handles
  BY DEF Files!Handles, Files!FreeHandles
<1>2. \A v \in Workers \ {w} : HasHandle(v)' => HasHandle(v) /\ worker'[v].handle = worker[v].handle
  BY DEF HasHandle
<1>3. HasHandle(w)' => ret \in Files!FreeHandles
  BY DEF HasHandle
<1>4. \A v \in Workers : worker'[v].pc \in Writing => worker'[v].handle >= 0
  BY DEF HandlesInv
<1>. QED
  BY <1>1, <1>2, <1>3, <1>4 DEF HandlesInv

LEMMA OverlapsKept ==
  ASSUME OverlapsNoted, overlapped \subseteq overlapped', \A v \in Workers : KeepsHandle(v)
  PROVE  OverlapsNoted'
PROOF
  BY DEF OverlapsNoted, KeepsHandle

\* The number of a file is an inode in use.
LEMMA FileNumbers ==
  ASSUME Files!IInv, NEW name, NEW inum, Files!FileIs(name, inum)
  PROVE  inum \in Files!Inodes \ Files!FreeInodes /\ name \in BoxNames
PROOF
<1>1. Files!DirectoryExact /\ Files!DirType
  BY Zenon DEF Files!IInv, Files!TypeOK, Files!DirType
<1>2. Files!Live(inum) /\ name \in BoxNames /\ inum \notin Files!FreeInodes
  BY <1>1, FilesAssumptions, Files!FilesAreExact
<1>3. inum \in Files!Inodes
  BY <1>1 DEF Files!FileIs, Files!DirType, Files!UsedSlots, Files!FreeSlots
<1>. QED
  BY <1>2, <1>3

\* A publisher keeps its place when its file and its handle stay as they are.
LEMMA PlaceKept ==
  ASSUME HandlesInv, NEW v \in Workers, AppendsAt(v), KeepsHandle(v),
         removed \subseteq removed', overlapped \subseteq overlapped',
         \A h \in Files!Handles \ Files!FreeHandles :
            worker[v].pc \in Publishing /\ h = worker[v].handle =>
                of_inumber'[h] = of_inumber[h] /\ of_offset'[h] = of_offset[h],
         \A n, i : Files!FileIs(n, i) /\ i \notin removed' =>
            Files!FileIs(n, i)' /\ i_size'[i] = i_size[i]
  PROVE  AppendsAt(v)'
PROOF
<1>1. PICK h : h = worker[v].handle
  OBVIOUS
<1>2. PICK n : n = worker[v].new_box_name
  OBVIOUS
<1>3. PICK i : i = of_inumber[h]
  OBVIOUS
<1>4. ASSUME worker'[v].pc \in Publishing, h >= 0, of_inumber'[h] \notin removed'
      PROVE  /\ of_inumber'[h] = i
             /\ Files!FileIs(n, i)'
             /\ n \notin overlapped' => of_offset'[h] = i_size'[i]
  <2>1. worker[v].pc \in Publishing /\ h \in Files!Handles \ Files!FreeHandles
    BY <1>1, <1>4 DEF KeepsHandle, HandlesInv, HasHandle
  <2>2. of_inumber'[h] = i /\ of_offset'[h] = of_offset[h]
    BY <1>1, <1>3, <2>1
  <2>3. Files!FileIs(n, i) /\ (n \notin overlapped => of_offset[h] = i_size[i])
    BY <1>1, <1>2, <1>3, <1>4, <2>1, <2>2 DEF AppendsAt
  <2>4. Files!FileIs(n, i)' /\ i_size'[i] = i_size[i]
    BY <1>4, <2>2, <2>3
  <2>. QED
    BY <2>2, <2>3, <2>4
<1>5. worker'[v].pc \in Publishing => worker'[v].handle = h /\ worker'[v].new_box_name = n
  BY <1>1, <1>2 DEF KeepsHandle
<1>6. ASSUME worker'[v].pc \in Publishing, worker'[v].handle >= 0,
             of_inumber'[worker'[v].handle] \notin removed'
      PROVE  /\ Files!FileIs(worker[v].new_box_name, of_inumber[worker[v].handle])'
             /\ worker'[v].new_box_name \notin overlapped' =>
                  of_offset'[worker'[v].handle] = i_size'[of_inumber'[worker'[v].handle]]
  BY <1>4, <1>5, <1>6
<1>. QED
  BY <1>6 DEF AppendsAt

\* Each step but a publisher's write: what it opens is at the end of its file.
LEMMA CalmPlaces ==
  ASSUME HandlesInv, PlacesInv, \A v \in Workers : KeepsHandle(v),
         removed \subseteq removed', overlapped \subseteq overlapped',
         Files!FreeHandles' \subseteq Files!FreeHandles,
         \A h \in Files!Handles \ Files!FreeHandles :
            of_inumber'[h] = of_inumber[h]
            /\ ((\E v \in Workers : worker[v].pc \in Publishing /\ worker[v].handle = h) =>
                    of_offset'[h] = of_offset[h]),
         \A n, i : Files!FileIs(n, i) /\ i \notin removed' =>
            Files!FileIs(n, i)' /\ i_size'[i] = i_size[i]
  PROVE  HandlesInv' /\ PlacesInv'
PROOF
<1>1. HandlesInv'
  BY HandlesKept
<1>2. OverlapsNoted'
  BY OverlapsKept DEF PlacesInv
<1>3. ASSUME NEW v \in Workers PROVE AppendsAt(v)'
  BY PlaceKept DEF PlacesInv
<1>. QED
  BY <1>1, <1>2, <1>3 DEF PlacesInv

LEMMA SameTablesKeepFiles ==
  ASSUME UNCHANGED <<d_name, d_inumber>>
  PROVE  \A n, i : Files!FileIs(n, i)' <=> Files!FileIs(n, i)
PROOF
  BY DEF Files!FileIs, Files!UsedSlots, Files!FreeSlots, Files!Slots

LEMMA QuietPlaces ==
  ASSUME HandlesInv, PlacesInv, UNCHANGED <<tables, removed, overlapped>>,
         \A v \in Workers : KeepsHandle(v)
  PROVE  HandlesInv' /\ PlacesInv'
PROOF
<1>1. UNCHANGED <<d_name, d_inumber, i_size, free_open_file_entries, of_inumber, of_offset>>
  BY DEF tables
<1>2. Files!FreeHandles' = Files!FreeHandles
  BY <1>1 DEF Files!FreeHandles
<1>. QED
  BY <1>1, <1>2, SameTablesKeepFiles, CalmPlaces

LEMMA ReadKeepsPlaces ==
  ASSUME FilesInv, HandlesInv, PlacesInv,
         NEW w \in Workers, NEW h, NEW ret, SubscriberReads(w, h, ret)
  PROVE  HandlesInv' /\ PlacesInv'
PROOF
<1>1. /\ UNCHANGED <<d_name, d_inumber, i_size, free_open_file_entries, of_inumber>>
      /\ \A g \in Files!Handles \ {h} : of_offset'[g] = of_offset[g]
  BY ReadKeepsFiles DEF SubscriberReads, Files!inodeVars, Files!dirVars
<1>2. /\ UNCHANGED <<removed, overlapped>>
      /\ h = worker[w].handle /\ worker[w].pc \in Subscribing
  BY DEF SubscriberReads, Reads, Subscribing, SubscriberPCs
<1>3. Files!FreeHandles' = Files!FreeHandles
  BY <1>1 DEF Files!FreeHandles
<1>4. \A v \in Workers : KeepsHandle(v)
  <2>1. Settled
    BY MovesSettle DEF SubscriberReads
  <2>. QED
    BY <2>1, SessionsKeepHandles DEF Settled
<1>5. ASSUME NEW g \in Files!Handles \ Files!FreeHandles, NEW v \in Workers,
             worker[v].pc \in Publishing, worker[v].handle = g
      PROVE  of_offset'[g] = of_offset[g]
  <2>1. g \in Nat
    BY FilesAssumptions DEF Files!Handles, Files!SizeAssumption
  <2>2. v # w
    BY <1>2, <1>5 DEF Publishing, Subscribing, PublisherPCs, SubscriberPCs
  <2>3. HasHandle(v) /\ (h >= 0 => HasHandle(w))
    BY <1>2, <1>5, <2>1 DEF HasHandle
  <2>4. g # h
    BY <1>2, <1>5, <2>1, <2>2, <2>3 DEF HandlesInv
  <2>. QED
    BY <1>1, <2>4
<1>. QED
  BY <1>1, <1>2, <1>3, <1>4, <1>5, SameTablesKeepFiles, CalmPlaces

LEMMA UnlinkKeepsPlaces ==
  ASSUME IInv, FilesInv, HandlesInv, PlacesInv,
         NEW w \in Workers, NEW name, NEW ret, ManagerUnlinks(w, name, ret)
  PROVE  HandlesInv' /\ PlacesInv'
PROOF
<1>1. /\ UNCHANGED <<free_open_file_entries, of_inumber, of_offset, i_size>>
      /\ Files!IInv
  BY UnlinkKeepsFiles DEF ManagerUnlinks, Files!openVars
<1>2. Files!FreeHandles' = Files!FreeHandles
  BY <1>1 DEF Files!FreeHandles
<1>3. /\ worker' = [worker EXCEPT ![w].pc = IF ret = -1 THEN "m_respond" ELSE "r_delete"]
      /\ overlapped' = overlapped /\ removed \subseteq removed'
  BY DEF ManagerUnlinks, Unlinks
<1>4. \A v \in Workers : KeepsHandle(v)
  <2>1. /\ \A v \in Workers \ {w} : worker'[v] = worker[v]
        /\ worker'[w].pc = "m_respond" \/ worker'[w].pc = "r_delete"
    BY <1>3 DEF IInv, Shape, Fields
  <2>2. KeepsHandle(w)
    BY <2>1 DEF KeepsHandle, Publishing, Subscribing, Writing, PublisherPCs, SubscriberPCs
  <2>. QED
    BY <2>1, <2>2, SessionsKeepHandles
<1>5. ASSUME NEW n, NEW i, Files!FileIs(n, i), i \notin removed' PROVE Files!FileIs(n, i)'
  <2>1. CASE UNCHANGED <<Files!vars, removed>>
    BY <1>5, <2>1, SameTablesKeepFiles DEF Files!vars, Files!dirVars
  <2>2. CASE /\ \A m \in BoxNames \ {name} : \A j : Files!FileIs(m, j)' <=> Files!FileIs(m, j)
             /\ \E inum \in Files!Inodes : Files!FileIs(name, inum) /\ removed' = removed \cup {inum}
    <3>1. PICK inum : Files!FileIs(name, inum) /\ removed' = removed \cup {inum}
      BY <2>2
    <3>2. n # name
      BY <1>1, <1>5, <3>1, FilesAssumptions, Files!FilesAreExact, Zenon DEF Files!IInv
    <3>3. n \in BoxNames
      BY <1>1, <1>5, FileNumbers
    <3>. QED
      BY <1>5, <2>2, <3>2, <3>3
  <2>. QED
    BY <2>1, <2>2, UnlinkKeepsFiles DEF ManagerUnlinks
<1>. QED
  BY <1>1, <1>2, <1>3, <1>4, <1>5, CalmPlaces

LEMMA OpenKeepsPlace ==
  ASSUME FilesInv, HandlesInv, NEW name, NEW mode \in OpenModes, NEW ret, Opens(name, mode, ret),
         NEW v \in Workers, AppendsAt(v), KeepsHandle(v), overlapped \subseteq overlapped'
  PROVE  AppendsAt(v)'
PROOF
<1>1. Files!IInv /\ Files!FilesStay /\ removed' = removed
  BY OpenKeepsFiles DEF Opens
<1>2. ASSUME NEW h \in Files!Handles \ Files!FreeHandles
      PROVE  of_inumber'[h] = of_inumber[h] /\ of_offset'[h] = of_offset[h]
  <2>1. CASE UNCHANGED Files!openVars
    BY <2>1 DEF Files!openVars
  <2>2. CASE Files!HandleTaken(name, mode, ret)
    BY <2>2 DEF Files!HandleTaken
  <2>. QED
    BY <2>1, <2>2, OpenKeepsFiles
<1>3. \A n, i : Files!FileIs(n, i) => Files!FileIs(n, i)' /\ i_size'[i] = i_size[i]
  BY <1>1, FileNumbers DEF Files!FilesStay
<1>. QED
  BY <1>1, <1>2, <1>3, PlaceKept

LEMMA SubscriberOpenKeepsPlaces ==
  ASSUME IInv, FilesInv, HandlesInv, PlacesInv,
         NEW w \in Workers, NEW name, NEW ret, SubscriberOpens(w, name, ret)
  PROVE  HandlesInv' /\ PlacesInv'
PROOF
<1>1. Opens(name, {}, ret) /\ {} \in OpenModes
  BY DEF SubscriberOpens, OpenModes
<1>2. /\ worker' = [worker EXCEPT ![w].pc = "s_check", ![w].handle = ret] /\ overlapped' = overlapped
  BY DEF SubscriberOpens
<1>3. /\ \A v \in Workers \ {w} : worker'[v] = worker[v] /\ KeepsHandle(v)
      /\ worker'[w].pc = "s_check" /\ worker'[w].handle = ret
  BY <1>2, SessionsKeepHandles DEF IInv, Shape, Fields
<1>4. worker'[w].pc \notin Publishing
  BY <1>3 DEF Publishing, PublisherPCs
<1>5. HandlesInv'
  BY <1>1, <1>3, <1>4, HandlesStayTaken, HandleJoins DEF Writing
<1>6. ASSUME NEW v \in Workers PROVE AppendsAt(v)'
  <2>1. CASE v = w
    BY <1>4, <2>1 DEF AppendsAt
  <2>2. CASE v # w
    BY <1>1, <1>2, <1>3, <2>2, OpenKeepsPlace DEF PlacesInv
  <2>. QED
    BY <2>1, <2>2
<1>7. OverlapsNoted'
  <2>1. \A v \in Workers : worker'[v].pc \in Publishing => worker'[v] = worker[v]
    BY <1>3, <1>4
  <2>2. ASSUME NEW u \in Workers, NEW v \in Workers, u # v, worker'[u].pc \in Publishing,
               worker'[v].pc \in Publishing, worker'[u].new_box_name = worker'[v].new_box_name
        PROVE  worker'[v].new_box_name \in overlapped
    <3>1. worker'[u] = worker[u] /\ worker'[v] = worker[v]
      BY <2>1, <2>2
    <3>. QED
      BY <2>2, <3>1 DEF PlacesInv, OverlapsNoted
  <2>. QED
    BY <1>2, <2>2 DEF OverlapsNoted
<1>. QED
  BY <1>5, <1>6, <1>7 DEF PlacesInv

LEMMA ManagerCreateKeepsPlaces ==
  ASSUME IInv, FilesInv, HandlesInv, PlacesInv,
         NEW w \in Workers, NEW name, NEW ret, ManagerCreates(w, name, ret)
  PROVE  HandlesInv' /\ PlacesInv'
PROOF
<1>1. Opens(name, {"TFS_O_CREAT"}, ret) /\ {"TFS_O_CREAT"} \in OpenModes
  BY DEF ManagerCreates, OpenModes
<1>2. /\ worker' = [worker EXCEPT ![w].pc = IF ret = -1 THEN "m_respond" ELSE "c_insert"]
      /\ overlapped' = overlapped
  BY DEF ManagerCreates
<1>3. /\ \A v \in Workers \ {w} : worker'[v] = worker[v]
      /\ worker'[w].pc = "m_respond" \/ worker'[w].pc = "c_insert"
  BY <1>2 DEF IInv, Shape, Fields
<1>4. KeepsHandle(w)
  BY <1>3 DEF KeepsHandle, Publishing, Subscribing, Writing, PublisherPCs, SubscriberPCs
<1>5. \A v \in Workers : KeepsHandle(v)
  BY <1>3, <1>4, SessionsKeepHandles
<1>6. HandlesInv'
  BY <1>1, <1>5, HandlesStayTaken, HandlesKept
<1>7. ASSUME NEW v \in Workers PROVE AppendsAt(v)'
  BY <1>1, <1>2, <1>5, OpenKeepsPlace DEF PlacesInv
<1>8. OverlapsNoted'
  BY <1>2, <1>5, OverlapsKept DEF PlacesInv
<1>. QED
  BY <1>6, <1>7, <1>8 DEF PlacesInv

LEMMA PublisherOpenKeepsPlaces ==
  ASSUME IInv, FilesInv, HandlesInv, PlacesInv,
         NEW w \in Workers, NEW name, NEW ret, PublisherOpens(w, name, ret)
  PROVE  HandlesInv' /\ PlacesInv'
PROOF
<1>1. Opens(name, {"TFS_O_APPEND"}, ret) /\ {"TFS_O_APPEND"} \in OpenModes
  BY DEF PublisherOpens, OpenModes
<1>2. /\ worker' = [worker EXCEPT ![w].pc = "p_find", ![w].handle = ret]
      /\ name = worker[w].new_box_name /\ Overlap(w)
  BY DEF PublisherOpens
<1>3. /\ \A v \in Workers \ {w} : worker'[v] = worker[v] /\ KeepsHandle(v)
      /\ worker'[w].pc = "p_find" /\ worker'[w].handle = ret /\ worker'[w].new_box_name = name
  BY <1>2, SessionsKeepHandles DEF IInv, Shape, Fields
<1>4. /\ overlapped \subseteq overlapped'
      /\ \A v \in Workers \ {w} :
            worker[v].pc \in Publishing /\ worker[v].new_box_name = name => name \in overlapped'
  BY <1>2 DEF Overlap, Publishing
<1>5. HandlesInv'
  <2>1. worker'[w].pc \notin Writing
    BY <1>3 DEF Writing
  <2>. QED
    BY <1>1, <1>3, <2>1, HandlesStayTaken, HandleJoins
<1>6. ASSUME NEW v \in Workers PROVE AppendsAt(v)'
  <2>1. CASE v = w
    <3>1. CASE ret = -1
      BY <1>3, <2>1, <3>1 DEF AppendsAt
    <3>2. CASE Files!HandleTaken(name, {"TFS_O_APPEND"}, ret)
      <4>1. /\ Files!FileIs(name, of_inumber[ret])'
            /\ of_offset'[ret] = i_size'[of_inumber'[ret]]
        BY <3>2 DEF Files!HandleTaken
      <4>2. /\ Files!FileIs(worker[w].new_box_name, of_inumber[worker[w].handle])'
            /\ of_offset'[worker'[w].handle] = i_size'[of_inumber'[worker'[w].handle]]
        BY <1>3, <4>1
      <4>. QED
        BY <2>1, <4>2 DEF AppendsAt
    <3>. QED
      BY <1>1, <3>1, <3>2, OpenKeepsFiles
  <2>2. CASE v # w
    BY <1>1, <1>3, <1>4, <2>2, OpenKeepsPlace DEF PlacesInv
  <2>. QED
    BY <2>1, <2>2
<1>7. OverlapsNoted'
  BY <1>3, <1>4 DEF PlacesInv, OverlapsNoted
<1>. QED
  BY <1>5, <1>6, <1>7 DEF PlacesInv

LEMMA PublisherWriteKeepsPlaces ==
  ASSUME IInv, FilesInv, HandlesInv, PlacesInv,
         NEW w \in Workers, NEW h, NEW buf, NEW ret, PublisherWrites(w, h, buf, ret)
  PROVE  HandlesInv' /\ PlacesInv'
PROOF
<1>1. /\ UNCHANGED <<free_open_file_entries, d_name, d_inumber, of_inumber>>
      /\ Files!IInv
      /\ \A i \in Files!Inodes \ {of_inumber[h]} : i_size'[i] = i_size[i]
      /\ \A g \in Files!Handles \ {h} : of_offset'[g] = of_offset[g]
      /\ Files!Opened(h) /\ of_offset[h] = i_size[of_inumber[h]] =>
             of_offset'[h] = i_size'[of_inumber[h]]
  BY WriteKeepsFiles DEF PublisherWrites, Files!dirVars
<1>2. Files!FreeHandles' = Files!FreeHandles
  BY <1>1 DEF Files!FreeHandles
<1>3. /\ worker[w].pc = "p_write" /\ h = worker[w].handle
      /\ worker' = [worker EXCEPT ![w].pc = IF ret < 1 THEN "p_release" ELSE "p_announce"]
      /\ overlapped' = overlapped /\ removed' = removed
  BY DEF PublisherWrites, Writes
<1>4. \A v \in Workers : KeepsHandle(v)
  <2>1. /\ \A v \in Workers \ {w} : worker'[v] = worker[v]
        /\ worker'[w] = [worker[w] EXCEPT !.pc = IF ret < 1 THEN "p_release" ELSE "p_announce"]
    BY <1>3 DEF IInv, Shape, Fields
  <2>2. KeepsHandle(w)
    BY <1>3, <2>1 DEF KeepsHandle, Publishing, Subscribing, Writing, PublisherPCs, SubscriberPCs,
                      IInv, Shape, Fields
  <2>. QED
    BY <2>1, <2>2, SessionsKeepHandles
<1>5. HandlesInv'
  BY <1>2, <1>4, HandlesKept
<1>6. OverlapsNoted'
  BY <1>3, <1>4, OverlapsKept DEF PlacesInv
<1>7. h \in Files!Handles \ Files!FreeHandles /\ h >= 0 /\ worker[w].pc \in Publishing
  BY <1>3 DEF HandlesInv, HasHandle, Publishing, Writing, PublisherPCs
<1>8. ASSUME NEW v \in Workers PROVE AppendsAt(v)'
  <2>1. PICK g : g = worker[v].handle
    OBVIOUS
  <2>2. PICK n : n = worker[v].new_box_name
    OBVIOUS
  <2>3. PICK i : i = of_inumber[g]
    OBVIOUS
  <2>4. ASSUME worker'[v].pc \in Publishing, g >= 0, i \notin removed
        PROVE  Files!FileIs(n, i)' /\ (n \notin overlapped => of_offset'[g] = i_size'[i])
    <3>1. worker[v].pc \in Publishing /\ g \in Files!Handles \ Files!FreeHandles
      BY <1>4, <2>1, <2>4 DEF KeepsHandle, HandlesInv, HasHandle
    <3>2. Files!FileIs(n, i) /\ (n \notin overlapped => of_offset[g] = i_size[i])
      BY <2>1, <2>2, <2>3, <2>4, <3>1 DEF PlacesInv, AppendsAt
    <3>3. Files!FileIs(n, i)'
      BY <1>1, <3>2, SameTablesKeepFiles
    <3>4. CASE v = w
      <4>1. Files!Opened(h)
        <5>1. Files!OpenType
          BY <1>1, Zenon DEF Files!IInv, Files!TypeOK, Files!OpenType
        <5>. QED
          BY <1>7, <5>1 DEF Files!Opened, Files!FreeHandles, Files!OpenType
      <4>. QED
        BY <1>1, <1>3, <2>1, <2>3, <3>2, <3>3, <3>4, <4>1
    <3>5. CASE v # w /\ i # of_inumber[h]
      <4>1. g # h
        BY <2>3, <3>5
      <4>2. i \in Files!Inodes
        BY <1>1, <3>2, FileNumbers
      <4>. QED
        BY <1>1, <3>1, <3>2, <3>3, <3>5, <4>1, <4>2
    <3>6. CASE v # w /\ i = of_inumber[h]
      <4>1. PICK m : m = worker[w].new_box_name
        OBVIOUS
      <4>2. Files!FileIs(m, i)
        BY <1>3, <1>7, <2>4, <3>6, <4>1 DEF PlacesInv, AppendsAt
      <4>3. m = n
        BY <1>1, <3>2, <4>2, FilesAssumptions, Files!FilesAreExact, Zenon DEF Files!IInv
      <4>4. n \in overlapped
        BY <1>7, <2>2, <3>1, <3>6, <4>1, <4>3 DEF PlacesInv, OverlapsNoted
      <4>. QED
        BY <3>3, <4>4
    <3>. QED
      BY <3>4, <3>5, <3>6
  <2>5. worker'[v].pc \in Publishing => worker'[v].handle = g /\ worker'[v].new_box_name = n
    BY <1>4, <2>1, <2>2 DEF KeepsHandle
  <2>6. of_inumber'[g] = i
    BY <1>1, <2>3
  <2>7. ASSUME worker'[v].pc \in Publishing, worker'[v].handle >= 0,
               of_inumber'[worker'[v].handle] \notin removed'
        PROVE  /\ Files!FileIs(worker[v].new_box_name, of_inumber[worker[v].handle])'
               /\ worker'[v].new_box_name \notin overlapped' =>
                    of_offset'[worker'[v].handle] = i_size'[of_inumber'[worker'[v].handle]]
    BY <1>3, <2>4, <2>5, <2>6, <2>7
  <2>. QED
    BY <2>7 DEF AppendsAt
<1>. QED
  BY <1>5, <1>6, <1>8 DEF PlacesInv

LEMMA NextKeepsPlaces ==
  ASSUME IInv, Types, FilesInv, HandlesInv, PlacesInv, [Next]_vars
  PROVE  HandlesInv' /\ PlacesInv'
PROOF
<1>1. CASE Quiet
  BY <1>1, QuietPlaces, SessionsKeepHandles DEF Quiet, SameFiles, Settled, history
<1>2. ASSUME NEW w \in Workers, ManagerInsert(w) \/ ManagerDelete(w) PROVE HandlesInv' /\ PlacesInv'
  <2>1. /\ worker' = [worker EXCEPT ![w].pc = "m_respond"]
        /\ UNCHANGED <<tables, removed, overlapped>>
    BY <1>2 DEF ManagerInsert, ManagerDelete, Delete, Goto, fsVars, otherVars, history
  <2>2. /\ \A v \in Workers \ {w} : worker'[v] = worker[v]
        /\ worker'[w].pc = "m_respond"
    BY <2>1 DEF IInv, Shape, Fields
  <2>3. KeepsHandle(w)
    BY <2>2 DEF KeepsHandle, Publishing, Subscribing, Writing, PublisherPCs, SubscriberPCs
  <2>4. \A v \in Workers : KeepsHandle(v)
    BY <2>2, <2>3, SessionsKeepHandles
  <2>. QED
    BY <2>1, <2>4, QuietPlaces
<1>3. ASSUME NEW w \in Workers, NEW name, NEW ret,
             \/ PublisherOpens(w, name, ret) \/ SubscriberOpens(w, name, ret)
             \/ ManagerCreates(w, name, ret) \/ ManagerUnlinks(w, name, ret)
      PROVE  HandlesInv' /\ PlacesInv'
  BY <1>3, PublisherOpenKeepsPlaces, SubscriberOpenKeepsPlaces, ManagerCreateKeepsPlaces,
     UnlinkKeepsPlaces
<1>4. ASSUME NEW w \in Workers, NEW h, NEW buf, NEW ret, PublisherWrites(w, h, buf, ret)
      PROVE  HandlesInv' /\ PlacesInv'
  BY <1>4, PublisherWriteKeepsPlaces
<1>5. ASSUME NEW w \in Workers, NEW h, NEW ret, SubscriberReads(w, h, ret)
      PROVE  HandlesInv' /\ PlacesInv'
  BY <1>5, ReadKeepsPlaces
<1>. QED
  BY <1>1, <1>2, <1>3, <1>4, <1>5, QuietOrLoud, OpeningSteps, UnlinkingSteps, WritingSteps,
     ReadingSteps DEF Loud

LEMMA PlacesAreEnds ==
  HandlesInv /\ PlacesInv => PublishersAppend
PROOF
  BY DEF HandlesInv, PlacesInv, AppendsAt, PublishersAppend, Writing, Publishing, PublisherPCs

------------------------------------------------------------------------------
(* As long as no file has been removed, a publisher leaves its box locked   *)
(* only when the file of that box is full.                                  *)

Full(a) ==
    \E inum \in Files!Inodes :
        Files!FileIs(box_data[a].box_name, inum) /\ i_size[inum] = BLOCK_SIZE

FullInv ==
    removed = {} =>
        /\ reinitialised = {}
        /\ \A a \in Addresses : box_data[a].box_name # NoName => box_data[a].allocated
        /\ \A v \in Workers : worker[v].pc # "r_delete"
        /\ BoxesRight
        /\ \A a \in Addresses : Abandoned(a) => Full(a)

LEMMA FullInit ==
  Init => FullInv
PROOF
  BY WorkerAssumption
     DEF Init, FullInv, BoxesRight, Abandoned, NewBox, Publishing, PublisherPCs

FullFilesStay ==
    \A n, i : i \in Files!Inodes /\ Files!FileIs(n, i) /\ i_size[i] = BLOCK_SIZE =>
        Files!FileIs(n, i)' /\ i_size'[i] = BLOCK_SIZE

LEMMA FullStays ==
  ASSUME FullFilesStay, NEW a \in Addresses, Full(a), box_data'[a].box_name = box_data[a].box_name
  PROVE  Full(a)'
PROOF
<1>1. PICK n : n = box_data[a].box_name
  OBVIOUS
<1>2. PICK i \in Files!Inodes : Files!FileIs(n, i) /\ i_size[i] = BLOCK_SIZE
  BY <1>1 DEF Full
<1>3. i \in Files!Inodes' /\ Files!FileIs(n, i)' /\ i_size'[i] = BLOCK_SIZE /\ n = box_data'[a].box_name
  BY <1>1, <1>2 DEF FullFilesStay, Files!Inodes
<1>4. Files!FileIs(box_data[a].box_name, i)'
  BY <1>3
<1>. QED
  BY <1>3, <1>4 DEF Full

LEMMA FullKept ==
  ASSUME FullInv, removed' = {} => removed = {}, FullFilesStay, SameBoxes,
         \A v \in Workers : worker'[v].pc = "r_delete" => worker[v].pc = "r_delete",
         BoxesRight => BoxesRight',
         \A a \in Addresses : Abandoned(a)' => Abandoned(a)
  PROVE  FullInv'
PROOF
<1>. SUFFICES ASSUME removed' = {}
              PROVE  /\ reinitialised' = {}
                     /\ \A a \in Addresses : box_data'[a].box_name # NoName => box_data'[a].allocated
                     /\ \A v \in Workers : worker'[v].pc # "r_delete"
                     /\ BoxesRight'
                     /\ \A a \in Addresses : Abandoned(a)' => Full(a)'
  BY DEF FullInv
<1>1. /\ reinitialised = {}
      /\ \A a \in Addresses : box_data[a].box_name # NoName => box_data[a].allocated
      /\ \A v \in Workers : worker[v].pc # "r_delete"
      /\ BoxesRight
      /\ \A a \in Addresses : Abandoned(a) => Full(a)
  BY DEF FullInv
<1>2. \A a \in Addresses : Abandoned(a)' => Full(a)'
  BY <1>1, FullStays DEF SameBoxes
<1>. QED
  BY <1>1, <1>2 DEF SameBoxes

\* A step of a worker that holds no box's lock and is on no box after it.
LEMMA OutsideMove ==
  ASSUME NEW w \in Workers, ~ Held(w), UNCHANGED <<boxVars, reinitialised>>,
         \A v \in Workers \ {w} : worker'[v] = worker[v],
         worker'[w].pc \notin Publishing \ {"p_find"}
  PROVE  /\ SameBoxes
         /\ BoxesRight => BoxesRight'
         /\ \A a \in Addresses : Abandoned(a)' => Abandoned(a)
PROOF
<1>1. SameBoxes
  BY DEF boxVars, SameBoxes
<1>2. ASSUME BoxesRight PROVE BoxesRight'
  <2>1. ASSUME NEW v \in Workers, worker'[v].pc \in Publishing \ {"p_find"}, worker'[v].box \in Addresses
        PROVE  box_data'[worker'[v].box].box_name = worker'[v].new_box_name
    <3>1. worker'[v] = worker[v]
      BY <2>1
    <3>. QED
      BY <1>2, <2>1, <3>1 DEF BoxesRight, Box, boxVars
  <2>. QED
    BY <2>1 DEF BoxesRight, Box
<1>3. ASSUME NEW a \in Addresses, Abandoned(a)' PROVE Abandoned(a)
  <2>1. PICK owner : owner = box_data[a].box_condvar_lock
    OBVIOUS
  <2>2. owner \in Workers /\ ~ (Held(owner)' /\ worker'[owner].box = a)
    BY <1>3, <2>1 DEF Abandoned, Held, boxVars
  <2>3. CASE owner = w
    BY <2>1, <2>2, <2>3 DEF Abandoned
  <2>4. CASE owner # w
    <3>1. worker'[owner] = worker[owner]
      BY <2>2, <2>4
    <3>. QED
      BY <2>1, <2>2, <3>1 DEF Abandoned, Held
  <2>. QED
    BY <2>3, <2>4
<1>. QED
  BY <1>1, <1>2, <1>3

LEMMA OpenKeepsFull ==
  ASSUME FilesInv, NEW name, NEW mode \in OpenModes, NEW ret, Opens(name, mode, ret)
  PROVE  FullFilesStay
PROOF
  BY OpenKeepsFiles, FileNumbers DEF FullFilesStay, Files!FilesStay

LEMMA OpeningKeepsFullInv ==
  ASSUME IInv, FilesInv, FullInv, NEW w \in Workers, NEW name, NEW ret,
         \/ PublisherOpens(w, name, ret) \/ SubscriberOpens(w, name, ret)
         \/ ManagerCreates(w, name, ret)
  PROVE  FullInv'
PROOF
<1>1. /\ \E mode \in OpenModes : Opens(name, mode, ret)
      /\ UNCHANGED <<boxVars, reinitialised>> /\ worker[w].pc \in {"publish", "s_open", "create"}
      /\ \/ worker' = [worker EXCEPT ![w].pc = "p_find", ![w].handle = ret]
         \/ worker' = [worker EXCEPT ![w].pc = "s_check", ![w].handle = ret]
         \/ worker' = [worker EXCEPT ![w].pc = IF ret = -1 THEN "m_respond" ELSE "c_insert"]
  BY DEF PublisherOpens, SubscriberOpens, ManagerCreates, OpenModes
<1>2. FullFilesStay /\ removed' = removed
  BY <1>1, OpenKeepsFull DEF Opens
<1>3. /\ \A v \in Workers \ {w} : worker'[v] = worker[v]
      /\ \/ worker'[w].pc = "p_find" \/ worker'[w].pc = "s_check"
         \/ worker'[w].pc = "m_respond" \/ worker'[w].pc = "c_insert"
  BY <1>1 DEF IInv, Shape, Fields
<1>4. ~ Held(w) /\ worker'[w].pc \notin Publishing \ {"p_find"} /\ worker'[w].pc # "r_delete"
  BY <1>1, <1>3 DEF Held, Publishing, PublisherPCs
<1>. QED
  BY <1>1, <1>2, <1>3, <1>4, OutsideMove, FullKept

LEMMA UnlinkKeepsFullInv ==
  ASSUME IInv, FilesInv, FullInv, NEW w \in Workers, NEW name, NEW ret, ManagerUnlinks(w, name, ret)
  PROVE  FullInv'
PROOF
<1>1. /\ Unlinks(name, ret) /\ UNCHANGED <<boxVars, reinitialised>> /\ worker[w].pc = "remove"
      /\ worker' = [worker EXCEPT ![w].pc = IF ret = -1 THEN "m_respond" ELSE "r_delete"]
  BY DEF ManagerUnlinks
<1>2. CASE ret = -1 /\ UNCHANGED <<Files!vars, removed>>
  <2>1. UNCHANGED <<d_name, d_inumber, i_size, removed>>
    BY <1>2 DEF Files!vars, Files!dirVars, Files!inodeVars
  <2>2. FullFilesStay
    BY <2>1, SameTablesKeepFiles DEF FullFilesStay
  <2>3. \A v \in Workers \ {w} : worker'[v] = worker[v]
    BY <1>1 DEF IInv, Shape, Fields
  <2>4. worker'[w].pc = "m_respond"
    BY <1>1, <1>2 DEF IInv, Shape, Fields
  <2>5. ~ Held(w) /\ worker'[w].pc \notin Publishing \ {"p_find"} /\ worker'[w].pc # "r_delete"
    BY <1>1, <2>4 DEF Held, Publishing, PublisherPCs
  <2>. QED
    BY <1>1, <2>1, <2>2, <2>3, <2>5, OutsideMove, FullKept
<1>3. CASE \E inum \in Files!Inodes : removed' = removed \cup {inum}
  BY <1>3 DEF FullInv
<1>. QED
  BY <1>1, <1>2, <1>3, UnlinkKeepsFiles

LEMMA WriteKeepsFullFiles ==
  ASSUME FilesInv, NEW h, NEW buf, NEW ret, Writes(h, buf, ret), removed = {}
  PROVE  FullFilesStay
PROOF
<1>1. /\ FilesInv' /\ removed' = removed
      /\ UNCHANGED <<d_name, d_inumber>> /\ \A i \in Files!Inodes : i_size'[i] >= i_size[i]
  BY WriteKeepsFiles DEF Writes, Files!dirVars
<1>2. Files!Write(h, buf, ret) /\ Files!IInv /\ process = "running"
  BY WriteKeepsFiles DEF Writes
<1>3. Files!IInv'
  <2>1. Files!Next
    BY <1>2, Zenon DEF Files!Next, Writes, MessageBuffers
  <2>. QED
    BY <1>2, <2>1, FilesAssumptions, Files!IInvStep, Zenon
<1>4. Files!InodeType'
  BY <1>3, Zenon DEF Files!IInv, Files!TypeOK, Files!InodeType
<1>5. \A i \in Files!Inodes : i_size'[i] \in 0 .. BLOCK_SIZE
  BY <1>4 DEF Files!InodeType, Files!Inodes
<1>6. BLOCK_SIZE \in Nat
  BY FilesAssumptions DEF Files!SizeAssumption
<1>. QED
  BY <1>1, <1>5, <1>6, SameTablesKeepFiles DEF FullFilesStay

LEMMA WriteKeepsFullInv ==
  ASSUME IInv, FilesInv, HandlesInv, PlacesInv, FullInv,
         NEW w \in Workers, NEW h, NEW buf, NEW ret, PublisherWrites(w, h, buf, ret)
  PROVE  FullInv'
PROOF
<1>1. /\ worker[w].pc = "p_write" /\ h = worker[w].handle /\ Writes(h, buf, ret)
      /\ worker' = [worker EXCEPT ![w].pc = IF ret < 1 THEN "p_release" ELSE "p_announce"]
      /\ UNCHANGED <<boxVars, reinitialised>> /\ removed' = removed
  BY DEF PublisherWrites, Writes
<1>. SUFFICES ASSUME removed = {} PROVE FullInv'
  BY <1>1 DEF FullInv
<1>2. FullFilesStay
  BY <1>1, WriteKeepsFullFiles
<1>3. /\ \A v \in Workers \ {w} : worker'[v] = worker[v]
      /\ worker'[w] = [worker[w] EXCEPT !.pc = IF ret < 1 THEN "p_release" ELSE "p_announce"]
      /\ worker'[w].box = worker[w].box /\ worker'[w].handle = worker[w].handle
      /\ worker'[w].new_box_name = worker[w].new_box_name
      /\ worker'[w].pc = IF ret < 1 THEN "p_release" ELSE "p_announce"
  BY <1>1 DEF IInv, Shape, Fields
<1>4. CASE ~ (ret < 1)
  <2>1. MovedOn(w)
    BY <1>1, <1>3, <1>4
       DEF MovedOn, SameBoxes, SameSession, boxVars, Publishing, Subscribing, Writing, PublisherPCs,
           SubscriberPCs, Held, IInv, Locked, Box
  <2>2. Settled
    BY <2>1, MovesSettle
  <2>. QED
    BY <1>1, <1>2, <2>2, FullKept DEF Settled, SameSession
<1>5. CASE ret < 1
  <2>1. PICK a : a = worker[w].box
    OBVIOUS
  <2>2. PICK inum : inum = of_inumber[h]
    OBVIOUS
  <2>3. PICK n : n = worker[w].new_box_name
    OBVIOUS
  <2>4. a \in Addresses /\ box_data[a].box_name = n
    BY <1>1, <2>1, <2>3 DEF IInv, Pointers, InBox, FullInv, BoxesRight, Box, Publishing, PublisherPCs
  <2>5. h \in Files!Handles \ Files!FreeHandles /\ h >= 0
    BY <1>1 DEF HandlesInv, HasHandle, Publishing, Writing, PublisherPCs
  <2>6. Files!FileIs(n, inum)
    BY <1>1, <2>2, <2>3, <2>5 DEF PlacesInv, AppendsAt, Publishing, PublisherPCs
  <2>7. Files!CInv /\ Files!IInv
    BY <1>1, WriteKeepsFiles, Zenon DEF FilesInv
  <2>8. Files!Opened(h)
    <3>1. Files!OpenType
      BY <2>7, Zenon DEF Files!IInv, Files!TypeOK, Files!OpenType
    <3>. QED
      BY <2>5, <3>1 DEF Files!Opened, Files!FreeHandles, Files!OpenType
  <2>9. i_size[inum] = BLOCK_SIZE
    <3>1. buf \in MessageBuffers /\ Len(buf) > 0 /\ Files!Write(h, buf, ret)
      BY <1>1 DEF Writes
    <3>. QED
      BY <1>5, <2>2, <2>7, <2>8, <3>1, FilesAssumptions, FileSystemAssumption, Files!WriteFails
         DEF MessageBuffers
  <2>10. inum \in Files!Inodes
    BY <2>6, <2>7, FileNumbers
  <2>11. Full(a)
    BY <2>4, <2>6, <2>9, <2>10 DEF Full
  <2>12. SameBoxes
    BY <1>1 DEF SameBoxes, boxVars
  <2>13. BoxesRight'
    <3>1. \A v \in Workers : worker'[v].pc \in Publishing \ {"p_find"} =>
              /\ worker[v].pc \in Publishing \ {"p_find"}
              /\ worker'[v].box = worker[v].box /\ worker'[v].new_box_name = worker[v].new_box_name
      BY <1>1, <1>3 DEF Publishing, PublisherPCs
    <3>2. BoxesRight
      BY DEF FullInv
    <3>. QED
      BY <1>1, <3>1, <3>2 DEF BoxesRight, Box, boxVars
  <2>14. ASSUME NEW b \in Addresses, Abandoned(b)' PROVE Full(b)
    <3>1. PICK owner : owner = box_data[b].box_condvar_lock
      OBVIOUS
    <3>2. owner \in Workers /\ ~ (Held(owner)' /\ worker'[owner].box = b)
      BY <1>1, <2>14, <3>1 DEF Abandoned, Held, boxVars
    <3>3. CASE owner = w /\ b = a
      BY <2>11, <3>3
    <3>4. CASE ~ (owner = w /\ b = a)
      <4>1. Abandoned(b)
        BY <1>3, <2>1, <3>1, <3>2, <3>4 DEF Abandoned, Held
      <4>. QED
        BY <4>1 DEF FullInv
    <3>. QED
      BY <3>3, <3>4
  <2>15. \A b \in Addresses : Abandoned(b)' => Full(b)'
    BY <1>2, <2>12, <2>14, FullStays DEF SameBoxes
  <2>16. \A v \in Workers : worker'[v].pc # "r_delete"
    BY <1>3, <1>5 DEF FullInv
  <2>17. /\ reinitialised' = {}
         /\ \A b \in Addresses : box_data'[b].box_name # NoName => box_data'[b].allocated
    BY <2>12 DEF FullInv, SameBoxes
  <2>. QED
    BY <2>13, <2>15, <2>16, <2>17 DEF FullInv
<1>. QED
  BY <1>4, <1>5

\* A new box takes memory that has not been a box's before, and is unlocked.
LEMMA InsertKeepsFullInv ==
  ASSUME IInv, FullInv, NEW w \in Workers, ManagerInsert(w)
  PROVE  FullInv'
PROOF
<1>. SUFFICES ASSUME removed = {} PROVE FullInv'
  BY DEF FullInv, ManagerInsert, otherVars, history
<1>1. PICK a \in Malloc :
        /\ box_data' = BoxesWith(box_list, box_data, a, NewBox(worker[w].new_box_name))
        /\ reinitialised' = IF InUse(a) THEN reinitialised \cup {a} ELSE reinitialised \ {a}
  BY Zenon DEF ManagerInsert
<1>2. /\ worker[w].pc = "c_insert" /\ worker' = [worker EXCEPT ![w].pc = "m_respond"]
      /\ UNCHANGED tables
  BY DEF ManagerInsert, At, Goto, fsVars
<1>3. /\ \A v \in Workers \ {w} : worker'[v] = worker[v]
      /\ worker'[w].pc = "m_respond"
  BY <1>2 DEF IInv, Shape, Fields
<1>4. a \in Addresses /\ box_data[a].box_name = NoName
  BY <1>1 DEF Malloc, FullInv
<1>5. /\ \A b \in Addresses \ {a} : box_data'[b] = box_data[b]
      /\ box_data'[a].allocated /\ box_data'[a].box_condvar_lock = Nobody
  BY <1>1, <1>4 DEF BoxesWith, NewBox, IInv, Shape
<1>6. BoxesRight'
  <2>1. ASSUME NEW v \in Workers, worker'[v].pc \in Publishing \ {"p_find"}, worker'[v].box \in Addresses
        PROVE  box_data'[worker'[v].box].box_name = worker'[v].new_box_name
    <3>1. worker'[v] = worker[v]
      BY <1>3, <2>1 DEF Publishing, PublisherPCs
    <3>2. box_data[worker[v].box].box_name # NoName
      <4>1. worker[v].pc \in InBox \/ worker[v].pc = "p_check"
        BY <2>1, <3>1 DEF Publishing, PublisherPCs, InBox
      <4>. QED
        BY <2>1, <3>1, <4>1, AddressAssumption DEF IInv, Pointers, Found, Box
    <3>3. worker[v].box \in Addresses \ {a}
      BY <1>4, <2>1, <3>1, <3>2
    <3>. QED
      BY <1>5, <2>1, <3>1, <3>3 DEF FullInv, BoxesRight, Box
  <2>. QED
    BY <2>1 DEF BoxesRight, Box
<1>7. UNCHANGED <<d_name, d_inumber, i_size>>
  BY <1>2 DEF tables
<1>8. ASSUME NEW b \in Addresses, Abandoned(b)' PROVE Full(b)'
  <2>1. b # a
    BY <1>5, <1>8, WorkerAssumption DEF Abandoned
  <2>2. PICK owner : owner = box_data[b].box_condvar_lock
    OBVIOUS
  <2>3. owner \in Workers /\ ~ (Held(owner)' /\ worker'[owner].box = b)
    BY <1>5, <1>8, <2>1, <2>2 DEF Abandoned, Held
  <2>4. ~ (Held(owner) /\ worker[owner].box = b)
    <3>1. CASE owner = w
      BY <1>2, <3>1 DEF Held
    <3>2. CASE owner # w
      <4>1. worker'[owner] = worker[owner]
        BY <1>3, <2>3, <3>2
      <4>. QED
        BY <2>3, <4>1 DEF Held
    <3>. QED
      BY <3>1, <3>2
  <2>5. Full(b)
    BY <2>2, <2>3, <2>4 DEF Abandoned, FullInv
  <2>6. FullFilesStay
    BY <1>7, SameTablesKeepFiles DEF FullFilesStay
  <2>. QED
    BY <1>5, <2>1, <2>5, <2>6, FullStays
<1>9. \A b \in Addresses : box_data'[b].box_name # NoName => box_data'[b].allocated
  BY <1>5 DEF FullInv
<1>11. reinitialised' = {}
  <2>1. \A v \in Workers : Held(v) \/ worker[v].pc = "s_wait" => worker[v].box # a
    BY <1>4 DEF IInv, Pointers, Held, InBox, Box
  <2>. QED
    BY <1>1, <2>1 DEF InUse, FullInv
<1>10. \A v \in Workers : worker'[v].pc # "r_delete"
  BY <1>3 DEF FullInv
<1>. QED
  BY <1>6, <1>8, <1>9, <1>10, <1>11 DEF FullInv

LEMMA NextKeepsFull ==
  ASSUME IInv, Types, FilesInv, HandlesInv, PlacesInv, FullInv, [Next]_vars
  PROVE  FullInv'
PROOF
<1>1. ASSUME Settled, UNCHANGED <<removed, d_name, d_inumber, i_size>> PROVE FullInv'
  <2>1. FullFilesStay
    BY <1>1, SameTablesKeepFiles DEF FullFilesStay
  <2>. QED
    BY <1>1, <2>1, FullKept DEF Settled, SameSession
<1>2. CASE Quiet
  BY <1>1, <1>2 DEF Quiet, SameFiles, history, tables
<1>3. ASSUME NEW w \in Workers, NEW name, NEW ret,
             \/ PublisherOpens(w, name, ret) \/ SubscriberOpens(w, name, ret)
             \/ ManagerCreates(w, name, ret)
      PROVE  FullInv'
  BY <1>3, OpeningKeepsFullInv
<1>4. ASSUME NEW w \in Workers, NEW name, NEW ret, ManagerUnlinks(w, name, ret) PROVE FullInv'
  BY <1>4, UnlinkKeepsFullInv
<1>5. ASSUME NEW w \in Workers, NEW h, NEW buf, NEW ret, PublisherWrites(w, h, buf, ret)
      PROVE  FullInv'
  BY <1>5, WriteKeepsFullInv
<1>6. ASSUME NEW w \in Workers, NEW h, NEW ret, SubscriberReads(w, h, ret) PROVE FullInv'
  <2>1. UNCHANGED <<removed, d_name, d_inumber, i_size>>
    BY <1>6, ReadKeepsFiles DEF SubscriberReads, Reads, Files!inodeVars, Files!dirVars
  <2>. QED
    BY <1>1, <1>6, <2>1, MovesSettle DEF SubscriberReads
<1>7. ASSUME NEW w \in Workers, ManagerDelete(w) PROVE FullInv'
  BY <1>7 DEF ManagerDelete, Delete, At, FullInv, otherVars, history
<1>. QED
  BY <1>2, <1>3, <1>4, <1>5, <1>6, <1>7, InsertKeepsFullInv, QuietOrLoud, OpeningSteps,
     UnlinkingSteps, WritingSteps, ReadingSteps DEF Loud

\* A full file is the one of that name.
LEMMA FullAreAbandoned ==
  ASSUME FilesInv, FullInv
  PROVE  AbandonedOnlyWhenFull
PROOF
<1>. SUFFICES ASSUME removed = {}, NEW a \in Addresses, Abandoned(a)
              PROVE  i_size[FS!FileNamed(box_data[a].box_name)] = BLOCK_SIZE
  BY DEF AbandonedOnlyWhenFull, Abandoned
<1>1. PICK n : n = box_data[a].box_name
  OBVIOUS
<1>2. PICK inum : Files!FileIs(n, inum) /\ i_size[inum] = BLOCK_SIZE
  BY <1>1 DEF FullInv, Full
<1>3. Files!FileNamed(n) = inum
  BY <1>2, FilesAssumptions, Files!FilesAreExact DEF FilesInv
<1>4. FS!FileNamed(n) = inum
  BY <1>3, SameSets
<1>. QED
  BY <1>1, <1>2, <1>4

------------------------------------------------------------------------------
(* The list of boxes: what the recursive definition of Nodes computes for a *)
(* list whose n boxes are, in order, at the addresses of c.                 *)

IsList(list, boxes, n, c) ==
    /\ n \in Nat /\ c \in [1 .. n -> Addresses]
    /\ \A i, j \in 1 .. n : c[i] = c[j] => i = j
    /\ list.head = IF n = 0 THEN NULL ELSE c[1]
    /\ \A i \in 1 .. n : boxes[c[i]].next = IF i = n THEN NULL ELSE c[i + 1]

LEMMA PositionsAre ==
  /\ Cardinality(Addresses) \in Nat
  /\ Positions = 1 .. Cardinality(Addresses) + 1
PROOF
  BY AddressAssumption, FS_CardinalityType DEF Positions

\* The recursion defines a function.
NextNode(list, boxes, g, n) ==
    IF n = 1 THEN list.head ELSE IF g[n - 1] = NULL THEN NULL ELSE boxes[g[n - 1]].next

LEMMA NodesExist ==
  ASSUME NEW list, NEW boxes, NEW m \in Nat
  PROVE  \E g : g = [n \in 1 .. m |-> NextNode(list, boxes, g, n)]
PROOF
<1>. DEFINE Upto == {k \in Nat : \E g : g = [n \in 1 .. k |-> NextNode(list, boxes, g, n)]}
<1>1. 0 \in Upto
  <2>. DEFINE g == [n \in 1 .. 0 |-> NULL]
  <2>1. 1 .. 0 = {}
    OBVIOUS
  <2>2. g = [n \in 1 .. 0 |-> NextNode(list, boxes, g, n)]
    BY <2>1
  <2>. QED
    BY <2>2
<1>2. ASSUME NEW k \in Nat, k \in Upto PROVE k + 1 \in Upto
  <2>1. PICK g : g = [n \in 1 .. k |-> NextNode(list, boxes, g, n)]
    BY <1>2
  <2>. DEFINE h == [n \in 1 .. k + 1 |-> IF n <= k THEN g[n] ELSE NextNode(list, boxes, g, n)]
  <2>2. ASSUME NEW n \in 1 .. k + 1 PROVE h[n] = NextNode(list, boxes, h, n)
    <3>1. n # 1 => n - 1 \in 1 .. k /\ n - 1 \in 1 .. k + 1 /\ n - 1 <= k
      OBVIOUS
    <3>2. n # 1 => h[n - 1] = g[n - 1]
      BY <3>1
    <3>3. NextNode(list, boxes, h, n) = NextNode(list, boxes, g, n)
      BY <3>2 DEF NextNode
    <3>4. n <= k => g[n] = NextNode(list, boxes, g, n)
      BY <2>1
    <3>. QED
      BY <3>3, <3>4
  <2>3. h = [n \in 1 .. k + 1 |-> h[n]]
    OBVIOUS
  <2>4. \E f : f = [n \in 1 .. k + 1 |-> NextNode(list, boxes, f, n)]
    <3>. HIDE DEF h
    <3>1. h = [n \in 1 .. k + 1 |-> NextNode(list, boxes, h, n)]
      BY <2>2, <2>3
    <3>. QED
      BY <3>1
  <2>. QED
    BY <2>4
<1>. HIDE DEF Upto
<1>3. Nat \subseteq Upto
  BY <1>1, <1>2, NatSetInduction
<1>. QED
  BY <1>3 DEF Upto

LEMMA NodesRecursion ==
  ASSUME NEW list, NEW boxes
  PROVE  Nodes(list, boxes) = [n \in Positions |-> NextNode(list, boxes, Nodes(list, boxes), n)]
PROOF
<1>. DEFINE Is(g) == g = [n \in Positions |-> NextNode(list, boxes, g, n)]
<1>1. Nodes(list, boxes) = CHOOSE g : Is(g)
  BY DEF Nodes, NextNode
<1>2. \E g : Is(g)
  <2>1. PICK m \in Nat : m = Cardinality(Addresses) + 1
    BY PositionsAre
  <2>2. \E g : g = [n \in 1 .. m |-> NextNode(list, boxes, g, n)]
    BY NodesExist
  <2>3. Positions = 1 .. m
    BY <2>1, PositionsAre
  <2>. QED
    BY <2>2, <2>3
<1>. HIDE DEF Is
<1>3. Is(Nodes(list, boxes))
  BY <1>1, <1>2
<1>. QED
  BY <1>3 DEF Is

LEMMA ListNodes ==
  ASSUME NEW list, NEW boxes, NEW n, NEW c, IsList(list, boxes, n, c)
  PROVE  /\ n <= Cardinality(Addresses)
         /\ \A k \in Positions : Nodes(list, boxes)[k] = IF k <= n THEN c[k] ELSE NULL
PROOF
<1>. DEFINE node == Nodes(list, boxes)
<1>0. n \in Nat /\ c \in [1 .. n -> Addresses]
  BY DEF IsList
<1>1. n <= Cardinality(Addresses)
  <2>1. c \in Injection(1 .. n, Addresses)
    <3>1. \A i, j \in 1 .. n : c[i] = c[j] => i = j
      BY DEF IsList
    <3>. QED
      BY <1>0, <3>1 DEF Injection, IsInjective
  <2>2. Cardinality(1 .. n) <= Cardinality(Addresses)
    BY <2>1, AddressAssumption, FS_Injection
  <2>3. Cardinality(1 .. n) = n
    BY <1>0, FS_Interval
  <2>. QED
    BY <2>2, <2>3
<1>2. \A k \in Positions : node[k] = NextNode(list, boxes, node, k)
  BY NodesRecursion
<1>. DEFINE Good == {k \in Nat : k + 1 \in Positions =>
                        node[k + 1] = IF k + 1 <= n THEN c[k + 1] ELSE NULL}
<1>. HIDE DEF node
<1>3. 0 \in Good
  BY <1>0, <1>2 DEF IsList, NextNode
<1>4. ASSUME NEW k \in Nat, k \in Good PROVE k + 1 \in Good
  <2>. SUFFICES ASSUME k + 2 \in Positions
                PROVE  node[k + 2] = IF k + 2 <= n THEN c[k + 2] ELSE NULL
    OBVIOUS
  <2>1. k + 1 \in Positions
    BY PositionsAre
  <2>2. node[k + 1] = IF k + 1 <= n THEN c[k + 1] ELSE NULL
    BY <1>4, <2>1
  <2>3. node[k + 2] = IF node[k + 1] = NULL THEN NULL ELSE boxes[node[k + 1]].next
    BY <1>2 DEF NextNode
  <2>4. CASE k + 1 <= n
    <3>1. k + 1 \in 1 .. n /\ c[k + 1] \in Addresses
      BY <1>0, <2>4
    <3>2. boxes[c[k + 1]].next = IF k + 1 = n THEN NULL ELSE c[k + 2]
      BY <3>1 DEF IsList
    <3>. QED
      BY <1>0, <2>2, <2>3, <2>4, <3>1, <3>2, AddressAssumption
  <2>5. CASE ~ (k + 1 <= n)
    BY <1>0, <2>2, <2>3, <2>5
  <2>. QED
    BY <2>4, <2>5
<1>5. Nat \subseteq Good
  <2>. HIDE DEF Good
  <2>. QED
    BY <1>3, <1>4, NatSetInduction
<1>6. ASSUME NEW k \in Positions PROVE node[k] = IF k <= n THEN c[k] ELSE NULL
  <2>1. k - 1 \in Nat /\ (k - 1) + 1 = k
    BY PositionsAre
  <2>2. k - 1 \in Good
    BY <1>5, <2>1
  <2>. QED
    BY <2>1, <2>2
<1>. QED
  BY <1>1, <1>6 DEF node

LEMMA ListChain ==
  ASSUME NEW list, NEW boxes, NEW n, NEW c, IsList(list, boxes, n, c)
  PROVE  Chain(list, boxes) = c /\ ToSet(Chain(list, boxes)) = {c[i] : i \in 1 .. n}
PROOF
<1>. DEFINE node == Nodes(list, boxes)
<1>0. n \in Nat /\ c \in [1 .. n -> Addresses]
  BY DEF IsList
<1>1. /\ n <= Cardinality(Addresses)
      /\ \A k \in Positions : node[k] = IF k <= n THEN c[k] ELSE NULL
  BY ListNodes
<1>. HIDE DEF node
<1>2. {m \in Positions : node[m] # NULL} = 1 .. n
  BY <1>0, <1>1, PositionsAre, AddressAssumption
<1>3. Cardinality({m \in Positions : node[m] # NULL}) = n
  <2>1. Cardinality(1 .. n) = n
    BY <1>0, FS_Interval
  <2>. QED
    BY <1>2, <2>1, Zenon
<1>4. Chain(list, boxes) = [k \in 1 .. n |-> node[k]]
  BY <1>3 DEF Chain, node
<1>5. \A k \in 1 .. n : node[k] = c[k]
  BY <1>0, <1>1, PositionsAre
<1>6. Chain(list, boxes) = c
  BY <1>0, <1>4, <1>5
<1>. QED
  BY <1>0, <1>6 DEF ToSet

LEMMA ListFind ==
  ASSUME NEW list, NEW boxes, NEW n, NEW c, IsList(list, boxes, n, c), NEW name
  PROVE  \/ /\ FindBox(list, boxes, name) = NULL
            /\ \A i \in 1 .. n : boxes[c[i]].box_name # name
         \/ \E k \in 1 .. n : FindBox(list, boxes, name) = c[k] /\ boxes[c[k]].box_name = name
PROOF
<1>. DEFINE node == Nodes(list, boxes)
            named == {m \in Positions : node[m] \in Addresses /\ boxes[node[m]].box_name = name}
<1>0. n \in Nat /\ c \in [1 .. n -> Addresses]
  BY DEF IsList
<1>1. /\ n <= Cardinality(Addresses)
      /\ \A k \in Positions : node[k] = IF k <= n THEN c[k] ELSE NULL
  BY ListNodes
<1>2. FindBox(list, boxes, name) = IF named = {} THEN NULL ELSE node[Min(named)]
  BY DEF FindBox
<1>. HIDE DEF node
<1>3. /\ named \subseteq Nat
      /\ \A k \in named : k \in 1 .. n /\ boxes[c[k]].box_name = name
      /\ \A k \in 1 .. n : boxes[c[k]].box_name = name => k \in named
  BY <1>0, <1>1, PositionsAre, AddressAssumption
<1>4. CASE named = {}
  BY <1>2, <1>3, <1>4
<1>5. CASE named # {}
  <2>1. Min(named) \in named
    BY <1>3, <1>5, LeastOf DEF Min
  <2>2. node[Min(named)] = c[Min(named)]
    BY <1>0, <1>1, <1>3, <2>1, PositionsAre
  <2>. QED
    BY <1>2, <1>3, <1>5, <2>1, <2>2
<1>. QED
  BY <1>4, <1>5

\* What insert_at_beginning, of a box at address a, and delete_box make of the
\* list that is at the addresses of c.
Inserted(listAfter, after, n, c, a) ==
    \E d : /\ IsList(listAfter, after, n + 1, d)
           /\ {d[i] : i \in 1 .. n + 1} = {c[i] : i \in 1 .. n} \cup {a}

Deleted(listAfter, after, list, boxes, n, c, name) ==
    \/ /\ listAfter = list /\ after = boxes
       /\ \A i \in 1 .. n : boxes[c[i]].box_name # name
    \/ \E k \in 1 .. n : \E d :
          /\ boxes[c[k]].box_name = name
          /\ IsList(listAfter, after, n - 1, d)
          /\ {d[i] : i \in 1 .. n - 1} = {c[i] : i \in 1 .. n} \ {c[k]}
          /\ \A a \in Addresses \ {c[k]} : after[a].allocated = boxes[a].allocated

LEMMA InsertIntoList ==
  ASSUME NEW list, NEW boxes, NEW n, NEW c, IsList(list, boxes, n, c),
         NEW a \in Addresses, \A i \in 1 .. n : c[i] # a,
         NEW box, DOMAIN box = BoxFields, DOMAIN boxes = Addresses,
         DOMAIN list = {"head", "tail", "box_list_lock"}
  PROVE  Inserted(ListWith(list, a), BoxesWith(list, boxes, a, box), n, c, a)
PROOF
<1>. DEFINE after == BoxesWith(list, boxes, a, box)
            d == [i \in 1 .. n + 1 |-> IF i = 1 THEN a ELSE c[i - 1]]
<1>0. /\ n \in Nat /\ c \in [1 .. n -> Addresses]
      /\ \A i, j \in 1 .. n : c[i] = c[j] => i = j
      /\ list.head = IF n = 0 THEN NULL ELSE c[1]
      /\ \A i \in 1 .. n : boxes[c[i]].next = IF i = n THEN NULL ELSE c[i + 1]
  BY DEF IsList
<1>1. /\ after[a].next = list.head
      /\ \A b \in Addresses \ {a} : after[b] = boxes[b]
  BY DEF BoxesWith, BoxFields
<1>2. ListWith(list, a).head = a
  BY DEF ListWith
<1>3. /\ d \in [1 .. n + 1 -> Addresses] /\ d[1] = a
      /\ \A i \in 2 .. n + 1 : d[i] = c[i - 1] /\ i - 1 \in 1 .. n
  BY <1>0
<1>. HIDE DEF after, d
<1>4. \A i, j \in 1 .. n + 1 : d[i] = d[j] => i = j
  BY <1>0, <1>3
<1>5. ASSUME NEW i \in 1 .. n + 1 PROVE after[d[i]].next = IF i = n + 1 THEN NULL ELSE d[i + 1]
  <2>1. CASE i = 1
    BY <1>0, <1>1, <1>3, <2>1
  <2>2. CASE i # 1
    <3>1. i \in 2 .. n + 1 /\ i - 1 \in 1 .. n /\ d[i] = c[i - 1]
      BY <1>0, <1>3, <2>2
    <3>2. after[d[i]] = boxes[c[i - 1]]
      BY <1>0, <1>1, <3>1
    <3>3. boxes[c[i - 1]].next = IF i - 1 = n THEN NULL ELSE c[i]
      BY <1>0, <3>1
    <3>4. i # n + 1 => i + 1 \in 2 .. n + 1 /\ d[i + 1] = c[i]
      BY <1>0, <1>3
    <3>. QED
      BY <1>0, <3>2, <3>3, <3>4
  <2>. QED
    BY <2>1, <2>2
<1>6. IsList(ListWith(list, a), after, n + 1, d)
  BY <1>0, <1>2, <1>3, <1>4, <1>5 DEF IsList
<1>7. {d[i] : i \in 1 .. n + 1} = {c[i] : i \in 1 .. n} \cup {a}
  <2>1. \A i \in 1 .. n : i + 1 \in 2 .. n + 1 /\ i + 1 \in 1 .. n + 1 /\ d[i + 1] = c[i]
    BY <1>0, <1>3
  <2>2. \A i \in 1 .. n + 1 : d[i] = a \/ (i - 1 \in 1 .. n /\ d[i] = c[i - 1])
    BY <1>0, <1>3
  <2>3. 1 \in 1 .. n + 1
    BY <1>0
  <2>. QED
    BY <1>3, <2>1, <2>2, <2>3
<1>. QED
  BY <1>6, <1>7 DEF after, Inserted

LEMMA DeleteFromList ==
  ASSUME NEW list, NEW boxes, NEW n, NEW c, IsList(list, boxes, n, c), NEW name,
         DOMAIN boxes = Addresses, \A a \in Addresses : DOMAIN boxes[a] = BoxFields,
         DOMAIN list = {"head", "tail", "box_list_lock"}
  PROVE  Deleted(ListWithout(list, boxes, name), BoxesWithout(list, boxes, name),
                 list, boxes, n, c, name)
PROOF
<1>. DEFINE found == FindBox(list, boxes, name)
            listAfter == ListWithout(list, boxes, name)
            after == BoxesWithout(list, boxes, name)
<1>0. /\ n \in Nat /\ c \in [1 .. n -> Addresses]
      /\ \A i, j \in 1 .. n : c[i] = c[j] => i = j
      /\ list.head = IF n = 0 THEN NULL ELSE c[1]
      /\ \A i \in 1 .. n : boxes[c[i]].next = IF i = n THEN NULL ELSE c[i + 1]
  BY DEF IsList
<1>4. \/ found = NULL /\ \A i \in 1 .. n : boxes[c[i]].box_name # name
      \/ \E k \in 1 .. n : found = c[k] /\ boxes[c[k]].box_name = name
  BY ListFind
<1>1. CASE found = NULL /\ \A i \in 1 .. n : boxes[c[i]].box_name # name
  BY <1>1 DEF ListWithout, BoxesWithout, Deleted
<1>2. ASSUME NEW k \in 1 .. n, found = c[k], boxes[c[k]].box_name = name
      PROVE  \E d :
               /\ IsList(listAfter, after, n - 1, d)
               /\ {d[i] : i \in 1 .. n - 1} = {c[i] : i \in 1 .. n} \ {c[k]}
               /\ \A a \in Addresses \ {c[k]} : after[a].allocated = boxes[a].allocated
  <2>. DEFINE d == [i \in 1 .. n - 1 |-> IF i < k THEN c[i] ELSE c[i + 1]]
  <2>1. c[k] \in Addresses /\ c[k] # NULL
    BY <1>0, AddressAssumption
  <2>2. /\ d \in [1 .. n - 1 -> Addresses]
        /\ \A i \in 1 .. n - 1 : d[i] = (IF i < k THEN c[i] ELSE c[i + 1]) /\ i \in 1 .. n /\ i + 1 \in 1 .. n
    BY <1>0
  <2>. HIDE DEF d
  <2>3. \A i, j \in 1 .. n - 1 : d[i] = d[j] => i = j
    BY <1>0, <2>2
  <2>4. {d[i] : i \in 1 .. n - 1} = {c[i] : i \in 1 .. n} \ {c[k]}
    <3>1. \A i \in 1 .. n - 1 : d[i] \in {c[j] : j \in 1 .. n} \ {c[k]}
      BY <1>0, <2>2
    <3>2. ASSUME NEW j \in 1 .. n, c[j] # c[k] PROVE c[j] \in {d[i] : i \in 1 .. n - 1}
      <4>1. CASE j < k
        BY <1>0, <2>2, <4>1
      <4>2. CASE j > k
        <5>1. j - 1 \in 1 .. n - 1 /\ ~ (j - 1 < k) /\ (j - 1) + 1 = j
          BY <1>0, <4>2
        <5>2. d[j - 1] = c[j]
          BY <2>2, <5>1
        <5>. QED
          BY <5>1, <5>2
      <4>. QED
        BY <1>0, <3>2, <4>1, <4>2
    <3>. QED
      BY <3>1, <3>2
  <2>5. CASE k = 1
    <3>1. found = list.head /\ found # NULL
      BY <1>0, <1>2, <2>1, <2>5
    <3>2. listAfter.head = boxes[c[1]].next
      BY <1>2, <2>5, <3>1 DEF ListWithout
    <3>3. /\ after = [boxes EXCEPT ![found].allocated = FALSE]
      BY <3>1 DEF BoxesWithout
    <3>4. /\ \A a \in Addresses : after[a].next = boxes[a].next
          /\ \A a \in Addresses \ {c[k]} : after[a].allocated = boxes[a].allocated
      <4>1. PICK b \in Addresses : b = c[k]
        BY <2>1
      <4>2. after = [boxes EXCEPT ![b].allocated = FALSE]
        BY <1>2, <3>3, <4>1
      <4>. HIDE DEF found, after
      <4>3. \A a \in Addresses \ {b} : after[a] = boxes[a]
        BY <4>2
      <4>4. after[b] = [boxes[b] EXCEPT !.allocated = FALSE] /\ DOMAIN boxes[b] = BoxFields
        BY <4>2
      <4>5. after[b].next = boxes[b].next
        BY <4>4 DEF BoxFields
      <4>. QED
        BY <4>1, <4>3, <4>5
    <3>5. \A i \in 1 .. n - 1 : d[i] = c[i + 1] /\ i + 1 \in 1 .. n
      BY <2>2, <2>5
    <3>6. listAfter.head = IF n - 1 = 0 THEN NULL ELSE d[1]
      BY <1>0, <2>5, <3>2, <3>5
    <3>7. \A i \in 1 .. n - 1 : after[d[i]].next = IF i = n - 1 THEN NULL ELSE d[i + 1]
      BY <1>0, <3>4, <3>5
    <3>8. IsList(listAfter, after, n - 1, d)
      BY <1>0, <2>2, <2>3, <3>6, <3>7 DEF IsList
    <3>. QED
      BY <2>4, <3>4, <3>8
  <2>6. CASE k # 1
    <3>1. k - 1 \in 1 .. n /\ found # list.head /\ found # NULL
      BY <1>0, <1>2, <2>1, <2>6
    <3>2. listAfter.head = list.head
      BY <3>1 DEF ListWithout
    <3>3. Before(list, boxes, found) = c[k - 1]
      <4>1. ToSet(Chain(list, boxes)) = {c[i] : i \in 1 .. n}
        BY ListChain
      <4>2. c[k - 1] \in {c[i] : i \in 1 .. n} /\ boxes[c[k - 1]].next = found
        BY <1>0, <1>2, <3>1
      <4>3. ASSUME NEW p \in {c[i] : i \in 1 .. n}, boxes[p].next = found PROVE p = c[k - 1]
        <5>1. PICK i \in 1 .. n : p = c[i]
          BY <4>3
        <5>2. i # n /\ c[i + 1] = c[k] /\ i + 1 \in 1 .. n
          BY <1>0, <1>2, <2>1, <4>3, <5>1
        <5>3. i + 1 = k
          BY <1>0, <5>2
        <5>. QED
          BY <5>1, <5>3
      <4>4. Before(list, boxes, found) = CHOOSE p \in {c[i] : i \in 1 .. n} : boxes[p].next = found
        BY <4>1 DEF Before
      <4>. QED
        BY <4>2, <4>3, <4>4
    <3>4. after = [[boxes EXCEPT ![found].allocated = FALSE] EXCEPT ![c[k - 1]].next = boxes[found].next]
      BY <3>1, <3>3 DEF BoxesWithout
    <3>5. c[k - 1] \in Addresses /\ c[k - 1] # c[k]
      BY <1>0, <3>1
    <3>6. /\ after[c[k - 1]].next = boxes[c[k]].next
          /\ \A a \in Addresses \ {c[k - 1]} : after[a].next = boxes[a].next
          /\ \A a \in Addresses \ {c[k]} : after[a].allocated = boxes[a].allocated
      BY <1>2, <2>1, <3>4, <3>5 DEF BoxFields
    <3>7. listAfter.head = IF n - 1 = 0 THEN NULL ELSE d[1]
      BY <1>0, <2>2, <2>6, <3>1, <3>2
    <3>8. ASSUME NEW i \in 1 .. n - 1 PROVE after[d[i]].next = IF i = n - 1 THEN NULL ELSE d[i + 1]
      <4>1. CASE i < k - 1
        <5>1. d[i] = c[i] /\ d[i + 1] = c[i + 1] /\ i # n - 1 /\ i \in 1 .. n /\ i # n
          BY <1>0, <2>2, <4>1
        <5>2. d[i] # c[k - 1] /\ d[i] \in Addresses
          BY <1>0, <3>1, <4>1, <5>1
        <5>. QED
          BY <1>0, <3>6, <5>1, <5>2
      <4>2. CASE i = k - 1
        <5>1. d[i] = c[k - 1]
          BY <1>0, <2>2, <4>2
        <5>2. i # n - 1 => d[i + 1] = c[k + 1]
          BY <1>0, <2>2, <4>2
        <5>3. boxes[c[k]].next = IF k = n THEN NULL ELSE c[k + 1]
          BY <1>0
        <5>. QED
          BY <1>0, <3>6, <4>2, <5>1, <5>2, <5>3
      <4>3. CASE i > k - 1
        <5>1. d[i] = c[i + 1] /\ i + 1 \in 1 .. n /\ d[i] \in Addresses
          BY <1>0, <2>2, <4>3
        <5>2. d[i] # c[k - 1]
          BY <1>0, <3>1, <4>3, <5>1
        <5>3. boxes[c[i + 1]].next = IF i + 1 = n THEN NULL ELSE c[i + 2]
          BY <1>0, <5>1
        <5>4. i # n - 1 => d[i + 1] = c[i + 2]
          BY <1>0, <2>2, <4>3
        <5>. QED
          BY <1>0, <3>6, <5>1, <5>2, <5>3, <5>4
      <4>. QED
        BY <1>0, <4>1, <4>2, <4>3
    <3>9. IsList(listAfter, after, n - 1, d)
      BY <1>0, <2>2, <2>3, <3>7, <3>8 DEF IsList
    <3>. QED
      BY <2>4, <3>6, <3>9
  <2>. QED
    BY <2>5, <2>6
<1>3. CASE \E k \in 1 .. n : found = c[k] /\ boxes[c[k]].box_name = name
  <2>. HIDE DEF found, listAfter, after
  <2>1. PICK k \in 1 .. n : found = c[k] /\ boxes[c[k]].box_name = name
    BY <1>3
  <2>2. PICK d : /\ IsList(listAfter, after, n - 1, d)
                 /\ {d[i] : i \in 1 .. n - 1} = {c[i] : i \in 1 .. n} \ {c[k]}
                 /\ \A a \in Addresses \ {c[k]} : after[a].allocated = boxes[a].allocated
    BY <1>2, <2>1
  <2>. QED
    BY <2>1, <2>2, Zenon DEF listAfter, after, Deleted
<1>. QED
  <2>. HIDE DEF found, listAfter, after
  <2>. QED
    BY <1>1, <1>3, <1>4, Zenon DEF listAfter, after

------------------------------------------------------------------------------
(* The boxes in the list are allocated, and each is in it once. *)

Boxes == ToSet(Chain(box_list, box_data))

ListInv ==
    /\ \E n, c : /\ IsList(box_list, box_data, n, c)
                 /\ \A i \in 1 .. n : box_data[c[i]].allocated
    /\ \A a \in Addresses : box_data[a].allocated => box_data[a].box_name # NoName

LEMMA ListInit ==
  Init => ListInv
PROOF
<1>. SUFFICES ASSUME Init PROVE ListInv
  OBVIOUS
<1>1. /\ box_list = [head |-> NULL, tail |-> NULL, box_list_lock |-> Nobody]
      /\ box_data = [a \in Addresses |-> [NewBox(NoName) EXCEPT !.allocated = FALSE]]
  BY DEF Init
<1>. DEFINE c == [i \in 1 .. 0 |-> NULL]
<1>2. 1 .. 0 = {}
  OBVIOUS
<1>3. c \in [1 .. 0 -> Addresses]
  BY <1>2
<1>4. IsList(box_list, box_data, 0, c)
  BY <1>1, <1>2, <1>3 DEF IsList
<1>5. \A a \in Addresses : ~ box_data[a].allocated
  BY <1>1 DEF NewBox
<1>. QED
  BY <1>2, <1>4, <1>5, Zenon DEF ListInv

LEMMA BoxesAre ==
  ASSUME ListInv
  PROVE  Boxes \subseteq {a \in Addresses : box_data[a].allocated} /\ IsFiniteSet(Boxes)
PROOF
<1>1. PICK n, c : /\ IsList(box_list, box_data, n, c)
                  /\ \A i \in 1 .. n : box_data[c[i]].allocated
  BY DEF ListInv
<1>2. Boxes = {c[i] : i \in 1 .. n} /\ c \in [1 .. n -> Addresses]
  <2>1. ToSet(Chain(box_list, box_data)) = {c[i] : i \in 1 .. n}
    BY <1>1, ListChain
  <2>2. c \in [1 .. n -> Addresses]
    BY <1>1 DEF IsList
  <2>. QED
    BY <2>1, <2>2, Zenon DEF Boxes
<1>3. Boxes \subseteq {a \in Addresses : box_data[a].allocated}
  BY <1>1, <1>2
<1>4. Boxes \in SUBSET Addresses
  BY <1>3
<1>5. IsFiniteSet(Boxes)
  BY <1>4, AddressAssumption, FS_Subset
<1>. QED
  BY <1>3, <1>5

LEMMA SameBoxesKeepList ==
  ASSUME ListInv, SameBoxes
  PROVE  ListInv' /\ Boxes' = Boxes
PROOF
<1>1. PICK n, c : /\ IsList(box_list, box_data, n, c)
                  /\ \A i \in 1 .. n : box_data[c[i]].allocated
  BY DEF ListInv
<1>2. c \in [1 .. n -> Addresses]
  BY <1>1 DEF IsList
<1>3. IsList(box_list', box_data', n, c) /\ \A i \in 1 .. n : box_data'[c[i]].allocated
  BY <1>1, <1>2 DEF IsList, SameBoxes
<1>4. Boxes = {c[i] : i \in 1 .. n}
  BY <1>1, ListChain DEF Boxes
<1>5. Boxes' = {c[i] : i \in 1 .. n}
  <2>1. ToSet(Chain(box_list', box_data')) = {c[i] : i \in 1 .. n}
    BY <1>3, ListChain
  <2>. QED
    BY <2>1 DEF Boxes
<1>6. ListInv'
  BY <1>3 DEF ListInv, SameBoxes
<1>. QED
  BY <1>4, <1>5, <1>6

LEMMA InsertKeepsList ==
  ASSUME IInv, Types, ListInv, NEW w \in Workers, ManagerInsert(w)
  PROVE  /\ ListInv'
         /\ \E a \in Addresses \ Boxes :
               /\ Boxes' = Boxes \cup {a}
               /\ box_data'[a].box_name = worker[w].new_box_name
               /\ \A b \in Addresses \ {a} : box_data'[b].box_name = box_data[b].box_name
PROOF
<1>1. PICK a \in Malloc :
        /\ box_data' = BoxesWith(box_list, box_data, a, NewBox(worker[w].new_box_name))
        /\ box_list' = ListWith(box_list, a)
  BY Zenon DEF ManagerInsert
<1>2. a \in Addresses /\ ~ box_data[a].allocated
  BY <1>1 DEF Malloc, ListInv, Types, BoxTypes
<1>3. PICK n, c : /\ IsList(box_list, box_data, n, c)
                  /\ \A i \in 1 .. n : box_data[c[i]].allocated
  BY DEF ListInv
<1>4. n \in Nat /\ c \in [1 .. n -> Addresses] /\ \A i \in 1 .. n : c[i] # a
  BY <1>2, <1>3 DEF IsList
<1>5. PICK box : box = NewBox(worker[w].new_box_name)
  OBVIOUS
<1>6. DOMAIN box = BoxFields /\ box.box_name = worker[w].new_box_name /\ box.allocated = TRUE
  BY <1>5 DEF NewBox, BoxFields
<1>7. PICK d : /\ IsList(box_list', box_data', n + 1, d)
               /\ {d[i] : i \in 1 .. n + 1} = {c[i] : i \in 1 .. n} \cup {a}
  <2>1. /\ DOMAIN box_data = Addresses
        /\ DOMAIN box_list = {"head", "tail", "box_list_lock"}
    BY DEF IInv, Shape, Types, ListTypes
  <2>2. Inserted(ListWith(box_list, a), BoxesWith(box_list, box_data, a, box), n, c, a)
    BY <1>2, <1>3, <1>4, <1>6, <2>1, InsertIntoList
  <2>3. Inserted(box_list', box_data', n, c, a)
    BY <1>1, <1>5, <2>2, Zenon
  <2>. QED
    BY <2>3, Zenon DEF Inserted
<1>8. /\ box_data'[a].box_name = worker[w].new_box_name /\ box_data'[a].allocated
      /\ \A b \in Addresses \ {a} : box_data'[b] = box_data[b]
  <2>1. box_data' = [box_data EXCEPT ![a] = [box EXCEPT !.next = box_list.head]]
    BY <1>1, <1>5 DEF BoxesWith
  <2>. QED
    BY <1>2, <1>6, <2>1 DEF IInv, Shape, BoxFields
<1>9. \A i \in 1 .. n + 1 : box_data'[d[i]].allocated
  <2>1. \A b \in {c[i] : i \in 1 .. n} \cup {a} : box_data'[b].allocated
    BY <1>3, <1>4, <1>8
  <2>. QED
    BY <1>7, <2>1
<1>10. worker[w].new_box_name # NoName
  <2>1. worker[w].pc = "c_insert"
    BY DEF ManagerInsert, At
  <2>. QED
    BY <2>1, RequestAssumption DEF IInv, Names, Asking
<1>11. ListInv'
  <2>1. \A b \in Addresses : box_data'[b].allocated => box_data'[b].box_name # NoName
    BY <1>8, <1>10 DEF ListInv
  <2>. QED
    BY <1>7, <1>9, <2>1 DEF ListInv
<1>12. Boxes = {c[i] : i \in 1 .. n}
  BY <1>3, ListChain DEF Boxes
<1>13. Boxes' = Boxes \cup {a}
  <2>1. ToSet(Chain(box_list', box_data')) = {d[i] : i \in 1 .. n + 1}
    BY <1>7, ListChain
  <2>. QED
    BY <1>7, <1>12, <2>1 DEF Boxes
<1>14. a \notin Boxes
  BY <1>4, <1>12
<1>. QED
  BY <1>2, <1>8, <1>11, <1>13, <1>14

LEMMA DeleteKeepsList ==
  ASSUME IInv, Types, ListInv, NEW w \in Workers, ManagerDelete(w)
  PROVE  /\ ListInv'
         /\ \A b \in Addresses : box_data'[b].box_name = box_data[b].box_name
         /\ \/ Boxes' = Boxes /\ \A b \in Boxes : box_data[b].box_name # worker[w].new_box_name
            \/ \E a \in Boxes :
                  Boxes' = Boxes \ {a} /\ box_data[a].box_name = worker[w].new_box_name
PROOF
<1>0. PICK name : name = worker[w].new_box_name
  OBVIOUS
<1>1. /\ box_list' = ListWithout(box_list, box_data, name)
      /\ box_data' = BoxesWithout(box_list, box_data, name)
      /\ reinitialised' = reinitialised
  BY <1>0 DEF ManagerDelete, Delete, otherVars
<1>2. PICK n, c : /\ IsList(box_list, box_data, n, c)
                  /\ \A i \in 1 .. n : box_data[c[i]].allocated
  BY DEF ListInv
<1>3. \A a \in Addresses : /\ box_data'[a].box_name = box_data[a].box_name
                           /\ box_data'[a].allocated => box_data[a].allocated
  BY <1>1, DeletingKeepsTypes DEF IInv, Types
<1>4. Boxes = {c[i] : i \in 1 .. n} /\ n \in Nat /\ c \in [1 .. n -> Addresses]
  BY <1>2, ListChain DEF Boxes, IsList
<1>5. \A b \in Addresses : box_data'[b].allocated => box_data'[b].box_name # NoName
  BY <1>3 DEF ListInv
<1>6. CASE box_list' = box_list /\ box_data' = box_data
           /\ \A i \in 1 .. n : box_data[c[i]].box_name # name
  <2>1. ListInv' /\ Boxes' = Boxes
    BY <1>1, <1>6, SameBoxesKeepList DEF SameBoxes
  <2>2. \A b \in Boxes : box_data[b].box_name # name
    BY <1>4, <1>6
  <2>. QED
    BY <1>0, <1>3, <2>1, <2>2
<1>7. ASSUME NEW k \in 1 .. n, NEW d, box_data[c[k]].box_name = name,
             IsList(box_list', box_data', n - 1, d),
             {d[i] : i \in 1 .. n - 1} = {c[i] : i \in 1 .. n} \ {c[k]},
             \A a \in Addresses \ {c[k]} : box_data'[a].allocated = box_data[a].allocated
      PROVE  /\ ListInv'
             /\ \E a \in Boxes : Boxes' = Boxes \ {a} /\ box_data[a].box_name = name
  <2>1. \A b \in {d[i] : i \in 1 .. n - 1} : box_data'[b].allocated
    BY <1>2, <1>4, <1>7
  <2>2. \A i \in 1 .. n - 1 : box_data'[d[i]].allocated
    BY <2>1
  <2>3. ListInv'
    BY <1>5, <1>7, <2>2 DEF ListInv
  <2>4. Boxes' = Boxes \ {c[k]}
    <3>1. ToSet(Chain(box_list', box_data')) = {d[i] : i \in 1 .. n - 1}
      BY <1>7, ListChain
    <3>. QED
      BY <1>4, <1>7, <3>1 DEF Boxes
  <2>5. c[k] \in Boxes
    BY <1>4
  <2>. QED
    BY <1>7, <2>3, <2>4, <2>5
<1>8. \/ /\ box_list' = box_list /\ box_data' = box_data
         /\ \A i \in 1 .. n : box_data[c[i]].box_name # name
      \/ \E k \in 1 .. n : \E d :
            /\ box_data[c[k]].box_name = name
            /\ IsList(box_list', box_data', n - 1, d)
            /\ {d[i] : i \in 1 .. n - 1} = {c[i] : i \in 1 .. n} \ {c[k]}
            /\ \A a \in Addresses \ {c[k]} : box_data'[a].allocated = box_data[a].allocated
  <2>1. /\ DOMAIN box_data = Addresses /\ \A a \in Addresses : DOMAIN box_data[a] = BoxFields
        /\ DOMAIN box_list = {"head", "tail", "box_list_lock"}
    BY DEF IInv, Shape, Types, ListTypes
  <2>2. Deleted(ListWithout(box_list, box_data, name), BoxesWithout(box_list, box_data, name),
                box_list, box_data, n, c, name)
    BY <1>2, <2>1, DeleteFromList
  <2>3. Deleted(box_list', box_data', box_list, box_data, n, c, name)
    BY <1>1, <2>2, Zenon
  <2>. QED
    BY <2>3, Zenon DEF Deleted
<1>. QED
  BY <1>0, <1>3, <1>6, <1>7, <1>8

\* Only an insertion and a deletion change the list.
LEMMA BoxesStay ==
  ASSUME IInv, Types, [Next]_vars
  PROVE  SameBoxes \/ \E w \in Workers : ManagerInsert(w) \/ ManagerDelete(w)
PROOF
<1>1. UNCHANGED <<boxVars, reinitialised>> => SameBoxes
  BY DEF boxVars, SameBoxes
<1>2. ASSUME NEW w \in Workers, \/ PublisherOpen(w) \/ PublisherWrite(w) \/ SubscriberOpen(w)
                                \/ ManagerCreate(w) \/ ManagerRemove(w)
      PROVE  UNCHANGED <<boxVars, reinitialised>>
  BY <1>2 DEF PublisherOpen, PublisherWrite, WriteMessage, SubscriberOpen, OpenIt, ManagerCreate,
              ManagerRemove, otherVars
<1>3. ASSUME NEW w \in Workers, SubscriberReplay(w) \/ SubscriberRead(w) PROVE SameBoxes
  BY <1>3, ReadingSteps DEF SubscriberReads, MovedOn
<1>. QED
  BY <1>1, <1>2, <1>3, QuietOrLoud DEF Loud, Quiet, Settled

LEMMA NextKeepsList ==
  ASSUME IInv, Types, ListInv, [Next]_vars
  PROVE  ListInv'
PROOF
  BY BoxesStay, SameBoxesKeepList, InsertKeepsList, DeleteKeepsList

LEMMA TypesAndListAreTypeOK ==
  ASSUME IInv, Types, ListInv
  PROVE  TypeOK
PROOF
<1>1. /\ \A w \in Workers :
        /\ worker[w].pc \in {"dequeue"} \cup PublisherPCs \cup SubscriberPCs \cup ManagerPCs
        /\ worker[w].new_box_name \in BoxNames \cup {NoName}
        /\ worker[w].handle \in FS!Handles \cup {-1}
        /\ worker[w].box \in Addresses \cup {NULL}
        /\ worker[w].last_size \in Nat
        /\ DOMAIN worker[w].full_box_buffer = 1 .. BLOCK_SIZE
        /\ Held(w) /\ worker[w].box \notin reinitialised => Box(w).box_condvar_lock = w
  BY Zenon DEF Types, WorkerTypes, IInv, Locked
<1>2. ToSet(Chain(box_list, box_data)) \subseteq {a \in Addresses : box_data[a].allocated}
  BY BoxesAre DEF Boxes
<1>3. box_list.box_list_lock \in Workers => worker[box_list.box_list_lock].pc = "l_send"
  BY DEF Types, ListTypes
<1>4. \A a \in Addresses :
        /\ box_data[a].box_name \in BoxNames \cup {NoName}
        /\ box_data[a].box_size \in Nat
        /\ box_data[a].n_publishers \in {0, 1}
        /\ box_data[a].box_condvar_lock \in Workers \cup {Nobody}
  BY DEF Types, BoxTypes
<1>5. sigpipe \in {"default", "caught"} /\ reinitialised \subseteq Addresses
      /\ process \in {"running", "panic", "memory fault", "killed", "exited"}
  BY Zenon DEF Types, ProcessTypes, Ends
<1>. QED
  BY <1>1, <1>2, <1>3, <1>4, <1>5, Zenon DEF TypeOK

------------------------------------------------------------------------------
(* The boxes in the list, those still to be inserted and those still to be  *)
(* deleted are accounted for by the files in the directory.                 *)

Balance(name) == Listed(name) + Doing("c_insert", name) - Doing("r_delete", name)

\* A file is orphaned when there is no handle left for it, and handles are not
\* given back: after that no box can be created.
ListedInv ==
    /\ orphans # {} => Files!FreeHandles = {}
    /\ \A name \in BoxNames :
        /\ Files!FreeHandles # {} => Balance(name) >= 0
        /\ Files!InDir(name) /\ name \notin orphans => Balance(name) > 0

LEMMA CountType ==
  ASSUME NEW S, IsFiniteSet(S), NEW T, T \subseteq S
  PROVE  IsFiniteSet(T) /\ Cardinality(T) \in Nat
PROOF
<1>1. T \in SUBSET S
  OBVIOUS
<1>2. IsFiniteSet(T)
  BY <1>1, FS_Subset
<1>. QED
  BY <1>2, FS_CardinalityType

LEMMA CountsAre ==
  ASSUME ListInv, NEW label, NEW name
  PROVE  Listed(name) \in Nat /\ Doing(label, name) \in Nat
PROOF
<1>1. Listed(name) \in Nat
  <2>1. IsFiniteSet(Boxes) /\ {a \in Boxes : box_data[a].box_name = name} \subseteq Boxes
    BY BoxesAre
  <2>2. Cardinality({a \in Boxes : box_data[a].box_name = name}) \in Nat
    BY <2>1, CountType
  <2>. QED
    BY <2>2 DEF Listed, Boxes
<1>2. Doing(label, name) \in Nat
  <2>1. {v \in Workers : worker[v].pc = label /\ worker[v].new_box_name = name} \subseteq Workers
    OBVIOUS
  <2>. QED
    BY <2>1, WorkerAssumption, CountType DEF Doing
<1>. QED
  BY <1>1, <1>2

\* A step of w that leaves its name: what it begins, and what it ends.
LEMMA DoingChanges ==
  ASSUME NEW w \in Workers, NEW name, NEW label,
         \A v \in Workers \ {w} : worker'[v] = worker[v],
         worker'[w].new_box_name = worker[w].new_box_name
  PROVE  /\ (worker'[w].pc = label <=> worker[w].pc = label) \/ worker[w].new_box_name # name =>
              Doing(label, name)' = Doing(label, name)
         /\ worker'[w].pc = label /\ worker[w].pc # label /\ worker[w].new_box_name = name =>
              Doing(label, name)' = Doing(label, name) + 1
         /\ worker'[w].pc # label /\ worker[w].pc = label /\ worker[w].new_box_name = name =>
              Doing(label, name)' = Doing(label, name) - 1
PROOF
<1>. DEFINE Now == {v \in Workers : worker[v].pc = label /\ worker[v].new_box_name = name}
            Then == {v \in Workers : worker'[v].pc = label /\ worker'[v].new_box_name = name}
<1>1. Doing(label, name) = Cardinality(Now) /\ Doing(label, name)' = Cardinality(Then)
  BY DEF Doing
<1>2. IsFiniteSet(Now) /\ Cardinality(Now) \in Nat
  <2>1. Now \subseteq Workers
    OBVIOUS
  <2>. QED
    BY <2>1, WorkerAssumption, CountType
<1>3. ASSUME (worker'[w].pc = label <=> worker[w].pc = label) \/ worker[w].new_box_name # name
      PROVE  Then = Now
  BY <1>3
<1>4. ASSUME worker'[w].pc = label, worker[w].pc # label, worker[w].new_box_name = name
      PROVE  Then = Now \cup {w} /\ w \notin Now
  BY <1>4
<1>5. ASSUME worker'[w].pc # label, worker[w].pc = label, worker[w].new_box_name = name
      PROVE  Then = Now \ {w} /\ w \in Now
  BY <1>5
<1>. HIDE DEF Now, Then
<1>6. /\ Cardinality(Now \cup {w}) = IF w \in Now THEN Cardinality(Now) ELSE Cardinality(Now) + 1
      /\ Cardinality(Now \ {w}) = IF w \in Now THEN Cardinality(Now) - 1 ELSE Cardinality(Now)
  BY <1>2, FS_AddElement, FS_RemoveElement
<1>. QED
  BY <1>1, <1>3, <1>4, <1>5, <1>6

LEMMA DoingStays ==
  ASSUME NEW name, NEW label,
         \A v \in Workers : /\ worker'[v].pc = label <=> worker[v].pc = label
                            /\ worker'[v].pc = label =>
                                 worker'[v].new_box_name = worker[v].new_box_name
  PROVE  Doing(label, name)' = Doing(label, name)
PROOF
<1>1. {v \in Workers : worker'[v].pc = label /\ worker'[v].new_box_name = name}
        = {v \in Workers : worker[v].pc = label /\ worker[v].new_box_name = name}
  OBVIOUS
<1>. QED
  BY <1>1 DEF Doing

LEMMA ListedStays ==
  ASSUME ListInv, SameBoxes, NEW name
  PROVE  Listed(name)' = Listed(name)
PROOF
<1>1. Boxes' = Boxes /\ Boxes \subseteq Addresses
  BY SameBoxesKeepList, BoxesAre
<1>2. {a \in Boxes' : box_data'[a].box_name = name} = {a \in Boxes : box_data[a].box_name = name}
  BY <1>1 DEF SameBoxes
<1>. QED
  BY <1>2 DEF Listed, Boxes

SameWork(v) ==
    /\ worker'[v].pc = "c_insert" <=> worker[v].pc = "c_insert"
    /\ worker'[v].pc = "r_delete" <=> worker[v].pc = "r_delete"
    /\ worker'[v].pc \in {"c_insert", "r_delete"} =>
         worker'[v].new_box_name = worker[v].new_box_name

LEMMA BalanceStays ==
  ASSUME ListInv, SameBoxes, \A v \in Workers : SameWork(v), NEW name
  PROVE  Balance(name)' = Balance(name)
PROOF
<1>1. Doing("c_insert", name)' = Doing("c_insert", name)
  BY DoingStays DEF SameWork
<1>2. Doing("r_delete", name)' = Doing("r_delete", name)
  BY DoingStays DEF SameWork
<1>. QED
  BY <1>1, <1>2, ListedStays DEF Balance

LEMMA InsertBalance ==
  ASSUME IInv, Types, ListInv, NEW w \in Workers, ManagerInsert(w), NEW name
  PROVE  Balance(name)' = Balance(name)
PROOF
<1>1. /\ worker[w].pc = "c_insert" /\ worker' = [worker EXCEPT ![w].pc = "m_respond"]
  BY DEF ManagerInsert, At, Goto
<1>2. /\ \A v \in Workers \ {w} : worker'[v] = worker[v]
      /\ worker'[w].pc = "m_respond" /\ worker'[w].new_box_name = worker[w].new_box_name
  BY <1>1 DEF IInv, Shape, Fields
<1>3. Doing("r_delete", name)' = Doing("r_delete", name)
  BY <1>1, <1>2, DoingChanges
<1>4. PICK a \in Addresses \ Boxes :
        /\ Boxes' = Boxes \cup {a}
        /\ box_data'[a].box_name = worker[w].new_box_name
        /\ \A b \in Addresses \ {a} : box_data'[b].box_name = box_data[b].box_name
  BY InsertKeepsList
<1>. DEFINE Now == {b \in Boxes : box_data[b].box_name = name}
            Then == {b \in Boxes' : box_data'[b].box_name = name}
<1>5. /\ Listed(name) = Cardinality(Now) /\ Listed(name)' = Cardinality(Then)
  BY DEF Listed, Boxes
<1>6. Boxes \subseteq Addresses /\ IsFiniteSet(Now) /\ Cardinality(Now) \in Nat
  <2>1. IsFiniteSet(Boxes) /\ Boxes \subseteq Addresses /\ Now \subseteq Boxes
    BY BoxesAre
  <2>. QED
    BY <2>1, CountType
<1>7. Doing("c_insert", name) \in Nat /\ Doing("r_delete", name) \in Nat
  BY CountsAre
<1>8. CASE worker[w].new_box_name = name
  <2>1. Then = Now \cup {a} /\ a \notin Now
    BY <1>4, <1>6, <1>8
  <2>. HIDE DEF Now, Then
  <2>2. Cardinality(Then) = Cardinality(Now) + 1
    BY <1>6, <2>1, FS_AddElement
  <2>3. Doing("c_insert", name)' = Doing("c_insert", name) - 1
    BY <1>1, <1>2, <1>8, DoingChanges
  <2>. QED
    BY <1>3, <1>5, <1>6, <1>7, <2>2, <2>3 DEF Balance
<1>9. CASE worker[w].new_box_name # name
  <2>1. Then = Now
    BY <1>4, <1>6, <1>9
  <2>2. Doing("c_insert", name)' = Doing("c_insert", name)
    BY <1>2, <1>9, DoingChanges
  <2>. QED
    BY <1>3, <1>5, <2>1, <2>2 DEF Balance
<1>. QED
  BY <1>8, <1>9

LEMMA DeleteBalance ==
  ASSUME IInv, Types, ListInv, NEW w \in Workers, ManagerDelete(w), NEW name
  PROVE  Balance(name)' >= Balance(name)
PROOF
<1>1. worker[w].pc = "r_delete" /\ worker' = [worker EXCEPT ![w].pc = "m_respond"]
  BY DEF ManagerDelete, Delete, At, Goto
<1>2. /\ \A v \in Workers \ {w} : worker'[v] = worker[v]
      /\ worker'[w].pc = "m_respond" /\ worker'[w].new_box_name = worker[w].new_box_name
  BY <1>1 DEF IInv, Shape, Fields
<1>3. Doing("c_insert", name)' = Doing("c_insert", name)
  BY <1>1, <1>2, DoingChanges
<1>4. /\ \A b \in Addresses : box_data'[b].box_name = box_data[b].box_name
      /\ \/ Boxes' = Boxes
         \/ \E a \in Boxes :
               Boxes' = Boxes \ {a} /\ box_data[a].box_name = worker[w].new_box_name
  BY DeleteKeepsList
<1>. DEFINE Now == {b \in Boxes : box_data[b].box_name = name}
            Then == {b \in Boxes' : box_data'[b].box_name = name}
<1>5. /\ Listed(name) = Cardinality(Now) /\ Listed(name)' = Cardinality(Then)
  BY DEF Listed, Boxes
<1>6. Boxes \subseteq Addresses /\ IsFiniteSet(Now) /\ Cardinality(Now) \in Nat
  <2>1. IsFiniteSet(Boxes) /\ Boxes \subseteq Addresses /\ Now \subseteq Boxes
    BY BoxesAre
  <2>. QED
    BY <2>1, CountType
<1>7. Doing("c_insert", name) \in Nat /\ Doing("r_delete", name) \in Nat
  BY CountsAre
<1>8. CASE worker[w].new_box_name = name
  <2>1. Then = Now \/ \E a \in Now : Then = Now \ {a}
    BY <1>4, <1>6, <1>8
  <2>. HIDE DEF Now, Then
  <2>2. Cardinality(Then) = Cardinality(Now) \/ Cardinality(Then) = Cardinality(Now) - 1
    BY <1>6, <2>1, FS_RemoveElement
  <2>3. Doing("r_delete", name)' = Doing("r_delete", name) - 1
    BY <1>1, <1>2, <1>8, DoingChanges
  <2>. QED
    BY <1>3, <1>5, <1>6, <1>7, <2>2, <2>3 DEF Balance
<1>9. CASE worker[w].new_box_name # name
  <2>1. Then = Now
    BY <1>4, <1>6, <1>9
  <2>2. Doing("r_delete", name)' = Doing("r_delete", name)
    BY <1>2, <1>9, DoingChanges
  <2>3. Balance(name)' = Balance(name)
    BY <1>3, <1>5, <2>1, <2>2 DEF Balance
  <2>. QED
    BY <1>5, <1>6, <1>7, <2>3 DEF Balance
<1>. QED
  BY <1>8, <1>9

\* What a creation and a removal note of the files without a handle.
OrphanCreated(name, ret) ==
    /\ orphans' = orphans \/ (ret = -1 /\ orphans' = orphans \cup {name} /\ Files!InDir(name)')
    /\ ret = -1 /\ Files!InDir(name)' => Files!InDir(name) \/ name \in orphans'

LEMMA CreatingSteps ==
  ASSUME IInv, NEW w \in Workers, ManagerCreate(w)
  PROVE  \E name, ret : ManagerCreates(w, name, ret) /\ OrphanCreated(name, ret)
PROOF
<1>1. PICK name : name = worker[w].new_box_name
  OBVIOUS
<1>2. PICK ret \in FS!Handles \cup {-1} :
        /\ FS!Open(worker[w].new_box_name, {"TFS_O_CREAT"}, ret)
        /\ worker' = [worker EXCEPT ![w].pc = IF ret = -1 THEN "m_respond" ELSE "c_insert"]
        /\ orphans' = IF /\ ret = -1
                         /\ ~ FS!InDir(worker[w].new_box_name) /\ FS!InDir(worker[w].new_box_name)'
                      THEN orphans \cup {worker[w].new_box_name} ELSE orphans
  BY Zenon DEF ManagerCreate, Goto
<1>3. worker[w].pc = "create" /\ removed' = removed /\ UNCHANGED <<boxVars, reinitialised, overlapped>>
  BY DEF ManagerCreate, At
<1>4. Opens(name, {"TFS_O_CREAT"}, ret)
  BY <1>1, <1>2, <1>3, OpenSteps
<1>5. ManagerCreates(w, name, ret)
  BY <1>1, <1>2, <1>3, <1>4, Zenon DEF ManagerCreates
<1>6. worker'[w].new_box_name = name
  BY <1>1, <1>2 DEF IInv, Shape, Fields
<1>7. /\ FS!InDir(worker[w].new_box_name) <=> Files!InDir(name)
      /\ FS!InDir(worker[w].new_box_name)' <=> Files!InDir(name)'
  BY <1>1, <1>6 DEF FS!InDir, Files!InDir, FS!UsedSlots, Files!UsedSlots, FS!FreeSlots,
                    Files!FreeSlots, FS!Slots, Files!Slots
<1>8. orphans' = IF ret = -1 /\ ~ Files!InDir(name) /\ Files!InDir(name)'
                 THEN orphans \cup {name} ELSE orphans
  BY <1>1, <1>2, <1>7
<1>. QED
  BY <1>5, <1>8 DEF OrphanCreated

LEMMA RemovingSteps ==
  ASSUME IInv, NEW w \in Workers, ManagerRemove(w)
  PROVE  \E name, ret : /\ ManagerUnlinks(w, name, ret)
                        /\ orphans' \subseteq orphans /\ orphans \ {name} \subseteq orphans'
                        /\ ret = -1 => orphans' = orphans
PROOF
<1>1. PICK name, ret : ManagerUnlinks(w, name, ret)
  BY UnlinkingSteps
<1>2. name = worker[w].new_box_name /\ ret \in {0, -1}
  BY <1>1 DEF ManagerUnlinks, Unlinks
<1>3. PICK remove \in {0, -1} :
           /\ worker' = [worker EXCEPT ![w].pc = IF remove = -1 THEN "m_respond" ELSE "r_delete"]
           /\ orphans' = IF remove = 0 THEN orphans \ {worker[w].new_box_name} ELSE orphans
  BY Zenon DEF ManagerRemove, Goto
<1>4. worker'[w].pc = (IF remove = -1 THEN "m_respond" ELSE "r_delete")
  BY <1>3 DEF IInv, Shape, Fields
<1>5. worker'[w].pc = (IF ret = -1 THEN "m_respond" ELSE "r_delete")
  BY <1>1 DEF ManagerUnlinks, IInv, Shape, Fields
<1>6. remove = ret
  BY <1>2, <1>4, <1>5
<1>7. orphans' = IF ret = 0 THEN orphans \ {name} ELSE orphans
  BY <1>2, <1>3, <1>6
<1>. QED
  BY <1>1, <1>7

LEMMA ListedInit ==
  Init => ListedInv
PROOF
<1>. SUFFICES ASSUME Init PROVE ListedInv
  OBVIOUS
<1>1. orphans = {} /\ Files!Init /\ \A w \in Workers : worker[w].pc = "dequeue"
  BY SameInit DEF Init
<1>2. \A name : ~ Files!InDir(name)
  <2>2. Files!UsedSlots = {}
    BY <1>1, Zenon DEF Files!Init, Files!UsedSlots, Files!FreeSlots
  <2>. QED
    BY <2>2 DEF Files!InDir, Files!UsedSlots, Files!FreeSlots
<1>3. ASSUME NEW name, NEW label \in {"c_insert", "r_delete"} PROVE Doing(label, name) = 0
  <2>1. {w \in Workers : worker[w].pc = label /\ worker[w].new_box_name = name} = {}
    BY <1>1, <1>3
  <2>. QED
    BY <2>1, FS_EmptySet DEF Doing
<1>4. \A name : Balance(name) >= 0
  <2>1. ASSUME NEW name PROVE Balance(name) >= 0
    <3>1. Listed(name) \in Nat
      BY ListInit, CountsAre
    <3>2. Doing("c_insert", name) = 0 /\ Doing("r_delete", name) = 0
      BY <1>3
    <3>. QED
      BY <3>1, <3>2 DEF Balance
  <2>. QED
    BY <2>1
<1>. QED
  BY <1>1, <1>2, <1>4 DEF ListedInv

LEMMA BalanceType ==
  ListInv => \A name : Balance(name) \in Int
PROOF
<1>1. ASSUME ListInv, NEW name
      PROVE  Listed(name) \in Nat /\ Doing("c_insert", name) \in Nat /\ Doing("r_delete", name) \in Nat
  BY <1>1, CountsAre
<1>. QED
  BY <1>1 DEF Balance

LEMMA BalanceTypeNext ==
  ListInv' => \A name : Balance(name)' \in Int
PROOF
<1>1. (ListInv => \A name : Balance(name) \in Int)'
  BY BalanceType, PTL
<1>. QED
  BY <1>1

\* A step after which there are no more files and no fewer boxes than before.
LEMMA BalanceKeepsListed ==
  ASSUME ListInv, ListedInv,
         orphans' = orphans, Files!FreeHandles' \subseteq Files!FreeHandles,
         \A name \in BoxNames : Files!InDir(name)' => Files!InDir(name),
         \A name \in BoxNames : Balance(name)' >= Balance(name), ListInv'
  PROVE  ListedInv'
PROOF
<1>1. \A name : Balance(name) \in Int /\ Balance(name)' \in Int
  BY BalanceType, BalanceTypeNext
<1>. QED
  BY <1>1 DEF ListedInv

\* A step of w that is about no box that is still to be inserted or deleted.
LEMMA WorkGoesOn ==
  ASSUME NEW w \in Workers, \A v \in Workers \ {w} : worker'[v] = worker[v],
         worker[w].pc \notin {"c_insert", "r_delete"}, worker'[w].pc \notin {"c_insert", "r_delete"}
  PROVE  \A v \in Workers : SameWork(v)
PROOF
  BY DEF SameWork

LEMMA QuietKeepsListed ==
  ASSUME ListInv, ListedInv, ListInv', SameBoxes, \A v \in Workers : SameWork(v),
         orphans' = orphans, Files!FreeHandles' \subseteq Files!FreeHandles,
         \A name \in BoxNames : Files!InDir(name)' => Files!InDir(name)
  PROVE  ListedInv'
PROOF
<1>1. \A name : Balance(name)' = Balance(name)
  BY BalanceStays
<1>2. \A name : Balance(name)' >= Balance(name)
  BY <1>1, BalanceType
<1>. QED
  BY <1>2, BalanceKeepsListed

LEMMA OpenKeepsListed ==
  ASSUME IInv, FilesInv, ListInv, ListedInv, ListInv', NEW w \in Workers,
         PublisherOpen(w) \/ SubscriberOpen(w)
  PROVE  ListedInv'
PROOF
<1>1. orphans' = orphans
  BY DEF PublisherOpen, SubscriberOpen, OpenIt
<1>2. PICK name, ret : PublisherOpens(w, name, ret) \/ SubscriberOpens(w, name, ret)
  BY OpeningSteps
<1>3. /\ worker[w].pc \in {"publish", "s_open"}
      /\ \/ worker' = [worker EXCEPT ![w].pc = "p_find", ![w].handle = ret]
         \/ worker' = [worker EXCEPT ![w].pc = "s_check", ![w].handle = ret]
      /\ UNCHANGED <<boxVars, reinitialised>>
  BY <1>2 DEF PublisherOpens, SubscriberOpens
<1>4. /\ \A v \in Workers \ {w} : worker'[v] = worker[v]
      /\ worker'[w].pc \in {"p_find", "s_check"}
  BY <1>3 DEF IInv, Shape, Fields
<1>5. SameBoxes
  BY <1>3 DEF boxVars, SameBoxes
<1>6. PICK mode \in OpenModes : "TFS_O_CREAT" \notin mode /\ Opens(name, mode, ret)
  BY <1>2 DEF PublisherOpens, SubscriberOpens, OpenModes
<1>7. \A n : Files!InDir(n)' => Files!InDir(n)
  BY <1>6, OpenKeepsFiles
<1>8. Files!FreeHandles' \subseteq Files!FreeHandles
  BY <1>6, HandlesStayTaken
<1>9. \A v \in Workers : SameWork(v)
  BY <1>3, <1>4, WorkGoesOn
<1>. QED
  BY <1>1, <1>5, <1>7, <1>8, <1>9, QuietKeepsListed

\* tfs_open with TFS_O_CREAT: a box is announced for the file, or there was no
\* handle for it.
LEMMA CreateKeepsListed ==
  ASSUME IInv, FilesInv, ListInv, ListedInv, ListInv', NEW w \in Workers, ManagerCreate(w)
  PROVE  ListedInv'
PROOF
<1>1. PICK name, ret : ManagerCreates(w, name, ret) /\ OrphanCreated(name, ret)
  BY CreatingSteps
<1>2. /\ worker[w].pc = "create" /\ name = worker[w].new_box_name
      /\ Opens(name, {"TFS_O_CREAT"}, ret) /\ {"TFS_O_CREAT"} \in OpenModes
      /\ worker' = [worker EXCEPT ![w].pc = IF ret = -1 THEN "m_respond" ELSE "c_insert"]
      /\ UNCHANGED <<boxVars, reinitialised>>
  BY <1>1 DEF ManagerCreates, OpenModes
<1>3. /\ \A v \in Workers \ {w} : worker'[v] = worker[v]
      /\ worker'[w].pc = IF ret = -1 THEN "m_respond" ELSE "c_insert"
      /\ worker'[w].new_box_name = worker[w].new_box_name
  BY <1>2 DEF IInv, Shape, Fields
<1>4. SameBoxes
  BY <1>2 DEF boxVars, SameBoxes
<1>5. /\ \A n : Files!InDir(n)' => Files!InDir(n) \/ n = name
      /\ Files!FreeHandles' \subseteq Files!FreeHandles
      /\ ret = -1 \/ (ret \in Files!FreeHandles)
  BY <1>2, OpenKeepsFiles, HandlesStayTaken
<1>6. CASE ret = -1
  <2>1. /\ UNCHANGED Files!openVars
        /\ Files!InDir(name)' => Files!FreeHandles = {}
    <3>1. ~ Files!HandleTaken(name, {"TFS_O_CREAT"}, ret)
      BY <1>6 DEF Files!HandleTaken, Files!FreeHandles, Files!Handles
    <3>. QED
      BY <1>2, <3>1, OpenKeepsFiles
  <2>2. Files!FreeHandles' = Files!FreeHandles
    BY <2>1 DEF Files!openVars, Files!FreeHandles
  <2>3. \A n : Balance(n)' = Balance(n)
    <3>1. \A v \in Workers : SameWork(v)
      BY <1>2, <1>3, <1>6, WorkGoesOn
    <3>. QED
      BY <1>4, <3>1, BalanceStays
  <2>4. orphans' = orphans \/ (orphans' = orphans \cup {name} /\ Files!FreeHandles = {})
    BY <1>1, <2>1 DEF OrphanCreated
  <2>5. orphans' # {} => Files!FreeHandles' = {}
    BY <2>2, <2>4 DEF ListedInv
  <2>6. \A n \in BoxNames : Files!InDir(n)' /\ n \notin orphans' => Files!InDir(n) /\ n \notin orphans
    BY <1>1, <1>5, <1>6, <2>4 DEF OrphanCreated
  <2>. QED
    BY <2>2, <2>3, <2>5, <2>6 DEF ListedInv
<1>7. CASE ret # -1
  <2>1. orphans' = orphans /\ Files!FreeHandles # {}
    BY <1>1, <1>5, <1>7 DEF OrphanCreated
  <2>2. orphans' = {}
    BY <2>1 DEF ListedInv
  <2>3. /\ \A n : n # name => Balance(n)' = Balance(n)
        /\ Balance(name)' = Balance(name) + 1
    <3>1. \A n : Doing("r_delete", n)' = Doing("r_delete", n)
      BY <1>2, <1>3, DoingChanges
    <3>2. \A n : n # name => Doing("c_insert", n)' = Doing("c_insert", n)
      BY <1>2, <1>3, DoingChanges
    <3>3. Doing("c_insert", name)' = Doing("c_insert", name) + 1
      BY <1>2, <1>3, <1>7, DoingChanges
    <3>4. \A n : Listed(n)' = Listed(n)
      BY <1>4, ListedStays
    <3>5. Listed(name) \in Nat /\ Doing("c_insert", name) \in Nat /\ Doing("r_delete", name) \in Nat
      BY CountsAre
    <3>. QED
      BY <3>1, <3>2, <3>3, <3>4, <3>5 DEF Balance
  <2>4. ASSUME NEW n \in BoxNames
        PROVE  Balance(n)' >= 0 /\ (Files!InDir(n)' => Balance(n)' > 0)
    <3>1. Balance(n) \in Int /\ Balance(n) >= 0 /\ (Files!InDir(n) => Balance(n) > 0)
      BY <2>1, <2>2, BalanceType DEF ListedInv
    <3>. QED
      BY <1>5, <2>3, <3>1
  <2>. QED
    BY <2>2, <2>4 DEF ListedInv
<1>. QED
  BY <1>6, <1>7

\* tfs_unlink: the file that had a box to spare is gone.
LEMMA RemoveKeepsListed ==
  ASSUME IInv, FilesInv, ListInv, ListedInv, ListInv', NEW w \in Workers, ManagerRemove(w)
  PROVE  ListedInv'
PROOF
<1>1. PICK name, ret : /\ ManagerUnlinks(w, name, ret)
                       /\ orphans' \subseteq orphans /\ orphans \ {name} \subseteq orphans'
                       /\ ret = -1 => orphans' = orphans
  BY RemovingSteps
<1>2. /\ worker[w].pc = "remove" /\ name = worker[w].new_box_name
      /\ Unlinks(name, ret) /\ name \in BoxNames
      /\ worker' = [worker EXCEPT ![w].pc = IF ret = -1 THEN "m_respond" ELSE "r_delete"]
      /\ UNCHANGED <<boxVars, reinitialised>>
  BY <1>1 DEF ManagerUnlinks, Unlinks
<1>3. /\ \A v \in Workers \ {w} : worker'[v] = worker[v]
      /\ worker'[w].pc = IF ret = -1 THEN "m_respond" ELSE "r_delete"
      /\ worker'[w].new_box_name = worker[w].new_box_name
  BY <1>2 DEF IInv, Shape, Fields
<1>4. SameBoxes
  BY <1>2 DEF boxVars, SameBoxes
<1>5. Files!FreeHandles' = Files!FreeHandles
  BY <1>2, UnlinkKeepsFiles DEF Files!openVars, Files!FreeHandles
<1>6. \/ ret = -1 /\ UNCHANGED Files!vars
      \/ /\ ret = 0 /\ Files!InDir(name) /\ ~ Files!InDir(name)'
         /\ \A n \in BoxNames \ {name} : \A i : Files!FileIs(n, i)' <=> Files!FileIs(n, i)
  BY <1>2, UnlinkKeepsFiles
<1>7. CASE ret = -1 /\ UNCHANGED Files!vars
  <2>1. \A n : Files!InDir(n)' => Files!InDir(n)
    BY <1>7 DEF Files!vars, Files!dirVars, Files!InDir
  <2>2. \A v \in Workers : SameWork(v)
    BY <1>2, <1>3, <1>7, WorkGoesOn
  <2>. QED
    BY <1>1, <1>4, <1>5, <1>7, <2>1, <2>2, QuietKeepsListed
<1>8. ASSUME ret = 0, Files!InDir(name), ~ Files!InDir(name)',
             \A n \in BoxNames \ {name} : \A i : Files!FileIs(n, i)' <=> Files!FileIs(n, i)
      PROVE  ListedInv'
  <2>1. \A n \in BoxNames : Files!InDir(n)' => n # name /\ Files!InDir(n)
    <3>1. ASSUME NEW n \in BoxNames, Files!InDir(n)' PROVE n # name /\ Files!InDir(n)
      <4>1. n # name
        BY <1>8, <3>1
      <4>2. PICK i : Files!FileIs(n, i)'
        BY <3>1 DEF Files!FileIs, Files!InDir, Files!UsedSlots, Files!FreeSlots
      <4>3. Files!FileIs(n, i)
        BY <1>8, <4>1, <4>2, Zenon
      <4>. QED
        BY <4>1, <4>3, FilesAssumptions, Files!NamesAreFiles
    <3>. QED
      BY <3>1
  <2>2. /\ \A n : n # name => Balance(n)' = Balance(n)
        /\ Balance(name)' = Balance(name) - 1
    <3>1. \A n : Doing("c_insert", n)' = Doing("c_insert", n)
      BY <1>2, <1>3, <1>8, DoingChanges
    <3>2. \A n : n # name => Doing("r_delete", n)' = Doing("r_delete", n)
      BY <1>2, <1>3, DoingChanges
    <3>3. Doing("r_delete", name)' = Doing("r_delete", name) + 1
      BY <1>2, <1>3, <1>8, DoingChanges
    <3>4. \A n : Listed(n)' = Listed(n)
      BY <1>4, ListedStays
    <3>5. Listed(name) \in Nat /\ Doing("c_insert", name) \in Nat /\ Doing("r_delete", name) \in Nat
      BY CountsAre
    <3>. QED
      BY <3>1, <3>2, <3>3, <3>4, <3>5 DEF Balance
  <2>3. orphans' # {} => Files!FreeHandles' = {}
    BY <1>1, <1>5 DEF ListedInv
  <2>4. ASSUME NEW n \in BoxNames
        PROVE  /\ Files!FreeHandles' # {} => Balance(n)' >= 0
               /\ Files!InDir(n)' /\ n \notin orphans' => Balance(n)' > 0
    <3>1. CASE n = name
      <4>1. Files!FreeHandles' # {} => Balance(n) > 0 /\ Balance(n) \in Int
        BY <1>5, <1>8, <3>1, BalanceType DEF ListedInv
      <4>. QED
        BY <2>1, <2>2, <3>1, <4>1
    <3>2. CASE n # name
      <4>1. n \in orphans => n \in orphans'
        BY <1>1, <3>2
      <4>. QED
        BY <1>5, <2>1, <2>2, <3>2, <4>1 DEF ListedInv
    <3>. QED
      BY <3>1, <3>2
  <2>. QED
    BY <2>3, <2>4 DEF ListedInv
<1>. QED
  BY <1>6, <1>7, <1>8

LEMMA NextKeepsListed ==
  ASSUME IInv, Types, FilesInv, ListInv, ListedInv, [Next]_vars
  PROVE  ListedInv'
PROOF
<1>1. ListInv'
  BY NextKeepsList
<1>2. CASE Quiet
  <2>1. /\ orphans' = orphans /\ Files!FreeHandles' = Files!FreeHandles
        /\ \A n : Files!InDir(n)' <=> Files!InDir(n)
    BY <1>2 DEF Quiet, SameFiles, tables, history, Files!FreeHandles, Files!InDir
  <2>2. SameBoxes /\ \A v \in Workers : SameWork(v)
    BY <1>2 DEF Quiet, Settled, SameSession, SameWork
  <2>. QED
    BY <1>1, <2>1, <2>2, QuietKeepsListed
<1>3. ASSUME NEW w \in Workers, PublisherWrite(w) PROVE ListedInv'
  <2>1. PICK h, buf, ret : PublisherWrites(w, h, buf, ret)
    BY <1>3, WritingSteps
  <2>2. orphans' = orphans
    BY <1>3 DEF PublisherWrite, WriteMessage, otherVars, history
  <2>3. UNCHANGED <<Files!dirVars, free_open_file_entries>>
    BY <2>1, WriteKeepsFiles DEF PublisherWrites
  <2>4. Files!FreeHandles' = Files!FreeHandles /\ \A n : Files!InDir(n)' <=> Files!InDir(n)
    BY <2>3 DEF Files!dirVars, Files!FreeHandles, Files!InDir
  <2>5. /\ worker[w].pc = "p_write" /\ UNCHANGED <<boxVars, reinitialised>>
        /\ worker' = [worker EXCEPT ![w].pc = IF ret < 1 THEN "p_release" ELSE "p_announce"]
    BY <2>1 DEF PublisherWrites
  <2>6. /\ \A v \in Workers \ {w} : worker'[v] = worker[v]
        /\ worker'[w].pc \in {"p_release", "p_announce"}
    BY <2>5 DEF IInv, Shape, Fields
  <2>7. SameBoxes /\ \A v \in Workers : SameWork(v)
    BY <2>5, <2>6, WorkGoesOn DEF boxVars, SameBoxes
  <2>. QED
    BY <1>1, <2>2, <2>4, <2>7, QuietKeepsListed
<1>4. ASSUME NEW w \in Workers, SubscriberReplay(w) \/ SubscriberRead(w) PROVE ListedInv'
  <2>1. PICK h, ret : SubscriberReads(w, h, ret)
    BY <1>4, ReadingSteps
  <2>2. orphans' = orphans
    BY <1>4 DEF SubscriberReplay, SubscriberRead, otherVars, history
  <2>3. UNCHANGED <<Files!dirVars, free_open_file_entries>> /\ MovedOn(w)
    BY <2>1, ReadKeepsFiles DEF SubscriberReads
  <2>4. Files!FreeHandles' = Files!FreeHandles /\ \A n : Files!InDir(n)' <=> Files!InDir(n)
    BY <2>3 DEF Files!dirVars, Files!FreeHandles, Files!InDir
  <2>5. SameBoxes /\ \A v \in Workers : SameWork(v)
    BY <2>3 DEF MovedOn, SameSession, SameWork
  <2>. QED
    BY <1>1, <2>2, <2>4, <2>5, QuietKeepsListed
<1>5. ASSUME NEW w \in Workers, ManagerInsert(w) \/ ManagerDelete(w) PROVE ListedInv'
  <2>1. /\ orphans' = orphans /\ Files!FreeHandles' = Files!FreeHandles
        /\ \A n : Files!InDir(n)' <=> Files!InDir(n)
    BY <1>5 DEF ManagerInsert, ManagerDelete, Delete, otherVars, history, fsVars, tables,
                Files!FreeHandles, Files!InDir
  <2>2. \A n : Balance(n)' >= Balance(n)
    BY <1>5, InsertBalance, DeleteBalance, BalanceType
  <2>. QED
    BY <1>1, <2>1, <2>2, BalanceKeepsListed
<1>6. ASSUME NEW w \in Workers, Loud(w) PROVE ListedInv'
  BY <1>1, <1>3, <1>4, <1>5, <1>6, OpenKeepsListed, CreateKeepsListed, RemoveKeepsListed DEF Loud
<1>. QED
  BY <1>2, <1>6, QuietOrLoud

LEMMA ListedAreFiles ==
  ASSUME ListInv, ListedInv
  PROVE  FilesAreListed
PROOF
<1>1. ASSUME NEW name \in BoxNames \ orphans, FS!InDir(name)
      PROVE  Listed(name) + Doing("c_insert", name) > Doing("r_delete", name)
  <2>1. Balance(name) > 0
    BY <1>1, SameSets DEF ListedInv
  <2>2. Listed(name) \in Nat /\ Doing("c_insert", name) \in Nat /\ Doing("r_delete", name) \in Nat
    BY CountsAre
  <2>. QED
    BY <2>1, <2>2 DEF Balance
<1>. QED
  BY <1>1 DEF FilesAreListed

------------------------------------------------------------------------------
(* The invariants together *)

SInv == /\ IInv /\ Types /\ FilesInv
        /\ ZeroInv /\ HandlesInv /\ PlacesInv /\ FullInv
        /\ ListInv /\ ListedInv

LEMMA SessionsInv ==
  Spec => []SInv
PROOF
<1>1. Init => SInv
  BY InvInit, TypesInit, FilesInvInit, ZeroInit, PlacesInit, FullInit,
     ListInit, ListedInit DEF SInv
<1>2. SInv /\ [Next]_vars => SInv'
  BY NextKeepsInv, NextKeepsTypes, NextKeepsFiles, NextKeepsZero, NextKeepsPlaces,
     NextKeepsFull, NextKeepsList, NextKeepsListed DEF SInv
<1>. QED
  BY <1>1, <1>2, PTL DEF Spec

\* The locals of the workers and the boxes stay well formed: in particular the
\* list of boxes never leads to freed memory, although delete_box leaves the
\* pointers of the box that it frees as they are (protocol.c, lines 21-44), and
\* the section of a box is the holder's of its lock -- except in a box that
\* delete_box freed under its users and whose memory insert_at_beginning made
\* another box, with a new lock (protocol.c, lines 7-13): nothing is said of that
\* lock.
THEOREM SessionsTypeCorrect ==
  Spec => []TypeOK
PROOF
<1>1. SInv => TypeOK
  BY TypesAndListAreTypeOK DEF SInv
<1>. QED
  BY SessionsInv, <1>1, PTL

\* Creations and removals, which work on TecnicoFS first and on the list later
\* (mbroker.c, lines 305-311 and 332-339), leave no file without a box in the
\* list for it, whatever the order among the workers, except a file for which
\* there was no handle left (operations.c, line 149).
THEOREM FilesHaveBoxes ==
  Spec => []FilesAreListed
PROOF
<1>1. SInv => FilesAreListed
  BY ListedAreFiles DEF SInv
<1>. QED
  BY SessionsInv, <1>1, PTL

\* Line 242 of mbroker.c takes handle 0 for a failure.  It is always taken by
\* the tfs_open that creates the first box, which no code path closes, so that
\* no subscriber that has found its box is turned away.
THEOREM HandleZeroIsTaken ==
  Spec => []HandleZeroNotRefused
PROOF
<1>1. SInv => HandleZeroNotRefused
  BY DEF SInv, ZeroInv
<1>. QED
  BY SessionsInv, <1>1, PTL

\* A publisher's position, fixed by tfs_open before the box is known to be free
\* (mbroker.c, line 182), is the end of the file at each write, unless sessions
\* of publishers of that name overlap or the file was removed under it.
THEOREM PublishersWriteAtTheEnd ==
  Spec => []PublishersAppend
PROOF
<1>1. SInv => PublishersAppend
  BY PlacesAreEnds DEF SInv
<1>. QED
  BY SessionsInv, <1>1, PTL

\* A publisher leaves the loop with box_condvar_lock locked (mbroker.c, lines 200
\* and 204) only when the file of its box is full, as long as no box was removed:
\* while there are as many blocks as inodes, tfs_write always finds a block.
THEOREM LocksAreLeftOnlyWhenFull ==
  Spec => []AbandonedOnlyWhenFull
PROOF
<1>1. SInv => AbandonedOnlyWhenFull
  BY FullAreAbandoned DEF SInv
<1>. QED
  BY SessionsInv, <1>1, PTL

\* A step calls TecnicoFS or leaves its tables alone.
LEMMA CallsOrLeaves ==
  ASSUME SInv, [Next]_vars
  PROVE  Called \/ UNCHANGED tables
PROOF
<1>. USE DEF SInv
<1>1. CASE Quiet
  BY <1>1 DEF Quiet, SameFiles
<1>2. ASSUME NEW w \in Workers, PublisherOpen(w) \/ SubscriberOpen(w) \/ ManagerCreate(w)
      PROVE  Called
  <2>1. \E name, ret : \E mode \in OpenModes : Opens(name, mode, ret)
    BY <1>2, OpeningSteps, Zenon DEF PublisherOpens, SubscriberOpens, ManagerCreates, OpenModes
  <2>. QED
    BY <2>1, OpenKeepsFiles
<1>3. ASSUME NEW w \in Workers, ManagerRemove(w) PROVE Called
  BY <1>3, UnlinkingSteps, UnlinkKeepsFiles DEF ManagerUnlinks
<1>4. ASSUME NEW w \in Workers, PublisherWrite(w) PROVE Called
  BY <1>4, WritingSteps, WriteKeepsFiles DEF PublisherWrites
<1>5. ASSUME NEW w \in Workers, SubscriberReplay(w) \/ SubscriberRead(w) PROVE Called
  BY <1>5, ReadingSteps, ReadKeepsFiles DEF SubscriberReads
<1>6. ASSUME NEW w \in Workers, ManagerInsert(w) \/ ManagerDelete(w) PROVE UNCHANGED tables
  BY <1>6 DEF ManagerInsert, ManagerDelete, Delete, otherVars, fsVars
<1>. QED
  BY <1>1, <1>2, <1>3, <1>4, <1>5, <1>6, QuietOrLoud DEF Loud

\* The store of named files is in the tables, whatever becomes of the process.
LEMMA TablesKeepStore ==
  ASSUME UNCHANGED tables
  PROVE  UNCHANGED Files!Store!vars
PROOF
<1>1. UNCHANGED <<freeinode_ts, i_size, i_data_block, free_blocks, fs_data, d_name, d_inumber,
                  free_open_file_entries, of_inumber, of_offset>>
  BY DEF tables
<1>2. Files!UsedSlots' = Files!UsedSlots
  BY <1>1 DEF Files!UsedSlots, Files!FreeSlots
<1>3. /\ \A i : Files!Contents(i)' = Files!Contents(i)
      /\ \A h : Files!Opened(h)' = Files!Opened(h)
  BY <1>1 DEF Files!Contents, Files!Opened
<1>4. /\ \A name : Files!FileNamed(name)' = Files!FileNamed(name)
      /\ \A i : Files!NameOf(i)' = Files!NameOf(i)
  BY <1>1, <1>2 DEF Files!FileNamed, Files!NameOf
<1>. QED
  BY <1>1, <1>2, <1>3, <1>4 DEF Files!Store!vars

\* tfs_open finds the directory and the inode table in agreement whatever the
\* sessions do, although a removal frees an inode that sessions may have open
\* (mbroker.c, line 332).  Up to the first removal, each step of a session that
\* changes the tables of TecnicoFS is a call that a careful caller makes, and what
\* it does is an operation of FileStore, the store of named files that
\* operations.h describes, or changes nothing in it.  (Files is FS with the
\* lemmas of TFSRefinement.)
THEOREM SessionsKeepTecnicoFS ==
  Spec => /\ []FS!DirectoryExact
          /\ [][removed' = {} => [Files!Next /\ Files!Careful]_tables]_vars
          /\ Files!Store!Init
          /\ [][removed' = {} => [Files!Store!Next]_(Files!Store!vars)]_vars
PROOF
<1>1. SInv => FS!DirectoryExact
  <2>1. Files!DirectoryExact => FS!DirectoryExact
    BY DEF Files!DirectoryExact, FS!DirectoryExact, Files!UsedSlots, FS!UsedSlots, Files!FreeSlots,
           FS!FreeSlots, Files!Slots, FS!Slots, Files!Live, FS!Live, Files!Inodes, FS!Inodes,
           Files!ROOT_DIR_INUM, FS!ROOT_DIR_INUM
  <2>. QED
    BY <2>1 DEF SInv, FilesInv
<1>2. SInv /\ [Next]_vars => (removed' = {} => [Files!Next /\ Files!Careful]_tables)
  BY CallsOrLeaves, Zenon DEF Called
<1>3. Init => Files!Store!Init
  BY SameInit, FilesAssumptions, Files!InitRefines DEF Init
<1>4. SInv /\ [Next]_vars => (removed' = {} => [Files!Store!Next]_(Files!Store!vars))
  <2>1. ASSUME SInv, removed' = {}, Called PROVE Files!Store!Next \/ UNCHANGED Files!Store!vars
    <3>1. Files!Next /\ Files!Careful /\ Files!CInv
      BY <2>1, Zenon DEF Called, SInv, FilesInv
    <3>2. Files!CInv'
      BY <3>1, FilesAssumptions, Files!CInvStep
    <3>. QED
      BY <3>1, <3>2, FilesAssumptions, Files!StepRefines
  <2>. QED
    BY <2>1, CallsOrLeaves, TablesKeepStore, Zenon
<1>. QED
  BY SessionsInv, <1>1, <1>2, <1>3, <1>4, PTL DEF Spec

------------------------------------------------------------------------------
(* The listings of the workers: a step of a session of another kind leaves  *)
(* them alone, and the list stays as it is until a listing is through.      *)

\* u is not in a listing after the step, or nothing of u's has changed.
Away(u) == worker'[u] = worker[u] \/ worker'[u].pc \notin {"list", "l_send"}

\* A listing begins, is where it was, or goes on.
ListingGoesOn(u) ==
    \/ Away(u)
    \/ worker'[u].pc = "list" /\ worker'[u].delivered = << >>
    \/ /\ worker'[u].pc = worker[u].pc /\ worker'[u].box = worker[u].box
       /\ worker'[u].delivered = worker[u].delivered
    \/ ListLock(u) \/ ListSend(u)

LEMMA AwayWrites ==
  ASSUME IInv, NEW w \in Workers, NEW sent, NEW failed, WriteToClient(w, sent, failed),
         sent.pc \notin {"list", "l_send"}, failed.pc \notin {"list", "l_send"}
  PROVE  \A u \in Workers : Away(u)
PROOF
<1>1. worker' = worker \/ worker' = [worker EXCEPT ![w] = sent] \/ worker' = [worker EXCEPT ![w] = failed]
  BY DEF WriteToClient
<1>. USE DEF IInv, Shape, Away
<1>2. CASE worker' = worker
  BY <1>2
<1>3. CASE worker' = [worker EXCEPT ![w] = sent]
  BY <1>3
<1>4. CASE worker' = [worker EXCEPT ![w] = failed]
  BY <1>4
<1>. QED
  BY <1>1, <1>2, <1>3, <1>4

LEMMA AwayPublishes ==
  ASSUME IInv, NEW w \in Workers, Publisher(w)
  PROVE  \A u \in Workers : Away(u)
PROOF
<1>. USE DEF IInv, Shape, Fields, Away, At, Goto
<1>1. CASE PublisherOpen(w)
  <2>1. \E ret : worker' = [worker EXCEPT ![w].pc = "p_find", ![w].handle = ret]
    BY <1>1, Zenon DEF PublisherOpen, OpenIt
  <2>. QED
    BY <2>1
<1>2. CASE PublisherFind(w)
  BY <1>2 DEF PublisherFind, FindIt
<1>3. CASE PublisherCheck(w)
  BY <1>3 DEF PublisherCheck, Move
<1>4. CASE PublisherClaim(w)
  BY <1>4 DEF PublisherClaim
<1>5. CASE PublisherRead(w)
  BY <1>5 DEF PublisherRead
<1>6. CASE PublisherLock(w)
  BY <1>6 DEF PublisherLock, Lock
<1>7. CASE PublisherWrite(w)
  <2>1. \E to \in {"p_release", "p_announce"} : worker' = [worker EXCEPT ![w].pc = to]
    BY <1>7, Zenon DEF PublisherWrite, WriteMessage
  <2>. QED
    BY <2>1
<1>8. CASE PublisherAnnounce(w)
  <2>1. PICK woken \in SUBSET Asleep(w) :
          worker' = [v \in Workers |->
                      IF v \in woken THEN [worker[v] EXCEPT !.pc = "s_lock"]
                      ELSE IF v = w THEN [worker[v] EXCEPT !.pc = "p_read"] ELSE worker[v]]
    BY <1>8, Zenon DEF PublisherAnnounce, Announce
  <2>. QED
    BY <2>1
<1>9. CASE PublisherRelease(w)
  BY <1>9 DEF PublisherRelease
<1>. QED
  BY <1>1, <1>2, <1>3, <1>4, <1>5, <1>6, <1>7, <1>8, <1>9, Zenon DEF Publisher

LEMMA AwaySubscribes ==
  ASSUME IInv, NEW w \in Workers, Subscriber(w) \/ SpuriousWakeup(w)
  PROVE  \A u \in Workers : Away(u)
PROOF
<1>. USE DEF IInv, Shape, Fields, Away, At, Goto
<1>1. CASE SubscriberFind(w)
  BY <1>1 DEF SubscriberFind, FindIt
<1>2. CASE SubscriberOpen(w)
  <2>1. \E ret : worker' = [worker EXCEPT ![w].pc = "s_check", ![w].handle = ret]
    BY <1>2, Zenon DEF SubscriberOpen, OpenIt
  <2>. QED
    BY <2>1
<1>3. CASE SubscriberCheck(w)
  BY <1>3 DEF SubscriberCheck, Move
<1>4. CASE SubscriberTest(w)
  <2>. DEFINE next == [worker[w] EXCEPT !.pc = "s_replay"]
  <2>1. WriteToClient(w, next, next) /\ next.pc = "s_replay"
    BY <1>4 DEF SubscriberTest
  <2>. HIDE DEF next
  <2>. QED
    BY <2>1, AwayWrites
<1>5. CASE SubscriberReplay(w)
  <2>1. \/ worker' = worker
        \/ \E buffer, replay : worker' = [worker EXCEPT ![w].pc = "s_send", ![w].full_box_buffer = buffer,
                                                        ![w].replay = replay]
    BY <1>5, Zenon DEF SubscriberReplay
  <2>. QED
    BY <2>1
<1>6. CASE SubscriberSend(w)
  <2>. DEFINE rest == [worker[w] EXCEPT !.replay = Tail(@)]
              sent == [rest EXCEPT !.delivered = Append(@, Head(worker[w].replay))]
  <2>1. WriteToClient(w, sent, rest) /\ worker[w].pc = "s_send"
    BY <1>6 DEF SubscriberSend
  <2>2. DOMAIN rest = Fields /\ rest.pc = "s_send"
    BY <2>1
  <2>3. sent.pc = "s_send"
    <3>. HIDE DEF rest
    <3>. QED
      BY <2>2
  <2>. HIDE DEF rest, sent
  <2>. QED
    BY <2>1, <2>2, <2>3, AwayWrites
<1>7. CASE SubscriberLast(w)
  BY <1>7 DEF SubscriberLast
<1>8. CASE SubscriberLock(w)
  BY <1>8 DEF SubscriberLock, Lock
<1>9. CASE SubscriberLoop(w)
  BY <1>9 DEF SubscriberLoop, Move
<1>10. CASE SubscriberWait(w)
  BY <1>10 DEF SubscriberWait
<1>11. CASE SubscriberRead(w)
  <2>1. \/ worker' = worker
        \/ \E buffer, size : worker' = [worker EXCEPT ![w].pc = "s_push", ![w].last_size = size,
                                                      ![w].full_box_buffer = buffer]
    BY <1>11, Zenon DEF SubscriberRead
  <2>. QED
    BY <2>1
<1>12. CASE SubscriberPush(w)
  <2>. DEFINE sent(string) ==
                [worker[w] EXCEPT !.pc = "s_lock", !.delivered = Append(@, string)]
              failed == [worker[w] EXCEPT !.pc = "dequeue"]
  <2>1. PICK string : WriteToClient(w, sent(string), failed)
    BY <1>12, Zenon DEF SubscriberPush
  <2>2. sent(string).pc = "s_lock" /\ failed.pc = "dequeue"
    OBVIOUS
  <2>. HIDE DEF sent, failed
  <2>. QED
    BY <2>1, <2>2, AwayWrites
<1>13. CASE SpuriousWakeup(w)
  BY <1>13 DEF SpuriousWakeup, Move
<1>. QED
  BY <1>1, <1>2, <1>3, <1>4, <1>5, <1>6, <1>7, <1>8, <1>9, <1>10, <1>11, <1>12, <1>13, Zenon DEF Subscriber

LEMMA ManagersList ==
  ASSUME IInv, NEW w \in Workers, Manager(w) \/ ClientLeaves(w)
  PROVE  \A u \in Workers : ListingGoesOn(u)
PROOF
<1>. USE DEF IInv, Shape, Fields, Away, ListingGoesOn, At, Goto
<1>1. CASE ManagerCreate(w)
  <2>1. \E to \in {"m_respond", "c_insert"} : worker' = [worker EXCEPT ![w].pc = to]
    BY <1>1, Zenon DEF ManagerCreate
  <2>. QED
    BY <2>1
<1>2. CASE ManagerInsert(w)
  BY <1>2 DEF ManagerInsert
<1>3. CASE ManagerRemove(w)
  <2>1. \E to \in {"m_respond", "r_delete"} : worker' = [worker EXCEPT ![w].pc = to]
    BY <1>3, Zenon DEF ManagerRemove
  <2>. QED
    BY <2>1
<1>4. CASE ManagerDelete(w)
  BY <1>4 DEF ManagerDelete, Delete
<1>5. CASE ManagerRespond(w)
  BY <1>5 DEF ManagerRespond, RespondToManager
<1>6. CASE ListLock(w)
  BY <1>6 DEF ListLock
<1>7. CASE ListSend(w)
  <2>1. worker' = worker \/ \E sent : worker' = [worker EXCEPT ![w] = sent]
    BY <1>7, Zenon DEF ListSend, RespondToManager
  <2>2. \A u \in Workers \ {w} : worker'[u] = worker[u]
    BY <2>1
  <2>. QED
    BY <1>7, <2>2
<1>8. CASE ListUnlock(w)
  BY <1>8 DEF ListUnlock
<1>9. CASE ClientLeaves(w)
  BY <1>9 DEF ClientLeaves
<1>. QED
  BY <1>1, <1>2, <1>3, <1>4, <1>5, <1>6, <1>7, <1>8, <1>9, Zenon DEF Manager

LEMMA ListingsGoOn ==
  ASSUME IInv, [Next]_vars
  PROVE  \A u \in Workers : ListingGoesOn(u)
PROOF
<1>1. ASSUME NEW w \in Workers, NEW kind \in Kinds, NEW name, Dequeue(w, kind, name)
      PROVE  \A u \in Workers : ListingGoesOn(u)
  <2>1. PICK new : worker' = [worker EXCEPT ![w].pc = kind, ![w].new_box_name = new,
                                            ![w].client = "here", ![w].delivered = << >>]
    BY <1>1, Zenon DEF Dequeue
  <2>2. kind # "l_send"
    BY DEF Kinds
  <2>. QED
    BY <2>1, <2>2 DEF IInv, Shape, Fields, ListingGoesOn, Away
<1>2. UNCHANGED vars => \A u \in Workers : ListingGoesOn(u)
  BY DEF vars, ListingGoesOn, Away
<1>3. ASSUME NEW w \in Workers, Publisher(w) \/ Subscriber(w) \/ SpuriousWakeup(w)
      PROVE  \A u \in Workers : ListingGoesOn(u)
  BY <1>3, AwayPublishes, AwaySubscribes DEF ListingGoesOn
<1>. QED
  BY <1>1, <1>2, <1>3, ManagersList, Zenon DEF Next

\* A listing has sent the first k of the n boxes of the list, which are at the
\* addresses of c.
Progress(w, n, c, k) ==
    /\ IsList(box_list, box_data, n, c)
    /\ k \in 0 .. n
    /\ worker[w].box = IF k = n THEN NULL ELSE c[k + 1]
    /\ worker[w].delivered \in Listing /\ Len(worker[w].delivered) = k
    /\ \A i \in 1 .. k : worker[w].delivered[i].box_name = box_data[c[i]].box_name

Progresses(w) == \E n, c, k : Progress(w, n, c, k)

ListingInv ==
    \A w \in Workers :
        /\ worker[w].pc = "list" => worker[w].delivered = << >>
        /\ worker[w].pc = "l_send" => Progresses(w)

LEMMA ListingInit ==
  Init => ListingInv
PROOF
  BY Zenon DEF Init, ListingInv

\* A listing that is under way finds the list as it was.
LEMMA ListStays ==
  ASSUME IInv, Types, [Next]_vars, NEW w \in Workers, worker[w].pc = "l_send"
  PROVE  SameBoxes
PROOF
<1>1. box_list.box_list_lock = w /\ w # Nobody
  BY WorkerAssumption DEF Types, ListTypes
<1>2. ASSUME NEW v \in Workers, ManagerInsert(v) \/ ManagerDelete(v)
      PROVE  box_list.box_list_lock = Nobody
  BY <1>2 DEF ManagerInsert, ManagerDelete, ListUnlocked
<1>. QED
  BY <1>1, <1>2, BoxesStay

LEMMA ProgressStays ==
  ASSUME SameBoxes, NEW w \in Workers, NEW n, NEW c, NEW k, Progress(w, n, c, k),
         worker'[w].box = worker[w].box, worker'[w].delivered = worker[w].delivered
  PROVE  Progress(w, n, c, k)'
PROOF
<1>1. c \in [1 .. n -> Addresses] /\ n \in Nat /\ k \in 0 .. n
  BY DEF Progress, IsList
<1>2. \A i \in 1 .. n : c[i] \in Addresses
  BY <1>1
<1>3. IsList(box_list', box_data', n, c)
  BY <1>2 DEF Progress, IsList, SameBoxes
<1>4. \A i \in 1 .. k : box_data'[c[i]].box_name = box_data[c[i]].box_name
  BY <1>1, <1>2 DEF SameBoxes
<1>. QED
  BY <1>3, <1>4 DEF Progress

\* A list is at one sequence of addresses.
LEMMA SameList ==
  ASSUME NEW list, NEW boxes, NEW n, NEW c, NEW m, NEW d,
         IsList(list, boxes, n, c), IsList(list, boxes, m, d)
  PROVE  c = d /\ n = m
PROOF
<1>1. c = d
  <2>1. Chain(list, boxes) = c
    BY ListChain
  <2>2. Chain(list, boxes) = d
    BY ListChain
  <2>. QED
    BY <2>1, <2>2
<1>2. n \in Nat /\ m \in Nat /\ 1 .. n = 1 .. m
  BY <1>1 DEF IsList
<1>. QED
  BY <1>1, <1>2

LEMMA LockProgresses ==
  ASSUME IInv, ListInv, NEW w \in Workers, worker[w].delivered = << >>, ListLock(w)
  PROVE  Progresses(w)'
PROOF
<1>1. PICK n, c : IsList(box_list, box_data, n, c)
  BY DEF ListInv
<1>2. /\ worker'[w].box = box_list.head /\ worker'[w].delivered = << >>
      /\ box_list'.head = box_list.head /\ box_data' = box_data
  BY DEF ListLock, IInv, Shape, Fields
<1>3. IsList(box_list', box_data', n, c)
  BY <1>1, <1>2 DEF IsList
<1>4. n \in Nat /\ box_list.head = IF 0 = n THEN NULL ELSE c[0 + 1]
  BY <1>1 DEF IsList
<1>5. << >> \in Listing /\ Len(<< >>) = 0
  BY DEF Listing
<1>6. Progress(w, n, c, 0)'
  BY <1>2, <1>3, <1>4, <1>5 DEF Progress
<1>. QED
  BY <1>6, Zenon DEF Progresses

\* The next box is sent, and the listing goes on to the one after it.
LEMMA SendProgresses ==
  ASSUME IInv, Types, ListInv, NEW w \in Workers, Progresses(w), ListSend(w), worker'[w] # worker[w]
  PROVE  Progresses(w)'
PROOF
<1>1. PICK n, c, k : Progress(w, n, c, k)
  BY DEF Progresses
<1>. DEFINE response == [box_name |-> Box(w).box_name, last |-> worker[w].box = box_list.tail]
<1>2. /\ worker[w].box # NULL
      /\ worker'[w].box = Box(w).next
      /\ worker'[w].delivered = Append(worker[w].delivered, response)
      /\ box_list' = box_list /\ box_data' = box_data
  BY DEF ListSend, RespondToManager, IInv, Shape, Fields, boxVars
<1>3. n \in Nat /\ k \in 0 .. n /\ k # n
  BY <1>1, <1>2 DEF Progress, IsList
<1>4. k + 1 \in 1 .. n /\ k \in Nat /\ ~ (k = n)
  BY <1>3
<1>5. worker[w].box = c[k + 1] /\ c[k + 1] \in Addresses
  BY <1>1, <1>4 DEF Progress, IsList
<1>6. box_data[c[k + 1]].next = IF k + 1 = n THEN NULL ELSE c[k + 1 + 1]
  BY <1>1, <1>4 DEF Progress, IsList
<1>7. Box(w).box_name \in Nat
  <2>1. Box(w).allocated
    <3>1. ListInv
      OBVIOUS
    <3>2. PICK m, d : IsList(box_list, box_data, m, d) /\ \A i \in 1 .. m : box_data[d[i]].allocated
      BY DEF ListInv
    <3>3. c = d /\ n = m
      BY <1>1, <3>2, SameList DEF Progress
    <3>. QED
      BY <1>4, <1>5, <3>2, <3>3 DEF Box
  <2>2. Box(w).box_name # NoName /\ Box(w).box_name \in BoxNames \cup {NoName}
    BY <1>5, <2>1 DEF ListInv, Types, BoxTypes, Box
  <2>. QED
    BY <2>2, RequestAssumption
<1>8. response \in Response /\ response.box_name = box_data[c[k + 1]].box_name
  BY <1>5, <1>7 DEF Response, Box
<1>9. PICK delivered : delivered = worker[w].delivered
  OBVIOUS
<1>10. delivered \in Listing /\ Len(delivered) = k
       /\ \A i \in 1 .. k : delivered[i].box_name = box_data[c[i]].box_name
  BY <1>1, <1>9 DEF Progress
<1>. HIDE DEF response, Response
<1>11. PICK after : after = Append(delivered, response)
  OBVIOUS
<1>12. /\ after \in Listing /\ Len(after) = k + 1 /\ after[k + 1] = response
       /\ \A i \in 1 .. k : after[i] = delivered[i]
  BY <1>4, <1>8, <1>10, <1>11 DEF Listing
<1>13. \A i \in 1 .. k + 1 : after[i].box_name = box_data[c[i]].box_name
  <2>. SUFFICES ASSUME NEW i \in 1 .. k + 1 PROVE after[i].box_name = box_data[c[i]].box_name
    OBVIOUS
  <2>1. i \in 1 .. k \/ i = k + 1
    BY <1>4
  <2>. QED
    BY <1>8, <1>10, <1>12, <2>1
<1>14. worker'[w].delivered = after /\ worker'[w].box = IF k + 1 = n THEN NULL ELSE c[k + 1 + 1]
  BY <1>2, <1>5, <1>6, <1>9, <1>11 DEF Box
<1>15. Progress(w, n, c, k + 1)'
  <2>1. IsList(box_list', box_data', n, c)
    BY <1>1, <1>2 DEF Progress
  <2>2. k + 1 \in 0 .. n
    BY <1>4
  <2>. QED
    BY <1>2, <1>12, <1>13, <1>14, <2>1, <2>2 DEF Progress
<1>. QED
  BY <1>15, Zenon DEF Progresses

LEMMA NextKeepsListings ==
  ASSUME IInv, Types, ListInv, ListingInv, [Next]_vars
  PROVE  ListingInv'
PROOF
<1>. SUFFICES ASSUME NEW w \in Workers
              PROVE  /\ worker'[w].pc = "list" => worker'[w].delivered = << >>
                     /\ worker'[w].pc = "l_send" => Progresses(w)'
  BY Zenon DEF ListingInv
<1>1. ListingGoesOn(w)
  BY ListingsGoOn
<1>2. /\ worker[w].pc = "list" => worker[w].delivered = << >>
      /\ worker[w].pc = "l_send" => Progresses(w)
  BY DEF ListingInv
<1>3. ASSUME worker[w].pc = "l_send", worker'[w].box = worker[w].box,
             worker'[w].delivered = worker[w].delivered
      PROVE  Progresses(w)'
  BY <1>2, <1>3, ListStays, ProgressStays, Zenon DEF Progresses
<1>4. CASE ListLock(w)
  <2>1. worker[w].pc = "list" /\ worker'[w].pc = "l_send"
    BY <1>4 DEF ListLock, At, IInv, Shape, Fields
  <2>. QED
    BY <1>2, <1>4, <2>1, LockProgresses
<1>5. CASE ListSend(w)
  <2>1. worker[w].pc = "l_send" /\ worker'[w].pc = "l_send"
    BY <1>5 DEF ListSend, RespondToManager, At, IInv, Shape, Fields
  <2>2. CASE worker'[w] = worker[w]
    BY <1>2, <1>3, <2>1, <2>2
  <2>3. CASE worker'[w] # worker[w]
    BY <1>2, <1>5, <2>1, <2>3, SendProgresses
  <2>. QED
    BY <2>1, <2>2, <2>3
<1>6. CASE ~ (ListLock(w) \/ ListSend(w))
  BY <1>1, <1>2, <1>3, <1>6 DEF ListingGoesOn, Away
<1>. QED
  BY <1>4, <1>5, <1>6

\* A response was sent for each of the n different addresses of c, in order.
SentAll(sent, boxes, n, c) ==
    /\ n \in Nat /\ c \in [1 .. n -> Addresses]
    /\ \A i, j \in 1 .. n : c[i] = c[j] => i = j
    /\ Len(sent) = n
    /\ \A i \in 1 .. n : sent[i].box_name = boxes[c[i]].box_name

\* What is printed names each of the boxes at these addresses, once.
NamesEach(printed, boxes, addresses) ==
    \E box \in Bijection(DOMAIN printed, addresses) :
        \A i \in DOMAIN printed : printed[i].box_name = boxes[box[i]].box_name

\* A rearrangement of the responses of a listing that is through names each box
\* of the list, once.
LEMMA PrintedAreBoxes ==
  ASSUME NEW boxes, NEW n, NEW c, NEW sent \in Listing, NEW printed \in Listing,
         SentAll(sent, boxes, n, c), Rearranged(printed, sent)
  PROVE  NamesEach(printed, boxes, {c[i] : i \in 1 .. n})
PROOF
<1>0. /\ n \in Nat /\ c \in [1 .. n -> Addresses]
      /\ \A i, j \in 1 .. n : c[i] = c[j] => i = j
      /\ Len(sent) = n /\ \A i \in 1 .. n : sent[i].box_name = boxes[c[i]].box_name
  BY DEF SentAll
<1>1. PICK p, q : Arranges(p, q, n, printed, sent)
  <2>1. PICK p, q, m : Arranges(p, q, m, printed, sent)
    BY DEF Rearranged
  <2>2. m = n
    BY <1>0, <2>1 DEF Arranges
  <2>. QED
    BY <2>1, <2>2, Zenon
<1>. DEFINE box == [i \in 1 .. n |-> c[p[i]]]
<1>2. /\ p \in [1 .. n -> 1 .. n] /\ q \in [1 .. n -> 1 .. n] /\ Len(printed) = n
      /\ \A i \in 1 .. n : q[p[i]] = i /\ p[q[i]] = i /\ printed[i] = sent[p[i]]
  BY <1>1 DEF Arranges
<1>3. DOMAIN printed = 1 .. n
  BY <1>2 DEF Listing
<1>4. \A i \in 1 .. n : p[i] \in 1 .. n /\ q[i] \in 1 .. n
  BY <1>2
<1>5. \A i \in 1 .. n : printed[i].box_name = boxes[box[i]].box_name
  BY <1>0, <1>2, <1>4
<1>6. box \in [1 .. n -> {c[i] : i \in 1 .. n}]
  BY <1>0, <1>4
<1>7. \A i, j \in 1 .. n : box[i] = box[j] => i = j
  <2>. SUFFICES ASSUME NEW i \in 1 .. n, NEW j \in 1 .. n, c[p[i]] = c[p[j]] PROVE i = j
    OBVIOUS
  <2>1. p[i] = p[j]
    BY <1>0, <1>4
  <2>. QED
    BY <1>2, <2>1
<1>8. \A a \in {c[i] : i \in 1 .. n} : \E i \in 1 .. n : box[i] = a
  <2>. SUFFICES ASSUME NEW j \in 1 .. n PROVE \E i \in 1 .. n : box[i] = c[j]
    OBVIOUS
  <2>1. q[j] \in 1 .. n /\ box[q[j]] = c[j]
    BY <1>2, <1>4
  <2>. QED
    BY <2>1
<1>. HIDE DEF box
<1>9. box \in Bijection(1 .. n, {c[i] : i \in 1 .. n})
  BY <1>6, <1>7, <1>8 DEF Bijection, Injection, IsInjective, Surjection
<1>. QED
  BY <1>3, <1>5, <1>9 DEF NamesEach

LEMMA ListingsAreOfBoxes ==
  ASSUME ListingInv
  PROVE  ListingIsExact
PROOF
<1>. SUFFICES ASSUME NEW w \in Workers, worker[w].pc = "l_send", worker[w].box = NULL
              PROVE  LET printed == Printed(worker[w].delivered)
                         boxes == ToSet(Chain(box_list, box_data))
                     IN  /\ \A i, j \in DOMAIN printed :
                               i < j => printed[i].box_name <= printed[j].box_name
                         /\ \E box \in Bijection(DOMAIN printed, boxes) :
                               \A i \in DOMAIN printed :
                                   printed[i].box_name = box_data[box[i]].box_name
  BY Zenon DEF ListingIsExact
<1>1. PICK n, c, k : Progress(w, n, c, k)
  BY DEF ListingInv, Progresses
<1>2. PICK sent : sent = worker[w].delivered
  OBVIOUS
<1>3. /\ n \in Nat /\ c \in [1 .. n -> Addresses]
      /\ \A i, j \in 1 .. n : c[i] = c[j] => i = j
  BY <1>1 DEF Progress, IsList
<1>4. k = n
  <2>. SUFFICES ASSUME k # n PROVE FALSE
    OBVIOUS
  <2>1. k \in 0 .. n /\ c[k + 1] = NULL
    BY <1>1 DEF Progress
  <2>2. k + 1 \in 1 .. n
    BY <1>3, <2>1
  <2>. QED
    BY <1>3, <2>1, <2>2, AddressAssumption
<1>5. /\ sent \in Listing /\ Len(sent) = n
      /\ \A i \in 1 .. n : sent[i].box_name = box_data[c[i]].box_name
  BY <1>1, <1>2, <1>4 DEF Progress
<1>6. ToSet(Chain(box_list, box_data)) = {c[i] : i \in 1 .. n}
  BY <1>1, ListChain DEF Progress
<1>7. PICK printed : printed = Printed(sent)
  OBVIOUS
<1>8. Reverse(sent) \in Listing /\ Rearranged(Reverse(sent), sent)
  BY <1>5, RearrangedReverse
<1>9. printed \in Listing /\ Rearranged(printed, Reverse(sent)) /\ Sorted(printed)
  BY <1>7, <1>8, MergeSortSorts DEF Printed, IsSorting
<1>10. Rearranged(printed, sent)
  BY <1>5, <1>8, <1>9, RearrangedAgain
<1>11. DOMAIN printed = 1 .. Len(printed)
  BY <1>9 DEF Listing
<1>12. \A i, j \in DOMAIN printed : i < j => printed[i].box_name <= printed[j].box_name
  BY <1>9, <1>11 DEF Sorted
<1>13. PICK boxes : boxes = box_data
  OBVIOUS
<1>14. SentAll(sent, boxes, n, c)
  BY <1>3, <1>5, <1>13 DEF SentAll
<1>15. NamesEach(printed, boxes, {c[i] : i \in 1 .. n})
  <2>1. \A x \in Listing, y \in Listing :
          SentAll(x, boxes, n, c) /\ Rearranged(y, x) => NamesEach(y, boxes, {c[i] : i \in 1 .. n})
    BY PrintedAreBoxes
  <2>2. sent \in Listing /\ printed \in Listing
    BY <1>5, <1>9
  <2>3. SentAll(sent, boxes, n, c) /\ Rearranged(printed, sent)
    BY <1>10, <1>14
  <2>. QED
    BY <2>1, <2>2, <2>3, Zenon
<1>. QED
  BY <1>2, <1>6, <1>7, <1>12, <1>13, <1>15, Zenon DEF NamesEach

------------------------------------------------------------------------------

\* The list does not change during a listing, which holds box_list_lock (mbroker.c,
\* line 352); what the manager then prints is each box of the list, once, in the
\* order of the names, however many boxes there are: the merge sort of protocol.c
\* (line 129) sorts, and neither loses nor repeats a box.
THEOREM ListingsAreExact ==
  Spec => []ListingIsExact
PROOF
<1>1. Init => ListingInv
  BY ListingInit
<1>2. SInv /\ ListingInv /\ [Next]_vars => ListingInv'
  BY NextKeepsListings DEF SInv
<1>3. ListingInv => ListingIsExact
  BY ListingsAreOfBoxes
<1>. QED
  BY SessionsInv, <1>1, <1>2, <1>3, PTL DEF Spec
================================================================================
