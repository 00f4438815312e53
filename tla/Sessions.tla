------------------------------ MODULE Sessions ------------------------------
(***************************************************************************)
(* The worker threads of the broker, worker_thread_func in mbroker.c, on   *)
(* the boxes they share: TecnicoFS, the list of boxes and the BoxData      *)
(* structures.  A worker takes one request after the other and carries its *)
(* session out; two accesses to shared state that no lock holds together   *)
(* are two steps.  Only a listing holds box_list_lock for more than one     *)
(* operation on the list: the others are one step that needs the lock.     *)
(*                                                                         *)
(* A string is a sequence of characters without the NUL that ends it in    *)
(* memory.  A client is at its end of its pipe, or gone: what it sends and *)
(* when it leaves is up to it.  A removed box is freed memory that keeps   *)
(* its contents until malloc gives it out again.                           *)
(***************************************************************************)
EXTENDS Integers, FiniteSets, Sequences, SequencesExt, TLC

CONSTANTS Workers,
          BoxNames, NoName,    \* numbers, in the order of strcmp
          Addresses, NULL,     \* where BoxData structures can be: numbers
          Nobody,              \* the owner of a free mutex
          NUL,                 \* the character '\0'
          Script,              \* the strings that publishers will send
          Budgets,             \* how many requests there may be, and of which boxes
          StackBuffers,        \* what full_box_buffer may hold at first
          Beyond,              \* what the stack may hold after full_box_buffer
          ClientsLeave,        \* whether a client may die during its session
          INODE_TABLE_SIZE, DATA_BLOCKS, MAX_OPEN_FILES, BLOCK_SIZE,
          MAX_DIR_ENTRIES, SizeModulus

INSTANCE CStrings
INSTANCE BoxList

Kinds == {"publish", "subscribe", "create", "remove", "list"}

ASSUME AddressAssumption == IsFiniteSet(Addresses) /\ NULL \notin Addresses

ASSUME WorkerAssumption == IsFiniteSet(Workers) /\ Nobody \notin Workers

ASSUME RequestAssumption ==
    /\ NoName \notin BoxNames /\ BoxNames \subseteq Nat
    /\ \A b \in Budgets : DOMAIN b = {"left", "names"} /\ b.names \subseteq BoxNames

ASSUME StackAssumption ==
    /\ \A buffer \in StackBuffers : DOMAIN buffer = 1 .. BLOCK_SIZE
    /\ \A beyond \in Beyond :
        beyond \in Seq(Range(beyond)) /\ Len(beyond) > 1 /\ Last(beyond) = NUL

VARIABLES worker,      \* the local variables of each worker
          box_list,    \* head, tail and box_list_lock
          box_data,    \* the BoxData structures
          sigpipe,     \* what SIGPIPE does: "default" or "caught"
          script,      \* what is left of Script
          budget,      \* what is left of one of the Budgets
          reinitialised, \* boxes whose lock and condition variable were
                       \* initialised while they were in use
          orphans,     \* history: files whose creation was answered by an error
          removed,     \* history: the inodes of files that were removed
          overlapped,  \* history: names of boxes that had two publishers at once
          stale        \* history: workers that replayed what was left in their buffer

VARIABLES freeinode_ts, i_size, i_data_block, free_blocks, fs_data,
          d_name, d_inumber, free_open_file_entries, of_inumber, of_offset,
          process

FS == INSTANCE TFS WITH
    Names <- BoxNames, LongNames <- {}, BadPaths <- {},
    Modes <- {{}, {"TFS_O_APPEND"}, {"TFS_O_CREAT"}},
    Buffers <- {Append(Script[i], NUL) : i \in DOMAIN Script},
    ReadLengths <- {BLOCK_SIZE}

\* As tfs_init sets them by default (operations.c, line 15) there are more blocks
\* than inodes.
ASSUME FileSystemAssumption ==
    /\ FS!SizeAssumption /\ FS!NameAssumption /\ FS!ArgumentAssumption
    /\ INODE_TABLE_SIZE <= DATA_BLOCKS

\* Messages are strings.
ASSUME ScriptAssumption ==
    /\ Script \in Seq(Range(Script))
    /\ \A message \in Range(Script) :
        message \in Seq(Range(message)) /\ NUL \notin Range(message)

tables == <<freeinode_ts, i_size, i_data_block, free_blocks, fs_data, d_name,
            d_inumber, free_open_file_entries, of_inumber, of_offset>>
fsVars == <<tables, process>>
boxVars == <<box_list, box_data>>
history == <<orphans, removed, overlapped, stale>>
otherVars == <<sigpipe, script, budget, reinitialised, history>>
vars == <<worker, boxVars, otherVars, fsVars>>

PublisherPCs == {"publish", "p_find", "p_check", "p_claim", "p_read", "p_lock",
                 "p_write", "p_announce", "p_release"}
SubscriberPCs == {"subscribe", "s_open", "s_check", "s_test", "s_replay", "s_send",
                  "s_lock", "s_loop", "s_sleep", "s_wait", "s_read", "s_push"}
ManagerPCs == {"create", "c_insert", "remove", "r_delete", "m_respond", "list", "l_send"}

NewBox(name) == [box_name |-> name, box_size |-> 0, n_publishers |-> 0,
                 box_condvar_lock |-> Nobody, next |-> NULL, allocated |-> TRUE]

\* full_box_buffer is read before it has been filled: it is in StackBuffers.
Init ==
    /\ worker \in [Workers ->
                     [pc : {"dequeue"}, new_box_name : {NoName}, handle : {-1},
                      box : {NULL}, message : {<< >>}, last_size : {0},
                      full_box_buffer : StackBuffers, replay : {<< >>},
                      client : {"here"}, delivered : {<< >>}]]
    /\ box_list = [head |-> NULL, tail |-> NULL, box_list_lock |-> Nobody]
    /\ box_data = [a \in Addresses |-> [NewBox(NoName) EXCEPT !.allocated = FALSE]]
    /\ sigpipe = "default"
    /\ script = Script
    /\ budget \in Budgets
    /\ reinitialised = {}
    /\ orphans = {}
    /\ removed = {}
    /\ overlapped = {}
    /\ stale = {}
    /\ FS!Init

------------------------------------------------------------------------------
(* Steps of a worker *)

At(w, label) == process = "running" /\ worker[w].pc = label

Goto(w, label) == worker' = [worker EXCEPT ![w].pc = label]

\* A step that changes nothing else.
Move(w, from, to) ==
    At(w, from) /\ Goto(w, to) /\ UNCHANGED <<boxVars, otherVars, fsVars>>

Box(w) == box_data[worker[w].box]

ListUnlocked == box_list.box_list_lock = Nobody

\* Between pthread_mutex_lock and pthread_mutex_unlock of box_condvar_lock.
Held(w) == worker[w].pc \in {"p_write", "p_announce", "s_loop", "s_sleep", "s_read"}

\* find_box for the name that was asked for, and tfs_open of it.
FindIt(w, from, to) ==
    /\ At(w, from)
    /\ ListUnlocked
    /\ worker' = [worker EXCEPT ![w].pc = to,
                    ![w].box = FindBox(box_list, box_data, worker[w].new_box_name)]
    /\ UNCHANGED <<boxVars, otherVars, fsVars>>

OpenIt(w, from, to, mode) ==
    /\ At(w, from)
    /\ \E handle \in FS!Handles \cup {-1} :
        /\ FS!Open(worker[w].new_box_name, mode, handle)
        /\ worker' = [worker EXCEPT ![w].pc = to, ![w].handle = handle]
    /\ UNCHANGED <<boxVars, sigpipe, script, budget, reinitialised, orphans, removed, stale>>

\* pthread_mutex_lock(&box_data->box_condvar_lock).
Lock(w, from, to) ==
    /\ At(w, from)
    /\ Box(w).box_condvar_lock = Nobody
    /\ box_data' = [box_data EXCEPT ![worker[w].box].box_condvar_lock = w]
    /\ Goto(w, to)
    /\ UNCHANGED <<box_list, otherVars, fsVars>>

\* write() to the client's pipe: the worker's variables after it, when it went
\* well and when it did not.  The handler that signal() installs catches one
\* SIGPIPE: after that, and before the first subscriber, the next one kills.
WriteToClient(w, sent, failed) ==
    /\ \/ /\ worker[w].client = "here"
          /\ worker' = [worker EXCEPT ![w] = sent]
          /\ UNCHANGED <<sigpipe, process>>
       \/ /\ worker[w].client = "gone"
          /\ sigpipe = "caught"
          /\ sigpipe' = "default"
          /\ worker' = [worker EXCEPT ![w] = failed]
          /\ UNCHANGED process
       \/ /\ worker[w].client = "gone"
          /\ sigpipe = "default"
          /\ process' = "killed"
          /\ UNCHANGED <<worker, sigpipe>>
    /\ UNCHANGED <<boxVars, script, budget, reinitialised, history, tables>>

\* pcq_dequeue, and the client's pipe is opened.  Only full_box_buffer is read
\* in a session before the session sets it.
Dequeue(w, kind, name) ==
    /\ At(w, "dequeue")
    /\ budget.left[kind] > 0
    /\ budget' = [budget EXCEPT !.left[kind] = @ - 1]
    /\ worker' = [worker EXCEPT ![w].pc = kind,
                                ![w].new_box_name = IF kind = "list" THEN @ ELSE name,
                                ![w].client = "here",
                                ![w].delivered = << >>]
    /\ sigpipe' = IF kind = "subscribe" THEN "caught" ELSE sigpipe
    /\ UNCHANGED <<boxVars, script, reinitialised, history, fsVars>>

\* A client dies or closes its pipe during its session.
ClientLeaves(w) ==
    /\ ClientsLeave
    /\ process = "running"
    /\ worker[w].pc \in SubscriberPCs \cup ManagerPCs
    /\ worker[w].client = "here"
    /\ worker' = [worker EXCEPT ![w].client = "gone"]
    /\ UNCHANGED <<boxVars, otherVars, fsVars>>

------------------------------------------------------------------------------
(* case 1: a publisher's session *)

Overlap(w) ==
    LET name == worker[w].new_box_name
        others == {v \in Workers \ {w} :
                     worker[v].pc \in PublisherPCs \ {"publish"} /\ worker[v].new_box_name = name}
    IN  overlapped' = IF others = {} THEN overlapped ELSE overlapped \cup {name}

\* Mutation: the publisher starts at the beginning of the file.
PublisherOpenAtStart(w) == OpenIt(w, "publish", "p_find", {}) /\ Overlap(w)

\* The position to append at is fixed here, before the box is known to be free.
PublisherOpen(w) == OpenIt(w, "publish", "p_find", {"TFS_O_APPEND"}) /\ Overlap(w)

PublisherFind(w) == FindIt(w, "p_find", "p_check")

\* The check and the assignment that follows it are not under a lock.
PublisherCheck(w) ==
    Move(w, "p_check", IF /\ worker[w].box # NULL
                          /\ worker[w].handle >= 0
                          /\ Box(w).n_publishers = 0
                       THEN "p_claim" ELSE "dequeue")

PublisherClaim(w) ==
    /\ At(w, "p_claim")
    /\ box_data' = [box_data EXCEPT ![worker[w].box].n_publishers = 1]
    /\ Goto(w, "p_read")
    /\ UNCHANGED <<box_list, otherVars, fsVars>>

PublisherRead(w) ==
    /\ At(w, "p_read")
    /\ \/ /\ script # << >>
          /\ script' = Tail(script)
          /\ worker' = [worker EXCEPT ![w].pc = "p_lock", ![w].message = Head(script)]
       \/ /\ Goto(w, "p_release")        \* end of file: the client is done
          /\ UNCHANGED script
    /\ UNCHANGED <<boxVars, sigpipe, budget, reinitialised, history, fsVars>>

\* Mutation: the message is written without box_condvar_lock.
PublisherLockForgotten(w) == Move(w, "p_lock", "p_write")

PublisherLock(w) == Lock(w, "p_lock", "p_write")

\* The loop is left, with the lock held, when less than "least" was written.
WriteMessage(w, least) ==
    /\ At(w, "p_write")
    /\ \E ret \in -1 .. Len(worker[w].message) + 1 :
        /\ FS!Write(worker[w].handle, Append(worker[w].message, NUL), ret)
        /\ Goto(w, IF ret < least THEN "p_release" ELSE "p_announce")
    /\ UNCHANGED <<boxVars, otherVars>>

\* Mutation: one byte, the NUL of an empty message, counts as nothing.
PublisherWriteTwo(w) == WriteMessage(w, 2)

PublisherWrite(w) == WriteMessage(w, 1)

\* The size grows by the length of the whole message; those that are woken go
\* for the lock, which is given up.
Announce(w, woken) ==
    /\ At(w, "p_announce")
    /\ box_data' = [box_data EXCEPT ![worker[w].box].box_size = @ + Len(worker[w].message),
                                    ![worker[w].box].box_condvar_lock = Nobody]
    /\ worker' = [v \in Workers |->
                    IF v \in woken THEN [worker[v] EXCEPT !.pc = "s_lock"]
                    ELSE IF v = w THEN [worker[v] EXCEPT !.pc = "p_read"]
                    ELSE worker[v]]
    /\ UNCHANGED <<box_list, otherVars, fsVars>>

\* The threads that wait for the box_condvar of w's box.
Asleep(w) == {v \in Workers : worker[v].pc = "s_wait" /\ worker[v].box = worker[w].box}

\* Mutations: pthread_cond_signal, or nothing, instead of pthread_cond_broadcast.
PublisherAnnounceToOne(w) ==
    IF Asleep(w) = {} THEN Announce(w, {}) ELSE \E v \in Asleep(w) : Announce(w, {v})

PublisherAnnounceToNone(w) == Announce(w, {})

\* pthread_cond_broadcast.  A condition variable that was initialised again under
\* its sleepers may wake any of them, or none.
PublisherAnnounce(w) ==
    \E woken \in SUBSET Asleep(w) :
        /\ worker[w].box \notin reinitialised => woken = Asleep(w)
        /\ Announce(w, woken)

PublisherRelease(w) ==
    /\ At(w, "p_release")
    /\ box_data' = [box_data EXCEPT ![worker[w].box].n_publishers = 0]
    /\ Goto(w, "dequeue")
    /\ UNCHANGED <<box_list, otherVars, fsVars>>

Publisher(w) ==
    \/ PublisherOpen(w)  \/ PublisherFind(w)  \/ PublisherCheck(w)
    \/ PublisherClaim(w) \/ PublisherRead(w)  \/ PublisherLock(w)
    \/ PublisherWrite(w) \/ PublisherAnnounce(w) \/ PublisherRelease(w)

------------------------------------------------------------------------------
(* case 2: a subscriber's session *)

SubscriberFind(w) == FindIt(w, "subscribe", "s_open")

\* Mutation: the file is opened as publishers open it.
SubscriberOpenAtEnd(w) ==
    OpenIt(w, "s_open", "s_check", {"TFS_O_APPEND"}) /\ UNCHANGED overlapped

SubscriberOpen(w) == OpenIt(w, "s_open", "s_check", {}) /\ UNCHANGED overlapped

\* The test is "> 0" here and ">= 0" for publishers.
SubscriberCheck(w) ==
    Move(w, "s_check",
         IF worker[w].box # NULL /\ worker[w].handle > 0 THEN "s_test" ELSE "dequeue")

\* The test message is not one of the box's, and nobody looks at whether it was
\* written.  n_subscribers, which only the listing reads, is not modelled.
SubscriberTest(w) ==
    LET next == [worker[w] EXCEPT !.pc = "s_replay"]
    IN  At(w, "s_test") /\ WriteToClient(w, next, next)

\* The k-th smallest number in S.
Nth(S, k) == CHOOSE i \in S : Cardinality({j \in S : j < i}) = k - 1

\* The strings of memory up to the first empty one that start in the buffer or,
\* since the loop tests offset_aux with <=, right after it.  A first string that
\* fills the buffer is cut off, and the last character is skipped.
Strings(memory) ==
    LET fills == \A i \in 1 .. BLOCK_SIZE - 1 : memory[i] # NUL
        starts == {i \in 1 .. BLOCK_SIZE + 1 :
                     i = 1 \/ memory[i - 1] = NUL \/ (fills /\ i = BLOCK_SIZE + 1)}
        taken == {i \in starts : \A j \in starts : j <= i => memory[j] # NUL}
    IN  [k \in 1 .. Cardinality(taken) |->
            FirstString(memory, Nth(taken, k), BLOCK_SIZE - 1)]

\* What was left in the buffer goes on where the data ends.
NoteStale(w, data) ==
    LET clean == /\ Len(data) < BLOCK_SIZE
                 /\ worker[w].full_box_buffer[Len(data) + 1] = NUL
    IN  stale' = IF clean THEN stale \ {w} ELSE stale \cup {w}

\* tfs_read of what is in the box already: without box_condvar_lock, and into
\* the buffer of the worker's previous session.
SubscriberReplay(w) ==
    LET data == FS!ReadData(worker[w].handle, BLOCK_SIZE)
        buffer == Overwritten(worker[w].full_box_buffer, data)
    IN  /\ At(w, "s_replay")
        /\ \E ret \in -1 .. BLOCK_SIZE :
            FS!Read(worker[w].handle, BLOCK_SIZE, ret)
        /\ IF process' = "running"
             THEN /\ NoteStale(w, data)
                  /\ \E beyond \in Beyond :
                       worker' = [worker EXCEPT ![w].pc = "s_send",
                                                ![w].full_box_buffer = buffer,
                                                ![w].replay = Strings(buffer \o beyond)]
             ELSE UNCHANGED <<worker, stale>>
        /\ UNCHANGED <<boxVars, sigpipe, script, budget, reinitialised, orphans, removed, overlapped>>

SubscriberSend(w) ==
    LET rest == [worker[w] EXCEPT !.replay = Tail(@)]
    IN  /\ At(w, "s_send")
        /\ worker[w].replay # << >>
        /\ WriteToClient(w, [rest EXCEPT !.delivered = Append(@, Head(worker[w].replay))], rest)

\* last_size is read without the lock too.
SubscriberLast(w) ==
    /\ At(w, "s_send")
    /\ worker[w].replay = << >>
    /\ worker' = [worker EXCEPT ![w].pc = "s_lock", ![w].last_size = Box(w).box_size]
    /\ UNCHANGED <<boxVars, otherVars, fsVars>>

SubscriberLock(w) == Lock(w, "s_lock", "s_loop")

SubscriberLoop(w) ==
    Move(w, "s_loop", IF Box(w).box_size = worker[w].last_size THEN "s_sleep" ELSE "s_read")

\* pthread_cond_wait gives the lock up.
SubscriberWait(w) ==
    /\ At(w, "s_sleep")
    /\ box_data' = [box_data EXCEPT ![worker[w].box].box_condvar_lock = Nobody]
    /\ Goto(w, "s_wait")
    /\ UNCHANGED <<box_list, otherVars, fsVars>>

SpuriousWakeup(w) == Move(w, "s_wait", "s_lock")

\* The box has changed: read, note the new size and unlock.
SubscriberRead(w) ==
    LET data == FS!ReadData(worker[w].handle, BLOCK_SIZE)
    IN  /\ At(w, "s_read")
        /\ \E ret \in -1 .. BLOCK_SIZE :
            FS!Read(worker[w].handle, BLOCK_SIZE, ret)
        /\ IF process' = "running"
             THEN /\ worker' = [worker EXCEPT ![w].pc = "s_push",
                                              ![w].last_size = Box(w).box_size,
                                              ![w].full_box_buffer = Overwritten(@, data)]
                  /\ box_data' = [box_data EXCEPT ![worker[w].box].box_condvar_lock = Nobody]
             ELSE UNCHANGED <<worker, box_data>>
        /\ UNCHANGED <<box_list, otherVars>>

\* One string is sent, however many were read, and even if none was.
SubscriberPush(w) ==
    /\ At(w, "s_push")
    /\ \E beyond \in Beyond :
        LET string == FirstString(worker[w].full_box_buffer \o beyond, 1, BLOCK_SIZE - 1)
        IN  WriteToClient(w, [worker[w] EXCEPT !.pc = "s_lock", !.delivered = Append(@, string)],
                             [worker[w] EXCEPT !.pc = "dequeue"])

Subscriber(w) ==
    \/ SubscriberFind(w)   \/ SubscriberOpen(w) \/ SubscriberCheck(w)
    \/ SubscriberTest(w)   \/ SubscriberReplay(w) \/ SubscriberSend(w)
    \/ SubscriberLast(w)   \/ SubscriberLock(w) \/ SubscriberLoop(w)
    \/ SubscriberWait(w)   \/ SubscriberRead(w) \/ SubscriberPush(w)

------------------------------------------------------------------------------
(* cases 3 and 5: a manager creates or removes a box *)

\* Mutation: the handle that creates a file is closed at once.
ManagerCreateCloses(w) ==
    /\ At(w, "create")
    /\ \E inum \in FS!Inodes :
        /\ FS!IsFirst(inum, FS!FreeInodes)
        /\ freeinode_ts' = [freeinode_ts EXCEPT ![inum] = "TAKEN"]
        /\ FS!ResetInode(inum)
        /\ FS!AddDirEntry(worker[w].new_box_name, inum)
    /\ Goto(w, "c_insert")
    /\ UNCHANGED <<boxVars, otherVars, free_blocks, fs_data,
                   free_open_file_entries, of_inumber, of_offset, process>>

\* tfs_open can create the file and fail then, without a handle for it.
ManagerCreate(w) ==
    LET name == worker[w].new_box_name
    IN  /\ At(w, "create")
        /\ \E create \in FS!Handles \cup {-1} :
            /\ FS!Open(name, {"TFS_O_CREAT"}, create)
            /\ Goto(w, IF create = -1 THEN "m_respond" ELSE "c_insert")
            /\ orphans' = IF create = -1 /\ ~ FS!InDir(name) /\ FS!InDir(name)'
                          THEN orphans \cup {name} ELSE orphans
        /\ UNCHANGED <<boxVars, sigpipe, script, budget, reinitialised, removed, overlapped, stale>>

\* Where malloc may put a box: where there was one that was freed, whoever still
\* has its address, or behind all the boxes there have been.
Malloc ==
    {a \in Addresses :
        \/ box_data[a].box_name # NoName /\ ~ box_data[a].allocated
        \/ /\ box_data[a].box_name = NoName
           /\ \A b \in Addresses : b < a => box_data[b].box_name # NoName}

\* A worker has box_condvar_lock or waits for box_condvar: initialising them
\* again is undefined behaviour.
InUse(a) == \E w \in Workers : worker[w].box = a /\ (Held(w) \/ worker[w].pc = "s_wait")

\* insert_at_beginning (line 311; protocol.c, line 6): the lock of the box is free,
\* the size is 0, and nobody has been told.
ManagerInsert(w) ==
    /\ At(w, "c_insert")
    /\ ListUnlocked
    /\ \E a \in Malloc :
        /\ box_data' = BoxesWith(box_list, box_data, a, NewBox(worker[w].new_box_name))
        /\ box_list' = ListWith(box_list, a)
        /\ reinitialised' = IF InUse(a) THEN reinitialised \cup {a} ELSE reinitialised \ {a}
    /\ Goto(w, "m_respond")
    /\ UNCHANGED <<sigpipe, script, budget, history, fsVars>>

\* Mutation: delete_box is called whatever tfs_unlink returns.
ManagerRemoveUnchecked(w) ==
    /\ At(w, "remove")
    /\ \E remove \in {0, -1} : FS!Unlink(worker[w].new_box_name, remove)
    /\ Goto(w, "r_delete")
    /\ UNCHANGED <<boxVars, otherVars>>

ManagerRemove(w) ==
    /\ At(w, "remove")
    /\ \E remove \in {0, -1} :
        /\ FS!Unlink(worker[w].new_box_name, remove)
        /\ Goto(w, IF remove = -1 THEN "m_respond" ELSE "r_delete")
        /\ orphans' = IF remove = 0 THEN orphans \ {worker[w].new_box_name} ELSE orphans
    /\ removed' = removed \cup (FS!FreeInodes' \ FS!FreeInodes)
    /\ UNCHANGED <<boxVars, sigpipe, script, budget, reinitialised, overlapped, stale>>

Delete(w) ==
    /\ At(w, "r_delete")
    /\ box_list' = ListWithout(box_list, box_data, worker[w].new_box_name)
    /\ box_data' = BoxesWithout(box_list, box_data, worker[w].new_box_name)
    /\ Goto(w, "m_respond")
    /\ UNCHANGED <<otherVars, fsVars>>

\* Mutation: delete_box is called without box_list_lock.
ManagerDeleteUnlocked(w) == Delete(w)

ManagerDelete(w) == ListUnlocked /\ Delete(w)

\* A response to a manager: a write that fails ends the broker, through exit or,
\* when the handler is not installed, through SIGPIPE.
RespondToManager(w, sent) ==
    /\ \/ /\ worker[w].client = "here"
          /\ worker' = [worker EXCEPT ![w] = sent]
          /\ UNCHANGED process
       \/ /\ worker[w].client = "gone"
          /\ process' = IF sigpipe = "caught" THEN "exited" ELSE "killed"
          /\ UNCHANGED worker
    /\ UNCHANGED <<boxVars, otherVars, tables>>

\* send_box_response and the end of the session.
ManagerRespond(w) ==
    At(w, "m_respond") /\ RespondToManager(w, [worker[w] EXCEPT !.pc = "dequeue"])

------------------------------------------------------------------------------
(* case 7: a manager lists the boxes *)

ListLock(w) ==
    /\ At(w, "list")
    /\ ListUnlocked
    /\ box_list' = [box_list EXCEPT !.box_list_lock = w]
    /\ worker' = [worker EXCEPT ![w].pc = "l_send", ![w].box = box_list.head]
    /\ UNCHANGED <<box_data, otherVars, fsVars>>

\* A response for each box.
ListSend(w) ==
    LET response == [box_name |-> Box(w).box_name, last |-> worker[w].box = box_list.tail]
    IN  /\ At(w, "l_send")
        /\ worker[w].box # NULL
        /\ RespondToManager(w, [worker[w] EXCEPT !.box = Box(w).next,
                                                 !.delivered = Append(@, response)])

ListUnlock(w) ==
    /\ At(w, "l_send")
    /\ worker[w].box = NULL
    /\ box_list' = [box_list EXCEPT !.box_list_lock = Nobody]
    /\ Goto(w, "dequeue")
    /\ UNCHANGED <<box_data, otherVars, fsVars>>

\* What the manager prints: each response was inserted at the beginning of its
\* own list, which is sorted then.
Printed(responses) == merge_sort[Reverse(responses)]

Manager(w) ==
    \/ ManagerCreate(w) \/ ManagerInsert(w)  \/ ManagerRemove(w)
    \/ ManagerDelete(w) \/ ManagerRespond(w)
    \/ ListLock(w)      \/ ListSend(w)       \/ ListUnlock(w)

------------------------------------------------------------------------------
Next ==
    \E w \in Workers :
        \/ \E kind \in Kinds, name \in budget.names : Dequeue(w, kind, name)
        \/ Publisher(w) \/ Subscriber(w) \/ Manager(w)
        \/ ClientLeaves(w) \/ SpuriousWakeup(w)

Spec == Init /\ [][Next]_vars

\* A worker keeps running, except that a publisher may never send anything and
\* that requests may not come.  A mutex is granted in any order: weak fairness.
\* Spurious wakeups come to an end.
Runs(w) == (Publisher(w) /\ ~ At(w, "p_read")) \/ Subscriber(w) \/ Manager(w)

FairSpec ==
    /\ Spec
    /\ \A w \in Workers : WF_vars(Runs(w))
    /\ <>[][\A w \in Workers : ~ SpuriousWakeup(w)]_vars

\* Publishing at the pace of the subscribers: no message is being written while
\* a subscriber of its box is not asleep.
Awake(w) == worker[w].pc \in SubscriberPCs \ {"subscribe", "s_open", "s_check", "s_wait"}

Paced ==
    \A v, w \in Workers :
        worker[v].pc \in {"p_write", "p_announce"} /\ Awake(w) => worker[v].box # worker[w].box

PacedSpec == Init /\ [][Next /\ Paced']_vars
------------------------------------------------------------------------------
(* Properties *)

\* The locals of the workers and the boxes stay well formed, and a worker
\* inside a box_condvar_lock section holds the lock of its box -- unless the box
\* was removed and its lock initialised for another box under it.
TypeOK ==
    /\ \A w \in Workers :
        /\ worker[w].pc \in {"dequeue"} \cup PublisherPCs \cup SubscriberPCs \cup ManagerPCs
        /\ worker[w].new_box_name \in BoxNames \cup {NoName}
        /\ worker[w].handle \in FS!Handles \cup {-1}
        /\ worker[w].box \in Addresses \cup {NULL}
        /\ worker[w].last_size \in Nat
        /\ DOMAIN worker[w].full_box_buffer = 1 .. BLOCK_SIZE
        /\ Held(w) /\ worker[w].box \notin reinitialised => Box(w).box_condvar_lock = w
    /\ ToSet(Chain(box_list, box_data)) \subseteq {a \in Addresses : box_data[a].allocated}
    /\ box_list.box_list_lock \in Workers => worker[box_list.box_list_lock].pc = "l_send"
    /\ \A a \in Addresses :
        /\ box_data[a].box_name \in BoxNames \cup {NoName}
        /\ box_data[a].box_size \in Nat
        /\ box_data[a].n_publishers \in {0, 1}
        /\ box_data[a].box_condvar_lock \in Workers \cup {Nobody}
    /\ sigpipe \in {"default", "caught"} /\ reinitialised \subseteq Addresses
    /\ process \in {"running", "panic", "memory fault", "killed", "exited"}

\* No wakeup is lost: a subscriber asleep on box_condvar has seen all that was
\* announced, although it read box_size without the lock (line 265) -- unless
\* its box was removed and box_size set to 0 for another box under it.
AsleepUpToDate ==
    \A w \in Workers :
        worker[w].pc = "s_wait" /\ worker[w].box \notin reinitialised =>
            Box(w).box_size = worker[w].last_size

\* Line 242 accepts a handle only when it is "> 0", and 0 is a handle too.  No
\* subscriber is turned away by this: the box it found was created by a
\* tfs_open whose handle is still open.
HandleZeroNotRefused ==
    \A w \in Workers :
        worker[w].pc = "s_check" /\ worker[w].box # NULL => worker[w].handle # 0

\* Boxes and files: creations and removals work on TecnicoFS first and on the
\* list later, in any order among the workers.  A file in the directory has a
\* box in the list for it, counting a box still to be inserted (line 311) and
\* not counting one still to be deleted (line 339) -- except a file that was
\* created when there was no handle left for it (operations.c:149).
Doing(label, name) ==
    Cardinality({w \in Workers : worker[w].pc = label /\ worker[w].new_box_name = name})
Listed(name) ==
    Cardinality({a \in ToSet(Chain(box_list, box_data)) : box_data[a].box_name = name})

FilesAreListed ==
    \A name \in BoxNames \ orphans :
        FS!InDir(name) => Listed(name) + Doing("c_insert", name) > Doing("r_delete", name)

\* Line 352: the list does not change during a listing.  What the manager prints
\* when the lock is given up is each box of the list, once, in the order of the
\* names.
ListingIsExact ==
    \A w \in Workers :
        worker[w].pc = "l_send" /\ worker[w].box = NULL =>
            LET printed == Printed(worker[w].delivered)
                boxes == ToSet(Chain(box_list, box_data))
            IN  /\ \A i, j \in DOMAIN printed :
                      i < j => printed[i].box_name <= printed[j].box_name
                /\ \E box \in Bijection(DOMAIN printed, boxes) :
                      \A i \in DOMAIN printed :
                          printed[i].box_name = box_data[box[i]].box_name

\* A publisher that stops writing leaves box_condvar_lock locked for good (lines
\* 200 and 204).  As long as no box has been removed this happens only to a box
\* that is full, whichever publishers, boxes of the same name and files there are:
\* tfs_write always finds a block.
Abandoned(address) ==
    LET owner == box_data[address].box_condvar_lock
    IN  owner \in Workers /\ ~ (Held(owner) /\ worker[owner].box = address)

AbandonedOnlyWhenFull ==
    removed = {} =>
        \A a \in Addresses : Abandoned(a) =>
            i_size[FS!FileNamed(box_data[a].box_name)] = BLOCK_SIZE

\* A publisher writes at the end of its box, where it leaves what others have
\* published, although the position was fixed before it was let in (line 182):
\* only publishers whose sessions overlap write over each other's messages, and
\* those whose file was removed and its inode given out again.
PublishersAppend ==
    \A w \in Workers :
        LET inum == of_inumber[worker[w].handle]
        IN  /\ worker[w].pc = "p_write"
            /\ worker[w].new_box_name \notin overlapped
            /\ inum \notin removed
            => of_offset[worker[w].handle] = i_size[inum]

\* With Paced publishing, a subscriber that sleeps has been sent each message of
\* its box, once and in order, once the last one has been announced.  That takes
\* publishers that do not overlap, one box of that name, room in the box, no empty
\* message (box_size does not change with it), a worker with nothing left in its
\* buffer, and no removals: who publishes in a removed box writes to a block that
\* may be another file's.
FileStrings(fhandle) ==
    Strings(FS!Contents(of_inumber[fhandle])
            \o [i \in 1 .. BLOCK_SIZE + 1 - i_size[of_inumber[fhandle]] |-> NUL])

HasEmptyString(contents) ==
    \E i \in DOMAIN contents : contents[i] = NUL /\ (i = 1 \/ contents[i - 1] = NUL)

Announcing(address) ==
    \E v \in Workers : worker[v].pc = "p_announce" /\ worker[v].box = address

SubscribersUpToDate ==
    \A w \in Workers :
        LET name == worker[w].new_box_name
            contents == FS!Contents(of_inumber[worker[w].handle])
        IN  /\ worker[w].pc = "s_wait" /\ worker[w].client = "here" /\ w \notin stale
            /\ ~ Announcing(worker[w].box)
            /\ removed = {} /\ name \notin overlapped /\ Listed(name) = 1
            /\ Len(contents) < BLOCK_SIZE /\ ~ HasEmptyString(contents)
            => worker[w].delivered = FileStrings(worker[w].handle)

\* A text announced while a subscriber sleeps is followed by a write to its
\* client: the subscriber wakes up, gets the lock, reads and sends.  An empty
\* message wakes it too, but box_size is as before and it goes back to sleep;
\* and it may wait for ever if the publisher finds the box full first and leaves
\* with the lock (line 204), or if the box is removed and its memory given to
\* another.
AnnouncingText(address) ==
    \E v \in Workers :
        worker[v].pc = "p_announce" /\ worker[v].box = address /\ worker[v].message # << >>

AnnouncedIsPushed ==
    \A w \in Workers : \A a \in Addresses :
        worker[w].pc = "s_wait" /\ worker[w].box = a /\ AnnouncingText(a) ~>
            \/ worker[w].pc = "s_push"
            \/ process # "running"
            \/ Abandoned(a)
            \/ ~ box_data[a].allocated \/ a \in reinitialised

\* Line 187 refuses a publisher when the box has one: "ir logo para o close".
AtMostOnePublisher ==
    \A v, w \in Workers :
        /\ worker[v].pc \in {"p_read", "p_lock", "p_write", "p_announce"}
        /\ worker[w].pc \in {"p_read", "p_lock", "p_write", "p_announce"}
        /\ worker[v].box = worker[w].box
        => v = w

\* Line 246: what a subscriber is sent first is what is in its box.
ReplaysOwnBox ==
    \A w \in Workers :
        worker[w].pc = "s_send" /\ worker[w].client = "here" =>
            IsPrefix(worker[w].delivered \o worker[w].replay, FileStrings(worker[w].handle))

\* Line 267: when a message cannot be written to a subscriber, its worker leaves
\* the loop and the broker goes on.
SurvivesDepartures == [][\A w \in Workers : SubscriberPush(w) => process' # "killed"]_vars

\* state.c, line 449: blocks that are read have a valid number.
NoPanic == process # "panic"
==============================================================================
