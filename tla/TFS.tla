-------------------------------- MODULE TFS --------------------------------
(***************************************************************************)
(* TecnicoFS, fs/state.c and fs/operations.c: the file system in memory    *)
(* that holds the broker's boxes.  Every operation takes g_library_mutex   *)
(* first and gives it up last, so each is one action, with the value the   *)
(* function returns as its last parameter.  An operation is the disjunction*)
(* of its outcomes: one for every early return of the C function.          *)
(*                                                                         *)
(* A path is its name component: a name that fits in a directory entry, a  *)
(* name that is too long for one, or a path that valid_pathname rejects.   *)
(* All entries are in the root directory, inode 0, whose block is d_name   *)
(* and d_inumber here; i_node_type never changes and is left out.          *)
(***************************************************************************)
EXTENDS Integers, FiniteSets, Sequences

CONSTANTS INODE_TABLE_SIZE, DATA_BLOCKS, MAX_OPEN_FILES, BLOCK_SIZE,
          MAX_DIR_ENTRIES, \* BLOCK_SIZE / sizeof(dir_entry_t)
          SizeModulus,     \* size_t arithmetic is modulo this
          Names,           \* names of 1 to MAX_FILE_NAME - 1 characters
          LongNames,       \* names that do not fit in a directory entry
          BadPaths,        \* no leading '/', or nothing after it
          NoName,          \* the empty string: a cleared d_name
          Modes,           \* the modes callers pass to tfs_open
          Buffers,         \* what callers write: sequences of bytes
          ReadLengths      \* how much callers ask tfs_read for

Inodes == 0 .. INODE_TABLE_SIZE - 1
Blocks == 0 .. DATA_BLOCKS - 1
Handles == 0 .. MAX_OPEN_FILES - 1
Slots == 0 .. MAX_DIR_ENTRIES - 1
DataSize == DATA_BLOCKS * BLOCK_SIZE
Bytes == 0 .. DataSize - 1         \* the addresses of fs_data
Paths == Names \cup LongNames \cup BadPaths
ROOT_DIR_INUM == 0
RootBlock == 0     \* the first data_block_alloc, from tfs_init
Junk == "junk"     \* a byte nobody wrote

ASSUME SizeAssumption ==
    /\ INODE_TABLE_SIZE \in Nat \ {0}
    /\ DATA_BLOCKS \in Nat \ {0}
    /\ MAX_OPEN_FILES \in Nat
    /\ BLOCK_SIZE \in Nat \ {0}
    /\ MAX_DIR_ENTRIES \in Nat
    /\ SizeModulus \in Nat /\ SizeModulus > DataSize
ASSUME NameAssumption ==
    /\ NoName \notin Names
    /\ Names \cap LongNames = {}
    /\ BadPaths \cap (Names \cup LongNames) = {}
ASSUME ArgumentAssumption ==
    /\ \A buf \in Buffers :
        DOMAIN buf = 1 .. Len(buf) /\ Len(buf) \in 0 .. SizeModulus - DataSize - 1
    /\ ReadLengths \subseteq Nat
    /\ Modes \subseteq SUBSET {"TFS_O_CREAT", "TFS_O_TRUNC", "TFS_O_APPEND"}

VARIABLES freeinode_ts, i_size, i_data_block,
          free_blocks, fs_data,
          d_name, d_inumber,
          free_open_file_entries, of_inumber, of_offset,
          process          \* "running", or why the process is no more

inodeVars == <<freeinode_ts, i_size, i_data_block>>
blockVars == <<free_blocks, fs_data>>
dirVars == <<d_name, d_inumber>>
openVars == <<free_open_file_entries, of_inumber, of_offset>>
vars == <<inodeVars, blockVars, dirVars, openVars, process>>

\* tfs_init: state_init, then the root directory.  The memory comes from
\* malloc: d_name holds anything until an entry is added.  An inode's fields
\* are set when it is created and an open file entry's when it is taken, so
\* what malloc left in those two tables is never read.
Init ==
    /\ freeinode_ts = [i \in Inodes |-> IF i = ROOT_DIR_INUM THEN "TAKEN" ELSE "FREE"]
    /\ i_size = [i \in Inodes |-> IF i = ROOT_DIR_INUM THEN BLOCK_SIZE ELSE 0]
    /\ i_data_block = [i \in Inodes |-> IF i = ROOT_DIR_INUM THEN RootBlock ELSE -1]
    /\ free_blocks = [b \in Blocks |-> IF b = RootBlock THEN "TAKEN" ELSE "FREE"]
    /\ fs_data = [a \in Bytes |-> Junk]
    /\ d_name \in [Slots -> Names \cup {NoName}]
    /\ d_inumber = [s \in Slots |-> -1]
    /\ free_open_file_entries = [h \in Handles |-> "FREE"]
    /\ of_inumber = [h \in Handles |-> -1]
    /\ of_offset = [h \in Handles |-> 0]
    /\ process = "running"

------------------------------------------------------------------------------
(* fs/state.c *)

IsFirst(i, S) == i \in S /\ \A j \in S : i <= j

FreeInodes == {i \in Inodes : freeinode_ts[i] = "FREE"}
FreeBlocks == {b \in Blocks : free_blocks[b] = "FREE"}
FreeSlots == {s \in Slots : d_inumber[s] = -1}
FreeHandles == {h \in Handles : free_open_file_entries[h] = "FREE"}

\* The slot find_in_dir stops at: it looks at the entries in use only.
FoundIn(s, name) == IsFirst(s, {t \in Slots : d_inumber[t] # -1 /\ d_name[t] = name})
InDir(name) == \E s \in Slots : d_inumber[s] # -1 /\ d_name[s] = name

\* clear_dir_entry compares the names of all the entries, used or not.
ClearDirEntry(name) ==
    \E s \in Slots :
        /\ IsFirst(s, {t \in Slots : d_name[t] = name})
        /\ d_inumber' = [d_inumber EXCEPT ![s] = -1]
        /\ d_name' = [d_name EXCEPT ![s] = NoName]

AddDirEntry(name, inumber) ==
    \E s \in Slots :
        /\ IsFirst(s, FreeSlots)
        /\ d_inumber' = [d_inumber EXCEPT ![s] = inumber]
        /\ d_name' = [d_name EXCEPT ![s] = name]

\* Mutation: a recycled inode keeps the size it had.
ResetInodeKeepsSize(inumber) ==
    /\ i_data_block' = [i_data_block EXCEPT ![inumber] = -1]
    /\ UNCHANGED i_size

\* What inode_create(T_FILE) writes in the inode.
ResetInode(inumber) ==
    /\ i_size' = [i_size EXCEPT ![inumber] = 0]
    /\ i_data_block' = [i_data_block EXCEPT ![inumber] = -1]

\* Mutation: data_block_free is forgotten.
FreeBlockForgotten(inumber) == UNCHANGED free_blocks

\* data_block_free of the block of a file that is not empty.
FreeBlockOf(inumber) ==
    free_blocks' = IF i_size[inumber] > 0
                   THEN [free_blocks EXCEPT ![i_data_block[inumber]] = "FREE"]
                   ELSE free_blocks

AddToOpenFileTable(inumber, offset, ret) ==
    \/ /\ IsFirst(ret, FreeHandles)
       /\ free_open_file_entries' = [free_open_file_entries EXCEPT ![ret] = "TAKEN"]
       /\ of_inumber' = [of_inumber EXCEPT ![ret] = inumber]
       /\ of_offset' = [of_offset EXCEPT ![ret] = offset]
    \/ /\ FreeHandles = {}
       /\ ret = -1
       /\ UNCHANGED openVars

\* get_open_file_entry returns an entry, not NULL.
Opened(fhandle) ==
    fhandle \in Handles /\ free_open_file_entries[fhandle] = "TAKEN"

------------------------------------------------------------------------------
(* tfs_open(name, mode) *)

OpenExisting(name, mode, ret) ==
    \E s \in Slots :
        LET inum == d_inumber[s]
            size == IF "TFS_O_TRUNC" \in mode THEN 0 ELSE i_size[inum]
        IN  /\ FoundIn(s, name)
            /\ IF "TFS_O_TRUNC" \in mode
                 THEN /\ FreeBlockOf(inum)
                      /\ i_size' = [i_size EXCEPT ![inum] = 0]
                 ELSE UNCHANGED <<free_blocks, i_size>>
            /\ AddToOpenFileTable(inum, IF "TFS_O_APPEND" \in mode THEN size ELSE 0, ret)
            /\ UNCHANGED <<freeinode_ts, i_data_block, fs_data, dirVars, process>>

\* The file stays when the open file table turns out to be full.
OpenCreate(name, mode, ret) ==
    /\ name \in Names /\ ~ InDir(name) /\ "TFS_O_CREAT" \in mode
    /\ \E inum \in Inodes :
        /\ IsFirst(inum, FreeInodes)
        /\ freeinode_ts' = [freeinode_ts EXCEPT ![inum] = "TAKEN"]
        /\ ResetInode(inum)
        /\ AddDirEntry(name, inum)
        /\ AddToOpenFileTable(inum, 0, ret)
    /\ UNCHANGED <<blockVars, process>>

\* Mutation: add_dir_entry fails and the inode stays.
OpenNoEntryKeepsInode(name, mode, ret) ==
    /\ name \in Names \cup LongNames /\ ~ InDir(name) /\ "TFS_O_CREAT" \in mode
    /\ name \in LongNames \/ FreeSlots = {}
    /\ \E inum \in Inodes :
        /\ IsFirst(inum, FreeInodes)
        /\ freeinode_ts' = [freeinode_ts EXCEPT ![inum] = "TAKEN"]
        /\ ResetInode(inum)
    /\ ret = -1
    /\ UNCHANGED <<blockVars, dirVars, openVars, process>>

\* add_dir_entry fails: the inode is deleted again, but has been reset.
OpenNoEntry(name, mode, ret) ==
    /\ name \in Names \cup LongNames /\ ~ InDir(name) /\ "TFS_O_CREAT" \in mode
    /\ name \in LongNames \/ FreeSlots = {}
    /\ \E inum \in Inodes : IsFirst(inum, FreeInodes) /\ ResetInode(inum)
    /\ ret = -1
    /\ UNCHANGED <<freeinode_ts, blockVars, dirVars, openVars, process>>

\* A bad path, a file that is not there, no free inode for it.
OpenFails(name, mode, ret) ==
    /\ \/ name \in BadPaths
       \/ ~ InDir(name) /\ ("TFS_O_CREAT" \notin mode \/ FreeInodes = {})
    /\ ret = -1
    /\ UNCHANGED vars

Open(name, mode, ret) ==
    /\ process = "running"
    /\ \/ OpenExisting(name, mode, ret) \/ OpenCreate(name, mode, ret)
       \/ OpenNoEntry(name, mode, ret)  \/ OpenFails(name, mode, ret)

------------------------------------------------------------------------------
(* tfs_close(fhandle) *)

Close(fhandle, ret) ==
    /\ process = "running"
    /\ \/ /\ Opened(fhandle)
          /\ free_open_file_entries' = [free_open_file_entries EXCEPT ![fhandle] = "FREE"]
          /\ ret = 0
          /\ UNCHANGED <<of_inumber, of_offset>>
       \/ /\ ~ Opened(fhandle)
          /\ ret = -1
          /\ UNCHANGED openVars
    /\ UNCHANGED <<inodeVars, blockVars, dirVars, process>>

------------------------------------------------------------------------------
(* tfs_write(fhandle, buffer, to_write) and tfs_read(fhandle, buffer, len) *)

\* A failed ALWAYS_ASSERT, or an access outside fs_data or the buffer.
Abort(why) ==
    /\ process' = why
    /\ UNCHANGED <<inodeVars, blockVars, dirVars, openVars>>

Address(block, offset) == block * BLOCK_SIZE + offset
BytesAt(block, offset, n) == Address(block, offset) .. Address(block, offset) + n - 1

\* memcpy of the first n bytes of buf into the file of an open handle.
CopyIn(fhandle, block, buf, n) ==
    LET inum == of_inumber[fhandle]
        offset == of_offset[fhandle]
        written == BytesAt(block, offset, n)
    IN  /\ fs_data' = [a \in Bytes |->
                         IF a \in written THEN buf[a - Address(block, offset) + 1]
                                          ELSE fs_data[a]]
        /\ of_offset' = [of_offset EXCEPT ![fhandle] = offset + n]
        /\ i_size' = [i_size EXCEPT ![inum] = IF offset + n > @ THEN offset + n ELSE @]

\* Mutation: the length is not cut at the end of the block.
ToWriteUncut(fhandle, buf) == Len(buf)

\* How much of buf there is room for, in size_t arithmetic.
ToWrite(fhandle, buf) ==
    IF Len(buf) + of_offset[fhandle] > BLOCK_SIZE
    THEN (BLOCK_SIZE - of_offset[fhandle]) % SizeModulus
    ELSE Len(buf)

WriteOpened(fhandle, buf, ret) ==
    LET inum == of_inumber[fhandle]
        to_write == ToWrite(fhandle, buf)
    IN  \/ /\ to_write = 0
           /\ ret = 0
           /\ UNCHANGED vars
        \/ /\ to_write > 0
           /\ i_size[inum] = 0
           /\ FreeBlocks = {}
           /\ ret = -1
           /\ UNCHANGED vars
        \/ /\ to_write > Len(buf)        \* the subtraction wrapped around
           /\ ~ (i_size[inum] = 0 /\ FreeBlocks = {})
           /\ ret = -1
           /\ Abort("memory fault")
        \/ /\ to_write \in 1 .. Len(buf)
           /\ \/ /\ i_size[inum] = 0
                 /\ \E b \in Blocks :
                     /\ IsFirst(b, FreeBlocks)
                     /\ free_blocks' = [free_blocks EXCEPT ![b] = "TAKEN"]
                     /\ i_data_block' = [i_data_block EXCEPT ![inum] = b]
                     /\ CopyIn(fhandle, b, buf, to_write)
              \/ /\ i_size[inum] > 0
                 /\ CopyIn(fhandle, i_data_block[inum], buf, to_write)
                 /\ UNCHANGED <<free_blocks, i_data_block>>
           /\ ret = to_write
           /\ UNCHANGED <<freeinode_ts, dirVars, free_open_file_entries, of_inumber, process>>

Write(fhandle, buf, ret) ==
    /\ process = "running"
    /\ \/ Opened(fhandle) /\ WriteOpened(fhandle, buf, ret)
       \/ ~ Opened(fhandle) /\ ret = -1 /\ UNCHANGED vars

\* Mutation: the length is not cut at the end of the file.
ToReadUncut(fhandle, len) == len

\* Bytes left for this handle: size_t arithmetic, huge once the file is shorter
\* than the offset.
ToRead(fhandle, len) ==
    LET rest == (i_size[of_inumber[fhandle]] - of_offset[fhandle]) % SizeModulus
    IN  IF rest > len THEN len ELSE rest

\* What tfs_read copies to the caller's buffer.
ReadData(fhandle, len) ==
    [i \in 1 .. ToRead(fhandle, len) |->
        fs_data[Address(i_data_block[of_inumber[fhandle]], of_offset[fhandle]) + i - 1]]

ReadOpened(fhandle, len, ret) ==
    LET to_read == ToRead(fhandle, len)
        block == i_data_block[of_inumber[fhandle]]
        offset == of_offset[fhandle]
    IN  \/ /\ to_read = 0
           /\ UNCHANGED vars
           /\ ret = 0
        \/ /\ to_read > 0
           /\ block \notin Blocks        \* data_block_get's assertion
           /\ ret = -1
           /\ Abort("panic")
        \/ /\ to_read > 0
           /\ block \in Blocks
           /\ ~ BytesAt(block, offset, to_read) \subseteq Bytes
           /\ ret = -1
           /\ Abort("memory fault")
        \/ /\ to_read > 0
           /\ block \in Blocks
           /\ BytesAt(block, offset, to_read) \subseteq Bytes
           /\ of_offset' = [of_offset EXCEPT ![fhandle] = @ + to_read]
           /\ ret = to_read
           /\ UNCHANGED <<inodeVars, blockVars, dirVars, free_open_file_entries,
                          of_inumber, process>>

Read(fhandle, len, ret) ==
    /\ process = "running"
    /\ \/ Opened(fhandle) /\ ReadOpened(fhandle, len, ret)
       \/ ~ Opened(fhandle) /\ ret = -1 /\ UNCHANGED vars

------------------------------------------------------------------------------
(* tfs_unlink(target): inode_delete, whatever handles are open, and then    *)
(* clear_dir_entry.  What inode_delete and data_block_free assert (the      *)
(* inode is TAKEN, the block number is valid) follows from DirectoryExact   *)
(* and FilesOwnBlocks below.                                                *)

UnlinkExisting(target, ret) ==
    \E s \in Slots :
        LET inum == d_inumber[s]
        IN  /\ FoundIn(s, target)
            /\ freeinode_ts' = [freeinode_ts EXCEPT ![inum] = "FREE"]
            /\ FreeBlockOf(inum)
            /\ ClearDirEntry(target)
            /\ ret = 0
            /\ UNCHANGED <<i_size, i_data_block, fs_data, openVars, process>>

Unlink(target, ret) ==
    /\ process = "running"
    /\ \/ UnlinkExisting(target, ret)
       \/ /\ target \in BadPaths \/ ~ InDir(target)
          /\ ret = -1
          /\ UNCHANGED vars

------------------------------------------------------------------------------
(* Any caller, with any handle it ever got or -1 *)

Next ==
    \/ \E name \in Paths :
        \/ \E mode \in Modes, ret \in Handles \cup {-1} : Open(name, mode, ret)
        \/ \E ret \in {0, -1} : Unlink(name, ret)
    \/ \E h \in Handles \cup {-1} :
        \/ \E ret \in {0, -1} : Close(h, ret)
        \/ \E buf \in Buffers : \E ret \in -1 .. Len(buf) : Write(h, buf, ret)
        \/ \E len \in ReadLengths : \E ret \in -1 .. len : Read(h, len, ret)

Spec == Init /\ [][Next]_vars

(***************************************************************************)
(* A careful caller does not unlink or truncate a file while a handle of   *)
(* it is open.  The broker is not careful: it never closes a handle.       *)
(***************************************************************************)
IsOpen(inum) == \E h \in Handles : Opened(h) /\ of_inumber[h] = inum

Careful ==
    \A i \in Inodes : IsOpen(i) =>
        freeinode_ts'[i] = "TAKEN" /\ i_size'[i] >= i_size[i]

CarefulSpec == Init /\ [][Next /\ Careful]_vars

------------------------------------------------------------------------------
(* Properties *)

\* The tables stay well formed: no file grows past its block and no offset
\* past fs_data, in spite of the wrapping subtractions of tfs_write and
\* tfs_read.
TypeOK ==
    /\ freeinode_ts \in [Inodes -> {"FREE", "TAKEN"}]
    /\ i_size \in [Inodes -> 0 .. BLOCK_SIZE]
    /\ i_data_block \in [Inodes -> Blocks \cup {-1}]
    /\ free_blocks \in [Blocks -> {"FREE", "TAKEN"}]
    /\ DOMAIN fs_data = Bytes
    /\ d_name \in [Slots -> Names \cup {NoName}]
    /\ d_inumber \in [Slots -> Inodes \cup {-1}]
    /\ free_open_file_entries \in [Handles -> {"FREE", "TAKEN"}]
    /\ of_inumber \in [Handles -> Inodes \cup {-1}]
    /\ of_offset \in [Handles -> 0 .. DataSize]
    /\ process \in {"running", "panic", "memory fault"}

UsedSlots == Slots \ FreeSlots
Live(inum) == freeinode_ts[inum] = "TAKEN" /\ inum # ROOT_DIR_INUM

\* The directory and the inode table agree: each entry names an inode of its
\* own under a name of its own, and each inode in use has an entry.  The
\* rollback of tfs_open, the order of tfs_unlink and clear_dir_entry's
\* comparison with names in unused entries all have to be right for it.
DirectoryExact ==
    /\ \A s, t \in UsedSlots :
            d_inumber[s] = d_inumber[t] \/ d_name[s] = d_name[t] => s = t
    /\ \A s \in UsedSlots : Live(d_inumber[s]) /\ d_name[s] \in Names
    /\ \A i \in Inodes : Live(i) => \E s \in UsedSlots : d_inumber[s] = i

\* Each file that is not empty owns a block: allocated, not the directory's,
\* and not another file's, whatever handles left over from deleted files did.
FilesOwnBlocks ==
    /\ free_blocks[RootBlock] = "TAKEN"
    /\ freeinode_ts[ROOT_DIR_INUM] = "TAKEN"
    /\ \A i \in Inodes : Live(i) /\ i_size[i] > 0 =>
            /\ i_data_block[i] \in Blocks \ {RootBlock}
            /\ free_blocks[i_data_block[i]] = "TAKEN"
    /\ \A i, j \in Inodes :
            /\ Live(i) /\ Live(j) /\ i_size[i] > 0 /\ i_size[j] > 0
            /\ i_data_block[i] = i_data_block[j]
            => i = j

\* What tfs_write and tfs_read assert of an open handle, lines 202 and 261:
\* its inode has not been deleted.
OpenInodesExist ==
    \A h \in Handles : Opened(h) => freeinode_ts[of_inumber[h]] = "TAKEN"

\* No block is lost: those in use are the directory's and the files'.
NoBlockLeak ==
    \A b \in Blocks : free_blocks[b] = "TAKEN" =>
        \/ b = RootBlock
        \/ \E i \in Inodes : Live(i) /\ i_size[i] > 0 /\ i_data_block[i] = b

\* For a careful caller this is the store that operations.h describes: a file
\* keeps its contents whatever happens to the others, and a handle reads and
\* writes the file it was opened for.
Contents(inum) ==
    [k \in 1 .. i_size[inum] |-> fs_data[Address(i_data_block[inum], k - 1)]]

FileNamed(name) == d_inumber[CHOOSE s \in UsedSlots : d_name[s] = name]
NameOf(inum) == d_name[CHOOSE s \in UsedSlots : d_inumber[s] = inum]

Closed == [name |-> NoName, offset |-> 0]

Store == INSTANCE FileStore WITH
    Bytes <- UNION {{buf[k] : k \in DOMAIN buf} : buf \in Buffers},
    MaxLength <- BLOCK_SIZE,
    Closed <- Closed,
    files <- [name \in {d_name[s] : s \in UsedSlots} |-> Contents(FileNamed(name))],
    handles <- [h \in Handles |->
                  IF Opened(h) THEN [name |-> NameOf(of_inumber[h]), offset |-> of_offset[h]]
                               ELSE Closed]

ImplementsFileStore == Store!Spec
==============================================================================
