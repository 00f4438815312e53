----------------------------- MODULE TFSProofs -----------------------------
(***************************************************************************)
(* TecnicoFS keeps its tables consistent for every size of the tables,     *)
(* every caller and every sequence of calls, handles of deleted files      *)
(* included.  The inductive invariant adds to the three properties of TFS  *)
(* what tfs_unlink and tfs_write rely on:                                  *)
(*   - an unused directory entry never hides an entry in use of the same   *)
(*     name behind it, although nobody initialised its name (FirstMatch);  *)
(*   - an inode, deleted or not, never points at the directory's block     *)
(*     (BlockNumbers);                                                     *)
(*   - an open handle, stale or not, has the number of an inode that was   *)
(*     some file's, never the root's (HandleInodes).                       *)
(***************************************************************************)
EXTENDS TFS, TLAPS

FirstMatch ==
    \A s \in FreeSlots, t \in UsedSlots : s < t => d_name[s] # d_name[t]

BlockNumbers ==
    \A i \in Inodes \ {ROOT_DIR_INUM} :
        /\ i_data_block[i] # RootBlock
        /\ i_size[i] > 0 => i_data_block[i] \in Blocks

HandleInodes ==
    \A h \in Handles : Opened(h) => of_inumber[h] \in Inodes \ {ROOT_DIR_INUM}

IInv ==
    /\ TypeOK
    /\ DirectoryExact
    /\ FilesOwnBlocks
    /\ FirstMatch
    /\ BlockNumbers
    /\ HandleInodes

\* The parts of the type invariant, by the table they are about.
InodeType ==
    /\ freeinode_ts \in [Inodes -> {"FREE", "TAKEN"}]
    /\ i_size \in [Inodes -> 0 .. BLOCK_SIZE]
    /\ i_data_block \in [Inodes -> Blocks \cup {-1}]
BlockType ==
    /\ free_blocks \in [Blocks -> {"FREE", "TAKEN"}]
    /\ DOMAIN fs_data = Bytes
DirType ==
    /\ d_name \in [Slots -> Names \cup {NoName}]
    /\ d_inumber \in [Slots -> Inodes \cup {-1}]
OpenType ==
    /\ free_open_file_entries \in [Handles -> {"FREE", "TAKEN"}]
    /\ of_inumber \in [Handles -> Inodes \cup {-1}]
    /\ of_offset \in [Handles -> 0 .. DataSize]

------------------------------------------------------------------------------
(* Arithmetic *)

LEMMA BlockSizeNat == BLOCK_SIZE \in Nat \ {0}
BY SizeAssumption

LEMMA RootExists == ROOT_DIR_INUM \in Inodes /\ RootBlock \in Blocks
BY SizeAssumption DEF Inodes, Blocks, ROOT_DIR_INUM, RootBlock

\* The size of fs_data is at least the size of one block.
LEMMA SizeOfData ==
    /\ DataSize \in Nat
    /\ BLOCK_SIZE <= DataSize
<1>1. BLOCK_SIZE \in Nat /\ DATA_BLOCKS \in Nat /\ DATA_BLOCKS >= 1
    BY SizeAssumption
<1>2. \A m, n \in Nat : n >= 1 => n * m \in Nat /\ m <= n * m
    BY Z3
<1> QED
    BY <1>1, <1>2 DEF DataSize

\* What tfs_write is left with when it clips a write to the end of the block:
\* the rest of the block, or, past its end, more than any buffer holds.
LEMMA ClippedWrite ==
    ASSUME NEW offset \in 0 .. DataSize
    PROVE  LET rest == (BLOCK_SIZE - offset) % SizeModulus
           IN  IF offset <= BLOCK_SIZE
               THEN rest = BLOCK_SIZE - offset
               ELSE rest > SizeModulus - DataSize - 1
<1>1. /\ DataSize \in Nat /\ BLOCK_SIZE \in Nat /\ SizeModulus \in Nat
      /\ BLOCK_SIZE <= DataSize /\ DataSize < SizeModulus
    BY SizeOfData, SizeAssumption
<1>2. \A m \in Nat, d \in Int : 0 <= d /\ d < m => d % m = d
    BY Z3
<1>3. \A m \in Nat, d \in Int : -m <= d /\ d < 0 /\ m > 0 => d % m = d + m
    BY Z3
<1>4. CASE offset <= BLOCK_SIZE
    BY <1>1, <1>2, <1>4
<1>5. CASE offset > BLOCK_SIZE
    <2>1. (BLOCK_SIZE - offset) % SizeModulus = BLOCK_SIZE - offset + SizeModulus
        BY <1>1, <1>3, <1>5
    <2> QED
        BY <1>1, <1>5, <2>1
<1> QED
    BY <1>1, <1>4, <1>5

\* A copy inside fs_data ends inside it.
LEMMA CopyEnds ==
    ASSUME NEW block \in Blocks, NEW offset \in Nat, NEW n \in Nat \ {0},
           BytesAt(block, offset, n) \subseteq Bytes
    PROVE  offset + n <= DataSize
<1> DEFINE start == block * BLOCK_SIZE
<1>1. start \in Nat
    <2>1. \A m, k \in Nat : m * k \in Nat
        BY Z3
    <2> QED
        BY <2>1, BlockSizeNat DEF Blocks
<1>2. start + offset + n - 1 \in 0 .. DataSize - 1
    BY <1>1 DEF BytesAt, Address, Bytes
<1> HIDE DEF start
<1> QED
    BY <1>1, <1>2, SizeOfData

------------------------------------------------------------------------------
(* The operations of the tables *)

\* tfs_init leaves a state that satisfies the invariant.
LEMMA InitIInv == Init => IInv
<1> SUFFICES ASSUME Init PROVE IInv
    OBVIOUS
<1> USE SizeAssumption DEF Init
<1>1. InodeType /\ BlockType /\ DirType
    BY DEF InodeType, BlockType, DirType, Inodes, Blocks, Slots, RootBlock, ROOT_DIR_INUM
<1>2. OpenType
    BY SizeOfData DEF OpenType
<1>3. TypeOK
    BY <1>1, <1>2 DEF TypeOK, InodeType, BlockType, DirType, OpenType
<1>4. UsedSlots = {} /\ \A i \in Inodes : ~ Live(i)
    BY DEF UsedSlots, FreeSlots, Live
<1>5. DirectoryExact /\ FirstMatch
    BY <1>4 DEF DirectoryExact, FirstMatch
<1>6. FilesOwnBlocks
    BY <1>4 DEF FilesOwnBlocks, Blocks, Inodes, RootBlock, ROOT_DIR_INUM
<1>7. BlockNumbers /\ HandleInodes
    BY DEF BlockNumbers, HandleInodes, Opened, RootBlock, ROOT_DIR_INUM
<1> QED
    BY <1>3, <1>5, <1>6, <1>7 DEF IInv

\* The type invariant is that of its four tables and of the process.
LEMMA TypeParts ==
    TypeOK <=> /\ InodeType /\ BlockType /\ DirType /\ OpenType
               /\ process \in {"running", "panic", "memory fault"}
BY DEF TypeOK, InodeType, BlockType, DirType, OpenType

\* find_in_dir returns a live file's inode.
LEMMA FoundLive ==
    ASSUME IInv, NEW s \in Slots, NEW name, FoundIn(s, name)
    PROVE  /\ s \in UsedSlots
           /\ d_name[s] = name
           /\ d_inumber[s] \in Inodes \ {ROOT_DIR_INUM}
           /\ Live(d_inumber[s])
<1>1. s \in UsedSlots /\ d_name[s] = name
    BY DEF FoundIn, IsFirst, UsedSlots, FreeSlots
<1>2. Live(d_inumber[s])
    BY <1>1 DEF IInv, DirectoryExact
<1>3. d_inumber[s] \in Inodes
    BY <1>1 DEF IInv, TypeOK, UsedSlots, FreeSlots
<1> QED
    BY <1>1, <1>2, <1>3 DEF Live

\* add_to_open_file_table keeps the open file table well formed.
LEMMA OpenTableStep ==
    ASSUME OpenType, HandleInodes,
           NEW inum \in Inodes \ {ROOT_DIR_INUM},
           NEW offset \in 0 .. BLOCK_SIZE, NEW ret,
           AddToOpenFileTable(inum, offset, ret)
    PROVE  OpenType' /\ HandleInodes'
<1>1. offset \in 0 .. DataSize
    BY SizeOfData, SizeAssumption
<1>2. CASE UNCHANGED openVars
    BY <1>2 DEF openVars, OpenType, HandleInodes, Opened
<1>3. CASE /\ ret \in Handles
           /\ free_open_file_entries' = [free_open_file_entries EXCEPT ![ret] = "TAKEN"]
           /\ of_inumber' = [of_inumber EXCEPT ![ret] = inum]
           /\ of_offset' = [of_offset EXCEPT ![ret] = offset]
    <2>1. OpenType'
        BY <1>1, <1>3 DEF OpenType
    <2>2. HandleInodes'
        BY <1>3 DEF OpenType, HandleInodes, Opened
    <2> QED
        BY <2>1, <2>2
<1> QED
    BY <1>2, <1>3 DEF AddToOpenFileTable, IsFirst, FreeHandles

\* What the directory properties look at.
LEMMA DirectoryKept ==
    ASSUME DirectoryExact, FirstMatch, UNCHANGED <<freeinode_ts, dirVars>>
    PROVE  DirectoryExact' /\ FirstMatch'
BY DEF DirectoryExact, FirstMatch, dirVars, UsedSlots, FreeSlots, Live

\* Giving up the block of a live file, because the file is truncated or
\* deleted, takes no other file's block away.
LEMMA BlockFreed ==
    ASSUME InodeType, BlockType, FilesOwnBlocks, BlockNumbers,
           NEW inum \in Inodes, Live(inum),
           FreeBlockOf(inum), UNCHANGED <<i_data_block, fs_data>>,
           \/ i_size' = [i_size EXCEPT ![inum] = 0] /\ UNCHANGED freeinode_ts
           \/ freeinode_ts' = [freeinode_ts EXCEPT ![inum] = "FREE"] /\ UNCHANGED i_size
    PROVE  InodeType' /\ BlockType' /\ FilesOwnBlocks' /\ BlockNumbers'
<1> USE DEF Live, ROOT_DIR_INUM, RootBlock
<1>1. InodeType'
    BY BlockSizeNat DEF InodeType
<1>2. i_size[inum] > 0 => i_data_block[inum] \in Blocks \ {RootBlock}
    BY DEF BlockNumbers
<1>3. BlockType'
    BY <1>2 DEF InodeType, BlockType, FreeBlockOf
<1>4. \A i \in Inodes : Live(i)' /\ i_size'[i] > 0 => Live(i) /\ i_size[i] > 0 /\ i # inum
    BY DEF InodeType, BlockType
<1>5. BlockNumbers'
    BY DEF BlockNumbers, InodeType, BlockType
<1>6. free_blocks'[RootBlock] = "TAKEN" /\ freeinode_ts'[ROOT_DIR_INUM] = "TAKEN"
    BY <1>2, RootExists DEF FilesOwnBlocks, FreeBlockOf, InodeType, BlockType
<1>7. \A i \in Inodes : Live(i)' /\ i_size'[i] > 0 =>
            i_data_block'[i] \in Blocks \ {RootBlock} /\ free_blocks'[i_data_block'[i]] = "TAKEN"
    <2> SUFFICES ASSUME NEW i \in Inodes, Live(i)', i_size'[i] > 0
                 PROVE  /\ i_data_block[i] \in Blocks \ {RootBlock}
                        /\ free_blocks'[i_data_block[i]] = "TAKEN"
        OBVIOUS
    <2>1. Live(i) /\ i_size[i] > 0 /\ i # inum
        BY <1>4
    <2>2. i_size[inum] > 0 => i_data_block[i] # i_data_block[inum]
        BY <2>1 DEF FilesOwnBlocks
    <2>3. i_data_block[i] \in Blocks \ {RootBlock} /\ free_blocks[i_data_block[i]] = "TAKEN"
        BY <2>1 DEF FilesOwnBlocks
    <2> QED
        BY <2>2, <2>3 DEF FreeBlockOf, InodeType, BlockType
<1>8. \A i, j \in Inodes :
            /\ Live(i)' /\ Live(j)' /\ i_size'[i] > 0 /\ i_size'[j] > 0
            /\ i_data_block'[i] = i_data_block'[j]
            => i = j
    BY <1>4 DEF FilesOwnBlocks
<1> QED
    BY <1>1, <1>3, <1>5, <1>6, <1>7, <1>8 DEF FilesOwnBlocks

\* Resetting an inode that was free, and maybe taking it, takes no block.
LEMMA InodeReset ==
    ASSUME InodeType, BlockType, FilesOwnBlocks, BlockNumbers,
           NEW inum \in FreeInodes, ResetInode(inum), UNCHANGED blockVars,
           freeinode_ts' \in {freeinode_ts, [freeinode_ts EXCEPT ![inum] = "TAKEN"]}
    PROVE  InodeType' /\ BlockType' /\ FilesOwnBlocks' /\ BlockNumbers'
<1> USE DEF ResetInode, Live, ROOT_DIR_INUM, RootBlock, FreeInodes, blockVars
<1>1. inum # ROOT_DIR_INUM
    BY DEF FilesOwnBlocks
<1>2. InodeType'
    BY BlockSizeNat DEF InodeType
<1>3. BlockType'
    BY DEF InodeType, BlockType
<1>4. \A i \in Inodes : Live(i)' /\ i_size'[i] > 0 =>
            Live(i) /\ i_size[i] > 0 /\ i_data_block'[i] = i_data_block[i]
    BY DEF InodeType, BlockType
<1>5. BlockNumbers'
    BY <1>1 DEF BlockNumbers, InodeType, BlockType
<1>6. free_blocks'[RootBlock] = "TAKEN" /\ freeinode_ts'[ROOT_DIR_INUM] = "TAKEN"
    BY <1>1, RootExists DEF FilesOwnBlocks, InodeType, BlockType
<1>7. FilesOwnBlocks'
    BY <1>4, <1>6 DEF FilesOwnBlocks
<1> QED
    BY <1>2, <1>3, <1>5, <1>7

------------------------------------------------------------------------------
(* tfs_open *)

LEMMA OpenExistingStep ==
    ASSUME IInv, NEW name, NEW mode, NEW ret, process = "running",
           OpenExisting(name, mode, ret)
    PROVE  IInv'
<1> DEFINE size(inum) == IF "TFS_O_TRUNC" \in mode THEN 0 ELSE i_size[inum]
<1>1. PICK s \in Slots :
        /\ FoundIn(s, name)
        /\ IF "TFS_O_TRUNC" \in mode
             THEN /\ FreeBlockOf(d_inumber[s])
                  /\ i_size' = [i_size EXCEPT ![d_inumber[s]] = 0]
             ELSE UNCHANGED <<free_blocks, i_size>>
        /\ AddToOpenFileTable(d_inumber[s],
                IF "TFS_O_APPEND" \in mode THEN size(d_inumber[s]) ELSE 0, ret)
        /\ UNCHANGED <<freeinode_ts, i_data_block, fs_data, dirVars, process>>
    BY DEF OpenExisting
<1> DEFINE inum == d_inumber[s]
           offset == IF "TFS_O_APPEND" \in mode THEN size(inum) ELSE 0
<1>2. inum \in Inodes \ {ROOT_DIR_INUM} /\ Live(inum)
    BY <1>1, FoundLive
<1>3. InodeType /\ BlockType /\ DirType /\ OpenType
    BY TypeParts DEF IInv
<1>4. offset \in 0 .. BLOCK_SIZE
    BY <1>2, <1>3, SizeAssumption DEF InodeType
<1>5. OpenType' /\ HandleInodes'
    BY <1>1, <1>2, <1>3, <1>4, OpenTableStep DEF IInv
<1>6. InodeType' /\ BlockType' /\ FilesOwnBlocks' /\ BlockNumbers'
    <2>1. CASE "TFS_O_TRUNC" \in mode
        BY <1>1, <1>2, <2>1, <1>3, BlockFreed DEF IInv
    <2>2. CASE "TFS_O_TRUNC" \notin mode
        BY <1>1, <1>3, <2>2 DEF IInv, InodeType, BlockType, FilesOwnBlocks, BlockNumbers, Live
    <2> QED
        BY <2>1, <2>2
<1>7. DirectoryExact' /\ FirstMatch'
    BY <1>1, DirectoryKept DEF IInv
<1>8. DirType' /\ process' \in {"running", "panic", "memory fault"}
    BY <1>1, <1>3 DEF DirType, dirVars
<1>9. TypeOK'
    BY <1>5, <1>6, <1>8 DEF TypeOK, InodeType, BlockType, DirType, OpenType
<1> QED
    BY <1>5, <1>6, <1>7, <1>9 DEF IInv

LEMMA OpenCreateStep ==
    ASSUME IInv, NEW name, NEW mode, NEW ret, process = "running",
           OpenCreate(name, mode, ret)
    PROVE  IInv'
<1>1. PICK inum \in Inodes :
        /\ IsFirst(inum, FreeInodes)
        /\ freeinode_ts' = [freeinode_ts EXCEPT ![inum] = "TAKEN"]
        /\ ResetInode(inum)
        /\ AddDirEntry(name, inum)
        /\ AddToOpenFileTable(inum, 0, ret)
    BY DEF OpenCreate
<1>2. PICK s \in Slots :
        /\ IsFirst(s, FreeSlots)
        /\ d_inumber' = [d_inumber EXCEPT ![s] = inum]
        /\ d_name' = [d_name EXCEPT ![s] = name]
    BY <1>1 DEF AddDirEntry
<1>3. name \in Names /\ ~ InDir(name) /\ UNCHANGED <<blockVars, process>>
    BY DEF OpenCreate
<1>4. inum \in FreeInodes /\ inum # ROOT_DIR_INUM
    BY <1>1 DEF IInv, FilesOwnBlocks, IsFirst, FreeInodes
<1>5. InodeType /\ BlockType /\ DirType /\ OpenType
    BY TypeParts DEF IInv
<1>6. InodeType' /\ BlockType' /\ FilesOwnBlocks' /\ BlockNumbers'
    BY <1>1, <1>3, <1>4, <1>5, InodeReset DEF IInv
<1>7. OpenType' /\ HandleInodes'
    BY <1>1, <1>4, <1>5, OpenTableStep, SizeAssumption DEF IInv
<1>8. DirType' /\ process' \in {"running", "panic", "memory fault"}
    BY <1>2, <1>3, <1>5 DEF DirType
<1>9. s \in FreeSlots /\ UsedSlots' = UsedSlots \cup {s} /\ inum # -1
    BY <1>2, <1>5 DEF UsedSlots, FreeSlots, IsFirst, DirType, Inodes
<1>10. \A t \in UsedSlots : t # s /\ d_inumber'[t] = d_inumber[t] /\ d_name'[t] = d_name[t]
    BY <1>2, <1>5, <1>9 DEF UsedSlots, DirType
<1>11. d_inumber'[s] = inum /\ d_name'[s] = name
    BY <1>2, <1>5 DEF DirType
<1>12. \A t \in UsedSlots : d_name[t] # name /\ d_inumber[t] # inum
    <2>1. \A t \in UsedSlots : d_name[t] # name
        BY <1>3 DEF InDir, UsedSlots, FreeSlots
    <2>2. \A t \in UsedSlots : Live(d_inumber[t])
        BY DEF IInv, DirectoryExact
    <2> QED
        BY <1>4, <2>1, <2>2 DEF Live, FreeInodes
<1>13. \A i \in Inodes : Live(i)' <=> Live(i) \/ i = inum
    BY <1>1, <1>4, <1>5 DEF Live, InodeType
<1>14. DirectoryExact'
    <2>1. \A t, u \in UsedSlots' :
            d_inumber'[t] = d_inumber'[u] \/ d_name'[t] = d_name'[u] => t = u
        BY <1>9, <1>10, <1>11, <1>12 DEF IInv, DirectoryExact
    <2>2. \A t \in UsedSlots' : Live(d_inumber[t])' /\ d_name'[t] \in Names
        <3>1. \A t \in UsedSlots : Live(d_inumber[t]) /\ d_inumber[t] \in Inodes /\ d_name[t] \in Names
            BY <1>5 DEF IInv, DirectoryExact, UsedSlots, FreeSlots, DirType
        <3>2. \A t \in UsedSlots : Live(d_inumber[t])' /\ d_name'[t] \in Names
            BY <1>10, <1>13, <3>1 DEF Live
        <3>3. Live(d_inumber[s])' /\ d_name'[s] \in Names
            BY <1>3, <1>11, <1>13 DEF Live
        <3> QED
            BY <1>9, <3>2, <3>3
    <2>3. \A i \in Inodes : Live(i)' => \E t \in UsedSlots' : d_inumber'[t] = i
        <3> SUFFICES ASSUME NEW i \in Inodes, Live(i)'
                     PROVE  \E t \in UsedSlots' : d_inumber'[t] = i
            OBVIOUS
        <3>1. CASE i = inum
            BY <1>9, <1>11, <3>1
        <3>2. CASE Live(i)
            BY <1>9, <1>10, <3>2 DEF IInv, DirectoryExact
        <3> QED
            BY <1>13, <3>1, <3>2
    <2> QED
        BY <2>1, <2>2, <2>3 DEF DirectoryExact
<1>15. FirstMatch'
    <2>1. FreeSlots' = FreeSlots \ {s}
        BY <1>9 DEF UsedSlots, FreeSlots, Slots
    <2>2. \A t \in FreeSlots : s <= t
        BY <1>2 DEF IsFirst
    <2>3. \A t \in FreeSlots' : d_name'[t] = d_name[t] /\ t \in Slots /\ t \in FreeSlots /\ ~ (t < s)
        BY <1>2, <1>5, <2>1, <2>2 DEF DirType, FreeSlots, Slots
    <2> QED
        BY <1>9, <1>10, <2>3 DEF IInv, FirstMatch
<1>16. TypeOK'
    BY <1>6, <1>7, <1>8 DEF TypeOK, InodeType, BlockType, DirType, OpenType
<1> QED
    BY <1>6, <1>7, <1>14, <1>15, <1>16 DEF IInv

LEMMA OpenNoEntryStep ==
    ASSUME IInv, NEW name, NEW mode, NEW ret, process = "running",
           OpenNoEntry(name, mode, ret)
    PROVE  IInv'
<1>1. PICK inum \in Inodes : IsFirst(inum, FreeInodes) /\ ResetInode(inum)
    BY DEF OpenNoEntry
<1>2. UNCHANGED <<freeinode_ts, blockVars, dirVars, openVars, process>>
    BY DEF OpenNoEntry
<1>3. InodeType' /\ BlockType' /\ FilesOwnBlocks' /\ BlockNumbers'
    BY <1>1, <1>2, TypeParts, InodeReset DEF IInv, IsFirst
<1>4. DirectoryExact' /\ FirstMatch'
    BY <1>2, DirectoryKept DEF IInv
<1>5. HandleInodes'
    BY <1>2 DEF IInv, HandleInodes, Opened, openVars
<1>6. TypeOK'
    BY <1>2, <1>3 DEF IInv, TypeOK, InodeType, BlockType, dirVars, openVars
<1> QED
    BY <1>3, <1>4, <1>5, <1>6 DEF IInv

------------------------------------------------------------------------------
(* tfs_close, tfs_read, tfs_unlink, tfs_write *)

\* A step that touches the open file table and the process only.
LEMMA OpenVarsStep ==
    ASSUME IInv, OpenType', HandleInodes',
           process' \in {"running", "panic", "memory fault"},
           UNCHANGED <<inodeVars, blockVars, dirVars>>
    PROVE  IInv'
<1>1. DirectoryExact' /\ FirstMatch'
    BY DirectoryKept DEF IInv, inodeVars
<1>2. FilesOwnBlocks' /\ BlockNumbers'
    BY DEF IInv, FilesOwnBlocks, BlockNumbers, Live, inodeVars, blockVars
<1>3. TypeOK'
    BY DEF IInv, TypeOK, OpenType, inodeVars, blockVars, dirVars
<1> QED
    BY <1>1, <1>2, <1>3 DEF IInv

LEMMA StutterStep == IInv /\ UNCHANGED vars => IInv'
<1> SUFFICES ASSUME IInv, UNCHANGED vars PROVE IInv'
    OBVIOUS
<1>1. OpenType' /\ HandleInodes' /\ process' \in {"running", "panic", "memory fault"}
    BY TypeParts DEF IInv, OpenType, HandleInodes, Opened, vars, openVars
<1> QED
    BY <1>1, OpenVarsStep DEF vars

LEMMA AbortStep ==
    ASSUME IInv, NEW why \in {"panic", "memory fault"}, Abort(why)
    PROVE  IInv'
<1>1. OpenType' /\ HandleInodes'
    BY TypeParts DEF IInv, OpenType, HandleInodes, Opened, Abort, openVars
<1> QED
    BY <1>1, OpenVarsStep DEF Abort

LEMMA CloseStep ==
    ASSUME IInv, NEW h, NEW ret, Close(h, ret)
    PROVE  IInv'
<1>1. OpenType /\ HandleInodes /\ process \in {"running", "panic", "memory fault"}
    BY TypeParts DEF IInv
<1>2. UNCHANGED <<inodeVars, blockVars, dirVars, process>>
    BY DEF Close
<1>3. OpenType' /\ HandleInodes'
    <2>1. CASE UNCHANGED openVars
        BY <1>1, <2>1 DEF OpenType, HandleInodes, Opened, openVars
    <2>2. CASE /\ free_open_file_entries' = [free_open_file_entries EXCEPT ![h] = "FREE"]
               /\ UNCHANGED <<of_inumber, of_offset>>
        BY <1>1, <2>2 DEF OpenType, HandleInodes, Opened
    <2> QED
        BY <2>1, <2>2 DEF Close
<1> QED
    BY <1>1, <1>2, <1>3, OpenVarsStep

LEMMA ReadStep ==
    ASSUME IInv, NEW h, NEW len \in Nat, NEW ret, Read(h, len, ret)
    PROVE  IInv'
<1> DEFINE to_read == ToRead(h, len)
           block == i_data_block[of_inumber[h]]
<1>1. CASE UNCHANGED vars
    BY <1>1, StutterStep
<1>2. CASE Abort("panic") \/ Abort("memory fault")
    BY <1>2, AbortStep
<1>3. CASE /\ Opened(h)
           /\ to_read > 0
           /\ block \in Blocks
           /\ BytesAt(block, of_offset[h], to_read) \subseteq Bytes
           /\ of_offset' = [of_offset EXCEPT ![h] = @ + to_read]
           /\ UNCHANGED <<inodeVars, blockVars, dirVars, free_open_file_entries,
                          of_inumber, process>>
    <2>1. OpenType /\ InodeType /\ HandleInodes /\ process \in {"running", "panic", "memory fault"}
        BY TypeParts DEF IInv
    <2>2. h \in Handles /\ of_offset[h] \in Nat /\ of_inumber[h] \in Inodes
        <3>1. h \in Handles
            BY <1>3 DEF Opened
        <3>2. of_offset[h] \in 0 .. DataSize
            BY <2>1, <3>1 DEF OpenType
        <3>3. of_inumber[h] \in Inodes
            BY <1>3, <2>1, <3>1 DEF HandleInodes
        <3> QED
            BY <3>1, <3>2, <3>3, SizeOfData
    <2>3. to_read \in Nat \ {0}
        <3>1. i_size[of_inumber[h]] \in Nat
            <4>1. i_size[of_inumber[h]] \in 0 .. BLOCK_SIZE
                BY <2>1, <2>2 DEF InodeType
            <4> QED
                BY <4>1, BlockSizeNat
        <3>2. \A m \in Nat \ {0}, d \in Int : d % m \in Nat
            BY Z3
        <3>3. SizeModulus \in Nat \ {0}
            BY SizeAssumption, SizeOfData
        <3>4. (i_size[of_inumber[h]] - of_offset[h]) % SizeModulus \in Nat
            BY <2>2, <3>1, <3>2, <3>3
        <3> QED
            BY <1>3, <3>4 DEF ToRead
    <2> HIDE DEF to_read, block
    <2>4. of_offset[h] + to_read <= DataSize
        BY <1>3, <2>2, <2>3, CopyEnds
    <2>5. OpenType'
        <3>1. of_offset[h] + to_read \in 0 .. DataSize
            BY <2>2, <2>3, <2>4, SizeOfData
        <3> QED
            BY <1>3, <2>1, <3>1 DEF OpenType
    <2>6. HandleInodes'
        BY <1>3, <2>1 DEF HandleInodes, Opened
    <2> QED
        BY <1>3, <2>1, <2>5, <2>6, OpenVarsStep
<1> QED
    BY <1>1, <1>2, <1>3 DEF Read, ReadOpened

\* clear_dir_entry clears the entry that find_in_dir found, although it
\* compares the names of entries that are not in use as well.
LEMMA ClearsTheFound ==
    ASSUME IInv, NEW name, NEW s \in Slots, FoundIn(s, name),
           NEW t \in Slots, IsFirst(t, {u \in Slots : d_name[u] = name})
    PROVE  s = t
<1>1. s \in UsedSlots /\ d_name[s] = name /\ d_name[t] = name
    BY DEF FoundIn, IsFirst, UsedSlots, FreeSlots
<1>2. t <= s
    BY <1>1 DEF IsFirst
<1>3. CASE t \in UsedSlots
    BY <1>1, <1>3 DEF IInv, DirectoryExact
<1>4. CASE t \in FreeSlots
    <2>1. ~ (t < s)
        BY <1>1, <1>4 DEF IInv, FirstMatch
    <2> QED
        BY <1>2, <2>1 DEF Slots
<1> QED
    BY <1>3, <1>4 DEF UsedSlots

LEMMA UnlinkExistingStep ==
    ASSUME IInv, NEW name, NEW ret, UnlinkExisting(name, ret)
    PROVE  IInv'
<1>1. PICK s \in Slots :
        /\ FoundIn(s, name)
        /\ freeinode_ts' = [freeinode_ts EXCEPT ![d_inumber[s]] = "FREE"]
        /\ FreeBlockOf(d_inumber[s])
        /\ ClearDirEntry(name)
        /\ UNCHANGED <<i_size, i_data_block, fs_data, openVars, process>>
    BY DEF UnlinkExisting
<1>2. d_inumber' = [d_inumber EXCEPT ![s] = -1] /\ d_name' = [d_name EXCEPT ![s] = NoName]
    <2>1. PICK t \in Slots :
            /\ IsFirst(t, {u \in Slots : d_name[u] = name})
            /\ d_inumber' = [d_inumber EXCEPT ![t] = -1]
            /\ d_name' = [d_name EXCEPT ![t] = NoName]
        BY <1>1 DEF ClearDirEntry
    <2>2. s = t
        BY <1>1, <2>1, ClearsTheFound
    <2> QED
        BY <2>1, <2>2
<1> DEFINE inum == d_inumber[s]
<1>3. inum \in Inodes \ {ROOT_DIR_INUM} /\ Live(inum) /\ s \in UsedSlots
    BY <1>1, FoundLive
<1>4. InodeType /\ BlockType /\ DirType /\ OpenType /\ process \in {"running", "panic", "memory fault"}
    BY TypeParts DEF IInv
<1>5. InodeType' /\ BlockType' /\ FilesOwnBlocks' /\ BlockNumbers'
    BY <1>1, <1>3, <1>4, BlockFreed DEF IInv
<1>6. DirType'
    BY <1>2, <1>4 DEF DirType
<1>7. UsedSlots' = UsedSlots \ {s}
    BY <1>2, <1>4 DEF UsedSlots, FreeSlots, DirType
<1>8. \A t \in UsedSlots' : d_inumber'[t] = d_inumber[t] /\ d_name'[t] = d_name[t]
    BY <1>2, <1>4, <1>7 DEF DirType, UsedSlots
<1>9. \A i \in Inodes : Live(i)' <=> Live(i) /\ i # inum
    BY <1>1, <1>3, <1>4 DEF Live, InodeType
<1>10. \A t \in UsedSlots' : d_inumber[t] # inum /\ d_inumber[t] \in Inodes
    <2>1. \A t \in UsedSlots : d_inumber[t] \in Inodes
        BY <1>4 DEF UsedSlots, FreeSlots, DirType
    <2>2. \A t \in UsedSlots : d_inumber[t] = inum => t = s
        BY <1>3 DEF IInv, DirectoryExact
    <2> QED
        BY <1>7, <2>1, <2>2
<1>11. DirectoryExact'
    <2>1. \A t, u \in UsedSlots' :
            d_inumber'[t] = d_inumber'[u] \/ d_name'[t] = d_name'[u] => t = u
        BY <1>7, <1>8 DEF IInv, DirectoryExact
    <2>2. \A t \in UsedSlots' : Live(d_inumber[t])' /\ d_name'[t] \in Names
        <3>1. \A t \in UsedSlots : Live(d_inumber[t]) /\ d_name[t] \in Names
            BY DEF IInv, DirectoryExact
        <3> QED
            BY <1>7, <1>8, <1>9, <1>10, <3>1 DEF Live
    <2>3. \A i \in Inodes : Live(i)' => \E t \in UsedSlots' : d_inumber'[t] = i
        BY <1>7, <1>8, <1>9 DEF IInv, DirectoryExact
    <2> QED
        BY <2>1, <2>2, <2>3 DEF DirectoryExact
<1>12. FirstMatch'
    <2>1. \A t \in FreeSlots' : t = s \/ (t \in FreeSlots /\ d_name'[t] = d_name[t])
        <3>1. FreeSlots' = FreeSlots \cup {s}
            BY <1>2, <1>4 DEF FreeSlots, DirType
        <3>2. \A t \in Slots \ {s} : d_name'[t] = d_name[t]
            BY <1>2, <1>4 DEF DirType
        <3>3. FreeSlots \subseteq Slots
            BY DEF FreeSlots
        <3> QED
            BY <3>1, <3>2, <3>3
    <2>2. d_name'[s] = NoName
        BY <1>2, <1>4 DEF DirType
    <2>3. \A t \in UsedSlots' : d_name'[t] \in Names /\ d_name'[t] = d_name[t] /\ t \in UsedSlots
        BY <1>7, <1>8, <1>11 DEF DirectoryExact
    <2> QED
        BY <2>1, <2>2, <2>3, NameAssumption DEF IInv, FirstMatch
<1>13. OpenType' /\ HandleInodes' /\ process' \in {"running", "panic", "memory fault"}
    BY <1>1, <1>4 DEF IInv, OpenType, HandleInodes, Opened, openVars
<1>14. TypeOK'
    BY <1>5, <1>6, <1>13 DEF TypeOK, InodeType, BlockType, DirType, OpenType
<1> QED
    BY <1>5, <1>11, <1>12, <1>13, <1>14 DEF IInv

\* The copy of tfs_write stays in the file's block, and the file and the offset
\* grow together.
LEMMA CopyInStep ==
    ASSUME InodeType, OpenType, HandleInodes,
           NEW h \in Handles, Opened(h),
           NEW buf, NEW block, NEW n \in Nat,
           of_offset[h] + n <= BLOCK_SIZE,
           CopyIn(h, block, buf, n),
           UNCHANGED <<free_open_file_entries, of_inumber>>
    PROVE  /\ i_size' \in [Inodes -> 0 .. BLOCK_SIZE]
           /\ \A i \in Inodes : i # of_inumber[h] => i_size'[i] = i_size[i]
           /\ i_size[of_inumber[h]] > 0 => i_size'[of_inumber[h]] > 0
           /\ DOMAIN fs_data' = Bytes
           /\ OpenType'
           /\ HandleInodes'
<1> DEFINE inum == of_inumber[h]
           end == of_offset[h] + n
           size == IF end > i_size[inum] THEN end ELSE i_size[inum]
<1>1. inum \in Inodes
    BY DEF HandleInodes
<1>2. of_offset[h] \in 0 .. DataSize
    BY DEF OpenType
<1>3. end \in 0 .. BLOCK_SIZE /\ end \in 0 .. DataSize
    BY <1>2, BlockSizeNat, SizeOfData
<1>4. i_size[inum] \in 0 .. BLOCK_SIZE
    BY <1>1 DEF InodeType
<1>5. /\ i_size' = [i_size EXCEPT ![inum] = size]
      /\ of_offset' = [of_offset EXCEPT ![h] = end]
      /\ DOMAIN fs_data' = Bytes
    BY DEF CopyIn
<1> HIDE DEF end
<1>6. size \in 0 .. BLOCK_SIZE /\ (i_size[inum] > 0 => size > 0)
    BY <1>3, <1>4, BlockSizeNat
<1> HIDE DEF size
<1>7. /\ i_size' \in [Inodes -> 0 .. BLOCK_SIZE]
      /\ \A i \in Inodes : i # inum => i_size'[i] = i_size[i]
      /\ i_size[inum] > 0 => i_size'[inum] > 0
    BY <1>1, <1>5, <1>6 DEF InodeType
<1>8. OpenType'
    BY <1>3, <1>5 DEF OpenType
<1>9. HandleInodes'
    BY DEF HandleInodes, Opened
<1> QED
    BY <1>5, <1>7, <1>8, <1>9

LEMMA WriteStep ==
    ASSUME IInv, NEW h, NEW buf \in Buffers, NEW ret, Write(h, buf, ret)
    PROVE  IInv'
<1> DEFINE inum == of_inumber[h]
           offset == of_offset[h]
           to_write == IF Len(buf) + offset > BLOCK_SIZE
                       THEN (BLOCK_SIZE - offset) % SizeModulus
                       ELSE Len(buf)
<1>1. CASE UNCHANGED vars
    BY <1>1, StutterStep
<1>2. CASE Abort("memory fault")
    BY <1>2, AbortStep
<1>3. ASSUME Opened(h),
             to_write \in 1 .. Len(buf),
             \/ /\ i_size[inum] = 0
                /\ \E b \in Blocks :
                    /\ IsFirst(b, FreeBlocks)
                    /\ free_blocks' = [free_blocks EXCEPT ![b] = "TAKEN"]
                    /\ i_data_block' = [i_data_block EXCEPT ![inum] = b]
                    /\ CopyIn(h, b, buf, to_write)
             \/ /\ i_size[inum] > 0
                /\ CopyIn(h, i_data_block[inum], buf, to_write)
                /\ UNCHANGED <<free_blocks, i_data_block>>,
             UNCHANGED <<freeinode_ts, dirVars, free_open_file_entries, of_inumber, process>>
      PROVE  IInv'
    <2>1. InodeType /\ BlockType /\ DirType /\ OpenType /\ process \in {"running", "panic", "memory fault"}
        BY TypeParts DEF IInv
    <2>2. h \in Handles /\ inum \in Inodes \ {ROOT_DIR_INUM}
        BY <1>3 DEF IInv, HandleInodes, Opened
    <2>3. offset \in 0 .. DataSize
        BY <2>1, <2>2 DEF OpenType
    <2>4. Len(buf) \in 0 .. SizeModulus - DataSize - 1
        BY ArgumentAssumption
    <2>5. to_write \in Nat /\ offset + to_write <= BLOCK_SIZE
        <3>1. /\ DataSize \in Nat /\ BLOCK_SIZE \in Nat /\ SizeModulus \in Nat
              /\ BLOCK_SIZE <= DataSize /\ DataSize < SizeModulus
            BY SizeOfData, SizeAssumption
        <3>2. CASE Len(buf) + offset <= BLOCK_SIZE
            BY <2>3, <2>4, <3>1, <3>2
        <3>3. CASE Len(buf) + offset > BLOCK_SIZE
            <4>1. to_write = (BLOCK_SIZE - offset) % SizeModulus
                BY <3>3
            <4>2. CASE offset <= BLOCK_SIZE
                <5>1. to_write = BLOCK_SIZE - offset
                    BY <2>3, <4>1, <4>2, ClippedWrite
                <5> HIDE DEF to_write
                <5> QED
                    BY <2>3, <3>1, <4>2, <5>1
            <4>3. CASE offset > BLOCK_SIZE
                <5>1. to_write > SizeModulus - DataSize - 1
                    BY <2>3, <3>1, <4>1, <4>3, ClippedWrite
                <5>2. to_write \in 1 .. Len(buf)
                    BY <1>3
                <5> HIDE DEF to_write
                <5> QED
                    BY <2>4, <3>1, <5>1, <5>2
            <4> QED
                BY <2>3, <3>1, <4>2, <4>3
        <3> QED
            BY <2>3, <2>4, <3>1, <3>2, <3>3
    <2> HIDE DEF to_write
    <2>6. PICK block : CopyIn(h, block, buf, to_write)
        BY <1>3
    <2>7. /\ i_size' \in [Inodes -> 0 .. BLOCK_SIZE]
          /\ \A i \in Inodes : i # inum => i_size'[i] = i_size[i]
          /\ i_size[inum] > 0 => i_size'[inum] > 0
          /\ DOMAIN fs_data' = Bytes
          /\ OpenType'
          /\ HandleInodes'
        BY <1>3, <2>1, <2>2, <2>5, <2>6, CopyInStep DEF IInv
    <2>8. InodeType' /\ BlockType' /\ FilesOwnBlocks' /\ BlockNumbers'
        <3> USE RootExists DEF ROOT_DIR_INUM, RootBlock
        <3>1. CASE /\ i_size[inum] > 0
                   /\ UNCHANGED <<free_blocks, i_data_block>>
            <4>1. \A i \in Inodes : i_size'[i] > 0 => i_size[i] > 0
                BY <2>2, <2>7, <3>1
            <4>2. InodeType' /\ BlockType'
                BY <1>3, <2>1, <2>7, <3>1 DEF InodeType, BlockType
            <4>3. BlockNumbers'
                BY <3>1, <4>1 DEF IInv, BlockNumbers
            <4>4. FilesOwnBlocks'
                BY <1>3, <3>1, <4>1 DEF IInv, FilesOwnBlocks, Live
            <4> QED
                BY <4>2, <4>3, <4>4
        <3>2. ASSUME i_size[inum] = 0,
                     NEW b \in FreeBlocks,
                     free_blocks' = [free_blocks EXCEPT ![b] = "TAKEN"],
                     i_data_block' = [i_data_block EXCEPT ![inum] = b]
              PROVE  InodeType' /\ BlockType' /\ FilesOwnBlocks' /\ BlockNumbers'
            <4>1. b \in Blocks \ {RootBlock} /\ free_blocks[b] = "FREE"
                BY DEF FreeBlocks, IInv, FilesOwnBlocks
            <4>2. InodeType' /\ BlockType'
                BY <1>3, <2>1, <2>2, <2>7, <3>2, <4>1 DEF InodeType, BlockType
            <4>3. /\ i_data_block'[inum] = b
                  /\ \A i \in Inodes \ {inum} : i_data_block'[i] = i_data_block[i] /\ i_size'[i] = i_size[i]
                BY <2>1, <2>2, <2>7, <3>2 DEF InodeType
            <4>4. BlockNumbers'
                BY <4>1, <4>3 DEF IInv, BlockNumbers
            <4>5. /\ free_blocks'[b] = "TAKEN"
                  /\ \A c \in Blocks : free_blocks[c] = "TAKEN" => free_blocks'[c] = "TAKEN" /\ c # b
                BY <2>1, <3>2, <4>1 DEF BlockType
            <4>6. \A i \in Inodes : Live(i)' <=> Live(i)
                BY <1>3 DEF Live
            <4>7. \A i \in Inodes : Live(i)' /\ i_size'[i] > 0 =>
                    /\ i_data_block'[i] \in Blocks \ {RootBlock}
                    /\ free_blocks'[i_data_block'[i]] = "TAKEN"
                    /\ i # inum => i_data_block'[i] # b
                BY <4>1, <4>3, <4>5, <4>6 DEF IInv, FilesOwnBlocks
            <4>8. \A i, j \in Inodes :
                    /\ Live(i)' /\ Live(j)' /\ i_size'[i] > 0 /\ i_size'[j] > 0
                    /\ i_data_block'[i] = i_data_block'[j]
                    => i = j
                BY <4>3, <4>6, <4>7 DEF IInv, FilesOwnBlocks
            <4>9. free_blocks'[RootBlock] = "TAKEN" /\ freeinode_ts'[ROOT_DIR_INUM] = "TAKEN"
                BY <1>3, <4>5 DEF IInv, FilesOwnBlocks
            <4> QED
                BY <4>2, <4>4, <4>7, <4>8, <4>9 DEF FilesOwnBlocks
        <3> QED
            BY <1>3, <3>1, <3>2 DEF IsFirst
    <2>9. DirectoryExact' /\ FirstMatch'
        BY <1>3, DirectoryKept DEF IInv
    <2>10. TypeOK'
        BY <1>3, <2>1, <2>7, <2>8 DEF TypeOK, InodeType, BlockType, DirType, OpenType, dirVars
    <2> QED
        BY <2>7, <2>8, <2>9, <2>10 DEF IInv
<1> QED
    BY <1>1, <1>2, <1>3 DEF Write, WriteOpened, ToWrite

------------------------------------------------------------------------------
(* The theorems *)

LEMMA IInvStep == IInv /\ [Next]_vars => IInv'
<1> SUFFICES ASSUME IInv, [Next]_vars PROVE IInv'
    OBVIOUS
<1>1. CASE UNCHANGED vars
    BY <1>1, StutterStep
<1>2. ASSUME NEW name \in Paths, NEW mode \in Modes, NEW ret, Open(name, mode, ret)
      PROVE  IInv'
    <2>1. CASE OpenFails(name, mode, ret)
        BY <2>1, StutterStep DEF OpenFails
    <2> QED
        BY <1>2, <2>1, OpenExistingStep, OpenCreateStep, OpenNoEntryStep DEF Open
<1>3. ASSUME NEW name \in Paths, NEW ret, Unlink(name, ret)
      PROVE  IInv'
    BY <1>3, UnlinkExistingStep, StutterStep DEF Unlink
<1>4. ASSUME NEW h, NEW ret, Close(h, ret)
      PROVE  IInv'
    BY <1>4, CloseStep
<1>5. ASSUME NEW h, NEW buf \in Buffers, NEW ret, Write(h, buf, ret)
      PROVE  IInv'
    BY <1>5, WriteStep
<1>6. ASSUME NEW h, NEW len \in ReadLengths, NEW ret, Read(h, len, ret)
      PROVE  IInv'
    BY <1>6, ReadStep, ArgumentAssumption
<1> QED
    BY <1>1, <1>2, <1>3, <1>4, <1>5, <1>6 DEF Next

\* The strengthened invariant holds of every behaviour.
THEOREM IInvCorrect == Spec => []IInv
<1> QED
    BY InitIInv, IInvStep, PTL DEF Spec

\* The tables stay well formed: every size, block number and offset in its
\* range, through all the size_t arithmetic of tfs_read and tfs_write.
THEOREM TypeCorrect == Spec => []TypeOK
<1>1. IInv => TypeOK
    BY DEF IInv
<1> QED
    BY <1>1, IInvCorrect, PTL

\* The root directory and the inode table agree after any sequence of calls:
\* no file without an entry, no entry without a file, no name twice.
THEOREM DirectoryCorrect == Spec => []DirectoryExact
<1>1. IInv => DirectoryExact
    BY DEF IInv
<1> QED
    BY <1>1, IInvCorrect, PTL

\* No two files share a block, no file has a free block or the directory's.
THEOREM BlocksCorrect == Spec => []FilesOwnBlocks
<1>1. IInv => FilesOwnBlocks
    BY DEF IInv
<1> QED
    BY <1>1, IInvCorrect, PTL

------------------------------------------------------------------------------
(* What callers see of an operation: the files by name, the sizes of files  *)
(* and the open handles.                                                    *)

FileIs(name, inum) == \E s \in UsedSlots : d_name[s] = name /\ d_inumber[s] = inum

\* A name is in the directory when a file has it.
LEMMA NamesAreFiles ==
    ASSUME NEW name
    PROVE  InDir(name) <=> \E inum : FileIs(name, inum)
BY DEF InDir, FileIs, UsedSlots, FreeSlots

\* A file has one inode, which is in use, and one name.
LEMMA FilesAreExact ==
    ASSUME DirectoryExact
    PROVE  /\ \A m, n, i, j : FileIs(m, i) /\ FileIs(n, j) => (m = n <=> i = j)
           /\ \A n, i : FileIs(n, i) => Live(i) /\ n \in Names /\ i \notin FreeInodes
           /\ \A n, i : FileIs(n, i) => FileNamed(n) = i
<1>1. \A m, n, i, j : FileIs(m, i) /\ FileIs(n, j) => (m = n <=> i = j)
    BY DEF DirectoryExact, FileIs
<1>2. \A n, i : FileIs(n, i) => Live(i) /\ n \in Names /\ i \notin FreeInodes
    BY DEF DirectoryExact, FileIs, Live, FreeInodes
<1>3. ASSUME NEW n, NEW i, FileIs(n, i) PROVE FileNamed(n) = i
    <2>1. PICK s \in UsedSlots : d_name[s] = n /\ d_inumber[s] = i
        BY <1>3 DEF FileIs
    <2>2. (CHOOSE t \in UsedSlots : d_name[t] = n) = s
        BY <2>1 DEF DirectoryExact
    <2> QED
        BY <2>1, <2>2 DEF FileNamed
<1> QED
    BY <1>1, <1>2, <1>3

\* The open file table after add_to_open_file_table.
LEMMA OpenTableEffects ==
    ASSUME OpenType, NEW inum, NEW offset, NEW ret, AddToOpenFileTable(inum, offset, ret)
    PROVE  \/ ret = -1 /\ FreeHandles = {} /\ UNCHANGED openVars
           \/ /\ ret \in FreeHandles /\ \A h \in FreeHandles : ret <= h
              /\ FreeHandles' = FreeHandles \ {ret}
              /\ of_inumber'[ret] = inum /\ of_offset'[ret] = offset
              /\ \A h \in Handles \ {ret} :
                    of_inumber'[h] = of_inumber[h] /\ of_offset'[h] = of_offset[h]
<1>1. CASE ret = -1 /\ FreeHandles = {} /\ UNCHANGED openVars
    BY <1>1
<1>2. CASE /\ IsFirst(ret, FreeHandles)
           /\ free_open_file_entries' = [free_open_file_entries EXCEPT ![ret] = "TAKEN"]
           /\ of_inumber' = [of_inumber EXCEPT ![ret] = inum]
           /\ of_offset' = [of_offset EXCEPT ![ret] = offset]
    <2>1. ret \in FreeHandles /\ ret \in Handles /\ \A h \in FreeHandles : ret <= h
        BY <1>2 DEF IsFirst, FreeHandles
    <2>2. FreeHandles' = FreeHandles \ {ret}
        BY <1>2, <2>1 DEF OpenType, FreeHandles
    <2>3. /\ of_inumber'[ret] = inum /\ of_offset'[ret] = offset
          /\ \A h \in Handles \ {ret} :
                of_inumber'[h] = of_inumber[h] /\ of_offset'[h] = of_offset[h]
        BY <1>2, <2>1 DEF OpenType
    <2> QED
        BY <2>1, <2>2, <2>3
<1> QED
    BY <1>1, <1>2 DEF AddToOpenFileTable

\* tfs_open without TFS_O_TRUNC adds a file of that name or leaves the files
\* as they are, and changes no other handle and no file's size.
FilesStay ==
    /\ FreeInodes' \subseteq FreeInodes
    /\ \A n, i : FileIs(n, i) => FileIs(n, i)'
    /\ \A i \in Inodes \ FreeInodes : i_size'[i] = i_size[i]

HandleTaken(name, mode, ret) ==
    /\ ret \in FreeHandles /\ \A h \in FreeHandles : ret <= h
    /\ FreeHandles' = FreeHandles \ {ret}
    /\ FileIs(name, of_inumber[ret])'
    /\ of_offset'[ret] = IF "TFS_O_APPEND" \in mode THEN i_size'[of_inumber'[ret]] ELSE 0
    /\ \A h \in Handles \ {ret} :
          of_inumber'[h] = of_inumber[h] /\ of_offset'[h] = of_offset[h]

LEMMA OpenEffects ==
    ASSUME IInv, NEW name, NEW mode, NEW ret, "TFS_O_TRUNC" \notin mode, Open(name, mode, ret)
    PROVE  /\ process' = "running"
           /\ FilesStay
           /\ \A n : InDir(n)' => InDir(n) \/ (n = name /\ "TFS_O_CREAT" \in mode)
           /\ \/ /\ ret = -1 /\ UNCHANGED openVars
                 /\ InDir(name)' => FreeHandles = {}
              \/ HandleTaken(name, mode, ret)
<1> DEFINE Goal == /\ process' = "running"
                   /\ FilesStay
                   /\ \A n : InDir(n)' => InDir(n) \/ (n = name /\ "TFS_O_CREAT" \in mode)
                   /\ \/ /\ ret = -1 /\ UNCHANGED openVars
                         /\ InDir(name)' => FreeHandles = {}
                      \/ HandleTaken(name, mode, ret)
<1>1. InodeType /\ BlockType /\ DirType /\ OpenType /\ DirectoryExact
    BY TypeParts DEF IInv
<1>2. ASSUME OpenExisting(name, mode, ret) PROVE Goal
    <2>1. PICK s \in Slots :
            /\ FoundIn(s, name)
            /\ AddToOpenFileTable(d_inumber[s],
                    IF "TFS_O_APPEND" \in mode THEN i_size[d_inumber[s]] ELSE 0, ret)
            /\ UNCHANGED <<i_size, freeinode_ts, dirVars, process>>
        BY <1>2 DEF OpenExisting
    <2>2. process' = "running"
        BY <2>1 DEF Open
    <2>3. UNCHANGED <<UsedSlots, FreeInodes, d_name, d_inumber, i_size>>
        BY <2>1 DEF UsedSlots, FreeSlots, FreeInodes, dirVars
    <2>4. FilesStay
        BY <2>3 DEF FilesStay, FileIs
    <2>5. \A n : InDir(n)' => InDir(n)
        BY <2>3 DEF InDir
    <2>6. s \in UsedSlots /\ d_name[s] = name
        BY <2>1, FoundLive
    <2>7. FileIs(name, d_inumber[s])'
        BY <2>3, <2>6 DEF FileIs
    <2> DEFINE inum == d_inumber[s]
               offset == IF "TFS_O_APPEND" \in mode THEN i_size[inum] ELSE 0
    <2>8. \/ ret = -1 /\ FreeHandles = {} /\ UNCHANGED openVars
          \/ /\ ret \in FreeHandles /\ \A h \in FreeHandles : ret <= h
             /\ FreeHandles' = FreeHandles \ {ret}
             /\ of_inumber'[ret] = inum /\ of_offset'[ret] = offset
             /\ \A h \in Handles \ {ret} :
                   of_inumber'[h] = of_inumber[h] /\ of_offset'[h] = of_offset[h]
        BY <1>1, <2>1, OpenTableEffects
    <2>9. (ret = -1 /\ FreeHandles = {} /\ UNCHANGED openVars) \/ HandleTaken(name, mode, ret)
        BY <2>3, <2>7, <2>8 DEF HandleTaken, FileIs
    <2> QED
        BY <2>2, <2>4, <2>5, <2>9
<1>3. ASSUME OpenCreate(name, mode, ret) PROVE Goal
    <2>1. PICK inum \in Inodes :
            /\ IsFirst(inum, FreeInodes)
            /\ freeinode_ts' = [freeinode_ts EXCEPT ![inum] = "TAKEN"]
            /\ ResetInode(inum)
            /\ AddDirEntry(name, inum)
            /\ AddToOpenFileTable(inum, 0, ret)
        BY <1>3 DEF OpenCreate
    <2>2. PICK s \in Slots :
            /\ IsFirst(s, FreeSlots)
            /\ d_inumber' = [d_inumber EXCEPT ![s] = inum]
            /\ d_name' = [d_name EXCEPT ![s] = name]
        BY <2>1 DEF AddDirEntry
    <2>3. inum \in FreeInodes /\ s \in FreeSlots /\ "TFS_O_CREAT" \in mode /\ process' = "running"
        BY <1>3, <2>1, <2>2 DEF IsFirst, OpenCreate, Open
    <2>4. UsedSlots' = UsedSlots \cup {s} /\ inum # -1
        BY <2>2, <2>3, <1>1 DEF UsedSlots, FreeSlots, DirType, Inodes
    <2>5. \A t \in UsedSlots : t # s /\ d_inumber'[t] = d_inumber[t] /\ d_name'[t] = d_name[t]
        BY <2>2, <2>3, <1>1 DEF UsedSlots, DirType
    <2>6. d_inumber'[s] = inum /\ d_name'[s] = name
        BY <2>2, <1>1 DEF DirType
    <2>7. FilesStay
        <3>1. FreeInodes' \subseteq FreeInodes
            BY <1>1, <2>1 DEF FreeInodes, InodeType
        <3>2. \A n, i : FileIs(n, i) => FileIs(n, i)'
            BY <2>4, <2>5 DEF FileIs
        <3>3. \A i \in Inodes \ FreeInodes : i_size'[i] = i_size[i]
            BY <1>1, <2>1, <2>3 DEF ResetInode, InodeType
        <3> QED
            BY <3>1, <3>2, <3>3 DEF FilesStay
    <2>8. \A n, i : FileIs(n, i)' => FileIs(n, i) \/ n = name
        BY <2>4, <2>5, <2>6 DEF FileIs
    <2>9. \A n : InDir(n)' => InDir(n) \/ n = name
        <3>1. \A n : InDir(n) <=> \E i : FileIs(n, i)
            BY NamesAreFiles
        <3>2. \A n : InDir(n)' <=> \E i : FileIs(n, i)'
            BY DEF InDir, FileIs, UsedSlots, FreeSlots
        <3> QED
            BY <2>8, <3>1, <3>2
    <2>10. FileIs(name, inum)'
        BY <2>4, <2>6 DEF FileIs
    <2>11. i_size'[inum] = 0
        BY <1>1, <2>1 DEF ResetInode, InodeType
    <2>12. \/ ret = -1 /\ FreeHandles = {} /\ UNCHANGED openVars
           \/ /\ ret \in FreeHandles /\ \A h \in FreeHandles : ret <= h
              /\ FreeHandles' = FreeHandles \ {ret}
              /\ of_inumber'[ret] = inum /\ of_offset'[ret] = 0
              /\ \A h \in Handles \ {ret} :
                    of_inumber'[h] = of_inumber[h] /\ of_offset'[h] = of_offset[h]
        BY <1>1, <2>1, OpenTableEffects
    <2>13. (ret = -1 /\ FreeHandles = {} /\ UNCHANGED openVars) \/ HandleTaken(name, mode, ret)
        BY <2>10, <2>11, <2>12 DEF HandleTaken, FileIs
    <2> QED
        BY <2>3, <2>7, <2>9, <2>13
<1>4. ASSUME OpenNoEntry(name, mode, ret) PROVE Goal
    <2>1. PICK inum \in FreeInodes : ResetInode(inum)
        BY <1>4 DEF OpenNoEntry, IsFirst
    <2>2. /\ UNCHANGED <<freeinode_ts, dirVars, openVars, process>>
          /\ ret = -1 /\ ~ InDir(name)
        BY <1>4 DEF OpenNoEntry
    <2>3. UNCHANGED <<UsedSlots, FreeInodes, d_name, d_inumber>>
        BY <2>2 DEF UsedSlots, FreeSlots, FreeInodes, dirVars
    <2>4. \A i \in Inodes \ FreeInodes : i_size'[i] = i_size[i]
        BY <1>1, <2>1 DEF ResetInode, InodeType
    <2>5. FilesStay
        BY <2>3, <2>4 DEF FilesStay, FileIs
    <2>6. \A n : InDir(n)' => InDir(n)
        BY <2>3 DEF InDir
    <2> QED
        BY <2>2, <2>5, <2>6 DEF Open
<1>5. ASSUME OpenFails(name, mode, ret) PROVE Goal
    <2>1. UNCHANGED vars /\ ret = -1
        BY <1>5 DEF OpenFails
    <2>2. ~ InDir(name)
        <3>1. CASE name \in BadPaths
            BY <1>1, <3>1, NameAssumption, FilesAreExact, NamesAreFiles
        <3> QED
            BY <1>5, <3>1 DEF OpenFails
    <2>3. UNCHANGED <<UsedSlots, FreeInodes, d_name, d_inumber, i_size, openVars, process>>
        BY <2>1 DEF vars, inodeVars, dirVars, UsedSlots, FreeSlots, FreeInodes
    <2>4. FilesStay /\ \A n : InDir(n)' => InDir(n)
        BY <2>3 DEF FilesStay, FileIs, InDir
    <2> QED
        BY <2>1, <2>2, <2>3, <2>4 DEF Open
<1> QED
    BY <1>2, <1>3, <1>4, <1>5 DEF Open

\* tfs_unlink removes the file of that name, whatever handles are open.
LEMMA UnlinkEffects ==
    ASSUME IInv, NEW name, NEW ret, Unlink(name, ret)
    PROVE  /\ process' = "running"
           /\ UNCHANGED <<openVars, i_size>>
           /\ \/ /\ ret = -1 /\ UNCHANGED vars
                 /\ ~ InDir(name)
              \/ /\ ret = 0
                 /\ InDir(name) /\ ~ InDir(name)'
                 /\ \A n \in Names \ {name} : \A i : FileIs(n, i)' <=> FileIs(n, i)
                 /\ \E inum \in Inodes : /\ FileIs(name, inum)
                                         /\ FreeInodes' = FreeInodes \cup {inum}
<1>1. InodeType /\ BlockType /\ DirType /\ OpenType /\ DirectoryExact
    BY TypeParts DEF IInv
<1>2. process = "running"
    BY DEF Unlink
<1>3. CASE UnlinkExisting(name, ret)
    <2>1. PICK s \in Slots :
            /\ FoundIn(s, name)
            /\ freeinode_ts' = [freeinode_ts EXCEPT ![d_inumber[s]] = "FREE"]
            /\ ClearDirEntry(name)
            /\ ret = 0
            /\ UNCHANGED <<i_size, openVars, process>>
        BY <1>3 DEF UnlinkExisting
    <2>2. d_inumber' = [d_inumber EXCEPT ![s] = -1] /\ d_name' = [d_name EXCEPT ![s] = NoName]
        <3>1. PICK t \in Slots :
                /\ IsFirst(t, {u \in Slots : d_name[u] = name})
                /\ d_inumber' = [d_inumber EXCEPT ![t] = -1]
                /\ d_name' = [d_name EXCEPT ![t] = NoName]
            BY <2>1 DEF ClearDirEntry
        <3>2. s = t
            BY <2>1, <3>1, ClearsTheFound
        <3> QED
            BY <3>1, <3>2
    <2>3. s \in UsedSlots /\ d_name[s] = name /\ d_inumber[s] \in Inodes
        BY <2>1, FoundLive
    <2>4. UsedSlots' = UsedSlots \ {s}
        BY <2>2, <1>1 DEF UsedSlots, FreeSlots, DirType
    <2>5. \A t \in UsedSlots' : d_inumber'[t] = d_inumber[t] /\ d_name'[t] = d_name[t]
        BY <2>2, <2>4, <1>1 DEF DirType, UsedSlots
    <2>6. \A t \in UsedSlots : d_name[t] = name => t = s
        BY <1>1, <2>3 DEF DirectoryExact
    <2>7. \A n : \A i : FileIs(n, i)' <=> FileIs(n, i) /\ n # name
        BY <2>3, <2>4, <2>5, <2>6 DEF FileIs
    <2>8. ~ InDir(name)'
        <3>1. \A n : InDir(n)' <=> \E i : FileIs(n, i)'
            BY DEF InDir, FileIs, UsedSlots, FreeSlots
        <3> QED
            BY <2>7, <3>1
    <2>9. FileIs(name, d_inumber[s])
        BY <2>3 DEF FileIs
    <2>10. InDir(name)
        BY <2>9, NamesAreFiles
    <2>11. FreeInodes' = FreeInodes \cup {d_inumber[s]}
        BY <1>1, <2>1, <2>3 DEF FreeInodes, InodeType
    <2> QED
        BY <1>2, <2>1, <2>3, <2>7, <2>8, <2>9, <2>10, <2>11
<1>4. CASE /\ name \in BadPaths \/ ~ InDir(name)
           /\ ret = -1
           /\ UNCHANGED vars
    <2>1. ~ InDir(name)
        BY <1>1, <1>4, NameAssumption, FilesAreExact, NamesAreFiles
    <2> QED
        BY <1>2, <1>4, <2>1 DEF vars, inodeVars, openVars
<1> QED
    BY <1>3, <1>4 DEF Unlink

\* tfs_write changes the size of its file only, and the offset of its handle
\* only; a handle at the end of the file stays there.
LEMMA WriteEffects ==
    ASSUME IInv, NEW h, NEW buf \in Buffers, NEW ret, Opened(h), Write(h, buf, ret)
    PROVE  /\ UNCHANGED <<freeinode_ts, dirVars, free_open_file_entries, of_inumber>>
           /\ \A i \in Inodes \ {of_inumber[h]} : i_size'[i] = i_size[i]
           /\ i_size[of_inumber[h]] <= i_size'[of_inumber[h]]
           /\ \A g \in Handles \ {h} : of_offset'[g] = of_offset[g]
           /\ of_offset[h] = i_size[of_inumber[h]] => of_offset'[h] = i_size'[of_inumber[h]]
<1> DEFINE inum == of_inumber[h]
           offset == of_offset[h]
           to_write == ToWrite(h, buf)
<1>1. h \in Handles /\ inum \in Inodes \ {ROOT_DIR_INUM}
    BY DEF IInv, HandleInodes, Opened
<1>2. InodeType /\ OpenType
    BY TypeParts DEF IInv
<1>3. i_size[inum] \in Int
    <2>1. i_size[inum] \in 0 .. BLOCK_SIZE
        BY <1>1, <1>2 DEF InodeType
    <2> QED
        BY <2>1, BlockSizeNat
<1>4. CASE UNCHANGED <<inodeVars, dirVars, openVars>>
    BY <1>1, <1>3, <1>4 DEF inodeVars, openVars
<1>5. ASSUME to_write \in 1 .. Len(buf),
             NEW block, CopyIn(h, block, buf, to_write),
             UNCHANGED <<freeinode_ts, dirVars, free_open_file_entries, of_inumber>>
      PROVE  /\ \A i \in Inodes \ {inum} : i_size'[i] = i_size[i]
             /\ i_size[inum] <= i_size'[inum]
             /\ \A g \in Handles \ {h} : of_offset'[g] = of_offset[g]
             /\ offset = i_size[inum] => of_offset'[h] = i_size'[inum]
    <2>1. Len(buf) \in Nat
        <3>1. Len(buf) \in 0 .. SizeModulus - DataSize - 1
            BY ArgumentAssumption
        <3> QED
            BY <3>1, SizeAssumption, SizeOfData
    <2>2. to_write \in Nat /\ to_write >= 1
        BY <1>5, <2>1
    <2> DEFINE end == offset + to_write
    <2>3. of_offset' = [of_offset EXCEPT ![h] = end]
          /\ i_size' = [i_size EXCEPT ![inum] = IF end > i_size[inum] THEN end ELSE i_size[inum]]
        BY <1>5 DEF CopyIn
    <2>4. offset \in Int
        <3>1. offset \in 0 .. DataSize
            BY <1>1, <1>2 DEF OpenType
        <3> QED
            BY <3>1, SizeOfData
    <2>5. end \in Int /\ end > offset
        BY <2>2, <2>4
    <2> HIDE DEF end
    <2>6. /\ of_offset'[h] = end
          /\ i_size'[inum] = IF end > i_size[inum] THEN end ELSE i_size[inum]
          /\ \A i \in Inodes \ {inum} : i_size'[i] = i_size[i]
          /\ \A g \in Handles \ {h} : of_offset'[g] = of_offset[g]
        BY <1>1, <1>2, <2>3 DEF InodeType, OpenType
    <2> QED
        BY <1>3, <2>4, <2>5, <2>6
<1>6. CASE UNCHANGED vars
    BY <1>4, <1>6 DEF vars
<1>7. CASE Abort("memory fault")
    BY <1>4, <1>7 DEF Abort
<1>8. \/ UNCHANGED vars \/ Abort("memory fault")
      \/ /\ to_write \in 1 .. Len(buf)
         /\ \E block : CopyIn(h, block, buf, to_write)
         /\ UNCHANGED <<freeinode_ts, dirVars, free_open_file_entries, of_inumber>>
    BY DEF Write, WriteOpened
<1>9. CASE /\ to_write \in 1 .. Len(buf)
           /\ \E block : CopyIn(h, block, buf, to_write)
           /\ UNCHANGED <<freeinode_ts, dirVars, free_open_file_entries, of_inumber>>
    BY <1>5, <1>9
<1> QED
    BY <1>6, <1>7, <1>8, <1>9

\* tfs_read changes the offset of its handle, and nothing else of the tables.
LEMMA ReadEffects ==
    ASSUME IInv, NEW h, NEW len, NEW ret, Read(h, len, ret)
    PROVE  /\ UNCHANGED <<inodeVars, dirVars, free_open_file_entries, of_inumber>>
           /\ \A g \in Handles \ {h} : of_offset'[g] = of_offset[g]
<1>1. OpenType
    BY TypeParts DEF IInv
<1>2. CASE UNCHANGED <<inodeVars, dirVars, openVars>>
    BY <1>2 DEF openVars
<1>3. ASSUME NEW n, of_offset' = [of_offset EXCEPT ![h] = @ + n]
      PROVE  \A g \in Handles \ {h} : of_offset'[g] = of_offset[g]
    BY <1>1, <1>3 DEF OpenType
<1>4. \/ UNCHANGED <<inodeVars, dirVars, openVars>>
      \/ /\ UNCHANGED <<inodeVars, dirVars, free_open_file_entries, of_inumber>>
         /\ \E n : of_offset' = [of_offset EXCEPT ![h] = @ + n]
    BY DEF Read, ReadOpened, vars, Abort
<1> QED
    BY <1>2, <1>3, <1>4
==============================================================================
