---------------------------- MODULE TFSRefinement ----------------------------
(***************************************************************************)
(* For a caller that never unlinks or truncates a file with open handles,  *)
(* TecnicoFS is the store of named files that operations.h describes: it   *)
(* loses no block, none of its assertions fails, and each operation does   *)
(* to the files and handles what FileStore says.  What the proof needs     *)
(* beyond IInv is that an open handle is in a file that exists, at an      *)
(* offset that the file reaches (HandlesInFiles): then the subtractions of *)
(* tfs_read and tfs_write never wrap around.                               *)
(***************************************************************************)
EXTENDS TFSProofs, SequenceTheorems, FiniteSetTheorems

HandlesInFiles ==
    \A h \in Handles : Opened(h) =>
        Live(of_inumber[h]) /\ of_offset[h] <= i_size[of_inumber[h]]

CInv ==
    /\ IInv
    /\ HandlesInFiles
    /\ NoBlockLeak
    /\ process = "running"

------------------------------------------------------------------------------
(* The files, the directory and the handles in a state *)

\* The handles are of files, whose numbers are in range.
LEMMA HandleTypes ==
    ASSUME IInv, HandlesInFiles, NEW h, Opened(h)
    PROVE  /\ h \in Handles
           /\ of_inumber[h] \in Inodes \ {ROOT_DIR_INUM}
           /\ i_size[of_inumber[h]] \in 0 .. BLOCK_SIZE
           /\ of_offset[h] \in 0 .. BLOCK_SIZE
           /\ of_offset[h] <= i_size[of_inumber[h]]
<1>1. h \in Handles
    BY DEF Opened
<1>2. of_inumber[h] \in Inodes \ {ROOT_DIR_INUM}
    BY <1>1 DEF IInv, HandleInodes
<1>3. i_size[of_inumber[h]] \in 0 .. BLOCK_SIZE /\ of_offset[h] \in 0 .. DataSize
    BY <1>1, <1>2 DEF IInv, TypeOK
<1>4. of_offset[h] <= i_size[of_inumber[h]]
    BY <1>1 DEF HandlesInFiles
<1> QED
    BY <1>1, <1>2, <1>3, <1>4, BlockSizeNat, SizeOfData

\* What a careful step leaves of an open handle's file.
LEMMA HandleStays ==
    ASSUME IInv, IInv', HandlesInFiles, Careful, NEW h, Opened(h)
    PROVE  /\ freeinode_ts'[of_inumber[h]] = "TAKEN"
           /\ i_size'[of_inumber[h]] >= i_size[of_inumber[h]]
           /\ of_offset[h] <= i_size'[of_inumber[h]]
<1>1. h \in Handles /\ of_inumber[h] \in Inodes
    BY HandleTypes
<1>2. /\ i_size[of_inumber[h]] \in Nat /\ i_size'[of_inumber[h]] \in Nat
      /\ of_offset[h] \in Nat
    <2>1. i_size[of_inumber[h]] \in 0 .. BLOCK_SIZE /\ of_offset[h] \in 0 .. DataSize
        BY <1>1 DEF IInv, TypeOK
    <2>2. i_size'[of_inumber[h]] \in 0 .. BLOCK_SIZE
        BY <1>1 DEF IInv, TypeOK
    <2> QED
        BY <2>1, <2>2, BlockSizeNat, SizeOfData
<1>3. /\ freeinode_ts'[of_inumber[h]] = "TAKEN"
      /\ i_size'[of_inumber[h]] >= i_size[of_inumber[h]]
    BY <1>1 DEF Careful, IsOpen
<1> QED
    BY <1>1, <1>2, <1>3 DEF HandlesInFiles

\* HandlesInFiles is about the handles that a step opens or moves.
LEMMA HandlesStep ==
    ASSUME IInv, IInv', HandlesInFiles, Careful,
           \A h \in Handles : Opened(h)' =>
                \/ /\ Opened(h)
                   /\ of_inumber'[h] = of_inumber[h]
                   /\ of_offset'[h] = of_offset[h]
                \/ /\ freeinode_ts'[of_inumber'[h]] = "TAKEN"
                   /\ of_offset'[h] <= i_size'[of_inumber'[h]]
    PROVE  HandlesInFiles'
<1> SUFFICES ASSUME NEW h \in Handles, Opened(h)'
             PROVE  Live(of_inumber[h])' /\ of_offset'[h] <= i_size'[of_inumber'[h]]
    BY DEF HandlesInFiles
<1>1. of_inumber'[h] # ROOT_DIR_INUM
    BY DEF IInv, HandleInodes
<1> QED
    BY <1>1, HandleStays DEF Live

\* add_to_open_file_table opens one handle at the offset, or none.
LEMMA OneHandleOpened ==
    ASSUME OpenType, NEW inum, NEW offset, NEW ret,
           AddToOpenFileTable(inum, offset, ret)
    PROVE  \A h \in Handles : Opened(h)' =>
                \/ /\ Opened(h)
                   /\ of_inumber'[h] = of_inumber[h]
                   /\ of_offset'[h] = of_offset[h]
                \/ of_inumber'[h] = inum /\ of_offset'[h] = offset
<1>1. CASE UNCHANGED openVars
    BY <1>1 DEF Opened, openVars
<1>2. CASE /\ ret \in Handles
           /\ free_open_file_entries' = [free_open_file_entries EXCEPT ![ret] = "TAKEN"]
           /\ of_inumber' = [of_inumber EXCEPT ![ret] = inum]
           /\ of_offset' = [of_offset EXCEPT ![ret] = offset]
    BY <1>2 DEF OpenType, Opened
<1> QED
    BY <1>1, <1>2 DEF AddToOpenFileTable, IsFirst, FreeHandles

\* NoBlockLeak when a step may free the block of one live file only, and
\* every other file keeps its block.
LEMMA BlocksStep ==
    ASSUME NoBlockLeak,
           \A b \in Blocks : free_blocks'[b] = "TAKEN" => free_blocks[b] = "TAKEN",
           \A i \in Inodes : Live(i) /\ i_size[i] > 0 =>
                \/ Live(i)' /\ i_size'[i] > 0 /\ i_data_block'[i] = i_data_block[i]
                \/ free_blocks'[i_data_block[i]] = "FREE"
    PROVE  NoBlockLeak'
<1> SUFFICES ASSUME NEW b \in Blocks, free_blocks'[b] = "TAKEN", b # RootBlock
             PROVE  \E i \in Inodes : Live(i)' /\ i_size'[i] > 0 /\ i_data_block'[i] = b
    BY DEF NoBlockLeak
<1>1. PICK i \in Inodes : Live(i) /\ i_size[i] > 0 /\ i_data_block[i] = b
    BY DEF NoBlockLeak
<1> QED
    BY <1>1

------------------------------------------------------------------------------
(* What each operation does to the invariant *)

LEMMA InitCInv == Init => CInv
<1> SUFFICES ASSUME Init PROVE CInv
    OBVIOUS
<1>1. IInv
    BY InitIInv
<1>2. HandlesInFiles
    BY DEF Init, HandlesInFiles, Opened
<1>3. NoBlockLeak
    BY DEF Init, NoBlockLeak
<1> QED
    BY <1>1, <1>2, <1>3 DEF CInv, Init

LEMMA OpenExistingKeeps ==
    ASSUME CInv, IInv', Careful, NEW name, NEW mode, NEW ret, OpenExisting(name, mode, ret)
    PROVE  CInv'
<1> DEFINE size(inum) == IF "TFS_O_TRUNC" \in mode THEN 0 ELSE i_size[inum]
<1>1. PICK s \in Slots :
        /\ FoundIn(s, name)
        /\ IF "TFS_O_TRUNC" \in mode
             THEN /\ FreeBlockOf(d_inumber[s])
                  /\ i_size' = [i_size EXCEPT ![d_inumber[s]] = 0]
             ELSE UNCHANGED <<free_blocks, i_size>>
        /\ AddToOpenFileTable(d_inumber[s],
                IF "TFS_O_APPEND" \in mode THEN size(d_inumber[s]) ELSE 0, ret)
        /\ UNCHANGED <<freeinode_ts, i_data_block, fs_data, dirVars, process>>
    BY DEF OpenExisting
<1> DEFINE inum == d_inumber[s]
           offset == IF "TFS_O_APPEND" \in mode THEN size(inum) ELSE 0
<1>2. inum \in Inodes \ {ROOT_DIR_INUM} /\ Live(inum)
    BY <1>1, FoundLive DEF CInv
<1>3. InodeType /\ BlockType /\ OpenType
    BY TypeParts DEF CInv, IInv
<1>4. HandlesInFiles'
    <2>1. i_size'[inum] = size(inum) /\ size(inum) >= 0
        BY <1>1, <1>2, <1>3, BlockSizeNat DEF InodeType
    <2>2. freeinode_ts'[inum] = "TAKEN" /\ offset <= i_size'[inum]
        BY <1>1, <1>2, <1>3, <2>1, BlockSizeNat DEF Live, InodeType
    <2> HIDE DEF inum, offset
    <2> QED
        BY <1>1, <1>3, <2>2, OneHandleOpened, HandlesStep DEF CInv, inum, offset
<1>5. NoBlockLeak'
    <2>1. CASE "TFS_O_TRUNC" \in mode
        <3>1. \A b \in Blocks : free_blocks'[b] = "TAKEN" => free_blocks[b] = "TAKEN"
            BY <1>1, <1>3, <2>1 DEF FreeBlockOf, BlockType
        <3>2. i_size[inum] > 0 => free_blocks'[i_data_block[inum]] = "FREE"
            BY <1>1, <1>2, <1>3, <2>1 DEF FreeBlockOf, BlockType, CInv, IInv, BlockNumbers
        <3>3. \A i \in Inodes : i # inum => i_size'[i] = i_size[i]
            BY <1>1, <1>3, <2>1 DEF InodeType
        <3> QED
            BY <1>1, <3>1, <3>2, <3>3, BlocksStep DEF CInv, Live
    <2>2. CASE "TFS_O_TRUNC" \notin mode
        BY <1>1, <2>2, BlocksStep DEF CInv, Live
    <2> QED
        BY <2>1, <2>2
<1> QED
    BY <1>1, <1>4, <1>5 DEF CInv

LEMMA OpenCreateKeeps ==
    ASSUME CInv, IInv', Careful, NEW name, NEW mode, NEW ret, OpenCreate(name, mode, ret)
    PROVE  CInv'
<1>1. PICK inum \in Inodes :
        /\ IsFirst(inum, FreeInodes)
        /\ freeinode_ts' = [freeinode_ts EXCEPT ![inum] = "TAKEN"]
        /\ ResetInode(inum)
        /\ AddToOpenFileTable(inum, 0, ret)
        /\ UNCHANGED <<blockVars, process>>
    BY DEF OpenCreate
<1>2. InodeType /\ OpenType
    BY TypeParts DEF CInv, IInv
<1>3. freeinode_ts'[inum] = "TAKEN" /\ 0 <= i_size'[inum]
    BY <1>1, <1>2 DEF InodeType, ResetInode
<1>4. HandlesInFiles'
    BY <1>1, <1>2, <1>3, OneHandleOpened, HandlesStep DEF CInv
<1>5. NoBlockLeak'
    <2>1. inum \in FreeInodes
        BY <1>1 DEF IsFirst
    <2>2. \A i \in Inodes : Live(i) =>
            Live(i)' /\ i_size'[i] = i_size[i] /\ i_data_block'[i] = i_data_block[i]
        BY <1>1, <1>2, <2>1 DEF InodeType, FreeInodes, Live, ResetInode
    <2> QED
        BY <1>1, <2>2, BlocksStep DEF CInv, blockVars
<1> QED
    BY <1>1, <1>4, <1>5 DEF CInv

LEMMA OpenNoEntryKeeps ==
    ASSUME CInv, IInv', Careful, NEW name, NEW mode, NEW ret, OpenNoEntry(name, mode, ret)
    PROVE  CInv'
<1>1. PICK inum \in Inodes : IsFirst(inum, FreeInodes) /\ ResetInode(inum)
    BY DEF OpenNoEntry
<1>2. UNCHANGED <<freeinode_ts, blockVars, dirVars, openVars, process>>
    BY DEF OpenNoEntry
<1>3. InodeType
    BY TypeParts DEF CInv, IInv
<1>4. HandlesInFiles'
    BY <1>2, HandlesStep DEF CInv, openVars, Opened
<1>5. NoBlockLeak'
    <2>1. inum \in FreeInodes
        BY <1>1 DEF IsFirst
    <2>2. \A i \in Inodes : Live(i) =>
            Live(i)' /\ i_size'[i] = i_size[i] /\ i_data_block'[i] = i_data_block[i]
        BY <1>1, <1>2, <1>3, <2>1 DEF InodeType, FreeInodes, Live, ResetInode
    <2> QED
        BY <1>2, <2>2, BlocksStep DEF CInv, blockVars
<1> QED
    BY <1>2, <1>4, <1>5 DEF CInv

LEMMA UnlinkExistingKeeps ==
    ASSUME CInv, IInv', Careful, NEW name, NEW ret, UnlinkExisting(name, ret)
    PROVE  CInv'
<1>1. PICK s \in Slots :
        /\ FoundIn(s, name)
        /\ freeinode_ts' = [freeinode_ts EXCEPT ![d_inumber[s]] = "FREE"]
        /\ FreeBlockOf(d_inumber[s])
        /\ UNCHANGED <<i_size, i_data_block, fs_data, openVars, process>>
    BY DEF UnlinkExisting
<1> DEFINE inum == d_inumber[s]
<1>2. inum \in Inodes \ {ROOT_DIR_INUM} /\ Live(inum)
    BY <1>1, FoundLive DEF CInv
<1>3. InodeType /\ BlockType
    BY TypeParts DEF CInv, IInv
<1>4. HandlesInFiles'
    BY <1>1, HandlesStep DEF CInv, openVars, Opened
<1>5. NoBlockLeak'
    <2>1. \A b \in Blocks : free_blocks'[b] = "TAKEN" => free_blocks[b] = "TAKEN"
        BY <1>1, <1>3 DEF FreeBlockOf, BlockType
    <2>2. i_size[inum] > 0 => free_blocks'[i_data_block[inum]] = "FREE"
        BY <1>1, <1>2, <1>3 DEF FreeBlockOf, BlockType, CInv, IInv, BlockNumbers
    <2>3. \A i \in Inodes : Live(i) /\ i # inum => Live(i)'
        BY <1>1, <1>3 DEF InodeType, Live
    <2> QED
        BY <1>1, <2>1, <2>2, <2>3, BlocksStep DEF CInv
<1> QED
    BY <1>1, <1>4, <1>5 DEF CInv

LEMMA StutterKeeps == CInv /\ UNCHANGED vars => CInv'
<1> SUFFICES ASSUME CInv, UNCHANGED vars PROVE CInv'
    OBVIOUS
<1>1. IInv'
    BY StutterStep DEF CInv
<1>2. HandlesInFiles'
    BY DEF CInv, HandlesInFiles, Opened, Live, vars, openVars, inodeVars
<1>3. NoBlockLeak'
    BY DEF CInv, NoBlockLeak, Live, vars, inodeVars, blockVars
<1> QED
    BY <1>1, <1>2, <1>3 DEF CInv, vars

LEMMA CloseKeeps ==
    ASSUME CInv, IInv', Careful, NEW h, NEW ret, Close(h, ret)
    PROVE  CInv'
<1>1. OpenType
    BY TypeParts DEF CInv, IInv
<1>2. UNCHANGED <<inodeVars, blockVars, process>>
    BY DEF Close
<1>3. HandlesInFiles'
    <2>1. \A g \in Handles : Opened(g)' =>
                Opened(g) /\ of_inumber'[g] = of_inumber[g] /\ of_offset'[g] = of_offset[g]
        <3>1. CASE UNCHANGED openVars
            BY <3>1 DEF Opened, openVars
        <3>2. CASE /\ free_open_file_entries' = [free_open_file_entries EXCEPT ![h] = "FREE"]
                   /\ UNCHANGED <<of_inumber, of_offset>>
            BY <1>1, <3>2 DEF OpenType, Opened
        <3> QED
            BY <3>1, <3>2 DEF Close
    <2> QED
        BY <2>1, HandlesStep DEF CInv
<1>4. NoBlockLeak'
    BY <1>2, BlocksStep DEF CInv, Live, inodeVars, blockVars
<1> QED
    BY <1>2, <1>3, <1>4 DEF CInv

(* tfs_read and tfs_write with a handle in a file: no subtraction wraps     *)
(* around and no assertion fails.                                           *)

LEMMA NoWrap == \A m \in Nat, d \in Int : 0 <= d /\ d < m => d % m = d
BY Z3

\* A read that returns something.
ReadOn(h, n) ==
    /\ Opened(h)
    /\ n \in Nat \ {0}
    /\ of_offset[h] + n <= i_size[of_inumber[h]]
    /\ of_offset' = [of_offset EXCEPT ![h] = @ + n]
    /\ UNCHANGED <<inodeVars, blockVars, dirVars, free_open_file_entries, of_inumber, process>>

\* The bytes of a file are in fs_data.
LEMMA FileInData ==
    ASSUME NEW block \in Blocks, NEW offset \in Nat, NEW n \in Nat,
           offset + n <= BLOCK_SIZE
    PROVE  BytesAt(block, offset, n) \subseteq Bytes
<1> DEFINE start == block * BLOCK_SIZE
<1>1. start \in Nat /\ start + BLOCK_SIZE <= DataSize
    <2>1. \A k, m, z \in Nat : k + 1 <= m => k * z \in Nat /\ k * z + z <= m * z
        BY Z3
    <2>2. block \in Nat /\ DATA_BLOCKS \in Nat /\ BLOCK_SIZE \in Nat /\ block + 1 <= DATA_BLOCKS
        BY SizeAssumption DEF Blocks
    <2> QED
        BY <2>1, <2>2 DEF DataSize
<1>2. BytesAt(block, offset, n) = start + offset .. start + offset + n - 1
    BY DEF BytesAt, Address
<1> HIDE DEF start
<1> QED
    BY <1>1, <1>2, SizeOfData, BlockSizeNat DEF Bytes

LEMMA ReadStays ==
    ASSUME CInv, NEW h, NEW len \in Nat, NEW ret, Read(h, len, ret)
    PROVE  UNCHANGED vars \/ ReadOn(h, ToRead(h, len))
<1> DEFINE inum == of_inumber[h]
           offset == of_offset[h]
           to_read == ToRead(h, len)
<1>1. CASE ~ Opened(h)
    BY <1>1 DEF Read
<1>2. CASE Opened(h)
    <2>1. /\ inum \in Inodes \ {ROOT_DIR_INUM} /\ Live(inum)
          /\ i_size[inum] \in 0 .. BLOCK_SIZE /\ offset \in 0 .. BLOCK_SIZE
          /\ offset <= i_size[inum]
        BY <1>2, HandleTypes DEF CInv, HandlesInFiles
    <2>2. to_read \in Nat /\ offset + to_read <= i_size[inum]
        <3>1. i_size[inum] - offset \in Nat /\ i_size[inum] - offset < SizeModulus
            BY <2>1, SizeAssumption, SizeOfData, BlockSizeNat
        <3>2. (i_size[inum] - offset) % SizeModulus = i_size[inum] - offset
            BY <3>1, SizeAssumption, NoWrap
        <3>3. to_read = IF i_size[inum] - offset > len THEN len ELSE i_size[inum] - offset
            BY <3>2 DEF ToRead
        <3> HIDE DEF to_read, inum, offset
        <3> QED
            BY <2>1, <3>1, <3>3, BlockSizeNat
    <2> HIDE DEF to_read
    <2>3. CASE to_read = 0
        BY <1>2, <2>3 DEF Read, ReadOpened, to_read
    <2>4. CASE to_read > 0
        <3>1. i_size[inum] > 0
            BY <2>1, <2>2, <2>4, BlockSizeNat
        <3>2. i_data_block[inum] \in Blocks
            BY <2>1, <3>1 DEF CInv, IInv, BlockNumbers
        <3>3. BytesAt(i_data_block[inum], offset, to_read) \subseteq Bytes
            <4>1. offset \in Nat /\ offset + to_read <= BLOCK_SIZE
                BY <2>1, <2>2, BlockSizeNat
            <4> QED
                BY <2>2, <3>2, <4>1, FileInData
        <3>4. ReadOpened(h, len, ret) /\ to_read # 0
            BY <1>2, <2>4 DEF Read
        <3>5. /\ of_offset' = [of_offset EXCEPT ![h] = @ + to_read]
              /\ UNCHANGED <<inodeVars, blockVars, dirVars, free_open_file_entries,
                             of_inumber, process>>
            BY <3>2, <3>3, <3>4, Zenon DEF ReadOpened, to_read
        <3> QED
            BY <1>2, <2>2, <2>4, <3>5 DEF ReadOn, to_read
    <2> QED
        BY <2>2, <2>3, <2>4
<1> QED
    BY <1>1, <1>2

LEMMA ReadKeeps ==
    ASSUME CInv, IInv', Careful, NEW h, NEW n, ReadOn(h, n)
    PROVE  CInv'
<1>1. OpenType /\ h \in Handles
    BY TypeParts DEF CInv, IInv, ReadOn, Opened
<1>2. HandlesInFiles'
    <2>1. \A g \in Handles : Opened(g)' =>
            /\ Opened(g) /\ of_inumber'[g] = of_inumber[g]
            /\ g # h => of_offset'[g] = of_offset[g]
        BY <1>1 DEF OpenType, ReadOn, Opened
    <2>2. freeinode_ts'[of_inumber'[h]] = "TAKEN" /\ of_offset'[h] <= i_size'[of_inumber'[h]]
        BY <1>1 DEF ReadOn, inodeVars, OpenType, CInv, HandlesInFiles, Live
    <2> QED
        BY <2>1, <2>2, HandlesStep DEF CInv
<1>3. NoBlockLeak'
    BY BlocksStep DEF CInv, ReadOn, Live, inodeVars, blockVars
<1> QED
    BY <1>2, <1>3 DEF CInv, ReadOn

\* A write of n bytes to the file's block, or to a block that was free.
CopyTo(h, buf, n, block) ==
    LET inum == of_inumber[h]
    IN  /\ Opened(h)
        /\ n \in 1 .. Len(buf)
        /\ of_offset[h] + n <= BLOCK_SIZE
        /\ CopyIn(h, block, buf, n)
        /\ \/ /\ i_size[inum] = 0
              /\ block \in FreeBlocks
              /\ free_blocks' = [free_blocks EXCEPT ![block] = "TAKEN"]
              /\ i_data_block' = [i_data_block EXCEPT ![inum] = block]
           \/ /\ i_size[inum] > 0
              /\ block = i_data_block[inum]
              /\ UNCHANGED <<free_blocks, i_data_block>>
        /\ UNCHANGED <<freeinode_ts, dirVars, free_open_file_entries, of_inumber, process>>

LEMMA WriteStays ==
    ASSUME CInv, NEW h, NEW buf \in Buffers, NEW ret, Write(h, buf, ret)
    PROVE  UNCHANGED vars \/ \E block \in Blocks : CopyTo(h, buf, ToWrite(h, buf), block)
<1> DEFINE inum == of_inumber[h]
           offset == of_offset[h]
           to_write == ToWrite(h, buf)
<1>1. CASE ~ Opened(h)
    BY <1>1 DEF Write
<1>2. CASE Opened(h)
    <2>1. /\ inum \in Inodes \ {ROOT_DIR_INUM} /\ Live(inum)
          /\ i_size[inum] \in 0 .. BLOCK_SIZE /\ offset \in 0 .. BLOCK_SIZE
        BY <1>2, HandleTypes DEF CInv, HandlesInFiles
    <2>2. Len(buf) \in Nat
        BY ArgumentAssumption, SizeAssumption, SizeOfData
    <2>3. to_write \in 0 .. Len(buf) /\ offset + to_write <= BLOCK_SIZE
        <3>1. BLOCK_SIZE - offset \in Nat /\ BLOCK_SIZE - offset < SizeModulus
            BY <2>1, SizeAssumption, SizeOfData, BlockSizeNat
        <3>2. (BLOCK_SIZE - offset) % SizeModulus = BLOCK_SIZE - offset
            BY <3>1, SizeAssumption, NoWrap
        <3>3. to_write = IF Len(buf) + offset > BLOCK_SIZE THEN BLOCK_SIZE - offset ELSE Len(buf)
            BY <3>2 DEF ToWrite
        <3> HIDE DEF to_write, inum, offset
        <3> QED
            BY <2>1, <2>2, <3>1, <3>3, BlockSizeNat
    <2>4. ~ (to_write > Len(buf))
        BY <2>2, <2>3
    <2>5. WriteOpened(h, buf, ret)
        BY <1>2 DEF Write
    <2>6. CASE UNCHANGED vars
        BY <2>6
    <2>7. ASSUME to_write \in 1 .. Len(buf),
                 \/ /\ i_size[inum] = 0
                    /\ \E b \in Blocks :
                        /\ IsFirst(b, FreeBlocks)
                        /\ free_blocks' = [free_blocks EXCEPT ![b] = "TAKEN"]
                        /\ i_data_block' = [i_data_block EXCEPT ![inum] = b]
                        /\ CopyIn(h, b, buf, to_write)
                 \/ /\ i_size[inum] > 0
                    /\ CopyIn(h, i_data_block[inum], buf, to_write)
                    /\ UNCHANGED <<free_blocks, i_data_block>>,
                 UNCHANGED <<freeinode_ts, dirVars, free_open_file_entries, of_inumber, process>>
          PROVE  \E block \in Blocks : CopyTo(h, buf, to_write, block)
        <3>1. CASE i_size[inum] > 0
            <4>1. i_data_block[inum] \in Blocks
                BY <2>1, <3>1 DEF CInv, IInv, BlockNumbers
            <4>2. CopyTo(h, buf, to_write, i_data_block[inum])
                BY <1>2, <2>3, <2>7, <3>1 DEF CopyTo
            <4> QED
                BY <4>1, <4>2
        <3>2. CASE i_size[inum] = 0
            <4>1. PICK b \in Blocks :
                    /\ IsFirst(b, FreeBlocks)
                    /\ free_blocks' = [free_blocks EXCEPT ![b] = "TAKEN"]
                    /\ i_data_block' = [i_data_block EXCEPT ![inum] = b]
                    /\ CopyIn(h, b, buf, to_write)
                BY <2>7, <3>2
            <4>2. CopyTo(h, buf, to_write, b)
                BY <1>2, <2>3, <2>7, <3>2, <4>1 DEF CopyTo, IsFirst
            <4> QED
                BY <4>2
        <3> QED
            BY <2>7, <3>1, <3>2
    <2> QED
        BY <2>4, <2>5, <2>6, <2>7 DEF WriteOpened
<1> QED
    BY <1>1, <1>2

\* What a copy does to the file and the handle.
LEMMA CopyGrows ==
    ASSUME CInv, NEW h, NEW buf, NEW n, NEW block, CopyTo(h, buf, n, block)
    PROVE  LET inum == of_inumber[h]
               end == of_offset[h] + n
           IN  /\ h \in Handles
               /\ inum \in Inodes \ {ROOT_DIR_INUM} /\ Live(inum)
               /\ i_size'[inum] = IF end > i_size[inum] THEN end ELSE i_size[inum]
               /\ \A i \in Inodes : i # inum => i_size'[i] = i_size[i]
               /\ of_offset'[h] = end
               /\ \A g \in Handles : g # h => of_offset'[g] = of_offset[g]
<1> DEFINE inum == of_inumber[h]
           end == of_offset[h] + n
<1>1. h \in Handles /\ inum \in Inodes \ {ROOT_DIR_INUM} /\ Live(inum)
    BY HandleTypes DEF CInv, CopyTo, HandlesInFiles
<1>2. /\ i_size' = [i_size EXCEPT ![inum] = IF end > @ THEN end ELSE @]
      /\ of_offset' = [of_offset EXCEPT ![h] = end]
    BY DEF CopyTo, CopyIn
<1>3. InodeType /\ OpenType
    BY TypeParts DEF CInv, IInv
<1> HIDE DEF end
<1> QED
    BY <1>1, <1>2, <1>3 DEF InodeType, OpenType, end

LEMMA WriteKeeps ==
    ASSUME CInv, IInv', Careful, NEW h, NEW buf, NEW n, NEW block, CopyTo(h, buf, n, block)
    PROVE  CInv'
<1> DEFINE inum == of_inumber[h]
           end == of_offset[h] + n
<1>1. /\ h \in Handles
      /\ inum \in Inodes \ {ROOT_DIR_INUM} /\ Live(inum)
      /\ i_size'[inum] = IF end > i_size[inum] THEN end ELSE i_size[inum]
      /\ \A i \in Inodes : i # inum => i_size'[i] = i_size[i]
      /\ of_offset'[h] = end
      /\ \A g \in Handles : g # h => of_offset'[g] = of_offset[g]
    BY CopyGrows
<1>2. UNCHANGED <<freeinode_ts, free_open_file_entries, of_inumber, process>>
    BY DEF CopyTo
<1>3. end \in Nat \ {0} /\ i_size[inum] \in Nat
    <2>1. of_offset[h] \in 0 .. DataSize /\ i_size[inum] \in 0 .. BLOCK_SIZE /\ n \in 1 .. Len(buf)
        BY <1>1 DEF CInv, IInv, TypeOK, CopyTo
    <2> QED
        BY <2>1, SizeOfData, BlockSizeNat
<1>4. HandlesInFiles'
    <2>1. \A g \in Handles : Opened(g)' => Opened(g) /\ of_inumber'[g] = of_inumber[g]
        BY <1>2 DEF Opened
    <2>2. freeinode_ts'[of_inumber'[h]] = "TAKEN" /\ of_offset'[h] <= i_size'[of_inumber'[h]]
        <3> HIDE DEF end
        <3> QED
            BY <1>1, <1>2, <1>3 DEF Live
    <2> QED
        BY <1>1, <2>1, <2>2, HandlesStep DEF CInv
<1>5. NoBlockLeak'
    <2> SUFFICES ASSUME NEW b \in Blocks, free_blocks'[b] = "TAKEN", b # RootBlock
                 PROVE  \E i \in Inodes : Live(i)' /\ i_size'[i] > 0 /\ i_data_block'[i] = b
        BY DEF NoBlockLeak
    <2>1. BlockType /\ InodeType
        BY TypeParts DEF CInv, IInv
    <2>2. i_size'[inum] > 0
        <3> HIDE DEF end
        <3> QED
            BY <1>1, <1>3
    <2>3. \A i \in Inodes : Live(i) => Live(i)'
        BY <1>2 DEF Live
    <2>4. CASE free_blocks[b] = "TAKEN"
        <3>1. PICK i \in Inodes : Live(i) /\ i_size[i] > 0 /\ i_data_block[i] = b
            BY <2>4 DEF CInv, NoBlockLeak
        <3>2. i_size'[i] > 0
            BY <1>1, <2>2, <3>1
        <3>3. i_data_block'[i] = b
            BY <1>1, <2>1, <3>1 DEF CopyTo, InodeType
        <3> QED
            BY <2>3, <3>1, <3>2, <3>3
    <2>5. CASE free_blocks[b] # "TAKEN"
        <3>1. b = block /\ i_data_block'[inum] = b
            BY <1>1, <2>1, <2>5 DEF CopyTo, BlockType, InodeType
        <3> QED
            BY <1>1, <2>2, <2>3, <3>1
    <2> QED
        BY <2>4, <2>5
<1> QED
    BY <1>2, <1>4, <1>5 DEF CInv

------------------------------------------------------------------------------
(* A careful caller's invariants *)

LEMMA CInvStep == CInv /\ [Next /\ Careful]_vars => CInv'
<1> SUFFICES ASSUME CInv, [Next /\ Careful]_vars PROVE CInv'
    OBVIOUS
<1>1. CASE UNCHANGED vars
    BY <1>1, StutterKeeps
<1>2. CASE Next /\ Careful
    <2>1. IInv'
        BY <1>2, IInvStep DEF CInv
    <2>2. ASSUME NEW name \in Paths, NEW mode \in Modes, NEW ret, Open(name, mode, ret)
          PROVE  CInv'
        BY <1>2, <2>1, <2>2, StutterKeeps, OpenExistingKeeps, OpenCreateKeeps,
           OpenNoEntryKeeps DEF Open, OpenFails
    <2>3. ASSUME NEW name \in Paths, NEW ret, Unlink(name, ret)
          PROVE  CInv'
        BY <1>2, <2>1, <2>3, UnlinkExistingKeeps, StutterKeeps DEF Unlink
    <2>4. ASSUME NEW h, NEW ret, Close(h, ret)
          PROVE  CInv'
        BY <1>2, <2>1, <2>4, CloseKeeps
    <2>5. ASSUME NEW h, NEW buf \in Buffers, NEW ret, Write(h, buf, ret)
          PROVE  CInv'
        BY <1>2, <2>1, <2>5, WriteStays, WriteKeeps, StutterKeeps
    <2>6. ASSUME NEW h, NEW len \in ReadLengths, NEW ret, Read(h, len, ret)
          PROVE  CInv'
        BY <1>2, <2>1, <2>6, ReadStays, ReadKeeps, StutterKeeps, ArgumentAssumption
    <2> QED
        BY <1>2, <2>2, <2>3, <2>4, <2>5, <2>6 DEF Next
<1> QED
    BY <1>1, <1>2

THEOREM CInvCorrect == CarefulSpec => []CInv
<1> QED
    BY InitCInv, CInvStep, PTL DEF CarefulSpec

\* A careful caller loses no block: every block in use is the directory's or
\* some file's, after any sequence of calls.
THEOREM NoBlockLost == CarefulSpec => []NoBlockLeak
<1>1. CInv => NoBlockLeak
    BY DEF CInv
<1> QED
    BY <1>1, CInvCorrect, PTL

\* What tfs_write and tfs_read assert of an open handle's inode, and all that
\* the functions they call assert, holds for a careful caller.
THEOREM AssertionsHold == CarefulSpec => [](OpenInodesExist /\ process = "running")
<1>1. CInv => OpenInodesExist /\ process = "running"
    BY DEF CInv, HandlesInFiles, OpenInodesExist, Live
<1> QED
    BY <1>1, CInvCorrect, PTL

------------------------------------------------------------------------------
(* The refinement mapping *)

UsedNames == {d_name[s] : s \in UsedSlots}
Files == [name \in UsedNames |-> Contents(FileNamed(name))]
HandleOf(h) ==
    IF Opened(h) THEN [name |-> NameOf(of_inumber[h]), offset |-> of_offset[h]] ELSE Closed
FileHandles == [h \in Handles |-> HandleOf(h)]

\* The directory is a bijection between names and files.
NamesMapped ==
    /\ \A s \in UsedSlots :
        FileNamed(d_name[s]) = d_inumber[s] /\ NameOf(d_inumber[s]) = d_name[s]
    /\ \A i \in Inodes : Live(i) => \E s \in UsedSlots : d_inumber[s] = i
    /\ UsedNames \subseteq Names

\* The files of the mapping, one entry of the directory at a time.
FilesMapped ==
    /\ DOMAIN Files = UsedNames
    /\ \A s \in UsedSlots : Files[d_name[s]] = Contents(d_inumber[s])

LEMMA Mapped == IInv => NamesMapped /\ FilesMapped
<1> SUFFICES ASSUME IInv PROVE NamesMapped /\ FilesMapped
    OBVIOUS
<1>1. DirectoryExact
    BY DEF IInv
<1>2. ASSUME NEW s \in UsedSlots
      PROVE  FileNamed(d_name[s]) = d_inumber[s] /\ NameOf(d_inumber[s]) = d_name[s]
    <2>1. (CHOOSE t \in UsedSlots : d_name[t] = d_name[s]) = s
        BY <1>1 DEF DirectoryExact
    <2>2. (CHOOSE t \in UsedSlots : d_inumber[t] = d_inumber[s]) = s
        BY <1>1 DEF DirectoryExact
    <2> QED
        BY <2>1, <2>2 DEF FileNamed, NameOf
<1>3. NamesMapped
    BY <1>1, <1>2 DEF DirectoryExact, UsedNames, NamesMapped
<1> QED
    BY <1>3 DEF NamesMapped, FilesMapped, Files, UsedNames

LEMMA MappedNext == IInv' => NamesMapped' /\ FilesMapped'
BY Mapped, PTL

\* The contents of a file depend on its size, its block and what is there.
LEMMA ContentsKept ==
    ASSUME NEW i, i_size'[i] = i_size[i],
           \A k \in 1 .. i_size[i] : fs_data'[Address(i_data_block'[i], k - 1)]
                                        = fs_data[Address(i_data_block[i], k - 1)]
    PROVE  Contents(i)' = Contents(i)
BY DEF Contents

\* A step that changes no entry and no contents changes no file.
LEMMA FilesKept ==
    ASSUME IInv, IInv', UNCHANGED dirVars,
           \A s \in UsedSlots : \A i \in Inodes : i = d_inumber[s] => Contents(i)' = Contents(i)
    PROVE  UNCHANGED Files
<1>1. UNCHANGED <<UsedSlots, UsedNames>>
    BY DEF dirVars, UsedSlots, FreeSlots, UsedNames
<1>2. \A s \in UsedSlots : d_inumber[s] \in Inodes
    BY DEF IInv, TypeOK, UsedSlots, FreeSlots
<1>3. ASSUME NEW s \in UsedSlots
      PROVE  Files'[d_name[s]] = Files[d_name[s]]
    <2>1. PICK i \in Inodes : i = d_inumber[s] /\ i = d_inumber'[s]
        BY <1>2 DEF dirVars
    <2>2. s \in UsedSlots' /\ d_name'[s] = d_name[s]
        BY <1>1 DEF dirVars
    <2>3. Contents(d_inumber[s])' = Contents(i)'
        BY <2>1 DEF Contents
    <2>4. Files'[d_name[s]] = Contents(i)'
        BY <2>2, <2>3, MappedNext DEF FilesMapped
    <2>5. Files[d_name[s]] = Contents(i)
        BY <2>1, Mapped DEF FilesMapped
    <2> QED
        BY <2>1, <2>4, <2>5
<1>4. \A name \in UsedNames : Files'[name] = Files[name]
    BY <1>3 DEF UsedNames
<1>5. /\ Files = [name \in UsedNames |-> Files[name]]
      /\ Files' = [name \in UsedNames' |-> Files'[name]]
    BY DEF Files
<1> QED
    BY <1>1, <1>4, <1>5

\* An open handle is of a file with an entry.
LEMMA HandleEntry ==
    ASSUME CInv, NEW h, Opened(h)
    PROVE  /\ h \in Handles /\ of_inumber[h] \in Inodes /\ Live(of_inumber[h])
           /\ NameOf(of_inumber[h]) \in Names
           /\ HandleOf(h) = [name |-> NameOf(of_inumber[h]), offset |-> of_offset[h]]
           /\ HandleOf(h) # Closed
           /\ \E s \in UsedSlots :
                d_inumber[s] = of_inumber[h] /\ d_name[s] = NameOf(of_inumber[h])
<1>1. h \in Handles /\ of_inumber[h] \in Inodes /\ Live(of_inumber[h])
    BY HandleTypes DEF CInv, HandlesInFiles
<1>2. PICK s \in UsedSlots : d_inumber[s] = of_inumber[h]
    BY <1>1, Mapped DEF CInv, NamesMapped
<1>3. NameOf(of_inumber[h]) = d_name[s] /\ d_name[s] \in Names
    BY <1>2, Mapped DEF CInv, NamesMapped, IInv, DirectoryExact
<1> QED
    BY <1>1, <1>2, <1>3, NameAssumption DEF HandleOf, Closed

\* The entries of the files that are open stay.
OpenEntriesStay ==
    \A s \in UsedSlots : \A h \in Handles :
        Opened(h) /\ of_inumber[h] = d_inumber[s] =>
            s \in UsedSlots' /\ d_inumber'[s] = d_inumber[s] /\ d_name'[s] = d_name[s]

\* A handle that a step leaves alone keeps its place.
LEMMA HandleKept ==
    ASSUME CInv, CInv', OpenEntriesStay, NEW h, Opened(h), Opened(h)',
           of_inumber'[h] = of_inumber[h]
    PROVE  HandleOf(h)' = [name |-> NameOf(of_inumber[h]), offset |-> of_offset'[h]]
<1>1. PICK s \in UsedSlots :
            d_inumber[s] = of_inumber[h] /\ d_name[s] = NameOf(of_inumber[h])
    BY HandleEntry
<1>2. s \in UsedSlots' /\ d_inumber'[s] = of_inumber'[h] /\ d_name'[s] = NameOf(of_inumber[h])
    BY <1>1, HandleEntry DEF OpenEntriesStay
<1>3. NameOf(d_inumber[s])' = d_name'[s]
    BY <1>2, MappedNext DEF CInv, NamesMapped
<1>4. NameOf(of_inumber[h])' = NameOf(d_inumber[s])'
    BY <1>2 DEF NameOf
<1> QED
    BY <1>2, <1>3, <1>4 DEF HandleOf

LEMMA FileHandlesKept ==
    ASSUME CInv, CInv', OpenEntriesStay, UNCHANGED openVars
    PROVE  UNCHANGED FileHandles
<1>1. \A h \in Handles : HandleOf(h)' = HandleOf(h)
    <2> SUFFICES ASSUME NEW h \in Handles PROVE HandleOf(h)' = HandleOf(h)
        OBVIOUS
    <2>1. CASE Opened(h)
        <3>1. Opened(h)' /\ of_inumber'[h] = of_inumber[h] /\ of_offset'[h] = of_offset[h]
            BY <2>1 DEF openVars, Opened
        <3> QED
            BY <2>1, <3>1, HandleKept, HandleEntry
    <2>2. CASE ~ Opened(h)
        BY <2>2 DEF openVars, Opened, HandleOf, Closed
    <2> QED
        BY <2>1, <2>2
<1> QED
    BY <1>1 DEF FileHandles

\* add_to_open_file_table opens a handle of the abstract store.
LEMMA OpensAt ==
    ASSUME CInv, CInv', OpenEntriesStay,
           NEW inum, NEW offset, NEW ret, NEW name,
           AddToOpenFileTable(inum, offset, ret),
           NEW s \in UsedSlots', d_inumber'[s] = inum, d_name'[s] = name
    PROVE  Store!OpenAt(name, offset)
<1>1. OpenType
    BY TypeParts DEF CInv, IInv
<1>2. CASE UNCHANGED openVars
    BY <1>2, FileHandlesKept DEF FileHandles, HandleOf, Store!OpenAt
<1>3. CASE /\ ret \in FreeHandles
           /\ free_open_file_entries' = [free_open_file_entries EXCEPT ![ret] = "TAKEN"]
           /\ of_inumber' = [of_inumber EXCEPT ![ret] = inum]
           /\ of_offset' = [of_offset EXCEPT ![ret] = offset]
    <2>1. ret \in Handles /\ ~ Opened(ret)
        BY <1>3 DEF FreeHandles, Opened
    <2>2. Opened(ret)' /\ of_inumber'[ret] = inum /\ of_offset'[ret] = offset
        BY <1>1, <1>3, <2>1 DEF OpenType, Opened
    <2>3. HandleOf(ret)' = [name |-> name, offset |-> offset]
        <3>1. NameOf(d_inumber[s])' = name
            BY MappedNext DEF CInv, NamesMapped
        <3>2. NameOf(of_inumber[ret])' = NameOf(d_inumber[s])'
            BY <2>2 DEF NameOf
        <3> QED
            BY <2>2, <3>1, <3>2 DEF HandleOf
    <2>4. ASSUME NEW h \in Handles, h # ret
          PROVE  HandleOf(h)' = HandleOf(h)
        <3>1. /\ Opened(h)' <=> Opened(h)
              /\ of_inumber'[h] = of_inumber[h] /\ of_offset'[h] = of_offset[h]
            BY <1>1, <1>3, <2>1, <2>4 DEF OpenType, Opened
        <3>2. CASE Opened(h)
            BY <3>1, <3>2, HandleKept, HandleEntry
        <3>3. CASE ~ Opened(h)
            BY <3>1, <3>3 DEF HandleOf, Closed
        <3> QED
            BY <3>2, <3>3
    <2>5. FileHandles[ret] = Closed
        BY <2>1 DEF FileHandles, HandleOf
    <2>6. FileHandles' = [FileHandles EXCEPT ![ret] = [name |-> name, offset |-> offset]]
        BY <2>1, <2>3, <2>4 DEF FileHandles
    <2> QED
        BY <2>1, <2>5, <2>6 DEF FileHandles, HandleOf, Store!OpenAt, Store!At
<1> QED
    BY <1>2, <1>3 DEF AddToOpenFileTable, IsFirst

------------------------------------------------------------------------------
(* Contents as sequences *)

LEMMA FunctionSeq ==
    ASSUME NEW n \in Nat, NEW f, f = [k \in 1 .. n |-> f[k]], NEW S, \A k \in 1 .. n : f[k] \in S
    PROVE  f \in Seq(S) /\ Len(f) = n
<1>1. f \in [1 .. n -> S]
    OBVIOUS
<1>2. f \in Seq(S)
    BY <1>1, SeqDef
<1>3. Len(f) \in Nat /\ DOMAIN f = 1 .. Len(f) /\ DOMAIN f = 1 .. n
    BY <1>1, <1>2, LenProperties
<1>4. \A j, k \in Nat : 1 .. j = 1 .. k => j = k
    BY Z3
<1> QED
    BY <1>2, <1>3, <1>4

\* What FileStore writes: the data in place of what was there, and beyond.
Spliced(old, data, offset) ==
    SubSeq(old, 1, offset) \o data \o SubSeq(old, offset + Len(data) + 1, Len(old))

LEMMA Splice ==
    ASSUME NEW S, NEW old \in Seq(S), NEW data \in Seq(S), NEW offset \in 0 .. Len(old)
    PROVE  /\ Spliced(old, data, offset) \in Seq(S)
           /\ Len(Spliced(old, data, offset)) =
                IF offset + Len(data) > Len(old) THEN offset + Len(data) ELSE Len(old)
           /\ \A k \in 1 .. Len(Spliced(old, data, offset)) :
                Spliced(old, data, offset)[k] =
                    IF k <= offset \/ k > offset + Len(data) THEN old[k] ELSE data[k - offset]
<1> DEFINE end == offset + Len(data)
           head == SubSeq(old, 1, offset)
           kept == SubSeq(old, end + 1, Len(old))
           front == head \o data
           new == front \o kept
<1>0. Spliced(old, data, offset) = new
    BY DEF Spliced
<1>1. Len(old) \in Nat /\ Len(data) \in Nat /\ end \in Nat /\ offset \in Nat /\ offset <= Len(old)
    OBVIOUS
<1>2. /\ head \in Seq(S) /\ Len(head) = offset
      /\ \A k \in 1 .. offset : head[k] = old[k]
    BY <1>1
<1>3. /\ kept \in Seq(S)
      /\ Len(kept) = IF end + 1 <= Len(old) THEN Len(old) - end ELSE 0
      /\ \A k \in 1 .. Len(old) - end : kept[k] = old[end + k]
    BY <1>1
<1> HIDE DEF head, kept
<1>4. /\ front \in Seq(S) /\ Len(front) = end
      /\ \A k \in 1 .. end : front[k] = IF k <= offset THEN head[k] ELSE data[k - offset]
    BY <1>1, <1>2
<1> HIDE DEF front, end
<1>5. /\ new \in Seq(S) /\ Len(new) = end + Len(kept)
      /\ \A k \in 1 .. Len(new) : new[k] = IF k <= end THEN front[k] ELSE kept[k - end]
    <2>1. /\ new \in Seq(S) /\ Len(new) = Len(front) + Len(kept)
          /\ \A k \in 1 .. Len(front) + Len(kept) :
                new[k] = IF k <= Len(front) THEN front[k] ELSE kept[k - Len(front)]
        BY <1>3, <1>4, ConcatProperties
    <2> HIDE DEF new
    <2> QED
        BY <1>4, <2>1
<1> HIDE DEF new
<1>6. Len(new) = IF end > Len(old) THEN end ELSE Len(old)
    BY <1>1, <1>3, <1>5
<1>7. \A k \in 1 .. Len(new) :
            new[k] = IF k <= offset \/ k > end THEN old[k] ELSE data[k - offset]
    <2> SUFFICES ASSUME NEW k \in 1 .. Len(new)
                 PROVE  new[k] = IF k <= offset \/ k > end THEN old[k] ELSE data[k - offset]
        OBVIOUS
    <2>1. offset <= end
        BY <1>1 DEF end
    <2>2. CASE k <= end
        <3>1. k \in 1 .. end
            BY <1>1, <2>2
        <3>2. new[k] = IF k <= offset THEN head[k] ELSE data[k - offset]
            BY <1>4, <1>5, <2>2, <3>1
        <3> QED
            BY <1>1, <1>2, <2>2, <3>1, <3>2
    <2>3. CASE k > end
        <3>1. k - end \in 1 .. Len(old) - end /\ end + (k - end) = k
            BY <1>1, <1>6, <2>3
        <3> QED
            BY <1>1, <1>3, <1>5, <2>3, <3>1
    <2> QED
        BY <1>1, <1>5, <2>2, <2>3
<1> QED
    BY <1>0, <1>5, <1>6, <1>7 DEF end

\* The contents of a file, as the sequence that FileStore sees.
FileBytes == {fs_data[a] : a \in Bytes}

LEMMA AddressInData ==
    ASSUME NEW block \in Blocks, NEW x \in 0 .. BLOCK_SIZE - 1
    PROVE  Address(block, x) \in Bytes
<1>1. x \in Nat /\ x + 1 <= BLOCK_SIZE
    BY BlockSizeNat
<1>2. Address(block, x) \in BytesAt(block, x, 1)
    <2>1. Address(block, x) \in Int
        <3>1. \A k, m \in Nat : k * m \in Nat
            BY Z3
        <3> QED
            BY <1>1, <3>1, BlockSizeNat DEF Address, Blocks
    <2> QED
        BY <2>1 DEF BytesAt
<1> QED
    BY <1>1, <1>2, FileInData

LEMMA ContentsSeq ==
    IInv => \A s \in UsedSlots :
                /\ Contents(d_inumber[s]) \in Seq(FileBytes)
                /\ Len(Contents(d_inumber[s])) = i_size[d_inumber[s]]
<1> SUFFICES ASSUME IInv, NEW s \in UsedSlots
             PROVE  /\ Contents(d_inumber[s]) \in Seq(FileBytes)
                    /\ Len(Contents(d_inumber[s])) = i_size[d_inumber[s]]
    OBVIOUS
<1> DEFINE i == d_inumber[s]
<1>1. i \in Inodes /\ Live(i)
    <2>1. i \in Inodes
        BY DEF IInv, TypeOK, UsedSlots, FreeSlots
    <2>2. Live(i)
        BY DEF IInv, DirectoryExact
    <2> QED
        BY <2>1, <2>2
<1>2. i_size[i] \in 0 .. BLOCK_SIZE
    BY <1>1 DEF IInv, TypeOK
<1>3. Contents(i) = [k \in 1 .. i_size[i] |-> Contents(i)[k]]
    BY DEF Contents
<1>4. ASSUME NEW k \in 1 .. i_size[i] PROVE Contents(i)[k] \in FileBytes
    <2>1. i_size[i] > 0 /\ k - 1 \in 0 .. BLOCK_SIZE - 1
        BY <1>2, BlockSizeNat
    <2>2. i_data_block[i] \in Blocks
        BY <1>1, <2>1 DEF IInv, FilesOwnBlocks
    <2>3. Contents(i)[k] = fs_data[Address(i_data_block[i], k - 1)]
        BY DEF Contents
    <2> QED
        BY <2>1, <2>2, <2>3, AddressInData DEF FileBytes
<1> HIDE DEF i
<1>5. i_size[i] \in Nat
    BY <1>2, BlockSizeNat
<1> QED
    BY <1>3, <1>4, <1>5, FunctionSeq DEF i

\* No byte is in two blocks.
LEMMA AddressApart ==
    ASSUME NEW b \in Blocks, NEW c \in Blocks, b # c,
           NEW x \in 0 .. BLOCK_SIZE - 1, NEW y \in 0 .. BLOCK_SIZE - 1
    PROVE  Address(b, x) # Address(c, y)
<1>1. \A k, m, z \in Nat : k + 1 <= m => k * z \in Nat /\ m * z \in Nat /\ k * z + z <= m * z
    BY Z3
<1>2. b \in Nat /\ c \in Nat /\ BLOCK_SIZE \in Nat /\ (b + 1 <= c \/ c + 1 <= b)
    BY BlockSizeNat, SizeAssumption DEF Blocks
<1>3. \/ b * BLOCK_SIZE + BLOCK_SIZE <= c * BLOCK_SIZE
      \/ c * BLOCK_SIZE + BLOCK_SIZE <= b * BLOCK_SIZE
    BY <1>1, <1>2
<1>4. b * BLOCK_SIZE \in Nat /\ c * BLOCK_SIZE \in Nat
    BY <1>1, <1>2
<1> DEFINE startb == b * BLOCK_SIZE
           startc == c * BLOCK_SIZE
<1>5. Address(b, x) = startb + x /\ Address(c, y) = startc + y
    BY DEF Address
<1>6. startb + BLOCK_SIZE <= startc \/ startc + BLOCK_SIZE <= startb
    BY <1>3
<1>7. startb \in Nat /\ startc \in Nat
    BY <1>4
<1> HIDE DEF startb, startc
<1> QED
    BY <1>2, <1>5, <1>6, <1>7

\* What memcpy leaves in each block.
LEMMA CopiedBytes ==
    ASSUME NEW h, NEW block \in Blocks, NEW buf, NEW n \in Nat,
           NEW offset \in Nat, offset = of_offset[h], offset + n <= BLOCK_SIZE,
           CopyIn(h, block, buf, n),
           NEW c \in Blocks, NEW x \in 0 .. BLOCK_SIZE - 1
    PROVE  fs_data'[Address(c, x)] =
                IF c = block /\ x \in offset .. offset + n - 1
                THEN buf[x - offset + 1]
                ELSE fs_data[Address(c, x)]
<1> DEFINE a == Address(c, x)
           start == Address(block, offset)
<1>1. a \in Bytes
    BY AddressInData
<1>2. fs_data'[a] = IF a \in BytesAt(block, offset, n) THEN buf[a - start + 1] ELSE fs_data[a]
    BY <1>1 DEF CopyIn
<1>3. BytesAt(block, offset, n) = start .. start + n - 1
    BY DEF BytesAt
<1>4. block * BLOCK_SIZE \in Nat
    <2>1. \A k, m \in Nat : k * m \in Nat
        BY Z3
    <2> QED
        BY <2>1, BlockSizeNat DEF Blocks
<1>5. CASE c = block
    <2> DEFINE base == block * BLOCK_SIZE
    <2>1. a = base + x /\ start = base + offset /\ base \in Nat
        BY <1>4, <1>5 DEF Address
    <2> HIDE DEF base, a, start
    <2>2. a \in start .. start + n - 1 <=> x \in offset .. offset + n - 1
        BY <2>1
    <2>3. a - start + 1 = x - offset + 1
        BY <2>1
    <2> QED
        BY <1>2, <1>3, <1>5, <2>2, <2>3 DEF a
<1>6. CASE c # block
    <2>1. a \notin BytesAt(block, offset, n)
        <3> SUFFICES ASSUME a \in start .. start + n - 1 PROVE FALSE
            BY <1>3
        <3> DEFINE y == a - block * BLOCK_SIZE
        <3>1. start = block * BLOCK_SIZE + offset
            BY DEF Address
        <3>2. a = block * BLOCK_SIZE + y
            BY <1>4, <3>1
        <3>3. y \in 0 .. BLOCK_SIZE - 1
            BY <1>4, <3>1, BlockSizeNat
        <3>4. a = Address(block, y)
            BY <3>2 DEF Address
        <3> HIDE DEF y
        <3> QED
            BY <1>6, <3>3, <3>4, AddressApart
    <2> QED
        BY <1>2, <1>6, <2>1
<1> QED
    BY <1>5, <1>6

------------------------------------------------------------------------------
(* Each operation is one of FileStore's, or changes nothing that it shows   *)

LEMMA EntriesApart ==
    ASSUME IInv, NEW s \in UsedSlots, NEW t \in UsedSlots, s # t
    PROVE  d_name[s] # d_name[t] /\ d_inumber[s] # d_inumber[t]
BY DEF IInv, DirectoryExact

\* FileStore's operations in terms of the mapping.
LEMMA StoreOpen ==
    ASSUME NEW name, NEW offset, name \in DOMAIN Files, offset \in {0, Len(Files[name])},
           Store!OpenAt(name, offset), Files' = Files
    PROVE  Store!Open(name)
BY DEF Store!Open, Files, UsedNames

LEMMA StoreTruncate ==
    ASSUME NEW name, name \in DOMAIN Files, ~ Store!IsOpen(name),
           Store!OpenAt(name, 0), Files' = [Files EXCEPT ![name] = << >>]
    PROVE  Store!Truncate(name)
BY DEF Store!Truncate, Files, UsedNames

\* What FileStore sees of the directory: a name is a file's when it is used.
LEMMA ExistingFile ==
    ASSUME CInv, NEW s \in Slots, NEW name \in Paths, FoundIn(s, name)
    PROVE  /\ name \in DOMAIN Files
           /\ Files[name] = Contents(d_inumber[s])
           /\ Len(Files[name]) = i_size[d_inumber[s]]
           /\ Len(Files[name]) \in Nat
<1>1. s \in UsedSlots /\ d_name[s] = name /\ d_inumber[s] \in Inodes
    BY FoundLive DEF CInv
<1>2. i_size[d_inumber[s]] \in 0 .. BLOCK_SIZE
    BY <1>1 DEF CInv, IInv, TypeOK
<1> QED
    BY <1>1, <1>2, BlockSizeNat, Mapped, ContentsSeq DEF CInv, FilesMapped, UsedNames

\* No handle of the abstract store is of a file whose inode has none.
LEMMA NoHandleOfName ==
    ASSUME CInv, NEW s \in UsedSlots, ~ IsOpen(d_inumber[s])
    PROVE  ~ Store!IsOpen(d_name[s])
<1>1. ASSUME NEW h \in Handles, HandleOf(h) # Closed, HandleOf(h).name = d_name[s]
      PROVE  FALSE
    <2>1. Opened(h)
        BY <1>1 DEF HandleOf
    <2>2. HandleOf(h).name = NameOf(of_inumber[h])
        BY <2>1, HandleEntry
    <2>3. PICK t \in UsedSlots : d_inumber[t] = of_inumber[h] /\ d_name[t] = NameOf(of_inumber[h])
        BY <2>1, HandleEntry
    <2>4. t = s
        BY <1>1, <2>2, <2>3, EntriesApart DEF CInv
    <2> QED
        BY <1>1, <2>1, <2>3, <2>4 DEF IsOpen
<1> QED
    BY <1>1 DEF Store!IsOpen, HandleOf

LEMMA OpenExistingRefines ==
    ASSUME CInv, CInv', Careful, NEW name \in Names, NEW mode, NEW ret,
           OpenExisting(name, mode, ret)
    PROVE  Store!Open(name) \/ Store!Truncate(name)
<1> DEFINE size(inum) == IF "TFS_O_TRUNC" \in mode THEN 0 ELSE i_size[inum]
<1>1. PICK s \in Slots :
        /\ FoundIn(s, name)
        /\ IF "TFS_O_TRUNC" \in mode
             THEN /\ FreeBlockOf(d_inumber[s])
                  /\ i_size' = [i_size EXCEPT ![d_inumber[s]] = 0]
             ELSE UNCHANGED <<free_blocks, i_size>>
        /\ AddToOpenFileTable(d_inumber[s],
                IF "TFS_O_APPEND" \in mode THEN size(d_inumber[s]) ELSE 0, ret)
        /\ UNCHANGED <<freeinode_ts, i_data_block, fs_data, dirVars, process>>
    BY DEF OpenExisting
<1> DEFINE inum == d_inumber[s]
           offset == IF "TFS_O_APPEND" \in mode THEN size(inum) ELSE 0
<1>2. s \in UsedSlots /\ d_name[s] = name /\ inum \in Inodes
    BY <1>1, FoundLive DEF CInv
<1>3. /\ name \in DOMAIN Files
      /\ Files[name] = Contents(inum)
      /\ Len(Files[name]) = i_size[inum]
      /\ i_size[inum] \in Nat
    BY <1>1, ExistingFile DEF Paths
<1>4. OpenEntriesStay /\ s \in UsedSlots' /\ d_inumber'[s] = inum /\ d_name'[s] = name
    BY <1>1, <1>2 DEF OpenEntriesStay, dirVars, UsedSlots, FreeSlots
<1>5. PICK o \in Nat : o = offset /\ Store!OpenAt(name, o)
    <2>1. PICK o \in Nat : o = offset
        BY <1>3
    <2>2. PICK i \in Inodes : i = inum
        BY <1>2
    <2>3. AddToOpenFileTable(i, o, ret)
        BY <1>1, <2>1, <2>2
    <2>4. Store!OpenAt(name, o)
        BY <1>4, <2>2, <2>3, OpensAt
    <2> QED
        BY <2>1, <2>4
<1>6. i_size \in [Inodes -> 0 .. BLOCK_SIZE]
    BY DEF CInv, IInv, TypeOK
<1>7. CASE "TFS_O_TRUNC" \notin mode \/ i_size[inum] = 0
    <2>1. offset \in {0, Len(Files[name])}
        BY <1>3, <1>7
    <2>2. UNCHANGED i_size
        BY <1>1, <1>6, <1>7
    <2>3. UNCHANGED Files
        <3>1. \A i \in Inodes : Contents(i)' = Contents(i)
            BY <1>1, <2>2 DEF Contents
        <3> QED
            BY <1>1, <3>1, FilesKept DEF CInv
    <2> QED
        BY <1>3, <1>5, <2>1, <2>3, StoreOpen
<1>8. CASE "TFS_O_TRUNC" \in mode /\ i_size[inum] > 0
    <2>1. offset = 0
        BY <1>8
    <2>2. i_size'[inum] = 0
        BY <1>1, <1>2, <1>6, <1>8
    <2>3. ~ IsOpen(inum)
        BY <1>2, <1>3, <1>8, <2>2 DEF Careful
    <2>4. Files' = [Files EXCEPT ![name] = << >>]
        <3>1. UsedSlots' = UsedSlots /\ UsedNames' = UsedNames /\ UNCHANGED dirVars
            BY <1>1 DEF dirVars, UsedSlots, FreeSlots, UsedNames
        <3>2. \A t \in UsedSlots : Files'[d_name[t]] = Contents(d_inumber[t])'
            BY <3>1, MappedNext DEF CInv, FilesMapped, dirVars
        <3>3. ASSUME NEW t \in UsedSlots
              PROVE  Files'[d_name[t]] = IF d_name[t] = name THEN << >> ELSE Files[d_name[t]]
            <4>1. PICK i \in Inodes : i = d_inumber[t] /\ i = d_inumber'[t]
                BY <3>1 DEF dirVars, CInv, IInv, TypeOK, UsedSlots, FreeSlots
            <4>2. Contents(d_inumber[t])' = Contents(i)'
                BY <4>1 DEF Contents
            <4>3. CASE t = s
                <5>1. i = inum /\ i_size'[i] = 0
                    BY <2>2, <4>1, <4>3
                <5>2. Contents(i)' = << >>
                    BY <5>1 DEF Contents
                <5> QED
                    BY <1>2, <3>2, <4>2, <4>3, <5>2
            <4>4. CASE t # s
                <5>1. i # inum /\ d_name[t] # name
                    BY <1>2, <4>1, <4>4, EntriesApart DEF CInv
                <5>2. i_size'[i] = i_size[i]
                    BY <1>1, <1>6, <1>8, <5>1
                <5>3. Contents(i)' = Contents(i)
                    BY <1>1, <5>2 DEF Contents
                <5>4. Files[d_name[t]] = Contents(i)
                    BY <4>1, Mapped DEF CInv, FilesMapped
                <5> QED
                    BY <3>2, <4>2, <5>1, <5>3, <5>4
            <4> QED
                BY <4>3, <4>4
        <3>4. \A nm \in UsedNames : Files'[nm] = IF nm = name THEN << >> ELSE Files[nm]
            BY <3>3 DEF UsedNames
        <3>5. /\ Files = [nm \in UsedNames |-> Files[nm]]
              /\ Files' = [nm \in UsedNames' |-> Files'[nm]]
            BY DEF Files
        <3> QED
            BY <1>3, <3>1, <3>4, <3>5
    <2>5. ~ Store!IsOpen(name)
        BY <1>2, <2>3, NoHandleOfName
    <2> QED
        BY <1>3, <1>5, <2>1, <2>4, <2>5, StoreTruncate
<1> QED
    BY <1>3, <1>7, <1>8

LEMMA StoreCreate ==
    ASSUME NEW name, name \notin DOMAIN Files, Store!OpenAt(name, 0),
           Files' = [n \in DOMAIN Files \cup {name} |-> IF n = name THEN << >> ELSE Files[n]]
    PROVE  Store!Create(name)
BY DEF Store!Create, Files, UsedNames

\* A step that adds or removes an entry and leaves the others' contents.
LEMMA OtherFilesKept ==
    ASSUME IInv, IInv', NEW s \in UsedSlots, s \in UsedSlots',
           d_inumber'[s] = d_inumber[s], d_name'[s] = d_name[s],
           \A i \in Inodes : i = d_inumber[s] => Contents(i)' = Contents(i)
    PROVE  Files'[d_name[s]] = Files[d_name[s]]
<1>1. PICK i \in Inodes : i = d_inumber[s] /\ i = d_inumber'[s]
    BY DEF IInv, TypeOK, UsedSlots, FreeSlots
<1>2. Contents(d_inumber[s])' = Contents(i)'
    BY <1>1 DEF Contents
<1>3. Files'[d_name'[s]] = Contents(i)'
    BY <1>2, MappedNext DEF FilesMapped
<1>4. Files[d_name[s]] = Contents(i)
    BY <1>1, Mapped DEF FilesMapped
<1> QED
    BY <1>1, <1>3, <1>4

LEMMA OpenCreateRefines ==
    ASSUME CInv, CInv', NEW name \in Names, NEW mode, NEW ret, OpenCreate(name, mode, ret)
    PROVE  Store!Create(name)
<1>1. PICK inum \in Inodes :
        /\ IsFirst(inum, FreeInodes)
        /\ freeinode_ts' = [freeinode_ts EXCEPT ![inum] = "TAKEN"]
        /\ ResetInode(inum)
        /\ AddDirEntry(name, inum)
        /\ AddToOpenFileTable(inum, 0, ret)
    BY DEF OpenCreate
<1>2. PICK s \in Slots :
        /\ IsFirst(s, FreeSlots)
        /\ d_inumber' = [d_inumber EXCEPT ![s] = inum]
        /\ d_name' = [d_name EXCEPT ![s] = name]
    BY <1>1 DEF AddDirEntry
<1>3. ~ InDir(name) /\ UNCHANGED <<blockVars, process>>
    BY DEF OpenCreate
<1>4. InodeType /\ DirType
    BY TypeParts DEF CInv, IInv
<1>5. s \in FreeSlots /\ UsedSlots' = UsedSlots \cup {s}
    BY <1>2, <1>4 DEF UsedSlots, FreeSlots, IsFirst, DirType, Inodes
<1>6. /\ d_inumber'[s] = inum /\ d_name'[s] = name
      /\ \A t \in UsedSlots : t # s /\ d_inumber'[t] = d_inumber[t] /\ d_name'[t] = d_name[t]
    BY <1>2, <1>4, <1>5 DEF UsedSlots, DirType
<1>7. OpenEntriesStay
    BY <1>5, <1>6 DEF OpenEntriesStay
<1>8. Store!OpenAt(name, 0)
    BY <1>1, <1>5, <1>6, <1>7, OpensAt
<1>9. name \notin UsedNames
    BY <1>3 DEF UsedNames, UsedSlots, FreeSlots, InDir
<1>10. UsedNames' = UsedNames \cup {name}
    <2>1. UsedNames' = {d_name'[t] : t \in UsedSlots'}
        BY DEF UsedNames
    <2> QED
        BY <1>5, <1>6, <2>1 DEF UsedNames
<1>11. Files'[name] = << >>
    <2>1. Files'[name] = Contents(d_inumber[s])'
        BY <1>5, <1>6, MappedNext DEF CInv, FilesMapped
    <2>2. i_size'[d_inumber'[s]] = 0
        BY <1>1, <1>4, <1>6 DEF ResetInode, InodeType
    <2>3. Contents(d_inumber[s])' = << >>
        BY <2>2 DEF Contents
    <2> QED
        BY <2>1, <2>3
<1>12. ASSUME NEW t \in UsedSlots
       PROVE  Files'[d_name[t]] = Files[d_name[t]]
    <2>1. \A i \in Inodes : i = d_inumber[t] => i # inum
        BY <1>1 DEF CInv, IInv, DirectoryExact, Live, IsFirst, FreeInodes
    <2>2. \A i \in Inodes : i = d_inumber[t] =>
                i_size'[i] = i_size[i] /\ i_data_block'[i] = i_data_block[i]
        BY <1>1, <1>4, <2>1 DEF ResetInode, InodeType
    <2>3. \A i \in Inodes : i = d_inumber[t] => Contents(i)' = Contents(i)
        BY <1>3, <2>2 DEF Contents, blockVars
    <2> QED
        BY <1>5, <1>6, <2>3, OtherFilesKept DEF CInv
<1>13. Files' = [n \in DOMAIN Files \cup {name} |-> IF n = name THEN << >> ELSE Files[n]]
    <2>1. \A n \in UsedNames : Files'[n] = Files[n]
        BY <1>12 DEF UsedNames
    <2>2. DOMAIN Files = UsedNames /\ Files' = [n \in UsedNames' |-> Files'[n]]
        BY DEF Files
    <2> QED
        BY <1>9, <1>10, <1>11, <2>1, <2>2
<1> QED
    BY <1>8, <1>9, <1>13, StoreCreate DEF Files

LEMMA OpenNoEntryRefines ==
    ASSUME CInv, CInv', NEW name, NEW mode, NEW ret, OpenNoEntry(name, mode, ret)
    PROVE  UNCHANGED <<Files, FileHandles>>
<1>1. PICK inum \in Inodes : IsFirst(inum, FreeInodes) /\ ResetInode(inum)
    BY DEF OpenNoEntry
<1>2. UNCHANGED <<freeinode_ts, blockVars, dirVars, openVars>>
    BY DEF OpenNoEntry
<1>3. InodeType
    BY TypeParts DEF CInv, IInv
<1>4. UNCHANGED FileHandles
    BY <1>2, FileHandlesKept DEF OpenEntriesStay, dirVars, UsedSlots, FreeSlots
<1>5. ASSUME NEW s \in UsedSlots, NEW i \in Inodes, i = d_inumber[s]
      PROVE  Contents(i)' = Contents(i)
    <2>1. i # inum
        BY <1>1, <1>5 DEF CInv, IInv, DirectoryExact, Live, IsFirst, FreeInodes
    <2>2. i_size'[i] = i_size[i] /\ i_data_block'[i] = i_data_block[i]
        BY <1>1, <1>3, <2>1 DEF ResetInode, InodeType
    <2> QED
        BY <1>2, <2>2 DEF Contents, blockVars
<1> QED
    BY <1>2, <1>4, <1>5, FilesKept DEF CInv

\* The contents stay when the inodes and the blocks do.
LEMMA TablesKept ==
    ASSUME CInv, CInv', UNCHANGED <<inodeVars, blockVars, dirVars>>
    PROVE  UNCHANGED Files /\ OpenEntriesStay
<1>1. \A i \in Inodes : Contents(i)' = Contents(i)
    BY DEF Contents, inodeVars, blockVars
<1>2. OpenEntriesStay
    BY DEF OpenEntriesStay, dirVars, UsedSlots, FreeSlots
<1> QED
    BY <1>1, <1>2, FilesKept DEF CInv

LEMMA StutterRefines ==
    ASSUME CInv, CInv', UNCHANGED vars
    PROVE  UNCHANGED <<Files, FileHandles>>
BY TablesKept, FileHandlesKept DEF vars

LEMMA CloseRefines ==
    ASSUME CInv, CInv', NEW h, NEW ret, Close(h, ret)
    PROVE  (h \in Handles /\ Store!Close(h)) \/ UNCHANGED <<Files, FileHandles>>
<1>1. UNCHANGED Files /\ OpenEntriesStay
    BY TablesKept DEF Close
<1>2. CASE UNCHANGED openVars
    BY <1>1, <1>2, FileHandlesKept
<1>3. CASE /\ Opened(h)
           /\ free_open_file_entries' = [free_open_file_entries EXCEPT ![h] = "FREE"]
           /\ UNCHANGED <<of_inumber, of_offset>>
    <2>1. OpenType /\ h \in Handles
        BY <1>3, TypeParts DEF CInv, IInv, Opened
    <2>2. HandleOf(h) # Closed /\ HandleOf(h)' = Closed
        BY <1>3, <2>1, HandleEntry DEF HandleOf, Opened, OpenType, Closed
    <2>3. ASSUME NEW g \in Handles, g # h PROVE HandleOf(g)' = HandleOf(g)
        <3>1. /\ Opened(g)' <=> Opened(g)
              /\ of_inumber'[g] = of_inumber[g] /\ of_offset'[g] = of_offset[g]
            BY <1>3, <2>1, <2>3 DEF OpenType, Opened
        <3> QED
            BY <1>1, <3>1, HandleKept, HandleEntry DEF HandleOf, Closed
    <2>4. FileHandles' = [FileHandles EXCEPT ![h] = Closed]
        BY <2>1, <2>2, <2>3 DEF FileHandles
    <2>5. FileHandles[h] # Closed
        BY <2>1, <2>2 DEF FileHandles
    <2>6. Store!Close(h)
        BY <1>1, <2>4, <2>5 DEF Store!Close, FileHandles, HandleOf, Files, UsedNames
    <2> QED
        BY <2>1, <2>6
<1> QED
    BY <1>2, <1>3 DEF Close

\* A step that moves the offset of one handle, and no other.
LEMMA HandleMoved ==
    ASSUME CInv, CInv', OpenEntriesStay, NEW h, Opened(h), NEW end,
           of_offset' = [of_offset EXCEPT ![h] = end],
           UNCHANGED <<free_open_file_entries, of_inumber>>
    PROVE  FileHandles' = [FileHandles EXCEPT ![h] =
                             [name |-> NameOf(of_inumber[h]), offset |-> end]]
<1>1. OpenType /\ h \in Handles
    BY TypeParts DEF CInv, IInv, Opened
<1>2. HandleOf(h)' = [name |-> NameOf(of_inumber[h]), offset |-> end]
    BY <1>1, HandleKept DEF OpenType, Opened
<1>3. ASSUME NEW g \in Handles, g # h PROVE HandleOf(g)' = HandleOf(g)
    <2>1. /\ Opened(g)' <=> Opened(g)
          /\ of_inumber'[g] = of_inumber[g] /\ of_offset'[g] = of_offset[g]
        BY <1>1, <1>3 DEF OpenType, Opened
    <2> QED
        BY <2>1, HandleKept, HandleEntry DEF HandleOf, Closed
<1> QED
    BY <1>1, <1>2, <1>3 DEF FileHandles

\* What FileStore sees of the file of an open handle.
LEMMA HandleFile ==
    ASSUME CInv, NEW h, Opened(h)
    PROVE  LET name == NameOf(of_inumber[h])
           IN  /\ h \in Handles
               /\ FileHandles[h] = [name |-> name, offset |-> of_offset[h]]
               /\ FileHandles[h] # Closed
               /\ name \in UsedNames
               /\ Files[name] = Contents(of_inumber[h])
               /\ Files[name] \in Seq(FileBytes)
               /\ Len(Files[name]) = i_size[of_inumber[h]]
<1>1. PICK s \in UsedSlots : d_inumber[s] = of_inumber[h] /\ d_name[s] = NameOf(of_inumber[h])
    BY HandleEntry
<1>2. d_name[s] \in UsedNames /\ Files[d_name[s]] = Contents(d_inumber[s])
    BY Mapped DEF CInv, FilesMapped, UsedNames
<1>3. /\ Contents(d_inumber[s]) \in Seq(FileBytes)
      /\ Len(Contents(d_inumber[s])) = i_size[d_inumber[s]]
    BY ContentsSeq DEF CInv
<1>4. h \in Handles /\ FileHandles[h] = HandleOf(h)
    BY HandleEntry DEF FileHandles
<1> QED
    BY <1>1, <1>2, <1>3, <1>4, HandleEntry

LEMMA StoreRead ==
    ASSUME NEW h, NEW n, FileHandles[h] # Closed,
           FileHandles[h].offset + n <= Len(Files[FileHandles[h].name]),
           FileHandles' = [FileHandles EXCEPT ![h].offset = @ + n],
           UNCHANGED Files
    PROVE  Store!Read(h, n)
BY DEF Store!Read, Files, UsedNames, FileHandles, HandleOf

LEMMA ReadRefines ==
    ASSUME CInv, CInv', NEW h, NEW n, ReadOn(h, n)
    PROVE  h \in Handles /\ n \in 1 .. BLOCK_SIZE /\ Store!Read(h, n)
<1> DEFINE inum == of_inumber[h]
           name == NameOf(inum)
<1>1. UNCHANGED Files /\ OpenEntriesStay /\ Opened(h)
    BY TablesKept DEF ReadOn
<1>2. /\ h \in Handles
      /\ FileHandles[h] = [name |-> name, offset |-> of_offset[h]]
      /\ FileHandles[h] # Closed
      /\ Len(Files[name]) = i_size[inum]
    BY <1>1, HandleFile
<1>3. PICK end : end = of_offset[h] + n
    OBVIOUS
<1>4. FileHandles' = [FileHandles EXCEPT ![h] = [name |-> name, offset |-> end]]
    <2>1. /\ of_offset' = [of_offset EXCEPT ![h] = end]
          /\ UNCHANGED <<free_open_file_entries, of_inumber>>
        BY <1>3 DEF ReadOn
    <2> QED
        BY <1>1, <2>1, HandleMoved
<1>5. n \in 1 .. BLOCK_SIZE /\ end <= i_size[inum]
    <2>1. i_size[inum] \in 0 .. BLOCK_SIZE /\ of_offset[h] \in 0 .. BLOCK_SIZE
        BY <1>1, HandleTypes DEF CInv
    <2>2. n \in Nat \ {0} /\ of_offset[h] + n <= i_size[inum]
        BY DEF ReadOn
    <2> QED
        BY <1>3, <2>1, <2>2, BlockSizeNat
<1>6. /\ FileHandles[h].offset + n <= Len(Files[FileHandles[h].name])
      /\ FileHandles' = [FileHandles EXCEPT ![h].offset = @ + n]
    <2> HIDE DEF name, inum
    <2>1. FileHandles[h].offset = of_offset[h] /\ FileHandles[h].name = name
        BY <1>2
    <2>2. [FileHandles[h] EXCEPT !.offset = @ + n] = [name |-> name, offset |-> end]
        BY <1>2, <1>3
    <2> QED
        BY <1>2, <1>3, <1>4, <1>5, <2>1, <2>2
<1> QED
    BY <1>1, <1>2, <1>5, <1>6, StoreRead

LEMMA StoreRemove ==
    ASSUME NEW name, name \in DOMAIN Files, ~ Store!IsOpen(name),
           Files' = [n \in DOMAIN Files \ {name} |-> Files[n]], UNCHANGED FileHandles
    PROVE  Store!Remove(name)
BY DEF Store!Remove, Files, UsedNames, FileHandles, HandleOf

LEMMA UnlinkExistingRefines ==
    ASSUME CInv, CInv', Careful, NEW name, NEW ret, UnlinkExisting(name, ret)
    PROVE  name \in Names /\ Store!Remove(name)
<1>1. PICK s \in Slots :
        /\ FoundIn(s, name)
        /\ freeinode_ts' = [freeinode_ts EXCEPT ![d_inumber[s]] = "FREE"]
        /\ ClearDirEntry(name)
        /\ UNCHANGED <<i_size, i_data_block, fs_data, openVars, process>>
    BY DEF UnlinkExisting
<1>2. d_inumber' = [d_inumber EXCEPT ![s] = -1] /\ d_name' = [d_name EXCEPT ![s] = NoName]
    <2>1. PICK t \in Slots :
            /\ IsFirst(t, {u \in Slots : d_name[u] = name})
            /\ d_inumber' = [d_inumber EXCEPT ![t] = -1]
            /\ d_name' = [d_name EXCEPT ![t] = NoName]
        BY <1>1 DEF ClearDirEntry
    <2>2. s = t
        BY <1>1, <2>1, ClearsTheFound DEF CInv
    <2> QED
        BY <2>1, <2>2
<1> DEFINE inum == d_inumber[s]
<1>3. inum \in Inodes /\ s \in UsedSlots /\ d_name[s] = name
    BY <1>1, FoundLive DEF CInv
<1>4. InodeType /\ DirType
    BY TypeParts DEF CInv, IInv
<1>5. name \in Names
    BY <1>3 DEF CInv, IInv, DirectoryExact
<1>6. ~ IsOpen(inum)
    BY <1>1, <1>3, <1>4 DEF Careful, InodeType
<1>7. UsedSlots' = UsedSlots \ {s}
    BY <1>2, <1>4 DEF UsedSlots, FreeSlots, DirType
<1>8. \A t \in UsedSlots' : /\ t \in UsedSlots /\ t # s
                            /\ d_inumber'[t] = d_inumber[t] /\ d_name'[t] = d_name[t]
    BY <1>2, <1>4, <1>7 DEF DirType, UsedSlots
<1>9. OpenEntriesStay
    BY <1>6, <1>7, <1>8 DEF OpenEntriesStay, IsOpen
<1>10. UNCHANGED FileHandles
    BY <1>1, <1>9, FileHandlesKept
<1>11. UsedNames' = UsedNames \ {name}
    <2>1. UsedNames' = {d_name'[t] : t \in UsedSlots'}
        BY DEF UsedNames
    <2>2. \A t \in UsedSlots : t # s => d_name[t] # name
        BY <1>3, EntriesApart DEF CInv
    <2> QED
        BY <1>3, <1>7, <1>8, <2>1, <2>2 DEF UsedNames
<1>12. ASSUME NEW t \in UsedSlots'
       PROVE  Files'[d_name[t]] = Files[d_name[t]]
    <2>1. \A i \in Inodes : Contents(i)' = Contents(i)
        BY <1>1 DEF Contents
    <2> QED
        BY <1>8, <2>1, OtherFilesKept DEF CInv
<1>13. Files' = [n \in DOMAIN Files \ {name} |-> Files[n]]
    <2>1. \A n \in UsedNames' : Files'[n] = Files[n]
        <3>1. UsedNames' = {d_name'[t] : t \in UsedSlots'}
            BY DEF UsedNames
        <3> QED
            BY <1>8, <1>12, <3>1
    <2>2. DOMAIN Files = UsedNames /\ Files' = [n \in UsedNames' |-> Files'[n]]
        BY DEF Files
    <2> QED
        BY <1>11, <2>1, <2>2
<1>14. name \in DOMAIN Files
    BY <1>3 DEF Files, UsedNames
<1>15. ~ Store!IsOpen(name)
    BY <1>3, <1>6, NoHandleOfName
<1> QED
    BY <1>5, <1>10, <1>13, <1>14, <1>15, StoreRemove

LEMMA StoreWrite ==
    ASSUME NEW h, NEW data, NEW name, NEW offset,
           FileHandles[h] # Closed,
           FileHandles[h].name = name, FileHandles[h].offset = offset,
           offset + Len(data) <= BLOCK_SIZE,
           Files' = [Files EXCEPT ![name] = Spliced(Files[name], data, offset)],
           FileHandles' = [FileHandles EXCEPT ![h] =
                             [name |-> name, offset |-> offset + Len(data)]]
    PROVE  Store!Write(h, data)
BY DEF Store!Write, Store!At, Spliced, Files, UsedNames, FileHandles, HandleOf

\* The file that is written: the contents that FileStore gives it.
LEMMA WrittenContents ==
    ASSUME CInv, NEW h, NEW buf, NEW n \in Nat, NEW block \in Blocks,
           CopyTo(h, buf, n, block)
    PROVE  \A i, offset, data :
            i = of_inumber[h] /\ offset = of_offset[h] /\ data = [k \in 1 .. n |-> buf[k]] =>
                Contents(i)' = Spliced(Contents(i), data, offset)
<1>0. SUFFICES ASSUME NEW i, NEW offset, NEW data,
                      /\ i = of_inumber[h] /\ offset = of_offset[h]
                      /\ data = [k \in 1 .. n |-> buf[k]]
               PROVE  Contents(i)' = Spliced(Contents(i), data, offset)
    OBVIOUS
<1>1. /\ i \in Inodes
      /\ i_size[i] \in 0 .. BLOCK_SIZE /\ offset \in Nat /\ offset <= i_size[i]
      /\ n \in Nat \ {0} /\ offset + n <= BLOCK_SIZE
    <2>1. Opened(h) /\ n \in 1 .. Len(buf) /\ offset + n <= BLOCK_SIZE
        BY <1>0 DEF CopyTo
    <2>2. i \in Inodes /\ i_size[i] \in 0 .. BLOCK_SIZE /\ offset \in 0 .. BLOCK_SIZE /\ offset <= i_size[i]
        BY <1>0, <2>1, HandleTypes DEF CInv
    <2> QED
        BY <2>1, <2>2, BlockSizeNat
<1>2. i_size[i] \in Nat
    BY <1>1, BlockSizeNat
<1>3. PICK old : old = Contents(i)
    OBVIOUS
<1>4. old \in Seq(FileBytes) /\ Len(old) = i_size[i]
    BY <1>0, <1>3, HandleFile DEF CopyTo
<1>5. PICK S : S = FileBytes \cup {buf[k] : k \in 1 .. n}
    OBVIOUS
<1>6. data \in Seq(S) /\ Len(data) = n
    <2>1. data = [k \in 1 .. n |-> buf[k]] /\ n \in Nat
        BY <1>0, <1>1
    <2>2. \A k \in 1 .. n : buf[k] \in S
        BY <1>5, Zenon
    <2> QED
        BY <2>1, <2>2, FunctionSeq
<1>7. old \in Seq(S)
    BY <1>4, <1>5
<1>8. PICK new : new = Spliced(old, data, offset)
    OBVIOUS
<1>9. /\ new \in Seq(S)
      /\ Len(new) = IF offset + n > i_size[i] THEN offset + n ELSE i_size[i]
      /\ \A k \in 1 .. Len(new) :
            new[k] = IF k <= offset \/ k > offset + n THEN old[k] ELSE data[k - offset]
    <2>1. offset \in 0 .. Len(old)
        BY <1>1, <1>2, <1>4
    <2>2. /\ new \in Seq(S)
          /\ Len(new) = IF offset + Len(data) > Len(old) THEN offset + Len(data) ELSE Len(old)
          /\ \A k \in 1 .. Len(new) :
                new[k] = IF k <= offset \/ k > offset + Len(data)
                         THEN old[k] ELSE data[k - offset]
        <3>1. data \in Seq(S)
            BY <1>6
        <3>2. /\ Spliced(old, data, offset) \in Seq(S)
              /\ Len(Spliced(old, data, offset)) =
                    IF offset + Len(data) > Len(old) THEN offset + Len(data) ELSE Len(old)
              /\ \A k \in 1 .. Len(Spliced(old, data, offset)) :
                    Spliced(old, data, offset)[k] =
                        IF k <= offset \/ k > offset + Len(data)
                        THEN old[k] ELSE data[k - offset]
            BY <1>7, <2>1, <3>1, Splice
        <3> QED
            BY <1>8, <3>2, Zenon
    <2> QED
        BY <1>4, <1>6, <2>2
<1>10. i_size'[i] = Len(new) /\ i_size'[i] \in 1 .. BLOCK_SIZE
    BY <1>0, <1>1, <1>2, <1>9, CopyGrows, BlockSizeNat
<1>11. i_data_block'[i] = block
    BY <1>0, <1>1 DEF CopyTo, CInv, IInv, TypeOK
<1>12. ASSUME NEW k \in 1 .. i_size'[i]
       PROVE  fs_data'[Address(block, k - 1)] = new[k]
    <2>1. PICK x \in 0 .. BLOCK_SIZE - 1 : x = k - 1 /\ k \in Nat
        BY <1>10, BlockSizeNat
    <2>2. fs_data'[Address(block, x)] = IF x \in offset .. offset + n - 1
                                          THEN buf[x - offset + 1]
                                          ELSE fs_data[Address(block, x)]
        <3>1. CopyIn(h, block, buf, n)
            BY DEF CopyTo
        <3>2. of_offset[h] = offset
            BY <1>0
        <3>3. fs_data'[Address(block, x)] = IF block = block /\ x \in offset .. offset + n - 1
                                              THEN buf[x - offset + 1]
                                              ELSE fs_data[Address(block, x)]
            BY <1>1, <3>1, <3>2, CopiedBytes
        <3> QED
            BY <3>3
    <2>3. x \in offset .. offset + n - 1 <=> ~ (k <= offset \/ k > offset + n)
        BY <1>1, <2>1
    <2>4. CASE k <= offset \/ k > offset + n
        <3>1. k \in 1 .. i_size[i]
            BY <1>1, <1>2, <1>9, <1>10, <2>1, <2>4
        <3>2. i_data_block[i] = block
            BY <1>0, <1>1, <1>2, <3>1 DEF CopyTo
        <3>3. old[k] = fs_data[Address(block, k - 1)]
            BY <1>3, <3>1, <3>2 DEF Contents
        <3>4. k \in 1 .. Len(new)
            BY <1>10
        <3> QED
            BY <1>9, <2>1, <2>2, <2>3, <2>4, <3>3, <3>4
    <2>5. CASE ~ (k <= offset \/ k > offset + n)
        <3>1. x - offset + 1 = k - offset /\ k - offset \in 1 .. n
            BY <1>1, <2>1, <2>5
        <3>2. k \in 1 .. Len(new)
            BY <1>10
        <3>3. new[k] = buf[k - offset]
            BY <1>0, <1>9, <2>5, <3>1, <3>2
        <3> QED
            BY <2>1, <2>2, <2>3, <2>5, <3>1, <3>3
    <2> QED
        BY <2>4, <2>5
<1>13. Contents(i)' = [k \in 1 .. i_size'[i] |-> new[k]]
    BY <1>11, <1>12 DEF Contents
<1>14. new = [k \in 1 .. Len(new) |-> new[k]]
    BY <1>9
<1> QED
    BY <1>3, <1>8, <1>10, <1>13, <1>14

\* The files that are not written keep their contents.
LEMMA UnwrittenContents ==
    ASSUME CInv, NEW h, NEW buf, NEW n \in Nat, NEW block \in Blocks,
           CopyTo(h, buf, n, block), NEW i \in Inodes, Live(i), i # of_inumber[h]
    PROVE  Contents(i)' = Contents(i)
<1>1. i_size'[i] = i_size[i]
    BY CopyGrows
<1>2. of_inumber[h] \in Inodes /\ Live(of_inumber[h])
    BY CopyGrows
<1>3. i_data_block'[i] = i_data_block[i]
    BY <1>2 DEF CopyTo, CInv, IInv, TypeOK
<1>4. ASSUME NEW k \in 1 .. i_size[i]
      PROVE  fs_data'[Address(i_data_block'[i], k - 1)] = fs_data[Address(i_data_block[i], k - 1)]
    <2>1. i_size[i] \in 0 .. BLOCK_SIZE
        BY DEF CInv, IInv, TypeOK
    <2>2. i_size[i] > 0 /\ k - 1 \in 0 .. BLOCK_SIZE - 1
        BY <2>1, BlockSizeNat
    <2>3. i_data_block[i] \in Blocks /\ free_blocks[i_data_block[i]] = "TAKEN"
        BY <2>2 DEF CInv, IInv, FilesOwnBlocks
    <2>4. i_data_block[i] # block
        <3>1. CASE block \in FreeBlocks
            BY <2>3, <3>1 DEF FreeBlocks
        <3>2. CASE i_size[of_inumber[h]] > 0 /\ block = i_data_block[of_inumber[h]]
            BY <1>2, <2>2, <3>2 DEF CInv, IInv, FilesOwnBlocks
        <3> QED
            BY <3>1, <3>2 DEF CopyTo
    <2>5. PICK offset \in Nat :
                /\ offset = of_offset[h] /\ offset + n <= BLOCK_SIZE
                /\ CopyIn(h, block, buf, n)
        <3>1. Opened(h) /\ of_offset[h] + n <= BLOCK_SIZE /\ CopyIn(h, block, buf, n)
            BY DEF CopyTo
        <3>2. of_offset[h] \in 0 .. BLOCK_SIZE
            BY <3>1, HandleTypes DEF CInv
        <3> QED
            BY <3>1, <3>2, BlockSizeNat
    <2>6. PICK c \in Blocks, x \in 0 .. BLOCK_SIZE - 1 : c = i_data_block[i] /\ x = k - 1
        BY <2>2, <2>3
    <2>7. fs_data'[Address(c, x)] =
                IF c = block /\ x \in offset .. offset + n - 1
                THEN buf[x - offset + 1]
                ELSE fs_data[Address(c, x)]
        BY <2>5, CopiedBytes
    <2> QED
        BY <1>3, <2>4, <2>6, <2>7
<1> QED
    BY <1>1, <1>4, ContentsKept

LEMMA WriteRefines ==
    ASSUME CInv, CInv', NEW h, NEW buf \in Buffers, NEW n, NEW block \in Blocks,
           CopyTo(h, buf, n, block)
    PROVE  h \in Handles /\ \E data \in Store!Strings : Store!Write(h, data)
<1>1. /\ Opened(h) /\ n \in 1 .. Len(buf) /\ of_offset[h] + n <= BLOCK_SIZE
      /\ UNCHANGED <<freeinode_ts, dirVars, free_open_file_entries, of_inumber, process>>
    BY DEF CopyTo
<1>2. PICK i : i = of_inumber[h]
    OBVIOUS
<1>3. PICK offset : offset = of_offset[h]
    OBVIOUS
<1>4. PICK data : data = [k \in 1 .. n |-> buf[k]]
    OBVIOUS
<1>5. PICK name : name = NameOf(i)
    OBVIOUS
<1>6. /\ h \in Handles
      /\ FileHandles[h] = [name |-> name, offset |-> offset]
      /\ FileHandles[h] # Closed
      /\ name \in UsedNames
      /\ Files[name] = Contents(i)
    BY <1>1, <1>2, <1>3, <1>5, HandleFile
<1>7. i \in Inodes /\ offset \in 0 .. BLOCK_SIZE
    BY <1>1, <1>2, <1>3, HandleTypes DEF CInv
<1>8. DOMAIN buf = 1 .. Len(buf) /\ Len(buf) \in Nat
    BY ArgumentAssumption, SizeAssumption, SizeOfData
<1>9. n \in 1 .. BLOCK_SIZE /\ n \in Nat /\ offset \in Nat /\ offset + n <= BLOCK_SIZE
    BY <1>1, <1>3, <1>7, <1>8, BlockSizeNat
<1>10. data \in Store!Strings /\ Len(data) = n
    <2> DEFINE AllBytes == UNION {{b[k] : k \in DOMAIN b} : b \in Buffers}
    <2>1. \A k \in 1 .. n : data[k] \in AllBytes
        <3> SUFFICES ASSUME NEW k \in 1 .. n PROVE data[k] \in AllBytes
            OBVIOUS
        <3>1. k \in DOMAIN buf /\ data[k] = buf[k]
            BY <1>1, <1>4, <1>8, <1>9
        <3> QED
            BY <3>1
    <2> HIDE DEF AllBytes
    <2>2. data \in [1 .. n -> AllBytes] /\ Len(data) = n
        BY <1>4, <1>9, <2>1, FunctionSeq
    <2> QED
        BY <1>9, <2>2 DEF Store!Strings, AllBytes
<1>11. OpenEntriesStay /\ UsedSlots' = UsedSlots /\ UNCHANGED dirVars
    BY <1>1 DEF OpenEntriesStay, dirVars, UsedSlots, FreeSlots
<1>12. FileHandles' = [FileHandles EXCEPT ![h] = [name |-> name, offset |-> offset + Len(data)]]
    <2>1. PICK end : end = offset + n
        OBVIOUS
    <2>2. of_offset' = [of_offset EXCEPT ![h] = end]
        BY <1>3, <2>1 DEF CopyTo, CopyIn
    <2>3. FileHandles' = [FileHandles EXCEPT ![h] =
                            [name |-> NameOf(of_inumber[h]), offset |-> end]]
        BY <1>1, <1>11, <2>2, HandleMoved
    <2> QED
        BY <1>2, <1>5, <1>10, <2>1, <2>3
<1>13. Contents(i)' = Spliced(Contents(i), data, offset)
    <2>1. n \in Nat
        BY <1>9
    <2>2. i = of_inumber[h] /\ offset = of_offset[h] /\ data = [k \in 1 .. n |-> buf[k]]
        BY <1>2, <1>3, <1>4
    <2>3. \A j, o, d : j = of_inumber[h] /\ o = of_offset[h] /\ d = [k \in 1 .. n |-> buf[k]] =>
                Contents(j)' = Spliced(Contents(j), d, o)
        BY <2>1, WrittenContents
    <2> QED
        BY <2>2, <2>3, Zenon
<1>14. ASSUME NEW s \in UsedSlots
       PROVE  Files'[d_name[s]] = IF d_name[s] = name THEN Spliced(Files[name], data, offset)
                                                      ELSE Files[d_name[s]]
    <2>1. PICK j \in Inodes : j = d_inumber[s] /\ j = d_inumber'[s]
        BY <1>11 DEF dirVars, CInv, IInv, TypeOK, UsedSlots, FreeSlots
    <2>2. Files[d_name[s]] = Contents(j) /\ NameOf(j) = d_name[s]
        BY <2>1, Mapped DEF CInv, FilesMapped, NamesMapped
    <2>3. Files'[d_name[s]] = Contents(j)'
        <3>1. Contents(d_inumber[s])' = Contents(j)'
            BY <2>1 DEF Contents
        <3> QED
            BY <1>11, <3>1, MappedNext DEF CInv, FilesMapped, dirVars
    <2>4. CASE j = i
        BY <1>5, <1>6, <1>13, <2>2, <2>3, <2>4
    <2>5. CASE j # i
        <3>1. PICK t \in UsedSlots : d_inumber[t] = i /\ d_name[t] = name
            BY <1>1, <1>2, <1>5, HandleEntry
        <3>2. d_name[s] # name
            BY <2>1, <2>5, <3>1, EntriesApart DEF CInv
        <3>3. Live(j)
            BY <2>1 DEF CInv, IInv, DirectoryExact
        <3>4. Contents(j)' = Contents(j)
            BY <1>2, <1>9, <2>5, <3>3, UnwrittenContents
        <3> QED
            BY <2>2, <2>3, <3>2, <3>4
    <2> QED
        BY <2>4, <2>5
<1>15. Files' = [Files EXCEPT ![name] = Spliced(Files[name], data, offset)]
    <2>1. \A m \in UsedNames : Files'[m] = IF m = name THEN Spliced(Files[name], data, offset)
                                                       ELSE Files[m]
        BY <1>14 DEF UsedNames
    <2>2. UsedNames' = UsedNames
        BY <1>11 DEF UsedNames, dirVars
    <2>3. /\ Files = [m \in UsedNames |-> Files[m]]
          /\ Files' = [m \in UsedNames' |-> Files'[m]]
        BY DEF Files
    <2> QED
        BY <1>6, <2>1, <2>2, <2>3
<1>16. Store!Write(h, data)
    <2>1. FileHandles[h].name = name /\ FileHandles[h].offset = offset
        BY <1>6
    <2>2. offset + Len(data) <= BLOCK_SIZE
        BY <1>9, <1>10
    <2> QED
        BY <1>6, <1>12, <1>15, <2>1, <2>2, StoreWrite
<1> QED
    BY <1>6, <1>10, <1>16

------------------------------------------------------------------------------
(* The refinement *)

LEMMA InitRefines == Init => Store!Init
<1> SUFFICES ASSUME Init PROVE Store!Init
    OBVIOUS
<1>1. UsedSlots = {}
    BY DEF Init, UsedSlots, FreeSlots
<1>2. Files = << >>
    <2>1. UsedNames = {}
        BY <1>1 DEF UsedNames
    <2>2. DOMAIN Files = {} /\ Files = [n \in UsedNames |-> Files[n]]
        BY <2>1 DEF Files
    <2> QED
        BY <2>1, <2>2
<1>3. FileHandles = [h \in Handles |-> Closed]
    BY DEF Init, FileHandles, HandleOf, Opened
<1> QED
    BY <1>2, <1>3 DEF Store!Init, Files, UsedNames, FileHandles, HandleOf

\* FileStore's state does not change.
LEMMA StoreStutters ==
    ASSUME UNCHANGED <<Files, FileHandles>>
    PROVE  UNCHANGED Store!vars
BY DEF Store!vars, Files, UsedNames, FileHandles, HandleOf

LEMMA StepRefines ==
    CInv /\ CInv' /\ [Next /\ Careful]_vars => [Store!Next]_(Store!vars)
<1> SUFFICES ASSUME CInv, CInv', [Next /\ Careful]_vars
             PROVE  Store!Next \/ UNCHANGED Store!vars
    OBVIOUS
<1>1. CASE UNCHANGED vars
    BY <1>1, StutterRefines, StoreStutters
<1>2. ASSUME Careful, NEW name \in Paths, NEW mode, NEW ret, Open(name, mode, ret)
      PROVE  Store!Next \/ UNCHANGED Store!vars
    <2>1. CASE OpenExisting(name, mode, ret)
        <3>1. name \in Names
            <4>1. PICK s \in Slots : FoundIn(s, name)
                BY <2>1 DEF OpenExisting
            <4> QED
                BY <4>1, FoundLive DEF CInv, IInv, DirectoryExact
        <3>2. Store!Open(name) \/ Store!Truncate(name)
            BY <1>2, <2>1, <3>1, OpenExistingRefines
        <3> QED
            BY <3>1, <3>2 DEF Store!Next
    <2>2. CASE OpenCreate(name, mode, ret)
        <3>1. name \in Names
            BY <2>2 DEF OpenCreate
        <3>2. Store!Create(name)
            BY <2>2, <3>1, OpenCreateRefines
        <3> QED
            BY <3>1, <3>2 DEF Store!Next
    <2>3. CASE OpenNoEntry(name, mode, ret)
        BY <2>3, OpenNoEntryRefines, StoreStutters
    <2>4. CASE OpenFails(name, mode, ret)
        BY <1>1, <2>4 DEF OpenFails
    <2> QED
        BY <1>2, <2>1, <2>2, <2>3, <2>4 DEF Open
<1>3. ASSUME Careful, NEW name, NEW ret, Unlink(name, ret)
      PROVE  Store!Next \/ UNCHANGED Store!vars
    <2>1. CASE UnlinkExisting(name, ret)
        <3>1. name \in Names /\ Store!Remove(name)
            BY <1>3, <2>1, UnlinkExistingRefines
        <3> QED
            BY <3>1 DEF Store!Next
    <2> QED
        BY <1>1, <1>3, <2>1 DEF Unlink
<1>4. ASSUME NEW h, NEW ret, Close(h, ret)
      PROVE  Store!Next \/ UNCHANGED Store!vars
    <2>1. CASE h \in Handles /\ Store!Close(h)
        BY <2>1 DEF Store!Next
    <2>2. CASE UNCHANGED <<Files, FileHandles>>
        BY <2>2, StoreStutters
    <2> QED
        BY <1>4, <2>1, <2>2, CloseRefines
<1>5. ASSUME NEW h, NEW buf \in Buffers, NEW ret, Write(h, buf, ret)
      PROVE  Store!Next \/ UNCHANGED Store!vars
    <2>1. ASSUME NEW n, NEW block \in Blocks, CopyTo(h, buf, n, block)
          PROVE  Store!Next
        BY <2>1, WriteRefines DEF Store!Next
    <2> QED
        BY <1>1, <1>5, <2>1, WriteStays
<1>6. ASSUME NEW h, NEW len \in ReadLengths, NEW ret, Read(h, len, ret)
      PROVE  Store!Next \/ UNCHANGED Store!vars
    <2>1. ASSUME NEW n, ReadOn(h, n)
          PROVE  Store!Next
        BY <2>1, ReadRefines DEF Store!Next
    <2>2. len \in Nat
        BY ArgumentAssumption
    <2> QED
        BY <1>1, <1>6, <2>1, <2>2, ReadStays
<1> QED
    BY <1>1, <1>2, <1>3, <1>4, <1>5, <1>6 DEF Next

\* For a careful caller, tfs_open, tfs_close, tfs_read, tfs_write and
\* tfs_unlink are the operations of the store of named files that operations.h
\* describes: the inode table, the blocks and the directory are not seen.
THEOREM RefinesFileStore == CarefulSpec => ImplementsFileStore
<1> QED
    BY InitRefines, StepRefines, CInvCorrect, PTL DEF CarefulSpec, ImplementsFileStore, Store!Spec

------------------------------------------------------------------------------
(* When tfs_write writes nothing *)

\* Each file that is not empty has a block, and one more is the directory's: with
\* at least as many blocks as inodes, an empty file finds a free block.
LEMMA BlockForEmptyFile ==
    ASSUME CInv, INODE_TABLE_SIZE <= DATA_BLOCKS,
           NEW inum \in Inodes, Live(inum), i_size[inum] = 0
    PROVE  FreeBlocks # {}
<1> SUFFICES ASSUME FreeBlocks = {} PROVE FALSE
    OBVIOUS
<1> DEFINE owner(b) == CHOOSE i \in Inodes : Live(i) /\ i_size[i] > 0 /\ i_data_block[i] = b
           f == [b \in Blocks |-> IF b = RootBlock THEN ROOT_DIR_INUM ELSE owner(b)]
<1>1. BlockType
    BY TypeParts DEF CInv, IInv
<1>2. \A b \in Blocks : free_blocks[b] = "TAKEN"
    BY <1>1 DEF BlockType, FreeBlocks
<1>3. \A b \in Blocks \ {RootBlock} :
        owner(b) \in Inodes /\ Live(owner(b)) /\ i_size[owner(b)] > 0 /\ i_data_block[owner(b)] = b
    BY <1>2 DEF CInv, NoBlockLeak
<1>4. f \in [Blocks -> Inodes \ {inum}]
    <2>1. ASSUME NEW b \in Blocks PROVE f[b] \in Inodes \ {inum}
        <3>1. CASE b = RootBlock
            BY <3>1, RootExists DEF Live
        <3>2. CASE b # RootBlock
            <4>1. owner(b) \in Inodes /\ i_size[owner(b)] > 0
                BY <1>3, <3>2
            <4>2. f[b] = owner(b)
                BY <3>2
            <4> HIDE DEF f, owner
            <4> QED
                BY <4>1, <4>2
        <3> QED
            BY <3>1, <3>2
    <2> QED
        BY <2>1
<1>5. \A b, c \in Blocks : f[b] = f[c] => b = c
    <2> SUFFICES ASSUME NEW b \in Blocks, NEW c \in Blocks, f[b] = f[c] PROVE b = c
        OBVIOUS
    <2>1. ASSUME NEW d \in Blocks \ {RootBlock}
          PROVE  f[d] = owner(d) /\ f[d] # ROOT_DIR_INUM /\ i_data_block[f[d]] = d
        <3>1. f[d] = owner(d)
            OBVIOUS
        <3>2. Live(owner(d)) /\ i_data_block[owner(d)] = d
            BY <1>3
        <3> HIDE DEF f, owner
        <3> QED
            BY <3>1, <3>2 DEF Live
    <2>2. f[RootBlock] = ROOT_DIR_INUM
        BY RootExists
    <2> HIDE DEF f, owner
    <2> QED
        BY <2>1, <2>2
<1> HIDE DEF f
<1>6. IsFiniteSet(Blocks) /\ Cardinality(Blocks) = DATA_BLOCKS
    <2>1. 0 \in Int /\ DATA_BLOCKS - 1 \in Int /\ ~ (0 > DATA_BLOCKS - 1) /\ DATA_BLOCKS - 1 - 0 + 1 = DATA_BLOCKS
        BY SizeAssumption
    <2> QED
        BY <2>1, FS_Interval DEF Blocks
<1>7. IsFiniteSet(Inodes) /\ Cardinality(Inodes) = INODE_TABLE_SIZE
    <2>1. 0 \in Int /\ INODE_TABLE_SIZE - 1 \in Int /\ ~ (0 > INODE_TABLE_SIZE - 1)
          /\ INODE_TABLE_SIZE - 1 - 0 + 1 = INODE_TABLE_SIZE
        BY SizeAssumption
    <2> QED
        BY <2>1, FS_Interval DEF Inodes
<1>8. IsFiniteSet(Inodes \ {inum}) /\ Cardinality(Inodes \ {inum}) = INODE_TABLE_SIZE - 1
    BY <1>7, FS_RemoveElement
<1>9. Cardinality(Inodes \ {inum}) < Cardinality(Blocks)
    BY <1>6, <1>8, SizeAssumption
<1> QED
    BY <1>4, <1>5, <1>6, <1>8, <1>9, FS_PigeonHole

\* A careful caller's tfs_write of something writes nothing only when its file
\* fills a block.
LEMMA WriteFails ==
    ASSUME CInv, INODE_TABLE_SIZE <= DATA_BLOCKS,
           NEW h, NEW buf \in Buffers, NEW ret, Opened(h), Write(h, buf, ret),
           Len(buf) > 0, ret < 1
    PROVE  /\ UNCHANGED vars
           /\ i_size[of_inumber[h]] = BLOCK_SIZE
<1> DEFINE inum == of_inumber[h]
           offset == of_offset[h]
           to_write == ToWrite(h, buf)
<1>1. /\ inum \in Inodes \ {ROOT_DIR_INUM} /\ Live(inum)
      /\ i_size[inum] \in 0 .. BLOCK_SIZE /\ offset \in 0 .. BLOCK_SIZE
      /\ offset <= i_size[inum]
    BY HandleTypes DEF CInv, HandlesInFiles
<1>2. Len(buf) \in Nat \ {0}
    <2>1. Len(buf) \in 0 .. SizeModulus - DataSize - 1
        BY ArgumentAssumption
    <2> QED
        BY <2>1, SizeAssumption, SizeOfData
<1>3. to_write = IF Len(buf) + offset > BLOCK_SIZE THEN BLOCK_SIZE - offset ELSE Len(buf)
    <2>1. BLOCK_SIZE - offset \in Nat /\ BLOCK_SIZE - offset < SizeModulus
        BY <1>1, SizeAssumption, SizeOfData, BlockSizeNat
    <2>2. (BLOCK_SIZE - offset) % SizeModulus = BLOCK_SIZE - offset
        BY <2>1, SizeAssumption, NoWrap
    <2> QED
        BY <2>2 DEF ToWrite
<1>4. WriteOpened(h, buf, ret)
    BY DEF Write
<1>5. to_write <= Len(buf)
    <2> HIDE DEF to_write, inum, offset
    <2> QED
        BY <1>1, <1>2, <1>3, BlockSizeNat
<1>6. ~ (to_write > Len(buf))
    <2>1. to_write \in Int
        <3> HIDE DEF to_write, inum, offset
        <3> QED
            BY <1>1, <1>2, <1>3, BlockSizeNat
    <2> HIDE DEF to_write
    <2> QED
        BY <1>2, <1>5, <2>1
<1>7. i_size[inum] = 0 => FreeBlocks # {}
    BY <1>1, BlockForEmptyFile
<1>8. ~ (to_write \in 1 .. Len(buf) /\ ret = to_write)
    <2> HIDE DEF to_write
    <2> QED
        BY <1>2
<1>9. to_write = 0 /\ UNCHANGED vars
    BY <1>4, <1>6, <1>7, <1>8, Zenon DEF WriteOpened
<1>10. offset = BLOCK_SIZE
    <2> HIDE DEF to_write, offset, inum
    <2> QED
        BY <1>1, <1>2, <1>3, <1>9, BlockSizeNat
<1>11. i_size[inum] = BLOCK_SIZE
    <2> HIDE DEF offset, inum
    <2> QED
        BY <1>1, <1>10, BlockSizeNat
<1> QED
    BY <1>9, <1>11

------------------------------------------------------------------------------
(* What callers see of the contents of the files *)

OthersKeepContents(inum) ==
    \A n, i : FileIs(n, i) /\ i # inum => Contents(i)' = Contents(i)

\* A file keeps its contents, and one that is new is empty.
ContentsStay ==
    /\ \A n, i : FileIs(n, i) => Contents(i)' = Contents(i)
    /\ \A n, i : FileIs(n, i)' => FileIs(n, i) \/ i_size'[i] = 0

LEMMA FileIsLive ==
    ASSUME IInv, NEW n, NEW i, FileIs(n, i)
    PROVE  i \in Inodes /\ Live(i) /\ i \notin FreeInodes
<1>1. Live(i) /\ i \notin FreeInodes
    BY FilesAreExact DEF IInv
<1>2. i \in Inodes
    <2>1. DirType
        BY TypeParts, Zenon DEF IInv
    <2> QED
        BY <2>1 DEF FileIs, UsedSlots, FreeSlots, DirType
<1> QED
    BY <1>1, <1>2

LEMMA OpenContents ==
    ASSUME IInv, NEW name, NEW mode, NEW ret, "TFS_O_TRUNC" \notin mode, Open(name, mode, ret)
    PROVE  ContentsStay
<1>1. \A n, i : FileIs(n, i) => i \in Inodes /\ i \notin FreeInodes
    BY FileIsLive
<1>2. InodeType /\ DirType
    BY TypeParts, Zenon DEF IInv
<1>3. ASSUME NEW inum \in FreeInodes, ResetInode(inum), UNCHANGED fs_data
      PROVE  /\ \A n, i : FileIs(n, i) => Contents(i)' = Contents(i)
             /\ i_size'[inum] = 0
    <2>1. \A i \in Inodes \ FreeInodes :
            i_size'[i] = i_size[i] /\ i_data_block'[i] = i_data_block[i]
        BY <1>2, <1>3 DEF ResetInode, InodeType
    <2>2. i_size'[inum] = 0
        BY <1>2, <1>3 DEF ResetInode, InodeType, FreeInodes
    <2> QED
        BY <1>1, <1>3, <2>1, <2>2 DEF Contents
<1>4. CASE OpenExisting(name, mode, ret)
    <2>1. UNCHANGED <<i_size, i_data_block, fs_data, d_name, d_inumber>>
        BY <1>4 DEF OpenExisting, dirVars
    <2> QED
        BY <2>1 DEF ContentsStay, Contents, FileIs, UsedSlots, FreeSlots
<1>5. CASE OpenCreate(name, mode, ret)
    <2>1. PICK inum \in Inodes :
            /\ IsFirst(inum, FreeInodes)
            /\ ResetInode(inum)
            /\ AddDirEntry(name, inum)
        BY <1>5 DEF OpenCreate
    <2>2. inum \in FreeInodes /\ UNCHANGED fs_data
        BY <1>5, <2>1 DEF IsFirst, OpenCreate, blockVars
    <2>3. PICK s \in Slots :
            /\ IsFirst(s, FreeSlots)
            /\ d_inumber' = [d_inumber EXCEPT ![s] = inum]
            /\ d_name' = [d_name EXCEPT ![s] = name]
        BY <2>1 DEF AddDirEntry
    <2>4. s \in FreeSlots /\ inum # -1
        BY <2>3 DEF IsFirst, Inodes
    <2>5. UsedSlots' = UsedSlots \cup {s}
        BY <2>3, <2>4, <1>2 DEF UsedSlots, FreeSlots, DirType
    <2>6. \A t \in UsedSlots : t # s /\ d_inumber'[t] = d_inumber[t] /\ d_name'[t] = d_name[t]
        BY <2>3, <2>4, <1>2 DEF UsedSlots, DirType
    <2>7. d_inumber'[s] = inum
        BY <2>3, <1>2 DEF DirType
    <2>8. \A n, i : FileIs(n, i)' => FileIs(n, i) \/ i = inum
        BY <2>5, <2>6, <2>7 DEF FileIs
    <2> QED
        BY <1>3, <2>1, <2>2, <2>8 DEF ContentsStay
<1>6. CASE OpenNoEntry(name, mode, ret)
    <2>1. PICK inum \in FreeInodes : ResetInode(inum)
        BY <1>6 DEF OpenNoEntry, IsFirst
    <2>2. UNCHANGED <<fs_data, d_name, d_inumber>>
        BY <1>6 DEF OpenNoEntry, blockVars, dirVars
    <2>3. \A n, i : FileIs(n, i)' => FileIs(n, i)
        BY <2>2 DEF FileIs, UsedSlots, FreeSlots
    <2> QED
        BY <1>3, <2>1, <2>2, <2>3 DEF ContentsStay
<1>7. CASE OpenFails(name, mode, ret)
    <2>1. UNCHANGED <<i_size, i_data_block, fs_data, d_name, d_inumber>>
        BY <1>7 DEF OpenFails, vars, inodeVars, blockVars, dirVars
    <2> QED
        BY <2>1 DEF ContentsStay, Contents, FileIs, UsedSlots, FreeSlots
<1> QED
    BY <1>4, <1>5, <1>6, <1>7 DEF Open

\* A careful caller's tfs_read of a block's length reads to the end of the file.
LEMMA ReadToEnd ==
    ASSUME CInv, NEW h, NEW ret, Opened(h), Read(h, BLOCK_SIZE, ret)
    PROVE  /\ process' = "running"
           /\ UNCHANGED <<inodeVars, blockVars, dirVars, free_open_file_entries, of_inumber>>
           /\ of_offset'[h] = i_size[of_inumber[h]]
           /\ ReadData(h, BLOCK_SIZE) =
                [k \in 1 .. i_size[of_inumber[h]] - of_offset[h] |->
                    Contents(of_inumber[h])[of_offset[h] + k]]
<1> DEFINE inum == of_inumber[h]
           offset == of_offset[h]
           to_read == ToRead(h, BLOCK_SIZE)
<1>1. /\ h \in Handles /\ OpenType
      /\ inum \in Inodes \ {ROOT_DIR_INUM} /\ Live(inum)
      /\ i_size[inum] \in 0 .. BLOCK_SIZE /\ offset \in 0 .. BLOCK_SIZE
      /\ offset <= i_size[inum]
    BY HandleTypes, TypeParts DEF CInv, HandlesInFiles, IInv
<1>2. to_read = i_size[inum] - offset /\ to_read \in Nat
    <2>1. i_size[inum] - offset \in Nat /\ i_size[inum] - offset < SizeModulus
        BY <1>1, SizeAssumption, SizeOfData, BlockSizeNat
    <2>2. (i_size[inum] - offset) % SizeModulus = i_size[inum] - offset
        BY <2>1, SizeAssumption, NoWrap
    <2>3. to_read = IF i_size[inum] - offset > BLOCK_SIZE THEN BLOCK_SIZE
                    ELSE i_size[inum] - offset
        BY <2>2 DEF ToRead
    <2> HIDE DEF to_read, inum, offset
    <2> QED
        BY <1>1, <2>1, <2>3, BlockSizeNat
<1>3. UNCHANGED vars \/ ReadOn(h, to_read)
    BY ReadStays, BlockSizeNat
<1>4. /\ process' = "running"
      /\ UNCHANGED <<inodeVars, blockVars, dirVars, free_open_file_entries, of_inumber>>
    BY <1>3 DEF CInv, ReadOn, vars, openVars
<1>5. of_offset'[h] = i_size[inum]
    <2>1. (to_read = 0 /\ UNCHANGED vars) \/ of_offset' = [of_offset EXCEPT ![h] = @ + to_read]
        <3>1. process' # "panic" /\ process' # "memory fault"
            BY <1>4
        <3> HIDE DEF to_read
        <3> QED
            BY <3>1, Zenon DEF Read, ReadOpened, Abort, to_read
    <2>2. CASE to_read = 0 /\ UNCHANGED vars
        <3>1. of_offset'[h] = offset
            BY <2>2 DEF vars, openVars
        <3> HIDE DEF to_read, inum, offset
        <3> QED
            BY <1>1, <1>2, <2>2, <3>1
    <2>3. CASE of_offset' = [of_offset EXCEPT ![h] = @ + to_read]
        <3>1. of_offset'[h] = offset + to_read
            BY <1>1, <2>3 DEF OpenType
        <3> HIDE DEF to_read, inum, offset
        <3> QED
            BY <1>1, <1>2, <3>1, BlockSizeNat
    <2> QED
        BY <2>1, <2>2, <2>3
<1>6. ReadData(h, BLOCK_SIZE) = [k \in 1 .. i_size[inum] - offset |-> Contents(inum)[offset + k]]
    <2>1. ASSUME NEW k \in 1 .. to_read
          PROVE  fs_data[Address(i_data_block[inum], offset) + k - 1] = Contents(inum)[offset + k]
        <3>1. PICK j \in 1 .. i_size[inum] : j = offset + k
            <4> HIDE DEF to_read, inum, offset
            <4> QED
                BY <1>1, <1>2, BlockSizeNat
        <3>2. Contents(inum)[j] = fs_data[Address(i_data_block[inum], j - 1)]
            BY DEF Contents
        <3>3. Address(i_data_block[inum], j - 1) = Address(i_data_block[inum], offset) + k - 1
            <4>1. i_data_block[inum] \in Blocks
                <5>1. i_size[inum] > 0
                    <6> HIDE DEF to_read, inum, offset
                    <6> QED
                        BY <1>1, <3>1, BlockSizeNat
                <5> QED
                    BY <1>1, <5>1 DEF CInv, IInv, BlockNumbers
            <4>2. PICK start \in Nat : start = i_data_block[inum] * BLOCK_SIZE
                <5>1. \A x, y \in Nat : x * y \in Nat
                    BY Z3
                <5> QED
                    BY <4>1, <5>1, BlockSizeNat DEF Blocks
            <4>3. /\ Address(i_data_block[inum], j - 1) = start + (j - 1)
                  /\ Address(i_data_block[inum], offset) = start + offset
                BY <4>2 DEF Address
            <4>4. offset \in Nat /\ k \in Nat /\ j = offset + k
                BY <1>1, <1>2, <3>1, BlockSizeNat
            <4> HIDE DEF to_read, inum, offset
            <4> QED
                BY <4>3, <4>4
        <3> QED
            BY <3>1, <3>2, <3>3, Zenon
    <2> QED
        BY <1>2, <2>1 DEF ReadData
<1> QED
    BY <1>4, <1>5, <1>6

\* The file has the first n bytes of buf behind its old contents.
Appended(inum, buf, n) ==
    /\ i_size'[inum] = i_size[inum] + n
    /\ \A k \in 1 .. i_size[inum] : Contents(inum)'[k] = Contents(inum)[k]
    /\ \A k \in 1 .. n : Contents(inum)'[i_size[inum] + k] = buf[k]

LEMMA CopyAppends ==
    ASSUME CInv, NEW h, NEW buf, NEW n \in Nat, NEW block \in Blocks, CopyTo(h, buf, n, block)
    PROVE  \A inum : inum = of_inumber[h] /\ of_offset[h] = i_size[inum] => Appended(inum, buf, n)
<1>0. \A j, o, d : j = of_inumber[h] /\ o = of_offset[h] /\ d = [k \in 1 .. n |-> buf[k]] =>
            Contents(j)' = Spliced(Contents(j), d, o)
    BY WrittenContents
<1> SUFFICES ASSUME NEW inum, inum = of_inumber[h], of_offset[h] = i_size[inum]
             PROVE  Appended(inum, buf, n)
    OBVIOUS
<1>1. PICK old, new, data, offset, S :
        /\ old = Contents(inum) /\ new = Contents(inum)' /\ offset = i_size[inum]
        /\ data = [k \in 1 .. n |-> buf[k]]
        /\ S = FileBytes \cup {buf[k] : k \in 1 .. n}
    OBVIOUS
<1>2. /\ inum \in Inodes /\ Live(inum) /\ offset \in 0 .. BLOCK_SIZE
      /\ i_size'[inum] = IF offset + n > offset THEN offset + n ELSE offset
    <2>1. /\ Live(inum)
          /\ i_size'[inum] = IF offset + n > offset THEN offset + n ELSE offset
        BY <1>1, CopyGrows
    <2>2. Opened(h)
        BY DEF CopyTo
    <2>3. inum \in Inodes /\ offset \in 0 .. BLOCK_SIZE
        BY <1>1, <2>2, HandleTypes DEF CInv
    <2> QED
        BY <2>1, <2>3
<1>3. offset \in Nat /\ n \in Nat
    BY <1>2, BlockSizeNat
<1>4. i_size'[inum] = offset + n
    BY <1>2, <1>3
<1>5. old \in Seq(S) /\ Len(old) = offset
    <2>1. PICK s \in UsedSlots : d_inumber[s] = inum
        BY <1>2 DEF CInv, IInv, DirectoryExact
    <2>2. old \in Seq(FileBytes) /\ Len(old) = offset
        BY <1>1, <2>1, ContentsSeq DEF CInv
    <2>3. FileBytes \subseteq S
        BY <1>1
    <2> QED
        BY <2>2, <2>3
<1>6. data \in Seq(S) /\ Len(data) = n
    <2>1. \A k \in 1 .. n : data[k] \in S
        BY <1>1
    <2>2. data = [k \in 1 .. n |-> data[k]]
        BY <1>1
    <2> QED
        BY <1>3, <2>1, <2>2, FunctionSeq
<1>7. new = Spliced(old, data, offset)
    <2>1. inum = of_inumber[h] /\ offset = of_offset[h] /\ data = [k \in 1 .. n |-> buf[k]]
        BY <1>1
    <2>2. Contents(inum)' = Spliced(Contents(inum), data, offset)
        BY <1>0, <2>1, Zenon
    <2> QED
        BY <1>1, <2>2
<1>8. offset \in 0 .. Len(old)
    BY <1>3, <1>5
<1>9. /\ Len(new) = IF offset + Len(data) > Len(old) THEN offset + Len(data) ELSE Len(old)
      /\ \A k \in 1 .. Len(new) :
            new[k] = IF k <= offset \/ k > offset + Len(data) THEN old[k] ELSE data[k - offset]
    BY <1>5, <1>6, <1>7, <1>8, Splice
<1>10. Len(new) = offset + n
    BY <1>3, <1>5, <1>6, <1>9
<1>11. \A k \in 1 .. offset : new[k] = old[k]
    BY <1>3, <1>9, <1>10
<1>12. ASSUME NEW k \in 1 .. n PROVE new[offset + k] = buf[k]
    <2>1. PICK j : j = offset + k
        OBVIOUS
    <2>2. /\ j \in 1 .. Len(new) /\ j - offset = k
          /\ ~ (j <= offset) /\ ~ (j > offset + Len(data))
        BY <1>3, <1>6, <1>10, <2>1
    <2>3. new[j] = data[k]
        BY <1>9, <2>2
    <2> QED
        BY <1>1, <2>1, <2>3
<1> QED
    BY <1>1, <1>4, <1>11, <1>12 DEF Appended

\* A careful caller's tfs_write leaves the other files as they are.
LEMMA WriteKeepsOthers ==
    ASSUME CInv, NEW h, NEW buf \in Buffers, NEW ret, Opened(h), Write(h, buf, ret),
           NEW inum, inum = of_inumber[h]
    PROVE  OthersKeepContents(inum)
<1>1. PICK n : n = ToWrite(h, buf)
    OBVIOUS
<1>2. CASE UNCHANGED vars
    BY <1>2 DEF vars, inodeVars, blockVars, OthersKeepContents, Contents
<1>3. CASE \E block \in Blocks : CopyTo(h, buf, n, block)
    <2>1. PICK block \in Blocks : CopyTo(h, buf, n, block)
        BY <1>3
    <2>2. n \in Nat
        <3>1. Len(buf) \in Nat
            <4>1. Len(buf) \in 0 .. SizeModulus - DataSize - 1
                BY ArgumentAssumption
            <4> QED
                BY <4>1, SizeAssumption, SizeOfData
        <3>2. PICK offset \in 0 .. BLOCK_SIZE : offset = of_offset[h]
            BY HandleTypes DEF CInv
        <3>3. BLOCK_SIZE - offset \in Nat /\ SizeModulus \in Nat \ {0}
            BY SizeAssumption, SizeOfData, BlockSizeNat
        <3>4. (BLOCK_SIZE - offset) % SizeModulus \in Nat
            BY <3>3
        <3> QED
            BY <1>1, <3>1, <3>2, <3>4 DEF ToWrite
    <2>3. \A m, i : FileIs(m, i) => i \in Inodes /\ Live(i)
        BY FileIsLive DEF CInv
    <2> QED
        BY <2>1, <2>2, <2>3, UnwrittenContents DEF OthersKeepContents
<1> QED
    BY <1>1, <1>2, <1>3, WriteStays

\* A careful caller's tfs_write at the end of its file appends all of the buffer,
\* or fills the file up.
LEMMA WriteAppends ==
    ASSUME CInv, INODE_TABLE_SIZE <= DATA_BLOCKS,
           NEW h, NEW buf \in Buffers, NEW ret \in Int, Opened(h), Write(h, buf, ret), Len(buf) > 0,
           NEW inum, inum = of_inumber[h], of_offset[h] = i_size[inum]
    PROVE  i_size'[inum] = BLOCK_SIZE \/ (ret >= 1 /\ Appended(inum, buf, Len(buf)))
<1>2. /\ h \in Handles /\ i_size[inum] \in 0 .. BLOCK_SIZE
    BY HandleTypes DEF CInv
<1>3. CASE ret < 1
    <2>1. UNCHANGED vars /\ i_size[inum] = BLOCK_SIZE
        BY <1>3, WriteFails
    <2> QED
        BY <2>1 DEF vars, inodeVars
<1>4. CASE ret >= 1
    <2>0. PICK n : n = ToWrite(h, buf)
        OBVIOUS
    <2>1. PICK l \in Nat \ {0} : l = Len(buf)
        <3>1. Len(buf) \in 0 .. SizeModulus - DataSize - 1
            BY ArgumentAssumption
        <3> QED
            BY <3>1, SizeAssumption, SizeOfData
    <2>2. PICK offset \in 0 .. BLOCK_SIZE : offset = of_offset[h] /\ offset = i_size[inum]
        BY <1>2
    <2>3. n = IF l + offset > BLOCK_SIZE THEN BLOCK_SIZE - offset ELSE l
        <3>0. /\ BLOCK_SIZE \in Nat \ {0} /\ DataSize \in Nat /\ SizeModulus \in Nat
              /\ BLOCK_SIZE <= DataSize /\ DataSize < SizeModulus
            BY SizeAssumption, SizeOfData, BlockSizeNat
        <3>1. BLOCK_SIZE - offset \in Nat /\ BLOCK_SIZE - offset < SizeModulus
            BY <3>0
        <3>2. (BLOCK_SIZE - offset) % SizeModulus = BLOCK_SIZE - offset
            BY <3>1, SizeAssumption, NoWrap
        <3> QED
            BY <2>0, <2>1, <2>2, <3>2 DEF ToWrite
    <2>4. ret = n /\ n \in 1 .. l
        <3>1. ret # 0 /\ ret # -1
            BY <1>4
        <3> QED
            BY <2>1, <3>1, <2>0, Zenon DEF Write, WriteOpened
    <2>5. PICK block \in Blocks : CopyTo(h, buf, n, block)
        <3>1. ~ UNCHANGED vars
            <4>1. of_offset'[h] = offset + n
                <5>1. \E block : CopyIn(h, block, buf, n)
                    <6>1. ret # 0 /\ ret # -1
                        BY <1>4
                    <6> QED
                        BY <6>1, <2>0, Zenon DEF Write, WriteOpened
                <5> QED
                    BY <1>2, <2>2, <5>1, TypeParts DEF CopyIn, CInv, IInv, OpenType
            <4>2. offset + n # offset
                BY <2>2, <2>4, BlockSizeNat
            <4> QED
                BY <2>2, <4>1, <4>2 DEF vars, openVars
        <3> QED
            BY <2>0, <3>1, WriteStays
    <2>6. CASE n = l
        <3>1. n \in Nat /\ n = Len(buf)
            BY <2>1, <2>4, <2>6
        <3>2. Appended(inum, buf, n)
            BY <2>2, <2>5, <3>1, CopyAppends
        <3> QED
            BY <1>4, <3>1, <3>2
    <2>7. CASE n # l
        <3>1. offset + n = BLOCK_SIZE /\ offset + n > offset
            <4>1. n = BLOCK_SIZE - offset
                BY <2>3, <2>7
            <4>2. n \in Nat \ {0}
                BY <2>1, <2>4
            <4>3. \A o, s, m : o \in 0 .. s /\ s \in Nat \ {0} /\ m \in Nat \ {0} /\ m = s - o =>
                    o + m = s /\ o + m > o
                OBVIOUS
            <4> QED
                BY <4>1, <4>2, <4>3, BlockSizeNat, Zenon
        <3>2. i_size'[inum] = IF offset + n > offset THEN offset + n ELSE offset
            BY <2>2, <2>5, CopyGrows
        <3> QED
            BY <3>1, <3>2
    <2> QED
        BY <2>6, <2>7
<1> QED
    BY <1>3, <1>4
==============================================================================
