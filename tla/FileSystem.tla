----------------------------- MODULE FileSystem -----------------------------
(***************************************************************************)
(* The file system of fs.c on the virtual disk of disk.c: a directory, a   *)
(* table that links the blocks of each file, a bitmap of used blocks and   *)
(* the descriptors, in memory while the file system is mounted; directory  *)
(* and table are written to the disk by umount_fs.  Calls run one at a     *)
(* time, each is one step, and the process may end between two of them     *)
(* (Crash).  Calls that return -1 without changing anything are the cases  *)
(* their guards exclude.                                                   *)
(***************************************************************************)
EXTENDS Integers, FiniteSets, FiniteSetsExt, Functions

CONSTANTS
  DISK_BLOCKS, data_offset, BLOCK_SIZE,   \* 8192, 20 and 4096 in the code
  MAX_NUM_OF_FILES,       \* directory entries (64)
  LOADED_ENTRIES,         \* of these, those that mount_fs copies (16)
  MAX_FILE_DESCRIPTOR,    \* descriptors (32)
  MAX_FILESIZE,           \* largest file (2^24)
  Names, Bytes,           \* file names, and byte values that are written
  MaxWrite,               \* bound: bytes per fs_write and fs_read
  MaxMounts               \* bound: calls of mount_fs

Nameless == ""   \* the name in an unused directory entry

ASSUME FileSystemAssumption ==
  /\ {DISK_BLOCKS, data_offset, BLOCK_SIZE, MAX_NUM_OF_FILES, MAX_FILE_DESCRIPTOR,
      MAX_FILESIZE, MaxWrite, MaxMounts} \subseteq Nat \ {0}
  /\ LOADED_ENTRIES \in 0 .. MAX_NUM_OF_FILES
  /\ Nameless \notin Names

VARIABLES
  made,                         \* the disk file holds a file system
  data,                         \* the data blocks on the disk
  saved,                        \* the directory and the table on the disk
  mounted,
  Directory, Table,             \* in memory while mounted, as saved otherwise
  used_block_bitmap, fd_array,  \* in memory only
  lost,     \* history: blocks marked used that no file has
  kept,     \* history: the saved files that were not written or deleted since
  marks,    \* history: what has happened that a later call can trip over
  mounts    \* number of calls of mount_fs so far

disk == <<made, data, saved, kept>>
memory == <<Directory, Table, used_block_bitmap, fd_array>>
vars == <<disk, mounted, memory, lost, marks, mounts>>

Blocks == data_offset .. DISK_BLOCKS - 1
Entries == 0 .. MAX_NUM_OF_FILES - 1
Fildes == 0 .. MAX_FILE_DESCRIPTOR - 1

EOF == -1       \* next_direct_offset of a file's last block
Unlinked == -2  \* next_direct_offset of a block of no file

\* As make_fs and fs_delete leave an entry, and as calloc in mount_fs does.
FreeEntry == [used |-> FALSE, inode_number |-> -1, name |-> Nameless, size |-> 0, count |-> 0]
ZeroEntry == [FreeEntry EXCEPT !.inode_number = 0]

FreeDescriptor == [used |-> FALSE, inode_number |-> -1, offset |-> 0]

NoDirectory == [i \in Entries |-> FreeEntry]
NoTable == [b \in Blocks |-> Unlinked]
Blank == [b \in Blocks |-> [k \in 0 .. BLOCK_SIZE - 1 |-> 0]]

Init ==
  /\ made = FALSE /\ data = Blank
  /\ saved = [dir |-> NoDirectory, table |-> NoTable] /\ kept = <<>>
  /\ mounted = FALSE
  /\ Directory = NoDirectory /\ Table = NoTable
  /\ used_block_bitmap = [b \in Blocks |-> 0]
  /\ fd_array = [f \in Fildes |-> FreeDescriptor]
  /\ lost = {} /\ marks = {} /\ mounts = 0

-----------------------------------------------------------------------------
(* Following next_direct_offset *)

\* The blocks met from block b on: the first, the second, ..., and then EOF.
Walk(table, b) ==
  LET w[n \in 1 .. DISK_BLOCKS] ==
        IF n = 1 THEN b
        ELSE LET before == w[n - 1] IN IF before \in Blocks THEN table[before] ELSE before
  IN w

ChainBlocks(table, b) ==
  LET w == Walk(table, b) IN {w[n] : n \in 1 .. DISK_BLOCKS} \cap Blocks

LastBlock(table, b) ==
  LET w == Walk(table, b) IN w[Max({n \in 1 .. DISK_BLOCKS : w[n] \in Blocks})]

\* C's (size - 1) / BLOCK_SIZE + 1, which rounds towards 0: an empty file has
\* one block.
NumBlocks(size) == IF size = 0 THEN 1 ELSE (size - 1) \div BLOCK_SIZE + 1

UsedEntries(dir) == {i \in Entries : dir[i].used}

FileBlocks(dir, table) ==
  UNION {ChainBlocks(table, dir[i].inode_number) : i \in UsedEntries(dir)}

\* The bytes of a file, as fs_read finds them by following its blocks: behind the
\* last block its buffer has zeros.
Content(i) ==
  LET w == Walk(Table, Directory[i].inode_number)
  IN [p \in 1 .. Directory[i].size |->
        LET b == w[(p - 1) \div BLOCK_SIZE + 1]
        IN IF b \in Blocks THEN data[b][(p - 1) % BLOCK_SIZE] ELSE 0]

fs_listfiles(dir) == {dir[i].name : i \in UsedEntries(dir)}

Files ==
  [n \in fs_listfiles(Directory) |->
     Content(CHOOSE i \in UsedEntries(Directory) : Directory[i].name = n)]

FreeBlocks == {b \in Blocks : used_block_bitmap[b] = 0}

\* The directory entry that a descriptor refers to (the first one in the loops).
EntryOf(f) ==
  Min({i \in UsedEntries(Directory) :
         Directory[i].inode_number = fd_array[f].inode_number})

-----------------------------------------------------------------------------
(* make_fs, mount_fs, umount_fs, and the end of the process *)

\* The file system in memory is given up.
Forget ==
  /\ mounted' = FALSE
  /\ used_block_bitmap' = [b \in Blocks |-> 0]
  /\ fd_array' = [f \in Fildes |-> FreeDescriptor]
  /\ lost' = {} /\ kept' = <<>>

\* A fresh file system.  On a mounted disk, make_disk has already wiped the disk
\* when open_disk refuses to open it a second time.
make_fs ==
  /\ data' = Blank
  /\ saved' = [dir |-> NoDirectory, table |-> NoTable]
  /\ \/ ~mounted /\ made' = TRUE /\ Directory' = NoDirectory /\ Table' = NoTable
        /\ UNCHANGED marks
     \/ mounted /\ made' = FALSE /\ marks' = marks \cup {"wiped"}
        /\ UNCHANGED <<Directory, Table>>
  /\ kept' = <<>>
  /\ UNCHANGED <<mounted, used_block_bitmap, fd_array, lost, mounts>>

\* The directory is copied in part (sizeof a pointer per entry), the table as a
\* whole, and of the bitmap two bytes, which stand for no data block: the rest
\* of it is whatever malloc returned (1 stands for any value but 0).
mount_fs ==
  /\ ~mounted /\ made /\ mounts < MaxMounts
  /\ mounted' = TRUE
  /\ mounts' = mounts + 1
  /\ Directory' = [i \in Entries |-> IF i < LOADED_ENTRIES THEN Directory[i] ELSE ZeroEntry]
  /\ used_block_bitmap' \in [Blocks -> {0, 1}]
  /\ fd_array' = [f \in Fildes |-> FreeDescriptor]
  /\ LET marked == {b \in Blocks : used_block_bitmap'[b] = 1}
         owned == FileBlocks(Directory', Table)
         dropped == \E i \in UsedEntries(Directory) : i >= LOADED_ENTRIES
     IN /\ lost' = marked \ owned
        /\ marks' = marks \cup (IF dropped THEN {"entries_dropped"} ELSE {})
                          \cup (IF owned \subseteq marked THEN {} ELSE {"bitmap_forgot"})
  /\ kept' = Files
  /\ UNCHANGED <<made, data, saved, Table>>

\* Directory and table are written back, the bitmap is not.
umount_fs ==
  /\ mounted
  /\ Forget
  /\ saved' = [dir |-> Directory, table |-> Table]
  /\ marks' = marks \cup (IF \E f \in Fildes : fd_array[f].used THEN {"left_open"} ELSE {})
  /\ UNCHANGED <<made, data, Directory, Table, mounts>>

\* The process ends without umount_fs: the next one finds the directory and the
\* table as they were saved, and the data blocks as they are.
Crash ==
  /\ mounted
  /\ Forget
  /\ Directory' = saved.dir /\ Table' = saved.table
  /\ UNCHANGED <<made, data, saved, marks, mounts>>

-----------------------------------------------------------------------------
(* fs_create, fs_delete, fs_open, fs_close *)

\* The saved files when the one named n is written or deleted.
KeptWithout(n) == Restrict(kept, DOMAIN kept \ {n})

Take(b) == [used_block_bitmap EXCEPT ![b] = 1]

\* A block of a file, or one that was lost, is handed out again: mount_fs forgot
\* that it is used.
HandsOutAgain(new) ==
  "bitmap_forgot" \in marks /\ new \cap (FileBlocks(Directory, Table) \cup lost) # {}

fs_create(n) ==
  /\ mounted
  /\ n \notin fs_listfiles(Directory)
  /\ UsedEntries(Directory) # Entries
  /\ FreeBlocks # {}
  /\ LET b == Min(FreeBlocks)
         i == Min(Entries \ UsedEntries(Directory))
     IN /\ used_block_bitmap' = Take(b)
        /\ Table' = [Table EXCEPT ![b] = EOF]
        /\ Directory' = [Directory EXCEPT ![i] =
             [used |-> TRUE, inode_number |-> b, name |-> n, size |-> 0, count |-> 0]]
        /\ marks' = marks \cup (IF HandsOutAgain({b}) THEN {"reused"} ELSE {})
  /\ UNCHANGED <<disk, mounted, fd_array, lost, mounts>>

\* fs_open and fs_delete look at the names of unused entries as well.
EntriesNamed(n) == {i \in Entries : Directory[i].name = n}

\* Mutant: only the first block of the file is freed.
ReleaseFirst(i) ==
  [used_block_bitmap EXCEPT ![Directory[i].inode_number] = 0]

\* The bitmap when the blocks of entry i's file are freed.
Release(i) ==
  [b \in Blocks |-> IF b \in ChainBlocks(Table, Directory[i].inode_number) THEN 0
                    ELSE used_block_bitmap[b]]

fs_delete(n) ==
  /\ mounted
  /\ EntriesNamed(n) # {}
  /\ LET i == Min(EntriesNamed(n))
         chain == ChainBlocks(Table, Directory[i].inode_number)
     IN /\ Directory[i].count <= 0
        /\ used_block_bitmap' = Release(i)
        /\ Table' = [b \in Blocks |-> IF b \in chain THEN Unlinked ELSE Table[b]]
        /\ Directory' = [Directory EXCEPT ![i] = FreeEntry]
  /\ kept' = KeptWithout(n)
  /\ UNCHANGED <<made, data, saved, mounted, fd_array, lost, marks, mounts>>

fs_open(n) ==
  /\ mounted
  /\ EntriesNamed(n) # {}
  /\ \E f \in Fildes :
       /\ ~fd_array[f].used /\ \A g \in 0 .. f - 1 : fd_array[g].used
       /\ LET i == Min(EntriesNamed(n))
          IN /\ fd_array' = [fd_array EXCEPT ![f] =
                  [used |-> TRUE, inode_number |-> Directory[i].inode_number, offset |-> 0]]
             /\ Directory' = [Directory EXCEPT ![i].count = @ + 1]
  /\ UNCHANGED <<disk, mounted, Table, used_block_bitmap, lost, marks, mounts>>

\* Mutant: the entry's count is left as it was.
fs_close_uncounted(f) ==
  /\ mounted
  /\ fd_array[f].used
  /\ fd_array' = [fd_array EXCEPT ![f] = FreeDescriptor]
  /\ UNCHANGED <<disk, mounted, Directory, Table, used_block_bitmap, lost, marks, mounts>>

fs_close(f) ==
  /\ mounted
  /\ fd_array[f].used
  /\ fd_array' = [fd_array EXCEPT ![f] = FreeDescriptor]
  /\ Directory' = [Directory EXCEPT ![EntryOf(f)].count = @ - 1]
  /\ UNCHANGED <<disk, mounted, Table, used_block_bitmap, lost, marks, mounts>>

-----------------------------------------------------------------------------
(* fs_read, fs_write, fs_lseek, fs_truncate *)

SetOffset(f, o) == fd_array' = [fd_array EXCEPT ![f].offset = o]

fs_get_filesize(f) == Directory[EntryOf(f)].size

\* The offset moves by nbyte, or to the end of the file.
fs_read(f, nbyte) ==
  /\ mounted
  /\ fd_array[f].used
  /\ LET end == fd_array[f].offset + nbyte IN
     SetOffset(f, IF end > fs_get_filesize(f) THEN fs_get_filesize(f) ELSE end)
  /\ UNCHANGED <<disk, mounted, Directory, Table, used_block_bitmap, lost, marks, mounts>>

\* Mutant: a file may grow beyond MAX_FILESIZE.
WriteEndUncapped(start, nbyte) == start + nbyte

\* Where a write ends: at most at the greatest file size.
WriteEnd(start, nbyte) ==
  IF start + nbyte > MAX_FILESIZE THEN MAX_FILESIZE ELSE start + nbyte

\* Mutant: the search does not look at the bitmap.
LowestFreeAny(k) == {b \in Blocks : Cardinality({c \in Blocks : c < b}) < k}

\* The k lowest of the free blocks.
LowestFree(k) == {b \in FreeBlocks : Cardinality({c \in FreeBlocks : c < b}) < k}

\* Mutant: the last of the new blocks gets no end mark.
LinkBehindNoEnd(last, new) ==
  [b \in Blocks |->
     IF b = last \/ b \in new
     THEN LET behind == {c \in new : b = last \/ c > b}
          IN IF behind = {} THEN Table[b] ELSE Min(behind)
     ELSE Table[b]]

\* The table when the blocks new are linked, in ascending order, behind last.
LinkBehind(last, new) ==
  [b \in Blocks |->
     IF b = last \/ b \in new
     THEN LET behind == {c \in new : b = last \/ c > b}
          IN IF behind = {} THEN EOF ELSE Min(behind)
     ELSE Table[b]]

\* Mutant: the bytes land one too far.
StoredOff(place, start, end, v) ==
  [b \in Blocks |-> [k \in 0 .. BLOCK_SIZE - 1 |->
     IF \E p \in start + 1 .. end : b = place[p \div BLOCK_SIZE + 1] /\ k = p % BLOCK_SIZE
     THEN v ELSE data[b][k]]]

\* The data blocks with v in positions start to end - 1 of the file in place.
Stored(place, start, end, v) ==
  [b \in Blocks |-> [k \in 0 .. BLOCK_SIZE - 1 |->
     IF \E p \in start .. end - 1 : b = place[p \div BLOCK_SIZE + 1] /\ k = p % BLOCK_SIZE
     THEN v ELSE data[b][k]]]

\* nbyte bytes with value v are written.  The number of blocks needed is
\* computed from offset + nbyte - 1 in unsigned arithmetic, so that writing
\* nothing at offset 0 asks for more blocks than there are.  When the disk
\* is full, -1 is returned with the blocks taken so far linked to the file.
\* When a block is handed out again, the chain can lead back into itself: the
\* model only notes it.
fs_write(f, nbyte, v) ==
  /\ mounted
  /\ fd_array[f].used
  /\ LET i == EntryOf(f)
         inode == Directory[i].inode_number
         start == fd_array[f].offset
         end == WriteEnd(start, nbyte)
         missing == NumBlocks(end) - Cardinality(ChainBlocks(Table, inode))
         full == end = 0 \/ missing > Cardinality(FreeBlocks)
         new == IF full THEN FreeBlocks ELSE LowestFree(missing)
         place == Walk(LinkBehind(LastBlock(Table, inode), new), inode)
     IN \/ /\ marks' = marks \cup {"reused"}
           /\ HandsOutAgain(new)
           /\ UNCHANGED <<disk, memory>>
        \/ /\ \/ UNCHANGED <<fd_array, Directory, data, kept>> /\ full
              \/ /\ SetOffset(f, end)
                 /\ ~full
                 /\ Directory' = [Directory EXCEPT ![i].size = IF end > @ THEN end ELSE @]
                 /\ data' = Stored(place, start, end, v)
                 /\ kept' = KeptWithout(Directory[i].name)
           /\ used_block_bitmap' =
                [b \in Blocks |-> IF b \in new THEN 1 ELSE used_block_bitmap[b]]
           /\ Table' = LinkBehind(LastBlock(Table, inode), new)
           /\ ~HandsOutAgain(new)
           /\ UNCHANGED <<made, saved, marks>>
  /\ UNCHANGED <<mounted, lost, mounts>>

fs_lseek(f, offset) ==
  /\ mounted
  /\ fd_array[f].used
  /\ offset \in 0 .. fs_get_filesize(f)
  /\ SetOffset(f, offset)
  /\ UNCHANGED <<disk, mounted, Directory, Table, used_block_bitmap, lost, marks, mounts>>

\* The blocks that are cut off are unlinked but stay marked as used, and no
\* descriptor's offset is changed.
fs_truncate(f, length) ==
  /\ mounted
  /\ fd_array[f].used
  /\ length \in 0 .. fs_get_filesize(f)
  /\ LET i == EntryOf(f)
         inode == Directory[i].inode_number
         last == Walk(Table, inode)[NumBlocks(length)]
         cut == ChainBlocks(Table, last) \ {last}
     IN /\ Directory' = [Directory EXCEPT ![i].size = length]
        /\ Table' = [b \in Blocks |-> IF b = last THEN EOF
                                      ELSE IF b \in cut THEN Unlinked ELSE Table[b]]
        /\ lost' = lost \cup cut
        /\ marks' = IF \E g \in Fildes : /\ fd_array[g].used
                                         /\ fd_array[g].inode_number = inode
                                         /\ fd_array[g].offset > length
                    THEN marks \cup {"offset_past_end"} ELSE marks
  /\ UNCHANGED <<disk, mounted, used_block_bitmap, fd_array, mounts>>

-----------------------------------------------------------------------------
\* After one of these the structures on disk or in memory are damaged, and the
\* model does not follow the program any further.
Fatal == {"wiped", "entries_dropped", "reused"}

FileCall(f) ==
  \/ fs_close(f)
  \/ \E k \in 1 .. MaxWrite : fs_read(f, k)
  \/ \E k \in 0 .. MaxWrite, v \in Bytes : fs_write(f, k, v)
  \/ \E k \in 0 .. MAX_FILESIZE : fs_lseek(f, k) \/ fs_truncate(f, k)

Next ==
  /\ marks \cap Fatal = {}
  /\ \/ make_fs \/ mount_fs \/ umount_fs \/ Crash
     \/ \E n \in Names : fs_create(n) \/ fs_delete(n) \/ fs_open(n)
     \/ \E f \in Fildes : FileCall(f)

Spec == Init /\ [][Next]_vars
-----------------------------------------------------------------------------
(* Properties *)

\* Every variable has its type.
TypeOK ==
  /\ made \in BOOLEAN /\ mounted \in BOOLEAN /\ mounts \in 0 .. MaxMounts
  /\ data \in [Blocks -> [0 .. BLOCK_SIZE - 1 -> Bytes \cup {0}]]
  /\ {Directory, saved.dir} \subseteq
       [Entries -> [used : BOOLEAN, inode_number : Blocks \cup {-1, 0},
                    name : Names \cup {Nameless}, size : 0 .. MAX_FILESIZE, count : Nat]]
  /\ {Table, saved.table} \subseteq [Blocks -> Blocks \cup {EOF, Unlinked}]
  /\ mounted \/ saved = [dir |-> Directory, table |-> Table]
  /\ DOMAIN kept \subseteq fs_listfiles(saved.dir)
  /\ used_block_bitmap \in [Blocks -> {0, 1}]
  /\ fd_array \in [Fildes -> [used : BOOLEAN, inode_number : Blocks \cup {-1},
                              offset : 0 .. MAX_FILESIZE]]
  /\ lost \subseteq Blocks
  /\ marks \subseteq Fatal \cup {"bitmap_forgot", "left_open", "offset_past_end"}

Undamaged == marks \cap Fatal = {}

\* However files are created, grown, cut and deleted, no block is in two files,
\* and every file has enough blocks for its size and reaches its end: until
\* mount_fs drops files, or a block that it forgot is handed out again.
FilesSeparate ==
  LET used == UsedEntries(Directory)
      chain == [i \in used |-> ChainBlocks(Table, Directory[i].inode_number)]
  IN Undamaged =>
       \A i \in used :
         /\ \E b \in chain[i] : Table[b] = EOF
         /\ Cardinality(chain[i]) >= NumBlocks(Directory[i].size)
         /\ \A j \in used \ {i} :
              chain[i] \cap chain[j] = {} /\ Directory[i].name # Directory[j].name

\* A block is marked used if and only if it belongs to a file or has been lost:
\* to fs_truncate, or to the bitmap with which mount_fs started.  So no live
\* block is handed out again, and a lost one never is; unless that bitmap, which
\* is what malloc returned, has a block of a file as free.  The blocks that a
\* failed fs_write leaves linked to a file count as the file's.
Accounting ==
  (mounted /\ Undamaged /\ "bitmap_forgot" \notin marks) =>
     /\ {b \in Blocks : used_block_bitmap[b] = 1} = FileBlocks(Directory, Table) \cup lost
     /\ FileBlocks(Directory, Table) \cap lost = {}

\* The descriptors of a file are counted in its entry, so that fs_delete refuses
\* an open file and only that, unless umount_fs was called with descriptors open.
OpenCounted ==
  (mounted /\ Undamaged) =>
    /\ \A f \in Fildes : fd_array[f].used =>
         \E i \in UsedEntries(Directory) :
           Directory[i].inode_number = fd_array[f].inode_number
    /\ \A i \in Entries :
         LET n == Cardinality({f \in Fildes : fd_array[f].used /\
                                fd_array[f].inode_number = Directory[i].inode_number})
         IN IF "left_open" \in marks THEN Directory[i].count >= n
                                     ELSE Directory[i].count = n

\* FileStore's descriptors: the file and the position of each one that is open.
NotOpen == [name |-> Nameless, pos |-> 0]

Fds ==
  [f \in Fildes |->
     IF mounted /\ fd_array[f].used
     THEN [name |-> Directory[EntryOf(f)].name, pos |-> fd_array[f].offset]
     ELSE NotOpen]

Store == INSTANCE FileStore WITH
  MaxSize <- MAX_FILESIZE, Descriptor <- Fildes, Closed <- NotOpen, files <- Files, fds <- Fds

\* The disk has too few free blocks for a write of nbyte bytes.
NoRoom(f, nbyte) ==
  NumBlocks(WriteEnd(fd_array[f].offset, nbyte)) >
    Cardinality(ChainBlocks(Table, fd_array[f].inode_number)) + Cardinality(FreeBlocks)

\* Every call does to the files and descriptors, found by following the blocks
\* and the inode numbers, exactly what FileStore says of it, and to no other file
\* anything.  So do mount_fs and umount_fs, also with a bitmap that forgot blocks,
\* until one of these is handed out again or entries are dropped; and all calls
\* until fs_truncate leaves an offset behind the end of a file.  Only fs_write
\* does less than it should: without room for all bytes it writes none, where
\* the documentation has it write as many as possible.
StoresFiles ==
  [][marks' \subseteq {"left_open", "bitmap_forgot"} =>
       /\ make_fs => Store!Format
       /\ mount_fs \/ umount_fs => Store!Unmount
       /\ \A n \in Names :
            /\ fs_create(n) => Store!Create(n)
            /\ fs_delete(n) => Store!Delete(n)
            /\ fs_open(n) => \E f \in Fildes : Store!Open(f, n)
       /\ \A f \in Fildes :
            /\ fs_close(f) => Store!Close(f)
            /\ \A k \in 1 .. MaxWrite : fs_read(f, k) => Store!Read(f, k)
            /\ \A k \in 0 .. MAX_FILESIZE :
                 /\ fs_lseek(f, k) => Store!Seek(f, k)
                 /\ fs_truncate(f, k) => Store!Truncate(f, k)
            /\ \A k \in 0 .. MaxWrite, v \in Bytes :
                 fs_write(f, k, v) => IF NoRoom(f, k) THEN UNCHANGED Store!absvars
                                                      ELSE Store!Write(f, k, v)]_vars

\* When the process ends without umount_fs, the next one finds every file as it
\* was saved that has not been written or deleted since, also if it has been
\* truncated: none of its blocks was given to another file meanwhile.  That is
\* for every bitmap with which mount_fs may start, but only as long as no block
\* that it forgot is handed out again; with the usual bitmap, all zeros, the
\* first block that fs_create or fs_write takes can be one.
SavedSurvive ==
  [][(Crash /\ Undamaged) =>
       \A n \in DOMAIN kept : n \in DOMAIN Files' /\ Files'[n] = kept[n]]_vars
=============================================================================
