---------------------------- MODULE MCFileSystem ----------------------------
(***************************************************************************)
(* FileSystem for TLC.                                                     *)
(***************************************************************************)
EXTENDS FileSystem, TLC

CONSTANTS fileA, fileB        \* two file names

\* The code compares names for equality only.
NamesAlike == Permutations(Names)

FileCount == Cardinality(UsedEntries(Directory))
Sizes == MapThenSumSet(LAMBDA i : Directory[i].size, Entries)
OneDescriptor == \A f \in Fildes \ {0} : ~fd_array[f].used

\* Bound: one descriptor and one mount use all three data blocks, which one file
\* can fill.
ThreeBlocks ==
  /\ mounts <= 1 /\ OneDescriptor
  /\ "offset_past_end" \notin marks
  /\ FileCount > 1 => Sizes <= BLOCK_SIZE + 1

\* Bound: two descriptors, or a second mount, use two of the blocks (the bitmap
\* of the mount has the last one as used).  The second mount is of a disk with
\* files, and is followed until all of these have been written or deleted.
TwoBlocks ==
  /\ Max(Blocks) \in lost /\ data[Max(Blocks)] = Blank[Max(Blocks)]
  /\ Sizes <= BLOCK_SIZE + 1
  /\ mounts > 1 =>
       /\ OneDescriptor
       /\ UsedEntries(saved.dir) # {}
       /\ DOMAIN kept # {}
       /\ "left_open" \in marks => Table = saved.table /\ DOMAIN kept = fs_listfiles(saved.dir)
       /\ "offset_past_end" \notin marks
       /\ ~({"left_open", "bitmap_forgot"} \subseteq marks)

\* The places of the ones that are in no file: what deleted or truncated files
\* leave behind.
Garbage ==
  LET ones == {c \in Blocks \X (0 .. BLOCK_SIZE - 1) : data[c[1]][c[2]] = 1}
      inside == {c \in ones : \E i \in UsedEntries(Directory) : \E p \in 1 .. Directory[i].size :
                   c = <<Walk(Table, Directory[i].inode_number)[(p - 1) \div BLOCK_SIZE + 1],
                         (p - 1) % BLOCK_SIZE>>}
  IN ones \ inside

\* Bound: at most one such place, and with a single short file only.
LittleGarbage ==
  \/ Garbage = {}
  \/ Cardinality(Garbage) = 1 /\ mounts <= 1 /\ FileCount = 1 /\ Sizes <= BLOCK_SIZE + 1

\* Bound: with an offset behind the end of a file, where no property is about
\* what files contain, they contain zeros.
Bound ==
  /\ ThreeBlocks \/ TwoBlocks \/ ~mounted
  /\ IF "offset_past_end" \in marks THEN data = Blank ELSE LittleGarbage

\* Bound: a second mount finds files of zeros, so that ones are new, and a bitmap
\* that covers all their blocks or none.
Second ==
  mounts = 1 /\ mounts' = 2 =>
    /\ \A n \in DOMAIN Files : \A p \in DOMAIN Files[n] : Files[n][p] = 0
    /\ "bitmap_forgot" \in marks' =>
         \A b \in FileBlocks(Directory', Table) : used_block_bitmap'[b] = 0

MCSpec == Init /\ [][Next /\ Bound' /\ Second]_vars

\* Mounting shows the files that were there when the disk was unmounted, as the
\* documentation promises, however many there are.
Persistent == [][mount_fs => Files' = Files]_vars
=============================================================================
