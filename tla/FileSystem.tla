----------------------------- MODULE FileSystem -----------------------------
(***************************************************************************)
(* fs.c of the P6 kernel over block.c: inodes, two bitmaps and data blocks *)
(* on a disk that is written one block at a time, as the shell uses them   *)
(* (mkdir, cd, ln, and cat to create and write files).  Any of the writes  *)
(* may fail, and the machine may stop between any two of them and boot     *)
(* again.                                                                  *)
(*                                                                         *)
(* The calls come one after the other, so each decides at once which       *)
(* blocks it will write.  Nothing in fs.c sees to that: SharedDisk is      *)
(* about two calls at a time.                                              *)
(*                                                                         *)
(* What the code does not guard against is in the model with all it writes *)
(* to the disk, and the history variable trouble remembers it:             *)
(*   "full"     an entry was made although no data block was left          *)
(*   "failed"   a block write failed, which nobody looks at                *)
(*   "spilled"  an inode was taken that lies in the data blocks            *)
(*   "unsaved"  a stop came while something was in use and not marked on   *)
(*              the disk                                                   *)
(* The properties say which of these they allow.                           *)
(*                                                                         *)
(* Sizes count cells: a data block has BlockSize, a directory entry two,   *)
(* its inode number and its name.  As in the code an entry may cross the   *)
(* end of a block.  Every cell remembers what it was written for.          *)
(***************************************************************************)
EXTENDS Integers, Sequences, FiniteSetsExt

CONSTANTS
  NInodes, NBlocks,  \* BITMAP_ENTRIES of either bitmap
  BlockSize,         \* BLOCK_SIZE
  NDirect,           \* INODE_NDIRECT
  Straddling,        \* inodes that cross the end of a block of the inode table
  Spilled,           \* inodes past INODE_BLOCKS: they lie in data block 0
  AtLast,            \* inodes at the start of the table's last block, data block -1
  DirNames,          \* names given to mkdir
  FileNames,         \* names given to cat and ln
  Dot, DotDot,       \* "." and ".."
  Data,              \* what a user writes
  Unset,             \* an inode or block number that was never assigned
  Sizes              \* lengths of the lines given to cat

VARIABLES
  up,            \* the kernel runs
  ibmap, dbmap,  \* the inodes and the data blocks marked in memory
  cwd, file,     \* of the shell: its directory; the file cat has open
  pending,       \* the block writes the call in progress has still to do
  magic,         \* on disk: the superblock
  ibmapD, dbmapD,  \* on disk: the bitmaps
  itable,        \* on disk: the inodes
  cells,         \* on disk: the data blocks
  lost,          \* the code has used what was never assigned, written or read
  trouble        \* history: see above

memVars  == <<up, ibmap, dbmap, cwd, file>>
diskVars == <<magic, ibmapD, dbmapD, itable, cells>>
vars     == <<memVars, diskVars, pending, lost, trouble>>

Names  == DirNames \cup FileNames
Inodes == 0 .. NInodes - 1
Blocks == 0 .. NBlocks - 1
Root   == 0

NoEntry  == -1  \* get_free_entry and name2inode found nothing
NoFile   == -2
MaxSize  == BlockSize * NDirect

ASSUME FileSystemAssumption ==
  /\ NInodes \in Nat \ {0} /\ NBlocks \in Nat \ {0}
  /\ BlockSize \in Nat /\ BlockSize >= 4 /\ NDirect \in Nat \ {0}
  /\ Straddling \subseteq Inodes \ {Root}
  /\ Spilled \subseteq Inodes \ {Root} /\ AtLast \subseteq Inodes
  /\ Sizes \subseteq 1 .. BlockSize

(* What was never assigned is no block and no inode; a name does not look  *)
(* like an inode number, nor what users write like a name.                 *)
ASSUME NamesAssumption ==
  /\ Unset \notin Blocks
  /\ Unset \notin [type : {"file", "dir"}, size : 0 .. MaxSize,
                  direct : [0 .. NDirect - 1 -> Blocks \cup {Unset}]]
  /\ (Names \cup {Dot, DotDot}) \cap (Inodes \cup {Data, Unset}) = {}

NoCell == [place |-> << >>, holds |-> Unset]

Init ==
  /\ up = FALSE /\ ibmap = {} /\ dbmap = {} /\ cwd = Root /\ file = NoFile
  /\ pending = << >>
  /\ magic = FALSE /\ ibmapD = {} /\ dbmapD = {}
  /\ itable = [i \in Inodes |-> Unset]
  /\ cells = [b \in Blocks |-> [o \in 0 .. BlockSize - 1 |-> NoCell]]
  /\ lost = FALSE /\ trouble = {}

----------------------------------------------------------------------------
(* get_free_entry: the first zero bit *)
GetFreeEntry(marked, n) ==
  LET unmarked == (0 .. n - 1) \ marked IN IF unmarked = {} THEN NoEntry ELSE Min(unmarked)

Mark(marked, e) == marked \cup ({e} \ {NoEntry})

(* create_file, create_dir: only the first block number is assigned *)
NewInode(type, size, blk) ==
  [type |-> type, size |-> size,
   direct |-> [d \in 0 .. NDirect - 1 |-> IF d = 0 THEN blk ELSE Unset]]

Cell(inode, pos) == cells[inode.direct[pos \div BlockSize]][pos % BlockSize]

(* The entries an inode holds: its cells taken two by two. *)
EntriesOf(inode) ==
  {n \in 0 .. inode.size \div 2 - 1 :
     Cell(inode, 2 * n + 1).holds \in Names \cup {Dot, DotDot}}

(* All that inode i names has been written and can be read. *)
Readable(i) ==
  /\ i \in Inodes /\ itable[i] # Unset
  /\ \A pos \in 0 .. itable[i].size - 1 : itable[i].direct[pos \div BlockSize] \in Blocks

(* name2inode *)
Name2Inode(name, i) ==
  LET same == {n \in EntriesOf(itable[i]) : Cell(itable[i], 2 * n + 1).holds = name}
  IN  IF same = {} THEN NoEntry ELSE Cell(itable[i], 2 * Min(same)).holds

(* Mutant: the data goes to the start of the block. *)
WriteCellsAtStart(blk, i, pos, seq) ==
  [kind |-> "data", blk |-> blk, from |-> 0,
   cells |-> [k \in 1 .. Len(seq) |-> [place |-> <<i, pos + k - 1>>, holds |-> seq[k]]]]

(* The block writes: block_modify of what inode i holds from position pos  *)
(* on, update_inode, update_bitmaps, and the ASSERT that stops the kernel. *)
WriteCells(blk, i, pos, seq) ==
  [kind |-> "data", blk |-> blk, from |-> pos % BlockSize,
   cells |-> [k \in 1 .. Len(seq) |-> [place |-> <<i, pos + k - 1>>, holds |-> seq[k]]]]

UpdateInode(i, inode) == [kind |-> "inode", ino |-> i, inode |-> inode]

(* Mutant: the last data block's mark is not saved. *)
UpdateBitmapsShort(im, dm) ==
  <<[kind |-> "ibmap", bits |-> im], [kind |-> "dbmap", bits |-> dm \ {NBlocks - 1}]>>

UpdateBitmaps(im, dm) == <<[kind |-> "ibmap", bits |-> im], [kind |-> "dbmap", bits |-> dm]>>

(* create_dir writes an inode that straddles in two parts; after the first *)
(* one it is no inode yet.                                                 *)
FirstPart(i) == IF i \in Straddling THEN <<UpdateInode(i, Unset)>> ELSE << >>

Assert == [kind |-> "assert"]

(* Mutant: the directory is written before what its new entry names. *)
AddEntryFirst(created, i, inode, entry) ==
  <<WriteCells(inode.direct[inode.size \div BlockSize], i, inode.size, entry),
    UpdateInode(i, [inode EXCEPT !.size = @ + 2])>> \o created

(* A new entry at the end of inode i, after what it names; then its size.  *)
AddEntry(created, i, inode, entry) ==
  created \o <<WriteCells(inode.direct[inode.size \div BlockSize], i, inode.size, entry),
    UpdateInode(i, [inode EXCEPT !.size = @ + 2])>>

Crosses(size, n) == (size % BlockSize) + n > BlockSize

(* The kernel stops; what only its memory held is gone.                    *)
Stop ==
  /\ up' = FALSE /\ ibmap' = {} /\ dbmap' = {} /\ cwd' = Root /\ file' = NoFile
  /\ pending' = << >>

(* Where spilled inode i lies in data block 0. *)
SpillsTo(i) == (i - Min(Spilled)) % BlockSize

(* The inodes that lie where w writes data. *)
Buried(w) ==
  IF w.blk = NoEntry THEN AtLast
  ELSE {i \in Spilled : w.blk = 0 /\ SpillsTo(i) - w.from + 1 \in DOMAIN w.cells}

----------------------------------------------------------------------------
(* the inodes that the entries of inode i name *)
Named(i) ==
  IF ~Readable(i) THEN {} ELSE {Cell(itable[i], 2 * n).holds : n \in EntriesOf(itable[i])}

(* the inodes that can be found by their names, in so many steps at most *)
Found ==
  LET found[k \in 0 .. NInodes] ==
        IF k = 0 THEN {Root} ELSE found[k-1] \cup UNION {Named(i) : i \in found[k-1]}
  IN  found

Reach == Found[NInodes]

BlocksOf(i) ==
  IF i \notin Inodes \/ itable[i] = Unset THEN {}
  ELSE {itable[i].direct[d] : d \in 0 .. NDirect - 1} \ {Unset}

MarkedIn(im, dm) ==
  \A i \in Reach : i \in im /\ BlocksOf(i) \subseteq dm

DiskMarksUse == magic => MarkedIn(ibmapD, dbmapD)

(* What a stop leaves on the disk. *)
Unsaved == IF DiskMarksUse THEN {} ELSE {"unsaved"}

----------------------------------------------------------------------------

(* Mutant: fs_init reads only the inode bitmap. *)
BootHalf ==
  /\ ~up
  /\ up' = TRUE
  /\ IF magic
       THEN ibmap' = ibmapD /\ UNCHANGED <<dbmap, pending>>
       ELSE LET blk == GetFreeEntry({}, NBlocks) IN
            /\ ibmap' = {Root} /\ dbmap' = {blk}
            /\ pending' = <<[kind |-> "super"]>>
                          \o UpdateBitmaps({Root}, {})
                          \o <<UpdateInode(Root, NewInode("dir", 4, blk)),
                               WriteCells(blk, Root, 0, <<Root, Dot, Root, DotDot>>)>>
  /\ UNCHANGED <<cwd, file, diskVars, lost, trouble>>

(* fs_init; fs_mkfs if there is no superblock: the bitmaps are written     *)
(* before create_dir takes a data block for the root directory.            *)
Boot ==
  /\ ~up
  /\ up' = TRUE
  /\ IF magic
       THEN ibmap' = ibmapD /\ dbmap' = dbmapD /\ UNCHANGED pending
       ELSE LET blk == GetFreeEntry({}, NBlocks) IN
            /\ ibmap' = {Root} /\ dbmap' = {blk}
            /\ pending' = <<[kind |-> "super"], UpdateInode(Root, itable[Root])>>
                          \o UpdateBitmaps({Root}, {})
                          \o <<UpdateInode(Root, NewInode("dir", 4, blk)),
                               WriteCells(blk, Root, 0, <<Root, Dot, Root, DotDot>>)>>
  /\ UNCHANGED <<cwd, file, diskVars, lost, trouble>>

(* block_modify reaches the disk.  The inodes past the table lie in data   *)
(* block 0: each overwrites the other.  So does data block -1, where a     *)
(* call writes that was refused a block, and the end of the table.         *)
Modified(w) ==
  /\ magic' = (magic \/ w.kind = "super")
  /\ ibmapD' = IF w.kind = "ibmap" THEN w.bits ELSE ibmapD
  /\ dbmapD' = IF w.kind = "dbmap" THEN w.bits ELSE dbmapD
  /\ itable' = CASE w.kind = "inode" -> [itable EXCEPT ![w.ino] = w.inode]
                 [] w.kind = "data" -> [i \in Inodes |-> IF i \in Buried(w) THEN Unset ELSE itable[i]]
                 [] OTHER -> itable
  /\ cells' = CASE w.kind = "data" /\ w.blk \in Blocks ->
                       [cells EXCEPT ![w.blk] = [o \in DOMAIN @ |->
                          IF o - w.from + 1 \in DOMAIN w.cells
                            THEN w.cells[o - w.from + 1] ELSE @[o]]]
                [] w.kind = "inode" /\ w.ino \in Spilled ->
                       [cells EXCEPT ![0][SpillsTo(w.ino)] = NoCell]
                [] OTHER -> cells
  /\ UNCHANGED trouble

(* A transfer failed: block_modify returns -1, and the call goes on. *)
NotModified == trouble' = trouble \cup {"failed"} /\ UNCHANGED diskVars

(* the next block of the call in progress *)
WriteBlock ==
  /\ up /\ pending # << >>
  /\ LET w == Head(pending) IN
     IF w.kind = "assert"
       THEN /\ Stop
            /\ trouble' = trouble \cup Unsaved
            /\ UNCHANGED diskVars
       ELSE /\ pending' = Tail(pending)
            /\ Modified(w) \/ NotModified
            /\ UNCHANGED memVars
  /\ UNCHANGED lost

(* The power goes, or a restart, at any moment. *)
Crash ==
  /\ up /\ ~lost
  /\ Stop
  /\ trouble' = trouble \cup Unsaved
  /\ UNCHANGED <<diskVars, lost>>

(* The shell makes its next call. *)
AtPrompt == up /\ ~lost /\ pending = << >> /\ file = NoFile

(* A call reads an inode that is not there, or one of its reads fails,     *)
(* which nobody looks at: it goes on with what the stack held.             *)
ReadsGarbage ==
  /\ up /\ ~lost /\ pending = << >>
  /\ lost' = TRUE
  /\ UNCHANGED <<memVars, diskVars, pending, trouble>>

Ready == AtPrompt /\ Readable(cwd)

(* fs_open of a name that exists, relative to cwd or to the root. A        *)
(* relative name must be a file's.                                         *)
Open(name, abs) ==
  /\ Ready
  /\ LET from == IF abs THEN Root ELSE cwd
         ino  == Name2Inode(name, from)
     IN
     /\ Readable(from) /\ ino \in Inodes
     /\ IF ino \in Straddling
          THEN pending' = <<Assert>> /\ UNCHANGED file
          ELSE /\ abs \/ (Readable(ino) /\ itable[ino].type = "file")
               /\ file' = ino /\ UNCHANGED pending
  /\ UNCHANGED <<up, ibmap, dbmap, cwd, diskVars, lost, trouble>>

(* fs_open of "/" opens the root, for writing as well. *)
OpenRoot ==
  /\ Ready /\ file' = Root
  /\ UNCHANGED <<up, ibmap, dbmap, cwd, diskVars, pending, lost, trouble>>

(* get_free_entry found no block, and an entry is made all the same. *)
Refused(blks) == IF NoEntry \in blks THEN {"full"} ELSE {}

(* create_dir, create_file write an inode that lies in data block 0. *)
Spills(ino, blk) == IF ino \in Spilled /\ blk # NoEntry THEN {"spilled"} ELSE {}

(* fs_open of a new name: mkfile, whose result nobody looks at. It fails   *)
(* after it has taken an inode and a block if the directory is full, and   *)
(* block_modify stops the kernel if the entry would cross a block's end.   *)
(* Without a block create_file writes no inode, and the entry is made.     *)
OpenNew(name) ==
  /\ Ready /\ Name2Inode(name, cwd) = NoEntry
  /\ LET ino == GetFreeEntry(ibmap, NInodes)
         blk == IF ino = NoEntry THEN NoEntry ELSE GetFreeEntry(dbmap, NBlocks)
         dir == IF ino = cwd THEN NewInode("file", 0, blk) ELSE itable[cwd]
         im  == Mark(ibmap, ino)
         dm  == Mark(dbmap, blk)
         created == IF blk = NoEntry THEN << >>
                    ELSE <<IF ino \in Straddling THEN Assert
                           ELSE UpdateInode(ino, NewInode("file", 0, blk))>>
         fails == ino = NoEntry \/ dir.size + 2 > MaxSize
     IN
     /\ ibmap' = im /\ dbmap' = dm
     /\ trouble' = trouble \cup Spills(ino, blk) \cup (IF fails THEN {} ELSE Refused({blk}))
     /\ IF fails THEN /\ pending' = created /\ file' = NoEntry
                      /\ UNCHANGED lost
        ELSE IF Crosses(dir.size, 2)
               THEN pending' = Append(created, Assert) /\ UNCHANGED <<file, lost>>
        ELSE IF dir.direct[dir.size \div BlockSize] = Unset
               THEN lost' = TRUE /\ UNCHANGED <<pending, file>>
        ELSE /\ pending' = AddEntry(created, cwd, dir, <<ino, name>>) \o UpdateBitmaps(im, dm)
             /\ file' = IF dir.size % 2 = 0 THEN ino ELSE NoEntry
             /\ UNCHANGED lost
  /\ UNCHANGED <<up, cwd, diskVars>>

(* fs_mkdir: an entry that crosses the end of a block takes a new one.     *)
(* Nobody looks whether create_dir had a block, or whether there is a new  *)
(* one: without it the rest of the entry goes to data block -1.            *)
Mkdir(name) ==
  /\ Ready
  /\ LET ino == GetFreeEntry(ibmap, NInodes)
         blk == GetFreeEntry(dbmap, NBlocks)
         new == NewInode("dir", 4, blk)
         dir == IF ino = cwd /\ blk # NoEntry THEN new ELSE itable[cwd]
         im  == Mark(ibmap, ino)
         dm  == Mark(dbmap, blk)
         created == IF blk = NoEntry THEN << >>
                    ELSE FirstPart(ino)
                           \o <<UpdateInode(ino, new),
                                WriteCells(blk, ino, 0, <<ino, Dot, cwd, DotDot>>)>>
         here  == dir.size \div BlockSize
         there == (dir.size + 2) \div BlockSize
         more  == GetFreeEntry(dm, NBlocks)
         moreDir == [dir EXCEPT !.direct[there] = more, !.size = @ + 2]
         fails == \/ dir.size + 2 > MaxSize
                  \/ there > NDirect - 1
                  \/ ~Crosses(dir.size, 2) /\ here >= NDirect - 1
     IN
     /\ ino # NoEntry
     /\ ibmap' = im
     /\ trouble' = trouble \cup Spills(ino, blk)
                      \cup (IF fails THEN {}
                            ELSE Refused({blk} \cup IF Crosses(dir.size, 2) THEN {more} ELSE {}))
     /\ IF fails
          THEN dbmap' = dm /\ pending' = created /\ UNCHANGED lost
        ELSE IF dir.direct[here] = Unset
               THEN lost' = TRUE /\ UNCHANGED <<dbmap, pending>>
        ELSE IF Crosses(dir.size, 2)
               THEN /\ dbmap' = Mark(dm, more)
                    /\ pending' = created
                         \o <<WriteCells(dir.direct[here], cwd, dir.size, <<ino>>),
                              WriteCells(more, cwd, dir.size + 1, <<name>>),
                              UpdateInode(cwd, moreDir)>>
                         \o UpdateBitmaps(im, dbmap')
                    /\ UNCHANGED lost
        ELSE /\ dbmap' = dm
             /\ pending' = AddEntry(created, cwd, dir, <<ino, name>>) \o UpdateBitmaps(im, dm)
             /\ UNCHANGED lost
  /\ UNCHANGED <<up, cwd, file, diskVars>>

(* fs_link of linkname to /name or to /sub/name. Of the first only the     *)
(* name is used, in cwd; cwd is left at sub if name is not a file there.   *)
(* The number of links is raised in a copy of the inode.                   *)
LinkIn(linkname, from, name) ==
  LET ino == Name2Inode(name, from)
      dir == itable[cwd]
  IN
  /\ Readable(from) /\ (ino \in Straddling \cup {NoEntry} \/ Readable(ino))
  /\ IF ino = NoEntry \/ (ino \notin Straddling /\ itable[ino].type = "dir")
       THEN cwd' = from /\ UNCHANGED <<pending, lost>>
     ELSE IF ino \in Straddling
       THEN pending' = <<Assert>> /\ UNCHANGED <<cwd, lost>>
     ELSE /\ UNCHANGED cwd
          /\ IF dir.size + 2 > MaxSize THEN UNCHANGED <<pending, lost>>
             ELSE IF itable[ino].size > BlockSize
                    THEN lost' = TRUE /\ UNCHANGED pending
             ELSE IF Crosses(dir.size, 2)
                    THEN pending' = <<Assert>> /\ UNCHANGED lost
             ELSE IF dir.direct[dir.size \div BlockSize] = Unset
                    THEN lost' = TRUE /\ UNCHANGED pending
             ELSE /\ pending' = AddEntry(<< >>, cwd, dir, <<ino, linkname>>) \o UpdateBitmaps(ibmap, dbmap)
                  /\ UNCHANGED lost

Link(linkname, name) ==
  /\ Ready /\ Name2Inode(linkname, cwd) \in {NoEntry, Root}
  /\ \/ LinkIn(linkname, cwd, name)
     \/ \E sub \in Names \cup {DotDot} :
          LET d == Name2Inode(sub, Root) IN
          /\ Readable(Root) /\ d \in Inodes
          /\ IF d \in Straddling
               THEN pending' = <<Assert>> /\ UNCHANGED <<cwd, lost>>
               ELSE LinkIn(linkname, d, name)
  /\ UNCHANGED <<up, ibmap, dbmap, file, diskVars, trouble>>

(* fs_chdir, relative or from the root: cwd has moved before the errors. *)
Chdir(name, abs) ==
  /\ Ready
  /\ LET from == IF abs THEN Root ELSE cwd
         ino  == Name2Inode(name, from)
     IN
     /\ Readable(from) /\ (ino \in Straddling \cup {NoEntry} \/ Readable(ino))
     /\ IF ino = NoEntry
          THEN cwd' = from /\ UNCHANGED pending
        ELSE IF ino \in Straddling
          THEN cwd' = from /\ pending' = <<Assert>>
        ELSE IF itable[ino].type = "file"
          THEN cwd' = (IF abs THEN Root ELSE ino) /\ UNCHANGED pending
        ELSE cwd' = ino /\ pending' = UpdateBitmaps(ibmap, dbmap)
  /\ UNCHANGED <<up, ibmap, dbmap, file, diskVars, lost, trouble>>

(* fs_write of a line of n cells: at the end of the file. A line that      *)
(* crosses the end of a block takes a block each time it is written, and   *)
(* the size stays what it was.                                             *)
Write(n) ==
  /\ up /\ ~lost /\ pending = << >> /\ file # NoFile
  /\ IF file = NoEntry \/ itable[file] = Unset THEN lost' = TRUE /\ UNCHANGED <<dbmap, pending>>
     ELSE
     LET inode == itable[file]
         here  == inode.size \div BlockSize
         final == (inode.size + n) \div BlockSize
         fits  == BlockSize - (inode.size % BlockSize)
         blk   == GetFreeEntry(dbmap, NBlocks)
         seq(k) == [j \in 1 .. k |-> Data]
     IN
     /\ final <= NDirect - 1
     /\ IF inode.direct[here] = Unset
          THEN lost' = TRUE /\ UNCHANGED <<dbmap, pending>>
        ELSE IF Crosses(inode.size, n)
          THEN /\ blk # NoEntry
               /\ dbmap' = Mark(dbmap, blk)
               /\ pending' =
                    <<WriteCells(inode.direct[here], file, inode.size, seq(fits)),
                      WriteCells(blk, file, inode.size + fits, seq(n - fits)),
                      UpdateInode(file, [inode EXCEPT !.direct[final] = blk])>>
                    \o UpdateBitmaps(ibmap, dbmap')
               /\ UNCHANGED lost
        ELSE /\ pending' =
                  <<WriteCells(inode.direct[here], file, inode.size, seq(n)),
                    UpdateInode(file, [inode EXCEPT !.size = @ + n])>>
                  \o UpdateBitmaps(ibmap, dbmap)
             /\ UNCHANGED <<dbmap, lost>>
  /\ UNCHANGED <<up, ibmap, cwd, file, diskVars, trouble>>

(* fs_close *)
Close ==
  /\ up /\ ~lost /\ pending = << >> /\ file # NoFile
  /\ file' = NoFile
  /\ UNCHANGED <<up, ibmap, dbmap, cwd, diskVars, pending, lost, trouble>>

Call ==
  \/ \E name \in DirNames : Mkdir(name)
  \/ \E name \in FileNames : OpenNew(name) \/ \E to \in FileNames : Link(name, to)
  \/ \E name \in Names, abs \in BOOLEAN : Open(name, abs)
  \/ \E name \in Names \cup {DotDot}, abs \in BOOLEAN : Chdir(name, abs)
  \/ \E n \in Sizes : Write(n)
  \/ OpenRoot \/ Close \/ ReadsGarbage

Next == Boot \/ WriteBlock \/ Crash \/ Call

Spec == Init /\ [][Next]_vars

----------------------------------------------------------------------------
(* Between two calls, as long as nothing that trouble remembers has come   *)
(* about: all that can be found from the root is marked as taken in the    *)
(* bitmaps that the next call allocates from, and no two inodes have a     *)
(* block in common, whatever calls have failed for want of an inode, of    *)
(* room in a directory or of a block for a line of a file.                 *)
MarksCoverUse ==
  up /\ ~lost /\ trouble = {} /\ pending = << >> =>
    /\ MarkedIn(ibmap, dbmap)
    /\ \A i, j \in Reach : i # j => BlocksOf(i) \cap BlocksOf(j) = {}

(* From the first call that has saved the bitmaps on, with no trouble, a   *)
(* restart between two calls finds on the disk every mark it needs.        *)
ReturnedCallsAreSaved ==
  up /\ ~lost /\ trouble = {} /\ pending = << >> /\ dbmapD # {} => DiskMarksUse

(* At whatever block write the machine stopped, with no trouble so far, an *)
(* entry that can be found names an inode that has been written.           *)
EntriesNameInodes ==
  ~lost /\ trouble = {} => \A i \in Reach \ {Root} : itable[i] # Unset

(* With no trouble, and whatever stops there have been, every cell of a    *)
(* file or directory, up to its size, is the one that was written at that  *)
(* place of it: no other file, entry or later write has taken its place.   *)
InPlaces ==
  \A i \in Reach : Readable(i) =>
    \A pos \in 0 .. itable[i].size - 1 : Cell(itable[i], pos).place = <<i, pos>>

NothingOverwritten == ~lost /\ trouble = {} /\ pending = << >> => InPlaces

=============================================================================
