----------------------------- MODULE SharedDisk -----------------------------
(***************************************************************************)
(* Two or more shells of the P6 kernel that make directories in the root   *)
(* at the same time.  A system call runs with interrupts enabled and fs.c  *)
(* has no lock, so the calls interleave between the look at a bitmap and   *)
(* the mark in it, and between the transfers of block_modify, which reads  *)
(* a whole block and writes it back.  (FileSystem has all of fs.c, for     *)
(* calls that follow one another.)                                         *)
(*                                                                         *)
(* Here no transfer fails, no inode straddles, and the entries of the root *)
(* and the inodes fit in one block each.                                   *)
(***************************************************************************)
EXTENDS Integers, Sequences, FiniteSetsExt, TLC

CONSTANTS
  Callers,          \* processes that call fs_mkdir with the root as cwd
  NInodes, NBlocks  \* BITMAP_ENTRIES of either bitmap, at least one

VARIABLES
  ibmap, dbmap,  \* the inodes and the data blocks marked in memory
  disk,          \* what each block holds, part by part
  pc,            \* where each call is
  entry,         \* the entry each get_free_entry in progress has found
  ino,           \* dir_entry.inode of each call
  todo,          \* the block_modify calls each has still to make
  buf            \* buf of the block_modify in progress

vars == <<ibmap, dbmap, disk, pc, entry, ino, todo, buf>>

Root    == 0
NoEntry == -1

BitmapBlk  == <<"bitmaps", 0>>
InodeBlk   == <<"inodes", 0>>
DataBlk(b) == <<"data", b>>

(* more than the calls can add to the root *)
Entries == 0 .. NInodes * Cardinality(Callers) + 1

EmptyBuf == [step |-> "none", holds |-> << >>]

(* A disk that has just been formatted: fs_mkfs saves the bitmaps before   *)
(* the root gets its data block. Of an inode the size is kept, in entries, *)
(* of an entry the inode it names.                                         *)
Init ==
  /\ ibmap = {Root} /\ dbmap = {0}
  /\ disk = (BitmapBlk :> [ibmap |-> {Root}, dbmap |-> {}])
            @@ (InodeBlk :> [i \in 0 .. NInodes - 1 |-> IF i = Root THEN 2 ELSE 0])
            @@ [d \in {DataBlk(b) : b \in 0 .. NBlocks - 1} |-> [e \in Entries |-> Root]]
  /\ pc = [c \in Callers |-> "returned"]
  /\ entry = [c \in Callers |-> NoEntry] /\ ino = [c \in Callers |-> NoEntry]
  /\ todo = [c \in Callers |-> << >>] /\ buf = [c \in Callers |-> EmptyBuf]

----------------------------------------------------------------------------
(* get_free_entry: it looks for a zero bit, and then sets it. *)
FirstZero(marked, n) ==
  LET zero == (0 .. n - 1) \ marked IN IF zero = {} THEN NoEntry ELSE Min(zero)

Look(c, marked, n, found, none) ==
  LET e == FirstZero(marked, n) IN
  /\ entry' = [entry EXCEPT ![c] = e]
  /\ pc' = [pc EXCEPT ![c] = IF e = NoEntry THEN none ELSE found]
  /\ UNCHANGED <<ibmap, dbmap, disk, ino, todo, buf>>

(* block_modify(block, ...): data has the parts that are replaced. *)
Modify(block, data) == [block |-> block, data |-> data]

(* fs_mkdir *)
SeekInode(c) ==
  pc[c] = "returned" /\ todo[c] = << >> /\ Look(c, ibmap, NInodes, "mark inode", "returned")

MarkInode(c) ==
  /\ pc[c] = "mark inode"
  /\ ibmap' = ibmap \cup {entry[c]}
  /\ ino' = [ino EXCEPT ![c] = entry[c]]
  /\ pc' = [pc EXCEPT ![c] = "create"]
  /\ UNCHANGED <<dbmap, disk, entry, todo, buf>>

(* create_dir; without a block it returns and fs_mkdir goes on *)
SeekBlock(c) == pc[c] = "create" /\ Look(c, dbmap, NBlocks, "mark block", "created")

MarkBlock(c) ==
  /\ pc[c] = "mark block"
  /\ dbmap' = dbmap \cup {entry[c]}
  /\ todo' = [todo EXCEPT ![c] =
       <<Modify(InodeBlk, ino[c] :> 2), Modify(DataBlk(entry[c]), (0 :> ino[c]) @@ (1 :> Root))>>]
  /\ pc' = [pc EXCEPT ![c] = "created"]
  /\ UNCHANGED <<ibmap, disk, entry, ino, buf>>

(* read_inode of the parent; then the entry, the size and the bitmaps *)
ReadParent(c) ==
  LET size == disk[InodeBlk][Root] IN
  /\ pc[c] = "created" /\ todo[c] = << >>
  /\ todo' = [todo EXCEPT ![c] =
       <<Modify(DataBlk(0), size :> ino[c]), Modify(InodeBlk, Root :> size + 1),
         Modify(BitmapBlk, [ibmap |-> {}]), Modify(BitmapBlk, [dbmap |-> {}])>>]
  /\ pc' = [pc EXCEPT ![c] = "returned"]
  /\ UNCHANGED <<ibmap, dbmap, disk, entry, ino, buf>>

(* block_modify reads the block ... *)
BlockRead(c) ==
  /\ todo[c] # << >> /\ buf[c].step = "none"
  /\ buf' = [buf EXCEPT ![c] = [step |-> "read", holds |-> disk[Head(todo[c]).block]]]
  /\ UNCHANGED <<ibmap, dbmap, disk, pc, entry, ino, todo>>

(* ... copies the data into it, the bitmaps as they now are ...            *)
Copy(c) ==
  LET m    == Head(todo[c])
      data == IF m.block # BitmapBlk THEN m.data
              ELSE [p \in DOMAIN m.data |-> IF p = "ibmap" THEN ibmap ELSE dbmap]
  IN
  /\ todo[c] # << >> /\ buf[c].step = "read"
  /\ buf' = [buf EXCEPT ![c] = [step |-> "changed", holds |-> data @@ @.holds]]
  /\ UNCHANGED <<ibmap, dbmap, disk, pc, entry, ino, todo>>

(* ... and writes it back. *)
BlockWrite(c) ==
  /\ todo[c] # << >> /\ buf[c].step = "changed"
  /\ disk' = [disk EXCEPT ![Head(todo[c]).block] = buf[c].holds]
  /\ todo' = [todo EXCEPT ![c] = Tail(@)]
  /\ buf' = [buf EXCEPT ![c] = EmptyBuf]
  /\ UNCHANGED <<ibmap, dbmap, pc, entry, ino>>

Next ==
  \E c \in Callers :
    \/ SeekInode(c) \/ MarkInode(c) \/ SeekBlock(c) \/ MarkBlock(c)
    \/ ReadParent(c) \/ BlockRead(c) \/ Copy(c) \/ BlockWrite(c)

Spec == Init /\ [][Next]_vars

----------------------------------------------------------------------------
(* "The block block_num is changed so that the part of the block from      *)
(* offset until offset+data_size is replaced with the first data_size      *)
(* bytes from data" (block.c:74-76): what a write changes on the disk lies *)
(* in the part that its block_modify was called for, whoever else is at it.*)
ChangesItsPart(c) ==
  LET m == Head(todo[c]) IN
  \A p \in DOMAIN disk[m.block] : disk'[m.block][p] # disk[m.block][p] => p \in DOMAIN m.data

ModifyChangesItsPart == [][\A c \in Callers : BlockWrite(c) => ChangesItsPart(c)]_vars

=============================================================================
