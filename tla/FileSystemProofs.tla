-------------------------- MODULE FileSystemProofs --------------------------
(***************************************************************************)
(* Theorems about FileSystem for any number of inodes and blocks, any size *)
(* of a block and of an inode and any names, with one call at a time and   *)
(* as long as trouble is empty: the bitmaps cover what is in use, what has *)
(* returned is saved, an entry names an inode that exists, and nothing is  *)
(* overwritten, wherever the machine stops that leaves all use marked.     *)
(***************************************************************************)
EXTENDS FileSystem, FiniteSetTheorems, WaitingLists, TLAPS

EntryNames == Names \cup {Dot, DotDot}

Holdable == EntryNames \cup Inodes \cup {Data, Unset}

(* The inodes that lie in the inode table. *)
Table == Inodes \ Spilled

CellSet == [place : {<< >>} \cup (Inodes \X Nat), holds : Holdable]

InodeSet == [type : {"file", "dir"}, size : 0 .. MaxSize,
             direct : [0 .. NDirect - 1 -> Blocks \cup {Unset}]]

DataSet == [kind : {"data"}, blk : Blocks, from : 0 .. BlockSize - 1, cells : Seq(CellSet)]

WriteSet ==
  [kind : {"assert", "super"}] \cup [kind : {"ibmap"}, bits : SUBSET Inodes]
    \cup [kind : {"dbmap"}, bits : SUBSET Blocks]
    \cup [kind : {"inode"}, ino : Table, inode : InodeSet \cup {Unset}] \cup DataSet

(* What is on the disk, but for the superblock. *)
DiskSet == [itable : [Inodes -> InodeSet \cup {Unset}],
            cells : [Blocks -> [0 .. BlockSize - 1 -> CellSet]],
            ibmap : SUBSET Inodes, dbmap : SUBSET Blocks]

Disk == [itable |-> itable, cells |-> cells, ibmap |-> ibmapD, dbmap |-> dbmapD]

(* What the call in progress leaves in memory. *)
Mem == [ibmap |-> ibmap, dbmap |-> dbmap, cwd |-> cwd, file |-> file]

MemSet == [ibmap : SUBSET Inodes, dbmap : SUBSET Blocks, cwd : Int, file : Int]

----------------------------------------------------------------------------
(* Disk d holds inode's position pos here. *)
CellAt(d, inode, pos) == d.cells[inode.direct[pos \div BlockSize]][pos % BlockSize]

Written(U, d) == {i \in U : d.itable[i] # Unset}

(* What i holds up to its size was written there for it. *)
InPlace(d, i) ==
  \A pos \in 0 .. d.itable[i].size - 1 :
    /\ d.itable[i].direct[pos \div BlockSize] # Unset
    /\ CellAt(d, d.itable[i], pos).place = <<i, pos>>

(* A block belongs to one inode, and is there once. *)
Apart(U, d) ==
  \A i, j \in Written(U, d) : \A e, f \in 0 .. NDirect - 1 :
    d.itable[i].direct[e] # Unset /\ d.itable[i].direct[e] = d.itable[j].direct[f] =>
      i = j /\ e = f

(* The entries of the inodes of U name inodes of U. *)
Closed(U, d) ==
  \A i \in Written(U, d) : \A n \in 0 .. d.itable[i].size \div 2 - 1 :
    CellAt(d, d.itable[i], 2 * n + 1).holds \in EntryNames =>
      CellAt(d, d.itable[i], 2 * n).holds \in U

(* U holds all that can be found from the root, and d keeps it in order.   *)
(* Only the root may not have been written, before fs_mkfs or after a stop *)
(* in it. *)
Sound(U, d) ==
  /\ U \subseteq Table /\ Root \in U
  /\ Written(U, d) # U => U = {Root}
  /\ \A i \in Written(U, d) : InPlace(d, i)
  /\ Apart(U, d)
  /\ Closed(U, d)

(* The bitmaps mark U and the blocks of its inodes. *)
Marked(U, d, im, dm) ==
  /\ U \subseteq im
  /\ \A i \in Written(U, d) : \A e \in 0 .. NDirect - 1 :
       d.itable[i].direct[e] \in dm \cup {Unset}

EmptyDisk == [itable |-> [i \in Inodes |-> Unset],
              cells |-> [b \in Blocks |-> [o \in 0 .. BlockSize - 1 |-> NoCell]],
              ibmap |-> {}, dbmap |-> {}]

(* In fs_mkfs the root is written before its entries. *)
Blank(d) ==
  /\ \E b \in Blocks :
       d.itable = [i \in Inodes |-> IF i = Root THEN NewInode("dir", 4, b) ELSE Unset]
  /\ d.cells = EmptyDisk.cells
  /\ d.dbmap = {}

Fine(d) == d \in DiskSet /\ (Blank(d) \/ \E U : Sound(U, d))

(* Between two calls, with m in memory and d on the disk. *)
Ended(m, d) ==
  /\ m \in MemSet /\ d \in DiskSet
  /\ \E U : /\ Sound(U, d) /\ Marked(U, d, m.ibmap, m.dbmap)
            /\ d.dbmap # {} => Marked(U, d, d.ibmap, d.dbmap)
            /\ m.cwd \in U
            /\ m.file \in {NoFile, NoEntry} \/ m.file \in Written(U, d)

(* What a block write does to the disk (WriteBlock). *)
Apply(d, w) ==
  [itable |-> IF w.kind = "inode" THEN [d.itable EXCEPT ![w.ino] = w.inode] ELSE d.itable,
   cells  |-> IF w.kind = "data"
                THEN [d.cells EXCEPT ![w.blk] = [o \in DOMAIN @ |->
                        IF o - w.from + 1 \in DOMAIN w.cells
                          THEN w.cells[o - w.from + 1] ELSE @[o]]]
                ELSE d.cells,
   ibmap  |-> IF w.kind = "ibmap" THEN w.bits ELSE d.ibmap,
   dbmap  |-> IF w.kind = "dbmap" THEN w.bits ELSE d.dbmap]

(* The kernel stops before the write k of p is done. *)
Stops(p, k) == \E j \in 1 .. k : p[j].kind = "assert"

(* The writes p, done one by one, leave a disk in order after each of      *)
(* them, and one between two calls after the last. *)
Safe(m, d, p) ==
  /\ p \in Seq(WriteSet) /\ m \in MemSet
  /\ \E D : /\ D[0] = d
            /\ \A k \in 1 .. Len(p) : ~Stops(p, k) => D[k] = Apply(D[k - 1], p[k])
            /\ \A k \in 0 .. Len(p) : ~Stops(p, k) => Fine(D[k])
            /\ ~Stops(p, Len(p)) => Ended(m, D[Len(p)])

----------------------------------------------------------------------------
LEMMA Sizes0 ==
  /\ NInodes \in Nat /\ NInodes > 0 /\ NBlocks \in Nat /\ NBlocks > 0
  /\ BlockSize \in Nat \ {0} /\ BlockSize >= 4 /\ NDirect \in Nat /\ NDirect > 0
  /\ MaxSize \in Nat /\ MaxSize >= BlockSize
  /\ Root \in Inodes /\ Inodes \subseteq Nat /\ Blocks \subseteq Nat
<1>1. BlockSize * NDirect \in Nat /\ BlockSize * NDirect >= BlockSize
  BY FileSystemAssumption
<1> QED BY <1>1, FileSystemAssumption DEF MaxSize, Root, Inodes, Blocks

LEMMA Table0 == Root \in Table /\ Table \subseteq Inodes
BY Sizes0, FileSystemAssumption DEF Table

LEMMA Names0 ==
  /\ Unset \notin Blocks /\ Unset \notin InodeSet
  /\ EntryNames \cap (Inodes \cup {Data, Unset}) = {}
BY NamesAssumption DEF EntryNames, InodeSet

LEMMA Divide ==
  ASSUME NEW a \in Nat
  PROVE  /\ a \div BlockSize \in Nat /\ a % BlockSize \in 0 .. BlockSize - 1
         /\ a = (BlockSize * (a \div BlockSize)) + (a % BlockSize)
BY Sizes0

LEMMA Quotient ==
  ASSUME NEW q \in Nat, NEW r \in 0 .. BlockSize - 1, NEW q2 \in Nat, NEW r2 \in 0 .. BlockSize - 1,
         BlockSize * q + r = BlockSize * q2 + r2
  PROVE  q = q2 /\ r = r2
<1> USE Sizes0
<1>1. ASSUME q < q2 PROVE FALSE
  <2>1. BlockSize * (q2 - q) >= BlockSize
    BY <1>1
  <2>2. BlockSize * q2 - BlockSize * q = BlockSize * (q2 - q) /\ BlockSize * q \in Nat
          /\ BlockSize * q2 \in Nat
    OBVIOUS
  <2> QED BY <2>1, <2>2
<1>2. ASSUME q2 < q PROVE FALSE
  <2>1. BlockSize * (q - q2) >= BlockSize
    BY <1>2
  <2>2. BlockSize * q - BlockSize * q2 = BlockSize * (q - q2) /\ BlockSize * q \in Nat
          /\ BlockSize * q2 \in Nat
    OBVIOUS
  <2> QED BY <2>1, <2>2
<1>3. BlockSize * q \in Nat
  OBVIOUS
<1> QED BY <1>1, <1>2, <1>3

(* Positions in the block of a, and in the one after it. *)
LEMMA Along ==
  ASSUME NEW a \in Nat, NEW k \in Nat
  PROVE  /\ (a % BlockSize) + k < BlockSize =>
              (a + k) \div BlockSize = a \div BlockSize /\ (a + k) % BlockSize = (a % BlockSize) + k
         /\ (a % BlockSize) + k >= BlockSize /\ k <= BlockSize =>
              /\ (a + k) \div BlockSize = a \div BlockSize + 1
              /\ (a + k) % BlockSize = (a % BlockSize) + k - BlockSize
<1> DEFINE q == a \div BlockSize
           r == a % BlockSize
           q2 == (a + k) \div BlockSize
           r2 == (a + k) % BlockSize
<1>1. q \in Nat /\ r \in 0 .. BlockSize - 1 /\ a = BlockSize * q + r
  BY Divide
<1>2. q2 \in Nat /\ r2 \in 0 .. BlockSize - 1 /\ a + k = BlockSize * q2 + r2
  BY Divide
<1>3. BlockSize * q + (r + k) = BlockSize * q2 + r2
  <2>1. BlockSize * q \in Nat
    BY <1>1, Sizes0
  <2> QED BY <1>1, <1>2, <2>1
<1>4. ASSUME r + k < BlockSize PROVE q2 = q /\ r2 = r + k
  <2>1. r + k \in 0 .. BlockSize - 1
    BY <1>1, <1>4, Sizes0
  <2> HIDE DEF q, r, q2, r2
  <2> QED BY <1>1, <1>2, <1>3, <2>1, Quotient
<1>5. ASSUME r + k >= BlockSize, k <= BlockSize PROVE q2 = q + 1 /\ r2 = r + k - BlockSize
  <2>1. r + k - BlockSize \in 0 .. BlockSize - 1 /\ q + 1 \in Nat
    BY <1>1, <1>5, Sizes0
  <2>2. BlockSize * (q + 1) + (r + k - BlockSize) = BlockSize * q2 + r2
    <3>1. BlockSize * (q + 1) = BlockSize * q + BlockSize /\ BlockSize * q \in Nat
      BY <1>1, Sizes0
    <3> HIDE DEF q, r, q2, r2
    <3> QED BY <1>1, <1>3, <3>1, Sizes0
  <2> HIDE DEF q, r, q2, r2
  <2> QED BY <1>1, <1>2, <2>1, <2>2, Quotient
<1> QED BY <1>4, <1>5

LEMMA Below ==
  ASSUME NEW a \in Nat, NEW b \in Nat, a <= b
  PROVE  a \div BlockSize <= b \div BlockSize
<1>1. ASSUME a \div BlockSize > b \div BlockSize PROVE FALSE
  <2> DEFINE q == a \div BlockSize
             r == a % BlockSize
             q2 == b \div BlockSize
             r2 == b % BlockSize
  <2>1. q \in Nat /\ r \in 0 .. BlockSize - 1 /\ a = BlockSize * q + r
    BY Divide
  <2>2. q2 \in Nat /\ r2 \in 0 .. BlockSize - 1 /\ b = BlockSize * q2 + r2
    BY Divide
  <2>3. q2 < q
    BY <1>1
  <2> HIDE DEF q, r, q2, r2
  <2>4. BlockSize * (q - q2) >= BlockSize
    BY <2>1, <2>2, <2>3, Sizes0
  <2>5. BlockSize * q - BlockSize * q2 = BlockSize * (q - q2) /\ BlockSize * q \in Nat
          /\ BlockSize * q2 \in Nat
    BY <2>1, <2>2, Sizes0
  <2> QED BY <2>1, <2>2, <2>4, <2>5, Sizes0
<1> QED BY <1>1, Divide

LEMMA InBlocks ==
  ASSUME NEW a \in Nat
  PROVE  a < MaxSize <=> a \div BlockSize \in 0 .. NDirect - 1
<1> DEFINE q == a \div BlockSize
           r == a % BlockSize
<1>1. q \in Nat /\ r \in 0 .. BlockSize - 1 /\ a = BlockSize * q + r
  BY Divide
<1> HIDE DEF q, r
<1>2. BlockSize * q \in Nat /\ BlockSize * NDirect \in Nat
  BY <1>1, Sizes0
<1>3. ASSUME q < NDirect PROVE a < MaxSize
  <2>1. BlockSize * (NDirect - q) >= BlockSize
    BY <1>1, <1>3, Sizes0
  <2>2. BlockSize * NDirect - BlockSize * q = BlockSize * (NDirect - q)
    BY <1>1, Sizes0
  <2> QED BY <1>1, <1>2, <2>1, <2>2, Sizes0 DEF MaxSize
<1>4. ASSUME q >= NDirect PROVE ~(a < MaxSize)
  <2>1. BlockSize * (q - NDirect) \in Nat
    BY <1>1, <1>4, Sizes0
  <2>2. BlockSize * q - BlockSize * NDirect = BlockSize * (q - NDirect)
    BY <1>1, Sizes0
  <2> QED BY <1>1, <1>2, <2>1, <2>2, Sizes0 DEF MaxSize
<1>5. a \div BlockSize = q
  BY DEF q
<1> QED BY <1>1, <1>3, <1>4, <1>5, Sizes0

----------------------------------------------------------------------------
(* Safe, from the last write to the first. *)
LEMMA ApplyIs ==
  ASSUME NEW d \in DiskSet, NEW w \in WriteSet
  PROVE  /\ Apply(d, w) \in DiskSet
         /\ w.kind \in {"assert", "super", "ibmap", "dbmap", "inode", "data"}
         /\ w.kind = "data" <=> w \in DataSet
         /\ w.kind # "inode" => Apply(d, w).itable = d.itable
         /\ w.kind # "data" => Apply(d, w).cells = d.cells
         /\ w.kind # "ibmap" => Apply(d, w).ibmap = d.ibmap
         /\ w.kind # "dbmap" => Apply(d, w).dbmap = d.dbmap
<1>1. w.kind \in {"assert", "super", "ibmap", "dbmap", "inode", "data"}
  BY DEF WriteSet, DataSet
<1>2. w.kind = "data" <=> w \in DataSet
  BY DEF WriteSet, DataSet
<1>3. Apply(d, w).itable \in [Inodes -> InodeSet \cup {Unset}]
  <2>1. w.kind = "inode" => w.ino \in Inodes /\ w.inode \in InodeSet \cup {Unset}
    BY Table0 DEF WriteSet, DataSet
  <2> QED BY <2>1 DEF Apply, DiskSet
<1>4. Apply(d, w).cells \in [Blocks -> [0 .. BlockSize - 1 -> CellSet]]
  <2>1. CASE w.kind # "data"
    BY <2>1 DEF Apply, DiskSet
  <2>2. CASE w.kind = "data"
    <3>1. w.blk \in Blocks /\ w.cells \in Seq(CellSet)
      BY <1>2, <2>2 DEF DataSet
    <3>2. d.cells \in [Blocks -> [0 .. BlockSize - 1 -> CellSet]]
      BY DEF DiskSet
    <3> DEFINE new == [o \in DOMAIN d.cells[w.blk] |->
                         IF o - w.from + 1 \in DOMAIN w.cells THEN w.cells[o - w.from + 1]
                         ELSE d.cells[w.blk][o]]
    <3>3. Apply(d, w).cells = [d.cells EXCEPT ![w.blk] = new]
      BY <2>2 DEF Apply
    <3>4. new \in [0 .. BlockSize - 1 -> CellSet]
      <4>1. DOMAIN d.cells[w.blk] = 0 .. BlockSize - 1
        BY <3>1, <3>2
      <4>2. \A k \in DOMAIN w.cells : w.cells[k] \in CellSet
        BY <3>1
      <4>3. \A o \in 0 .. BlockSize - 1 : d.cells[w.blk][o] \in CellSet
        BY <3>1, <3>2
      <4> QED BY <4>1, <4>2, <4>3
    <3> HIDE DEF new
    <3> QED BY <3>1, <3>2, <3>3, <3>4
  <2> QED BY <2>1, <2>2
<1>5. Apply(d, w).ibmap \in SUBSET Inodes /\ Apply(d, w).dbmap \in SUBSET Blocks
  <2>1. /\ w.kind = "ibmap" => w.bits \in SUBSET Inodes
        /\ w.kind = "dbmap" => w.bits \in SUBSET Blocks
    BY DEF WriteSet, DataSet
  <2> QED BY <2>1 DEF Apply, DiskSet
<1>6. Apply(d, w) \in DiskSet
  BY <1>3, <1>4, <1>5 DEF Apply, DiskSet
<1> QED BY <1>1, <1>2, <1>6 DEF Apply

LEMMA EndedFine == ASSUME NEW m, NEW d, Ended(m, d) PROVE Fine(d)
BY DEF Ended, Fine

LEMMA SafeEnd ==
  ASSUME NEW m, NEW d, Ended(m, d)
  PROVE  Safe(m, d, << >>)
<1> DEFINE D == [k \in {0} |-> d]
<1>1. /\ << >> \in Seq(WriteSet) /\ m \in MemSet /\ Len(<< >>) = 0 /\ 0 .. 0 = {0} /\ 1 .. 0 = {}
  BY DEF Ended
<1>2. D[0] = d /\ Fine(D[0]) /\ Ended(m, D[0])
  BY EndedFine
<1> HIDE DEF D
<1> QED BY <1>1, <1>2 DEF Safe

LEMMA SafeStop ==
  ASSUME NEW m \in MemSet, NEW d, Fine(d),
         NEW p \in Seq(WriteSet), p # << >>, Head(p).kind = "assert"
  PROVE  Safe(m, d, p)
<1> DEFINE D == [k \in {0} |-> d]
<1>1. D[0] = d
  OBVIOUS
<1>2. Len(p) \in Nat /\ Len(p) > 0 /\ Head(p) = p[1]
  BY TailIs
<1>3. \A k \in 1 .. Len(p) : Stops(p, k)
  BY <1>2 DEF Stops
<1> HIDE DEF D
<1> QED BY <1>1, <1>2, <1>3 DEF Safe

LEMMA SafeCons ==
  ASSUME NEW m, NEW d, Fine(d),
         NEW p \in Seq(WriteSet), p # << >>, Safe(m, Apply(d, Head(p)), Tail(p))
  PROVE  Safe(m, d, p)
<1> DEFINE n == Len(p)
<1>1. PICK D : /\ D[0] = Apply(d, Head(p))
               /\ \A k \in 1 .. Len(Tail(p)) : ~Stops(Tail(p), k) => D[k] = Apply(D[k - 1], Tail(p)[k])
               /\ \A k \in 0 .. Len(Tail(p)) : ~Stops(Tail(p), k) => Fine(D[k])
               /\ ~Stops(Tail(p), Len(Tail(p))) => Ended(m, D[Len(Tail(p))])
  BY DEF Safe
<1>2. /\ n \in Nat /\ n > 0 /\ Len(Tail(p)) = n - 1 /\ Head(p) = p[1]
      /\ \A k \in 1 .. n - 1 : Tail(p)[k] = p[k + 1]
  BY TailIs
<1>3. \A k \in 1 .. n : ~Stops(p, k) => ~Stops(Tail(p), k - 1)
  <2> SUFFICES ASSUME NEW k \in 1 .. n, NEW j \in 1 .. k - 1, Tail(p)[j].kind = "assert"
               PROVE  Stops(p, k)
    BY DEF Stops
  <2>1. j + 1 \in 1 .. k /\ Tail(p)[j] = p[j + 1]
    BY <1>2
  <2> QED BY <2>1 DEF Stops
<1> DEFINE E == [k \in 0 .. n |-> IF k = 0 THEN d ELSE D[k - 1]]
<1>4. E[0] = d /\ \A k \in 1 .. n : E[k] = D[k - 1]
  BY <1>2
<1> HIDE DEF E, n
<1>5. ASSUME NEW k \in 1 .. n, ~Stops(p, k) PROVE E[k] = Apply(E[k - 1], p[k]) /\ Fine(E[k])
  <2>1. k - 1 \in 0 .. n - 1 /\ ~Stops(Tail(p), k - 1)
    BY <1>2, <1>3, <1>5
  <2>2. Fine(E[k])
    BY <1>1, <1>2, <1>4, <2>1
  <2>3. CASE k = 1
    <3>1. E[1] = Apply(d, Head(p)) /\ E[0] = d /\ p[1] = Head(p)
      BY <1>1, <1>2, <1>4
    <3> QED BY <2>2, <2>3, <3>1
  <2>4. CASE k # 1
    <3>1. k - 1 \in 1 .. n - 1 /\ k - 1 \in 1 .. n /\ (k - 1) + 1 = k
      BY <1>2, <2>4
    <3> QED BY <1>1, <1>2, <1>4, <2>1, <2>2, <3>1
  <2> QED BY <2>2, <2>3, <2>4
<1>6. ~Stops(p, n) => Ended(m, E[n])
  BY <1>1, <1>2, <1>3, <1>4
<1>7. \A k \in 0 .. n : ~Stops(p, k) => Fine(E[k])
  BY <1>2, <1>4, <1>5
<1> QED BY <1>4, <1>5, <1>6, <1>7 DEF Safe, n

LEMMA SafeTail ==
  ASSUME NEW m, NEW d, NEW p, Safe(m, d, p), p # << >>, Head(p).kind # "assert"
  PROVE  Safe(m, Apply(d, Head(p)), Tail(p))
<1> DEFINE n == Len(p)
<1>0. p \in Seq(WriteSet) /\ m \in MemSet
  BY DEF Safe
<1>1. PICK D : /\ D[0] = d
               /\ \A k \in 1 .. n : ~Stops(p, k) => D[k] = Apply(D[k - 1], p[k])
               /\ \A k \in 0 .. n : ~Stops(p, k) => Fine(D[k])
               /\ ~Stops(p, n) => Ended(m, D[n])
  BY DEF Safe
<1>2. /\ n \in Nat /\ n > 0 /\ Len(Tail(p)) = n - 1 /\ Head(p) = p[1] /\ Tail(p) \in Seq(WriteSet)
      /\ \A k \in 1 .. n - 1 : Tail(p)[k] = p[k + 1]
  BY <1>0, TailIs
<1> HIDE DEF n
<1>3. \A k \in 0 .. n - 1 : ~Stops(Tail(p), k) => ~Stops(p, k + 1)
  <2> SUFFICES ASSUME NEW k \in 0 .. n - 1, NEW j \in 1 .. k + 1, p[j].kind = "assert"
               PROVE  Stops(Tail(p), k)
    BY DEF Stops
  <2>1. j # 1
    BY <1>2
  <2>2. j - 1 \in 1 .. k /\ j - 1 \in 1 .. n - 1 /\ (j - 1) + 1 = j
    BY <1>2, <2>1
  <2> QED BY <1>2, <2>2 DEF Stops
<1> DEFINE E == [k \in 0 .. n - 1 |-> D[k + 1]]
<1>4. \A k \in 0 .. n - 1 : E[k] = D[k + 1] /\ k + 1 \in 1 .. n /\ k + 1 \in 0 .. n /\ (k + 1) - 1 = k
  BY <1>2
<1> HIDE DEF E
<1>5. E[0] = Apply(d, Head(p))
  <2>1. ~Stops(Tail(p), 0) /\ 0 \in 0 .. n - 1 /\ 0 + 1 = 1
    BY <1>2 DEF Stops
  <2> QED BY <1>1, <1>2, <1>3, <1>4, <2>1
<1>6. ASSUME NEW k \in 1 .. n - 1, ~Stops(Tail(p), k) PROVE E[k] = Apply(E[k - 1], Tail(p)[k])
  <2>1. k \in 0 .. n - 1 /\ k - 1 \in 0 .. n - 1 /\ (k - 1) + 1 = k
    BY <1>2
  <2> QED BY <1>1, <1>2, <1>3, <1>4, <1>6, <2>1
<1>7. \A k \in 0 .. n - 1 : ~Stops(Tail(p), k) => Fine(E[k])
  BY <1>1, <1>3, <1>4
<1>8. ~Stops(Tail(p), n - 1) => Ended(m, E[n - 1])
  <2>1. n - 1 \in 0 .. n - 1 /\ (n - 1) + 1 = n
    BY <1>2
  <2> QED BY <1>1, <1>3, <1>4, <2>1
<1> QED BY <1>0, <1>2, <1>5, <1>6, <1>7, <1>8 DEF Safe

LEMMA SafeNow ==
  ASSUME NEW m, NEW d, NEW p, Safe(m, d, p)
  PROVE  /\ p \in Seq(WriteSet) /\ m \in MemSet /\ Fine(d)
         /\ p = << >> => Ended(m, d)
<1>1. ~Stops(p, 0) /\ Len(p) \in Nat /\ (p = << >> => Len(p) = 0)
  BY DEF Stops, Safe
<1> QED BY <1>1 DEF Safe

----------------------------------------------------------------------------
(* What the writes do to a disk in order. *)
LEMMA Halves ==
  ASSUME NEW s \in Nat, NEW n \in 0 .. s \div 2 - 1
  PROVE  2 * n \in 0 .. s - 1 /\ 2 * n + 1 \in 0 .. s - 1
OBVIOUS

LEMMA Halved ==
  ASSUME NEW s \in Nat, NEW n \in Nat, 2 * n + 1 < s
  PROVE  n \in 0 .. s \div 2 - 1 /\ 2 * n \in 0 .. s - 1 /\ 2 * n + 1 \in 0 .. s - 1
OBVIOUS

LEMMA Held ==
  ASSUME NEW d \in DiskSet, NEW U, Sound(U, d), NEW i \in Written(U, d)
  PROVE  /\ i \in Inodes /\ i \in Table /\ i \in U /\ d.itable[i] # Unset /\ d.itable[i] \in InodeSet
         /\ d.itable[i].size \in 0 .. MaxSize
         /\ \A pos \in 0 .. d.itable[i].size - 1 :
              /\ pos \in Nat /\ pos \div BlockSize \in 0 .. NDirect - 1
              /\ pos % BlockSize \in 0 .. BlockSize - 1
              /\ d.itable[i].direct[pos \div BlockSize] \in Blocks
         /\ \A n \in 0 .. d.itable[i].size \div 2 - 1 :
              2 * n \in 0 .. d.itable[i].size - 1 /\ 2 * n + 1 \in 0 .. d.itable[i].size - 1
<1>1. i \in U /\ i \in Table /\ i \in Inodes /\ d.itable[i] # Unset
  BY Table0 DEF Sound, Written
<1>2. d.itable[i] \in InodeSet
  BY <1>1 DEF DiskSet
<1>3. d.itable[i].size \in 0 .. MaxSize
        /\ d.itable[i].direct \in [0 .. NDirect - 1 -> Blocks \cup {Unset}]
  BY <1>2 DEF InodeSet
<1>4. ASSUME NEW pos \in 0 .. d.itable[i].size - 1
      PROVE  /\ pos \in Nat /\ pos \div BlockSize \in 0 .. NDirect - 1
             /\ pos % BlockSize \in 0 .. BlockSize - 1
             /\ d.itable[i].direct[pos \div BlockSize] \in Blocks
  <2>1. pos \in Nat /\ pos < MaxSize
    BY <1>3, Sizes0
  <2>2. pos \div BlockSize \in 0 .. NDirect - 1 /\ pos % BlockSize \in 0 .. BlockSize - 1
    BY <2>1, InBlocks, Divide
  <2>3. d.itable[i].direct[pos \div BlockSize] # Unset
    BY DEF Sound, InPlace
  <2> QED BY <1>3, <2>1, <2>2, <2>3
<1>5. \A n \in 0 .. d.itable[i].size \div 2 - 1 :
        2 * n \in 0 .. d.itable[i].size - 1 /\ 2 * n + 1 \in 0 .. d.itable[i].size - 1
  <2>1. PICK s \in Nat : s = d.itable[i].size
    BY <1>3, Sizes0
  <2> QED BY <2>1, Halves
<1> QED BY <1>1, <1>2, <1>3, <1>4, <1>5

(* Two disks that hold the same for U. *)
LEMMA SameHeld ==
  ASSUME NEW d \in DiskSet, NEW c \in DiskSet, NEW U, Sound(U, d),
         \A i \in U : c.itable[i] = d.itable[i],
         \A i \in Written(U, d) : \A pos \in 0 .. d.itable[i].size - 1 :
           CellAt(c, d.itable[i], pos) = CellAt(d, d.itable[i], pos)
  PROVE  Sound(U, c) /\ Written(U, c) = Written(U, d)
<1>1. Written(U, c) = Written(U, d)
  BY DEF Written
<1>2. \A i \in Written(U, d) : c.itable[i] = d.itable[i]
  BY DEF Written
<1>3. ASSUME NEW i \in Written(U, c) PROVE InPlace(c, i)
  <2>1. i \in Written(U, d) /\ c.itable[i] = d.itable[i] /\ InPlace(d, i)
    BY <1>1, <1>2 DEF Sound
  <2> QED BY <2>1 DEF InPlace
<1>4. Apart(U, c)
  BY <1>1, <1>2 DEF Sound, Apart
<1>5. Closed(U, c)
  <2> SUFFICES ASSUME NEW i \in Written(U, d), NEW n \in 0 .. d.itable[i].size \div 2 - 1,
                      CellAt(c, d.itable[i], 2 * n + 1).holds \in EntryNames
               PROVE  CellAt(c, d.itable[i], 2 * n).holds \in U
    BY <1>1, <1>2 DEF Closed
  <2>1. 2 * n \in 0 .. d.itable[i].size - 1 /\ 2 * n + 1 \in 0 .. d.itable[i].size - 1
    BY Held
  <2>2. /\ CellAt(c, d.itable[i], 2 * n) = CellAt(d, d.itable[i], 2 * n)
        /\ CellAt(c, d.itable[i], 2 * n + 1) = CellAt(d, d.itable[i], 2 * n + 1)
    BY <2>1
  <2> QED BY <2>2 DEF Sound, Closed
<1> QED BY <1>1, <1>3, <1>4, <1>5 DEF Sound

LEMMA SameMarked ==
  ASSUME NEW d, NEW c, NEW U, NEW im, NEW dm, Marked(U, d, im, dm),
         \A i \in U : c.itable[i] = d.itable[i]
  PROVE  Marked(U, c, im, dm)
BY DEF Marked, Written

(* A write of data to cells that nobody has in use. *)
Spare(U, d, w) ==
  \A i \in Written(U, d) : \A pos \in 0 .. d.itable[i].size - 1 :
    d.itable[i].direct[pos \div BlockSize] = w.blk =>
      pos % BlockSize \notin w.from .. w.from + Len(w.cells) - 1

LEMMA CellsAfter ==
  ASSUME NEW d \in DiskSet, NEW w \in DataSet, NEW b \in Blocks, NEW o \in 0 .. BlockSize - 1
  PROVE  Apply(d, w).cells[b][o] =
           IF b = w.blk /\ o \in w.from .. w.from + Len(w.cells) - 1
             THEN w.cells[o - w.from + 1] ELSE d.cells[b][o]
<1>1. w.kind = "data" /\ w.blk \in Blocks /\ w.from \in 0 .. BlockSize - 1 /\ w.cells \in Seq(CellSet)
  BY DEF DataSet
<1>2. d.cells \in [Blocks -> [0 .. BlockSize - 1 -> CellSet]]
  BY DEF DiskSet
<1>3. d.cells[b] \in [0 .. BlockSize - 1 -> CellSet]
        /\ d.cells[w.blk] \in [0 .. BlockSize - 1 -> CellSet]
  BY <1>1, <1>2
<1> DEFINE new == [x \in DOMAIN d.cells[w.blk] |->
                     IF x - w.from + 1 \in DOMAIN w.cells THEN w.cells[x - w.from + 1]
                     ELSE d.cells[w.blk][x]]
<1>4. Apply(d, w).cells = [d.cells EXCEPT ![w.blk] = new]
  BY <1>1 DEF Apply
<1>5. new[o] = IF o - w.from + 1 \in DOMAIN w.cells THEN w.cells[o - w.from + 1] ELSE d.cells[w.blk][o]
  BY <1>3
<1>6. o - w.from + 1 \in DOMAIN w.cells <=> o \in w.from .. w.from + Len(w.cells) - 1
  <2>1. DOMAIN w.cells = 1 .. Len(w.cells) /\ Len(w.cells) \in Nat
    BY <1>1
  <2> QED BY <1>1, <2>1, Sizes0
<1> HIDE DEF new
<1>7. Apply(d, w).cells[b] = IF b = w.blk THEN new ELSE d.cells[b]
  BY <1>1, <1>2, <1>4
<1> QED BY <1>5, <1>6, <1>7

LEMMA DataKeeps ==
  ASSUME NEW d \in DiskSet, NEW U, Sound(U, d), NEW w \in DataSet, Spare(U, d, w)
  PROVE  /\ Sound(U, Apply(d, w)) /\ Written(U, Apply(d, w)) = Written(U, d)
         /\ Apply(d, w).itable = d.itable
<1>1. w \in WriteSet /\ w.kind = "data"
  BY DEF WriteSet, DataSet
<1>2. Apply(d, w) \in DiskSet /\ Apply(d, w).itable = d.itable
  BY <1>1, ApplyIs
<1>3. ASSUME NEW i \in Written(U, d), NEW pos \in 0 .. d.itable[i].size - 1
      PROVE  CellAt(Apply(d, w), d.itable[i], pos) = CellAt(d, d.itable[i], pos)
  <2>1. d.itable[i].direct[pos \div BlockSize] \in Blocks /\ pos % BlockSize \in 0 .. BlockSize - 1
    BY Held
  <2>2. ~(d.itable[i].direct[pos \div BlockSize] = w.blk
          /\ pos % BlockSize \in w.from .. w.from + Len(w.cells) - 1)
    BY DEF Spare
  <2> QED BY <2>1, <2>2, CellsAfter DEF CellAt
<1> QED BY <1>2, <1>3, SameHeld

LEMMA WritesOf ==
  ASSUME NEW i \in Table, NEW inode \in InodeSet \cup {Unset}
  PROVE  /\ UpdateInode(i, inode) \in WriteSet /\ UpdateInode(i, inode).kind = "inode"
         /\ \A d \in DiskSet : Apply(d, UpdateInode(i, inode)) =
              [d EXCEPT !.itable = [d.itable EXCEPT ![i] = inode]]
<1>1. UpdateInode(i, inode) \in WriteSet /\ UpdateInode(i, inode).kind = "inode"
  BY DEF UpdateInode, WriteSet
<1>2. ASSUME NEW d \in DiskSet
      PROVE  Apply(d, UpdateInode(i, inode)) = [d EXCEPT !.itable = [d.itable EXCEPT ![i] = inode]]
  <2> DEFINE new == [d.itable EXCEPT ![i] = inode]
  <2>1. Apply(d, UpdateInode(i, inode)) =
          [itable |-> new, cells |-> d.cells, ibmap |-> d.ibmap, dbmap |-> d.dbmap]
    BY DEF Apply, UpdateInode
  <2> HIDE DEF new
  <2>2. d = [itable |-> d.itable, cells |-> d.cells, ibmap |-> d.ibmap, dbmap |-> d.dbmap]
    BY DEF DiskSet
  <2> QED BY <2>1, <2>2 DEF new
<1> QED BY <1>1, <1>2

(* An inode outside U is written. *)
LEMMA OutsideKeeps ==
  ASSUME NEW d \in DiskSet, NEW U, Sound(U, d),
         NEW i \in Table \ U, NEW inode \in InodeSet \cup {Unset}
  PROVE  LET c == Apply(d, UpdateInode(i, inode)) IN
         /\ Sound(U, c) /\ Written(U, c) = Written(U, d)
         /\ c.itable[i] = inode /\ c.cells = d.cells /\ \A j \in U : c.itable[j] = d.itable[j]
<1> DEFINE c == Apply(d, UpdateInode(i, inode))
<1>1. c \in DiskSet /\ c.cells = d.cells
  BY WritesOf, ApplyIs
<1>2. c.itable = [d.itable EXCEPT ![i] = inode]
  BY DEF Apply, UpdateInode
<1>3. c.itable[i] = inode /\ \A j \in U : c.itable[j] = d.itable[j]
  BY <1>2, Table0 DEF DiskSet, Sound
<1> HIDE DEF c
<1>4. Sound(U, c) /\ Written(U, c) = Written(U, d)
  BY <1>1, <1>3, SameHeld DEF CellAt
<1> QED BY <1>1, <1>3, <1>4 DEF c

(* It belongs to U once all that it holds is there. *)
LEMMA Adopt ==
  ASSUME NEW d \in DiskSet, NEW U, Sound(U, d), Written(U, d) = U,
         NEW i \in Table \ U, d.itable[i] # Unset, InPlace(d, i),
         \A e \in 0 .. NDirect - 1 : d.itable[i].direct[e] # Unset =>
           e = 0 /\ \A j \in U : \A f \in 0 .. NDirect - 1 : d.itable[j].direct[f] # d.itable[i].direct[e],
         \A n \in 0 .. d.itable[i].size \div 2 - 1 :
           CellAt(d, d.itable[i], 2 * n).holds \in U \cup {i}
  PROVE  Sound(U \cup {i}, d) /\ Written(U \cup {i}, d) = U \cup {i}
<1> DEFINE V == U \cup {i}
<1>1. Written(V, d) = V
  BY DEF Written
<1>2. \A j \in V : InPlace(d, j)
  BY DEF Sound
<1>3. Apart(V, d)
  <2> SUFFICES ASSUME NEW j \in V, NEW k \in V, NEW e \in 0 .. NDirect - 1, NEW f \in 0 .. NDirect - 1,
                      d.itable[j].direct[e] # Unset, d.itable[j].direct[e] = d.itable[k].direct[f]
               PROVE  j = k /\ e = f
    BY <1>1 DEF Apart
  <2>1. CASE j \in U /\ k \in U
    BY <2>1 DEF Sound, Apart
  <2>2. CASE j = i \/ k = i
    BY <2>2
  <2> QED BY <2>1, <2>2
<1>4. Closed(V, d)
  BY <1>1 DEF Sound, Closed
<1> QED BY <1>1, <1>2, <1>3, <1>4 DEF Sound

(* An inode of U grows, in its own blocks and in one that is nobody's. *)
LEMMA InodeGrows ==
  ASSUME NEW d \in DiskSet, NEW U, Sound(U, d), NEW i \in Written(U, d),
         NEW inode \in InodeSet, d.itable[i].size <= inode.size,
         NEW e0,
         \A e \in 0 .. NDirect - 1 : e # e0 => inode.direct[e] = d.itable[i].direct[e],
         e0 \in 0 .. NDirect - 1 => inode.direct[e0] = d.itable[i].direct[e0]
           \/ \A j \in Written(U, d) : \A f \in 0 .. NDirect - 1 : d.itable[j].direct[f] # inode.direct[e0],
         \A pos \in 0 .. d.itable[i].size - 1 :
           inode.direct[pos \div BlockSize] = d.itable[i].direct[pos \div BlockSize],
         \A pos \in d.itable[i].size .. inode.size - 1 :
           inode.direct[pos \div BlockSize] # Unset /\ CellAt(d, inode, pos).place = <<i, pos>>,
         \A n \in 0 .. inode.size \div 2 - 1 :
           2 * n + 1 >= d.itable[i].size /\ CellAt(d, inode, 2 * n + 1).holds \in EntryNames =>
             CellAt(d, inode, 2 * n).holds \in U
  PROVE  LET c == Apply(d, UpdateInode(i, inode)) IN
         /\ Sound(U, c) /\ Written(U, c) = Written(U, d)
         /\ c.itable[i] = inode /\ c.cells = d.cells
         /\ \A j \in U \ {i} : c.itable[j] = d.itable[j]
<1> DEFINE c == Apply(d, UpdateInode(i, inode))
           old == d.itable[i]
<1>0. /\ i \in Table /\ i \in Inodes /\ i \in U /\ U \subseteq Table /\ inode # Unset
      /\ old \in InodeSet /\ old.size \in 0 .. MaxSize /\ inode.size \in 0 .. MaxSize
  BY Held, Names0 DEF Sound, InodeSet
<1>1. c \in DiskSet /\ c.cells = d.cells
  BY <1>0, WritesOf, ApplyIs
<1>2. c.itable = [d.itable EXCEPT ![i] = inode]
  BY DEF Apply, UpdateInode
<1>3. c.itable[i] = inode /\ \A j \in U \ {i} : c.itable[j] = d.itable[j]
  BY <1>0, <1>2 DEF DiskSet
<1>4. Written(U, c) = Written(U, d)
  BY <1>0, <1>3 DEF Written
<1>5. \A x, pos : CellAt(c, x, pos) = CellAt(d, x, pos)
  BY <1>1 DEF CellAt
<1> HIDE DEF c
<1>6. \A pos \in 0 .. old.size - 1 : CellAt(d, inode, pos) = CellAt(d, old, pos)
  BY DEF CellAt
<1>7. ASSUME NEW j \in Written(U, d) PROVE InPlace(c, j)
  <2>1. CASE j # i
    <3>1. c.itable[j] = d.itable[j] /\ InPlace(d, j)
      BY <1>3, <2>1 DEF Written, Sound
    <3> QED BY <1>5, <3>1 DEF InPlace
  <2>2. CASE j = i
    <3> SUFFICES ASSUME NEW pos \in 0 .. inode.size - 1
                 PROVE  inode.direct[pos \div BlockSize] # Unset /\ CellAt(d, inode, pos).place = <<i, pos>>
      BY <1>3, <1>5, <2>2 DEF InPlace
    <3>1. pos \in 0 .. old.size - 1 \/ pos \in old.size .. inode.size - 1
      BY <1>0
    <3>2. CASE pos \in 0 .. old.size - 1
      <4>1. old.direct[pos \div BlockSize] # Unset /\ CellAt(d, old, pos).place = <<i, pos>>
        BY <3>2 DEF Sound, InPlace
      <4> QED BY <1>6, <3>2, <4>1
    <3> QED BY <3>1, <3>2
  <2> QED BY <2>1, <2>2
<1>8. Apart(U, c)
  <2> SUFFICES ASSUME NEW j \in Written(U, d), NEW k \in Written(U, d),
                      NEW e \in 0 .. NDirect - 1, NEW f \in 0 .. NDirect - 1,
                      c.itable[j].direct[e] # Unset, c.itable[j].direct[e] = c.itable[k].direct[f]
               PROVE  j = k /\ e = f
    BY <1>4 DEF Apart
  <2>0. Apart(U, d)
    BY DEF Sound
  <2>1. \A x \in Written(U, d) : x # i => c.itable[x] = d.itable[x]
    BY <1>3 DEF Written
  <2> DEFINE Same(x, y) == c.itable[x].direct[y] = d.itable[x].direct[y]
  <2>2. /\ Same(j, e) \/ (j = i /\ e = e0)
        /\ Same(k, f) \/ (k = i /\ f = e0)
    BY <1>3, <2>1
  <2>3. CASE Same(j, e) /\ Same(k, f)
    <3>1. d.itable[j].direct[e] # Unset /\ d.itable[j].direct[e] = d.itable[k].direct[f]
      BY <2>3
    <3> HIDE DEF Same
    <3> QED BY <2>0, <3>1 DEF Apart
  <2>4. CASE j = i /\ e = e0 /\ ~Same(j, e)
    <3>1. c.itable[i].direct[e0] = inode.direct[e0]
          /\ \A x \in Written(U, d) : \A y \in 0 .. NDirect - 1 : d.itable[x].direct[y] # inode.direct[e0]
      BY <1>3, <2>4
    <3>2. ~Same(k, f)
      BY <2>4, <3>1
    <3> QED BY <2>2, <2>4, <3>2
  <2>5. CASE k = i /\ f = e0 /\ ~Same(k, f)
    <3>1. c.itable[i].direct[e0] = inode.direct[e0]
          /\ \A x \in Written(U, d) : \A y \in 0 .. NDirect - 1 : d.itable[x].direct[y] # inode.direct[e0]
      BY <1>3, <2>5
    <3>2. ~Same(j, e)
      BY <2>5, <3>1
    <3> QED BY <2>2, <2>5, <3>2
  <2> QED BY <2>2, <2>3, <2>4, <2>5
<1>9. Closed(U, c)
  <2> SUFFICES ASSUME NEW j \in Written(U, d), NEW n \in 0 .. c.itable[j].size \div 2 - 1,
                      CellAt(d, c.itable[j], 2 * n + 1).holds \in EntryNames
               PROVE  CellAt(d, c.itable[j], 2 * n).holds \in U
    BY <1>4, <1>5 DEF Closed
  <2>1. CASE j # i
    <3>1. c.itable[j] = d.itable[j]
      BY <1>3, <2>1 DEF Written
    <3> QED BY <3>1 DEF Sound, Closed
  <2>2. CASE j = i /\ 2 * n + 1 >= old.size
    BY <1>3, <2>2
  <2>3. CASE j = i /\ ~(2 * n + 1 >= old.size)
    <3>1. /\ n \in 0 .. old.size \div 2 - 1
          /\ 2 * n \in 0 .. old.size - 1 /\ 2 * n + 1 \in 0 .. old.size - 1
      <4>1. old.size \in Nat /\ n \in Nat
        BY <1>0, <1>3, <2>3, Sizes0
      <4>2. 2 * n + 1 < old.size
        BY <2>3, <4>1
      <4> QED BY <4>1, <4>2, Halved
    <3>2. CellAt(d, inode, 2 * n + 1) = CellAt(d, old, 2 * n + 1)
            /\ CellAt(d, inode, 2 * n) = CellAt(d, old, 2 * n)
      BY <1>6, <3>1
    <3> QED BY <1>3, <2>3, <3>1, <3>2 DEF Sound, Closed
  <2> QED BY <2>1, <2>2, <2>3
<1> QED BY <1>0, <1>1, <1>3, <1>4, <1>7, <1>8, <1>9 DEF Sound, c

----------------------------------------------------------------------------
(* The writes of the calls. V is all that can be found when they are done, *)
(* m what they leave in memory. *)
Good(m, V, d) ==
  /\ m \in MemSet /\ d \in DiskSet
  /\ Sound(V, d) /\ Marked(V, d, m.ibmap, m.dbmap)
  /\ m.cwd \in V
  /\ m.file \in {NoFile, NoEntry} \/ m.file \in Written(V, d)

LEMMA BitmapsSafe ==
  ASSUME NEW m, NEW V, NEW d, Good(m, V, d)
  PROVE  /\ UpdateBitmaps(m.ibmap, m.dbmap) \in Seq(WriteSet)
         /\ Safe(m, d, UpdateBitmaps(m.ibmap, m.dbmap))
<1> DEFINE a == [kind |-> "ibmap", bits |-> m.ibmap]
           b == [kind |-> "dbmap", bits |-> m.dbmap]
           c == Apply(d, a)
           e == Apply(c, b)
<1>1. a \in WriteSet /\ b \in WriteSet /\ a.kind = "ibmap" /\ b.kind = "dbmap"
        /\ m.dbmap \subseteq Blocks
  BY DEF WriteSet, MemSet, Good
<1>2. c \in DiskSet /\ c.itable = d.itable /\ c.cells = d.cells /\ c.ibmap = m.ibmap
  BY <1>1, ApplyIs DEF Good, Apply
<1>3. e \in DiskSet /\ e.itable = d.itable /\ e.cells = d.cells /\ e.ibmap = m.ibmap
        /\ e.dbmap = m.dbmap
  <2> HIDE DEF c
  <2>1. e.dbmap = m.dbmap
    BY DEF Apply
  <2> QED BY <1>1, <1>2, <2>1, ApplyIs
<1>4. UpdateBitmaps(m.ibmap, m.dbmap) = <<a, b>>
  BY DEF UpdateBitmaps
<1> HIDE DEF a, b, c, e
<1>5. Sound(V, c) /\ Sound(V, e) /\ Written(V, e) = Written(V, d)
  BY <1>2, <1>3, SameHeld DEF Good, CellAt
<1>6. Marked(V, e, m.ibmap, m.dbmap)
  BY <1>3, SameMarked DEF Good
<1>7. Ended(m, e)
  BY <1>3, <1>5, <1>6 DEF Ended, Good
<1>8. Safe(m, e, << >>)
  BY <1>7, SafeEnd
<1>9. Safe(m, c, <<b>>)
  <2>1. Head(<<b>>) = b /\ Tail(<<b>>) = << >> /\ <<b>> \in Seq(WriteSet) /\ <<b>> # << >>
    BY <1>1
  <2>2. Apply(c, b) = e /\ Fine(c)
    BY <1>2, <1>5 DEF e, Fine
  <2> QED BY <1>8, <2>1, <2>2, SafeCons
<1>10. Safe(m, d, <<a, b>>)
  <2>1. Head(<<a, b>>) = a /\ Tail(<<a, b>>) = <<b>> /\ <<a, b>> \in Seq(WriteSet) /\ <<a, b>> # << >>
    BY <1>1
  <2>2. Apply(d, a) = c /\ Fine(d)
    BY DEF c, Fine, Good
  <2> QED BY <1>9, <2>1, <2>2, SafeCons
<1> QED BY <1>1, <1>4, <1>10

LEMMA DataOf ==
  ASSUME NEW blk \in Blocks, NEW i \in Inodes, NEW pos \in Nat, NEW seq \in Seq(Holdable)
  PROVE  LET w == WriteCells(blk, i, pos, seq) IN
         /\ w \in DataSet /\ w \in WriteSet /\ w.blk = blk /\ w.from = pos % BlockSize
         /\ Len(w.cells) = Len(seq) /\ Len(seq) \in Nat
         /\ \A k \in 1 .. Len(seq) : w.cells[k] = [place |-> <<i, pos + k - 1>>, holds |-> seq[k]]
<1> DEFINE w == WriteCells(blk, i, pos, seq)
           cs == [k \in 1 .. Len(seq) |-> [place |-> <<i, pos + k - 1>>, holds |-> seq[k]]]
<1>1. Len(seq) \in Nat /\ \A k \in 1 .. Len(seq) : seq[k] \in Holdable
  OBVIOUS
<1>2. ASSUME NEW k \in 1 .. Len(seq)
      PROVE  [place |-> <<i, pos + k - 1>>, holds |-> seq[k]] \in CellSet
  <2>1. pos + k - 1 \in Nat
    BY <1>1
  <2>2. <<i, pos + k - 1>> \in Inodes \X Nat
    BY <2>1
  <2> QED BY <1>1, <2>2 DEF CellSet
<1>3. cs \in Seq(CellSet) /\ Len(cs) = Len(seq)
  BY <1>1, <1>2
<1>4. pos % BlockSize \in 0 .. BlockSize - 1
  BY Divide
<1>5. w = [kind |-> "data", blk |-> blk, from |-> pos % BlockSize, cells |-> cs]
  BY DEF WriteCells
<1>6. \A k \in 1 .. Len(seq) : cs[k] = [place |-> <<i, pos + k - 1>>, holds |-> seq[k]]
  OBVIOUS
<1> HIDE DEF cs, w
<1>7. w \in DataSet /\ w.cells = cs /\ w.blk = blk /\ w.from = pos % BlockSize
  BY <1>3, <1>4, <1>5 DEF DataSet
<1> QED BY <1>1, <1>3, <1>6, <1>7 DEF w, WriteSet

(* On disk d, inode i holds seq from position pos on, all in one block. *)
There(d, inode, i, pos, seq) ==
  \A q \in pos .. pos + Len(seq) - 1 :
    /\ q \div BlockSize = pos \div BlockSize
    /\ CellAt(d, inode, q) = [place |-> <<i, q>>, holds |-> seq[q - pos + 1]]

LEMMA DataThere ==
  ASSUME NEW d \in DiskSet, NEW blk \in Blocks, NEW i \in Inodes, NEW pos \in Nat,
         NEW seq \in Seq(Holdable), (pos % BlockSize) + Len(seq) <= BlockSize,
         NEW inode, inode.direct[pos \div BlockSize] = blk
  PROVE  There(Apply(d, WriteCells(blk, i, pos, seq)), inode, i, pos, seq)
<1> DEFINE w == WriteCells(blk, i, pos, seq)
<1>1. /\ w \in DataSet /\ w.blk = blk /\ w.from = pos % BlockSize
      /\ Len(w.cells) = Len(seq) /\ Len(seq) \in Nat
      /\ \A x \in 1 .. Len(seq) : w.cells[x] = [place |-> <<i, pos + x - 1>>, holds |-> seq[x]]
  BY DataOf
<1> HIDE DEF w
<1> SUFFICES ASSUME NEW q \in pos .. pos + Len(seq) - 1
             PROVE  /\ q \div BlockSize = pos \div BlockSize
                    /\ CellAt(Apply(d, w), inode, q) = [place |-> <<i, q>>, holds |-> seq[q - pos + 1]]
  BY DEF There, w
<1> DEFINE r == pos % BlockSize
           k == q - pos
<1>2. r \in 0 .. BlockSize - 1 /\ k \in Nat /\ r + k < BlockSize /\ pos + k = q /\ k < Len(seq)
  <2>1. r \in 0 .. BlockSize - 1 /\ r + Len(seq) <= BlockSize
    BY Divide
  <2> HIDE DEF r
  <2> QED BY <1>1, <2>1, Sizes0
<1>7. w.from = r
  BY <1>1
<1> HIDE DEF k
<1>3. q \div BlockSize = pos \div BlockSize /\ q % BlockSize = r + k
  <2>1. (pos + k) \div BlockSize = pos \div BlockSize /\ (pos + k) % BlockSize = r + k
    BY <1>2, Along
  <2> QED BY <1>2, <2>1
<1> HIDE DEF r
<1>4. r + k \in 0 .. BlockSize - 1 /\ r + k \in r .. r + Len(w.cells) - 1 /\ (r + k) - r + 1 = k + 1
      /\ k + 1 \in 1 .. Len(seq) /\ pos + (k + 1) - 1 = q
  BY <1>1, <1>2, Sizes0
<1>5. Apply(d, w).cells[blk][r + k] = w.cells[k + 1]
  <2>1. w.cells[(r + k) - w.from + 1] = w.cells[k + 1]
    BY <1>4, <1>7
  <2>2. r + k \in 0 .. BlockSize - 1 /\ r + k \in w.from .. w.from + Len(w.cells) - 1
    BY <1>4, <1>7
  <2> QED BY <1>1, <2>1, <2>2, CellsAfter
<1>6. w.cells[k + 1] = [place |-> <<i, q>>, holds |-> seq[k + 1]]
  BY <1>1, <1>4
<1> QED BY <1>3, <1>5, <1>6 DEF CellAt, k

(* What lies behind the end of an inode is nobody's. *)
LEMMA SpareEnd ==
  ASSUME NEW d \in DiskSet, NEW U, Sound(U, d), NEW i \in Written(U, d),
         NEW pos \in Nat, d.itable[i].size <= pos, pos < MaxSize,
         d.itable[i].direct[pos \div BlockSize] # Unset,
         NEW seq \in Seq(Holdable)
  PROVE  LET blk == d.itable[i].direct[pos \div BlockSize] IN
         blk \in Blocks /\ Spare(U, d, WriteCells(blk, i, pos, seq))
<1> DEFINE blk == d.itable[i].direct[pos \div BlockSize]
           w == WriteCells(blk, i, pos, seq)
<1>1. pos \div BlockSize \in 0 .. NDirect - 1 /\ i \in Inodes
  BY InBlocks, Held
<1>2. blk \in Blocks
  <2>1. d.itable[i].direct \in [0 .. NDirect - 1 -> Blocks \cup {Unset}]
    BY Held DEF InodeSet
  <2> QED BY <1>1, <2>1
<1>3. w.blk = blk /\ w.from = pos % BlockSize
  BY <1>1, <1>2, DataOf
<1> HIDE DEF w
<1>4. ASSUME NEW j \in Written(U, d), NEW q \in 0 .. d.itable[j].size - 1,
             d.itable[j].direct[q \div BlockSize] = blk
      PROVE  ~(q % BlockSize >= pos % BlockSize)
  <2>1. q \in Nat /\ q \div BlockSize \in 0 .. NDirect - 1
    BY Held
  <2>2. j = i /\ q \div BlockSize = pos \div BlockSize
    BY <1>1, <1>4, <2>1 DEF Sound, Apart
  <2>3. q < pos
    <3>1. d.itable[i].size \in Nat /\ d.itable[i].size <= pos /\ q <= d.itable[i].size - 1
      BY <2>2, Held, Sizes0
    <3> QED BY <2>1, <3>1
  <2> DEFINE h == pos \div BlockSize
             r == pos % BlockSize
             s == q % BlockSize
  <2>4. h \in Nat /\ r \in 0 .. BlockSize - 1 /\ pos = BlockSize * h + r
    BY Divide
  <2>5. s \in 0 .. BlockSize - 1 /\ q = BlockSize * h + s
    BY <2>1, <2>2, Divide
  <2>6. BlockSize * h \in Nat
    BY <2>4, Sizes0
  <2> HIDE DEF h, r, s
  <2>7. s < r
    BY <2>3, <2>4, <2>5, <2>6, Sizes0
  <2> QED BY <2>4, <2>5, <2>7, Sizes0 DEF r, s
<1>5. Spare(U, d, w)
  <2> SUFFICES ASSUME NEW j \in Written(U, d), NEW q \in 0 .. d.itable[j].size - 1,
                      d.itable[j].direct[q \div BlockSize] = blk
               PROVE  q % BlockSize \notin w.from .. w.from + Len(w.cells) - 1
    BY <1>3 DEF Spare
  <2>1. ~(q % BlockSize >= pos % BlockSize)
    BY <1>4
  <2> QED BY <1>3, <2>1
<1> QED BY <1>2, <1>5 DEF w

LEMMA SpareNew ==
  ASSUME NEW d \in DiskSet, NEW U, Sound(U, d), NEW w,
         \A j \in Written(U, d) : \A f \in 0 .. NDirect - 1 : d.itable[j].direct[f] # w.blk
  PROVE  Spare(U, d, w)
BY Held DEF Spare

(* A name in seq comes after an inode of V. *)
Names2(seq, V) == \A k \in 1 .. Len(seq) : seq[k] \in EntryNames => k > 1 /\ seq[k - 1] \in V

(* seq may be added at the end of inode i, in the block where that is. *)
CanAppend(m, V, d, i, seq) ==
  LET old == d.itable[i] IN
  /\ Good(m, V, d) /\ i \in Written(V, d)
  /\ seq \in Seq(Holdable) /\ Len(seq) > 0 /\ Names2(seq, V)
  /\ (old.size % BlockSize) + Len(seq) <= BlockSize /\ old.size + Len(seq) <= MaxSize
  /\ old.direct[old.size \div BlockSize] # Unset

AppendWrites(m, d, i, seq) ==
  LET old == d.itable[i] IN
  <<WriteCells(old.direct[old.size \div BlockSize], i, old.size, seq),
    UpdateInode(i, [old EXCEPT !.size = @ + Len(seq)])>> \o UpdateBitmaps(m.ibmap, m.dbmap)

LEMMA AppendSafe ==
  ASSUME NEW m, NEW V, NEW d, NEW i, NEW seq, CanAppend(m, V, d, i, seq)
  PROVE  Safe(m, d, AppendWrites(m, d, i, seq))
<1>a. PICK old : old = d.itable[i]
  OBVIOUS
<1>b. PICK size : size = old.size
  OBVIOUS
<1>c. PICK n : n = Len(seq)
  OBVIOUS
<1>j. PICK inode : inode = [old EXCEPT !.size = @ + n]
  OBVIOUS
<1>d. PICK blk : blk = old.direct[size \div BlockSize]
  OBVIOUS
<1>e. PICK w : w = WriteCells(blk, i, size, seq)
  OBVIOUS
<1>f. PICK c : c = Apply(d, w)
  OBVIOUS
<1>g. PICK u : u = UpdateInode(i, inode)
  OBVIOUS
<1>h. PICK e : e = Apply(c, u)
  OBVIOUS
<1>i. PICK bm : bm = UpdateBitmaps(m.ibmap, m.dbmap)
  OBVIOUS
<1>0. /\ d \in DiskSet /\ Sound(V, d) /\ Good(m, V, d) /\ m \in MemSet
      /\ i \in Written(V, d) /\ seq \in Seq(Holdable) /\ Names2(seq, V)
  BY DEF Good, CanAppend
<1>k. /\ n > 0 /\ (size % BlockSize) + n <= BlockSize /\ size + n <= MaxSize
      /\ old.direct[size \div BlockSize] # Unset
  BY <1>a, <1>b, <1>c DEF CanAppend
<1>l. AppendWrites(m, d, i, seq) = <<w, u>> \o bm
  BY <1>a, <1>b, <1>c, <1>d, <1>e, <1>g, <1>i, <1>j DEF AppendWrites
<1>1. i \in Inodes /\ i \in Table /\ i \in V /\ old \in InodeSet /\ size \in 0 .. MaxSize /\ n \in Nat
  BY <1>0, <1>a, <1>b, <1>c, Held
<1>2. size \in Nat /\ n > 0 /\ size < MaxSize /\ size + n <= MaxSize /\ MaxSize \in Nat
  BY <1>k, <1>1, Sizes0
<1>3. /\ inode \in InodeSet /\ inode.size = size + n /\ inode.direct = old.direct
  <2>1. size + n \in 0 .. MaxSize
    BY <1>1, <1>2
  <2> QED BY <1>1, <1>b, <1>j, <2>1 DEF InodeSet
<1>4. blk \in Blocks /\ Spare(V, d, w)
  <2>1. d.itable[i].size <= size /\ d.itable[i].direct[size \div BlockSize] # Unset
        /\ blk = d.itable[i].direct[size \div BlockSize]
    BY <1>k, <1>2, <1>a, <1>b, <1>d
  <2> QED BY <1>0, <1>2, <1>e, <2>1, SpareEnd
<1>5. w \in DataSet /\ w \in WriteSet
  BY <1>0, <1>1, <1>2, <1>4, <1>e, DataOf
<1>6. c \in DiskSet /\ Sound(V, c) /\ Written(V, c) = Written(V, d) /\ c.itable = d.itable
  BY <1>0, <1>4, <1>5, <1>f, DataKeeps, ApplyIs
<1>7. There(c, inode, i, size, seq)
  <2>1. inode.direct[size \div BlockSize] = blk
    BY <1>3, <1>d
  <2>2. (size % BlockSize) + Len(seq) <= BlockSize
    BY <1>k, <1>c
  <2> QED BY <1>0, <1>1, <1>2, <1>4, <1>e, <1>f, <2>1, <2>2, DataThere
<1>8. Sound(V, e) /\ Written(V, e) = Written(V, d)
      /\ e.itable[i] = inode /\ \A j \in V \ {i} : e.itable[j] = d.itable[j]
  <2>1. c.itable[i] = old /\ i \in Written(V, c)
    BY <1>0, <1>6, <1>a
  <2>2. \A pos \in size .. inode.size - 1 :
          inode.direct[pos \div BlockSize] # Unset /\ CellAt(c, inode, pos).place = <<i, pos>>
    <3> SUFFICES ASSUME NEW pos \in size .. inode.size - 1
                 PROVE  inode.direct[pos \div BlockSize] # Unset /\ CellAt(c, inode, pos).place = <<i, pos>>
      OBVIOUS
    <3>1. pos \in size .. size + Len(seq) - 1
      BY <1>1, <1>2, <1>3, <1>c
    <3>2. pos \div BlockSize = size \div BlockSize /\ CellAt(c, inode, pos).place = <<i, pos>>
      BY <1>7, <3>1 DEF There
    <3> QED BY <1>k, <1>3, <3>2
  <2>3. \A x \in 0 .. inode.size \div 2 - 1 :
          2 * x + 1 >= size /\ CellAt(c, inode, 2 * x + 1).holds \in EntryNames =>
            CellAt(c, inode, 2 * x).holds \in V
    <3> SUFFICES ASSUME NEW x \in 0 .. inode.size \div 2 - 1, 2 * x + 1 >= size,
                        CellAt(c, inode, 2 * x + 1).holds \in EntryNames
                 PROVE  CellAt(c, inode, 2 * x).holds \in V
      OBVIOUS
    <3>0. PICK q \in Int : q = 2 * x + 1
      BY <1>3
    <3>1. q \in size .. size + n - 1 /\ q - size + 1 \in 1 .. n
      BY <1>1, <1>2, <1>3, <3>0
    <3>2. CellAt(c, inode, q).holds = seq[q - size + 1] /\ CellAt(c, inode, q).holds \in EntryNames
      BY <1>7, <1>c, <3>0, <3>1 DEF There
    <3>4. q - size + 1 > 1 /\ seq[(q - size + 1) - 1] \in V
      BY <1>0, <1>c, <3>1, <3>2 DEF Names2
    <3>5. q - 1 \in size .. size + n - 1 /\ (q - size + 1) - 1 = (q - 1) - size + 1
      BY <1>1, <1>2, <3>1, <3>4
    <3>6. CellAt(c, inode, q - 1).holds = seq[(q - 1) - size + 1]
      BY <1>7, <1>c, <3>5 DEF There
    <3>7. 2 * x = q - 1
      BY <1>3, <3>0
    <3> QED BY <3>4, <3>5, <3>6, <3>7
  <2>4. old.size <= inode.size
    BY <1>1, <1>2, <1>3, <1>b
  <2>5. /\ c.itable[i].size <= inode.size
        /\ \A f \in 0 .. NDirect - 1 : inode.direct[f] = c.itable[i].direct[f]
        /\ \A pos : inode.direct[pos \div BlockSize] = c.itable[i].direct[pos \div BlockSize]
        /\ c.itable[i].size = size
    BY <1>3, <1>b, <2>1, <2>4
  <2>6. /\ Sound(V, Apply(c, UpdateInode(i, inode)))
        /\ Written(V, Apply(c, UpdateInode(i, inode))) = Written(V, c)
        /\ Apply(c, UpdateInode(i, inode)).itable[i] = inode
        /\ \A j \in V \ {i} : Apply(c, UpdateInode(i, inode)).itable[j] = c.itable[j]
    BY <1>3, <1>6, <2>1, <2>2, <2>3, <2>5, InodeGrows
  <2> QED BY <1>6, <1>g, <1>h, <2>6
<1>9. u \in WriteSet /\ e \in DiskSet
  BY <1>1, <1>3, <1>6, <1>g, <1>h, WritesOf, ApplyIs
<1>10. Good(m, V, e)
  <2>1. Marked(V, e, m.ibmap, m.dbmap)
    <3>1. \A j \in Written(V, d) : e.itable[j].direct = d.itable[j].direct
      BY <1>3, <1>8, <1>a DEF Written
    <3> QED BY <1>0, <1>8, <3>1 DEF Good, Marked
  <2> QED BY <1>0, <1>8, <1>9, <2>1 DEF Good
<1>11. bm \in Seq(WriteSet) /\ Safe(m, e, bm)
  BY <1>10, <1>i, BitmapsSafe
<1>12. Safe(m, c, <<u>> \o bm)
  <2>1. Head(<<u>> \o bm) = u /\ Tail(<<u>> \o bm) = bm /\ <<u>> \o bm \in Seq(WriteSet)
          /\ <<u>> \o bm # << >>
    BY <1>9, <1>11
  <2>2. Apply(c, u) = e /\ Fine(c)
    BY <1>6, <1>h DEF Fine
  <2> QED BY <1>11, <2>1, <2>2, SafeCons
<1>13. Safe(m, d, <<w, u>> \o bm)
  <2>1. /\ Head(<<w, u>> \o bm) = w /\ Tail(<<w, u>> \o bm) = <<u>> \o bm
        /\ <<w, u>> \o bm \in Seq(WriteSet) /\ <<w, u>> \o bm # << >>
    BY <1>5, <1>9, <1>11
  <2>2. Apply(d, w) = c /\ Fine(d)
    BY <1>0, <1>f DEF Fine
  <2> QED BY <1>12, <2>1, <2>2, SafeCons
<1> QED BY <1>l, <1>13

(* An entry or a line that crosses the end of a block takes a new one. *)
CanSpill(m, V, d, i, seq, rest, new, inode) ==
  LET old  == d.itable[i]
      here == old.size \div BlockSize
  IN
  /\ Good(m, V, d) /\ i \in Written(V, d)
  /\ seq \in Seq(Holdable) /\ rest \in Seq(Holdable)
  /\ (old.size % BlockSize) + Len(seq) = BlockSize /\ Len(rest) <= BlockSize
  /\ \A k \in 1 .. Len(seq) : seq[k] \notin EntryNames
  /\ \A k \in 1 .. Len(rest) : rest[k] \in EntryNames => k = 1 /\ seq[Len(seq)] \in V
  /\ here + 1 \in 0 .. NDirect - 1 /\ old.direct[here] # Unset
  /\ new \in Blocks /\ new \in m.dbmap
  /\ \A j \in Written(V, d) : \A f \in 0 .. NDirect - 1 : d.itable[j].direct[f] # new
  /\ inode \in InodeSet /\ inode.direct = [old.direct EXCEPT ![here + 1] = new]
  /\ inode.size \in old.size .. old.size + Len(seq) + Len(rest)

SpillWrites(m, d, i, seq, rest, new, inode) ==
  LET old == d.itable[i] IN
  <<WriteCells(old.direct[old.size \div BlockSize], i, old.size, seq),
    WriteCells(new, i, old.size + Len(seq), rest),
    UpdateInode(i, inode)>> \o UpdateBitmaps(m.ibmap, m.dbmap)

LEMMA SpillSafe ==
  ASSUME NEW m, NEW V, NEW d, NEW i, NEW seq, NEW rest, NEW new, NEW inode,
         CanSpill(m, V, d, i, seq, rest, new, inode)
  PROVE  Safe(m, d, SpillWrites(m, d, i, seq, rest, new, inode))
<1>0. /\ d \in DiskSet /\ Sound(V, d) /\ m \in MemSet /\ Good(m, V, d)
      /\ i \in Written(V, d) /\ seq \in Seq(Holdable) /\ rest \in Seq(Holdable)
      /\ new \in Blocks /\ new \in m.dbmap /\ inode \in InodeSet
  BY DEF Good, CanSpill
<1>a. PICK old : old = d.itable[i]
  OBVIOUS
<1>b. PICK size \in Nat : size = old.size
  BY <1>0, <1>a, Held
<1>c. PICK n \in Nat : n = Len(seq)
  BY <1>0
<1>d. PICK l \in Nat : l = Len(rest)
  BY <1>0
<1>m. PICK here \in Nat : here = size \div BlockSize
  BY Divide
<1>e. PICK blk : blk = old.direct[here]
  OBVIOUS
<1>f. PICK w : w = WriteCells(blk, i, size, seq)
  OBVIOUS
<1>g. PICK v : v = WriteCells(new, i, size + n, rest)
  OBVIOUS
<1>h. PICK b : b = Apply(d, w)
  OBVIOUS
<1>i. PICK c : c = Apply(b, v)
  OBVIOUS
<1>j. PICK u : u = UpdateInode(i, inode)
  OBVIOUS
<1>k. PICK e : e = Apply(c, u)
  OBVIOUS
<1>l. PICK bm : bm = UpdateBitmaps(m.ibmap, m.dbmap)
  OBVIOUS
<1>n. /\ (size % BlockSize) + n = BlockSize /\ l <= BlockSize
      /\ here + 1 \in 0 .. NDirect - 1 /\ old.direct[here] # Unset
      /\ inode.direct = [old.direct EXCEPT ![here + 1] = new]
      /\ inode.size \in size .. size + n + l
  BY <1>a, <1>b, <1>c, <1>d, <1>m DEF CanSpill
<1>o. /\ \A k \in 1 .. n : seq[k] \notin EntryNames
      /\ \A k \in 1 .. l : rest[k] \in EntryNames => k = 1 /\ seq[n] \in V
  BY <1>c, <1>d DEF CanSpill
<1>p. \A j \in Written(V, d) : \A f \in 0 .. NDirect - 1 : d.itable[j].direct[f] # new
  BY DEF CanSpill
<1>q. SpillWrites(m, d, i, seq, rest, new, inode) = <<w, v, u>> \o bm
  BY <1>a, <1>b, <1>c, <1>e, <1>f, <1>g, <1>j, <1>l, <1>m DEF SpillWrites
<1>1. /\ i \in Inodes /\ i \in Table /\ i \in V
      /\ old \in InodeSet /\ size \in 0 .. MaxSize /\ n \in Nat /\ l \in Nat
      /\ old.direct \in [0 .. NDirect - 1 -> Blocks \cup {Unset}]
  <2>1. i \in Inodes /\ i \in Table /\ i \in V /\ old \in InodeSet /\ size \in 0 .. MaxSize
    BY <1>0, <1>a, <1>b, Held
  <2> QED BY <1>0, <1>c, <1>d, <2>1 DEF InodeSet
<1>2. size \in Nat /\ size + n \in Nat /\ size % BlockSize \in 0 .. BlockSize - 1 /\ n > 0
        /\ n <= BlockSize
      /\ (size % BlockSize) + n = BlockSize
  <2>1. size \in Nat
    BY <1>1
  <2>2. size % BlockSize \in 0 .. BlockSize - 1
    BY <2>1, Divide
  <2>3. BlockSize - (size % BlockSize) \in 1 .. BlockSize
    BY <2>2, Sizes0
  <2>4. n = BlockSize - (size % BlockSize)
    BY <1>n, <1>1, <2>2, Sizes0
  <2>5. n > 0 /\ n <= BlockSize /\ size + n \in Nat
    BY <2>3, <2>4, Sizes0
  <2> QED BY <1>n, <2>1, <2>2, <2>5
<1>s. n > 0 /\ inode.size \in Nat /\ inode.size >= size /\ inode.size <= size + n + l
  <2>1. inode.size \in size .. size + n + l
    BY <1>n
  <2>2. n > 0
    BY <1>2
  <2> QED BY <2>1, <2>2
<1>3. here \in Nat /\ (size + n) \div BlockSize = here + 1 /\ (size + n) % BlockSize = 0
      /\ here \in 0 .. NDirect - 1
  <2>1. here \in Nat
    BY <1>m, <1>2, Divide
  <2>2. (size + n) \div BlockSize = here + 1
          /\ (size + n) % BlockSize = (size % BlockSize) + n - BlockSize
    <3>1. (size % BlockSize) + n >= BlockSize /\ n <= BlockSize
      BY <1>2, Sizes0
    <3> QED BY <1>m, <1>1, <1>2, <3>1, Along
  <2>3. (size % BlockSize) + n - BlockSize = 0
    BY <1>1, <1>2, Sizes0
  <2>4. here \in 0 .. NDirect - 1
    BY <1>n, <2>1, Sizes0
  <2> QED BY <2>1, <2>2, <2>3, <2>4
<1>4. size < MaxSize /\ MaxSize \in Nat
  BY <1>m, <1>2, <1>3, InBlocks, Sizes0
<1>5. blk \in Blocks /\ Spare(V, d, w) /\ blk # new
  <2>1. blk \in Blocks /\ Spare(V, d, w)
    <3>1. d.itable[i].size <= size /\ d.itable[i].direct[size \div BlockSize] # Unset
          /\ blk = d.itable[i].direct[size \div BlockSize]
      BY <1>n, <1>m, <1>2, <1>a, <1>b, <1>e
    <3> QED BY <1>0, <1>2, <1>4, <1>f, <3>1, SpareEnd
  <2> QED BY <1>0, <1>p, <1>3, <1>a, <1>e, <2>1
<1>6. w \in DataSet /\ w \in WriteSet /\ v \in DataSet /\ v \in WriteSet /\ v.blk = new
      /\ v.from = 0 /\ w.blk = blk
  <2>1. w \in DataSet /\ w \in WriteSet /\ w.blk = blk
    <3>1. blk \in Blocks /\ i \in Inodes /\ size \in Nat /\ seq \in Seq(Holdable)
      BY <1>0, <1>1, <1>2, <1>5
    <3>2. /\ WriteCells(blk, i, size, seq) \in DataSet /\ WriteCells(blk, i, size, seq) \in WriteSet
          /\ WriteCells(blk, i, size, seq).blk = blk
      BY <3>1, DataOf
    <3> QED BY <1>f, <3>2
  <2>2. v \in DataSet /\ v \in WriteSet /\ v.blk = new /\ v.from = (size + n) % BlockSize
    <3>1. new \in Blocks /\ i \in Inodes /\ size + n \in Nat /\ rest \in Seq(Holdable)
      BY <1>0, <1>1, <1>2
    <3> QED BY <1>g, <3>1, DataOf
  <2> QED BY <1>3, <2>1, <2>2
<1>7. b \in DiskSet /\ Sound(V, b) /\ Written(V, b) = Written(V, d) /\ b.itable = d.itable
  BY <1>0, <1>5, <1>6, <1>h, DataKeeps, ApplyIs
<1>8. Spare(V, b, v)
  <2>1. \A j \in Written(V, b) : \A f \in 0 .. NDirect - 1 : b.itable[j].direct[f] # v.blk
    BY <1>6, <1>7, <1>p
  <2> QED BY <1>7, <2>1, SpareNew
<1>9. c \in DiskSet /\ Sound(V, c) /\ Written(V, c) = Written(V, d) /\ c.itable = d.itable
  BY <1>6, <1>7, <1>8, <1>i, DataKeeps, ApplyIs
<1>10. inode.direct[here] = blk /\ inode.direct[here + 1] = new
       /\ \A f \in 0 .. NDirect - 1 : f # here + 1 => inode.direct[f] = old.direct[f]
  <2>1. here # here + 1
    BY <1>3
  <2> QED BY <1>n, <1>1, <1>3, <1>e, <2>1
<1>11. There(c, inode, i, size, seq)
  <2>1. There(b, inode, i, size, seq)
    <3>1. inode.direct[size \div BlockSize] = blk /\ (size % BlockSize) + Len(seq) <= BlockSize
      BY <1>n, <1>m, <1>10, <1>c, Sizes0
    <3> QED BY <1>0, <1>1, <1>2, <1>5, <1>f, <1>h, <3>1, DataThere
  <2> SUFFICES ASSUME NEW q \in size .. size + Len(seq) - 1
               PROVE  /\ q \div BlockSize = size \div BlockSize
                      /\ CellAt(c, inode, q) = [place |-> <<i, q>>, holds |-> seq[q - size + 1]]
    BY DEF There
  <2>2. q \div BlockSize = here
          /\ CellAt(b, inode, q) = [place |-> <<i, q>>, holds |-> seq[q - size + 1]]
    BY <1>m, <2>1 DEF There
  <2>3. q \in Nat /\ q % BlockSize \in 0 .. BlockSize - 1
    <3>1. q \in Nat
      BY <1>1, <1>2, <1>c
    <3> QED BY <3>1, Divide
  <2>4. c.cells[blk][q % BlockSize] = b.cells[blk][q % BlockSize]
    BY <1>5, <1>6, <1>7, <1>i, <2>3, CellsAfter
  <2>5. CellAt(c, inode, q) = CellAt(b, inode, q)
    BY <1>10, <2>2, <2>4 DEF CellAt
  <2> QED BY <1>m, <2>2, <2>5
<1>12. There(c, inode, i, size + n, rest)
  <2>1. ((size + n) % BlockSize) + Len(rest) <= BlockSize
    BY <1>n, <1>1, <1>3, <1>d, Sizes0
  <2>2. inode.direct[(size + n) \div BlockSize] = new
    BY <1>3, <1>10
  <2> QED BY <1>0, <1>1, <1>2, <1>7, <1>g, <1>i, <2>1, <2>2, DataThere
<1>13. Sound(V, e) /\ Written(V, e) = Written(V, d)
       /\ e.itable[i] = inode /\ \A j \in V \ {i} : e.itable[j] = d.itable[j]
  <2>1. c.itable[i] = old /\ i \in Written(V, c)
    BY <1>0, <1>9, <1>a
  <2>2. \A pos \in size .. inode.size - 1 :
          inode.direct[pos \div BlockSize] # Unset /\ CellAt(c, inode, pos).place = <<i, pos>>
    <3> SUFFICES ASSUME NEW pos \in size .. inode.size - 1
                 PROVE  inode.direct[pos \div BlockSize] # Unset /\ CellAt(c, inode, pos).place = <<i, pos>>
      OBVIOUS
    <3>1. CASE pos < size + n
      <4>1. pos \in size .. size + Len(seq) - 1
        BY <1>s, <1>c, <3>1
      <4>2. pos \div BlockSize = here /\ CellAt(c, inode, pos).place = <<i, pos>>
        BY <1>m, <1>11, <4>1 DEF There
      <4> QED BY <1>n, <1>10, <1>e, <4>2
    <3>2. CASE pos >= size + n
      <4>1. pos \in size + n .. size + n + Len(rest) - 1
        BY <1>s, <1>d, <3>2
      <4>2. pos \div BlockSize = here + 1 /\ CellAt(c, inode, pos).place = <<i, pos>>
        BY <1>3, <1>12, <4>1 DEF There
      <4> QED BY <1>0, <1>10, <4>2, Names0
    <3> QED BY <1>s, <3>1, <3>2
  <2>3. \A x \in 0 .. inode.size \div 2 - 1 :
          2 * x + 1 >= size /\ CellAt(c, inode, 2 * x + 1).holds \in EntryNames =>
            CellAt(c, inode, 2 * x).holds \in V
    <3> SUFFICES ASSUME NEW x \in 0 .. inode.size \div 2 - 1, 2 * x + 1 >= size,
                        CellAt(c, inode, 2 * x + 1).holds \in EntryNames
                 PROVE  CellAt(c, inode, 2 * x).holds \in V
      OBVIOUS
    <3>0. x \in Nat /\ 2 * x + 1 < inode.size
      BY <1>s
    <3>a. PICK q \in Int : q = 2 * x + 1
      BY <3>0
    <3>b. q >= size /\ q < size + n + l /\ CellAt(c, inode, q).holds \in EntryNames /\ 2 * x = q - 1
      BY <1>s, <3>0, <3>a
    <3>1. CASE q < size + n
      <4>1. q \in size .. size + Len(seq) - 1 /\ q - size + 1 \in 1 .. n
        BY <1>s, <1>c, <3>b, <3>1
      <4>2. CellAt(c, inode, q).holds = seq[q - size + 1]
        BY <1>11, <4>1 DEF There
      <4> QED BY <1>o, <3>b, <4>1, <4>2
    <3>2. CASE q >= size + n
      <4>0. PICK end \in Int : end = size + n
        BY <1>2
      <4>1. q \in end .. end + Len(rest) - 1 /\ q - end + 1 \in 1 .. l
        BY <1>s, <1>d, <3>b, <3>2, <4>0
      <4>2. CellAt(c, inode, q).holds = rest[q - end + 1]
        BY <1>12, <4>0, <4>1 DEF There
      <4>3. q - end + 1 = 1 /\ seq[n] \in V
        BY <1>o, <3>b, <4>1, <4>2
      <4>4. q - 1 \in size .. size + Len(seq) - 1 /\ (q - 1) - size + 1 = n
        BY <1>s, <1>c, <4>0, <4>3
      <4>5. CellAt(c, inode, q - 1).holds = seq[(q - 1) - size + 1]
        BY <1>11, <4>4 DEF There
      <4> QED BY <3>b, <4>3, <4>4, <4>5
    <3> QED BY <1>s, <3>b, <3>1, <3>2
  <2>4. \A pos \in 0 .. size - 1 : inode.direct[pos \div BlockSize] = old.direct[pos \div BlockSize]
    <3> SUFFICES ASSUME NEW pos \in 0 .. size - 1
                 PROVE  inode.direct[pos \div BlockSize] = old.direct[pos \div BlockSize]
      OBVIOUS
    <3>1. pos \in Nat /\ pos <= size /\ pos \div BlockSize \in 0 .. NDirect - 1
      <4>1. pos \in 0 .. d.itable[i].size - 1
        BY <1>a, <1>b
      <4> QED BY <1>0, <1>2, <4>1, Held
    <3>2. pos \div BlockSize <= here
      BY <1>m, <1>2, <3>1, Below
    <3> QED BY <1>3, <1>10, <3>1, <3>2
  <2>5. /\ c.itable[i].size = size /\ c.itable[i].size <= inode.size
        /\ \A f \in 0 .. NDirect - 1 : f # here + 1 => inode.direct[f] = c.itable[i].direct[f]
        /\ \A pos \in 0 .. size - 1 :
             inode.direct[pos \div BlockSize] = c.itable[i].direct[pos \div BlockSize]
    BY <1>n, <1>1, <1>2, <1>10, <1>b, <2>1, <2>4
  <2>6. \A j \in Written(V, c) : \A f \in 0 .. NDirect - 1 : c.itable[j].direct[f] # inode.direct[here + 1]
    BY <1>9, <1>10, <1>p
  <2>7. /\ Sound(V, Apply(c, UpdateInode(i, inode)))
        /\ Written(V, Apply(c, UpdateInode(i, inode))) = Written(V, c)
        /\ Apply(c, UpdateInode(i, inode)).itable[i] = inode
        /\ \A j \in V \ {i} : Apply(c, UpdateInode(i, inode)).itable[j] = c.itable[j]
    <3>1. c.itable[i].size <= inode.size /\ inode \in InodeSet /\ i \in Written(V, c)
          /\ c \in DiskSet /\ Sound(V, c)
      BY <1>0, <1>9, <2>1, <2>5
    <3>2. /\ \A pos \in 0 .. c.itable[i].size - 1 :
               inode.direct[pos \div BlockSize] = c.itable[i].direct[pos \div BlockSize]
          /\ \A pos \in c.itable[i].size .. inode.size - 1 :
               inode.direct[pos \div BlockSize] # Unset /\ CellAt(c, inode, pos).place = <<i, pos>>
          /\ \A x \in 0 .. inode.size \div 2 - 1 :
               2 * x + 1 >= c.itable[i].size /\ CellAt(c, inode, 2 * x + 1).holds \in EntryNames =>
                 CellAt(c, inode, 2 * x).holds \in V
      BY <2>2, <2>3, <2>5
    <3>3. /\ \A f \in 0 .. NDirect - 1 : f # here + 1 => inode.direct[f] = c.itable[i].direct[f]
          /\ \A j \in Written(V, c) : \A f \in 0 .. NDirect - 1 :
               c.itable[j].direct[f] # inode.direct[here + 1]
      BY <2>5, <2>6
    <3> QED BY <3>1, <3>2, <3>3, InodeGrows
  <2> QED BY <1>9, <1>j, <1>k, <2>7
<1>14. u \in WriteSet /\ e \in DiskSet
  BY <1>0, <1>1, <1>9, <1>j, <1>k, WritesOf, ApplyIs
<1>15. Good(m, V, e)
  <2>1. Marked(V, e, m.ibmap, m.dbmap)
    <3> SUFFICES ASSUME NEW j \in Written(V, d), NEW f \in 0 .. NDirect - 1
                 PROVE  e.itable[j].direct[f] \in m.dbmap \cup {Unset}
      BY <1>0, <1>13 DEF Good, Marked
    <3>1. d.itable[j].direct[f] \in m.dbmap \cup {Unset}
      BY <1>0 DEF Good, Marked
    <3>2. CASE j = i
      <4>1. e.itable[j].direct[f] = old.direct[f] \/ e.itable[j].direct[f] = new
        BY <1>10, <1>13, <3>2
      <4> QED BY <1>0, <1>a, <3>1, <3>2, <4>1
    <3>3. CASE j # i
      BY <1>13, <3>1, <3>3 DEF Written
    <3> QED BY <3>2, <3>3
  <2> QED BY <1>0, <1>13, <1>14, <2>1 DEF Good
<1>16. bm \in Seq(WriteSet) /\ Safe(m, e, bm)
  BY <1>15, <1>l, BitmapsSafe
<1>17. Safe(m, c, <<u>> \o bm)
  <2>1. Head(<<u>> \o bm) = u /\ Tail(<<u>> \o bm) = bm /\ <<u>> \o bm \in Seq(WriteSet)
          /\ <<u>> \o bm # << >>
    BY <1>14, <1>16
  <2>2. Apply(c, u) = e /\ Fine(c)
    BY <1>9, <1>k DEF Fine
  <2> QED BY <1>16, <2>1, <2>2, SafeCons
<1>18. Safe(m, b, <<v, u>> \o bm)
  <2>1. /\ Head(<<v, u>> \o bm) = v /\ Tail(<<v, u>> \o bm) = <<u>> \o bm
        /\ <<v, u>> \o bm \in Seq(WriteSet) /\ <<v, u>> \o bm # << >>
    BY <1>6, <1>14, <1>16
  <2>2. Apply(b, v) = c /\ Fine(b)
    BY <1>7, <1>i DEF Fine
  <2> QED BY <1>17, <2>1, <2>2, SafeCons
<1>19. Safe(m, d, <<w, v, u>> \o bm)
  <2>1. /\ Head(<<w, v, u>> \o bm) = w /\ Tail(<<w, v, u>> \o bm) = <<v, u>> \o bm
        /\ <<w, v, u>> \o bm \in Seq(WriteSet) /\ <<w, v, u>> \o bm # << >>
    BY <1>6, <1>14, <1>16
  <2>2. Apply(d, w) = b /\ Fine(d)
    BY <1>0, <1>h DEF Fine
  <2> QED BY <1>18, <2>1, <2>2, SafeCons
<1> QED BY <1>q, <1>19

----------------------------------------------------------------------------
(* get_free_entry, name2inode. *)
LEMMA MinIs ==
  ASSUME NEW T, T \subseteq Nat, T # {}
  PROVE  Min(T) \in T
<1>1. \E x \in T : \A y \in T : x <= y
  BY LeastElement
<1> QED BY <1>1 DEF Min

LEMMA FreeEntry ==
  ASSUME NEW n \in Nat, NEW marked
  PROVE  /\ GetFreeEntry(marked, n) = NoEntry \/ GetFreeEntry(marked, n) \in (0 .. n - 1) \ marked
         /\ NoEntry \notin 0 .. n - 1
         /\ n > 0 => GetFreeEntry({}, n) \in 0 .. n - 1
<1> DEFINE free(k) == (0 .. n - 1) \ k
<1>1. \A k : free(k) # {} => Min(free(k)) \in free(k)
  <2> SUFFICES ASSUME NEW k, free(k) # {} PROVE Min(free(k)) \in free(k)
    OBVIOUS
  <2>1. free(k) \subseteq Nat
    OBVIOUS
  <2> QED BY <2>1, MinIs
<1>2. \A k : GetFreeEntry(k, n) = IF free(k) = {} THEN NoEntry ELSE Min(free(k))
  BY DEF GetFreeEntry
<1>3. n > 0 => 0 \in free({})
  OBVIOUS
<1>4. free(marked) = (0 .. n - 1) \ marked /\ free({}) = 0 .. n - 1
  OBVIOUS
<1>5. NoEntry \notin 0 .. n - 1
  BY DEF NoEntry
<1> HIDE DEF free
<1>6. GetFreeEntry(marked, n) = NoEntry \/ GetFreeEntry(marked, n) \in (0 .. n - 1) \ marked
  BY <1>1, <1>2, <1>4
<1>7. n > 0 => GetFreeEntry({}, n) \in 0 .. n - 1
  BY <1>1, <1>2, <1>3, <1>4
<1> QED BY <1>5, <1>6, <1>7

LEMMA CellIs ==
  /\ Disk.itable = itable /\ Disk.cells = cells /\ Disk.ibmap = ibmapD /\ Disk.dbmap = dbmapD
  /\ \A inode, pos : Cell(inode, pos) = CellAt(Disk, inode, pos)
  /\ Mem.ibmap = ibmap /\ Mem.dbmap = dbmap /\ Mem.cwd = cwd /\ Mem.file = file
BY DEF Disk, Cell, CellAt, Mem

LEMMA EntriesIs ==
  ASSUME NEW U, Disk \in DiskSet, Sound(U, Disk), NEW i \in Written(U, Disk)
  PROVE  /\ EntriesOf(itable[i]) \subseteq Nat
         /\ \A n \in EntriesOf(itable[i]) :
              /\ n \in 0 .. itable[i].size \div 2 - 1
              /\ CellAt(Disk, itable[i], 2 * n + 1).holds \in EntryNames
              /\ CellAt(Disk, itable[i], 2 * n).holds \in U
<1>1. itable[i].size \in Nat
  BY Held, CellIs
<1>2. EntriesOf(itable[i]) = {n \in 0 .. itable[i].size \div 2 - 1 :
                                CellAt(Disk, itable[i], 2 * n + 1).holds \in EntryNames}
  BY CellIs DEF EntriesOf, EntryNames
<1>3. \A n \in 0 .. itable[i].size \div 2 - 1 :
        CellAt(Disk, itable[i], 2 * n + 1).holds \in EntryNames => CellAt(Disk, itable[i], 2 * n).holds \in U
  BY CellIs DEF Sound, Closed
<1>4. 0 .. itable[i].size \div 2 - 1 \subseteq Nat
  OBVIOUS
<1> QED BY <1>2, <1>3, <1>4

LEMMA Lookup ==
  ASSUME NEW U, Disk \in DiskSet, Sound(U, Disk), NEW i \in Written(U, Disk), NEW name
  PROVE  Name2Inode(name, i) \in U \cup {NoEntry}
<1> DEFINE same == {n \in EntriesOf(itable[i]) : Cell(itable[i], 2 * n + 1).holds = name}
<1>1. Name2Inode(name, i) = IF same = {} THEN NoEntry ELSE Cell(itable[i], 2 * Min(same)).holds
  BY DEF Name2Inode
<1>2. same \subseteq EntriesOf(itable[i]) /\ same \subseteq Nat
  BY EntriesIs
<1> HIDE DEF same
<1>3. ASSUME same # {} PROVE Cell(itable[i], 2 * Min(same)).holds \in U
  <2>1. Min(same) \in EntriesOf(itable[i])
    BY <1>2, <1>3, MinIs
  <2> QED BY <2>1, EntriesIs, CellIs
<1> QED BY <1>1, <1>3

----------------------------------------------------------------------------
(* create_file, create_dir. *)
LEMMA NewInodeIs ==
  ASSUME NEW type \in {"file", "dir"}, NEW size \in {0, 4}, NEW blk \in Blocks
  PROVE  LET new == NewInode(type, size, blk) IN
         /\ new \in InodeSet /\ new # Unset /\ new.size = size /\ new.direct[0] = blk
         /\ \A e \in 0 .. NDirect - 1 : new.direct[e] = IF e = 0 THEN blk ELSE Unset
<1>1. size \in 0 .. MaxSize /\ 0 \in 0 .. NDirect - 1
  BY Sizes0
<1>2. NewInode(type, size, blk) \in InodeSet
  BY <1>1 DEF NewInode, InodeSet
<1> QED BY <1>1, <1>2, Names0 DEF NewInode

LEMMA MoreMarked ==
  ASSUME NEW U, NEW d, NEW im, NEW dm, Marked(U, d, im, dm),
         NEW im2, NEW dm2, im \subseteq im2, dm \subseteq dm2
  PROVE  Marked(U, d, im2, dm2)
BY DEF Marked

(* U is in order on d, and ino and blk are nobody's. *)
Vacant(U, d, im, dm, ino, blk) ==
  /\ d \in DiskSet /\ Sound(U, d) /\ Written(U, d) = U /\ Marked(U, d, im, dm)
  /\ ino \in Table \ im /\ blk \in Blocks \ dm

(* ino has become one of U, and c differs from d in nothing else. *)
Taken(U, d, im, dm, ino, blk, c) ==
  /\ c \in DiskSet /\ Sound(U, c) /\ Sound(U \cup {ino}, c) /\ Written(U \cup {ino}, c) = U \cup {ino}
  /\ \A j \in U : c.itable[j] = d.itable[j]
  /\ c.ibmap = d.ibmap /\ c.dbmap = d.dbmap
  /\ Marked(U \cup {ino}, c, im \cup {ino}, dm \cup {blk})

LEMMA VacantIs ==
  ASSUME NEW U, NEW d, NEW im, NEW dm, NEW ino, NEW blk, Vacant(U, d, im, dm, ino, blk)
  PROVE  /\ ino \in Table \ U /\ ino \in Inodes /\ blk # Unset
         /\ \A j \in U : \A f \in 0 .. NDirect - 1 : d.itable[j].direct[f] # blk
BY Names0, Table0 DEF Vacant, Marked

LEMMA TakesFile ==
  ASSUME NEW U, NEW d, NEW im, NEW dm, NEW ino, NEW blk, Vacant(U, d, im, dm, ino, blk)
  PROVE  /\ UpdateInode(ino, NewInode("file", 0, blk)) \in WriteSet
         /\ Taken(U, d, im, dm, ino, blk, Apply(d, UpdateInode(ino, NewInode("file", 0, blk))))
<1>a. PICK new : new = NewInode("file", 0, blk)
  OBVIOUS
<1>b. PICK c : c = Apply(d, UpdateInode(ino, new))
  OBVIOUS
<1>0. d \in DiskSet /\ Sound(U, d) /\ Written(U, d) = U /\ Marked(U, d, im, dm) /\ blk \in Blocks
  BY DEF Vacant
<1>1. /\ new \in InodeSet /\ new # Unset /\ new.size = 0
      /\ \A e \in 0 .. NDirect - 1 : new.direct[e] = IF e = 0 THEN blk ELSE Unset
  BY <1>0, <1>a, NewInodeIs
<1>2. /\ ino \in Table \ U /\ ino \in Inodes /\ blk # Unset
      /\ \A j \in U : \A f \in 0 .. NDirect - 1 : d.itable[j].direct[f] # blk
  BY VacantIs
<1>3. UpdateInode(ino, new) \in WriteSet /\ UpdateInode(ino, new).kind = "inode"
  BY <1>1, <1>2, WritesOf
<1>4. c \in DiskSet /\ c.ibmap = d.ibmap /\ c.dbmap = d.dbmap
  BY <1>0, <1>3, <1>b, ApplyIs
<1>5. Sound(U, c) /\ Written(U, c) = U /\ c.itable[ino] = new /\ \A j \in U : c.itable[j] = d.itable[j]
  BY <1>0, <1>1, <1>2, <1>b, OutsideKeeps
<1>6. Sound(U \cup {ino}, c) /\ Written(U \cup {ino}, c) = U \cup {ino}
  <2>1. InPlace(c, ino)
    BY <1>1, <1>5 DEF InPlace
  <2>2. \A e \in 0 .. NDirect - 1 : c.itable[ino].direct[e] # Unset =>
          e = 0 /\ \A j \in U : \A f \in 0 .. NDirect - 1 : c.itable[j].direct[f] # c.itable[ino].direct[e]
    BY <1>1, <1>2, <1>5
  <2>3. \A n \in 0 .. c.itable[ino].size \div 2 - 1 : CellAt(c, c.itable[ino], 2 * n).holds \in U \cup {ino}
    <3>1. c.itable[ino].size \div 2 - 1 = -1
      BY <1>1, <1>5
    <3> QED BY <3>1
  <2>4. c.itable[ino] # Unset
    BY <1>1, <1>5
  <2>5. c \in DiskSet /\ Sound(U, c) /\ Written(U, c) = U /\ ino \in Table \ U
    BY <1>2, <1>4, <1>5
  <2> QED BY <2>1, <2>2, <2>3, <2>4, <2>5, Adopt
<1>7. Marked(U \cup {ino}, c, im \cup {ino}, dm \cup {blk})
  <2>1. U \cup {ino} \subseteq im \cup {ino}
    BY <1>0 DEF Marked
  <2>2. \A f \in 0 .. NDirect - 1 : c.itable[ino].direct[f] \in {blk, Unset}
    BY <1>1, <1>5
  <2>3. \A j \in U : \A f \in 0 .. NDirect - 1 : c.itable[j].direct[f] \in dm \cup {Unset}
    BY <1>0, <1>5 DEF Marked
  <2> QED BY <1>6, <2>1, <2>2, <2>3 DEF Marked
<1> QED BY <1>3, <1>4, <1>5, <1>6, <1>7, <1>a, <1>b DEF Taken

DirWrites(ino, blk, parent) ==
  <<UpdateInode(ino, NewInode("dir", 4, blk)), WriteCells(blk, ino, 0, <<ino, Dot, parent, DotDot>>)>>

(* After the write w, which is in block blk, directory ino names inodes of *)
(* V. *)
HasEntries(c, w, blk, ino, V) ==
  LET e == Apply(c, w) IN
  /\ w \in DataSet /\ w \in WriteSet /\ w.blk = blk
  /\ e \in DiskSet /\ e.itable = c.itable
  /\ InPlace(e, ino)
  /\ \A n \in 0 .. e.itable[ino].size \div 2 - 1 : CellAt(e, e.itable[ino], 2 * n).holds \in V

LEMMA DirThere ==
  ASSUME NEW c \in DiskSet, NEW blk \in Blocks, NEW ino \in Inodes, NEW parent \in Inodes,
         NEW V, ino \in V, parent \in V, c.itable[ino] = NewInode("dir", 4, blk)
  PROVE  HasEntries(c, WriteCells(blk, ino, 0, <<ino, Dot, parent, DotDot>>), blk, ino, V)
<1>a. PICK seq : seq = <<ino, Dot, parent, DotDot>>
  OBVIOUS
<1>b. PICK w : w = WriteCells(blk, ino, 0, seq)
  OBVIOUS
<1>c. PICK e : e = Apply(c, w)
  OBVIOUS
<1>d. PICK new : new = NewInode("dir", 4, blk)
  OBVIOUS
<1>1. seq \in Seq(Holdable) /\ Len(seq) = 4 /\ seq[1] = ino /\ seq[3] = parent
  BY <1>a DEF Holdable, EntryNames
<1>2. w \in DataSet /\ w \in WriteSet /\ w.blk = blk
  <2>1. 0 \in Nat
    OBVIOUS
  <2>2. /\ WriteCells(blk, ino, 0, seq) \in DataSet /\ WriteCells(blk, ino, 0, seq) \in WriteSet
        /\ WriteCells(blk, ino, 0, seq).blk = blk
    <3>1. seq \in Seq(Holdable)
      BY <1>1
    <3> QED BY <2>1, <3>1, DataOf
  <2> QED BY <1>b, <2>2
<1>3. w.kind # "inode"
  BY <1>2 DEF DataSet
<1>4. e \in DiskSet /\ e.itable = c.itable
  BY <1>2, <1>3, <1>c, ApplyIs
<1>5. new.size = 4 /\ new.direct[0] = blk /\ c.itable[ino] = new
  BY <1>d, NewInodeIs
<1>6. 0 \div BlockSize = 0 /\ 0 % BlockSize = 0
  <2>1. 0 < MaxSize /\ 0 \div BlockSize \in Nat /\ 0 % BlockSize \in Nat
        /\ 0 = (BlockSize * (0 \div BlockSize)) + (0 % BlockSize)
    BY Sizes0, Divide
  <2>2. \A q \in Nat, r \in Nat : 0 = (BlockSize * q) + r => r = 0 /\ BlockSize * q = 0
    <3> SUFFICES ASSUME NEW q \in Nat, NEW r \in Nat, 0 = (BlockSize * q) + r PROVE r = 0 /\ BlockSize * q = 0
      OBVIOUS
    <3>1. BlockSize * q \in Nat
      BY Sizes0
    <3> QED BY <3>1
  <2>3. \A q \in Nat : BlockSize * q = 0 => q = 0
    BY Sizes0
  <2> QED BY <2>1, <2>2, <2>3
<1>7. There(e, new, ino, 0, seq)
  <2>1. (0 % BlockSize) + Len(seq) <= BlockSize
    BY <1>1, <1>6, Sizes0
  <2> QED BY <1>1, <1>5, <1>6, <1>b, <1>c, <2>1, DataThere
<1>8. \A q \in 0 .. 3 : q \div BlockSize = 0 /\ CellAt(e, new, q) = [place |-> <<ino, q>>, holds |-> seq[q - 0 + 1]]
  BY <1>1, <1>6, <1>7 DEF There
<1>9. InPlace(e, ino)
  BY <1>4, <1>5, <1>8, Names0 DEF InPlace
<1>10. \A n \in 0 .. e.itable[ino].size \div 2 - 1 : CellAt(e, e.itable[ino], 2 * n).holds \in V
  <2> SUFFICES ASSUME NEW n \in 0 .. 1 PROVE CellAt(e, new, 2 * n).holds \in V
    BY <1>4, <1>5
  <2>1. CASE n = 0
    <3>1. CellAt(e, new, 0).holds = seq[0 - 0 + 1] /\ 0 - 0 + 1 = 1 /\ 2 * n = 0
      BY <1>8, <2>1
    <3> QED BY <1>1, <3>1
  <2>2. CASE n = 1
    <3>1. CellAt(e, new, 2).holds = seq[2 - 0 + 1] /\ 2 - 0 + 1 = 3 /\ 2 * n = 2
      BY <1>8, <2>2
    <3> QED BY <1>1, <3>1
  <2> QED BY <2>1, <2>2
<1> QED BY <1>2, <1>4, <1>9, <1>10, <1>a, <1>b, <1>c DEF HasEntries

LEMMA TakesDir ==
  ASSUME NEW U, NEW d, NEW im, NEW dm, NEW ino, NEW blk, Vacant(U, d, im, dm, ino, blk),
         NEW parent \in U
  PROVE  LET w == DirWrites(ino, blk, parent) IN
         /\ w[1] \in WriteSet /\ w[2] \in WriteSet /\ Fine(d) /\ Fine(Apply(d, w[1]))
         /\ Taken(U, d, im, dm, ino, blk, Apply(Apply(d, w[1]), w[2]))
<1>a. PICK new : new = NewInode("dir", 4, blk)
  OBVIOUS
<1>b. PICK c : c = Apply(d, UpdateInode(ino, new))
  OBVIOUS
<1>c. PICK w : w = WriteCells(blk, ino, 0, <<ino, Dot, parent, DotDot>>)
  OBVIOUS
<1>d. PICK e : e = Apply(c, w)
  OBVIOUS
<1>0. d \in DiskSet /\ Sound(U, d) /\ Written(U, d) = U /\ Marked(U, d, im, dm) /\ blk \in Blocks
  BY DEF Vacant
<1>1. /\ new \in InodeSet /\ new # Unset /\ new.size = 4
      /\ \A f \in 0 .. NDirect - 1 : new.direct[f] = IF f = 0 THEN blk ELSE Unset
  BY <1>0, <1>a, NewInodeIs
<1>2. /\ ino \in Table \ U /\ ino \in Inodes /\ blk # Unset /\ parent \in Inodes
      /\ \A j \in U : \A f \in 0 .. NDirect - 1 : d.itable[j].direct[f] # blk
  BY <1>0, VacantIs, Table0 DEF Sound
<1>3. UpdateInode(ino, new) \in WriteSet /\ UpdateInode(ino, new).kind = "inode"
  BY <1>1, <1>2, WritesOf
<1>4. c \in DiskSet /\ c.ibmap = d.ibmap /\ c.dbmap = d.dbmap
  BY <1>0, <1>3, <1>b, ApplyIs
<1>5. Sound(U, c) /\ Written(U, c) = U /\ c.itable[ino] = new /\ \A j \in U : c.itable[j] = d.itable[j]
  BY <1>0, <1>1, <1>2, <1>b, OutsideKeeps
<1>6. /\ w \in DataSet /\ w \in WriteSet /\ w.blk = blk
      /\ e \in DiskSet /\ e.itable = c.itable
      /\ InPlace(e, ino)
      /\ \A n \in 0 .. e.itable[ino].size \div 2 - 1 : CellAt(e, e.itable[ino], 2 * n).holds \in U \cup {ino}
  <2>1. /\ c \in DiskSet /\ blk \in Blocks /\ ino \in Inodes /\ parent \in Inodes
        /\ ino \in U \cup {ino} /\ parent \in U \cup {ino}
        /\ c.itable[ino] = NewInode("dir", 4, blk)
    BY <1>0, <1>2, <1>4, <1>5, <1>a
  <2>2. HasEntries(c, WriteCells(blk, ino, 0, <<ino, Dot, parent, DotDot>>), blk, ino, U \cup {ino})
    BY <2>1, DirThere
  <2> QED BY <1>c, <1>d, <2>2 DEF HasEntries
<1>7. e.ibmap = d.ibmap /\ e.dbmap = d.dbmap
  BY <1>4, <1>6, <1>d, ApplyIs DEF DataSet
<1>8. Sound(U, e) /\ Written(U, e) = U
  <2>1. \A j \in Written(U, c) : \A f \in 0 .. NDirect - 1 : c.itable[j].direct[f] # w.blk
    BY <1>2, <1>5, <1>6
  <2>2. Spare(U, c, w)
    BY <1>4, <1>5, <2>1, SpareNew
  <2> QED BY <1>4, <1>5, <1>6, <1>d, <2>2, DataKeeps
<1>9. Sound(U \cup {ino}, e) /\ Written(U \cup {ino}, e) = U \cup {ino}
  <2>1. \A f \in 0 .. NDirect - 1 : e.itable[ino].direct[f] # Unset =>
          f = 0 /\ \A j \in U : \A g \in 0 .. NDirect - 1 : e.itable[j].direct[g] # e.itable[ino].direct[f]
    BY <1>1, <1>2, <1>5, <1>6
  <2>2. e.itable[ino] # Unset
    BY <1>1, <1>5, <1>6
  <2>3. e \in DiskSet /\ Sound(U, e) /\ Written(U, e) = U /\ ino \in Table \ U /\ InPlace(e, ino)
    BY <1>2, <1>6, <1>8
  <2> QED BY <1>6, <2>1, <2>2, <2>3, Adopt
<1>10. Marked(U \cup {ino}, e, im \cup {ino}, dm \cup {blk})
  <2>1. U \cup {ino} \subseteq im \cup {ino}
    BY <1>0 DEF Marked
  <2>2. \A f \in 0 .. NDirect - 1 : e.itable[ino].direct[f] \in {blk, Unset}
    BY <1>1, <1>5, <1>6
  <2>3. \A j \in U : \A f \in 0 .. NDirect - 1 : e.itable[j].direct[f] \in dm \cup {Unset}
    BY <1>0, <1>5, <1>6 DEF Marked
  <2> QED BY <1>9, <2>1, <2>2, <2>3 DEF Marked
<1>11. Taken(U, d, im, dm, ino, blk, e)
  BY <1>5, <1>6, <1>7, <1>8, <1>9, <1>10 DEF Taken
<1>12. Fine(d) /\ Fine(c)
  BY <1>0, <1>4, <1>5 DEF Fine
<1>13. DirWrites(ino, blk, parent)[1] = UpdateInode(ino, new) /\ DirWrites(ino, blk, parent)[2] = w
  BY <1>a, <1>c DEF DirWrites
<1> QED BY <1>3, <1>6, <1>11, <1>12, <1>13, <1>b, <1>d

----------------------------------------------------------------------------
(* Sequences of writes, from their parts. *)
LEMMA Assoc ==
  ASSUME NEW S, NEW r \in Seq(S), NEW s \in Seq(S), NEW t \in Seq(S)
  PROVE  (r \o s) \o t = r \o (s \o t)
OBVIOUS

LEMMA SafeOne ==
  ASSUME NEW m, NEW d, Fine(d), NEW u \in WriteSet, NEW p, Safe(m, Apply(d, u), p)
  PROVE  Safe(m, d, <<u>> \o p)
<1>1. p \in Seq(WriteSet)
  BY SafeNow
<1>2. <<u>> \o p \in Seq(WriteSet) /\ <<u>> \o p # << >> /\ Head(<<u>> \o p) = u /\ Tail(<<u>> \o p) = p
  BY <1>1
<1> QED BY <1>2, SafeCons

LEMMA SafeTwo ==
  ASSUME NEW m, NEW d, Fine(d), NEW u \in WriteSet, NEW w \in WriteSet, Fine(Apply(d, u)),
         NEW p, Safe(m, Apply(Apply(d, u), w), p)
  PROVE  Safe(m, d, <<u, w>> \o p)
<1>1. p \in Seq(WriteSet)
  BY SafeNow
<1>2. Safe(m, Apply(d, u), <<w>> \o p)
  BY SafeOne
<1>3. /\ <<u, w>> \o p \in Seq(WriteSet) /\ <<u, w>> \o p # << >>
      /\ Head(<<u, w>> \o p) = u /\ Tail(<<u, w>> \o p) = <<w>> \o p
  BY <1>1
<1> QED BY <1>2, <1>3, SafeCons

LEMMA SafeAssert ==
  ASSUME NEW m \in MemSet, NEW d, Fine(d), NEW p \in Seq(WriteSet)
  PROVE  Safe(m, d, <<Assert>>) /\ Safe(m, d, <<Assert>> \o p)
<1>1. Assert \in WriteSet /\ Assert.kind = "assert"
  BY DEF Assert, WriteSet
<1>2. \A q \in Seq(WriteSet) : /\ <<Assert>> \o q \in Seq(WriteSet) /\ <<Assert>> \o q # << >>
                               /\ Head(<<Assert>> \o q) = Assert
  BY <1>1
<1>3. << >> \in Seq(WriteSet) /\ <<Assert>> \o << >> = <<Assert>>
  BY <1>1
<1> QED BY <1>1, <1>2, <1>3, SafeStop

----------------------------------------------------------------------------
(* Between two calls, if the shell can make the next. *)
Use(m, U, d) ==
  /\ m \in MemSet /\ d \in DiskSet /\ Sound(U, d) /\ Written(U, d) = U
  /\ Marked(U, d, m.ibmap, m.dbmap)
  /\ d.dbmap # {} => Marked(U, d, d.ibmap, d.dbmap)
  /\ m.cwd \in U

(* The call marks more, and moves the shell within U. *)
LEMMA StaysEnded ==
  ASSUME NEW m, NEW U, NEW d, Use(m, U, d), NEW m2 \in MemSet,
         m.ibmap \subseteq m2.ibmap, m.dbmap \subseteq m2.dbmap,
         m2.cwd \in U, m2.file \in {NoFile, NoEntry} \cup U
  PROVE  Ended(m2, d) /\ Fine(d) /\ Good(m2, U, d)
<1>1. Marked(U, d, m2.ibmap, m2.dbmap)
  BY MoreMarked DEF Use
<1>2. Ended(m2, d)
  BY <1>1 DEF Ended, Use
<1> QED BY <1>1, <1>2, EndedFine DEF Use, Good

(* m2 is m once the call has taken ino and blk. *)
Takes(m, m2, U, ino, blk) ==
  /\ m2 \in MemSet /\ m2.cwd = m.cwd /\ m2.file \in {NoFile, NoEntry, ino}
  /\ ino \in Table \ m.ibmap /\ blk \in Blocks \ m.dbmap
  /\ m.ibmap \cup {ino} \subseteq m2.ibmap /\ m.dbmap \cup {blk} \subseteq m2.dbmap

LEMMA TakenGood ==
  ASSUME NEW m, NEW U, NEW d, Use(m, U, d), NEW ino, NEW blk, NEW c,
         Taken(U, d, m.ibmap, m.dbmap, ino, blk, c),
         NEW m2, Takes(m, m2, U, ino, blk)
  PROVE  /\ Good(m2, U \cup {ino}, c) /\ Fine(c)
         /\ m2.file \in {NoFile, NoEntry} => Ended(m2, c)
<1>0. /\ m2 \in MemSet /\ m2.cwd \in U /\ m2.file \in {NoFile, NoEntry, ino}
      /\ m.ibmap \cup {ino} \subseteq m2.ibmap /\ m.dbmap \cup {blk} \subseteq m2.dbmap
  BY DEF Takes, Use
<1>1. Marked(U \cup {ino}, c, m2.ibmap, m2.dbmap)
  BY <1>0, MoreMarked DEF Taken
<1>2. Good(m2, U \cup {ino}, c)
  BY <1>0, <1>1 DEF Good, Taken
<1>3. Fine(c)
  BY DEF Fine, Taken
<1>4. c.dbmap # {} => Marked(U, c, c.ibmap, c.dbmap)
  BY SameMarked DEF Taken, Use
<1>5. Marked(U, c, m2.ibmap, m2.dbmap)
  <2>1. Marked(U, c, m.ibmap, m.dbmap)
    BY SameMarked DEF Taken, Use
  <2> QED BY <1>0, <2>1, MoreMarked
<1>6. m2.file \in {NoFile, NoEntry} => Ended(m2, c)
  BY <1>0, <1>4, <1>5 DEF Ended, Taken
<1> QED BY <1>2, <1>3, <1>6

(* There is room for the entry of an inode of V in the shell's directory. *)
LEMMA EntryFits ==
  ASSUME NEW m, NEW V, NEW d, Good(m, V, d), m.cwd \in Written(V, d),
         NEW ino \in V, NEW name \in EntryNames,
         NEW dir, dir = d.itable[m.cwd], dir.size + 2 <= MaxSize, ~Crosses(dir.size, 2),
         dir.direct[dir.size \div BlockSize] # Unset
  PROVE  /\ CanAppend(m, V, d, m.cwd, <<ino, name>>)
         /\ AppendWrites(m, d, m.cwd, <<ino, name>>) =
              AddEntry(<< >>, m.cwd, dir, <<ino, name>>) \o UpdateBitmaps(m.ibmap, m.dbmap)
<1>a. PICK seq : seq = <<ino, name>>
  OBVIOUS
<1>1. ino \in Inodes /\ dir.size \in Nat
  <2>1. d \in DiskSet /\ Sound(V, d)
    BY DEF Good
  <2> QED BY <2>1, Held DEF Sound
<1>2. seq \in Seq(Holdable) /\ Len(seq) = 2 /\ seq[1] = ino /\ seq[2] = name
  BY <1>1, <1>a DEF Holdable
<1>3. Names2(seq, V)
  <2>1. seq[1] \notin EntryNames
    BY <1>1, <1>2, Names0
  <2> SUFFICES ASSUME NEW k \in 1 .. 2, seq[k] \in EntryNames PROVE k > 1 /\ seq[k - 1] \in V
    BY <1>2 DEF Names2
  <2>2. k = 2 /\ k - 1 = 1
    BY <2>1
  <2> QED BY <1>2, <2>2
<1>4. (dir.size % BlockSize) + 2 <= BlockSize
  <2>1. dir.size % BlockSize \in 0 .. BlockSize - 1
    BY <1>1, Divide
  <2> QED BY <2>1, Sizes0 DEF Crosses
<1>5. CanAppend(m, V, d, m.cwd, seq)
  BY <1>2, <1>3, <1>4 DEF CanAppend
<1>6. AppendWrites(m, d, m.cwd, seq) = AddEntry(<< >>, m.cwd, dir, seq) \o UpdateBitmaps(m.ibmap, m.dbmap)
  <2>1. \A a, b : << >> \o <<a, b>> = <<a, b>>
    OBVIOUS
  <2> QED BY <1>2, <2>1 DEF AppendWrites, AddEntry
<1> QED BY <1>5, <1>6, <1>a

(* The writes of an entry that a call ends with. *)
EntryWrites(i, inode, entry, bm) == AddEntry(<< >>, i, inode, entry) \o bm

Split(created, i, inode, entry, bm) ==
  AddEntry(created, i, inode, entry) \o bm = created \o EntryWrites(i, inode, entry, bm)

LEMMA EntrySplit ==
  ASSUME NEW created \in Seq(WriteSet), NEW i, NEW inode, NEW entry, NEW bm \in Seq(WriteSet),
         EntryWrites(i, inode, entry, bm) \in Seq(WriteSet)
  PROVE  Split(created, i, inode, entry, bm)
<1>p. PICK p : p = EntryWrites(i, inode, entry, bm)
  OBVIOUS
<1>a. PICK a, b : AddEntry(<< >>, i, inode, entry) = << >> \o <<a, b>>
        /\ AddEntry(created, i, inode, entry) = created \o <<a, b>>
  BY DEF AddEntry
<1>1. p = <<a, b>> \o bm
  <2>1. << >> \o <<a, b>> = <<a, b>>
    OBVIOUS
  <2>2. p = (<< >> \o <<a, b>>) \o bm
    BY <1>a, <1>p DEF EntryWrites
  <2> QED BY <2>1, <2>2
<1>2. p[1] = a /\ p[2] = b /\ 1 \in 1 .. Len(p) /\ 2 \in 1 .. Len(p)
  BY <1>1
<1>5. p \in Seq(WriteSet)
  BY <1>p
<1>3. a \in WriteSet /\ b \in WriteSet
  BY <1>2, <1>5
<1>4. (created \o <<a, b>>) \o bm = created \o (<<a, b>> \o bm)
  <2>1. <<a, b>> \in Seq(WriteSet)
    BY <1>3
  <2> QED BY <2>1, Assoc
<1> QED BY <1>1, <1>4, <1>a, <1>p DEF Split

----------------------------------------------------------------------------
(* What mkfile and mkdir write. There is Room for an entry in dir if it    *)
(* fits in a block that dir has. *)
Room(dir) ==
  /\ dir.size + 2 <= MaxSize /\ ~Crosses(dir.size, 2)
  /\ dir.direct[dir.size \div BlockSize] # Unset

LEMMA TakesIs ==
  ASSUME NEW m, NEW U, NEW d, Use(m, U, d), NEW m2, NEW ino, NEW blk, Takes(m, m2, U, ino, blk)
  PROVE  /\ Vacant(U, d, m.ibmap, m.dbmap, ino, blk) /\ Fine(d) /\ ino \in Inodes /\ blk \in Blocks
         /\ \A c : Taken(U, d, m.ibmap, m.dbmap, ino, blk, c) =>
              /\ Good(m2, U \cup {ino}, c) /\ Fine(c)
              /\ m2.cwd \in U /\ m2.cwd \in Written(U \cup {ino}, c) /\ c.itable[m2.cwd] = d.itable[m2.cwd]
              /\ m2.file \in {NoFile, NoEntry} => Safe(m2, c, << >>)
<1>1. Vacant(U, d, m.ibmap, m.dbmap, ino, blk) /\ ino \in Inodes /\ blk \in Blocks
  BY Table0 DEF Vacant, Use, Takes
<1>2. Fine(d)
  BY DEF Fine, Use
<1>3. ASSUME NEW c, Taken(U, d, m.ibmap, m.dbmap, ino, blk, c)
      PROVE  /\ Good(m2, U \cup {ino}, c) /\ Fine(c)
             /\ m2.cwd \in U /\ m2.cwd \in Written(U \cup {ino}, c) /\ c.itable[m2.cwd] = d.itable[m2.cwd]
             /\ m2.file \in {NoFile, NoEntry} => Safe(m2, c, << >>)
  <2>1. m2.cwd \in U
    BY DEF Use, Takes
  <2>3. /\ Good(m2, U \cup {ino}, c) /\ Fine(c)
        /\ m2.file \in {NoFile, NoEntry} => Ended(m2, c)
    BY <1>3, TakenGood
  <2>4. m2.cwd \in Written(U \cup {ino}, c) /\ c.itable[m2.cwd] = d.itable[m2.cwd]
    BY <1>3, <2>1 DEF Taken
  <2> QED BY <2>1, <2>3, <2>4, SafeEnd
<1> QED BY <1>1, <1>2, <1>3

LEMMA EntrySafe ==
  ASSUME NEW m, NEW V, NEW d, Good(m, V, d), m.cwd \in Written(V, d),
         NEW ino \in V, NEW name \in EntryNames, NEW dir, dir = d.itable[m.cwd], Room(dir)
  PROVE  /\ AddEntry(<< >>, m.cwd, dir, <<ino, name>>) \o UpdateBitmaps(m.ibmap, m.dbmap) \in Seq(WriteSet)
         /\ UpdateBitmaps(m.ibmap, m.dbmap) \in Seq(WriteSet)
         /\ Safe(m, d, AddEntry(<< >>, m.cwd, dir, <<ino, name>>) \o UpdateBitmaps(m.ibmap, m.dbmap))
<1>1. /\ CanAppend(m, V, d, m.cwd, <<ino, name>>)
      /\ AppendWrites(m, d, m.cwd, <<ino, name>>) =
           AddEntry(<< >>, m.cwd, dir, <<ino, name>>) \o UpdateBitmaps(m.ibmap, m.dbmap)
  BY EntryFits DEF Room
<1>2. Safe(m, d, AppendWrites(m, d, m.cwd, <<ino, name>>))
  BY <1>1, AppendSafe
<1> QED BY <1>1, <1>2, SafeNow, BitmapsSafe

LEMMA MakesFile ==
  ASSUME NEW m, NEW U, NEW d, Use(m, U, d), NEW m2, NEW ino, NEW blk, Takes(m, m2, U, ino, blk),
         NEW name \in EntryNames, NEW dir, dir = d.itable[m.cwd],
         NEW u, u = Assert \/ u = UpdateInode(ino, NewInode("file", 0, blk))
  PROVE  /\ m2.file \in {NoFile, NoEntry} => Safe(m2, d, <<u>>)
         /\ Safe(m2, d, Append(<<u>>, Assert))
         /\ Room(dir) => Safe(m2, d, AddEntry(<<u>>, m.cwd, dir, <<ino, name>>)
                                       \o UpdateBitmaps(m2.ibmap, m2.dbmap))
<1>a. PICK v : v = UpdateInode(ino, NewInode("file", 0, blk))
  OBVIOUS
<1>b. PICK c : c = Apply(d, v)
  OBVIOUS
<1>c. PICK p : p = AddEntry(<< >>, m.cwd, dir, <<ino, name>>) \o UpdateBitmaps(m2.ibmap, m2.dbmap)
  OBVIOUS
<1>1. Vacant(U, d, m.ibmap, m.dbmap, ino, blk) /\ Fine(d) /\ m2 \in MemSet /\ m2.cwd = m.cwd
  BY TakesIs DEF Takes
<1>2. v \in WriteSet /\ Taken(U, d, m.ibmap, m.dbmap, ino, blk, c)
  BY <1>1, <1>a, <1>b, TakesFile
<1>3. /\ Good(m2, U \cup {ino}, c) /\ Fine(c)
      /\ m2.cwd \in Written(U \cup {ino}, c) /\ c.itable[m2.cwd] = d.itable[m2.cwd]
      /\ m2.file \in {NoFile, NoEntry} => Safe(m2, c, << >>)
  BY <1>2, TakesIs
<1>4. Assert \in WriteSet /\ u \in WriteSet
  BY <1>2, <1>a DEF Assert, WriteSet
<1>5. /\ <<u>> \o << >> = <<u>> /\ Append(<<u>>, Assert) = <<u>> \o <<Assert>>
      /\ << >> \in Seq(WriteSet) /\ <<Assert>> \in Seq(WriteSet) /\ <<u>> \in Seq(WriteSet)
  BY <1>4
<1>6. Safe(m2, c, <<Assert>>)
  BY <1>1, <1>3, <1>5, SafeAssert
<1>7. ASSUME Room(dir)
      PROVE  /\ p \in Seq(WriteSet) /\ Safe(m2, c, p)
             /\ AddEntry(<<u>>, m.cwd, dir, <<ino, name>>) \o UpdateBitmaps(m2.ibmap, m2.dbmap) = <<u>> \o p
  <2>1. ino \in U \cup {ino} /\ dir = c.itable[m2.cwd]
    BY <1>1, <1>3
  <2>2. p \in Seq(WriteSet) /\ UpdateBitmaps(m2.ibmap, m2.dbmap) \in Seq(WriteSet) /\ Safe(m2, c, p)
    BY <1>1, <1>3, <1>7, <1>c, <2>1, EntrySafe
  <2>3. <<u>> \in Seq(WriteSet)
    BY <1>5
  <2>4. AddEntry(<<u>>, m.cwd, dir, <<ino, name>>) \o UpdateBitmaps(m2.ibmap, m2.dbmap) = <<u>> \o p
    <3>1. Split(<<u>>, m.cwd, dir, <<ino, name>>, UpdateBitmaps(m2.ibmap, m2.dbmap))
      BY <1>c, <2>2, <2>3, EntrySplit DEF EntryWrites
    <3> QED BY <1>c, <3>1 DEF Split, EntryWrites
  <2> QED BY <2>2, <2>4
<1>8. CASE u = Assert
  BY <1>1, <1>5, <1>7, <1>8, SafeAssert
<1>9. CASE u = v
  <2>1. \A q : Safe(m2, c, q) => Safe(m2, d, <<u>> \o q)
    BY <1>1, <1>4, <1>9, <1>b, SafeOne
  <2>2. m2.file \in {NoFile, NoEntry} => Safe(m2, d, <<u>> \o << >>)
    BY <1>3, <2>1
  <2>3. Safe(m2, d, <<u>> \o <<Assert>>)
    BY <1>6, <2>1
  <2>4. Room(dir) => Safe(m2, d, <<u>> \o p)
    BY <1>7, <2>1
  <2> QED BY <1>5, <1>7, <2>2, <2>3, <2>4
<1> QED BY <1>8, <1>9, <1>a

(* The entry crosses the end of a block, and dir may have one more. *)
RoomIn(dir) ==
  /\ Crosses(dir.size, 2) /\ dir.size + 2 <= MaxSize
  /\ (dir.size + 2) \div BlockSize <= NDirect - 1
  /\ dir.direct[dir.size \div BlockSize] # Unset

SpillEntry(i, dir, more, ino, name) ==
  <<WriteCells(dir.direct[dir.size \div BlockSize], i, dir.size, <<ino>>),
    WriteCells(more, i, dir.size + 1, <<name>>),
    UpdateInode(i, [dir EXCEPT !.direct[(dir.size + 2) \div BlockSize] = more, !.size = @ + 2])>>

LEMMA EntrySpills ==
  ASSUME NEW m, NEW V, NEW d, Good(m, V, d), m.cwd \in Written(V, d),
         NEW ino \in V, NEW name \in EntryNames, NEW dir, dir = d.itable[m.cwd],
         NEW more \in Blocks, more \in m.dbmap, RoomIn(dir),
         \A j \in Written(V, d) : \A f \in 0 .. NDirect - 1 : d.itable[j].direct[f] # more
  PROVE  /\ SpillEntry(m.cwd, dir, more, ino, name) \in Seq(WriteSet)
         /\ UpdateBitmaps(m.ibmap, m.dbmap) \in Seq(WriteSet)
         /\ Safe(m, d, SpillEntry(m.cwd, dir, more, ino, name) \o UpdateBitmaps(m.ibmap, m.dbmap))
<1>a. PICK seq : seq = <<ino>>
  OBVIOUS
<1>b. PICK rest : rest = <<name>>
  OBVIOUS
<1>1. /\ d \in DiskSet /\ Sound(V, d) /\ ino \in Inodes
  BY Table0 DEF Good, Sound
<1>2. dir \in InodeSet /\ dir.size \in Nat /\ dir.size \in 0 .. MaxSize
  BY <1>1, Held
<1>c. PICK here \in Nat : here = dir.size \div BlockSize
  BY <1>2, Divide
<1>d. PICK size \in Nat : size = dir.size
  BY <1>2
<1>e. PICK inode : inode = [dir EXCEPT !.direct[(dir.size + 2) \div BlockSize] = more, !.size = @ + 2]
  OBVIOUS
<1>3. seq \in Seq(Holdable) /\ Len(seq) = 1 /\ seq[1] = ino
  BY <1>1, <1>a DEF Holdable
<1>4. rest \in Seq(Holdable) /\ Len(rest) = 1 /\ rest[1] = name
  BY <1>b DEF Holdable
<1>5. size % BlockSize = BlockSize - 1 /\ (size + 2) \div BlockSize = here + 1
  <2>1. size % BlockSize \in 0 .. BlockSize - 1
    BY Divide
  <2>2. (size % BlockSize) + 2 > BlockSize
    BY <1>d DEF RoomIn, Crosses
  <2>3. size % BlockSize = BlockSize - 1
    BY <2>1, <2>2, Sizes0
  <2>4. 2 \in Nat /\ 2 <= BlockSize /\ (size % BlockSize) + 2 >= BlockSize
    BY <2>1, <2>2, Sizes0
  <2> QED BY <1>c, <1>d, <2>3, <2>4, Along
<1>6. here + 1 \in 0 .. NDirect - 1
  BY <1>5, <1>d, Sizes0 DEF RoomIn
<1>7. /\ inode \in InodeSet /\ inode.direct = [dir.direct EXCEPT ![here + 1] = more] /\ inode.size = size + 2
  <2>1. size + 2 \in 0 .. MaxSize
    BY <1>d, Sizes0 DEF RoomIn
  <2>2. inode = [dir EXCEPT !.direct[here + 1] = more, !.size = @ + 2]
    BY <1>5, <1>d, <1>e
  <2>3. dir.direct \in [0 .. NDirect - 1 -> Blocks \cup {Unset}]
    BY <1>2 DEF InodeSet
  <2>4. [dir.direct EXCEPT ![here + 1] = more] \in [0 .. NDirect - 1 -> Blocks \cup {Unset}]
    BY <2>3
  <2>5. inode = [type |-> dir.type, size |-> size + 2, direct |-> [dir.direct EXCEPT ![here + 1] = more]]
    BY <1>2, <1>d, <2>2 DEF InodeSet
  <2> QED BY <1>2, <2>1, <2>4, <2>5 DEF InodeSet
<1>8. CanSpill(m, V, d, m.cwd, seq, rest, more, inode)
  <2>1. (dir.size % BlockSize) + Len(seq) = BlockSize /\ Len(rest) <= BlockSize
    BY <1>3, <1>4, <1>5, <1>d, Sizes0
  <2>2. \A k \in 1 .. Len(seq) : seq[k] \notin EntryNames
    BY <1>1, <1>3, Names0
  <2>3. \A k \in 1 .. Len(rest) : rest[k] \in EntryNames => k = 1 /\ seq[Len(seq)] \in V
    BY <1>3, <1>4
  <2>4. inode.size \in dir.size .. dir.size + Len(seq) + Len(rest)
    BY <1>3, <1>4, <1>7, <1>d
  <2>5. dir.direct[here] # Unset
    BY <1>c DEF RoomIn
  <2> QED BY <1>3, <1>4, <1>6, <1>7, <1>c, <2>1, <2>2, <2>3, <2>4, <2>5 DEF CanSpill
<1>9. /\ SpillWrites(m, d, m.cwd, seq, rest, more, inode) =
           SpillEntry(m.cwd, dir, more, ino, name) \o UpdateBitmaps(m.ibmap, m.dbmap)
  <2>1. dir.size + Len(seq) = dir.size + 1
    BY <1>3
  <2> QED BY <1>a, <1>b, <1>e, <2>1 DEF SpillWrites, SpillEntry
<1>10. Safe(m, d, SpillWrites(m, d, m.cwd, seq, rest, more, inode))
  BY <1>8, SpillSafe
<1>11. SpillEntry(m.cwd, dir, more, ino, name) \in Seq(WriteSet)
  <2>1. dir.direct[here] \in Blocks /\ m.cwd \in Inodes /\ dir.size + 1 \in Nat
    <3>1. here \in 0 .. NDirect - 1
      BY <1>6, Sizes0
    <3>2. dir.direct[here] # Unset
      BY <1>c DEF RoomIn
    <3>3. dir.direct \in [0 .. NDirect - 1 -> Blocks \cup {Unset}] /\ m.cwd \in Inodes
      BY <1>1, <1>2, Held DEF InodeSet
    <3>4. dir.direct[here] \in Blocks
      BY <3>1, <3>2, <3>3
    <3> QED BY <1>2, <3>3, <3>4
  <2>2. /\ WriteCells(dir.direct[here], m.cwd, dir.size, seq) \in WriteSet
        /\ WriteCells(more, m.cwd, dir.size + 1, rest) \in WriteSet
        /\ UpdateInode(m.cwd, inode) \in WriteSet
    BY <1>1, <1>2, <1>3, <1>4, <1>7, <2>1, DataOf, WritesOf, Held
  <2> QED BY <1>a, <1>b, <1>c, <1>e, <2>2 DEF SpillEntry
<1> QED BY <1>9, <1>10, <1>11, <1>8, BitmapsSafe

LEMMA MakesDir ==
  ASSUME NEW m, NEW U, NEW d, Use(m, U, d), NEW m2, NEW ino, NEW blk, Takes(m, m2, U, ino, blk),
         NEW name \in EntryNames, NEW dir, dir = d.itable[m.cwd],
         NEW made, made = DirWrites(ino, blk, m.cwd)
  PROVE  /\ m2.file \in {NoFile, NoEntry} => Safe(m2, d, made)
         /\ Room(dir) => Safe(m2, d, AddEntry(made, m.cwd, dir, <<ino, name>>)
                                       \o UpdateBitmaps(m2.ibmap, m2.dbmap))
         /\ \A more \in Blocks \ (m.dbmap \cup {blk}) :
              more \in m2.dbmap /\ RoomIn(dir) =>
                Safe(m2, d, (made \o SpillEntry(m.cwd, dir, more, ino, name))
                              \o UpdateBitmaps(m2.ibmap, m2.dbmap))
<1>a. PICK u : u = made[1]
  OBVIOUS
<1>b. PICK w : w = made[2]
  OBVIOUS
<1>c. PICK c : c = Apply(Apply(d, u), w)
  OBVIOUS
<1>d. PICK bm : bm = UpdateBitmaps(m2.ibmap, m2.dbmap)
  OBVIOUS
<1>1. Vacant(U, d, m.ibmap, m.dbmap, ino, blk) /\ m2 \in MemSet /\ m2.cwd = m.cwd /\ m.cwd \in U
  BY TakesIs DEF Takes, Use
<1>2. /\ u \in WriteSet /\ w \in WriteSet /\ Fine(d) /\ Fine(Apply(d, u))
      /\ Taken(U, d, m.ibmap, m.dbmap, ino, blk, c)
  BY <1>1, <1>a, <1>b, <1>c, TakesDir
<1>3. /\ Good(m2, U \cup {ino}, c) /\ Fine(c)
      /\ m2.cwd \in Written(U \cup {ino}, c) /\ c.itable[m2.cwd] = d.itable[m2.cwd]
      /\ m2.file \in {NoFile, NoEntry} => Safe(m2, c, << >>)
  BY <1>2, TakesIs
<1>4. made = <<u, w>> /\ made \in Seq(WriteSet) /\ made \o << >> = made
  <2>1. made = <<u, w>>
    BY <1>a, <1>b DEF DirWrites
  <2>2. made \in Seq(WriteSet)
    BY <1>2, <2>1
  <2> QED BY <2>1, <2>2
<1>5. \A q : Safe(m2, c, q) => Safe(m2, d, made \o q)
  BY <1>2, <1>4, <1>c, SafeTwo
<1>6. bm \in Seq(WriteSet)
  BY <1>3, <1>d, BitmapsSafe
<1>7. m2.file \in {NoFile, NoEntry} => Safe(m2, d, made)
  <2>1. m2.file \in {NoFile, NoEntry} => Safe(m2, d, made \o << >>)
    BY <1>3, <1>5
  <2> QED BY <1>4, <2>1
<1>8. ino \in U \cup {ino} /\ dir = c.itable[m2.cwd]
  BY <1>1, <1>3
<1>9. ASSUME Room(dir)
      PROVE  Safe(m2, d, AddEntry(made, m.cwd, dir, <<ino, name>>) \o bm)
  <2>1. /\ EntryWrites(m.cwd, dir, <<ino, name>>, bm) \in Seq(WriteSet)
        /\ Safe(m2, c, EntryWrites(m.cwd, dir, <<ino, name>>, bm))
    BY <1>1, <1>3, <1>8, <1>9, <1>d, EntrySafe DEF EntryWrites
  <2>2. Split(made, m.cwd, dir, <<ino, name>>, bm)
    BY <1>4, <1>6, <2>1, EntrySplit
  <2> QED BY <1>5, <2>1, <2>2 DEF Split
<1>10. ASSUME NEW more \in Blocks \ (m.dbmap \cup {blk}), more \in m2.dbmap, RoomIn(dir)
       PROVE  Safe(m2, d, (made \o SpillEntry(m.cwd, dir, more, ino, name)) \o bm)
  <2>a. PICK spill : spill = SpillEntry(m.cwd, dir, more, ino, name)
    OBVIOUS
  <2>1. \A j \in Written(U \cup {ino}, c) : \A f \in 0 .. NDirect - 1 : c.itable[j].direct[f] # more
    BY <1>2, Names0 DEF Taken, Marked
  <2>2. spill \in Seq(WriteSet) /\ Safe(m2, c, spill \o bm)
    <3>0. PICK V : V = U \cup {ino}
      OBVIOUS
    <3>1. /\ Good(m2, V, c) /\ m2.cwd \in Written(V, c) /\ ino \in V
          /\ dir = c.itable[m2.cwd] /\ more \in Blocks /\ more \in m2.dbmap /\ RoomIn(dir)
          /\ \A j \in Written(V, c) : \A f \in 0 .. NDirect - 1 : c.itable[j].direct[f] # more
      BY <1>3, <1>8, <1>10, <2>1, <3>0
    <3>2. /\ SpillEntry(m2.cwd, dir, more, ino, name) \in Seq(WriteSet)
          /\ Safe(m2, c, SpillEntry(m2.cwd, dir, more, ino, name) \o UpdateBitmaps(m2.ibmap, m2.dbmap))
      BY <3>1, EntrySpills
    <3> QED BY <1>1, <1>d, <2>a, <3>2
  <2>3. (made \o spill) \o bm = made \o (spill \o bm)
    BY <1>4, <1>6, <2>2, Assoc
  <2>4. Safe(m2, d, made \o (spill \o bm))
    BY <1>5, <2>2
  <2> QED BY <2>3, <2>4, <2>a
<1> QED BY <1>7, <1>9, <1>10, <1>d

LEMMA FirstOf ==
  ASSUME NEW S, NEW u \in S, NEW r \in Seq(S), NEW s \in Seq(S), NEW t \in Seq(S)
  PROVE  ((<<u>> \o r) \o s) \o t = <<u>> \o ((r \o s) \o t)
<1>1. <<u>> \in Seq(S) /\ <<u>> \o r \in Seq(S) /\ r \o s \in Seq(S)
  OBVIOUS
<1>2. (<<u>> \o r) \o s = <<u>> \o (r \o s)
  BY <1>1, Assoc
<1>3. (<<u>> \o (r \o s)) \o t = <<u>> \o ((r \o s) \o t)
  BY <1>1, Assoc
<1> QED BY <1>2, <1>3

(* The writes of create_dir; an inode that straddles is written twice. *)
DirCreated(ino, blk, parent) ==
  FirstPart(ino) \o DirWrites(ino, blk, parent)

LEMMA MakesAnyDir ==
  ASSUME NEW m, NEW U, NEW d, Use(m, U, d), NEW m2, NEW ino, NEW blk, Takes(m, m2, U, ino, blk),
         NEW name \in EntryNames, NEW dir, dir = d.itable[m.cwd],
         NEW made, made = DirCreated(ino, blk, m.cwd)
  PROVE  /\ m2.file \in {NoFile, NoEntry} => Safe(m2, d, made)
         /\ Room(dir) => Safe(m2, d, AddEntry(made, m.cwd, dir, <<ino, name>>)
                                       \o UpdateBitmaps(m2.ibmap, m2.dbmap))
         /\ \A more \in Blocks \ (m.dbmap \cup {blk}) :
              more \in m2.dbmap /\ RoomIn(dir) =>
                Safe(m2, d, (made \o SpillEntry(m.cwd, dir, more, ino, name))
                              \o UpdateBitmaps(m2.ibmap, m2.dbmap))
<1>a. PICK u : u = UpdateInode(ino, Unset)
  OBVIOUS
<1>b. PICK c : c = Apply(d, u)
  OBVIOUS
<1>c. PICK v, w : v = UpdateInode(ino, NewInode("dir", 4, blk))
                    /\ w = WriteCells(blk, ino, 0, <<ino, Dot, m.cwd, DotDot>>)
  OBVIOUS
<1>d. PICK both : both = DirWrites(ino, blk, m.cwd)
  OBVIOUS
<1>1. both = <<v, w>>
  BY <1>c, <1>d DEF DirWrites
<1>2. CASE ino \notin Straddling
  <2>1. made = both
    <3>1. made = << >> \o both
      BY <1>2, <1>d DEF DirCreated, FirstPart
    <3>2. << >> \o <<v, w>> = <<v, w>>
      OBVIOUS
    <3> QED BY <1>1, <3>1, <3>2
  <2> QED BY <1>d, <2>1, MakesDir
<1>3. CASE ino \in Straddling
  <2>0. d \in DiskSet /\ Sound(U, d) /\ Written(U, d) = U /\ ino \in Table \ U /\ m.cwd \in U /\ Fine(d)
    <3>1. Vacant(U, d, m.ibmap, m.dbmap, ino, blk) /\ Fine(d)
      BY TakesIs
    <3>2. ino \in Table \ U
      BY <3>1, VacantIs
    <3> QED BY <3>1, <3>2 DEF Use
  <2>1. u \in WriteSet /\ u.kind = "inode"
    BY <1>a, <2>0, WritesOf
  <2>2. /\ Sound(U, c) /\ Written(U, c) = U /\ \A j \in U : c.itable[j] = d.itable[j]
        /\ c \in DiskSet /\ c.ibmap = d.ibmap /\ c.dbmap = d.dbmap
    <3>1. Sound(U, c) /\ Written(U, c) = U /\ \A j \in U : c.itable[j] = d.itable[j]
      BY <1>a, <1>b, <2>0, OutsideKeeps
    <3>2. c \in DiskSet /\ c.ibmap = d.ibmap /\ c.dbmap = d.dbmap
      BY <1>b, <2>0, <2>1, ApplyIs
    <3> QED BY <3>1, <3>2
  <2>3. Use(m, U, c)
    BY <2>2, SameMarked DEF Use
  <2>4. dir = c.itable[m.cwd]
    BY <2>0, <2>2
  <2>5. /\ m2.file \in {NoFile, NoEntry} => Safe(m2, c, both)
        /\ Room(dir) => Safe(m2, c, AddEntry(both, m.cwd, dir, <<ino, name>>)
                                       \o UpdateBitmaps(m2.ibmap, m2.dbmap))
        /\ \A more \in Blocks \ (m.dbmap \cup {blk}) :
              more \in m2.dbmap /\ RoomIn(dir) =>
                Safe(m2, c, (both \o SpillEntry(m.cwd, dir, more, ino, name))
                              \o UpdateBitmaps(m2.ibmap, m2.dbmap))
    BY <1>d, <2>3, <2>4, MakesDir
  <2>6. \A q : Safe(m2, c, q) => Safe(m2, d, <<u>> \o q)
    BY <1>b, <2>0, <2>1, SafeOne
  <2>7. made = <<u>> \o both
    BY <1>3, <1>a, <1>d DEF DirCreated, FirstPart
  <2>8. PICK a, b : UpdateBitmaps(m2.ibmap, m2.dbmap) = <<a, b>>
    BY DEF UpdateBitmaps
  <2>9. \A e, S : u \in S /\ v \in S /\ w \in S /\ a \in S /\ b \in S /\ e \in Seq(S) =>
          (made \o e) \o <<a, b>> = <<u>> \o ((both \o e) \o <<a, b>>)
    <3> SUFFICES ASSUME NEW e, NEW S, u \in S, v \in S, w \in S, a \in S, b \in S, e \in Seq(S)
                 PROVE  (made \o e) \o <<a, b>> = <<u>> \o ((both \o e) \o <<a, b>>)
      OBVIOUS
    <3>1. both \in Seq(S) /\ <<a, b>> \in Seq(S)
      BY <1>1
    <3> QED BY <2>7, <3>1, FirstOf
  <2>10. ASSUME Room(dir)
         PROVE  Safe(m2, d, AddEntry(made, m.cwd, dir, <<ino, name>>) \o UpdateBitmaps(m2.ibmap, m2.dbmap))
    <3>1. PICK x, y : /\ AddEntry(made, m.cwd, dir, <<ino, name>>) = made \o <<x, y>>
                      /\ AddEntry(both, m.cwd, dir, <<ino, name>>) = both \o <<x, y>>
      BY DEF AddEntry
    <3>0. PICK S : S = {u, v, w, a, b, x, y}
      OBVIOUS
    <3>2. u \in S /\ v \in S /\ w \in S /\ a \in S /\ b \in S /\ <<x, y>> \in Seq(S)
      BY <3>0
    <3>3. (made \o <<x, y>>) \o <<a, b>> = <<u>> \o ((both \o <<x, y>>) \o <<a, b>>)
      BY <2>9, <3>2
    <3> QED BY <2>5, <2>6, <2>8, <2>10, <3>1, <3>3
  <2>11. ASSUME NEW more \in Blocks \ (m.dbmap \cup {blk}), more \in m2.dbmap, RoomIn(dir)
         PROVE  Safe(m2, d, (made \o SpillEntry(m.cwd, dir, more, ino, name))
                              \o UpdateBitmaps(m2.ibmap, m2.dbmap))
    <3>1. PICK x, y, z : SpillEntry(m.cwd, dir, more, ino, name) = <<x, y, z>>
      BY DEF SpillEntry
    <3>0. PICK S : S = {u, v, w, a, b, x, y, z}
      OBVIOUS
    <3>2. u \in S /\ v \in S /\ w \in S /\ a \in S /\ b \in S /\ <<x, y, z>> \in Seq(S)
      BY <3>0
    <3>3. (made \o <<x, y, z>>) \o <<a, b>> = <<u>> \o ((both \o <<x, y, z>>) \o <<a, b>>)
      BY <2>9, <3>2
    <3> QED BY <2>5, <2>6, <2>8, <2>11, <3>1, <3>3
  <2> QED BY <2>5, <2>6, <2>7, <2>10, <2>11
<1> QED BY <1>2, <1>3

----------------------------------------------------------------------------
(* What the next start of the kernel finds. *)
Restartable ==
  IF magic THEN \E U : Sound(U, Disk) /\ Marked(U, Disk, ibmapD, dbmapD) ELSE Disk = EmptyDisk

(* While the kernel runs, the writes that are left lead from one disk in   *)
(* order to the next, and the last one to one with a mark for all that is  *)
(* in use. When it does not, the disk is one that it can start from. *)
Orderly ==
  /\ up \in BOOLEAN /\ lost \in BOOLEAN /\ magic \in BOOLEAN
  /\ \A i \in Spilled : itable[i] = Unset
  /\ up /\ ~lost => Safe(Mem, Disk, pending)
  /\ up /\ ~magic => Disk = EmptyDisk /\ pending # << >> /\ Head(pending).kind = "super"
  /\ lost => up /\ pending = << >>
  /\ ~up => /\ Mem = [ibmap |-> {}, dbmap |-> {}, cwd |-> Root, file |-> NoFile]
            /\ pending = << >> /\ Fine(Disk) /\ Restartable

(* As long as nothing has come about that the code does not guard against. *)
Inv == trouble = {} => Orderly

(* A call has decided what it will write. *)
Begins ==
  /\ up' = up /\ UNCHANGED diskVars
  /\ lost' \in BOOLEAN /\ (lost' => pending' = << >>)
  /\ ~lost' => Safe(Mem', Disk, pending')

LEMMA EndedUse ==
  ASSUME Orderly, up, ~lost, pending = << >>
  PROVE  /\ magic /\ Ended(Mem, Disk)
         /\ itable[cwd] # Unset => \E U : Use(Mem, U, Disk)
<1>1. Ended(Mem, Disk) /\ magic
  BY SafeNow DEF Orderly
<1>2. ASSUME itable[cwd] # Unset PROVE \E U : Use(Mem, U, Disk)
  <2>1. PICK U : /\ Sound(U, Disk) /\ Marked(U, Disk, Mem.ibmap, Mem.dbmap)
                 /\ Disk.dbmap # {} => Marked(U, Disk, Disk.ibmap, Disk.dbmap)
                 /\ Mem.cwd \in U
    BY <1>1 DEF Ended
  <2>2. Disk.itable[Mem.cwd] # Unset
    BY <1>2, CellIs
  <2>3. Written(U, Disk) = U
    <3>1. ASSUME Written(U, Disk) # U PROVE FALSE
      <4>1. U = {Root} /\ Mem.cwd = Root
        BY <2>1, <3>1 DEF Sound
      <4>2. Written(U, Disk) = {Root}
        BY <2>2, <4>1 DEF Written
      <4> QED BY <3>1, <4>1, <4>2
    <3> QED BY <3>1
  <2> QED BY <1>1, <2>1, <2>3 DEF Use, Ended
<1> QED BY <1>1, <1>2

LEMMA BeginsInv ==
  ASSUME Orderly, up, ~lost, pending = << >>, Begins
  PROVE  Orderly'
<1>1. magic
  BY EndedUse
<1>2. Disk' = Disk /\ magic' = magic /\ itable' = itable
  BY DEF Begins, diskVars, Disk
<1> QED BY <1>1, <1>2 DEF Orderly, Begins

----------------------------------------------------------------------------
(* The calls, one by one. *)
LEMMA ReadyIs ==
  ASSUME Orderly, Ready
  PROVE  /\ up /\ lost = FALSE /\ pending = << >> /\ file = NoFile
         /\ \E U : Use(Mem, U, Disk)
<1>1. up /\ ~lost /\ pending = << >> /\ file = NoFile /\ itable[cwd] # Unset
  BY DEF Ready, AtPrompt, Readable
<1>2. lost \in BOOLEAN
  BY DEF Orderly
<1> QED BY <1>1, <1>2, EndedUse

LEMMA UseIs ==
  ASSUME NEW U, Use(Mem, U, Disk)
  PROVE  /\ Disk \in DiskSet /\ Sound(U, Disk) /\ Written(U, Disk) = U /\ U \subseteq Inodes
         /\ Root \in U /\ cwd \in U /\ Fine(Disk)
         /\ U \subseteq ibmap /\ ibmap \subseteq Inodes /\ dbmap \subseteq Blocks
         /\ \A i \in U : itable[i] # Unset /\ itable[i] \in InodeSet
<1>1. /\ Disk \in DiskSet /\ Sound(U, Disk) /\ Written(U, Disk) = U
      /\ Mem \in MemSet /\ Marked(U, Disk, ibmap, dbmap) /\ cwd \in U
  BY CellIs DEF Use
<1>2. ibmap \subseteq Inodes /\ dbmap \subseteq Blocks
  BY <1>1, CellIs DEF MemSet
<1>3. \A i \in U : itable[i] # Unset /\ itable[i] \in InodeSet
  BY <1>1, Held, CellIs
<1> QED BY <1>1, <1>2, <1>3, Table0 DEF Sound, Fine, Marked

(* A call that marks nothing and leaves the shell within U. *)
LEMMA Moves ==
  ASSUME NEW U, Use(Mem, U, Disk), ibmap' = ibmap, dbmap' = dbmap,
         cwd' \in U, file' \in {NoFile, NoEntry} \cup U
  PROVE  /\ Good(Mem', U, Disk)
         /\ Safe(Mem', Disk, << >>) /\ Safe(Mem', Disk, <<Assert>>)
         /\ Safe(Mem', Disk, UpdateBitmaps(ibmap, dbmap))
<1>a. PICK m2 : m2 = Mem'
  OBVIOUS
<1>1. m2.ibmap = ibmap /\ m2.dbmap = dbmap /\ m2.cwd = cwd' /\ m2.file = file'
  BY <1>a DEF Mem
<1>2. cwd' \in Int /\ file' \in Int /\ ibmap \subseteq Inodes /\ dbmap \subseteq Blocks
  <2>0. U \subseteq Nat /\ ibmap \subseteq Inodes /\ dbmap \subseteq Blocks
    BY UseIs, Sizes0
  <2>1. \A x \in U : x \in Int
    BY <2>0
  <2>2. NoFile \in Int /\ NoEntry \in Int
    BY DEF NoFile, NoEntry
  <2> QED BY <2>0, <2>1, <2>2
<1>3. m2 \in MemSet
  BY <1>2, <1>a DEF Mem, MemSet
<1>4. Ended(m2, Disk) /\ Fine(Disk) /\ Good(m2, U, Disk)
  BY <1>1, <1>3, StaysEnded, CellIs
<1>5. << >> \in Seq(WriteSet)
  OBVIOUS
<1>6. Safe(m2, Disk, << >>) /\ Safe(m2, Disk, <<Assert>>) /\ Safe(m2, Disk, UpdateBitmaps(ibmap, dbmap))
  BY <1>1, <1>3, <1>4, <1>5, SafeEnd, SafeAssert, BitmapsSafe
<1> QED BY <1>4, <1>6, <1>a

LEMMA LookupIs ==
  ASSUME NEW U, Use(Mem, U, Disk), NEW i \in U, NEW name
  PROVE  Name2Inode(name, i) \in U \cup {NoEntry}
BY UseIs, Lookup

LEMMA NoEntry0 == NoEntry \notin Inodes /\ NoEntry \notin Blocks
BY FreeEntry, Sizes0 DEF Inodes, Blocks

LEMMA OpenBegins ==
  ASSUME Orderly, NEW name, NEW abs, Open(name, abs)
  PROVE  Begins
<1>1. PICK U : Use(Mem, U, Disk)
  BY ReadyIs DEF Open
<1>2. PICK ino : ino = Name2Inode(name, IF abs THEN Root ELSE cwd)
  OBVIOUS
<1>3. /\ ino # NoEntry
      /\ (pending' = <<Assert>> /\ file' = file) \/ (file' = ino /\ pending' = pending)
      /\ UNCHANGED <<up, ibmap, dbmap, cwd, diskVars, lost, trouble>>
  BY <1>2, NoEntry0 DEF Open
<1>4. ino \in U /\ cwd \in U
  BY <1>1, <1>2, <1>3, UseIs, LookupIs
<1>5. pending = << >> /\ file = NoFile /\ lost = FALSE
  BY ReadyIs DEF Open
<1>6. file' \in {NoFile, NoEntry} \cup U /\ cwd' \in U
  BY <1>3, <1>4, <1>5
<1>7. Safe(Mem', Disk, pending')
  BY <1>1, <1>3, <1>5, <1>6, Moves
<1> QED BY <1>3, <1>5, <1>7 DEF Begins

LEMMA ChdirBegins ==
  ASSUME Orderly, NEW name, NEW abs, Chdir(name, abs)
  PROVE  Begins
<1>1. PICK U : Use(Mem, U, Disk)
  BY ReadyIs DEF Chdir
<1>2. PICK from : from = IF abs THEN Root ELSE cwd
  OBVIOUS
<1>3. PICK ino : ino = Name2Inode(name, from)
  OBVIOUS
<1>4. /\ cwd' \in {from, Root, ino} /\ (cwd' = ino => ino # NoEntry)
      /\ pending' \in {pending, <<Assert>>, UpdateBitmaps(ibmap, dbmap)}
      /\ UNCHANGED <<up, ibmap, dbmap, file, diskVars, lost, trouble>>
  <2>1. from # NoEntry /\ Root # NoEntry
    BY <1>1, <1>2, UseIs, Sizes0 DEF NoEntry
  <2> QED BY <1>2, <1>3, <2>1 DEF Chdir
<1>5. pending = << >> /\ file = NoFile /\ lost = FALSE
  BY ReadyIs DEF Chdir
<1>6. file' \in {NoFile, NoEntry} \cup U /\ cwd' \in U
  BY <1>1, <1>2, <1>3, <1>4, <1>5, UseIs, LookupIs
<1>7. Safe(Mem', Disk, pending')
  BY <1>1, <1>4, <1>5, <1>6, Moves
<1> QED BY <1>4, <1>5, <1>7 DEF Begins

LEMMA LinkInBegins ==
  ASSUME Orderly, NEW U, Use(Mem, U, Disk), pending = << >>, file = NoFile, lost = FALSE,
         NEW linkname \in Names, NEW from \in U, NEW name, LinkIn(linkname, from, name),
         UNCHANGED <<up, ibmap, dbmap, file, diskVars, trouble>>
  PROVE  Begins
<1>a. PICK ino : ino = Name2Inode(name, from)
  OBVIOUS
<1>b. PICK dir : dir = itable[cwd]
  OBVIOUS
<1>c. PICK bm : bm = UpdateBitmaps(ibmap, dbmap)
  OBVIOUS
<1>1. /\ cwd' \in {cwd, from}
      /\ lost' \in BOOLEAN
      /\ lost' => pending' = << >>
      /\ ~lost' => \/ pending' \in {<< >>, <<Assert>>}
                   \/ /\ ino # NoEntry /\ Room(dir) /\ cwd' = cwd
                      /\ pending' = AddEntry(<< >>, cwd, dir, <<ino, linkname>>) \o bm
  <2>1. \/ cwd' = from /\ UNCHANGED <<pending, lost>>
        \/ pending' = <<Assert>> /\ UNCHANGED <<cwd, lost>>
        \/ UNCHANGED <<cwd, pending, lost>>
        \/ lost' = TRUE /\ UNCHANGED <<cwd, pending>>
        \/ /\ ino # NoEntry /\ ~(dir.size + 2 > MaxSize) /\ ~Crosses(dir.size, 2)
           /\ dir.direct[dir.size \div BlockSize] # Unset
           /\ pending' = AddEntry(<< >>, cwd, dir, <<ino, linkname>>) \o bm
           /\ UNCHANGED <<cwd, lost>>
    BY <1>a, <1>b, <1>c DEF LinkIn
  <2>2. ~(dir.size + 2 > MaxSize) => dir.size + 2 <= MaxSize
    <3>1. dir.size \in Nat
      BY <1>b, UseIs DEF InodeSet
    <3> QED BY <3>1, Sizes0
  <2> QED BY <2>1, <2>2 DEF Room
<1>2. cwd' \in U /\ file' \in {NoFile, NoEntry} \cup U /\ ino \in U \cup {NoEntry} /\ cwd \in U
  BY <1>1, <1>a, UseIs, LookupIs
<1>3. Good(Mem', U, Disk) /\ Safe(Mem', Disk, << >>) /\ Safe(Mem', Disk, <<Assert>>)
  BY <1>2, Moves
<1>4. ASSUME ino # NoEntry, Room(dir), cwd' = cwd
      PROVE  Safe(Mem', Disk, AddEntry(<< >>, cwd, dir, <<ino, linkname>>) \o bm)
  <2>a. PICK m2 : m2 = Mem'
    OBVIOUS
  <2>1. m2.ibmap = ibmap /\ m2.dbmap = dbmap /\ m2.cwd = cwd
    BY <1>4, <2>a DEF Mem
  <2>2. m2.cwd \in Written(U, Disk) /\ dir = Disk.itable[m2.cwd]
    BY <1>2, <1>b, <2>1, UseIs, CellIs
  <2>3. linkname \in EntryNames
    BY DEF EntryNames
  <2>4. Safe(m2, Disk, AddEntry(<< >>, m2.cwd, dir, <<ino, linkname>>) \o UpdateBitmaps(m2.ibmap, m2.dbmap))
    BY <1>2, <1>3, <1>4, <2>2, <2>3, <2>a, EntrySafe
  <2> QED BY <1>c, <2>1, <2>4, <2>a
<1>5. ~lost' => Safe(Mem', Disk, pending')
  BY <1>1, <1>3, <1>4
<1> QED BY <1>1, <1>5 DEF Begins

LEMMA LinkBegins ==
  ASSUME Orderly, NEW linkname \in Names, NEW name, Link(linkname, name)
  PROVE  Begins
<1>1. PICK U : Use(Mem, U, Disk)
  BY ReadyIs DEF Link
<1>2. pending = << >> /\ file = NoFile /\ lost = FALSE
  BY ReadyIs DEF Link
<1>3. UNCHANGED <<up, ibmap, dbmap, file, diskVars, trouble>>
  BY DEF Link
<1>4. CASE LinkIn(linkname, cwd, name)
  BY <1>1, <1>2, <1>3, <1>4, UseIs, LinkInBegins
<1>5. CASE \E sub \in Names \cup {DotDot} :
             LET d == Name2Inode(sub, Root) IN
             /\ Readable(Root) /\ d \in Inodes
             /\ IF d \in Straddling
                  THEN pending' = <<Assert>> /\ UNCHANGED <<cwd, lost>>
                  ELSE LinkIn(linkname, d, name)
  <2>0. PICK sub \in Names \cup {DotDot} :
          LET d == Name2Inode(sub, Root) IN
          /\ d # NoEntry
          /\ (pending' = <<Assert>> /\ UNCHANGED <<cwd, lost>>) \/ LinkIn(linkname, d, name)
    BY <1>5, NoEntry0
  <2> DEFINE d == Name2Inode(sub, Root)
  <2>1. d # NoEntry /\ ((pending' = <<Assert>> /\ UNCHANGED <<cwd, lost>>) \/ LinkIn(linkname, d, name))
    BY <2>0
  <2>2. d \in U
    BY <1>1, <2>1, UseIs, LookupIs
  <2>3. CASE LinkIn(linkname, d, name)
    BY <1>1, <1>2, <1>3, <2>2, <2>3, LinkInBegins
  <2>4. CASE pending' = <<Assert>> /\ UNCHANGED <<cwd, lost>>
    <3>1. cwd' \in U /\ file' \in {NoFile, NoEntry} \cup U
      BY <1>1, <1>2, <1>3, <2>4, UseIs
    <3>2. Safe(Mem', Disk, pending')
      BY <1>1, <1>3, <2>4, <3>1, Moves
    <3> QED BY <1>2, <1>3, <2>4, <3>2 DEF Begins
  <2> QED BY <2>1, <2>3, <2>4
<1> QED BY <1>4, <1>5 DEF Link

LEMMA CloseBegins ==
  ASSUME Orderly, Close
  PROVE  Begins
<1>a. PICK m2 : m2 = Mem'
  OBVIOUS
<1>1. Ended(Mem, Disk) /\ lost = FALSE /\ pending = << >>
  <2>1. up /\ ~lost /\ pending = << >>
    BY DEF Close
  <2> QED BY <2>1, EndedUse DEF Orderly
<1>2. /\ m2.ibmap = Mem.ibmap /\ m2.dbmap = Mem.dbmap /\ m2.cwd = Mem.cwd /\ m2.file = NoFile
      /\ UNCHANGED <<up, diskVars, pending, lost, trouble>>
  BY <1>a DEF Close, Mem
<1>3. m2 \in MemSet
  BY <1>1, <1>2, <1>a DEF Ended, MemSet, Mem, NoFile
<1>4. Ended(m2, Disk)
  BY <1>1, <1>2, <1>3 DEF Ended
<1> QED BY <1>1, <1>2, <1>4, <1>a, SafeEnd DEF Begins

(* What get_free_entry has found for a call. *)
LEMMA FreeIs ==
  ASSUME NEW U, Use(Mem, U, Disk), NEW ino, ino = GetFreeEntry(ibmap, NInodes)
  PROVE  /\ ino = NoEntry \/ (ino \in Inodes \ ibmap /\ ino # NoEntry /\ ino # cwd)
         /\ NoEntry \notin Inodes /\ NoEntry \notin Blocks
         /\ \A marked : GetFreeEntry(marked, NBlocks) \in (Blocks \ marked) \cup {NoEntry}
<1>1. ino = NoEntry \/ ino \in Inodes \ ibmap
  BY FreeEntry, Sizes0 DEF Inodes
<1>2. NoEntry \notin Inodes /\ NoEntry \notin Blocks
  BY FreeEntry, Sizes0 DEF Inodes, Blocks
<1>3. \A marked : GetFreeEntry(marked, NBlocks) \in (Blocks \ marked) \cup {NoEntry}
  <2> SUFFICES ASSUME NEW marked PROVE GetFreeEntry(marked, NBlocks) \in (Blocks \ marked) \cup {NoEntry}
    OBVIOUS
  <2>1. NBlocks \in Nat
    BY Sizes0
  <2> QED BY <2>1, FreeEntry DEF Blocks
<1> QED BY <1>1, <1>2, <1>3, UseIs

(* In memory after a call that has taken ino and blk, and dm in all. *)
LEMMA MemTakes ==
  ASSUME NEW U, Use(Mem, U, Disk), NEW ino \in Table \ ibmap, NEW blk \in Blocks \ dbmap,
         ibmap' = ibmap \cup {ino}, NEW dm \in SUBSET Blocks, dbmap' = dm,
         dbmap \cup {blk} \subseteq dm,
         cwd' = cwd, file' \in {NoFile, NoEntry, ino}
  PROVE  /\ Takes(Mem, Mem', U, ino, blk)
         /\ (Mem').ibmap = ibmap' /\ (Mem').dbmap = dbmap' /\ (Mem').file = file'
<1>a. PICK m2 : m2 = Mem'
  OBVIOUS
<1>1. m2.ibmap = ibmap' /\ m2.dbmap = dbmap' /\ m2.cwd = cwd' /\ m2.file = file'
  BY <1>a DEF Mem
<1>2. cwd' \in Int /\ file' \in Int /\ ibmap \subseteq Inodes /\ ino \in Inodes
  <2>1. cwd \in Inodes /\ ino \in Inodes /\ ibmap \subseteq Inodes /\ \A x \in Inodes : x \in Int
    BY UseIs, Sizes0, Table0
  <2>2. NoFile \in Int /\ NoEntry \in Int
    BY DEF NoFile, NoEntry
  <2> QED BY <2>1, <2>2
<1>3. ibmap' \subseteq Inodes /\ dbmap' \subseteq Blocks
  BY <1>2
<1>4. m2 \in MemSet
  BY <1>2, <1>3, <1>a DEF Mem, MemSet
<1>5. Takes(Mem, m2, U, ino, blk)
  BY <1>1, <1>4, CellIs DEF Takes
<1> QED BY <1>1, <1>5, <1>a

LEMMA OpenNewBegins ==
  ASSUME Orderly, NEW name \in Names, OpenNew(name), trouble' = {}
  PROVE  Begins
<1>1. PICK U : Use(Mem, U, Disk)
  BY ReadyIs DEF OpenNew
<1>a. PICK ino : ino = GetFreeEntry(ibmap, NInodes)
  OBVIOUS
<1>b. PICK blk : blk = IF ino = NoEntry THEN NoEntry ELSE GetFreeEntry(dbmap, NBlocks)
  OBVIOUS
<1>c. PICK dir : dir = itable[cwd]
  OBVIOUS
<1>d. PICK u : u = IF ino \in Straddling THEN Assert ELSE UpdateInode(ino, NewInode("file", 0, blk))
  OBVIOUS
<1>e. PICK created : created = IF blk = NoEntry THEN << >> ELSE <<u>>
  OBVIOUS
<1>2. /\ ino = NoEntry \/ (ino \in Inodes \ ibmap /\ ino # NoEntry /\ ino # cwd)
      /\ NoEntry \notin Inodes /\ NoEntry \notin Blocks
      /\ blk \in (Blocks \ dbmap) \cup {NoEntry}
      /\ ino = NoEntry => blk = NoEntry
  BY <1>1, <1>a, <1>b, FreeIs
<1>3. pending = << >> /\ file = NoFile /\ lost = FALSE
  BY ReadyIs DEF OpenNew
<1>4. /\ cwd \in U /\ dir \in InodeSet /\ dir.size \in Nat
      /\ ibmap \subseteq Inodes /\ dbmap \subseteq Blocks /\ Fine(Disk)
  BY <1>1, <1>c, UseIs DEF InodeSet
<1>5. cwd # NoEntry
  BY <1>1, <1>2, <1>4, UseIs
<1>6. /\ ibmap' = Mark(ibmap, ino) /\ dbmap' = Mark(dbmap, blk)
      /\ UNCHANGED <<up, cwd, diskVars>> /\ (blk # NoEntry => ino \notin Spilled)
      /\ \/ pending' = created /\ file' = NoEntry /\ UNCHANGED lost
         \/ pending' = Append(created, Assert) /\ UNCHANGED <<file, lost>>
         \/ lost' = TRUE /\ UNCHANGED <<pending, file>>
         \/ /\ blk # NoEntry /\ ~(dir.size + 2 > MaxSize) /\ ~Crosses(dir.size, 2)
            /\ dir.direct[dir.size \div BlockSize] # Unset
            /\ pending' = AddEntry(created, cwd, dir, <<ino, name>>) \o UpdateBitmaps(ibmap', dbmap')
            /\ file' \in {ino, NoEntry} /\ UNCHANGED lost
  <2>1. ino # cwd
    BY <1>2, <1>5
  <2> DEFINE fails == ino = NoEntry \/ dir.size + 2 > MaxSize
  <2>2. /\ Spills(ino, blk) = {} /\ (fails \/ Refused({blk}) = {})
        /\ ibmap' = Mark(ibmap, ino) /\ dbmap' = Mark(dbmap, blk)
        /\ UNCHANGED <<up, cwd, diskVars>>
        /\ IF fails THEN pending' = created /\ file' = NoEntry /\ UNCHANGED lost
           ELSE IF Crosses(dir.size, 2) THEN pending' = Append(created, Assert) /\ UNCHANGED <<file, lost>>
           ELSE IF dir.direct[dir.size \div BlockSize] = Unset THEN lost' = TRUE /\ UNCHANGED <<pending, file>>
           ELSE /\ pending' = AddEntry(created, cwd, dir, <<ino, name>>) \o UpdateBitmaps(ibmap', dbmap')
                /\ file' \in {ino, NoEntry} /\ UNCHANGED lost
    BY <2>1, <1>a, <1>b, <1>c, <1>d, <1>e DEF OpenNew
  <2>3. (blk # NoEntry => ino \notin Spilled) /\ (fails \/ blk # NoEntry)
    BY <2>2 DEF Spills, Refused
  <2> QED BY <2>2, <2>3
<1>7. \/ lost' = TRUE /\ pending' = << >>
      \/ lost' = FALSE /\ Safe(Mem', Disk, pending')
  <2>1. CASE lost' = TRUE /\ UNCHANGED <<pending, file>>
    BY <1>3, <2>1
  <2>2. CASE blk = NoEntry /\ ~(lost' = TRUE /\ UNCHANGED <<pending, file>>)
    <3>a. PICK m2 : m2 = Mem'
      OBVIOUS
    <3>1. /\ m2.ibmap = ibmap' /\ m2.dbmap = dbmap' /\ m2.cwd = cwd /\ m2.file = file'
          /\ m2 = [ibmap |-> ibmap', dbmap |-> dbmap', cwd |-> cwd, file |-> file']
      BY <1>6, <3>a DEF Mem
    <3>2. /\ lost' = FALSE /\ pending' \in {<< >>, <<Assert>>} /\ file' \in {NoFile, NoEntry}
      <4>1. Append(<< >>, Assert) = <<Assert>>
        OBVIOUS
      <4> QED BY <1>3, <1>6, <1>e, <2>2, <4>1
    <3>3. ibmap \subseteq ibmap' /\ ibmap' \subseteq Inodes /\ dbmap' = dbmap
      BY <1>2, <1>4, <1>6, <2>2 DEF Mark
    <3>4. m2 \in MemSet
      <4>1. cwd \in Int
        <5>1. cwd \in Inodes /\ \A x \in Inodes : x \in Int
          BY <1>1, <1>4, UseIs, Sizes0
        <5> QED BY <5>1
      <4>2. NoFile \in Int /\ NoEntry \in Int
        BY DEF NoFile, NoEntry
      <4> QED BY <1>4, <3>1, <3>2, <3>3, <4>1, <4>2 DEF MemSet
    <3>5. Ended(m2, Disk)
      BY <1>1, <1>4, <3>1, <3>2, <3>3, <3>4, StaysEnded, CellIs
    <3>6. << >> \in Seq(WriteSet)
      OBVIOUS
    <3> QED BY <1>4, <3>2, <3>4, <3>5, <3>6, <3>a, SafeEnd, SafeAssert
  <2>3. CASE blk # NoEntry /\ ~(lost' = TRUE /\ UNCHANGED <<pending, file>>)
    <3>a. PICK m2 : m2 = Mem'
      OBVIOUS
    <3>0. blk \in Blocks \ dbmap /\ ino \in Table \ ibmap /\ created = <<u>> /\ lost' = FALSE
      BY <1>2, <1>3, <1>6, <1>e, <2>3 DEF Table
    <3>1. /\ Takes(Mem, m2, U, ino, blk)
          /\ m2.ibmap = ibmap' /\ m2.dbmap = dbmap' /\ m2.file = file'
      <4>1. ibmap' = ibmap \cup {ino} /\ dbmap' = dbmap \cup {blk}
        BY <1>2, <1>6, <2>3, <3>0 DEF Mark
      <4>2. cwd' = cwd /\ file' \in {NoFile, NoEntry, ino}
        BY <1>3, <1>6, <2>3
      <4>3. dbmap \cup {blk} \in SUBSET Blocks
        BY <1>4, <3>0
      <4> QED BY <1>1, <3>0, <3>a, <4>1, <4>2, <4>3, MemTakes
    <3>2. u = Assert \/ u = UpdateInode(ino, NewInode("file", 0, blk))
      BY <1>d
    <3>3. name \in EntryNames /\ dir = Disk.itable[Mem.cwd] /\ Mem.cwd = cwd
      BY <1>c, CellIs DEF EntryNames
    <3>4. /\ m2.file \in {NoFile, NoEntry} => Safe(m2, Disk, <<u>>)
          /\ Safe(m2, Disk, Append(<<u>>, Assert))
          /\ Room(dir) => Safe(m2, Disk, AddEntry(<<u>>, Mem.cwd, dir, <<ino, name>>)
                                           \o UpdateBitmaps(m2.ibmap, m2.dbmap))
      BY <1>1, <3>1, <3>2, <3>3, MakesFile
    <3>5. ~(dir.size + 2 > MaxSize) => dir.size + 2 <= MaxSize
      BY <1>4, Sizes0
    <3> QED BY <1>6, <2>3, <3>0, <3>1, <3>3, <3>4, <3>5, <3>a DEF Room
  <2> QED BY <2>1, <2>2, <2>3
<1> QED BY <1>6, <1>7 DEF Begins

LEMMA MkdirBegins ==
  ASSUME Orderly, NEW name \in Names, Mkdir(name), trouble' = {}
  PROVE  Begins
<1>1. PICK U : Use(Mem, U, Disk)
  BY ReadyIs DEF Mkdir
<1>a. PICK ino : ino = GetFreeEntry(ibmap, NInodes)
  OBVIOUS
<1>b. PICK blk : blk = GetFreeEntry(dbmap, NBlocks)
  OBVIOUS
<1>c. PICK dir : dir = itable[cwd]
  OBVIOUS
<1>d. PICK made : made = DirCreated(ino, blk, cwd)
  OBVIOUS
<1>e. PICK created : created = IF blk = NoEntry THEN << >> ELSE made
  OBVIOUS
<1>f. PICK dm : dm = Mark(dbmap, blk)
  OBVIOUS
<1>g. PICK more : more = GetFreeEntry(dm, NBlocks)
  OBVIOUS
<1>2. /\ ino \in Inodes \ ibmap /\ ino # NoEntry /\ ino # cwd
      /\ NoEntry \notin Inodes /\ NoEntry \notin Blocks
      /\ blk \in (Blocks \ dbmap) \cup {NoEntry}
      /\ more \in (Blocks \ dm) \cup {NoEntry}
  <2>1. ino # NoEntry
    BY <1>a DEF Mkdir
  <2> QED BY <1>1, <1>a, <1>b, <1>g, <2>1, FreeIs
<1>3. pending = << >> /\ file = NoFile /\ lost = FALSE
  BY ReadyIs DEF Mkdir
<1>4. /\ cwd \in U /\ dir \in InodeSet /\ dir.size \in Nat
      /\ ibmap \subseteq Inodes /\ dbmap \subseteq Blocks /\ Fine(Disk)
  BY <1>1, <1>c, UseIs DEF InodeSet
<1>5. /\ ibmap' = ibmap \cup {ino}
      /\ UNCHANGED <<up, cwd, file, diskVars>> /\ (blk # NoEntry => ino \notin Spilled)
      /\ \/ dbmap' = dm /\ pending' = created /\ UNCHANGED lost
         \/ lost' = TRUE /\ UNCHANGED <<dbmap, pending>>
         \/ /\ blk # NoEntry /\ more # NoEntry
            /\ ~(dir.size + 2 > MaxSize) /\ ~((dir.size + 2) \div BlockSize > NDirect - 1)
            /\ Crosses(dir.size, 2)
            /\ dir.direct[dir.size \div BlockSize] # Unset
            /\ dbmap' = dm \cup {more}
            /\ pending' = (made \o SpillEntry(cwd, dir, more, ino, name)) \o UpdateBitmaps(ibmap', dbmap')
            /\ UNCHANGED lost
         \/ /\ blk # NoEntry /\ ~(dir.size + 2 > MaxSize) /\ ~Crosses(dir.size, 2)
            /\ dir.direct[dir.size \div BlockSize] # Unset
            /\ dbmap' = dm
            /\ pending' = AddEntry(made, cwd, dir, <<ino, name>>) \o UpdateBitmaps(ibmap', dbmap')
            /\ UNCHANGED lost
  <2> DEFINE here == dir.size \div BlockSize
             there == (dir.size + 2) \div BlockSize
             im == Mark(ibmap, ino)
             moreDir == [dir EXCEPT !.direct[there] = more, !.size = @ + 2]
             fails == \/ dir.size + 2 > MaxSize
                      \/ there > NDirect - 1
                      \/ ~Crosses(dir.size, 2) /\ here >= NDirect - 1
             none == {blk} \cup (IF Crosses(dir.size, 2) THEN {more} ELSE {})
  <2>1. im = ibmap \cup {ino} /\ (more # NoEntry => Mark(dm, more) = dm \cup {more})
    BY <1>2 DEF Mark
  <2>2. /\ ibmap' = im /\ Spills(ino, blk) = {} /\ (fails \/ Refused(none) = {})
        /\ UNCHANGED <<up, cwd, file, diskVars>>
        /\ IF fails THEN dbmap' = dm /\ pending' = created /\ UNCHANGED lost
           ELSE IF dir.direct[here] = Unset THEN lost' = TRUE /\ UNCHANGED <<dbmap, pending>>
           ELSE IF Crosses(dir.size, 2)
                  THEN /\ dbmap' = Mark(dm, more)
                       /\ pending' = created
                            \o <<WriteCells(dir.direct[here], cwd, dir.size, <<ino>>),
                                 WriteCells(more, cwd, dir.size + 1, <<name>>),
                                 UpdateInode(cwd, moreDir)>>
                            \o UpdateBitmaps(im, dbmap')
                       /\ UNCHANGED lost
           ELSE /\ dbmap' = dm
                /\ pending' = AddEntry(created, cwd, dir, <<ino, name>>) \o UpdateBitmaps(im, dm)
                /\ UNCHANGED lost
    BY <1>2, <1>a, <1>b, <1>c, <1>d, <1>e, <1>f, <1>g DEF Mkdir, DirCreated, DirWrites
  <2>3. SpillEntry(cwd, dir, more, ino, name) =
          <<WriteCells(dir.direct[here], cwd, dir.size, <<ino>>),
            WriteCells(more, cwd, dir.size + 1, <<name>>), UpdateInode(cwd, moreDir)>>
    BY DEF SpillEntry
  <2>4. blk # NoEntry => created = made
    BY <1>e
  <2>5. /\ blk # NoEntry => ino \notin Spilled
        /\ fails \/ (blk # NoEntry /\ (Crosses(dir.size, 2) => more # NoEntry))
    BY <2>2 DEF Spills, Refused
  <2>6. ~fails => ~(dir.size + 2 > MaxSize) /\ ~((dir.size + 2) \div BlockSize > NDirect - 1)
    OBVIOUS
  <2> HIDE DEF im, moreDir, fails, none
  <2> QED BY <2>1, <2>2, <2>3, <2>4, <2>5, <2>6
<1>6. CASE lost' = TRUE /\ UNCHANGED <<dbmap, pending>>
  BY <1>3, <1>5, <1>6 DEF Begins
<1>7. CASE ~(lost' = TRUE /\ UNCHANGED <<dbmap, pending>>)
  <2>a. PICK m2 : m2 = Mem'
    OBVIOUS
  <2>1. lost' = FALSE
    BY <1>3, <1>5, <1>7
  <2>2. CASE blk = NoEntry
    <3>1. /\ m2.ibmap = ibmap' /\ m2.dbmap = dbmap' /\ m2.cwd = cwd /\ m2.file = NoFile
          /\ m2 = [ibmap |-> ibmap', dbmap |-> dbmap', cwd |-> cwd, file |-> NoFile]
      BY <1>3, <1>5, <2>a DEF Mem
    <3>2. pending' = << >> /\ dbmap' = dbmap
      BY <1>5, <1>7, <1>e, <1>f, <2>2 DEF Mark
    <3>3. ibmap \subseteq ibmap' /\ ibmap' \subseteq Inodes
      BY <1>2, <1>4, <1>5
    <3>4. m2 \in MemSet
      <4>1. cwd \in Inodes /\ \A x \in Inodes : x \in Int
        BY <1>1, <1>4, UseIs, Sizes0
      <4>2. NoFile \in Int
        BY DEF NoFile
      <4> QED BY <1>4, <3>1, <3>2, <3>3, <4>1, <4>2 DEF MemSet
    <3>5. Ended(m2, Disk)
      BY <1>1, <1>4, <3>1, <3>2, <3>3, <3>4, StaysEnded, CellIs
    <3> QED BY <1>5, <2>1, <2>a, <3>2, <3>5, SafeEnd DEF Begins
  <2>3. CASE blk # NoEntry
    <3>1. /\ blk \in Blocks \ dbmap /\ created = made /\ dm = dbmap \cup {blk} /\ dm \subseteq Blocks
          /\ ino \in Table \ ibmap
      BY <1>2, <1>4, <1>5, <1>e, <1>f, <2>3 DEF Mark, Table
    <3>2. /\ dbmap' = dm \/ (dbmap' = dm \cup {more} /\ more \in Blocks \ dm)
          /\ dbmap' \subseteq Blocks /\ dbmap \cup {blk} \subseteq dbmap'
      BY <1>2, <1>5, <1>7, <3>1
    <3>3. /\ Takes(Mem, m2, U, ino, blk)
          /\ m2.ibmap = ibmap' /\ m2.dbmap = dbmap' /\ m2.file = file'
      <4>1. ibmap' = ibmap \cup {ino} /\ cwd' = cwd /\ file' \in {NoFile, NoEntry, ino}
        BY <1>3, <1>5
      <4>2. PICK new \in SUBSET Blocks : new = dbmap'
        BY <3>2
      <4> QED BY <1>1, <1>2, <2>a, <3>1, <3>2, <4>1, <4>2, MemTakes
    <3>4. name \in EntryNames /\ dir = Disk.itable[Mem.cwd] /\ Mem.cwd = cwd /\ Mem.dbmap = dbmap
      BY <1>c, CellIs DEF EntryNames
    <3>5. /\ m2.file \in {NoFile, NoEntry} => Safe(m2, Disk, made)
          /\ Room(dir) => Safe(m2, Disk, AddEntry(made, Mem.cwd, dir, <<ino, name>>)
                                           \o UpdateBitmaps(m2.ibmap, m2.dbmap))
          /\ \A x \in Blocks \ (Mem.dbmap \cup {blk}) :
               x \in m2.dbmap /\ RoomIn(dir) =>
                 Safe(m2, Disk, (made \o SpillEntry(Mem.cwd, dir, x, ino, name))
                                  \o UpdateBitmaps(m2.ibmap, m2.dbmap))
      BY <1>1, <1>d, <3>3, <3>4, MakesAnyDir
    <3>6. /\ ~(dir.size + 2 > MaxSize) => dir.size + 2 <= MaxSize
          /\ ~((dir.size + 2) \div BlockSize > NDirect - 1) => (dir.size + 2) \div BlockSize <= NDirect - 1
      <4>1. dir.size + 2 \in Nat /\ (dir.size + 2) \div BlockSize \in Nat
        BY <1>4, Divide
      <4> QED BY <4>1, Sizes0
    <3>7. m2.file = NoFile
      BY <1>3, <1>5, <3>3
    <3>8. Safe(m2, Disk, pending')
      <4>1. CASE dbmap' = dm /\ pending' = created
        BY <3>1, <3>5, <3>7, <4>1
      <4>2. CASE /\ more # NoEntry
                 /\ ~(dir.size + 2 > MaxSize) /\ ~((dir.size + 2) \div BlockSize > NDirect - 1)
                 /\ Crosses(dir.size, 2)
                 /\ dir.direct[dir.size \div BlockSize] # Unset
                 /\ dbmap' = dm \cup {more}
                 /\ pending' = (made \o SpillEntry(cwd, dir, more, ino, name))
                                 \o UpdateBitmaps(ibmap', dbmap')
        <5>1. more \in Blocks \ (Mem.dbmap \cup {blk}) /\ more \in m2.dbmap /\ RoomIn(dir)
          BY <1>2, <3>1, <3>3, <3>4, <3>6, <4>2 DEF RoomIn
        <5> QED BY <3>3, <3>4, <3>5, <4>2, <5>1
      <4>3. CASE /\ ~(dir.size + 2 > MaxSize) /\ ~Crosses(dir.size, 2)
                 /\ dir.direct[dir.size \div BlockSize] # Unset
                 /\ pending' = AddEntry(made, cwd, dir, <<ino, name>>) \o UpdateBitmaps(ibmap', dbmap')
        BY <3>3, <3>4, <3>5, <3>6, <4>3 DEF Room
      <4> QED BY <1>5, <1>7, <4>1, <4>2, <4>3
    <3> QED BY <1>5, <2>1, <2>a, <3>8 DEF Begins
  <2> QED BY <2>2, <2>3
<1> QED BY <1>6, <1>7

LEMMA DataLine ==
  ASSUME NEW k \in Nat
  PROVE  LET seq == [j \in 1 .. k |-> Data] IN
         /\ seq \in Seq(Holdable) /\ Len(seq) = k /\ \A j \in 1 .. k : seq[j] \notin EntryNames
<1> DEFINE seq == [j \in 1 .. k |-> Data]
<1>1. seq \in [1 .. k -> Holdable]
  BY DEF Holdable
<1>2. seq \in Seq(Holdable) /\ Len(seq) = k
  BY <1>1
<1>3. \A j \in 1 .. k : seq[j] = Data
  OBVIOUS
<1> QED BY <1>2, <1>3, Names0

LEMMA WriteBegins ==
  ASSUME Orderly, NEW n \in Sizes, Write(n)
  PROVE  Begins
<1>a. PICK inode : inode = itable[file]
  OBVIOUS
<1>b. PICK size : size = inode.size
  OBVIOUS
<1>c. PICK blk : blk = GetFreeEntry(dbmap, NBlocks)
  OBVIOUS
<1>d. PICK fits : fits = BlockSize - (size % BlockSize)
  OBVIOUS
<1>e. PICK here : here = size \div BlockSize
  OBVIOUS
<1>f. PICK final : final = (size + n) \div BlockSize
  OBVIOUS
<1>1. /\ Ended(Mem, Disk) /\ lost = FALSE /\ pending = << >> /\ file # NoFile
      /\ UNCHANGED <<up, ibmap, cwd, file, diskVars, trouble>>
  <2>1. up /\ ~lost /\ pending = << >> /\ file # NoFile
          /\ UNCHANGED <<up, ibmap, cwd, file, diskVars, trouble>>
    BY DEF Write
  <2> QED BY <2>1, EndedUse DEF Orderly
<1>2. CASE file = NoEntry \/ itable[file] = Unset
  <2>1. lost' = TRUE /\ UNCHANGED <<dbmap, pending>>
    BY <1>2 DEF Write
  <2> QED BY <1>1, <2>1 DEF Begins
<1>3. CASE file # NoEntry /\ itable[file] # Unset
  <2>1. PICK V : Good(Mem, V, Disk) /\ file \in Written(V, Disk)
    BY <1>1, <1>3, CellIs DEF Ended, Good
  <2>2. /\ Disk \in DiskSet /\ Sound(V, Disk) /\ inode \in InodeSet /\ size \in Nat /\ size \in 0 .. MaxSize
        /\ dbmap \subseteq Blocks /\ file \in Inodes /\ inode = Disk.itable[file]
        /\ inode.direct \in [0 .. NDirect - 1 -> Blocks \cup {Unset}]
    <3>1. Disk \in DiskSet /\ Sound(V, Disk) /\ dbmap \subseteq Blocks /\ inode = Disk.itable[file]
      BY <2>1, <1>a, CellIs DEF Good, MemSet
    <3> QED BY <2>1, <3>1, <1>b, Held DEF InodeSet
  <2>3. n \in Nat /\ n > 0 /\ n <= BlockSize
    BY FileSystemAssumption
  <2>4. here \in Nat /\ size % BlockSize \in 0 .. BlockSize - 1 /\ fits \in 1 .. BlockSize
          /\ final \in Nat
    <3>1. here \in Nat /\ size % BlockSize \in 0 .. BlockSize - 1
      BY <2>2, <1>e, Divide
    <3>2. size + n \in Nat
      BY <2>2, <2>3
    <3>3. final \in Nat
      BY <3>2, <1>f, Divide
    <3> QED BY <3>1, <3>3, <1>d, Sizes0
  <2>5. /\ final <= NDirect - 1
        /\ \/ lost' = TRUE /\ UNCHANGED <<dbmap, pending>>
           \/ /\ inode.direct[here] # Unset /\ Crosses(size, n) /\ blk # NoEntry
              /\ dbmap' = Mark(dbmap, blk)
              /\ pending' =
                   <<WriteCells(inode.direct[here], file, size, [j \in 1 .. fits |-> Data]),
                     WriteCells(blk, file, size + fits, [j \in 1 .. n - fits |-> Data]),
                     UpdateInode(file, [inode EXCEPT !.direct[final] = blk])>>
                   \o UpdateBitmaps(ibmap, dbmap')
              /\ UNCHANGED lost
           \/ /\ inode.direct[here] # Unset /\ ~Crosses(size, n)
              /\ pending' =
                   <<WriteCells(inode.direct[here], file, size, [j \in 1 .. n |-> Data]),
                     UpdateInode(file, [inode EXCEPT !.size = @ + n])>>
                   \o UpdateBitmaps(ibmap, dbmap)
              /\ UNCHANGED <<dbmap, lost>>
    BY <1>3, <1>a, <1>b, <1>c, <1>d, <1>e, <1>f DEF Write
  <2>6. final \in 0 .. NDirect - 1 /\ size + n <= MaxSize
    <3>1. size + n \in Nat
      BY <2>2, <2>3
    <3>2. final \in 0 .. NDirect - 1
      BY <2>4, <2>5, Sizes0
    <3>3. size + n < MaxSize
      BY <3>1, <3>2, <1>f, InBlocks
    <3> QED BY <3>1, <3>2, <3>3, Sizes0
  <2>7. CASE lost' = TRUE /\ UNCHANGED <<dbmap, pending>>
    BY <1>1, <2>7 DEF Begins
  <2>8. CASE /\ inode.direct[here] # Unset /\ ~Crosses(size, n)
             /\ pending' =
                  <<WriteCells(inode.direct[here], file, size, [j \in 1 .. n |-> Data]),
                    UpdateInode(file, [inode EXCEPT !.size = @ + n])>>
                  \o UpdateBitmaps(ibmap, dbmap)
             /\ UNCHANGED <<dbmap, lost>>
    <3>a. PICK seq : seq = [j \in 1 .. n |-> Data]
      OBVIOUS
    <3>1. seq \in Seq(Holdable) /\ Len(seq) = n /\ Names2(seq, V)
      BY <2>3, <3>a, DataLine DEF Names2
    <3>2. (size % BlockSize) + n <= BlockSize
      BY <2>3, <2>4, <2>8, Sizes0 DEF Crosses
    <3>3. CanAppend(Mem, V, Disk, file, seq)
      BY <1>b, <1>e, <2>1, <2>2, <2>3, <2>6, <2>8, <3>1, <3>2 DEF CanAppend
    <3>4. pending' = AppendWrites(Mem, Disk, file, seq)
      BY <1>b, <1>e, <2>2, <2>8, <3>a, <3>1, CellIs DEF AppendWrites
    <3>5. Mem' = Mem
      BY <1>1, <2>8 DEF Mem
    <3>6. Safe(Mem', Disk, pending')
      BY <3>3, <3>4, <3>5, AppendSafe
    <3> QED BY <1>1, <2>8, <3>6 DEF Begins
  <2>9. CASE /\ inode.direct[here] # Unset /\ Crosses(size, n) /\ blk # NoEntry
             /\ dbmap' = Mark(dbmap, blk)
             /\ pending' =
                  <<WriteCells(inode.direct[here], file, size, [j \in 1 .. fits |-> Data]),
                    WriteCells(blk, file, size + fits, [j \in 1 .. n - fits |-> Data]),
                    UpdateInode(file, [inode EXCEPT !.direct[final] = blk])>>
                  \o UpdateBitmaps(ibmap, dbmap')
             /\ UNCHANGED lost
    <3>a. PICK seq : seq = [j \in 1 .. fits |-> Data]
      OBVIOUS
    <3>b. PICK rest : rest = [j \in 1 .. n - fits |-> Data]
      OBVIOUS
    <3>c. PICK new : new = [inode EXCEPT !.direct[final] = blk]
      OBVIOUS
    <3>d. PICK m2 : m2 = Mem'
      OBVIOUS
    <3>1. n > fits /\ n - fits \in Nat /\ n - fits <= BlockSize /\ fits \in Nat
      BY <1>d, <2>3, <2>4, <2>9, Sizes0 DEF Crosses
    <3>2. /\ seq \in Seq(Holdable) /\ Len(seq) = fits /\ \A j \in 1 .. fits : seq[j] \notin EntryNames
          /\ rest \in Seq(Holdable) /\ Len(rest) = n - fits /\ \A j \in 1 .. n - fits : rest[j] \notin EntryNames
      BY <3>1, <3>a, <3>b, DataLine
    <3>3. final = here + 1
      <4>1. (size % BlockSize) + n >= BlockSize
        BY <2>3, <2>4, <2>9, Sizes0 DEF Crosses
      <4> QED BY <2>2, <2>3, <4>1, <1>e, <1>f, Along
    <3>4. blk \in Blocks \ dbmap /\ dbmap' = dbmap \cup {blk} /\ dbmap' \subseteq Blocks
      <4>1. blk = NoEntry \/ blk \in Blocks \ dbmap
        BY <1>c, FreeEntry, Sizes0 DEF Blocks
      <4> QED BY <2>2, <2>9, <4>1 DEF Mark
    <3>5. m2.ibmap = ibmap /\ m2.dbmap = dbmap' /\ m2.cwd = Mem.cwd /\ m2.file = Mem.file
            /\ m2 \in MemSet
      BY <1>1, <2>1, <3>4, <3>d DEF Mem, MemSet, Good
    <3>6. Good(m2, V, Disk)
      <4>1. Marked(V, Disk, m2.ibmap, m2.dbmap)
        BY <2>1, <3>4, <3>5, MoreMarked, CellIs DEF Good
      <4> QED BY <2>1, <3>5, <4>1 DEF Good
    <3>7. /\ new \in InodeSet /\ new.size = size /\ new.direct = [inode.direct EXCEPT ![here + 1] = blk]
      <4>1. [inode.direct EXCEPT ![here + 1] = blk] \in [0 .. NDirect - 1 -> Blocks \cup {Unset}]
        BY <2>2, <3>4
      <4>2. new = [type |-> inode.type, size |-> size, direct |-> [inode.direct EXCEPT ![here + 1] = blk]]
        BY <1>b, <2>2, <3>3, <3>c DEF InodeSet
      <4> QED BY <2>2, <4>1, <4>2 DEF InodeSet
    <3>8. CanSpill(m2, V, Disk, file, seq, rest, blk, new)
      <4>1. \A j \in Written(V, Disk) : \A f \in 0 .. NDirect - 1 : Disk.itable[j].direct[f] # blk
        BY <2>1, <3>4, Names0, CellIs DEF Good, Marked
      <4>2. (size % BlockSize) + Len(seq) = BlockSize /\ Len(rest) <= BlockSize
        BY <1>d, <2>4, <3>1, <3>2, Sizes0
      <4>3. here + 1 \in 0 .. NDirect - 1
        BY <2>6, <3>3
      <4>4. new.size \in size .. size + Len(seq) + Len(rest)
        BY <2>2, <3>1, <3>2, <3>7
      <4>5. blk \in Blocks /\ blk \in m2.dbmap
        BY <3>4, <3>5
      <4> QED BY <1>b, <1>e, <2>1, <2>2, <2>9, <3>2, <3>6, <3>7, <4>1, <4>2, <4>3, <4>4, <4>5 DEF CanSpill
    <3>9. pending' = SpillWrites(m2, Disk, file, seq, rest, blk, new)
      BY <1>b, <1>e, <2>2, <2>9, <3>2, <3>5, <3>a, <3>b, <3>c DEF SpillWrites
    <3>10. Safe(m2, Disk, pending')
      BY <3>8, <3>9, SpillSafe
    <3> QED BY <1>1, <2>9, <3>10, <3>d DEF Begins
  <2> QED BY <2>5, <2>7, <2>8, <2>9
<1> QED BY <1>2, <1>3

LEMMA ReadsGarbageBegins ==
  ASSUME Orderly, ReadsGarbage
  PROVE  Begins
BY DEF ReadsGarbage, memVars, Begins

LEMMA OpenRootBegins ==
  ASSUME Orderly, OpenRoot
  PROVE  Begins
<1>1. PICK U : Use(Mem, U, Disk)
  BY ReadyIs DEF OpenRoot
<1>2. /\ pending = << >> /\ lost = FALSE /\ file' = Root
      /\ UNCHANGED <<up, ibmap, dbmap, cwd, diskVars, pending, lost>>
  BY ReadyIs DEF OpenRoot
<1>3. cwd' \in U /\ file' \in {NoFile, NoEntry} \cup U
  BY <1>1, <1>2, UseIs
<1>4. Safe(Mem', Disk, pending')
  BY <1>1, <1>2, <1>3, Moves
<1> QED BY <1>2, <1>4 DEF Begins

LEMMA CallInv ==
  ASSUME Orderly, Call, trouble' = {}
  PROVE  Orderly'
<1>1. up /\ ~lost /\ pending = << >>
  BY ReadyIs DEF Call, Mkdir, OpenNew, Link, Open, OpenRoot, Chdir, Write, Close, ReadsGarbage, AtPrompt
<1>2. Begins
  <2>1. ASSUME NEW name \in DirNames, Mkdir(name) PROVE Begins
    <3>1. name \in Names
      BY DEF Names
    <3> QED BY <2>1, <3>1, MkdirBegins
  <2>2. ASSUME NEW name \in FileNames, OpenNew(name) \/ \E to \in FileNames : Link(name, to) PROVE Begins
    <3>1. name \in Names
      BY DEF Names
    <3> QED BY <2>2, <3>1, OpenNewBegins, LinkBegins
  <2>3. ASSUME NEW name, NEW abs, Open(name, abs) PROVE Begins
    BY <2>3, OpenBegins
  <2>4. ASSUME NEW name, NEW abs, Chdir(name, abs) PROVE Begins
    BY <2>4, ChdirBegins
  <2>5. ASSUME NEW n \in Sizes, Write(n) PROVE Begins
    BY <2>5, WriteBegins
  <2>6. ASSUME Close PROVE Begins
    BY <2>6, CloseBegins
  <2>7. ASSUME OpenRoot \/ ReadsGarbage PROVE Begins
    BY <2>7, OpenRootBegins, ReadsGarbageBegins
  <2> QED BY <2>1, <2>2, <2>3, <2>4, <2>5, <2>6, <2>7 DEF Call
<1> QED BY <1>1, <1>2, BeginsInv

----------------------------------------------------------------------------
(* What can be found from the root is within any set of inodes that is in  *)
(* order.  Each round of Found adds an inode or finds no more. *)
LEMMA ReadableIs ==
  ASSUME NEW U, Disk \in DiskSet, Sound(U, Disk), NEW i \in Written(U, Disk)
  PROVE  Readable(i)
BY Held, CellIs DEF Readable

LEMMA NamedIs ==
  ASSUME NEW U, Disk \in DiskSet, Sound(U, Disk), NEW i \in U
  PROVE  Named(i) \subseteq U
<1>1. CASE ~Readable(i)
  BY <1>1 DEF Named
<1>2. CASE Readable(i)
  <2>1. i \in Written(U, Disk)
    BY <1>2, CellIs DEF Written, Readable
  <2>2. \A n \in EntriesOf(itable[i]) : Cell(itable[i], 2 * n).holds \in U
    BY <2>1, EntriesIs, CellIs
  <2> QED BY <1>2, <2>2 DEF Named
<1> QED BY <1>1, <1>2

More(F) == F \cup UNION {Named(i) : i \in F}

LEMMA FoundIs ==
  \A k \in 0 .. NInodes : Found[k] = IF k = 0 THEN {Root} ELSE More(Found[k - 1])
<1>1. PICK n \in Nat : n = NInodes
  BY Sizes0
<1> DEFINE Is(w, m) == w = [k \in 0 .. m |-> IF k = 0 THEN {Root} ELSE More(w[k - 1])]
           Bad == {m \in 0 .. n : ~\E w : Is(w, m)}
<1>2. \E w : Is(w, n)
  <2> SUFFICES ASSUME Bad # {} PROVE FALSE
    <3>1. n \in 0 .. n
      OBVIOUS
    <3> QED BY <3>1
  <2>1. Bad \subseteq Nat
    OBVIOUS
  <2>2. PICK m \in Bad : \A y \in Bad : m <= y
    <3> HIDE DEF Bad
    <3> QED BY <2>1, LeastElement
  <2>3. m \in 0 .. n /\ ~\E w : Is(w, m)
    BY <2>2
  <2>4. m # 0
    <3>1. Is([k \in 0 .. 0 |-> {Root}], 0)
      OBVIOUS
    <3> QED BY <3>1, <2>3
  <2>5. m - 1 \notin Bad
    <3>1. m \in Nat /\ m - 1 \in Int /\ ~(m <= m - 1)
      BY <2>3
    <3> HIDE DEF Bad
    <3> QED BY <2>2, <3>1
  <2>6. PICK w : Is(w, m - 1)
    <3>1. m - 1 \in 0 .. n
      BY <2>3, <2>4
    <3> QED BY <3>1, <2>5
  <2> DEFINE v == [k \in 0 .. m |-> IF k = 0 THEN {Root} ELSE More(w[k - 1])]
  <2>7. \A k \in 0 .. m : k # 0 => k - 1 \in 0 .. m - 1 /\ k - 1 \in 0 .. m
    BY <2>3
  <2>8. \A k \in 0 .. m - 1 : v[k] = w[k]
    <3>1. \A k \in 0 .. m - 1 : k \in 0 .. m
      BY <2>3
    <3> QED BY <3>1, <2>6
  <2>9. Is(v, m)
    <3>1. \A k \in 0 .. m : k # 0 => v[k - 1] = w[k - 1]
      BY <2>7, <2>8
    <3>2. v = [k \in 0 .. m |-> IF k = 0 THEN {Root} ELSE More(v[k - 1])]
      BY <3>1
    <3> QED BY <3>2
  <2> QED BY <2>3, <2>9
<1>3. Found = CHOOSE w : Is(w, n)
  BY <1>1 DEF Found, More
<1>4. Is(Found, n)
  <2> HIDE DEF Is
  <2> QED BY <1>2, <1>3
<1>5. PICK w : w = Found /\ w = [k \in 0 .. n |-> IF k = 0 THEN {Root} ELSE More(w[k - 1])]
  BY <1>4
<1>6. \A k \in 0 .. n : w[k] = IF k = 0 THEN {Root} ELSE More(w[k - 1])
  BY <1>5
<1> QED BY <1>1, <1>5, <1>6

LEMMA ReachIs ==
  ASSUME NEW U, Disk \in DiskSet, Sound(U, Disk)
  PROVE  Reach \subseteq U /\ Root \in Reach /\ \A i \in Reach : Named(i) \subseteq Reach
<1>1. PICK n \in Nat : n = NInodes
  BY Sizes0
<1>2. \A k \in 0 .. n : Found[k] = IF k = 0 THEN {Root} ELSE More(Found[k - 1])
  BY <1>1, FoundIs
<1>3. U \subseteq Inodes /\ Root \in U
  BY Table0 DEF Sound
<1>4. IsFiniteSet(Inodes) /\ Cardinality(Inodes) = n
  <2>1. 0 \in Int /\ n - 1 \in Int /\ ~(0 > n - 1) /\ n - 1 - 0 + 1 = n
    BY <1>1, Sizes0
  <2> QED BY <1>1, <2>1, FS_Interval DEF Inodes
<1>5. ASSUME NEW F, F \subseteq U
      PROVE  /\ More(F) \subseteq U /\ F \subseteq More(F)
             /\ IsFiniteSet(F) /\ Cardinality(F) \in Nat /\ Cardinality(F) <= n
             /\ F # More(F) => Cardinality(F) < Cardinality(More(F))
  <2>1. More(F) \subseteq U /\ F \subseteq More(F)
    <3>1. \A i \in F : Named(i) \subseteq U
      BY <1>5, NamedIs
    <3> QED BY <1>5, <3>1 DEF More
  <2>2. F \in SUBSET Inodes /\ More(F) \in SUBSET Inodes
    BY <1>3, <1>5, <2>1
  <2>3. IsFiniteSet(F) /\ IsFiniteSet(More(F)) /\ Cardinality(F) <= n
    BY <1>4, <2>2, FS_Subset
  <2>4. Cardinality(F) \in Nat /\ Cardinality(More(F)) \in Nat
    BY <2>3, FS_CardinalityType
  <2>5. Cardinality(F) <= Cardinality(More(F)) /\ (Cardinality(More(F)) = Cardinality(F) => More(F) = F)
    <3>1. F \in SUBSET More(F)
      BY <2>1
    <3> QED BY <2>3, <3>1, FS_Subset
  <2> QED BY <2>1, <2>3, <2>4, <2>5
<1> DEFINE Fits(k) == /\ Found[k] \subseteq U /\ Root \in Found[k]
                      /\ Cardinality(Found[k]) >= k + 1 \/ More(Found[k]) = Found[k]
           Bad == {k \in 0 .. n : ~Fits(k)}
<1>6. Bad = {}
  <2> SUFFICES ASSUME Bad # {} PROVE FALSE
    OBVIOUS
  <2>1. Bad \subseteq Nat
    OBVIOUS
  <2>2. PICK k \in Bad : \A y \in Bad : k <= y
    <3> HIDE DEF Bad
    <3> QED BY <2>1, LeastElement
  <2>3. k \in 0 .. n /\ ~Fits(k)
    BY <2>2
  <2>4. k # 0
    <3>1. Found[0] = {Root} /\ Cardinality({Root}) = 1
      <4>1. 0 \in 0 .. n
        OBVIOUS
      <4> QED BY <1>2, <4>1, FS_Singleton
    <3>2. Fits(0)
      BY <1>3, <3>1
    <3> QED BY <2>3, <3>2
  <2>5. k - 1 \in 0 .. n /\ Fits(k - 1)
    <3>1. k - 1 \in 0 .. n /\ ~(k <= k - 1)
      BY <2>3, <2>4
    <3>2. k - 1 \notin Bad
      <4> HIDE DEF Bad
      <4> QED BY <2>2, <3>1
    <3> QED BY <3>1, <3>2
  <2>6. PICK F : F = Found[k - 1]
    OBVIOUS
  <2>7. Found[k] = More(F)
    BY <1>2, <2>3, <2>4, <2>6
  <2>8. F \subseteq U /\ Root \in F /\ (Cardinality(F) >= k \/ More(F) = F)
    <3>1. Cardinality(F) >= (k - 1) + 1 \/ More(F) = F
      BY <2>5, <2>6
    <3>2. (k - 1) + 1 = k
      BY <2>3
    <3> QED BY <2>5, <2>6, <3>1, <3>2
  <2>9. Found[k] \subseteq U /\ Root \in Found[k]
    BY <1>5, <2>7, <2>8
  <2>10. CASE More(F) = F
    BY <2>3, <2>7, <2>9, <2>10
  <2>11. CASE More(F) # F
    <3>1. Cardinality(F) \in Nat /\ Cardinality(F) >= k /\ Cardinality(F) < Cardinality(More(F))
      BY <1>5, <2>8, <2>11
    <3>2. Cardinality(More(F)) \in Nat
      BY <1>5, <2>8
    <3>3. Cardinality(More(F)) >= k + 1
      BY <2>3, <3>1, <3>2
    <3> QED BY <2>3, <2>7, <2>9, <3>3
  <2> QED BY <2>10, <2>11
<1>7. Fits(n)
  <2>1. n \in 0 .. n
    OBVIOUS
  <2> QED BY <1>6, <2>1
<1>8. Reach = Found[n]
  BY <1>1 DEF Reach
<1>9. More(Reach) = Reach
  <2>1. Cardinality(Reach) \in Nat /\ Cardinality(Reach) <= n
    BY <1>5, <1>7, <1>8
  <2>2. ~(Cardinality(Reach) >= n + 1)
    BY <2>1
  <2> QED BY <1>7, <1>8, <2>2
<1> QED BY <1>7, <1>8, <1>9 DEF More

(* What holds the root and all that its elements name holds all that can   *)
(* be found. *)
LEMMA ReachWithin ==
  ASSUME NEW T, Root \in T, \A i \in T : Named(i) \subseteq T
  PROVE  Reach \subseteq T /\ Root \in Reach
<1>1. PICK n \in Nat : n = NInodes
  BY Sizes0
<1>2. \A k \in 0 .. n : Found[k] = IF k = 0 THEN {Root} ELSE More(Found[k - 1])
  BY <1>1, FoundIs
<1> DEFINE Fits(k) == Found[k] \subseteq T /\ Root \in Found[k]
           Bad == {k \in 0 .. n : ~Fits(k)}
<1>3. Bad = {}
  <2> SUFFICES ASSUME Bad # {} PROVE FALSE
    OBVIOUS
  <2>1. Bad \subseteq Nat
    OBVIOUS
  <2>2. PICK k \in Bad : \A y \in Bad : k <= y
    <3> HIDE DEF Bad
    <3> QED BY <2>1, LeastElement
  <2>3. k \in 0 .. n /\ ~Fits(k)
    BY <2>2
  <2>4. k # 0
    <3>1. Found[0] = {Root}
      <4>1. 0 \in 0 .. n
        OBVIOUS
      <4> QED BY <1>2, <4>1
    <3>2. Fits(0)
      BY <3>1
    <3> QED BY <2>3, <3>2
  <2>5. Fits(k - 1)
    <3>1. k - 1 \in 0 .. n /\ ~(k <= k - 1)
      BY <2>3, <2>4
    <3>2. k - 1 \notin Bad
      <4> HIDE DEF Bad
      <4> QED BY <2>2, <3>1
    <3> QED BY <3>1, <3>2
  <2>6. PICK F : F = Found[k - 1]
    OBVIOUS
  <2>7. Found[k] = More(F)
    BY <1>2, <2>3, <2>4, <2>6
  <2>8. F \subseteq T /\ Root \in F
    BY <2>5, <2>6
  <2>9. Found[k] \subseteq T /\ Root \in Found[k]
    BY <2>7, <2>8 DEF More
  <2> QED BY <2>3, <2>9
<1>4. Fits(n)
  <2>1. n \in 0 .. n
    OBVIOUS
  <2> QED BY <1>3, <2>1
<1> QED BY <1>1, <1>4 DEF Reach

(* So what can be found is itself in order.                                *)
LEMMA ReachSound ==
  ASSUME NEW U, Disk \in DiskSet, Sound(U, Disk)
  PROVE  Sound(Reach, Disk)
<1>1. Reach \subseteq U /\ Root \in Reach /\ \A i \in Reach : Named(i) \subseteq Reach
  BY ReachIs
<1>2. Written(Reach, Disk) \subseteq Written(U, Disk) /\ Written(Reach, Disk) \subseteq Reach
  BY <1>1 DEF Written
<1>3. ASSUME Written(Reach, Disk) # Reach PROVE Reach = {Root}
  <2>1. Written(U, Disk) # U
    BY <1>1, <1>3 DEF Written
  <2> QED BY <1>1, <2>1 DEF Sound
<1>4. Closed(Reach, Disk)
  <2> SUFFICES ASSUME NEW i \in Written(Reach, Disk), NEW n \in 0 .. Disk.itable[i].size \div 2 - 1,
                      CellAt(Disk, Disk.itable[i], 2 * n + 1).holds \in EntryNames
               PROVE  CellAt(Disk, Disk.itable[i], 2 * n).holds \in Reach
    BY DEF Closed
  <2>1. n \in EntriesOf(itable[i])
    BY CellIs DEF EntriesOf, EntryNames
  <2>2. Readable(i) /\ i \in Reach
    BY <1>2, ReadableIs
  <2>3. Cell(itable[i], 2 * n).holds \in Named(i)
    BY <2>1, <2>2 DEF Named
  <2> QED BY <1>1, <2>2, <2>3, CellIs
<1>5. Apart(Reach, Disk)
  BY <1>2 DEF Apart, Sound
<1> QED BY <1>1, <1>2, <1>3, <1>4, <1>5 DEF Sound

LEMMA ReachMarked ==
  ASSUME NEW U, Disk \in DiskSet, Sound(U, Disk), NEW im, NEW dm
  PROVE  /\ MarkedIn(im, dm) => Marked(Reach, Disk, im, dm)
         /\ Marked(U, Disk, im, dm) => MarkedIn(im, dm)
<1>1. Reach \subseteq U /\ Reach \subseteq Inodes
  BY ReachIs, Table0 DEF Sound
<1>2. \A i \in Inodes : itable[i] # Unset => BlocksOf(i) = {itable[i].direct[e] : e \in 0 .. NDirect - 1} \ {Unset}
  BY DEF BlocksOf
<1>3. \A i : itable[i] = Unset => BlocksOf(i) = {}
  BY DEF BlocksOf
<1>4. ASSUME MarkedIn(im, dm) PROVE Marked(Reach, Disk, im, dm)
  <2>1. \A i \in Reach : i \in im /\ BlocksOf(i) \subseteq dm
    BY <1>4 DEF MarkedIn
  <2>2. ASSUME NEW i \in Written(Reach, Disk), NEW e \in 0 .. NDirect - 1
        PROVE  Disk.itable[i].direct[e] \in dm \cup {Unset}
    <3>1. i \in Reach /\ itable[i] # Unset
      BY CellIs DEF Written
    <3>2. itable[i].direct[e] \in BlocksOf(i) \cup {Unset}
      BY <1>1, <1>2, <3>1
    <3> QED BY <2>1, <3>1, <3>2, CellIs
  <2> QED BY <2>1, <2>2 DEF Marked
<1>5. ASSUME Marked(U, Disk, im, dm) PROVE MarkedIn(im, dm)
  <2> SUFFICES ASSUME NEW i \in Reach PROVE i \in im /\ BlocksOf(i) \subseteq dm
    BY DEF MarkedIn
  <2>1. i \in im
    BY <1>1, <1>5 DEF Marked
  <2>2. ASSUME itable[i] # Unset PROVE BlocksOf(i) \subseteq dm
    <3>1. i \in Written(U, Disk)
      BY <1>1, <2>2, CellIs DEF Written
    <3>2. \A e \in 0 .. NDirect - 1 : itable[i].direct[e] \in dm \cup {Unset}
      BY <1>5, <3>1, CellIs DEF Marked
    <3> QED BY <1>1, <1>2, <2>2, <3>2
  <2> QED BY <1>3, <2>1, <2>2
<1> QED BY <1>4, <1>5

(* In fs_mkfs, before the root's entries are written, only the root is     *)
(* found, and its block is not marked.                                     *)
LEMMA First ==
  ASSUME NEW q \in 0 .. BlockSize - 1
  PROVE  q \div BlockSize = 0 /\ q % BlockSize = q
<1> DEFINE a == q \div BlockSize
           r == q % BlockSize
<1>1. q \in Nat /\ 0 \in Nat
  BY Sizes0
<1>2. a \in Nat /\ r \in 0 .. BlockSize - 1 /\ q = (BlockSize * a) + r
  BY <1>1, Divide
<1>3. BlockSize * a + r = BlockSize * 0 + q
  BY <1>1, <1>2, Sizes0
<1> HIDE DEF a, r
<1>4. a = 0 /\ r = q
  BY <1>1, <1>2, <1>3, Quotient
<1> QED BY <1>4 DEF a, r

LEMMA BlankIs ==
  ASSUME Blank(Disk)
  PROVE  Reach = {Root} /\ ~MarkedIn(ibmapD, dbmapD)
<1>1. PICK b \in Blocks : itable = [i \in Inodes |-> IF i = Root THEN NewInode("dir", 4, b) ELSE Unset]
  BY CellIs DEF Blank
<1>a. PICK new : new = NewInode("dir", 4, b)
  OBVIOUS
<1>2. itable[Root] = new
  BY <1>1, <1>a, Sizes0
<1>3. new # Unset /\ new.size = 4 /\ new.direct[0] = b
  BY <1>a, NewInodeIs
<1>4. EntriesOf(new) = {}
  <2> SUFFICES ASSUME NEW n \in 0 .. new.size \div 2 - 1, Cell(new, 2 * n + 1).holds \in EntryNames
               PROVE  FALSE
    BY DEF EntriesOf, EntryNames
  <2>1. PICK q \in 0 .. 3 : q = 2 * n + 1
    BY <1>3
  <2>2. q \in 0 .. BlockSize - 1
    BY Sizes0
  <2>3. Cell(new, q) = cells[b][q]
    BY <1>3, <2>2, First DEF Cell
  <2>4. cells[b][q] = NoCell
    <3>1. cells = [c \in Blocks |-> [o \in 0 .. BlockSize - 1 |-> NoCell]]
      BY CellIs DEF Blank, EmptyDisk
    <3> QED BY <2>2, <3>1
  <2>5. Unset \in EntryNames
    BY <2>1, <2>3, <2>4 DEF NoCell
  <2> QED BY <2>5, Names0
<1>5. Named(Root) = {}
  BY <1>2, <1>3, <1>4 DEF Named
<1>6. Reach = {Root}
  BY <1>5, ReachWithin
<1>7. b \in BlocksOf(Root)
  <2>1. 0 \in 0 .. NDirect - 1 /\ b # Unset
    BY Sizes0, Names0
  <2> QED BY <1>2, <1>3, <2>1, Sizes0 DEF BlocksOf
<1>8. dbmapD = {}
  BY CellIs DEF Blank
<1> QED BY <1>6, <1>7, <1>8 DEF MarkedIn

----------------------------------------------------------------------------
(* A stop, whenever it comes.                                              *)
LEMMA StopInv ==
  ASSUME Orderly, up, lost = FALSE, Stop, trouble' = trouble \cup Unsaved, trouble' = {},
         UNCHANGED <<diskVars, lost>>
  PROVE  Orderly'
<1>1. Safe(Mem, Disk, pending) /\ (~magic => Disk = EmptyDisk) /\ magic \in BOOLEAN
  BY DEF Orderly
<1>2. Fine(Disk)
  BY <1>1, SafeNow
<1>3. ASSUME DiskMarksUse PROVE Restartable
  <2>1. CASE ~magic
    BY <1>1, <2>1 DEF Restartable
  <2>2. CASE magic
    <3>1. MarkedIn(ibmapD, dbmapD)
      BY <1>3, <2>2 DEF DiskMarksUse
    <3>2. PICK U : Sound(U, Disk)
      BY <1>2, <3>1, BlankIs DEF Fine
    <3>3. Disk \in DiskSet
      BY <1>2 DEF Fine
    <3>4. Sound(Reach, Disk) /\ Marked(Reach, Disk, ibmapD, dbmapD)
      BY <3>1, <3>2, <3>3, ReachSound, ReachMarked
    <3> QED BY <2>2, <3>4 DEF Restartable
  <2> QED BY <2>1, <2>2
<1>4. Disk' = Disk /\ magic' = magic /\ ibmapD' = ibmapD /\ dbmapD' = dbmapD /\ itable' = itable
  BY DEF Disk, diskVars
<1>5. Restartable'
  <2>1. DiskMarksUse
    BY DEF Unsaved
  <2> QED BY <1>3, <1>4, <2>1 DEF Restartable
<1>6. /\ up' = FALSE /\ pending' = << >> /\ lost' = FALSE
      /\ Mem' = [ibmap |-> {}, dbmap |-> {}, cwd |-> Root, file |-> NoFile]
  BY DEF Stop, Mem
<1> QED BY <1>1, <1>2, <1>4, <1>5, <1>6 DEF Orderly

LEMMA CrashInv ==
  ASSUME Orderly, Crash, trouble' = {}
  PROVE  Orderly'
<1>1. lost = FALSE
  BY DEF Orderly, Crash
<1> QED BY <1>1, StopInv DEF Crash

(* A block is written where the calls mean it to be, while no inode lies   *)
(* in the data blocks. *)
LEMMA ModifiedIs ==
  ASSUME NEW w \in WriteSet, Disk \in DiskSet, Modified(w), \A i \in Spilled : itable[i] = Unset
  PROVE  Disk' = Apply(Disk, w) /\ \A i \in Spilled : itable'[i] = Unset
<1>1. /\ w.kind \in {"assert", "super", "ibmap", "dbmap", "inode", "data"}
      /\ w.kind = "data" => w.blk \in Blocks
      /\ w.kind = "inode" => w.ino \in Table
  <2>1. w.kind \in {"assert", "super", "ibmap", "dbmap", "inode", "data"}
    BY ApplyIs
  <2> QED BY <2>1 DEF WriteSet, DataSet
<1>2. itable \in [Inodes -> InodeSet \cup {Unset}] /\ Spilled \subseteq Inodes
  BY CellIs, FileSystemAssumption DEF DiskSet
<1>3. /\ ibmapD' = IF w.kind = "ibmap" THEN w.bits ELSE ibmapD
      /\ dbmapD' = IF w.kind = "dbmap" THEN w.bits ELSE dbmapD
  BY DEF Modified
<1>4. itable' = IF w.kind = "inode" THEN [itable EXCEPT ![w.ino] = w.inode] ELSE itable
  <2>1. CASE w.kind = "inode"
    BY <2>1 DEF Modified
  <2>2. CASE w.kind = "data"
    <3>1. itable' = [i \in Inodes |-> IF i \in Buried(w) THEN Unset ELSE itable[i]]
      BY <2>2 DEF Modified
    <3>2. w.blk # NoEntry
      BY <1>1, <2>2, NoEntry0
    <3>3. Buried(w) \subseteq Spilled
      BY <3>2 DEF Buried
    <3>4. \A i \in Inodes : itable'[i] = itable[i]
      BY <3>1, <3>3
    <3>5. itable' = itable
      BY <1>2, <3>1, <3>4
    <3> QED BY <2>2, <3>5
  <2>3. CASE w.kind \notin {"inode", "data"}
    BY <2>3 DEF Modified
  <2> QED BY <2>1, <2>2, <2>3
<1>5. cells' = IF w.kind = "data"
                 THEN [cells EXCEPT ![w.blk] = [o \in DOMAIN @ |->
                         IF o - w.from + 1 \in DOMAIN w.cells
                           THEN w.cells[o - w.from + 1] ELSE @[o]]]
                 ELSE cells
  <2>1. CASE w.kind = "data"
    BY <1>1, <2>1 DEF Modified
  <2>2. CASE w.kind # "data"
    <3>1. ~(w.kind = "inode" /\ w.ino \in Spilled)
      BY <1>1 DEF Table
    <3> QED BY <2>2, <3>1 DEF Modified
  <2> QED BY <2>1, <2>2
<1>6. Disk' = Apply(Disk, w)
  BY <1>3, <1>4, <1>5 DEF Disk, Apply
<1>7. \A i \in Spilled : itable'[i] = Unset
  BY <1>1, <1>2, <1>4 DEF Table
<1> QED BY <1>6, <1>7

LEMMA WriteBlockInv ==
  ASSUME Orderly, WriteBlock, trouble' = {}
  PROVE  Orderly'
<1>a. PICK w : w = Head(pending)
  OBVIOUS
<1>1. up /\ pending # << >> /\ lost = FALSE /\ UNCHANGED lost
  BY DEF Orderly, WriteBlock
<1>2. Safe(Mem, Disk, pending) /\ magic \in BOOLEAN /\ (~magic => w.kind = "super")
  BY <1>1, <1>a DEF Orderly
<1>3. CASE w.kind = "assert"
  <2>1. Stop /\ trouble' = trouble \cup Unsaved /\ UNCHANGED diskVars
    BY <1>3, <1>a DEF WriteBlock
  <2> QED BY <1>1, <2>1, StopInv
<1>4. CASE w.kind # "assert"
  <2>1. pending' = Tail(pending) /\ UNCHANGED memVars /\ Modified(w)
    <3>1. pending' = Tail(pending) /\ UNCHANGED memVars /\ (Modified(w) \/ NotModified)
      BY <1>4, <1>a DEF WriteBlock
    <3>2. ~NotModified
      BY DEF NotModified
    <3> QED BY <3>1, <3>2
  <2>w. w \in WriteSet /\ Disk \in DiskSet
    <3>1. pending \in Seq(WriteSet) /\ Disk \in DiskSet
      BY <1>2, SafeNow DEF Fine, Safe
    <3> QED BY <1>1, <1>a, <3>1
  <2>u. \A i \in Spilled : itable[i] = Unset
    BY DEF Orderly
  <2>2. Disk' = Apply(Disk, w) /\ \A i \in Spilled : itable'[i] = Unset
    BY <2>1, <2>w, <2>u, ModifiedIs
  <2>3. Mem' = Mem /\ up' = up
    BY <2>1 DEF Mem, memVars
  <2>4. Safe(Mem, Apply(Disk, w), Tail(pending))
    BY <1>1, <1>2, <1>4, <1>a, SafeTail
  <2>5. Safe(Mem', Disk', pending')
    BY <2>1, <2>2, <2>3, <2>4
  <2>6. magic' = TRUE
    BY <1>2, <2>1 DEF Modified
  <2> QED BY <1>1, <1>2, <2>2, <2>3, <2>5, <2>6 DEF Orderly
<1> QED BY <1>3, <1>4

----------------------------------------------------------------------------
(* Before fs_mkfs has written anything the disk is in order: the root is   *)
(* not written, nothing else can be found.                                 *)
LEMMA UnwrittenIs ==
  ASSUME NEW d \in DiskSet, d.itable[Root] = Unset
  PROVE  Sound({Root}, d) /\ Fine(d)
<1>1. Written({Root}, d) = {}
  BY DEF Written
<1>2. Sound({Root}, d)
  BY <1>1, Table0 DEF Sound, Apart, Closed
<1> QED BY <1>2 DEF Fine

LEMMA EmptyIs == EmptyDisk \in DiskSet /\ EmptyDisk.itable[Root] = Unset
<1>1. NoCell \in CellSet
  BY DEF NoCell, CellSet, Holdable
<1> QED BY <1>1, Sizes0 DEF EmptyDisk, DiskSet

LEMMA InitInv ==
  ASSUME Init
  PROVE  Orderly
<1>1. Disk = EmptyDisk /\ Mem = [ibmap |-> {}, dbmap |-> {}, cwd |-> Root, file |-> NoFile]
  BY DEF Init, Disk, Mem, EmptyDisk, NoCell
<1>2. Fine(Disk)
  BY <1>1, EmptyIs, UnwrittenIs
<1>3. \A i \in Spilled : itable[i] = Unset
  BY FileSystemAssumption DEF Init
<1> QED BY <1>1, <1>2, <1>3 DEF Init, Orderly, Restartable

(* fs_mkfs, from the last write to the first.                              *)
LEMMA MkfsRoot ==
  ASSUME NEW d \in DiskSet, d.itable = EmptyDisk.itable, d.cells = EmptyDisk.cells, d.dbmap = {},
         NEW blk \in Blocks, NEW m, m = [ibmap |-> {Root}, dbmap |-> {blk}, cwd |-> Root, file |-> NoFile]
  PROVE  LET w == DirWrites(Root, blk, Root) IN
         /\ w[1] \in WriteSet /\ w[2] \in WriteSet /\ Fine(d) /\ Fine(Apply(d, w[1]))
         /\ Ended(m, Apply(Apply(d, w[1]), w[2]))
<1>a. PICK new : new = NewInode("dir", 4, blk)
  OBVIOUS
<1>b. PICK c : c = Apply(d, UpdateInode(Root, new))
  OBVIOUS
<1>c. PICK w : w = WriteCells(blk, Root, 0, <<Root, Dot, Root, DotDot>>)
  OBVIOUS
<1>d. PICK e : e = Apply(c, w)
  OBVIOUS
<1>1. /\ new \in InodeSet /\ new # Unset /\ new.size = 4
      /\ \A f \in 0 .. NDirect - 1 : new.direct[f] = IF f = 0 THEN blk ELSE Unset
  BY <1>a, NewInodeIs
<1>2. Root \in Inodes /\ Root \in Table /\ blk # Unset
  BY Sizes0, Table0, Names0
<1>3. UpdateInode(Root, new) \in WriteSet /\ UpdateInode(Root, new).kind = "inode"
  BY <1>1, <1>2, WritesOf
<1>4. /\ c \in DiskSet /\ c.cells = EmptyDisk.cells /\ c.dbmap = {}
      /\ c.itable = [d.itable EXCEPT ![Root] = new]
  <2>1. c.itable = [d.itable EXCEPT ![Root] = new]
    <3>1. c = [d EXCEPT !.itable = [d.itable EXCEPT ![Root] = new]]
      BY <1>1, <1>2, <1>b, WritesOf
    <3> QED BY <3>1 DEF DiskSet
  <2> QED BY <1>3, <1>b, <2>1, ApplyIs
<1>5. c.itable = [i \in Inodes |-> IF i = Root THEN new ELSE Unset]
  BY <1>4 DEF EmptyDisk
<1>6. Fine(c)
  BY <1>4, <1>5, <1>a DEF Fine, Blank
<1>7. Fine(d)
  BY EmptyIs, UnwrittenIs
<1>8. /\ w \in DataSet /\ w \in WriteSet /\ w.blk = blk
      /\ e \in DiskSet /\ e.itable = c.itable
      /\ InPlace(e, Root)
      /\ \A n \in 0 .. e.itable[Root].size \div 2 - 1 : CellAt(e, e.itable[Root], 2 * n).holds \in {Root}
  <2>1. Root \in {Root} /\ c.itable[Root] = NewInode("dir", 4, blk)
    BY <1>2, <1>5, <1>a
  <2>2. HasEntries(c, WriteCells(blk, Root, 0, <<Root, Dot, Root, DotDot>>), blk, Root, {Root})
    BY <1>2, <1>4, <2>1, DirThere
  <2> QED BY <1>c, <1>d, <2>2 DEF HasEntries
<1>9. e.itable[Root] = new /\ Written({Root}, e) = {Root}
  BY <1>1, <1>2, <1>5, <1>8 DEF Written
<1>10. Apart({Root}, e)
  BY <1>1, <1>9 DEF Apart
<1>11. Closed({Root}, e)
  BY <1>8, <1>9 DEF Closed
<1>12. Sound({Root}, e)
  BY <1>2, <1>8, <1>9, <1>10, <1>11 DEF Sound
<1>13. Marked({Root}, e, {Root}, {blk})
  BY <1>1, <1>9 DEF Marked
<1>14. e.dbmap = {}
  BY <1>4, <1>8, <1>d, ApplyIs DEF DataSet
<1>15. m \in MemSet
  <2>1. Root \in Int /\ NoFile \in Int
    BY DEF Root, NoFile
  <2> QED BY <1>2, <2>1 DEF MemSet
<1>16. Ended(m, e)
  BY <1>8, <1>12, <1>13, <1>14, <1>15 DEF Ended
<1>17. DirWrites(Root, blk, Root)[1] = UpdateInode(Root, new) /\ DirWrites(Root, blk, Root)[2] = w
  BY <1>a, <1>c DEF DirWrites
<1> QED BY <1>3, <1>6, <1>7, <1>8, <1>16, <1>17, <1>b, <1>d

LEMMA MkfsSafe ==
  ASSUME NEW blk \in Blocks, NEW m,
         m = [ibmap |-> {Root}, dbmap |-> {blk}, cwd |-> Root, file |-> NoFile]
  PROVE  Safe(m, EmptyDisk, <<[kind |-> "super"], UpdateInode(Root, Unset)>>
                              \o UpdateBitmaps({Root}, {}) \o DirWrites(Root, blk, Root))
<1>a. PICK u : u = [kind |-> "super"]
  OBVIOUS
<1>b. PICK v : v = UpdateInode(Root, Unset)
  OBVIOUS
<1>c. PICK a : a = [kind |-> "ibmap", bits |-> {Root}]
  OBVIOUS
<1>d. PICK b : b = [kind |-> "dbmap", bits |-> {}]
  OBVIOUS
<1>e. PICK w : w = DirWrites(Root, blk, Root)
  OBVIOUS
<1>1. u \in WriteSet /\ v \in WriteSet /\ a \in WriteSet /\ b \in WriteSet
  BY <1>a, <1>b, <1>c, <1>d, Sizes0, Table0, WritesOf DEF WriteSet
<1>2. u.kind = "super" /\ v.kind = "inode" /\ a.kind = "ibmap" /\ b.kind = "dbmap" /\ b.bits = {}
  BY <1>a, <1>b, <1>c, <1>d DEF UpdateInode
<1> DEFINE Empty(d) == /\ d \in DiskSet /\ d.itable = EmptyDisk.itable /\ d.cells = EmptyDisk.cells
                       /\ d.dbmap = {}
<1>3. ASSUME NEW d, Empty(d) PROVE Fine(d)
  BY <1>3, EmptyIs, UnwrittenIs
<1>4. ASSUME NEW d, Empty(d), NEW x \in {u, v, a, b} PROVE Empty(Apply(d, x))
  <2>0. d \in DiskSet /\ x \in WriteSet /\ x.kind # "data" /\ (x # v => x.kind # "inode")
    BY <1>1, <1>2, <1>4
  <2>1. Apply(d, x) \in DiskSet /\ Apply(d, x).cells = EmptyDisk.cells
    BY <1>4, <2>0, ApplyIs
  <2>2. Apply(d, x).dbmap = {}
    BY <1>1, <1>2, <1>4, ApplyIs DEF Apply
  <2>3. Apply(d, x).itable = EmptyDisk.itable
    <3>1. CASE x # v
      BY <1>4, <2>0, <3>1, ApplyIs
    <3>2. CASE x = v
      <4>1. Apply(d, v) = [d EXCEPT !.itable = [d.itable EXCEPT ![Root] = Unset]]
        BY <1>4, <1>b, Table0, WritesOf
      <4>2. Apply(d, v).itable = [d.itable EXCEPT ![Root] = Unset]
        BY <4>1, <1>4 DEF DiskSet
      <4>3. [d.itable EXCEPT ![Root] = Unset] = EmptyDisk.itable
        BY <1>4, Sizes0 DEF EmptyDisk
      <4> QED BY <3>2, <4>2, <4>3
    <3> QED BY <3>1, <3>2
  <2> QED BY <2>1, <2>2, <2>3
<1>5. PICK d1 : d1 = Apply(EmptyDisk, u)
  OBVIOUS
<1>6. PICK d2 : d2 = Apply(d1, v)
  OBVIOUS
<1>7. PICK d3 : d3 = Apply(d2, a)
  OBVIOUS
<1>8. PICK d4 : d4 = Apply(d3, b)
  OBVIOUS
<1>9. Empty(EmptyDisk)
  BY EmptyIs DEF EmptyDisk
<1>10. Empty(d1) /\ Empty(d2) /\ Empty(d3) /\ Empty(d4)
  <2> HIDE DEF Empty
  <2>1. Empty(d1)
    BY <1>4, <1>5, <1>9
  <2>2. Empty(d2)
    BY <1>4, <1>6, <2>1
  <2>3. Empty(d3)
    BY <1>4, <1>7, <2>2
  <2> QED BY <1>4, <1>8, <2>1, <2>2, <2>3
<1>11. /\ w[1] \in WriteSet /\ w[2] \in WriteSet /\ Fine(d4) /\ Fine(Apply(d4, w[1]))
       /\ Ended(m, Apply(Apply(d4, w[1]), w[2]))
  BY <1>10, <1>e, MkfsRoot
<1>12. w = <<w[1], w[2]>> /\ w \o << >> = w /\ w \in Seq(WriteSet)
  <2>1. w = <<w[1], w[2]>>
    BY <1>e DEF DirWrites
  <2>2. w \in Seq(WriteSet)
    BY <1>11, <2>1
  <2> QED BY <2>1, <2>2
<1>13. Safe(m, d4, w)
  <2>1. Safe(m, Apply(Apply(d4, w[1]), w[2]), << >>)
    BY <1>11, SafeEnd
  <2>2. Safe(m, d4, <<w[1], w[2]>> \o << >>)
    BY <1>11, <2>1, SafeTwo
  <2> QED BY <1>12, <2>2
<1>14. Fine(EmptyDisk) /\ Fine(d1) /\ Fine(d2) /\ Fine(d3)
  BY <1>3, <1>9, <1>10
<1>15. Safe(m, d2, <<a, b>> \o w)
  BY <1>1, <1>7, <1>8, <1>13, <1>14, SafeTwo
<1>16. Safe(m, EmptyDisk, <<u, v>> \o (<<a, b>> \o w))
  BY <1>1, <1>5, <1>6, <1>14, <1>15, SafeTwo
<1>17. (<<u, v>> \o <<a, b>>) \o w = <<u, v>> \o (<<a, b>> \o w)
  <2>1. <<u, v>> \in Seq(WriteSet) /\ <<a, b>> \in Seq(WriteSet)
    BY <1>1
  <2> QED BY <1>12, <2>1, Assoc
<1>18. <<a, b>> = UpdateBitmaps({Root}, {})
  BY <1>c, <1>d DEF UpdateBitmaps
<1> QED BY <1>16, <1>17, <1>18, <1>a, <1>b, <1>e

LEMMA BootInv ==
  ASSUME Orderly, Boot
  PROVE  Orderly'
<1>1. /\ ~up /\ lost = FALSE /\ pending = << >> /\ magic \in BOOLEAN /\ Restartable
      /\ Mem.cwd = Root /\ Mem.file = NoFile
  BY DEF Orderly, Boot
<1>2. cwd = Root /\ file = NoFile
  BY <1>1, CellIs
<1>3. up' = TRUE /\ UNCHANGED <<cwd, file, diskVars, lost, trouble>>
  BY DEF Boot
<1>4. Disk' = Disk /\ magic' = magic /\ itable' = itable
  BY <1>3 DEF Disk, diskVars
<1>a. PICK m : m = Mem'
  OBVIOUS
<1>5. m = [ibmap |-> ibmap', dbmap |-> dbmap', cwd |-> Root, file |-> NoFile]
  BY <1>2, <1>3, <1>a DEF Mem
<1>6. CASE magic
  <2>1. ibmap' = ibmapD /\ dbmap' = dbmapD /\ pending' = << >>
    BY <1>1, <1>6 DEF Boot
  <2>2. PICK U : Sound(U, Disk) /\ Marked(U, Disk, ibmapD, dbmapD)
    BY <1>1, <1>6 DEF Restartable
  <2>3. Disk \in DiskSet
    BY <1>1 DEF Orderly, Fine
  <2>4. m \in MemSet
    <3>1. ibmapD \subseteq Inodes /\ dbmapD \subseteq Blocks
      BY <2>3, CellIs DEF DiskSet
    <3>2. Root \in Int /\ NoFile \in Int
      BY DEF Root, NoFile
    <3> QED BY <1>5, <2>1, <3>1, <3>2 DEF MemSet
  <2>5. m.ibmap = ibmapD /\ m.dbmap = dbmapD /\ m.cwd = Root /\ m.file = NoFile
    BY <1>5, <2>1
  <2>6. Ended(m, Disk)
    BY <2>2, <2>3, <2>4, <2>5, CellIs DEF Ended, Sound
  <2>7. Safe(m, Disk, << >>)
    BY <2>6, SafeEnd
  <2> QED BY <1>1, <1>3, <1>4, <1>6, <1>a, <2>1, <2>7 DEF Orderly
<1>7. CASE ~magic
  <2>a. PICK blk : blk = GetFreeEntry({}, NBlocks)
    OBVIOUS
  <2>1. blk \in Blocks
    BY <2>a, Sizes0, FreeEntry DEF Blocks
  <2>2. Disk = EmptyDisk
    BY <1>1, <1>7 DEF Restartable
  <2>3. itable[Root] = Unset
    BY <2>2, EmptyIs, CellIs
  <2>4. /\ ibmap' = {Root} /\ dbmap' = {blk}
        /\ pending' = <<[kind |-> "super"], UpdateInode(Root, Unset)>>
                        \o UpdateBitmaps({Root}, {}) \o DirWrites(Root, blk, Root)
    BY <1>7, <2>3, <2>a DEF Boot, DirWrites
  <2>5. Safe(m, Disk, pending')
    BY <1>5, <2>1, <2>2, <2>4, MkfsSafe
  <2>6. pending' # << >> /\ Head(pending').kind = "super"
    <3>1. DirWrites(Root, blk, Root) = <<DirWrites(Root, blk, Root)[1], DirWrites(Root, blk, Root)[2]>>
      BY DEF DirWrites
    <3>2. UpdateBitmaps({Root}, {}) = <<UpdateBitmaps({Root}, {})[1], UpdateBitmaps({Root}, {})[2]>>
      BY DEF UpdateBitmaps
    <3>3. \A p, q, r, s, t, v :
            /\ (<<p, q>> \o <<r, s>>) \o <<t, v>> # << >>
            /\ Head((<<p, q>> \o <<r, s>>) \o <<t, v>>) = p
      OBVIOUS
    <3>4. pending' # << >> /\ Head(pending') = [kind |-> "super"]
      BY <2>4, <3>1, <3>2, <3>3
    <3> QED BY <3>4
  <2> QED BY <1>1, <1>3, <1>4, <1>7, <1>a, <2>2, <2>5, <2>6 DEF Orderly
<1> QED BY <1>1, <1>6, <1>7

----------------------------------------------------------------------------
(* As long as no entry was made on a full disk, no block write has failed, *)
(* no inode beyond the inode table was taken and no stop came while        *)
(* something was in use and not marked on the disk, the inductive          *)
(* invariant holds: at every block write of every call, and whenever the   *)
(* machine stops. *)
THEOREM FileSystemInvariance == Spec => []Inv
<1>1. Init => Inv
  BY InitInv DEF Inv
<1>2. Inv /\ [Next]_vars => Inv'
  <2> SUFFICES ASSUME Inv, [Next]_vars, trouble' = {} PROVE Orderly'
    BY DEF Inv
  <2>0. trouble = {}
    BY DEF Next, Boot, WriteBlock, Modified, NotModified, Crash, Call, Mkdir, OpenNew, Link, Open,
           Chdir, Write, OpenRoot, Close, ReadsGarbage, vars
  <2>i. Orderly
    BY <2>0 DEF Inv
  <2>1. CASE UNCHANGED vars
    <3>1. Disk' = Disk /\ Mem' = Mem /\ UNCHANGED <<up, pending, magic, ibmapD, dbmapD, itable, lost>>
      BY <2>1 DEF vars, memVars, diskVars, Disk, Mem
    <3>2. Restartable' = Restartable
      BY <3>1 DEF Restartable
    <3> QED BY <2>i, <3>1, <3>2 DEF Orderly
  <2>2. CASE Boot
    BY <2>i, <2>2, BootInv
  <2>3. CASE WriteBlock
    BY <2>i, <2>3, WriteBlockInv
  <2>4. CASE Crash
    BY <2>i, <2>4, CrashInv
  <2>5. CASE Call
    BY <2>i, <2>5, CallInv
  <2> QED BY <2>1, <2>2, <2>3, <2>4, <2>5 DEF Next
<1> QED BY <1>1, <1>2, PTL DEF Spec

(* With no trouble, between two calls the bitmaps in memory mark every     *)
(* inode and block that can be found from the root, and no block belongs   *)
(* to two inodes (get_free_entry, fs_mkdir, mkfile, fs_write). *)
THEOREM BitmapsCoverUse == Spec => []MarksCoverUse
<1>1. Inv => MarksCoverUse
  <2> SUFFICES ASSUME Orderly, up, ~lost, pending = << >>
               PROVE  /\ MarkedIn(ibmap, dbmap)
                      /\ \A i, j \in Reach : i # j => BlocksOf(i) \cap BlocksOf(j) = {}
    BY DEF MarksCoverUse, Inv
  <2>1. PICK U : Disk \in DiskSet /\ Sound(U, Disk) /\ Marked(U, Disk, ibmap, dbmap)
    BY EndedUse, CellIs DEF Ended
  <2>2. MarkedIn(ibmap, dbmap)
    BY <2>1, ReachMarked
  <2>3. ASSUME NEW i \in Reach, NEW j \in Reach, i # j, NEW b \in BlocksOf(i), b \in BlocksOf(j)
        PROVE  FALSE
    <3>1. Apart(Reach, Disk)
      BY <2>1, ReachSound DEF Sound
    <3>2. i \in Written(Reach, Disk) /\ j \in Written(Reach, Disk)
      BY <2>3, CellIs DEF BlocksOf, Written
    <3>3. /\ \E e \in 0 .. NDirect - 1 : Disk.itable[i].direct[e] = b /\ b # Unset
          /\ \E f \in 0 .. NDirect - 1 : Disk.itable[j].direct[f] = b
      BY <2>3, <3>2, CellIs DEF BlocksOf, Written
    <3> QED BY <2>3, <3>1, <3>2, <3>3 DEF Apart
  <2> QED BY <2>2, <2>3
<1> QED BY <1>1, FileSystemInvariance, PTL

(* With no trouble, once a call has saved the bitmaps (update_bitmaps), a  *)
(* restart between two calls finds a mark for all that can be found. *)
THEOREM CallsAreSaved == Spec => []ReturnedCallsAreSaved
<1>1. Inv => ReturnedCallsAreSaved
  <2> SUFFICES ASSUME Orderly, up, ~lost, pending = << >>, dbmapD # {} PROVE MarkedIn(ibmapD, dbmapD)
    BY DEF ReturnedCallsAreSaved, DiskMarksUse, Inv
  <2>1. PICK U : Disk \in DiskSet /\ Sound(U, Disk) /\ Marked(U, Disk, ibmapD, dbmapD)
    BY EndedUse, CellIs DEF Ended
  <2> QED BY <2>1, ReachMarked
<1> QED BY <1>1, FileSystemInvariance, PTL

(* With no trouble, after every block write an entry that can be found     *)
(* names an inode that has been written (the order in fs_mkdir, mkfile and *)
(* fs_link). *)
THEOREM EntriesAreWritten == Spec => []EntriesNameInodes
<1>1. Inv => EntriesNameInodes
  <2> SUFFICES ASSUME Orderly, ~lost, NEW i \in Reach \ {Root} PROVE itable[i] # Unset
    BY DEF EntriesNameInodes, Inv
  <2>1. Fine(Disk)
    BY SafeNow DEF Orderly
  <2>2. PICK U : Sound(U, Disk)
    BY <2>1, BlankIs DEF Fine
  <2>3. i \in U /\ U # {Root}
    BY <2>1, <2>2, ReachIs DEF Fine
  <2>4. Written(U, Disk) = U
    BY <2>2, <2>3 DEF Sound
  <2> QED BY <2>3, <2>4, CellIs DEF Written
<1> QED BY <1>1, FileSystemInvariance, PTL

(* With no trouble, every cell of what can be found is the one written at  *)
(* that place of it, whatever has been written since (block_modify, in     *)
(* fs_write and for new entries). *)
THEOREM NothingIsOverwritten == Spec => []NothingOverwritten
<1>1. Inv => NothingOverwritten
  <2> SUFFICES ASSUME Orderly, ~lost, pending = << >>, NEW i \in Reach, Readable(i),
                      NEW pos \in 0 .. itable[i].size - 1
               PROVE  Cell(itable[i], pos).place = <<i, pos>>
    BY DEF NothingOverwritten, InPlaces, Inv
  <2>1. Disk \in DiskSet /\ \E U : Sound(U, Disk)
    <3>1. CASE up
      BY <3>1, EndedUse DEF Ended
    <3>2. CASE ~up
      <4>1. Restartable
        BY <3>2 DEF Orderly
      <4> QED BY <3>2, <4>1, EmptyIs, UnwrittenIs DEF Orderly, Fine, Restartable
    <3> QED BY <3>1, <3>2
  <2>2. Sound(Reach, Disk)
    BY <2>1, ReachSound
  <2>3. i \in Written(Reach, Disk)
    BY CellIs DEF Written, Readable
  <2>4. CellAt(Disk, itable[i], pos).place = <<i, pos>>
    BY <2>2, <2>3, CellIs DEF Sound, InPlace
  <2> QED BY <2>4, CellIs
<1> QED BY <1>1, FileSystemInvariance, PTL
=============================================================================
