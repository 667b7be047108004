---------------------------- MODULE PagingProofs ----------------------------
(***************************************************************************)
(* Theorems about Paging for any number of processes, pages and frames:    *)
(* a page keeps what was stored in it, the page map and the page tables    *)
(* agree, and what the TLB still serves of translations that have been     *)
(* withdrawn, which invalidate_page leaves there, loses no store.          *)
(***************************************************************************)
EXTENDS Paging, WaitingLists, TLAPS

Where == {"none", "new", "idle", "user", "lock", "blocked", "alloc", "evict", "writing",
          "reading", "halted", "spinning"}

TypeOK ==
  /\ pageMap \in [FrameNo -> [page : VPages \cup {None}, pinned : BOOLEAN]]
  /\ dole \in KernelFrames .. Frames
  /\ hand \in FrameNo /\ frame \in FrameNo
  /\ taken \in Nat
  /\ pte \in [VPages -> [frame : FrameNo, present : BOOLEAN, dirty : BOOLEAN]]
  /\ tlb \in SUBSET [page : Pages, frame : FrameNo, dirty : BOOLEAN]
  /\ cpu \in Actors \cup {None} /\ holder \in Actors \cup {None}
  /\ waiting \in Seq(Actors)
  /\ pc \in [Actors -> Where]
  /\ target \in [Actors -> VPages \cup {None}] /\ child \in [Actors -> Procs \cup {None}]
  /\ mem \in [FrameNo -> Values] /\ disk \in [VPages -> Values] /\ stored \in [VPages -> Values]

AtWork   == {"alloc", "evict", "writing", "reading", "spinning"}
InKernel == AtWork \cup {"lock", "blocked"}

(* ASSERT2 stops everybody at once. *)
StoppedTogether == (\E a \in Actors : pc[a] = "halted") => \A a \in Actors : pc[a] = "halted"

(* The holder alone is at work; those in the list wait for it. *)
LockOK ==
  /\ \A a \in Actors : pc[a] \in AtWork => holder = a
  /\ \A a \in Actors :
       Occurs(waiting, a) => pc[a] \in {"blocked", "halted"} /\ Once(waiting, a)

(* What a process has faulted on is a page of its own that is not present; *)
(* what an actor creates has not started, and nobody else creates it.      *)
TargetOK ==
  /\ \A a \in Actors : pc[a] \in InKernel =>
       IF child[a] = None THEN /\ a \in Procs /\ target[a] \in VPages
                               /\ target[a][1] = a /\ ~pte[target[a]].present
                          ELSE pc[child[a]] = "new"
  /\ \A a \in Actors : pc[a] \in {"none", "new", "idle", "user", "reading"} => child[a] = None
  /\ \A a, b \in Actors : child[a] # None /\ child[a] = child[b] => a = b
  /\ pc[Loader] \notin {"user", "none", "new"}

(* A pinned frame holds no page, nor does one that was never handed out.   *)
FramesOK ==
  /\ \A f \in FrameNo : pageMap[f].pinned => pageMap[f].page = None
  /\ \A f \in FrameNo : f < KernelFrames => pageMap[f].pinned
  /\ \A f \in FrameNo : f >= dole => pageMap[f].page = None
  /\ \A f \in Unpinned : f < dole => pageMap[f].page \in VPages

(* The frame the holder has picked. *)
PickedOK ==
  \A a \in Actors :
    /\ pc[a] \in {"evict", "writing"} =>
         ~pageMap[frame].pinned /\ frame < dole /\ ~pte[pageMap[frame].page].present
    /\ pc[a] = "reading" => pageMap[frame] = [page |-> target[a], pinned |-> FALSE]

(* The translation of page x that its page table holds. *)
Mapped(x, e) == pte[x].present /\ pte[x].frame = e.frame /\ (e.dirty => pte[x].dirty)

(* A withdrawn translation of page x: to a frame that has become a table,  *)
(* or that holds a page whose transfer did not yield.                      *)
Astray(x, e) ==
  /\ pageMap[e.frame].pinned \/ pageMap[e.frame].page \in Flaky
  /\ e.dirty => x \in Flaky

(* The translation of a page that its own process is taking a frame from.  *)
Leaving(x, e) ==
  /\ pc[cpu] \in {"evict", "writing"}
  /\ pageMap[frame].page = x /\ e.frame = frame
  /\ e.dirty => pte[x].dirty /\ (pc[cpu] = "writing" => x \in Flaky)

(* The TLB translates pages of the process that runs. *)
Cache ==
  cpu \in Procs => \A e \in tlb : LET x == <<cpu, e.page>> IN
    x \in VPages /\ (Mapped(x, e) \/ Leaving(x, e) \/ Astray(x, e))

(* A clean page may be dropped. *)
CleanIsStored ==
  \A x \in VPages \ Flaky :
    ~pte[x].dirty /\ (pte[x].present \/ Evicting(x)) => disk[x] = stored[x]

(* The inductive invariant. *)
Control == StoppedTogether /\ LockOK /\ TargetOK
Memory  == FramesOK /\ PickedOK /\ MapAgrees
Data    == CleanIsStored /\ Coherent

Inv == TypeOK /\ Control /\ Memory /\ Data /\ Cache /\ StopsOnlyWhenAllPinned

----------------------------------------------------------------------------
(* The loader is no process, nobody is None, a frame has a number. *)
LEMMA Constants ==
  /\ Loader \in Actors /\ Loader \notin Procs /\ None \notin Actors
  /\ \A p \in Procs : p \in Actors
  /\ \A a \in Actors : a # Loader => a \in Procs
  /\ KernelFrames \in Nat /\ 0 < KernelFrames /\ KernelFrames < Frames /\ Frames \in Nat
  /\ \A f \in FrameNo : f \in Nat /\ f < Frames
  /\ None \notin VPages /\ Zero \in Values
<1>1. Procs \subseteq Nat
  BY DEF Procs
<1> QED BY PagingAssumption, <1>1 DEF Actors, FrameNo

LEMMA InitInv == Init => Inv
<1> SUFFICES ASSUME Init PROVE Inv
  OBVIOUS
<1> USE Constants DEF Init
<1>1. TypeOK
  <2>1. pageMap \in [FrameNo -> [page : VPages \cup {None}, pinned : BOOLEAN]]
    OBVIOUS
  <2>2. dole \in KernelFrames .. Frames /\ hand \in FrameNo /\ frame \in FrameNo /\ taken \in Nat
    BY DEF FrameNo
  <2>3. pte \in [VPages -> [frame : FrameNo, present : BOOLEAN, dirty : BOOLEAN]]
    BY DEF FrameNo, Absent
  <2>4. waiting \in Seq(Actors) /\ tlb \in SUBSET [page : Pages, frame : FrameNo, dirty : BOOLEAN]
    OBVIOUS
  <2>5. pc \in [Actors -> Where]
    BY DEF Where
  <2>6. mem \in [FrameNo -> Values] /\ disk \in [VPages -> Values] /\ stored \in [VPages -> Values]
    OBVIOUS
  <2>7. target \in [Actors -> VPages \cup {None}] /\ child \in [Actors -> Procs \cup {None}]
    OBVIOUS
  <2> QED BY <2>1, <2>2, <2>3, <2>4, <2>5, <2>6, <2>7 DEF TypeOK
<1>2. Control
  <2>1. StoppedTogether /\ TargetOK
    BY DEF StoppedTogether, TargetOK, InKernel, AtWork
  <2>2. LockOK
    BY DEF LockOK, AtWork, Occurs
  <2> QED BY <2>1, <2>2 DEF Control
<1>3. Memory
  <2>1. FramesOK /\ PickedOK
    BY DEF FramesOK, PickedOK, Unpinned
  <2>2. MapAgrees
    BY DEF MapAgrees, Absent, Unpinned
  <2> QED BY <2>1, <2>2 DEF Memory
<1>4. Data
  BY DEF Data, CleanIsStored, Coherent, Content, Evicting, Absent
<1>5. Cache /\ StopsOnlyWhenAllPinned
  BY DEF Cache, StopsOnlyWhenAllPinned
<1> QED BY <1>1, <1>2, <1>3, <1>4, <1>5 DEF Inv

(* An actor at work is the holder: nobody else is, and it does not wait.   *)
LEMMA Alone ==
  ASSUME Control, NEW a \in Actors, pc[a] \in AtWork
  PROVE  /\ holder = a /\ ~Occurs(waiting, a)
         /\ \A b \in Actors : b # a => pc[b] \notin AtWork
         /\ \A b \in Actors : pc[b] # "halted"
<1> QED BY Constants DEF Control, LockOK, StoppedTogether, AtWork

(* lock_release: the longest waiter, if there is one, becomes the holder;  *)
(* the others are where they are.                                          *)
LEMMA Released ==
  ASSUME TypeOK, Control, NEW a \in Actors, pc[a] \in AtWork,
         NEW where \in [Actors -> Where], LockRelease(where),
         \A b \in Actors : Occurs(waiting, b) => where[b] = "blocked"
  PROVE  /\ pc' \in [Actors -> Where]
         /\ waiting' \in Seq(Actors) /\ holder' \in Actors \cup {None}
         /\ \A b \in Actors : b # holder' => pc'[b] = where[b]
         /\ holder' # None =>
              pc'[holder'] = "alloc" /\ pc[holder'] = "blocked" /\ where[holder'] = "blocked"
         /\ \A b \in Actors : Occurs(waiting', b) =>
              b # holder' /\ pc'[b] = "blocked" /\ pc[b] = "blocked" /\ Once(waiting', b)
<1>1. \A b \in Actors : Occurs(waiting, b) => pc[b] = "blocked" /\ Once(waiting, b)
  BY Alone DEF Control, LockOK
<1>2. CASE waiting = << >>
  BY <1>1, <1>2, Constants DEF LockRelease, TypeOK, Occurs
<1>3. CASE waiting # << >>
  <2>1. /\ Tail(waiting) \in Seq(Actors)
        /\ Head(waiting) \in Actors /\ Occurs(waiting, Head(waiting))
        /\ ~Occurs(Tail(waiting), Head(waiting))
        /\ \A b \in Actors : Occurs(Tail(waiting), b) => Occurs(waiting, b) /\ Once(Tail(waiting), b)
    <3>1. waiting \in Seq(Actors)
      BY DEF TypeOK
    <3> QED BY <1>1, <1>3, <3>1, TailOccurs
  <2>2. /\ holder' = Head(waiting) /\ waiting' = Tail(waiting)
        /\ pc' = [where EXCEPT ![Head(waiting)] = "alloc"]
    BY <1>3 DEF LockRelease
  <2> HIDE DEF Occurs, Once
  <2>3. pc' \in [Actors -> Where]
    BY <2>1, <2>2 DEF Where
  <2> QED BY <1>1, <2>1, <2>2, <2>3
<1> QED BY <1>2, <1>3

----------------------------------------------------------------------------
(* A step that leaves frames, pages and their contents alone, and whoever  *)
(* handles a frame where it is, keeps what is said of them.                *)
LEMMA QuietStep ==
  ASSUME Inv,
         UNCHANGED <<pageMap, dole, frame, pte, mem, disk, stored>>,
         LockOK',
         \A b \in Actors : pc[b] \in {"evict", "writing", "reading"} => pc'[b] = pc[b],
         \A b \in Actors : pc'[b] \in {"evict", "writing", "reading"} =>
           pc'[b] = pc[b] /\ target'[b] = target[b]
  PROVE  Memory' /\ Data'
<1> USE DEF Inv, Memory, Data
<1>1. FramesOK'
  BY DEF FramesOK, FrameNo, Unpinned
<1>2. PickedOK'
  BY DEF PickedOK
<1>3. MapAgrees'
  BY DEF MapAgrees, LockOK, AtWork, Unpinned, FrameNo
<1>4. \A x \in VPages : Evicting(x)' <=> Evicting(x)
  BY DEF Evicting
<1>5. CleanIsStored' /\ Coherent'
  BY <1>4 DEF CleanIsStored, Coherent, Content
<1> QED BY <1>1, <1>2, <1>3, <1>5

(* A step that leaves the frames, their pages and the tables alone, and    *)
(* does not move the actor whose TLB it is out of an eviction, keeps what  *)
(* is said of the translations that stay.                                  *)
LEMMA CacheStep ==
  ASSUME Inv, NEW a \in Actors, pc[a] \notin {"evict", "writing"},
         UNCHANGED <<pageMap, frame, pte>>,
         cpu' = a, tlb' \subseteq Tlb(a)
  PROVE  Cache'
<1> SUFFICES ASSUME a \in Procs, NEW e \in tlb'
             PROVE  LET x == <<a, e.page>> IN
                      x \in VPages /\ (Mapped(x, e)' \/ Leaving(x, e)' \/ Astray(x, e)')
  BY DEF Cache, Mapped, Leaving, Astray
<1>1. cpu = a /\ e \in tlb
  BY DEF Tlb
<1>2. <<a, e.page>> \in VPages /\ (Mapped(<<a, e.page>>, e) \/ Astray(<<a, e.page>>, e))
  BY <1>1 DEF Inv, Cache, Leaving
<1> QED BY <1>2 DEF Mapped, Astray

(* exception_14 *)
LEMMA FaultStep ==
  ASSUME Inv, NEW p \in Procs, NEW v \in Pages, <<p, v>> \in VPages, Fault(p, v)
  PROVE  Inv'
<1> USE Constants DEF Inv
<1>1. /\ pc[p] = "user" /\ ~pte[<<p, v>>].present
      /\ pc' = [pc EXCEPT ![p] = "lock"]
      /\ target' = [target EXCEPT ![p] = <<p, v>>]
      /\ UNCHANGED <<pageMap, dole, hand, frame, taken, holder, waiting, child, pte, mem, disk, stored>>
      /\ cpu' = p /\ tlb' \subseteq Tlb(p)
  BY DEF Fault, mapVars, lockVars
<1>2. TypeOK'
  BY <1>1 DEF TypeOK, Where, Tlb
<1>3. Control'
  <2>1. StoppedTogether'
    BY <1>1 DEF TypeOK, Control, StoppedTogether
  <2>2. LockOK'
    BY <1>1 DEF TypeOK, Control, LockOK, AtWork
  <2>3. TargetOK'
    <3>1. /\ pc \in [Actors -> Where] /\ target \in [Actors -> VPages \cup {None}]
          /\ child \in [Actors -> Procs \cup {None}] /\ TargetOK
      BY DEF TypeOK, Control
    <3>2. /\ child[p] = None /\ pc'[p] = "lock" /\ target'[p] = <<p, v>>
          /\ \A b \in Actors : b # p => pc'[b] = pc[b] /\ target'[b] = target[b]
      BY <1>1, <3>1 DEF TargetOK
    <3>3. \A b \in Actors : child[b] # None => (pc'[child[b]] = "new" <=> pc[child[b]] = "new")
      BY <1>1, <3>1, <3>2
    <3>4. ASSUME NEW b \in Actors, pc'[b] \in InKernel
          PROVE  IF child'[b] = None THEN /\ b \in Procs /\ target'[b] \in VPages
                                          /\ target'[b][1] = b /\ ~pte'[target'[b]].present
                                     ELSE pc'[child'[b]] = "new"
      BY <1>1, <3>1, <3>2, <3>3, <3>4 DEF TargetOK
    <3> QED BY <1>1, <3>1, <3>2, <3>4 DEF TargetOK
  <2> QED BY <2>1, <2>2, <2>3 DEF Control
<1>4. Memory' /\ Data'
  <2>1. \A b \in Actors : pc'[b] \in {"evict", "writing", "reading"} =>
          pc'[b] = pc[b] /\ target'[b] = target[b]
    BY <1>1 DEF TypeOK
  <2>2. \A b \in Actors : pc[b] \in {"evict", "writing", "reading"} => pc'[b] = pc[b]
    BY <1>1 DEF TypeOK
  <2> QED BY <1>1, <1>3, <2>1, <2>2, QuietStep DEF Control
<1>5. Cache'
  BY <1>1, CacheStep
<1>6. StopsOnlyWhenAllPinned'
  BY <1>1 DEF StopsOnlyWhenAllPinned, TypeOK
<1> QED BY <1>2, <1>3, <1>4, <1>5, <1>6

(* create_process *)
LEMMA CreateStep ==
  ASSUME Inv, NEW a \in Actors, NEW p \in Procs, Create(a, p)
  PROVE  Inv'
<1> USE Constants DEF Inv
<1>1. /\ pc[a] \in {"idle", "user"} /\ pc[p] = "none" /\ a # p
      /\ pc' = [pc EXCEPT ![a] = "lock", ![p] = "new"]
      /\ child' = [child EXCEPT ![a] = p]
      /\ UNCHANGED <<pageMap, dole, hand, frame, taken, holder, waiting, target, pte, mem, disk, stored>>
      /\ cpu' = a /\ tlb' = Tlb(a)
  BY DEF Create, Home, Running, lockVars, mapVars
<1>2. TypeOK'
  BY <1>1 DEF TypeOK, Where, Tlb
<1>3. /\ pc \in [Actors -> Where] /\ child \in [Actors -> Procs \cup {None}] /\ TargetOK
      /\ \A b \in Actors : pc[b] # "halted"
  BY <1>1 DEF TypeOK, Control, StoppedTogether
<1>4. /\ pc'[a] = "lock" /\ pc'[p] = "new"
      /\ \A b \in Actors : b # a /\ b # p => pc'[b] = pc[b]
      /\ child'[a] = p /\ \A b \in Actors : b # a => child'[b] = child[b]
  BY <1>1, <1>3
<1>5. Control'
  <2>1. StoppedTogether'
    BY <1>3, <1>4 DEF StoppedTogether
  <2>2. LockOK'
    BY <1>1, <1>4 DEF Control, LockOK, AtWork
  <2>3. \A b \in Actors : child[b] # p
    BY <1>1, <1>3 DEF TargetOK, Where, InKernel, AtWork
  <2>4. \A b \in Actors : b # a /\ child[b] # None =>
          (pc'[child[b]] = "new" <=> pc[child[b]] = "new")
    BY <1>1, <1>3, <1>4, <2>3
  <2>5. ASSUME NEW b \in Actors, pc'[b] \in InKernel
        PROVE  IF child'[b] = None THEN /\ b \in Procs /\ target'[b] \in VPages
                                        /\ target'[b][1] = b /\ ~pte'[target'[b]].present
                                   ELSE pc'[child'[b]] = "new"
    <3>1. b # p
      BY <1>4, <2>5 DEF InKernel, AtWork
    <3> QED BY <1>1, <1>3, <1>4, <2>4, <2>5, <3>1 DEF TargetOK
  <2>6. \A b, c \in Actors : child'[b] # None /\ child'[b] = child'[c] => b = c
    BY <1>3, <1>4, <2>3 DEF TargetOK
  <2>7. \A b \in Actors : pc'[b] \in {"none", "new", "idle", "user", "reading"} => child'[b] = None
    BY <1>1, <1>3, <1>4 DEF TargetOK
  <2>8. pc'[Loader] \notin {"user", "none", "new"}
    BY <1>3, <1>4 DEF TargetOK
  <2> QED BY <2>1, <2>2, <2>5, <2>6, <2>7, <2>8 DEF Control, TargetOK
<1>6. Memory' /\ Data'
  <2>1. \A b \in Actors : pc'[b] \in {"evict", "writing", "reading"} =>
          pc'[b] = pc[b] /\ target'[b] = target[b]
    BY <1>1, <1>4
  <2>2. \A b \in Actors : pc[b] \in {"evict", "writing", "reading"} => pc'[b] = pc[b]
    BY <1>1, <1>4
  <2> QED BY <1>1, <1>5, <2>1, <2>2, QuietStep DEF Control
<1>7. Cache'
  BY <1>1, CacheStep
<1>8. StopsOnlyWhenAllPinned'
  BY <1>1, <1>4 DEF StopsOnlyWhenAllPinned
<1> QED BY <1>2, <1>5, <1>6, <1>7, <1>8

(* lock_acquire: the lock is taken, or the actor waits for it.             *)
LEMMA LockAcquireStep ==
  ASSUME Inv, NEW a \in Actors, LockAcquire(a)
  PROVE  Inv'
<1> USE Constants DEF Inv
<1>1. /\ pc[a] = "lock"
      /\ UNCHANGED <<pageMap, dole, hand, frame, taken, target, child, pte, mem, disk, stored>>
      /\ \/ /\ holder = None /\ holder' = a /\ pc' = [pc EXCEPT ![a] = "alloc"]
            /\ cpu' = a /\ tlb' = Tlb(a) /\ UNCHANGED waiting
         \/ /\ holder # None /\ waiting' = Append(waiting, a) /\ pc' = [pc EXCEPT ![a] = "blocked"]
            /\ cpu' = None /\ tlb' = {} /\ UNCHANGED holder
  BY DEF LockAcquire, Running, Yield, mapVars, jobVars
<1>2. /\ Append(waiting, a) \in Seq(Actors)
      /\ \A b \in Actors : Occurs(Append(waiting, a), b) <=> Occurs(waiting, b) \/ b = a
      /\ \A b \in Actors : b # a /\ Once(waiting, b) => Once(Append(waiting, a), b)
      /\ ~Occurs(waiting, a) => Once(Append(waiting, a), a)
  <2>1. waiting \in Seq(Actors)
    BY DEF TypeOK
  <2> QED BY <2>1, AppendOccurs
<1>3. TypeOK'
  BY <1>1, <1>2 DEF TypeOK, Where, Tlb
<1>4. Control'
  <2>1. StoppedTogether'
    BY <1>1 DEF TypeOK, Control, StoppedTogether
  <2>2. LockOK'
    <3>1. ~Occurs(waiting, a) /\ LockOK /\ pc \in [Actors -> Where]
      BY <1>1 DEF TypeOK, Control, LockOK
    <3>2. \A b \in Actors : pc'[b] \in AtWork => holder' = b
      BY <1>1, <3>1 DEF LockOK, AtWork
    <3>3. \A b \in Actors : Occurs(waiting', b) => pc'[b] \in {"blocked", "halted"}
      BY <1>1, <1>2, <3>1 DEF LockOK
    <3>4. \A b \in Actors : Occurs(waiting', b) => Once(waiting', b)
      BY <1>1, <1>2, <3>1 DEF LockOK
    <3> QED BY <3>2, <3>3, <3>4 DEF LockOK
  <2>3. TargetOK'
    <3>1. TargetOK /\ pc \in [Actors -> Where]
      BY DEF TypeOK, Control
    <3>2. \A b \in Actors : pc'[b] \in InKernel => pc[b] \in InKernel
      BY <1>1, <3>1 DEF InKernel, AtWork
    <3>3. \A b \in Actors, where \in {"user", "none", "new", "idle", "reading"} :
            pc[b] = where <=> pc'[b] = where
      BY <1>1, <3>1
    <3>4. child \in [Actors -> Procs \cup {None}]
      BY DEF TypeOK
    <3> QED BY <1>1, <3>1, <3>2, <3>3, <3>4 DEF TargetOK
  <2> QED BY <2>1, <2>2, <2>3 DEF Control
<1>5. Memory' /\ Data'
  <2>1. \A b \in Actors : pc'[b] \in {"evict", "writing", "reading"} =>
          pc'[b] = pc[b] /\ target'[b] = target[b]
    BY <1>1 DEF TypeOK
  <2>2. \A b \in Actors : pc[b] \in {"evict", "writing", "reading"} => pc'[b] = pc[b]
    BY <1>1 DEF TypeOK
  <2> QED BY <1>1, <1>4, <2>1, <2>2, QuietStep DEF Control
<1>6. Cache'
  <2>1. CASE cpu' = a
    BY <1>1, <2>1, CacheStep
  <2>2. CASE cpu' # a
    BY <1>1, <2>2 DEF Cache
  <2> QED BY <2>1, <2>2
<1>7. StopsOnlyWhenAllPinned'
  BY <1>1 DEF StopsOnlyWhenAllPinned, TypeOK
<1> QED BY <1>3, <1>4, <1>5, <1>6, <1>7

----------------------------------------------------------------------------
(* A walk changes one entry, and only its dirty bit.                       *)
LEMMA Walked ==
  ASSUME TypeOK, NEW p \in Procs, NEW v \in Pages, <<p, v>> \in VPages,
         NEW isDirty \in BOOLEAN, Walk(p, v, isDirty)
  PROVE  /\ pte[<<p, v>>].present
         /\ pte' \in [VPages -> [frame : FrameNo, present : BOOLEAN, dirty : BOOLEAN]]
         /\ \A y \in VPages :
              /\ pte'[y].present = pte[y].present /\ pte'[y].frame = pte[y].frame
              /\ y # <<p, v>> => pte'[y] = pte[y]
         /\ pte'[<<p, v>>].dirty = (pte[<<p, v>>].dirty \/ isDirty)
         /\ tlb' \in SUBSET [page : Pages, frame : FrameNo, dirty : BOOLEAN]
<1> DEFINE x == <<p, v>>
<1>1. /\ pte[x].present
      /\ pte' = [pte EXCEPT ![x].dirty = @ \/ isDirty]
      /\ tlb' = (Tlb(p) \ Cached(p, v))
                  \cup {[page |-> v, frame |-> pte[x].frame, dirty |-> pte[x].dirty \/ isDirty]}
  BY DEF Walk
<1>2. /\ pte \in [VPages -> [frame : FrameNo, present : BOOLEAN, dirty : BOOLEAN]]
      /\ Tlb(p) \in SUBSET [page : Pages, frame : FrameNo, dirty : BOOLEAN]
  BY DEF TypeOK, Tlb
<1> HIDE DEF x
<1>3. x \in VPages
  BY DEF x
<1>4. \A y \in VPages :
        /\ pte'[y].present = pte[y].present /\ pte'[y].frame = pte[y].frame
        /\ y # x => pte'[y] = pte[y]
  BY <1>1, <1>2, <1>3
<1>5. pte'[x].dirty = (pte[x].dirty \/ isDirty)
  BY <1>1, <1>2, <1>3
<1>6. pte' \in [VPages -> [frame : FrameNo, present : BOOLEAN, dirty : BOOLEAN]]
  BY <1>1, <1>2, <1>3
<1>7. [page |-> v, frame |-> pte[x].frame, dirty |-> pte[x].dirty \/ isDirty]
        \in [page : Pages, frame : FrameNo, dirty : BOOLEAN]
  BY <1>2, <1>3
<1> QED BY <1>1, <1>2, <1>4, <1>5, <1>6, <1>7 DEF x

(* A load or store moves nobody and keeps the translations there are.      *)
LEMMA AccessStep ==
  ASSUME Inv, NEW p \in Procs, pc[p] = "user", cpu' = p,
         UNCHANGED <<mapVars, lockVars, pc, target, child, disk>>,
         \A y \in VPages : pte'[y].present = pte[y].present /\ pte'[y].frame = pte[y].frame
  PROVE  Control' /\ Memory' /\ StopsOnlyWhenAllPinned'
<1> USE Constants DEF Inv, Control, Memory, mapVars, lockVars
<1>1. StoppedTogether' /\ LockOK' /\ FramesOK'
  BY DEF StoppedTogether, LockOK, FramesOK, Unpinned
<1>2. TargetOK'
  <2>1. \A b \in Actors : target'[b] \in VPages => pte'[target'[b]].present = pte[target[b]].present
    OBVIOUS
  <2> QED BY <2>1 DEF TargetOK
<1>3. \A f \in Unpinned : f < dole => pageMap[f].page \in VPages
  BY DEF FramesOK
<1>4. PickedOK'
  BY <1>3 DEF PickedOK, Unpinned, TypeOK
<1>5. MapAgrees'
  BY <1>3 DEF MapAgrees, Unpinned
<1>6. StopsOnlyWhenAllPinned'
  BY DEF StopsOnlyWhenAllPinned
<1> QED BY <1>1, <1>2, <1>4, <1>5, <1>6

(* Two present pages are in different frames, and a page that is taken is  *)
(* in none of them.                                                        *)
LEMMA Separate ==
  ASSUME TypeOK, Memory, NEW x \in VPages, NEW y \in VPages, x # y, pte[x].present
  PROVE  /\ pte[x].frame \in FrameNo
         /\ pte[y].present => pte[y].frame # pte[x].frame
         /\ Evicting(y) => frame # pte[x].frame
<1>1. pte[x].frame \in FrameNo
  BY DEF TypeOK
<1>2. ASSUME NEW z \in VPages, pte[z].present PROVE pageMap[pte[z].frame].page = z
  <2>1. pageMap[pte[z].frame] = [page |-> z, pinned |-> FALSE]
    BY <1>2 DEF Memory, MapAgrees
  <2> QED BY <2>1
<1>3. pageMap[pte[x].frame].page = x /\ (pte[y].present => pageMap[pte[y].frame].page = y)
  BY <1>2
<1> QED BY <1>1, <1>3 DEF Evicting

(* What a process that runs finds in the TLB. *)
LEMMA TlbGood ==
  ASSUME Inv, NEW p \in Procs, pc[p] = "user", NEW e \in Tlb(p)
  PROVE  LET x == <<p, e.page>> IN x \in VPages /\ (Mapped(x, e) \/ Astray(x, e))
<1>1. cpu = p /\ e \in tlb
  BY DEF Tlb
<1> QED BY <1>1 DEF Inv, Cache, Leaving

(* After a walk it is still so. *)
LEMMA WalkCache ==
  ASSUME Inv, NEW p \in Procs, NEW v \in Pages, <<p, v>> \in VPages, pc[p] = "user",
         NEW isDirty \in BOOLEAN, Walk(p, v, isDirty), cpu' = p, pc' = pc,
         UNCHANGED <<pageMap, frame>>
  PROVE  Cache'
<1> SUFFICES ASSUME NEW e \in tlb'
             PROVE  LET x == <<p, e.page>> IN
                      x \in VPages /\ (Mapped(x, e)' \/ Astray(x, e)')
  BY DEF Cache, Mapped, Astray
<1>1. /\ pte[<<p, v>>].present
      /\ \A y \in VPages :
           /\ pte'[y].present = pte[y].present /\ pte'[y].frame = pte[y].frame
           /\ y # <<p, v>> => pte'[y] = pte[y]
      /\ pte'[<<p, v>>].dirty = (pte[<<p, v>>].dirty \/ isDirty)
  BY Walked DEF Inv
<1>2. CASE e \in Tlb(p)
  <2>1. <<p, e.page>> \in VPages /\ (Mapped(<<p, e.page>>, e) \/ Astray(<<p, e.page>>, e))
    BY <1>2, TlbGood
  <2>2. pte[<<p, e.page>>].dirty => pte'[<<p, e.page>>].dirty
    BY <1>1, <2>1
  <2> QED BY <1>1, <2>1, <2>2 DEF Mapped, Astray
<1>3. CASE e = [page |-> v, frame |-> pte[<<p, v>>].frame, dirty |-> pte[<<p, v>>].dirty \/ isDirty]
  BY <1>1, <1>3 DEF Mapped
<1> QED BY <1>2, <1>3 DEF Walk

LEMMA LoadStep ==
  ASSUME Inv, NEW p \in Procs, NEW v \in Pages, <<p, v>> \in VPages, Load(p, v)
  PROVE  Inv'
<1>1. /\ pc[p] = "user" /\ cpu' = p /\ Walk(p, v, FALSE)
      /\ UNCHANGED <<mapVars, lockVars, pc, target, child, mem, disk, stored>>
  BY DEF Load, jobVars
<1>2. /\ pte' \in [VPages -> [frame : FrameNo, present : BOOLEAN, dirty : BOOLEAN]]
      /\ \A y \in VPages :
           /\ pte'[y].present = pte[y].present /\ pte'[y].frame = pte[y].frame
           /\ y # <<p, v>> => pte'[y] = pte[y]
      /\ pte'[<<p, v>>].dirty = pte[<<p, v>>].dirty
      /\ tlb' \in SUBSET [page : Pages, frame : FrameNo, dirty : BOOLEAN]
  <2>1. pte'[<<p, v>>].dirty = (pte[<<p, v>>].dirty \/ FALSE)
    BY <1>1, Walked DEF Inv
  <2>2. pte[<<p, v>>].dirty \in BOOLEAN
    BY DEF Inv, TypeOK
  <2> QED BY <1>1, <2>1, <2>2, Walked DEF Inv
<1>3. TypeOK'
  BY <1>1, <1>2, Constants DEF Inv, TypeOK, mapVars, lockVars
<1>4. Control' /\ Memory' /\ StopsOnlyWhenAllPinned'
  BY <1>1, <1>2, AccessStep
<1>5. Cache'
  BY <1>1, WalkCache DEF mapVars
<1>6. Data'
  <2>1. \A y \in VPages : pte'[y].dirty = pte[y].dirty
    BY <1>2
  <2>2. \A y \in VPages : Evicting(y)' <=> Evicting(y)
    BY <1>1 DEF Evicting, mapVars
  <2>3. \A y \in VPages : Content(y)' = Content(y)
    BY <1>1, <1>2, <2>2 DEF Content, mapVars
  <2> QED BY <1>1, <1>2, <2>1, <2>2, <2>3 DEF Inv, Data, CleanIsStored, Coherent
<1> QED BY <1>3, <1>4, <1>5, <1>6 DEF Inv

(* A store makes its page dirty and reaches no other page. *)
LEMMA StoreMapped ==
  ASSUME Inv, NEW p \in Procs, NEW v \in Pages, <<p, v>> \in VPages, NEW d \in Values,
         pc[p] = "user", cpu' = p,
         pte[<<p, v>>].present,
         mem' = [mem EXCEPT ![pte[<<p, v>>].frame] = d],
         stored' = [stored EXCEPT ![<<p, v>>] = d],
         pte' \in [VPages -> [frame : FrameNo, present : BOOLEAN, dirty : BOOLEAN]],
         \A y \in VPages :
           /\ pte'[y].present = pte[y].present /\ pte'[y].frame = pte[y].frame
           /\ y # <<p, v>> => pte'[y] = pte[y],
         pte'[<<p, v>>].dirty,
         UNCHANGED <<mapVars, lockVars, pc, target, child, disk>>
  PROVE  Data' /\ mem' \in [FrameNo -> Values]
<1> DEFINE x == <<p, v>>
<1>1. /\ pte[x].present
      /\ mem' = [mem EXCEPT ![pte[x].frame] = d]
      /\ stored' = [stored EXCEPT ![x] = d]
      /\ \A y \in VPages :
           /\ pte'[y].present = pte[y].present /\ pte'[y].frame = pte[y].frame
           /\ y # x => pte'[y] = pte[y]
      /\ pte'[x].dirty
  OBVIOUS
<1>2. x \in VPages
  OBVIOUS
<1>3. mem' \in [FrameNo -> Values]
  BY <1>1, <1>2 DEF Inv, TypeOK
<1>4. \A y \in VPages : Evicting(y)' <=> Evicting(y)
  BY DEF Evicting, mapVars
<1> HIDE DEF x
<1>7. /\ stored'[x] = d /\ \A y \in VPages : y # x => stored'[y] = stored[y]
      /\ pte[x].frame \in FrameNo /\ mem'[pte[x].frame] = d
  BY <1>1, <1>2 DEF Inv, TypeOK
<1>5. CleanIsStored'
  BY <1>1, <1>2, <1>4, <1>7 DEF Inv, Data, CleanIsStored
<1>6. ASSUME NEW y \in VPages \ Flaky PROVE Content(y)' = stored'[y]
  <2>1. CASE y = x
    BY <1>1, <1>2, <1>7, <2>1 DEF Content
  <2>2. CASE y # x
    <3>1. Content(y) = stored[y] /\ stored'[y] = stored[y]
      BY <1>1, <1>2, <2>2 DEF Inv, TypeOK, Data, Coherent
    <3>2. pte[x].frame \in FrameNo /\ mem \in [FrameNo -> Values]
      BY <1>1, <1>2 DEF Inv, TypeOK
    <3>3. CASE pte[y].present
      <4>1. pte[y].frame # pte[x].frame /\ pte[y].frame \in FrameNo
        BY <1>1, <1>2, <2>2, <3>3, Separate DEF Inv, TypeOK
      <4> QED BY <1>1, <3>1, <3>2, <3>3, <4>1 DEF Content
    <3>4. CASE ~pte[y].present
      <4>1. Evicting(y) => frame # pte[x].frame /\ frame \in FrameNo
        BY <1>1, <1>2, <2>2, Separate DEF Inv, TypeOK
      <4> QED BY <1>1, <1>4, <3>1, <3>2, <3>4, <4>1 DEF Content, mapVars
    <3> QED BY <3>3, <3>4
  <2> QED BY <2>1, <2>2
<1> QED BY <1>3, <1>5, <1>6 DEF Data, Coherent

(* A store through a withdrawn translation reaches a table or a page whose *)
(* transfer failed: none of the pages whose contents matter.               *)
LEMMA StoreAstray ==
  ASSUME Inv, NEW p \in Procs, NEW v \in Pages, <<p, v>> \in Flaky, NEW d \in Values,
         NEW f \in FrameNo, pageMap[f].pinned \/ pageMap[f].page \in Flaky,
         mem' = [mem EXCEPT ![f] = d],
         stored' = [stored EXCEPT ![<<p, v>>] = d],
         UNCHANGED <<mapVars, pte, pc, disk>>
  PROVE  Data' /\ mem' \in [FrameNo -> Values] /\ stored' \in [VPages -> Values]
<1> USE DEF Inv
<1>1. /\ mem' \in [FrameNo -> Values] /\ stored' \in [VPages -> Values]
      /\ \A g \in FrameNo : g # f => mem'[g] = mem[g]
      /\ \A y \in VPages \ Flaky : stored'[y] = stored[y]
  BY DEF TypeOK
<1>2. \A y \in VPages : Evicting(y)' <=> Evicting(y)
  BY DEF Evicting, mapVars
<1>3. CleanIsStored'
  BY <1>1, <1>2 DEF Data, CleanIsStored
<1>4. pageMap[f].page \notin VPages \ Flaky
  BY Constants DEF Memory, FramesOK
<1>5. ASSUME NEW y \in VPages \ Flaky PROVE Content(y)' = stored'[y]
  <2>1. Content(y) = stored[y]
    BY DEF Data, Coherent
  <2>2. CASE pte[y].present
    <3>1. pageMap[pte[y].frame] = [page |-> y, pinned |-> FALSE] /\ pte[y].frame \in FrameNo
      BY <2>2 DEF TypeOK, Memory, MapAgrees
    <3>2. pte[y].frame # f
      BY <1>4, <3>1
    <3> QED BY <1>1, <2>1, <2>2, <3>1, <3>2 DEF Content
  <2>3. CASE ~pte[y].present /\ Evicting(y)
    <3>1. frame # f /\ frame \in FrameNo
      BY <1>4, <2>3 DEF Evicting, TypeOK
    <3> QED BY <1>1, <1>2, <2>1, <2>3, <3>1 DEF Content, mapVars
  <2>4. CASE ~pte[y].present /\ ~Evicting(y)
    BY <1>1, <1>2, <2>1, <2>4 DEF Content
  <2> QED BY <2>2, <2>3, <2>4
<1> QED BY <1>1, <1>3, <1>5 DEF Data, Coherent

LEMMA StoreStep ==
  ASSUME Inv, NEW p \in Procs, NEW v \in Pages, <<p, v>> \in VPages, NEW d \in Values,
         Store(p, v, d)
  PROVE  Inv'
<1> DEFINE Effect ==
             /\ mem' \in [FrameNo -> Values]
             /\ pte' \in [VPages -> [frame : FrameNo, present : BOOLEAN, dirty : BOOLEAN]]
             /\ \A y \in VPages : pte'[y].present = pte[y].present /\ pte'[y].frame = pte[y].frame
             /\ tlb' \in SUBSET [page : Pages, frame : FrameNo, dirty : BOOLEAN]
             /\ Cache' /\ Data'
<1>1. /\ pc[p] = "user" /\ cpu' = p
      /\ stored' = [stored EXCEPT ![<<p, v>>] = d]
      /\ UNCHANGED <<mapVars, lockVars, pc, target, child, disk>>
  BY DEF Store, Running, jobVars
<1>2. ASSUME NEW e \in Cached(p, v), e.dirty, mem' = [mem EXCEPT ![e.frame] = d],
             UNCHANGED pte, Running(p)
      PROVE  Effect
  <2>1. e \in Tlb(p) /\ e.page = v /\ e \in [page : Pages, frame : FrameNo, dirty : BOOLEAN]
    BY <1>2 DEF Cached, Tlb, Inv, TypeOK
  <2>2. tlb' = Tlb(p) /\ cpu' = p
    BY <1>2 DEF Running
  <2>3. Cache'
    BY <1>1, <1>2, <2>2, CacheStep, Constants DEF mapVars
  <2>4. pte \in [VPages -> [frame : FrameNo, present : BOOLEAN, dirty : BOOLEAN]]
        /\ tlb \in SUBSET [page : Pages, frame : FrameNo, dirty : BOOLEAN]
    BY DEF Inv, TypeOK
  <2>5. Data' /\ mem' \in [FrameNo -> Values]
    <3>1. CASE Mapped(<<p, v>>, e)
      <4>1. pte[<<p, v>>].present /\ pte[<<p, v>>].frame = e.frame /\ pte[<<p, v>>].dirty
        BY <1>2, <3>1 DEF Mapped
      <4> QED BY <1>1, <1>2, <2>4, <4>1, StoreMapped
    <3>2. CASE Astray(<<p, v>>, e)
      <4>1. /\ <<p, v>> \in Flaky /\ e.frame \in FrameNo
            /\ pageMap[e.frame].pinned \/ pageMap[e.frame].page \in Flaky
        BY <1>2, <2>1, <3>2 DEF Astray
      <4> QED BY <1>1, <1>2, <4>1, StoreAstray
    <3> QED BY <1>1, <2>1, <3>1, <3>2, TlbGood
  <2> QED BY <1>2, <2>2, <2>3, <2>4, <2>5 DEF Tlb
<1>3. ASSUME Walk(p, v, TRUE), mem' = [mem EXCEPT ![pte[<<p, v>>].frame] = d]
      PROVE  Effect
  <2>1. pte'[<<p, v>>].dirty = (pte[<<p, v>>].dirty \/ TRUE)
    BY <1>3, Walked DEF Inv
  <2>2. /\ pte[<<p, v>>].present
        /\ pte' \in [VPages -> [frame : FrameNo, present : BOOLEAN, dirty : BOOLEAN]]
        /\ \A y \in VPages :
             /\ pte'[y].present = pte[y].present /\ pte'[y].frame = pte[y].frame
             /\ y # <<p, v>> => pte'[y] = pte[y]
        /\ tlb' \in SUBSET [page : Pages, frame : FrameNo, dirty : BOOLEAN]
    BY <1>3, Walked DEF Inv
  <2>3. Cache'
    BY <1>1, <1>3, WalkCache DEF mapVars
  <2>4. Data' /\ mem' \in [FrameNo -> Values]
    BY <1>1, <1>3, <2>1, <2>2, StoreMapped
  <2> QED BY <2>2, <2>3, <2>4
<1>4. Effect
  BY <1>2, <1>3 DEF Store
<1>5. TypeOK'
  <2>1. stored' \in [VPages -> Values]
    BY <1>1 DEF Inv, TypeOK
  <2> QED BY <1>1, <1>4, <2>1, Constants DEF Inv, TypeOK, mapVars, lockVars
<1>6. Control' /\ Memory' /\ StopsOnlyWhenAllPinned'
  BY <1>1, <1>4, AccessStep
<1> QED BY <1>4, <1>5, <1>6 DEF Inv

----------------------------------------------------------------------------
(* page_replacement_policy picks a page that is present, in that frame.    *)
LEMMA PageAllocEvictStep ==
  ASSUME Inv, NEW a \in Actors, PageAllocEvict(a)
  PROVE  Inv'
<1> USE Constants DEF Inv
<1>1. PICK f \in FrameNo :
        /\ f \in Unpinned /\ frame' = f /\ hand' = f
        /\ pte' = [pte EXCEPT ![pageMap[f].page].present = FALSE]
  BY DEF PageAllocEvict, Victim
<1>2. /\ pc[a] = "alloc" /\ dole = Frames
      /\ pc' = [pc EXCEPT ![a] = "evict"] /\ cpu' = a /\ tlb' = Tlb(a)
      /\ UNCHANGED <<pageMap, dole, taken, holder, waiting, target, child, mem, disk, stored>>
  BY DEF PageAllocEvict, Running, lockVars, jobVars
<1>3. /\ holder = a /\ \A b \in Actors : b # a => pc[b] \notin AtWork
      /\ \A b \in Actors : pc[b] # "halted"
  BY <1>2, Alone DEF AtWork
<1> DEFINE x == pageMap[f].page
<1>4. /\ x \in VPages /\ pte[x].present /\ pte[x].frame = f /\ f < dole
      /\ ~pageMap[f].pinned
  BY <1>1, <1>2, <1>3 DEF Memory, FramesOK, MapAgrees, AtWork, Unpinned
<1>5. /\ pte' \in [VPages -> [frame : FrameNo, present : BOOLEAN, dirty : BOOLEAN]]
      /\ ~pte'[x].present /\ pte'[x].dirty = pte[x].dirty
      /\ \A y \in VPages : y # x => pte'[y] = pte[y]
  <2>1. pte \in [VPages -> [frame : FrameNo, present : BOOLEAN, dirty : BOOLEAN]]
    BY DEF TypeOK
  <2>2. pte' = [pte EXCEPT ![x] = [@ EXCEPT !.present = FALSE]]
    BY <1>1
  <2> HIDE DEF x
  <2>3. /\ [pte[x] EXCEPT !.present = FALSE] \in
               [frame : FrameNo, present : BOOLEAN, dirty : BOOLEAN]
        /\ ~[pte[x] EXCEPT !.present = FALSE].present
        /\ [pte[x] EXCEPT !.present = FALSE].dirty = pte[x].dirty
    BY <1>4, <2>1
  <2> QED BY <1>4, <2>1, <2>2, <2>3
<1> HIDE DEF x
<1>6. TypeOK'
  BY <1>1, <1>2, <1>5 DEF TypeOK, Where, Tlb
<1>7. Control'
  <2>1. pc \in [Actors -> Where] /\ StoppedTogether /\ LockOK /\ TargetOK
    BY DEF TypeOK, Control
  <2>2. StoppedTogether'
    BY <1>2, <1>3, <2>1 DEF StoppedTogether
  <2>3. LockOK'
    BY <1>2, <1>3, <2>1 DEF LockOK, AtWork
  <2>4. TargetOK'
    <3>1. \A b \in Actors : target[b] \in VPages /\ ~pte[target[b]].present => ~pte'[target[b]].present
      BY <1>5
    <3>2. child \in [Actors -> Procs \cup {None}]
      BY DEF TypeOK
    <3>3. \A b \in Actors, where \in {"user", "none", "new", "idle", "reading"} :
            pc'[b] = where <=> pc[b] = where
      BY <1>2, <2>1
    <3>4. \A b \in Actors : pc'[b] \in InKernel <=> pc[b] \in InKernel
      BY <1>2, <2>1 DEF InKernel, AtWork
    <3> QED BY <1>2, <2>1, <3>1, <3>2, <3>3, <3>4 DEF TargetOK
  <2> QED BY <2>2, <2>3, <2>4 DEF Control
<1>8. \A b \in Actors : pc'[b] \in {"evict", "writing", "reading"} => b = a
  BY <1>2, <1>3 DEF TypeOK, AtWork
<1>9. pc'[a] = "evict"
  BY <1>2 DEF TypeOK
<1>10. Memory'
  <2>1. FramesOK'
    BY <1>2 DEF Memory, FramesOK, Unpinned
  <2>2. PickedOK'
    BY <1>1, <1>2, <1>4, <1>5, <1>8, <1>9 DEF PickedOK, x
  <2>3. \A y \in VPages : pte'[y].present => pageMap[pte'[y].frame] = [page |-> y, pinned |-> FALSE]
    BY <1>5 DEF Memory, MapAgrees
  <2>4. ASSUME NEW g \in Unpinned, g # f, g < dole
        PROVE  pte'[pageMap[g].page].present /\ pte'[pageMap[g].page].frame = g
    <3>1. /\ pageMap[g].page \in VPages /\ pte[pageMap[g].page].present
          /\ pte[pageMap[g].page].frame = g
      BY <1>2, <1>3, <2>4 DEF Memory, FramesOK, MapAgrees, AtWork
    <3> QED BY <1>4, <1>5, <2>4, <3>1
  <2>5. \A b \in Actors : pc'[b] \in AtWork => holder' = b
    BY <1>7 DEF Control, LockOK
  <2>6. Unpinned' = Unpinned
    BY <1>2 DEF Unpinned
  <2>7. MapAgrees'
    BY <1>1, <1>2, <1>9, <2>3, <2>4, <2>5, <2>6 DEF MapAgrees, AtWork
  <2> QED BY <2>1, <2>2, <2>7 DEF Memory
<1>11. Data'
  <2>1. \A y \in VPages : ~Evicting(y)
    BY <1>2, <1>3 DEF Evicting, AtWork
  <2>2. \A y \in VPages : Evicting(y)' <=> y = x
    BY <1>1, <1>2, <1>9 DEF Evicting, x
  <2>3. CleanIsStored'
    BY <1>2, <1>4, <1>5, <2>1, <2>2 DEF Data, CleanIsStored
  <2>4. \A y \in VPages : Content(y)' = Content(y)
    BY <1>1, <1>2, <1>4, <1>5, <2>1, <2>2 DEF Content
  <2> QED BY <1>2, <2>3, <2>4 DEF Data, Coherent
<1>12. Cache'
  <2> SUFFICES ASSUME a \in Procs, NEW e \in tlb'
               PROVE  LET y == <<a, e.page>> IN
                        y \in VPages /\ (Mapped(y, e)' \/ Leaving(y, e)' \/ Astray(y, e)')
    BY <1>2 DEF Cache, Mapped, Leaving, Astray
  <2> DEFINE y == <<a, e.page>>
  <2>1. cpu = a /\ e \in tlb
    BY <1>2 DEF Tlb
  <2>2. y \in VPages /\ (Mapped(y, e) \/ Astray(y, e))
    BY <1>2, <2>1 DEF Cache, Leaving
  <2>3. CASE Mapped(y, e) /\ y = x
    BY <1>1, <1>2, <1>4, <1>5, <1>9, <2>2, <2>3 DEF Mapped, Leaving, x
  <2>4. CASE Mapped(y, e) /\ y # x
    BY <1>5, <2>2, <2>4 DEF Mapped
  <2>5. ASSUME Astray(y, e) PROVE Astray(y, e)'
    <3>1. pageMap' = pageMap
      BY <1>2
    <3> QED BY <2>5, <3>1 DEF Astray
  <2> QED BY <2>2, <2>3, <2>4, <2>5 DEF y
<1>13. StopsOnlyWhenAllPinned'
  BY <1>2, <1>3, <1>9 DEF StopsOnlyWhenAllPinned, TypeOK, AtWork
<1> QED BY <1>6, <1>7, <1>10, <1>11, <1>12, <1>13

(* ASSERT2 and the endless loop: all frames are pinned, because frame 0    *)
(* is, and the page that was faulted on is not present.                    *)
LEMMA PageAllocFailStep ==
  ASSUME Inv, NEW a \in Actors, PageAllocFail(a)
  PROVE  Inv'
<1> USE Constants DEF Inv
<1>1. /\ pc[a] = "alloc" /\ cpu' = a /\ tlb' = Tlb(a)
      /\ UNCHANGED <<pageMap, dole, hand, frame, taken, holder, waiting, target, child, pte, mem, disk, stored>>
      /\ pc' = [b \in Actors |-> "halted"] \/ pc' = [pc EXCEPT ![a] = "spinning"]
  BY DEF PageAllocFail, Running, mapVars, lockVars, jobVars
<1>2. /\ holder = a /\ \A b \in Actors : b # a => pc[b] \notin AtWork
      /\ \A b \in Actors : pc[b] # "halted"
  BY <1>1, Alone DEF AtWork
<1>3. dole = Frames /\ \A f \in FrameNo : pageMap[f].pinned
  <2>1. ~NotAbsent(a)
    BY <1>1 DEF NotAbsent, Control, TargetOK, InKernel, AtWork
  <2>2. 0 \in FrameNo /\ pageMap[0].pinned
    BY DEF FrameNo, Memory, FramesOK
  <2>3. Unpinned \subseteq {0}
    BY <2>1 DEF PageAllocFail, Found
  <2> QED BY <2>1, <2>2, <2>3 DEF PageAllocFail, Unpinned
<1>4. TypeOK'
  <2>1. pc' \in [Actors -> Where]
    BY <1>1 DEF TypeOK, Where
  <2>2. cpu' \in Actors \cup {None} /\ tlb' \in SUBSET [page : Pages, frame : FrameNo, dirty : BOOLEAN]
    BY <1>1 DEF TypeOK, Tlb
  <2> QED BY <1>1, <2>1, <2>2 DEF TypeOK
<1>5. Control'
  <2>1. pc \in [Actors -> Where] /\ LockOK /\ TargetOK
    BY DEF TypeOK, Control
  <2>2. StoppedTogether'
    BY <1>1, <1>2, <2>1 DEF StoppedTogether
  <2>3. LockOK'
    BY <1>1, <1>2, <2>1 DEF LockOK, AtWork
  <2>4. TargetOK'
    <3>1. CASE pc' = [b \in Actors |-> "halted"]
      BY <1>1, <2>1, <3>1 DEF TargetOK, InKernel, AtWork
    <3>2. CASE pc' = [pc EXCEPT ![a] = "spinning"]
      <4>1. child \in [Actors -> Procs \cup {None}]
        BY DEF TypeOK
      <4>2. \A b \in Actors, where \in {"user", "none", "new", "idle", "reading"} :
              pc'[b] = where <=> pc[b] = where
        BY <1>1, <2>1, <3>2
      <4>3. \A b \in Actors : pc'[b] \in InKernel <=> pc[b] \in InKernel
        BY <1>1, <2>1, <3>2 DEF InKernel, AtWork
      <4> QED BY <1>1, <2>1, <4>1, <4>2, <4>3 DEF TargetOK
    <3> QED BY <1>1, <3>1, <3>2
  <2> QED BY <2>2, <2>3, <2>4 DEF Control
<1>6. Memory' /\ Data'
  <2>1. \A b \in Actors : pc'[b] \notin {"evict", "writing", "reading"}
                          /\ pc[b] \notin {"evict", "writing", "reading"}
    BY <1>1, <1>2 DEF TypeOK, AtWork
  <2> QED BY <1>1, <1>5, <2>1, QuietStep DEF Control
<1>7. Cache'
  BY <1>1, CacheStep
<1>8. StopsOnlyWhenAllPinned'
  BY <1>1, <1>3 DEF StopsOnlyWhenAllPinned
<1> QED BY <1>4, <1>5, <1>6, <1>7, <1>8

----------------------------------------------------------------------------
(* The lock after its release: as before, with another holder.             *)
LEMMA ReleaseControl ==
  ASSUME TypeOK, Control, NEW a \in Actors, pc[a] \in AtWork,
         NEW where \in [Actors -> Where], LockRelease(where),
         \A b \in Actors : Occurs(waiting, b) => where[b] = "blocked",
         \A b \in Actors : where[b] \notin AtWork /\ where[b] # "halted"
  PROVE  /\ LockOK' /\ StoppedTogether'
         /\ pc' \in [Actors -> Where]
         /\ waiting' \in Seq(Actors) /\ holder' \in Actors \cup {None}
         /\ \A b \in Actors :
              \/ pc'[b] = where[b]
              \/ pc'[b] = "alloc" /\ pc[b] = "blocked" /\ where[b] = "blocked"
<1>1. /\ pc' \in [Actors -> Where]
      /\ waiting' \in Seq(Actors) /\ holder' \in Actors \cup {None}
      /\ \A b \in Actors : b # holder' => pc'[b] = where[b]
      /\ holder' # None =>
           pc'[holder'] = "alloc" /\ pc[holder'] = "blocked" /\ where[holder'] = "blocked"
      /\ \A b \in Actors : Occurs(waiting', b) =>
           b # holder' /\ pc'[b] = "blocked" /\ pc[b] = "blocked" /\ Once(waiting', b)
  BY Released
<1>2. LockOK'
  BY <1>1, Constants DEF LockOK
<1>3. \A b \in Actors : pc'[b] # "halted"
  BY <1>1, Constants
<1>4. StoppedTogether'
  BY <1>3 DEF StoppedTogether
<1> QED BY <1>1, <1>2, <1>4, Constants

(* The frame that page_alloc hands out is in use by nobody: it was never   *)
(* used before, or its page has been taken from it.                        *)
FreeFrame(a, f) ==
  \/ pc[a] = "alloc" /\ f = dole /\ dole < Frames /\ dole' = dole + 1
  \/ pc[a] \in {"evict", "writing"} /\ f = frame /\ dole' = dole

LEMMA FrameIsFree ==
  ASSUME Inv, NEW a \in Actors, NEW f, FreeFrame(a, f)
  PROVE  /\ f \in FrameNo /\ f >= KernelFrames /\ f < dole' /\ dole' \in KernelFrames .. Frames
         /\ dole <= dole'
         /\ \A x \in VPages : pte[x].present => pte[x].frame # f
         /\ \A g \in Unpinned : g < dole' /\ g # f =>
              /\ pageMap[g].page \in VPages /\ pte[pageMap[g].page].present
              /\ pte[pageMap[g].page].frame = g
         /\ \A x \in VPages : pte[x].present => ~Evicting(x)
<1> USE Constants DEF Inv
<1>1. /\ pc[a] \in AtWork /\ dole \in Nat /\ KernelFrames <= dole /\ dole <= Frames
      /\ frame \in FrameNo
  BY DEF FreeFrame, AtWork, TypeOK
<1>2. \A b \in Actors : b # a => pc[b] \notin AtWork
  BY <1>1, Alone
<1>3. /\ f \in FrameNo /\ f >= KernelFrames /\ f < dole' /\ dole' \in KernelFrames .. Frames
      /\ dole <= dole'
  <2>1. CASE pc[a] = "alloc"
    BY <1>1, <2>1 DEF FreeFrame, FrameNo
  <2>2. CASE pc[a] # "alloc"
    <3>1. f = frame /\ dole' = dole /\ ~pageMap[frame].pinned /\ frame < dole
      BY <2>2 DEF FreeFrame, Memory, PickedOK
    <3>2. ~(f < KernelFrames)
      BY <1>1, <3>1 DEF Memory, FramesOK
    <3> QED BY <1>1, <3>1, <3>2 DEF FrameNo
  <2> QED BY <2>1, <2>2
<1>4. ASSUME NEW x \in VPages, pte[x].present
      PROVE  pte[x].frame # f /\ ~Evicting(x)
  <2>1. pageMap[pte[x].frame] = [page |-> x, pinned |-> FALSE]
    BY <1>4 DEF Memory, MapAgrees
  <2>2. pageMap[pte[x].frame].page = x
    BY <2>1
  <2>3. ~Evicting(x)
    BY <1>4 DEF Evicting, Memory, PickedOK
  <2>4. pte[x].frame # f
    <3>1. CASE pc[a] = "alloc"
      <4>1. f >= dole
        BY <1>1, <3>1 DEF FreeFrame
      <4> QED BY <1>3, <2>2, <4>1 DEF Memory, FramesOK
    <3>2. CASE pc[a] # "alloc"
      BY <1>4, <2>2, <3>2 DEF FreeFrame, Memory, PickedOK
    <3> QED BY <3>1, <3>2
  <2> QED BY <2>3, <2>4
<1>5. ASSUME NEW g \in Unpinned, g < dole', g # f
      PROVE  /\ pageMap[g].page \in VPages /\ pte[pageMap[g].page].present
             /\ pte[pageMap[g].page].frame = g
  <2>1. g < dole
    BY <1>1, <1>3, <1>5 DEF FreeFrame, Unpinned
  <2>2. \A b \in Actors : pc[b] \in {"evict", "writing", "reading"} => frame # g
    BY <1>2, <1>5 DEF FreeFrame, AtWork
  <2> QED BY <2>1, <2>2 DEF Memory, FramesOK, MapAgrees
<1> QED BY <1>3, <1>4, <1>5

(* What a frame that is handed out does to frames and contents: entry is   *)
(* what the page map now says of it.                                       *)
LEMMA HandOutMemory ==
  ASSUME Inv, NEW a \in Actors, NEW f, FreeFrame(a, f), NEW entry,
         frame' = f /\ pageMap' = [pageMap EXCEPT ![f] = entry],
         mem' = [mem EXCEPT ![f] = Zero],
         UNCHANGED <<hand, pte, stored>>,
         disk' \in [VPages -> Values],
         \A x \in VPages \ Flaky : disk'[x] = IF Evicting(x) THEN stored[x] ELSE disk[x],
         LockOK',
         \A b \in Actors : pc'[b] \notin {"evict", "writing"},
         \A b \in Actors : pc'[b] = "reading" =>
           entry = [page |-> target'[b], pinned |-> FALSE],
         \/ entry = NoPage
         \/ \E x \in VPages, b \in Actors :
              entry = [page |-> x, pinned |-> FALSE] /\ pc'[b] = "reading"
  PROVE  Memory' /\ Data'
<1> USE Constants DEF Inv
<1>1. /\ f \in FrameNo /\ f >= KernelFrames /\ f < dole' /\ dole' \in KernelFrames .. Frames
      /\ dole <= dole'
      /\ \A x \in VPages : pte[x].present => pte[x].frame # f
      /\ \A g \in Unpinned : g < dole' /\ g # f =>
           /\ pageMap[g].page \in VPages /\ pte[pageMap[g].page].present
           /\ pte[pageMap[g].page].frame = g
      /\ \A x \in VPages : pte[x].present => ~Evicting(x)
  BY FrameIsFree
<1>2. /\ pageMap'[f] = entry
      /\ \A g \in FrameNo : g # f => pageMap'[g] = pageMap[g] /\ mem'[g] = mem[g]
  BY <1>1 DEF TypeOK
<1>3. /\ entry.pinned => entry.page = None
      /\ ~entry.pinned => entry.page \in VPages
  BY DEF NoPage
<1>0. dole \in Nat
  BY DEF TypeOK
<1>4. FramesOK'
  <2>1. \A g \in FrameNo : pageMap'[g].pinned => pageMap'[g].page = None
    BY <1>2, <1>3 DEF Memory, FramesOK
  <2>2. \A g \in FrameNo : g < KernelFrames => pageMap'[g].pinned
    BY <1>1, <1>2 DEF Memory, FramesOK
  <2>3. \A g \in FrameNo : g >= dole' => pageMap'[g].page = None
    BY <1>1, <1>2, <1>0 DEF Memory, FramesOK
  <2>4. \A g \in FrameNo : ~pageMap'[g].pinned /\ g < dole' => pageMap'[g].page \in VPages
    BY <1>1, <1>2, <1>3 DEF Unpinned
  <2> QED BY <2>1, <2>2, <2>3, <2>4 DEF FramesOK, Unpinned
<1>5. PickedOK'
  BY <1>2 DEF PickedOK
<1>6. MapAgrees'
  <2>1. ASSUME NEW x \in VPages, pte'[x].present
        PROVE  pageMap'[pte'[x].frame] = [page |-> x, pinned |-> FALSE]
    <3>1. /\ pageMap[pte[x].frame] = [page |-> x, pinned |-> FALSE]
          /\ pte[x].frame \in FrameNo /\ pte[x].frame # f
      BY <1>1, <2>1 DEF TypeOK, Memory, MapAgrees
    <3> QED BY <1>2, <3>1
  <2>2. ASSUME NEW g \in FrameNo, ~pageMap'[g].pinned, g < dole'
        PROVE  \/ pte'[pageMap'[g].page].present /\ pte'[pageMap'[g].page].frame = g
               \/ \E b \in Actors : pc'[b] \in {"evict", "writing", "reading"} /\ frame' = g
    BY <1>1, <1>2, <2>2 DEF Unpinned, NoPage
  <2>3. \A b \in Actors : pc'[b] \in AtWork => holder' = b
    BY DEF LockOK
  <2> QED BY <2>1, <2>2, <2>3 DEF MapAgrees, Unpinned, AtWork
<1>7. Data'
  <2>1. \A x \in VPages : ~Evicting(x)'
    BY DEF Evicting
  <2>2. \A x \in VPages \ Flaky : pte[x].present => disk'[x] = disk[x]
    BY <1>1
  <2>3. CleanIsStored'
    BY <2>1, <2>2 DEF Data, CleanIsStored
  <2>4. ASSUME NEW x \in VPages \ Flaky PROVE Content(x)' = stored[x]
    <3>1. Content(x) = stored[x]
      BY DEF Data, Coherent
    <3>2. CASE pte[x].present
      <4>1. pte[x].frame \in FrameNo /\ pte[x].frame # f
        BY <1>1, <3>2 DEF TypeOK
      <4> QED BY <1>2, <3>1, <3>2, <4>1 DEF Content
    <3>3. CASE ~pte[x].present
      BY <2>1, <3>1, <3>3 DEF Content
    <3> QED BY <3>2, <3>3
  <2> QED BY <2>3, <2>4 DEF Data, Coherent
<1> QED BY <1>4, <1>5, <1>6, <1>7 DEF Memory

(* And to the translations its owner goes on with: those of the page that  *)
(* was in the frame are now astray.                                        *)
LEMMA HandOutCache ==
  ASSUME Inv, NEW a \in Actors, NEW f, FreeFrame(a, f), NEW entry,
         frame' = f /\ pageMap' = [pageMap EXCEPT ![f] = entry], pte' = pte,
         pc[a] = "evict" => ~pte[pageMap[frame].page].dirty,
         \/ cpu' = None
         \/ cpu' = a /\ tlb' = Tlb(a) /\ (entry.pinned \/ entry.page \in Flaky)
  PROVE  Cache'
<1> USE Constants
<1> SUFFICES ASSUME a \in Procs, cpu' = a, tlb' = Tlb(a), entry.pinned \/ entry.page \in Flaky,
                    NEW e \in tlb'
             PROVE  LET x == <<a, e.page>> IN
                      x \in VPages /\ (Mapped(x, e)' \/ Leaving(x, e)' \/ Astray(x, e)')
  BY DEF Cache, Mapped, Leaving, Astray
<1> DEFINE x == <<a, e.page>>
<1>1. cpu = a /\ e \in tlb
  BY DEF Tlb
<1>2. x \in VPages /\ (Mapped(x, e) \/ Leaving(x, e) \/ Astray(x, e))
  BY <1>1 DEF Inv, Cache
<1>3. f \in FrameNo /\ \A y \in VPages : pte[y].present => pte[y].frame # f
  BY FrameIsFree
<1>4. /\ pageMap'[f] = entry
      /\ \A g \in FrameNo : g # f => pageMap'[g] = pageMap[g]
      /\ e.frame \in FrameNo
  BY <1>1, <1>3 DEF Inv, TypeOK
<1>5. CASE Mapped(x, e)
  BY <1>2, <1>5 DEF Mapped
<1>6. CASE Leaving(x, e)
  <2>1. e.frame = f /\ (e.dirty => x \in Flaky)
    BY <1>1, <1>6 DEF Leaving, FreeFrame
  <2>2. Astray(x, e)'
    BY <1>4, <2>1 DEF Astray
  <2> QED BY <1>2, <2>2
<1>7. CASE Astray(x, e)
  <2>1. (e.dirty => x \in Flaky) /\ (pageMap[e.frame].pinned \/ pageMap[e.frame].page \in Flaky)
    BY <1>7 DEF Astray
  <2>2. pageMap'[e.frame].pinned \/ pageMap'[e.frame].page \in Flaky
    BY <1>4, <2>1
  <2>3. Astray(x, e)'
    BY <2>1, <2>2 DEF Astray
  <2> QED BY <1>2, <2>3
<1> QED BY <1>2, <1>5, <1>6, <1>7 DEF x

(* page_alloc ends for a fault handler, which goes on to read the page.    *)
LEMMA HandOutFault ==
  ASSUME Inv, NEW a \in Actors, child[a] = None, NEW f, FreeFrame(a, f), HandOut(a, f),
         ~pte[target[a]].present, UNCHANGED <<hand, pte, stored>>,
         pc[a] = "evict" => ~pte[pageMap[frame].page].dirty,
         disk' \in [VPages -> Values],
         \A x \in VPages \ Flaky : disk'[x] = IF Evicting(x) THEN stored[x] ELSE disk[x]
  PROVE  Inv'
<1> USE Constants DEF Inv
<1> DEFINE entry == [page |-> target[a], pinned |-> FALSE]
<1>1. /\ pageMap' = [pageMap EXCEPT ![f] = entry]
      /\ pc' = [pc EXCEPT ![a] = "reading"]
      /\ \/ cpu' = None /\ tlb' = {}
         \/ cpu' = a /\ tlb' = Tlb(a) /\ entry.page \in Flaky
      /\ frame' = f /\ mem' = [mem EXCEPT ![f] = Zero]
      /\ UNCHANGED <<taken, target, child, holder, waiting>>
  BY DEF HandOut, Transfer, Yield, Running, lockVars
<1>2. /\ pc[a] \in {"alloc", "evict", "writing"} /\ pc[a] \in AtWork
      /\ target[a] \in VPages /\ f \in FrameNo /\ dole' \in KernelFrames .. Frames
  <2>1. pc[a] \in {"alloc", "evict", "writing"}
    BY DEF FreeFrame
  <2>2. target[a] \in VPages
    BY <2>1 DEF Control, TargetOK, InKernel, AtWork
  <2> QED BY <2>1, <2>2, FrameIsFree DEF AtWork
<1>3. /\ holder = a /\ \A b \in Actors : b # a => pc[b] \notin AtWork
      /\ \A b \in Actors : pc[b] # "halted"
  BY <1>2, Alone
<1>4. TypeOK'
  <2>1. pageMap' \in [FrameNo -> [page : VPages \cup {None}, pinned : BOOLEAN]]
        /\ mem' \in [FrameNo -> Values]
    BY <1>1, <1>2 DEF TypeOK
  <2>2. tlb' \in SUBSET [page : Pages, frame : FrameNo, dirty : BOOLEAN] /\ cpu' \in Actors \cup {None}
    BY <1>1 DEF TypeOK, Tlb
  <2> QED BY <1>1, <1>2, <2>1, <2>2 DEF TypeOK, Where
<1>5. Control'
  <2>1. pc \in [Actors -> Where] /\ child \in [Actors -> Procs \cup {None}] /\ LockOK /\ TargetOK
    BY DEF TypeOK, Control
  <2>2. StoppedTogether'
    BY <1>1, <1>3, <2>1 DEF StoppedTogether
  <2>3. LockOK'
    BY <1>1, <1>2, <1>3, <2>1 DEF LockOK, AtWork
  <2>4. TargetOK'
    <3>1. \A b \in Actors, where \in {"user", "none", "new", "idle"} : pc'[b] = where <=> pc[b] = where
      BY <1>1, <1>2, <2>1
    <3>2. \A b \in Actors : pc'[b] \in InKernel <=> pc[b] \in InKernel
      BY <1>1, <1>2, <2>1 DEF InKernel, AtWork
    <3>3. \A b \in Actors : pc'[b] = "reading" => b = a
      BY <1>1, <1>3, <2>1 DEF AtWork
    <3> QED BY <1>1, <2>1, <3>1, <3>2, <3>3 DEF TargetOK
  <2> QED BY <2>2, <2>3, <2>4 DEF Control
<1>6. Memory' /\ Data'
  <2>1. \A b \in Actors : pc'[b] \notin {"evict", "writing"} /\ (pc'[b] = "reading" <=> b = a)
    BY <1>1, <1>2, <1>3 DEF TypeOK, AtWork
  <2>2. \A b \in Actors : pc'[b] = "reading" => entry = [page |-> target'[b], pinned |-> FALSE]
    BY <1>1, <2>1
  <2>3. \E x \in VPages, b \in Actors : entry = [page |-> x, pinned |-> FALSE] /\ pc'[b] = "reading"
    BY <1>2, <2>1
  <2>4. LockOK'
    BY <1>5 DEF Control
  <2> HIDE DEF entry
  <2> QED BY <1>1, <2>1, <2>2, <2>3, <2>4, HandOutMemory
<1>7. Cache'
  <2> HIDE DEF entry
  <2> QED BY <1>1, HandOutCache
<1>8. StopsOnlyWhenAllPinned'
  <2>1. \A b \in Actors : pc'[b] \notin {"halted", "spinning"}
    BY <1>1, <1>2, <1>3 DEF TypeOK, AtWork
  <2> QED BY <2>1 DEF StopsOnlyWhenAllPinned
<1> QED BY <1>4, <1>5, <1>6, <1>7, <1>8

(* For setup_page_table, which pins the frame and allocates the next one,  *)
(* or maps them all and lets the process start.                            *)
LEMMA HandOutCreate ==
  ASSUME Inv, NEW a \in Actors, child[a] # None, NEW f, FreeFrame(a, f), HandOut(a, f),
         UNCHANGED <<hand, pte, stored>>,
         pc[a] = "evict" => ~pte[pageMap[frame].page].dirty,
         disk' \in [VPages -> Values],
         \A x \in VPages \ Flaky : disk'[x] = IF Evicting(x) THEN stored[x] ELSE disk[x]
  PROVE  Inv'
<1> USE Constants DEF Inv
<1> DEFINE more == pc' = [pc EXCEPT ![a] = "alloc"] /\ taken' = taken + 1
                     /\ UNCHANGED <<child, holder, waiting>>
           where == [pc EXCEPT ![a] = Home(a), ![child[a]] = "user"]
           done == LockRelease(where) /\ taken' = 0 /\ child' = [child EXCEPT ![a] = None]
           Effect ==
             /\ pc' \in [Actors -> Where] /\ taken' \in Nat
             /\ holder' \in Actors \cup {None} /\ waiting' \in Seq(Actors)
             /\ child' \in [Actors -> Procs \cup {None}]
             /\ LockOK' /\ StoppedTogether' /\ TargetOK'
             /\ \A b \in Actors :
                  pc'[b] \notin {"evict", "writing", "reading", "spinning", "halted"}
<1>1. /\ pageMap' = [pageMap EXCEPT ![f] = NoPage]
      /\ cpu' = a /\ tlb' = Tlb(a) /\ target' = target
      /\ frame' = f /\ mem' = [mem EXCEPT ![f] = Zero]
      /\ more \/ done
  BY DEF HandOut, Running, lockVars
<1>2. /\ pc[a] \in {"alloc", "evict", "writing"} /\ pc[a] \in AtWork
      /\ child[a] \in Procs /\ pc[child[a]] = "new"
      /\ f \in FrameNo /\ dole' \in KernelFrames .. Frames
  <2>1. pc[a] \in {"alloc", "evict", "writing"}
    BY DEF FreeFrame
  <2>2. child[a] \in Procs /\ pc[child[a]] = "new"
    BY <2>1 DEF TypeOK, Control, TargetOK, InKernel, AtWork
  <2> QED BY <2>1, <2>2, FrameIsFree DEF AtWork
<1>3. /\ holder = a /\ ~Occurs(waiting, a)
      /\ \A b \in Actors : b # a => pc[b] \notin AtWork
      /\ \A b \in Actors : pc[b] # "halted"
  BY <1>2, Alone
<1>4. pc \in [Actors -> Where] /\ child \in [Actors -> Procs \cup {None}] /\ LockOK /\ TargetOK
  BY DEF TypeOK, Control
<1>5. ASSUME more PROVE Effect
  <2>1. /\ pc' \in [Actors -> Where] /\ holder' \in Actors \cup {None} /\ waiting' \in Seq(Actors)
        /\ taken' \in Nat
    BY <1>4, <1>5 DEF TypeOK, Where
  <2>2. LockOK' /\ StoppedTogether'
    BY <1>2, <1>3, <1>4, <1>5 DEF LockOK, StoppedTogether, AtWork
  <2>3. TargetOK'
    <3>1. \A b \in Actors, w \in {"user", "none", "new", "idle", "reading"} : pc'[b] = w => pc[b] = w
      BY <1>2, <1>4, <1>5
    <3>2. \A b \in Actors : pc[b] = "new" => pc'[b] = "new"
      BY <1>2, <1>4, <1>5
    <3>3. \A b \in Actors : pc'[b] \in InKernel => pc[b] \in InKernel
      BY <1>2, <1>4, <1>5 DEF InKernel, AtWork
    <3>4. UNCHANGED <<child, target, pte>>
      BY <1>1, <1>5
    <3> HIDE DEF more
    <3> QED BY <1>4, <3>1, <3>2, <3>3, <3>4 DEF TargetOK
  <2>4. \A b \in Actors : pc'[b] \notin {"evict", "writing", "reading", "spinning", "halted"}
    BY <1>2, <1>3, <1>4, <1>5 DEF AtWork
  <2> QED BY <1>4, <1>5, <2>1, <2>2, <2>3, <2>4
<1>6. ASSUME done PROVE Effect
  <2>1. /\ where \in [Actors -> Where]
        /\ where[a] = Home(a) /\ where[child[a]] = "user"
        /\ \A b \in Actors : b # a /\ b # child[a] => where[b] = pc[b]
    BY <1>2, <1>4 DEF Where, Home, AtWork
  <2>2. LockRelease(where) /\ taken' = 0 /\ child' = [child EXCEPT ![a] = None]
    BY <1>6
  <2> HIDE DEF where
  <2>3. \A b \in Actors : Occurs(waiting, b) => where[b] = "blocked"
    BY <1>2, <1>3, <1>4, <2>1 DEF LockOK
  <2>4. \A b \in Actors : where[b] \notin AtWork /\ where[b] # "halted"
    BY <1>3, <2>1 DEF AtWork, Home
  <2>5. /\ LockOK' /\ StoppedTogether'
        /\ pc' \in [Actors -> Where]
        /\ waiting' \in Seq(Actors) /\ holder' \in Actors \cup {None}
        /\ \A b \in Actors :
             \/ pc'[b] = where[b]
             \/ pc'[b] = "alloc" /\ pc[b] = "blocked" /\ where[b] = "blocked"
    BY <1>2, <2>1, <2>2, <2>3, <2>4, ReleaseControl
  <2>6. /\ child' \in [Actors -> Procs \cup {None}]
        /\ child'[a] = None /\ \A b \in Actors : b # a => child'[b] = child[b]
    BY <1>4, <2>2
  <2>7. \A b \in Actors : pc'[b] \notin {"evict", "writing", "reading", "spinning", "halted"}
    BY <2>4, <2>5 DEF AtWork
  <2>8. pc'[a] = Home(a) /\ pc'[child[a]] = "user" /\ child[child[a]] = None
    BY <1>2, <1>4, <2>1, <2>5 DEF Home, TargetOK
  <2>9. \A b \in Actors : pc'[b] \in InKernel => pc[b] \in InKernel /\ b # a
    BY <1>2, <2>1, <2>5, <2>8 DEF InKernel, AtWork, Home
  <2>10. \A b \in Actors : b # a /\ child[b] # None => child[b] # child[a]
    BY <1>2, <1>4 DEF TargetOK
  <2>11. \A b \in Actors : pc[b] = "new" /\ b # child[a] => pc'[b] = "new"
    BY <1>2, <2>1, <2>5 DEF AtWork
  <2>12. \A b \in Actors : b # a /\ b # child[a] /\ pc'[b] \in {"none", "new", "idle", "user", "reading"} =>
           pc[b] = pc'[b]
    BY <2>1, <2>5
  <2>13. TargetOK'
    <3>1. ASSUME NEW b \in Actors, pc'[b] \in InKernel
          PROVE  IF child'[b] = None THEN /\ b \in Procs /\ target'[b] \in VPages
                                          /\ target'[b][1] = b /\ ~pte'[target'[b]].present
                                     ELSE pc'[child'[b]] = "new"
      BY <1>1, <1>4, <2>6, <2>9, <2>10, <2>11, <3>1 DEF TargetOK
    <3>2. \A b \in Actors : pc'[b] \in {"none", "new", "idle", "user", "reading"} => child'[b] = None
      BY <1>2, <1>4, <2>6, <2>8, <2>12 DEF TargetOK
    <3>3. \A b, c \in Actors : child'[b] # None /\ child'[b] = child'[c] => b = c
      BY <1>4, <2>6 DEF TargetOK
    <3>4. pc'[Loader] \notin {"user", "none", "new"}
      BY <1>2, <1>4, <2>8, <2>12 DEF TargetOK, Home
    <3> QED BY <3>1, <3>2, <3>3, <3>4 DEF TargetOK
  <2> QED BY <2>2, <2>5, <2>6, <2>7, <2>13
<1>7. Effect
  BY <1>1, <1>5, <1>6
<1> HIDE DEF more, done, where
<1>8. TypeOK'
  <2>1. pageMap' \in [FrameNo -> [page : VPages \cup {None}, pinned : BOOLEAN]]
        /\ mem' \in [FrameNo -> Values]
    BY <1>1, <1>2 DEF TypeOK, NoPage
  <2>2. tlb' \in SUBSET [page : Pages, frame : FrameNo, dirty : BOOLEAN]
    BY <1>1 DEF TypeOK, Tlb
  <2> QED BY <1>1, <1>2, <1>7, <2>1, <2>2 DEF TypeOK
<1>9. Memory' /\ Data'
  BY <1>1, <1>7, HandOutMemory
<1>10. Cache'
  <2>1. NoPage.pinned
    BY DEF NoPage
  <2> QED BY <1>1, <2>1, HandOutCache
<1>11. StopsOnlyWhenAllPinned'
  BY <1>7 DEF StopsOnlyWhenAllPinned
<1> QED BY <1>7, <1>8, <1>9, <1>10, <1>11 DEF Control

(* A frame never used before; a clean page dropped; a page written back.   *)
LEMMA PageAllocStep ==
  ASSUME Inv, NEW a \in Actors, PageAllocDole(a) \/ SwapOut(a) \/ WriteDone(a)
  PROVE  Inv'
<1> USE Constants DEF Inv
<1> DEFINE Saved ==
             /\ disk' \in [VPages -> Values]
             /\ \A x \in VPages \ Flaky :
                  disk'[x] = IF Evicting(x) THEN stored[x] ELSE disk[x]
<1>1. ASSUME NEW f, FreeFrame(a, f), HandOut(a, f), UNCHANGED <<hand, pte, stored>>, Saved,
             pc[a] = "evict" => ~pte[pageMap[frame].page].dirty
      PROVE  Inv'
  <2>1. CASE child[a] # None
    BY <1>1, <2>1, HandOutCreate
  <2>2. CASE child[a] = None
    <3>1. ~pte[target[a]].present
      BY <1>1, <2>2 DEF FreeFrame, Control, TargetOK, InKernel, AtWork
    <3> QED BY <1>1, <2>2, <3>1, HandOutFault
  <2> QED BY <2>1, <2>2
<1>2. CASE PageAllocDole(a)
  <2>1. FreeFrame(a, dole) /\ HandOut(a, dole) /\ UNCHANGED <<hand, pte, stored>> /\ pc[a] = "alloc"
    BY <1>2 DEF PageAllocDole, FreeFrame
  <2>2. disk' = disk /\ \A x \in VPages : ~Evicting(x)
    BY <1>2, Alone DEF PageAllocDole, Evicting, AtWork
  <2>3. Saved
    BY <2>2 DEF TypeOK
  <2> QED BY <1>1, <2>1, <2>3
<1>3. CASE SwapOut(a) /\ ~pte[pageMap[frame].page].dirty
  <2>1. FreeFrame(a, frame) /\ HandOut(a, frame) /\ UNCHANGED <<hand, pte, stored, disk>>
        /\ ~pte[pageMap[frame].page].dirty
    BY <1>3 DEF SwapOut, FreeFrame
  <2>2. Saved
    BY <1>3, <2>1 DEF TypeOK, Evicting, Data, CleanIsStored
  <2> QED BY <1>1, <2>1, <2>2
<1>4. CASE SwapOut(a) /\ pte[pageMap[frame].page].dirty
  <2>1. /\ pc[a] = "evict" /\ pc' = [pc EXCEPT ![a] = "writing"]
        /\ \/ cpu' = None /\ tlb' = {}
           \/ cpu' = a /\ tlb' = Tlb(a) /\ pageMap[frame].page \in Flaky
        /\ UNCHANGED <<pageMap, dole, hand, frame, taken, holder, waiting, target, child, pte, mem, disk, stored>>
    BY <1>4 DEF SwapOut, Transfer, Yield, Running, lockVars, jobVars
  <2>2. /\ holder = a /\ \A b \in Actors : b # a => pc[b] \notin AtWork
        /\ \A b \in Actors : pc[b] # "halted"
    BY <2>1, Alone DEF AtWork
  <2>3. TypeOK'
    BY <2>1 DEF TypeOK, Where, Tlb
  <2>4. Control'
    <3>1. pc \in [Actors -> Where] /\ LockOK /\ TargetOK
      BY DEF TypeOK, Control
    <3>2. StoppedTogether'
      BY <2>1, <2>2, <3>1 DEF StoppedTogether
    <3>3. LockOK'
      BY <2>1, <2>2, <3>1 DEF LockOK, AtWork
    <3>4. TargetOK'
      <4>1. child \in [Actors -> Procs \cup {None}]
        BY DEF TypeOK
      <4>2. \A b \in Actors, where \in {"user", "none", "new", "idle", "reading"} :
              pc'[b] = where <=> pc[b] = where
        BY <2>1, <3>1
      <4>3. \A b \in Actors : pc'[b] \in InKernel <=> pc[b] \in InKernel
        BY <2>1, <3>1 DEF InKernel, AtWork
      <4> QED BY <2>1, <3>1, <4>1, <4>2, <4>3 DEF TargetOK
    <3> QED BY <3>2, <3>3, <3>4 DEF Control
  <2>5. /\ pc'[a] = "writing" /\ \A b \in Actors : b # a => pc'[b] = pc[b] /\ pc[b] \notin AtWork
    BY <2>1, <2>2 DEF TypeOK
  <2>6. Memory'
    <3>1. FramesOK' /\ Unpinned' = Unpinned
      BY <2>1 DEF Memory, FramesOK, Unpinned
    <3>2. PickedOK'
      BY <2>1, <2>5 DEF Memory, PickedOK, AtWork
    <3>3. \A b \in Actors : pc'[b] \in AtWork => holder' = b
      BY <2>4 DEF Control, LockOK
    <3>4. MapAgrees'
      BY <2>1, <2>5, <3>1, <3>3 DEF Memory, MapAgrees, AtWork
    <3> QED BY <3>1, <3>2, <3>4 DEF Memory
  <2>7. Data'
    <3>1. \A x \in VPages : Evicting(x)' <=> Evicting(x)
      BY <2>1, <2>5 DEF Evicting
    <3> QED BY <2>1, <3>1 DEF Data, CleanIsStored, Coherent, Content
  <2>8. Cache'
    <3> SUFFICES ASSUME a \in Procs, cpu' = a, tlb' = Tlb(a), pageMap[frame].page \in Flaky,
                        NEW e \in tlb'
                 PROVE  LET x == <<a, e.page>> IN
                          x \in VPages /\ (Mapped(x, e)' \/ Leaving(x, e)' \/ Astray(x, e)')
      BY <2>1 DEF Cache, Mapped, Leaving, Astray
    <3>1. cpu = a /\ e \in tlb
      BY DEF Tlb
    <3> QED BY <2>1, <2>5, <3>1 DEF Cache, Mapped, Leaving, Astray
  <2>9. StopsOnlyWhenAllPinned'
    BY <2>1, <2>2, <2>5 DEF StopsOnlyWhenAllPinned, AtWork
  <2> QED BY <2>3, <2>4, <2>6, <2>7, <2>8, <2>9
<1>5. CASE WriteDone(a)
  <2> DEFINE x == pageMap[frame].page
  <2>1. /\ pc[a] = "writing" /\ FreeFrame(a, frame) /\ HandOut(a, frame)
        /\ UNCHANGED <<hand, pte, stored>>
        /\ disk' = [disk EXCEPT ![x] = mem[frame]] \/ (x \in Flaky /\ disk' = disk)
    BY <1>5 DEF WriteDone, FreeFrame
  <2>2. x \in VPages /\ frame \in FrameNo /\ ~pte[x].present
    BY <2>1 DEF TypeOK, Memory, PickedOK, FramesOK, Unpinned
  <2>3. \A y \in VPages : Evicting(y) <=> y = x
    BY <2>1 DEF Evicting
  <2>4. x \notin Flaky => mem[frame] = stored[x]
    BY <2>2, <2>3 DEF Data, Coherent, Content
  <2> HIDE DEF x
  <2>5. Saved
    BY <2>1, <2>2, <2>3, <2>4 DEF TypeOK
  <2> QED BY <1>1, <2>1, <2>5
<1> QED BY <1>2, <1>3, <1>4, <1>5

(* The page is in its frame; the process goes on, the next one gets the    *)
(* lock.                                                                   *)
LEMMA ReadDoneStep ==
  ASSUME Inv, NEW p \in Actors, ReadDone(p)
  PROVE  Inv'
<1> USE Constants DEF Inv
<1> DEFINE x == target[p]
           where == [pc EXCEPT ![p] = "user"]
<1>1. /\ pc[p] = "reading"
      /\ mem' = [mem EXCEPT ![frame] = disk[x]] \/ (x \in Flaky /\ mem' = mem)
      /\ pte' = [pte EXCEPT ![x] = [frame |-> frame, present |-> TRUE, dirty |-> FALSE]]
      /\ LockRelease(where)
      /\ cpu' = p /\ tlb' = Tlb(p)
      /\ target' = [target EXCEPT ![p] = None]
      /\ UNCHANGED <<pageMap, dole, hand, frame, taken, child, disk, stored>>
  BY DEF ReadDone, Running, mapVars
<1>2. /\ pc[p] \in AtWork /\ p \in Procs /\ x \in VPages /\ x[1] = p /\ ~pte[x].present
      /\ child[p] = None
  BY <1>1 DEF Control, TargetOK, InKernel, AtWork
<1>3. /\ holder = p /\ ~Occurs(waiting, p) /\ \A b \in Actors : b # p => pc[b] \notin AtWork
      /\ \A b \in Actors : pc[b] # "halted"
  BY <1>2, Alone
<1>4. pageMap[frame] = [page |-> x, pinned |-> FALSE]
  BY <1>1 DEF Memory, PickedOK
<1>5. pc \in [Actors -> Where] /\ LockOK /\ TargetOK
  BY DEF TypeOK, Control
<1>6. /\ where \in [Actors -> Where] /\ where[p] = "user"
      /\ \A b \in Actors : b # p => where[b] = pc[b]
  BY <1>2, <1>5 DEF Where
<1> HIDE DEF where
<1>7. /\ LockOK' /\ StoppedTogether'
      /\ pc' \in [Actors -> Where]
      /\ waiting' \in Seq(Actors) /\ holder' \in Actors \cup {None}
      /\ \A b \in Actors :
           \/ pc'[b] = where[b]
           \/ pc'[b] = "alloc" /\ pc[b] = "blocked" /\ where[b] = "blocked"
  <2>1. \A b \in Actors : Occurs(waiting, b) => where[b] = "blocked"
    BY <1>3, <1>5, <1>6 DEF LockOK
  <2>2. \A b \in Actors : where[b] \notin AtWork /\ where[b] # "halted"
    BY <1>3, <1>6 DEF AtWork
  <2> QED BY <1>1, <1>2, <1>6, <2>1, <2>2, ReleaseControl
<1>8. /\ \A b \in Actors : pc'[b] \notin {"evict", "writing", "reading", "spinning", "halted"}
      /\ \A b \in Actors : pc[b] \notin {"evict", "writing"}
      /\ \A b \in Actors : pc[b] = "reading" => b = p
  BY <1>1, <1>3, <1>6, <1>7 DEF AtWork
<1>9. /\ pte' \in [VPages -> [frame : FrameNo, present : BOOLEAN, dirty : BOOLEAN]]
      /\ pte'[x].present /\ pte'[x].frame = frame
      /\ \A y \in VPages : y # x => pte'[y] = pte[y]
  BY <1>1, <1>2 DEF TypeOK
<1>10. /\ target' \in [Actors -> VPages \cup {None}]
       /\ target'[p] = None
       /\ \A b \in Actors : b # p => target'[b] = target[b]
  BY <1>1 DEF TypeOK
<1>11. TypeOK'
  <2>1. mem' \in [FrameNo -> Values]
    <3>1. disk[x] \in Values /\ mem \in [FrameNo -> Values]
      BY <1>2 DEF TypeOK
    <3> QED BY <1>1, <3>1
  <2>2. tlb' \in SUBSET [page : Pages, frame : FrameNo, dirty : BOOLEAN]
    BY <1>1 DEF TypeOK, Tlb
  <2> QED BY <1>1, <1>2, <1>7, <1>9, <1>10, <2>1, <2>2 DEF TypeOK
<1>12. Control'
  <2>1. pc'[p] = "user" /\ \A b \in Actors : b # p /\ pc'[b] \in InKernel => pc[b] \in InKernel
    BY <1>3, <1>6, <1>7 DEF InKernel, AtWork
  <2>2. \A b \in Actors, w \in {"none", "new", "idle", "user", "reading"} :
          b # p => (pc'[b] = w <=> pc[b] = w)
    BY <1>6, <1>7
  <2>3. \A b \in Actors : child[b] # p
    <3>1. \A b \in Actors : child[b] # None => pc[child[b]] = "new" \/ pc[b] = "halted"
      BY <1>5, Constants DEF TypeOK, TargetOK, Where, InKernel, AtWork
    <3> QED BY <1>1, <1>3, <3>1
  <2>4. ASSUME NEW q \in Actors, pc'[q] \in InKernel
        PROVE  IF child'[q] = None THEN /\ q \in Procs /\ target'[q] \in VPages
                                        /\ target'[q][1] = q /\ ~pte'[target'[q]].present
                                   ELSE pc'[child'[q]] = "new"
    <3>1. q # p /\ target'[q] = target[q] /\ pc[q] \in InKernel
      BY <1>10, <2>1, <2>4 DEF InKernel, AtWork
    <3>2. CASE child[q] = None
      <4>1. q \in Procs /\ target[q] \in VPages /\ target[q][1] = q /\ ~pte[target[q]].present
        BY <1>5, <3>1, <3>2 DEF TargetOK
      <4> QED BY <1>1, <1>2, <1>9, <3>1, <3>2, <4>1
    <3>3. CASE child[q] # None
      <4>1. pc[child[q]] = "new" /\ child[q] \in Actors /\ child[q] # p
        BY <1>5, <2>3, <3>1, <3>3 DEF TypeOK, TargetOK
      <4> QED BY <1>1, <2>2, <3>3, <4>1
    <3> QED BY <3>2, <3>3
  <2>5. /\ pc'[Loader] \notin {"user", "none", "new"}
        /\ \A b \in Actors : pc'[b] \in {"none", "new", "idle", "user", "reading"} => child'[b] = None
        /\ \A b, c \in Actors : child'[b] # None /\ child'[b] = child'[c] => b = c
    BY <1>1, <1>2, <1>5, <2>2 DEF TargetOK
  <2>6. TargetOK'
    BY <2>4, <2>5 DEF TargetOK
  <2> QED BY <1>7, <2>6 DEF Control
<1>13. Memory'
  <2>1. FramesOK' /\ Unpinned' = Unpinned
    BY <1>1 DEF Memory, FramesOK, Unpinned
  <2>2. PickedOK'
    BY <1>8 DEF PickedOK
  <2>3. \A y \in VPages : pte'[y].present => pageMap[pte'[y].frame] = [page |-> y, pinned |-> FALSE]
    BY <1>4, <1>9 DEF Memory, MapAgrees
  <2>4. ASSUME NEW g \in Unpinned, g < dole
        PROVE  pte'[pageMap[g].page].present /\ pte'[pageMap[g].page].frame = g
    <3>1. CASE g = frame
      BY <1>4, <1>9, <3>1
    <3>2. CASE g # frame
      <4>1. /\ pageMap[g].page \in VPages /\ pte[pageMap[g].page].present
            /\ pte[pageMap[g].page].frame = g
        BY <2>4, <3>2 DEF Memory, FramesOK, MapAgrees
      <4> QED BY <1>2, <1>9, <4>1
    <3> QED BY <3>1, <3>2
  <2>5. \A b \in Actors : pc'[b] \in AtWork => holder' = b
    BY <1>7 DEF LockOK
  <2>6. MapAgrees'
    BY <1>1, <2>1, <2>3, <2>4, <2>5 DEF MapAgrees, AtWork
  <2> QED BY <2>1, <2>2, <2>6 DEF Memory
<1>14. Data'
  <2>1. \A y \in VPages : ~Evicting(y) /\ ~Evicting(y)'
    BY <1>8 DEF Evicting
  <2>2. x \notin Flaky => disk[x] = stored[x]
    BY <1>2, <2>1 DEF Data, Coherent, Content
  <2>3. CleanIsStored'
    BY <1>1, <1>9, <2>1, <2>2 DEF Data, CleanIsStored
  <2>4. ASSUME NEW y \in VPages \ Flaky PROVE Content(y)' = stored[y]
    <3>1. CASE y = x
      BY <1>1, <1>9, <2>2, <3>1 DEF Content, TypeOK
    <3>2. CASE y # x /\ pte[y].present
      <4>1. pageMap[pte[y].frame] = [page |-> y, pinned |-> FALSE] /\ pte[y].frame \in FrameNo
        BY <3>2 DEF TypeOK, Memory, MapAgrees
      <4>2. pte[y].frame # frame
        BY <1>4, <3>2, <4>1
      <4>3. mem[pte[y].frame] = stored[y]
        BY <3>2 DEF Data, Coherent, Content
      <4> QED BY <1>1, <1>9, <3>2, <4>1, <4>2, <4>3 DEF Content, TypeOK
    <3>3. CASE y # x /\ ~pte[y].present
      BY <1>1, <1>9, <2>1, <3>3 DEF Data, Coherent, Content
    <3> QED BY <3>1, <3>2, <3>3
  <2> QED BY <1>1, <2>3, <2>4 DEF Data, Coherent
<1>15. Cache'
  <2> SUFFICES ASSUME NEW e \in tlb'
               PROVE  LET y == <<p, e.page>> IN
                        y \in VPages /\ (Mapped(y, e)' \/ Leaving(y, e)' \/ Astray(y, e)')
    BY <1>1 DEF Cache, Mapped, Leaving, Astray
  <2> DEFINE y == <<p, e.page>>
  <2>1. cpu = p /\ e \in tlb
    BY <1>1 DEF Tlb
  <2>2. y \in VPages /\ (Mapped(y, e) \/ Astray(y, e))
    BY <1>1, <1>2, <2>1 DEF Cache, Leaving
  <2>3. CASE Mapped(y, e)
    BY <1>2, <1>9, <2>2, <2>3 DEF Mapped
  <2>4. ASSUME Astray(y, e) PROVE Astray(y, e)'
    <3>1. pageMap' = pageMap
      BY <1>1
    <3> QED BY <2>4, <3>1 DEF Astray
  <2> QED BY <2>2, <2>3, <2>4 DEF y
<1>16. StopsOnlyWhenAllPinned'
  BY <1>8 DEF StopsOnlyWhenAllPinned
<1> QED BY <1>11, <1>12, <1>13, <1>14, <1>15, <1>16

----------------------------------------------------------------------------
(* Each step keeps the invariant. *)
LEMMA InvStep ==
  ASSUME Inv, [Next]_vars
  PROVE  Inv'
<1>1. ASSUME NEW a \in Actors, Handle(a) PROVE Inv'
  BY <1>1, LockAcquireStep, PageAllocStep, PageAllocEvictStep, PageAllocFailStep, ReadDoneStep
     DEF Handle
<1>2. CASE Enter
  BY <1>2, CreateStep, LoadStep, FaultStep DEF Enter
<1>3. CASE StoreAny
  BY <1>3, StoreStep DEF StoreAny
<1>4. CASE UNCHANGED vars
  <2>1. UNCHANGED <<pageMap, dole, hand, frame, taken, pte, tlb, cpu, mem, disk, holder,
                    waiting, pc, target, child, stored>>
    BY <1>4 DEF vars, mapVars, hwVars, lockVars, jobVars
  <2>2. TypeOK' /\ Control'
    BY <2>1 DEF Inv, TypeOK, Control, StoppedTogether, LockOK, TargetOK
  <2>3. Memory'
    BY <2>1 DEF Inv, Memory, FramesOK, PickedOK, MapAgrees, Unpinned
  <2>4. Data'
    BY <2>1 DEF Inv, Data, CleanIsStored, Coherent, Content, Evicting
  <2>5. Cache'
    BY <2>1 DEF Inv, Cache, Mapped, Leaving, Astray
  <2>6. StopsOnlyWhenAllPinned'
    BY <2>1 DEF Inv, StopsOnlyWhenAllPinned
  <2> QED BY <2>2, <2>3, <2>4, <2>5, <2>6 DEF Inv
<1> QED BY <1>1, <1>2, <1>3, <1>4 DEF Next

(* The inductive invariant holds until a process wrecks the tables. *)
THEOREM Invariance == Spec => []Inv
<1>1. Inv /\ [Next]_vars => Inv'
  BY InvStep
<1> QED BY InitInv, <1>1, PTL DEF Spec

(* Where its page table or the disk has it, a page holds what its process  *)
(* last stored to it, unless a transfer of that page failed.               *)
THEOREM PagesKeepContents == Spec => []Coherent
<1>1. Inv => Coherent
  BY DEF Inv, Data
<1> QED BY Invariance, <1>1, PTL

(* Although invalidate_page removes another translation than it is called  *)
(* for, and although a process that loads another may go on without a      *)
(* switch, no store goes astray, and what a process reads of its page is   *)
(* what it last stored there, but for a clean page whose frame has become  *)
(* a table, or holds a page whose transfer failed.                         *)
THEOREM StoresAreKept == Spec => []StoresHitTheirPage
<1>1. ASSUME Inv PROVE StoresHitTheirPage
  <2> SUFFICES ASSUME cpu \in Procs, pc[cpu] = "user", NEW e \in tlb, <<cpu, e.page>> \notin Flaky
               PROVE  \/ Exact(cpu, e) /\ mem[e.frame] = stored[<<cpu, e.page>>]
                      \/ ~e.dirty /\ (pageMap[e.frame].pinned \/ pageMap[e.frame].page \in Flaky)
    BY DEF StoresHitTheirPage
  <2>1. e \in Tlb(cpu)
    BY DEF Tlb
  <2>2. /\ <<cpu, e.page>> \in VPages
        /\ Mapped(<<cpu, e.page>>, e) \/ Astray(<<cpu, e.page>>, e)
    BY <1>1, <2>1, TlbGood
  <2>3. CASE Mapped(<<cpu, e.page>>, e)
    BY <1>1, <2>2, <2>3 DEF Mapped, Exact, Inv, Data, Coherent, Content
  <2>4. CASE Astray(<<cpu, e.page>>, e)
    BY <2>4 DEF Astray
  <2> QED BY <2>2, <2>3, <2>4
<1> QED BY Invariance, <1>1, PTL

(* The page map and the page tables agree. *)
THEOREM MapCorrect == Spec => []MapAgrees
<1>1. Inv => MapAgrees
  BY DEF Inv, Memory
<1> QED BY Invariance, <1>1, PTL

(* A handler gives up only when every frame is pinned. *)
THEOREM StopsOnlyWhenFull == Spec => []StopsOnlyWhenAllPinned
<1>1. Inv => StopsOnlyWhenAllPinned
  BY DEF Inv
<1> QED BY Invariance, <1>1, PTL
=============================================================================
