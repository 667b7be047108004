------------------------------- MODULE Paging -------------------------------
(***************************************************************************)
(* memory.c of the P6 kernel: demand paging of process images, with one    *)
(* page map under one lock, and the parts of the machine it relies on: the *)
(* page table entries the CPU marks dirty, the TLB, and the disk transfers *)
(* during which other processes run.                                       *)
(*                                                                         *)
(* One CPU: an actor takes a step, and cpu is the actor that took the last *)
(* one.  When another actor goes on, or an actor goes on after it yielded, *)
(* dispatch() has loaded CR3 and the TLB is empty.  A process that exits   *)
(* leaves its frames as they are: it is one that takes no further step.    *)
(* Processes are created by a kernel thread and by other processes, with   *)
(* the system call loadproc; every image is loaded once, since it is also  *)
(* where its process is swapped to.                                        *)
(***************************************************************************)
EXTENDS Naturals, Sequences

CONSTANTS
  NProcs,        \* how many processes are created
  Pages,         \* page numbers in a process image
  VPages,        \* the pages of the images: pairs of a process and a number
  Values,        \* what a page may hold
  Zero,          \* what a frame holds after page_alloc
  Loader,        \* the kernel thread that creates the first process
  None,          \* no actor, no page
  Frames,        \* PAGEABLE_PAGES
  KernelFrames,  \* frames init_memory pins
  TableFrames,   \* frames setup_page_table pins for a process
  Flaky          \* pages whose transfers may fail, or end without a yield

Procs == 1 .. NProcs  \* in the order of their pids

ASSUME PagingAssumption ==
  /\ NProcs \in Nat
  /\ {Loader, None} \cap Procs = {} /\ Loader # None
  /\ VPages \subseteq Procs \X Pages /\ None \notin VPages
  /\ Zero \in Values
  /\ Frames \in Nat /\ KernelFrames \in 1 .. Frames - 1 /\ TableFrames \in Nat \ {0}
  /\ Flaky \subseteq VPages

VARIABLES
  pageMap,  \* page_map: the page in each frame (owner and vaddr), and pinned
  dole,     \* dole_ptr of page_alloc
  hand,     \* page of page_replacement_policy, the last victim
  pte,      \* page table entry of each page: frame, PE_P, PE_D
  tlb,      \* translations the CPU has cached
  cpu,      \* who took the last step; None after a yield
  holder,   \* who holds page_map_lock
  waiting,  \* who waits for it, first come first
  pc,       \* where each actor is
  target,   \* the page an actor has faulted on
  child,    \* the process an actor creates
  frame,    \* the frame the holder has picked
  taken,    \* frames setup_page_table has pinned so far
  mem,      \* what the frames hold
  disk,     \* what the process images on the disk hold
  stored,   \* history: what each process has last stored to each page
  wrecked   \* a process has overwritten the tables of another

lockVars == <<holder, waiting>>
mapVars  == <<pageMap, dole, hand, frame, taken>>
hwVars   == <<pte, tlb, cpu, mem, disk>>
jobVars  == <<target, child>>
vars     == <<mapVars, hwVars, lockVars, pc, jobVars, stored, wrecked>>

Actors  == Procs \cup {Loader}
FrameNo == 0 .. Frames - 1

NoPage == [page |-> None, pinned |-> TRUE]
Absent == [frame |-> 0, present |-> FALSE, dirty |-> FALSE]

(* init_memory has pinned the first frames; the images are on the disk.    *)
Init ==
  /\ pageMap = [f \in FrameNo |-> [page |-> None, pinned |-> f < KernelFrames]]
  /\ dole = KernelFrames
  /\ hand = Frames - 1          \* page = -1: the scan starts at 0
  /\ pte = [x \in VPages |-> Absent]
  /\ tlb = {}
  /\ cpu = None
  /\ holder = None
  /\ waiting = << >>
  /\ pc = [a \in Actors |-> IF a = Loader THEN "idle" ELSE "none"]
  /\ target = [a \in Actors |-> None]
  /\ child = [a \in Actors |-> None]
  /\ frame = 0
  /\ taken = 0
  /\ mem = [f \in FrameNo |-> Zero]
  /\ disk \in [VPages -> Values]
  /\ stored = disk
  /\ wrecked = FALSE

----------------------------------------------------------------------------
(* The machine.                                                            *)

(* Mutant: a switch leaves CR3, and with it the TLB, as it is. *)
TlbKept(a) == tlb

(* The translations actor a can use: none if it has been switched in since. *)
Tlb(a) == IF cpu = a THEN tlb ELSE {}

Running(a) == cpu' = a /\ tlb' = Tlb(a)

(* Yield while the controller works (uhci.c): CR3 is loaded in any case.   *)
Yield == cpu' = None /\ tlb' = {}

(* Actor a starts a transfer of page x.  One that never gets as far as the *)
(* controller (scsi.c:193, uhci.c:409) does not yield.                     *)
Transfer(a, x) ==
  \/ Yield
  \/ x \in Flaky /\ Running(a)

Cached(p, v) == {e \in Tlb(p) : e.page = v}

(* A walk of the page table puts the translation in the TLB.               *)
Walk(p, v, isDirty) ==
  LET x == <<p, v>> IN
    /\ pte[x].present
    /\ pte' = [pte EXCEPT ![x].dirty = @ \/ isDirty]
    /\ tlb' = (Tlb(p) \ Cached(p, v))
                \cup {[page |-> v, frame |-> pte[x].frame, dirty |-> pte[x].dirty \/ isDirty]}

(* Process p loads from page v.                                            *)
Load(p, v) ==
  /\ pc[p] = "user"
  /\ Cached(p, v) = {} /\ Walk(p, v, FALSE)
  /\ cpu' = p
  /\ UNCHANGED <<mapVars, lockVars, pc, jobVars, mem, disk, stored>>

(* Process p stores d to page v.  Unless the TLB has the page as dirty     *)
(* already the CPU walks the table to set PE_D.  A store that goes through *)
(* a stale translation to a pinned frame wrecks the tables of a process:   *)
(* what the machine does after it is not modelled.                         *)
Store(p, v, d) ==
  /\ pc[p] = "user"
  /\ \/ \E e \in Cached(p, v) :
          /\ e.dirty
          /\ mem' = [mem EXCEPT ![e.frame] = d]
          /\ wrecked' = pageMap[e.frame].pinned
          /\ UNCHANGED pte /\ Running(p)
     \/ /\ \A e \in Cached(p, v) : ~e.dirty
        /\ Walk(p, v, TRUE) /\ cpu' = p
        /\ mem' = [mem EXCEPT ![pte[<<p, v>>].frame] = d]
        /\ UNCHANGED wrecked
  /\ stored' = [stored EXCEPT ![<<p, v>>] = d]
  /\ UNCHANGED <<mapVars, lockVars, pc, jobVars, disk>>

(* Process p touches a page that is not present: exception_14.  A clean    *)
(* translation does not spare a store the walk, and is dropped by it.      *)
Fault(p, v) ==
  /\ pc[p] = "user"
  /\ \A e \in Cached(p, v) : ~e.dirty
  /\ ~pte[<<p, v>>].present
  /\ pc' = [pc EXCEPT ![p] = "lock"]
  /\ target' = [target EXCEPT ![p] = <<p, v>>]
  /\ cpu' = p /\ tlb' = Tlb(p) \ Cached(p, v)
  /\ UNCHANGED <<mapVars, lockVars, child, pte, mem, disk, stored>>

(* Where an actor is when it has no fault to handle and nobody to create.  *)
Home(a) == IF a = Loader THEN "idle" ELSE "user"

(* create_process up to the lock_acquire of setup_page_table: called by    *)
(* the kernel thread, or by a process that calls loadproc, which goes on   *)
(* in its own address space.                                               *)
Create(a, p) ==
  /\ pc[a] = Home(a) /\ pc[p] = "none"
  /\ \A q \in Procs : q < p => pc[q] # "none"    \* next_pid++
  /\ pc' = [pc EXCEPT ![a] = "lock", ![p] = "new"]
  /\ child' = [child EXCEPT ![a] = p]
  /\ Running(a)
  /\ UNCHANGED <<mapVars, lockVars, target, pte, mem, disk, stored>>

----------------------------------------------------------------------------
(* page_map_lock: the lock of module Monitor, which hands over in the      *)
(* order of arrival.                                                       *)
LockAcquire(a) ==
  /\ pc[a] = "lock"
  /\ IF holder = None
       THEN /\ holder' = a /\ pc' = [pc EXCEPT ![a] = "alloc"]
            /\ Running(a) /\ UNCHANGED waiting
       ELSE /\ waiting' = Append(waiting, a) /\ pc' = [pc EXCEPT ![a] = "blocked"]
            /\ Yield /\ UNCHANGED holder
  /\ UNCHANGED <<mapVars, jobVars, pte, mem, disk, stored>>

(* Mutant: lock_release wakes nobody. *)
LockReleaseOnly(where) == holder' = None /\ pc' = where /\ UNCHANGED waiting

(* lock_release; where is pc but for the actor that gets the lock.         *)
LockRelease(where) ==
  IF waiting = << >>
    THEN holder' = None /\ pc' = where /\ UNCHANGED waiting
    ELSE /\ holder' = Head(waiting) /\ waiting' = Tail(waiting)
         /\ pc' = [where EXCEPT ![Head(waiting)] = "alloc"]

----------------------------------------------------------------------------
(* page_replacement_policy *)
Unpinned == {f \in FrameNo : ~pageMap[f].pinned}

(* Mutant: the first loop stops one entry earlier. *)
FoundShort(past) == Unpinned \ {0, Frames - 1} # {}

(* The first loop looks at page_map[1 .. Frames]: it overlooks page 0, and *)
(* the word behind the array, past, is whatever the build puts there.      *)
Found(past) == Unpinned \ {0} # {} \/ ~past

(* The second loop goes round from the last victim to an unpinned frame.   *)
Ahead(f) == (f - hand - 1 + Frames) % Frames

Victim(f) == f \in Unpinned /\ \A g \in Unpinned : Ahead(f) <= Ahead(g)

(* page_alloc ends and its caller goes on: the frame is cleared and given  *)
(* to the fault handler, which starts to read the page, or pinned by       *)
(* setup_page_table, which goes on to the next one or maps them all.       *)
HandOut(a, f) ==
  /\ frame' = f
  /\ mem' = [mem EXCEPT ![f] = Zero]
  /\ IF child[a] = None
       THEN /\ pageMap' = [pageMap EXCEPT ![f] = [page |-> target[a], pinned |-> FALSE]]
            /\ pc' = [pc EXCEPT ![a] = "reading"]
            /\ Transfer(a, target[a])
            /\ UNCHANGED <<taken, child, lockVars>>
       ELSE /\ pageMap' = [pageMap EXCEPT ![f] = NoPage]
            /\ Running(a)
            /\ IF taken + 1 < TableFrames
                 THEN /\ pc' = [pc EXCEPT ![a] = "alloc"]
                      /\ taken' = taken + 1
                      /\ UNCHANGED <<child, lockVars>>
                 ELSE /\ LockRelease([pc EXCEPT ![a] = Home(a), ![child[a]] = "user"])
                      /\ taken' = 0
                      /\ child' = [child EXCEPT ![a] = None]
  /\ UNCHANGED target

(* page_protection_error: the page that caused the fault is present.       *)
NotAbsent(a) == child[a] = None /\ pte[target[a]].present

(* page_alloc with frames never used left.                                 *)
PageAllocDole(a) ==
  /\ pc[a] = "alloc" /\ ~NotAbsent(a)
  /\ dole < Frames
  /\ dole' = dole + 1
  /\ HandOut(a, dole)
  /\ UNCHANGED <<hand, pte, disk, stored>>

(* Mutant: the victim's page stays present. *)
PageAllocEvictMapped(a) ==
  /\ pc[a] = "alloc" /\ ~NotAbsent(a)
  /\ dole = Frames
  /\ \E past \in BOOLEAN : Found(past)
  /\ \E f \in FrameNo :
       /\ Victim(f)
       /\ hand' = f /\ frame' = f
       /\ UNCHANGED pte
  /\ pc' = [pc EXCEPT ![a] = "evict"]
  /\ Running(a)
  /\ UNCHANGED <<pageMap, dole, taken, lockVars, jobVars, mem, disk, stored>>

(* page_alloc with none left: the victim's page is no longer present.      *)
PageAllocEvict(a) ==
  /\ pc[a] = "alloc" /\ ~NotAbsent(a)
  /\ dole = Frames
  /\ \E past \in BOOLEAN : Found(past)
  /\ \E f \in FrameNo :
       /\ Victim(f)
       /\ hand' = f /\ frame' = f
       /\ pte' = [pte EXCEPT ![pageMap[f].page].present = FALSE]
  /\ pc' = [pc EXCEPT ![a] = "evict"]
  /\ Running(a)
  /\ UNCHANGED <<pageMap, dole, taken, lockVars, jobVars, mem, disk, stored>>

(* A handler that goes no further.  ASSERT2 halts the machine when the     *)
(* first loop has found nothing; when it has, but every frame is pinned,   *)
(* the second loop never ends, and the lock is never released.             *)
PageAllocFail(a) ==
  /\ pc[a] = "alloc"
  /\ NotAbsent(a) \/ dole = Frames
  /\ \E past \in BOOLEAN :
       \/ /\ NotAbsent(a) \/ ~Found(past)
          /\ pc' = [b \in Actors |-> "halted"]
       \/ /\ ~NotAbsent(a) /\ Found(past) /\ Unpinned = {}
          /\ pc' = [pc EXCEPT ![a] = "spinning"]
  /\ Running(a)
  /\ UNCHANGED <<mapVars, lockVars, jobVars, pte, mem, disk, stored>>

(* Mutant: dirty pages are dropped like clean ones. *)
SwapOutDrop(a) ==
  /\ pc[a] = "evict"
  /\ HandOut(a, frame)
  /\ UNCHANGED <<dole, hand, pte, disk, stored>>

(* The rest of page_swap_out: invalidate_page(vaddr) names its own         *)
(* parameter, not the page, so the TLB stays as it is.  A dirty page is    *)
(* written, others run meanwhile; a clean one is dropped.                  *)
SwapOut(a) ==
  /\ pc[a] = "evict"
  /\ IF pte[pageMap[frame].page].dirty
       THEN /\ pc' = [pc EXCEPT ![a] = "writing"]
            /\ Transfer(a, pageMap[frame].page)
            /\ UNCHANGED <<pageMap, frame, mem, taken, jobVars, lockVars>>
       ELSE HandOut(a, frame)
  /\ UNCHANGED <<dole, hand, pte, disk, stored>>

(* scsi_write returns; what it returns is not looked at.                   *)
WriteDone(a) ==
  LET f == frame
      x == pageMap[f].page
  IN
    /\ pc[a] = "writing"
    /\ \/ disk' = [disk EXCEPT ![x] = mem[f]]
       \/ x \in Flaky /\ UNCHANGED disk
    /\ HandOut(a, f)
    /\ UNCHANGED <<dole, hand, pte, stored>>

(* scsi_read returns; the page is mapped and the lock released.            *)
ReadDone(p) ==
  LET f == frame
      x == target[p]
  IN
    /\ pc[p] = "reading"
    /\ \/ mem' = [mem EXCEPT ![f] = disk[x]]
       \/ x \in Flaky /\ UNCHANGED mem
    /\ pte' = [pte EXCEPT ![x] = [frame |-> f, present |-> TRUE, dirty |-> FALSE]]
    /\ LockRelease([pc EXCEPT ![p] = "user"])
    /\ Running(p)
    /\ target' = [target EXCEPT ![p] = None]
    /\ UNCHANGED <<mapVars, child, disk, stored>>

----------------------------------------------------------------------------
(* Everything but a store leaves the tables as they are. *)
Handle(a) ==
  /\ ~wrecked /\ UNCHANGED wrecked
  /\ \/ LockAcquire(a) \/ PageAllocDole(a) \/ PageAllocEvict(a) \/ PageAllocFail(a)
     \/ SwapOut(a) \/ WriteDone(a) \/ ReadDone(a)

Enter ==
  /\ ~wrecked /\ UNCHANGED wrecked
  /\ \/ \E a \in Actors, p \in Procs : Create(a, p)
     \/ \E p \in Procs, v \in Pages : <<p, v>> \in VPages /\ (Load(p, v) \/ Fault(p, v))

StoreAny ==
  /\ ~wrecked
  /\ \E p \in Procs, v \in Pages, d \in Values : <<p, v>> \in VPages /\ Store(p, v, d)

Next == Enter \/ StoreAny \/ \E a \in Actors : Handle(a)

(* The ring of module Scheduler gives every runnable actor its turn, and a *)
(* transfer ends.                                                          *)
Fairness == \A a \in Actors : WF_vars(Handle(a))

Spec == Init /\ [][Next]_vars /\ Fairness

----------------------------------------------------------------------------
(* Where the content of page x is: in its frame as long as it is present   *)
(* or being written back, else on the disk.                                *)
Evicting(x) ==
  pageMap[frame].page = x /\ \E a \in Actors : pc[a] \in {"evict", "writing"}

Content(x) ==
  IF pte[x].present THEN mem[pte[x].frame]
  ELSE IF Evicting(x) THEN mem[frame]
  ELSE disk[x]

(* Whatever is swapped in and out, and by whom, a page of a process holds, *)
(* where its page table or the disk has it, what the process last stored   *)
(* to it, unless a transfer of that page failed: nobody else's page is     *)
(* ever written into it or it into another's (page_fault_handler,          *)
(* page_swap_out, page_swap_in).                                           *)
Coherent == \A x \in VPages \ Flaky : Content(x) = stored[x]

(* Translation e of process p is the one its page table holds.             *)
Exact(p, e) ==
  LET x == <<p, e.page>> IN
    pte[x].present /\ pte[x].frame = e.frame /\ (e.dirty => pte[x].dirty)

(* invalidate_page(vaddr) is called to remove the translation of a page    *)
(* from the TLB (memory.c:82, 505) and removes another one, but most       *)
(* transfers yield, and a switch empties the TLB.  What a process may go   *)
(* on with is a clean translation of a page of its own, to a frame that is *)
(* now a table of a process it has created, or holds a page whose transfer *)
(* did not yield.  So its stores reach the page they are meant for, and    *)
(* what it reads of a page is what it last stored there, unless it reads   *)
(* such a frame.                                                           *)
StoresHitTheirPage ==
  cpu \in Procs /\ pc[cpu] = "user" =>
    \A e \in tlb : LET x == <<cpu, e.page>> IN x \notin Flaky =>
      \/ Exact(cpu, e) /\ mem[e.frame] = stored[x]
      \/ ~e.dirty /\ (pageMap[e.frame].pinned \/ pageMap[e.frame].page \in Flaky)

(* The page map and the page tables tell the same story: a present page is *)
(* in the frame that page_map lists for it, and in no other, and a handler *)
(* at work is the only one and holds the lock.                             *)
MapAgrees ==
  /\ \A x \in VPages : pte[x].present => pageMap[pte[x].frame] = [page |-> x, pinned |-> FALSE]
  /\ \A f \in Unpinned : f < dole => LET x == pageMap[f].page IN
       \/ pte[x].present /\ pte[x].frame = f
       \/ \E a \in Actors : pc[a] \in {"evict", "writing", "reading"} /\ frame = f
  /\ \A a \in Actors :
       pc[a] \in {"alloc", "evict", "writing", "reading", "spinning"} => holder = a

(* The handler gives up only when every frame is pinned: the first loop of *)
(* page_replacement_policy overlooks page 0 and reads one entry too many   *)
(* (memory.c:432), which does no harm as long as a frame is free.          *)
StopsOnlyWhenAllPinned ==
  (\E a \in Actors : pc[a] \in {"spinning", "halted"}) =>
    dole = Frames /\ \A f \in FrameNo : pageMap[f].pinned

(* A page fault comes to an end, whoever else faults or is created in the  *)
(* meantime, and so does a loadproc, unless the frames are all pinned      *)
(* (page_fault_handler, setup_page_table) or the tables wrecked.           *)
FaultsEnd ==
  \A p \in {x[1] : x \in VPages} :
    pc[p] = "lock" ~> \/ pc[p] = "user" \/ wrecked
                      \/ dole = Frames /\ Unpinned = {}
=============================================================================
