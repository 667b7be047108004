----------------------------- MODULE Scheduler -----------------------------
(***************************************************************************)
(* scheduler.c, sleep.c and the pcb table of kernel.c: the ready queue is  *)
(* a doubly linked ring entered at current_running, a thread that blocks   *)
(* or exits is still in it until scheduler() walks past it, and pcbs that  *)
(* are not in use hang off next_free_pcb. Everything here runs in critical *)
(* regions, but scheduler() is a loop the clock ticks on under, and a pcb  *)
(* being set up is on no list while its creator runs with interrupts on.   *)
(***************************************************************************)
EXTENDS Naturals, Sequences, FiniteSets

CONSTANTS
  Pcbs,     \* the pcb table
  NULL,
  Boot,     \* the threads _start creates, in order
  Clock     \* the one among them (clock_thread) that only ever yields

ASSUME SchedulerAssumption ==
  /\ NULL \notin Pcbs
  /\ IsFiniteSet(Pcbs)
  /\ Boot \in Seq(Pcbs) /\ Len(Boot) > 0
  /\ \A i, j \in DOMAIN Boot : Boot[i] = Boot[j] => i = j
  /\ \E i \in DOMAIN Boot : Boot[i] = Clock

VARIABLES
  current,   \* current_running
  next,      \* pcb_t.next: ready queue, or free list
  previous,  \* pcb_t.previous
  status,    \* pcb_t.status
  free,      \* next_free_pcb
  waiting,   \* a waiting list block() and unblock() work on, oldest first
  due,       \* get_timer() has passed wakeup_time
  making,    \* the pcb each thread is setting up in create_process
  mode       \* "run", or "schedule" while scheduler() has the CPU

vars == <<current, next, previous, status, free, waiting, due, making, mode>>

BootPcbs == {Boot[i] : i \in DOMAIN Boot}

(* some enumeration of the table's free pcbs, as init_pcb_table links them *)
FreeOrder ==
  CHOOSE s \in [1..Cardinality(Pcbs \ BootPcbs) -> Pcbs \ BootPcbs] :
    \A i, j \in DOMAIN s : s[i] = s[j] => i = j

Place(s, p) == CHOOSE k \in DOMAIN s : s[k] = p

After(s, p, last) == IF Place(s, p) < Len(s) THEN s[Place(s, p) + 1] ELSE last

Before(s, p) == IF Place(s, p) > 1 THEN s[Place(s, p) - 1] ELSE s[Len(s)]

(* _start: init_pcb_table, create_thread for each thread, dispatch *)
Init ==
  /\ current = Boot[1]
  /\ next = [p \in Pcbs |-> IF p \in BootPcbs THEN After(Boot, p, Boot[1])
                                              ELSE After(FreeOrder, p, NULL)]
  /\ previous = [p \in Pcbs |-> IF p \in BootPcbs THEN Before(Boot, p) ELSE NULL]
  /\ status = [p \in Pcbs |-> IF p \in BootPcbs THEN "RUNNING" ELSE "EXITED"]
  /\ free = IF Pcbs = BootPcbs THEN NULL ELSE FreeOrder[1]
  /\ waiting = << >>
  /\ due = [p \in Pcbs |-> FALSE]
  /\ making = [p \in Pcbs |-> NULL]
  /\ mode = "run"

Set(p, s) == status' = [status EXCEPT ![p] = s]

(* Mutant: current_running's previous is not updated. *)
InsertHalf(p) ==
  /\ next' = [next EXCEPT ![p] = current, ![previous[current]] = p]
  /\ previous' = [previous EXCEPT ![p] = previous[current]]

(* Mutant: p is inserted behind current_running. *)
InsertAfterCurrent(p) ==
  /\ next' = [next EXCEPT ![p] = next[current], ![current] = p]
  /\ previous' = [previous EXCEPT ![p] = current, ![next[current]] = p]

(* insert_job(p, current_running) and insert_pcb: p becomes the last of    *)
(* the round that starts at current_running. *)
InsertBeforeCurrent(p) ==
  /\ next' = [next EXCEPT ![p] = current, ![previous[current]] = p]
  /\ previous' = [previous EXCEPT ![p] = previous[current], ![current] = p]

(* remove_job *)
Remove(p) ==
  /\ next' = [next EXCEPT ![previous[p]] = next[p]]
  /\ previous' = [previous EXCEPT ![next[p]] = previous[p]]

(* the code of current_running is running, not on its way to yield() *)
Running == mode = "run" /\ status[current] = "RUNNING"

----------------------------------------------------------------------------
(* yield, called by the thread or by irq0_entry *)
Yield ==
  /\ mode = "run"
  /\ mode' = "schedule"
  /\ UNCHANGED <<current, next, previous, status, free, waiting, due, making>>

(* block *)
Block ==
  /\ Running /\ current # Clock
  /\ Set(current, "BLOCKED")
  /\ waiting' = Append(waiting, current)
  /\ mode' = "schedule"
  /\ UNCHANGED <<current, next, previous, free, due, making>>

(* unblock, called by a thread or by an interrupt while it goes to sleep *)
Unblock ==
  /\ mode = "run"
  /\ waiting # << >>
  /\ Set(Head(waiting), "RUNNING")
  /\ waiting' = Tail(waiting)
  /\ InsertBeforeCurrent(Head(waiting))
  /\ UNCHANGED <<current, free, due, making, mode>>
(* exit *)
Exit ==
  /\ Running /\ current # Clock /\ making[current] = NULL
  /\ Set(current, "EXITED")
  /\ mode' = "schedule"
  /\ UNCHANGED <<current, next, previous, free, waiting, due, making>>

(* msleep up to its yield(); an interrupt may come first *)
GoToSleep ==
  /\ Running /\ current # Clock
  /\ Set(current, "SLEEPING")
  /\ due' = [due EXCEPT ![current] = FALSE]
  /\ UNCHANGED <<current, next, previous, free, waiting, making, mode>>

(* the time stamp counter passes p's wakeup_time *)
TimePasses(p) ==
  /\ status[p] = "SLEEPING" /\ ~due[p]
  /\ due' = [due EXCEPT ![p] = TRUE]
  /\ UNCHANGED <<current, next, previous, status, free, waiting, making, mode>>

(* create_process: alloc_pcb ... *)
AllocPcb ==
  /\ Running /\ current # Clock /\ making[current] = NULL
  /\ free # NULL  \* otherwise the kernel stops: "Running out of free PCB!"
  /\ making' = [making EXCEPT ![current] = free]
  /\ free' = next[free]
  /\ UNCHANGED <<current, next, previous, status, waiting, due, mode>>

(* ... and insert_pcb *)
InsertPcb ==
  /\ Running /\ making[current] # NULL
  /\ Set(making[current], "RUNNING")
  /\ InsertBeforeCurrent(making[current])
  /\ making' = [making EXCEPT ![current] = NULL]
  /\ UNCHANGED <<current, free, waiting, due, mode>>

----------------------------------------------------------------------------
(* One turn of scheduler()'s loop, which ends at a thread that is RUNNING; *)
(* dispatch() then runs it. *)
GoOn ==
  /\ current' = next[current]
  /\ mode' = IF status'[current'] = "RUNNING" THEN "run" ELSE "schedule"
  /\ UNCHANGED <<waiting, due, making>>

SchedulePass ==
  /\ mode = "schedule"
  /\ status[current] \in {"RUNNING", "SLEEPING"}
  /\ status' = [status EXCEPT ![current] =
                  IF @ = "SLEEPING" /\ ~due[current] THEN "SLEEPING" ELSE "RUNNING"]
  /\ GoOn
  /\ UNCHANGED <<next, previous, free>>

(* Without another thread the kernel halts: "No more jobs." *)
ScheduleBlocked ==
  /\ mode = "schedule"
  /\ status[current] = "BLOCKED" /\ next[current] # current
  /\ Remove(previous[next[current]])
  /\ UNCHANGED <<status, free>>
  /\ GoOn

(* Mutant: the pcb is not linked to the rest of the free list. *)
ScheduleExitedUnlinked ==
  /\ mode = "schedule"
  /\ status[current] = "EXITED" /\ next[current] # current
  /\ LET p == previous[next[current]] IN
       /\ next' = [next EXCEPT ![previous[p]] = next[p], ![p] = NULL]
       /\ previous' = [previous EXCEPT ![next[p]] = previous[p]]
       /\ free' = p
  /\ UNCHANGED status
  /\ GoOn

(* free_pcb *)
ScheduleExited ==
  /\ mode = "schedule"
  /\ status[current] = "EXITED" /\ next[current] # current
  /\ LET p == previous[next[current]] IN
       /\ next' = [next EXCEPT ![previous[p]] = next[p], ![p] = free]
       /\ previous' = [previous EXCEPT ![next[p]] = previous[p]]
       /\ free' = p
  /\ UNCHANGED status
  /\ GoOn

Schedule == SchedulePass \/ ScheduleBlocked \/ ScheduleExited

Next ==
  \/ Yield \/ Block \/ Unblock \/ Exit \/ GoToSleep \/ AllocPcb \/ InsertPcb
  \/ Schedule
  \/ \E p \in Pcbs : TimePasses(p)

Spec == Init /\ [][Next]_vars

(* irq0 takes the CPU from whoever has it, scheduler() is straight code,   *)
(* and time goes on. *)
Fairness == WF_vars(Yield) /\ WF_vars(Schedule) /\ \A p \in Pcbs : WF_vars(TimePasses(p))

FairSpec == Spec /\ Fairness

----------------------------------------------------------------------------
(* the pcbs met on following next from p, as many as there can be *)
Walk(p) ==
  LET walk[k \in 0..Cardinality(Pcbs)] ==
        IF k = 0 THEN p ELSE IF walk[k-1] = NULL THEN NULL ELSE next[walk[k-1]]
  IN  walk

Follow(p) == {Walk(p)[k] : k \in 0..Cardinality(Pcbs)} \ {NULL}

Ring    == Follow(current)
FreeSet == Follow(free)
Made    == {making[p] : p \in Pcbs} \ {NULL}
Waiters == {waiting[i] : i \in DOMAIN waiting}

(* The ready queue stays one ring that reads the same backwards, and holds *)
(* every thread that can run or sleeps; whoever blocked or exited is in it *)
(* only while scheduler() is about to take it out. *)
RingIntact ==
  /\ \A p \in Ring : next[p] # NULL /\ next[p] \in Ring /\ previous[next[p]] = p
  /\ \A p \in Ring \ {current} : status[p] \in {"RUNNING", "SLEEPING"}
  /\ mode = "run" => status[current] \in {"RUNNING", "SLEEPING"}

(* No pcb is lost or used twice: each is in the ring, in the free list, in *)
(* a waiting list or in the hands of its creator, and in one of them only, *)
(* except that a thread that has just blocked is still in the ring. *)
PcbsAccounted ==
  /\ Pcbs = Ring \cup FreeSet \cup Made \cup Waiters
  /\ Ring \cap FreeSet = {} /\ Ring \cap Made = {} /\ FreeSet \cap Made = {}
  /\ Waiters \cap (FreeSet \cup Made) = {}
  /\ Waiters \cap Ring \subseteq {current}
  /\ \A p, q \in Pcbs : making[p] = making[q] /\ making[p] # NULL => p = q
  /\ \A i, j \in DOMAIN waiting : waiting[i] = waiting[j] => i = j

(* The round robin starves nobody: a thread in the ready queue, awake or   *)
(* asleep, gets the CPU, however many others come and go meanwhile. *)
EveryoneRuns ==
  \A p \in Pcbs :
    p \in Ring /\ status[p] \in {"RUNNING", "SLEEPING"}
      ~> current = p /\ mode = "run"

=============================================================================
