------------------------------ MODULE Monitor ------------------------------
(***************************************************************************)
(* thread.c and the block/unblock pair of scheduler.c in the P6 kernel:    *)
(* one lock_t (Mutex) and the condition_t's used with it.                  *)
(*                                                                         *)
(* The kernel runs on one CPU and the timer interrupt (irq0_entry) may     *)
(* switch threads between any two instructions outside a critical region,  *)
(* so a step is what a thread does between two accesses to shared memory.  *)
(* block() and unblock() run with interrupts off and are one step each.    *)
(* A thread that finds a spinlock LOCKED yields and tries again: that      *)
(* changes nothing here, so acquiring waits for the spinlock to be free.   *)
(***************************************************************************)
EXTENDS Naturals, Sequences

CONSTANTS
  Threads,  \* the threads that use the monitor
  Conds,    \* its condition variables
  Mutex,    \* its lock
  NoCond    \* argument of a lock_release() not made by condition_wait()

ASSUME MonitorAssumption ==
  /\ Mutex \notin Conds
  /\ NoCond \notin Conds

VARIABLES
  spin,     \* the spinlock word of the lock and of each condition
  lstatus,  \* lock_t.status
  waiting,  \* waiting list of the lock and of each condition, first blocked first
  status,   \* pcb_t.status of each thread
  pc,       \* where each thread is
  arg       \* the condition its condition_* call is about, NoCond otherwise

vars == <<spin, lstatus, waiting, status, pc, arg>>

Queues == Conds \cup {Mutex}

Labels ==
  { "out",                                         \* client code, outside
    "acq_spin", "acq_test", "acq_take", "acq_free", "acq_block", "acq_blocked",
    "in",                                          \* client code, holding the lock
    "rel_spin", "rel_test", "rel_clear", "rel_wake", "rel_free",  \* lock_release
    "wait_spin", "wait_block", "wait_blocked",              \* condition_wait
    "sig_spin", "sig_test", "sig_wake",                     \* condition_signal
    "bc_spin", "bc_test", "bc_wake", "wake_free" }          \* condition_broadcast

----------------------------------------------------------------------------
(* lock_init and condition_init; no thread has called in yet. *)
Init ==
  /\ spin = [q \in Queues |-> "UNLOCKED"]
  /\ lstatus = "UNLOCKED"
  /\ waiting = [q \in Queues |-> << >>]
  /\ status = [t \in Threads |-> "RUNNING"]
  /\ pc = [t \in Threads |-> "out"]
  /\ arg = [t \in Threads |-> NoCond]

At(t, label) == status[t] = "RUNNING" /\ pc[t] = label

Goto(t, label) == pc' = [pc EXCEPT ![t] = label]

(* Mutant: a test_and_set that does not test. *)
SpinlockSeize(q) == spin' = [spin EXCEPT ![q] = "LOCKED"]

(* spinlock_acquire: the xchg of test_and_set that finds UNLOCKED. *)
SpinlockAcquire(q) ==
  /\ spin[q] = "UNLOCKED"
  /\ spin' = [spin EXCEPT ![q] = "LOCKED"]

SpinlockRelease(q) == spin' = [spin EXCEPT ![q] = "UNLOCKED"]

(* block(&q->waiting, &q->spinlock) *)
Block(t, q) ==
  /\ SpinlockRelease(q)
  /\ status' = [status EXCEPT ![t] = "BLOCKED"]
  /\ waiting' = [waiting EXCEPT ![q] = Append(@, t)]

(* Mutant: unblock leaves the thread in the waiting list. *)
UnblockKeep(q) ==
  /\ status' = [status EXCEPT ![Head(waiting[q])] = "RUNNING"]
  /\ UNCHANGED waiting

(* Mutant: unblock takes the thread that blocked last. *)
UnblockLast(q) ==
  /\ status' = [status EXCEPT ![waiting[q][Len(waiting[q])]] = "RUNNING"]
  /\ waiting' = [waiting EXCEPT ![q] = SubSeq(@, 1, Len(@) - 1)]

(* unblock(&q->waiting): the thread that blocked first runs again. *)
Unblock(q) ==
  /\ status' = [status EXCEPT ![Head(waiting[q])] = "RUNNING"]
  /\ waiting' = [waiting EXCEPT ![q] = Tail(@)]

----------------------------------------------------------------------------
(* What client code may call: lock_acquire when it has not got the lock,   *)
(* the other four when it has (as every caller in the kernel does).        *)
Call(t, from, to, c) ==
  /\ At(t, from)
  /\ Goto(t, to)
  /\ arg' = [arg EXCEPT ![t] = c]
  /\ UNCHANGED <<spin, lstatus, waiting, status>>

CallAcquire(t)      == Call(t, "out", "acq_spin", NoCond)
CallRelease(t)      == Call(t, "in", "rel_spin", NoCond)
CallWait(t, c)      == Call(t, "in", "wait_spin", c)
CallSignal(t, c)    == Call(t, "in", "sig_spin", c)
CallBroadcast(t, c) == Call(t, "in", "bc_spin", c)

----------------------------------------------------------------------------
(* lock_acquire *)
AcquireSpin(t) ==
  /\ At(t, "acq_spin")
  /\ SpinlockAcquire(Mutex)
  /\ Goto(t, "acq_test")
  /\ UNCHANGED <<lstatus, waiting, status, arg>>

AcquireTest(t) ==
  /\ At(t, "acq_test")
  /\ Goto(t, IF lstatus = "UNLOCKED" THEN "acq_take" ELSE "acq_block")
  /\ UNCHANGED <<spin, lstatus, waiting, status, arg>>

AcquireTake(t) ==
  /\ At(t, "acq_take")
  /\ lstatus' = "LOCKED"
  /\ Goto(t, "acq_free")
  /\ UNCHANGED <<spin, waiting, status, arg>>

AcquireReturn(t) ==
  /\ At(t, "acq_free")
  /\ SpinlockRelease(Mutex)
  /\ Goto(t, "in")
  /\ UNCHANGED <<lstatus, waiting, status, arg>>

(* Mutant: block is not given the spinlock to release. *)
AcquireBlockKeep(t) ==
  /\ At(t, "acq_block")
  /\ status' = [status EXCEPT ![t] = "BLOCKED"]
  /\ waiting' = [waiting EXCEPT ![Mutex] = Append(@, t)]
  /\ Goto(t, "acq_blocked")
  /\ UNCHANGED <<spin, lstatus, arg>>

AcquireBlock(t) ==
  /\ At(t, "acq_block")
  /\ Block(t, Mutex)
  /\ Goto(t, "acq_blocked")
  /\ UNCHANGED <<lstatus, arg>>

(* block() returns: lock_release left the lock LOCKED and handed it over. *)
AcquireResume(t) ==
  /\ At(t, "acq_blocked")
  /\ Goto(t, "in")
  /\ UNCHANGED <<spin, lstatus, waiting, status, arg>>

(* Mutant: lock_release does not take the lock's spinlock. *)
ReleaseNoSpin(t) ==
  /\ At(t, "rel_spin")
  /\ Goto(t, "rel_test")
  /\ UNCHANGED <<spin, lstatus, waiting, status, arg>>

(* lock_release, called by the client or from inside condition_wait *)
ReleaseSpin(t) ==
  /\ At(t, "rel_spin")
  /\ SpinlockAcquire(Mutex)
  /\ Goto(t, "rel_test")
  /\ UNCHANGED <<lstatus, waiting, status, arg>>

ReleaseTest(t) ==
  /\ At(t, "rel_test")
  /\ Goto(t, IF waiting[Mutex] = << >> THEN "rel_clear" ELSE "rel_wake")
  /\ UNCHANGED <<spin, lstatus, waiting, status, arg>>

ReleaseFree(t) ==
  /\ At(t, "rel_clear")
  /\ lstatus' = "UNLOCKED"
  /\ Goto(t, "rel_free")
  /\ UNCHANGED <<spin, waiting, status, arg>>

(* Mutant: the lock is marked free although it is handed over. *)
ReleaseHandOffFree(t) ==
  /\ At(t, "rel_wake")
  /\ Unblock(Mutex)
  /\ lstatus' = "UNLOCKED"
  /\ Goto(t, "rel_free")
  /\ UNCHANGED <<spin, arg>>

ReleaseHandOff(t) ==
  /\ At(t, "rel_wake")
  /\ Unblock(Mutex)
  /\ Goto(t, "rel_free")
  /\ UNCHANGED <<spin, lstatus, arg>>

ReleaseReturn(t) ==
  /\ At(t, "rel_free")
  /\ SpinlockRelease(Mutex)
  /\ Goto(t, IF arg[t] = NoCond THEN "out" ELSE "wait_block")
  /\ UNCHANGED <<lstatus, waiting, status, arg>>

(* Mutant: condition_wait does not take the condition's spinlock first. *)
WaitNoSpin(t) ==
  /\ At(t, "wait_spin")
  /\ Goto(t, "rel_spin")
  /\ UNCHANGED <<spin, lstatus, waiting, status, arg>>

(* condition_wait *)
WaitSpin(t) ==
  /\ At(t, "wait_spin")
  /\ SpinlockAcquire(arg[t])
  /\ Goto(t, "rel_spin")
  /\ UNCHANGED <<lstatus, waiting, status, arg>>

WaitBlock(t) ==
  /\ At(t, "wait_block")
  /\ Block(t, arg[t])
  /\ Goto(t, "wait_blocked")
  /\ UNCHANGED <<lstatus, arg>>

WaitResume(t) ==
  /\ At(t, "wait_blocked")
  /\ Goto(t, "acq_spin")
  /\ arg' = [arg EXCEPT ![t] = NoCond]
  /\ UNCHANGED <<spin, lstatus, waiting, status>>

(* condition_signal *)
SignalSpin(t) ==
  /\ At(t, "sig_spin")
  /\ SpinlockAcquire(arg[t])
  /\ Goto(t, "sig_test")
  /\ UNCHANGED <<lstatus, waiting, status, arg>>

SignalTest(t) ==
  /\ At(t, "sig_test")
  /\ Goto(t, IF waiting[arg[t]] # << >> THEN "sig_wake" ELSE "wake_free")
  /\ UNCHANGED <<spin, lstatus, waiting, status, arg>>

SignalWake(t) ==
  /\ At(t, "sig_wake")
  /\ Unblock(arg[t])
  /\ Goto(t, "wake_free")
  /\ UNCHANGED <<spin, lstatus, arg>>

(* condition_broadcast: interrupts are on between two turns of its loop *)
BroadcastSpin(t) ==
  /\ At(t, "bc_spin")
  /\ SpinlockAcquire(arg[t])
  /\ Goto(t, "bc_test")
  /\ UNCHANGED <<lstatus, waiting, status, arg>>

BroadcastTest(t) ==
  /\ At(t, "bc_test")
  /\ Goto(t, IF waiting[arg[t]] # << >> THEN "bc_wake" ELSE "wake_free")
  /\ UNCHANGED <<spin, lstatus, waiting, status, arg>>

BroadcastWake(t) ==
  /\ At(t, "bc_wake")
  /\ Unblock(arg[t])
  /\ Goto(t, "bc_test")
  /\ UNCHANGED <<spin, lstatus, arg>>

(* the spinlock_release that ends condition_signal and condition_broadcast *)
WakeReturn(t) ==
  /\ At(t, "wake_free")
  /\ SpinlockRelease(arg[t])
  /\ Goto(t, "in")
  /\ arg' = [arg EXCEPT ![t] = NoCond]
  /\ UNCHANGED <<lstatus, waiting, status>>

----------------------------------------------------------------------------
LockStep(t) ==
  \/ AcquireSpin(t) \/ AcquireTest(t) \/ AcquireTake(t) \/ AcquireReturn(t)
  \/ AcquireBlock(t) \/ AcquireResume(t)
  \/ ReleaseSpin(t) \/ ReleaseTest(t) \/ ReleaseFree(t) \/ ReleaseHandOff(t)
  \/ ReleaseReturn(t)

CondStep(t) ==
  \/ WaitSpin(t) \/ WaitBlock(t) \/ WaitResume(t)
  \/ SignalSpin(t) \/ SignalTest(t) \/ SignalWake(t)
  \/ BroadcastSpin(t) \/ BroadcastTest(t) \/ BroadcastWake(t)
  \/ WakeReturn(t)

(* a step of t inside the primitives *)
Step(t) == LockStep(t) \/ CondStep(t)

(* a call by t *)
Client(t) ==
  \/ CallAcquire(t) \/ CallRelease(t)
  \/ \E c \in Conds : CallWait(t, c) \/ CallSignal(t, c) \/ CallBroadcast(t, c)

Next == \E t \in Threads : Step(t) \/ Client(t)

Spec == Init /\ [][Next]_vars

----------------------------------------------------------------------------
(* The state has the declared shape. *)
TypeOK ==
  /\ spin \in [Queues -> {"LOCKED", "UNLOCKED"}]
  /\ lstatus \in {"LOCKED", "UNLOCKED"}
  /\ waiting \in [Queues -> Seq(Threads)]
  /\ status \in [Threads -> {"RUNNING", "BLOCKED"}]
  /\ pc \in [Threads -> Labels]
  /\ arg \in [Threads -> Conds \cup {NoCond}]

(* t owns the lock: from the step that takes it, or hands it to t, until   *)
(* the step of lock_release that gives it up.                              *)
Owns(t) ==
  \/ pc[t] \in {"acq_free", "in", "rel_spin", "rel_test", "rel_clear", "rel_wake",
                "wait_spin", "sig_spin", "sig_test", "sig_wake",
                "bc_spin", "bc_test", "bc_wake", "wake_free"}
  \/ At(t, "acq_blocked")

(* t is between the spinlock_acquire and the spinlock_release of q. *)
HasSpinlock(t, q) ==
  \/ /\ q = Mutex
     /\ pc[t] \in {"acq_test", "acq_take", "acq_free", "acq_block",
                   "rel_test", "rel_clear", "rel_wake", "rel_free"}
  \/ /\ q \in Conds
     /\ arg[t] = q
     /\ pc[t] \in {"sig_test", "sig_wake", "bc_test", "bc_wake", "wake_free",
                   "rel_spin", "rel_test", "rel_clear", "rel_wake", "rel_free",
                   "wait_block"}

Queued(t, q) == \E i \in 1..Len(waiting[q]) : waiting[q][i] = t

(* At most one thread owns the lock, and the lock is LOCKED exactly while  *)
(* somebody does: the direct hand-off of lock_release neither lets two     *)
(* threads in nor leaks the lock.                                          *)
MutualExclusion ==
  /\ \A t, u \in Threads : Owns(t) /\ Owns(u) => t = u
  /\ lstatus = "LOCKED" <=> \E t \in Threads : Owns(t)

(* spinlock_release's "spinlock should be locked": every spinlock is       *)
(* LOCKED exactly while one thread is inside its region, preempted or not, *)
(* also across the lock_release nested in condition_wait.                  *)
SpinlockExclusion ==
  \A q \in Queues :
    /\ \A t, u \in Threads : HasSpinlock(t, q) /\ HasSpinlock(u, q) => t = u
    /\ spin[q] = "LOCKED" <=> \E t \in Threads : HasSpinlock(t, q)

(* What a thread found in the lock or in a waiting list is still so when,  *)
(* perhaps after losing the CPU, it acts on it: the spinlocks cover test   *)
(* and update in one region.                                               *)
TestedStillHolds ==
  \A t \in Threads :
    /\ pc[t] = "acq_take"  => lstatus = "UNLOCKED"
    /\ pc[t] = "acq_block" => lstatus = "LOCKED"
    /\ pc[t] = "rel_clear" => waiting[Mutex] = << >>
    /\ pc[t] = "rel_wake"  => waiting[Mutex] # << >>
    /\ pc[t] \in {"sig_wake", "bc_wake"} => waiting[arg[t]] # << >>

(* No thread sleeps forgotten: a thread is BLOCKED exactly while it is in  *)
(* the waiting list of what it waits for, in that list only and once.      *)
BlockedIffQueued ==
  \A t \in Threads :
    /\ status[t] = "BLOCKED" <=> \E q \in Queues : Queued(t, q)
    /\ \A q \in Queues : Queued(t, q) =>
         /\ pc[t] = IF q = Mutex THEN "acq_blocked" ELSE "wait_blocked"
         /\ q # Mutex => arg[t] = q
         /\ \A i, j \in 1..Len(waiting[q]) :
              waiting[q][i] = t /\ waiting[q][j] = t => i = j

(* condition_wait is atomic to signallers: a thread that gave up the lock  *)
(* in condition_wait(c) is in c's waiting list before any condition_signal *)
(* or condition_broadcast on c looks at the list.                          *)
NoLostWakeup ==
  \A t, u \in Threads :
    /\ pc[t] \in {"sig_test", "sig_wake", "bc_test", "bc_wake"}
    /\ pc[u] \in {"rel_free", "wait_block"}
    => arg[t] # arg[u]

(* The spinlock t is about to take, if any. *)
WantsSpinlock(t, q) ==
  \/ q = Mutex /\ pc[t] \in {"acq_spin", "rel_spin"}
  \/ q = arg[t] /\ pc[t] \in {"wait_spin", "sig_spin", "bc_spin"}

CanStep(t) ==
  /\ status[t] = "RUNNING"
  /\ \A q \in Queues : WantsSpinlock(t, q) => spin[q] = "UNLOCKED"

(* t is in one of the operations or holds the lock, and does not wait for  *)
(* a condition. *)
InCall(t) == pc[t] # "out" /\ ~(pc[t] = "wait_blocked" /\ status[t] = "BLOCKED")

(* Everyone waiting on everyone never happens inside the primitives, though *)
(* condition_wait takes the lock's spinlock while it holds the condition's: *)
(* whenever threads are in a call, and do not just wait for a condition,   *)
(* one of them can go on, whatever the threads outside do.                 *)
NoDeadlock == (\E t \in Threads : InCall(t)) => \E t \in Threads : InCall(t) /\ CanStep(t)

----------------------------------------------------------------------------
(* thread.c implements MesaMonitor. The lock changes hands at the step of  *)
(* lock_release that clears or hands it over; from then on a thread in     *)
(* condition_wait counts as asleep, although it blocks only two steps      *)
(* later.                                                                  *)
GoingToSleep(t, c) == arg[t] = c /\ pc[t] \in {"rel_free", "wait_block"}

Asleep(c) ==
  IF \E t \in Threads : GoingToSleep(t, c)
    THEN Append(waiting[c], CHOOSE t \in Threads : GoingToSleep(t, c))
    ELSE waiting[c]

Wants(t) ==
  pc[t] \in {"acq_spin", "acq_test", "acq_take", "acq_block"} \/ At(t, "wait_blocked")

Mesa == INSTANCE MesaMonitor WITH
  inside   <- {t \in Threads : Owns(t)},
  wants    <- {t \in Threads : Wants(t)},
  entry    <- waiting[Mutex],
  sleeping <- [c \in Conds |-> Asleep(c)]

(* Every step of the primitives is one step of the abstract monitor or     *)
(* none: entry and wake-up order, hand-off and atomic waiting included.    *)
MesaSpec == Mesa!Spec

=============================================================================
