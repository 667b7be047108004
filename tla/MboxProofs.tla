----------------------------- MODULE MboxProofs -----------------------------
(***************************************************************************)
(* Theorems about the locks and conditions of thread.c, and about what the *)
(* P6 kernel builds on them.                                               *)
(*                                                                         *)
(* About Monitor for any set of threads and conditions: types, mutual      *)
(* exclusion with the direct hand-off, exclusion of the spinlocks,         *)
(* exactness of the waiting lists, atomicity of condition_wait, absence of *)
(* deadlock inside the primitives, and that it implements MesaMonitor.     *)
(*                                                                         *)
(* About Mbox for any number of threads and any size of buffer, header and *)
(* messages: the mailbox follows the rules of the monitor, so what is      *)
(* proved of thread.c holds of it; one signal per message and one          *)
(* broadcast per space freed are enough; the counters agree with the       *)
(* contents, and the mailbox is a bounded queue of whole messages.         *)
(*                                                                         *)
(* About Keyboard for any number of threads: the interrupt handler never   *)
(* blocks, whatever it interrupts, and one signal per character is enough. *)
(***************************************************************************)
EXTENDS Keyboard, WaitingLists, FiniteSetTheorems, TLAPS

----------------------------------------------------------------------------
(* What a step does to the other threads: their pc, arg and, unless the    *)
(* step wakes them, their status stay.                                     *)
OnlyMoves(t) ==
  /\ status[t] = "RUNNING"
  /\ \A u \in Threads \ {t} : pc'[u] = pc[u] /\ arg'[u] = arg[u]

(* A condition_* call has a condition as its argument.                     *)
ArgOK ==
  \A t \in Threads :
    pc[t] \in {"wait_spin", "wait_block", "wait_blocked",
               "sig_spin", "sig_test", "sig_wake",
               "bc_spin", "bc_test", "bc_wake", "wake_free"}
      => arg[t] \in Conds

(* Whoever queues for the lock waits for an owner to hand it over.         *)
LockedIfQueued == waiting[Mutex] # << >> => lstatus = "LOCKED"

(* The inductive invariant. Mutual exclusion rests on what lock_acquire    *)
(* tested being so still when it acts, which rests on the exclusion of the *)
(* spinlocks, and on the waiting lists being exact: the thread the lock is *)
(* handed to sleeps in lock_acquire, so it owned nothing before.           *)
Inv ==
  /\ TypeOK
  /\ ArgOK
  /\ SpinlockExclusion
  /\ TestedStillHolds
  /\ BlockedIffQueued
  /\ MutualExclusion
  /\ LockedIfQueued

(* A step is taken by one thread; the others stay where they are in their  *)
(* code. *)
LEMMA NextMoves ==
  ASSUME TypeOK, NEW t \in Threads, Step(t) \/ Client(t)
  PROVE  OnlyMoves(t)
BY DEF TypeOK, OnlyMoves, Step, LockStep, CondStep, Client, Call, At, Goto,
  AcquireSpin, AcquireTest, AcquireTake, AcquireReturn, AcquireBlock, AcquireResume,
  ReleaseSpin, ReleaseTest, ReleaseFree, ReleaseHandOff, ReleaseReturn,
  WaitSpin, WaitBlock, WaitResume, SignalSpin, SignalTest, SignalWake,
  BroadcastSpin, BroadcastTest, BroadcastWake, WakeReturn,
  CallAcquire, CallRelease, CallWait, CallSignal, CallBroadcast

----------------------------------------------------------------------------
(* lock_init and condition_init establish the invariant. *)
LEMMA InitInv == Init => Inv
<1> SUFFICES ASSUME Init PROVE Inv
  OBVIOUS
<1>1. TypeOK
  BY DEF Init, TypeOK, Labels
<1>2. ArgOK
  BY DEF Init, ArgOK
<1>3. SpinlockExclusion
  BY DEF Init, SpinlockExclusion, HasSpinlock
<1>4. MutualExclusion /\ TestedStillHolds
  BY DEF Init, MutualExclusion, TestedStillHolds, Owns, At
<1>5. BlockedIffQueued
  <2>1. \A t, q : q \in Queues => ~Queued(t, q)
    BY DEF Init, Queued
  <2> QED BY <2>1 DEF Init, BlockedIffQueued
<1>6. LockedIfQueued
  BY DEF Init, LockedIfQueued, Queues
<1> QED BY <1>1, <1>2, <1>3, <1>4, <1>5, <1>6 DEF Inv

(* block() and unblock() keep the types. *)
LEMMA TypeBlock ==
  ASSUME TypeOK, NEW t \in Threads, NEW q \in Queues, Block(t, q)
  PROVE  /\ spin' \in [Queues -> {"LOCKED", "UNLOCKED"}]
         /\ waiting' \in [Queues -> Seq(Threads)]
         /\ status' \in [Threads -> {"RUNNING", "BLOCKED"}]
<1>1. Append(waiting[q], t) \in Seq(Threads)
  BY AppendOccurs DEF TypeOK
<1> QED BY <1>1 DEF TypeOK, Block, SpinlockRelease

(* The same of unblock(): the head of the list is a thread. *)
LEMMA TypeUnblock ==
  ASSUME TypeOK, NEW q \in Queues, waiting[q] # << >>, Unblock(q)
  PROVE  /\ waiting' \in [Queues -> Seq(Threads)]
         /\ status' \in [Threads -> {"RUNNING", "BLOCKED"}]
<1>1. waiting[q] \in Seq(Threads)
  BY DEF TypeOK
<1>2. Tail(waiting[q]) \in Seq(Threads)
  BY <1>1, TailOccurs
<1> QED BY <1>2 DEF TypeOK, Unblock

(* Every step of thread.c and of its callers keeps the types. *)
LEMMA TypeStep ==
  ASSUME TypeOK, ArgOK, TestedStillHolds, [Next]_vars
  PROVE  TypeOK' /\ ArgOK'
<1> USE DEF TypeOK, ArgOK, TestedStillHolds, At, Goto, Labels, Queues
<1>1. CASE UNCHANGED vars
  BY <1>1 DEF vars
<1>2. ASSUME NEW t \in Threads, LockStep(t)
      PROVE  TypeOK' /\ ArgOK'
  <2>1. CASE AcquireSpin(t)
    BY <2>1 DEF AcquireSpin, SpinlockAcquire
  <2>2. CASE AcquireTest(t)
    BY <2>2 DEF AcquireTest
  <2>3. CASE AcquireTake(t)
    BY <2>3 DEF AcquireTake
  <2>4. CASE AcquireReturn(t)
    BY <2>4 DEF AcquireReturn, SpinlockRelease
  <2>5. CASE AcquireBlock(t)
    BY <2>5, TypeBlock DEF AcquireBlock
  <2>6. CASE AcquireResume(t)
    BY <2>6 DEF AcquireResume
  <2>7. CASE ReleaseSpin(t)
    BY <2>7 DEF ReleaseSpin, SpinlockAcquire
  <2>8. CASE ReleaseTest(t)
    BY <2>8 DEF ReleaseTest
  <2>9. CASE ReleaseFree(t)
    BY <2>9 DEF ReleaseFree
  <2>10. CASE ReleaseHandOff(t)
    BY <2>10, TypeUnblock DEF ReleaseHandOff
  <2>11. CASE ReleaseReturn(t)
    BY <2>11 DEF ReleaseReturn, SpinlockRelease
  <2> QED BY <1>2, <2>1, <2>2, <2>3, <2>4, <2>5, <2>6, <2>7, <2>8, <2>9, <2>10, <2>11
          DEF LockStep
<1>3. ASSUME NEW t \in Threads, CondStep(t)
      PROVE  TypeOK' /\ ArgOK'
  <2>1. CASE WaitSpin(t)
    BY <2>1 DEF WaitSpin, SpinlockAcquire
  <2>2. CASE WaitBlock(t)
    BY <2>2, TypeBlock DEF WaitBlock
  <2>3. CASE WaitResume(t)
    BY <2>3 DEF WaitResume
  <2>4. CASE SignalSpin(t)
    BY <2>4 DEF SignalSpin, SpinlockAcquire
  <2>5. CASE SignalTest(t)
    BY <2>5 DEF SignalTest
  <2>6. CASE SignalWake(t)
    BY <2>6, TypeUnblock DEF SignalWake
  <2>7. CASE BroadcastSpin(t)
    BY <2>7 DEF BroadcastSpin, SpinlockAcquire
  <2>8. CASE BroadcastTest(t)
    BY <2>8 DEF BroadcastTest
  <2>9. CASE BroadcastWake(t)
    BY <2>9, TypeUnblock DEF BroadcastWake
  <2>10. CASE WakeReturn(t)
    BY <2>10 DEF WakeReturn, SpinlockRelease
  <2> QED BY <1>3, <2>1, <2>2, <2>3, <2>4, <2>5, <2>6, <2>7, <2>8, <2>9, <2>10
          DEF CondStep
<1>4. ASSUME NEW t \in Threads, Client(t)
      PROVE  TypeOK' /\ ArgOK'
  <2>1. CASE CallAcquire(t) \/ CallRelease(t)
    <3>1. /\ pc' \in {[pc EXCEPT ![t] = "acq_spin"], [pc EXCEPT ![t] = "rel_spin"]}
          /\ arg' = [arg EXCEPT ![t] = NoCond]
          /\ UNCHANGED <<spin, lstatus, waiting, status>>
      BY <2>1 DEF Call, CallAcquire, CallRelease
    <3>2. TypeOK'
      BY <3>1
    <3> QED BY <3>1, <3>2
  <2>2. ASSUME NEW c \in Conds, CallWait(t, c)
        PROVE  TypeOK' /\ ArgOK'
    BY <2>2 DEF Call, CallWait
  <2>3. ASSUME NEW c \in Conds, CallSignal(t, c)
        PROVE  TypeOK' /\ ArgOK'
    BY <2>3 DEF Call, CallSignal
  <2>4. ASSUME NEW c \in Conds, CallBroadcast(t, c)
        PROVE  TypeOK' /\ ArgOK'
    BY <2>4 DEF Call, CallBroadcast
  <2> QED BY <1>4, <2>1, <2>2, <2>3, <2>4 DEF Client
<1> QED BY <1>1, <1>2, <1>3, <1>4 DEF Next, Step

----------------------------------------------------------------------------
(* Three ways a step keeps the spinlocks exclusive: it takes a free one,   *)
(* gives up the one it has, or does neither. *)
LEMMA SpinTaken ==
  ASSUME TypeOK, SpinlockExclusion, NEW t \in Threads, NEW q \in Queues,
         SpinlockAcquire(q),
         \A u \in Threads, p \in Queues :
           HasSpinlock(u, p)' <=> HasSpinlock(u, p) \/ (u = t /\ p = q)
  PROVE  SpinlockExclusion'
BY DEF TypeOK, SpinlockExclusion, SpinlockAcquire

(* The second way, spinlock_release. *)
LEMMA SpinGiven ==
  ASSUME TypeOK, SpinlockExclusion, NEW t \in Threads, NEW q \in Queues,
         SpinlockRelease(q), HasSpinlock(t, q),
         \A u \in Threads, p \in Queues :
           HasSpinlock(u, p)' <=> HasSpinlock(u, p) /\ ~(u = t /\ p = q)
  PROVE  SpinlockExclusion'
BY DEF TypeOK, SpinlockExclusion, SpinlockRelease

(* The third way: neither the words nor the regions change. *)
LEMMA SpinKept ==
  ASSUME SpinlockExclusion, UNCHANGED spin,
         \A u \in Threads, p \in Queues : HasSpinlock(u, p)' <=> HasSpinlock(u, p)
  PROVE  SpinlockExclusion'
BY DEF SpinlockExclusion

(* Every step keeps the spinlocks exclusive. *)
LEMMA SpinlockStep ==
  ASSUME TypeOK, ArgOK, SpinlockExclusion, [Next]_vars
  PROVE  SpinlockExclusion'
<1> USE MonitorAssumption DEF TypeOK, ArgOK, HasSpinlock, At, Goto, Queues
<1>1. CASE UNCHANGED vars
  BY <1>1, SpinKept DEF vars
<1>2. ASSUME NEW t \in Threads, LockStep(t)
      PROVE  SpinlockExclusion'
  <2>1. CASE AcquireSpin(t)
    BY <2>1, SpinTaken DEF AcquireSpin
  <2>2. CASE AcquireTest(t)
    BY <2>2, SpinKept DEF AcquireTest
  <2>3. CASE AcquireTake(t)
    BY <2>3, SpinKept DEF AcquireTake
  <2>4. CASE AcquireReturn(t)
    BY <2>4, SpinGiven DEF AcquireReturn
  <2>5. CASE AcquireBlock(t)
    BY <2>5, SpinGiven DEF AcquireBlock, Block
  <2>6. CASE AcquireResume(t)
    BY <2>6, SpinKept DEF AcquireResume
  <2>7. CASE ReleaseSpin(t)
    BY <2>7, SpinTaken DEF ReleaseSpin
  <2>8. CASE ReleaseTest(t)
    BY <2>8, SpinKept DEF ReleaseTest
  <2>9. CASE ReleaseFree(t)
    BY <2>9, SpinKept DEF ReleaseFree
  <2>10. CASE ReleaseHandOff(t)
    BY <2>10, SpinKept DEF ReleaseHandOff
  <2>11. CASE ReleaseReturn(t)
    BY <2>11, SpinGiven DEF ReleaseReturn
  <2> QED BY <1>2, <2>1, <2>2, <2>3, <2>4, <2>5, <2>6, <2>7, <2>8, <2>9, <2>10, <2>11
          DEF LockStep
<1>3. ASSUME NEW t \in Threads, CondStep(t)
      PROVE  SpinlockExclusion'
  <2>1. CASE WaitSpin(t)
    BY <2>1, SpinTaken DEF WaitSpin
  <2>2. CASE WaitBlock(t)
    BY <2>2, SpinGiven DEF WaitBlock, Block
  <2>3. CASE WaitResume(t)
    BY <2>3, SpinKept DEF WaitResume
  <2>4. CASE SignalSpin(t)
    BY <2>4, SpinTaken DEF SignalSpin
  <2>5. CASE SignalTest(t)
    BY <2>5, SpinKept DEF SignalTest
  <2>6. CASE SignalWake(t)
    BY <2>6, SpinKept DEF SignalWake
  <2>7. CASE BroadcastSpin(t)
    BY <2>7, SpinTaken DEF BroadcastSpin
  <2>8. CASE BroadcastTest(t)
    BY <2>8, SpinKept DEF BroadcastTest
  <2>9. CASE BroadcastWake(t)
    BY <2>9, SpinKept DEF BroadcastWake
  <2>10. CASE WakeReturn(t)
    BY <2>10, SpinGiven DEF WakeReturn
  <2> QED BY <1>3, <2>1, <2>2, <2>3, <2>4, <2>5, <2>6, <2>7, <2>8, <2>9, <2>10
          DEF CondStep
<1>4. ASSUME NEW t \in Threads, Client(t)
      PROVE  SpinlockExclusion'
  BY <1>4, SpinKept DEF Client, Call, CallAcquire, CallRelease, CallWait, CallSignal,
              CallBroadcast
<1> QED BY <1>1, <1>2, <1>3, <1>4 DEF Next, Step

----------------------------------------------------------------------------
(* Three ways a step keeps the waiting lists exact: t queues for q and     *)
(* sleeps, the head of q is woken, or t moves on without either. *)
LEMMA ListsBlock ==
  ASSUME TypeOK, TypeOK', BlockedIffQueued, NEW t \in Threads, NEW q \in Queues,
         OnlyMoves(t), Block(t, q),
         pc'[t] = IF q = Mutex THEN "acq_blocked" ELSE "wait_blocked",
         q # Mutex => arg'[t] = q
  PROVE  BlockedIffQueued'
<1>1. waiting[q] \in Seq(Threads)
  BY DEF TypeOK
<1>2. /\ waiting'[q] = Append(waiting[q], t)
      /\ \A p \in Queues \ {q} : waiting'[p] = waiting[p]
      /\ status'[t] = "BLOCKED"
      /\ \A u \in Threads \ {t} : status'[u] = status[u]
  BY DEF TypeOK, Block
<1>3. \A p \in Queues : ~Queued(t, p)
  BY DEF OnlyMoves, BlockedIffQueued
<1>4. \A p \in Queues, u \in Threads : Queued(u, p)' <=> Queued(u, p) \/ (u = t /\ p = q)
  <2>1. ASSUME NEW p \in Queues, NEW u \in Threads, p # q
        PROVE  Queued(u, p)' <=> Queued(u, p)
    BY <1>2, <2>1 DEF Queued
  <2>2. ASSUME NEW u \in Threads
        PROVE  Queued(u, q)' <=> Queued(u, q) \/ u = t
    <3>1. Occurs(Append(waiting[q], t), u) <=> Occurs(waiting[q], u) \/ u = t
      BY <1>1, AppendOccurs
    <3> QED BY <1>2, <3>1 DEF Queued, Occurs
  <2> QED BY <2>1, <2>2
<1>5. ASSUME NEW u \in Threads
      PROVE  status'[u] = "BLOCKED" <=> \E p \in Queues : Queued(u, p)'
  BY <1>2, <1>4 DEF BlockedIffQueued
<1>6. ASSUME NEW u \in Threads, NEW p \in Queues, Queued(u, p)'
      PROVE  /\ pc'[u] = IF p = Mutex THEN "acq_blocked" ELSE "wait_blocked"
             /\ p # Mutex => arg'[u] = p
  <2>1. CASE u = t
    BY <1>3, <1>4, <1>6, <2>1
  <2>2. CASE u # t
    BY <1>4, <1>6, <2>2 DEF BlockedIffQueued, OnlyMoves
  <2> QED BY <2>1, <2>2
<1>7. ASSUME NEW u \in Threads, NEW p \in Queues, Queued(u, p)'
      PROVE  Once(waiting'[p], u)
  <2>1. CASE p # q
    <3>1. Once(waiting[p], u)
      BY <1>3, <1>4, <1>7, <2>1 DEF BlockedIffQueued, Once
    <3> QED BY <1>2, <2>1, <3>1
  <2>2. CASE p = q /\ u = t
    <3>1. ~Occurs(waiting[q], t)
      BY <1>3 DEF Queued, Occurs
    <3> QED BY <1>1, <1>2, <2>2, <3>1, AppendOccurs
  <2>3. CASE p = q /\ u # t
    <3>1. Once(waiting[q], u)
      BY <1>4, <1>7, <2>3 DEF BlockedIffQueued, Once
    <3>2. Once(Append(waiting[q], t), u)
      BY <1>1, <2>3, <3>1, AppendOccurs
    <3> QED BY <1>2, <2>3, <3>2
  <2> QED BY <2>1, <2>2, <2>3
<1> QED BY <1>5, <1>6, <1>7 DEF BlockedIffQueued, Once

(* The second way, unblock(). *)
LEMMA ListsUnblock ==
  ASSUME TypeOK, BlockedIffQueued, NEW t \in Threads, NEW q \in Queues,
         OnlyMoves(t), waiting[q] # << >>, Unblock(q)
  PROVE  /\ BlockedIffQueued'
         /\ Queued(Head(waiting[q]), q)
         /\ Head(waiting[q]) \in Threads
<1> DEFINE h == Head(waiting[q])
<1>1. waiting[q] \in Seq(Threads)
  BY DEF TypeOK
<1>2. h \in Threads /\ Queued(h, q)
  BY <1>1, TailOccurs DEF Queued, Occurs
<1>3. /\ waiting'[q] = Tail(waiting[q])
      /\ \A p \in Queues \ {q} : waiting'[p] = waiting[p]
      /\ status'[h] = "RUNNING"
      /\ \A u \in Threads \ {h} : status'[u] = status[u]
  BY <1>2 DEF TypeOK, Unblock
<1> HIDE DEF h
<1>4. \A p \in Queues \ {q} : ~Queued(h, p)
  BY <1>2 DEF BlockedIffQueued
<1>5. Once(waiting[q], h)
  BY <1>2 DEF BlockedIffQueued, Once
<1>6. ASSUME NEW p \in Queues, NEW u \in Threads
      PROVE  Queued(u, p)' <=> Queued(u, p) /\ u # h
  <2>1. CASE p # q
    BY <1>3, <1>4, <2>1 DEF Queued
  <2>2. CASE p = q
    <3>1. Occurs(Tail(waiting[q]), u) <=> Occurs(waiting[q], u) /\ u # h
      BY <1>1, <1>5, TailOccurs DEF h
    <3> QED BY <1>3, <2>2, <3>1 DEF Queued, Occurs
  <2> QED BY <2>1, <2>2
<1>7. ASSUME NEW u \in Threads
      PROVE  status'[u] = "BLOCKED" <=> \E p \in Queues : Queued(u, p)'
  BY <1>3, <1>6 DEF BlockedIffQueued
<1>8. ASSUME NEW u \in Threads, NEW p \in Queues, Queued(u, p)'
      PROVE  /\ pc'[u] = IF p = Mutex THEN "acq_blocked" ELSE "wait_blocked"
             /\ p # Mutex => arg'[u] = p
  <2>1. Queued(u, p) /\ status[u] = "BLOCKED"
    BY <1>6, <1>8 DEF BlockedIffQueued
  <2>2. u # t
    BY <2>1 DEF OnlyMoves
  <2> QED BY <2>1, <2>2 DEF BlockedIffQueued, OnlyMoves
<1>9. ASSUME NEW u \in Threads, NEW p \in Queues, Queued(u, p)'
      PROVE  Once(waiting'[p], u)
  <2>1. Once(waiting[p], u)
    BY <1>6, <1>9 DEF BlockedIffQueued, Once
  <2>2. CASE p # q
    BY <1>3, <2>1, <2>2
  <2>3. CASE p = q
    BY <1>1, <1>3, <2>1, <2>3, TailOccurs
  <2> QED BY <2>2, <2>3
<1>10. BlockedIffQueued'
  BY <1>7, <1>8, <1>9 DEF BlockedIffQueued, Once
<1> QED BY <1>2, <1>10 DEF h

(* The third way: the lists and the statuses stay. *)
LEMMA ListsKept ==
  ASSUME TypeOK, BlockedIffQueued, NEW t \in Threads, OnlyMoves(t),
         UNCHANGED <<waiting, status>>
  PROVE  BlockedIffQueued'
<1>1. \A u \in Threads, q \in Queues : Queued(u, q)' <=> Queued(u, q)
  BY DEF Queued
<1>2. \A u \in Threads, q \in Queues : Queued(u, q) => u # t
  BY DEF BlockedIffQueued, OnlyMoves
<1> QED BY <1>1, <1>2 DEF BlockedIffQueued, OnlyMoves

(* Every step keeps the waiting lists and the statuses in agreement. *)
LEMMA ListsStep ==
  ASSUME TypeOK, TypeOK', ArgOK, TestedStillHolds, BlockedIffQueued, [Next]_vars
  PROVE  BlockedIffQueued'
<1> USE MonitorAssumption DEF TestedStillHolds, ArgOK, At, Goto, Queues
<1>1. CASE UNCHANGED vars
  BY <1>1 DEF vars, BlockedIffQueued, Queued
<1>2. ASSUME NEW t \in Threads, Step(t) \/ Client(t)
      PROVE  BlockedIffQueued'
  <2> USE <1>2, NextMoves
  <2>1. CASE AcquireBlock(t)
    BY <2>1, ListsBlock DEF AcquireBlock, TypeOK
  <2>2. CASE WaitBlock(t)
    BY <2>2, ListsBlock DEF WaitBlock, TypeOK
  <2>3. CASE ReleaseHandOff(t)
    BY <2>3, ListsUnblock DEF ReleaseHandOff
  <2>4. CASE SignalWake(t)
    BY <2>4, ListsUnblock DEF SignalWake
  <2>5. CASE BroadcastWake(t)
    BY <2>5, ListsUnblock DEF BroadcastWake
  <2>6. CASE UNCHANGED <<waiting, status>>
    BY <2>6, ListsKept
  <2> QED BY <2>1, <2>2, <2>3, <2>4, <2>5, <2>6 DEF Step, LockStep, CondStep,
        AcquireSpin, AcquireTest, AcquireTake, AcquireReturn, AcquireResume,
        ReleaseSpin, ReleaseTest, ReleaseFree, ReleaseReturn,
        WaitSpin, WaitResume, SignalSpin, SignalTest, BroadcastSpin, BroadcastTest,
        WakeReturn, Client, Call, CallAcquire, CallRelease, CallWait, CallSignal,
        CallBroadcast
<1> QED BY <1>1, <1>2 DEF Next

----------------------------------------------------------------------------
(* The lock and a waiting list are changed only under their spinlock. *)
LEMMA OnlyHolderChanges ==
  ASSUME TypeOK, ArgOK, NEW t \in Threads, Step(t) \/ Client(t)
  PROVE  /\ lstatus' # lstatus => HasSpinlock(t, Mutex)
         /\ \A q \in Queues : waiting'[q] # waiting[q] => HasSpinlock(t, q)
<1>1. CASE AcquireTake(t) \/ ReleaseFree(t)
  BY <1>1 DEF AcquireTake, ReleaseFree, HasSpinlock, At
<1>2. CASE AcquireBlock(t) \/ ReleaseHandOff(t)
  BY <1>2 DEF AcquireBlock, ReleaseHandOff, Block, Unblock, HasSpinlock, At, TypeOK
<1>3. CASE WaitBlock(t) \/ SignalWake(t) \/ BroadcastWake(t)
  BY <1>3 DEF WaitBlock, SignalWake, BroadcastWake, Block, Unblock, HasSpinlock, At,
              TypeOK, ArgOK
<1>4. CASE UNCHANGED <<lstatus, waiting>>
  BY <1>4
<1> QED BY <1>1, <1>2, <1>3, <1>4 DEF Step, LockStep, CondStep,
      AcquireSpin, AcquireTest, AcquireReturn, AcquireResume,
      ReleaseSpin, ReleaseTest, ReleaseReturn,
      WaitSpin, WaitResume, SignalSpin, SignalTest, BroadcastSpin, BroadcastTest,
      WakeReturn, Client, Call, CallAcquire, CallRelease, CallWait, CallSignal,
      CallBroadcast

(* What TestedStillHolds says of one thread. *)
Tested(t) ==
  /\ pc[t] = "acq_take"  => lstatus = "UNLOCKED"
  /\ pc[t] = "acq_block" => lstatus = "LOCKED"
  /\ pc[t] = "rel_clear" => waiting[Mutex] = << >>
  /\ pc[t] = "rel_wake"  => waiting[Mutex] # << >>
  /\ pc[t] \in {"sig_wake", "bc_wake"} => waiting[arg[t]] # << >>

(* What a thread tested under a spinlock survives every step, its own and  *)
(* those of others. *)
LEMMA TestedStep ==
  ASSUME TypeOK, ArgOK, SpinlockExclusion, TestedStillHolds, [Next]_vars
  PROVE  TestedStillHolds'
<1>1. CASE UNCHANGED vars
  BY <1>1 DEF vars, TestedStillHolds
<1>2. ASSUME NEW t \in Threads, Step(t) \/ Client(t), NEW u \in Threads
      PROVE  Tested(u)'
  <2>1. CASE u = t
    <3>1. CASE AcquireTest(t)
      BY <2>1, <3>1 DEF AcquireTest, Tested, Goto, TypeOK
    <3>2. CASE ReleaseTest(t)
      BY <2>1, <3>2 DEF ReleaseTest, Tested, Goto, TypeOK
    <3>3. CASE SignalTest(t) \/ BroadcastTest(t)
      BY <2>1, <3>3 DEF SignalTest, BroadcastTest, Tested, Goto, TypeOK
    <3>4. CASE pc'[t] \notin {"acq_take", "acq_block", "rel_clear", "rel_wake",
                              "sig_wake", "bc_wake"}
      BY <2>1, <3>4 DEF Tested
    <3> QED BY <1>2, <3>1, <3>2, <3>3, <3>4 DEF TypeOK, At, Goto,
          Step, LockStep, CondStep,
          AcquireSpin, AcquireTake, AcquireReturn, AcquireBlock, AcquireResume,
          ReleaseSpin, ReleaseFree, ReleaseHandOff, ReleaseReturn,
          WaitSpin, WaitBlock, WaitResume, SignalSpin, SignalWake,
          BroadcastSpin, BroadcastWake, WakeReturn,
          Client, Call, CallAcquire, CallRelease, CallWait, CallSignal, CallBroadcast
  <2>2. CASE u # t
    <3>1. pc'[u] = pc[u] /\ arg'[u] = arg[u] /\ Tested(u)
      BY <1>2, <2>2, NextMoves DEF OnlyMoves, TestedStillHolds, Tested
    <3>2. \A q \in Queues : HasSpinlock(u, q) => ~HasSpinlock(t, q)
      BY <2>2 DEF SpinlockExclusion
    <3>3. Mutex \in Queues /\ HasSpinlock(u, Mutex) => lstatus' = lstatus
                           /\ waiting'[Mutex] = waiting[Mutex]
      BY <1>2, <3>2, OnlyHolderChanges DEF Queues
    <3>4. CASE pc[u] \in {"sig_wake", "bc_wake"}
      <4>1. arg[u] \in Queues /\ HasSpinlock(u, arg[u])
        BY <3>4 DEF ArgOK, HasSpinlock, Queues
      <4> QED BY <1>2, <3>1, <3>2, <3>4, <4>1, OnlyHolderChanges DEF Tested
    <3>5. CASE pc[u] \notin {"sig_wake", "bc_wake"}
      BY <3>1, <3>3, <3>5 DEF Tested, HasSpinlock, Queues
    <3> QED BY <3>4, <3>5
  <2> QED BY <2>1, <2>2
<1> QED BY <1>1, <1>2 DEF Next, TestedStillHolds, Tested

----------------------------------------------------------------------------
(* Ways a step keeps the ownership of the lock right. *)
LEMMA OwnersKept ==
  ASSUME MutualExclusion, UNCHANGED lstatus, \A u \in Threads : Owns(u)' <=> Owns(u)
  PROVE  MutualExclusion'
BY DEF MutualExclusion

(* Every step keeps the lock's status and its owner in agreement. *)
LEMMA OwnStep ==
  ASSUME Inv, [Next]_vars
  PROVE  MutualExclusion'
<1> USE MonitorAssumption DEF Inv, At, Goto
<1>1. CASE UNCHANGED vars
  BY <1>1, OwnersKept DEF vars, Owns
<1>2. ASSUME NEW t \in Threads, Step(t) \/ Client(t)
      PROVE  MutualExclusion'
  <2>1. \A u \in Threads \ {t} : pc'[u] = pc[u]
    BY <1>2, NextMoves DEF OnlyMoves
  <2>2. CASE AcquireTake(t)
    <3>1. lstatus = "UNLOCKED" /\ \A u \in Threads : ~Owns(u)
      BY <2>2 DEF AcquireTake, TestedStillHolds, MutualExclusion
    <3>2. \A u \in Threads : Owns(u)' <=> u = t
      BY <2>2, <3>1 DEF AcquireTake, Owns, TypeOK
    <3> QED BY <2>2, <3>2 DEF AcquireTake, MutualExclusion
  <2>3. CASE ReleaseFree(t)
    <3>1. Owns(t) /\ ~Owns(t)' /\ \A u \in Threads \ {t} : Owns(u)' <=> Owns(u)
      BY <2>3 DEF ReleaseFree, Owns, TypeOK
    <3> QED BY <2>3, <3>1 DEF ReleaseFree, MutualExclusion
  <2>4. CASE ReleaseHandOff(t)
    <3> DEFINE h == Head(waiting[Mutex])
    <3>1. /\ h \in Threads /\ pc[h] = "acq_blocked" /\ status[h] = "BLOCKED"
          /\ waiting[Mutex] # << >>
      <4>1. Mutex \in Queues /\ waiting[Mutex] # << >>
        BY <2>4 DEF ReleaseHandOff, TestedStillHolds, Queues
      <4>2. h \in Threads /\ Queued(h, Mutex)
        BY <1>2, <2>4, <4>1, NextMoves, ListsUnblock DEF ReleaseHandOff
      <4> QED BY <4>1, <4>2 DEF BlockedIffQueued
    <3>2. status'[h] = "RUNNING" /\ \A u \in Threads \ {h} : status'[u] = status[u]
      BY <2>4, <3>1 DEF ReleaseHandOff, Unblock, TypeOK
    <3> HIDE DEF h
    <3>3. Owns(t) /\ pc'[t] = "rel_free" /\ h # t
      BY <2>4, <3>1 DEF ReleaseHandOff, Owns, TypeOK
    <3>4. \A u \in Threads : Owns(u) <=> u = t
      BY <3>3 DEF MutualExclusion
    <3>5. \A u \in Threads : Owns(u)' <=> u = h
      BY <2>1, <3>1, <3>2, <3>3, <3>4 DEF Owns
    <3>6. lstatus' = "LOCKED"
      BY <2>4, <3>3 DEF ReleaseHandOff, MutualExclusion
    <3> QED BY <3>1, <3>5, <3>6 DEF MutualExclusion
  <2>5. CASE SignalWake(t) \/ BroadcastWake(t)
    <3> DEFINE h == Head(waiting[arg[t]])
    <3>1. /\ arg[t] \in Conds
          /\ waiting[arg[t]] # << >>
      BY <2>5 DEF SignalWake, BroadcastWake, ArgOK, TestedStillHolds
    <3>2. h \in Threads /\ Queued(h, arg[t])
      BY <1>2, <2>5, <3>1, NextMoves, ListsUnblock DEF SignalWake, BroadcastWake, Queues
    <3>3. pc[h] = "wait_blocked"
      BY <3>1, <3>2 DEF BlockedIffQueued, Queues
    <3>4. /\ \A u \in Threads \ {h} : status'[u] = status[u]
          /\ pc'[t] \in {"wake_free", "bc_test"} /\ pc[t] \in {"sig_wake", "bc_wake"}
      BY <2>5, <3>2 DEF SignalWake, BroadcastWake, Unblock, TypeOK
    <3> HIDE DEF h
    <3>5. \A u \in Threads : Owns(u)' <=> Owns(u)
      BY <2>1, <3>3, <3>4 DEF Owns
    <3> QED BY <2>5, <3>5, OwnersKept DEF SignalWake, BroadcastWake
  <2>6. CASE AcquireBlock(t) \/ WaitBlock(t)
    <3>1. \A u \in Threads : Owns(u)' <=> Owns(u)
      BY <2>6 DEF AcquireBlock, WaitBlock, Block, Owns, TypeOK
    <3> QED BY <2>6, <3>1, OwnersKept DEF AcquireBlock, WaitBlock
  <2>7. CASE UNCHANGED <<lstatus, status>> /\ (Owns(t)' <=> Owns(t))
    <3>1. \A u \in Threads : Owns(u)' <=> Owns(u)
      BY <2>1, <2>7 DEF Owns
    <3> QED BY <2>7, <3>1, OwnersKept
  <2>8. CASE \/ AcquireSpin(t) \/ AcquireTest(t) \/ AcquireReturn(t) \/ AcquireResume(t)
             \/ ReleaseSpin(t) \/ ReleaseTest(t) \/ ReleaseReturn(t)
    <3>1. UNCHANGED <<lstatus, status>> /\ (Owns(t)' <=> Owns(t))
      BY <2>8 DEF AcquireSpin, AcquireTest, AcquireReturn, AcquireResume,
           ReleaseSpin, ReleaseTest, ReleaseReturn, Owns, TypeOK
    <3> QED BY <2>7, <3>1
  <2>9. CASE \/ WaitSpin(t) \/ WaitResume(t) \/ SignalSpin(t) \/ SignalTest(t)
             \/ BroadcastSpin(t) \/ BroadcastTest(t) \/ WakeReturn(t)
    <3>1. UNCHANGED <<lstatus, status>> /\ (Owns(t)' <=> Owns(t))
      BY <2>9 DEF WaitSpin, WaitResume, SignalSpin, SignalTest,
           BroadcastSpin, BroadcastTest, WakeReturn, Owns, TypeOK
    <3> QED BY <2>7, <3>1
  <2>10. CASE Client(t)
    <3>1. UNCHANGED <<lstatus, status>> /\ (Owns(t)' <=> Owns(t))
      BY <2>10 DEF Client, Call, CallAcquire, CallRelease, CallWait, CallSignal,
           CallBroadcast, Owns, TypeOK
    <3> QED BY <2>7, <3>1
  <2> QED BY <1>2, <2>2, <2>3, <2>4, <2>5, <2>6, <2>8, <2>9, <2>10
          DEF Step, LockStep, CondStep
<1> QED BY <1>1, <1>2 DEF Next

(* Nobody waits for a free lock, before and after every step. *)
LEMMA QueueStep ==
  ASSUME Inv, [Next]_vars
  PROVE  LockedIfQueued'
<1> USE MonitorAssumption DEF Inv, LockedIfQueued
<1>1. CASE UNCHANGED vars
  BY <1>1 DEF vars
<1>2. ASSUME NEW t \in Threads, Step(t) \/ Client(t)
      PROVE  LockedIfQueued'
  <2>1. CASE AcquireTake(t)
    BY <2>1 DEF AcquireTake
  <2>2. CASE AcquireBlock(t)
    BY <2>2 DEF AcquireBlock, TestedStillHolds, At
  <2>3. CASE ReleaseFree(t)
    BY <2>3 DEF ReleaseFree, TestedStillHolds, At
  <2>4. CASE ReleaseHandOff(t)
    <3>1. Owns(t)
      BY <2>4 DEF ReleaseHandOff, Owns, At
    <3> QED BY <2>4, <3>1 DEF ReleaseHandOff, MutualExclusion
  <2>5. CASE UNCHANGED lstatus /\ waiting'[Mutex] = waiting[Mutex]
    BY <2>5
  <2>6. CASE WaitBlock(t) \/ SignalWake(t) \/ BroadcastWake(t)
    <3>1. UNCHANGED lstatus /\ waiting'[Mutex] = waiting[Mutex]
      BY <2>6 DEF WaitBlock, SignalWake, BroadcastWake, Block, Unblock, At, ArgOK, TypeOK,
           Queues
    <3> QED BY <2>5, <3>1
  <2> QED BY <1>2, <2>1, <2>2, <2>3, <2>4, <2>5, <2>6 DEF Step, LockStep, CondStep,
        AcquireSpin, AcquireTest, AcquireReturn, AcquireResume,
        ReleaseSpin, ReleaseTest, ReleaseReturn,
        WaitSpin, WaitResume, SignalSpin, SignalTest, BroadcastSpin, BroadcastTest,
        WakeReturn, Client, Call, CallAcquire, CallRelease, CallWait, CallSignal,
        CallBroadcast
<1> QED BY <1>1, <1>2 DEF Next

(* The invariant is inductive and holds in every reachable state. *)
LEMMA NextInv ==
  ASSUME Inv, [Next]_vars
  PROVE  Inv'
<1>1. TypeOK' /\ ArgOK'
  BY TypeStep DEF Inv
<1>2. SpinlockExclusion'
  BY SpinlockStep DEF Inv
<1>3. TestedStillHolds'
  BY TestedStep DEF Inv
<1>4. BlockedIffQueued'
  BY <1>1, ListsStep DEF Inv
<1>5. MutualExclusion' /\ LockedIfQueued'
  BY OwnStep, QueueStep
<1> QED BY <1>1, <1>2, <1>3, <1>4, <1>5 DEF Inv

(* All parts of the invariant hold whenever thread.c runs, for any number  *)
(* of threads and conditions. *)
THEOREM Invariance == Spec => []Inv
<1>1. Inv /\ [Next]_vars => Inv'
  BY NextInv
<1> QED BY <1>1, InitInv, PTL DEF Spec

----------------------------------------------------------------------------
(* The variables of thread.c keep their types. *)
THEOREM TypeCorrect == Spec => []TypeOK
<1>1. Inv => TypeOK
  BY DEF Inv
<1> QED BY <1>1, Invariance, PTL

(* lock_acquire and lock_release: one owner at a time, hand-off included,  *)
(* and the lock is LOCKED exactly while it has one. *)
THEOREM MutexCorrect == Spec => []MutualExclusion
<1>1. Inv => MutualExclusion
  BY DEF Inv
<1> QED BY <1>1, Invariance, PTL

(* spinlock_acquire and spinlock_release: each spinlock is LOCKED exactly  *)
(* while one thread is in its region. *)
THEOREM SpinlockCorrect == Spec => []SpinlockExclusion
<1>1. Inv => SpinlockExclusion
  BY DEF Inv
<1> QED BY <1>1, Invariance, PTL

(* What lock_acquire, lock_release, condition_signal and                   *)
(* condition_broadcast tested is still so when they act on it. *)
THEOREM TestsCorrect == Spec => []TestedStillHolds
<1>1. Inv => TestedStillHolds
  BY DEF Inv
<1> QED BY <1>1, Invariance, PTL

(* block and unblock: the BLOCKED threads are the ones in waiting lists. *)
THEOREM ListsCorrect == Spec => []BlockedIffQueued
<1>1. Inv => BlockedIffQueued
  BY DEF Inv
<1> QED BY <1>1, Invariance, PTL

(* condition_wait: nobody signals the condition between its lock_release   *)
(* and its block, since it keeps the condition's spinlock. *)
THEOREM WaitIsAtomic == Spec => []NoLostWakeup
<1>1. ASSUME Inv PROVE NoLostWakeup
  <2> SUFFICES ASSUME NEW t \in Threads, NEW u \in Threads,
                      pc[t] \in {"sig_test", "sig_wake", "bc_test", "bc_wake"},
                      pc[u] \in {"rel_free", "wait_block"},
                      arg[t] = arg[u]
               PROVE  FALSE
    BY DEF NoLostWakeup
  <2>1. arg[t] \in Conds
    BY <1>1 DEF Inv, ArgOK
  <2>2. HasSpinlock(t, arg[t]) /\ HasSpinlock(u, arg[t])
    BY <2>1 DEF HasSpinlock
  <2>3. t = u
    BY <1>1, <2>1, <2>2 DEF Inv, SpinlockExclusion, Queues
  <2> QED BY <2>3
<1> QED BY <1>1, Invariance, PTL

(* A thread inside a spinlock's region can go on, unless it is in the      *)
(* lock_release nested in condition_wait and waits for the lock's. *)
LEMMA HolderCanStep ==
  ASSUME Inv, NEW t \in Threads, NEW q \in Queues, HasSpinlock(t, q), pc[t] # "rel_spin"
  PROVE  CanStep(t) /\ InCall(t)
<1>1. pc[t] \notin {"out", "acq_blocked", "wait_blocked"}
  BY DEF HasSpinlock
<1>2. status[t] = "RUNNING"
  BY <1>1 DEF Inv, BlockedIffQueued, TypeOK
<1>3. \A p \in Queues : ~WantsSpinlock(t, p)
  BY DEF WantsSpinlock, HasSpinlock
<1> QED BY <1>1, <1>2, <1>3 DEF CanStep, InCall

(* lock_acquire, lock_release and the condition operations, preempted      *)
(* anywhere, never wait for one another in a circle: while a thread is in   *)
(* one, and does not wait for a condition, one of those in them can go on.  *)
THEOREM DeadlockFree == Spec => []NoDeadlock
<1>1. ASSUME Inv PROVE NoDeadlock
  <2> USE <1>1 DEF Inv
  <2> SUFFICES ASSUME \A t \in Threads : InCall(t) => ~CanStep(t),
                      NEW t \in Threads, InCall(t)
               PROVE  FALSE
    BY DEF NoDeadlock
  <2>1. \A u \in Threads : ~HasSpinlock(u, Mutex)
    <3> SUFFICES ASSUME NEW u \in Threads, HasSpinlock(u, Mutex) PROVE FALSE
      OBVIOUS
    <3>1. pc[u] # "rel_spin" /\ Mutex \in Queues
      BY MonitorAssumption DEF HasSpinlock, Queues
    <3> QED BY <3>1, HolderCanStep
  <2>2. spin[Mutex] = "UNLOCKED"
    BY <2>1 DEF SpinlockExclusion, TypeOK, Queues
  <2>3. ASSUME NEW u \in Threads, Owns(u) PROVE FALSE
    <3>1. status[u] = "RUNNING"
      BY <2>3 DEF Owns, At, BlockedIffQueued, TypeOK
    <3>2. PICK q \in Queues : WantsSpinlock(u, q) /\ spin[q] # "UNLOCKED"
      <4>1. InCall(u)
        BY <2>3, <3>1 DEF InCall, Owns, At
      <4> QED
        BY <3>1, <4>1 DEF CanStep
    <3>3. q # Mutex /\ pc[u] # "rel_spin"
      BY <2>2, <2>3, <3>2 DEF WantsSpinlock, Owns
    <3>4. PICK v \in Threads : HasSpinlock(v, q)
      BY <3>2 DEF SpinlockExclusion, TypeOK
    <3>5. pc[v] = "rel_spin"
      BY <3>4, HolderCanStep
    <3>6. Owns(v)
      BY <3>5 DEF Owns
    <3> QED BY <2>3, <3>3, <3>5, <3>6 DEF MutualExclusion
  <2>4. waiting[Mutex] = << >>
    BY <2>3 DEF LockedIfQueued, MutualExclusion
  <2>5. status[t] = "RUNNING"
    <3>1. \A u \in Threads : ~Queued(u, Mutex)
      BY <2>4 DEF Queued
    <3> QED BY <3>1 DEF BlockedIffQueued, TypeOK, InCall
  <2>6. PICK q \in Queues : WantsSpinlock(t, q) /\ spin[q] # "UNLOCKED"
    BY <2>5 DEF CanStep
  <2>7. pc[t] \in {"wait_spin", "sig_spin", "bc_spin"}
    BY <2>2, <2>6 DEF WantsSpinlock
  <2> QED BY <2>3, <2>7 DEF Owns
<1> QED BY <1>1, Invariance, PTL

----------------------------------------------------------------------------
(* thread.c implements MesaMonitor: every step of Monitor is a step of the *)
(* abstract monitor or leaves it unchanged.                                *)
Inside == {t \in Threads : Owns(t)}
Asking == {t \in Threads : Wants(t)}

(* At most one thread is on its way to sleep on c, as it has c's spinlock, *)
(* and it will be behind those in the list.                                *)
LEMMA AsleepIs ==
  ASSUME NEW c \in Conds, SpinlockExclusion, SpinlockExclusion'
  PROVE  /\ \A t \in Threads : GoingToSleep(t, c) => Asleep(c) = Append(waiting[c], t)
         /\ (\A t \in Threads : ~GoingToSleep(t, c)) => Asleep(c) = waiting[c]
         /\ \A t \in Threads : GoingToSleep(t, c)' => Asleep(c)' = Append(waiting'[c], t)
         /\ (\A t \in Threads : ~GoingToSleep(t, c)') => Asleep(c)' = waiting'[c]
<1>1. ASSUME NEW t \in Threads, GoingToSleep(t, c) PROVE Asleep(c) = Append(waiting[c], t)
  <2>1. \A u \in Threads : GoingToSleep(u, c) => u = t
    BY <1>1 DEF GoingToSleep, SpinlockExclusion, HasSpinlock, Queues
  <2>2. (CHOOSE u \in Threads : GoingToSleep(u, c)) = t
    BY <1>1, <2>1
  <2> QED BY <1>1, <2>2 DEF Asleep
<1>2. ASSUME NEW t \in Threads, GoingToSleep(t, c)' PROVE Asleep(c)' = Append(waiting'[c], t)
  <2>1. \A u \in Threads : GoingToSleep(u, c)' => u = t
    BY <1>2 DEF GoingToSleep, SpinlockExclusion, HasSpinlock, Queues
  <2>2. (CHOOSE u \in Threads : GoingToSleep(u, c)') = t
    BY <1>2, <2>1
  <2> QED BY <1>2, <2>2 DEF Asleep
<1>3. (\A t \in Threads : ~GoingToSleep(t, c)) => Asleep(c) = waiting[c]
  BY DEF Asleep
<1>4. (\A t \in Threads : ~GoingToSleep(t, c)') => Asleep(c)' = waiting'[c]
  BY DEF Asleep
<1> QED BY <1>1, <1>2, <1>3, <1>4

LEMMA AsleepKept ==
  ASSUME NEW c \in Conds, SpinlockExclusion, SpinlockExclusion',
         waiting'[c] = waiting[c],
         \A t \in Threads : GoingToSleep(t, c)' <=> GoingToSleep(t, c)
  PROVE  Asleep(c)' = Asleep(c)
<1>1. CASE \E t \in Threads : GoingToSleep(t, c)
  <2>1. PICK t \in Threads : GoingToSleep(t, c)
    BY <1>1
  <2>2. GoingToSleep(t, c)'
    BY <2>1
  <2> QED BY <2>1, <2>2, AsleepIs
<1>2. CASE \A t \in Threads : ~GoingToSleep(t, c)
  BY <1>2, AsleepIs
<1> QED BY <1>1, <1>2

(* The abstract variables in one place. *)
LEMMA Abstract ==
  /\ Mesa!mvars = <<Inside, Asking, waiting[Mutex], [c \in Conds |-> Asleep(c)]>>
  /\ Mesa!mvars' = <<Inside', Asking', waiting'[Mutex], [c \in Conds |-> Asleep(c)']>>
BY DEF Mesa!mvars, Inside, Asking

(* What the abstract monitor sees of a step is the places of the threads   *)
(* and the lists; it sees nothing of a step that keeps them.               *)
LEMMA Unseen ==
  ASSUME \A t \in Threads : Owns(t)' <=> Owns(t),
         \A t \in Threads : Wants(t)' <=> Wants(t),
         waiting'[Mutex] = waiting[Mutex],
         \A c \in Conds : Asleep(c)' = Asleep(c)
  PROVE  UNCHANGED Mesa!mvars
<1>1. Inside' = Inside /\ Asking' = Asking
  BY DEF Inside, Asking
<1>2. [c \in Conds |-> Asleep(c)'] = [c \in Conds |-> Asleep(c)]
  OBVIOUS
<1> QED BY <1>1, <1>2, Abstract

LEMMA StaysPut ==
  ASSUME SpinlockExclusion, SpinlockExclusion', NEW t \in Threads, OnlyMoves(t),
         UNCHANGED <<waiting, status>>,
         Owns(t)' <=> Owns(t),
         Wants(t)' <=> Wants(t),
         \A c \in Conds : GoingToSleep(t, c)' <=> GoingToSleep(t, c)
  PROVE  UNCHANGED Mesa!mvars
<1>1. ASSUME NEW u \in Threads
      PROVE  /\ Owns(u)' <=> Owns(u)
             /\ Wants(u)' <=> Wants(u)
             /\ \A c \in Conds : GoingToSleep(u, c)' <=> GoingToSleep(u, c)
  <2>1. CASE u = t
    BY <2>1
  <2>2. CASE u # t
    BY <2>2 DEF OnlyMoves, Owns, Wants, GoingToSleep, At
  <2> QED BY <2>1, <2>2
<1>2. ASSUME NEW c \in Conds PROVE Asleep(c)' = Asleep(c)
  BY <1>1, AsleepKept
<1> QED BY <1>1, <1>2, Unseen

(* Calling, taking and releasing spinlocks, testing and returning. *)
Quiet(t) ==
  \/ CallRelease(t)
  \/ \E c \in Conds : CallWait(t, c) \/ CallSignal(t, c) \/ CallBroadcast(t, c)
  \/ AcquireSpin(t) \/ AcquireTest(t) \/ AcquireReturn(t) \/ AcquireResume(t)
  \/ ReleaseSpin(t) \/ ReleaseTest(t) \/ ReleaseReturn(t)
  \/ WaitSpin(t) \/ WaitResume(t)
  \/ SignalSpin(t) \/ SignalTest(t) \/ BroadcastSpin(t) \/ BroadcastTest(t)
  \/ WakeReturn(t)

LEMMA QuietUnseen ==
  ASSUME Inv, Inv', NEW t \in Threads, Quiet(t)
  PROVE  UNCHANGED Mesa!mvars
<1>1. SpinlockExclusion /\ SpinlockExclusion' /\ TypeOK /\ ArgOK
  BY DEF Inv
<1>2. OnlyMoves(t)
  BY <1>1, NextMoves DEF Quiet, Step, LockStep, CondStep, Client
<1> USE DEF At, Goto, Owns, Wants, GoingToSleep, TypeOK
<1>3. CASE CallRelease(t) \/ \E c \in Conds : CallWait(t, c) \/ CallSignal(t, c) \/ CallBroadcast(t, c)
  <2>1. /\ UNCHANGED <<waiting, status>>
        /\ Owns(t)' <=> Owns(t)
        /\ Wants(t)' <=> Wants(t)
        /\ \A c \in Conds : GoingToSleep(t, c)' <=> GoingToSleep(t, c)
    BY <1>1, <1>3 DEF Call, CallRelease, CallWait, CallSignal, CallBroadcast
  <2> QED BY <1>1, <1>2, <2>1, StaysPut
<1>4. CASE AcquireSpin(t) \/ AcquireTest(t) \/ AcquireReturn(t) \/ AcquireResume(t)
  <2>1. /\ UNCHANGED <<waiting, status>>
        /\ Owns(t)' <=> Owns(t)
        /\ Wants(t)' <=> Wants(t)
        /\ \A c \in Conds : GoingToSleep(t, c)' <=> GoingToSleep(t, c)
    BY <1>1, <1>4 DEF AcquireSpin, AcquireTest, AcquireReturn, AcquireResume
  <2> QED BY <1>1, <1>2, <2>1, StaysPut
<1>5. CASE ReleaseSpin(t) \/ ReleaseTest(t) \/ ReleaseReturn(t)
  <2>1. /\ UNCHANGED <<waiting, status>>
        /\ Owns(t)' <=> Owns(t)
        /\ Wants(t)' <=> Wants(t)
        /\ \A c \in Conds : GoingToSleep(t, c)' <=> GoingToSleep(t, c)
    BY <1>1, <1>5, MonitorAssumption DEF ReleaseSpin, ReleaseTest, ReleaseReturn
  <2> QED BY <1>1, <1>2, <2>1, StaysPut
<1>6. CASE WaitSpin(t) \/ WaitResume(t)
  <2>1. /\ UNCHANGED <<waiting, status>>
        /\ Owns(t)' <=> Owns(t)
        /\ Wants(t)' <=> Wants(t)
        /\ \A c \in Conds : GoingToSleep(t, c)' <=> GoingToSleep(t, c)
    BY <1>1, <1>6 DEF WaitSpin, WaitResume
  <2> QED BY <1>1, <1>2, <2>1, StaysPut
<1>7. CASE \/ SignalSpin(t) \/ SignalTest(t)
           \/ BroadcastSpin(t) \/ BroadcastTest(t) \/ WakeReturn(t)
  <2>1. /\ UNCHANGED <<waiting, status>>
        /\ Owns(t)' <=> Owns(t)
        /\ Wants(t)' <=> Wants(t)
        /\ \A c \in Conds : GoingToSleep(t, c)' <=> GoingToSleep(t, c)
    BY <1>1, <1>7 DEF SignalSpin, SignalTest, BroadcastSpin, BroadcastTest, WakeReturn
  <2> QED BY <1>1, <1>2, <2>1, StaysPut
<1> QED BY <1>3, <1>4, <1>5, <1>6, <1>7 DEF Quiet

(* What another thread is doing does not change, unless the step wakes it. *)
LEMMA OthersStay ==
  ASSUME NEW t \in Threads, OnlyMoves(t), NEW u \in Threads, u # t
  PROVE  /\ \A c \in Conds : GoingToSleep(u, c)' <=> GoingToSleep(u, c)
         /\ status'[u] = status[u] => (Owns(u)' <=> Owns(u)) /\ (Wants(u)' <=> Wants(u))
BY DEF OnlyMoves, GoingToSleep, Owns, Wants, At

(* block() in condition_wait: the thread was asleep already to those who   *)
(* see it from outside, and takes the place in the list it was to have.    *)
LEMMA WaitBlockUnseen ==
  ASSUME Inv, Inv', NEW t \in Threads, WaitBlock(t)
  PROVE  UNCHANGED Mesa!mvars
<1>1. SpinlockExclusion /\ SpinlockExclusion' /\ TypeOK /\ ArgOK
  BY DEF Inv
<1>2. OnlyMoves(t)
  BY <1>1, NextMoves DEF Step, CondStep
<1>0. PICK d \in Conds : arg[t] = d
  BY <1>1 DEF WaitBlock, At, ArgOK
<1>3. /\ pc[t] = "wait_block" /\ pc'[t] = "wait_blocked" /\ arg[t] = d /\ arg' = arg
      /\ status' = [status EXCEPT ![t] = "BLOCKED"]
      /\ waiting' = [waiting EXCEPT ![d] = Append(@, t)]
      /\ waiting'[d] = Append(waiting[d], t)
      /\ \A q \in Queues : q # d => waiting'[q] = waiting[q]
  BY <1>0, <1>1 DEF WaitBlock, Block, At, Goto, TypeOK, Queues
<1>4. ASSUME NEW u \in Threads
      PROVE  (Owns(u)' <=> Owns(u)) /\ (Wants(u)' <=> Wants(u))
  <2>1. CASE u = t
    BY <1>1, <1>3, <2>1 DEF Owns, Wants, At, TypeOK
  <2>2. CASE u # t
    BY <1>1, <1>2, <1>3, <2>2, OthersStay DEF TypeOK
  <2> QED BY <2>1, <2>2
<1>5. Asleep(d)' = Asleep(d)
  <2>1. GoingToSleep(t, d)
    BY <1>3 DEF GoingToSleep
  <2>2. \A u \in Threads : u # t => ~GoingToSleep(u, d)
    BY <1>1, <1>3, <2>1 DEF GoingToSleep, SpinlockExclusion, HasSpinlock, Queues
  <2>3. \A u \in Threads : ~GoingToSleep(u, d)'
    <3>1. ~GoingToSleep(t, d)'
      BY <1>3 DEF GoingToSleep
    <3> QED BY <1>2, <1>3, <2>2, <3>1, OthersStay DEF GoingToSleep, OnlyMoves
  <2> QED BY <1>1, <1>3, <2>1, <2>3, AsleepIs
<1>6. ASSUME NEW c \in Conds, c # d PROVE Asleep(c)' = Asleep(c)
  <2>1. ~GoingToSleep(t, c) /\ ~GoingToSleep(t, c)'
    BY <1>3, <1>6 DEF GoingToSleep
  <2>2. \A u \in Threads : GoingToSleep(u, c)' <=> GoingToSleep(u, c)
    BY <1>2, <2>1, OthersStay
  <2> QED BY <1>1, <1>3, <1>6, <2>2, AsleepKept DEF Queues
<1>7. waiting'[Mutex] = waiting[Mutex]
  BY <1>3, MonitorAssumption DEF Queues
<1> QED BY <1>4, <1>5, <1>6, <1>7, Unseen

(* A call of lock_acquire: the caller is nowhere in the monitor yet.       *)
LEMMA AsksFor ==
  ASSUME Inv, Inv', NEW t \in Threads, CallAcquire(t)
  PROVE  Mesa!Ask(t)
<1>1. SpinlockExclusion /\ SpinlockExclusion' /\ TypeOK /\ BlockedIffQueued
  BY DEF Inv
<1>2. OnlyMoves(t)
  BY <1>1, NextMoves DEF Client
<1>3. /\ pc[t] = "out" /\ pc'[t] = "acq_spin" /\ status[t] = "RUNNING"
      /\ UNCHANGED <<waiting, status>>
  BY <1>1 DEF CallAcquire, Call, At, Goto, TypeOK
<1>4. Inside' = Inside /\ t \notin Inside
  BY <1>2, <1>3, OthersStay DEF Inside, Owns, At
<1>5. Asking' = Asking \cup {t} /\ t \notin Asking
  <2>1. ~Wants(t) /\ Wants(t)'
    BY <1>3 DEF Wants, At
  <2>2. \A u \in Threads : u # t => (Wants(u)' <=> Wants(u))
    BY <1>2, <1>3, OthersStay
  <2> QED BY <2>1, <2>2 DEF Asking
<1>6. \A c \in Conds : Asleep(c)' = Asleep(c)
  <2>1. \A c \in Conds : ~GoingToSleep(t, c) /\ ~GoingToSleep(t, c)'
    BY <1>3 DEF GoingToSleep
  <2>2. \A c \in Conds, u \in Threads : GoingToSleep(u, c)' <=> GoingToSleep(u, c)
    BY <1>2, <2>1, OthersStay
  <2> QED BY <1>1, <1>3, <2>2, AsleepKept
<1>7. \A q \in Queues : waiting[q] \in Seq(Threads) /\ ~Occurs(waiting[q], t)
  BY <1>1, <1>3 DEF TypeOK, BlockedIffQueued, Queued, Occurs
<1>8. \A i \in DOMAIN waiting[Mutex] : waiting[Mutex][i] # t
  BY <1>7 DEF Occurs, Queues
<1>9. ASSUME NEW c \in Conds, NEW i \in DOMAIN Asleep(c) PROVE Asleep(c)[i] # t
  <2>1. CASE \E u \in Threads : GoingToSleep(u, c)
    <3>1. PICK u \in Threads : GoingToSleep(u, c)
      BY <2>1
    <3>2. u # t
      BY <1>3, <3>1 DEF GoingToSleep
    <3>3. Asleep(c) = Append(waiting[c], u)
      BY <1>1, <3>1, AsleepIs
    <3>4. Asleep(c) \in Seq(Threads) /\ ~Occurs(Asleep(c), t)
      BY <1>7, <3>2, <3>3, AppendOccurs DEF Queues
    <3> QED BY <3>4 DEF Occurs
  <2>2. CASE \A u \in Threads : ~GoingToSleep(u, c)
    <3>1. Asleep(c) = waiting[c]
      BY <1>1, <2>2, AsleepIs
    <3> QED BY <1>7, <3>1 DEF Occurs, Queues
  <2> QED BY <2>1, <2>2
<1>10. ~Mesa!Present(t)
  BY <1>4, <1>5, <1>8, <1>9 DEF Mesa!Present, Inside, Asking
<1>11. [c \in Conds |-> Asleep(c)'] = [c \in Conds |-> Asleep(c)]
  BY <1>6
<1> QED BY <1>3, <1>4, <1>5, <1>10, <1>11 DEF Mesa!Ask, Inside, Asking

(* The two ends of lock_acquire that matter: the lock was free and is      *)
(* taken, or it was not and the thread queues for it.                      *)
LEMMA Enters ==
  ASSUME Inv, Inv', NEW t \in Threads, AcquireTake(t) \/ AcquireBlock(t)
  PROVE  Mesa!Enter(t)
<1>1. /\ SpinlockExclusion /\ SpinlockExclusion' /\ TypeOK
      /\ TestedStillHolds /\ MutualExclusion
  BY DEF Inv
<1>2. OnlyMoves(t)
  BY <1>1, NextMoves DEF Step, LockStep
<1>3. \A c \in Conds : waiting'[c] = waiting[c] /\ ~GoingToSleep(t, c) /\ ~GoingToSleep(t, c)'
  BY <1>1, MonitorAssumption
     DEF AcquireTake, AcquireBlock, Block, At, Goto, TypeOK, GoingToSleep, Queues
<1>4. [c \in Conds |-> Asleep(c)'] = [c \in Conds |-> Asleep(c)]
  <2>1. \A c \in Conds, u \in Threads : GoingToSleep(u, c)' <=> GoingToSleep(u, c)
    BY <1>2, <1>3, OthersStay
  <2>2. \A c \in Conds : Asleep(c)' = Asleep(c)
    BY <1>1, <1>3, <2>1, AsleepKept
  <2> QED BY <2>2
<1>5. /\ t \in Asking /\ Asking' = Asking \ {t}
      /\ Inside' = IF Owns(t)' THEN Inside \cup {t} ELSE Inside
  <2>1. \A u \in Threads : u # t => status'[u] = status[u]
    BY <1>1 DEF AcquireTake, AcquireBlock, Block, TypeOK
  <2>2. \A u \in Threads : u # t => (Owns(u)' <=> Owns(u)) /\ (Wants(u)' <=> Wants(u))
    BY <1>2, <2>1, OthersStay
  <2>3. Wants(t) /\ ~Wants(t)' /\ ~Owns(t)
    BY <1>1 DEF AcquireTake, AcquireBlock, Block, TypeOK, Wants, Owns, At, Goto
  <2> QED BY <2>2, <2>3 DEF Inside, Asking
<1>6. CASE AcquireTake(t)
  <2>1. Inside = {}
    BY <1>1, <1>6 DEF AcquireTake, At, TestedStillHolds, MutualExclusion, Inside
  <2>2. Owns(t)' /\ waiting' = waiting
    BY <1>1, <1>6 DEF AcquireTake, At, Goto, Owns, TypeOK
  <2> QED BY <1>4, <1>5, <2>1, <2>2 DEF Mesa!Enter, Inside, Asking
<1>7. CASE AcquireBlock(t)
  <2>1. Inside # {}
    BY <1>1, <1>7 DEF AcquireBlock, At, TestedStillHolds, MutualExclusion, Inside
  <2>2. ~Owns(t)' /\ waiting'[Mutex] = Append(waiting[Mutex], t)
    BY <1>1, <1>7 DEF AcquireBlock, Block, At, Goto, Owns, TypeOK, Queues
  <2> QED BY <1>4, <1>5, <2>1, <2>2 DEF Mesa!Enter, Inside, Asking
<1> QED BY <1>6, <1>7

(* The step of lock_release that gives up the lock makes a thread in       *)
(* condition_wait the last of those asleep on its condition.               *)
LEMMA FallsAsleep ==
  ASSUME Inv, Inv', NEW t \in Threads, ReleaseFree(t) \/ ReleaseHandOff(t)
  PROVE  [c \in Conds |-> Asleep(c)'] =
           IF arg[t] = NoCond THEN [c \in Conds |-> Asleep(c)]
           ELSE [[c \in Conds |-> Asleep(c)] EXCEPT ![arg[t]] = Append(@, t)]
<1>1. SpinlockExclusion /\ SpinlockExclusion' /\ TypeOK
  BY DEF Inv
<1>2. OnlyMoves(t)
  BY <1>1, NextMoves DEF Step, LockStep
<1>3. /\ pc[t] \in {"rel_clear", "rel_wake"} /\ pc'[t] = "rel_free" /\ arg' = arg
      /\ arg[t] \in Conds \cup {NoCond}
      /\ \A c \in Conds : waiting'[c] = waiting[c]
  BY <1>1, MonitorAssumption
     DEF ReleaseFree, ReleaseHandOff, Unblock, At, Goto, TypeOK, Queues
<1>4. ASSUME NEW c \in Conds, arg[t] # c PROVE Asleep(c)' = Asleep(c)
  <2>1. ~GoingToSleep(t, c) /\ ~GoingToSleep(t, c)'
    BY <1>3, <1>4 DEF GoingToSleep
  <2>2. \A u \in Threads : GoingToSleep(u, c)' <=> GoingToSleep(u, c)
    BY <1>2, <2>1, OthersStay
  <2> QED BY <1>1, <1>3, <2>2, AsleepKept
<1>5. ASSUME NEW c \in Conds, arg[t] = c PROVE Asleep(c)' = Append(Asleep(c), t)
  <2>1. \A u \in Threads : ~GoingToSleep(u, c)
    BY <1>1, <1>3, <1>5 DEF GoingToSleep, SpinlockExclusion, HasSpinlock, Queues
  <2>2. GoingToSleep(t, c)'
    BY <1>3, <1>5 DEF GoingToSleep
  <2> QED BY <1>1, <1>3, <2>1, <2>2, AsleepIs
<1> QED BY <1>3, <1>4, <1>5, MonitorAssumption

(* The lock becomes free if nobody queues for it, and otherwise is the     *)
(* first one's.                                                            *)
LEMMA PassesOn ==
  ASSUME Inv, Inv', NEW t \in Threads, ReleaseFree(t) \/ ReleaseHandOff(t)
  PROVE  Mesa!PassOn(t)
<1>1. /\ TypeOK /\ TestedStillHolds /\ MutualExclusion /\ BlockedIffQueued
  BY DEF Inv
<1>2. OnlyMoves(t)
  BY <1>1, NextMoves DEF Step, LockStep
<1>3. /\ Inside = {t}
      /\ ~Owns(t)' /\ ~Wants(t) /\ ~Wants(t)'
  BY <1>1 DEF ReleaseFree, ReleaseHandOff, At, Goto, Owns, Wants, TypeOK, MutualExclusion, Inside
<1>4. CASE ReleaseFree(t)
  <2>1. waiting[Mutex] = << >> /\ waiting' = waiting /\ status' = status
    BY <1>1, <1>4 DEF ReleaseFree, At, TestedStillHolds
  <2>2. \A u \in Threads : u # t => (Owns(u)' <=> Owns(u)) /\ (Wants(u)' <=> Wants(u))
    BY <1>2, <2>1, OthersStay
  <2>3. Inside' = {} /\ Asking' = Asking
    BY <1>3, <2>2 DEF Inside, Asking
  <2> QED BY <1>3, <2>1, <2>3 DEF Mesa!PassOn, Inside, Asking
<1>5. CASE ReleaseHandOff(t)
  <2> DEFINE h == Head(waiting[Mutex])
  <2>1. /\ waiting[Mutex] # << >> /\ waiting[Mutex] \in Seq(Threads)
        /\ waiting'[Mutex] = Tail(waiting[Mutex])
        /\ status' = [status EXCEPT ![h] = "RUNNING"]
    BY <1>1, <1>5 DEF ReleaseHandOff, Unblock, At, TestedStillHolds, TypeOK, Queues
  <2>2. h \in Threads /\ Queued(h, Mutex)
    BY <2>1, TailOccurs DEF Queued, Occurs
  <2>3. pc[h] = "acq_blocked" /\ status[h] = "BLOCKED"
    BY <1>1, <2>2 DEF BlockedIffQueued, Queues
  <2>4. h # t
    BY <2>3, <1>5 DEF ReleaseHandOff, At
  <2>5. PICK n \in Threads : n = h
    BY <2>2
  <2>6. pc'[n] = "acq_blocked" /\ status'[n] = "RUNNING"
    BY <1>1, <1>2, <2>1, <2>3, <2>4, <2>5 DEF OnlyMoves, TypeOK
  <2>7. Owns(n)' /\ ~Wants(n) /\ ~Wants(n)'
    BY <2>3, <2>5, <2>6 DEF Owns, Wants, At
  <2>8. \A u \in Threads : u # t /\ u # n => (Owns(u)' <=> Owns(u)) /\ (Wants(u)' <=> Wants(u))
    BY <1>1, <1>2, <2>1, <2>5, OthersStay DEF TypeOK
  <2>9. Inside' = {n} /\ Asking' = Asking
    BY <1>3, <2>7, <2>8 DEF Inside, Asking
  <2> QED BY <1>3, <2>1, <2>5, <2>9 DEF Mesa!PassOn, Inside, Asking
<1> QED BY <1>4, <1>5

LEMMA Leaves ==
  ASSUME Inv, Inv', NEW t \in Threads, ReleaseFree(t) \/ ReleaseHandOff(t)
  PROVE  Mesa!Leave(t) \/ \E c \in Conds : Mesa!Wait(t, c)
<1>1. Mesa!PassOn(t)
  BY PassesOn
<1>2. arg[t] \in Conds \cup {NoCond}
  BY DEF Inv, TypeOK
<1>3. CASE arg[t] = NoCond
  BY <1>1, <1>3, FallsAsleep DEF Mesa!Leave
<1>4. ASSUME NEW c \in Conds, arg[t] = c PROVE Mesa!Wait(t, c)
  BY <1>1, <1>4, FallsAsleep, MonitorAssumption DEF Mesa!Wait
<1> QED BY <1>2, <1>3, <1>4

(* unblock() in condition_signal or condition_broadcast: the head of the   *)
(* list asks for the lock. Nobody is on the way to sleep on the condition, *)
(* whose spinlock t has.                                                   *)
LEMMA Wakes ==
  ASSUME Inv, Inv', NEW t \in Threads, SignalWake(t) \/ BroadcastWake(t)
  PROVE  \E c \in Conds : Mesa!Wake(t, c)
<1>1. /\ SpinlockExclusion /\ SpinlockExclusion' /\ TypeOK /\ ArgOK
      /\ TestedStillHolds /\ BlockedIffQueued
  BY DEF Inv
<1>2. OnlyMoves(t)
  BY <1>1, NextMoves DEF Step, CondStep
<1>3. PICK d \in Conds : arg[t] = d
  BY <1>1 DEF SignalWake, BroadcastWake, At, ArgOK
<1>4. PICK h : h = Head(waiting[d])
  OBVIOUS
<1>5. /\ pc[t] \in {"sig_wake", "bc_wake"} /\ pc'[t] \in {"wake_free", "bc_test"}
      /\ arg' = arg /\ waiting[d] # << >> /\ waiting[d] \in Seq(Threads)
      /\ waiting' = [waiting EXCEPT ![d] = Tail(@)]
      /\ status' = [status EXCEPT ![h] = "RUNNING"]
  BY <1>1, <1>3, <1>4
     DEF SignalWake, BroadcastWake, Unblock, At, Goto, TestedStillHolds, TypeOK, Queues
<1>6. /\ waiting'[d] = Tail(waiting[d]) /\ waiting'[Mutex] = waiting[Mutex]
      /\ \A c \in Conds : c # d => waiting'[c] = waiting[c]
  BY <1>1, <1>5, MonitorAssumption DEF TypeOK, Queues
<1>7. h \in Threads /\ pc[h] = "wait_blocked" /\ status[h] = "BLOCKED"
  <2>1. h \in Threads /\ Queued(h, d)
    BY <1>4, <1>5, TailOccurs DEF Queued, Occurs
  <2> QED BY <1>1, <2>1, MonitorAssumption DEF BlockedIffQueued, Queues
<1>8. h # t
  BY <1>5, <1>7
<1>9. pc'[h] = "wait_blocked" /\ status'[h] = "RUNNING"
  BY <1>1, <1>2, <1>5, <1>7, <1>8 DEF OnlyMoves, TypeOK
<1>10. t \in Inside /\ Inside' = Inside /\ Asking' = Asking \cup {h}
  <2>1. ~Owns(h) /\ ~Owns(h)' /\ Wants(h)'
    BY <1>7, <1>9 DEF Owns, Wants, At
  <2>2. Owns(t) /\ Owns(t)' /\ ~Wants(t) /\ ~Wants(t)'
    BY <1>5 DEF Owns, Wants, At
  <2>3. \A u \in Threads : u # t /\ u # h => (Owns(u)' <=> Owns(u)) /\ (Wants(u)' <=> Wants(u))
    BY <1>1, <1>2, <1>5, OthersStay DEF TypeOK
  <2> QED BY <1>7, <2>1, <2>2, <2>3 DEF Inside, Asking
<1>11. \A c \in Conds, u \in Threads : GoingToSleep(u, c)' <=> GoingToSleep(u, c)
  <2>1. \A c \in Conds : ~GoingToSleep(t, c) /\ ~GoingToSleep(t, c)'
    BY <1>5 DEF GoingToSleep
  <2> QED BY <1>2, <2>1, OthersStay
<1>12. Asleep(d) = waiting[d] /\ Asleep(d)' = Tail(waiting[d])
  <2>1. \A u \in Threads : ~GoingToSleep(u, d)
    BY <1>1, <1>3, <1>5 DEF GoingToSleep, SpinlockExclusion, HasSpinlock, Queues
  <2> QED BY <1>1, <1>6, <1>11, <2>1, AsleepIs
<1>13. \A c \in Conds : c # d => Asleep(c)' = Asleep(c)
  BY <1>1, <1>6, <1>11, AsleepKept
<1>14. [c \in Conds |-> Asleep(c)'] = [[c \in Conds |-> Asleep(c)] EXCEPT ![d] = Tail(@)]
  BY <1>12, <1>13
<1>15. Mesa!Wake(t, d)
  BY <1>4, <1>5, <1>6, <1>10, <1>12, <1>14 DEF Mesa!Wake, Inside, Asking
<1> QED BY <1>15

----------------------------------------------------------------------------
(* Every step of thread.c and its callers is a step of the abstract        *)
(* monitor, or nothing to it.                                              *)
LEMMA MesaStep == Inv /\ Inv' /\ [Next]_vars => [Mesa!Next]_Mesa!mvars
<1> SUFFICES ASSUME Inv, Inv', [Next]_vars PROVE Mesa!Next \/ UNCHANGED Mesa!mvars
  OBVIOUS
<1>1. CASE UNCHANGED vars
  <2>1. \A t \in Threads : /\ Owns(t)' <=> Owns(t)
                           /\ Wants(t)' <=> Wants(t)
                           /\ \A c \in Conds : GoingToSleep(t, c)' <=> GoingToSleep(t, c)
    BY <1>1 DEF vars, Owns, Wants, GoingToSleep, At
  <2>2. \A c \in Conds : Asleep(c)' = Asleep(c)
    BY <1>1, <2>1, AsleepKept DEF Inv, vars
  <2> QED BY <1>1, <2>1, <2>2, Unseen DEF vars
<1>2. ASSUME NEW t \in Threads, Step(t) \/ Client(t)
      PROVE  Mesa!Next \/ UNCHANGED Mesa!mvars
  <2>1. CASE Quiet(t)
    BY <2>1, QuietUnseen
  <2>2. CASE WaitBlock(t)
    BY <2>2, WaitBlockUnseen
  <2>3. CASE CallAcquire(t)
    BY <2>3, AsksFor DEF Mesa!Next
  <2>4. CASE AcquireTake(t) \/ AcquireBlock(t)
    BY <2>4, Enters DEF Mesa!Next
  <2>5. CASE ReleaseFree(t) \/ ReleaseHandOff(t)
    BY <2>5, Leaves DEF Mesa!Next
  <2>6. CASE SignalWake(t) \/ BroadcastWake(t)
    BY <2>6, Wakes DEF Mesa!Next
  <2> QED BY <1>2, <2>1, <2>2, <2>3, <2>4, <2>5, <2>6
          DEF Quiet, Step, LockStep, CondStep, Client
<1> QED BY <1>1, <1>2 DEF Next

(* lock_init and condition_init leave nobody in the monitor. *)
LEMMA MesaInit == Init => Mesa!Init
<1> SUFFICES ASSUME Init PROVE Mesa!Init
  OBVIOUS
<1>1. \A t \in Threads : ~Owns(t) /\ ~Wants(t) /\ \A c \in Conds : ~GoingToSleep(t, c)
  BY DEF Init, Owns, Wants, GoingToSleep, At
<1>2. \A c \in Conds : Asleep(c) = << >>
  BY <1>1 DEF Asleep, Init, Queues
<1> QED BY <1>1, <1>2 DEF Init, Mesa!Init, Queues

(* thread.c implements MesaMonitor: the lock is handed over in the order   *)
(* threads queued for it, waiting on a condition is atomic with giving up  *)
(* the lock, and waking is first come, first served.                       *)
THEOREM Implements == Spec => MesaSpec
BY Invariance, MesaInit, MesaStep, PTL DEF Spec, MesaSpec, Mesa!Spec

----------------------------------------------------------------------------
(* The mailbox.                                                            *)

(* What a thread may call next, whatever it wants to send. *)
Calls(t) ==
  \/ StartOpen(t) \/ StartClose(t) \/ StartStat(t) \/ StartRecv(t)
  \/ \E m : StartSend(t, m)

Ops == {"closed", "opening", "idle", "closing", "stat", "send", "sent", "recv", "recvd"}

Signalling   == {"sig_spin", "sig_test", "sig_wake"}
Broadcasting == {"bc_spin", "bc_test", "bc_wake"}
LettingGo    == {"wait_spin", "rel_spin", "rel_test", "rel_clear", "rel_wake"}

(* Which call of the monitor a thread is in says how far its mailbox       *)
(* operation is.                                                           *)
OpOK ==
  /\ op \in [Threads -> Ops]
  /\ \A t \in Threads :
       /\ op[t] = "sent"  => pc[t] \in Signalling \cup {"wake_free", "in"}
       /\ op[t] = "recvd" => pc[t] \in Broadcasting \cup {"wake_free", "in"}
       /\ pc[t] \in Signalling   => op[t] = "sent" /\ arg[t] = moreData
       /\ pc[t] \in Broadcasting => op[t] = "recvd" /\ arg[t] = moreSpace
       /\ pc[t] = "wake_free"    => op[t] \in {"sent", "recvd"}
       /\ pc[t] \in LettingGo \cup {"rel_free", "wait_block", "wait_blocked"}
            /\ arg[t] = moreData => op[t] = "recv"

(* mbox_recv waits for a message only when there is none, and takes one    *)
(* only when there is one.                                                 *)
CountOK ==
  /\ count \in Nat
  /\ \A t \in Threads :
       /\ op[t] = "recvd" => count # 0
       /\ pc[t] \in LettingGo /\ arg[t] = moreData => count = 0

(* t waits for a message, or is about to, having given up the lock. *)
Sleeps(t) == Queued(t, moreData) \/ GoingToSleep(t, moreData)

(* the receivers that will look for a message *)
Coming == {t \in Threads : op[t] = "recv" /\ ~Sleeps(t)}

(* t has signalled its message and not counted it. *)
Told(t) == op[t] = "sent" /\ pc[t] \in {"wake_free", "in"}

(* The messages that receivers must come for. *)
Due ==
  IF \E t \in Threads : Told(t) THEN count + 1
  ELSE IF \E t \in Threads : op[t] = "recvd" THEN count - 1
  ELSE count

Enough == (\E t \in Threads : Sleeps(t)) => Due <= Cardinality(Coming)

(* The inductive invariant. *)
MInv == Inv /\ OpOK /\ CountOK /\ Enough

----------------------------------------------------------------------------
(* The mailbox calls the monitor as its rules say. *)
LEMMA FollowsRules ==
  ASSUME NEW t \in Threads, Calls(t) \/ Work(t)
  PROVE  Step(t) \/ Client(t)
<1>1. moreData \in Conds /\ moreSpace \in Conds
  BY MboxAssumption
<1> QED BY <1>1 DEF Calls, Start, StartOpen, StartClose, StartStat, StartRecv, StartSend, Work,
  Open, Close, Stat, RecvWait, RecvCopy, RecvDone, SendWait, SendCopy, SendDone, Client

(* The owner of the lock is alone with the mailbox. *)
LEMMA OwnerAlone ==
  ASSUME Inv, OpOK, NEW t \in Threads, Owns(t), NEW u \in Threads, u # t
  PROVE  op[u] \notin {"sent", "recvd"} /\ pc[u] \notin LettingGo
<1>1. ~Owns(u)
  BY DEF Inv, MutualExclusion
<1> QED BY <1>1 DEF Owns, OpOK, LettingGo, Signalling, Broadcasting

LEMMA Distinct ==
  /\ moreData \in Conds /\ moreSpace \in Conds /\ moreData # moreSpace
  /\ moreData \in Queues /\ moreSpace \in Queues
  /\ moreData # Mutex /\ moreData # NoCond /\ moreSpace # NoCond
BY MonitorAssumption, MboxAssumption DEF Queues

(* A call, or a step inside mbox.c, keeps operation and place together. *)
LEMMA OpStep ==
  ASSUME Inv, Inv', OpOK, CountOK, NEW t \in Threads, Calls(t) \/ Work(t)
  PROVE  OpOK' /\ CountOK'
<1> DEFINE Fits(u) ==
  /\ op[u] \in Ops
  /\ op[u] = "sent"  => pc[u] \in Signalling \cup {"wake_free", "in"}
  /\ op[u] = "recvd" => pc[u] \in Broadcasting \cup {"wake_free", "in"}
  /\ pc[u] \in Signalling   => op[u] = "sent" /\ arg[u] = moreData
  /\ pc[u] \in Broadcasting => op[u] = "recvd" /\ arg[u] = moreSpace
  /\ pc[u] = "wake_free"    => op[u] \in {"sent", "recvd"}
  /\ pc[u] \in LettingGo \cup {"rel_free", "wait_block", "wait_blocked"}
       /\ arg[u] = moreData => op[u] = "recv"
  /\ op[u] = "recvd" => count # 0
  /\ pc[u] \in LettingGo /\ arg[u] = moreData => count = 0
<1>1. op \in [Threads -> Ops] /\ count \in Nat /\ \A u \in Threads : Fits(u)
  BY DEF OpOK, CountOK
<1>2. TypeOK /\ OnlyMoves(t)
  BY FollowsRules, NextMoves DEF Inv
<1> SUFFICES op' \in [Threads -> Ops] /\ count' \in Nat /\ \A u \in Threads : Fits(u)'
  BY DEF OpOK, CountOK
<1>3. CASE Calls(t)
  <2>1. /\ op' \in [Threads -> Ops] /\ op'[t] \in Ops \ {"sent", "recvd"}
        /\ \A u \in Threads : u # t => op'[u] = op[u]
        /\ pc'[t] = "acq_spin" /\ count' = count
    BY <1>1, <1>2, <1>3 DEF Calls, Start, StartOpen, StartClose, StartStat, StartRecv, StartSend,
      CallAcquire, Call, Goto, Become, Ops, TypeOK
  <2>2. Fits(t)'
    BY <2>1 DEF Signalling, Broadcasting, LettingGo
  <2>3. \A u \in Threads : u # t => Fits(u)'
    BY <1>1, <1>2, <2>1 DEF OnlyMoves
  <2> QED BY <1>1, <2>1, <2>2, <2>3
<1>4. CASE Step(t) /\ UNCHANGED mboxvars
  <2>1. op' = op /\ count' = count
    BY <1>4 DEF mboxvars
  <2>2. Fits(t)'
    <3>1. CASE LockStep(t)
      BY <1>1, <1>2, <2>1, <3>1, Distinct DEF TypeOK, Signalling, Broadcasting, LettingGo,
        LockStep, At, Goto,
        AcquireSpin, AcquireTest, AcquireTake, AcquireReturn, AcquireBlock, AcquireResume,
        ReleaseSpin, ReleaseTest, ReleaseFree, ReleaseHandOff, ReleaseReturn
    <3>2. CASE CondStep(t)
      BY <1>1, <1>2, <2>1, <3>2, Distinct DEF TypeOK, Signalling, Broadcasting, LettingGo,
        CondStep, At, Goto, WaitSpin, WaitBlock, WaitResume, SignalSpin, SignalTest, SignalWake,
        BroadcastSpin, BroadcastTest, BroadcastWake, WakeReturn
    <3> QED BY <1>4, <3>1, <3>2 DEF Step
  <2>3. \A u \in Threads : u # t => Fits(u)'
    BY <1>1, <1>2, <2>1 DEF OnlyMoves
  <2> QED BY <1>1, <2>1, <2>2, <2>3
<1>5. CASE /\ \/ Open(t) \/ Close(t) \/ Stat(t) \/ RecvWait(t) \/ RecvCopy(t) \/ RecvDone(t)
              \/ SendWait(t) \/ SendCopy(t) \/ SendDone(t)
  <2>1. pc[t] = "in" /\ Owns(t)
    BY <1>5 DEF Open, Close, Stat, RecvWait, RecvCopy, RecvDone, SendWait, SendCopy, SendDone,
      InOp, At, Owns
  <2>2. \A u \in Threads : u # t => op[u] \notin {"sent", "recvd"} /\ pc[u] \notin LettingGo
    BY <2>1, OwnerAlone
  <2>3. /\ op' \in [Threads -> Ops] /\ count' \in Nat /\ Fits(t)'
        /\ \A u \in Threads : u # t => op'[u] = op[u]
    <3> USE DEF InOp, At, Goto, Become, Call, TypeOK, Ops, Signalling, Broadcasting, LettingGo
    <3>1. CASE Open(t) \/ Close(t) \/ Stat(t)
      <4>1. /\ count' \in Nat /\ pc' = [pc EXCEPT ![t] = "rel_spin"]
            /\ arg' = [arg EXCEPT ![t] = NoCond]
            /\ \E o \in {"idle", "closed"} : op' = [op EXCEPT ![t] = o]
        BY <1>1, <3>1 DEF Open, Close, Stat, CallRelease
      <4> QED BY <1>1, <1>2, <4>1, Distinct
    <3>2. CASE RecvWait(t) \/ SendWait(t)
      BY <1>1, <1>2, <2>1, <3>2, Distinct DEF RecvWait, SendWait, CallWait, mboxvars
    <3>3. CASE RecvCopy(t)
      BY <1>1, <1>2, <2>1, <3>3, Distinct DEF RecvCopy, CallBroadcast
    <3>4. CASE SendCopy(t)
      BY <1>1, <1>2, <2>1, <3>4, Distinct DEF SendCopy, CallSignal
    <3>5. CASE RecvDone(t) \/ SendDone(t)
      <4>1. /\ count' \in Nat /\ pc' = [pc EXCEPT ![t] = "rel_spin"]
            /\ arg' = [arg EXCEPT ![t] = NoCond] /\ op' = [op EXCEPT ![t] = "idle"]
        BY <1>1, <3>5 DEF RecvDone, SendDone, CallRelease
      <4> QED BY <1>1, <1>2, <4>1, Distinct
    <3> QED BY <1>5, <3>1, <3>2, <3>3, <3>4, <3>5
  <2>4. \A u \in Threads : u # t => Fits(u)'
    BY <1>1, <1>2, <2>2, <2>3 DEF OnlyMoves
  <2> QED BY <2>3, <2>4
<1> QED BY <1>3, <1>4, <1>5 DEF Work

----------------------------------------------------------------------------
LEMMA ComingCounted ==
  /\ IsFiniteSet(Coming) /\ Cardinality(Coming) \in Nat
  /\ IsFiniteSet(Coming') /\ Cardinality(Coming') \in Nat
  /\ Coming \subseteq Coming' => Cardinality(Coming) <= Cardinality(Coming')
<1>1. Coming \subseteq Threads /\ Coming' \subseteq Threads /\ IsFiniteSet(Threads)
  BY MboxAssumption DEF Coming
<1>2. IsFiniteSet(Coming) /\ IsFiniteSet(Coming')
  BY <1>1, FS_Subset
<1>3. Cardinality(Coming) \in Nat /\ Cardinality(Coming') \in Nat
  BY <1>2, FS_CardinalityType
<1>4. ASSUME Coming \subseteq Coming' PROVE Cardinality(Coming) <= Cardinality(Coming')
  BY <1>2, <1>4, FS_Subset
<1> QED BY <1>2, <1>3, <1>4

LEMMA DueIsInt ==
  ASSUME CountOK
  PROVE  Due \in Int /\ Due \in {count - 1, count, count + 1}
BY DEF CountOK, Due

(* Receivers may come, messages may go, sleepers may wake. *)
LEMMA EnoughKept ==
  ASSUME CountOK, CountOK', Enough, Coming \subseteq Coming', Due' <= Due,
         (\E u \in Threads : Sleeps(u)') => \E u \in Threads : Sleeps(u)
  PROVE  Enough'
<1>1. Due \in Int /\ Due' \in Int
  BY DEF CountOK, Due
<1> QED BY <1>1, ComingCounted DEF Enough

LEMMA OthersSleep ==
  ASSUME NEW t \in Threads, OnlyMoves(t), waiting'[moreData] = waiting[moreData],
         NEW u \in Threads, u # t
  PROVE  Sleeps(u)' <=> Sleeps(u)
BY DEF Sleeps, Queued, GoingToSleep, OnlyMoves

(* A step that changes neither who sleeps nor how far the operations are.  *)
LEMMA SameEnough ==
  ASSUME MInv, OpOK', CountOK', NEW t \in Threads, OnlyMoves(t),
         waiting'[moreData] = waiting[moreData], op' = op, count' = count,
         Sleeps(t)' <=> Sleeps(t), Told(t)' <=> Told(t)
  PROVE  Enough'
<1>1. \A u \in Threads : Sleeps(u)' <=> Sleeps(u)
  BY OthersSleep
<1>2. \A u \in Threads : Told(u)' <=> Told(u)
  BY DEF OnlyMoves, Told
<1>3. Coming' = Coming /\ Due' = Due
  BY <1>1, <1>2 DEF Coming, Due
<1>4. Due \in Int
  BY DueIsInt DEF MInv
<1> QED BY <1>1, <1>3, <1>4, EnoughKept DEF MInv

(* The steps of thread.c, but for those that touch the list of moreData.   *)
LEMMA PlainEnough ==
  ASSUME MInv, Inv', OpOK', CountOK', NEW t \in Threads, Step(t), UNCHANGED mboxvars,
         ~WaitBlock(t), ~ReleaseFree(t), ~ReleaseHandOff(t),
         ~SignalTest(t), ~SignalWake(t)
  PROVE  Enough'
<1> USE DEF MInv
<1>1. TypeOK /\ OnlyMoves(t) /\ OpOK
  BY NextMoves DEF Inv
<1>2. op' = op /\ count' = count
  BY DEF mboxvars
<1>3. waiting'[moreData] = waiting[moreData]
  BY <1>1, Distinct DEF Step, LockStep, CondStep, At, TypeOK, OpOK, Broadcasting,
    AcquireSpin, AcquireTest, AcquireTake, AcquireReturn, AcquireBlock, AcquireResume, Block,
    ReleaseSpin, ReleaseTest, ReleaseReturn, WaitSpin, WaitResume, SignalSpin,
    BroadcastSpin, BroadcastTest, BroadcastWake, Unblock, WakeReturn
<1>4. (GoingToSleep(t, moreData)' <=> GoingToSleep(t, moreData)) /\ (Told(t)' <=> Told(t))
  BY <1>1, <1>2, Distinct DEF GoingToSleep, Told, Step, LockStep, CondStep, At, Goto, TypeOK,
    OpOK, Signalling, Broadcasting, LettingGo,
    AcquireSpin, AcquireTest, AcquireTake, AcquireReturn, AcquireBlock, AcquireResume,
    ReleaseSpin, ReleaseTest, ReleaseReturn, WaitSpin, WaitResume, SignalSpin,
    BroadcastSpin, BroadcastTest, BroadcastWake, WakeReturn
<1>5. Sleeps(t)' <=> Sleeps(t)
  BY <1>3, <1>4 DEF Sleeps, Queued
<1> QED BY <1>1, <1>2, <1>3, <1>4, <1>5, SameEnough

(* block() in condition_wait: whoever was about to sleep does. *)
LEMMA BlockEnough ==
  ASSUME MInv, Inv', OpOK', CountOK', NEW t \in Threads, WaitBlock(t), UNCHANGED mboxvars
  PROVE  Enough'
<1> USE DEF MInv
<1>1. TypeOK /\ ArgOK /\ OnlyMoves(t)
  BY NextMoves DEF Inv, Step, CondStep
<1>2. op' = op /\ count' = count
  BY DEF mboxvars
<1>3. /\ pc[t] = "wait_block" /\ pc'[t] = "wait_blocked" /\ arg' = arg /\ arg[t] \in Conds
      /\ waiting' = [waiting EXCEPT ![arg[t]] = Append(@, t)]
  BY <1>1 DEF WaitBlock, Block, At, Goto, TypeOK, ArgOK
<1>4. ~Told(t) /\ ~Told(t)'
  BY <1>3 DEF Told
<1>5. CASE arg[t] # moreData
  <2>1. waiting'[moreData] = waiting[moreData]
    BY <1>1, <1>3, <1>5, Distinct DEF TypeOK
  <2>2. Sleeps(t)' <=> Sleeps(t)
    BY <1>3, <1>5, <2>1 DEF Sleeps, Queued, GoingToSleep
  <2> QED BY <1>1, <1>2, <1>4, <2>1, <2>2, SameEnough
<1>6. CASE arg[t] = moreData
  <2>1. waiting'[moreData] = Append(waiting[moreData], t) /\ waiting[moreData] \in Seq(Threads)
    BY <1>1, <1>3, <1>6, Distinct DEF TypeOK
  <2>2. \A u \in Threads : Queued(u, moreData)' <=> Queued(u, moreData) \/ u = t
    BY <2>1, AppendOccurs DEF Queued, Occurs
  <2>3. \A u \in Threads : u # t => (GoingToSleep(u, moreData)' <=> GoingToSleep(u, moreData))
    BY <1>1 DEF GoingToSleep, OnlyMoves
  <2>4. GoingToSleep(t, moreData)
    BY <1>3, <1>6 DEF GoingToSleep
  <2>5. \A u \in Threads : Sleeps(u)' <=> Sleeps(u)
    BY <2>2, <2>3, <2>4 DEF Sleeps
  <2>6. \A u \in Threads : Told(u)' <=> Told(u)
    BY <1>1, <1>2, <1>4 DEF OnlyMoves, Told
  <2>7. Coming' = Coming /\ Due' = Due
    BY <1>2, <2>5, <2>6 DEF Coming, Due
  <2>8. Due \in Int
    BY DueIsInt
  <2> QED BY <2>5, <2>7, <2>8, EnoughKept
<1> QED BY <1>5, <1>6

(* lock_release: a receiver that found no message lets go of the lock.     *)
LEMMA LetGoEnough ==
  ASSUME MInv, Inv', OpOK', CountOK', NEW t \in Threads,
         ReleaseFree(t) \/ ReleaseHandOff(t), UNCHANGED mboxvars
  PROVE  Enough'
<1> USE DEF MInv
<1>1. TypeOK /\ OnlyMoves(t)
  BY NextMoves DEF Inv, Step, LockStep
<1>2. op' = op /\ count' = count
  BY DEF mboxvars
<1>3. /\ pc[t] \in {"rel_clear", "rel_wake"} /\ pc'[t] = "rel_free" /\ arg' = arg
      /\ waiting'[moreData] = waiting[moreData] /\ Owns(t)
  BY <1>1, Distinct DEF ReleaseFree, ReleaseHandOff, Unblock, At, Goto, TypeOK, Queues, Owns
<1>4. ~Told(t) /\ ~Told(t)'
  BY <1>3 DEF Told
<1>5. CASE arg[t] # moreData
  <2>1. Sleeps(t)' <=> Sleeps(t)
    BY <1>3, <1>5 DEF Sleeps, Queued, GoingToSleep
  <2> QED BY <1>1, <1>2, <1>3, <1>4, <2>1, SameEnough
<1>6. CASE arg[t] = moreData
  <2>1. count = 0
    BY <1>3, <1>6 DEF CountOK, LettingGo
  <2>2. \A u \in Threads : u # t => op[u] \notin {"sent", "recvd"}
    BY <1>3, OwnerAlone
  <2>3. op[t] = "recv"
    BY <1>3, <1>6 DEF OpOK, LettingGo
  <2>4. \A u \in Threads : ~Told(u)' /\ op'[u] # "recvd"
    BY <1>2, <2>2, <2>3 DEF Told
  <2>5. Due' = 0
    BY <1>2, <2>1, <2>4 DEF Due
  <2> QED BY <2>5, ComingCounted DEF Enough
<1> QED BY <1>5, <1>6

(* condition_signal: nobody is on the way to sleep, as t has the spinlock. *)
LEMMA NobodyGoing ==
  ASSUME MInv, NEW t \in Threads, pc[t] \in {"sig_test", "sig_wake"}
  PROVE  \A u \in Threads : ~GoingToSleep(u, moreData)
<1>1. arg[t] = moreData
  BY DEF MInv, OpOK, Signalling
<1> QED BY <1>1, Distinct DEF MInv, Inv, SpinlockExclusion, HasSpinlock, GoingToSleep

(* With nobody in the list, nobody sleeps. *)
LEMMA TestEnough ==
  ASSUME MInv, Inv', OpOK', CountOK', NEW t \in Threads, SignalTest(t), UNCHANGED mboxvars
  PROVE  Enough'
<1> USE DEF MInv
<1>1. TypeOK /\ OnlyMoves(t)
  BY NextMoves DEF Inv, Step, CondStep
<1>2. op' = op /\ count' = count
  BY DEF mboxvars
<1>3. /\ pc[t] = "sig_test" /\ arg[t] = moreData /\ arg' = arg /\ waiting' = waiting
      /\ pc'[t] = IF waiting[moreData] # << >> THEN "sig_wake" ELSE "wake_free"
  BY <1>1 DEF SignalTest, At, Goto, TypeOK, OpOK, Signalling
<1>4. Sleeps(t)' <=> Sleeps(t)
  BY <1>3 DEF Sleeps, Queued, GoingToSleep
<1>5. CASE waiting[moreData] # << >>
  <2>1. ~Told(t) /\ ~Told(t)'
    BY <1>3, <1>5 DEF Told
  <2> QED BY <1>1, <1>2, <1>3, <1>4, <2>1, SameEnough
<1>6. CASE waiting[moreData] = << >>
  <2>1. \A u \in Threads : ~Queued(u, moreData)
    BY <1>6 DEF Queued
  <2>2. \A u \in Threads : ~Sleeps(u)
    BY <1>3, <2>1, NobodyGoing DEF Sleeps
  <2>3. \A u \in Threads : ~Sleeps(u)'
    BY <1>1, <1>3, <1>4, <2>2, OthersSleep
  <2> QED BY <2>3 DEF Enough
<1> QED BY <1>5, <1>6

(* One more message is due, and one more receiver comes. *)
LEMMA WakeEnough ==
  ASSUME MInv, Inv', OpOK', CountOK', NEW t \in Threads, SignalWake(t), UNCHANGED mboxvars
  PROVE  Enough'
<1> USE DEF MInv
<1>1. TypeOK /\ TestedStillHolds /\ BlockedIffQueued /\ OnlyMoves(t)
  BY NextMoves DEF Inv, Step, CondStep
<1>2. op' = op /\ count' = count
  BY DEF mboxvars
<1>3. PICK h : h = Head(waiting[moreData])
  OBVIOUS
<1>4. /\ pc[t] = "sig_wake" /\ pc'[t] = "wake_free" /\ arg' = arg /\ arg[t] = moreData
      /\ waiting[moreData] # << >> /\ waiting[moreData] \in Seq(Threads)
      /\ waiting'[moreData] = Tail(waiting[moreData])
  BY <1>1, Distinct DEF SignalWake, Unblock, At, Goto, TypeOK, OpOK, Signalling, TestedStillHolds
<1>5. h \in Threads /\ Queued(h, moreData) /\ Once(waiting[moreData], h)
  <2>1. h \in Threads /\ Queued(h, moreData)
    BY <1>3, <1>4, TailOccurs DEF Queued, Occurs
  <2> QED BY <1>1, <2>1, Distinct DEF BlockedIffQueued, Once
<1>6. pc[h] = "wait_blocked" /\ arg[h] = moreData /\ op[h] = "recv" /\ h # t
  <2>1. pc[h] = "wait_blocked" /\ arg[h] = moreData
    BY <1>1, <1>5, Distinct DEF BlockedIffQueued
  <2> QED BY <1>4, <1>5, <2>1 DEF OpOK
<1>7. /\ ~Queued(h, moreData)'
      /\ \A u \in Threads : u # h => (Queued(u, moreData)' <=> Queued(u, moreData))
  <2>1. /\ ~Occurs(Tail(waiting[moreData]), h)
        /\ \A u : u # h => (Occurs(Tail(waiting[moreData]), u) <=> Occurs(waiting[moreData], u))
    BY <1>3, <1>4, <1>5, TailOccurs
  <2>2. \A u : Queued(u, moreData)' <=> Occurs(Tail(waiting[moreData]), u)
    BY <1>4 DEF Queued, Occurs
  <2>3. \A u : Queued(u, moreData) <=> Occurs(waiting[moreData], u)
    BY DEF Queued, Occurs
  <2> QED BY <2>1, <2>2, <2>3
<1>8. \A u \in Threads : ~GoingToSleep(u, moreData) /\ ~GoingToSleep(u, moreData)'
  <2>1. \A u \in Threads : ~GoingToSleep(u, moreData)
    BY <1>4, NobodyGoing
  <2> QED BY <1>1, <1>4, <2>1 DEF GoingToSleep, OnlyMoves
<1>9. h \notin Coming /\ Coming' = Coming \cup {h}
  BY <1>2, <1>5, <1>6, <1>7, <1>8 DEF Coming, Sleeps
<1>10. Cardinality(Coming') = Cardinality(Coming) + 1 /\ Cardinality(Coming) \in Nat
  BY <1>9, ComingCounted, FS_AddElement
<1>11. Due' = Due + 1 /\ Due \in Int
  <2>1. op[t] = "sent" /\ Owns(t)
    BY <1>4 DEF OpOK, Signalling, Owns
  <2>2. \A u \in Threads : ~Told(u) /\ op[u] # "recvd"
    BY <1>4, <2>1, OwnerAlone DEF Told
  <2>3. Told(t)'
    BY <1>2, <1>4, <2>1 DEF Told
  <2> QED BY <1>2, <2>2, <2>3, DueIsInt DEF Due
<1>12. \E u \in Threads : Sleeps(u)
  BY <1>5 DEF Sleeps
<1> QED BY <1>10, <1>11, <1>12 DEF Enough

LEMMA StepEnough ==
  ASSUME MInv, Inv', OpOK', CountOK', NEW t \in Threads, Step(t), UNCHANGED mboxvars
  PROVE  Enough'
BY PlainEnough, BlockEnough, LetGoEnough, TestEnough, WakeEnough

(* A call makes nobody sleep, and can only add a receiver. *)
LEMMA CallsEnough ==
  ASSUME MInv, Inv', OpOK', CountOK', NEW t \in Threads, Calls(t)
  PROVE  Enough'
<1> USE DEF MInv
<1>1. TypeOK /\ OnlyMoves(t)
  BY FollowsRules, NextMoves DEF Inv
<1>2. /\ pc[t] = "out" /\ pc'[t] = "acq_spin" /\ count' = count
      /\ waiting' = waiting /\ op[t] \in {"closed", "idle"}
      /\ op'[t] \in {"opening", "closing", "stat", "recv", "send"}
      /\ \A u \in Threads : u # t => op'[u] = op[u]
  BY <1>1 DEF Calls, Start, StartOpen, StartClose, StartStat, StartRecv, StartSend,
    CallAcquire, Call, At, Goto, Become, TypeOK, OpOK
<1>3. Sleeps(t)' <=> Sleeps(t)
  BY <1>2 DEF Sleeps, Queued, GoingToSleep
<1>4. \A u \in Threads : Sleeps(u)' <=> Sleeps(u)
  BY <1>1, <1>2, <1>3, OthersSleep
<1>5. Coming \subseteq Coming'
  BY <1>2, <1>4 DEF Coming
<1>6. \A u \in Threads : (Told(u)' <=> Told(u)) /\ (op'[u] = "recvd" <=> op[u] = "recvd")
  BY <1>1, <1>2 DEF Told, OnlyMoves
<1>7. Due' = Due /\ Due \in Int
  BY <1>2, <1>6, DueIsInt DEF Due
<1> QED BY <1>4, <1>5, <1>7, EnoughKept

(* What mbox.c does with the lock. *)
LEMMA WorkEnough ==
  ASSUME MInv, Inv', OpOK', CountOK', NEW t \in Threads,
         \/ Open(t) \/ Close(t) \/ Stat(t) \/ RecvWait(t) \/ RecvCopy(t) \/ RecvDone(t)
         \/ SendWait(t) \/ SendCopy(t) \/ SendDone(t)
  PROVE  Enough'
<1> USE DEF MInv
<1>1. TypeOK /\ BlockedIffQueued /\ OnlyMoves(t)
  BY FollowsRules, NextMoves DEF Inv, Work
<1>2. /\ pc[t] = "in" /\ status[t] = "RUNNING" /\ Owns(t) /\ waiting' = waiting
      /\ pc'[t] \in {"rel_spin", "wait_spin", "sig_spin", "bc_spin"}
      /\ \A u \in Threads : u # t => op'[u] = op[u]
  BY <1>1 DEF Open, Close, Stat, RecvWait, RecvCopy, RecvDone, SendWait, SendCopy, SendDone,
    InOp, At, Goto, Become, Owns, Call, CallRelease, CallWait, CallSignal, CallBroadcast,
    TypeOK, OpOK, mboxvars
<1>3. ~Sleeps(t) /\ ~Sleeps(t)'
  <2>1. ~Queued(t, moreData)
    BY <1>1, <1>2, Distinct DEF BlockedIffQueued
  <2> QED BY <1>2, <2>1 DEF Sleeps, Queued, GoingToSleep
<1>4. \A u \in Threads : Sleeps(u)' <=> Sleeps(u)
  BY <1>1, <1>2, <1>3, OthersSleep
<1>5. /\ \A u \in Threads : u # t => op[u] \notin {"sent", "recvd"}
      /\ Due = IF op[t] = "sent" THEN count + 1 ELSE IF op[t] = "recvd" THEN count - 1 ELSE count
  BY <1>2, OwnerAlone DEF Due, Told
<1>6. Due' = IF op'[t] = "recvd" THEN count' - 1 ELSE count'
  BY <1>2, <1>5 DEF Due, Told
<1>7. op \in [Threads -> Ops] /\ count \in Nat
  BY DEF OpOK, CountOK
<1>8. CASE RecvCopy(t)
  <2>1. op[t] = "recv" /\ op'[t] = "recvd" /\ count' = count
    BY <1>7, <1>8 DEF RecvCopy, InOp, Become
  <2>2. t \in Coming /\ Coming' = Coming \ {t}
    BY <1>2, <1>3, <1>4, <2>1 DEF Coming
  <2>3. Cardinality(Coming') = Cardinality(Coming) - 1
    BY <2>2, ComingCounted, FS_RemoveElement
  <2>4. Due' = Due - 1
    BY <1>5, <1>6, <2>1
  <2> QED BY <1>4, <1>5, <1>7, <2>1, <2>3, <2>4, ComingCounted DEF Enough
<1>9. CASE ~RecvCopy(t)
  <2>1. Coming \subseteq Coming'
    <3>1. op[t] = "recv" => op'[t] = "recv"
      BY <1>9 DEF Open, Close, Stat, RecvWait, RecvDone, SendWait, SendCopy, SendDone, InOp, mboxvars
    <3> QED BY <1>2, <1>4, <3>1 DEF Coming
  <2>2. Due' <= Due
    <3>1. CASE Open(t) \/ Close(t) \/ Stat(t)
      <4>1. op[t] \notin {"sent", "recvd"} /\ op'[t] # "recvd" /\ count' <= count
        BY <1>7, <3>1 DEF Open, Close, Stat, InOp, Become
      <4> QED BY <1>5, <1>6, <4>1
    <3>2. CASE RecvWait(t) \/ SendWait(t)
      BY <1>5, <1>6, <1>7, <3>2 DEF RecvWait, SendWait, InOp, mboxvars
    <3>3. CASE SendCopy(t)
      BY <1>5, <1>6, <1>7, <3>3 DEF SendCopy, InOp, Become
    <3>4. CASE RecvDone(t) \/ SendDone(t)
      BY <1>5, <1>6, <1>7, <3>4 DEF RecvDone, SendDone, InOp, Become
    <3> QED BY <1>9, <3>1, <3>2, <3>3, <3>4
  <2> QED BY <1>4, <2>1, <2>2, EnoughKept
<1> QED BY <1>8, <1>9

----------------------------------------------------------------------------
LEMMA MInvStep ==
  ASSUME MInv, NEW t \in Threads, Calls(t) \/ Work(t)
  PROVE  MInv'
<1>1. Inv'
  BY FollowsRules, NextInv DEF MInv, Next
<1>2. OpOK' /\ CountOK'
  BY <1>1, OpStep DEF MInv
<1>3. Enough'
  BY <1>1, <1>2, CallsEnough, StepEnough, WorkEnough DEF Work
<1> QED BY <1>1, <1>2, <1>3 DEF MInv

(* Nothing of the mailbox changes. *)
LEMMA MInvStutter ==
  ASSUME MInv, UNCHANGED allvars
  PROVE  MInv'
<1>1. Inv'
  BY NextInv DEF MInv, allvars
<1>2. OpOK' /\ CountOK'
  BY DEF MInv, OpOK, CountOK, allvars, vars, mboxvars
<1>3. Enough'
  <2>1. \A u \in Threads : (Sleeps(u)' <=> Sleeps(u)) /\ (Told(u)' <=> Told(u))
    BY DEF Sleeps, Queued, GoingToSleep, Told, allvars, vars, mboxvars
  <2>2. Coming' = Coming /\ Due' = Due
    BY <2>1 DEF Coming, Due, allvars, mboxvars
  <2> QED BY <2>1, <2>2 DEF MInv, Enough
<1> QED BY <1>1, <1>2, <1>3 DEF MInv

(* Whoever starts with no operation under way and no message. *)
LEMMA MInvInit ==
  ASSUME Init, op \in [Threads -> {"closed", "idle"}], count = 0
  PROVE  MInv
<1>1. Inv
  BY InitInv
<1>2. OpOK /\ CountOK
  <2>1. op \in [Threads -> Ops] /\ \A t \in Threads : op[t] \in {"closed", "idle"}
    BY DEF Ops
  <2>2. \A t \in Threads : pc[t] = "out"
    BY DEF Init
  <2>3. OpOK
    BY <2>1, <2>2 DEF OpOK, Signalling, Broadcasting, LettingGo
  <2>4. CountOK
    BY <2>1, <2>2 DEF CountOK, LettingGo
  <2> QED BY <2>3, <2>4
<1>3. \A t \in Threads : ~Sleeps(t)
  <2>1. \A t \in Threads : pc[t] = "out"
    BY DEF Init
  <2>2. waiting[moreData] = << >>
    BY Distinct DEF Init
  <2>3. Len(waiting[moreData]) = 0
    BY <2>2
  <2>4. \A t \in Threads : ~Queued(t, moreData)
    BY <2>3 DEF Queued
  <2> QED BY <2>1, <2>4 DEF Sleeps, GoingToSleep
<1> QED BY <1>1, <1>2, <1>3 DEF MInv, Enough

(* While the lock is free every message is counted. *)
LEMMA EnoughArrive == MInv => SleepingReceiversHaveNoMessage
<1> SUFFICES ASSUME MInv, Unlocked, waiting[moreData] # << >>
             PROVE  count <= Cardinality({t \in Threads : Arriving(t)})
  BY DEF SleepingReceiversHaveNoMessage
<1> USE DEF MInv
<1>1. \A t \in Threads : ~Owns(t)
  BY DEF Inv, MutualExclusion, Unlocked
<1>2. Due = count /\ count \in Nat
  BY <1>1 DEF Due, Told, OpOK, CountOK, Owns, Signalling, Broadcasting
<1>3. \E t \in Threads : Sleeps(t)
  <2>1. waiting[moreData] \in Seq(Threads)
    BY Distinct DEF Inv, TypeOK
  <2>2. Head(waiting[moreData]) \in Threads /\ Occurs(waiting[moreData], Head(waiting[moreData]))
    BY <2>1, TailOccurs
  <2> QED BY <2>2 DEF Occurs, Sleeps, Queued
<1>4. Coming \subseteq {t \in Threads : Arriving(t)}
  BY DEF Coming, Sleeps, Arriving
<1>5. IsFiniteSet({t \in Threads : Arriving(t)})
  BY MboxAssumption, FS_Subset
<1>6. Cardinality(Coming) <= Cardinality({t \in Threads : Arriving(t)})
  BY <1>4, <1>5, FS_Subset
<1> QED BY <1>2, <1>3, <1>5, <1>6, ComingCounted, FS_CardinalityType DEF Enough

(* The mailbox uses the monitor as thread.c asks of its callers, so all    *)
(* that is proved of the lock and the conditions is true of it.            *)
THEOREM KeepsMonitorRules == MboxSpec => Spec
<1>1. MboxInit => Init
  BY DEF MboxInit
<1>2. [MboxNext]_allvars => [Next]_vars
  BY FollowsRules DEF MboxNext, Next, Request, Calls, allvars
<1> QED BY <1>1, <1>2, PTL DEF MboxSpec, Spec

(* mbox.c is in the monitor what its operations say, its owner alone works *)
(* on count, and enough receivers are on their way.                        *)
THEOREM MInvariance == MboxSpec => []MInv
<1>1. MboxInit => MInv
  BY MInvInit DEF MboxInit
<1>2. MInv /\ [MboxNext]_allvars => MInv'
  BY MInvStep, MInvStutter DEF MboxNext, Request, Calls
<1> QED BY <1>1, <1>2, PTL DEF MboxSpec

(* mbox_recv and mbox_send: no receiver sleeps while there is a message    *)
(* that no receiver on its way will take, with one signal per message.     *)
THEOREM OneSignalIsEnough == MboxSpec => []SleepingReceiversHaveNoMessage
BY MInvariance, EnoughArrive, PTL

----------------------------------------------------------------------------
(* The size field. Rest and SizeField are recursive: what they compute is  *)
(* shown step by step, the first step at which it failed being impossible. *)
LEMMA RestIs ==
  ASSUME NEW size \in Nat
  PROVE  /\ \A k \in 0..HeaderSize : Rest(size)[k] \in Nat
         /\ Rest(size)[0] = size
         /\ \A k \in 1..HeaderSize : Rest(size)[k] = Rest(size)[k-1] \div Radix
<1> USE MboxAssumption
<1> DEFINE Is(f, n) == f = [k \in 0..n |-> IF k = 0 THEN size ELSE f[k-1] \div Radix]
<1>1. \A n \in Nat : \E f : Is(f, n)
  <2> DEFINE Bad == {n \in Nat : \A f : ~Is(f, n)}
  <2> HIDE DEF Is
  <2> SUFFICES ASSUME Bad # {} PROVE FALSE
    OBVIOUS
  <2>1. PICK x \in Bad : \A y \in Bad : x <= y
    <3>1. Bad \subseteq Nat
      OBVIOUS
    <3> HIDE DEF Bad
    <3> QED BY <3>1, LeastElement
  <2>2. x # 0
    <3>1. Is([k \in 0..0 |-> size], 0)
      BY DEF Is
    <3> QED BY <3>1, <2>1
  <2>3. x - 1 \in Nat /\ x \in Nat /\ ~(x <= x - 1)
    BY <2>1, <2>2
  <2>4. PICK f : Is(f, x - 1)
    BY <2>1, <2>3
  <2> DEFINE g == [k \in 0..x |-> IF k = x THEN f[x-1] \div Radix ELSE f[k]]
  <2>5. Is(g, x)
    <3>1. ASSUME NEW k \in 0..x
          PROVE  g[k] = IF k = 0 THEN size ELSE g[k-1] \div Radix
      BY <2>2, <2>3, <2>4 DEF Is
    <3> QED BY <3>1 DEF Is
  <2> QED BY <2>1, <2>5
<1> DEFINE rest[k \in 0..HeaderSize] == IF k = 0 THEN size ELSE rest[k-1] \div Radix
<1>2. Is(rest, HeaderSize)
  BY <1>1
<1>3. Rest(size) = rest
  BY DEF Rest
<1> HIDE DEF rest
<1>4. /\ Rest(size)[0] = size
      /\ \A k \in 1..HeaderSize : Rest(size)[k] = Rest(size)[k-1] \div Radix
  BY <1>2, <1>3
<1>5. \A k \in 0..HeaderSize : Rest(size)[k] \in Nat
  <2>0. \A n \in Nat : n \div Radix \in Nat
    OBVIOUS
  <2> DEFINE Bad == {k \in 0..HeaderSize : Rest(size)[k] \notin Nat}
  <2> SUFFICES ASSUME Bad # {} PROVE FALSE
    OBVIOUS
  <2>1. PICK x \in Bad : \A y \in Bad : x <= y
    <3>1. Bad \subseteq Nat
      OBVIOUS
    <3> HIDE DEF Bad
    <3> QED BY <3>1, LeastElement
  <2>2. x # 0
    BY <1>4, <2>1
  <2>3. x \in 1..HeaderSize /\ Rest(size)[x-1] \in Nat
    BY <2>1, <2>2
  <2> QED BY <1>4, <2>0, <2>1, <2>3
<1> QED BY <1>4, <1>5

(* mbox_recv reads the size that mbox_send wrote, provided it fits. *)
LEMMA SizeRead ==
  ASSUME NEW size \in Nat, Rest(size)[HeaderSize] = 0
  PROVE  SizeField(Header(size)) = size
<1> USE MboxAssumption
<1> DEFINE h == Header(size)
<1> DEFINE r == Rest(size)
<1>1. /\ \A k \in 0..HeaderSize : r[k] \in Nat
      /\ r[0] = size
      /\ \A k \in 1..HeaderSize : r[k] = r[k-1] \div Radix
  BY RestIs
<1>2. \A k \in 1..HeaderSize : h[k] = r[k-1] % Radix
  BY DEF Header
<1> HIDE DEF h, r
<1>3. \A k \in 1..HeaderSize : r[k-1] = h[k] + (Radix * r[k])
  <2> TAKE k \in 1..HeaderSize
  <2>1. r[k-1] \in Nat /\ r[k] = r[k-1] \div Radix /\ h[k] = r[k-1] % Radix
    BY <1>1, <1>2
  <2> DEFINE n == r[k-1]
  <2>2. n = (Radix * (n \div Radix)) + (n % Radix) /\ n % Radix \in Nat
    <3> HIDE DEF n
    <3>1. n \in Nat
      BY <2>1 DEF n
    <3> QED BY <3>1
  <2> HIDE DEF n
  <2>3. n \div Radix \in Nat /\ n = r[k-1]
    BY <1>1, <2>1 DEF n
  <2> DEFINE d == n \div Radix
  <2> DEFINE c == n % Radix
  <2>4. r[k] = d /\ h[k] = c
    BY <2>1, <2>3
  <2>5. (Radix * d) \in Int /\ n = (Radix * d) + c
    BY <2>2, <2>3
  <2> HIDE DEF d, c
  <2>6. n = c + (Radix * d)
    BY <2>2, <2>5 DEF c
  <2> QED BY <2>3, <2>4, <2>6
<1> DEFINE Is(f) == f = [k \in 0..HeaderSize |->
                          IF k = 0 THEN 0 ELSE h[HeaderSize + 1 - k] + Radix * f[k-1]]
<1>4. Is([k \in 0..HeaderSize |-> r[HeaderSize - k]])
  <2> DEFINE g == [k \in 0..HeaderSize |-> r[HeaderSize - k]]
  <2> SUFFICES ASSUME NEW k \in 0..HeaderSize
               PROVE  g[k] = IF k = 0 THEN 0 ELSE h[HeaderSize + 1 - k] + Radix * g[k-1]
    OBVIOUS
  <2>1. CASE k = 0
    BY <2>1 DEF r
  <2>2. CASE k # 0
    <3>1. /\ HeaderSize + 1 - k \in 1..HeaderSize
          /\ (HeaderSize + 1 - k) - 1 = HeaderSize - k
          /\ g[k-1] = r[HeaderSize + 1 - k] /\ k - 1 \in 0..HeaderSize
          /\ g[k] = r[HeaderSize - k]
      BY <2>2
    <3> HIDE DEF g
    <3>2. r[HeaderSize - k] = h[HeaderSize + 1 - k] + (Radix * r[HeaderSize + 1 - k])
      BY <1>3, <3>1
    <3> QED BY <2>2, <3>1, <3>2
  <2> QED BY <2>1, <2>2
<1> DEFINE value[k \in 0..HeaderSize] ==
             IF k = 0 THEN 0 ELSE h[HeaderSize + 1 - k] + Radix * value[k-1]
<1>5. Is(value)
  BY <1>4
<1>6. SizeField(h) = value[HeaderSize]
  BY DEF SizeField
<1> HIDE DEF value
<1>7. \A k \in 0..HeaderSize : value[k] = r[HeaderSize - k]
  <2> DEFINE Bad == {k \in 0..HeaderSize : value[k] # r[HeaderSize - k]}
  <2> SUFFICES ASSUME Bad # {} PROVE FALSE
    OBVIOUS
  <2>1. PICK x \in Bad : \A y \in Bad : x <= y
    <3>1. Bad \subseteq Nat
      OBVIOUS
    <3> HIDE DEF Bad
    <3> QED BY <3>1, LeastElement
  <2>2. x # 0
    BY <1>5, <2>1 DEF r
  <2>3. x - 1 \in 0..HeaderSize /\ value[x-1] = r[HeaderSize + 1 - x]
    BY <2>1, <2>2
  <2>4. value[x] = h[HeaderSize + 1 - x] + Radix * value[x-1]
    BY <1>5, <2>1, <2>2
  <2>5. HeaderSize + 1 - x \in 1..HeaderSize /\ (HeaderSize + 1 - x) - 1 = HeaderSize - x
    BY <2>1, <2>2
  <2>6. r[HeaderSize - x] = h[HeaderSize + 1 - x] + (Radix * r[HeaderSize + 1 - x])
    BY <1>3, <2>5
  <2> QED BY <2>1, <2>3, <2>4, <2>6
<1>8. value[HeaderSize] = r[0]
  BY <1>7
<1> QED BY <1>1, <1>6, <1>8 DEF h

(* The bytes of a queue are the sum of those of its messages. *)
LEMMA BytesAre ==
  ASSUME NEW q \in Seq(Messages), NEW f, DOMAIN f = 0..Len(q), f[0] = 0,
         \A i \in 1..Len(q) : f[i] = f[i-1] + MsgSize(q[i])
  PROVE  Queue!Bytes(q) = f[Len(q)]
<1> DEFINE n == Len(q)
<1>0. n \in Nat
  OBVIOUS
<1>1. \A i \in 1..n : f[i] = f[i-1] + Queue!BytesOf(q[i])
  BY DEF MsgSize, Queue!BytesOf
<1> DEFINE Is(g) == g = [i \in 0..n |-> IF i = 0 THEN 0 ELSE g[i-1] + Queue!BytesOf(q[i])]
<1> DEFINE f1 == [i \in 0..n |-> f[i]]
<1>2. Is(f1)
  <2> SUFFICES ASSUME NEW i \in 0..n
               PROVE  f1[i] = IF i = 0 THEN 0 ELSE f1[i-1] + Queue!BytesOf(q[i])
    OBVIOUS
  <2>1. i # 0 => i \in 1..n /\ i - 1 \in 0..n
    BY <1>0
  <2> HIDE DEF n
  <2> QED BY <1>1, <2>1
<1> DEFINE sum[i \in 0..n] == IF i = 0 THEN 0 ELSE sum[i-1] + Queue!BytesOf(q[i])
<1>3. Is(sum)
  BY <1>2
<1>4. Queue!Bytes(q) = sum[n]
  BY DEF Queue!Bytes
<1> HIDE DEF sum, n
<1>5. \A i \in 0..n : sum[i] = f[i]
  <2> DEFINE Bad == {i \in 0..n : sum[i] # f[i]}
  <2> SUFFICES ASSUME Bad # {} PROVE FALSE
    OBVIOUS
  <2>1. PICK x \in Bad : \A y \in Bad : x <= y
    <3>1. Bad \subseteq Nat
      BY <1>0
    <3> HIDE DEF Bad
    <3> QED BY <3>1, LeastElement
  <2>2. x # 0
    BY <1>3, <2>1
  <2>3. x \in 1..n /\ x - 1 \in 0..n /\ sum[x-1] = f[x-1]
    BY <1>0, <2>1, <2>2
  <2>4. sum[x] = sum[x-1] + Queue!BytesOf(q[x])
    BY <1>3, <2>2, <2>3
  <2> QED BY <1>1, <2>1, <2>3, <2>4
<1> QED BY <1>0, <1>4, <1>5 DEF n

----------------------------------------------------------------------------
(* The contents of the buffer: k bytes from the tail. *)
Slot(k) == (tail + k) % BufferSize

(* st[i] is how far from the tail message i starts. *)
Laid(st) ==
  /\ st[1] = 0
  /\ \A i \in 1..Len(pending) : st[i+1] = st[i] + MsgSize(pending[i])
  /\ \A i \in 1..Len(pending) + 1 : st[i] <= st[Len(pending) + 1]
  /\ head = Slot(st[Len(pending) + 1])
  /\ \A i \in 1..Len(pending) : \A k \in 1..MsgSize(pending[i]) :
       buffer[Slot(st[i] + k - 1)] = Image(pending[i])[k]

Starts == [1..Len(pending) + 1 -> 0..BufferSize]

(* The buffer holds the messages, one behind the other, from tail to head. *)
LaidOut == \E st \in Starts : Laid(st)

DataTypeOK ==
  /\ used \in Nat
  /\ head \in 0..BufferSize-1 /\ tail \in 0..BufferSize-1
  /\ DOMAIN buffer = 0..BufferSize-1
  /\ pending \in Seq(Messages)
  /\ msg \in [Threads -> Messages \cup {<< >>}]
  /\ \A t \in Threads : op[t] \in {"send", "sent"} => msg[t] \in Messages
  /\ DOMAIN got = Threads

(* count is the number of messages but for the operation under way. *)
CountIs ==
  /\ (\E t \in Threads : op[t] = "sent") => Len(pending) = count + 1
  /\ (\E t \in Threads : op[t] = "recvd") => count = Len(pending) + 1
  /\ (\A t \in Threads : op[t] \notin {"sent", "recvd"}) => count = Len(pending)

UsedIs == used = Cardinality(Users)

(* The inductive invariant of what the mailbox holds. *)
DInv == DataTypeOK /\ CountIs /\ UsedIs /\ LaidOut

LEMMA Wrap ==
  ASSUME NEW x \in 0..BufferSize-1, NEW y \in 0..BufferSize
  PROVE  (x + y) % BufferSize = IF x + y < BufferSize THEN x + y ELSE x + y - BufferSize
BY MboxAssumption

LEMMA WrapBack ==
  ASSUME NEW x \in 0..BufferSize-1, NEW y \in 0..BufferSize-1
  PROVE  (x - y) % BufferSize = IF y <= x THEN x - y ELSE x - y + BufferSize
BY MboxAssumption

LEMMA FunctionIsSeq ==
  ASSUME NEW S, NEW n \in Nat, NEW f \in [1..n -> S]
  PROVE  f \in Seq(S)
OBVIOUS

LEMMA MessageSize ==
  ASSUME NEW m \in Messages
  PROVE  /\ m \in Seq(0..Radix-1) /\ Len(m) \in Nat
         /\ MsgSize(m) \in Nat \ {0} /\ MsgSize(m) = HeaderSize + Len(m)
         /\ DOMAIN Image(m) = 1..MsgSize(m)
         /\ \A k \in 1..HeaderSize : Image(m)[k] = Header(Len(m))[k]
         /\ \A k \in 1..Len(m) : Image(m)[HeaderSize + k] = m[k]
<1>1. m \in Seq(0..Radix-1)
      /\ HeaderSize \in Nat \ {0} /\ BufferSize \in Nat \ {0}
  BY MboxAssumption
<1>2. Len(m) \in Nat
  BY <1>1
<1> DEFINE h == Header(Len(m))
<1>3. h \in Seq({h[k] : k \in 1..HeaderSize}) /\ Len(h) = HeaderSize
  <2>1. h = [k \in 1..HeaderSize |-> h[k]]
    BY DEF Header
  <2> HIDE DEF h
  <2>2. h \in [1..HeaderSize -> {h[k] : k \in 1..HeaderSize}]
    BY <2>1
  <2>3. h \in Seq({h[k] : k \in 1..HeaderSize})
    BY <1>1, <2>2, FunctionIsSeq
  <2>4. 1..Len(h) = 1..HeaderSize /\ Len(h) \in Nat
    BY <2>2, <2>3
  <2> QED BY <1>1, <2>3, <2>4
<1> HIDE DEF h
<1>4. /\ DOMAIN (h \o m) = 1..HeaderSize + Len(m)
      /\ \A k \in 1..HeaderSize : (h \o m)[k] = h[k]
      /\ \A k \in 1..Len(m) : (h \o m)[HeaderSize + k] = m[k]
  BY <1>1, <1>2, <1>3
<1> QED BY <1>1, <1>2, <1>4 DEF h, Image, MsgSize

(* Each message in the buffer fits into it. *)
LEMMA PendingFit ==
  ASSUME DataTypeOK, NEW st \in Starts, Laid(st), NEW i \in 1..Len(pending)
  PROVE  pending[i] \in Messages /\ MsgSize(pending[i]) \in 1..BufferSize
<1>1. pending \in Seq(Messages) /\ Len(pending) \in Nat
  BY DEF DataTypeOK
<1>2. pending[i] \in Messages /\ i \in 1..Len(pending)+1 /\ i + 1 \in 1..Len(pending)+1
  BY <1>1
<1>3. MsgSize(pending[i]) \in Nat \ {0}
  BY <1>2, MessageSize
<1>4. st[i+1] = st[i] + MsgSize(pending[i]) /\ st[i] \in 0..BufferSize /\ st[i+1] \in 0..BufferSize
  BY <1>2 DEF Laid, Starts
<1> QED BY <1>2, <1>3, <1>4, MboxAssumption

(* space_available: what the messages leave over. *)
LEMMA SpaceLeft ==
  ASSUME DataTypeOK, NEW st \in Starts, Laid(st), count = Len(pending)
  PROVE  Space = BufferSize - st[Len(pending) + 1]
<1> DEFINE n == Len(pending)
<1> DEFINE s == st[n + 1]
<1>1. /\ n \in Nat /\ s \in 0..BufferSize /\ BufferSize \in Nat \ {0}
      /\ tail \in 0..BufferSize-1 /\ head \in 0..BufferSize-1
  BY MboxAssumption DEF DataTypeOK, Starts
<1>2. head = IF tail + s < BufferSize THEN tail + s ELSE tail + s - BufferSize
  BY <1>1, Wrap DEF Laid, Slot
<1>3. s = 0 <=> n = 0
  <2>1. ASSUME n # 0 PROVE s # 0
    <3>1. n \in 1..n /\ n \in 1..n+1
      BY <1>1, <2>1
    <3>2. s = st[n] + MsgSize(pending[n]) /\ st[n] \in 0..BufferSize /\ pending[n] \in Messages
      BY <3>1 DEF Laid, Starts, DataTypeOK
    <3>3. MsgSize(pending[n]) \in Nat \ {0}
      BY <3>2, MessageSize
    <3> HIDE DEF s, n
    <3> QED BY <3>2, <3>3, MboxAssumption
  <2>2. ASSUME n = 0 PROVE s = 0
    BY <2>2 DEF Laid
  <2> QED BY <2>1, <2>2
<1>4. count = n
  OBVIOUS
<1> HIDE DEF s, n
<1>5. Space = BufferSize - s
  BY <1>1, <1>2, <1>3, <1>4 DEF Space
<1> QED BY <1>5 DEF s, n

LEMMA LaidBytes ==
  ASSUME DataTypeOK, NEW st \in Starts, Laid(st)
  PROVE  PendingBytes = st[Len(pending) + 1]
<1> DEFINE n == Len(pending)
<1> DEFINE f == [i \in 0..n |-> st[i+1]]
<1>1. pending \in Seq(Messages) /\ n \in Nat
  BY DEF DataTypeOK
<1>2. \A i \in 1..n : st[i+1] = st[i] + MsgSize(pending[i])
  BY DEF Laid
<1>3. \A i \in 1..n : i - 1 \in 0..n /\ i \in 0..n /\ (i - 1) + 1 = i
  BY <1>1
<1>4. DOMAIN f = 0..n /\ f[0] = 0 /\ f[n] = st[n+1]
  BY <1>1 DEF Laid
<1>5. \A i \in 1..n : f[i] = f[i-1] + MsgSize(pending[i])
  <2> TAKE i \in 1..n
  <2>1. f[i] = st[i+1] /\ f[i-1] = st[i]
    BY <1>3
  <2> QED BY <1>2, <2>1
<1> HIDE DEF f
<1>6. Queue!Bytes(pending) = f[n]
  BY <1>1, <1>4, <1>5, BytesAre
<1> QED BY <1>4, <1>6 DEF PendingBytes

(* mbox_recv's copies give the oldest message. *)
LEMMA ReceivesHead ==
  ASSUME DataTypeOK, NEW st \in Starts, Laid(st), pending # << >>
  PROVE  Received = pending[1] /\ pending[1] \in Messages
<1> DEFINE m == pending[1]
<1>1. Len(pending) \in Nat \ {0} /\ 1 \in 1..Len(pending) /\ m \in Messages
  BY DEF DataTypeOK
<1>2. /\ HeaderSize \in Nat \ {0} /\ BufferSize \in Nat \ {0} /\ tail \in 0..BufferSize-1
      /\ Rest(Len(m))[HeaderSize] = 0
  BY <1>1, MboxAssumption DEF DataTypeOK
<1>3. \A k \in 1..MsgSize(m) : buffer[Slot(k - 1)] = Image(m)[k]
  <2>1. \A k \in 1..MsgSize(m) : buffer[Slot(st[1] + k - 1)] = Image(m)[k] /\ st[1] = 0
    BY <1>1 DEF Laid
  <2>2. MsgSize(m) \in Nat
    BY <1>1, MessageSize
  <2> HIDE DEF m
  <2>3. \A k \in 1..MsgSize(m) : 0 + k - 1 = k - 1
    BY <2>2
  <2> QED BY <2>1, <2>3
<1> HIDE DEF m
<1>4. /\ Len(m) \in Nat /\ MsgSize(m) = HeaderSize + Len(m) /\ MsgSize(m) \in 1..BufferSize
      /\ \A k \in 1..HeaderSize : Image(m)[k] = Header(Len(m))[k]
      /\ \A k \in 1..Len(m) : Image(m)[HeaderSize + k] = m[k]
      /\ m = [k \in 1..Len(m) |-> m[k]]
  BY <1>1, MessageSize, PendingFit DEF m
<1>5. Load(tail, HeaderSize) = Header(Len(m))
  <2>1. \A i \in 1..HeaderSize : buffer[(tail + i - 1) % BufferSize] = Header(Len(m))[i]
    <3> TAKE i \in 1..HeaderSize
    <3>1. i \in 1..MsgSize(m) /\ tail + i - 1 = tail + (i - 1)
      BY <1>2, <1>4
    <3>2. Slot(i - 1) = (tail + i - 1) % BufferSize
      BY <3>1 DEF Slot
    <3> QED BY <1>3, <1>4, <3>1, <3>2
  <2> QED BY <2>1 DEF Load, Header
<1>6. SizeField(Load(tail, HeaderSize)) = Len(m)
  BY <1>2, <1>4, <1>5, SizeRead
<1>7. Load((tail + HeaderSize) % BufferSize, Len(m)) = m
  <2>1. \A i \in 1..Len(m) :
          buffer[(((tail + HeaderSize) % BufferSize) + i - 1) % BufferSize] = m[i]
    <3> TAKE i \in 1..Len(m)
    <3> DEFINE a == (tail + HeaderSize) % BufferSize
    <3>1. HeaderSize + i \in 1..MsgSize(m) /\ HeaderSize \in 0..BufferSize
          /\ i - 1 \in 0..BufferSize /\ HeaderSize + i - 1 \in 0..BufferSize
      BY <1>2, <1>4
    <3>2. /\ a = (IF tail + HeaderSize < BufferSize THEN tail + HeaderSize
                                                  ELSE tail + HeaderSize - BufferSize)
          /\ a \in 0..BufferSize-1
      <4>1. a \in 0..BufferSize-1
        BY <1>2, <3>1
      <4> QED BY <1>2, <3>1, <4>1, Wrap
    <3> HIDE DEF a
    <3>3. (a + (i - 1)) % BufferSize
            = IF a + (i - 1) < BufferSize THEN a + (i - 1) ELSE a + (i - 1) - BufferSize
      BY <3>1, <3>2, Wrap
    <3>4. Slot(HeaderSize + i - 1) =
            IF tail + (HeaderSize + i - 1) < BufferSize THEN tail + (HeaderSize + i - 1)
                                        ELSE tail + (HeaderSize + i - 1) - BufferSize
      BY <1>2, <3>1, Wrap DEF Slot
    <3>5. (a + (i - 1)) % BufferSize = Slot(HeaderSize + i - 1)
      <4>1. /\ tail \in Int /\ HeaderSize \in Int /\ i \in Int /\ BufferSize \in Int
            /\ 1 <= HeaderSize /\ HeaderSize + i <= BufferSize /\ 1 <= i
            /\ 0 <= tail /\ tail < BufferSize
        BY <1>2, <1>4, <3>1
      <4> QED BY <3>2, <3>3, <3>4, <4>1
    <3>6. a + i - 1 = a + (i - 1)
      BY <1>2, <1>4, <3>2
    <3>7. buffer[Slot(HeaderSize + i - 1)] = m[i]
      <4>1. Image(m)[HeaderSize + i] = m[i]
        BY <1>4
      <4>2. buffer[Slot(HeaderSize + i - 1)] = Image(m)[HeaderSize + i]
        BY <1>3, <3>1
      <4> QED BY <4>1, <4>2
    <3> QED BY <3>5, <3>6, <3>7 DEF a
  <2> DEFINE L == [i \in 1..Len(m) |->
                     buffer[(((tail + HeaderSize) % BufferSize) + i - 1) % BufferSize]]
  <2>2. L = [i \in 1..Len(m) |-> m[i]]
    BY <2>1
  <2>3. Load((tail + HeaderSize) % BufferSize, Len(m)) = L
    BY DEF Load
  <2> QED BY <1>4, <2>2, <2>3
<1> QED BY <1>1, <1>6, <1>7 DEF Received, m

(* msg_to_buffer writes the bytes of s from start on, and no others. *)
LEMMA StoreWrites ==
  ASSUME NEW start \in 0..BufferSize-1, DOMAIN buffer = 0..BufferSize-1,
         NEW s, NEW n \in 0..BufferSize, DOMAIN s = 1..n
  PROVE  /\ DOMAIN Store(start, s) = 0..BufferSize-1
         /\ \A k \in 1..n : Store(start, s)[(start + (k - 1)) % BufferSize] = s[k]
         /\ \A o \in n..BufferSize-1 :
              Store(start, s)[(start + o) % BufferSize] = buffer[(start + o) % BufferSize]
<1>0. BufferSize \in Nat \ {0}
  BY MboxAssumption
<1> DEFINE i(b) == ((b - start) % BufferSize) + 1
<1>1. \A b \in 0..BufferSize-1 :
        Store(start, s)[b] = IF i(b) \in 1..n THEN s[i(b)] ELSE buffer[b]
  BY DEF Store
<1>2. ASSUME NEW o \in 0..BufferSize-1
      PROVE  /\ (start + o) % BufferSize \in 0..BufferSize-1
             /\ i((start + o) % BufferSize) = o + 1
  <2> DEFINE b == (start + o) % BufferSize
  <2>1. b = (IF start + o < BufferSize THEN start + o ELSE start + o - BufferSize)
    BY <1>0, Wrap
  <2>2. b \in 0..BufferSize-1
    BY <1>0
  <2> HIDE DEF b
  <2>3. (b - start) % BufferSize = IF start <= b THEN b - start ELSE b - start + BufferSize
    BY <2>2, WrapBack
  <2>4. (b - start) % BufferSize = o
    BY <1>0, <2>1, <2>2, <2>3
  <2> QED BY <2>2, <2>4 DEF b
<1>3. DOMAIN Store(start, s) = 0..BufferSize-1
  BY DEF Store
<1> HIDE DEF i
<1>4. ASSUME NEW k \in 1..n PROVE Store(start, s)[(start + (k - 1)) % BufferSize] = s[k]
  <2>1. k - 1 \in 0..BufferSize-1 /\ (k - 1) + 1 = k
    BY <1>0
  <2> QED BY <1>1, <1>2, <2>1
<1>5. ASSUME NEW o \in n..BufferSize-1
      PROVE  Store(start, s)[(start + o) % BufferSize] = buffer[(start + o) % BufferSize]
  <2>1. o \in 0..BufferSize-1 /\ o + 1 \notin 1..n
    BY <1>0
  <2> QED BY <1>1, <1>2, <2>1
<1> QED BY <1>3, <1>4, <1>5

----------------------------------------------------------------------------
(* What each step does to the contents. *)
LEMMA UsersFinite ==
  /\ IsFiniteSet(Users) /\ Cardinality(Users) \in Nat
  /\ \A t \in Threads : HasOpen(t) <=> t \in Users
<1>1. IsFiniteSet(Users)
  BY MboxAssumption, FS_Subset DEF Users
<1> QED BY <1>1, FS_CardinalityType DEF Users

(* A step that leaves the contents alone, whatever it does with the lock.  *)
LEMMA LaidSame ==
  ASSUME LaidOut, UNCHANGED <<head, tail, buffer, pending>>
  PROVE  LaidOut'
BY DEF LaidOut, Laid, Starts, Slot

(* A step of t that changes no field of the mailbox. *)
LEMMA FieldsSame ==
  ASSUME OpOK, DInv, NEW t \in Threads,
         UNCHANGED <<used, count, head, tail, buffer, got, pending>>,
         \A u \in Threads : op'[u] # op[u] => /\ op[u] \notin {"sent", "recvd"}
                                              /\ op'[u] \notin {"sent", "recvd"},
         \A u \in Threads : HasOpen(u)' <=> HasOpen(u),
         msg' \in [Threads -> Messages \cup {<< >>}],
         \A u \in Threads : op'[u] \in {"send", "sent"} => msg'[u] \in Messages
  PROVE  DInv'
<1>1. DataTypeOK'
  BY DEF DInv, DataTypeOK
<1>2. CountIs'
  BY DEF DInv, CountIs
<1>3. UsedIs'
  BY DEF DInv, UsedIs, Users
<1>4. LaidOut'
  BY LaidSame DEF DInv
<1> QED BY <1>1, <1>2, <1>3, <1>4 DEF DInv

LEMMA RequestData ==
  ASSUME OpOK, DInv, NEW t \in Threads, Request(t)
  PROVE  DInv'
<1>1. /\ UNCHANGED <<used, count, head, tail, buffer, got, pending>>
      /\ \/ /\ op[t] = "closed" /\ op' = [op EXCEPT ![t] = "opening"] /\ msg' = msg
         \/ /\ op[t] = "idle" /\ msg' = msg
            /\ \E o \in {"closing", "stat", "recv"} : op' = [op EXCEPT ![t] = o]
         \/ /\ op[t] = "idle" /\ op' = [op EXCEPT ![t] = "send"]
            /\ \E m \in Messages : msg' = [msg EXCEPT ![t] = m]
  BY DEF Request, Start, StartOpen, StartClose, StartStat, StartRecv, StartSend, Become
<1>2. op \in [Threads -> Ops] /\ DataTypeOK
  BY DEF OpOK, DInv
<1>3. /\ msg' \in [Threads -> Messages \cup {<< >>}]
      /\ \A u \in Threads : op'[u] \in {"send", "sent"} => msg'[u] \in Messages
  BY <1>1, <1>2 DEF DataTypeOK
<1>4. /\ \A u \in Threads : op'[u] # op[u] => /\ op[u] \notin {"sent", "recvd"}
                                              /\ op'[u] \notin {"sent", "recvd"}
      /\ \A u \in Threads : HasOpen(u)' <=> HasOpen(u)
  BY <1>1, <1>2 DEF HasOpen
<1> QED BY <1>1, <1>3, <1>4, FieldsSame

LEMMA QuietData ==
  ASSUME OpOK, DInv, NEW t \in Threads,
         Stat(t) \/ RecvWait(t) \/ SendWait(t) \/ mboxvars' = mboxvars
  PROVE  DInv'
<1>1. /\ UNCHANGED <<used, count, head, tail, buffer, got, pending, msg>>
      /\ \/ op' = op
         \/ op[t] = "stat" /\ op' = [op EXCEPT ![t] = "idle"]
  BY DEF Stat, RecvWait, SendWait, InOp, Become, mboxvars
<1>2. op \in [Threads -> Ops] /\ DataTypeOK
  BY DEF OpOK, DInv
<1>3. /\ msg' \in [Threads -> Messages \cup {<< >>}]
      /\ \A u \in Threads : op'[u] \in {"send", "sent"} => msg'[u] \in Messages
  BY <1>1, <1>2 DEF DataTypeOK
<1>4. /\ \A u \in Threads : op'[u] # op[u] => /\ op[u] \notin {"sent", "recvd"}
                                              /\ op'[u] \notin {"sent", "recvd"}
      /\ \A u \in Threads : HasOpen(u)' <=> HasOpen(u)
  BY <1>1, <1>2 DEF HasOpen
<1> QED BY <1>1, <1>3, <1>4, FieldsSame

(* mbox_open: the first user finds the mailbox empty. *)
LEMMA OpenData ==
  ASSUME MInv, DInv, NEW t \in Threads, Open(t)
  PROVE  DInv'
<1> USE DEF MInv
<1>1. /\ op \in [Threads -> Ops] /\ DataTypeOK /\ used \in Nat
      /\ op[t] = "opening" /\ op' = [op EXCEPT ![t] = "idle"] /\ used' = used + 1
      /\ UNCHANGED <<buffer, msg, got>>
      /\ \A u \in Threads : op[u] \notin {"sent", "recvd"}
  BY OwnerAlone DEF OpOK, DInv, DataTypeOK, Open, Become, InOp, At, Owns
<1>2. \A u \in Threads : HasOpen(u)' <=> HasOpen(u) \/ u = t
  BY <1>1 DEF HasOpen
<1>3. Users' = Users \cup {t} /\ t \notin Users
  BY <1>1, <1>2 DEF Users, HasOpen
<1>4. UsedIs'
  BY <1>1, <1>3, UsersFinite, FS_AddElement DEF UsedIs, DInv
<1>5. \A u \in Threads : op'[u] \notin {"sent", "recvd"} /\ (u # t => op'[u] = op[u])
  BY <1>1
<1>6. count = Len(pending)
  BY <1>1 DEF DInv, CountIs
<1>7. CASE used = 0
  <2>1. head' = 0 /\ tail' = 0 /\ count' = 0 /\ pending' = << >>
    BY <1>7 DEF Open
  <2>2. DataTypeOK'
    BY <1>1, <1>5, <2>1, MboxAssumption DEF DataTypeOK
  <2>3. CountIs'
    BY <1>5, <2>1 DEF CountIs
  <2>4. LaidOut'
    <3> DEFINE st == [i \in 1..1 |-> 0]
    <3>0. BufferSize \in Nat \ {0} /\ 0 % BufferSize = 0
      BY MboxAssumption
    <3>1. Len(pending') = 0
      BY <2>1
    <3>2. st \in Starts'
      BY <3>0, <3>1 DEF Starts
    <3>3. Laid(st)'
      BY <2>1, <3>0, <3>1 DEF Laid, Slot
    <3> QED BY <3>2, <3>3 DEF LaidOut
  <2> QED BY <1>4, <2>2, <2>3, <2>4 DEF DInv
<1>8. CASE used # 0
  <2>1. UNCHANGED <<head, tail, count, pending>>
    BY <1>8 DEF Open
  <2>2. DataTypeOK'
    BY <1>1, <1>5, <2>1 DEF DataTypeOK
  <2>3. CountIs'
    BY <1>5, <1>6, <2>1 DEF CountIs
  <2>4. LaidOut'
    BY <1>1, <2>1, LaidSame DEF DInv
  <2> QED BY <1>4, <2>2, <2>3, <2>4 DEF DInv
<1> QED BY <1>7, <1>8

LEMMA CloseData ==
  ASSUME MInv, DInv, NEW t \in Threads, Close(t)
  PROVE  DInv'
<1> USE DEF MInv
<1>1. /\ op \in [Threads -> Ops] /\ DataTypeOK /\ used \in Nat
      /\ op[t] = "closing" /\ op' = [op EXCEPT ![t] = "closed"] /\ used' = used - 1
      /\ UNCHANGED <<count, head, tail, buffer, msg, got, pending>>
      /\ \A u \in Threads : op[u] \notin {"sent", "recvd"}
  BY OwnerAlone DEF OpOK, DInv, DataTypeOK, Close, Become, InOp, At, Owns
<1>2. \A u \in Threads : HasOpen(u)' <=> HasOpen(u) /\ u # t
  BY <1>1 DEF HasOpen
<1>3. Users' = Users \ {t} /\ t \in Users
  BY <1>1, <1>2 DEF Users, HasOpen
<1>4. Cardinality(Users') = Cardinality(Users) - 1 /\ Cardinality(Users') \in Nat
  <2>1. IsFiniteSet(Users')
    BY <1>3, UsersFinite, FS_Subset
  <2> QED BY <1>3, <2>1, UsersFinite, FS_RemoveElement, FS_CardinalityType
<1>5. UsedIs' /\ used' \in Nat
  BY <1>1, <1>4 DEF UsedIs, DInv
<1>6. \A u \in Threads : op'[u] \notin {"sent", "recvd"} /\ (u # t => op'[u] = op[u])
  BY <1>1
<1>7. DataTypeOK'
  BY <1>1, <1>5, <1>6 DEF DataTypeOK
<1>8. CountIs'
  BY <1>1, <1>6 DEF CountIs, DInv
<1>9. LaidOut'
  BY <1>1, LaidSame DEF DInv
<1> QED BY <1>5, <1>7, <1>8, <1>9 DEF DInv

(* The message is counted, in or out. *)
LEMMA DoneData ==
  ASSUME MInv, DInv, NEW t \in Threads, RecvDone(t) \/ SendDone(t)
  PROVE  DInv'
<1> USE DEF MInv
<1>1. /\ op \in [Threads -> Ops] /\ DataTypeOK /\ count \in Nat
      /\ op' = [op EXCEPT ![t] = "idle"]
      /\ UNCHANGED <<used, head, tail, buffer, got, pending>>
      /\ \/ op[t] = "recvd" /\ count' = count - 1 /\ msg' = msg
         \/ op[t] = "sent" /\ count' = count + 1 /\ msg' = [msg EXCEPT ![t] = << >>]
      /\ \A u \in Threads : u # t => op[u] \notin {"sent", "recvd"}
  BY OwnerAlone DEF OpOK, CountOK, DInv, RecvDone, SendDone, Become, InOp, At, Owns
<1>2. \A u \in Threads : op'[u] \notin {"sent", "recvd"} /\ (u # t => op'[u] = op[u])
  BY <1>1
<1>3. DataTypeOK'
  BY <1>1, <1>2 DEF DataTypeOK
<1>4. CountIs'
  <2>1. Len(pending) \in Nat
    BY <1>1 DEF DataTypeOK
  <2>2. count' = Len(pending)
    BY <1>1, <2>1 DEF CountIs, DInv
  <2> QED BY <1>1, <1>2, <2>2 DEF CountIs
<1>5. UsedIs'
  <2>1. \A u \in Threads : HasOpen(u)' <=> HasOpen(u)
    BY <1>1, <1>2 DEF HasOpen
  <2> QED BY <1>1, <2>1 DEF UsedIs, Users, DInv
<1>6. LaidOut'
  BY <1>1, LaidSame DEF DInv
<1> QED BY <1>3, <1>4, <1>5, <1>6 DEF DInv

(* The owner of the lock, between two operations on the contents. *)
LEMMA BeforeCopy ==
  ASSUME MInv, DInv, NEW t \in Threads, InOp(t, "send") \/ InOp(t, "recv")
  PROVE  /\ \A u \in Threads : op[u] \notin {"sent", "recvd"}
         /\ count = Len(pending)
<1>1. op[t] \notin {"sent", "recvd"} /\ Owns(t)
  BY DEF InOp, At, Owns
<1>2. \A u \in Threads : op[u] \notin {"sent", "recvd"}
  BY <1>1, OwnerAlone DEF MInv
<1> QED BY <1>2 DEF DInv, CountIs

(* mbox_recv takes the oldest message out. *)
LEMMA RecvLaid ==
  ASSUME DataTypeOK, NEW st \in Starts, Laid(st), pending # << >>, pending' = Tail(pending),
         UNCHANGED <<head, buffer>>
  PROVE  tail' = (tail + MsgSize(pending[1])) % BufferSize => LaidOut'
<1>m. SUFFICES ASSUME tail' = (tail + MsgSize(pending[1])) % BufferSize
              PROVE  LaidOut'
  OBVIOUS
<1>0. PICK n, d : n = Len(pending) /\ d = MsgSize(pending[1])
  OBVIOUS
<1>1. /\ n \in Nat \ {0} /\ BufferSize \in Nat \ {0} /\ pending \in Seq(Messages)
      /\ tail \in 0..BufferSize-1 /\ 1 \in 1..n /\ n + 1 \in 1..n+1
      /\ \A i \in 1..n+1 : st[i] \in 0..BufferSize
  <2>1. n \in Nat \ {0} /\ pending \in Seq(Messages)
    BY <1>0 DEF DataTypeOK
  <2>2. st \in [1..n+1 -> 0..BufferSize]
    BY <1>0 DEF Starts
  <2> QED BY <2>1, <2>2, MboxAssumption DEF DataTypeOK
<1>2. /\ st[1] = 0 /\ head = Slot(st[n+1])
      /\ \A i \in 1..n : st[i+1] = st[i] + MsgSize(pending[i])
      /\ \A i \in 1..n+1 : st[i] <= st[n+1]
      /\ \A i \in 1..n : \A k \in 1..MsgSize(pending[i]) :
           buffer[Slot(st[i] + k - 1)] = Image(pending[i])[k]
  BY <1>0 DEF Laid
<1>3. /\ Len(pending') = n - 1
      /\ \A i \in 1..n-1 : pending'[i] = pending[i+1] /\ i + 1 \in 1..n
  BY <1>0, <1>1
<1>4. d \in 1..BufferSize /\ \A i \in 1..n : MsgSize(pending[i]) \in 1..BufferSize
  BY <1>0, <1>1, PendingFit
(* the others start after the first *)
<1>5. \A i \in 1..n : d <= st[i+1]
  <2> DEFINE Bad == {i \in 1..n : ~(d <= st[i+1])}
  <2> SUFFICES ASSUME Bad # {} PROVE FALSE
    OBVIOUS
  <2>1. PICK x \in Bad : \A y \in Bad : x <= y
    <3>1. Bad \subseteq Nat
      BY <1>1
    <3> HIDE DEF Bad
    <3> QED BY <3>1, LeastElement
  <2>2. x # 1
    <3>1. 1 \in 1..n /\ st[1+1] = st[1] + MsgSize(pending[1])
      BY <1>1, <1>2
    <3>2. st[1+1] = d
      BY <1>0, <1>2, <1>4, <3>1
    <3> QED BY <1>4, <2>1, <3>2
  <2>3. x - 1 \in 1..n /\ (x - 1) + 1 = x /\ d <= st[x]
    <3>1. x \in 1..n /\ x - 1 \in 1..n /\ (x - 1) + 1 = x /\ ~(x <= x - 1)
      BY <1>1, <2>1, <2>2
    <3>2. x - 1 \notin Bad
      BY <2>1, <3>1
    <3>3. d <= st[(x - 1) + 1]
      BY <3>1, <3>2
    <3> QED BY <3>1, <3>3
  <2>4. st[x+1] = st[x] + MsgSize(pending[x]) /\ MsgSize(pending[x]) \in 1..BufferSize
        /\ st[x] \in 0..BufferSize
    <3>1. x \in 1..n /\ x \in 1..n+1
      BY <1>1, <2>1
    <3> QED BY <1>1, <1>2, <1>4, <3>1
  <2> QED BY <1>4, <2>1, <2>3, <2>4
<1>51. PICK st2 : st2 = [i \in 1..n |-> st[i+1] - d]
  OBVIOUS
<1>6. \A i \in 1..n : st2[i] = st[i+1] - d /\ st2[i] \in 0..BufferSize /\ i + 1 \in 1..n+1
  <2> TAKE i \in 1..n
  <2>1. st2[i] = st[i+1] - d /\ i + 1 \in 1..n+1
    BY <1>1, <1>51
  <2>2. st[i+1] \in 0..BufferSize /\ d <= st[i+1]
    BY <1>1, <1>5, <2>1
  <2> QED BY <1>1, <1>4, <2>1, <2>2
<1>7. st2 \in Starts'
  <2>1. (n - 1) + 1 = n
    BY <1>1
  <2>2. st2 \in [1..n -> 0..BufferSize]
    BY <1>6, <1>51
  <2> QED BY <1>0, <1>3, <2>1, <2>2 DEF Starts
<1>8. \A o \in d..BufferSize : (tail' + (o - d)) % BufferSize = (tail + o) % BufferSize
  <2> TAKE o \in d..BufferSize
  <2>1. tail' = IF tail + d < BufferSize THEN tail + d ELSE tail + d - BufferSize
    <3>1. tail' = (tail + d) % BufferSize /\ d \in 0..BufferSize
      BY <1>0, <1>1, <1>4, <1>m
    <3> QED BY <1>1, <3>1, Wrap
  <2>2. tail' \in 0..BufferSize-1
    BY <1>1, <1>4, <2>1
  <2>3. o \in 0..BufferSize /\ o - d \in 0..BufferSize
    BY <1>1, <1>4
  <2>4. /\ (tail' + (o - d)) % BufferSize = IF tail' + (o - d) < BufferSize
                                     THEN tail' + (o - d) ELSE tail' + (o - d) - BufferSize
        /\ (tail + o) % BufferSize = IF tail + o < BufferSize
                                     THEN tail + o ELSE tail + o - BufferSize
    BY <1>1, <2>2, <2>3, Wrap
  <2>5. /\ tail \in Int /\ d \in Int /\ o \in Int /\ BufferSize \in Int
        /\ 0 <= tail /\ tail < BufferSize /\ d <= o /\ o <= BufferSize /\ 1 <= d
    BY <1>1, <1>4
  <2> DEFINE a == (tail' + (o - d)) % BufferSize
  <2> DEFINE b == (tail + o) % BufferSize
  <2>6. /\ a = IF tail' + (o - d) < BufferSize
                THEN tail' + (o - d) ELSE tail' + (o - d) - BufferSize
        /\ b = IF tail + o < BufferSize THEN tail + o ELSE tail + o - BufferSize
    BY <2>4
  <2> HIDE DEF a, b
  <2>7. a = b
    BY <2>1, <2>5, <2>6
  <2> QED BY <2>7 DEF a, b
<1>9. st2[1] = 0 /\ \A i \in 1..n : st2[i] <= st2[n]
  <2>1. st[1+1] = d /\ n \in 1..n /\ st2[1] = st[1+1] - d
    <3>1. 1 \in 1..n /\ st[1+1] = st[1] + MsgSize(pending[1])
      BY <1>1, <1>2
    <3> QED BY <1>0, <1>1, <1>2, <1>4, <1>6, <3>1
  <2>2. ASSUME NEW i \in 1..n PROVE st2[i] <= st2[n]
    <3>1. st[i+1] <= st[n+1] /\ st[i+1] \in 0..BufferSize /\ st[n+1] \in 0..BufferSize
      BY <1>1, <1>2, <1>6
    <3>2. st2[i] = st[i+1] - d /\ st2[n] = st[n+1] - d
      BY <1>6, <2>1
    <3>3. st[i+1] \in Int /\ st[n+1] \in Int /\ d \in Int
      BY <1>1, <1>4, <3>1
    <3>4. st[i+1] - d <= st[n+1] - d
      BY <3>1, <3>3
    <3> QED BY <3>2, <3>4
  <2> QED BY <1>4, <2>1, <2>2
<1>10. \A i \in 1..n-1 : st2[i+1] = st2[i] + MsgSize(pending'[i])
  <2> TAKE i \in 1..n-1
  <2>1. i \in 1..n /\ i + 1 \in 1..n /\ st[(i+1)+1] = st[i+1] + MsgSize(pending[i+1])
        /\ st[i+1] \in 0..BufferSize /\ MsgSize(pending[i+1]) \in 1..BufferSize
    <3>1. i \in 1..n /\ i + 1 \in 1..n /\ i + 1 \in 1..n+1
      BY <1>1
    <3> QED BY <1>1, <1>2, <1>4, <3>1
  <2> QED BY <1>3, <1>4, <1>6, <2>1
<1>11. head' = (tail' + st2[n]) % BufferSize
  <2>1. st[n+1] \in d..BufferSize /\ n \in 1..n
    BY <1>1, <1>4, <1>5
  <2> QED BY <1>2, <1>6, <1>8, <2>1 DEF Slot
<1>12. \A i \in 1..n-1 : \A k \in 1..MsgSize(pending'[i]) :
         buffer'[(tail' + (st2[i] + k - 1)) % BufferSize] = Image(pending'[i])[k]
  <2> TAKE i \in 1..n-1
  <2> TAKE k \in 1..MsgSize(pending'[i])
  <2>0. PICK o : o = st[i+1] + k - 1
    OBVIOUS
  <2>1. /\ i \in 1..n /\ i + 1 \in 1..n /\ (i+1)+1 \in 1..n+1 /\ pending'[i] = pending[i+1]
        /\ MsgSize(pending[i+1]) \in 1..BufferSize /\ k \in 1..MsgSize(pending[i+1])
        /\ st[(i+1)+1] = st[i+1] + MsgSize(pending[i+1])
    <3>1. i \in 1..n /\ i + 1 \in 1..n /\ (i+1)+1 \in 1..n+1
      BY <1>1
    <3> QED BY <1>2, <1>3, <1>4, <3>1
  <2>2. st[i+1] \in 0..BufferSize /\ st[(i+1)+1] \in 0..BufferSize /\ d <= st[i+1]
    BY <1>1, <1>5, <2>1
  <2>3. o \in d..BufferSize /\ st2[i] + k - 1 = o - d
    <3>1. PICK x, z : x = st[i+1] /\ z = MsgSize(pending[i+1])
      OBVIOUS
    <3>2. /\ k \in Int /\ 1 <= k /\ k <= z /\ z \in Int /\ BufferSize \in Int
          /\ d \in Int /\ 1 <= d /\ x \in Int /\ d <= x /\ x + z <= BufferSize
      BY <1>1, <1>4, <2>1, <2>2, <3>1
    <3>3. o = x + k - 1
      BY <2>0, <3>1
    <3>4. o \in d..BufferSize /\ (x - d) + k - 1 = o - d
      BY <3>2, <3>3
    <3>5. st2[i] = x - d
      BY <1>6, <2>1, <3>1
    <3> QED BY <3>4, <3>5
  <2>4. buffer[Slot(o)] = Image(pending[i+1])[k]
    BY <1>2, <2>0, <2>1
  <2> QED BY <1>8, <2>1, <2>3, <2>4 DEF Slot
<1>13. Laid(st2)'
  <2>1. (n - 1) + 1 = n
    BY <1>1
  <2>2. Laid(st2)' <=>
          /\ st2[1] = 0
          /\ \A i \in 1..Len(pending') : st2[i+1] = st2[i] + MsgSize(pending'[i])
          /\ \A i \in 1..Len(pending') + 1 : st2[i] <= st2[Len(pending') + 1]
          /\ head' = (tail' + st2[Len(pending') + 1]) % BufferSize
          /\ \A i \in 1..Len(pending') : \A k \in 1..MsgSize(pending'[i]) :
               buffer'[(tail' + (st2[i] + k - 1)) % BufferSize] = Image(pending'[i])[k]
    BY DEF Laid, Slot
  <2> QED BY <1>3, <1>9, <1>10, <1>11, <1>12, <2>1, <2>2
<1> QED BY <1>7, <1>13 DEF LaidOut

LEMMA RecvData ==
  ASSUME MInv, DInv, NEW t \in Threads, RecvCopy(t)
  PROVE  DInv' /\ pending # << >> /\ Received = pending[1]
<1>1. /\ InOp(t, "recv") /\ count # 0 /\ pending' = Tail(pending)
      /\ op' = [op EXCEPT ![t] = "recvd"] /\ op[t] = "recv"
      /\ got' = [got EXCEPT ![t] = Received]
      /\ tail' = (tail + MsgSize(Received)) % BufferSize
      /\ UNCHANGED <<used, count, head, buffer, msg>>
  BY DEF RecvCopy, Become, InOp
<1>2. /\ op \in [Threads -> Ops] /\ DataTypeOK
      /\ \A u \in Threads : op[u] \notin {"sent", "recvd"}
      /\ count = Len(pending)
  BY <1>1, BeforeCopy DEF MInv, OpOK, DInv
<1>3. pending # << >> /\ pending \in Seq(Messages)
  BY <1>1, <1>2 DEF DataTypeOK
<1>4. PICK st \in Starts : Laid(st)
  BY DEF DInv, LaidOut
<1>5. Received = pending[1] /\ pending[1] \in Messages
  BY <1>2, <1>3, <1>4, ReceivesHead
<1>6. LaidOut'
  BY <1>1, <1>2, <1>3, <1>4, <1>5, RecvLaid
<1>7. pending' \in Seq(Messages) /\ Len(pending) = Len(pending') + 1
  BY <1>1, <1>3
<1>8. tail' \in 0..BufferSize-1
  <2>1. MsgSize(pending[1]) \in Nat /\ BufferSize \in Nat \ {0} /\ tail \in Nat
    BY <1>2, <1>5, MessageSize, MboxAssumption DEF DataTypeOK
  <2> QED BY <1>1, <1>5, <2>1
<1>9. \A u \in Threads : op'[u] \notin {"send", "sent"} \/ op'[u] = op[u]
  BY <1>1, <1>2
<1>10. DataTypeOK'
  BY <1>1, <1>2, <1>7, <1>8, <1>9 DEF DataTypeOK
<1>11. CountIs'
  BY <1>1, <1>2, <1>7 DEF CountIs
<1>12. UsedIs'
  <2>1. \A u \in Threads : HasOpen(u)' <=> HasOpen(u)
    BY <1>1, <1>2 DEF HasOpen
  <2> QED BY <1>1, <2>1 DEF UsedIs, Users, DInv
<1> QED BY <1>3, <1>5, <1>6, <1>10, <1>11, <1>12 DEF DInv

(* mbox_send puts a message behind the others, in the space left over. *)
LEMMA SendLaid ==
  ASSUME DataTypeOK, NEW st \in Starts, Laid(st), NEW m \in Messages,
         MsgSize(m) <= BufferSize - st[Len(pending) + 1],
         buffer' = Store(head, Image(m)), pending' = Append(pending, m), tail' = tail
  PROVE  head' = (head + MsgSize(m)) % BufferSize
           => LaidOut' /\ DOMAIN buffer' = 0..BufferSize-1
<1>m. SUFFICES ASSUME head' = (head + MsgSize(m)) % BufferSize
              PROVE  LaidOut' /\ DOMAIN buffer' = 0..BufferSize-1
  OBVIOUS
<1>0. PICK n, s, d : n = Len(pending) /\ s = st[n+1] /\ d = MsgSize(m)
  OBVIOUS
<1>1. /\ n \in Nat /\ BufferSize \in Nat \ {0} /\ pending \in Seq(Messages)
      /\ tail \in 0..BufferSize-1 /\ head \in 0..BufferSize-1 /\ DOMAIN buffer = 0..BufferSize-1
      /\ n + 1 \in 1..n+1 /\ \A i \in 1..n+1 : st[i] \in 0..BufferSize
  <2>1. n \in Nat /\ pending \in Seq(Messages)
    BY <1>0 DEF DataTypeOK
  <2>2. st \in [1..n+1 -> 0..BufferSize]
    BY <1>0 DEF Starts
  <2> QED BY <2>1, <2>2, MboxAssumption DEF DataTypeOK
<1>2. /\ st[1] = 0 /\ head = Slot(s)
      /\ \A i \in 1..n : st[i+1] = st[i] + MsgSize(pending[i])
      /\ \A i \in 1..n+1 : st[i] <= s
      /\ \A i \in 1..n : \A k \in 1..MsgSize(pending[i]) :
           buffer[Slot(st[i] + k - 1)] = Image(pending[i])[k]
  BY <1>0 DEF Laid
<1>3. /\ Len(pending') = n + 1 /\ pending'[n+1] = m
      /\ \A i \in 1..n : pending'[i] = pending[i]
  BY <1>0, <1>1
<1>4. /\ d \in 1..BufferSize /\ DOMAIN Image(m) = 1..d
      /\ \A i \in 1..n : MsgSize(pending[i]) \in 1..BufferSize
  <2>1. \A i \in 1..n : MsgSize(pending[i]) \in 1..BufferSize
    BY <1>0, PendingFit
  <2>2. d \in Nat \ {0} /\ DOMAIN Image(m) = 1..d
    BY <1>0, MessageSize
  <2>3. s \in 0..BufferSize /\ d <= BufferSize - s
    BY <1>0, <1>1
  <2> QED BY <1>1, <2>1, <2>2, <2>3
<1>5. s \in 0..BufferSize /\ s + d <= BufferSize
  BY <1>0, <1>1, <1>4
<1>6. /\ DOMAIN buffer' = 0..BufferSize-1
      /\ \A k \in 1..d : buffer'[(head + (k - 1)) % BufferSize] = Image(m)[k]
      /\ \A o \in d..BufferSize-1 :
           buffer'[(head + o) % BufferSize] = buffer[(head + o) % BufferSize]
  <2>1. d \in 0..BufferSize
    BY <1>1, <1>4
  <2>2. /\ DOMAIN Store(head, Image(m)) = 0..BufferSize-1
        /\ \A k \in 1..d : Store(head, Image(m))[(head + (k - 1)) % BufferSize] = Image(m)[k]
        /\ \A o \in d..BufferSize-1 : Store(head, Image(m))[(head + o) % BufferSize]
                                       = buffer[(head + o) % BufferSize]
    BY <1>1, <1>4, <2>1, StoreWrites
  <2> QED BY <2>2
<1>7. head = IF tail + s < BufferSize THEN tail + s ELSE tail + s - BufferSize
  BY <1>1, <1>2, <1>5, Wrap DEF Slot
(* the new bytes are behind the old ones, all around the buffer *)
<1>8. \A k \in 1..d : buffer'[Slot(s + k - 1)] = Image(m)[k]
  <2> TAKE k \in 1..d
  <2>1. k - 1 \in 0..BufferSize /\ s + k - 1 \in 0..BufferSize
    BY <1>1, <1>4, <1>5
  <2>2. (head + (k - 1)) % BufferSize = IF head + (k - 1) < BufferSize
                                  THEN head + (k - 1) ELSE head + (k - 1) - BufferSize
    BY <1>1, <2>1, Wrap
  <2>3. Slot(s + k - 1) = IF tail + (s + k - 1) < BufferSize
                          THEN tail + (s + k - 1) ELSE tail + (s + k - 1) - BufferSize
    BY <1>1, <2>1, Wrap DEF Slot
  <2>4. (head + (k - 1)) % BufferSize = Slot(s + k - 1)
    BY <1>1, <1>4, <1>5, <1>7, <2>2, <2>3
  <2> QED BY <1>6, <2>4
(* and the old ones stay *)
<1>9. \A o \in 0..s-1 : buffer'[Slot(o)] = buffer[Slot(o)]
  <2> TAKE o \in 0..s-1
  <2> DEFINE p == o - s + BufferSize
  <2>1. p \in d..BufferSize-1 /\ p \in 0..BufferSize /\ o \in 0..BufferSize
    BY <1>1, <1>4, <1>5
  <2>2. (head + p) % BufferSize = IF head + p < BufferSize
                                  THEN head + p ELSE head + p - BufferSize
    BY <1>1, <2>1, Wrap
  <2>3. Slot(o) = IF tail + o < BufferSize THEN tail + o ELSE tail + o - BufferSize
    BY <1>1, <2>1, Wrap DEF Slot
  <2>4. (head + p) % BufferSize = Slot(o)
    <3>1. /\ tail \in Int /\ s \in Int /\ o \in Int /\ BufferSize \in Int
          /\ 0 <= tail /\ tail < BufferSize /\ 0 <= o /\ o < s /\ s <= BufferSize
      BY <1>1, <1>5
    <3> QED BY <1>7, <2>2, <2>3, <3>1
  <2> HIDE DEF p
  <2> QED BY <1>6, <2>1, <2>4
<1>91. PICK st2 : st2 = [i \in 1..n+2 |-> IF i = n + 2 THEN s + d ELSE st[i]]
  OBVIOUS
<1>10. /\ st2[n+2] = s + d /\ st2[n+1] = s /\ st2[1] = 0
       /\ \A i \in 1..n+1 : st2[i] = st[i] /\ st2[i] \in 0..BufferSize /\ i \in 1..n+2
       /\ s + d \in 0..BufferSize
  <2>1. \A i \in 1..n+1 : i \in 1..n+2 /\ i # n + 2
    BY <1>1
  <2>2. n + 2 \in 1..n+2 /\ 1 \in 1..n+1
    BY <1>1
  <2>3. st[n+1] = s /\ st[1] = 0
    BY <1>0, <1>2
  <2>4. s + d \in 0..BufferSize
    BY <1>1, <1>4, <1>5
  <2> QED BY <1>1, <1>91, <2>1, <2>2, <2>3, <2>4
<1>11. \A i \in 1..n+2 : i \in 1..n+1 \/ i = n + 2
  BY <1>1
<1>12. st2 \in Starts'
  <2>1. (n + 1) + 1 = n + 2
    BY <1>1
  <2>2. st2 \in [1..n+2 -> 0..BufferSize]
    BY <1>10, <1>11, <1>91
  <2> QED BY <1>0, <1>3, <2>1, <2>2 DEF Starts
<1>13. \A i \in 1..n+1 : st2[i+1] = st2[i] + MsgSize(pending'[i])
  <2> TAKE i \in 1..n+1
  <2>1. CASE i = n + 1
    <3>1. i + 1 = n + 2
      BY <1>1, <2>1
    <3> QED BY <1>0, <1>3, <1>10, <2>1, <3>1
  <2>2. CASE i # n + 1
    <3>1. i \in 1..n /\ i + 1 \in 1..n+1
      BY <1>1, <2>2
    <3> QED BY <1>2, <1>3, <1>10, <3>1
  <2> QED BY <2>1, <2>2
<1>14. \A i \in 1..n+2 : st2[i] <= st2[n+2]
  <2>1. \A i \in 1..n+1 : st2[i] <= s /\ st2[i] \in 0..BufferSize
    BY <1>2, <1>10
  <2>2. s <= s + d
    BY <1>1, <1>4, <1>5
  <2>3. st2[n+2] = s + d /\ s + d \in Int /\ s \in Int
    BY <1>1, <1>5, <1>10
  <2> TAKE i \in 1..n+2
  <2>4. CASE i \in 1..n+1
    BY <1>1, <2>1, <2>2, <2>3, <2>4
  <2>5. CASE i = n + 2
    BY <2>3, <2>5
  <2> QED BY <1>11, <2>4, <2>5
<1>15. head' = (tail + st2[n+2]) % BufferSize
  <2>1. head' = IF head + d < BufferSize THEN head + d ELSE head + d - BufferSize
    <3>1. head' = (head + d) % BufferSize /\ d \in 0..BufferSize
      BY <1>0, <1>1, <1>4, <1>m
    <3> QED BY <1>1, <3>1, Wrap
  <2>2. (tail + (s + d)) % BufferSize = IF tail + (s + d) < BufferSize
                                 THEN tail + (s + d) ELSE tail + (s + d) - BufferSize
    BY <1>1, <1>10, Wrap
  <2>3. /\ tail \in Int /\ s \in Int /\ d \in Int /\ BufferSize \in Int
        /\ 0 <= tail /\ tail < BufferSize /\ 0 <= s /\ 1 <= d /\ s + d <= BufferSize
    BY <1>1, <1>4, <1>5
  <2>4. head' = (tail + (s + d)) % BufferSize
    BY <1>7, <2>1, <2>2, <2>3
  <2> QED BY <1>10, <2>4
<1>16. \A i \in 1..n+1 : \A k \in 1..MsgSize(pending'[i]) :
         buffer'[Slot(st2[i] + k - 1)] = Image(pending'[i])[k]
  <2> TAKE i \in 1..n+1
  <2> TAKE k \in 1..MsgSize(pending'[i])
  <2>1. CASE i = n + 1
    BY <1>0, <1>3, <1>8, <1>10, <2>1
  <2>2. CASE i # n + 1
    <3>1. i \in 1..n /\ i + 1 \in 1..n+1 /\ k \in 1..MsgSize(pending[i])
          /\ st2[i] = st[i] /\ st[i+1] = st[i] + MsgSize(pending[i]) /\ st[i+1] <= s
          /\ st[i] \in 0..BufferSize /\ MsgSize(pending[i]) \in 1..BufferSize
      <4>1. i \in 1..n /\ i + 1 \in 1..n+1
        BY <1>1, <2>2
      <4> QED BY <1>1, <1>2, <1>3, <1>4, <1>10, <4>1
    <3>2. st[i] + k - 1 \in 0..s-1
      BY <1>1, <1>5, <3>1
    <3>3. buffer'[Slot(st[i] + k - 1)] = buffer[Slot(st[i] + k - 1)]
      BY <1>9, <3>2
    <3> QED BY <1>2, <1>3, <3>1, <3>3
  <2> QED BY <2>1, <2>2
<1>17. Laid(st2)'
  <2>1. (n + 1) + 1 = n + 2
    BY <1>1
  <2>2. Laid(st2)' <=>
          /\ st2[1] = 0
          /\ \A i \in 1..Len(pending') : st2[i+1] = st2[i] + MsgSize(pending'[i])
          /\ \A i \in 1..Len(pending') + 1 : st2[i] <= st2[Len(pending') + 1]
          /\ head' = Slot(st2[Len(pending') + 1])
          /\ \A i \in 1..Len(pending') : \A k \in 1..MsgSize(pending'[i]) :
               buffer'[Slot(st2[i] + k - 1)] = Image(pending'[i])[k]
    BY DEF Laid, Slot
  <2>3. Slot(st2[n+2]) = (tail + st2[n+2]) % BufferSize
    BY DEF Slot
  <2> QED BY <1>3, <1>10, <1>13, <1>14, <1>15, <1>16, <2>1, <2>2, <2>3
<1> QED BY <1>6, <1>12, <1>17 DEF LaidOut

LEMMA SendData ==
  ASSUME MInv, DInv, NEW t \in Threads, SendCopy(t)
  PROVE  /\ DInv' /\ msg[t] \in Messages
         /\ PendingBytes + MsgSize(msg[t]) <= BufferSize
<1> DEFINE m == msg[t]
<1>1. /\ InOp(t, "send") /\ HasRoom(m) /\ pending' = Append(pending, m)
      /\ op' = [op EXCEPT ![t] = "sent"] /\ op[t] = "send"
      /\ buffer' = Store(head, Image(m))
      /\ head' = (head + MsgSize(m)) % BufferSize
      /\ UNCHANGED <<used, count, tail, msg, got>>
  BY DEF SendCopy, Become, InOp
<1>2. /\ op \in [Threads -> Ops] /\ DataTypeOK /\ m \in Messages
      /\ \A u \in Threads : op[u] \notin {"sent", "recvd"}
      /\ count = Len(pending)
  BY <1>1, BeforeCopy DEF MInv, OpOK, DInv, DataTypeOK
<1>3. PICK st \in Starts : Laid(st)
  BY DEF DInv, LaidOut
<1>4. Space = BufferSize - st[Len(pending) + 1] /\ PendingBytes = st[Len(pending) + 1]
  BY <1>2, <1>3, SpaceLeft, LaidBytes
<1>5. /\ MsgSize(m) <= BufferSize - st[Len(pending) + 1]
      /\ PendingBytes + MsgSize(m) <= BufferSize
  <2>1. MsgSize(m) \in Int /\ BufferSize \in Int /\ st[Len(pending) + 1] \in Int
    <3>1. Len(pending) + 1 \in 1..Len(pending) + 1
      BY <1>2 DEF DataTypeOK
    <3>2. st[Len(pending) + 1] \in 0..BufferSize
      BY <3>1 DEF Starts
    <3> HIDE DEF m
    <3> QED BY <1>2, <3>2, MessageSize, MboxAssumption
  <2>2. Space >= MsgSize(m)
    BY <1>1 DEF HasRoom
  <2> QED BY <1>4, <2>1, <2>2
<1> HIDE DEF m
<1>6. LaidOut' /\ DOMAIN buffer' = 0..BufferSize-1
  BY <1>1, <1>2, <1>3, <1>5, SendLaid
<1>7. pending' \in Seq(Messages) /\ Len(pending') = Len(pending) + 1
  BY <1>1, <1>2 DEF DataTypeOK
<1>8. head' \in 0..BufferSize-1
  <2>1. MsgSize(m) \in Nat /\ BufferSize \in Nat \ {0} /\ head \in Nat
    BY <1>2, MessageSize, MboxAssumption DEF DataTypeOK
  <2> QED BY <1>1, <2>1
<1>9. \A u \in Threads : u = t \/ op'[u] = op[u]
  BY <1>1, <1>2
<1>10. DataTypeOK'
  BY <1>1, <1>2, <1>6, <1>7, <1>8, <1>9 DEF DataTypeOK, m
<1>11. CountIs'
  BY <1>1, <1>2, <1>7 DEF CountIs
<1>12. UsedIs'
  <2>1. \A u \in Threads : HasOpen(u)' <=> HasOpen(u)
    BY <1>1, <1>2 DEF HasOpen
  <2> QED BY <1>1, <2>1 DEF UsedIs, Users, DInv
<1> QED BY <1>2, <1>5, <1>6, <1>10, <1>11, <1>12 DEF DInv, m

LEMMA DInvStep ==
  ASSUME MInv, DInv, NEW t \in Threads, Request(t) \/ Work(t)
  PROVE  DInv'
<1>1. CASE Request(t)
  BY <1>1, RequestData DEF MInv
<1>2. CASE Stat(t) \/ RecvWait(t) \/ SendWait(t)
  BY <1>2, QuietData DEF MInv
<1>3. CASE UNCHANGED mboxvars
  BY <1>3, QuietData DEF MInv
<1>4. CASE Open(t) \/ Close(t)
  BY <1>4, OpenData, CloseData
<1>5. CASE RecvDone(t) \/ SendDone(t)
  BY <1>5, DoneData
<1>6. CASE RecvCopy(t) \/ SendCopy(t)
  BY <1>6, RecvData, SendData
<1> QED BY <1>1, <1>2, <1>3, <1>4, <1>5, <1>6 DEF Work

LEMMA DInvInit == MboxInit => DInv
<1> SUFFICES ASSUME MboxInit PROVE DInv
  OBVIOUS
<1>1. /\ used = 0 /\ count = 0 /\ head = 0 /\ tail = 0 /\ pending = << >>
      /\ buffer = [b \in 0..BufferSize-1 |-> 0]
      /\ op = [t \in Threads |-> "closed"]
      /\ msg = [t \in Threads |-> << >>] /\ got = [t \in Threads |-> << >>]
  BY DEF MboxInit
<1>2. \A t \in Threads : op[t] = "closed"
  BY <1>1
<1>3. DataTypeOK
  BY <1>1, <1>2, MboxAssumption DEF DataTypeOK
<1>4. CountIs
  BY <1>1, <1>2 DEF CountIs
<1>5. UsedIs
  <2>1. Users = {}
    BY <1>2 DEF Users, HasOpen
  <2> QED BY <1>1, <2>1, FS_EmptySet DEF UsedIs
<1>6. LaidOut
  <2> DEFINE st == [i \in 1..1 |-> 0]
  <2>0. BufferSize \in Nat \ {0} /\ 0 % BufferSize = 0
    BY MboxAssumption
  <2>1. Len(pending) = 0
    BY <1>1
  <2>2. st \in Starts
    BY <2>0, <2>1 DEF Starts
  <2>3. Laid(st)
    BY <1>1, <2>0, <2>1 DEF Laid, Slot
  <2> QED BY <2>2, <2>3 DEF LaidOut
<1> QED BY <1>3, <1>4, <1>5, <1>6 DEF DInv

----------------------------------------------------------------------------
(* What is proved of the contents. *)
LEMMA DInvStutter ==
  ASSUME OpOK, DInv, UNCHANGED allvars
  PROVE  DInv'
<1>1. DataTypeOK' /\ CountIs' /\ LaidOut'
  BY LaidSame DEF DInv, DataTypeOK, CountIs, allvars, mboxvars
<1>2. UsedIs'
  <2>1. op' = op /\ used' = used
    BY DEF allvars, mboxvars
  <2>2. Users' = Users
    BY <2>1 DEF Users, HasOpen
  <2> QED BY <2>1, <2>2 DEF DInv, UsedIs
<1> QED BY <1>1, <1>2 DEF DInv

(* mbox_send and mbox_recv keep the unreceived messages in the buffer, one *)
(* behind the other from tail to head, and count and used count.           *)
THEOREM DInvariance == MboxSpec => [](MInv /\ DInv)
<1>1. MboxInit => MInv /\ DInv
  BY MInvInit, DInvInit DEF MboxInit
<1>2. MInv /\ DInv /\ [MboxNext]_allvars => (MInv /\ DInv)'
  <2> SUFFICES ASSUME MInv, DInv, [MboxNext]_allvars PROVE MInv' /\ DInv'
    OBVIOUS
  <2>1. CASE UNCHANGED allvars
    BY <2>1, MInvStutter, DInvStutter DEF MInv
  <2>2. CASE MboxNext
    <3>1. PICK t \in Threads : Request(t) \/ Work(t)
      BY <2>2 DEF MboxNext
    <3>2. Calls(t) \/ Work(t)
      BY <3>1 DEF Request, Calls
    <3> QED BY <3>1, <3>2, MInvStep, DInvStep
  <2> QED BY <2>1, <2>2
<1> QED BY <1>1, <1>2, PTL DEF MboxSpec

(* Without the lock no operation is under way. *)
LEMMA NoneUnderWay ==
  ASSUME MInv, Unlocked
  PROVE  \A t \in Threads : ~Owns(t) /\ op[t] \notin {"sent", "recvd"}
<1>1. \A t \in Threads : ~Owns(t)
  BY DEF MInv, Inv, MutualExclusion, Unlocked
<1> QED BY <1>1 DEF MInv, OpOK, Owns, Signalling, Broadcasting

(* mbox_send, mbox_recv, mbox_open, mbox_close: whenever the lock is free  *)
(* count is the number of messages, space_available is what they leave     *)
(* over, and used is the number of users. *)
THEOREM AccountingCorrect == MboxSpec => []AccountingExact
<1>1. MInv /\ DInv => AccountingExact
  <2> SUFFICES ASSUME MInv, DInv, Unlocked
               PROVE  /\ count = Len(pending) /\ Space = BufferSize - PendingBytes
                      /\ used = Cardinality(Users)
    BY DEF AccountingExact
  <2>1. count = Len(pending)
    BY NoneUnderWay DEF DInv, CountIs
  <2>2. PICK st \in Starts : Laid(st)
    BY DEF DInv, LaidOut
  <2>3. Space = BufferSize - st[Len(pending) + 1] /\ PendingBytes = st[Len(pending) + 1]
    BY <2>1, <2>2, SpaceLeft, LaidBytes DEF DInv
  <2> QED BY <2>1, <2>3 DEF DInv, UsedIs
<1> QED BY <1>1, DInvariance, PTL

(* Each step is one of the queue's or leaves it as it was. *)
LEMMA QueueUnchanged ==
  ASSUME \A u \in Threads : HasOpen(u)' <=> HasOpen(u), UNCHANGED <<pending, got>>
  PROVE  UNCHANGED Queue!qvars
<1>1. Users' = Users
  BY DEF Users
<1> QED BY <1>1 DEF Queue!qvars

LEMMA QueueOpens ==
  ASSUME MInv, DInv, NEW t \in Threads, Open(t)
  PROVE  Queue!Open(t)
<1>1. /\ op[t] = "opening" /\ op' = [op EXCEPT ![t] = "idle"] /\ got' = got
      /\ op \in [Threads -> Ops] /\ used = Cardinality(Users)
      /\ IF used = 0 THEN pending' = << >> ELSE pending' = pending
  BY DEF Open, InOp, Become, MInv, OpOK, DInv, UsedIs
<1>2. Users' = Users \cup {t} /\ t \notin Users
  BY <1>1 DEF Users, HasOpen
<1>3. used = 0 <=> Users = {}
  BY <1>1, UsersFinite, FS_EmptySet
<1> QED BY <1>1, <1>2, <1>3 DEF Queue!Open

LEMMA QueueCloses ==
  ASSUME MInv, NEW t \in Threads, Close(t)
  PROVE  Queue!Close(t)
<1>1. /\ op[t] = "closing" /\ op' = [op EXCEPT ![t] = "closed"] /\ op \in [Threads -> Ops]
      /\ got' = got /\ pending' = pending
  BY DEF Close, InOp, Become, MInv, OpOK
<1>2. Users' = Users \ {t} /\ t \in Users
  BY <1>1 DEF Users, HasOpen
<1> QED BY <1>1, <1>2 DEF Queue!Close

LEMMA QueuePuts ==
  ASSUME MInv, DInv, NEW t \in Threads, SendCopy(t)
  PROVE  \E m \in Messages : Queue!Put(t, m)
<1>1. msg[t] \in Messages /\ PendingBytes + MsgSize(msg[t]) <= BufferSize
  BY SendData
<1>2. /\ op[t] = "send" /\ op' = [op EXCEPT ![t] = "sent"] /\ op \in [Threads -> Ops]
      /\ got' = got /\ pending' = Append(pending, msg[t])
  BY DEF SendCopy, InOp, Become, MInv, OpOK
<1>3. Users' = Users /\ t \in Users
  BY <1>2 DEF Users, HasOpen
<1>4. Queue!BytesOf(msg[t]) = MsgSize(msg[t])
  BY DEF Queue!BytesOf, MsgSize
<1>5. Queue!Put(t, msg[t])
  BY <1>1, <1>2, <1>3, <1>4 DEF Queue!Put, PendingBytes
<1> QED BY <1>1, <1>5

LEMMA QueueGets ==
  ASSUME MInv, DInv, NEW t \in Threads, RecvCopy(t)
  PROVE  Queue!Get(t)
<1>1. pending # << >> /\ Received = pending[1] /\ pending \in Seq(Messages)
  BY RecvData DEF DInv, DataTypeOK
<1>2. /\ op[t] = "recv" /\ op' = [op EXCEPT ![t] = "recvd"] /\ op \in [Threads -> Ops]
      /\ got' = [got EXCEPT ![t] = Received] /\ pending' = Tail(pending)
  BY DEF RecvCopy, InOp, Become, MInv, OpOK
<1>3. Users' = Users /\ t \in Users
  BY <1>2 DEF Users, HasOpen
<1>4. Head(pending) = pending[1]
  BY <1>1
<1> QED BY <1>1, <1>2, <1>3, <1>4 DEF Queue!Get

LEMMA QueueDoes ==
  ASSUME MInv, DInv, NEW t \in Threads, Request(t) \/ Work(t)
  PROVE  Queue!Next \/ UNCHANGED Queue!qvars
<1>0. op \in [Threads -> Ops]
  BY DEF MInv, OpOK
<1>1. CASE Request(t)
  <2>1. /\ UNCHANGED <<pending, got>>
        /\ \/ op[t] = "closed" /\ op' = [op EXCEPT ![t] = "opening"]
           \/ op[t] = "idle" /\ \E o \in {"closing", "stat", "recv", "send"} :
                                   op' = [op EXCEPT ![t] = o]
    BY <1>1 DEF Request, Start, StartOpen, StartClose, StartStat, StartRecv, StartSend, Become
  <2>2. \A u \in Threads : HasOpen(u)' <=> HasOpen(u)
    BY <1>0, <2>1 DEF HasOpen
  <2> QED BY <2>1, <2>2, QueueUnchanged
<1>2. CASE Stat(t) \/ RecvWait(t) \/ SendWait(t) \/ RecvDone(t) \/ SendDone(t)
  <2>1. /\ UNCHANGED <<pending, got>>
        /\ \/ op' = op
           \/ op[t] \in {"stat", "recvd", "sent"} /\ op' = [op EXCEPT ![t] = "idle"]
    BY <1>2 DEF Stat, RecvWait, SendWait, RecvDone, SendDone, InOp, Become, mboxvars
  <2>2. \A u \in Threads : HasOpen(u)' <=> HasOpen(u)
    BY <1>0, <2>1 DEF HasOpen
  <2> QED BY <2>1, <2>2, QueueUnchanged
<1>3. CASE UNCHANGED mboxvars
  <2>1. UNCHANGED <<pending, got, op>>
    BY <1>3 DEF mboxvars
  <2>2. \A u \in Threads : HasOpen(u)' <=> HasOpen(u)
    BY <2>1 DEF HasOpen
  <2> QED BY <2>1, <2>2, QueueUnchanged
<1>4. CASE Open(t)
  BY <1>4, QueueOpens DEF Queue!Next
<1>5. CASE Close(t)
  BY <1>5, QueueCloses DEF Queue!Next
<1>6. CASE SendCopy(t)
  BY <1>6, QueuePuts DEF Queue!Next
<1>7. CASE RecvCopy(t)
  BY <1>7, QueueGets DEF Queue!Next
<1> QED BY <1>1, <1>2, <1>3, <1>4, <1>5, <1>6, <1>7 DEF Work

(* mbox.c implements MessageQueue: through its header, its circular buffer *)
(* and its two counters a mailbox is a bounded queue of whole messages.    *)
THEOREM ImplementsQueue == MboxSpec => QueueSpec
<1>1. MboxInit => Queue!Init
  <2> SUFFICES ASSUME MboxInit PROVE Queue!Init
    OBVIOUS
  <2>1. pending = << >> /\ got = [t \in Threads |-> << >>] /\ \A t \in Threads : op[t] = "closed"
    BY DEF MboxInit
  <2>2. Users = {}
    BY <2>1 DEF Users, HasOpen
  <2> QED BY <2>1, <2>2 DEF Queue!Init
<1>2. MInv /\ DInv /\ [MboxNext]_allvars => [Queue!Next]_(Queue!qvars)
  <2> SUFFICES ASSUME MInv, DInv, [MboxNext]_allvars
               PROVE  Queue!Next \/ UNCHANGED Queue!qvars
    OBVIOUS
  <2>1. CASE UNCHANGED allvars
    <3>1. UNCHANGED <<pending, got, op>>
      BY <2>1 DEF allvars, mboxvars
    <3>2. \A u \in Threads : HasOpen(u)' <=> HasOpen(u)
      BY <3>1 DEF HasOpen
    <3> QED BY <3>1, <3>2, QueueUnchanged
  <2>2. CASE MboxNext
    BY <2>2, QueueDoes DEF MboxNext
  <2> QED BY <2>1, <2>2
<1> QED BY <1>1, <1>2, DInvariance, PTL DEF MboxSpec, QueueSpec, Queue!Spec

----------------------------------------------------------------------------
(* Senders and the space they wait for.                                    *)
Waits(t) ==
  \/ Queued(t, moreSpace) \/ GoingToSleep(t, moreSpace)
  \/ pc[t] \in LettingGo /\ arg[t] = moreSpace

(* t has taken a message out and is telling the senders, ... *)
Waking(t) == op[t] = "recvd" /\ pc[t] \in Broadcasting

(* ... or has told them all. *)
Woken(t)  == op[t] = "recvd" /\ pc[t] \in {"wake_free", "in"}

(* t is in condition_wait for space. *)
InWait(t) ==
  /\ pc[t] \in LettingGo \cup {"rel_free", "wait_block", "wait_blocked"}
  /\ arg[t] = moreSpace

(* Whoever waits for space has none for its message, except while it is    *)
(* being told of new space.                                                *)
SendersWait ==
  /\ \A t \in Threads : InWait(t) => op[t] = "send"
  /\ (\A u \in Threads : ~Waking(u)) =>
       \A t \in Threads : Waits(t) => BufferSize - PendingBytes < MsgSize(msg[t])
  /\ (\E u \in Threads : Woken(u)) => \A t \in Threads : ~Waits(t)

LEMMA WaitersSend ==
  ASSUME MInv, SendersWait, NEW t \in Threads, Waits(t)
  PROVE  InWait(t) /\ op[t] = "send"
<1>1. Queued(t, moreSpace) => pc[t] = "wait_blocked" /\ arg[t] = moreSpace
  BY Distinct, MonitorAssumption DEF MInv, Inv, BlockedIffQueued
<1>2. InWait(t)
  BY <1>1 DEF Waits, GoingToSleep, InWait
<1> QED BY <1>2 DEF SendersWait

(* The owner of the lock waits for nothing. *)
LEMMA OwnerWaitsNot ==
  ASSUME MInv, NEW t \in Threads, pc[t] = "in"
  PROVE  ~Waits(t) /\ ~InWait(t)
<1>1. ~Queued(t, moreSpace)
  BY Distinct, MonitorAssumption DEF MInv, Inv, BlockedIffQueued
<1> QED BY <1>1 DEF Waits, GoingToSleep, LettingGo, InWait

(* Inside thread.c nobody begins to wait. *)
LEMMA NoNewWaiter ==
  ASSUME MInv, NEW t \in Threads, Step(t), NEW u \in Threads
  PROVE  (Waits(u)' => Waits(u)) /\ (InWait(u)' => InWait(u))
<1>1. TypeOK /\ ArgOK /\ TestedStillHolds /\ OnlyMoves(t)
  BY NextMoves DEF MInv, Inv
<1>2. moreSpace \in Queues /\ moreSpace \in Conds /\ moreSpace # NoCond /\ moreSpace # Mutex
  BY Distinct, MonitorAssumption
<1>3. waiting \in [Queues -> Seq(Threads)] /\ waiting[moreSpace] \in Seq(Threads)
  BY <1>1, <1>2 DEF TypeOK
<1>4. InWait(t)' => InWait(t)
  <2>1. CASE LockStep(t)
    BY <1>1, <1>2, <2>1 DEF TypeOK, InWait, LettingGo, LockStep, At, Goto,
      AcquireSpin, AcquireTest, AcquireTake, AcquireReturn, AcquireBlock, AcquireResume,
      ReleaseSpin, ReleaseTest, ReleaseFree, ReleaseHandOff, ReleaseReturn
  <2>2. CASE CondStep(t)
    BY <1>1, <1>2, <2>2 DEF TypeOK, InWait, LettingGo, CondStep, At, Goto,
      WaitSpin, WaitBlock, WaitResume, SignalSpin, SignalTest, SignalWake,
      BroadcastSpin, BroadcastTest, BroadcastWake, WakeReturn
  <2> QED BY <2>1, <2>2 DEF Step
<1>5. pc'[t] \in LettingGo \cup {"rel_free", "wait_block"} => pc[t] # "wait_blocked"
  BY <1>1 DEF TypeOK, LettingGo, Step, LockStep, CondStep, At, Goto,
      AcquireSpin, AcquireTest, AcquireTake, AcquireReturn, AcquireBlock, AcquireResume,
      ReleaseSpin, ReleaseTest, ReleaseFree, ReleaseHandOff, ReleaseReturn,
      WaitSpin, WaitBlock, WaitResume, SignalSpin, SignalTest, SignalWake,
      BroadcastSpin, BroadcastTest, BroadcastWake, WakeReturn
<1>6. \/ waiting'[moreSpace] = waiting[moreSpace]
      \/ waiting[moreSpace] # << >> /\ waiting'[moreSpace] = Tail(waiting[moreSpace])
      \/ waiting'[moreSpace] = Append(waiting[moreSpace], t) /\ GoingToSleep(t, moreSpace)
  <2>1. CASE LockStep(t)
    BY <1>2, <1>3, <2>1 DEF LockStep, At, Block, Unblock, Queues,
      AcquireSpin, AcquireTest, AcquireTake, AcquireReturn, AcquireBlock, AcquireResume,
      ReleaseSpin, ReleaseTest, ReleaseFree, ReleaseHandOff, ReleaseReturn
  <2>2. CASE WaitBlock(t)
    <3>1. pc[t] = "wait_block" /\ waiting' = [waiting EXCEPT ![arg[t]] = Append(@, t)]
      BY <2>2 DEF WaitBlock, Block, At
    <3> QED BY <1>3, <1>2, <3>1 DEF GoingToSleep
  <2>3. CASE SignalWake(t) \/ BroadcastWake(t)
    <3>1. /\ pc[t] \in {"sig_wake", "bc_wake"} /\ waiting[arg[t]] # << >>
          /\ waiting' = [waiting EXCEPT ![arg[t]] = Tail(@)]
      BY <1>1, <2>3 DEF SignalWake, BroadcastWake, Unblock, At, TestedStillHolds
    <3> QED BY <1>3, <1>2, <3>1
  <2>4. CASE WaitSpin(t) \/ WaitResume(t) \/ SignalSpin(t) \/ SignalTest(t)
             \/ BroadcastSpin(t) \/ BroadcastTest(t) \/ WakeReturn(t)
    BY <2>4 DEF WaitSpin, WaitResume, SignalSpin, SignalTest,
      BroadcastSpin, BroadcastTest, WakeReturn
  <2> QED BY <2>1, <2>2, <2>3, <2>4 DEF Step, CondStep
<1>7. Queued(u, moreSpace)' => Queued(u, moreSpace) \/ (u = t /\ GoingToSleep(t, moreSpace))
  <2>1. CASE waiting'[moreSpace] = Append(waiting[moreSpace], t) /\ GoingToSleep(t, moreSpace)
    <3>1. Occurs(Append(waiting[moreSpace], t), u) <=> Occurs(waiting[moreSpace], u) \/ u = t
      BY <1>3, AppendOccurs
    <3> QED BY <2>1, <3>1 DEF Queued, Occurs
  <2>2. CASE waiting[moreSpace] # << >> /\ waiting'[moreSpace] = Tail(waiting[moreSpace])
    <3>1. Occurs(waiting[moreSpace], Head(waiting[moreSpace]))
          /\ (u # Head(waiting[moreSpace]) =>
                (Occurs(Tail(waiting[moreSpace]), u) <=> Occurs(waiting[moreSpace], u)))
      BY <1>3, <2>2, TailOccurs
    <3>2. u = Head(waiting[moreSpace]) => Occurs(waiting[moreSpace], u)
      BY <3>1
    <3>3. Occurs(Tail(waiting[moreSpace]), u) => Occurs(waiting[moreSpace], u)
      BY <3>1, <3>2
    <3> QED BY <2>2, <3>3 DEF Queued, Occurs
  <2>3. CASE waiting'[moreSpace] = waiting[moreSpace]
    BY <2>3 DEF Queued
  <2> QED BY <1>6, <2>1, <2>2, <2>3
<1>8. CASE u = t
  BY <1>4, <1>5, <1>7, <1>8 DEF Waits, GoingToSleep, InWait
<1>9. CASE u # t
  <2>1. pc'[u] = pc[u] /\ arg'[u] = arg[u]
    BY <1>1, <1>9 DEF OnlyMoves
  <2> QED BY <1>7, <1>9, <2>1 DEF Waits, GoingToSleep, InWait
<1> QED BY <1>8, <1>9

(* condition_broadcast ends when nobody is in the list, and nobody is on   *)
(* the way to it, as the spinlock and the lock are held.                   *)
LEMMA BroadcastEnds ==
  ASSUME MInv, NEW t \in Threads, pc[t] = "bc_test", waiting[moreSpace] = << >>
  PROVE  \A u \in Threads : ~Waits(u)
<1> SUFFICES ASSUME NEW u \in Threads, Waits(u) PROVE FALSE
  OBVIOUS
<1>1. arg[t] = moreSpace /\ op[t] = "recvd" /\ Owns(t)
  BY DEF MInv, OpOK, Broadcasting, Owns
<1>2. ~Queued(u, moreSpace)
  BY DEF Queued
<1>3. u # t
  BY <1>1, <1>2 DEF Waits, GoingToSleep, LettingGo
<1>4. ~GoingToSleep(u, moreSpace)
  BY <1>1, <1>3, Distinct DEF MInv, Inv, SpinlockExclusion, HasSpinlock, GoingToSleep
<1>5. pc[u] \notin LettingGo
  BY <1>1, <1>3, OwnerAlone DEF MInv
<1> QED BY <1>2, <1>4, <1>5 DEF Waits

LEMMA StepSenders ==
  ASSUME MInv, MInv', SendersWait, NEW t \in Threads, Step(t), UNCHANGED mboxvars
  PROVE  SendersWait'
<1>1. op' = op /\ msg' = msg /\ pending' = pending
  BY DEF mboxvars
<1>2. PendingBytes' = PendingBytes
  BY <1>1 DEF PendingBytes
<1>3. TypeOK /\ OnlyMoves(t)
  BY NextMoves DEF MInv, Inv
<1>4. \A u \in Threads : (Waits(u)' => Waits(u)) /\ (InWait(u)' => InWait(u))
  BY NoNewWaiter
<1>5. \A u \in Threads : InWait(u)' => op'[u] = "send"
  BY <1>1, <1>4 DEF SendersWait
<1>6. \A u \in Threads : u # t => (Waking(u)' <=> Waking(u)) /\ (Woken(u)' <=> Woken(u))
  BY <1>1, <1>3 DEF OnlyMoves, Waking, Woken
(* t goes on telling, or has told all *)
<1>7. CASE op[t] = "recvd" /\ pc[t] = "bc_test" /\ waiting[moreSpace] = << >>
  <2>1. \A u \in Threads : ~Waits(u)'
    BY <1>4, <1>7, BroadcastEnds
  <2> QED BY <1>5, <2>1 DEF SendersWait
<1>8. CASE ~(op[t] = "recvd" /\ pc[t] = "bc_test" /\ waiting[moreSpace] = << >>)
  <2>1. (Waking(t)' <=> Waking(t)) /\ (Woken(t)' <=> Woken(t))
    <3>1. op[t] = "recvd" => arg[t] = moreSpace \/ pc[t] \notin Broadcasting
      BY DEF MInv, OpOK
    <3>2. op[t] = "recvd" => pc[t] \in Broadcasting \cup {"wake_free", "in"}
      BY DEF MInv, OpOK
    <3>3. CASE op[t] # "recvd"
      BY <1>1, <3>3 DEF Waking, Woken
    <3>4. CASE op[t] = "recvd"
      <4>1. \/ pc[t] \in Broadcasting /\ pc'[t] \in Broadcasting
            \/ pc[t] = "wake_free" /\ pc'[t] = "in"
        BY <1>3, <1>8, <3>1, <3>2, <3>4 DEF TypeOK, Broadcasting, Step, LockStep, CondStep,
          At, Goto,
          AcquireSpin, AcquireTest, AcquireTake, AcquireReturn, AcquireBlock, AcquireResume,
          ReleaseSpin, ReleaseTest, ReleaseFree, ReleaseHandOff, ReleaseReturn,
          WaitSpin, WaitBlock, WaitResume, SignalSpin, SignalTest, SignalWake,
          BroadcastSpin, BroadcastTest, BroadcastWake, WakeReturn
      <4> QED BY <1>1, <3>4, <4>1 DEF Waking, Woken, Broadcasting
    <3> QED BY <3>3, <3>4
  <2>2. \A u \in Threads : (Waking(u)' <=> Waking(u)) /\ (Woken(u)' <=> Woken(u))
    BY <1>6, <2>1
  <2>3. (\A u \in Threads : ~Waking(u)') =>
          \A u \in Threads : Waits(u)' => BufferSize - PendingBytes' < MsgSize(msg'[u])
    BY <1>1, <1>2, <1>4, <2>2 DEF SendersWait
  <2>4. (\E u \in Threads : Woken(u)') => \A u \in Threads : ~Waits(u)'
    BY <1>4, <2>2 DEF SendersWait
  <2> QED BY <1>5, <2>3, <2>4 DEF SendersWait
<1> QED BY <1>7, <1>8

(* With nobody telling before or after the step, who waits after it must   *)
(* have waited in vain before it and find no more space.                   *)
LEMMA SendersKept ==
  ASSUME MInv, SendersWait, NEW t \in Threads,
         \A u \in Threads : ~Waking(u) /\ ~Woken(u)',
         \A u \in Threads : u # t => (Waits(u)' => Waits(u)) /\ (InWait(u)' => InWait(u)),
         \A u \in Threads : u # t => op'[u] = op[u] /\ msg'[u] = msg[u],
         InWait(t)' => op'[t] = "send",
         Waits(t)' => BufferSize - PendingBytes' < MsgSize(msg'[t]),
         \A u \in Threads :
           u # t /\ Waits(u) /\ op[u] = "send" /\ BufferSize - PendingBytes < MsgSize(msg[u])
             => BufferSize - PendingBytes' < MsgSize(msg[u])
  PROVE  SendersWait'
<1>1. \A u \in Threads : InWait(u)' => op'[u] = "send"
  BY DEF SendersWait
<1>2. ASSUME NEW u \in Threads, u # t, Waits(u)'
      PROVE  BufferSize - PendingBytes' < MsgSize(msg'[u])
  <2>1. Waits(u) /\ msg'[u] = msg[u]
    BY <1>2
  <2>2. op[u] = "send"
    BY <2>1, WaitersSend
  <2>3. BufferSize - PendingBytes < MsgSize(msg[u])
    BY <2>1 DEF SendersWait
  <2> QED BY <1>2, <2>1, <2>2, <2>3
<1> QED BY <1>1, <1>2 DEF SendersWait

LEMMA RequestSenders ==
  ASSUME MInv, DInv, SendersWait, NEW t \in Threads, Request(t)
  PROVE  SendersWait'
<1>1. /\ TypeOK /\ OnlyMoves(t)
      /\ op \in [Threads -> Ops] /\ msg \in [Threads -> Messages \cup {<< >>}]
  <2>1. Calls(t)
    BY DEF Request, Calls
  <2> QED BY <2>1, FollowsRules, NextMoves DEF MInv, Inv, OpOK, DInv, DataTypeOK
<1>2. /\ pc'[t] = "acq_spin" /\ pc[t] = "out" /\ waiting' = waiting /\ pending' = pending
      /\ op[t] \in {"closed", "idle"} /\ op'[t] \in {"opening", "closing", "stat", "recv", "send"}
      /\ \A u \in Threads : u # t => op'[u] = op[u] /\ msg'[u] = msg[u]
  BY <1>1 DEF Request, Start, StartOpen, StartClose, StartStat, StartRecv, StartSend,
    CallAcquire, Call, At, Goto, Become, TypeOK
<1>3. PendingBytes' = PendingBytes
  BY <1>2 DEF PendingBytes
<1>4. ~Waits(t) /\ ~Waits(t)' /\ ~InWait(t)' /\ ~Waking(t) /\ ~Waking(t)' /\ ~Woken(t)'
  <2>1. ~Queued(t, moreSpace)
    BY <1>2, Distinct, MonitorAssumption DEF MInv, Inv, BlockedIffQueued
  <2> QED BY <1>2, <2>1 DEF Waits, Queued, GoingToSleep, LettingGo, InWait,
    Waking, Woken, Broadcasting
<1>5. \A u \in Threads : u # t =>
        /\ (Waits(u)' <=> Waits(u)) /\ (InWait(u)' <=> InWait(u))
        /\ (Waking(u)' <=> Waking(u)) /\ (Woken(u)' <=> Woken(u))
  BY <1>1, <1>2 DEF OnlyMoves, Waits, Queued, GoingToSleep, InWait, Waking, Woken
<1>6. \A u \in Threads : InWait(u)' => op'[u] = "send"
  BY <1>2, <1>4, <1>5 DEF SendersWait
<1>7. (\A u \in Threads : ~Waking(u)') =>
        \A u \in Threads : Waits(u)' => BufferSize - PendingBytes' < MsgSize(msg'[u])
  <2>1. (\A u \in Threads : ~Waking(u)') => \A u \in Threads : ~Waking(u)
    BY <1>4, <1>5
  <2> SUFFICES ASSUME \A u \in Threads : ~Waking(u)', NEW u \in Threads, Waits(u)'
               PROVE  BufferSize - PendingBytes' < MsgSize(msg'[u])
    OBVIOUS
  <2>2. Waits(u) /\ msg'[u] = msg[u]
    BY <1>2, <1>4, <1>5
  <2>3. BufferSize - PendingBytes < MsgSize(msg[u])
    BY <2>1, <2>2 DEF SendersWait
  <2> QED BY <1>3, <2>2, <2>3
<1>8. (\E u \in Threads : Woken(u)') => \A u \in Threads : ~Waits(u)'
  BY <1>4, <1>5 DEF SendersWait
<1> QED BY <1>6, <1>7, <1>8 DEF SendersWait

LEMMA PutBytes ==
  ASSUME DInv, NEW m \in Messages
  PROVE  /\ Queue!Bytes(Append(pending, m)) = PendingBytes + MsgSize(m)
         /\ PendingBytes \in 0..BufferSize
<1>1. PICK st \in Starts : Laid(st)
  BY DEF DInv, LaidOut
<1>2. PICK n, s, d, q : n = Len(pending) /\ s = st[n+1] /\ d = MsgSize(m) /\ q = Append(pending, m)
  OBVIOUS
<1>3. pending \in Seq(Messages) /\ n \in Nat /\ n + 1 \in 1..n+1
  BY <1>2 DEF DInv, DataTypeOK
<1>4. /\ q \in Seq(Messages) /\ Len(q) = n + 1 /\ q[n+1] = m
      /\ \A i \in 1..n : q[i] = pending[i]
  BY <1>2, <1>3
<1>5. st[1] = 0 /\ \A i \in 1..n : st[i+1] = st[i] + MsgSize(pending[i])
  BY <1>1, <1>2 DEF Laid
<1>6. PendingBytes = s /\ s \in 0..BufferSize
  <2>1. st \in [1..n+1 -> 0..BufferSize]
    BY <1>2 DEF Starts
  <2> QED BY <1>1, <1>2, <1>3, <2>1, LaidBytes DEF DInv
<1>7. PICK f : f = [i \in 0..n+1 |-> IF i = n + 1 THEN s + d ELSE st[i+1]]
  OBVIOUS
<1>8. DOMAIN f = 0..n+1 /\ f[n+1] = s + d /\ f[n] = s /\ f[0] = 0
  BY <1>2, <1>3, <1>5, <1>7
<1>9. \A i \in 1..n+1 : f[i] = f[i-1] + MsgSize(q[i])
  <2> TAKE i \in 1..n+1
  <2>1. CASE i = n + 1
    <3>1. i - 1 = n
      BY <1>3, <2>1
    <3> QED BY <1>2, <1>4, <1>8, <2>1, <3>1
  <2>2. CASE i # n + 1
    <3>1. i \in 1..n /\ i \in 0..n+1 /\ i - 1 \in 0..n+1 /\ i - 1 # n + 1 /\ (i - 1) + 1 = i
      BY <1>3, <2>2
    <3>2. f[i] = st[i+1] /\ f[i-1] = st[i]
      BY <1>7, <2>2, <3>1
    <3> QED BY <1>4, <1>5, <3>1, <3>2
  <2> QED BY <2>1, <2>2
<1>10. Queue!Bytes(q) = f[n+1]
  BY <1>4, <1>8, <1>9, BytesAre
<1> QED BY <1>2, <1>6, <1>8, <1>10

LEMMA WorkSenders ==
  ASSUME MInv, MInv', DInv, SendersWait, NEW t \in Threads,
         \/ Open(t) \/ Close(t) \/ Stat(t) \/ RecvWait(t) \/ RecvCopy(t) \/ RecvDone(t)
         \/ SendWait(t) \/ SendCopy(t) \/ SendDone(t)
  PROVE  SendersWait'
<1>1. /\ TypeOK /\ OnlyMoves(t)
      /\ op \in [Threads -> Ops] /\ msg \in [Threads -> Messages \cup {<< >>}]
  BY FollowsRules, NextMoves DEF MInv, Inv, OpOK, Work, DInv, DataTypeOK
<1>2. /\ pc[t] = "in" /\ waiting' = waiting /\ Owns(t)
      /\ pc'[t] \in {"rel_spin", "wait_spin", "sig_spin", "bc_spin"}
      /\ \A u \in Threads : u # t => op'[u] = op[u] /\ msg'[u] = msg[u]
  BY <1>1 DEF Open, Close, Stat, RecvWait, RecvCopy, RecvDone, SendWait, SendCopy, SendDone,
    InOp, At, Goto, Become, Owns, Call, CallRelease, CallWait, CallSignal, CallBroadcast,
    TypeOK, mboxvars
<1>3. /\ \A u \in Threads : u # t => op[u] # "recvd"
      /\ \A u \in Threads : ~Waking(u)
  BY <1>2, OwnerAlone DEF MInv, Waking, Broadcasting
<1>4. \A u \in Threads : ~Woken(u)'
  BY <1>2, <1>3 DEF Woken
<1>5. ~Queued(t, moreSpace)' /\ ~Waits(t)
  <2>1. ~Queued(t, moreSpace) /\ ~Waits(t)
    BY <1>2, OwnerWaitsNot DEF Waits
  <2> QED BY <1>2, <2>1 DEF Queued
<1>6. \A u \in Threads : u # t => (Waits(u)' <=> Waits(u)) /\ (InWait(u)' <=> InWait(u))
  BY <1>1, <1>2 DEF OnlyMoves, Waits, Queued, GoingToSleep, InWait
<1>7. CASE RecvCopy(t)
  <2>1. op'[t] = "recvd" /\ pc'[t] = "bc_spin"
    BY <1>1, <1>7 DEF RecvCopy, Become, CallBroadcast, Call, Goto, TypeOK
  <2>2. Waking(t)' /\ ~InWait(t)'
    BY <2>1 DEF Waking, InWait, Broadcasting, LettingGo
  <2>3. \A u \in Threads : InWait(u)' => op'[u] = "send"
    BY <1>2, <1>6, <2>2 DEF SendersWait
  <2> QED BY <1>4, <2>2, <2>3 DEF SendersWait
<1>8. CASE SendWait(t)
  <2>1. /\ InOp(t, "send") /\ op[t] = "send" /\ ~HasRoom(msg[t])
        /\ op' = op /\ msg' = msg /\ pending' = pending
    BY <1>8 DEF SendWait, InOp, mboxvars
  <2>2. count = Len(pending)
    BY <2>1, BeforeCopy
  <2>3. PICK st \in Starts : Laid(st)
    BY DEF DInv, LaidOut
  <2>4. Space = BufferSize - PendingBytes /\ msg[t] \in Messages
    BY <2>1, <2>2, <2>3, SpaceLeft, LaidBytes DEF DInv, DataTypeOK
  <2>5. BufferSize - PendingBytes < MsgSize(msg[t])
    <3>1. PendingBytes \in Int /\ MsgSize(msg[t]) \in Int /\ BufferSize \in Int
      BY <2>4, PutBytes, MessageSize, MboxAssumption
    <3> QED BY <2>1, <2>4, <3>1 DEF HasRoom
  <2>6. PendingBytes' = PendingBytes
    BY <2>1 DEF PendingBytes
  <2> QED BY <1>2, <1>3, <1>4, <1>6, <2>1, <2>5, <2>6, SendersKept
<1>9. CASE ~RecvCopy(t) /\ ~SendWait(t)
  <2>1. ~InWait(t)' /\ ~Waits(t)'
    <3>1. \/ arg'[t] # moreSpace
          \/ pc'[t] \in {"sig_spin", "bc_spin"}
      BY <1>1, <1>9, Distinct DEF Open, Close, Stat, RecvWait, RecvDone, SendCopy, SendDone,
        InOp, At, Goto, Call, CallRelease, CallWait, CallSignal, CallBroadcast, TypeOK
    <3> QED BY <1>5, <3>1 DEF InWait, Waits, GoingToSleep, LettingGo
  <2>2. CASE Open(t)
    <3>1. op[t] = "opening"
      BY <2>2 DEF Open, InOp
    <3>2. CASE used = 0
      <4>1. Users = {}
        BY <3>2, UsersFinite, FS_EmptySet DEF DInv, UsedIs
      <4>2. \A u \in Threads : op[u] # "send"
        BY <4>1 DEF Users, HasOpen
      <4> QED BY <1>2, <1>3, <1>4, <1>6, <2>1, <4>2, SendersKept
    <3>3. CASE used # 0
      <4>1. PendingBytes' = PendingBytes
        BY <2>2, <3>3 DEF Open, PendingBytes
      <4> QED BY <1>2, <1>3, <1>4, <1>6, <2>1, <4>1, SendersKept
    <3> QED BY <3>2, <3>3
  <2>3. CASE SendCopy(t)
    <3>1. msg[t] \in Messages /\ pending' = Append(pending, msg[t])
      BY <2>3, SendData DEF SendCopy
    <3>2. /\ PendingBytes' = PendingBytes + MsgSize(msg[t])
          /\ PendingBytes \in 0..BufferSize /\ MsgSize(msg[t]) \in Nat
          /\ BufferSize \in Nat
      BY <3>1, PutBytes, MessageSize, MboxAssumption DEF PendingBytes
    <3>3. \A u \in Threads : op[u] = "send" => MsgSize(msg[u]) \in Nat
      BY MessageSize DEF DInv, DataTypeOK
    <3>4. \A u \in Threads : op[u] = "send" /\ BufferSize - PendingBytes < MsgSize(msg[u])
                                => BufferSize - PendingBytes' < MsgSize(msg[u])
      BY <3>2, <3>3
    <3> QED BY <1>2, <1>3, <1>4, <1>6, <2>1, <3>4, SendersKept
  <2>4. CASE ~Open(t) /\ ~SendCopy(t)
    <3>1. pending' = pending
      BY <1>9, <2>4 DEF Close, Stat, RecvWait, RecvDone, SendDone, mboxvars
    <3>2. PendingBytes' = PendingBytes
      BY <3>1 DEF PendingBytes
    <3> QED BY <1>2, <1>3, <1>4, <1>6, <2>1, <3>2, SendersKept
  <2> QED BY <2>2, <2>3, <2>4
<1> QED BY <1>7, <1>8, <1>9

LEMMA SendersStutter ==
  ASSUME SendersWait, UNCHANGED allvars
  PROVE  SendersWait'
BY DEF SendersWait, InWait, Waits, Waking, Woken, Queued, GoingToSleep, PendingBytes,
  allvars, vars, mboxvars

LEMMA SendersInit == MboxInit => SendersWait
<1> SUFFICES ASSUME MboxInit PROVE SendersWait
  OBVIOUS
<1>1. \A t \in Threads : pc[t] = "out" /\ op[t] = "closed"
  BY DEF MboxInit, Init
<1>2. waiting[moreSpace] = << >>
  BY Distinct DEF MboxInit, Init
<1>3. \A t \in Threads : ~Queued(t, moreSpace)
  BY <1>2 DEF Queued
<1> QED BY <1>1, <1>3 DEF SendersWait, InWait, Waits, GoingToSleep, LettingGo, Woken

(* mbox_send and the broadcast of mbox_recv: whoever waits for space has   *)
(* none, except while it is being told.                                    *)
THEOREM SendersInvariance == MboxSpec => []SendersWait
<1>1. MInv /\ DInv /\ SendersWait /\ [MboxNext]_allvars /\ MInv' => SendersWait'
  <2> SUFFICES ASSUME MInv, DInv, SendersWait, [MboxNext]_allvars, MInv' PROVE SendersWait'
    OBVIOUS
  <2>1. CASE UNCHANGED allvars
    BY <2>1, SendersStutter
  <2>2. CASE MboxNext
    <3>1. PICK t \in Threads : Request(t) \/ Work(t)
      BY <2>2 DEF MboxNext
    <3>2. CASE Request(t)
      BY <3>2, RequestSenders
    <3>3. CASE Step(t) /\ UNCHANGED mboxvars
      BY <3>3, StepSenders
    <3>4. CASE \/ Open(t) \/ Close(t) \/ Stat(t) \/ RecvWait(t) \/ RecvCopy(t) \/ RecvDone(t)
               \/ SendWait(t) \/ SendCopy(t) \/ SendDone(t)
      BY <3>4, WorkSenders
    <3> QED BY <3>1, <3>2, <3>3, <3>4 DEF Work
  <2> QED BY <2>1, <2>2
<1> QED BY <1>1, SendersInit, DInvariance, PTL DEF MboxSpec

(* mbox_recv and mbox_send: while the lock is free no sender sleeps with   *)
(* room for its message, as mbox_recv tells all of them of new space.      *)
THEOREM BroadcastIsEnough == MboxSpec => []SleepingSendersHaveNoRoom
<1>1. MInv /\ DInv /\ SendersWait => SleepingSendersHaveNoRoom
  <2> SUFFICES ASSUME MInv, DInv, SendersWait, Unlocked, NEW t \in Threads, Queued(t, moreSpace)
               PROVE  ~HasRoom(msg[t])
    BY DEF SleepingSendersHaveNoRoom
  <2>1. Waits(t) /\ \A u \in Threads : ~Waking(u)
    BY NoneUnderWay DEF Waits, Waking
  <2>2. BufferSize - PendingBytes < MsgSize(msg[t])
    BY <2>1 DEF SendersWait
  <2>3. msg[t] \in Messages
    BY <2>1, WaitersSend DEF DInv, DataTypeOK
  <2>4. PICK st \in Starts : Laid(st)
    BY DEF DInv, LaidOut
  <2>5. Space = BufferSize - PendingBytes
    BY <2>4, NoneUnderWay, SpaceLeft, LaidBytes DEF DInv, CountIs
  <2>6. PendingBytes \in Int /\ MsgSize(msg[t]) \in Int /\ BufferSize \in Int
    BY <2>3, PutBytes, MessageSize, MboxAssumption
  <2> QED BY <2>2, <2>5, <2>6 DEF HasRoom
<1> QED BY <1>1, DInvariance, SendersInvariance, PTL

----------------------------------------------------------------------------
(* Keyboard: the mailbox with an interrupt handler as its sender. *)

Contexts == {"user", "getchar", "irq1", "stat", "send"}

KTypeOK ==
  /\ cpu \in Threads
  /\ critical \in [Threads -> BOOLEAN]
  /\ ctx \in [Threads -> Contexts]
  /\ room = [t \in Threads |-> room[t]]
  /\ msg = [t \in Threads |-> msg[t]]

(* What a thread does with the keyboard says which operation it may be in. *)
ContextOK ==
  \A t \in Threads :
    /\ ctx[t] \in {"user", "irq1"} => op[t] = "idle" /\ pc[t] = "out" /\ ~critical[t]
    /\ ctx[t] \in {"getchar", "stat", "send"} => critical[t]
    /\ ctx[t] = "getchar" => op[t] \in {"recv", "recvd", "idle"}
    /\ ctx[t] = "stat" => op[t] \in {"stat", "idle"}
    /\ ctx[t] = "send" => op[t] \in {"send", "sent", "idle"}

(* Only getchar waits for a condition. *)
Suspending(t) ==
  \/ pc[t] \in {"wait_spin", "wait_block", "wait_blocked"}
  \/ pc[t] \in {"rel_spin", "rel_test", "rel_clear", "rel_wake", "rel_free"} /\ arg[t] # NoCond

WaitsOK ==
  \A t \in Threads : Suspending(t) => ctx[t] = "getchar" /\ arg[t] = moreData

(* A thread loses the CPU only outside the mailbox or asleep in it: the    *)
(* critical sections keep everybody else out of the monitor.               *)
OneInside ==
  \A t \in Threads :
    t # cpu => pc[t] \in {"out", "wait_blocked"} /\ ctx[t] \notin {"stat", "send"}

(* What mbox_stat told the interrupt handler is still so when it sends. *)
RoomKept ==
  \A t \in Threads :
    /\ ctx[t] = "stat" /\ op[t] = "idle" /\ room[t] => HasRoom(scan[t].char)
    /\ ctx[t] = "send" /\ op[t] = "send" => HasRoom(msg[t])

(* The inductive invariant. *)
KInv == MInv /\ KTypeOK /\ ContextOK /\ WaitsOK /\ OneInside /\ RoomKept

----------------------------------------------------------------------------
(* Nobody sleeps on the lock: its owner would have the CPU, and so would   *)
(* the sleeper.                                                            *)
LEMMA NoneQueuesForLock ==
  ASSUME MInv, KTypeOK, OneInside, NEW t \in Threads
  PROVE  ~Queued(t, Mutex)
<1> SUFFICES ASSUME Queued(t, Mutex) PROVE FALSE
  OBVIOUS
<1>1. TypeOK /\ BlockedIffQueued /\ LockedIfQueued /\ MutualExclusion
  BY DEF MInv, Inv
<1>2. pc[t] = "acq_blocked" /\ status[t] = "BLOCKED"
  BY <1>1 DEF BlockedIffQueued, Queues
<1>3. t = cpu
  BY <1>2 DEF OneInside
<1>4. waiting[Mutex] # << >>
  <2>1. CASE waiting[Mutex] = << >>
    <3>1. Len(waiting[Mutex]) = 0
      BY <2>1
    <3> QED BY <3>1 DEF Queued
  <2> QED BY <2>1
<1>5. PICK u \in Threads : Owns(u)
  BY <1>1, <1>4 DEF LockedIfQueued, MutualExclusion
<1>6. u = cpu
  BY <1>5 DEF OneInside, Owns, At
<1> QED BY <1>2, <1>3, <1>5, <1>6 DEF Owns, At

(* A thread inside the mailbox can always go on, unless it sleeps. *)
LEMMA InsideRuns ==
  ASSUME MInv, KTypeOK, OneInside, ~CanStep(cpu)
  PROVE  pc[cpu] = "wait_blocked"
<1>1. TypeOK /\ BlockedIffQueued /\ SpinlockExclusion /\ cpu \in Threads
  BY DEF MInv, Inv, KTypeOK
<1>2. CASE status[cpu] # "RUNNING"
  <2>1. status[cpu] = "BLOCKED"
    BY <1>1, <1>2 DEF TypeOK
  <2>2. PICK q \in Queues : Queued(cpu, q)
    BY <1>1, <2>1 DEF BlockedIffQueued
  <2>3. q # Mutex
    BY <1>1, <2>2, NoneQueuesForLock
  <2> QED BY <1>1, <2>2, <2>3 DEF BlockedIffQueued
<1>3. ASSUME NEW q \in Queues, WantsSpinlock(cpu, q), spin[q] # "UNLOCKED" PROVE FALSE
  <2>1. spin[q] = "LOCKED"
    BY <1>1, <1>3 DEF TypeOK
  <2>2. PICK u \in Threads : HasSpinlock(u, q)
    BY <1>1, <2>1 DEF SpinlockExclusion
  <2>3. u = cpu
    BY <2>2 DEF OneInside, HasSpinlock
  <2> QED BY <1>3, <2>2, <2>3, MonitorAssumption DEF WantsSpinlock, HasSpinlock
<1> QED BY <1>2, <1>3 DEF CanStep

(* Only readers block, and only for a key. *)
LEMMA ReadersBlock == KInv => OnlyReadersBlock
<1> SUFFICES ASSUME KInv, NEW t \in Threads, status[t] = "BLOCKED"
             PROVE  ctx[t] = "getchar" /\ Queued(t, moreData)
  BY DEF OnlyReadersBlock
<1>1. BlockedIffQueued
  BY DEF KInv, MInv, Inv
<1>2. PICK q \in Queues : Queued(t, q)
  BY <1>1 DEF BlockedIffQueued
<1>3. q # Mutex
  BY <1>2, NoneQueuesForLock DEF KInv
<1>4. pc[t] = "wait_blocked" /\ arg[t] = q
  BY <1>1, <1>2, <1>3 DEF BlockedIffQueued
<1> QED BY <1>2, <1>4 DEF KInv, WaitsOK, Suspending

----------------------------------------------------------------------------
(* The mailbox keeps its fields. *)
LEMMA RoomSame ==
  ASSUME UNCHANGED <<head, tail, count>>
  PROVE  \A m : HasRoom(m)' <=> HasRoom(m)
BY DEF HasRoom, Space, MsgSize

(* A step of the thread that has the CPU: the others keep their parts of   *)
(* the invariant, as none of them is sending.                              *)
LEMMA OthersFine ==
  ASSUME KInv, cpu' = cpu, OnlyMoves(cpu),
         \A u \in Threads \ {cpu} :
           /\ op'[u] = op[u] /\ ctx'[u] = ctx[u] /\ critical'[u] = critical[u],
         NEW u \in Threads, u # cpu
  PROVE  /\ ctx'[u] \in {"user", "irq1"} => op'[u] = "idle" /\ pc'[u] = "out" /\ ~critical'[u]
         /\ ctx'[u] \in {"getchar", "stat", "send"} => critical'[u]
         /\ ctx'[u] = "getchar" => op'[u] \in {"recv", "recvd", "idle"}
         /\ ctx'[u] \notin {"stat", "send"}
         /\ Suspending(u)' => ctx'[u] = "getchar" /\ arg'[u] = moreData
         /\ pc'[u] \in {"out", "wait_blocked"}
BY DEF KInv, ContextOK, WaitsOK, Suspending, OneInside, OnlyMoves

(* So it is enough to look at the thread that has the CPU. *)
LEMMA RunnerFine ==
  ASSUME KInv, MInv', KTypeOK', cpu' = cpu, OnlyMoves(cpu),
         \A u \in Threads \ {cpu} :
           /\ op'[u] = op[u] /\ ctx'[u] = ctx[u] /\ critical'[u] = critical[u],
         NEW t \in Threads, t = cpu,
         ctx'[t] \in {"user", "irq1"} => op'[t] = "idle" /\ pc'[t] = "out" /\ ~critical'[t],
         ctx'[t] \in {"getchar", "stat", "send"} => critical'[t],
         ctx'[t] = "getchar" => op'[t] \in {"recv", "recvd", "idle"},
         ctx'[t] = "stat" => op'[t] \in {"stat", "idle"},
         ctx'[t] = "send" => op'[t] \in {"send", "sent", "idle"},
         Suspending(t)' => ctx'[t] = "getchar" /\ arg'[t] = moreData,
         ctx'[t] = "stat" /\ op'[t] = "idle" /\ room'[t] => HasRoom(scan[t].char)',
         ctx'[t] = "send" /\ op'[t] = "send" => HasRoom(msg[t])'
  PROVE  KInv'
<1>1. ContextOK'
  BY OthersFine DEF ContextOK
<1>2. WaitsOK'
  BY OthersFine DEF WaitsOK
<1>3. OneInside'
  BY OthersFine DEF OneInside
<1>4. RoomKept'
  BY OthersFine DEF RoomKept
<1> QED BY <1>1, <1>2, <1>3, <1>4 DEF KInv

----------------------------------------------------------------------------
(* The CPU is taken from a thread outside the mailbox, or asleep in it.    *)
LEMMA DispatchFine ==
  ASSUME KInv, NEW u \in Threads, Dispatch(u)
  PROVE  KInv'
<1> USE DEF KInv
<1>1. /\ cpu' = u /\ UNCHANGED <<allvars, critical, ctx, room, scan>>
      /\ ~critical[cpu] \/ ~CanStep(cpu)
  BY DEF Dispatch
<1>2. MInv' /\ KTypeOK'
  BY <1>1, MInvStutter DEF KTypeOK, allvars, mboxvars
<1>3. /\ pc' = pc /\ arg' = arg /\ op' = op /\ msg' = msg
      /\ head' = head /\ tail' = tail /\ count' = count
  BY <1>1 DEF allvars, vars, mboxvars
<1>4. pc[cpu] \in {"out", "wait_blocked"} /\ ctx[cpu] \notin {"stat", "send"}
  <2>1. CASE ~critical[cpu]
    BY <2>1 DEF KTypeOK, ContextOK, Contexts
  <2>2. CASE ~CanStep(cpu)
    BY <2>2, InsideRuns DEF KTypeOK, WaitsOK, Suspending
  <2> QED BY <1>1, <2>1, <2>2
<1>5. OneInside'
  BY <1>1, <1>3, <1>4 DEF OneInside
<1>6. ContextOK'
  BY <1>1, <1>3 DEF ContextOK
<1>7. WaitsOK'
  BY <1>1, <1>3 DEF WaitsOK, Suspending
<1>8. RoomKept'
  BY <1>1, <1>3, RoomSame DEF RoomKept
<1> QED BY <1>2, <1>5, <1>6, <1>7, <1>8

(* getchar and putchar call the mailbox. *)
LEMMA CallFine ==
  ASSUME KInv, NEW t \in Threads, t = cpu, Getchar(t) \/ Putchar(t) \/ PutcharSend(t)
  PROVE  KInv'
<1> USE DEF KInv
<1>1. Calls(t)
  BY DEF Getchar, Putchar, PutcharSend, Calls
<1>2. MInv' /\ OnlyMoves(t) /\ TypeOK /\ OpOK
  BY <1>1, MInvStep, FollowsRules, NextMoves DEF MInv, Inv
<1>3. /\ cpu' = cpu /\ room' = room /\ scan' = scan
      /\ pc' = [pc EXCEPT ![t] = "acq_spin"]
      /\ head' = head /\ tail' = tail /\ count' = count
  BY DEF Getchar, Putchar, PutcharSend, StartRecv, StartStat, StartSend, Start, CallAcquire,
    Call, Goto
<1>4. /\ \A u \in Threads \ {t} :
           op'[u] = op[u] /\ ctx'[u] = ctx[u] /\ critical'[u] = critical[u]
      /\ critical' \in [Threads -> BOOLEAN] /\ ctx' \in [Threads -> Contexts]
      /\ msg' = [u \in Threads |-> msg'[u]]
  <2>1. \A u \in Threads \ {t} : op'[u] = op[u]
    BY <1>2 DEF Getchar, Putchar, PutcharSend, StartRecv, StartStat, StartSend, Start, Become, OpOK
  <2>2. /\ \A u \in Threads \ {t} : ctx'[u] = ctx[u]
        /\ ctx' \in [Threads -> Contexts]
    BY DEF Getchar, Putchar, PutcharSend, Enter, KTypeOK, Contexts
  <2>3. /\ \A u \in Threads \ {t} : critical'[u] = critical[u]
        /\ critical' \in [Threads -> BOOLEAN]
    BY DEF Getchar, Putchar, PutcharSend, EnterCritical, KTypeOK
  <2>4. msg' = [u \in Threads |-> msg'[u]]
    BY DEF Getchar, Putchar, PutcharSend, StartRecv, StartStat, StartSend, KTypeOK
  <2> QED BY <2>1, <2>2, <2>3, <2>4
<1>5. KTypeOK'
  BY <1>3, <1>4 DEF KTypeOK
<1>6. ~Suspending(t)'
  BY <1>2, <1>3 DEF Suspending, TypeOK
<1>7. CASE Getchar(t)
  <2>1. ctx'[t] = "getchar" /\ critical'[t] /\ op'[t] = "recv"
    BY <1>2, <1>7 DEF Getchar, StartRecv, Start, Become, Enter, EnterCritical, KTypeOK, OpOK
  <2> QED BY <1>2, <1>3, <1>4, <1>5, <1>6, <2>1, RunnerFine
<1>8. CASE Putchar(t)
  <2>1. ctx'[t] = "stat" /\ critical'[t] /\ op'[t] = "stat"
    BY <1>2, <1>8 DEF Putchar, StartStat, Start, Become, Enter, EnterCritical, KTypeOK, OpOK
  <2> QED BY <1>2, <1>3, <1>4, <1>5, <1>6, <2>1, RunnerFine
<1>9. CASE PutcharSend(t)
  <2>1. /\ ctx'[t] = "send" /\ critical'[t] /\ op'[t] = "send"
        /\ ctx[t] = "stat" /\ op[t] = "idle" /\ room[t]
        /\ msg'[t] = scan[t].char
    BY <1>2, <1>9 DEF PutcharSend, Returned, StartSend, Start, Become, Enter, KTypeOK, OpOK,
      ContextOK
  <2>2. HasRoom(scan[t].char)
    BY <2>1 DEF RoomKept
  <2>3. HasRoom(msg[t])'
    BY <1>3, <2>1, <2>2 DEF HasRoom, Space, MsgSize
  <2> QED BY <1>2, <1>3, <1>4, <1>5, <1>6, <2>1, <2>3, RunnerFine
<1> QED BY <1>7, <1>8, <1>9

(* What the handler and getchar do outside the mailbox. *)
LEMMA OutsideFine ==
  ASSUME KInv, NEW t \in Threads, t = cpu,
         \/ GetcharReturn(t) \/ (\E s \in ScanCodes : KeyInterrupt(t, s))
         \/ IgnoreRelease(t) \/ PutcharReturn(t)
  PROVE  KInv'
<1> USE DEF KInv
<1>1. /\ UNCHANGED allvars /\ cpu' = cpu
      /\ op[t] = "idle" /\ pc[t] = "out"
  BY DEF GetcharReturn, KeyInterrupt, IgnoreRelease, PutcharReturn, Returned, ContextOK
<1>2. MInv' /\ OnlyMoves(t)
  <2>1. TypeOK /\ BlockedIffQueued
    BY DEF MInv, Inv
  <2>2. \A q \in Queues : ~Queued(t, q)
    BY <1>1, <2>1 DEF BlockedIffQueued
  <2>3. status[t] = "RUNNING"
    BY <2>1, <2>2 DEF TypeOK, BlockedIffQueued
  <2> QED BY <1>1, <2>3, MInvStutter DEF OnlyMoves, allvars, vars
<1>3. /\ \A u \in Threads \ {t} : ctx'[u] = ctx[u] /\ critical'[u] = critical[u]
      /\ critical' \in [Threads -> BOOLEAN] /\ ctx' \in [Threads -> Contexts]
      /\ room' = [u \in Threads |-> room'[u]]
      /\ ctx'[t] \in {"user", "irq1"} /\ ~critical'[t]
  BY <1>1 DEF GetcharReturn, KeyInterrupt, IgnoreRelease, PutcharReturn, Enter, LeaveCritical,
    KTypeOK, Contexts, ContextOK
<1>4. KTypeOK'
  BY <1>1, <1>3 DEF KTypeOK, allvars, mboxvars
<1>5. op' = op /\ pc' = pc
  BY <1>1 DEF allvars, vars, mboxvars
<1>6. ~Suspending(t)'
  BY <1>1, <1>5 DEF Suspending
<1> QED BY <1>1, <1>2, <1>3, <1>4, <1>5, <1>6, RunnerFine

(* A step inside thread.c. *)
LEMMA StepFine ==
  ASSUME KInv, NEW t \in Threads, t = cpu, Step(t), UNCHANGED <<mboxvars, kvars>>
  PROVE  KInv'
<1> USE DEF KInv
<1>1. MInv' /\ OnlyMoves(t) /\ TypeOK
  BY MInvStep, FollowsRules, NextMoves DEF MInv, Inv, Work
<1>2. /\ op' = op /\ msg' = msg /\ head' = head /\ tail' = tail /\ count' = count
      /\ cpu' = cpu /\ ctx' = ctx /\ critical' = critical /\ room' = room /\ scan' = scan
  BY DEF mboxvars, kvars
<1>3. KTypeOK'
  BY <1>2 DEF KTypeOK
<1>4. pc[t] # "out"
  BY DEF Step, LockStep, CondStep, At,
    AcquireSpin, AcquireTest, AcquireTake, AcquireReturn, AcquireBlock, AcquireResume,
    ReleaseSpin, ReleaseTest, ReleaseFree, ReleaseHandOff, ReleaseReturn,
    WaitSpin, WaitBlock, WaitResume, SignalSpin, SignalTest, SignalWake,
    BroadcastSpin, BroadcastTest, BroadcastWake, WakeReturn
<1>5. ctx[t] \notin {"user", "irq1"}
  BY <1>4 DEF ContextOK
<1>6. Suspending(t)' => Suspending(t) /\ arg'[t] = arg[t]
  <2>1. CASE LockStep(t)
    BY <1>1, <2>1 DEF Suspending, TypeOK, LockStep, At, Goto,
      AcquireSpin, AcquireTest, AcquireTake, AcquireReturn, AcquireBlock, AcquireResume,
      ReleaseSpin, ReleaseTest, ReleaseFree, ReleaseHandOff, ReleaseReturn
  <2>2. CASE CondStep(t)
    BY <1>1, <2>2 DEF Suspending, TypeOK, CondStep, At, Goto,
      WaitSpin, WaitBlock, WaitResume, SignalSpin, SignalTest, SignalWake,
      BroadcastSpin, BroadcastTest, BroadcastWake, WakeReturn
  <2> QED BY <2>1, <2>2 DEF Step
<1>7. Suspending(t)' => ctx'[t] = "getchar" /\ arg'[t] = moreData
  BY <1>2, <1>6 DEF WaitsOK
<1>8. /\ ctx'[t] = "stat" /\ op'[t] = "idle" /\ room'[t] => HasRoom(scan[t].char)'
      /\ ctx'[t] = "send" /\ op'[t] = "send" => HasRoom(msg[t])'
  BY <1>2 DEF RoomKept, HasRoom, Space, MsgSize
<1>9. /\ ctx'[t] \in {"getchar", "stat", "send"} => critical'[t]
      /\ ctx'[t] = "getchar" => op'[t] \in {"recv", "recvd", "idle"}
      /\ ctx'[t] = "stat" => op'[t] \in {"stat", "idle"}
      /\ ctx'[t] = "send" => op'[t] \in {"send", "sent", "idle"}
  BY <1>2 DEF ContextOK
<1> QED BY <1>1, <1>2, <1>3, <1>5, <1>7, <1>8, <1>9, RunnerFine

(* What mbox.c does with the lock. The handler finds the room it was told  *)
(* of, so it never waits.                                                  *)
LEMMA WorkFine ==
  ASSUME KInv, NEW t \in Threads, t = cpu,
         \/ PutcharStat(t)
         \/ /\ \/ RecvWait(t) \/ RecvCopy(t) \/ RecvDone(t)
               \/ SendWait(t) \/ SendCopy(t) \/ SendDone(t)
            /\ UNCHANGED kvars
  PROVE  KInv'
<1> USE DEF KInv
<1>1. Work(t)
  BY DEF PutcharStat, Work
<1>2. MInv' /\ OnlyMoves(t) /\ TypeOK /\ OpOK
  BY <1>1, MInvStep, FollowsRules, NextMoves DEF MInv, Inv
<1>3. cpu' = cpu /\ ctx' = ctx /\ critical' = critical /\ scan' = scan
  BY DEF PutcharStat, kvars
<1>4. /\ \A u \in Threads \ {t} : op'[u] = op[u]
      /\ msg' = [u \in Threads |-> msg'[u]]
  <2>1. \E o : op' = op \/ op' = [op EXCEPT ![t] = o]
    BY DEF PutcharStat, Stat, RecvWait, RecvCopy, RecvDone, SendWait, SendCopy, SendDone,
      Become, mboxvars
  <2>2. \E m : msg' = msg \/ msg' = [msg EXCEPT ![t] = m]
    BY DEF PutcharStat, Stat, RecvWait, RecvCopy, RecvDone, SendWait, SendCopy, SendDone, mboxvars
  <2>3. msg = [u \in Threads |-> msg[u]] /\ op \in [Threads -> Ops]
    BY <1>2 DEF KTypeOK, OpOK
  <2>4. msg' = [u \in Threads |-> msg'[u]]
    BY <2>2, <2>3
  <2>5. \A u \in Threads \ {t} : op'[u] = op[u]
    BY <2>1, <2>3
  <2> QED BY <2>4, <2>5
<1>5. room' = [u \in Threads |-> room'[u]]
  <2>1. \E b : room' = room \/ room' = [room EXCEPT ![t] = b]
    BY DEF PutcharStat, kvars
  <2> QED BY <2>1 DEF KTypeOK
<1>6. KTypeOK'
  BY <1>3, <1>4, <1>5 DEF KTypeOK
<1>7. pc[t] = "in" /\ ctx[t] \in {"getchar", "stat", "send"} /\ critical'[t]
  <2>1. pc[t] = "in"
    BY DEF PutcharStat, Stat, RecvWait, RecvCopy, RecvDone, SendWait, SendCopy, SendDone, InOp, At
  <2>2. ctx[t] \notin {"user", "irq1"} /\ ctx[t] \in Contexts
    BY <2>1 DEF ContextOK, KTypeOK
  <2> QED BY <1>3, <2>1, <2>2 DEF Contexts, ContextOK
<1>8. CASE RecvWait(t)
  <2>1. op[t] = "recv" /\ op'[t] = "recv" /\ arg'[t] = moreData
    BY <1>2, <1>8 DEF RecvWait, InOp, CallWait, Call, TypeOK, mboxvars
  <2>2. ctx[t] = "getchar"
    BY <1>7, <2>1 DEF ContextOK
  <2> QED BY <1>2, <1>3, <1>4, <1>6, <1>7, <2>1, <2>2, RunnerFine
<1>9. CASE RecvCopy(t) \/ RecvDone(t)
  <2>1. op[t] \in {"recv", "recvd"} /\ op'[t] \in {"recvd", "idle"} /\ ~Suspending(t)'
    BY <1>2, <1>9 DEF RecvCopy, RecvDone, InOp, CallBroadcast, CallRelease, Call, Goto, Become,
      TypeOK, OpOK, Suspending
  <2>2. ctx[t] = "getchar"
    BY <1>7, <2>1 DEF ContextOK
  <2> QED BY <1>2, <1>3, <1>4, <1>6, <1>7, <2>1, <2>2, RunnerFine
<1>10. CASE SendWait(t)
  <2>1. op[t] = "send" /\ ~HasRoom(msg[t])
    BY <1>10 DEF SendWait, InOp
  <2>2. ctx[t] = "send"
    BY <1>7, <2>1 DEF ContextOK
  <2> QED BY <2>1, <2>2 DEF RoomKept
<1>11. CASE SendCopy(t) \/ SendDone(t)
  <2>1. op[t] \in {"send", "sent"} /\ op'[t] \in {"sent", "idle"} /\ ~Suspending(t)'
    BY <1>2, <1>11 DEF SendCopy, SendDone, InOp, CallSignal, CallRelease, Call, Goto, Become,
      TypeOK, OpOK, Suspending
  <2>2. ctx[t] = "send"
    BY <1>7, <2>1 DEF ContextOK
  <2> QED BY <1>2, <1>3, <1>4, <1>6, <1>7, <2>1, <2>2, RunnerFine
<1>12. CASE PutcharStat(t)
  <2>1. /\ ctx[t] = "stat" /\ op'[t] = "idle" /\ ~Suspending(t)'
        /\ head' = head /\ tail' = tail /\ count' = count
        /\ room'[t] = HasRoom(scan[t].char)
    BY <1>2, <1>12 DEF PutcharStat, Stat, CallRelease, Call, Goto, Become,
      TypeOK, OpOK, Suspending, KTypeOK
  <2>2. room'[t] => HasRoom(scan[t].char)'
    BY <1>3, <2>1 DEF HasRoom, Space, MsgSize
  <2> QED BY <1>2, <1>3, <1>4, <1>6, <1>7, <2>1, <2>2, RunnerFine
<1> QED BY <1>8, <1>9, <1>10, <1>11, <1>12

----------------------------------------------------------------------------
LEMMA KInvStep ==
  ASSUME KInv, [KNext]_kallvars
  PROVE  KInv'
<1>1. ASSUME NEW t \in Threads, Run(t) PROVE KInv'
  <2>1. t = cpu
    BY <1>1 DEF Run
  <2>2. CASE MailboxStep(t)
    BY <2>1, <2>2, StepFine, WorkFine DEF MailboxStep
  <2>3. CASE Getchar(t) \/ Putchar(t) \/ PutcharSend(t)
    BY <2>1, <2>3, CallFine
  <2>4. CASE \/ GetcharReturn(t) \/ (\E s \in ScanCodes : KeyInterrupt(t, s))
             \/ IgnoreRelease(t) \/ PutcharReturn(t)
    BY <2>1, <2>4, OutsideFine
  <2> QED BY <1>1, <2>2, <2>3, <2>4 DEF Run
<1>2. ASSUME NEW t \in Threads, Dispatch(t) PROVE KInv'
  BY <1>2, DispatchFine
<1>3. CASE UNCHANGED kallvars
  <2>1. /\ UNCHANGED allvars /\ cpu' = cpu /\ ctx' = ctx /\ critical' = critical
        /\ room' = room /\ scan' = scan /\ op' = op /\ pc' = pc /\ arg' = arg /\ msg' = msg
        /\ head' = head /\ tail' = tail /\ count' = count
    BY <1>3 DEF kallvars, kvars, allvars, vars, mboxvars
  <2>2. MInv' /\ KTypeOK' /\ ContextOK' /\ OneInside'
    BY <2>1, MInvStutter DEF KInv, KTypeOK, ContextOK, OneInside
  <2>3. WaitsOK'
    BY <2>1 DEF KInv, WaitsOK, Suspending
  <2>4. RoomKept'
    BY <2>1 DEF KInv, RoomKept, HasRoom, Space, MsgSize
  <2> QED BY <2>2, <2>3, <2>4 DEF KInv
<1> QED BY <1>1, <1>2, <1>3 DEF KNext

(* keyboard_init leaves the mailbox open and empty. *)
LEMMA KInvInit == KInit => KInv
<1> SUFFICES ASSUME KInit PROVE KInv
  OBVIOUS
<1>1. MInv
  BY MInvInit DEF KInit
<1>2. KTypeOK
  BY DEF KInit, KTypeOK, Contexts
<1>3. \A t \in Threads :
        pc[t] = "out" /\ op[t] = "idle" /\ ctx[t] = "user" /\ ~critical[t]
  BY DEF KInit, Init
<1> QED BY <1>1, <1>2, <1>3 DEF KInv, ContextOK, WaitsOK, Suspending, OneInside, RoomKept

(* keyboard.c keeps at most one thread inside the mailbox, and what the    *)
(* handler learned from mbox_stat still holds when it sends.               *)
THEOREM KInvariance == KSpec => []KInv
BY KInvInit, KInvStep, PTL DEF KSpec

(* The deadlocks described in keyboard.c do not happen: only getchar ever  *)
(* blocks, and only for a key. The keyboard interrupt, which may come to   *)
(* any thread and more than one at a time, neither waits for the lock nor  *)
(* for room in the mailbox.                                                *)
THEOREM HandlerNeverBlocks == KSpec => []OnlyReadersBlock
BY KInvariance, ReadersBlock, PTL

(* getchar and putchar: a reader sleeps only while every character there   *)
(* is has a reader on its way.                                             *)
THEOREM KeysFindReaders == KSpec => []SleepingReceiversHaveNoMessage
<1>1. KInv => SleepingReceiversHaveNoMessage
  BY EnoughArrive DEF KInv
<1> QED BY <1>1, KInvariance, PTL
=============================================================================
