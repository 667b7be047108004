------------------------------ MODULE Barrier ------------------------------
(***************************************************************************)
(* barrier_test.c of the third kernel (P3) and the barrier of its thread.c *)
(* that it tests: threads count their iterations and meet at one barrier   *)
(* twice in each, once before and once after they compare their counts.    *)
(* One of them, the leader (barrier1), sets the barrier up.                *)
(*                                                                         *)
(* barrier_wait is one critical region, so one step; a thread it wakes     *)
(* goes on later. The order of the waiting list is not observable and is   *)
(* left out.                                                               *)
(***************************************************************************)
EXTENDS Integers, FiniteSets

CONSTANTS
  Threads,    \* barrier1, barrier2, barrier3
  leader,     \* barrier1
  Iterations  \* ITERATIONS

ASSUME BarrierAssumption ==
  /\ IsFiniteSet(Threads)
  /\ leader \in Threads
  /\ Iterations \in Nat

VARIABLES
  limit, counter, waiting,  \* the fields of barrier_t
  initialized,              \* barrier_initialized
  bv,                       \* b1v, b2v, b3v, and i of each loop
  pc                        \* where each thread is

vars == <<limit, counter, waiting, initialized, bv, pc>>

Labels == {"start", "announce", "loop", "first", "passed", "compare", "passedagain", "exited"}

Goto(t, label) == pc' = [pc EXCEPT ![t] = label]

(* Not in a waiting list. *)
At(t, label) == pc[t] = label /\ t \notin waiting

(* the statics of barrier_test.c *)
Init ==
  /\ limit = 0 /\ counter = 0 /\ waiting = {}
  /\ initialized = FALSE
  /\ bv = [t \in Threads |-> 0]
  /\ pc = [t \in Threads |-> "start"]

----------------------------------------------------------------------------
(* barrier_init(&bar, 3), for as many threads as there are *)
BarrierInit ==
  /\ At(leader, "start")
  /\ limit' = Cardinality(Threads) /\ counter' = 0 /\ waiting' = {}
  /\ Goto(leader, "announce")
  /\ UNCHANGED <<initialized, bv>>

(* Mutant: the others are not told. *)
AnnounceNothing ==
  /\ At(leader, "announce")
  /\ Goto(leader, "loop")
  /\ UNCHANGED <<limit, counter, waiting, initialized, bv>>

Announce ==
  /\ At(leader, "announce")
  /\ initialized' = TRUE
  /\ Goto(leader, "loop")
  /\ UNCHANGED <<limit, counter, waiting, bv>>

(* while (barrier_initialized != 1); *)
SpinOver(t) ==
  /\ t # leader /\ At(t, "start")
  /\ initialized
  /\ Goto(t, "loop")
  /\ UNCHANGED <<limit, counter, waiting, initialized, bv>>

Count(t) ==
  /\ At(t, "loop") /\ bv[t] < Iterations
  /\ bv' = [bv EXCEPT ![t] = @ + 1]
  /\ Goto(t, "first")
  /\ UNCHANGED <<limit, counter, waiting, initialized>>

(* Mutant: the barrier opens one thread too early. *)
BarrierWaitEarly(t) ==
  /\ IF counter + 1 >= limit - 1
       THEN waiting' = {} /\ counter' = 0
       ELSE waiting' = waiting \cup {t} /\ counter' = counter + 1
  /\ UNCHANGED <<limit, initialized, bv>>

(* Mutant: the last to arrive counts itself for the next time. *)
BarrierWaitCountsSelf(t) ==
  /\ IF counter + 1 = limit
       THEN waiting' = {} /\ counter' = 1
       ELSE waiting' = waiting \cup {t} /\ counter' = counter + 1
  /\ UNCHANGED <<limit, initialized, bv>>

(* barrier_wait: the last to arrive opens the barrier for all, the others  *)
(* block. *)
BarrierWait(t) ==
  /\ IF counter + 1 = limit
       THEN waiting' = {} /\ counter' = 0
       ELSE waiting' = waiting \cup {t} /\ counter' = counter + 1
  /\ UNCHANGED <<limit, initialized, bv>>

FirstWait(t) == At(t, "first") /\ BarrierWait(t) /\ Goto(t, "passed")

(* back from barrier_wait: the two ASSERTs, read one variable at a time *)
StartCompare(t) ==
  /\ At(t, "passed")
  /\ Goto(t, "compare")
  /\ UNCHANGED <<limit, counter, waiting, initialized, bv>>

SecondWait(t) == At(t, "compare") /\ BarrierWait(t) /\ Goto(t, "passedagain")

NextIteration(t) ==
  /\ At(t, "passedagain")
  /\ Goto(t, "loop")
  /\ UNCHANGED <<limit, counter, waiting, initialized, bv>>

Exit(t) ==
  /\ At(t, "loop") /\ bv[t] = Iterations
  /\ Goto(t, "exited")
  /\ UNCHANGED <<limit, counter, waiting, initialized, bv>>

Step(t) ==
  \/ t = leader /\ (BarrierInit \/ Announce)
  \/ SpinOver(t) \/ Count(t) \/ FirstWait(t) \/ StartCompare(t) \/ SecondWait(t)
  \/ NextIteration(t) \/ Exit(t)

Next == \E t \in Threads : Step(t)

Spec == Init /\ [][Next]_vars

----------------------------------------------------------------------------
(* The state has the declared shape. *)
TypeOK ==
  /\ limit \in Nat /\ counter \in Nat /\ waiting \in SUBSET Threads
  /\ initialized \in BOOLEAN
  /\ bv \in [Threads -> 0..Iterations]
  /\ pc \in [Threads -> Labels]

(* ASSERT(b1v == b2v), ASSERT(b2v == b3v): while any thread is at the      *)
(* comparison, however slowly it reads, all counts are equal and stay so.  *)
CountsAgree ==
  \A t, u \in Threads : At(t, "compare") \/ At(t, "passed") => bv[u] = bv[t]

(* A barrier may be used again at once: when a thread is already waiting   *)
(* at it for the next time, the barrier has forgotten the threads it woke  *)
(* last time, which may not even have run since.                           *)
CounterIsWaiting == counter = Cardinality(waiting) /\ (initialized => counter < limit)

(* Every thread passes every barrier and reports OK. *)
AllOK == <>(\A t \in Threads : pc[t] = "exited" /\ bv[t] = Iterations)

=============================================================================
