------------------------------ MODULE P3Proofs ------------------------------
(***************************************************************************)
(* Theorems about the two test programs of the third kernel (P3), alone    *)
(* and together on one CPU: Barrier for any number of threads and          *)
(* iterations, and Philosophers.                                           *)
(*                                                                         *)
(* The idea for the barrier: it opens for all its threads in one step, so  *)
(* that at any time all threads have passed the same number of barriers.   *)
(***************************************************************************)
EXTENDS P3, FiniteSetTheorems, TLAPS

(* How many of the two barriers of its current iteration t has yet to      *)
(* pass; a thread that was woken but has not run since has passed.         *)
Ahead(t) ==
  IF pc[t] = "first" \/ (pc[t] = "passed" /\ t \in waiting) THEN 2
  ELSE IF pc[t] \in {"passed", "compare"} \/ (pc[t] = "passedagain" /\ t \in waiting) THEN 1
  ELSE 0

(* The barriers t has passed since the start. *)
Passed(t) == 2 * bv[t] - Ahead(t)

SameStage == \A t, u \in Threads : Passed(t) = Passed(u)

(* barrier_init comes first, and once. *)
SetUp ==
  /\ \A t \in Threads : pc[t] = "announce" => t = leader
  /\ \A t \in Threads : pc[t] \in {"start", "announce"} => bv[t] = 0
  /\ initialized <=> pc[leader] \notin {"start", "announce"}
  /\ ~initialized => waiting = {} /\ \A t \in Threads : pc[t] \in {"start", "announce"}
  /\ pc[leader] # "start" => limit = Cardinality(Threads)

WaitersWait == \A t \in waiting : pc[t] \in {"passed", "passedagain"}

(* The inductive invariant. *)
Inv ==
  /\ TypeOK
  /\ SetUp
  /\ WaitersWait
  /\ CounterIsWaiting
  /\ SameStage

----------------------------------------------------------------------------
(* There is a leader, so there is somebody to wait for. *)
LEMMA ThreadsCounted ==
  Cardinality(Threads) \in Nat /\ Cardinality(Threads) > 0
<1>1. Cardinality(Threads) \in Nat
  BY BarrierAssumption, FS_CardinalityType
<1>2. Cardinality(Threads) # 0
  BY BarrierAssumption, FS_EmptySet
<1> QED BY <1>1, <1>2

(* A thread that joins the waiting list makes it one longer; if the last   *)
(* one is missing, everybody else is in it.                                *)
LEMMA WaitingCounted ==
  ASSUME NEW W \in SUBSET Threads, NEW t \in Threads \ W
  PROVE  /\ Cardinality(W) \in Nat
         /\ Cardinality(W \cup {t}) = Cardinality(W) + 1
         /\ Cardinality(W) + 1 <= Cardinality(Threads)
         /\ Cardinality(W) + 1 = Cardinality(Threads) => Threads = W \cup {t}
<1>1. IsFiniteSet(Threads)
  BY BarrierAssumption
<1>2. IsFiniteSet(W)
  BY <1>1, FS_Subset
<1>3. Cardinality(W) \in Nat
  BY <1>2, FS_CardinalityType
<1>4. Cardinality(W \cup {t}) = Cardinality(W) + 1
  BY <1>2, FS_AddElement
<1>5. W \cup {t} \in SUBSET Threads
  OBVIOUS
<1>6. /\ Cardinality(W \cup {t}) <= Cardinality(Threads)
      /\ Cardinality(Threads) = Cardinality(W \cup {t}) => Threads = W \cup {t}
  BY <1>1, <1>5, FS_Subset
<1> QED BY <1>3, <1>4, <1>6

(* The statics of barrier_test.c satisfy the invariant. *)
LEMMA InitInv == Init => Inv
<1> SUFFICES ASSUME Init PROVE Inv
  OBVIOUS
<1>1. TypeOK
  <2>1. bv \in [Threads -> 0..Iterations] /\ pc \in [Threads -> Labels]
    BY BarrierAssumption DEF Init, Labels
  <2>2. limit \in Nat /\ counter \in Nat /\ waiting \in SUBSET Threads /\ initialized \in BOOLEAN
    BY DEF Init
  <2> QED BY <2>1, <2>2 DEF TypeOK
<1>2. SetUp /\ WaitersWait
  BY BarrierAssumption DEF Init, SetUp, WaitersWait
<1>3. CounterIsWaiting
  BY FS_EmptySet DEF Init, CounterIsWaiting
<1>4. SameStage
  BY DEF Init, SameStage, Passed, Ahead
<1> QED BY <1>1, <1>2, <1>3, <1>4 DEF Inv

(* Every step keeps the types. *)
LEMMA TypeStep ==
  ASSUME TypeOK, [Next]_vars
  PROVE  TypeOK'
<1> USE BarrierAssumption, ThreadsCounted DEF TypeOK, Labels, Goto, At
<1>1. CASE UNCHANGED vars
  BY <1>1 DEF vars
<1>2. CASE BarrierInit \/ Announce
  <2>1. waiting' \in SUBSET Threads
    BY <1>2 DEF BarrierInit, Announce
  <2>2. limit' \in Nat /\ counter' \in Nat /\ bv' = bv
    BY <1>2 DEF BarrierInit, Announce
  <2>3. initialized' \in BOOLEAN
    BY <1>2 DEF BarrierInit, Announce
  <2>4. pc' \in [Threads -> Labels]
    BY <1>2 DEF BarrierInit, Announce
  <2> QED BY <2>1, <2>2, <2>3, <2>4
<1>3. ASSUME NEW t \in Threads, BarrierWait(t), \E l \in Labels : Goto(t, l)
      PROVE  TypeOK'
  BY <1>3 DEF BarrierWait
<1>4. ASSUME NEW t \in Threads, Step(t) PROVE TypeOK'
  <2>1. CASE FirstWait(t) \/ SecondWait(t)
    BY <1>3, <2>1 DEF FirstWait, SecondWait
  <2>2. CASE Count(t)
    BY <2>2 DEF Count
  <2>3. CASE SpinOver(t) \/ StartCompare(t) \/ NextIteration(t) \/ Exit(t)
    BY <2>3 DEF SpinOver, StartCompare, NextIteration, Exit
  <2> QED BY <1>2, <1>4, <2>1, <2>2, <2>3 DEF Step
<1> QED BY <1>1, <1>4 DEF Next

(* barrier_wait moves all threads past the barrier together, or none: the  *)
(* waiters are at the same barrier as t, as they have passed as many.      *)
LEMMA WaitStep ==
  ASSUME Inv, NEW t \in Threads, FirstWait(t) \/ SecondWait(t), TypeOK'
  PROVE  Inv'
<1> USE DEF Inv, TypeOK, At, Goto
<1>1. /\ t \notin waiting /\ initialized
      /\ pc[t] \in {"first", "compare"}
      /\ BarrierWait(t)
      /\ pc' = [pc EXCEPT ![t] = IF pc[t] = "first" THEN "passed" ELSE "passedagain"]
  BY DEF FirstWait, SecondWait, SetUp
<1>2. /\ UNCHANGED <<limit, initialized, bv>>
      /\ counter = Cardinality(waiting) /\ limit = Cardinality(Threads)
  BY <1>1, BarrierAssumption DEF BarrierWait, CounterIsWaiting, SetUp
<1>3. /\ Cardinality(waiting \cup {t}) = counter + 1
      /\ counter + 1 <= limit
      /\ counter + 1 = limit => Threads = waiting \cup {t}
  BY <1>1, <1>2, WaitingCounted
<1>4. SetUp'
  BY <1>1, <1>2, BarrierAssumption DEF SetUp
<1>5. CASE counter + 1 = limit
  <2>1. waiting' = {} /\ counter' = 0 /\ Threads = waiting \cup {t}
    BY <1>1, <1>3, <1>5 DEF BarrierWait
  <2>2. CounterIsWaiting'
    BY <1>2, <2>1, FS_EmptySet, ThreadsCounted DEF CounterIsWaiting
  <2>3. ASSUME NEW u \in Threads PROVE Passed(u)' = Passed(u) + 1
    <3>1. Passed(u) = Passed(t)
      BY DEF SameStage
    <3>2. CASE u = t
      BY <1>1, <1>2, <2>1, <3>2 DEF Passed, Ahead
    <3>3. CASE u # t
      <4>1. u \in waiting /\ pc[u] \in {"passed", "passedagain"} /\ pc'[u] = pc[u]
        BY <1>1, <2>1, <3>3 DEF WaitersWait
      <4> QED BY <1>1, <1>2, <2>1, <3>1, <4>1 DEF Passed, Ahead
    <3> QED BY <3>2, <3>3
  <2>4. SameStage'
    BY <2>3 DEF SameStage
  <2> QED BY <1>4, <2>1, <2>2, <2>4 DEF WaitersWait
<1>6. CASE counter + 1 # limit
  <2>1. waiting' = waiting \cup {t} /\ counter' = counter + 1
    BY <1>1, <1>6 DEF BarrierWait
  <2>2. CounterIsWaiting'
    BY <1>2, <1>3, <1>6, <2>1, ThreadsCounted DEF CounterIsWaiting
  <2>3. WaitersWait'
    BY <1>1, <2>1 DEF WaitersWait
  <2>4. ASSUME NEW u \in Threads PROVE Passed(u)' = Passed(u)
    BY <1>1, <1>2, <2>1 DEF Passed, Ahead
  <2>5. SameStage'
    BY <2>4 DEF SameStage
  <2> QED BY <1>4, <2>2, <2>3, <2>5
<1> QED BY <1>5, <1>6

(* The other steps pass no barrier. *)
LEMMA LocalStep ==
  ASSUME Inv, TypeOK', UNCHANGED <<limit, counter, waiting>>,
         NEW t \in Threads,
         \/ t = leader /\ Announce
         \/ SpinOver(t) \/ Count(t) \/ StartCompare(t) \/ NextIteration(t) \/ Exit(t)
  PROVE  Inv'
<1> USE DEF Inv, TypeOK, At, Goto
<1>1. t \notin waiting /\ \A u \in Threads \ {t} : pc'[u] = pc[u] /\ bv'[u] = bv[u]
  BY DEF Announce, SpinOver, Count, StartCompare, NextIteration, Exit
<1>2. SetUp'
  BY BarrierAssumption
     DEF SetUp, Announce, SpinOver, Count, StartCompare, NextIteration, Exit
<1>3. WaitersWait'
  BY <1>1 DEF WaitersWait
<1>4. CounterIsWaiting'
  <2>1. CASE Announce
    <3>1. ~initialized /\ waiting = {} /\ limit = Cardinality(Threads)
      BY <2>1, BarrierAssumption DEF Announce, SetUp
    <3> QED BY <3>1, FS_EmptySet, ThreadsCounted DEF CounterIsWaiting
  <2>2. CASE UNCHANGED initialized
    BY <2>2 DEF CounterIsWaiting
  <2> QED BY <2>1, <2>2 DEF SpinOver, Count, StartCompare, NextIteration, Exit
<1>5. Passed(t)' = Passed(t)
  BY <1>1 DEF Passed, Ahead, Announce, SpinOver, Count, StartCompare, NextIteration, Exit
<1>6. \A u \in Threads : Passed(u)' = Passed(u)
  BY <1>1, <1>5 DEF Passed, Ahead
<1>7. SameStage'
  BY <1>6 DEF SameStage
<1> QED BY <1>2, <1>3, <1>4, <1>7

(* Every step keeps the invariant. *)
LEMMA NextInv ==
  ASSUME Inv, [Next]_vars
  PROVE  Inv'
<1>1. TypeOK'
  BY TypeStep DEF Inv
<1>2. CASE UNCHANGED vars
  BY <1>2 DEF vars, Inv, TypeOK, SetUp, WaitersWait, CounterIsWaiting, SameStage, Passed, Ahead
<1>3. CASE BarrierInit
  <2> USE <1>3 DEF Inv, TypeOK, BarrierInit, At, Goto
  <2>1. SetUp'
    BY BarrierAssumption DEF SetUp
  <2>2. WaitersWait' /\ CounterIsWaiting'
    BY FS_EmptySet, BarrierAssumption DEF WaitersWait, CounterIsWaiting, SetUp
  <2>3. \A u \in Threads : Passed(u)' = Passed(u)
    BY DEF Passed, Ahead, SetUp
  <2> QED BY <1>1, <2>1, <2>2, <2>3 DEF SameStage
<1>4. ASSUME NEW t \in Threads, Step(t), ~BarrierInit PROVE Inv'
  BY <1>1, <1>4, WaitStep, LocalStep
     DEF Step, Announce, SpinOver, Count, StartCompare, NextIteration, Exit
<1> QED BY <1>2, <1>3, <1>4 DEF Next

(* The invariant holds whenever the barrier is used. *)
THEOREM Invariance == Spec => []Inv
<1>1. Inv /\ [Next]_vars => Inv'
  BY NextInv
<1> QED BY <1>1, InitInv, PTL DEF Spec

(* The barrier and the test's variables keep their types. *)
THEOREM TypeCorrect == Spec => []TypeOK
<1>1. Inv => TypeOK
  BY DEF Inv
<1> QED BY <1>1, Invariance, PTL

(* The assertions of barrier_test.c hold, for any number of threads: a     *)
(* thread that compares has one more barrier to pass in its iteration, so  *)
(* everybody else has as well and is in the same iteration.                *)
THEOREM AssertionsHold == Spec => []CountsAgree
<1>1. ASSUME Inv PROVE CountsAgree
  <2> SUFFICES ASSUME NEW t \in Threads, NEW u \in Threads, At(t, "compare") \/ At(t, "passed")
               PROVE  bv[u] = bv[t]
    BY DEF CountsAgree
  <2>1. bv[t] \in Int /\ bv[u] \in Int
    BY <1>1 DEF Inv, TypeOK
  <2>2. Passed(t) = 2 * bv[t] - 1
    BY DEF Passed, Ahead, At
  <2>3. Ahead(u) \in {0, 1, 2} /\ Passed(u) = 2 * bv[u] - Ahead(u)
    BY DEF Passed, Ahead
  <2>4. Passed(t) = Passed(u)
    BY <1>1 DEF Inv, SameStage
  <2> QED BY <2>1, <2>2, <2>3, <2>4
<1> QED BY <1>1, Invariance, PTL

(* barrier_wait leaves the barrier ready to be used again at once.         *)
THEOREM Reusable == Spec => []CounterIsWaiting
<1>1. Inv => CounterIsWaiting
  BY DEF Inv
<1> QED BY <1>1, Invariance, PTL

----------------------------------------------------------------------------
(* The philosophers.                                                       *)
Stages == {"start", "think", "one", "two", "eating", "giveone", "givetwo"}

PhilTypeOK ==
  /\ num \in [Forks -> Int]
  /\ blocked \in [Forks -> {<< >>} \cup {<<t>> : t \in Diners}]
  /\ forks_initialized \in BOOLEAN
  /\ eating \in [Diners -> {0, 1}]
  /\ at \in [Diners -> Stages]

(* Nobody touches a fork before num has set them up. *)
ForksSetUp ==
  /\ forks_initialized <=> at[num_th] # "start"
  /\ ~forks_initialized => \A t \in Diners : at[t] = "start"
  /\ ~forks_initialized => \A f \in Forks : blocked[f] = << >>

FlagsTell == \A t \in Diners : eating[t] = 1 <=> at[t] = "eating"

(* t is in, or has just come back from, the semaphore_down of f. *)
Asks(t, f) == (f = First(t) /\ at[t] = "one") \/ (f = Second(t) /\ at[t] = "two")

InUse(t, f) == IF Uses(t, f) THEN 1 ELSE 0

(* Of the two threads t and u that share fork f, one at most goes on.      *)
Shared(f, t, u) ==
  /\ num[f] = 1 - InUse(t, f) - InUse(u, f)
  /\ ~(Uses(t, f) /\ Uses(u, f)) => blocked[f] = << >>
  /\ Uses(t, f) /\ Uses(u, f) =>
       \/ blocked[f] = <<t>> /\ Asks(t, f)
       \/ blocked[f] = <<u>> /\ Asks(u, f)

(* The fork of each pair of threads. *)
ForksShared ==
  forks_initialized =>
    /\ Shared(0, num_th, scroll_th)
    /\ Shared(1, num_th, caps_th)
    /\ Shared(2, caps_th, scroll_th)

PhilInv == PhilTypeOK /\ ForksSetUp /\ FlagsTell /\ ForksShared

----------------------------------------------------------------------------
LEMMA PairCounted ==
  ASSUME NEW x, NEW y, x # y
  PROVE  /\ Cardinality({}) = 0
         /\ IsFiniteSet({x}) /\ Cardinality({x}) = 1
         /\ IsFiniteSet({x, y}) /\ Cardinality({x, y}) = 2
<1>1. IsFiniteSet({x}) /\ Cardinality({x}) = 1
  BY FS_Singleton
<1>2. {x, y} = {x} \cup {y} /\ y \notin {x}
  OBVIOUS
<1>3. IsFiniteSet({x, y}) /\ Cardinality({x, y}) = 2
  BY <1>1, <1>2, FS_AddElement
<1> QED BY <1>1, <1>3, FS_EmptySet

LEMMA DinersDiffer == num_th # caps_th /\ num_th # scroll_th /\ caps_th # scroll_th
<1> SUFFICES ASSUME num_th = caps_th \/ num_th = scroll_th \/ caps_th = scroll_th PROVE FALSE
  OBVIOUS
<1>1. \E x, y : Diners = {x, y}
  BY DEF Diners
<1>2. PICK x, y : Diners = {x, y}
  BY <1>1
<1>3. CASE x = y
  <2>1. Diners = {x}
    BY <1>2, <1>3
  <2> QED BY <2>1, PhilosophersAssumption, FS_Singleton
<1>4. CASE x # y
  <2>1. Cardinality({x, y}) = 2
    BY <1>4, PairCounted
  <2> QED BY <1>2, <2>1, PhilosophersAssumption
<1> QED BY <1>3, <1>4

(* Which forks a thread takes. *)
LEMMA TheForks ==
  /\ First(num_th) = 0 /\ Second(num_th) = 1
  /\ First(caps_th) = 2 /\ Second(caps_th) = 1
  /\ First(scroll_th) = 0 /\ Second(scroll_th) = 2
BY DinersDiffer DEF First, Second

LEMMA PhilInvInit == PhilInit => PhilInv
<1> SUFFICES ASSUME PhilInit PROVE PhilInv
  OBVIOUS
<1>1. \A t \in Diners : at[t] = "start" /\ eating[t] = 0
  BY DEF PhilInit
<1>2. PhilTypeOK
  <2>1. num \in [Forks -> Int]
    BY DEF PhilInit
  <2>2. forks_initialized \in BOOLEAN
    BY DEF PhilInit
  <2>3. blocked \in [Forks -> {<< >>} \cup {<<t>> : t \in Diners}]
    BY DEF PhilInit
  <2>4. eating \in [Diners -> {0, 1}] /\ at \in [Diners -> Stages]
    BY DEF PhilInit, Stages
  <2> QED BY <2>1, <2>2, <2>3, <2>4 DEF PhilTypeOK
<1>3. ForksSetUp
  BY <1>1 DEF PhilInit, ForksSetUp, Diners
<1> QED BY <1>1, <1>2, <1>3 DEF PhilInit, PhilInv, FlagsTell, ForksShared

(* A thread that goes on is in no fork's waiting list. *)
LEMMA AwakeAt ==
  ASSUME PhilInv, NEW t \in Diners, NEW label, DinerAt(t, label)
  PROVE  at[t] = label /\ \A f \in Forks : blocked[f] # <<t>>
<1>1. ASSUME NEW f \in Forks, blocked[f] = <<t>> PROVE FALSE
  <2>1. 1 \in DOMAIN blocked[f] /\ blocked[f][1] = t
    BY <1>1
  <2> QED BY <2>1 DEF DinerAt
<1> QED BY <1>1 DEF DinerAt

(* semaphore_down by t of a fork it shares with u. *)
LEMMA DownShared ==
  ASSUME PhilInv, NEW t \in Diners, NEW u \in Diners, t # u, NEW f \in Forks,
         Shared(f, t, u), Down(t, f), ~Uses(t, f), Uses(t, f)', Asks(t, f)',
         Uses(u, f)' <=> Uses(u, f), Asks(u, f)' <=> Asks(u, f)
  PROVE  Shared(f, t, u)' /\ Shared(f, u, t)' 
         /\ blocked'[f] \in {<< >>} \cup {<<v>> : v \in Diners} /\ num'[f] \in Int
<1>1. /\ num \in [Forks -> Int] /\ blocked[f] = << >> /\ num'[f] = num[f] - 1
      /\ num[f] = 1 - InUse(u, f)
      /\ blocked'[f] = IF num'[f] < 0 THEN Append(blocked[f], t) ELSE blocked[f]
  BY DEF Down, PhilInv, PhilTypeOK, Shared, InUse
<1>2. Append(<< >>, t) = <<t>>
  OBVIOUS
<1> QED BY <1>1, <1>2 DEF Shared, InUse

(* semaphore_up by t, which is not waiting for it. *)
LEMMA UpShared ==
  ASSUME PhilInv, NEW t \in Diners, NEW u \in Diners, t # u, NEW f \in Forks,
         Shared(f, t, u), Up(f), Uses(t, f), ~Uses(t, f)', blocked[f] # <<t>>,
         Uses(u, f)' <=> Uses(u, f)
  PROVE  Shared(f, t, u)' /\ Shared(f, u, t)'
         /\ blocked'[f] \in {<< >>} \cup {<<v>> : v \in Diners} /\ num'[f] \in Int
<1>1. /\ num \in [Forks -> Int] /\ num'[f] = num[f] + 1
      /\ num[f] = - InUse(u, f) 
      /\ blocked'[f] = IF blocked[f] # << >> THEN Tail(blocked[f]) ELSE blocked[f]
      /\ blocked[f] \in {<< >>, <<u>>}
  BY DEF Up, PhilInv, PhilTypeOK, Shared, InUse
<1>2. Tail(<<u>>) = << >>
  OBVIOUS
<1>3. blocked'[f] = << >> /\ num'[f] = 1 - InUse(u, f)
  <2>1. InUse(u, f) \in {0, 1}
    BY DEF InUse
  <2>2. num'[f] = 1 - InUse(u, f)
    BY <1>1, <2>1
  <2>3. CASE blocked[f] = << >>
    BY <1>1, <2>2, <2>3
  <2>4. CASE blocked[f] = <<u>>
    BY <1>1, <1>2, <2>2, <2>4
  <2> QED BY <1>1, <2>3, <2>4
<1>4. InUse(t, f)' = 0 /\ InUse(u, f)' = InUse(u, f) /\ InUse(u, f) \in {0, 1}
  BY DEF InUse
<1> QED BY <1>3, <1>4 DEF Shared

(* No semaphore operation on f: t goes on, if it does not wait for f. *)
LEMMA StillShared ==
  ASSUME NEW t \in Diners, NEW u \in Diners, t # u, NEW f \in Forks,
         Shared(f, t, u), num'[f] = num[f], blocked'[f] = blocked[f],
         Uses(t, f)' <=> Uses(t, f), Uses(u, f)' <=> Uses(u, f),
         blocked[f] # <<t>> \/ (Asks(t, f)' <=> Asks(t, f)),
         Asks(u, f)' <=> Asks(u, f)
  PROVE  Shared(f, t, u)' /\ Shared(f, u, t)'
BY DEF Shared, InUse

LEMMA SharedBy == ASSUME NEW f, NEW t, NEW u PROVE Shared(f, t, u) <=> Shared(f, u, t)
BY DEF Shared, InUse

(* A step of t, by the fork that t has in common with u. *)
LEMMA DinerShared ==
  ASSUME PhilInv, NEW t \in Diners, NEW u \in Diners, t # u, NEW f \in Forks,
         f \in {First(t), Second(t)}, First(t) # Second(t), First(t) \in Forks, Second(t) \in Forks,
         Shared(f, t, u), Diner(t), ~InitForks
  PROVE  Shared(f, t, u)' /\ Shared(f, u, t)'
         /\ blocked'[f] \in {<< >>} \cup {<<v>> : v \in Diners} /\ num'[f] \in Int
<1> USE DEF PhilInv, PhilTypeOK
<1>1. /\ at'[u] = at[u]
  BY DEF Diner, DinerGoto, AwaitForks, TakeFirst, TakeSecond, StartEating, StopEating, GiveFirst, GiveSecond
<1>2. (Uses(u, f)' <=> Uses(u, f)) /\ (Asks(u, f)' <=> Asks(u, f))
  BY <1>1 DEF Uses, Asks
<1>3. CASE AwaitForks(t) \/ StartEating(t) \/ StopEating(t)
  <2>1. PICK label : DinerAt(t, label) /\ label \in {"start", "two", "eating"}
    BY <1>3 DEF AwaitForks, StartEating, StopEating
  <2>2. at[t] = label /\ blocked[f] # <<t>>
    BY <2>1, AwakeAt
  <2>3. num' = num /\ blocked' = blocked /\ (Uses(t, f)' <=> Uses(t, f))
    BY <1>3 DEF AwaitForks, StartEating, StopEating, DinerAt, DinerGoto, Uses
  <2> QED BY <1>2, <2>2, <2>3, StillShared
<1>4. CASE TakeFirst(t)
  <2>1. at[t] = "think" /\ at'[t] = "one" /\ Down(t, First(t)) /\ blocked[f] # <<t>>
    BY <1>4, AwakeAt DEF TakeFirst, DinerGoto
  <2>2. CASE f = First(t)
    <3>1. ~Uses(t, f) /\ Uses(t, f)' /\ Asks(t, f)'
      BY <2>1, <2>2 DEF Uses, Asks
    <3> QED BY <1>2, <2>1, <2>2, <3>1, DownShared
  <2>3. CASE f # First(t)
    <3>1. num'[f] = num[f] /\ blocked'[f] = blocked[f] /\ (Uses(t, f)' <=> Uses(t, f))
      BY <2>1, <2>3 DEF Down, Uses
    <3> QED BY <1>2, <2>1, <3>1, StillShared
  <2> QED BY <2>2, <2>3
<1>5. CASE TakeSecond(t)
  <2>1. at[t] = "one" /\ at'[t] = "two" /\ Down(t, Second(t)) /\ blocked[f] # <<t>>
    BY <1>5, AwakeAt DEF TakeSecond, DinerGoto
  <2>2. CASE f = Second(t)
    <3>1. ~Uses(t, f) /\ Uses(t, f)' /\ Asks(t, f)'
      BY <2>1, <2>2 DEF Uses, Asks
    <3> QED BY <1>2, <2>1, <2>2, <3>1, DownShared
  <2>3. CASE f # Second(t)
    <3>1. num'[f] = num[f] /\ blocked'[f] = blocked[f] /\ (Uses(t, f)' <=> Uses(t, f))
      BY <2>1, <2>3 DEF Down, Uses
    <3> QED BY <1>2, <2>1, <3>1, StillShared
  <2> QED BY <2>2, <2>3
<1>6. CASE GiveFirst(t)
  <2>1. at[t] = "giveone" /\ at'[t] = "givetwo" /\ Up(First(t)) /\ blocked[f] # <<t>>
    BY <1>6, AwakeAt DEF GiveFirst, DinerGoto
  <2>2. CASE f = First(t)
    <3>1. Uses(t, f) /\ ~Uses(t, f)'
      BY <2>1, <2>2 DEF Uses
    <3> QED BY <1>2, <2>1, <2>2, <3>1, UpShared
  <2>3. CASE f # First(t)
    <3>1. num'[f] = num[f] /\ blocked'[f] = blocked[f] /\ (Uses(t, f)' <=> Uses(t, f))
      BY <2>1, <2>3 DEF Up, Uses
    <3> QED BY <1>2, <2>1, <3>1, StillShared
  <2> QED BY <2>2, <2>3
<1>7. CASE GiveSecond(t)
  <2>1. at[t] = "givetwo" /\ at'[t] = "think" /\ Up(Second(t)) /\ blocked[f] # <<t>>
    BY <1>7, AwakeAt DEF GiveSecond, DinerGoto
  <2>2. CASE f = Second(t)
    <3>1. Uses(t, f) /\ ~Uses(t, f)'
      BY <2>1, <2>2 DEF Uses
    <3> QED BY <1>2, <2>1, <2>2, <3>1, UpShared
  <2>3. CASE f # Second(t)
    <3>1. num'[f] = num[f] /\ blocked'[f] = blocked[f] /\ (Uses(t, f)' <=> Uses(t, f))
      BY <2>1, <2>3 DEF Up, Uses
    <3> QED BY <1>2, <2>1, <3>1, StillShared
  <2> QED BY <2>2, <2>3
<1> QED BY <1>3, <1>4, <1>5, <1>6, <1>7 DEF Diner

(* num lays the forks out while nobody has one. *)
LEMMA InitForksStep ==
  ASSUME PhilInv, InitForks
  PROVE  PhilInv'
<1> USE DEF PhilInv
<1>1. /\ at[num_th] = "start" /\ ~forks_initialized /\ forks_initialized'
      /\ at' = [at EXCEPT ![num_th] = "think"] /\ eating' = eating
      /\ num' = [f \in Forks |-> 1] /\ blocked' = [f \in Forks |-> << >>]
      /\ num_th \in Diners
  BY DEF InitForks, DinerAt, DinerGoto, ForksSetUp, Diners
<1>2. at' \in [Diners -> Stages] /\ eating' \in [Diners -> {0, 1}]
  BY <1>1 DEF PhilTypeOK, Stages
<1>3. num' \in [Forks -> Int]
  BY <1>1
<1>4. blocked' \in [Forks -> {<< >>} \cup {<<t>> : t \in Diners}]
  BY <1>1
<1>5. forks_initialized' \in BOOLEAN
  BY DEF InitForks
<1>6. \A t \in Diners : at'[t] \in {"start", "think"}
  BY <1>1 DEF ForksSetUp, PhilTypeOK
<1>7. \A t \in Diners, f \in Forks : ~Uses(t, f)'
  BY <1>6 DEF Uses
<1>8. ForksSetUp'
  BY <1>1 DEF ForksSetUp, PhilTypeOK
<1>9. FlagsTell'
  BY <1>1, <1>6 DEF FlagsTell, PhilTypeOK
<1>10. ForksShared'
  <2>1. 0 \in Forks /\ 1 \in Forks /\ 2 \in Forks
    BY DEF Forks
  <2> QED BY <1>1, <1>7, <2>1 DEF ForksShared, Shared, InUse, Diners
<1> QED BY <1>2, <1>3, <1>4, <1>5, <1>8, <1>9, <1>10 DEF PhilTypeOK

LEMMA DinerStep ==
  ASSUME PhilInv, NEW t \in Diners, Diner(t), ~InitForks
  PROVE  PhilInv'
<1> USE DEF PhilInv
<1>1. /\ First(t) \in Forks /\ Second(t) \in Forks /\ First(t) # Second(t)
      /\ 0 \in Forks /\ 1 \in Forks /\ 2 \in Forks
      /\ num_th \in Diners /\ caps_th \in Diners /\ scroll_th \in Diners
  BY TheForks DEF Diners, Forks
<1>2. forks_initialized /\ forks_initialized' = forks_initialized
  BY DEF Diner, AwaitForks, TakeFirst, TakeSecond, StartEating, StopEating, GiveFirst,
    GiveSecond, DinerAt, ForksSetUp
<1>3. /\ at' \in [Diners -> Stages] /\ at'[t] # "start"
      /\ \A u \in Diners : u # t => at'[u] = at[u]
  BY DEF Diner, AwaitForks, TakeFirst, TakeSecond, StartEating, StopEating, GiveFirst,
    GiveSecond, DinerGoto, PhilTypeOK, Stages
<1>4. ForksSetUp'
  BY <1>1, <1>2, <1>3 DEF ForksSetUp
<1>5. eating' \in [Diners -> {0, 1}] /\ FlagsTell'
  <2>1. CASE AwaitForks(t) \/ TakeFirst(t) \/ TakeSecond(t) \/ GiveFirst(t) \/ GiveSecond(t)
    <3>1. /\ eating' = eating /\ at[t] # "eating"
          /\ at'[t] \in {"think", "one", "two", "givetwo"}
      BY <2>1 DEF AwaitForks, TakeFirst, TakeSecond, GiveFirst, GiveSecond, DinerAt, DinerGoto, PhilTypeOK
    <3> QED BY <1>3, <3>1 DEF FlagsTell, PhilTypeOK
  <2>2. CASE StartEating(t) \/ StopEating(t)
    BY <1>3, <2>2 DEF StartEating, StopEating, DinerGoto, FlagsTell, PhilTypeOK
  <2> QED BY <2>1, <2>2 DEF Diner
<1>6. /\ DOMAIN num' = Forks /\ DOMAIN blocked' = Forks /\ num' = [f \in Forks |-> num'[f]]
      /\ blocked' = [f \in Forks |-> blocked'[f]]
      /\ \A f \in Forks : f \notin {First(t), Second(t)} => num'[f] = num[f] /\ blocked'[f] = blocked[f]
  BY <1>1 DEF Diner, AwaitForks, TakeFirst, TakeSecond, StartEating, StopEating, GiveFirst,
    GiveSecond, Down, Up, PhilTypeOK
<1>7. ASSUME NEW f \in Forks, NEW u \in Diners, u # t, f \in {First(t), Second(t)}, Shared(f, t, u)
      PROVE  /\ Shared(f, t, u)' /\ Shared(f, u, t)'
             /\ blocked'[f] \in {<< >>} \cup {<<v>> : v \in Diners} /\ num'[f] \in Int
  BY <1>1, <1>7, DinerShared
<1>8. ASSUME NEW f \in Forks, NEW u \in Diners, NEW v \in Diners, u # t, v # t, u # v,
             f \notin {First(t), Second(t)}, Shared(f, u, v)
      PROVE  Shared(f, u, v)'
  <2>1. num'[f] = num[f] /\ blocked'[f] = blocked[f]
    BY <1>6, <1>8
  <2>2. at'[u] = at[u] /\ at'[v] = at[v]
    BY <1>3, <1>8
  <2> QED BY <1>8, <2>1, <2>2 DEF Shared, InUse, Uses, Asks
<1>9. /\ Shared(0, num_th, scroll_th) /\ Shared(1, num_th, caps_th) /\ Shared(2, caps_th, scroll_th)
      /\ Shared(0, scroll_th, num_th) /\ Shared(1, caps_th, num_th) /\ Shared(2, scroll_th, caps_th)
  BY <1>2, SharedBy DEF ForksShared
<1>10. ForksShared' /\ \A f \in Forks : num'[f] \in Int /\ blocked'[f] \in {<< >>} \cup {<<v>> : v \in Diners}
  <2>1. ASSUME NEW f \in Forks, f \notin {First(t), Second(t)}
        PROVE  num'[f] \in Int /\ blocked'[f] \in {<< >>} \cup {<<v>> : v \in Diners}
    BY <1>6, <2>1 DEF PhilTypeOK
  <2>2. CASE t = num_th
    BY <1>1, <1>7, <1>8, <1>9, <2>1, <2>2, TheForks, DinersDiffer DEF ForksShared, Forks
  <2>3. CASE t = caps_th
    BY <1>1, <1>7, <1>8, <1>9, <2>1, <2>3, TheForks, DinersDiffer DEF ForksShared, Forks
  <2>4. CASE t = scroll_th
    BY <1>1, <1>7, <1>8, <1>9, <2>1, <2>4, TheForks, DinersDiffer DEF ForksShared, Forks
  <2> QED BY <2>2, <2>3, <2>4 DEF Diners
<1>11. num' \in [Forks -> Int] /\ blocked' \in [Forks -> {<< >>} \cup {<<v>> : v \in Diners}]
  BY <1>6, <1>10
<1>12. forks_initialized' \in BOOLEAN
  BY <1>2 DEF PhilTypeOK
<1>13. PhilTypeOK'
  BY <1>3, <1>5, <1>11, <1>12 DEF PhilTypeOK
<1> QED BY <1>4, <1>5, <1>10, <1>13

(* One fork's semaphore says how many of the two that share it use it. *)
LEMMA SharedCounted ==
  ASSUME PhilInv, NEW f \in Forks, NEW t \in Diners, NEW u \in Diners, t # u, Shared(f, t, u),
         \A v \in Diners : Uses(v, f) => v \in {t, u}
  PROVE  /\ num[f] = 1 - Cardinality({v \in Diners : Uses(v, f)})
         /\ Len(blocked[f]) = IF num[f] < 0 THEN 0 - num[f] ELSE 0
<1> DEFINE S == {v \in Diners : Uses(v, f)}
<1>1. CASE Uses(t, f) /\ Uses(u, f)
  <2>1. S = {t, u}
    BY <1>1
  <2>2. Cardinality(S) = 2
    BY <2>1, PairCounted
  <2>3. blocked[f] \in {<<t>>, <<u>>}
    BY <1>1 DEF Shared, InUse
  <2>4. num[f] = 1 - 2
    BY <1>1 DEF Shared, InUse
  <2>5. Len(<<t>>) = 1 /\ Len(<<u>>) = 1
    OBVIOUS
  <2>6. Len(blocked[f]) = 1
    BY <2>3, <2>5
  <2> HIDE DEF S
  <2>7. num[f] = 1 - Cardinality(S)
    BY <2>2, <2>4
  <2>8. num[f] \in Int /\ num[f] < 0 /\ 0 - num[f] = 1
    BY <2>4
  <2>9. Len(blocked[f]) = IF num[f] < 0 THEN 0 - num[f] ELSE 0
    BY <2>6, <2>8
  <2> QED BY <2>7, <2>9 DEF S
<1>2. CASE ~(Uses(t, f) /\ Uses(u, f))
  <2>1. blocked[f] = << >> /\ num[f] = 1 - InUse(t, f) - InUse(u, f)
    BY <1>2 DEF Shared
  <2>2. Len(blocked[f]) = 0
    BY <2>1
  <2>3. Cardinality(S) = InUse(t, f) + InUse(u, f)
    <3>1. CASE Uses(t, f) \/ Uses(u, f)
      <4>1. S \in {{t}, {u}}
        BY <1>2, <3>1
      <4>2. Cardinality(S) = 1
        BY <4>1, FS_Singleton
      <4> QED BY <1>2, <3>1, <4>2 DEF InUse
    <3>2. CASE ~Uses(t, f) /\ ~Uses(u, f)
      <4>1. S = {}
        BY <3>2
      <4>2. Cardinality(S) = 0
        BY <4>1, FS_EmptySet
      <4> QED BY <3>2, <4>2 DEF InUse
    <3> QED BY <3>1, <3>2
  <2>4. InUse(t, f) \in {0, 1} /\ InUse(u, f) \in {0, 1} /\ InUse(t, f) + InUse(u, f) < 2
    BY <1>2 DEF InUse
  <2> QED BY <2>1, <2>2, <2>3, <2>4
<1> QED BY <1>1, <1>2

LEMMA ForksCounted == PhilInv => ForksAccounted
<1> SUFFICES ASSUME PhilInv, forks_initialized, NEW f \in Forks
             PROVE  /\ num[f] = 1 - Cardinality({t \in Diners : Uses(t, f)})
                    /\ Len(blocked[f]) = IF num[f] < 0 THEN 0 - num[f] ELSE 0
  BY DEF ForksAccounted
<1>1. Shared(0, num_th, scroll_th) /\ Shared(1, num_th, caps_th) /\ Shared(2, caps_th, scroll_th)
  BY DEF PhilInv, ForksShared
<1>2. /\ \A v \in Diners : Uses(v, 0) => v \in {num_th, scroll_th}
      /\ \A v \in Diners : Uses(v, 1) => v \in {num_th, caps_th}
      /\ \A v \in Diners : Uses(v, 2) => v \in {caps_th, scroll_th}
  BY TheForks DEF Uses, Diners
<1>3. num_th \in Diners /\ caps_th \in Diners /\ scroll_th \in Diners
  BY DEF Diners
<1>4. CASE f = 0
  BY <1>1, <1>2, <1>3, <1>4, SharedCounted, DinersDiffer
<1>5. CASE f = 1
  BY <1>1, <1>2, <1>3, <1>5, SharedCounted, DinersDiffer
<1>6. CASE f = 2
  BY <1>1, <1>2, <1>3, <1>6, SharedCounted, DinersDiffer
<1> QED BY <1>4, <1>5, <1>6 DEF Forks

(* Who eats has both forks, so neither neighbour has more than one. *)
LEMMA EatsAlone == PhilInv => OneEats
<1> SUFFICES ASSUME PhilInv, NEW t \in Diners, NEW u \in Diners \ {t},
                    at[t] = "eating", eating[u] # 0
             PROVE  FALSE
  BY DEF OneEats
<1>1. at[u] = "eating"
  BY DEF PhilInv, PhilTypeOK, FlagsTell
<1>2. forks_initialized
  BY DEF PhilInv, ForksSetUp
<1>3. ASSUME NEW f \in Forks, NEW v \in Diners, NEW w \in Diners, Shared(f, v, w),
             at[v] = "eating", at[w] = "eating", f \in {First(v), Second(v)}, f \in {First(w), Second(w)}
      PROVE  FALSE
  BY <1>3 DEF Shared, Uses, Asks
<1>4. Shared(0, num_th, scroll_th) /\ Shared(1, num_th, caps_th) /\ Shared(2, caps_th, scroll_th)
  BY <1>2 DEF PhilInv, ForksShared
<1>5. 0 \in Forks /\ 1 \in Forks /\ 2 \in Forks
  BY DEF Forks
<1> QED BY <1>1, <1>3, <1>4, <1>5, TheForks DEF Diners

----------------------------------------------------------------------------
(* Both programs on one CPU: they share nothing else, so that each keeps   *)
(* its invariant. *)
P3Inv == Inv /\ PhilInv

(* thread.c of P3 keeps the invariants of both test programs on one CPU. *)
THEOREM P3Invariance == P3Spec => []P3Inv
<1>1. P3Init => P3Inv
  BY InitInv, PhilInvInit DEF P3Init, P3Inv
<1>2. ASSUME P3Inv, [P3Next]_P3vars PROVE P3Inv'
  <2>1. ASSUME UNCHANGED pvars PROVE PhilInv'
    BY <1>2, <2>1 DEF P3Inv, PhilInv, PhilTypeOK, ForksSetUp, FlagsTell, ForksShared, Shared,
      InUse, Uses, Asks, pvars
  <2>2. CASE UNCHANGED P3vars
    BY <1>2, <2>1, <2>2, NextInv DEF P3Inv, P3vars
  <2>3. ASSUME NEW t \in Threads, BarrierStep(t) PROVE P3Inv'
    BY <1>2, <2>1, <2>3, NextInv DEF P3Inv, BarrierStep, Next
  <2>4. ASSUME NEW t \in Diners, PhilosopherStep(t) PROVE P3Inv'
    BY <1>2, <2>4, InitForksStep, DinerStep, NextInv DEF P3Inv, PhilosopherStep
  <2> QED BY <1>2, <2>2, <2>3, <2>4 DEF P3Next
<1> QED BY <1>1, <1>2, PTL DEF P3Spec

(* philosophers.c: "only one philosopher at a time can eat", whatever the  *)
(* barrier's threads do meanwhile.                                         *)
THEOREM OnePhilosopherEats == P3Spec => []OneEats
<1>1. P3Inv => OneEats
  BY EatsAlone DEF P3Inv
<1> QED BY <1>1, P3Invariance, PTL

(* semaphore_up and semaphore_down of P3: a fork is never lost and never   *)
(* given to two threads.                                                   *)
THEOREM ForksNeverLost == P3Spec => []ForksAccounted
<1>1. P3Inv => ForksAccounted
  BY ForksCounted DEF P3Inv
<1> QED BY <1>1, P3Invariance, PTL

(* The barrier test keeps its guarantees beside the philosophers. *)
THEOREM BarrierHolds == P3Spec => [](CountsAgree /\ CounterIsWaiting)
<1>1. P3Spec => Spec
  <2>1. P3Init => Init
    BY DEF P3Init
  <2>2. [P3Next]_P3vars => [Next]_vars
    BY DEF P3Next, P3vars, BarrierStep, PhilosopherStep, Next
  <2> QED BY <2>1, <2>2, PTL DEF P3Spec, Spec
<1> QED BY <1>1, AssertionsHold, Reusable, PTL
=============================================================================
