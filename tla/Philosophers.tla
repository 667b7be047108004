---------------------------- MODULE Philosophers ----------------------------
(***************************************************************************)
(* philosophers.c of the third kernel (P3) and the semaphores of its       *)
(* thread.c: three threads and three forks, each fork a semaphore shared   *)
(* by two of them. semaphore_up and semaphore_down are critical regions,   *)
(* so each is one step; a thread that is woken goes on later.              *)
(***************************************************************************)
EXTENDS Integers, Sequences, FiniteSets

CONSTANTS num_th, caps_th, scroll_th  \* num, caps, scroll_th

Diners == {num_th, caps_th, scroll_th}

ASSUME PhilosophersAssumption == Cardinality(Diners) = 3

VARIABLES
  num,                \* semaphore_t.num of each fork
  blocked,            \* semaphore_t.waiting, first blocked first
  forks_initialized,
  eating,             \* num_eating, caps_eating, scroll_eating
  at

pvars == <<num, blocked, forks_initialized, eating, at>>

Forks == 0..2

(* the fork each thread takes, and gives back, first ... *)
First(t) == CASE t = num_th -> 0 [] t = caps_th -> 2 [] t = scroll_th -> 0

(* ... and second *)
Second(t) == CASE t = num_th -> 1 [] t = caps_th -> 1 [] t = scroll_th -> 2

DinerAt(t, label) == at[t] = label /\ \A f \in Forks : \A i \in DOMAIN blocked[f] : blocked[f][i] # t

DinerGoto(t, label) == at' = [at EXCEPT ![t] = label]

(* the statics of philosophers.c *)
PhilInit ==
  /\ num = [f \in Forks |-> 0] /\ blocked = [f \in Forks |-> << >>]
  /\ forks_initialized = FALSE
  /\ eating = [t \in Diners |-> 0]
  /\ at = [t \in Diners |-> "start"]

----------------------------------------------------------------------------
(* semaphore_down *)
Down(t, f) ==
  /\ num' = [num EXCEPT ![f] = @ - 1]
  /\ blocked' = IF num'[f] < 0 THEN [blocked EXCEPT ![f] = Append(@, t)] ELSE blocked

(* Mutant: the woken thread's fork is counted as free as well. *)
UpTwice(f) ==
  /\ num' = [num EXCEPT ![f] = IF blocked[f] # << >> THEN @ + 2 ELSE @ + 1]
  /\ blocked' = IF blocked[f] # << >> THEN [blocked EXCEPT ![f] = Tail(@)] ELSE blocked

(* semaphore_up *)
Up(f) ==
  /\ num' = [num EXCEPT ![f] = @ + 1]
  /\ blocked' = IF blocked[f] # << >> THEN [blocked EXCEPT ![f] = Tail(@)] ELSE blocked

(* Mutant: the other threads are not told. *)
InitForksSilent ==
  /\ DinerAt(num_th, "start")
  /\ num' = [f \in Forks |-> 1] /\ blocked' = [f \in Forks |-> << >>]
  /\ DinerGoto(num_th, "think")
  /\ UNCHANGED <<forks_initialized, eating>>

(* num sets the forks up; nobody looks at them before it says so. *)
InitForks ==
  /\ DinerAt(num_th, "start")
  /\ num' = [f \in Forks |-> 1] /\ blocked' = [f \in Forks |-> << >>]
  /\ forks_initialized' = TRUE
  /\ DinerGoto(num_th, "think")
  /\ UNCHANGED eating

(* while (forks_initialized == 0) yield(); *)
AwaitForks(t) ==
  /\ t # num_th /\ DinerAt(t, "start")
  /\ forks_initialized
  /\ DinerGoto(t, "think")
  /\ UNCHANGED <<num, blocked, forks_initialized, eating>>

TakeFirst(t) ==
  /\ DinerAt(t, "think")
  /\ Down(t, First(t)) /\ DinerGoto(t, "one")
  /\ UNCHANGED <<forks_initialized, eating>>

TakeSecond(t) ==
  /\ DinerAt(t, "one")
  /\ Down(t, Second(t)) /\ DinerGoto(t, "two")
  /\ UNCHANGED <<forks_initialized, eating>>

StartEating(t) ==
  /\ DinerAt(t, "two")
  /\ eating' = [eating EXCEPT ![t] = 1] /\ DinerGoto(t, "eating")
  /\ UNCHANGED <<num, blocked, forks_initialized>>

(* Mutant: the thread gives its forks back and still says that it eats. *)
StopEatingQuietly(t) ==
  /\ DinerAt(t, "eating")
  /\ DinerGoto(t, "giveone")
  /\ UNCHANGED <<num, blocked, forks_initialized, eating>>

(* after the ASSERT and the meal *)
StopEating(t) ==
  /\ DinerAt(t, "eating")
  /\ eating' = [eating EXCEPT ![t] = 0] /\ DinerGoto(t, "giveone")
  /\ UNCHANGED <<num, blocked, forks_initialized>>

GiveFirst(t) ==
  /\ DinerAt(t, "giveone")
  /\ Up(First(t)) /\ DinerGoto(t, "givetwo")
  /\ UNCHANGED <<forks_initialized, eating>>

GiveSecond(t) ==
  /\ DinerAt(t, "givetwo")
  /\ Up(Second(t)) /\ DinerGoto(t, "think")
  /\ UNCHANGED <<forks_initialized, eating>>

Diner(t) ==
  \/ t = num_th /\ InitForks
  \/ AwaitForks(t) \/ TakeFirst(t) \/ TakeSecond(t) \/ StartEating(t) \/ StopEating(t)
  \/ GiveFirst(t) \/ GiveSecond(t)

PhilNext == \E t \in Diners : Diner(t)

----------------------------------------------------------------------------
(* t has fork f, or sleeps in the semaphore_down that asks for it. *)
Uses(t, f) ==
  \/ f = First(t)  /\ at[t] \in {"one", "two", "eating", "giveone"}
  \/ f = Second(t) /\ at[t] \in {"two", "eating", "giveone", "givetwo"}

(* "With three forks only one philosopher at a time can eat": the ASSERT   *)
(* of each thread, whenever in its meal the flags of the others are read.  *)
OneEats ==
  \A t \in Diners : at[t] = "eating" => \A u \in Diners \ {t} : eating[u] = 0

(* The semaphore's number is what is left of the fork: one less for the    *)
(* thread that has it and for each that sleeps, so a fork is neither lost  *)
(* nor given out twice.                                                    *)
ForksAccounted ==
  forks_initialized => \A f \in Forks :
    /\ num[f] = 1 - Cardinality({t \in Diners : Uses(t, f)})
    /\ Len(blocked[f]) = IF num[f] < 0 THEN 0 - num[f] ELSE 0

(* Nobody starves: the forks go to those who wait in turn, and are asked   *)
(* for in an order that leaves no circle.                                  *)
EverybodyEats == \A t \in Diners : []<>(at[t] = "eating")

=============================================================================
