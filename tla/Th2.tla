-------------------------------- MODULE Th2 --------------------------------
(***************************************************************************)
(* th2.c: thread2 and thread3 take turns on shared_var inside one monitor. *)
(* thread3 increments it when it is a multiple of 3 and thread2 when it is *)
(* not, each waking the other when the turn changes. They are clients of   *)
(* the fine-grained monitor, so every preemption inside the primitives is  *)
(* part of the behaviour; the yield() calls in the code add none.          *)
(***************************************************************************)
EXTENDS Monitor

CONSTANTS
  thread2, thread3,
  c0mod3, cnot0mod3,
  Rounds,       \* turns of thread3's loop (100); thread2's has twice as many
  SignalBelow   \* below this value of shared_var signal, from it on broadcast (20)

ASSUME Th2Assumption ==
  /\ Threads = {thread2, thread3} /\ thread2 # thread3
  /\ Conds = {c0mod3, cnot0mod3} /\ c0mod3 # cnot0mod3
  /\ Rounds \in Nat \ {0}
  /\ SignalBelow \in Nat

VARIABLES shared_var, exit_count, init, tmp, i, stage

th2vars == <<shared_var, exit_count, init, tmp, i, stage>>
allvars == <<vars, th2vars>>

Turns(t) == IF t = thread2 THEN 2 * Rounds ELSE Rounds

MyTurn(t)    == IF t = thread2 THEN shared_var % 3 # 0 ELSE shared_var % 3 = 0
OthersTurn(t) == ~MyTurn(t)
MyCond(t)    == IF t = thread2 THEN cnot0mod3 ELSE c0mod3
OthersCond(t) == IF t = thread2 THEN c0mod3 ELSE cnot0mod3

Th2Init ==
  /\ Init
  /\ shared_var = 0 /\ exit_count = 0 /\ init = FALSE
  /\ tmp = [t \in Threads |-> 0]
  /\ i = [t \in Threads |-> 0]
  /\ stage = [t \in Threads |-> "start"]

Stage(t, s) == stage' = [stage EXCEPT ![t] = s]

(* thread2 initializes the monitor; thread3 yields until it sees init. *)
Begin(t) ==
  /\ stage[t] = "start"
  /\ IF t = thread2 THEN init' = TRUE ELSE init /\ UNCHANGED init
  /\ Stage(t, "loop")
  /\ UNCHANGED <<vars, shared_var, exit_count, tmp, i>>

(* lock_acquire at the top of the loop, or after the last turn *)
EnterMonitor(t) ==
  /\ stage[t] = "loop"
  /\ CallAcquire(t)
  /\ Stage(t, IF i[t] < Turns(t) THEN "update" ELSE "final")
  /\ UNCHANGED <<shared_var, exit_count, init, tmp, i>>

WaitForTurn(t) ==
  /\ stage[t] = "update" /\ pc[t] = "in"
  /\ ~MyTurn(t)
  /\ CallWait(t, MyCond(t))
  /\ UNCHANGED th2vars

ReadShared(t) ==
  /\ stage[t] = "update" /\ pc[t] = "in"
  /\ MyTurn(t)
  /\ tmp' = [tmp EXCEPT ![t] = shared_var]
  /\ Stage(t, "pass")
  /\ UNCHANGED <<vars, shared_var, exit_count, init, i>>

WriteShared(t) ==
  /\ stage[t] = "pass"
  /\ shared_var' = tmp[t] + 1
  /\ Stage(t, "leave")
  /\ UNCHANGED <<vars, exit_count, init, tmp, i>>

(* Mutant: the thread wakes its own condition. *)
PassTurnOwn(t) ==
  /\ stage[t] = "leave" /\ pc[t] = "in"
  /\ OthersTurn(t)
  /\ IF shared_var < SignalBelow
       THEN CallSignal(t, MyCond(t))
       ELSE CallBroadcast(t, MyCond(t))
  /\ Stage(t, "gone")
  /\ UNCHANGED <<shared_var, exit_count, init, tmp, i>>

(* the turn changes: wake the other thread *)
PassTurn(t) ==
  /\ stage[t] = "leave" /\ pc[t] = "in"
  /\ OthersTurn(t)
  /\ IF shared_var < SignalBelow
       THEN CallSignal(t, OthersCond(t))
       ELSE CallBroadcast(t, OthersCond(t))
  /\ Stage(t, "gone")
  /\ UNCHANGED <<shared_var, exit_count, init, tmp, i>>

LeaveMonitor(t) ==
  /\ stage[t] = "gone" \/ (stage[t] = "leave" /\ MyTurn(t))
  /\ CallRelease(t)
  /\ i' = [i EXCEPT ![t] = @ + 1]
  /\ Stage(t, "loop")
  /\ UNCHANGED <<shared_var, exit_count, init, tmp>>

CountExit(t) ==
  /\ stage[t] = "final"
  /\ CallRelease(t)
  /\ exit_count' = exit_count + 1
  /\ Stage(t, "exited")
  /\ UNCHANGED <<shared_var, init, tmp, i>>

Thread(t) ==
  \/ Begin(t) \/ EnterMonitor(t) \/ WaitForTurn(t) \/ ReadShared(t)
  \/ WriteShared(t) \/ PassTurn(t) \/ LeaveMonitor(t) \/ CountExit(t)
  \/ Step(t) /\ UNCHANGED th2vars

Th2Next == \E t \in Threads : Thread(t)

(* The ready queue is a ring and irq0 takes the CPU away, so every thread  *)
(* that stays able to run gets to run.                                     *)
Th2Spec == Th2Init /\ [][Th2Next]_allvars /\ \A t \in Threads : WF_allvars(Thread(t))

----------------------------------------------------------------------------
(* Both threads finish, no wake-up lost on either condition and neither    *)
(* left waiting when the other has exited, and then the sum is the number  *)
(* of their turns ("shared_var == 300" in print_trace's OK).               *)
BothReportOK ==
  <>(/\ \A t \in Threads : stage[t] = "exited" /\ pc[t] = "out"
     /\ exit_count = 2 /\ shared_var = 3 * Rounds)

=============================================================================
