-------------------------------- MODULE P3 --------------------------------
(* The third kernel (P3) with the threads of its two test programs, which  *)
(* share the CPU and nothing else.                                         *)
EXTENDS Barrier, Philosophers

P3vars == <<vars, pvars>>

P3Init == Init /\ PhilInit

BarrierStep(t)     == Step(t) /\ UNCHANGED pvars
PhilosopherStep(t) == Diner(t) /\ UNCHANGED vars

P3Next == (\E t \in Threads : BarrierStep(t)) \/ (\E t \in Diners : PhilosopherStep(t))

(* irq0 takes the CPU from whoever has it, spinning threads included, and  *)
(* the ready ring moves on; a meal lasts 100 ms and more                   *)
(* (update_keyboard_LED), so it comes in every meal.  A wait for a flag    *)
(* whose loop yields or spins is a step that is not enabled yet.           *)
P3Spec ==
  /\ P3Init /\ [][P3Next]_P3vars
  /\ \A t \in Threads : WF_P3vars(BarrierStep(t))
  /\ \A t \in Diners : WF_P3vars(PhilosopherStep(t))
=============================================================================
