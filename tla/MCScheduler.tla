---------------------------- MODULE MCScheduler ----------------------------
(* Three threads at boot, the clock among them, in a table of four pcbs. *)
EXTENDS Scheduler

CONSTANTS p1, p2, p3

ThreeThreads == <<p1, p2, p3>>
=============================================================================
