---------------------------- MODULE MCMonitor ----------------------------
(* Four threads on one lock and two conditions, calling freely. *)
EXTENDS Monitor, TLC

Symmetry == Permutations(Threads) \cup Permutations(Conds)
=============================================================================
