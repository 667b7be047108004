---------------------------- MODULE MCTh2 ----------------------------
(* Three turns for thread3 and six for thread2, signals first, broadcasts  *)
(* from the middle on.                                                     *)
EXTENDS Th2
=============================================================================
