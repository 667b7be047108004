---------------------------- MODULE MCKeyboard ----------------------------
(* Three threads, each of which may read keys and be interrupted by them;  *)
(* characters of one byte, three with the header, in a buffer of seven.    *)
EXTENDS Keyboard, TLC

Characters == {<<1>>}
Symmetry == Permutations(Threads)
=============================================================================
