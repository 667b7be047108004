---------------------------- MODULE MCMbox ----------------------------
(* Bodies of no and one byte: with a header of two bytes they take two and *)
(* three of the four bytes of the buffer, so that two small ones fill it   *)
(* (head = tail), a large one makes any other wait, two senders can wait   *)
(* at once and every offset is a wrap point, inside the header too.        *)
EXTENDS Mbox, TLC

SmallAndLarge == {<< >>, <<1>>}
SenderSymmetry == Permutations(Senders)
=============================================================================
