---------------------------- MODULE MCTransport ----------------------------
(* Two-way traffic over a network that does not lose, before the first     *)
(* timeout; and one-way traffic that is lost and repeated.                 *)
EXTENDS Transport

CONSTANTS a, b

TwoWay == [generators |-> {a, b}, losses |-> 0, timeouts |-> FALSE]
OneWay(n) == [generators |-> {a}, losses |-> n, timeouts |-> TRUE]

MCSettings == {TwoWay, OneWay(2)}
=============================================================================
