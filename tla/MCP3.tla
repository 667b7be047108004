------------------------------- MODULE MCP3 -------------------------------
(* Three threads and three iterations of the barrier test, six uses of the *)
(* barrier; the philosophers are finite as they stand.                     *)
EXTENDS P3
===========================================================================
