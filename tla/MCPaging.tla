------------------------------ MODULE MCPaging ------------------------------
(* Three processes on four frames, one pinned by the kernel and one by     *)
(* every process: two frames to share, then one, then none.                *)
EXTENDS Paging

CONSTANTS v1, v2

MCVPages == {<<1, v1>>, <<2, v1>>, <<2, v2>>}
MCFlaky  == {<<2, v2>>}
============================================================================
