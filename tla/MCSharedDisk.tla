---------------------------- MODULE MCSharedDisk ----------------------------
(* Two shells, and room for one directory of each.                         *)
EXTENDS SharedDisk
=============================================================================
