---------------------------- MODULE MCFileSystem ----------------------------
EXTENDS FileSystem

NoTrouble == trouble = {}
=============================================================================
