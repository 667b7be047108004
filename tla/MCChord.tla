------------------------------ MODULE MCChord ------------------------------
EXTENDS Chord
============================================================================
