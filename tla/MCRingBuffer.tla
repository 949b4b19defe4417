---------------------------- MODULE MCRingBuffer ----------------------------
(* Elements are interchangeable.                                           *)
EXTENDS RingBuffer, TLC

Symmetry == Permutations(Value)
=============================================================================
