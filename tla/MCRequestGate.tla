---------------------------- MODULE MCRequestGate ----------------------------
(* Two requests at a time, two keys, half seconds.                                *)
EXTENDS RequestGate, TLC

CONSTANTS first, second, old, new

const_Symmetry == Permutations(Requests)
=============================================================================
