------------------------------ MODULE MCInGold ------------------------------
(***************************************************************************)
(* Small instances of InGold.                                              *)
(***************************************************************************)
EXTENDS InGold, TLC

\* Requests of one kind, and amounts, are interchangeable.
RequestSymmetry == Permutations(Locked) \cup Permutations(Reviews) \cup Permutations(Plain)
=============================================================================
