---------------------------- MODULE MCStateCache ----------------------------
(***************************************************************************)
(* An instance of StateCache for TLC: the files, the contents and the      *)
(* slots are interchangeable.                                              *)
(***************************************************************************)
EXTENDS StateCache, TLC

Alike == Permutations(Files) \cup Permutations(Contents) \cup Permutations(Slots)
=============================================================================
