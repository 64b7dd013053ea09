------------------------------- MODULE Slots -------------------------------
(***************************************************************************)
(* The guest's threads live in a fixed table (kernel.h, NC_MAX_THREADS);   *)
(* whatever walks the table walks it in slot order, so the thread served   *)
(* first is the one in the lowest slot, not the one that waited longest.   *)
(* A thread is its slot number.                                            *)
(***************************************************************************)
EXTENDS Integers, FiniteSets

CONSTANTS
  Threads,    (* The slots in use.                                         *)
  NoThread    (* A thread pointer that is NULL: an OwningThread of 0.      *)

ASSUME ThreadsAssumption ==
  /\ Threads \subseteq Nat
  /\ IsFiniteSet(Threads)
  /\ Threads # {}
  /\ NoThread \notin Threads

(* The first thread of S that a walk of the table meets.                   *)
FirstSlot(S) == CHOOSE t \in S : \A u \in S : t <= u
=============================================================================
