----------------------------- MODULE MCScheduler -----------------------------
(***************************************************************************)
(* Instances of Scheduler for TLC.                                         *)
(***************************************************************************)
EXTENDS Scheduler

EqualOrNot == {1 :> 8 @@ 2 :> 8, 1 :> 8 @@ 2 :> 9}
=============================================================================
