------------------------------ MODULE MCClock ------------------------------
(***************************************************************************)
(* Instances of Clock for TLC.                                             *)
(***************************************************************************)
EXTENDS Clock, TLC

CONSTANTS once, periodic, waiter
TwoTimers == once :> 0 @@ periodic :> 2
=============================================================================
