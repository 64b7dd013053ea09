------------------------------ MODULE MCTimeline ------------------------------
(* The decoder, or the guest, and the render thread wait; one landing, of  *)
(* either of two values.                                                   *)
EXTENDS Timeline
=============================================================================
