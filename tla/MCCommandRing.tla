---------------------------- MODULE MCCommandRing ----------------------------
(* A ring of six units, twice that of positions; commands of one, two and  *)
(* three.                                                                 *)
EXTENDS CommandRing

MCUnitsOf == [cmd \in Commands |-> CASE cmd = "state" -> 1 [] cmd = "kick" -> 2 [] cmd = "draw" -> 3]
=============================================================================
