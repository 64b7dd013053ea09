----------------------------- MODULE MCDiscReads -----------------------------
(* Two slots and three threads in turn, an overlapped read and one that is *)
(* waited for, through one file.                                           *)
EXTENDS DiscReads

MCThreads == {1, 2}
MCThreadOf == [a \in Kapcs |-> 2]
MCEventOf == [r \in Requests |-> "file"]
=============================================================================
