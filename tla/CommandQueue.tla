----------------------------- MODULE CommandQueue -----------------------------
(***************************************************************************)
(* What the command ring promises its two threads: the consumer is given   *)
(* the commands published, each once, whole and in the order they were     *)
(* made; and the producer is refused room only while there is something    *)
(* the consumer has not done.                                              *)
(***************************************************************************)
EXTENDS Integers, Sequences

CONSTANTS Commands, NoCommand

VARIABLES
  cmds,     (* The commands made and not yet given to the consumer.        *)
  open,     (* How many of them, the last ones, are not published.         *)
  refused,  (* The producer has been refused room for the next.            *)
  given     (* What the consumer is doing.                                 *)

queue == << cmds, open, refused, given >>

Init == cmds = << >> /\ open = 0 /\ refused = FALSE /\ given = NoCommand

Put(c) == /\ cmds' = Append(cmds, c) /\ open' = open + 1 /\ refused' = FALSE
          /\ UNCHANGED given

Refuse == /\ ~refused /\ (cmds # << >> \/ given # NoCommand)
          /\ refused' = TRUE
          /\ UNCHANGED << cmds, open, given >>

Publish == open' = 0 /\ UNCHANGED << cmds, refused, given >>

Give == /\ given = NoCommand /\ open < Len(cmds)
        /\ given' = Head(cmds) /\ cmds' = Tail(cmds)
        /\ UNCHANGED << open, refused >>

Finish == given' = NoCommand /\ UNCHANGED << cmds, open, refused >>

Next == Refuse \/ Publish \/ Give \/ Finish \/ \E c \in Commands : Put(c)

Spec == Init /\ [][Next]_queue
=============================================================================
