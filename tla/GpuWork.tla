------------------------------- MODULE GpuWork -------------------------------
(***************************************************************************)
(* What the front end, the render thread and the timeline promise together *)
(* about the GPU's work.  The work is cut into pieces numbered 1, 2, ...   *)
(* A piece may bring landings: memory the title sees once the piece is     *)
(* completed.  Pieces complete in order, none before the GPU has run it    *)
(* nor before the landings asked of it are made.  A landing is made once,  *)
(* with the piece it was asked of and the earlier ones, or at once if the  *)
(* landings of that piece are in.  What the GPU was to write for it lands, *)
(* except that of a landing asked for late, when its piece was closed.     *)
(* Only the loss of the device ends the waiting for pieces the GPU never   *)
(* ran, and lands what the GPU never wrote (nothing, or what was there     *)
(* before).                                                                *)
(***************************************************************************)
EXTENDS Integers, Sequences

CONSTANT Forever        (* Past every piece's number.                      *)

VARIABLES
  made,         (* The pieces closed so far.                               *)
  ran,          (* Those the GPU has run.                                  *)
  completed,    (* Those whose completion threads can see.                 *)
  landings,     (* The landings asked for: of which piece, what (see       *)
                (* Kinds), and how far.                                    *)
  lost          (* The device is lost.                                     *)

promised == << made, ran, completed, landings, lost >>

(* What the GPU copies, asked for in time or late; a copy asked for of an  *)
(* image with nothing to copy; what needs no copy of the GPU's.            *)
Kinds == {"read", "late", "empty", "note"}
Ends == {"landed", "dropped", "garbage"}

Ending(kind) ==
  CASE kind = "note" -> {"landed"}
    [] kind = "empty" -> {"dropped"}
    [] kind = "read" -> IF lost THEN Ends ELSE {"landed"}
    [] kind = "late" -> IF lost THEN Ends ELSE {"landed", "dropped"}

Init == made = 0 /\ ran = 0 /\ completed = 0 /\ landings = << >> /\ lost = FALSE

(* The open piece is closed; the GPU runs some more of what is closed.     *)
Make == made' = made + 1 /\ UNCHANGED << ran, completed, landings, lost >>

Run == /\ ran' \in (ran + 1)..made
       /\ UNCHANGED << made, completed, landings, lost >>

(* The pieces up to v are done, their landings may be made.                *)
Reached(v) == v <= ran \/ lost
Settled(v) == {n \in DOMAIN landings : landings[n].piece <= v}
AllMade(v) == \A n \in Settled(v) : landings[n].at # "asked"

(* A landing is asked for, of the open piece or of one that is closed.     *)
Ask(v, kind) ==
  /\ kind = "read" => v = made + 1
  /\ \/ /\ v > completed
        /\ landings' = Append(landings, [piece |-> v, kind |-> kind, at |-> "asked"])
     \/ /\ Reached(v) /\ AllMade(v)
        /\ \E end \in Ending(kind) :
             landings' = Append(landings, [piece |-> v, kind |-> kind, at |-> end])
  /\ UNCHANGED << made, ran, completed, lost >>

(* Those of the pieces up to v are made, in one go.                        *)
Land(v) ==
  /\ Reached(v) /\ ~AllMade(v)
  /\ DOMAIN landings' = DOMAIN landings
  /\ \A n \in DOMAIN landings :
       IF n \in Settled(v) /\ landings[n].at = "asked"
       THEN \E end \in Ending(landings[n].kind) :
              landings'[n] = [landings[n] EXCEPT !.at = end]
       ELSE landings'[n] = landings[n]
  /\ UNCHANGED << made, ran, completed, lost >>

Complete(v) ==
  /\ v > completed
  /\ v <= ran \/ (v = Forever /\ lost)
  /\ AllMade(v)
  /\ completed' = v
  /\ UNCHANGED << made, ran, landings, lost >>

Lose == lost' = TRUE /\ UNCHANGED << made, ran, completed, landings >>

Next ==
  \/ Make \/ Run \/ Lose
  \/ \E v \in 1..(made + 1), kind \in Kinds : Ask(v, kind)
  \/ \E v \in 1..Forever : Land(v) \/ Complete(v)

Spec == Init /\ [][Next]_promised
=============================================================================
