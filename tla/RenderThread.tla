----------------------------- MODULE RenderThread -----------------------------
(***************************************************************************)
(* From the push-buffer decoder's commands to the GPU and back: the front  *)
(* end's ring (front/fe.c), the render thread that records and submits     *)
(* (vk/back.c), and the GPU.  What threads see of the GPU is the promise   *)
(* of the timeline (GpuWork, which Timeline is shown to keep), in one step *)
(* with the GPU's: what it has run is completed, and the back end told.    *)
(*                                                                         *)
(* There is one item that draws use while it is live: a surface, which the *)
(* title destroys, or a visibility test, which it ends, and whose report   *)
(* is written once the GPU has run it.                                     *)
(***************************************************************************)
EXTENDS Integers, Sequences

CONSTANTS
  VALUES,       (* Timeline values made (a bound).                         *)
  FRAMES,       (* Command buffers in turn (HLE_FRAMES).                   *)
  PEND_MAX,     (* The boundaries that share a submit (16).                *)
  CAPACITY      (* The commands the ring has room for.                     *)

Ops == {"state", "draw", "kick", "swap", "destroy", "vis_end"}

ASSUME RenderAssumption ==
  /\ VALUES \in Nat \ {0} /\ FRAMES \in Nat \ {0} /\ PEND_MAX \in Nat \ {0}
  /\ CAPACITY \in Nat \ {0}

Forever == VALUES + 2           (* UINT64_MAX on the timeline.             *)
LIVE == 0                       (* An item with nothing to wait for yet;   *)
PARKED == Forever               (* HLE_SURF_PARKED.                        *)
GONE == Forever + 1

VARIABLES
  ring,     (* The command queue: cmds, those the render thread has not    *)
            (* done, the last `open` of them not published.                *)
  d,        (* The decoder: pc; op, the command it makes next; urgent, if  *)
            (* its commit hurries the render thread; last, g_value, the    *)
            (* values made so far                                          *)
  r,        (* The render thread: pc; pend, the boundaries not submitted   *)
            (* [n, value]; recording; uses, if the recording uses the      *)
            (* item; cur, the frame in use; value, of each frame           *)
  item,     (* The item: kind, "surface" or "report" once that is decided; *)
            (* after: LIVE, PARKED until the next submission, the value    *)
            (* that must be completed for it to go, or GONE                *)
  kick,     (* g_back: event, sleeping.                                    *)
  gpu,      (* queue, what it has to run; completed; lost                  *)
  wait,     (* The value the guest waits for, 0 for none.                  *)
  bnd       (* g_bnd_req, the boundary a guest's store asks for.           *)

vars == << ring, d, r, item, kick, gpu, wait, bnd >>

Init ==
  /\ ring = [cmds |-> << >>, open |-> 0]
  /\ d = [pc |-> "run", op |-> "none", urgent |-> FALSE, last |-> 0]
  /\ r = [pc |-> "reset", pend |-> [n |-> 0, value |-> 0], recording |-> FALSE,
          uses |-> FALSE, cur |-> 0, value |-> [f \in 0..(FRAMES - 1) |-> 0]]
  /\ item = [kind |-> "none", after |-> LIVE]
  /\ kick = [event |-> FALSE, sleeping |-> FALSE]
  /\ gpu = [queue |-> << >>, completed |-> 0, lost |-> FALSE]
  /\ wait = 0
  /\ bnd = 0
------------------------------------------------------------------------------
(* The guest goes on when the value it waits for is completed.             *)
Return ==
  /\ wait # 0 /\ gpu.completed >= wait
  /\ wait' = 0
  /\ UNCHANGED << ring, d, r, item, kick, gpu, bnd >>

(* The GPU finishes the next submission, or is lost with all it had to do: *)
(* a wait fails, and everything is completed.  on_complete wakes the       *)
(* render thread if a report waits for it.                                 *)
ReportPending == item.kind = "report" /\ item.after # GONE

GpuRuns ==
  /\ gpu.queue # << >>
  /\ gpu' = [gpu EXCEPT !.queue = Tail(@), !.completed = Head(gpu.queue).value]
  /\ kick' = [kick EXCEPT !.event = @ \/ ReportPending]
  /\ UNCHANGED << ring, d, r, item, wait, bnd >>

Lose ==
  /\ ~gpu.lost /\ gpu.queue # << >>
  /\ gpu' = [queue |-> << >>, completed |-> Forever, lost |-> TRUE]
  /\ UNCHANGED << ring, d, r, item, kick, wait, bnd >>
------------------------------------------------------------------------------
(* The decoder.                                                            *)
DecoderUnchanged == UNCHANGED << r, item, gpu, wait >>

(* A command as its maker writes it.                                       *)
Command(op) ==
  CASE op \in {"kick", "swap"} -> [op |-> op, value |-> d.last + 1]
    [] op = "destroy"          -> [op |-> op, after |-> d.last + 1]
    [] OTHER                   -> [op |-> op]

Published == ring.open < Len(ring.cmds)
Publish(q) == [q EXCEPT !.open = 0]

(* hle_fe_begin_raw finding room, and not: it publishes what there is,     *)
(* wakes the render thread and tries again.  The command is published      *)
(* (hle_fe_commit) unless it is a state's, which goes out with its draw.   *)
Begin(op, urgent) ==
  IF Len(ring.cmds) < CAPACITY
  THEN LET put == [cmds |-> Append(ring.cmds, Command(op)), open |-> ring.open + 1]
       IN /\ ring' = IF op = "state" THEN put ELSE Publish(put)
          /\ d' = [pc |-> IF op = "state" THEN "begin" ELSE "wake",
                   op |-> IF op = "state" THEN "draw" ELSE "none", urgent |-> urgent,
                   last |-> IF op \in {"kick", "swap"} THEN d.last + 1 ELSE d.last]
  ELSE /\ ring' = Publish(ring)
       /\ d' = [d EXCEPT !.pc = "full", !.op = op, !.urgent = urgent]

(* hle_back_kick after that: the event is for a render thread going to     *)
(* sleep.  hle_back_urgent sets it anyway (what it hurries besides may     *)
(* come as soon without: Boundary).                                        *)
Kick ==
  /\ d.pc \in {"full", "wake"}
  /\ kick' = [kick EXCEPT !.event = @ \/ kick.sleeping \/ (d.pc = "wake" /\ d.urgent)]
  /\ d' = IF d.pc = "full" THEN [d EXCEPT !.pc = "begin"]
          ELSE [d EXCEPT !.pc = "run", !.urgent = FALSE]
  /\ DecoderUnchanged /\ UNCHANGED << ring, bnd >>

BeginNext ==
  /\ d.pc = "begin" /\ Begin(d.op, d.urgent)
  /\ DecoderUnchanged /\ UNCHANGED << kick, bnd >>

(* A boundary asked for comes first (boundary_take, hle_pbd_boundary): a   *)
(* kick if it asks for what is still open, and the render thread hurried.  *)
ServeBoundary ==
  /\ d.pc = "run" /\ bnd # 0
  /\ bnd' = 0
  /\ IF d.last < bnd THEN Begin("kick", TRUE) /\ UNCHANGED kick
     ELSE kick' = [kick EXCEPT !.event = TRUE] /\ UNCHANGED << ring, d >>
  /\ DecoderUnchanged

(* The next command the push buffer makes; a draw comes after its state.   *)
Ends == {"destroy", "vis_end"}
Decode(op) ==
  /\ d.pc = "run" /\ bnd = 0
  /\ op \in {"kick", "swap"} => d.last < VALUES
  /\ op \in Ends => item.kind = "none" /\ \A n \in DOMAIN ring.cmds : ring.cmds[n].op \notin Ends
  /\ Begin(op, FALSE)
  /\ DecoderUnchanged /\ UNCHANGED << kick, bnd >>

DecoderStep == ServeBoundary \/ BeginNext \/ Kick

(* A store of the guest's to memory the GPU uses, in a submission made or  *)
(* still open: the barrier asks for the boundary and waits.                *)
Store(v) ==
  /\ wait = 0 /\ v > gpu.completed /\ v <= d.last + 1 /\ v <= VALUES
  /\ bnd' = IF bnd < v THEN v ELSE bnd
  /\ wait' = v
  /\ UNCHANGED << ring, d, r, item, kick, gpu >>
------------------------------------------------------------------------------
(* The render thread.                                                      *)
RenderUnchanged == UNCHANGED << d, wait, bnd >>
Stamped(v) == [item EXCEPT !.after = IF @ = PARKED THEN v ELSE @]

(* submit: s is the render thread with the pending boundaries it leaves.   *)
(* (A lost device refuses it, with no more to lose.)                       *)
Submit(s, v) ==
  /\ gpu' = IF gpu.lost THEN gpu
            ELSE [gpu EXCEPT !.queue = Append(@, [value |-> v, uses |-> s.uses,
                                                  slot |-> IF s.recording THEN s.cur ELSE FRAMES])]
  /\ r' = IF s.recording
          THEN [s EXCEPT !.value[s.cur] = v, !.cur = (@ + 1) % FRAMES,
                         !.recording = FALSE, !.uses = FALSE]
          ELSE s
  /\ item' = Stamped(v)

NoPend == [n |-> 0, value |-> 0]

(* pend_flush.                                                             *)
Flush(s) ==
  IF s.pend.n > 0 THEN Submit([s EXCEPT !.pend = NoPend], s.pend.value)
  ELSE r' = s /\ UNCHANGED << gpu, item >>

Reset ==
  /\ r.pc = "reset"
  /\ kick' = [kick EXCEPT !.event = FALSE] /\ r' = [r EXCEPT !.pc = "drain"]
  /\ RenderUnchanged /\ UNCHANGED << ring, item, gpu >>

(* The next command, done and consumed.                                    *)
Take ==
  /\ r.pc = "drain" /\ Published
  /\ ring' = [ring EXCEPT !.cmds = Tail(@)]
  /\ RenderUnchanged 

(* With the device lost it goes by undone.                                 *)
Skip == Take /\ gpu.lost /\ UNCHANGED << r, item, kick, gpu >>

(* cb_get: what records has to wait for the frame's command buffer, until  *)
(* its last submission is completed.                                       *)
Records == {"draw", "swap"}
(* A fault: the frame's last submission need only have been made.          *)
FrameMade == r.recording \/ r.value[r.cur] <= d.last

FrameReady == r.recording \/ r.value[r.cur] <= gpu.completed

Dispatch(op) ==
  /\ Take /\ ~gpu.lost /\ Head(ring.cmds).op = op
  /\ op \in Records => FrameReady

(* A command that sets state alone; a draw.                                *)
State == Dispatch("state") /\ UNCHANGED << r, item, kick, gpu >>

Draw ==
  /\ Dispatch("draw")
  /\ r' = [r EXCEPT !.recording = TRUE, !.uses = @ \/ item.after = LIVE]
  /\ UNCHANGED << item, kick, gpu >>

(* pend_boundary: old, when the first boundary that waits is HLE_PEND_NS   *)
(* old, or somebody has hurried it (g_pend.urgent).                        *)
Boundary(old) ==
  /\ Dispatch("kick")
  /\ LET s == [r EXCEPT !.pend = [n |-> r.pend.n + 1, value |-> Head(ring.cmds).value]]
     IN IF s.pend.n >= PEND_MAX \/ old THEN Flush(s) ELSE r' = s /\ UNCHANGED << item, gpu >>
  /\ UNCHANGED kick

(* A swap's copy to the screen is recorded and submitted with its value,   *)
(* past any boundary that waits.                                           *)
Swap ==
  /\ Dispatch("swap")
  /\ LET v == Head(ring.cmds).value
     IN Submit([r EXCEPT !.recording = TRUE, !.pend = IF v >= @.value THEN NoPend ELSE @], v)
  /\ UNCHANGED kick

(* A surface goes with the open recording's submission, if there is one; a *)
(* test's report with the next, whatever it is.                            *)
Destroy ==
  /\ Dispatch("destroy")
  /\ UNCHANGED r
  /\ item' = [kind |-> "surface", after |-> IF r.recording THEN PARKED ELSE Head(ring.cmds).after]
  /\ UNCHANGED << kick, gpu >>

VisEnd ==
  /\ Dispatch("vis_end")
  /\ UNCHANGED r
  /\ item' = [kind |-> "report", after |-> PARKED]
  /\ UNCHANGED << kick, gpu >>

(* hle_surf_reap and vis_reap.                                             *)
Reaped ==
  IF item.after \notin {LIVE, PARKED, GONE} /\ item.after <= gpu.completed
  THEN [item EXCEPT !.after = GONE] ELSE item

(* Between commands: pend_age_check, and every thousand or so a reap.      *)
AgeCheck ==
  /\ r.pc = "drain" /\ ~gpu.lost /\ r.pend.n > 0 /\ Flush(r)
  /\ RenderUnchanged /\ UNCHANGED << ring, kick >>

ReapNow ==
  /\ r.pc = "drain" /\ ~gpu.lost /\ Reaped # item /\ item' = Reaped
  /\ RenderUnchanged /\ UNCHANGED << ring, r, kick, gpu >>

(* The ring is dry: what is finished is reaped and, unless more has come,  *)
(* what waits submitted; then the thread announces that it sleeps and      *)
(* looks at the ring once more.                                            *)
Dry ==
  /\ r.pc = "drain" /\ ~Published
  /\ item' = Reaped /\ r' = [r EXCEPT !.pc = "flush"]
  /\ RenderUnchanged /\ UNCHANGED << ring, kick, gpu >>

More(pc) ==
  /\ r.pc = pc /\ Published
  /\ r' = [r EXCEPT !.pc = "reset"]
  /\ kick' = [kick EXCEPT !.sleeping = FALSE]
  /\ RenderUnchanged /\ UNCHANGED << ring, item, gpu >>

FlushDry ==
  /\ r.pc = "flush"
  /\ LET s == [r EXCEPT !.pc = IF ~Published THEN "announce" ELSE "reset"]
     IN IF gpu.lost THEN r' = s /\ UNCHANGED << item, gpu >> ELSE Flush(s)
  /\ RenderUnchanged /\ UNCHANGED << ring, kick >>

Announce ==
  /\ r.pc = "announce"
  /\ kick' = [kick EXCEPT !.sleeping = TRUE] /\ r' = [r EXCEPT !.pc = "sleep"]
  /\ RenderUnchanged /\ UNCHANGED << ring, item, gpu >>

(* A fault: the last look at the ring is the one before the announcement.  *)
SleepBlindly ==
  /\ r.pc = "sleep"
  /\ r' = [r EXCEPT !.pc = "asleep"]
  /\ RenderUnchanged /\ UNCHANGED << ring, item, kick, gpu >>

Sleep ==
  /\ r.pc = "sleep" /\ ~Published
  /\ r' = [r EXCEPT !.pc = "asleep"]
  /\ RenderUnchanged /\ UNCHANGED << ring, item, kick, gpu >>

WakeUp ==
  /\ r.pc = "asleep" /\ kick.event
  /\ kick' = [kick EXCEPT !.sleeping = FALSE] /\ r' = [r EXCEPT !.pc = "reset"]
  /\ RenderUnchanged /\ UNCHANGED << ring, item, gpu >>

RenderStep ==
  \/ Reset \/ Skip \/ State \/ Draw \/ Swap \/ Destroy \/ VisEnd
  \/ (\E old \in BOOLEAN : Boundary(old))
  \/ Dry \/ More("flush") \/ More("sleep") \/ FlushDry \/ Announce \/ Sleep \/ WakeUp

Next ==
  \/ Return
  \/ \E op \in Ops \ {"draw"} : Decode(op)
  \/ \E v \in 1..VALUES : Store(v)
  \/ DecoderStep \/ RenderStep \/ AgeCheck \/ ReapNow
  \/ GpuRuns \/ Lose

(* Threads are scheduled and the GPU runs what it is given, unless it is   *)
(* lost; the decoder makes commands if the title pushes any.  Time passes: *)
(* a boundary looked at again and again is found old in the end, and the   *)
(* thousandth command comes if the ring never dries.                       *)
Fairness ==
  /\ WF_vars(Return)
  /\ WF_vars(DecoderStep) /\ WF_vars(RenderStep) /\ SF_vars(AgeCheck) /\ SF_vars(ReapNow)
  /\ WF_vars(GpuRuns)

Spec == Init /\ [][Next]_vars /\ Fairness
------------------------------------------------------------------------------
(* Nothing the GPU still uses is taken from it: a surface is destroyed,    *)
(* and a test's result read, only after every submission that uses it, and *)
(* a command buffer is recorded again only after its last submission ran.  *)
InUseKept ==
  /\ item.after = GONE => ~r.uses /\ \A n \in DOMAIN gpu.queue : ~gpu.queue[n].uses
  /\ r.recording => \A n \in DOMAIN gpu.queue : gpu.queue[n].slot # r.cur

(* Nobody waits for ever: the guest whose store waits for work that is not *)
(* even submitted; the decoder for room in the ring; what is published     *)
(* while the render thread goes to sleep; and a test the GPU has run is    *)
(* reported though that thread sleeps and nobody waits for the GPU.  (Once *)
(* the device is lost it reports only when its ring runs dry.)             *)
WaitsEnd ==
  /\ []<>(wait = 0) /\ []<>(d.pc = "run")
  /\ []<>(r.pc = "asleep" => ~Published)
  /\ []<>(item.kind = "report" /\ ~gpu.lost => item.after \in {PARKED, GONE})
=============================================================================
