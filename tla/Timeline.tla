------------------------------- MODULE Timeline -------------------------------
(***************************************************************************)
(* The GPU's timeline (vk/timeline.c): one counter the GPU moves as it     *)
(* finishes submissions, and `completed`, what every thread goes by.  A    *)
(* thread that sees the counter move publishes it: under a lock it makes   *)
(* the landings of the values reached, then it moves `completed`.  Threads *)
(* publish what they waited for, each for itself; a watcher publishes the  *)
(* rest and tells the back end.  A thread whose wait fails loses the       *)
(* device, which completes everything there is to wait for.                *)
(*                                                                         *)
(* Values are made by the front end and submitted by the render thread, in *)
(* order, some skipped (RenderThread has how).                             *)
(***************************************************************************)
EXTENDS Integers, Sequences, FiniteSets

CONSTANTS
  Waiters,      (* The threads that wait for values.                       *)
  VALUES,       (* The values made (a bound).                              *)
  LANDINGS      (* The landings asked for (a bound).                       *)

ASSUME TimelineAssumption ==
  /\ "watcher" \notin Waiters
  /\ VALUES \in Nat \ {0} /\ LANDINGS \in Nat

Forever == VALUES + 1           (* UINT64_MAX on the timeline.             *)
Publishers == Waiters \cup {"watcher"}

VARIABLES
  made,     (* g_value: the values made so far, their commands published.  *)
  owed,     (* The landing of the last value the front end has still to    *)
            (* queue, its command published before: its kind, or "none".   *)
  open,     (* The copies for landings recorded and not submitted.         *)
  gpu,      (* queue, what it has to run: [value, copies]; counter;        *)
            (* copied, the landings it has written; dead                   *)
  tl,       (* g_tl: submitted, completed, event; and g_lost               *)
  land,     (* g_land: q, the landings queued, in the order of n: [n,      *)
            (* value, kind, copied]; landed; and asked, all of them:       *)
            (* [piece, kind, at]                                           *)
  wait,     (* The value each thread waits for, 0 for none.                *)
  pub,      (* What each thread is publishing, and how far it has got.     *)
  watcher   (* pc; done, as in watch_thread; told, what on_complete was    *)
            (* last called with                                            *)

timelineVars == << made, owed, open, gpu, tl, land, wait, pub, watcher >>

NotPublishing == [stage |-> "none", v |-> 0]

TimelineInit ==
  /\ made = 0 /\ owed = "none" /\ open = {}
  /\ gpu = [queue |-> << >>, counter |-> 0, copied |-> {}, dead |-> FALSE]
  /\ tl = [submitted |-> 0, completed |-> 0, event |-> FALSE, lost |-> FALSE]
  /\ land = [q |-> {}, landed |-> 0, asked |-> << >>]
  /\ wait = [t \in Waiters |-> 0]
  /\ pub = [t \in Publishers |-> NotPublishing]
  /\ watcher = [pc |-> "reset", done |-> 0, told |-> 0]
------------------------------------------------------------------------------
(* The front end makes a value.  Landings of a writeback are queued at the *)
(* value it will make next; those of a target's readback (coh_land) once   *)
(* its value is made and its command published: the swizzled texels the    *)
(* GPU packs, or a note; a copy behind landings, at any value made.        *)
Make ==
  /\ owed = "none" /\ made < VALUES
  /\ made' = made + 1
  /\ UNCHANGED << owed, open, gpu, tl, land, wait, pub, watcher >>

MakeOwing(kind) ==
  /\ owed = "none" /\ made < VALUES /\ Len(land.asked) < LANDINGS
  /\ made' = made + 1 /\ owed' = kind
  /\ UNCHANGED << open, gpu, tl, land, wait, pub, watcher >>

(* What a landing brings: a note or a copy of the host's is made; else the *)
(* GPU's copy, if one was recorded for it.                                 *)
Brings(e) ==
  CASE e.kind = "note" -> "landed"
    [] e.kind # "note" /\ ~e.copied -> "dropped"
    [] e.kind # "note" /\ e.copied -> IF e.n \in gpu.copied THEN "landed" ELSE "garbage"

(* land_add: at once if the landings of the value are in.                  *)
LandAdd(v, kind) ==
  LET e == [n |-> Len(land.asked) + 1, value |-> v, kind |-> kind, copied |-> FALSE]
      now == v <= land.landed
  IN land' = [land EXCEPT !.q = IF now THEN @ ELSE @ \cup {e},
                          !.asked = Append(@, [piece |-> v, kind |-> kind,
                                               at |-> IF now THEN Brings(e) ELSE "asked"])]

Ask(kind) ==
  /\ owed = "none" /\ made < VALUES /\ Len(land.asked) < LANDINGS
  /\ LandAdd(made + 1, kind)
  /\ UNCHANGED << made, owed, open, gpu, tl, wait, pub, watcher >>

AskOwed ==
  /\ owed # "none" /\ LandAdd(made, owed) /\ owed' = "none"
  /\ UNCHANGED << made, open, gpu, tl, wait, pub, watcher >>

AskCopy(v) ==
  /\ owed = "none" /\ v <= made /\ Len(land.asked) < LANDINGS
  /\ LandAdd(v, "note")
  /\ UNCHANGED << made, owed, open, gpu, tl, wait, pub, watcher >>

(* The render thread records what the readbacks published up to v copy,    *)
(* and marks the landing if it is queued (hle_tl_land_copied).  It does    *)
(* not once the device is lost: then commands go by undone.                *)
Copies == {"read", "late"}
Readbacks(v) ==
  {n \in DOMAIN land.asked : land.asked[n].kind \in Copies /\ land.asked[n].piece <= v}
    \cup {n \in {Len(land.asked) + 1} : owed \in Copies /\ made <= v}

Recorded(n) == n \in open \cup gpu.copied \/ \E m \in DOMAIN gpu.queue : n \in gpu.queue[m].copies

Record(n) ==
  /\ ~tl.lost /\ n \in Readbacks(made + 1) /\ ~Recorded(n)
  /\ open' = open \cup {n}
  /\ land' = [land EXCEPT !.q = {[e EXCEPT !.copied = @ \/ e.n = n] : e \in @}]
  /\ UNCHANGED << made, owed, gpu, tl, wait, pub, watcher >>

(* hle_vk_lose: the first to find the device lost completes everything.    *)
Losing(t) == IF tl.lost THEN pub ELSE [pub EXCEPT ![t] = [stage |-> "land", v |-> Forever]]

(* It submits with a value: the readbacks published with the values up to  *)
(* it are recorded by then.  hle_tl_signaled comes after the submit.       *)
Submit(v) ==
  /\ ~tl.lost /\ wait["render"] = 0 /\ pub["render"] = NotPublishing
  /\ v > tl.submitted /\ v <= made
  /\ \A n \in Readbacks(v) : Recorded(n)
  /\ IF gpu.dead THEN pub' = Losing("render") /\ UNCHANGED gpu
     ELSE /\ gpu' = [gpu EXCEPT !.queue = Append(@, [value |-> v, copies |-> open])]
          /\ UNCHANGED pub
  /\ open' = {}
  /\ tl' = [tl EXCEPT !.submitted = v, !.event = TRUE, !.lost = @ \/ gpu.dead]
  /\ UNCHANGED << made, owed, land, wait, watcher >>

GpuRuns ==
  /\ gpu.queue # << >>
  /\ gpu' = [gpu EXCEPT !.queue = Tail(@), !.counter = Head(gpu.queue).value,
                        !.copied = @ \cup Head(gpu.queue).copies]
  /\ UNCHANGED << made, owed, open, tl, land, wait, pub, watcher >>

GpuDies ==
  /\ ~gpu.dead
  /\ gpu' = [gpu EXCEPT !.dead = TRUE, !.queue = << >>]
  /\ UNCHANGED << made, owed, open, tl, land, wait, pub, watcher >>
------------------------------------------------------------------------------
(* hle_tl_wait, for a value that may be still to be made.                  *)
Wait(t, v) ==
  /\ wait[t] = 0 /\ pub[t] = NotPublishing
  /\ v \in (tl.completed + 1)..(made + 1) /\ v <= VALUES
  /\ t = "render" => v <= tl.submitted
  /\ wait' = [wait EXCEPT ![t] = v]
  /\ UNCHANGED << made, owed, open, gpu, tl, land, pub, watcher >>

(* Each time the host's wait returns the counter is read and published; a  *)
(* wait that fails loses the device.                                       *)
Look(t) ==
  /\ wait[t] # 0 /\ pub[t] = NotPublishing /\ tl.completed < wait[t]
  /\ IF gpu.dead /\ ~tl.lost
     THEN pub' = Losing(t) /\ tl' = [tl EXCEPT !.lost = TRUE]
     ELSE /\ gpu.counter > tl.completed
          /\ pub' = [pub EXCEPT ![t] = [stage |-> "land", v |-> gpu.counter]]
          /\ UNCHANGED tl
  /\ UNCHANGED << made, owed, open, gpu, land, wait, watcher >>

Return(t) ==
  /\ wait[t] # 0 /\ pub[t] = NotPublishing /\ tl.completed >= wait[t]
  /\ wait' = [wait EXCEPT ![t] = 0]
  /\ UNCHANGED << made, owed, open, gpu, tl, land, pub, watcher >>

(* land: the landings of the values up to v, under the lock.               *)
DueAt(v) == {e \in land.q : e.value <= v}
Landed(n, v) ==
  IF \E e \in DueAt(v) : e.n = n THEN Brings(CHOOSE e \in DueAt(v) : e.n = n) ELSE land.asked[n].at

(* A fault: what lands is kept, to land again.                             *)
LandKept(t) ==
  /\ pub[t].stage = "land"
  /\ LET v == pub[t].v
     IN land' = IF v <= land.landed THEN land
                ELSE [q |-> land.q, landed |-> v,
                      asked |-> [n \in DOMAIN land.asked |->
                                   [land.asked[n] EXCEPT !.at = Landed(n, v)]]]
  /\ pub' = [pub EXCEPT ![t].stage = "complete"]
  /\ UNCHANGED << made, owed, open, gpu, tl, wait, watcher >>

Land(t) ==
  /\ pub[t].stage = "land"
  /\ LET v == pub[t].v
     IN land' = IF v <= land.landed THEN land
                ELSE [q |-> land.q \ DueAt(v), landed |-> v,
                      asked |-> [n \in DOMAIN land.asked |->
                                   [land.asked[n] EXCEPT !.at = Landed(n, v)]]]
  /\ pub' = [pub EXCEPT ![t].stage = "complete"]
  /\ UNCHANGED << made, owed, open, gpu, tl, wait, watcher >>

(* A fault: whoever is last moves it.                                      *)
CompletedLast(v) == v

(* publish's compare and swap: forward only.  hle_tl_lose sets the         *)
(* watcher's event besides.                                                *)
Completed(v) == IF v > tl.completed THEN v ELSE tl.completed

Complete(t) ==
  /\ pub[t].stage = "complete"
  /\ tl' = [tl EXCEPT !.completed = Completed(pub[t].v), !.event = @ \/ pub[t].v = Forever]
  /\ pub' = [pub EXCEPT ![t] = NotPublishing]
  /\ UNCHANGED << made, owed, open, gpu, land, wait, watcher >>
------------------------------------------------------------------------------
(* watch_thread: the event is reset before it looks whether anything is    *)
(* submitted; what it waits for is the next count, whatever it is.         *)
WatchReset ==
  /\ watcher.pc = "reset"
  /\ tl' = [tl EXCEPT !.event = FALSE] /\ watcher' = [watcher EXCEPT !.pc = "check"]
  /\ UNCHANGED << made, owed, open, gpu, land, wait, pub >>

(* A fault: what a waiter has completed needs no telling.                  *)
WatchCheckCompleted ==
  /\ watcher.pc = "check"
  /\ watcher' = [watcher EXCEPT !.pc = IF tl.completed >= tl.submitted THEN "asleep" ELSE "look"]
  /\ UNCHANGED << made, owed, open, gpu, tl, land, wait, pub >>

WatchCheck ==
  /\ watcher.pc = "check"
  /\ watcher' = [watcher EXCEPT !.pc = IF watcher.done >= tl.submitted THEN "asleep" ELSE "look"]
  /\ UNCHANGED << made, owed, open, gpu, tl, land, wait, pub >>

WatchWake ==
  /\ watcher.pc = "asleep" /\ tl.event
  /\ watcher' = [watcher EXCEPT !.pc = "reset"]
  /\ UNCHANGED << made, owed, open, gpu, tl, land, wait, pub >>

WatchLook ==
  /\ watcher.pc = "look"
  /\ IF gpu.dead
     THEN /\ pub' = Losing("watcher") /\ tl' = [tl EXCEPT !.lost = TRUE]
          /\ watcher' = [watcher EXCEPT !.pc = "ended"]
     ELSE /\ gpu.counter > watcher.done
          /\ pub' = [pub EXCEPT !["watcher"] = [stage |-> "land", v |-> gpu.counter]]
          /\ watcher' = [watcher EXCEPT !.pc = "tell", !.done = gpu.counter]
          /\ UNCHANGED tl
  /\ UNCHANGED << made, owed, open, gpu, land, wait >>

WatchTell ==
  /\ watcher.pc = "tell" /\ pub["watcher"] = NotPublishing
  /\ watcher' = [watcher EXCEPT !.pc = "reset", !.told = watcher.done]
  /\ UNCHANGED << made, owed, open, gpu, tl, land, wait, pub >>

Watch == WatchReset \/ WatchCheck \/ WatchWake \/ WatchLook \/ WatchTell

TimelineNext ==
  \/ Make \/ AskOwed
  \/ \E kind \in {"read", "empty", "note"} : Ask(kind)
  \/ \E kind \in {"late", "empty", "note"} : MakeOwing(kind)
  \/ \E v \in 1..VALUES : AskCopy(v)
  \/ \E n \in 1..LANDINGS : Record(n)
  \/ \E v \in 1..VALUES : Submit(v)
  \/ GpuRuns \/ GpuDies
  \/ \E t \in Waiters : Look(t) \/ Return(t) \/ \E v \in 1..VALUES : Wait(t, v)
  \/ \E t \in Publishers : Land(t) \/ Complete(t)
  \/ Watch

(* Threads are scheduled and the GPU runs what it is given, unless it is   *)
(* lost.  What is waited for is made, recorded and submitted in the end:   *)
(* RenderThread shows it.                                                  *)
Fairness ==
  /\ \A t \in Waiters : WF_timelineVars(Look(t)) /\ WF_timelineVars(Return(t))
  /\ \A t \in Publishers : WF_timelineVars(Land(t) \/ Complete(t))
  /\ WF_timelineVars(Watch) /\ WF_timelineVars(GpuRuns)
  /\ WF_timelineVars(Make) /\ WF_timelineVars(AskOwed) /\ WF_timelineVars(Submit(made))
  /\ WF_timelineVars(\E n \in 1..LANDINGS : Record(n))

TimelineSpec == TimelineInit /\ [][TimelineNext]_timelineVars /\ Fairness
------------------------------------------------------------------------------
Values == 0..Forever
Kinds == {"read", "late", "empty", "note"}
Landing == [n : 1..LANDINGS, value : 1..VALUES, kind : Kinds, copied : BOOLEAN]

(* The variables have their types, and the landings queued are those that  *)
(* are to come, each once, of the value each was asked at.                 *)
TimelineTypeOK ==
  /\ made \in 0..VALUES /\ owed \in Kinds \cup {"none"} /\ open \subseteq 1..LANDINGS
  /\ gpu.queue \in Seq([value : 1..VALUES, copies : SUBSET (1..LANDINGS)])
  /\ gpu.counter \in 0..VALUES /\ gpu.copied \subseteq 1..LANDINGS /\ gpu.dead \in BOOLEAN
  /\ tl \in [submitted : 0..VALUES, completed : Values, event : BOOLEAN, lost : BOOLEAN]
  /\ land.q \subseteq Landing /\ land.landed \in Values
  /\ land.asked \in Seq([piece : 1..VALUES, kind : Kinds,
                        at : {"asked", "landed", "dropped", "garbage"}])
  /\ wait \in [Waiters -> 0..VALUES]
  /\ pub \in [Publishers -> [stage : {"none", "land", "complete"}, v : Values]]
  /\ watcher \in [pc : {"reset", "check", "asleep", "look", "tell", "ended"},
                  done : 0..VALUES, told : 0..VALUES]
  /\ \A n \in DOMAIN land.asked :
       /\ Cardinality({e \in land.q : e.n = n}) =
            IF land.asked[n].at = "asked" THEN 1 ELSE 0
       /\ \A e \in land.q : e.n = n => e.value = land.asked[n].piece

(* Completion as the title and the decoder rely on it (see GpuWork).       *)
Promise == INSTANCE GpuWork WITH
  ran <- gpu.counter, completed <- tl.completed, landings <- land.asked, lost <- gpu.dead
TimelineKeepsPromise == Promise!Spec

(* No thread sees a value before its landings are made, those that are     *)
(* still to be queued among them (timeline.c:36-37): whoever waits for the *)
(* value writes that memory next, and a landing must not come behind it.   *)
(* The code does not keep that (README, Divergence 17).                    *)
LandedBeforeSeen ==
  /\ owed # "none" => tl.completed < made
  /\ \A n \in DOMAIN land.asked :
       land.asked[n].piece <= tl.completed => land.asked[n].at # "asked"

(* What the GPU copied for a landing gets into guest memory, unless the    *)
(* device is lost (land_one; back.h:43-45).  The code does not keep that   *)
(* (README, Divergence 18).                                                *)
CopiesLand ==
  ~gpu.dead => \A n \in DOMAIN land.asked :
                 land.asked[n].kind \in Copies => land.asked[n].at # "dropped"

(* Every wait ends, and with nobody waiting the back end is still told of  *)
(* all that completes, unless the device is lost.                          *)
WaitsEnd ==
  /\ \A t \in Waiters : []<>(wait[t] = 0)
  /\ []<>(watcher.told = tl.submitted \/ gpu.dead)
=============================================================================
