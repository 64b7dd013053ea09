------------------------------- MODULE Targets -------------------------------
(***************************************************************************)
(* A render target's memory against its image (coh_ in pb/pbdraw.c).  The  *)
(* console draws into the memory the title reads and writes.  Here a draw  *)
(* goes into an image of the GPU's, the memory keeps what it held, and the *)
(* one is brought up to the other when somebody is about to look:          *)
(*                                                                         *)
(*  - image newer: the target's pages are closed to the guest (a guard,    *)
(*    mem/barrier.c).  Its first access asks the decoder for a landing,    *)
(*    the image's texels in memory at a value of the timeline, and waits   *)
(*    for that value.  A target the guest is known to read lands at each   *)
(*    fence.                                                               *)
(*  - memory newer: every writer of guest memory counts its writes         *)
(*    (native/hle/dirty.c protects the pages for that), and a target whose *)
(*    count has moved has its memory uploaded before it is drawn into.     *)
(*                                                                         *)
(* Four parties work at once: the title's thread, the decoder, the GPU,    *)
(* and whichever thread makes the landings of the values reached.  There   *)
(* is one target, with pages of its own, no copy queued into them, and     *)
(* room for every landing.  What it holds is a set: the draws and stores   *)
(* that have reached it.  The title stores into it only when it knows its  *)
(* draws decoded; it loads from it whenever it likes.                      *)
(***************************************************************************)
EXTENDS Integers, Sequences, FiniteSetsExt

CONSTANTS
  DRAWS,        (* The draws the title pushes (a bound).                   *)
  STORES,       (* Its stores into the target's memory (a bound).          *)
  COH_UNREAD    (* Landings in a row not taken, and it is read no more.    *)

ASSUME TargetsAssumption == DRAWS \in Nat \ {0} /\ STORES \in Nat /\ COH_UNREAD \in Nat \ {0}

NoSnap == -1

VARIABLES
  linear,   (* The target is linear, else swizzled.                        *)
  memory,   (* The writes its memory holds.                                *)
  image,    (* Those its image holds.                                      *)
  page,     (* tracked: protected, the next store is counted; count, the   *)
            (* writes counted (g_wseq); used, the value a store waits for  *)
  guard,    (* g_na's entry: at, "none", "closed" or "open"; v             *)
  o,        (* The PbObj; armed: its armed_drops is g_guard_drops.         *)
  fresh,    (* rt_fresh.                                                   *)
  fill,     (* g_fill: state, v                                            *)
  dec,      (* The decoder: where it is, and what it has read.             *)
  fifo,     (* pushed, the commands pushed; pass, those this pass takes    *)
  gpu,      (* queue, the commands it has to run; reached, the last value  *)
  lands,    (* The landings asked for, the n-th at value n.                *)
  tl,       (* landed, g_land.landed; completed                            *)
  title,    (* The title's thread, and the draws it has pushed and knows   *)
            (* decoded; same: the guard's gen is the one it read; taken,   *)
            (* history: a landing took its stores' count in                *)
  made,     (* History: the writes made, by decoded draws and by stores.   *)
  overtaken, (* History: the stores whose count a landing took in before.  *)
  older     (* History: the pages were given back older than the image.    *)

history == << made, overtaken, older >>
vars == << linear, memory, image, page, guard, o, fresh, fill, dec, fifo, gpu, lands, tl, title,
           history >>
gpus == << linear, memory, image, gpu, lands, tl >>     (* Past the decoder. *)

Init ==
  /\ linear \in BOOLEAN
  /\ memory = {} /\ image = {}
  /\ page = [tracked |-> FALSE, count |-> 0, used |-> 0]
  /\ guard = [at |-> "none", v |-> 0]
  /\ o = [written |-> 0, synced |-> 0, snap |-> NoSnap, judged |-> "no",
          landV |-> 0, landW |-> 0, landLast |-> 0,
          armed |-> FALSE, learned |-> FALSE, want |-> FALSE, unread |-> 0]
  /\ fresh = TRUE
  /\ fill = [state |-> "idle", v |-> 0]
  /\ dec = [pc |-> "asleep", cmd |-> "none", to |-> "none", at |-> "none",
            done |-> 0, v |-> 0, redo |-> FALSE, current |-> FALSE, drawn |-> 0]
  /\ fifo = [pushed |-> << >>, pass |-> << >>]
  /\ gpu = [queue |-> << >>, reached |-> 0]
  /\ lands = << >>
  /\ tl = [landed |-> 0, completed |-> 0]
  /\ title = [pc |-> "runs", store |-> FALSE, due |-> {}, same |-> FALSE, v |-> 0,
              taken |-> FALSE, pushed |-> 0, told |-> 0, stored |-> 0]
  /\ made = {} /\ overtaken = {} /\ older = FALSE
------------------------------------------------------------------------------
(* The title pushes a draw, a clear of all of the target, or a semaphore's *)
(* release after its draws.                                                *)
Drawing(c) == c \in {"draw", "clear"}

Push(c) ==
  /\ title.pc = "runs"
  /\ IF Drawing(c) THEN title.pushed < DRAWS
     ELSE fifo.pushed # << >> /\ Drawing(fifo.pushed[Len(fifo.pushed)])
  /\ fifo' = [fifo EXCEPT !.pushed = Append(@, c)]
  /\ title' = [title EXCEPT !.pushed = @ + (IF Drawing(c) THEN 1 ELSE 0)]
  /\ UNCHANGED << gpus, page, guard, o, fresh, fill, dec, history >>

(* It loads, to find all that was written by then, or where its pages were *)
(* given back older all that was there by then; or it stores.              *)
Load ==
  /\ title.pc = "runs"
  /\ title' = [title EXCEPT !.pc = "tries", !.store = FALSE,
                            !.due = IF older THEN made \cap memory ELSE made]
  /\ UNCHANGED << gpus, page, guard, o, fresh, fill, dec, fifo, history >>

Store ==
  /\ title.pc = "runs" /\ title.told = title.pushed /\ title.stored < STORES
  /\ title' = [title EXCEPT !.pc = "tries", !.store = TRUE, !.due = {}]
  /\ UNCHANGED << gpus, page, guard, o, fresh, fill, dec, fifo, history >>

(* The access itself, when the pages' protection lets it.  What a store    *)
(* goes over is the memory from then on, the older the less.               *)
LoadDone ==
  /\ title.pc = "tries" /\ ~title.store /\ guard.at # "closed"
  /\ title' = [title EXCEPT !.pc = "runs", !.due = {}]
  /\ UNCHANGED << gpus, page, guard, o, fresh, fill, dec, fifo, history >>

StoreDone ==
  /\ title.pc = "tries" /\ title.store /\ guard.at # "closed" /\ ~page.tracked
  /\ LET s == DRAWS + title.stored + 1
     IN /\ memory' = memory \cup {s}
        /\ made' = (IF older THEN made \cap memory ELSE made) \cup {s}
        /\ overtaken' = overtaken \cup {t \in {s} : title.taken}
  /\ title' = [title EXCEPT !.pc = "runs", !.store = FALSE, !.stored = @ + 1]
  /\ UNCHANGED << linear, image, gpu, lands, tl, page, guard, o, fresh, fill, dec, fifo,
                  older >>

(* A store to tracked pages is counted (hle_mem_first_write); it waits for *)
(* the value they are used till, and is counted again, after what landed   *)
(* meanwhile; then they are open to stores.                                *)
StoreCounted ==
  /\ title.pc = "tries" /\ title.store /\ guard.at # "closed" /\ page.tracked
  /\ page' = [page EXCEPT !.count = @ + 1]
  /\ o' = [o EXCEPT !.judged = "no"]
  /\ title' = [title EXCEPT !.pc = "counted", !.taken = FALSE]
  /\ UNCHANGED << gpus, guard, fresh, fill, dec, fifo, history >>

StoreHeld ==
  /\ title.pc = "counted"
  /\ title' = IF page.used > tl.completed THEN [title EXCEPT !.pc = "held", !.v = page.used]
              ELSE [title EXCEPT !.pc = "opens"]
  /\ UNCHANGED << gpus, page, guard, o, fresh, fill, dec, fifo, history >>

StoreReleased ==
  /\ title.pc = "held" /\ title.v <= tl.completed
  /\ page' = [page EXCEPT !.count = @ + 1]
  /\ o' = [o EXCEPT !.judged = "no"]
  /\ title' = [title EXCEPT !.pc = "opens", !.v = 0, !.taken = FALSE]
  /\ UNCHANGED << gpus, guard, fresh, fill, dec, fifo, history >>

StoreOpens ==
  /\ title.pc = "opens"
  /\ page' = [page EXCEPT !.tracked = FALSE]
  /\ title' = [title EXCEPT !.pc = "tries"]
  /\ UNCHANGED << gpus, guard, o, fresh, fill, dec, fifo, history >>

(* An access to closed pages (hle_mem_stale_access_rw): the landing asked  *)
(* for already, or one asked for now (coh_fill), withdrawn if the decoder  *)
(* has not taken it in 250 ms.                                             *)
Fault ==
  /\ title.pc = "tries" /\ guard.at = "closed"
  /\ title' = [title EXCEPT !.pc = IF guard.v = 0 THEN "asks" ELSE "waits",
                            !.v = guard.v, !.same = TRUE]
  /\ UNCHANGED << gpus, page, guard, o, fresh, fill, dec, fifo, history >>

FillAsk ==
  /\ title.pc = "asks"
  /\ fill' = [state |-> "asked", v |-> 0]
  /\ title' = [title EXCEPT !.pc = "asked"]
  /\ UNCHANGED << gpus, page, guard, o, fresh, dec, fifo, history >>

FillAnswered ==
  /\ title.pc = "asked" /\ fill.state = "done"
  /\ fill' = [state |-> "idle", v |-> 0]
  /\ title' = [title EXCEPT !.pc = "waits", !.v = fill.v]
  /\ UNCHANGED << gpus, page, guard, o, fresh, dec, fifo, history >>

FillWithdrawn ==
  /\ title.pc = "asked" /\ fill.state = "asked"
  /\ fill' = [fill EXCEPT !.state = "idle"]
  /\ title' = [title EXCEPT !.pc = "waits", !.v = 0, !.due = @ \cap memory]
  /\ older' = TRUE
  /\ UNCHANGED << gpus, page, guard, o, fresh, dec, fifo, made, overtaken >>

(* The value reached, the memory is the guest's: the guard goes, or if it  *)
(* was armed again meanwhile the pages are given back till its next        *)
(* arming.  Either way the next store to them is counted.                  *)
GiveBack ==
  /\ title.pc = "waits" /\ title.v <= tl.completed
  /\ guard' = IF title.same THEN [at |-> "none", v |-> 0] ELSE [guard EXCEPT !.at = "open"]
  /\ older' = (older \/ ~title.same)
  /\ page' = [page EXCEPT !.tracked = TRUE]
  /\ o' = [o EXCEPT !.armed = FALSE]
  /\ dec' = [dec EXCEPT !.current = FALSE]
  /\ title' = [title EXCEPT !.pc = "tries", !.v = 0, !.same = FALSE]
  /\ UNCHANGED << gpus, fresh, fill, fifo, made, overtaken >>

Title ==
  \/ \E c \in {"draw", "clear", "release"} : Push(c)
  \/ Load \/ Store

Access ==
  \/ LoadDone \/ StoreDone \/ StoreCounted \/ StoreHeld \/ StoreReleased \/ StoreOpens
  \/ Fault \/ FillAsk \/ FillAnswered \/ FillWithdrawn \/ GiveBack
------------------------------------------------------------------------------
(* coh_adopt: the landings done are taken in.                              *)
Done == {v \in DOMAIN lands : lands[v].at = "done"}

Adopted ==
  LET newest == {v \in Done : lands[v].written > o.synced}
  IN IF newest = {} THEN o
     ELSE [o EXCEPT !.synced = lands[Max(newest)].written, !.snap = lands[Max(newest)].snap,
                    !.judged = "no"]

Free == [at |-> "free", queued |-> TRUE, written |-> 0, texels |-> {}, snap |-> NoSnap]
Freed == [v \in DOMAIN lands |-> IF v \in Done THEN Free ELSE lands[v]]

(* A fault: the count at its last landing is gone by, though that landing  *)
(* is still to come.                                                       *)
MemNewerInFlight(x, done) ==
  \/ x.written = 0
  \/ /\ x.snap # NoSnap
     /\ IF x.judged # "no" THEN x.judged = "newer" ELSE page.count # x.snap

(* coh_mem_newer, of the object with the landings done taken in, `done`    *)
(* having been read before: whether its memory is newer than its image.    *)
(* Judged once a count.                                                    *)
MemNewer(x, done) ==
  \/ x.written = 0
  \/ /\ x.snap # NoSnap /\ x.landLast <= done
     /\ IF x.judged # "no" THEN x.judged = "newer" ELSE page.count # x.snap

Judged(x, done) ==
  IF x.written = 0 \/ x.snap = NoSnap \/ x.landLast > done THEN x
  ELSE [x EXCEPT !.judged = IF MemNewer(x, done) THEN "newer" ELSE "older"]

(* coh_land begins: nothing to land, asked for already, or it is to be     *)
(* seen whether its memory is newer; `to` is where its value is wanted.    *)
Landing(x, d, to) ==
  LET stale == x.written > x.synced
      asked == stale /\ x.landV # 0 /\ x.landW = x.written
  IN IF stale /\ ~asked THEN [d EXCEPT !.pc = "judges", !.to = to, !.done = tl.completed]
     ELSE [d EXCEPT !.pc = to, !.v = IF asked THEN x.landV ELSE 0]

(* hle_pbd_fence.                                                          *)
Fence(to) ==
  /\ o' = [o EXCEPT !.want = FALSE]
  /\ dec' = IF o.want /\ o.learned THEN Landing(o, dec, to) ELSE [dec EXCEPT !.pc = to]
------------------------------------------------------------------------------
(* A pass takes what is pushed.                                            *)
BeginPass ==
  /\ dec.pc = "asleep" /\ fifo.pushed # << >>
  /\ fifo' = [pushed |-> << >>, pass |-> fifo.pushed]
  /\ dec' = [dec EXCEPT !.pc = "between"]
  /\ UNCHANGED << gpus, page, guard, o, fresh, fill, title, history >>

(* coh_serve, between methods and passes: the guest is known to read the   *)
(* target that it asks for.                                                *)
Serve ==
  /\ dec.pc \in {"asleep", "between"} /\ fill.state = "asked"
  /\ LET x == Adopted
         newer == x.written > x.synced
     IN /\ o' = [x EXCEPT !.learned = @ \/ newer]
        /\ dec' = IF newer THEN Landing(x, [dec EXCEPT !.at = dec.pc], "answers")
                  ELSE [dec EXCEPT !.at = dec.pc, !.pc = "answers"]
  /\ lands' = Freed
  /\ fill' = [fill EXCEPT !.state = "taken"]
  /\ UNCHANGED << linear, memory, image, gpu, tl, page, guard, fresh, fifo, title, history >>

Answer ==
  /\ dec.pc = "answers"
  /\ fill' = [state |-> "done", v |-> dec.v]
  /\ dec' = [dec EXCEPT !.pc = dec.at, !.at = "none", !.v = 0]
  /\ UNCHANGED << gpus, page, guard, o, fresh, fifo, title, history >>

(* A draw: the first since a bind, a swap or the end of a pass takes in    *)
(* what the memory has newer (rt_first_write).                             *)
Decode ==
  /\ dec.pc = "between" /\ fifo.pass # << >> /\ Drawing(Head(fifo.pass))
  /\ fifo' = [fifo EXCEPT !.pass = Tail(@)]
  /\ fresh' = FALSE
  /\ dec' = IF fresh THEN [dec EXCEPT !.cmd = Head(fifo.pass), !.pc = "judges", !.to = "draws",
                                     !.done = tl.completed]
            ELSE [dec EXCEPT !.cmd = Head(fifo.pass), !.pc = "draws"]
  /\ UNCHANGED << gpus, page, guard, o, fill, title, history >>

(* coh_mem_newer, for a draw (coh_first_write) or for coh_land.            *)
Judge ==
  /\ dec.pc = "judges"
  /\ LET x == Adopted
         newer == MemNewer(x, dec.done)
         draw == dec.to = "draws"
     IN /\ o' = Judged(x, dec.done)
        /\ dec' = [dec EXCEPT !.done = 0,
                              !.pc = CASE draw /\ newer -> "uploads"
                                       [] ~draw /\ ~newer -> "lands"
                                       [] OTHER -> dec.to,
                              !.to = IF draw \/ newer THEN "none" ELSE @]
  /\ lands' = Freed
  /\ UNCHANGED << linear, memory, image, gpu, tl, page, guard, fresh, fill, fifo, title, history >>

Queue(c) == gpu' = [gpu EXCEPT !.queue = Append(@, c)]

(* The image gets the memory, but for a clear of all of it; they match     *)
(* from here on (coh_synced).                                              *)
Upload ==
  /\ dec.pc = "uploads"
  /\ IF dec.cmd = "clear" THEN UNCHANGED gpu ELSE Queue([op |-> "upload", writes |-> memory])
  /\ LET written == IF dec.cmd = "clear" THEN o.written ELSE o.written + 1
     IN o' = [o EXCEPT !.written = written, !.synced = written,
                       !.snap = page.count, !.judged = "no"]
  /\ page' = [page EXCEPT !.tracked = TRUE]
  /\ dec' = [dec EXCEPT !.pc = "draws"]
  /\ UNCHANGED << linear, memory, image, lands, tl, guard, fresh, fill, fifo, title, history >>

Draw ==
  /\ dec.pc = "draws"
  /\ Queue([op |-> dec.cmd, write |-> dec.drawn + 1, due |-> made])
  /\ o' = [o EXCEPT !.written = @ + 1]
  /\ dec' = [dec EXCEPT !.pc = "drawn", !.cmd = "none", !.drawn = @ + 1]
  /\ UNCHANGED << linear, memory, image, lands, tl, page, guard, fresh, fill, fifo,
                  title, history >>

(* coh_drawn: whether its last landing was taken, and whether its guard is *)
(* to be armed again; then that.                                           *)
Untaken == guard = [at |-> "closed", v |-> o.landV]
Unread == IF Untaken THEN o.unread + 1 ELSE 0

(* A fault: a landing taken does not make its guard be armed again.        *)
DrawnStaysArmed ==
  /\ dec.pc = "drawn"
  /\ o' = IF o.landV = 0 THEN o
          ELSE [o EXCEPT !.unread = IF Unread >= COH_UNREAD THEN 0 ELSE Unread,
                         !.learned = @ /\ Unread < COH_UNREAD,
                         !.landV = 0]
  /\ dec' = [dec EXCEPT !.pc = "guards", !.redo = ~o'.armed, !.current = TRUE]
  /\ UNCHANGED << gpus, page, guard, fresh, fill, fifo, title, history >>

Drawn ==
  /\ dec.pc = "drawn"
  /\ o' = IF o.landV = 0 THEN o
          ELSE [o EXCEPT !.unread = IF Unread >= COH_UNREAD THEN 0 ELSE Unread,
                         !.learned = @ /\ Unread < COH_UNREAD,
                         !.landV = 0, !.armed = FALSE]
  /\ dec' = [dec EXCEPT !.pc = "guards", !.redo = ~o'.armed, !.current = TRUE]
  /\ UNCHANGED << gpus, page, guard, fresh, fill, fifo, title, history >>

Guard ==
  /\ dec.pc = "guards"
  /\ IF dec.redo THEN /\ guard' = [at |-> "closed", v |-> 0]
                      /\ title' = [title EXCEPT !.same = FALSE]
                      /\ older' = FALSE
     ELSE UNCHANGED << guard, title, older >>
  /\ o' = [o EXCEPT !.armed = IF dec.redo THEN dec.current ELSE @, !.want = @ \/ o.learned]
  /\ made' = made \cup {dec.drawn}
  /\ dec' = [dec EXCEPT !.pc = "between", !.redo = FALSE, !.current = FALSE]
  /\ UNCHANGED << gpus, page, fresh, fill, fifo, overtaken >>

(* The rest of coh_land: a slot, its pages' stores to wait for its value,  *)
(* the readback; its landing queued on the timeline; its guard to wait.    *)
LandAsk ==
  /\ dec.pc = "lands"
  /\ LET v == Len(lands) + 1
     IN /\ lands' = Append(Freed, [at |-> "asked", queued |-> FALSE, written |-> o.written,
                                   texels |-> {}, snap |-> NoSnap])
        /\ page' = [page EXCEPT !.used = v, !.tracked = TRUE]
        /\ Queue([op |-> "readback", v |-> v])
        /\ dec' = [dec EXCEPT !.pc = "queues", !.v = v]
  /\ o' = Adopted
  /\ UNCHANGED << linear, memory, image, tl, guard, fresh, fill, fifo, title, history >>

LandQueue ==
  /\ dec.pc = "queues"
  /\ lands' = [lands EXCEPT ![dec.v].queued = TRUE]
  /\ dec' = [dec EXCEPT !.pc = "queued"]
  /\ UNCHANGED << linear, memory, image, gpu, tl, page, guard, o, fresh, fill, fifo,
                  title, history >>

LandQueued ==
  /\ dec.pc = "queued"
  /\ dec.v <= tl.landed => lands[dec.v].at \in {"done", "free"}     (* At once. *)
  /\ o' = [o EXCEPT !.landLast = dec.v, !.landV = dec.v, !.landW = o.written, !.want = FALSE]
  /\ guard' = IF guard.at = "none" THEN guard ELSE [guard EXCEPT !.v = dec.v]
  /\ dec' = [dec EXCEPT !.pc = dec.to, !.to = "none", !.v = IF dec.to = "answers" THEN @ ELSE 0]
  /\ UNCHANGED << gpus, page, fresh, fill, fifo, title, history >>

(* A semaphore's release, and the end of a pass (hle_pbd_idle): the fence, *)
(* then the title is told.                                                 *)
Release ==
  /\ dec.pc = "between" /\ fifo.pass # << >> /\ Head(fifo.pass) = "release"
  /\ fifo' = [fifo EXCEPT !.pass = Tail(@)]
  /\ Fence("releases")
  /\ UNCHANGED << gpus, page, guard, fresh, fill, title, history >>

EndPass ==
  /\ dec.pc = "between" /\ fifo.pass = << >>
  /\ fresh' = TRUE
  /\ Fence("publishes")
  /\ UNCHANGED << gpus, page, guard, fill, fifo, title, history >>

Tell ==
  /\ dec.pc \in {"releases", "publishes"}
  /\ title' = [title EXCEPT !.told = dec.drawn]
  /\ dec' = [dec EXCEPT !.pc = IF @ = "releases" THEN "between" ELSE "asleep", !.v = 0]
  /\ UNCHANGED << gpus, page, guard, o, fresh, fill, fifo, history >>

Decoder ==
  \/ BeginPass \/ Serve \/ Answer \/ Decode \/ Judge \/ Upload \/ Draw \/ Drawn \/ Guard
  \/ LandAsk \/ LandQueue \/ LandQueued \/ Release \/ EndPass \/ Tell
------------------------------------------------------------------------------
(* The GPU runs its commands in order.  A linear target's rows go into     *)
(* guest memory there and then.                                            *)
GpuRuns ==
  /\ gpu.queue # << >>
  /\ LET c == Head(gpu.queue)
         back == c.op = "readback"
     IN /\ gpu' = [queue |-> Tail(gpu.queue), reached |-> IF back THEN c.v ELSE gpu.reached]
        /\ image' = CASE back -> image
                      [] c.op = "upload" -> c.writes
                      [] c.op = "draw" -> image \cup {c.write}
                      [] c.op = "clear" -> image \cup c.due \cup {c.write}
        /\ lands' = IF back THEN [lands EXCEPT ![c.v].at = "read", ![c.v].texels = image] ELSE lands
        /\ memory' = IF back /\ linear THEN image ELSE memory
  /\ UNCHANGED << linear, tl, page, guard, o, fresh, fill, dec, fifo, title, history >>

(* Whoever publishes a value first makes its landing (land, land_one,      *)
(* coh_landed): the texels, their count, the snapshot, the pages tracked.  *)
LandTexels(v) ==
  /\ lands[v].at = "read"
  /\ memory' = IF linear THEN memory ELSE lands[v].texels
  /\ lands' = [lands EXCEPT ![v].at = "landed", ![v].texels = {}]
  /\ UNCHANGED << page, o, title >>

LandCounted(v) ==
  /\ lands[v].at = "landed"
  /\ page' = [page EXCEPT !.count = @ + 1]
  /\ o' = [o EXCEPT !.judged = "no"]
  /\ lands' = [lands EXCEPT ![v].at = "counted"]
  /\ UNCHANGED << memory, title >>

LandSnapped(v) ==
  /\ lands[v].at = "counted"
  /\ lands' = [lands EXCEPT ![v].at = "snapped", ![v].snap = page.count]
  /\ title' = [title EXCEPT !.taken = @ \/ title.store]
  /\ UNCHANGED << memory, page, o >>

LandTracked(v) ==
  /\ lands[v].at = "snapped"
  /\ page' = [page EXCEPT !.tracked = TRUE]
  /\ lands' = [lands EXCEPT ![v].at = "done"]
  /\ UNCHANGED << memory, o, title >>

LandOne(v) ==
  /\ v <= gpu.reached /\ v <= tl.landed + 1 /\ lands[v].queued
  /\ LandTexels(v) \/ LandCounted(v) \/ LandSnapped(v) \/ LandTracked(v)
  /\ UNCHANGED << linear, image, gpu, tl, guard, fresh, fill, dec, fifo, history >>

(* A value whose landing is not queued yet goes by.                        *)
Land ==
  /\ tl.landed < gpu.reached
  /\ lands[tl.landed + 1].queued => lands[tl.landed + 1].at \in {"done", "free"}
  /\ tl' = [tl EXCEPT !.landed = @ + 1]
  /\ UNCHANGED << linear, memory, image, gpu, lands, page, guard, o, fresh, fill, dec, fifo,
                  title, history >>

Complete ==
  /\ \E v \in (tl.completed + 1)..tl.landed : tl' = [tl EXCEPT !.completed = v]
  /\ UNCHANGED << linear, memory, image, gpu, lands, page, guard, o, fresh, fill, dec, fifo,
                  title, history >>

Publisher == Land \/ Complete \/ \E v \in DOMAIN lands : LandOne(v)
------------------------------------------------------------------------------
Next == Title \/ Access \/ Decoder \/ GpuRuns \/ Publisher

Spec == Init /\ [][Next]_vars
------------------------------------------------------------------------------
(* Whoever reads the target finds all that was written before, but for the *)
(* writes in `lost`: a load of the title's what the GPU had been told to   *)
(* draw and what the title had stored, a draw what it goes over.           *)
ReadersFind(lost) ==
  /\ LoadDone => title.due \ lost \subseteq memory
  /\ gpu'.queue # gpu.queue /\ gpu.queue # << >> =>
       (Head(gpu.queue).op = "draw" /\ gpu'.queue = Tail(gpu.queue) =>
          Head(gpu.queue).due \ lost \subseteq image)

(* Whoever reads the target finds all that was written before.  barrier.c  *)
(* promises it of a store that a landing meets: it is counted again, and   *)
(* "comes after it".  The code does not keep that (README, Divergence 14). *)
ReadersFindAll == [][ReadersFind({})]_vars

(* Whoever reads the target finds all that was written before, in memory   *)
(* or in the image, every store but one whose count a landing under way    *)
(* took in before it was made.                                             *)
ReadersFindCounted == [][ReadersFind(overtaken)]_vars

(* While the image has draws that the memory lacks, the guest is kept out  *)
(* of the memory, unless it was given back so.                             *)
GuardedWhileNewer == made \ overtaken \subseteq memory \/ guard.at = "closed" \/ older
==============================================================================
