------------------------- MODULE RenderThreadProofs -------------------------
(***************************************************************************)
(* Proofs about RenderThread, for any values, frames, boundaries and room  *)
(* in the ring: nothing the GPU still uses is taken from it.               *)
(***************************************************************************)
EXTENDS RenderThread, TLAPS, SequenceTheorems

(***************************************************************************)
(* The inductive invariant.                                                *)
(***************************************************************************)
Stamps == {"kick", "swap"}
Numbered == Stamps \cup {"destroy"}
Frames == 0..(FRAMES - 1)

Commands ==
  [op : Ops \ Numbered] \cup [op : Stamps, value : 1..VALUES]
    \cup [op : {"destroy"}, after : 1..(VALUES + 1)]
Submission == [value : 1..VALUES, uses : BOOLEAN, slot : 0..FRAMES]
Pend == [n : Nat, value : 0..VALUES]

RingType == ring \in [cmds : Seq(Commands), open : Nat]
DecoderType ==
  /\ d \in [pc : {"run", "begin", "full", "wake"}, op : Ops \cup {"none"}, urgent : BOOLEAN,
            last : 0..VALUES]
  /\ d.pc \in {"begin", "full"} => d.op \in Ops /\ (d.op \in Stamps => d.last < VALUES)
Renderer ==
  [pc : {"reset", "drain", "flush", "announce", "sleep", "asleep"}, pend : Pend,
   recording : BOOLEAN, uses : BOOLEAN, cur : Frames, value : [Frames -> 0..VALUES]]
RenderType == r \in Renderer
ItemType ==
  item \in [kind : {"none", "surface", "report"}, after : 0..GONE]
KickType == kick \in [event : BOOLEAN, sleeping : BOOLEAN]
GpuType == gpu \in [queue : Seq(Submission), completed : 0..Forever, lost : BOOLEAN]

Types ==
  /\ RingType /\ DecoderType /\ RenderType /\ ItemType /\ GpuType
  /\ KickType /\ wait \in 0..VALUES /\ bnd \in 0..VALUES

(* Submissions are in the order of their values, which are past what is    *)
(* completed and were all made.                                            *)
QueueInOrder ==
  /\ gpu.lost => gpu.queue = << >>
  /\ gpu.lost \/ gpu.completed <= d.last
  /\ \A i \in DOMAIN gpu.queue :
       /\ gpu.completed < gpu.queue[i].value /\ gpu.queue[i].value <= d.last
       /\ \A j \in DOMAIN gpu.queue : i < j => gpu.queue[i].value < gpu.queue[j].value

(* A value past everything submitted; past the boundaries that wait too.   *)
Unsubmitted(v) ==
  /\ gpu.lost \/ gpu.completed < v
  /\ \A i \in DOMAIN gpu.queue : gpu.queue[i].value < v
Unpended(v) == r.pend.n > 0 => r.pend.value < v

PendInOrder == r.pend.n > 0 => Unsubmitted(r.pend.value) /\ r.pend.value \in 1..d.last

(* The values in the ring are past those, and in their order; a surface's  *)
(* destruction is past what came before it.                                *)
Number(c) == IF c.op = "destroy" THEN c.after ELSE c.value

RingInOrder ==
  \A i \in DOMAIN ring.cmds :
    ring.cmds[i].op \in Numbered =>
      /\ Unsubmitted(Number(ring.cmds[i])) /\ Unpended(Number(ring.cmds[i]))
      /\ ring.cmds[i].op \in Stamps => ring.cmds[i].value <= d.last
      /\ \A j \in 1..(i - 1) :
           ring.cmds[j].op \in Stamps => ring.cmds[j].value < Number(ring.cmds[i])

(* A frame knows its last submission.                                      *)
FramesKnown ==
  \A i \in DOMAIN gpu.queue :
    gpu.queue[i].slot \in Frames => gpu.queue[i].value <= r.value[gpu.queue[i].slot]

(* What the item waits for is past every submission that uses it, and what *)
(* is recorded now does not.                                               *)
ItemWaits ==
  /\ r.uses => r.recording
  /\ item.after \notin {LIVE, PARKED} => ~r.uses
  /\ item.after \notin {LIVE, PARKED, GONE} =>
       \A i \in DOMAIN gpu.queue : gpu.queue[i].uses => gpu.queue[i].value <= item.after

IInv ==
  /\ Types /\ QueueInOrder /\ PendInOrder /\ RingInOrder /\ FramesKnown /\ ItemWaits /\ InUseKept
-----------------------------------------------------------------------------
(* The decoder's steps: it puts a command in the ring, or no more than     *)
(* publishes what it has, wakes the render thread or waits.                *)
Puts(op) ==
  /\ op \in Ops /\ (op \in Stamps => d.last < VALUES)
  /\ ring' \in [cmds : {Append(ring.cmds, Command(op))}, open : Nat]
  /\ d'.last = IF op \in Stamps THEN d.last + 1 ELSE d.last
  /\ UNCHANGED << r, item, gpu >>

Waits ==
  /\ ring'.cmds = ring.cmds /\ d'.last = d.last
  /\ UNCHANGED << r, item, gpu >>

(* A command has the form of its kind.                                     *)
LEMMA CommandIs ==
  ASSUME Types, NEW op \in Ops, op \in Stamps => d.last < VALUES
  PROVE  /\ Command(op) \in Commands /\ Command(op).op = op
         /\ op \in Stamps => Command(op).value = d.last + 1
         /\ op \in Numbered => Number(Command(op)) = d.last + 1
<1>. USE RenderAssumption DEF RenderAssumption, Types, DecoderType
<1>1. CASE op \in Stamps
  <2>1. Command(op) = [op |-> op, value |-> d.last + 1]
    BY <1>1 DEF Command, Stamps
  <2>. QED
    BY <1>1, <2>1 DEF Commands, Number, Stamps
<1>2. CASE op = "destroy"
  <2>1. Command(op) = [op |-> op, after |-> d.last + 1]
    BY <1>2 DEF Command
  <2>. QED
    BY <1>2, <2>1 DEF Commands, Number, Stamps
<1>3. CASE op \notin Numbered
  <2>1. Command(op) = [op |-> op]
    BY <1>3 DEF Command, Stamps, Numbered
  <2>. QED
    BY <1>3, <2>1 DEF Commands, Stamps, Numbered
<1>. QED
  BY <1>1, <1>2, <1>3 DEF Numbered

(* What a command in the ring says of itself.                              *)
LEMMA CommandsAre ==
  ASSUME NEW c \in Commands
  PROVE  /\ c.op \in Ops
         /\ c.op \in Stamps => c.value \in 1..VALUES
         /\ c.op = "destroy" => c.after \in 1..(VALUES + 1)
         /\ c.op \in Numbered => Number(c) \in 1..(VALUES + 1)
         /\ c.op \in Stamps => Number(c) = c.value
  BY RenderAssumption DEF RenderAssumption, Commands, Number, Stamps, Numbered, Ops

(* A command begun is put in the ring if there is room.                    *)
LEMMA BeginPuts ==
  ASSUME Types, NEW op \in Ops, NEW urgent \in BOOLEAN, op \in Stamps => d.last < VALUES,
         Begin(op, urgent), UNCHANGED << r, item, gpu >>
  PROVE  /\ RingType' /\ DecoderType'
         /\ Puts(op) \/ Waits
<1>. USE RenderAssumption DEF RenderAssumption
<1>1. CASE Len(ring.cmds) < CAPACITY
  <2>. DEFINE cmds == Append(ring.cmds, Command(op))
  <2>1. cmds \in Seq(Commands)
    BY CommandIs, AppendProperties DEF Types, RingType
  <2>2. ring' = [cmds |-> cmds, open |-> IF op = "state" THEN ring.open + 1 ELSE 0]
    BY <1>1 DEF Begin, Publish
  <2>3. ring.open + 1 \in Nat
    BY DEF Types, RingType
  <2>4. d' = [pc |-> IF op = "state" THEN "begin" ELSE "wake",
              op |-> IF op = "state" THEN "draw" ELSE "none", urgent |-> urgent,
              last |-> IF op \in Stamps THEN d.last + 1 ELSE d.last]
    BY <1>1 DEF Begin, Stamps
  <2>5. d'.last \in 0..VALUES
    BY <2>4 DEF Types, DecoderType
  <2>6. DecoderType'
    BY <2>4, <2>5 DEF DecoderType, Ops, Stamps
  <2>. HIDE DEF cmds
  <2>7. RingType'
    BY <2>1, <2>2, <2>3 DEF RingType
  <2>8. ring' \in [cmds : {cmds}, open : Nat]
    BY <2>2, <2>3
  <2>9. d'.last = IF op \in Stamps THEN d.last + 1 ELSE d.last
    BY <2>4
  <2>. QED
    BY <2>6, <2>7, <2>8, <2>9 DEF Puts, cmds
<1>2. CASE ~(Len(ring.cmds) < CAPACITY)
  <2>1. ring' = [ring EXCEPT !.open = 0] /\ d' = [d EXCEPT !.pc = "full", !.op = op, !.urgent = urgent]
    BY <1>2 DEF Begin, Publish
  <2>2. RingType' /\ ring'.cmds = ring.cmds
    BY <2>1 DEF Types, RingType
  <2>3. DecoderType' /\ d'.last = d.last
    BY <2>1 DEF Types, DecoderType
  <2>. QED
    BY <2>2, <2>3 DEF Waits
<1>. QED
  BY <1>1, <1>2

(* A step of the decoder's keeps its types and the ring's.                 *)
LEMMA DecoderSteps ==
  ASSUME Types, DecoderStep \/ \E op \in Ops \ {"draw"} : Decode(op)
  PROVE  Types' /\ ((\E op \in Ops : Puts(op)) \/ Waits)
<1>. USE RenderAssumption DEF RenderAssumption
<1>Decode. ASSUME NEW op \in Ops \ {"draw"}, Decode(op)
  PROVE  Types' /\ (Puts(op) \/ Waits)
  <2>1. /\ Begin(op, FALSE) /\ (op \in Stamps => d.last < VALUES)
        /\ UNCHANGED << r, item, gpu, wait, kick, bnd >>
    BY <1>Decode DEF Decode, DecoderUnchanged, Stamps
  <2>2. op \in Ops /\ FALSE \in BOOLEAN /\ UNCHANGED << r, item, gpu >>
    BY <2>1
  <2>3. RingType' /\ DecoderType' /\ (Puts(op) \/ Waits)
    BY <2>1, <2>2, BeginPuts
  <2>. QED
    BY <2>1, <2>3 DEF Types, KickType, RenderType, ItemType, GpuType
<1>BeginNext. CASE BeginNext
  <2>1. /\ Begin(d.op, d.urgent) /\ d.op \in Ops /\ (d.op \in Stamps => d.last < VALUES)
        /\ d.urgent \in BOOLEAN /\ UNCHANGED << r, item, gpu, wait, kick, bnd >>
    BY <1>BeginNext DEF BeginNext, DecoderUnchanged, Types, DecoderType
  <2>2. RingType' /\ DecoderType' /\ (Puts(d.op) \/ Waits)
    BY <2>1, BeginPuts
  <2>. QED
    BY <2>1, <2>2 DEF Types, KickType, RenderType, ItemType, GpuType
<1>ServeBoundary. CASE ServeBoundary
  <2>1. bnd' = 0 /\ UNCHANGED << r, item, gpu, wait >>
    BY <1>ServeBoundary DEF ServeBoundary, DecoderUnchanged
  <2>2. CASE d.last < bnd
    <3>1. Begin("kick", TRUE) /\ UNCHANGED kick
      BY <1>ServeBoundary, <2>2 DEF ServeBoundary
    <3>2. "kick" \in Ops /\ d.last < VALUES
      BY <2>2 DEF Types, DecoderType, Ops
    <3>3. RingType' /\ DecoderType' /\ (Puts("kick") \/ Waits)
      BY <2>1, <3>1, <3>2, BeginPuts
    <3>. QED
      BY <2>1, <3>1, <3>2, <3>3 DEF Types, KickType, RenderType, ItemType, GpuType
  <2>3. CASE ~(d.last < bnd)
    <3>1. kick' = [kick EXCEPT !.event = TRUE] /\ UNCHANGED << ring, d >>
      BY <1>ServeBoundary, <2>3 DEF ServeBoundary
    <3>2. KickType'
      BY <3>1 DEF Types, KickType
    <3>. QED
      BY <2>1, <3>1, <3>2 DEF Waits, Types, RingType, DecoderType, RenderType, ItemType, GpuType
  <2>. QED
    BY <2>2, <2>3
<1>Kick. CASE Kick
  <2>1. UNCHANGED << r, item, gpu, wait, ring, bnd >>
    BY <1>Kick DEF Kick, DecoderUnchanged
  <2>2. KickType'
    <3>1. (kick.event \/ kick.sleeping \/ (d.pc = "wake" /\ d.urgent)) \in BOOLEAN
      OBVIOUS
    <3>. QED
      BY <1>Kick, <3>1 DEF Kick, Types, KickType
  <2>3. DecoderType' /\ d'.last = d.last
    BY <1>Kick DEF Kick, Types, DecoderType
  <2>. QED
    BY <2>1, <2>2, <2>3 DEF Waits, Types, RingType, KickType, RenderType, ItemType, GpuType
<1>. QED
  BY <1>Decode, <1>BeginNext, <1>ServeBoundary, <1>Kick DEF DecoderStep, Types, DecoderType
-----------------------------------------------------------------------------
(* What the GPU has to run.                                                *)
LEMMA QueueIs ==
  ASSUME Types
  PROVE  /\ gpu.queue \in Seq(Submission) /\ Len(gpu.queue) \in Nat
         /\ DOMAIN gpu.queue = 1..Len(gpu.queue)
         /\ \A i \in DOMAIN gpu.queue :
              /\ gpu.queue[i].value \in 1..VALUES /\ gpu.queue[i].uses \in BOOLEAN
              /\ gpu.queue[i].slot \in 0..FRAMES
         /\ gpu.completed \in 0..Forever /\ gpu.completed \in Int
         /\ d.last \in 0..VALUES /\ d.last \in Int /\ VALUES \in Nat \ {0}
<1>. USE RenderAssumption DEF RenderAssumption
<1>1. gpu.queue \in Seq(Submission)
  BY DEF Types, GpuType
<1>2. \A i \in DOMAIN gpu.queue : gpu.queue[i] \in Submission
  BY <1>1
<1>3. \A i \in DOMAIN gpu.queue :
        /\ gpu.queue[i].value \in 1..VALUES /\ gpu.queue[i].uses \in BOOLEAN
        /\ gpu.queue[i].slot \in 0..FRAMES
  BY <1>2 DEF Submission
<1>. QED
  BY <1>1, <1>3 DEF Types, GpuType, DecoderType, Forever

(* A submission goes behind the others; the frame it recorded is its, and  *)
(* the next is in use.                                                     *)
LEMMA SubmitAppends ==
  ASSUME Types, ~gpu.lost, NEW s \in Renderer, NEW v \in 1..VALUES, Submit(s, v)
  PROVE  /\ GpuType' /\ RenderType' /\ ItemType'
         /\ gpu'.completed = gpu.completed /\ gpu'.lost = gpu.lost
         /\ DOMAIN gpu'.queue = 1..(Len(gpu.queue) + 1)
         /\ \A i \in DOMAIN gpu'.queue : i = Len(gpu.queue) + 1 \/ i \in DOMAIN gpu.queue
         /\ \A i \in DOMAIN gpu.queue : gpu'.queue[i] = gpu.queue[i] /\ i < Len(gpu.queue) + 1
         /\ gpu'.queue[Len(gpu.queue) + 1].value = v
         /\ gpu'.queue[Len(gpu.queue) + 1].uses = s.uses
         /\ gpu'.queue[Len(gpu.queue) + 1].slot = IF s.recording THEN s.cur ELSE FRAMES
         /\ r'.pend = s.pend /\ ~r'.recording
         /\ r'.value = IF s.recording THEN [s.value EXCEPT ![s.cur] = v] ELSE s.value
         /\ r'.uses <=> ~s.recording /\ s.uses
         /\ item'.after = IF item.after = PARKED THEN v ELSE item.after
<1>. USE RenderAssumption DEF RenderAssumption
<1>. DEFINE e == [value |-> v, uses |-> s.uses, slot |-> IF s.recording THEN s.cur ELSE FRAMES]
            q == Append(gpu.queue, e)
<1>0. /\ s.cur \in Frames /\ s.recording \in BOOLEAN /\ s.uses \in BOOLEAN
      /\ s.value \in [Frames -> 0..VALUES] /\ (s.cur + 1) % FRAMES \in Frames
  BY DEF Renderer, Frames
<1>1. /\ e \in Submission /\ e.value = v /\ e.uses = s.uses
      /\ e.slot = IF s.recording THEN s.cur ELSE FRAMES
  BY <1>0 DEF Submission, Frames
<1>. HIDE DEF e
<1>2. q \in Seq(Submission) /\ Len(q) = Len(gpu.queue) + 1
  BY <1>1, QueueIs, AppendProperties
<1>3. /\ DOMAIN q = 1..(Len(gpu.queue) + 1) /\ q[Len(gpu.queue) + 1] = e
      /\ \A i \in DOMAIN gpu.queue : q[i] = gpu.queue[i]
  BY <1>1, QueueIs, AppendProperties
<1>4. gpu' = [gpu EXCEPT !.queue = q]
  BY DEF Submit, e
<1>. HIDE DEF q
<1>5. GpuType' /\ gpu'.queue = q /\ gpu'.completed = gpu.completed /\ gpu'.lost = gpu.lost
  BY <1>2, <1>4 DEF Types, GpuType
<1>6. /\ \A i \in DOMAIN q : i = Len(gpu.queue) + 1 \/ i \in DOMAIN gpu.queue
      /\ \A i \in DOMAIN gpu.queue : i < Len(gpu.queue) + 1
  BY <1>3, QueueIs
<1>7. /\ RenderType' /\ r'.pend = s.pend /\ ~r'.recording
      /\ r'.value = IF s.recording THEN [s.value EXCEPT ![s.cur] = v] ELSE s.value
      /\ r'.uses <=> ~s.recording /\ s.uses
  <2>. DEFINE value == [s.value EXCEPT ![s.cur] = v]
  <2>1. value \in [Frames -> 0..VALUES]
    BY <1>0
  <2>2. r' = IF s.recording
             THEN [s EXCEPT !.value = value, !.cur = (s.cur + 1) % FRAMES, !.recording = FALSE, !.uses = FALSE]
             ELSE s
    BY DEF Submit
  <2>. HIDE DEF value
  <2>3. CASE s.recording
    <3>1. r' = [s EXCEPT !.value = value, !.cur = (s.cur + 1) % FRAMES, !.recording = FALSE, !.uses = FALSE]
      BY <2>2, <2>3
    <3>2. r' \in Renderer /\ r'.pend = s.pend /\ r'.recording = FALSE /\ r'.value = value /\ r'.uses = FALSE
      BY <1>0, <2>1, <3>1 DEF Renderer
    <3>. QED
      BY <2>3, <3>2 DEF RenderType, value
  <2>4. CASE ~s.recording
    BY <1>0, <2>2, <2>4 DEF RenderType
  <2>. QED
    BY <2>3, <2>4
<1>8. ItemType' /\ item'.after = IF item.after = PARKED THEN v ELSE item.after
  BY DEF Submit, Stamped, Types, ItemType, GONE, Forever
<1>. QED
  BY <1>1, <1>3, <1>5, <1>6, <1>7, <1>8

(* A submission of a value past all those submitted keeps what the GPU     *)
(* uses, if what is recorded was the frame's and the item's to use.        *)
SubmitReady(s) ==
  /\ s.value = r.value /\ s.uses = r.uses
  /\ s.uses => s.recording
  /\ s.recording => \A i \in DOMAIN gpu.queue : gpu.queue[i].slot # s.cur

LEMMA SubmitKeeps ==
  ASSUME Types, ~gpu.lost, QueueInOrder, FramesKnown, ItemWaits, InUseKept,
         NEW s \in Renderer, NEW v \in 1..VALUES, SubmitReady(s), Submit(s, v),
         v <= d.last, d'.last = d.last, Unsubmitted(v)
  PROVE  /\ QueueInOrder' /\ FramesKnown' /\ ItemWaits' /\ InUseKept'
         /\ \A x \in Int : Unsubmitted(x) /\ v < x => Unsubmitted(x)'
<1>. DEFINE k == Len(gpu.queue) + 1
<1>0. \A i \in DOMAIN gpu.queue : gpu.queue[i].value < v
  BY DEF Unsubmitted
<1>1. /\ gpu'.completed = gpu.completed /\ ~gpu'.lost /\ gpu.completed < v
      /\ \A i \in DOMAIN gpu'.queue : i = k \/ i \in DOMAIN gpu.queue
      /\ k \in DOMAIN gpu'.queue
      /\ \A i \in DOMAIN gpu.queue : gpu'.queue[i] = gpu.queue[i] /\ i < k /\ i \in DOMAIN gpu'.queue
      /\ k \in Int /\ \A i \in DOMAIN gpu.queue : i \in Int
  <2>1. gpu'.completed = gpu.completed /\ ~gpu'.lost /\ gpu.completed < v
    BY SubmitAppends DEF Unsubmitted
  <2>2. /\ \A i \in DOMAIN gpu'.queue : i = k \/ i \in DOMAIN gpu.queue
        /\ DOMAIN gpu'.queue = 1..k
        /\ \A i \in DOMAIN gpu.queue : gpu'.queue[i] = gpu.queue[i] /\ i < k
    BY SubmitAppends
  <2>. QED
    BY <2>1, <2>2, QueueIs
<1>2. /\ gpu'.queue[k].value = v /\ gpu'.queue[k].uses = s.uses
      /\ gpu'.queue[k].slot = IF s.recording THEN s.cur ELSE FRAMES
  BY SubmitAppends
<1>3. /\ ~r'.recording /\ ~r'.uses
      /\ r'.value = IF s.recording THEN [r.value EXCEPT ![s.cur] = v] ELSE r.value
      /\ item'.after = IF item.after = PARKED THEN v ELSE item.after
  BY SubmitAppends DEF SubmitReady, Renderer
<1>4. s.cur \in Frames /\ r.value \in [Frames -> 0..VALUES] /\ FRAMES \notin Frames
  BY RenderAssumption DEF RenderAssumption, Renderer, Types, RenderType, Frames
<1>. HIDE DEF k
<1>5. QueueInOrder'
  <2>1. ASSUME NEW i \in DOMAIN gpu'.queue
        PROVE  gpu'.completed < gpu'.queue[i].value /\ gpu'.queue[i].value <= d'.last
    BY <1>1, <1>2 DEF QueueInOrder
  <2>2. ASSUME NEW i \in DOMAIN gpu'.queue, NEW j \in DOMAIN gpu'.queue, i < j
        PROVE  gpu'.queue[i].value < gpu'.queue[j].value
    <3>1. i \in DOMAIN gpu.queue
      BY <1>1, <2>2
    <3>. QED
      BY <1>0, <1>1, <1>2, <2>2, <3>1 DEF QueueInOrder
  <2>. QED
    BY <1>1, <2>1, <2>2 DEF QueueInOrder
<1>6. FramesKnown'
  <2>. SUFFICES ASSUME NEW i \in DOMAIN gpu'.queue, gpu'.queue[i].slot \in Frames
                PROVE  gpu'.queue[i].value <= r'.value[gpu'.queue[i].slot]
    BY DEF FramesKnown
  <2>1. CASE i = k
    BY <1>2, <1>3, <1>4, <2>1
  <2>2. CASE i \in DOMAIN gpu.queue
    <3>1. gpu'.queue[i] = gpu.queue[i] /\ gpu.queue[i].value <= r.value[gpu.queue[i].slot]
      BY <1>1, <2>2 DEF FramesKnown
    <3>2. s.recording => gpu.queue[i].slot # s.cur
      BY <2>2 DEF SubmitReady
    <3>. QED
      BY <1>3, <1>4, <3>1, <3>2
  <2>. QED
    BY <1>1, <2>1, <2>2
<1>7. /\ item.after \notin {LIVE, PARKED} => ~s.uses
      /\ item.after = GONE => \A i \in DOMAIN gpu.queue : ~gpu.queue[i].uses
  BY DEF ItemWaits, InUseKept, SubmitReady
<1>8. v \notin {LIVE, PARKED, GONE} /\ GONE \notin {LIVE, PARKED} /\ LIVE # PARKED
  BY RenderAssumption DEF RenderAssumption, LIVE, PARKED, GONE, Forever
<1>9. ItemWaits'
  <2>1. ASSUME item'.after \notin {LIVE, PARKED, GONE}, NEW i \in DOMAIN gpu'.queue, gpu'.queue[i].uses
        PROVE  gpu'.queue[i].value <= item'.after
    <3>1. CASE item.after = PARKED
      <4>1. item'.after = v /\ v \in Int
        BY <1>3, <3>1
      <4>2. CASE i = k
        BY <1>2, <4>1, <4>2
      <4>3. CASE i \in DOMAIN gpu.queue
        BY <1>0, <1>1, <4>1, <4>3, QueueIs
      <4>. QED
        BY <1>1, <4>2, <4>3
    <3>2. CASE item.after # PARKED
      <4>1. item'.after = item.after
        BY <1>3, <3>2
      <4>2. i \in DOMAIN gpu.queue
        BY <1>1, <1>2, <1>7, <2>1, <3>2, <4>1
      <4>. QED
        BY <1>1, <2>1, <4>1, <4>2 DEF ItemWaits
    <3>. QED
      BY <3>1, <3>2
  <2>. QED
    BY <1>3, <2>1 DEF ItemWaits
<1>10. InUseKept'
  <2>1. ASSUME item'.after = GONE, NEW i \in DOMAIN gpu'.queue
        PROVE  ~gpu'.queue[i].uses
    <3>1. item.after = GONE
      BY <1>3, <1>8, <2>1
    <3>. QED
      BY <1>1, <1>2, <1>7, <1>8, <3>1
  <2>. QED
    BY <1>3, <2>1 DEF InUseKept
<1>11. ASSUME NEW x \in Int, Unsubmitted(x), v < x
       PROVE  Unsubmitted(x)'
  BY <1>1, <1>2, <1>11 DEF Unsubmitted
<1>. QED
  BY <1>5, <1>6, <1>9, <1>10, <1>11
-----------------------------------------------------------------------------
(* What keeps the GPU's work and what uses it: what is submitted, and the  *)
(* item and the frames.                                                    *)
Kept == QueueInOrder /\ FramesKnown /\ ItemWaits /\ InUseKept

(* If these keep the values that are past what is submitted and pending,   *)
(* the ring is as much in order as before, its first command taken or not. *)
Later(x) == Unsubmitted(x) /\ Unpended(x)

LEMMA RingWaits ==
  ASSUME Types, RingInOrder, ring'.cmds = ring.cmds, d'.last = d.last,
         \A x \in Int : Later(x) => Later(x)'
  PROVE  RingInOrder'
<1>1. \A i \in DOMAIN ring.cmds : ring.cmds[i].op \in Numbered => Number(ring.cmds[i]) \in Int
  <2>. SUFFICES ASSUME NEW i \in DOMAIN ring.cmds, ring.cmds[i].op \in Numbered
                PROVE  Number(ring.cmds[i]) \in Int
    OBVIOUS
  <2>1. ring.cmds[i] \in Commands
    BY DEF Types, RingType
  <2>. QED
    BY <2>1, CommandsAre, RenderAssumption DEF RenderAssumption
<1>. QED
  BY <1>1 DEF RingInOrder, Later

(* The command taken is the first; the others come after it.               *)
LEMMA TakeIs ==
  ASSUME Types, Take
  PROVE  /\ 1 \in DOMAIN ring.cmds /\ Head(ring.cmds) = ring.cmds[1] /\ ring.cmds[1] \in Commands
         /\ RingType' /\ d' = d /\ UNCHANGED << wait, bnd >>
         /\ \A i \in DOMAIN ring'.cmds :
              /\ ring'.cmds[i] = ring.cmds[i + 1] /\ i + 1 \in DOMAIN ring.cmds /\ i \in Nat \ {0}
              /\ ring'.cmds[i] \in Commands
<1>0. ring.cmds \in Seq(Commands) /\ ring.open \in Nat /\ Len(ring.cmds) \in Nat
      /\ DOMAIN ring.cmds = 1..Len(ring.cmds)
  BY DEF Types, RingType
<1>1. ring' = [ring EXCEPT !.cmds = Tail(ring.cmds)] /\ d' = d /\ UNCHANGED << wait, bnd >>
      /\ ring.open < Len(ring.cmds)
  BY DEF Take, Published, RenderUnchanged
<1>2. ring.cmds # << >> /\ Len(ring.cmds) >= 1
  BY <1>0, <1>1, EmptySeq
<1>3. /\ Tail(ring.cmds) \in Seq(Commands) /\ Len(Tail(ring.cmds)) = Len(ring.cmds) - 1
      /\ \A i \in 1..Len(Tail(ring.cmds)) : Tail(ring.cmds)[i] = ring.cmds[i + 1]
      /\ Head(ring.cmds) \in Commands /\ Head(ring.cmds) = ring.cmds[1]
  BY <1>0, <1>2, HeadTailProperties
<1>4. RingType' /\ ring'.cmds = Tail(ring.cmds)
  BY <1>1, <1>3 DEF Types, RingType
<1>5. DOMAIN ring'.cmds = 1..Len(ring'.cmds) /\ \A i \in DOMAIN ring'.cmds : ring'.cmds[i] \in Commands
  BY <1>3, <1>4
<1>. QED
  BY <1>0, <1>1, <1>2, <1>3, <1>4, <1>5

LEMMA RingTaken ==
  ASSUME Types, RingInOrder, Take,
         \A x \in Int : Later(x) /\ (ring.cmds[1].op \in Stamps => ring.cmds[1].value < x) => Later(x)'
  PROVE  RingInOrder'
<1>. SUFFICES ASSUME NEW i \in DOMAIN ring'.cmds, ring'.cmds[i].op \in Numbered,
                     NEW x, x = Number(ring'.cmds[i])
              PROVE  /\ Later(x)'
                     /\ ring'.cmds[i].op \in Stamps => ring'.cmds[i].value <= d'.last
                     /\ \A j \in 1..(i - 1) :
                          ring'.cmds[j].op \in Stamps => ring'.cmds[j].value < x
  BY DEF RingInOrder, Later, Unsubmitted, Unpended, Number
<1>1. /\ ring'.cmds[i] = ring.cmds[i + 1] /\ i + 1 \in DOMAIN ring.cmds /\ i \in Nat \ {0}
      /\ ring.cmds[i + 1] \in Commands /\ d' = d
  BY TakeIs
<1>2. x \in Int
  BY <1>1, CommandsAre, RenderAssumption DEF RenderAssumption
<1>3. /\ Later(x)
      /\ ring.cmds[i + 1].op \in Stamps => ring.cmds[i + 1].value <= d.last
      /\ \A j \in 1..i : ring.cmds[j].op \in Stamps => ring.cmds[j].value < x
  BY <1>1 DEF RingInOrder, Later
<1>4. Later(x)'
  BY <1>1, <1>2, <1>3
<1>5. ASSUME NEW j \in 1..(i - 1)
      PROVE  j \in DOMAIN ring'.cmds /\ j + 1 \in 1..i
  <2>1. DOMAIN ring'.cmds = 1..Len(ring'.cmds) /\ Len(ring'.cmds) \in Nat
    BY TakeIs DEF RingType
  <2>. QED
    BY <1>1, <2>1
<1>6. ASSUME NEW j \in 1..(i - 1), ring'.cmds[j].op \in Stamps
      PROVE  ring'.cmds[j].value < x
  BY <1>3, <1>5, <1>6, TakeIs
<1>. QED
  BY <1>1, <1>3, <1>4, <1>6

(* A command put in the ring is of the value made next.                    *)
LEMMA RingPut ==
  ASSUME Types, QueueInOrder, PendInOrder, RingInOrder, NEW op \in Ops, Puts(op)
  PROVE  RingInOrder'
<1>. DEFINE k == Len(ring.cmds) + 1
            c == Command(op)
<1>0. ring.cmds \in Seq(Commands) /\ Len(ring.cmds) \in Nat /\ DOMAIN ring.cmds = 1..Len(ring.cmds)
  BY DEF Types, RingType
<1>1. c \in Commands /\ c.op = op /\ (op \in Stamps => c.value = d.last + 1)
      /\ (op \in Numbered => Number(c) = d.last + 1)
  BY CommandIs DEF Puts
<1>2. ring'.cmds = Append(ring.cmds, c)
  BY DEF Puts
<1>. HIDE DEF c
<1>3. /\ DOMAIN ring'.cmds = 1..k /\ ring'.cmds[k] = c
      /\ \A i \in DOMAIN ring.cmds : ring'.cmds[i] = ring.cmds[i]
  BY <1>0, <1>1, <1>2, AppendProperties
<1>4. d.last \in Int /\ d'.last \in Int /\ d.last <= d'.last /\ (op \in Stamps => d'.last = d.last + 1)
  BY QueueIs DEF Puts
<1>5. \A x \in Int : Later(x)' <=> Later(x)
  BY DEF Puts, Later, Unsubmitted, Unpended
<1>6. Later(d.last + 1)
  BY QueueIs DEF Later, Unsubmitted, Unpended, QueueInOrder, PendInOrder
<1>7. ASSUME NEW i \in DOMAIN ring.cmds, ring.cmds[i].op \in Numbered
      PROVE  /\ Number(ring.cmds[i]) \in Int /\ Later(Number(ring.cmds[i]))
             /\ ring.cmds[i].op \in Stamps =>
                  ring.cmds[i].value \in Int /\ ring.cmds[i].value <= d.last
             /\ \A j \in 1..(i - 1) : j \in DOMAIN ring.cmds
             /\ \A j \in 1..(i - 1) :
                  ring.cmds[j].op \in Stamps => ring.cmds[j].value < Number(ring.cmds[i])
  <2>1. ring.cmds[i] \in Commands
    BY <1>0
  <2>. QED
    BY <1>0, <1>7, <2>1, CommandsAre, RenderAssumption DEF RenderAssumption, RingInOrder, Later
<1>. SUFFICES ASSUME NEW i \in DOMAIN ring'.cmds, ring'.cmds[i].op \in Numbered,
                     NEW x, x = Number(ring'.cmds[i])
              PROVE  /\ Later(x)'
                     /\ ring'.cmds[i].op \in Stamps => ring'.cmds[i].value <= d'.last
                     /\ \A j \in 1..(i - 1) :
                          ring'.cmds[j].op \in Stamps => ring'.cmds[j].value < x
  BY DEF RingInOrder, Later, Unsubmitted, Unpended, Number
<1>8. CASE i \in DOMAIN ring.cmds
  BY <1>3, <1>4, <1>5, <1>7, <1>8
<1>9. CASE i = k
  <2>1. x = d.last + 1 /\ x \in Int
    BY <1>1, <1>3, <1>4, <1>9
  <2>2. ASSUME NEW j \in 1..(i - 1), ring'.cmds[j].op \in Stamps
        PROVE  ring'.cmds[j].value < x
    <3>1. j \in DOMAIN ring.cmds
      BY <1>0, <1>9
    <3>2. ring.cmds[j].op \in Numbered
      BY <1>3, <2>2, <3>1 DEF Numbered
    <3>. QED
      BY <1>3, <1>4, <1>7, <2>1, <2>2, <3>1, <3>2
  <2>. QED
    BY <1>1, <1>3, <1>4, <1>5, <1>6, <1>9, <2>1, <2>2
<1>. QED
  BY <1>0, <1>3, <1>8, <1>9

-----------------------------------------------------------------------------
(* What a flush is asked of: the render thread, with boundaries that are   *)
(* past what is submitted.                                                 *)
FlushReady(s) ==
  /\ s.recording = r.recording /\ s.uses = r.uses /\ s.cur = r.cur /\ s.value = r.value
  /\ s.pend.n > 0 => s.pend.value \in 1..d.last /\ Unsubmitted(s.pend.value)

(* The render thread with such boundaries, and nothing submitted.          *)
LEMMA PendKeeps ==
  ASSUME Types, Kept, NEW s \in Renderer, FlushReady(s), r' = s, UNCHANGED << gpu, item >>,
         d'.last = d.last
  PROVE  /\ GpuType' /\ RenderType' /\ ItemType' /\ Kept' /\ PendInOrder'
         /\ \A x \in Int : Unsubmitted(x) /\ (s.pend.n > 0 => s.pend.value < x) => Later(x)'
<1>1. QueueInOrder' /\ FramesKnown'
  BY DEF Kept, QueueInOrder, FramesKnown, FlushReady
<1>2. ItemWaits' /\ InUseKept'
  BY DEF Kept, ItemWaits, InUseKept, FlushReady
<1>3. PendInOrder'
  BY DEF FlushReady, PendInOrder, Unsubmitted
<1>4. \A x \in Int : Unsubmitted(x) /\ (s.pend.n > 0 => s.pend.value < x) => Later(x)'
  BY DEF Later, Unsubmitted, Unpended
<1>5. GpuType' /\ RenderType' /\ ItemType'
  BY DEF Types, GpuType, RenderType, ItemType
<1>. QED
  BY <1>1, <1>2, <1>3, <1>4, <1>5 DEF Kept

(* A flush submits the boundaries, if there are any.                       *)
LEMMA FlushKeeps ==
  ASSUME Types, Kept, ~gpu.lost, NEW s \in Renderer, FlushReady(s), Flush(s), d'.last = d.last
  PROVE  /\ GpuType' /\ RenderType' /\ ItemType' /\ Kept' /\ PendInOrder'
         /\ \A x \in Int : Unsubmitted(x) /\ (s.pend.n > 0 => s.pend.value < x) => Later(x)'
<1>1. CASE s.pend.n > 0
  <2>. DEFINE u == [s EXCEPT !.pend = NoPend]
              v == s.pend.value
  <2>1. v \in 1..VALUES /\ v <= d.last /\ Unsubmitted(v) /\ v \in Int
    BY <1>1, QueueIs DEF FlushReady
  <2>2. NoPend \in Pend /\ NoPend.n = 0
    BY RenderAssumption DEF RenderAssumption, NoPend, Pend
  <2>3. /\ u \in Renderer /\ u.pend = NoPend /\ u.recording = r.recording /\ u.uses = r.uses
        /\ u.cur = r.cur /\ u.value = r.value
    BY <2>2 DEF FlushReady, Renderer
  <2>4. Submit(u, v)
    BY <1>1 DEF Flush
  <2>. HIDE DEF u, v
  <2>5. SubmitReady(u)
    BY <2>3 DEF SubmitReady, Kept, ItemWaits, InUseKept
  <2>6. Kept' /\ \A x \in Int : Unsubmitted(x) /\ v < x => Unsubmitted(x)'
    BY <2>1, <2>3, <2>4, <2>5, SubmitKeeps DEF Kept
  <2>7. GpuType' /\ RenderType' /\ ItemType' /\ r'.pend = NoPend
    BY <2>1, <2>3, <2>4, SubmitAppends
  <2>8. PendInOrder' /\ \A x \in Int : Unpended(x)'
    BY <2>2, <2>7 DEF PendInOrder, Unpended
  <2>. QED
    BY <1>1, <2>6, <2>7, <2>8 DEF Later, v
<1>2. CASE ~(s.pend.n > 0)
  <2>1. r' = s /\ UNCHANGED << gpu, item >>
    BY <1>2 DEF Flush
  <2>. QED
    BY <2>1, PendKeeps
<1>. QED
  BY <1>1, <1>2

(* A step that does no more than move the render thread on, or reap: what  *)
(* is reaped the GPU has done with.                                        *)
Quiet ==
  /\ r'.pend = r.pend /\ r'.recording = r.recording /\ r'.uses = r.uses
  /\ r'.cur = r.cur /\ r'.value = r.value
  /\ item' = item \/ item' = Reaped
  /\ ring'.cmds = ring.cmds /\ d'.last = d.last /\ gpu' = gpu

LEMMA QuietKeeps ==
  ASSUME Types, Kept, PendInOrder, RingInOrder, Quiet
  PROVE  ItemType' /\ Kept' /\ PendInOrder' /\ RingInOrder'
<1>1. \A x \in Int : Unsubmitted(x)' <=> Unsubmitted(x)
  BY DEF Quiet, Unsubmitted
<1>2. RingInOrder'
  <2>1. \A x \in Int : Later(x) => Later(x)'
    BY <1>1 DEF Quiet, Later, Unpended
  <2>. QED
    BY <2>1, RingWaits DEF Quiet
<1>3. PendInOrder' /\ QueueInOrder' /\ FramesKnown'
  BY DEF Quiet, PendInOrder, Unsubmitted, Kept, QueueInOrder, FramesKnown
<1>4. CASE item' = item
  <2>1. ItemWaits' /\ InUseKept'
    BY <1>4 DEF Kept, Quiet, ItemWaits, InUseKept
  <2>. QED
    BY <1>2, <1>3, <1>4, <2>1 DEF Kept, Types, ItemType
<1>5. CASE item' # item
  <2>1. /\ item' = [item EXCEPT !.after = GONE]
        /\ item.after \notin {LIVE, PARKED, GONE} /\ item.after <= gpu.completed
    BY <1>5 DEF Quiet, Reaped
  <2>2. ItemType' /\ item'.after = GONE
    BY <2>1, RenderAssumption DEF RenderAssumption, Types, ItemType, GONE, Forever
  <2>3. \A i \in DOMAIN gpu.queue : ~gpu.queue[i].uses
    <3>. SUFFICES ASSUME NEW i \in DOMAIN gpu.queue, gpu.queue[i].uses PROVE FALSE
      OBVIOUS
    <3>1. gpu.queue[i].value <= item.after /\ gpu.completed < gpu.queue[i].value
      BY <2>1 DEF Kept, ItemWaits, QueueInOrder
    <3>2. item.after \in Int
      BY DEF Types, ItemType, GONE, Forever
    <3>. QED
      BY <2>1, <3>1, <3>2, QueueIs
  <2>4. ~r.uses
    BY <2>1 DEF Kept, ItemWaits
  <2>5. ItemWaits' /\ InUseKept'
    BY <2>2, <2>3, <2>4 DEF Kept, Quiet, ItemWaits, InUseKept
  <2>. QED
    BY <1>2, <1>3, <2>2, <2>5 DEF Kept
<1>. QED
  BY <1>4, <1>5
-----------------------------------------------------------------------------
(* The types and orders that a step has to keep.                           *)
Safe == Types /\ Kept /\ PendInOrder /\ RingInOrder

(* The decoder puts commands in order.                                     *)
LEMMA DecoderKeeps ==
  ASSUME Safe, DecoderStep \/ \E op \in Ops \ {"draw"} : Decode(op)
  PROVE  Safe'
<1>0. Types' /\ ((\E op \in Ops : Puts(op)) \/ Waits)
  BY DecoderSteps DEF Safe
<1>1. ASSUME NEW op \in Ops, Puts(op)
      PROVE  Safe'
  <2>1. RingInOrder'
    BY <1>1, RingPut DEF Safe, Kept
  <2>2. UNCHANGED << r, item, gpu >> /\ d.last <= d'.last /\ d.last \in Int /\ d'.last \in Int
    BY <1>1, QueueIs DEF Puts, Safe
  <2>3. QueueInOrder'
    BY <2>2, QueueIs DEF Safe, Kept, QueueInOrder
  <2>4. PendInOrder'
    BY <2>2 DEF Safe, PendInOrder, Unsubmitted
  <2>5. FramesKnown' /\ ItemWaits' /\ InUseKept'
    BY <2>2 DEF Safe, Kept, FramesKnown, ItemWaits, InUseKept
  <2>. QED
    BY <1>0, <2>1, <2>3, <2>4, <2>5 DEF Safe, Kept
<1>2. CASE Waits
  <2>1. Quiet
    BY <1>2 DEF Waits, Quiet
  <2>. QED
    BY <1>0, <2>1, QuietKeeps DEF Safe
<1>. QED
  BY <1>0, <1>1, <1>2

(* The guest, and the render thread between commands.                      *)
LEMMA QuietSteps ==
  ASSUME Safe,
         \/ Return \/ (\E v \in 1..VALUES : Store(v)) \/ Reset \/ Dry \/ More("flush") \/ More("sleep")
         \/ Announce \/ Sleep \/ WakeUp \/ ReapNow \/ UNCHANGED vars
  PROVE  Safe'
<1>. USE RenderAssumption DEF RenderAssumption
<1>0. Types /\ RingType /\ DecoderType /\ RenderType /\ GpuType /\ KickType
  BY DEF Safe, Types
<1>1. ASSUME Quiet, RingType', DecoderType', RenderType', KickType', wait' \in 0..VALUES, bnd' \in 0..VALUES
      PROVE  Safe'
  <2>1. ItemType' /\ Kept' /\ PendInOrder' /\ RingInOrder'
    BY <1>1, QuietKeeps DEF Safe
  <2>2. GpuType'
    BY <1>0, <1>1 DEF Quiet, GpuType
  <2>. QED
    BY <1>1, <2>1, <2>2 DEF Safe, Types
<1>2. ASSUME UNCHANGED << ring, d, r, item, gpu >>, KickType', wait' \in 0..VALUES, bnd' \in 0..VALUES
      PROVE  Safe'
  <2>1. Quiet /\ RingType' /\ DecoderType' /\ RenderType'
    BY <1>0, <1>2 DEF Quiet, RingType, DecoderType, RenderType
  <2>. QED
    BY <1>1, <1>2, <2>1
<1>3. ASSUME NEW pc \in {"reset", "drain", "flush", "announce", "sleep", "asleep"},
             r' = [r EXCEPT !.pc = pc], item' = item \/ item' = Reaped,
             UNCHANGED << ring, d, gpu, wait, bnd >>, KickType'
      PROVE  Safe'
  <2>1. /\ RenderType' /\ r'.pend = r.pend /\ r'.recording = r.recording /\ r'.uses = r.uses
        /\ r'.cur = r.cur /\ r'.value = r.value
    BY <1>0, <1>3 DEF RenderType, Renderer
  <2>2. Quiet /\ RingType' /\ DecoderType'
    BY <1>0, <1>3, <2>1 DEF Quiet, RingType, DecoderType
  <2>3. wait' \in 0..VALUES /\ bnd' \in 0..VALUES
    BY <1>0, <1>3 DEF Types
  <2>. QED
    BY <1>1, <1>3, <2>1, <2>2, <2>3
<1>4. UNCHANGED kick => KickType'
  BY <1>0 DEF KickType
<1>5. wait \in 0..VALUES /\ bnd \in 0..VALUES
  BY <1>0 DEF Types
<1>Return. CASE Return
  BY <1>Return, <1>2, <1>4, <1>5 DEF Return
<1>Store. ASSUME NEW v \in 1..VALUES, Store(v)
  PROVE  Safe'
  BY <1>Store, <1>2, <1>4, <1>5 DEF Store
<1>Reset. CASE Reset
  <2>1. KickType'
    BY <1>Reset, <1>0 DEF Reset, KickType
  <2>. QED
    BY <1>Reset, <1>3, <2>1 DEF Reset, RenderUnchanged
<1>Dry. CASE Dry
  BY <1>Dry, <1>3, <1>4 DEF Dry, RenderUnchanged
<1>More. ASSUME NEW pc, More(pc)
  PROVE  Safe'
  <2>1. KickType'
    BY <1>More, <1>0 DEF More, KickType
  <2>. QED
    BY <1>More, <1>3, <2>1 DEF More, RenderUnchanged
<1>Announce. CASE Announce
  <2>1. KickType'
    BY <1>Announce, <1>0 DEF Announce, KickType
  <2>. QED
    BY <1>Announce, <1>3, <2>1 DEF Announce, RenderUnchanged
<1>Sleep. CASE Sleep
  BY <1>Sleep, <1>3, <1>4 DEF Sleep, RenderUnchanged
<1>WakeUp. CASE WakeUp
  <2>1. KickType'
    BY <1>WakeUp, <1>0 DEF WakeUp, KickType
  <2>. QED
    BY <1>WakeUp, <1>3, <2>1 DEF WakeUp, RenderUnchanged
<1>ReapNow. CASE ReapNow
  <2>1. Quiet /\ UNCHANGED << ring, d, r, kick, wait, bnd >>
    BY <1>ReapNow DEF ReapNow, RenderUnchanged, Quiet
  <2>2. RingType' /\ DecoderType' /\ RenderType' /\ KickType'
    BY <1>0, <2>1 DEF RingType, DecoderType, RenderType, KickType
  <2>. QED
    BY <1>1, <1>5, <2>1, <2>2
<1>Same. CASE UNCHANGED vars
  BY <1>Same, <1>2, <1>4, <1>5 DEF vars
<1>. QED
  BY <1>Return, <1>Store, <1>Reset, <1>Dry, <1>More, <1>Announce, <1>Sleep, <1>WakeUp, <1>ReapNow, <1>Same

(* The GPU runs the first submission, or is lost.                          *)
LEMMA GpuKeeps ==
  ASSUME Safe, GpuRuns \/ Lose
  PROVE  Safe'
<1>. USE RenderAssumption DEF RenderAssumption
<1>0. Types /\ RingType /\ DecoderType /\ RenderType /\ ItemType /\ GpuType /\ KickType
  BY DEF Safe, Types
<1>1. UNCHANGED << ring, d, r, item, wait, bnd >>
  BY DEF GpuRuns, Lose
<1>2. ASSUME GpuType', KickType', QueueInOrder', \A x \in Int : Unsubmitted(x) => Unsubmitted(x)',
             \A i \in DOMAIN gpu'.queue : \E j \in DOMAIN gpu.queue : gpu'.queue[i] = gpu.queue[j]
      PROVE  Safe'
  <2>1. Types'
    BY <1>0, <1>1, <1>2 DEF Types, RingType, DecoderType, RenderType, ItemType
  <2>2. \A x \in Int : Later(x) => Later(x)'
    BY <1>1, <1>2 DEF Later, Unpended
  <2>3. RingInOrder'
    BY <1>0, <1>1, <2>2, RingWaits DEF Safe
  <2>4. PendInOrder'
    BY <1>1, <1>2, QueueIs DEF Safe, PendInOrder
  <2>5. FramesKnown' /\ ItemWaits' /\ InUseKept'
    BY <1>1, <1>2 DEF Safe, Kept, FramesKnown, ItemWaits, InUseKept
  <2>. QED
    BY <1>2, <2>1, <2>3, <2>4, <2>5 DEF Safe, Kept
<1>GpuRuns. CASE GpuRuns
  <2>1. gpu.queue # << >> /\ Len(gpu.queue) >= 1
    BY <1>0, <1>GpuRuns, QueueIs, EmptySeq DEF GpuRuns
  <2>2. /\ Tail(gpu.queue) \in Seq(Submission) /\ Len(Tail(gpu.queue)) = Len(gpu.queue) - 1
        /\ \A i \in 1..Len(Tail(gpu.queue)) : Tail(gpu.queue)[i] = gpu.queue[i + 1]
        /\ Head(gpu.queue) = gpu.queue[1] /\ 1 \in DOMAIN gpu.queue
    BY <1>0, <2>1, QueueIs, HeadTailProperties
  <2>3. gpu' = [gpu EXCEPT !.queue = Tail(gpu.queue), !.completed = gpu.queue[1].value]
    BY <1>GpuRuns, <2>2 DEF GpuRuns
  <2>4. gpu.queue[1].value \in 0..Forever /\ gpu.queue[1].value \in Int
    BY <1>0, <2>2, QueueIs DEF Forever
  <2>5. /\ GpuType' /\ gpu'.queue = Tail(gpu.queue) /\ gpu'.completed = gpu.queue[1].value
        /\ gpu'.lost = gpu.lost
    BY <1>0, <2>2, <2>3, <2>4 DEF GpuType
  <2>6. DOMAIN gpu'.queue = 1..Len(gpu'.queue)
    BY <2>5 DEF GpuType
  <2>7. \A i \in DOMAIN gpu'.queue :
          gpu'.queue[i] = gpu.queue[i + 1] /\ i + 1 \in DOMAIN gpu.queue /\ i \in Nat \ {0}
    BY <1>0, <2>1, <2>2, <2>5, <2>6, QueueIs
  <2>8. KickType'
    <3>1. (kick.event \/ ReportPending) \in BOOLEAN
      OBVIOUS
    <3>. QED
      BY <1>GpuRuns, <1>0, <3>1 DEF GpuRuns, KickType
  <2>9. ~gpu.lost
    BY <2>1 DEF Safe, Kept, QueueInOrder
  <2>10. QueueInOrder'
    BY <1>0, <1>1, <2>2, <2>5, <2>7, <2>9, QueueIs DEF Safe, Kept, QueueInOrder
  <2>11. \A x \in Int : Unsubmitted(x) => Unsubmitted(x)'
    BY <2>2, <2>5, <2>7 DEF Unsubmitted
  <2>. QED
    BY <1>2, <2>5, <2>7, <2>8, <2>10, <2>11
<1>Lose. CASE Lose
  <2>1. gpu' = [queue |-> << >>, completed |-> Forever, lost |-> TRUE] /\ UNCHANGED kick
    BY <1>Lose DEF Lose
  <2>2. GpuType' /\ KickType'
    BY <1>0, <2>1, EmptySeq DEF GpuType, KickType, Forever
  <2>3. DOMAIN gpu'.queue = {} /\ gpu'.lost
    BY <2>1
  <2>4. QueueInOrder' /\ \A x \in Int : Unsubmitted(x)'
    BY <2>1, <2>3 DEF QueueInOrder, Unsubmitted
  <2>. QED
    BY <1>2, <2>2, <2>3, <2>4
<1>. QED
  BY <1>GpuRuns, <1>Lose

(* The render thread takes and does a command.                             *)
LEMMA TakeKeeps ==
  ASSUME Safe, Skip \/ State \/ Draw \/ Swap \/ Destroy \/ VisEnd \/ \E old \in BOOLEAN : Boundary(old)
  PROVE  Safe'
<1>. USE RenderAssumption DEF RenderAssumption
<1>0. Types /\ RingInOrder /\ PendInOrder /\ Kept /\ RenderType /\ GpuType /\ ItemType
  BY DEF Safe, Types
<1>1. Take /\ UNCHANGED kick
  BY DEF Skip, State, Draw, Swap, Destroy, VisEnd, Boundary, Dispatch
<1>. DEFINE c == ring.cmds[1]
<1>2. /\ 1 \in DOMAIN ring.cmds /\ Head(ring.cmds) = c /\ c \in Commands /\ RingType' /\ d' = d
      /\ DecoderType' /\ KickType' /\ wait' \in 0..VALUES /\ bnd' \in 0..VALUES
  BY <1>0, <1>1, TakeIs DEF Types, DecoderType, KickType
<1>3. ASSUME GpuType', RenderType', ItemType', Kept', PendInOrder',
             \A x \in Int : Later(x) /\ (c.op \in Stamps => c.value < x) => Later(x)'
      PROVE  Safe'
  BY <1>0, <1>1, <1>2, <1>3, RingTaken DEF Safe, Types
<1>4. c.op \in Stamps =>
        /\ c.value \in 1..d.last /\ c.value \in 1..VALUES /\ c.value \in Int
        /\ Unsubmitted(c.value) /\ Unpended(c.value)
  BY <1>0, <1>2, CommandsAre, QueueIs DEF RingInOrder, Number, Numbered, Stamps
<1>5. /\ r.cur \in Frames /\ r.recording \in BOOLEAN /\ r.uses \in BOOLEAN /\ r.pend \in Pend
      /\ r.value \in [Frames -> 0..VALUES] /\ r.pend.n \in Nat
  BY <1>0 DEF RenderType, Renderer, Pend
<1>6. r.recording \/ r.value[r.cur] <= gpu.completed => \A i \in DOMAIN gpu.queue : gpu.queue[i].slot # r.cur
  <2>1. CASE r.recording
    BY <1>0, <2>1 DEF Kept, InUseKept
  <2>2. CASE r.value[r.cur] <= gpu.completed
    <3>. SUFFICES ASSUME NEW i \in DOMAIN gpu.queue, gpu.queue[i].slot = r.cur PROVE FALSE
      BY <2>2
    <3>1. gpu.queue[i].value <= r.value[r.cur] /\ gpu.completed < gpu.queue[i].value
      BY <1>0, <1>5 DEF Kept, FramesKnown, QueueInOrder
    <3>2. r.value[r.cur] \in Int
      BY <1>5
    <3>. QED
      BY <1>0, <2>2, <3>1, <3>2, QueueIs
  <2>. QED
    BY <2>1, <2>2
<1>Idle. CASE Skip \/ State
  <2>1. UNCHANGED << r, item, gpu, d >>
    BY <1>2, <1>Idle DEF Skip, State
  <2>2. Kept' /\ PendInOrder'
    BY <1>0, <2>1 DEF Kept, QueueInOrder, FramesKnown, ItemWaits, InUseKept, PendInOrder, Unsubmitted
  <2>3. GpuType' /\ RenderType' /\ ItemType'
    BY <1>0, <2>1 DEF GpuType, RenderType, ItemType
  <2>4. \A x \in Int : Later(x) => Later(x)'
    BY <2>1 DEF Later, Unsubmitted, Unpended
  <2>. QED
    BY <1>3, <2>2, <2>3, <2>4
<1>Draw. CASE Draw
  <2>1. /\ r' = [r EXCEPT !.recording = TRUE, !.uses = r.uses \/ item.after = LIVE]
        /\ UNCHANGED << item, gpu, d >> /\ FrameReady
    BY <1>2, <1>Draw DEF Draw, Dispatch, Records
  <2>2. (r.uses \/ item.after = LIVE) \in BOOLEAN
    OBVIOUS
  <2>3. /\ RenderType' /\ r'.recording /\ (r'.uses <=> r.uses \/ item.after = LIVE)
        /\ r'.pend = r.pend /\ r'.cur = r.cur /\ r'.value = r.value
    BY <1>0, <2>1, <2>2 DEF RenderType, Renderer
  <2>4. InUseKept'
    <3>1. item.after = GONE => ~r'.uses /\ \A i \in DOMAIN gpu.queue : ~gpu.queue[i].uses
      BY <1>0, <2>3 DEF Kept, InUseKept, LIVE, GONE, Forever
    <3>2. \A i \in DOMAIN gpu.queue : gpu.queue[i].slot # r.cur
      BY <1>6, <2>1 DEF FrameReady
    <3>. QED
      BY <2>1, <2>3, <3>1, <3>2 DEF InUseKept
  <2>5. ItemWaits' /\ QueueInOrder' /\ FramesKnown' /\ PendInOrder'
    BY <1>0, <2>1, <2>3 DEF Kept, ItemWaits, QueueInOrder, FramesKnown, PendInOrder, Unsubmitted
  <2>6. \A x \in Int : Later(x) => Later(x)'
    BY <2>1, <2>3 DEF Later, Unsubmitted, Unpended
  <2>7. GpuType' /\ ItemType'
    BY <1>0, <2>1 DEF GpuType, ItemType
  <2>. QED
    BY <1>3, <2>3, <2>4, <2>5, <2>6, <2>7 DEF Kept
<1>Boundary. ASSUME NEW old \in BOOLEAN, Boundary(old)
  PROVE  Safe'
  <2>. DEFINE pend == [n |-> r.pend.n + 1, value |-> c.value]
              s == [r EXCEPT !.pend = pend]
  <2>1. c.op \in Stamps /\ ~gpu.lost
    BY <1>2, <1>Boundary DEF Boundary, Dispatch, Stamps
  <2>2. pend \in Pend /\ pend.n > 0 /\ pend.value = c.value
    BY <1>4, <1>5, <2>1 DEF Pend
  <2>. HIDE DEF pend
  <2>3. /\ s \in Renderer /\ s.pend = pend /\ s.recording = r.recording /\ s.uses = r.uses
        /\ s.cur = r.cur /\ s.value = r.value
    BY <1>0, <2>2 DEF RenderType, Renderer
  <2>4. Flush(s) \/ (r' = s /\ UNCHANGED << item, gpu >>)
    BY <1>2, <1>Boundary DEF Boundary, pend
  <2>. HIDE DEF s
  <2>5. FlushReady(s)
    BY <1>4, <2>1, <2>2, <2>3 DEF FlushReady
  <2>6. d'.last = d.last
    BY <1>2
  <2>7. /\ GpuType' /\ RenderType' /\ ItemType' /\ Kept' /\ PendInOrder'
        /\ \A x \in Int : Unsubmitted(x) /\ (s.pend.n > 0 => s.pend.value < x) => Later(x)'
    BY <1>0, <2>1, <2>3, <2>4, <2>5, <2>6, FlushKeeps, PendKeeps
  <2>8. \A x \in Int : Later(x) /\ (c.op \in Stamps => c.value < x) => Later(x)'
    BY <2>1, <2>2, <2>3, <2>7 DEF Later
  <2>. QED
    BY <1>3, <2>7, <2>8
<1>Swap. CASE Swap
  <2>. DEFINE pend == IF c.value >= r.pend.value THEN NoPend ELSE r.pend
              s == [r EXCEPT !.recording = TRUE, !.pend = pend]
  <2>1. c.op \in Stamps /\ ~gpu.lost /\ FrameReady
    BY <1>2, <1>Swap DEF Swap, Dispatch, Stamps, Records
  <2>2. pend \in Pend /\ ~(pend.n > 0)
    <3>1. NoPend \in Pend /\ NoPend.n = 0
      BY DEF NoPend, Pend
    <3>2. ~(c.value >= r.pend.value) => ~(r.pend.n > 0)
      <4>1. r.pend.value \in Int
        BY <1>5 DEF Pend
      <4>. QED
        BY <1>4, <2>1, <4>1 DEF Unpended
    <3>. QED
      BY <1>5, <3>1, <3>2
  <2>3. Submit(s, c.value)
    BY <1>2, <1>Swap DEF Swap
  <2>. HIDE DEF pend
  <2>4. /\ s \in Renderer /\ s.pend = pend /\ s.recording /\ s.uses = r.uses
        /\ s.cur = r.cur /\ s.value = r.value
    BY <1>0, <2>2 DEF RenderType, Renderer
  <2>. HIDE DEF s
  <2>5. SubmitReady(s)
    BY <1>6, <2>1, <2>4 DEF SubmitReady, FrameReady
  <2>6. c.value <= d.last /\ d'.last = d.last /\ c.value \in 1..VALUES /\ Unsubmitted(c.value)
    BY <1>2, <1>4, <2>1
  <2>7. Kept' /\ \A x \in Int : Unsubmitted(x) /\ c.value < x => Unsubmitted(x)'
    BY <1>0, <2>1, <2>3, <2>4, <2>5, <2>6, SubmitKeeps DEF Kept
  <2>8. GpuType' /\ RenderType' /\ ItemType' /\ r'.pend = pend
    BY <1>0, <2>1, <2>3, <2>4, <2>6, SubmitAppends
  <2>9. PendInOrder' /\ \A x \in Int : Unpended(x)'
    BY <2>2, <2>8 DEF PendInOrder, Unpended
  <2>10. \A x \in Int : Later(x) /\ (c.op \in Stamps => c.value < x) => Later(x)'
    BY <2>1, <2>7, <2>9 DEF Later
  <2>. QED
    BY <1>3, <2>7, <2>8, <2>9, <2>10
<1>7. ASSUME UNCHANGED << r, gpu >>, ItemType', item'.after # GONE,
             item'.after \notin {LIVE, PARKED} => ~r.recording /\ \A i \in DOMAIN gpu.queue : gpu.queue[i].value <= item'.after
      PROVE  Safe'
  <2>1. QueueInOrder' /\ FramesKnown' /\ PendInOrder'
    BY <1>0, <1>2, <1>7 DEF Kept, QueueInOrder, FramesKnown, PendInOrder, Unsubmitted
  <2>2. ItemWaits' /\ InUseKept'
    BY <1>0, <1>7 DEF Kept, ItemWaits, InUseKept
  <2>3. GpuType' /\ RenderType'
    BY <1>0, <1>7 DEF GpuType, RenderType
  <2>4. \A x \in Int : Later(x) => Later(x)'
    BY <1>7 DEF Later, Unsubmitted, Unpended
  <2>. QED
    BY <1>3, <1>7, <2>1, <2>2, <2>3, <2>4 DEF Kept
<1>Destroy. CASE Destroy
  <2>1. /\ UNCHANGED << r, gpu >> /\ c.op = "destroy"
        /\ item' = [kind |-> "surface", after |-> IF r.recording THEN PARKED ELSE c.after]
    BY <1>2, <1>Destroy DEF Destroy, Dispatch
  <2>2. c.after \in 1..(VALUES + 1) /\ Unsubmitted(c.after)
    BY <1>0, <1>2, <2>1, CommandsAre DEF RingInOrder, Number, Numbered
  <2>3. ItemType' /\ item'.after # GONE
    BY <2>1, <2>2 DEF ItemType, PARKED, GONE, Forever
  <2>4. \A i \in DOMAIN gpu.queue : gpu.queue[i].value <= c.after
    BY <1>0, <2>2, QueueIs DEF Unsubmitted
  <2>. QED
    BY <1>7, <2>1, <2>3, <2>4
<1>VisEnd. CASE VisEnd
  <2>1. UNCHANGED << r, gpu >> /\ item' = [kind |-> "report", after |-> PARKED]
    BY <1>VisEnd DEF VisEnd
  <2>2. ItemType' /\ item'.after = PARKED /\ PARKED # GONE
    BY <2>1 DEF ItemType, PARKED, GONE, Forever
  <2>. QED
    BY <1>7, <2>1, <2>2
<1>. QED
  BY <1>Idle, <1>Draw, <1>Boundary, <1>Swap, <1>Destroy, <1>VisEnd

(* The boundaries that wait are submitted when they are old, or when the   *)
(* ring is dry.                                                            *)
LEMMA FlushSteps ==
  ASSUME Safe, AgeCheck \/ FlushDry
  PROVE  Safe'
<1>0. Types /\ RingInOrder /\ PendInOrder /\ Kept /\ RingType /\ DecoderType /\ RenderType /\ GpuType /\ ItemType
      /\ KickType
  BY DEF Safe, Types
<1>1. UNCHANGED << ring, d, wait, bnd, kick >>
  BY DEF AgeCheck, FlushDry, RenderUnchanged
<1>2. RingType' /\ DecoderType' /\ KickType' /\ wait' \in 0..VALUES /\ bnd' \in 0..VALUES
  BY <1>0, <1>1 DEF Types, RingType, DecoderType, KickType
<1>3. \E s \in Renderer : /\ s.recording = r.recording /\ s.uses = r.uses /\ s.cur = r.cur /\ s.value = r.value
                          /\ s.pend = r.pend
                          /\ (~gpu.lost /\ Flush(s)) \/ (r' = s /\ UNCHANGED << gpu, item >>)
  <2>1. CASE AgeCheck
    BY <1>0, <2>1 DEF AgeCheck, RenderType
  <2>2. CASE FlushDry
    <3>. DEFINE pc == IF ~Published THEN "announce" ELSE "reset"
                s == [r EXCEPT !.pc = pc]
    <3>1. pc \in {"announce", "reset"}
      OBVIOUS
    <3>2. IF gpu.lost THEN r' = s /\ UNCHANGED << item, gpu >> ELSE Flush(s)
      BY <2>2 DEF FlushDry
    <3>. HIDE DEF pc
    <3>3. /\ s \in Renderer /\ s.recording = r.recording /\ s.uses = r.uses /\ s.cur = r.cur
          /\ s.value = r.value /\ s.pend = r.pend
      BY <1>0, <3>1 DEF RenderType, Renderer
    <3>. HIDE DEF s
    <3>. QED
      BY <3>2, <3>3
  <2>. QED
    BY <2>1, <2>2
<1>4. PICK s \in Renderer : /\ s.recording = r.recording /\ s.uses = r.uses /\ s.cur = r.cur /\ s.value = r.value
                            /\ s.pend = r.pend
                            /\ (~gpu.lost /\ Flush(s)) \/ (r' = s /\ UNCHANGED << gpu, item >>)
  BY <1>3
<1>5. FlushReady(s) /\ d'.last = d.last
  BY <1>0, <1>1, <1>4 DEF FlushReady, PendInOrder
<1>6. /\ GpuType' /\ RenderType' /\ ItemType' /\ Kept' /\ PendInOrder'
      /\ \A x \in Int : Unsubmitted(x) /\ (s.pend.n > 0 => s.pend.value < x) => Later(x)'
  BY <1>0, <1>4, <1>5, FlushKeeps, PendKeeps
<1>7. \A x \in Int : Later(x) => Later(x)'
  BY <1>4, <1>6 DEF Later, Unpended
<1>8. RingInOrder'
  BY <1>0, <1>1, <1>7, RingWaits
<1>. QED
  BY <1>2, <1>6, <1>8 DEF Safe, Types

-----------------------------------------------------------------------------
(* The invariant of RenderThread.                                          *)
THEOREM Invariant == Spec => []IInv
<1>1. Init => IInv
  <2>. SUFFICES ASSUME Init PROVE IInv
    OBVIOUS
  <2>. USE RenderAssumption DEF RenderAssumption, Init
  <2>1. RingType /\ DecoderType /\ ItemType
    BY EmptySeq DEF RingType, DecoderType, ItemType, LIVE, GONE, Forever
  <2>2. GpuType /\ KickType
    BY EmptySeq DEF GpuType, KickType, Forever
  <2>3. RenderType
    BY DEF RenderType, Renderer, Pend, Frames
  <2>4. gpu.queue = << >> /\ gpu.completed = 0 /\ ~gpu.lost /\ d.last = 0 /\ r.pend.n = 0 /\ ~r.uses
        /\ ~r.recording /\ item.after = LIVE /\ ring.cmds = << >>
    OBVIOUS
  <2>5. DOMAIN gpu.queue = {} /\ DOMAIN ring.cmds = {}
    BY <2>4
  <2>6. QueueInOrder /\ PendInOrder /\ RingInOrder /\ FramesKnown
    BY <2>4, <2>5 DEF QueueInOrder, PendInOrder, RingInOrder, FramesKnown
  <2>7. ItemWaits /\ InUseKept
    BY <2>4, <2>5 DEF ItemWaits, InUseKept, LIVE, GONE, Forever
  <2>. QED
    BY <2>1, <2>2, <2>3, <2>6, <2>7 DEF IInv, Types
<1>2. IInv /\ [Next]_vars => IInv'
  <2>. SUFFICES ASSUME Safe, [Next]_vars PROVE Safe'
    BY DEF IInv, Safe, Kept
  <2>. QED
    BY DecoderKeeps, QuietSteps, GpuKeeps, TakeKeeps, FlushSteps DEF Next, RenderStep
<1>. QED
  BY <1>1, <1>2, PTL DEF Spec

(* Nothing the GPU still uses is taken from it: a surface is destroyed,    *)
(* and a test's result read, only after every submission that uses it, and *)
(* a command buffer is recorded again only after its last submission ran.  *)
THEOREM InUseStaysKept == Spec => []InUseKept
  BY Invariant, PTL DEF IInv
=============================================================================
