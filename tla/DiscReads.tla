------------------------------ MODULE DiscReads ------------------------------
(***************************************************************************)
(* Reads on the reader thread (io.c), their completion on the guest's CPU, *)
(* and the threads that wait for them: for their events, alertably for     *)
(* their APCs, or in the call (apc.c, and ke.c and ps.c as far as this     *)
(* goes).                                                                  *)
(*                                                                         *)
(* The guest's CPU and the reader are two threads of the host.  The guest  *)
(* runs in its own code ("guest"); a kernel call runs whole, and on the    *)
(* way back ("exit", "leave") reads are completed and the scheduler may go *)
(* round ("pass", "pick").  Which ready thread it picks is the matter of   *)
(* Scheduler; here any.                                                    *)
(***************************************************************************)
EXTENDS Apc

CONSTANTS
  Events,       (* The events reads complete: the title's, or files' own.  *)
  EventOf,      (* The event of each request.                              *)
  HasApc,       (* The requests with an APC routine.                       *)
  ThreadOf,     (* The thread each KAPC is initialised for.                *)
  Sync,         (* Those through a synchronous handle.                     *)
  DISC_JOBS     (* The length of the reader's queue.                       *)

ASSUME DiscReadsAssumption ==
  /\ EventOf \in [Requests -> Events]
  /\ HasApc \subseteq Requests /\ Sync \subseteq Requests
  /\ ThreadOf \in [Kapcs -> 1..MaxThreadId]
  /\ DISC_JOBS \in Nat \ {0}
  /\ Requests \cap (Events \cup {"sleep", "nothing"}) = {}
  /\ Events \cap {"sleep", "nothing"} = {}

VARIABLES
  k,        (* The kernel, a record:                                       *)
            (*   phase     where the guest's CPU is                        *)
            (*   current   the thread that runs, or ran last               *)
            (*   frame     the live context, of the current thread         *)
            (*   thread    the slots                                       *)
            (*   event     which events are set                            *)
            (*   iosb      the status block of each request: "pending", or *)
            (*             "done" with whatever status                     *)
            (*   inserted  the Inserted byte of each KAPC                  *)
            (*   ids       threads created so far                          *)
            (*   polled    reads being completed, taken off the done list  *)
  reader,   (* g_reader, a record: queue; done, the reads for the kernel   *)
            (* to complete; busy; posting, done with one and yet to tell   *)
  work      (* nc_irq_post_work's flag.                                    *)

vars == << k, reader, work >>

(* A context nobody goes on from: the live one while the scheduler goes    *)
(* round, the saved one of the thread that runs.                           *)
Nowhere == [place |-> InTitle, eax |-> "none"]

Init ==
  /\ k = [phase |-> "guest", current |-> FirstSlot(Threads),
          frame |-> Nowhere,
          thread |-> [t \in Threads |-> IF t = FirstSlot(Threads)
                                       THEN [NewThread(1) EXCEPT !.state = "running"] ELSE Free],
          event |-> [e \in Events |-> FALSE],
          iosb |-> [r \in Requests |-> "done"],
          inserted |-> [a \in Kapcs |-> FALSE],
          ids |-> 1,
          polled |-> << >>]
  /\ reader = [queue |-> << >>, done |-> << >>, busy |-> 0, posting |-> FALSE]
  /\ work = FALSE

Current == k.thread[k.current]

-----------------------------------------------------------------------------
(***************************************************************************)
(* The functions of the kernel, from one record to the next.               *)
(***************************************************************************)

(* What alertable waits are for.                                           *)
Alertable == Events \cup {"sleep"}

(* A wait is over; what it was for is left out from here on.               *)
ReadyAgain(th) == [th EXCEPT !.state = "ready", !.wait = "nothing"]

(* The walk of the waits: those whose event is set are ready.              *)
CheckWaits(s) ==
  [s EXCEPT !.thread = [t \in Threads |->
     IF @[t].state = "waiting" /\ @[t].wait \in Events /\ s.event[@[t].wait]
       THEN ReadyAgain(@[t]) ELSE @[t]]]

SetEvent(s, e) == CheckWaits([s EXCEPT !.event[e] = TRUE])

(* An APC that begins is out of the queue: a KAPC can be inserted again.   *)
Begun(s, call) == IF call.stage = 1 THEN [s EXCEPT !.inserted[call.apc] = FALSE] ELSE s

(* nc_apc_queue: an alertable wait ends, its saved context going on in the *)
(* routine.                                                                *)
NcApcQueue(s, t, a) ==
  LET th == [s.thread[t] EXCEPT !.queue = Append(@, a)]
      on == BeginChain(th, th.ctx.place)
  IN IF th.state = "waiting" /\ th.wait \in Alertable /\ NcApcPending(th)
       THEN Begun([s EXCEPT !.thread[t] = [ReadyAgain(on) EXCEPT !.ctx.place = Routine(on)]],
                  Last(on.chains).call)
     ELSE [s EXCEPT !.thread[t] = th]

(* A read done in the call: its status, its event, its APC to the thread   *)
(* that runs.                                                              *)
IoFinish(s, r) ==
  LET told == SetEvent([s EXCEPT !.iosb[r] = "done"], EventOf[r])
  IN IF r \in HasApc THEN NcApcQueue(told, s.current, r) ELSE told

(* Whether the thread of a job is the one that asked, and in one of some   *)
(* states.                                                                 *)
Asker(s, job, states) ==
  s.thread[job.thread].id = job.id /\ s.thread[job.thread].state \in states

(* nc_ke_wake.                                                             *)
Wake(s, job) ==
  IF job.request \in Sync /\ Asker(s, job, {"waiting"})
    THEN [s EXCEPT !.thread[job.thread].state = "ready",
                   !.thread[job.thread].ctx.eax = "done"]
  ELSE s

CallBack(s, job) ==
  IF job.request \in HasApc /\ Asker(s, job, {"ready", "running", "waiting"})
    THEN NcApcQueue(s, job.thread, job.request) ELSE s

DiscReadDone(s, job) ==
  LET told == SetEvent([s EXCEPT !.iosb[job.request] = "done"], EventOf[job.request])
  IN CallBack(Wake(told, job), job)

-----------------------------------------------------------------------------
(***************************************************************************)
(* The title's calls, by the thread that runs.  A call ends in "exit".     *)
(***************************************************************************)

InGuest == k.phase = "guest" /\ k.polled = << >> /\ Current.state = "running"

(* The kernel as a call finds it: the last wait of the thread is over.     *)
Called == [k EXCEPT !.phase = "exit", !.thread[k.current].wait = "nothing", !.frame.eax = "none"]

(* Jobs the reader has.                                                    *)
Jobs == reader.queue \o reader.done \o k.polled

(* A title uses a request again once it has ended and been told of.        *)
Unused(r) ==
  /\ k.iosb[r] # "pending"
  /\ \A t \in Threads : ~Contains(k.thread[t].queue, r) /\ k.thread[t].wait # r
  /\ \A t \in Threads : \A c \in Range(k.thread[t].chains) : c.call.apc # r

QueueHasRoom == reader.busy < DISC_JOBS

(* NtReadFile, the read left to the reader: a thread with a synchronous    *)
(* handle waits in the call.                                               *)
DiscReadLater(r) ==
  LET job == [request |-> r, thread |-> k.current, id |-> Current.id]
      queued == [Called EXCEPT !.iosb[r] = "pending", !.frame.eax = "pending",
                               !.event[EventOf[r]] = FALSE]
  IN /\ InGuest /\ Unused(r) /\ QueueHasRoom
     /\ reader' = [reader EXCEPT !.queue = Append(@, job), !.busy = @ + 1]
     /\ k' = IF r \in Sync
               THEN [queued EXCEPT !.thread[k.current].state = "waiting", !.thread[k.current].wait = r]
             ELSE queued
     /\ UNCHANGED work

(* NtReadFile in place: the queue is full, or the read is one that the     *)
(* call does.  A failed one through an overlapped handle completes nothing.*)
ReadInPlace(r) ==
  /\ InGuest /\ Unused(r)
  /\ \E failed \in BOOLEAN :
       k' = IF failed /\ r \notin Sync THEN Called
            ELSE [IoFinish(Called, r) EXCEPT !.frame.eax = "done"]
  /\ UNCHANGED << reader, work >>

(* A fault: an alertable wait does not look for the APCs queued before it. *)
AlertedNever(t) == FALSE

Alerted(t) == NcApcPending(t)

(* An alertable wait, for an event of a read under way or for nothing (a   *)
(* sleep).  Waits that are not alertable are the matter of Dispatcher.     *)
AlertableWait(e) ==
  LET t == Called.thread[k.current]
      on == BeginChain(t, k.frame.place)
  IN /\ InGuest
     /\ e \in Events => k.event[e] \/ \E r \in Requests : EventOf[r] = e /\ k.iosb[r] = "pending"
     /\ k' = IF Alerted(t)
               THEN Begun([Called EXCEPT !.thread[k.current] = on, !.frame.place = Routine(on)],
                          Last(on.chains).call)
             ELSE IF e \in Events /\ k.event[e] THEN Called
             ELSE [Called EXCEPT !.thread[k.current] = [t EXCEPT !.state = "waiting", !.wait = e]]
     /\ UNCHANGED << reader, work >>

KeInsertQueueApc(a, t) ==
  /\ InGuest
  /\ ~k.inserted[a] /\ k.thread[t].state # "free" /\ k.thread[t].id = ThreadOf[a]
  /\ k' = NcApcQueue([Called EXCEPT !.inserted[a] = TRUE], t, a)
  /\ UNCHANGED << reader, work >>

ApcReturn(cleared) ==
  /\ InGuest /\ Current.chains # << >>
  /\ cleared => Last(Current.chains).call.stage = 1
  /\ LET ret == NcApcReturn(Called.thread[k.current], cleared)
         s == [Called EXCEPT !.thread[k.current] = ret.thread, !.frame = ret.ctx]
     IN k' = Begun(s, ret.call)
  /\ UNCHANGED << reader, work >>

(* The title's threads end in its own code, not in an APC routine.         *)
PsTerminateSystemThread ==
  /\ InGuest /\ Current.chains = << >>
  /\ k' = [Called EXCEPT !.thread[k.current].state = "terminated"]
  /\ UNCHANGED << reader, work >>

PsCreateSystemThread(t) ==
  /\ InGuest
  /\ k.thread[t].state = "free" /\ k.ids < MaxThreadId
  /\ k' = [Called EXCEPT !.thread[t] = NewThread(k.ids + 1), !.ids = @ + 1]
  /\ UNCHANGED << reader, work >>

Call ==
  \/ \E r \in Requests : DiscReadLater(r) \/ ReadInPlace(r)
  \/ \E e \in Events \cup {"sleep"} : AlertableWait(e)
  \/ \E a \in Kapcs, t \in Threads : KeInsertQueueApc(a, t)
  \/ \E cleared \in BOOLEAN : ApcReturn(cleared)
  \/ PsTerminateSystemThread
  \/ \E t \in Threads : PsCreateSystemThread(t)

-----------------------------------------------------------------------------
(***************************************************************************)
(* The way back to the guest, and the scheduler.                           *)
(***************************************************************************)

(* The guest's CPU enters the kernel: it is asked to, or for some call     *)
(* that does nothing here.                                                 *)
Interrupt ==
  /\ InGuest
  /\ k' = [k EXCEPT !.phase = "exit"]
  /\ UNCHANGED << reader, work >>

(* A fault: busy is left as it was.                                        *)
TakeDoneUncounted(s) ==
  IF work
    THEN /\ work' = FALSE
         /\ k' = [s EXCEPT !.polled = reader.done]
         /\ reader' = [reader EXCEPT !.done = << >>]
  ELSE k' = s /\ UNCHANGED << reader, work >>

(* nc_io_poll: with the flag set, takes the reads done off the list.       *)
TakeDone(s) ==
  IF work
    THEN /\ work' = FALSE
         /\ k' = [s EXCEPT !.polled = reader.done]
         /\ reader' = [reader EXCEPT !.done = << >>, !.busy = @ - Len(reader.done)]
  ELSE k' = s /\ UNCHANGED << reader, work >>

(* A fault: reads are completed for a thread that has just begun a wait.   *)
MayPollAlways == TRUE

MayPoll == Current.state = "running"

(* Out of a call: the reads done complete, unless the thread has just      *)
(* begun a wait, whose context is not saved yet.                           *)
Poll ==
  /\ k.phase = "exit" /\ k.polled = << >>
  /\ IF MayPoll THEN TakeDone([k EXCEPT !.phase = "leave"])
     ELSE k' = [k EXCEPT !.phase = "leave"] /\ UNCHANGED << reader, work >>

(* The next of the reads taken off the list.                               *)
CompleteNext ==
  /\ k.polled # << >>
  /\ k' = DiscReadDone([k EXCEPT !.polled = Tail(@)], Head(k.polled))
  /\ UNCHANGED << reader, work >>

BackToGuest ==
  /\ k.phase = "leave" /\ k.polled = << >> /\ Current.state = "running"
  /\ k' = [k EXCEPT !.phase = "guest"]
  /\ UNCHANGED << reader, work >>

(* The scheduler is entered: the live context is saved, unless its thread  *)
(* has ended.                                                              *)
Schedule ==
  /\ k.phase = "leave" /\ k.polled = << >>
  /\ LET t == k.current
         saved == IF Current.state = "terminated" THEN Current ELSE [Current EXCEPT !.ctx = k.frame]
     IN k' = [k EXCEPT !.phase = "pass", !.frame = Nowhere,
                       !.thread[t] = IF saved.state = "running" THEN [saved EXCEPT !.state = "ready"]
                                     ELSE saved]
  /\ UNCHANGED << reader, work >>

Ready == {t \in Threads : k.thread[t].state = "ready"}

(* A pass of the scheduler's loop; when nobody is ready it comes round     *)
(* again as work is posted.                                                *)
Pass ==
  /\ k.phase = "pass" /\ k.polled = << >> /\ (work \/ Ready # {})
  /\ TakeDone([k EXCEPT !.phase = "pick"])

Idle ==
  /\ k.phase = "pick" /\ k.polled = << >> /\ Ready = {}
  /\ k' = [k EXCEPT !.phase = "pass"]
  /\ UNCHANGED << reader, work >>

(* The switch to a ready thread; the slot of a thread that ended is free.  *)
Pick(t) ==
  /\ k.phase = "pick" /\ k.polled = << >> /\ t \in Ready
  /\ LET freed == IF Current.state = "terminated" THEN [k EXCEPT !.thread[k.current] = Free] ELSE k
     IN k' = [freed EXCEPT !.phase = "guest", !.current = t, !.frame = k.thread[t].ctx,
                           !.thread[t] = [@ EXCEPT !.state = "running", !.ctx = Nowhere]]
  /\ UNCHANGED << reader, work >>

(* A savestate, at the pause point of a kernel entry or of the idle loop:  *)
(* once no read is under way, those done complete (nc_io_state_drain).     *)
Drain ==
  /\ InGuest \/ (k.phase = "pass" /\ k.polled = << >> /\ Ready = {})
  /\ reader.busy = Len(reader.done) /\ reader.done # << >>
  /\ work' = FALSE
  /\ k' = [k EXCEPT !.polled = reader.done]
  /\ reader' = [reader EXCEPT !.done = << >>, !.busy = 0]

-----------------------------------------------------------------------------
(***************************************************************************)
(* The reader thread.                                                      *)
(***************************************************************************)

(* The next job is read; nobody sees it between the queue and the list of  *)
(* those done.                                                             *)
ReaderRead ==
  /\ ~reader.posting /\ reader.queue # << >>
  /\ reader' = [reader EXCEPT !.queue = Tail(@), !.posting = TRUE, !.done = Append(@, Head(reader.queue))]
  /\ UNCHANGED << k, work >>

(* A fault: the guest's CPU is told only when it had nothing to do.        *)
ReaderPostOnce ==
  /\ reader.posting
  /\ reader' = [reader EXCEPT !.posting = FALSE]
  /\ work' = (Len(reader.done) = 1)
  /\ UNCHANGED k

ReaderPost ==
  /\ reader.posting
  /\ reader' = [reader EXCEPT !.posting = FALSE]
  /\ work' = TRUE
  /\ UNCHANGED k

Cpu == \/ Call \/ Interrupt \/ Poll \/ CompleteNext \/ BackToGuest \/ Schedule
       \/ Pass \/ Idle \/ (\E t \in Threads : Pick(t)) \/ Drain

Reader == ReaderRead \/ ReaderPost

Next == Cpu \/ Reader

(* The reader runs on; the guest's CPU leaves its own code when asked to   *)
(* (nc_cpu_request_interrupt), and the kernel's code goes on.              *)
Fairness ==
  /\ WF_vars(Reader)
  /\ WF_vars(work /\ Interrupt)
  /\ WF_vars(Poll) /\ WF_vars(CompleteNext) /\ WF_vars(BackToGuest \/ Schedule)
  /\ WF_vars(Pass) /\ WF_vars(Idle \/ (\E t \in Threads : Pick(t)))

Spec == Init /\ [][Next]_vars /\ Fairness

-----------------------------------------------------------------------------
JobOf == [request : Requests, thread : Threads, id : 1..MaxThreadId]

Thread == [state : {"free", "ready", "running", "waiting", "terminated"}, id : 0..MaxThreadId,
           queue : Seq(Apcs), chains : Seq(Chains),
           wait : Events \cup Requests \cup {"sleep", "nothing"}, ctx : Contexts]

(* The variables hold what the code's fields can, and its two arrays of    *)
(* DISC_JOBS what they have room for: the jobs queued and done are counted *)
(* by busy, and each pending request has the one job.                      *)
TypeOK ==
  /\ k.phase \in {"guest", "exit", "leave", "pass", "pick"}
  /\ k.current \in Threads /\ k.frame \in Contexts
  /\ k.thread \in [Threads -> Thread]
  /\ k.event \in [Events -> BOOLEAN] /\ k.inserted \in [Kapcs -> BOOLEAN]
  /\ k.iosb \in [Requests -> {"pending", "done"}]
  /\ Range(Jobs) \subseteq JobOf
  /\ reader.posting \in BOOLEAN /\ work \in BOOLEAN
  /\ reader.busy = Len(reader.queue) + Len(reader.done) /\ reader.busy <= DISC_JOBS
  /\ \A r \in Requests :
       Cardinality({n \in DOMAIN Jobs : Jobs[n].request = r}) = IF k.iosb[r] = "pending" THEN 1 ELSE 0

(* Where a thread's code is: live, while it is the one that runs and the   *)
(* scheduler has not saved it.                                             *)
Live(t) == k.current = t /\ k.phase \in {"guest", "exit", "leave"} /\ k.thread[t].state # "terminated"
Context(t) == IF Live(t) THEN k.frame ELSE k.thread[t].ctx

(* Routine n of a thread's chains, and the title's own code under them.    *)
At(chains, n) == [depth |-> n, call |-> IF n = 0 THEN Title ELSE chains[n].call]

(* The code a thread runs is the routine its last chain has got to, and    *)
(* every chain returns to the routine that waited for it: no routine is    *)
(* begun and not run, cut off, or returned to twice.                       *)
ChainsNest ==
  \A t \in Threads : k.thread[t].state \notin {"free", "terminated"} =>
    LET chains == k.thread[t].chains
    IN /\ Context(t).place = At(chains, Len(chains))
       /\ \A n \in DOMAIN chains : chains[n].ret = At(chains, n - 1)

(* No thread waits alertably with an APC that could run, an APC is queued  *)
(* once at a time, and a KAPC in a queue says so.                          *)
ApcsKept ==
  /\ \A t \in Threads :
       LET th == k.thread[t]
       IN /\ th.state = "waiting" /\ th.wait \in Alertable => ~NcApcPending(th)
          /\ IsInjective(th.queue)
          /\ \A a \in Range(th.queue) \cap Kapcs : k.inserted[a]
  /\ \A t, u \in Threads : t # u =>
       Range(k.thread[t].queue) \cap Range(k.thread[u].queue) = {}

(* A thread that waits in its call for a synchronous read goes on with     *)
(* what the read came to, and not before the read is done.                 *)
SyncReadReturns ==
  \A t \in Threads, r \in Requests :
    k.thread[t].wait = r /\ k.thread[t].state \in {"ready", "running", "waiting"} =>
      IF k.thread[t].state = "waiting" THEN k.iosb[r] = "pending"
      ELSE k.iosb[r] = "done" /\ Context(t).eax = "done"

(* Nothing writes a context that is then written over, or goes on from     *)
(* another (sysop's comment on the reads that complete on the way back).   *)
ContextsExact == ChainsNest /\ SyncReadReturns

(* Reads end, and a thread that waits in its call for one does not stay.   *)
ReadsEnd ==
  /\ \A r \in Requests : []<>(k.iosb[r] # "pending")
  /\ \A t \in Threads : []<>(k.thread[t].state = "waiting" => k.thread[t].wait \notin Requests)

(* Overlapped reads keep their promise: one completion each, with its      *)
(* status, and the call-back of the thread that asked, in order and once.  *)
Ids == 1..MaxThreadId
AliveIn(states) == {t \in Threads : k.thread[t].state \in states}
QueueOfId(i) ==
  LET slots == {t \in Threads : k.thread[t].id = i}
  IN IF slots = {} THEN << >> ELSE k.thread[FirstSlot(slots)].queue

Promise == INSTANCE OverlappedReads WITH
  CalledBack <- HasApc,
  io <- k.iosb,
  asker <- [r \in Requests |-> IF k.iosb[r] = "pending"
                                 THEN (CHOOSE j \in Range(Jobs) : j.request = r).id ELSE "nobody"],
  alive <- {k.thread[t].id : t \in AliveIn({"ready", "running", "waiting"})},
  owed <- [i \in Ids |-> QueueOfId(i)]

KeepsPromise == Promise!Spec
=============================================================================
