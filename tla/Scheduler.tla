----------------------------- MODULE Scheduler -----------------------------
(***************************************************************************)
(* Who runs on the guest's one CPU: threads by priority and turn (ps.c),   *)
(* interrupt service routines (intr.c), deferred procedure calls (timer.c) *)
(* and the IRQL between them (ke.c, kernel.c).                             *)
(*                                                                         *)
(* The kernel runs on the CPU's own host thread, one entry at a time: an   *)
(* entry of the guest is one action, up to the context the CPU goes on     *)
(* with.  Device threads assert the interrupt lines at any time.           *)
(*                                                                         *)
(* The kernel's state is a record, and each function of the kernel an      *)
(* operator on it.                                                         *)
(***************************************************************************)
EXTENDS Slots, Sequences, SequencesExt

CONSTANTS
  Priorities,     (* What the priorities of the title's threads may be.    *)
  Lines,          (* The interrupt lines with a routine connected, by bus  *)
                  (* level.                                                *)
  Dpcs,           (* The DPC objects of the title.                         *)
  DpcThread,      (* The kernel thread that DPCs run on.                   *)
  IsrThread       (* The kernel thread that ISRs run on.                   *)

ASSUME SchedulerAssumption ==
  /\ Priorities \subseteq [Threads -> 0 .. 31]
  /\ Lines \subseteq 0 .. 15
  /\ DpcThread \notin Threads /\ IsrThread \notin Threads
  /\ DpcThread # IsrThread /\ NoThread \notin {DpcThread, IsrThread}

Contexts == Threads \cup {DpcThread, IsrThread}

PASSIVE_LEVEL == 0
DISPATCH_LEVEL == 2
HIGH_LEVEL == 31
LineIrql(l) == 26 - l

VARIABLES
  k,        (* The kernel: NcKernel, the DPC queue and the threads.        *)
  lines,    (* The asserted lines.                                         *)
  priority, (* Of each title thread.                                       *)
  fastPaths,(* The IRQL is raised and lowered in guest code; FALSE with    *)
            (* NC_NO_FAST.                                                 *)
  lowering, (* Threads in the guest code that lowers the IRQL, past its    *)
            (* look at the DPC queue.                                      *)
  overlooked(* Queued DPCs that came between that look and the write of    *)
            (* the IRQL: a history.                                        *)

setUp == << priority, fastPaths >>      (* Neither changes.                *)
vars == << k, lines, setUp, lowering, overlooked >>

PriorityOf(c) ==
  CASE c = DpcThread -> 1000
    [] c = IsrThread -> 2000
    [] OTHER -> priority[c]

(***************************************************************************)
(* The boot thread runs; the others have started and wait.                 *)
(***************************************************************************)
Init ==
  /\ \E boot \in Threads :
       k = [status |-> [c \in Contexts |-> IF c = boot THEN "running"
                                           ELSE IF c \in Threads THEN "waiting"
                                           ELSE "suspended"],
            current |-> boot,
            idle |-> FALSE,             (* nc_ps_schedule found no thread. *)
            irql |-> PASSIVE_LEVEL,
            interruptFlag |-> [c \in Contexts |-> TRUE],  (* EFLAGS.IF     *)
            turn |-> << >>,             (* Threads by ready_seq, run_seq.  *)
            sliceExpired |-> FALSE,     (* The running thread's.           *)
            resched |-> FALSE,
            forceSwitch |-> FALSE,
            inIsr |-> FALSE,
            isrLine |-> 0,
            isrSavedIrql |-> PASSIVE_LEVEL,
            isrInterrupted |-> NoThread,
            resumeFirst |-> NoThread,
            dpcs |-> << >>,
            inDpc |-> FALSE,
            dpcSavedIrql |-> PASSIVE_LEVEL,
            (* The IRQL that the code of each context is at.  The program  *)
            (* keeps no such table, only the one IRQL of the CPU.          *)
            level |-> [c \in Contexts |-> PASSIVE_LEVEL]]
  /\ lines = {}
  /\ fastPaths \in BOOLEAN
  /\ priority \in Priorities
  /\ lowering = {}
  /\ overlooked = {}

In(s, status) == {c \in Contexts : s.status[c] = status}

-----------------------------------------------------------------------------
(***************************************************************************)
(* The functions of the kernel.                                            *)
(***************************************************************************)

(* The most urgent line that the IRQL lets through, unless an ISR runs.    *)
IntrDispatch(s, enabled) ==
  LET deliverable == {l \in lines : LineIrql(l) > s.irql}
      l == FirstSlot(deliverable)
  IN IF deliverable = {} \/ s.inIsr \/ ~enabled THEN s
     ELSE [s EXCEPT !.status[IsrThread] = "ready",
                    !.interruptFlag[IsrThread] = TRUE,
                    !.inIsr = TRUE,
                    !.isrLine = l,
                    !.isrSavedIrql = s.irql,
                    !.isrInterrupted = IF s.current = IsrThread THEN NoThread ELSE s.current,
                    !.irql = LineIrql(l),
                    !.level[IsrThread] = LineIrql(l),
                    !.forceSwitch = TRUE,
                    !.resched = TRUE]

(* A fault of the return from an ISR: the code it interrupted is not held  *)
(* to go on first.                                                         *)
IntrReturnToAny(s) ==
  [s EXCEPT !.inIsr = FALSE, !.irql = s.isrSavedIrql, !.status[IsrThread] = "suspended",
            !.isrInterrupted = NoThread, !.resched = TRUE]

IntrReturn(s) ==
  [s EXCEPT !.inIsr = FALSE,
            !.irql = s.isrSavedIrql,
            !.status[IsrThread] = "suspended",
            !.resumeFirst = IF /\ s.isrSavedIrql >= DISPATCH_LEVEL
                               /\ s.isrInterrupted \in In(s, "ready")
                              THEN s.isrInterrupted ELSE @,
            !.isrInterrupted = NoThread,
            !.resched = TRUE]

(* q without e, which is in it once or not at all.                         *)
Without(q, e) ==
  IF Contains(q, e) THEN RemoveAt(q, CHOOSE i \in DOMAIN q : q[i] = e) ELSE q

(* A DPC object is in the queue once.                                      *)
DpcQueue(s, d) ==
  IF Contains(s.dpcs, d) THEN s
  ELSE [s EXCEPT !.dpcs = Append(@, d), !.resched = @ \/ s.irql < DISPATCH_LEVEL]

DpcUnqueue(s, d) == [s EXCEPT !.dpcs = Without(@, d)]

DpcDispatch(s) ==
  IF s.dpcs = << >> \/ s.inDpc \/ s.irql >= DISPATCH_LEVEL THEN s
  ELSE [s EXCEPT !.dpcs = Tail(@),
                 !.status[DpcThread] = "ready",
                 !.interruptFlag[DpcThread] = TRUE,
                 !.inDpc = TRUE,
                 !.dpcSavedIrql = s.irql,
                 !.irql = DISPATCH_LEVEL,
                 !.level[DpcThread] = DISPATCH_LEVEL]

(* A fault: the next DPC is never dispatched.                              *)
DpcReturnStays(s) ==
  [s EXCEPT !.irql = s.dpcSavedIrql, !.status[DpcThread] = "suspended", !.resched = TRUE]

DpcReturn(s) ==
  [s EXCEPT !.inDpc = FALSE,
            !.irql = s.dpcSavedIrql,
            !.status[DpcThread] = "suspended",
            !.resched = TRUE]

(* A fault: a thread whose slice is over keeps its turn.                   *)
SwitchOutInPlace(s) ==
  LET cur == s.current
      runs == s.status[cur] = "running"
  IN [s EXCEPT !.resched = FALSE,
               !.forceSwitch = FALSE,
               !.sliceExpired = FALSE,
               !.status[cur] = IF runs THEN "ready" ELSE @,
               !.turn = IF cur \notin Threads THEN @
                        ELSE IF ~runs THEN Without(@, cur)
                        ELSE IF Contains(@, cur) THEN @ ELSE Append(@, cur)]

(* A running thread keeps its turn, or goes to the back when its slice is  *)
(* over; one that waits gets a turn when it is ready again.                *)
SwitchOut(s) ==
  LET cur == s.current
      others == Without(s.turn, cur)
  IN [s EXCEPT !.resched = FALSE,
               !.forceSwitch = FALSE,
               !.sliceExpired = FALSE,
               !.status[cur] = IF @ = "running" THEN "ready" ELSE @,
               !.turn = IF cur \notin Threads THEN @
                        ELSE IF s.status[cur] # "running" THEN others
                        ELSE IF s.sliceExpired \/ ~Contains(@, cur) THEN Append(others, cur)
                        ELSE @]

(* The slots of S in the order of a walk.                                  *)
Walk(S) ==
  CHOOSE q \in [1 .. Cardinality(S) -> S] : \A i, j \in DOMAIN q : i < j => q[i] < q[j]

(* Threads ready since the last pass, in slot order after the current one; *)
(* the kernel threads' slots are the last.                                 *)
NewlyReady(s) ==
  LET new == {t \in Threads \cap In(s, "ready") : ~Contains(s.turn, t)}
      ahead == IF s.current \in Threads THEN {t \in new : t > s.current} ELSE {}
  IN Walk(ahead) \o Walk(new \ ahead)

Turn(s, t) == CHOOSE i \in DOMAIN s.turn : s.turn[i] = t

Precedes(s, c, d) ==
  \/ PriorityOf(c) > PriorityOf(d)
  \/ PriorityOf(c) = PriorityOf(d) /\ Turn(s, c) < Turn(s, d)

SwitchTo(s, next) ==
  [s EXCEPT !.current = next,
            !.status[next] = "running",
            !.resumeFirst = IF @ = next THEN NoThread ELSE @,
            !.idle = FALSE]

(* A wait ends: t is ready.                                                *)
WaitEnds(s, t) == [s EXCEPT !.status[t] = "ready"]

(* One pass of nc_ps_schedule's loop: what is due by now, a timer with its *)
(* DPC and the timeout of a wait, then the choice of the thread to run.    *)
TimerPoll(s) == {s} \cup {DpcQueue(s, d) : d \in Dpcs}
CheckWaits(s) == {s} \cup {WaitEnds(s, t) : t \in In(s, "waiting")}

Choose(s) ==
  LET placed == [s EXCEPT !.turn = @ \o NewlyReady(s)]
      ready == In(s, "ready")
  IN CASE s.resumeFirst \in ready /\ ~s.inIsr -> SwitchTo(s, s.resumeFirst)
       [] OTHER ->
            IF ready = {} THEN [s EXCEPT !.idle = TRUE]
            ELSE SwitchTo(placed, CHOOSE c \in ready :
                                    \A e \in ready \ {c} : Precedes(placed, c, e))

Pass(s) ==
  {Choose(w) : w \in UNION {CheckWaits(DpcDispatch(IntrDispatch(p, TRUE))) : p \in TimerPoll(s)}}

Schedule(s) == Pass(SwitchOut(s))

(* The end of every entry, on the way back to the guest.                   *)
SysOpEnd(s) ==
  LET running == s.status[s.current] = "running"
      d == IntrDispatch(s, ~running \/ s.interruptFlag[s.current])
  IN IF d.resched /\ (d.forceSwitch \/ ~(running /\ d.irql >= DISPATCH_LEVEL))
       THEN Schedule(d) ELSE {d}

-----------------------------------------------------------------------------
(***************************************************************************)
(* What is due when an entry looks at the clock: nothing, a timer with its *)
(* DPC, the timeout of a wait, the running thread's slice.                 *)
(***************************************************************************)

(* One that was woken runs before a thread of lower priority.              *)
Wake(s, t) ==
  [WaitEnds(s, t) EXCEPT
            !.resched = @ \/ \E c \in In(s, "ready") \cup {t} :
                               PriorityOf(c) > PriorityOf(s.current)]

Timer(s, d) == [DpcQueue(s, d) EXCEPT !.resched = TRUE]

SliceEnd(s) ==
  IF /\ s.current \in Threads /\ s.status[s.current] = "running"
     /\ \E t \in Threads \cap In(s, "ready") : priority[t] >= priority[s.current]
    THEN [s EXCEPT !.sliceExpired = TRUE, !.resched = TRUE] ELSE s

ClockTick(s) ==
  {s, SliceEnd(s)} \cup {Timer(s, d) : d \in Dpcs} \cup {Wake(s, t) : t \in In(s, "waiting")}

-----------------------------------------------------------------------------
(***************************************************************************)
(* The guest's code and its kernel entries.                                *)
(***************************************************************************)

Running(c) == ~k.idle /\ k.current = c

(* Code of the title or a driver: c is not in the kernel's guest code.     *)
InCode(c) == Running(c) /\ c \notin lowering

(* Where a routine starts, and where it has to be when it returns.         *)
BaseIrql(c) ==
  CASE c = IsrThread -> LineIrql(k.isrLine)
    [] c = DpcThread -> DISPATCH_LEVEL
    [] OTHER -> PASSIVE_LEVEL

AtBase(c) == InCode(c) /\ k.irql = BaseIrql(c)

SetIrql(s, n) == [s EXCEPT !.irql = n, !.level[s.current] = n]

(* KfRaiseIrql, KeRaiseIrqlToDpcLevel, KeRaiseIrqlToSynchLevel.            *)
KfRaiseIrql(c, n) ==
  /\ InCode(c) /\ n \in {DISPATCH_LEVEL, HIGH_LEVEL} /\ n > k.irql
  /\ \/ fastPaths /\ k' = SetIrql(k, n)
     \/ ~fastPaths /\ \E s \in ClockTick(k) : k' \in SysOpEnd(SetIrql(s, n))
  /\ UNCHANGED << lines, setUp, lowering >>

(* A fault: the fast path does not look for DPCs.                          *)
LowerNeedsKernelAbove(n) == k.irql > DISPATCH_LEVEL

(* The guest code lowers the IRQL without the kernel unless it was above   *)
(* DISPATCH_LEVEL, or goes below it with DPCs queued.                      *)
LowerNeedsKernel(n) == k.irql > DISPATCH_LEVEL \/ (n < DISPATCH_LEVEL /\ k.dpcs # << >>)

LowerInKernel(s, n) ==
  [SetIrql(s, n) EXCEPT !.resched = @ \/ (n < DISPATCH_LEVEL /\ s.dpcs # << >>)]

Lowers(c, n) ==
  InCode(c) /\ n \in {DISPATCH_LEVEL, BaseIrql(c)} /\ BaseIrql(c) <= n /\ n < k.irql

(* The look is the end of one block of guest code and the write of the     *)
(* IRQL the next block: interrupts may come between them.                  *)
LowerLooks(c, n) ==
  /\ fastPaths /\ Lowers(c, n) /\ ~LowerNeedsKernel(n)
  /\ lowering' = lowering \cup {c}
  /\ UNCHANGED << k, lines, setUp >>

LowerWrites(c) ==
  /\ Running(c) /\ c \in lowering
  /\ k' = SetIrql(k, BaseIrql(c))
  /\ lowering' = lowering \ {c}
  /\ UNCHANGED << lines, setUp >>

KfLowerIrql(c, n) ==
  /\ Lowers(c, n)
  /\ ~fastPaths \/ LowerNeedsKernel(n)
  /\ \E s \in ClockTick(k) : k' \in SysOpEnd(LowerInKernel(s, n))
  /\ UNCHANGED << lines, setUp, lowering >>

(* cli and sti leave translated code for the kernel, as a kernel call does *)
(* but with no look at the clock.                                          *)
SetInterruptFlag(t, on) ==
  /\ AtBase(t) /\ k.interruptFlag[t] = ~on
  /\ k' \in SysOpEnd([k EXCEPT !.interruptFlag[t] = on])
  /\ UNCHANGED << lines, setUp, lowering >>

(* NC_SYSOP_INTERRUPT: a line was asserted or the clock's thread asked.    *)
Interrupt(c) ==
  /\ Running(c)
  /\ \E s \in ClockTick(k) : k' \in SysOpEnd(s)
  /\ UNCHANGED << lines, setUp, lowering >>

KeInsertQueueDpc(c, d) ==
  /\ InCode(c)
  /\ \E s \in ClockTick(k) : k' \in SysOpEnd(DpcQueue(s, d))
  /\ UNCHANGED << lines, setUp, lowering >>

KeRemoveQueueDpc(c, d) ==
  /\ InCode(c)
  /\ \E s \in ClockTick(k) : k' \in SysOpEnd(DpcUnqueue(s, d))
  /\ UNCHANGED << lines, setUp, lowering >>

(* Any call that signals what t waits for; not above DISPATCH_LEVEL.       *)
KeSetEvent(c, t) ==
  /\ InCode(c) /\ k.irql <= DISPATCH_LEVEL /\ t \in In(k, "waiting")
  /\ \E s \in ClockTick(k) : k' \in SysOpEnd(Wake(s, t))
  /\ UNCHANGED << lines, setUp, lowering >>

Wait(t) ==
  /\ AtBase(t) /\ k.interruptFlag[t]
  /\ \E s \in ClockTick(k) :
       k' \in SysOpEnd([s EXCEPT !.status[t] = "waiting", !.resched = TRUE])
  /\ UNCHANGED << lines, setUp, lowering >>

NtYieldExecution(t) ==
  /\ AtBase(t)
  /\ \E s \in ClockTick(k) :
       k' \in SysOpEnd([s EXCEPT !.sliceExpired = TRUE, !.resched = TRUE])
  /\ UNCHANGED << lines, setUp, lowering >>

DpcRoutineReturns ==
  /\ AtBase(DpcThread)
  /\ \E s \in ClockTick(k) : k' \in SysOpEnd(DpcReturn(s))
  /\ UNCHANGED << lines, setUp, lowering >>

IsrReturns ==
  /\ AtBase(IsrThread)
  /\ \E s \in ClockTick(k) : k' \in SysOpEnd(IntrReturn(s))
  /\ UNCHANGED << lines, setUp, lowering >>

(* The ISR quiets its device.                                              *)
LowerLine ==
  /\ Running(IsrThread) /\ k.isrLine \in lines
  /\ lines' = lines \ {k.isrLine}
  /\ UNCHANGED << k, setUp, lowering >>

(* A device's thread asserts its line.                                     *)
RaiseLine(l) ==
  /\ l \notin lines
  /\ lines' = lines \cup {l}
  /\ UNCHANGED << k, setUp, lowering >>

(* The scheduler, idle, goes round: for a line, or for what is due.        *)
IdlePass ==
  /\ k.idle
  /\ k' \in Pass(k)
  /\ UNCHANGED << lines, setUp, lowering >>

Thread(t) ==
  \/ \E n \in {DISPATCH_LEVEL, HIGH_LEVEL} : KfRaiseIrql(t, n)
  \/ \E n \in {PASSIVE_LEVEL, DISPATCH_LEVEL} : KfLowerIrql(t, n)
  \/ LowerLooks(t, PASSIVE_LEVEL)
  \/ LowerWrites(t)
  \/ \E on \in BOOLEAN : SetInterruptFlag(t, on)
  \/ \E d \in Dpcs : KeInsertQueueDpc(t, d) \/ KeRemoveQueueDpc(t, d)
  \/ \E u \in Threads : KeSetEvent(t, u)
  \/ Wait(t)
  \/ NtYieldExecution(t)

DpcRoutine ==
  \/ KfRaiseIrql(DpcThread, HIGH_LEVEL)
  \/ KfLowerIrql(DpcThread, DISPATCH_LEVEL)
  \/ \E d \in Dpcs : KeInsertQueueDpc(DpcThread, d)
  \/ \E t \in Threads : KeSetEvent(DpcThread, t)
  \/ DpcRoutineReturns

Isr ==
  \/ \E d \in Dpcs : KeInsertQueueDpc(IsrThread, d)
  \/ LowerLine
  \/ IsrReturns

(* What comes into the queue behind the back of a lowering, as long as it  *)
(* is there.                                                               *)
Overlook ==
  overlooked' = {d \in Dpcs : /\ Contains(k'.dpcs, d)
                              /\ d \in overlooked \/ (lowering # {} /\ ~Contains(k.dpcs, d))}

Next ==
  /\ \/ \E t \in Threads : Thread(t)
     \/ DpcRoutine
     \/ Isr
     \/ \E c \in Contexts : Interrupt(c)
     \/ \E l \in Lines : RaiseLine(l)
     \/ IdlePass
  /\ Overlook

Spec == Init /\ [][Next]_vars

(* The clock's thread stops the guest every millisecond, now and then      *)
(* below DISPATCH_LEVEL and with the slice over.                           *)
BelowDispatch(c) == Running(c) /\ k.irql < DISPATCH_LEVEL

SliceOver(c) ==
  /\ BelowDispatch(c)
  /\ k' \in SysOpEnd(SliceEnd(k))
  /\ UNCHANGED << lines, setUp, lowering >>

(* A line that can be delivered stops the guest at its next block, or the  *)
(* idle scheduler.                                                         *)
Deliverable ==
  /\ ~k.inIsr /\ (k.idle \/ k.interruptFlag[k.current])
  /\ \E l \in lines : LineIrql(l) > k.irql

IsrEntered == Next /\ ~k.inIsr /\ k'.inIsr

Raised(c) == Running(c) /\ k.irql > BaseIrql(c)

(* An ISR quiets its device; routines return, now and then with nothing    *)
(* more to do; code that raised the IRQL or disabled interrupts sets them  *)
(* back.  Each is the strong fairness of its action, with the condition    *)
(* under which it can be taken written out.                                *)
Fairness ==
  /\ []<>Deliverable => []<><<IsrEntered>>_vars
  /\ \A t \in Threads : []<>BelowDispatch(t) => []<><<SliceOver(t)>>_vars
  /\ []<>(\E c \in Contexts : Raised(c)) =>
       []<><<\E c \in Contexts : KfLowerIrql(c, BaseIrql(c)) \/ LowerWrites(c)>>_vars
  /\ []<>(\E t \in Threads : AtBase(t) /\ ~k.interruptFlag[t]) =>
       []<><<\E t \in Threads : SetInterruptFlag(t, TRUE)>>_vars
  /\ []<>(Running(IsrThread) /\ k.isrLine \in lines) => []<><<LowerLine>>_vars
  /\ []<>(AtBase(IsrThread) /\ lines = {}) => []<><<IsrReturns /\ lines = {}>>_vars
  /\ []<>AtBase(DpcThread) => []<><<DpcRoutineReturns>>_vars
  /\ []<>(AtBase(DpcThread) /\ k.dpcs = << >> /\ lines = {}) =>
       []<><<DpcRoutineReturns /\ k.dpcs = << >> /\ lines = {} /\ ~k'.inDpc>>_vars

FairSpec == Spec /\ Fairness

-----------------------------------------------------------------------------
(* The one IRQL of the CPU is that of the code that runs: whatever came in *)
(* between, code goes on at the IRQL at which it was interrupted.  And     *)
(* below DISPATCH_LEVEL no DPC is left in the queue: the DPCs that the     *)
(* IRQL held off ran before the code went on (ke.c KfLowerIrql, intr.c     *)
(* nc_intr_return, timer.c nc_dpc_dispatch), those excepted that an        *)
(* interrupt queued between the look and the write of a lowering in guest  *)
(* code (kernel.c).                                                        *)
IrqlExact ==
  /\ ~k.idle => k.irql = k.level[k.current]
  /\ k.irql < DISPATCH_LEVEL => \A d \in Dpcs : Contains(k.dpcs, d) => d \in overlooked

(* As the comments on both ways to lower the IRQL have it (kernel.c, ke.c):*)
(* DPCs queued while it was raised run once it is lowered.  Not those that *)
(* come while it is being lowered (README, Divergence 15).                 *)
DpcsRunOnLowering == k.irql < DISPATCH_LEVEL => k.dpcs = << >>

(* What an ISR took from code at DISPATCH_LEVEL or above goes back to it   *)
(* before any other code below the ISRs runs.                              *)
HeldOff(c) == c # IsrThread /\ k.status[c] = "ready" /\ k.level[c] >= DISPATCH_LEVEL
InterruptedResumes ==
  [][\A c \in Contexts :
       HeldOff(c) /\ k'.current # IsrThread => k'.current = c]_vars

(* A DPC that is queued runs, or is taken back: one that was overlooked by *)
(* the return of the next ISR (timer.c, intr.c).  The most urgent line     *)
(* gets its ISR.                                                           *)
InterruptWorkDone ==
  /\ \A d \in Dpcs : []<>(~Contains(k.dpcs, d)) \/ <>[](d \in overlooked /\ ~k.inIsr)
  /\ LET l == FirstSlot(Lines) IN []<>(l \notin lines \/ (Running(IsrThread) /\ k.isrLine = l))

(* Threads of the highest priority share the CPU: none is ready for good   *)
(* while the others run.                                                   *)
TurnComes ==
  \A t \in Threads :
    (\A u \in Threads : priority[u] <= priority[t]) =>
      []<>(k.status[t] # "ready" \/ k.current = t)
=============================================================================
