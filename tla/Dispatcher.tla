----------------------------- MODULE Dispatcher -----------------------------
(***************************************************************************)
(* The dispatcher objects of the guest and the waits on them (ke.c):       *)
(* events, semaphores, mutants, timers and threads.                        *)
(*                                                                         *)
(* A kernel call runs whole, and any thread that is not waiting may make   *)
(* the next one.  A thread waits in the kernel's table; whatever signals   *)
(* an object walks the table, and so does every pass of the scheduler.     *)
(***************************************************************************)
EXTENDS Slots, Sequences, Functions

CONSTANTS
  NC_MAX_THREADS, (* The size of the table.                                *)
  Objects,      (* The objects, but for the threads, which are their own.  *)
  Kind,         (* The type in the header of each.                         *)
  Limit,        (* The limit of each semaphore.                            *)
  Waits,        (* The waits the title makes.                              *)
  MaxDepth      (* How often a thread acquires a mutant before it releases *)
                (* it.                                                     *)

Kinds == {"notification_event", "synchronization_event", "semaphore", "mutant",
          "notification_timer", "synchronization_timer"}

OfKind(kinds) == {o \in Objects : Kind[o] \in kinds}
Events == OfKind({"notification_event", "synchronization_event"})
Timers == OfKind({"notification_timer", "synchronization_timer"})
Semaphores == OfKind({"semaphore"})
Mutants == OfKind({"mutant"})

(* A wait: for any of its objects, for all of them, or for none (a delay); *)
(* without a timeout, with one, or with one of zero.                       *)
Wait == [objects : Seq(Objects \cup Threads),
         all : BOOLEAN,
         timeout : {"none", "some", "zero"}]

ASSUME DispatcherAssumption ==
  /\ NC_MAX_THREADS \in Nat /\ Threads \subseteq 0 .. (NC_MAX_THREADS - 1)
  /\ Objects \cap Threads = {}
  /\ Kind \in [Objects -> Kinds]
  /\ Limit \in [Semaphores -> Nat \ {0}]
  /\ Waits \subseteq Wait
  /\ \A w \in Waits : IsInjective(w.objects) /\ (w.objects = << >> => w.timeout = "some")
  /\ MaxDepth \in Nat \ {0}

Runs == [objects |-> << >>, all |-> FALSE, timeout |-> "none"]
STATUS_TIMEOUT == -1
NoStatus == [t \in Threads |-> 0]

VARIABLE
  d     (* The objects and the waits, a record:                            *)
        (*   signal   SignalState, of threads too                          *)
        (*   owner    OwningThread of each mutant                          *)
        (*   wait     what each thread waits for, Runs when it does not    *)
        (*   status   what its wait returned that ended in this step: the  *)
        (*            index of the object, or STATUS_TIMEOUT               *)
        (*   ended    the terminated threads                               *)
        (*   resched  the scheduler is due for a pass                      *)
        (*   held     how often each thread has acquired each mutant and   *)
        (*            not released it; the program keeps no such count     *)

Init ==
  d = [signal |-> [o \in Objects \cup Threads |-> IF o \in Mutants THEN 1 ELSE 0],
       owner |-> [m \in Mutants |-> NoThread],
       wait |-> [t \in Threads |-> Runs],
       status |-> NoStatus,
       ended |-> {},
       resched |-> FALSE,
       held |-> [m \in Mutants |-> [t \in Threads |-> 0]]]

Waiting(s) == {t \in Threads : s.wait[t] # Runs}

-----------------------------------------------------------------------------
(***************************************************************************)
(* The functions of the kernel.                                            *)
(***************************************************************************)

(* A fault: any owner of a mutant is taken for the thread that asks.       *)
IsSignaledToAnyone(s, o, t) == s.signal[o] > 0 \/ o \in Mutants

IsSignaled(s, o, t) ==
  \/ s.signal[o] > 0
  \/ o \in Mutants /\ s.owner[o] = t

(* The signal of an object once it is acquired: notification objects and   *)
(* threads stay signaled.                                                  *)
Acquired(o, n) ==
  CASE o \in OfKind({"synchronization_event", "synchronization_timer"}) -> 0
    [] o \in Semaphores \cup Mutants -> n - 1
    [] OTHER -> n

(* t acquires these objects.                                               *)
Acquire(s, objects, t) ==
  [s EXCEPT
     !.signal = [o \in Objects \cup Threads |->
                   IF o \in objects THEN Acquired(o, s.signal[o]) ELSE s.signal[o]],
     !.owner = [m \in Mutants |-> IF m \in objects THEN t ELSE s.owner[m]],
     !.held = [m \in Mutants |-> IF m \in objects THEN [s.held[m] EXCEPT ![t] = @ + 1]
                                 ELSE s.held[m]]]

(* The places in a wait's list whose objects are signaled.                 *)
SignaledAt(s, w, t) == {i \in DOMAIN w.objects : IsSignaled(s, w.objects[i], t)}

Satisfied(s, w, t) ==
  IF w.all THEN w.objects # << >> /\ SignaledAt(s, w, t) = DOMAIN w.objects
  ELSE SignaledAt(s, w, t) # {}

First(w, places) == IF w.all THEN 1 ELSE CHOOSE i \in places : \A j \in places : i <= j

(* A fault: a wait for any object takes every one that is signaled.        *)
TakeAll(s, w, t) ==
  LET places == SignaledAt(s, w, t)
  IN [Acquire(s, {w.objects[i] : i \in places}, t) EXCEPT !.status[t] = First(w, places)]

(* What a wait takes that ends with the i-th of its objects.               *)
Taken(w, i) == IF w.all THEN Range(w.objects) ELSE {w.objects[i]}

Take(s, w, t) ==
  LET i == First(w, SignaledAt(s, w, t))
  IN [Acquire(s, Taken(w, i), t) EXCEPT !.status[t] = i]

(* A fault: the deadline is looked at before the objects.                  *)
CheckWaitDeadlineFirst(s, t, late) ==
  LET w == s.wait[t]
  IN IF w = Runs THEN s
     ELSE IF t \in late THEN [s EXCEPT !.wait[t] = Runs, !.status[t] = STATUS_TIMEOUT]
     ELSE IF Satisfied(s, w, t) THEN [Take(s, w, t) EXCEPT !.wait[t] = Runs]
     ELSE s

(* A waiting thread takes what it waits for, or times out when its deadline *)
(* has passed.  late is the threads past theirs.                           *)
CheckWait(s, t, late) ==
  LET w == s.wait[t]
  IN IF w = Runs THEN s
     ELSE IF Satisfied(s, w, t) THEN [Take(s, w, t) EXCEPT !.wait[t] = Runs]
     ELSE IF t \in late
       THEN [s EXCEPT !.wait[t] = Runs,
                      !.status[t] = IF w.objects = << >> THEN 0 ELSE STATUS_TIMEOUT]
     ELSE s

(* The walk of the table: each in slot order takes of what those before it *)
(* left.  walk[n] is how the first n slots leave it.                       *)
CheckWaits(s, late) ==
  LET walk[n \in 0 .. NC_MAX_THREADS] ==
        IF n = 0 THEN s
        ELSE IF n - 1 \in Threads THEN CheckWait(walk[n - 1], n - 1, late)
        ELSE walk[n - 1]
  IN walk[NC_MAX_THREADS]

Signal(s, o, n, late) == CheckWaits([s EXCEPT !.signal[o] = n], late)

SetEvent(s, e, late) == Signal(s, e, 1, late)

ReleaseSemaphore(s, o, n, late) ==
  IF s.signal[o] + n > Limit[o] THEN s ELSE Signal(s, o, s.signal[o] + n, late)

(* Faults: the mutant is freed and nobody looked for, or its owner stays.  *)
ReleaseMutantNoWalk(s, o, t, late) ==
  [s EXCEPT !.signal[o] = @ + 1, !.held[o][t] = @ - 1,
            !.owner[o] = IF s.signal[o] + 1 > 0 THEN NoThread ELSE @]
ReleaseMutantKeepsOwner(s, o, t, late) ==
  CheckWaits([s EXCEPT !.signal[o] = @ + 1, !.held[o][t] = @ - 1], late)

ReleaseMutant(s, o, t, late) ==
  LET r == [s EXCEPT !.signal[o] = @ + 1, !.held[o][t] = @ - 1]
  IN IF r.signal[o] > 0 THEN CheckWaits([r EXCEPT !.owner[o] = NoThread], late) ELSE r

StartWait(s, w, t) ==
  IF Satisfied(s, w, t) THEN Take(s, w, t)
  ELSE IF w.timeout = "zero" THEN [s EXCEPT !.status[t] = STATUS_TIMEOUT]
  ELSE [s EXCEPT !.wait[t] = w, !.resched = TRUE]

(* The scheduler's pass, at the end of an entry that needs one; not while  *)
(* the running thread is at DISPATCH_LEVEL or above, where it never waits. *)
Pass(s, late) == IF s.resched THEN [CheckWaits(s, late) EXCEPT !.resched = FALSE] ELSE s

-----------------------------------------------------------------------------
(***************************************************************************)
(* The kernel calls, of a thread that runs.  Threads past a deadline may   *)
(* be found so on any walk.                                                *)
(***************************************************************************)

Late == SUBSET {t \in Threads : d.wait[t].timeout = "some"}

(* The state a call finds, no wait of an earlier one to report.           *)
Call == [d EXCEPT !.status = NoStatus]

MayCall(t) == t \notin Waiting(d) \cup d.ended

(* A call below DISPATCH_LEVEL, and one at any level, to its end.          *)
Return(s, late) == d' = Pass(s, late)
ReturnAtAnyIrql(s, late) == d' \in {s, Pass(s, late)}

(* KeWaitForSingleObject, KeWaitForMultipleObjects, KeDelayExecutionThread. *)
MayWait(t, w) ==
  /\ MayCall(t)
  /\ \A m \in Range(w.objects) \cap Mutants : d.held[m][t] < MaxDepth

KeWait(t, w) ==
  /\ MayWait(t, w)
  /\ \E late \in Late :
       \/ Return(StartWait(Call, w, t), late)
       \/ w.timeout = "zero" /\ ReturnAtAnyIrql(StartWait(Call, w, t), late)

KeSetEvent(e) ==
  \E late \in Late : ReturnAtAnyIrql(SetEvent(Call, e, late), late)

KeResetEvent(e) ==
  \E late \in Late : ReturnAtAnyIrql([Call EXCEPT !.signal[e] = 0], late)

KePulseEvent(e) ==
  \E late \in Late : ReturnAtAnyIrql([SetEvent(Call, e, late) EXCEPT !.signal[e] = 0], late)

KeReleaseSemaphore(o, n) ==
  \E late \in Late : ReturnAtAnyIrql(ReleaseSemaphore(Call, o, n, late), late)

(* The kernel does not ask who releases; a title's thread releases what it *)
(* acquired.                                                               *)
KeReleaseMutant(t, m) ==
  /\ MayCall(t) /\ d.held[m][t] > 0
  /\ \E late \in Late : ReturnAtAnyIrql(ReleaseMutant(Call, m, t, late), late)

(* A signal and a wait in one call; a semaphore at its limit is not waited *)
(* on.                                                                     *)
NtSignalAndWaitForSingleObjectEx(t, o, w) ==
  /\ MayWait(t, w) /\ Len(w.objects) = 1
  /\ \E late \in Late :
       \/ o \in Events /\ Return(StartWait(SetEvent(Call, o, late), w, t), late)
       \/ /\ o \in Semaphores /\ d.signal[o] < Limit[o]
          /\ Return(StartWait(ReleaseSemaphore(Call, o, 1, late), w, t), late)
       \/ /\ o \in Mutants /\ d.held[o][t] > 0
          /\ Return(StartWait(ReleaseMutant(Call, o, t, late), w, t), late)

(* A terminated thread is signaled; the pass that follows finds who waits  *)
(* for it.                                                                 *)
PsTerminateSystemThread(t) ==
  /\ MayCall(t)
  /\ \E late \in Late :
       Return([Call EXCEPT !.signal[t] = 1, !.ended = @ \cup {t}, !.resched = TRUE], late)

(* A timer is due: signaled, and left to the next pass.                    *)
TimerFires(o) ==
  \E late \in Late :
    ReturnAtAnyIrql([Call EXCEPT !.signal[o] = 1, !.resched = TRUE], late)

(* KeSetTimer takes the signal back.                                       *)
KeSetTimer(o) ==
  \E late \in Late : ReturnAtAnyIrql([Call EXCEPT !.signal[o] = 0], late)

(* A wait timeout is due, or the scheduler goes round.                     *)
ClockTick ==
  \E late \in Late : ReturnAtAnyIrql(CheckWaits(Call, late), late)

(* Some thread runs, or a DPC, which may make the calls that do not wait.  *)
Next ==
  \/ \E t \in Threads :
       \/ \E w \in Waits :
            \/ KeWait(t, w)
            \/ \E o \in Objects : NtSignalAndWaitForSingleObjectEx(t, o, w)
       \/ \E m \in Mutants : KeReleaseMutant(t, m)
       \/ PsTerminateSystemThread(t)
  \/ \E e \in Events : KeSetEvent(e) \/ KeResetEvent(e) \/ KePulseEvent(e)
  \/ \E o \in Semaphores, n \in 1 .. 2 : KeReleaseSemaphore(o, n)
  \/ \E o \in Timers : TimerFires(o) \/ KeSetTimer(o)
  \/ ClockTick

Spec == Init /\ [][Next]_d

-----------------------------------------------------------------------------
(* The types; no object is acquired further than it was signaled; and a    *)
(* mutant's two fields tell who has it and how many times over, through    *)
(* recursion, waits for several objects and hand-overs (ke.c).             *)
TypeOK ==
  /\ \A o \in Events \cup Timers \cup Threads : d.signal[o] \in {0, 1}
  /\ \A o \in Semaphores : d.signal[o] \in 0 .. Limit[o]
  /\ \A t \in Threads : d.wait[t] \in Waits \cup {Runs}
  /\ d.status \in [Threads -> Int]
  /\ d.ended \subseteq Threads
  /\ d.held \in [Mutants -> [Threads -> 0 .. MaxDepth]]
  /\ \A m \in Mutants :
       \/ /\ d.owner[m] = NoThread /\ d.signal[m] = 1
          /\ \A t \in Threads : d.held[m][t] = 0
       \/ /\ d.owner[m] \in Threads /\ d.signal[m] = 1 - d.held[m][d.owner[m]]
          /\ \A t \in Threads : d.held[m][t] > 0 <=> t = d.owner[m]

(* No thread waits for what is there: whatever signaled, in whatever order *)
(* the table was walked, whoever could go on goes on, at the latest on the *)
(* pass the scheduler is due for.                                          *)
NoMissedWait == ~d.resched => \A t \in Waiting(d) : ~Satisfied(d, d.wait[t], t)

(* A wait that times out is one that nothing could have ended: a signal    *)
(* that came with the deadline wins.                                       *)
Ends(t) == d.wait[t] # Runs /\ d'.wait[t] = Runs
TimeoutLosesToSignal ==
  [][\A t \in Threads :
       Ends(t) /\ d'.status[t] = STATUS_TIMEOUT => ~Satisfied(d', d.wait[t], t)]_d

(* A wait for all its objects takes none of them before it takes them all, *)
(* and one for any takes the one it reports.                               *)
Reported(t) ==
  LET w == d.wait[t]
  IN IF ~Ends(t) \/ d'.status[t] \notin DOMAIN w.objects THEN {}
     ELSE Taken(w, d'.status[t])
TakesWhatItReports ==
  [][\A t \in Waiting(d), m \in Mutants :
       d'.held[m][t] = d.held[m][t] + (IF m \in Reported(t) THEN 1 ELSE 0)]_d

(* Each mutant is a lock.                                                  *)
Lock(m) == INSTANCE Mutex WITH held <- d.held[m]
MutantsAreLocks ==
  /\ \A m \in Mutants : Lock(m)!Init
  /\ [][\A m \in Mutants : Lock(m)!Next \/ UNCHANGED d.held[m]]_d
=============================================================================
