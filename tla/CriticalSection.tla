-------------------------- MODULE CriticalSection --------------------------
(***************************************************************************)
(* One RTL_CRITICAL_SECTION of the guest: the x86 fast paths that          *)
(* install_fast_paths puts in the guest (kernel.c) and the kernel calls    *)
(* they fall back to (ke.c).                                               *)
(*                                                                         *)
(* There is one guest CPU.  A kernel call runs whole.  The fast paths are  *)
(* guest code: the CPU may leave them for an interrupt, and so for another *)
(* thread, at the start of every block (cpu.h, nc_cpu_request_interrupt).  *)
(* A block of the fast paths is one action here, named by the label at its *)
(* start.                                                                  *)
(***************************************************************************)
EXTENDS Slots

CONSTANT MaxDepth   (* How often a thread enters before it leaves.         *)

(* The starts of the blocks of the two fast paths.  The first block of each *)
(* is reached from the guest's own code, "run".                             *)
Blocks == {"enter_own", "enter_held", "enter_again", "enter_other",
           "leave_free", "leave_owned", "leave_waiters"}

ASSUME CriticalSectionAssumption == MaxDepth \in Nat \ {0}

VARIABLES
  lockCount,    (* LockCount, -1 when free.                                *)
  recursion,    (* RecursionCount.                                         *)
  owner,        (* OwningThread.                                           *)
  event,        (* SignalState of the event the section begins with.       *)
  pc,           (* Where each thread is: in its own code ("run"), at a     *)
                (* block of a fast path, or waiting for the event.         *)
  depth,        (* How often each thread is inside: entered, not left.     *)
  current,      (* The thread the CPU runs.                                *)
  fastPaths,    (* FALSE with NC_NO_FAST: every call enters the kernel.    *)
  lapsed        (* History: a contended enter took back its step and was   *)
                (* given the section, which had become free in between.    *)

vars ==
  << lockCount, recursion, owner, event, pc, depth, current, fastPaths, lapsed >>

Waiting == {t \in Threads : pc[t] = "waiting"}

(***************************************************************************)
(* RtlInitializeCriticalSection has run and no thread has entered.         *)
(***************************************************************************)
Init ==
  /\ lockCount = -1
  /\ recursion = 0
  /\ owner = NoThread
  /\ event = 0
  /\ pc = [t \in Threads |-> "run"]
  /\ depth = [t \in Threads |-> 0]
  /\ current \in Threads
  /\ fastPaths \in BOOLEAN
  /\ lapsed = FALSE

-----------------------------------------------------------------------------
(***************************************************************************)
(* The kernel calls.  lc and rec are the LockCount and RecursionCount the  *)
(* call finds: a fast path gives back its own step just before, in the     *)
(* same block.                                                             *)
(***************************************************************************)
Goto(t, label) == pc' = [pc EXCEPT ![t] = label]

(* t returns from RtlEnterCriticalSection, once more inside.               *)
Enters(t) ==
  /\ depth' = [depth EXCEPT ![t] = @ + 1]
  /\ Goto(t, "run")

(* The thread that finds the section free becomes its owner.               *)
Own(t) ==
  /\ owner' = t
  /\ recursion' = 1
  /\ Enters(t)

(* The wait for the event: one that is signaled is taken on the spot.      *)
WaitForEvent(t) ==
  \/ /\ event = 1
     /\ event' = 0
     /\ Own(t)
  \/ /\ event = 0
     /\ Goto(t, "waiting")
     /\ UNCHANGED << event, owner, recursion, depth >>

(* A fault: whoever finds the section held is taken for its owner.         *)
KernelEnterAnyOwner(t, lc) ==
  /\ lockCount' = lc + 1
  /\ \/ lc + 1 = 0 /\ Own(t)
     \/ lc + 1 # 0 /\ recursion' = recursion + 1 /\ Enters(t) /\ UNCHANGED owner
  /\ UNCHANGED event

KernelEnter(t, lc) ==
  /\ lockCount' = lc + 1
  /\ \/ /\ lc + 1 = 0
        /\ Own(t)
        /\ UNCHANGED event
     \/ /\ lc + 1 # 0 /\ owner = t
        /\ recursion' = recursion + 1
        /\ Enters(t)
        /\ UNCHANGED << owner, event >>
     \/ /\ lc + 1 # 0 /\ owner # t
        /\ WaitForEvent(t)

(* The event is set: the first waiting thread of the table takes it, and   *)
(* with it the section; with no thread waiting it stays signaled.          *)
SetEvent(left) ==
  \/ /\ Waiting # {}
     /\ LET w == FirstSlot(Waiting) IN
          /\ owner' = w
          /\ depth' = [left EXCEPT ![w] = @ + 1]
          /\ pc' = [pc EXCEPT ![current] = "run", ![w] = "run"]
     /\ recursion' = 1
     /\ event' = 0
  \/ /\ Waiting = {}
     /\ event' = 1
     /\ owner' = NoThread
     /\ recursion' = 0
     /\ depth' = left
     /\ Goto(current, "run")

(* left is depth with the caller's leave counted.                          *)
KernelLeave(t, lc, rec, left) ==
  /\ lockCount' = lc - 1
  /\ \/ /\ rec - 1 # 0
        /\ recursion' = rec - 1
        /\ depth' = left
        /\ UNCHANGED << owner, event, pc >>
     \/ /\ rec - 1 = 0 /\ lc - 1 >= 0
        /\ SetEvent(left)
     \/ /\ rec - 1 = 0 /\ lc - 1 < 0
        /\ owner' = NoThread
        /\ recursion' = 0
        /\ depth' = left
        /\ Goto(t, "run")
        /\ UNCHANGED event

(* A title enters at most MaxDepth times over and leaves what it entered.  *)
MayEnter(t) == pc[t] = "run" /\ depth[t] < MaxDepth
MayLeave(t) == pc[t] = "run" /\ depth[t] > 0
Left(t) == [depth EXCEPT ![t] = @ - 1]

(* The calls that enter the kernel at once.                                *)
RtlEnterCriticalSection(t) ==
  /\ ~fastPaths /\ MayEnter(t)
  /\ KernelEnter(t, lockCount)

RtlLeaveCriticalSection(t) ==
  /\ ~fastPaths /\ MayLeave(t)
  /\ KernelLeave(t, lockCount, recursion, Left(t))

(* It has no fast path.  The call that returns FALSE changes nothing.      *)
RtlTryEnterCriticalSection(t) ==
  /\ MayEnter(t)
  /\ \/ /\ lockCount = -1
        /\ lockCount' = 0
        /\ Own(t)
     \/ /\ lockCount # -1 /\ owner = t
        /\ lockCount' = lockCount + 1
        /\ recursion' = recursion + 1
        /\ Enters(t)
        /\ UNCHANGED owner
  /\ UNCHANGED event

-----------------------------------------------------------------------------
(***************************************************************************)
(* RtlEnterCriticalSection in guest code.                                  *)
(***************************************************************************)

(* lock inc of LockCount; jnz held                                         *)
CallEnter(t) ==
  /\ fastPaths /\ MayEnter(t)
  /\ lockCount' = lockCount + 1
  /\ Goto(t, IF lockCount + 1 = 0 THEN "enter_own" ELSE "enter_held")
  /\ UNCHANGED << recursion, owner, event, depth >>

EnterOwn(t) ==
  /\ pc[t] = "enter_own"
  /\ Own(t)
  /\ UNCHANGED << lockCount, event >>

(* held: cmp of OwningThread; jne other                                    *)
EnterHeld(t) ==
  /\ pc[t] = "enter_held"
  /\ Goto(t, IF owner = t THEN "enter_again" ELSE "enter_other")
  /\ UNCHANGED << lockCount, recursion, owner, event, depth >>

EnterAgain(t) ==
  /\ pc[t] = "enter_again"
  /\ recursion' = recursion + 1
  /\ Enters(t)
  /\ UNCHANGED << lockCount, owner, event >>

(* A fault: the step is not given back.                                    *)
EnterOtherNoUndo(t) == pc[t] = "enter_other" /\ KernelEnter(t, lockCount)

(* other: lock dec of LockCount; the kernel call does the whole operation  *)
EnterOther(t) ==
  /\ pc[t] = "enter_other"
  /\ KernelEnter(t, lockCount - 1)

(***************************************************************************)
(* RtlLeaveCriticalSection in guest code.  A thread is out of the section  *)
(* from the call on.                                                       *)
(***************************************************************************)

(* dec of RecursionCount; jnz still_owned                                  *)
CallLeave(t) ==
  /\ fastPaths /\ MayLeave(t)
  /\ recursion' = recursion - 1
  /\ depth' = Left(t)
  /\ Goto(t, IF recursion - 1 # 0 THEN "leave_owned" ELSE "leave_free")
  /\ UNCHANGED << lockCount, owner, event >>

LeaveOwned(t) ==
  /\ pc[t] = "leave_owned"
  /\ lockCount' = lockCount - 1
  /\ Goto(t, "run")
  /\ UNCHANGED << recursion, owner, event, depth >>

(* A fault: jg in place of jge.                                            *)
LeaveFreeOffByOne(t) ==
  /\ pc[t] = "leave_free"
  /\ owner' = NoThread
  /\ lockCount' = lockCount - 1
  /\ Goto(t, IF lockCount - 1 > 0 THEN "leave_waiters" ELSE "run")
  /\ UNCHANGED << recursion, event, depth >>

(* OwningThread 0, then lock dec of LockCount; jge waiters                 *)
LeaveFree(t) ==
  /\ pc[t] = "leave_free"
  /\ owner' = NoThread
  /\ lockCount' = lockCount - 1
  /\ Goto(t, IF lockCount - 1 >= 0 THEN "leave_waiters" ELSE "run")
  /\ UNCHANGED << recursion, event, depth >>

(* waiters: LockCount, OwningThread and a RecursionCount of 1 put back;    *)
(* the kernel call does the whole operation                                *)
LeaveWaiters(t) ==
  /\ pc[t] = "leave_waiters"
  /\ KernelLeave(t, lockCount + 1, 1, depth)

-----------------------------------------------------------------------------
(* The CPU goes to another thread that is not waiting: for an interrupt at *)
(* the start of a block, or because the running thread waits.              *)
Switch(t) ==
  /\ t # current /\ pc[t] # "waiting"
  /\ current' = t
  /\ UNCHANGED << lockCount, recursion, owner, event, pc, depth, fastPaths, lapsed >>

Enter(t) ==
  \/ RtlEnterCriticalSection(t) \/ RtlTryEnterCriticalSection(t)
  \/ CallEnter(t) \/ EnterOwn(t) \/ EnterHeld(t) \/ EnterAgain(t) \/ EnterOther(t)

Leave(t) ==
  \/ RtlLeaveCriticalSection(t)
  \/ CallLeave(t) \/ LeaveOwned(t) \/ LeaveFree(t) \/ LeaveWaiters(t)

(* With its step taken back LockCount is -1: the kernel call takes the     *)
(* section as one that nobody holds, nobody gives up and nobody is given.  *)
Lapses(t) == pc[t] = "enter_other" /\ lockCount = 0

Run(t) ==
  /\ t = current
  /\ Enter(t) \/ Leave(t)
  /\ lapsed' = (lapsed \/ Lapses(t))
  /\ UNCHANGED << current, fastPaths >>

Next == \E t \in Threads : Run(t) \/ Switch(t)

Spec == Init /\ [][Next]_vars

(***************************************************************************)
(* The scheduler gives every ready thread its turn (ps.c, slices): whoever *)
(* is in a fast path comes out of it, and a title leaves what it entered.  *)
(***************************************************************************)
Fairness ==
  \A t \in Threads : []<>(pc[t] \notin Blocks) /\ []<>(depth[t] = 0)

FairSpec == Spec /\ Fairness

-----------------------------------------------------------------------------
TypeOK ==
  /\ lockCount \in Int
  /\ recursion \in Int
  /\ owner \in Threads \cup {NoThread}
  /\ event \in {0, 1}
  /\ pc \in [Threads -> Blocks \cup {"run", "waiting"}]
  /\ depth \in [Threads -> Nat]
  /\ current \in Threads
  /\ fastPaths \in BOOLEAN
  /\ lapsed \in BOOLEAN

(* What the comment at install_fast_paths takes the fast paths for: a      *)
(* contended enter undoes its step, the kernel call does the whole         *)
(* operation, and so one thread at a time is inside.  The code does not    *)
(* keep that (README, Divergence 1).                                       *)
MutualExclusion ==
  \A t, u \in Threads : depth[t] > 0 /\ depth[u] > 0 => t = u

(* The section names the thread that is inside, and counts how often it    *)
(* entered: what the next enter and the next leave go by, even after a     *)
(* wait in which another thread wrote both fields.                         *)
InsideIsOwner ==
  \A t \in Threads :
    depth[t] > 0 /\ pc[t] = "run" => owner = t /\ recursion = depth[t]

(* Between calls LockCount counts the owner's entries and the threads that *)
(* wait: no undone step of a contended call is lost or left behind.        *)
LockCountExact ==
  (\A t \in Threads : pc[t] \in {"run", "waiting"}) =>
    lockCount + 1 = recursion + Cardinality(Waiting)

(* The event is signaled only with the section free, for a contended enter *)
(* that was counted and is yet to come: the next thread that waits would   *)
(* pass it otherwise with the section owned.                               *)
EventForSomebody ==
  event = 1 =>
    /\ owner = NoThread
    /\ \E t \in Threads : pc[t] \in {"enter_held", "enter_other"}

(* What the next enter and the next leave go by, all the while right: the  *)
(* owner, the entries and the threads counted, and no event left over      *)
(* (kernel.c install_fast_paths; ke.c RtlEnterCriticalSection).            *)
(* Wherever the threads are interrupted, the undoing of a step is the only *)
(* way to lose it, and only where the section has become free meanwhile.   *)
FieldsExact ==
  ~lapsed => InsideIsOwner /\ LockCountExact /\ EventForSomebody

(* Until then the section refines a lock.                                  *)
Lock == INSTANCE Mutex WITH held <- depth
LockUntilLapse == Lock!Init /\ [][lapsed' \/ Lock!Next]_depth

(* No wake-up is lost until then: whichever threads wait, one gets in.     *)
WaitersProgress ==
  \A S \in SUBSET Threads \ {{}} : []<>(Waiting # S \/ lapsed)
=============================================================================
