------------------------------- MODULE Clock -------------------------------
(***************************************************************************)
(* What is due and when the guest is told: the timers, the wait timeouts   *)
(* and the running thread's slice (kernel.c, timer.c, ke.c, ps.c), and the *)
(* host thread that stops the guest for them (clock_thread).               *)
(*                                                                         *)
(* Every time is kept as what is left of it, in periods of the clock       *)
(* thread (CLOCK_PERIOD_NS): zero is now.                                  *)
(***************************************************************************)
EXTENDS Integers, FiniteSets, FiniteSetsExt

CONSTANTS
  Timers,       (* The timers of the title.                                *)
  Period,       (* Of each, 0 for one that fires once.                     *)
  Waiters,      (* The threads that wait with a timeout.                   *)
  MaxDelay,     (* The longest time a timer or a timeout is set for.       *)
  Quantum,      (* A thread's slice.                                       *)
  Tick,         (* FALSE: NC_CLOCK_TICK=0, no interrupt for the time alone. *)
  Lag,          (* How late the host may run the clock thread.             *)
  MaxLate       (* How late a time is told from later ones.                *)

ASSUME ClockAssumption ==
  /\ Timers \cap Waiters = {}
  /\ MaxDelay \in Nat \ {0} /\ Quantum \in 1 .. MaxDelay
  /\ Period \in [Timers -> 0 .. MaxDelay]
  /\ Tick \in BOOLEAN
  /\ Lag \in Nat /\ MaxLate \in Nat

CLOCK_SLACK == 2
STALE == 4                          (* nc_ke_published_ns's 4 ms           *)
Never == MaxDelay + 1
Times == (0 - MaxLate) .. Never

VARIABLES
  k,      (* The kernel's, the guest CPU thread's.                         *)
  clock,  (* The clock thread's, under g_clock_mu.                         *)
  shared, (* What both threads read and write without it.                  *)
  cpu     (* Where the CPU's thread is: in guest code, or in an entry of   *)
          (* the kernel that has yet to look at the clock, or has.         *)

vars == << k, clock, shared, cpu >>

Init ==
  /\ k = [due |-> [i \in Timers \cup Waiters |-> Never],
          waitDue |-> Never,        (* wait_due_ns                         *)
          slice |-> Quantum,        (* slice_due_ns                        *)
          away |-> FALSE]           (* An ISR or a DPC runs.               *)
  /\ clock = [due |-> Quantum,      (* g_clock_due                         *)
              signaled |-> FALSE,   (* g_clock_cv                          *)
              wake |-> IF Tick THEN 1 ELSE Quantum,
              woke |-> FALSE]
  /\ shared = [age |-> 0,           (* Of the published time.              *)
               moved |-> FALSE,     (* Published since the times were      *)
                                    (* written.                            *)
               refreshed |-> TRUE,  (* g_refreshes is not what was seen.   *)
               request |-> FALSE]   (* nc_cpu_request_interrupt            *)
  /\ cpu = "guest"

-----------------------------------------------------------------------------
(***************************************************************************)
(* The functions of the kernel, on the CPU's thread.                       *)
(***************************************************************************)

Earliest(s, items) == Min({s.due[i] : i \in items} \cup {Never})
TimerDue(s) == Earliest(s, Timers)

(* nc_kernel_clock_arm: the clock thread is told of a time earlier than    *)
(* the one it has.  It has the lock while it wakes.                        *)
ArmTime(s) == Min({TimerDue(s), s.waitDue, IF s.away THEN Never ELSE s.slice})
Arm(s) ==
  /\ ArmTime(s) # Never => ~clock.woke
  /\ clock' = IF ArmTime(s) < clock.due
                THEN [clock EXCEPT !.due = ArmTime(s), !.signaled = TRUE]
                ELSE clock

(* A periodic timer's next time, never one that is past.                   *)
Again(t, left) ==
  IF Period[t] = 0 THEN Never
  ELSE IF left + Period[t] > 0 THEN left + Period[t] ELSE Period[t]

TimerPoll(s) ==
  [s EXCEPT !.due = [i \in DOMAIN @ |->
     IF i \in Timers /\ @[i] <= 0 THEN Again(i, @[i]) ELSE @[i]]]

(* A fault: the earliest of the timeouts is not looked for again.          *)
CheckWaitsKeepingDue(s) ==
  [s EXCEPT !.due = [i \in DOMAIN @ |-> IF i \in Waiters /\ @[i] <= 0 THEN Never ELSE @[i]]]

(* The wait timeouts that are due end their waits.                         *)
CheckWaits(s) ==
  LET left == [i \in DOMAIN s.due |->
                 IF i \in Waiters /\ s.due[i] <= 0 THEN Never ELSE s.due[i]]
  IN [s EXCEPT !.due = left, !.waitDue = Earliest([s EXCEPT !.due = left], Waiters)]

(* A slice is over: a new one starts, for this thread or with the switch   *)
(* that follows; not while an ISR or a DPC runs.                           *)
SliceEnd(s) == IF s.away THEN {s} ELSE {[s EXCEPT !.slice = Quantum], [s EXCEPT !.slice = Never]}

(* clock_tick: by the published time there is nothing to do for a while,   *)
(* or the clock is read, and nothing is due.                               *)
Published == Tick /\ shared.age <= STALE
NextDue == Min({TimerDue(k), k.waitDue, k.slice})
NothingNear == NextDue = Never \/ (Published /\ NextDue > CLOCK_SLACK - shared.age)
NothingDue == NothingNear \/ NextDue > 0

Handled ==
  LET t == IF TimerDue(k) <= 0 THEN TimerPoll(k) ELSE k
      w == IF t.waitDue <= 0 THEN CheckWaits(t) ELSE t
  IN IF k.slice <= 0 THEN SliceEnd(w) ELSE {w}

(* nc_ps_schedule: what is due once more; then an ISR or a DPC runs, or a  *)
(* thread, for what is left of its slice.                                  *)
Schedule(s) ==
  LET w == CheckWaits(TimerPoll(s))
  IN {[w EXCEPT !.away = TRUE]} \cup
     {[w EXCEPT !.away = FALSE, !.slice = q] : q \in 0 .. Quantum}

-----------------------------------------------------------------------------
(***************************************************************************)
(* The entries of the guest.                                               *)
(***************************************************************************)

(* A kernel call writes the guest's times if the published one has moved.  *)
EnterCall ==
  /\ cpu = "guest" /\ cpu' = "entered"
  /\ shared' = [shared EXCEPT !.refreshed = @ \/ ~Published \/ shared.moved, !.moved = FALSE]
  /\ UNCHANGED << k, clock >>

EnterInterrupt ==
  /\ cpu = "guest" /\ shared.request /\ cpu' = "entered"
  /\ shared' = [shared EXCEPT !.request = FALSE, !.refreshed = TRUE, !.moved = FALSE]
  /\ UNCHANGED << k, clock >>

LookAtClock ==
  /\ cpu = "entered" /\ cpu' = "looked"
  /\ \/ NothingDue /\ UNCHANGED << k, clock >>
     \/ ~NothingDue /\ k' \in Handled /\ Arm(k')
  /\ UNCHANGED shared

(* What the entry is for, and the way back to the guest.                   *)
Leaves == cpu = "looked" /\ cpu' = "guest" /\ UNCHANGED shared

(* A timer is set or, with Never, cancelled.                               *)
KeSetTimer(t, n) ==
  /\ Leaves
  /\ k' = [k EXCEPT !.due[t] = n]
  /\ Arm(k')

(* The running thread starts to wait, another one runs.                    *)
KeWait(w, n) ==
  /\ Leaves /\ k.due[w] = Never
  /\ k' \in Schedule([k EXCEPT !.due[w] = n])
  /\ Arm(k')

(* A signal ends a wait; the caller goes on.                               *)
KeSetEvent(w) ==
  /\ Leaves /\ k.due[w] # Never
  /\ k' = CheckWaits([k EXCEPT !.due[w] = Never])
  /\ UNCHANGED clock

(* Any other reason for the scheduler.                                     *)
Reschedule ==
  /\ Leaves
  /\ k' \in Schedule(k)
  /\ IF k'.away /\ TimerDue(k) > 0 THEN UNCHANGED clock ELSE Arm(k')

(* Any other call.                                                         *)
Return == Leaves /\ UNCHANGED << k, clock >>

-----------------------------------------------------------------------------
(***************************************************************************)
(* The clock thread.                                                       *)
(***************************************************************************)
Publish(s) == IF Tick THEN [s EXCEPT !.age = 0, !.moved = @ \/ s.age > 0] ELSE s
Sleep(due) == IF Tick THEN Min({1, due}) ELSE due

ClockRearmed ==
  /\ ~clock.woke /\ clock.signaled
  /\ clock' = [clock EXCEPT !.signaled = FALSE, !.wake = Sleep(clock.due)]
  /\ shared' = Publish(shared)
  /\ UNCHANGED << k, cpu >>

(* It wakes on time or late, and publishes the time before it asks the     *)
(* guest to look at it.                                                    *)
ClockWakes ==
  /\ ~clock.woke /\ ~clock.signaled /\ clock.wake <= 0
  /\ clock' = [clock EXCEPT !.woke = TRUE]
  /\ shared' = Publish(shared)
  /\ UNCHANGED << k, cpu >>

(* A fault: the guest is asked only for what is due.                       *)
ClockAsksWhenDue ==
  LET due == clock.due <= 0
      left == IF due THEN Never ELSE clock.due
  IN /\ clock.woke
     /\ clock' = [clock EXCEPT !.due = left, !.wake = Sleep(left), !.woke = FALSE]
     /\ shared' = [Publish(shared) EXCEPT !.request = @ \/ due, !.refreshed = FALSE]
     /\ UNCHANGED << k, cpu >>

ClockAsks ==
  LET due == clock.due <= 0
      tick == Tick /\ ~shared.refreshed /\ cpu = "guest"
      left == IF due THEN Never ELSE clock.due
  IN /\ clock.woke
     /\ clock' = [clock EXCEPT !.due = left, !.wake = Sleep(left), !.woke = FALSE]
     /\ shared' = [Publish(shared) EXCEPT !.request = @ \/ due \/ tick, !.refreshed = FALSE]
     /\ UNCHANGED << k, cpu >>

(* Time passes in guest code, which stops at its next block for a request, *)
(* and while the clock thread sleeps, or is late to wake.                  *)
Left(n) == IF n = Never THEN Never ELSE Max({n - 1, 0 - MaxLate})
TimePasses ==
  /\ cpu = "guest" /\ ~shared.request
  /\ ~clock.woke /\ ~clock.signaled /\ clock.wake > 0 - Lag
  /\ k' = [k EXCEPT !.due = [i \in DOMAIN @ |-> Left(@[i])],
                    !.waitDue = Left(@), !.slice = Left(@)]
  /\ clock' = [clock EXCEPT !.due = Left(@), !.wake = Left(@)]
  /\ shared' = [shared EXCEPT !.age = Min({@ + 1, STALE + 1})]
  /\ UNCHANGED cpu

Next ==
  \/ EnterCall \/ EnterInterrupt \/ LookAtClock
  \/ \E t \in Timers, n \in 0 .. Never : KeSetTimer(t, n)
  \/ \E w \in Waiters : KeSetEvent(w)
  \/ \E w \in Waiters, n \in 1 .. MaxDelay : KeWait(w, n)
  \/ Reschedule \/ Return
  \/ ClockRearmed \/ ClockWakes \/ ClockAsks
  \/ TimePasses

Spec == Init /\ [][Next]_vars

-----------------------------------------------------------------------------
(* Whatever is due is handled within MaxLate periods, also when the guest  *)
(* never enters the kernel of its own.                                     *)
OnTime ==
  /\ \A i \in Timers \cup Waiters : k.due[i] > 0 - MaxLate
  /\ ~k.away => k.slice > 0 - MaxLate

(* The cached time of the waits is the earliest of theirs.                 *)
WaitDueExact == k.waitDue = Earliest(k, Waiters)
=============================================================================
