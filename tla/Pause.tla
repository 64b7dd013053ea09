------------------------------- MODULE Pause -------------------------------
(***************************************************************************)
(* Stopping the machine: interrupt requests and the idle wait (irq.c), the *)
(* pause of the guest's CPU and of the device threads (irq.c, kernel.c),   *)
(* and a savestate taken while they stand still (save.c).                  *)
(*                                                                         *)
(* The actors are host threads: the one that runs the guest (Cpu), the     *)
(* devices' own, the clock thread, and the app's, with its menu.  What is  *)
(* done under a mutex in one go is one action; a thread that sleeps on a   *)
(* condition variable is sent back to look again by the broadcast.         *)
(***************************************************************************)
EXTENDS Naturals

CONSTANTS
  Devices,      (* The threads that called nc_pause_register.              *)
  Raisers,      (* Those that assert the interrupt line.                   *)
  Idlers,       (* Those that wait in nc_pause_idle for something to do.   *)
  LateLookers,  (* Those that act after such a wait before they look       *)
                (* whether the emulation has been paused meanwhile.        *)
  Cpu, App      (* Model values.                                           *)

ASSUME PauseAssumption ==
  /\ Cpu \notin Devices /\ App \notin Devices /\ Cpu # App
  /\ Raisers \subseteq Devices
  /\ Idlers \subseteq Devices /\ LateLookers \subseteq Idlers

Posters == Raisers \cup {App}
Threads == Devices \cup {Cpu, App}

VARIABLES
  pause,   (* Under g_mu: on (g_paused), cpuWork (g_cpu_work), parked      *)
           (* (g_pt).                                                      *)
  irq,     (* line, work (g_work), request (nc_cpu_request_interrupt),     *)
           (* idling (g_nc_idle_waiting).                                  *)
  at,      (* Where each thread is.                                        *)
  entered, (* Why the CPU's thread has come to the pause point.            *)
  ring,    (* How far each poster is with waking the CPU.                  *)
  save     (* Under g_req.mu: pending, taking, done; was (was_paused),     *)
           (* nc_state_save's own; decoder: the push buffer's decoder is   *)
           (* parked; and history, early: the request being answered was   *)
           (* taken before the emulation was paused for it.                *)

vars == << pause, irq, at, entered, ring, save >>

Init ==
  /\ pause = [on |-> FALSE, cpuWork |-> FALSE, parked |-> [d \in Devices |-> FALSE]]
  /\ irq = [line |-> FALSE, work |-> FALSE, request |-> FALSE, idling |-> FALSE]
  /\ at = [a \in Threads |-> CASE a = Cpu -> "guest" [] a = App -> "plays" [] OTHER -> "looks"]
  /\ entered = "call"
  /\ ring = [p \in Posters |-> "done"]
  /\ save = [pending |-> FALSE, taking |-> FALSE, done |-> FALSE, was |-> FALSE,
             decoder |-> FALSE, early |-> FALSE]

Moves(a, from, to) == at[a] = from /\ at' = [at EXCEPT ![a] = to]

(* pthread_cond_broadcast of g_pause_cv: its sleepers look again.          *)
Woken(places) ==
  [a \in DOMAIN places |->
     CASE places[a] = "pause_asleep" -> "pause_locks"
       [] places[a] = "quiesce_asleep" -> "quiesces"
       [] OTHER -> places[a]]

MovesAndWakes(a, from, to) ==
  at[a] = from /\ at' = [Woken(at) EXCEPT ![a] = to]

-----------------------------------------------------------------------------
(***************************************************************************)
(* nc_irq_set and nc_irq_post_work after they have set the line or the     *)
(* work: the request, then the idle flag, then the wake.                   *)
(***************************************************************************)
RequestInterrupt(p) ==
  /\ ring[p] = "request"
  /\ ring' = [ring EXCEPT ![p] = "look"]
  /\ irq' = [irq EXCEPT !.request = TRUE]
  /\ UNCHANGED << pause, at, entered, save >>

LookForIdle(p) ==
  /\ ring[p] = "look"
  /\ ring' = [ring EXCEPT ![p] = IF irq.idling THEN "wake" ELSE "done"]
  /\ UNCHANGED << pause, irq, at, entered, save >>

WakeIdle(p) ==
  /\ ring[p] = "wake"
  /\ ring' = [ring EXCEPT ![p] = "done"]
  /\ at' = [at EXCEPT ![Cpu] = IF @ = "idle_asleep" THEN "idle_locks" ELSE @]
  /\ UNCHANGED << pause, irq, entered, save >>

(* nc_pause_set's own call of nc_irq_post_work, g_mu released.             *)
PostWork ==
  /\ ring[App] = "work"
  /\ ring' = [ring EXCEPT ![App] = "request"]
  /\ irq' = [irq EXCEPT !.work = TRUE]
  /\ UNCHANGED << pause, at, entered, save >>

-----------------------------------------------------------------------------
(***************************************************************************)
(* nc_pause_wait.  A registered thread parks and stays until the emulation *)
(* resumes, the CPU's also comes out for work.                             *)
(***************************************************************************)
Parks(d, on) == [pause EXCEPT !.parked[d] = on]

Stays(a) == pause.on /\ (a # Cpu \/ ~pause.cpuWork)

PauseWaitSleeps(d) ==
  /\ Stays(d)
  /\ IF pause.parked[d] THEN Moves(d, "pause_locks", "pause_asleep")
                        ELSE MovesAndWakes(d, "pause_locks", "pause_asleep")
  /\ pause' = Parks(d, TRUE)
  /\ UNCHANGED << irq, entered, ring, save >>

(* A fault: it stays counted as parked.                                    *)
PauseWaitEndsParked(d) ==
  /\ ~Stays(d) /\ Moves(d, "pause_locks", "works")
  /\ UNCHANGED << pause, irq, entered, ring, save >>

PauseWaitEnds(d) ==
  /\ ~Stays(d) /\ Moves(d, "pause_locks", "works")
  /\ pause' = Parks(d, FALSE)
  /\ UNCHANGED << irq, entered, ring, save >>

-----------------------------------------------------------------------------
(***************************************************************************)
(* A device thread's loop.                                                 *)
(***************************************************************************)
DeviceLooks(d) ==
  /\ Moves(d, "looks", IF pause.on THEN "pause_locks" ELSE "works")
  /\ UNCHANGED << pause, irq, entered, ring, save >>

(* It changes its state and guest memory, and may assert its line.         *)
DeviceRaises(d) ==
  /\ d \in Raisers /\ ring[d] = "done"
  /\ ~irq.line /\ Moves(d, "works", "raises")
  /\ irq' = [irq EXCEPT !.line = TRUE]
  /\ ring' = [ring EXCEPT ![d] = "request"]
  /\ UNCHANGED << pause, entered, save >>

DeviceDone(d) ==
  /\ \/ Moves(d, "works", "looks")
     \/ Moves(d, "raises", "looks") /\ ring[d] = "done"
  /\ UNCHANGED << pause, irq, entered, ring, save >>

(* Nothing to do: parked meanwhile (nc_pause_idle).                        *)
DeviceIdles(d) ==
  /\ d \in Idlers /\ MovesAndWakes(d, "works", "idles")
  /\ pause' = Parks(d, TRUE)
  /\ UNCHANGED << irq, entered, ring, save >>

DeviceStirs(d) ==
  /\ MovesAndWakes(d, "idles", IF d \in LateLookers THEN "works" ELSE "looks")
  /\ pause' = Parks(d, FALSE)
  /\ UNCHANGED << irq, entered, ring, save >>

DeviceStep(d) ==
  \/ DeviceLooks(d) \/ DeviceRaises(d) \/ DeviceDone(d)
  \/ DeviceIdles(d) \/ DeviceStirs(d)
  \/ PauseWaitSleeps(d) \/ PauseWaitEnds(d)

-----------------------------------------------------------------------------
(***************************************************************************)
(* The CPU's thread: guest code, and an entry of the kernel.               *)
(***************************************************************************)
EnterCall ==
  /\ Moves(Cpu, "guest", "looks") /\ entered' = "call"
  /\ UNCHANGED << pause, irq, ring, save >>

EnterInterrupt ==
  /\ irq.request /\ Moves(Cpu, "guest", "looks") /\ entered' = "interrupt"
  /\ UNCHANGED << pause, irq, ring, save >>

(* What follows the pause point.                                           *)
Onward == CASE entered = "call" -> "serves"
            [] entered = "interrupt" -> "clears"
            [] entered = "idle" -> "idles"

Proceeds(from) == Moves(Cpu, from, Onward) /\ entered' = "call"

PausePoint ==
  /\ IF pause.on THEN Moves(Cpu, "looks", "pause_locks") /\ UNCHANGED entered
                 ELSE Proceeds("looks")
  /\ UNCHANGED << pause, irq, ring, save >>

ClearInterrupt ==
  /\ Moves(Cpu, "clears", "serves")
  /\ irq' = [irq EXCEPT !.request = FALSE]
  /\ UNCHANGED << pause, entered, ring, save >>

(* nc_io_poll and nc_intr_dispatch: the work is taken, and the line, which *)
(* its ISR lowers.  The thread goes on, or the scheduler has to run.       *)
Taken == [irq EXCEPT !.work = FALSE, !.line = FALSE]

Serve ==
  /\ \/ Moves(Cpu, "serves", "guest")
     \/ Moves(Cpu, "serves", "schedules")
  /\ irq' = Taken
  /\ UNCHANGED << pause, entered, ring, save >>

ScheduleThread ==
  /\ Moves(Cpu, "schedules", "guest") /\ irq' = Taken
  /\ UNCHANGED << pause, entered, ring, save >>

(* Every thread waits, and no ISR is to run.                               *)
ScheduleIdle ==
  /\ ~irq.line
  /\ Moves(Cpu, "schedules", "looks") /\ entered' = "idle" /\ irq' = Taken
  /\ UNCHANGED << pause, ring, save >>

(* nc_irq_idle_wait.                                                       *)
IdleWaitBegins ==
  /\ Moves(Cpu, "idles", "idle_locks")
  /\ irq' = [irq EXCEPT !.idling = TRUE]
  /\ UNCHANGED << pause, entered, ring, save >>

Roused == irq.line \/ irq.work

(* A fault: the lines and the work are looked at before the flag is set.   *)
IdleWaitSleepsBlindly ==
  /\ Moves(Cpu, "idle_locks", "idle_asleep")
  /\ UNCHANGED << pause, irq, entered, ring, save >>

IdleWaitSleeps ==
  /\ ~Roused /\ Moves(Cpu, "idle_locks", "idle_asleep")
  /\ UNCHANGED << pause, irq, entered, ring, save >>

IdleWaitEnds ==
  /\ \/ Roused /\ Moves(Cpu, "idle_locks", "schedules")
     \/ Moves(Cpu, "idle_asleep", "schedules")      (* The deadline.       *)
  /\ irq' = [irq EXCEPT !.idling = FALSE]
  /\ UNCHANGED << pause, entered, ring, save >>

(* The loop of nc_kernel_pause_point.                                      *)
PauseWaitSleepsCpu ==
  /\ Stays(Cpu) /\ Moves(Cpu, "pause_locks", "pause_asleep")
  /\ UNCHANGED << pause, irq, entered, ring, save >>

PauseWaitReturns ==
  /\ ~Stays(Cpu) /\ Moves(Cpu, "pause_locks", "pause_left")
  /\ UNCHANGED << pause, irq, entered, ring, save >>

PauseOver ==
  /\ IF pause.on THEN Moves(Cpu, "pause_left", "pause_asks") /\ UNCHANGED entered
                 ELSE Proceeds("pause_left")
  /\ UNCHANGED << pause, irq, ring, save >>

PauseCpuWork ==
  /\ Moves(Cpu, "pause_asks", IF pause.cpuWork THEN "takes" ELSE "pause_locks")
  /\ pause' = [pause EXCEPT !.cpuWork = FALSE]
  /\ UNCHANGED << irq, entered, ring, save >>

-----------------------------------------------------------------------------
(***************************************************************************)
(* nc_state_cpu_work and capture.                                          *)
(***************************************************************************)
TakeRequest ==
  /\ Moves(Cpu, "takes", IF save.pending THEN "quiesces" ELSE "pause_locks")
  /\ save' = [save EXCEPT !.pending = FALSE, !.taking = save.pending,
                          !.early = save.pending /\ ~pause.on]
  /\ UNCHANGED << pause, irq, entered, ring >>

AllParked == \A d \in Devices : pause.parked[d]

(* A fault: given up, it leaves the request unanswered.                    *)
QuiesceUnanswered ==
  /\ \/ AllParked /\ Moves(Cpu, "quiesces", "drains")
     \/ ~AllParked /\ Moves(Cpu, "quiesces", "quiesce_asleep")
     \/ Moves(Cpu, "quiesce_asleep", "pause_locks")
  /\ UNCHANGED << pause, irq, entered, ring, save >>

(* nc_pause_quiesce; its time may run out before all have parked.          *)
QuiesceTimesOut ==
  /\ Moves(Cpu, "quiesce_asleep", "answers")
  /\ UNCHANGED << pause, irq, entered, ring, save >>

Quiesce ==
  \/ /\ \/ AllParked /\ Moves(Cpu, "quiesces", "drains")
        \/ ~AllParked /\ Moves(Cpu, "quiesces", "quiesce_asleep")
     /\ UNCHANGED << pause, irq, entered, ring, save >>
  \/ QuiesceTimesOut

(* nc_io_state_drain: the disc reads in flight complete, or it gives up.   *)
Drain ==
  \/ /\ Moves(Cpu, "drains", "writes")
     /\ irq' = [irq EXCEPT !.request = TRUE, !.work = FALSE]
     /\ UNCHANGED << pause, entered, ring, save >>
  \/ /\ Moves(Cpu, "drains", "answers")
     /\ UNCHANGED << pause, irq, entered, ring, save >>

WriteState ==
  /\ Moves(Cpu, "writes", "answers")
  /\ UNCHANGED << pause, irq, entered, ring, save >>

Answer ==
  /\ Moves(Cpu, "answers", "pause_locks")
  /\ save' = [save EXCEPT !.taking = FALSE, !.done = TRUE, !.early = FALSE]
  /\ UNCHANGED << pause, irq, entered, ring >>

InPause == {"pause_locks", "pause_left", "pause_asks", "takes", "quiesces",
            "quiesce_asleep", "drains", "writes", "answers"}

CpuStep ==
  \/ EnterInterrupt \/ PausePoint \/ ClearInterrupt
  \/ Serve \/ ScheduleThread \/ ScheduleIdle
  \/ IdleWaitBegins \/ IdleWaitSleeps \/ IdleWaitEnds
  \/ PauseWaitSleepsCpu \/ PauseWaitReturns \/ PauseOver \/ PauseCpuWork
  \/ TakeRequest \/ Quiesce \/ Drain \/ WriteState \/ Answer

-----------------------------------------------------------------------------
(***************************************************************************)
(* The app: its menu pauses the emulation, and a state is saved from it.   *)
(***************************************************************************)

(* nc_pause_set, up to its posting of work.                                *)
SetPaused(on) ==
  /\ pause' = [pause EXCEPT !.on = on]
  /\ ring' = IF on THEN [ring EXCEPT ![App] = "work"] ELSE ring

AppAt(from, to) == ring[App] = "done" /\ MovesAndWakes(App, from, to)

OpenMenu ==
  /\ AppAt("plays", "menu") /\ SetPaused(TRUE)
  /\ UNCHANGED << irq, entered, save >>

CloseMenu ==
  /\ AppAt("menu", "plays") /\ SetPaused(FALSE)
  /\ UNCHANGED << irq, entered, save >>

(* nc_state_save.  The guest runs on, for the decoder to stop at a flip.   *)
SaveBegins ==
  /\ AppAt("menu", "parking") /\ SetPaused(FALSE)
  /\ save' = [save EXCEPT !.was = pause.on]
  /\ UNCHANGED << irq, entered >>

(* hle_pb_park, for two timeouts.                                          *)
ParkDecoder ==
  /\ \/ AppAt("parking", "asking") /\ save' = [save EXCEPT !.decoder = TRUE]
     \/ AppAt("parking", "unparking") /\ UNCHANGED save
  /\ UNCHANGED << pause, irq, entered, ring >>

AskForState ==
  /\ AppAt("asking", "pausing")
  /\ save' = [save EXCEPT !.pending = TRUE, !.taking = FALSE, !.done = FALSE]
  /\ UNCHANGED << pause, irq, entered, ring >>

PauseForSave ==
  /\ AppAt("pausing", "kicking") /\ SetPaused(TRUE)
  /\ UNCHANGED << irq, entered, save >>

(* nc_pause_kick                                                           *)
Kick ==
  /\ AppAt("kicking", "awaits")
  /\ pause' = [pause EXCEPT !.cpuWork = TRUE]
  /\ UNCHANGED << irq, entered, ring, save >>

(* A fault: given up although the request has been taken.                  *)
GivesUpOnTime == TRUE

(* The answer, or the 15 s are over and the request has not been taken.    *)
GivesUp == ~save.taking

Await ==
  /\ save.done \/ GivesUp
  /\ AppAt("awaits", "unparking")
  /\ save' = [save EXCEPT !.pending = FALSE]
  /\ UNCHANGED << pause, irq, entered, ring >>

SaveEnds ==
  /\ AppAt("unparking", "menu") /\ SetPaused(save.was)
  /\ save' = [save EXCEPT !.decoder = FALSE, !.was = FALSE]
  /\ UNCHANGED << irq, entered >>

Saving == {"parking", "asking", "pausing", "kicking", "awaits", "unparking"}
SaveStep == ParkDecoder \/ AskForState \/ PauseForSave \/ Kick \/ Await \/ SaveEnds
PostStep(p) == RequestInterrupt(p) \/ LookForIdle(p) \/ WakeIdle(p)

-----------------------------------------------------------------------------
(***************************************************************************)
(* The clock thread asks the guest in, here at any time (Clock has when).  *)
(***************************************************************************)
ClockAsks ==
  /\ ~irq.request
  /\ irq' = [irq EXCEPT !.request = TRUE]
  /\ UNCHANGED << pause, at, entered, ring, save >>

Actors ==
  \/ \E d \in Devices : DeviceStep(d)
  \/ \E p \in Posters : PostStep(p)
  \/ PostWork
  \/ EnterCall \/ CpuStep
  \/ OpenMenu \/ CloseMenu \/ SaveBegins \/ SaveStep

Next == Actors \/ ClockAsks

(* The CPU's thread and the app's go on; the guest need not call the       *)
(* kernel, and a person need not do anything.  The deadline of             *)
(* nc_pause_quiesce is absolute: being woken does not put it off.          *)
Fairness ==
  /\ WF_vars(CpuStep) /\ WF_vars(SaveStep \/ PostWork \/ PostStep(App))
  /\ SF_vars(QuiesceTimesOut)

Spec == Init /\ [][Next]_vars /\ Fairness

-----------------------------------------------------------------------------
DevicePlaces == {"looks", "works", "raises", "idles", "pause_locks", "pause_asleep"}
CpuPlaces == InPause \cup {"guest", "looks", "clears", "serves", "schedules", "idles",
                           "idle_locks", "idle_asleep", "pause_asleep"}

(* Every variable has its type, and the idle flag (irq.c) is set exactly   *)
(* in the idle wait.                                                       *)
TypeOK ==
  /\ pause \in [on : BOOLEAN, cpuWork : BOOLEAN, parked : [Devices -> BOOLEAN]]
  /\ irq \in [line : BOOLEAN, work : BOOLEAN, request : BOOLEAN, idling : BOOLEAN]
  /\ DOMAIN at = Threads
  /\ \A d \in Devices : at[d] \in DevicePlaces
  /\ at[Cpu] \in CpuPlaces /\ at[App] \in Saving \cup {"plays", "menu"}
  /\ entered \in {"call", "interrupt", "idle"}
  /\ ring \in [Posters -> {"done", "work", "request", "look", "wake"}]
  /\ save \in [pending : BOOLEAN, taking : BOOLEAN, done : BOOLEAN, was : BOOLEAN,
               decoder : BOOLEAN, early : BOOLEAN]
  /\ irq.idling <=> at[Cpu] \in {"idle_locks", "idle_asleep"}

DevicesStill(D) == \A d \in D : at[d] \notin {"works", "raises"}

(* While a state is written the decoder is parked.  If the request was     *)
(* taken in the pause made for it, the emulation is still paused, and no   *)
(* device thread is in the middle of its work, except those that act after *)
(* the idle wait before they look (capture, save.c).                       *)
StillWhileWriting ==
  at[Cpu] = "writes" =>
    /\ save.decoder
    /\ ~save.early => pause.on /\ DevicesStill(Devices \ LateLookers)

(* While a state is written nothing that it holds changes: no device       *)
(* thread is in the middle of its work (apu.c:596-598, save.c:246-248).    *)
(* The code does not keep that (README, Divergences 5 and 16).             *)
NothingMovesWhileWriting == at[Cpu] = "writes" => DevicesStill(Devices)

(* A state is only written for a request the app has not given up, and     *)
(* once for each: the app is about to pause for it or waits for it, and    *)
(* waits on however long it takes (nc_state_cpu_work, nc_state_save).      *)
AnswersTheAsker ==
  /\ at[Cpu] \in {"quiesces", "quiesce_asleep", "drains", "writes", "answers"} =>
       at[App] \in {"pausing", "kicking", "awaits"} /\ save.taking /\ ~save.done
  /\ at[App] = "parking" => ~save.pending

(* Nobody sleeps on what has happened: a line or work finds the idle CPU   *)
(* awake or somebody on the way to wake it, a resume nobody in the pause,  *)
(* a kick the CPU awake, and the last device to park the CPU that counts.  *)
NobodySleepsThrough ==
  /\ at[Cpu] = "idle_asleep" /\ Roused =>
       \E p \in Posters : ring[p] \in {"request", "look", "wake"}
  /\ \A a \in Devices \cup {Cpu} : at[a] = "pause_asleep" => Stays(a)
  /\ at[Cpu] = "quiesce_asleep" => ~AllParked

(* A line or work that comes while the guest runs its own code brings it   *)
(* into the kernel: it is asked in, or somebody is about to ask.           *)
RequestReaches ==
  at[Cpu] = "guest" /\ Roused =>
    irq.request \/ \E p \in Posters : ring[p] = "request"

(* A save comes to its end, taken or given up, whatever the devices do.    *)
SaveCompletes == at[App] \in Saving ~> at[App] = "menu"
=============================================================================
