# hakuX in TLA+

hakuX runs original Xbox titles on an Android or Linux host: the title's x86
code is translated by FEX on one host thread (the *guest CPU*), the Xbox kernel
is emulated by C code which that thread enters (`src/native/kernel`), devices
are emulated by C code with host threads of their own (`src/native/dev`), and
the GPU's push buffer is decoded and drawn by further threads
(`src/hw/xbox/hle`).  This directory models the part of it that is a protocol
between actors: the kernel's locks, scheduler, waits, clock, APCs and disc
reads; the pause in which states are saved and the files they are saved to; and
the GPU's command ring, render thread and timeline, and what keeps a render
target's memory and its image the same to whoever looks.

Contents: 1 inventory, 2 modules and plan, 3 how the modules correspond to the
code, 4 runs, 5 known divergences, 6 proofs, 7 what is not modelled.

## 1 Inventory

How the parts interact: the guest leaves its code at a *system op*
(`kernel.c:sysop`): an `int 0x3F` for a kernel call, a privileged instruction,
or `NC_SYSOP_INTERRUPT` at the start of a block when another thread asked for
it (`nc_cpu_request_interrupt`).  All of the kernel runs on the guest CPU's
host thread, an entry at a time, so a kernel call is atomic with respect to
other guest threads; what is not atomic is guest code (the fast paths), and
what host threads do meanwhile (the clock thread, device threads that assert
lines, the disc's reader thread, the app that pauses or saves).  At its end an
entry delivers asserted lines and may run `nc_ps_schedule`, which replaces the
frame by another guest thread's.  The GPU's side is a pipeline of threads: the
decoder takes the push buffer apart and puts commands on a ring, the render
thread records and submits them, the GPU counts what it has finished on a
timeline, and everyone who needs a result (guest, decoder, render thread)
waits for a value of that timeline.

| component | state | operations | what is hard | what makes it correct | modelled in |
|---|---|---|---|---|---|
| Critical sections (`ke.c`, `kernel.c:install_fast_paths`) | `LockCount`, `RecursionCount`, `OwningThread`, a synchronization event, all in guest memory | enter, leave, try-enter: in guest code block by block, or as kernel calls | guest code can be switched out between blocks; a contended step is taken back; the event hands the section over | mutual exclusion; fields exact; the event never left signaled; waiters get in (the first until a contended enter lapses, divergence 1) | `CriticalSection` |
| Read/write locks (`ke.c`) | four counts, an event, a semaphore | acquire exclusive/shared, release | the release moves waiters' counts for them | readers or one writer; readers behind waiting writers; no waiter on a free lock | `ReadWriteLock` |
| Scheduler (`ps.c`), interrupts (`intr.c`), DPCs (`timer.c`), IRQL (`ke.c`, `kernel.c`) | thread table, current, `resched`, `force_switch`, `resume_first`, DPC queue, ISR in progress, one IRQL byte, lines | `nc_ps_schedule`, `nc_intr_dispatch/return`, `nc_dpc_queue/dispatch/return`, raise/lower IRQL, slice end | ISRs over raised code; rescheduling remembered in one flag; guest-code IRQL | the IRQL is that of the code that runs; raised code goes on first; DPCs run; turns | `Scheduler` |
| Dispatcher objects and waits (`ke.c`) | signal states, mutant owners, each thread's wait, the walk's results | wait for any/all with timeout, set/reset/pulse, release, signal-and-wait, thread end, timers | waits for all; mutants; timers signaled without a walk; deadlines | no missed signal; takes exactly what it reports; mutants are locks | `Dispatcher` |
| Clock (`kernel.c`, `timer.c`, `ke.c`) | `timer_due_ns`, `wait_due_ns`, `slice_due_ns`; `g_clock_due`; published time | arm, clock thread's loop, `clock_tick`, timer poll | two host threads; the time an entry goes by lags | what is due is handled on time | `Clock` |
| APCs (`apc.c`) | per-thread queue, chains, nesting depth | queue, deliver, return | alertable waits inside an APC; a chain at its limit; a wait that ends as an APC comes | each delivered once, in order; no context overwritten | `Apc`, `DiscReads` |
| Disc reads (`io.c`) | reader queue, completions, the status blocks | submit, reader thread, poll, drain | completion against the wait that follows the call; queue full; a thread that ended meanwhile | each read completes once, after its wait began, and calls back the thread that asked | `DiscReads` |
| Lines, idle wait, pause (`core/irq.c`) | line bits, idle flag, pause slots | set line, idle wait, register/park/quiesce | flag and fence pairs; threads that come and go while counted | no lost wake; quiesced means parked | `Pause` |
| Savestates: the request (`kernel/kstate.c`, `state/save.c`) | a request, its answer | ask, take, write, answer | decoder parked, emulation paused, a save given up | a state answers who waits for it | `Pause` |
| Savestates: the cache drive (`state/cache.c`, `state/state.c`) | files, the blob store, the index, the states | save, load, delete, collect | any step may fail, the process may die between two | a state names whole blobs; the index tells the truth | `StateCache` |
| HLE GPU: command ring (`hle/front`) | head, tail, reserved end, a cached tail | reserve, publish, peek, consume | one producer, one consumer, indices that go round | nothing overwritten or read early | `CommandRing` |
| HLE GPU: render thread (`hle/vk/back.c`, `surf.c`) | command buffers in turn, merged boundaries, parked destroys and reports | record, submit, hurry, reap, sleep | boundaries that wait for more; a waiter whose value is not submitted; a lost device | nothing in use reused; waits end | `RenderThread` |
| HLE GPU: timeline (`hle/vk/timeline.c`) | submitted, completed, landings, the watcher | submit, wait, publish, land, watch | several threads publish, older values after newer | landings once and before anyone sees the value; completion monotonic; waits end | `Timeline` |
| HLE GPU: write tracking (`hle/mem/barrier.c`, `native/hle/dirty.c`) and targets (`pb/pbdraw.c`, `coh_*`) | page protections, write counts, guards, values a store waits for; per target what was written, landed, counted | fault, first store, guard, landing, serve, upload | four parties at once; counts read before or after a landing; pages given back while a draw arms them again | whoever reads a target finds all that was written before | `Targets` |
| HLE GPU: upload arena (`hle/front/arena.c`, `pb/pbres.c`) | space by completed value | allocate, reclaim | reclaimed too early | nothing in use reused | - |
| HLE GPU: push buffer, drawing (`hle/pb`, `hle/vk`) | registers, Vulkan objects | methods, draws | data, no protocol | - | - |
| Objects (`ob.c`) | handles, references | create, reference, close | close while referenced | freed exactly at zero | - |
| Pool, memory manager (`pool.c`, `mm.c`, `paging.c`) | free lists, mappings | allocate, free | coalescing, limits | blocks disjoint | - |
| Exceptions (`seh.c`), runtime and crypto exports (`ex.c`, `rtl.c`, `xc.c`, ...) | mostly none | calls | sequential | - | - |
| Guest memory, MMIO, loaders, mods (`core/*.c`) | mappings, patches | access, load | host faults | - | - |
| CPU glue (`cpu/*`) | translator, interrupt request | run, request | external translator | request seen at a block start | - |
| Devices (`dev/*`) | registers, frame/transfer lists | register access, device threads | lines from other threads | - | as lines and threads: `Scheduler`, `Pause` |
| Network (`net/*`) | frame queues | send, poll | host sockets | - | - |
| App, tools, tests | user interface | - | - | - | - |

The hazards are listed one by one, each at its line, in `PROJECT.json`
("hazards"), with the property that would catch it or the reason there is none.

## 2 Modules and plan

| module | what it is |
|---|---|
| `Slots` | the thread slots and the walk over them in slot order |
| `Mutex` | abstract: a recursive lock with hand-over |
| `CriticalSection` | `RTL_CRITICAL_SECTION`; refines `Mutex` |
| `SharedLock` | abstract: readers together or one writer, with hand-over |
| `ReadWriteLock` | `ERWLOCK`; refines `SharedLock` |
| `Scheduler` | who runs: threads, ISRs, DPCs, IRQL |
| `Dispatcher` | objects and waits; each mutant refines `Mutex` |
| `Clock` | due times and the clock thread |
| `Pause` | interrupt requests, the idle wait, the pause, a save while paused |
| `Apc` | the queues and chains of APCs, their delivery and return |
| `OverlappedReads` | abstract: what a title is promised of a read and its callback |
| `DiscReads` | the reader thread, completions, the waits for them, on top of `Apc`; refines `OverlappedReads` |
| `GpuWork` | abstract: the GPU's promise of values, landings and waits |
| `Timeline` | `timeline.c`; refines `GpuWork` |
| `RenderThread` | decoder, ring, render thread and GPU, around `GpuWork`'s and `CommandQueue`'s promises |
| `CommandQueue` | abstract: a queue of commands, published in batches |
| `CommandRing` | `ring.c`, unit by unit; refines `CommandQueue` |
| `SavedDrives` | abstract: states are snapshots of the drive |
| `StateCache` | `cache.c`, write by write; refines `SavedDrives` |
| `Targets` | a render target's memory and image: guard, faults, counted stores, landings, uploads |
| `CriticalSectionProofs`, `WaitingProofs` (`ReadWriteLock`, `Dispatcher`), `SchedulerProofs`, `ClockProofs`, `SavestateProofs` (`StateCache`, `Pause`), `DiscReadsProofs`, `QueueProofs` (`CommandRing`, `Timeline`), `RenderThreadProofs` | theorems |
| `MCLocks` (`CriticalSection`, `ReadWriteLock`), `MCScheduler`, `MCDispatcher`, `MCClock`, `MCDiscReads`, `MCTimeline`, `MCCommandRing`, `MCStateCache` | instances for TLC (the other modules are run as they are) |

Every module about guest threads extends `Slots`.  `Mutex` is used twice, for
critical sections and for mutants, which is why it has a hand-over.
`Scheduler` leaves out what a wait is for, `Dispatcher` leaves out who runs,
`Clock` leaves out both and keeps what is due, and `DiscReads` has the waits
that reads and APCs end and any order of running: each takes of its neighbours
what it can be told by them (a wait ends at any time, a pass comes at once or
later, the guest enters the kernel or does not).  The GPU's modules are
composed by their abstract specifications: `RenderThread` uses a queue that
does what `CommandQueue` promises and a timeline that does what `GpuWork`
promises, `CommandRing` and `Timeline` are shown to keep those promises.  `Targets`
has commands that are run in order and values that complete in order, and of the
timeline the steps of a landing, which is where the stores meet it.

What the plan has left, in order of importance:

1. The rest of write tracking: pages that several targets share, copies queued
   into a target, the frame on screen, and the steps by which a page's protection
   changes (section 5 lists the places that deserve it).
2. `UploadArena`: space reclaimed by completed values, composed with
   `GpuWork`.
3. Proofs about `Targets`.
4. The bounded timer and DPC tables of `timer.c`, refining the unbounded sets
   of `Clock` and `Scheduler` while they have room.
5. `Objects`, `Pool`.

## 3 How the modules correspond to the code

`PROJECT.json` ("map") names the lines of every definition that stands for
code; the abstract modules stand for promises and have none.  Operators whose
comment begins "A fault:" are not part of the model: each is a variant of the
definition that follows it with a plausible mistake in it, kept to show that
the property it is listed with ("mutants") can fail.

**CriticalSection.**  The variables are the section's fields (`lockCount`,
`recursion`, `owner`, `event`), where each thread is (`pc`, a block of the
trampolines in `install_fast_paths`, or `"waiting"`), who has the CPU
(`current`), and whether the fast paths are installed (`NC_NO_FAST`).  One
action per basic block of the trampolines, one per kernel call; a kernel call,
run on the one host thread, is one action, with the wait's immediate acquire or
the walk that hands the event to the first waiting slot.  `Switch` gives the CPU to
another thread, after a wait or at the start of any block.  Two variables are
history: `depth`, how often each thread is inside, and `lapsed`, that a contended
enter has taken back its step and then found the section free (divergence 1).

**ReadWriteLock.**  Kernel calls only, so each is an action.  `state` says where
a thread is; a release that signals wakes its threads in the same call, as
`signaled` does.  A thread acquires once at a time (no recursion).

**Scheduler.**  `k` is a record of what `NcKernel`, `intr.c` and `timer.c` keep;
each C function is an operator on it, and those that can have several outcomes
(which line of several readied threads, which timers are due) return sets of
records.  An entry of the kernel is an action that ends in `SysOpEnd` or
`Schedule`.  `level` is a history variable: the IRQL each context's code last
set.  `lowering` are the threads in the guest-code `KfLowerIrql` between its look at
the DPC flag and `resched` and its write of the IRQL (`LowerLooks`, `LowerWrites`):
an interrupt may come in between, and `overlooked`, history, has the DPCs that were
queued then.  `turn` is the order of `ready_seq`.  In one pass of the scheduler at most
one DPC is queued by a timer and at most one wait ends by itself; an entry of
the clock likewise (further ones come with further passes, which may follow at once).

**Dispatcher.**  `d` holds signal states, mutant owners, waits and a history of
who holds each mutant; `status` what the last call's waits reported.  The walk
(`nc_ke_check_waits`) is a recursive function of the slots in order, each seeing
what those before it took.  What a wait acquires is a set: the objects of a wait
are distinct, so the order in which `take` acquires them tells nothing apart.  Deadlines are a choice: any thread with a timeout may be found
past it at any walk.  A call made at `DISPATCH_LEVEL` or above leaves the walk
to a later pass (`ReturnAtAnyIrql`).

**Clock.**  Times are relative, in clock periods.  The clock thread's loop is
three actions (re-armed, woke and published, asked), the guest's entry three
(enter, look at the clock, leave with at most one thing done).  Time
passes only in guest code; the kernel takes none of it, the clock thread may be
`Lag` late.

**Pause.**  The actors are host threads; a stretch of code under one mutex, or
one access of an atomic, is one action, so the idle flag and the lines are set
and read in the order of the code (both sides have a full fence, which makes
that order the one the other side sees).  `ring` is how far a poster
(`nc_irq_set`, `nc_irq_post_work`) is: set, requested, looked at the idle flag,
woke.  `entered` keeps why the CPU came to `nc_kernel_pause_point`.  A device
thread looks, works, may raise the line, may idle (`nc_pause_idle`), and parks;
`LateLookers` are those that work after the idle wait without another look, as the
APU's and the USB controller's do.  The ISR that lowers the line is part of the entry
that delivers it.  What is between two entries is one place, `"guest"`.  The app's
menu pauses and resumes; a save is started from the menu, as in `SaveStates.kt`,
whose dialog keeps it open.  The clock thread asks at any time.  Every time-out may
come at any moment (the 500 ms of the count of parked devices, the 15 s of the app,
the idle wait's deadline), and a save may follow one that was given up at once:
`early`, history, says that the CPU took the request that is being answered before
the emulation was paused for it (divergence 16).

**Apc, DiscReads.**  `Apc` has what belongs to one thread: its queue, its
chains (an APC's kernel routine, then its normal routine, each a stage that
returns through `NcApcReturn`), the nesting limit.  `DiscReads` has two host
threads.  The guest's CPU is the record `k`: its phase (`guest` in the title's
code; `exit` and `leave`, the way out of a kernel call; `pass` and `pick`, the
scheduler's loop), the live context (`frame`), the thread slots with their saved
contexts, events, status blocks, the `Inserted` byte of each KAPC, and the
reads being completed.  A context is a place to go on from and what the call
will return; one the code would lose is `Nowhere`.  A kernel call is one
action; reads complete one at a time on the way out (`nc_io_poll`) or in the
scheduler.  The reader thread is `reader`: its queue, the done list, `busy`, and
whether it has yet to post its work.  Which ready thread is picked is any; a
slot is reused by a later thread, with another id, as `nc_ps_schedule` frees it.

**Timeline.**  `tl` and `land` are `g_tl` and `g_land`; `gpu` is the device, which
runs submissions in order, writes their landing copies, moves the counter, and
may die at any time.  Every thread that publishes does so in two steps, as
`timeline.c` does: the landings under the lock, then `completed`; several may be
between the two.  A landing is asked for in each of the three ways of the code: at the
next value, before it is made (`Ask`); at a value just made whose command is
published (`MakeOwing`, then `AskOwed`, as in `coh_land`: `owed` is what is still to
be queued); at any value made, completed ones among them (`AskCopy`,
`hle_tl_land_copy`).  `LandAdd` makes it at once if the landings of its value are in.
`land.q` is a set: those that are due land in one step, under the lock, so their
order in the array is not seen.  The queue has room for every landing asked for; the
code's has `LAND_MAX` of 256, and one past them is reported and dropped.  The
render thread records the copies of readbacks between submissions (`Record`) and
marks the landing if it is queued by then.  The submission and `hle_tl_signaled` after it are one step (the
render thread alone submits).  The watcher resets its event, checks, sleeps,
looks, and tells the back end.  A landing brings `"landed"` if the GPU has
written it or it is the host's own to make (a note, a copy), `"dropped"` if no copy
was marked; a lost device brings `"garbage"` for a copy that was recorded and never
made.

**RenderThread.**  Four actors: the decoder, the guest thread (as it stores to
memory the GPU uses and waits), the render thread, the GPU.  The ring is
`CommandQueue`'s promise (it refuses only when it holds `CAPACITY` commands), the
GPU and its timeline `GpuWork`'s, in one step: what is run is completed and the
back end told.  There is one item that draws use while it lives, a surface or a
visibility test.  The render thread's loop is the code's, between commands and
as the ring dries: reset, drain, reap, flush, announce, look again, sleep.

**CommandRing.**  `buf` is the buffer in 8-byte units, each with the record it was
written for; `head`, `tail`, `wpos` and the producer's `tail_seen` are positions
modulo `POSITIONS` (2^32 bytes in the code).  `Begin`, `Retry`, `Write` and
`Publish` are the producer's (`hle_fe_begin_raw`, `hle_ring_reserve`,
`hle_ring_publish`), `Consumer` is peek and consume; each sees the other's index
as of its own last read.

**StateCache.**  One action per file stored, removed or written back, per state
read by the collection, per blob removed, and for the two renames (the index,
the state); `Dies` ends the process at any of them.  Blobs and states appear
under their names whole, as both are written aside and renamed.  What fails fails as
in the code: a write or a read ends the save or the load; a folder or a file that
cannot be listed is passed over (`Walked`), a file that cannot be removed stays
(`LeaveFile`), a change time that cannot be read is noted as 0 (`RestoreFile`), and
the save or the load goes on.  `missed` has the files
the host hid or kept.  Contents are
their own hashes and all of one size, so that the index has the change time
alone to go by; times that the title sets go back and forth (`Times`).  The
index on disk and the one in memory (`g_idx`) are separate.

**Targets.**  Four parties: the title's thread (it pushes draws, clears and
semaphores, loads and stores), the decoder, the GPU, and whichever thread makes the
landings.  `page` is the protection of the target's pages, their write count
(`g_wseq`) and the value in `g_pu`; `guard` is the entry of `g_na`; `o` the target's
`PbObj`; `lands` the landings, `g_coh.l` and the timeline's queue in one, by value;
`fill` is `g_fill`.  A `PbObj`'s `written` counts where the code takes the decoder's
sequence number, of which only the order matters.  `coh_land`, `coh_mem_newer`, a
fault and a first store are cut at every read of what another thread changes: the
completed value before the landings taken in, the count before the value waited
for, a landing's texels, count, snapshot and protection one after the other.  What
memory and image hold are sets of draws and stores; each reader has with it what it
is due (`due`), fixed when it begins to read: all that was made, but for what the
memory lacked where the pages were given back older than the image, as
`hle_mem_stale_access_rw` and `coh_fill` say they may be (`older`).  `overtaken`,
history, has the stores whose count a landing took in before they were made
(divergence 14).

## 4 Runs

| run | instance | what it shows |
|---|---|---|
| `locks` | a critical section: 3 threads, depth 2, interrupts at every block, fast paths on or off; an ERWLOCK: 4 threads; each behaviour uses one of the two | until a contended enter lapses: fields exact, refinement of `Mutex` (mutual exclusion, hand-over); waiters progress. Counts exact, refinement of `SharedLock`, readers behind waiting writers, waiters get in |
| `critical_section_lock` | 3 threads in a critical section, depth 1, interrupts at every block | *violated*: mutual exclusion (divergence 1) |
| `scheduler` | 2 threads of one priority or two, line 1, 1 DPC, fast paths on or off | the IRQL is that of the code that runs, no DPC is left behind but one overlooked by a lowering, raised code loses the CPU to ISRs only and gets it back first; DPCs run, the line is served, threads take turns |
| `dispatcher` | 3 threads; an event, a semaphore, a mutant, a timer; six kinds of wait | no missed signal, a signal beats a deadline, a wait takes what it reports, mutants refine `Mutex` |
| `clock` | a one-shot and a periodic timer (period 2), a wait, slices of 3, delays up to 4, `Lag` 1 | everything is handled less than 4 periods after it was due; the cached wait time is exact |
| `pause` | a device that acts after its idle wait before it looks, one that looks and raises a line, the clock thread, the app | no wake, kick or resume is slept through; while a state is written the decoder is parked and, unless its request was taken early, devices that look stand still; a state answers who waits for it, saves end |
| `disc_reads` | 2 slots, 3 threads in turn; an overlapped read with an APC, a synchronous one, a KAPC; nesting limit 1, a queue of 2 | no context is written that is then written over; APCs are delivered once, in order, and chains resume; refinement of `OverlappedReads`; reads end |
| `timeline` | 2 waiters and the watcher, 2 values, 1 landing | a landing is made once, with what the GPU copied if it was asked for in time, and if it is queued before anyone sees its value completed; completion never goes back; refinement of `GpuWork`; waits end |
| `render_thread` | a ring of 2 commands, 1 command buffer, boundaries merged by 2, 2 values | nothing in use is recorded again or destroyed; waits end, the device lost or not |
| `command_ring` | 6 units, 12 positions, commands of 1, 2 and 3 units | what is reserved never runs over what is not consumed; refinement of `CommandQueue`; room comes |
| `state_cache` | 2 files, 2 contents, 2 slots, 3 touches a file | every state can be loaded, the index tells the truth, states are snapshots but for files the host hid or kept (refinement of `SavedDrives`) |
| `targets` | 3 draws or clears, a store, any loads, swizzled or linear, a guest that reads no more after 1 landing not taken | a load finds all draws decoded and stores made before it, a draw all it goes over, every store but an overtaken one; memory older than the image is closed to the guest |

Why the bounds are enough.  *Critical sections*: two waiters next to an owner are
needed for the walk's choice and for a leave with waiters left; depth 2 for
recursion.
*Read/write locks*: four threads let two readers and two writers wait
together.  *Scheduler*: two threads, equal so that they take turns or not so that
one takes the CPU from the other; one DPC that is queued again while its routine
runs; a line that rises again as soon as it has been lowered. One line only:
with two, one that keeps rising after each ISR would keep the other from
delivery for good, which the hardware would allow too; which of two lines is the
more urgent (`IntrDispatch`) is therefore not met.  *Dispatcher*: one object of
each kind a wait treats differently, lists of at most two, threads past a
deadline in any combination; mutant depth 2; a table of 4 slots (of 128), one of
them free; a title does not name an object twice in a wait.  *Clock*: `MaxDelay` 4 exceeds the slack (2) and lets a time be
armed before, at and after every other; lateness is counted up to `MaxLate` 4,
and a lateness of 3 is reached.  *Pause*: one device for each of the two ways to
stand still, as devices do not look at each other; nothing is counted, so there
is no bound on pauses, saves or interrupts.  *DiscReads*: two slots and three
thread ids let a slot be reused while a read of its former thread is under way;
the nesting limit of 1 is reached by one KAPC or read over another. With two
requests the queue of two is never full when a read comes; the full queue's way,
the read done in the call, is `ReadInPlace`, which may be taken at any time.
*Timeline*: two values are the older and the newer of every hazard here; three
threads publish at once.  One landing is asked for, in every way there is; that
several keep out of each other's way is proved (`TimelineKept`), for any number.
*RenderThread*: two values and a merge of two let a
boundary wait and a swap go past it; a ring of two is full with a state and its
draw; one command buffer makes every recording wait for the one before.
*CommandRing*: commands of one to three units in six leave every remainder at
the buffer's end, and positions that go round after two buffers meet every
alignment; the largest command is half the buffer, as the code asserts.
*StateCache*: two of each, so that a content is shared by files and by states,
and a state is written over while another keeps its blobs.  *Targets*: three
draws let a guard be armed, landed and armed again while a landing for the guest
is under way, and a draw come after it; two are too few for the mistakes that
the run's properties are to find. Loads are not bounded.

Deadlock is checked in every run but `disc_reads` and `timeline`, which may stop: in the first, a title whose last thread has ended; in the second, when all
values have been made and are completed.

Fairness, and why the code justifies it.  *CriticalSection*: the scheduler
gives every ready thread a turn (slices, `TurnComes`), a thread in a trampoline
goes on when it has the CPU: whoever is in a fast path comes out of it again, and a
title leaves in the end the sections it has entered.  No
thread is promised the section before another: `WaitersProgress` says that of
those that wait one gets in, or the section has lapsed.  *ReadWriteLock*: only that a holder releases.
*Scheduler*: a deliverable line stops the guest at its next block; the clock
thread ends slices; ISRs quiet their device and return, DPC routines return,
raised code lowers the IRQL again and ends what it began, `cli` is followed by `sti`.  Each is strong
fairness of one action with its condition written out
(`[]<>Cond => []<><<A>>_vars`), which TLC evaluates much faster than `ENABLED`.
The last line says that interrupts and new DPCs pause often enough for a DPC
routine to return to a quiet machine; without that a storm starves all threads,
on the console too.  *Pause*: `SaveCompletes` needs only that the threads of the
CPU and the app go on, not that devices do or that the guest calls the kernel; the
deadline of `nc_pause_quiesce` is one point in time, which being woken again and again
does not put off, hence strong.
*DiscReads*: the reader thread and the kernel's code go on, and a guest that is
asked to leave its code does; nothing is asked of the title.  *Timeline*: threads
are scheduled, the GPU runs what it is given unless it is lost, and what is
waited for is made, recorded and submitted in the end, which is
`RenderThread`'s business to show.  *RenderThread*: the same of its threads; and
time passes, so that a boundary looked at again and again is found old at last,
and the reap that comes with every thousandth command comes: these two are
strong, as the render thread is in and out of its loop.  *CommandRing*: both
threads go on, and the producer publishes what it has made.

## 5 Known divergences

Places where the code does not do what a comment of it says.  Where the model has the
steps that break it, the comment's claim is a definition of its module, named below,
and TLC finds it violated when it is put in the place of the properties of the module's
run; for the first of them a run is kept.  The passing run states what holds all the
same, with the exception written into the property.  The others were met while
modelling.

1. **A contended enter that is interrupted (`kernel.c:143`).**  Between `lock
   inc` and the `lock dec` that undoes it, two block starts lie in guest code.
   If the owner runs there, its leave sees `LockCount >= 0`, takes the kernel
   call and signals the event though nobody waits; the step is then undone; the
   event stays signaled, the next waiter passes it, and two threads are inside.
   The comment (`kernel.c:124-127`) takes the undoing to leave no trace.  It
   depends on FEX looking for an interrupt at those inner blocks, as
   `cpu.h:139-140` says ("at the start of its next block"); FEX is not in this
   tree, and a translator that joins the blocks would hide it.  Violated:
   `MutualExclusion`, run `critical_section_lock`.  An undone step that finds the section free (`lapsed`) is
   the only way to break it: until then everything holds, and is proved.
2. **A switch forgotten (`ps.c:350`).**  `kernel.c:1712-1714` says a switch
   held off by a raised IRQL "happens when the IRQL drops".  `resched` is
   the only memory of it; an ISR over the raised code goes through
   `nc_ps_schedule`, which clears it, and the guest-code `KfLowerIrql` then
   sees no reason to enter the kernel.  The more important thread waits until
   something else reschedules (at the latest the slice).  `Scheduler` has these
   steps; no property of it forbids them.
3. **An ISR over `cli` (`ps.c:406`).**  `intr.c:8-9` says a line waits while the
   running code has interrupts disabled, and `sysop` honours it; `nc_ps_schedule`
   delivers with `true` whatever the flag of the thread it was entered from.
   `Scheduler` has these steps too.
4. **A pause that is cleared away (`kernel.c:1666`).**  An entry for an interrupt
   looks at the pause first and clears the request afterwards.  `irq.h:57-58`
   says the CPU stops at its next kernel entry, and `nc_pause_set` posts work to
   bring it there; a pause set between the look and the clearing loses its
   request, the work is taken at the end of the same entry, and while paused
   neither the clock thread nor the devices ask again.  A title that spins in its
   own code (on memory a vblank would change, say) never comes in: the pause does
   not take hold, a save fails with "the game did not stop".  `SaveCompletes`
   says that the save ends, not that it succeeds.
5. **A parked device that works (`apu.c:642`, `ohci.c:530`).**  A device thread
   counts as parked in its idle wait.  The APU's, when it ends with frames
   stopped, notifies VOICE_OFFs that are due before it looks at the pause, and
   the USB controller's runs a frame (`ohci.c:531-536`); both can change guest memory
   while a state is written, which the comment at `apu.c:596-598` means to exclude.
   Violated: `NothingMovesWhileWriting`, with one device, in `LateLookers`.  Devices that look first (`nvnet`, `vblank`, `ac97`,
   `ptimer`) do stand still: `StillWhileWriting`.
6. **A file kept with another time (`cache.c:16-18`).**  A load keeps a file that
   is untouched since it was indexed and whose indexed content is the state's,
   though the modification time the state lists may differ (`cache.c:677`).
   Contents are exact; a title that compares times (the comment at `io.c:1838`
   names one) would see the later one.  `StateCache` has one time value, so as to
   say this of contents only.
7. **Blobs without `fsync` (`cache.c:398`).**  They are renamed into place
   unsynced, the state that lists them is synced: a power cut may keep the
   second without the first.  `StateCache` models the death of the process, which
   loses nothing that was written.
8. **The raw head of a partition (`cache.c:738`)** is rewritten in place, from
   `O_TRUNC` on, when a state is loaded; a death in between leaves it short.  Not
   modelled.
9. **The change time's granularity** is assumed finer than two touches of a file
   around one save; `StateCache` counts touches.
10. **The deletion of the last state** removes the whole store
    (`SaveStateStore.kt`).  Nothing in the native code holds it off during a save;
    the app's dialog does, and `Delete`'s guard stands for that.
11. **The look for a blob that the index vouches for (`cache.c`, `blob_find`)**
    never fails while the store is intact: in the model dropping it changes
    nothing that a property sees.  It is there for stores damaged from outside.
12. **The space of an upload (`pbres.c:24-48`)** may be given out again by another
    rule than the one `arena.h:3-5` states.  Not modelled.
13. **The clock without its tick** (`NC_CLOCK_TICK=0`, `Tick = FALSE` in `Clock`)
    fails `OnTime`: the clock thread is armed for the earliest time only, forgets
    it when it wakes for one that is gone, and the entry it asks for arms nothing
    (`kernel.c:1012`).  With the tick, the default, the next period mends it,
    hence the few periods in `OnTime`.
14. **A store that a landing takes in (`barrier.c:1032`, `barrier.c:1058`).**  A first
    store is counted, then looks whether it has to wait, and is counted again only
    after waiting: "counted again: what landed meanwhile took the count in, and the
    store comes after it" (`barrier.c:1074-1075`).  A landing that is under way when
    the store is counted, and snapped and completed before the store looks, takes the
    count in too, and the store does not wait.  It is then made with its count
    already in the target's snapshot, so the next draw does not upload it, and the
    next landing writes the older texels over it.  For the store to come in at all
    the guard must be open while a landing is under way: a guest that was given
    its pages back though they were armed again, or a fill the decoder did not take
    in 250 ms.  Violated: `ReadersFindAll`; every other store is found by whoever reads
    (`ReadersFindCounted`).
15. **A DPC overlooked by a lowering (`kernel.c:190`).**  The guest-code `KfLowerIrql`
    looks at the DPC flag and `resched` in one block and writes the IRQL in a later
    one.  An interrupt in between, still at `DISPATCH_LEVEL`, queues a DPC that its
    return may not run; after the write nothing calls for it, though `ke.c:1185` has
    "DPCs queued while the IRQL was raised run now".  It runs at the next return of an
    ISR at the latest.  Violated:
    `DpcsRunOnLowering`.
16. **A save after one given up (`save.c:236`).**  The request is pending before the
    emulation is paused for it.  A save given up after 15 s can leave the CPU between
    `nc_pause_cpu_work` and `nc_state_cpu_work`, with the machine running again; the
    next save's request is then taken at once, and the state written while devices
    work, though `save.c:246-248` says that the game resumes only after it.  It takes
    the CPU to stand still between two neighbouring calls for as long as the app takes
    to ask again and park the decoder.  Violated:
    `NothingMovesWhileWriting`, with one device and no `LateLookers`.
17. **A landing queued behind its value (`pbdraw.c:4345`).**  `coh_land` publishes the
    readback's command and queues its landing afterwards.  The render thread may
    submit, the GPU run and another thread publish the value before that: whoever
    waits for the value goes on, and the landing is made later by the decoder, over
    what has been stored there since.  `timeline.c:36-37` has landings made before the
    value is seen.  Violated: `LandedBeforeSeen`, with one value.
18. **A copy that marks nothing (`pbdraw.c:4346`).**  In the same window the render
    thread records the copy, and `hle_tl_land_copied` finds no landing to mark; the
    landing queued then is dropped when its value comes, though the GPU made the copy.
    Violated: `CopiesLand`, with one value.  The window of both is a few instructions of the decoder
    against a submission, a run of the GPU or a recording.
19. **What a walk or an `unlink` cannot do (`cache.c:467`, `cache.c:652`).**  `walk` goes on
    when a folder cannot be opened or a file not looked at, and the state is written
    without them: not what "not a state missing files" (`cache.c:572`) promises.
    `restore_drive` does not ask whether a file was removed, or listed: it stays, and
    the load succeeds.  Violated: `StatesMissNothing`, `LoadsLeaveNothing`, with one
    file and one slot.

Of write tracking `Targets` models one target.  These places of the rest deserve a
look with the faults and page sizes of the host at hand:

- `set_dirty` against the decoder's test-and-clear (`dirty.c`, `vm.c:156-204`): the
  page is protected and `wp` set in two steps, the fault clears them in two; some
  orders leave a page protected that is not marked, or marked and unprotected.
- `rpt_access` computes `covered` under a lock it then gives up and uses it after
  (`barrier.c:874-881`): the decoder may guard the page in between.  `na_open_pages`
  looks with `rpt_page_shut` and then opens, while `report_pushed` shuts.
- `nc_vm_noaccess` sets the protection and then clears `g_na` to shut off, and sets
  `g_na` and then the protection to shut on (`vm.c:206-243`): one of each may leave
  a page without access and without the mark the fault handler goes by.
  `hle_host_mem_rearm` checks and protects in two loops.

## 6 Proofs

The theorems about a component are in a module that extends it: `WaitingProofs` has
those about what threads wait for (`ReadWriteLock` and `Dispatcher`, whose
specifications are named apart: `LockSpec` and `Spec`), `SavestateProofs` those about
savestates (`StateCache` and `Pause`: `CacheSpec` and `Spec`) and `QueueProofs` those
about what is queued for the GPU (`CommandRing` and `Timeline`: `Spec` and
`TimelineSpec`); the others have one component each.  The pattern is the same: an
inductive invariant `IInv`, one lemma per action (or group of actions) that it is
preserved, a theorem that it holds, and from it the properties; a refinement is proved step by step, each action a step of the
abstract module or a stutter.  All hold for every value of the constants that
meets the modules' assumptions, which TLC evaluates on every run.

`CriticalSectionProofs`: any number of threads, any `MaxDepth`, with or without
fast paths, interrupts at every block start.

| theorem | statement |
|---|---|
| `Invariance` | `Spec => []IInv` |
| `TypeCorrect` | `Spec => []TypeOK` |
| `MutualExclusionUntilLapse` | `Spec => [](~lapsed => MutualExclusion)` |
| `KernelCallsNeverLapse` | `Spec => [](lapsed => fastPaths)` |
| `FieldsStayExact` | `Spec => []FieldsExact` |
| `LockImplemented` | `Spec => LockUntilLapse`: until a lapse every step is a step of `Mutex` or a stutter |

None of them assumes anything of where interrupts are taken.  Mutual exclusion fails
once a contended enter has taken back its step and found the section free
(divergence 1), so what is proved is that nothing else breaks it, and that kernel
calls alone never come to it.  Mutual exclusion alone is not inductive: a thread that
leaves has depth 0 while the section is still its own for a block or two, and
`LockCount` counts threads in the middle of a step.  `Good`, which holds until a
lapse, therefore says who *has* the section (`Has`: inside, just in, or not quite
out), that one thread at most does, what the three fields are at each block in terms
of that thread's depth and the number of threads counted (`FieldsOf`, `Counted`: those
that wait and every contended enter between its step and its undoing, of which there
may be many at once), and when the event may be signaled with nobody waiting: the
section is free and one of these is still to come.

`WaitingProofs`, on `ReadWriteLock`: any number of threads.

| theorem | statement |
|---|---|
| `LockInvariant` | `LockSpec => []LockIInv` |
| `LockTypesOK` | `LockSpec => []LockTypeOK` |
| `CountsStayExact` | `LockSpec => []CountsExact` |
| `LockImplemented` | `LockSpec => ImplementsSharedLock` |
| `ReadersStayBehind` | `LockSpec => ReadersBehindWriters` |

The counts are not inductive by themselves: a release reads them to decide whom
to let in.  `LockIInv` adds that a writer inside is alone, that whoever waits has
somebody inside to wait for, and that readers wait only behind a writer.

`WaitingProofs`, on `Dispatcher`: any threads and size of the table, objects of any kinds, waits
for any of their objects or for all, and any choice of who is past its deadline.

| theorem | statement |
|---|---|
| `Invariant` | `Spec => []IInv` |
| `TypesOK` | `Spec => []TypeOK` |
| `NoWaitMissed` | `Spec => []NoMissedWait` |
| `TimeoutLoses` | `Spec => TimeoutLosesToSignal` |
| `TakesReported` | `Spec => TakesWhatItReports` |
| `LocksImplemented` | `Spec => MutantsAreLocks`: every step is a step of `Mutex` or a stutter |

One call may end the waits of many threads, each taking what a later one needs, so
no argument by actions alone will do.  `IInv` says what holds between calls (`Good`:
each mutant is free, or owned as often as its signal says, and who waits for a
mutant has room to acquire it; nobody misses what is there unless a pass is due), and
`Walked` what a walk does to a state: every thread waits on, or ends with exactly what
it reports, or ends with nothing because it could take nothing (`Goes`), and every
mutant stays or goes to one thread that waited for it (`Given`).  Walks compose
(`WalkedOn`), which needs that acquiring makes nothing more signaled to any other
thread (`AcquiredLess`): who was passed over early in the walk has nothing to take at
its end either.  The walk is a recursive function; `WalkServes` takes the least slot
at which its claim would fail, as nothing here can cite induction.  A call is
what it changes itself (`Based`), then walks and the caller's own wait (`Does`), so
that each action has one lemma (`KeSetEventDoes` and so on) with one conclusion,
`Outcome`, and the properties follow from that alone.

`SchedulerProofs`: any threads, priorities, lines and DPCs.

| theorem | statement |
|---|---|
| `IrqlStaysExact` | `Spec => []IrqlExact` |
| `InterruptedGoesOn` | `Spec => InterruptedResumes` |

There is one IRQL for the CPU and a level for each thing that can have it, and an
entry of the kernel changes them in stages: an ISR or a DPC ends, the running thread
is taken off, waits end and timers fire, a DPC starts, somebody is chosen.  `Core` is
what holds through all of them: below the ISRs one context at most is at
`DISPATCH_LEVEL` or above (`OneHigh`), the IRQL, or the one the ISR will restore, is
its, and while an ISR runs it is the one that was interrupted or the one to resume
first (`HeldFor`).  `Left` says that at `PASSIVE_LEVEL` only overlooked DPCs are queued,
or the scheduler is to run; a thread in the middle of a lowering is still at its
raised level.  `Between`, `Entered`, `AtEnd`, `InPass` and `ToChoose` add what
holds between entries and at each stage of one, and each function of the code has a
lemma that it leads from one to another; `Between` is the inductive invariant.  The
second theorem then needs one fact more of each stage: nobody loses a level but the
one that lowers it (`Keeps`).  That somebody precedes all others who are
ready (`BestExists`) is shown by the lowest place in the round.

`ClockProofs`: any timers, waits, delays, slice and lag.

| theorem | statement |
|---|---|
| `WaitDueStaysExact` | `Spec => []WaitDueExact` |
| `LatenessBounded` | with `Tick` and `MaxLate >= 2 * Lag + 2`: nothing is more than `2 * Lag + 1` late |
| `ToldOnTime` | with `Tick` and `MaxLate >= 2 * Lag + 2`: `Spec => []OnTime` |

The first hypothesis is the default of `NC_CLOCK_TICK`, without which divergence 13
happens; the second is about the model alone: lateness is counted up to `MaxLate`, so
it must count further than what is claimed.  What is due is kept on the CPU's thread,
the time it is told at on the clock thread, and the two meet under a lock only when
an earlier time is armed.  `Told` lists what can stand between something due and its
handling: the CPU is asked already, the clock thread is armed for it, or wakes
before it, the CPU is in an entry that has yet to look, or it looked by an old time
and is asked again (`Asked`).  Each step leaves one of them true.  From them follows
how late it can be: `Lag` when the CPU looks (`Seen`), as the clock thread then wakes,
and another `Lag` and one period to the look after that (`Late`).

`SavestateProofs`, on `Pause`: any set of devices, of which any assert the line and any wait in
`nc_pause_idle`.

| theorem | statement |
|---|---|
| `Invariance` | `Spec => []IInv` |
| `TypeCorrect` | `Spec => []TypeOK` |
| `NobodySleepsThroughHolds` | `Spec => []NobodySleepsThrough` |
| `RequestReachesHolds` | `Spec => []RequestReaches` |
| `AnswersTheAskerHolds` | `Spec => []AnswersTheAsker` |
| `StillWhileWritingHolds` | `Spec => []StillWhileWriting` |

None of them assumes that devices look before they act, or when the app asks again.
That no wake is lost is inductive with the types alone: the poster sets
what it posts before it looks at the idle flag, and a sleeper looks at what is
posted before it sleeps, both under the mutex.  That a state answers the save
that waits needs two facts more.  `AppInv` tells from the app's place whether the
emulation is paused and the decoder parked.  `RequestInv` follows the request:
it is pending only while the app has asked and has no answer, taken only
while the CPU is between taking and answering, and never both; and if it was not
taken early, the app has paused for it.  That the machine stands still
(`StillInv`) needs that a device counted as parked is where it does nothing, and
that this lasts from the count to the end of the write for every device that looks:
while the CPU answers a request taken in the pause, the app waits (`RequestInv`), so
the emulation stays paused (`AppInv`), so a device that wakes parks again.

`QueueProofs`, on `CommandRing`: any buffer, any number of positions it divides, any commands
of at most half the buffer.

| theorem | statement |
|---|---|
| `Invariant` | `Spec => []IInv` |
| `TypesOK` | `Spec => []TypeOK`: what the consumer is given is a command, never a pad |
| `PositionsStayInOrder` | `Spec => []PositionsInOrder` |
| `PromiseKept` | `Spec => KeepsPromise`: every step is a step of `CommandQueue` or a stutter |

The consumer moves by the length it reads in the buffer, so the positions stay in
order only if what lies between them are whole records.  `IInv` says so without
recursion: there is a set of starts between the tail and the end of what is
reserved (`Records`), each start holds a header whose length leads to the next
start or to the end, no record crosses the buffer's end, a pad ends there and is
followed by a command; and the record being written is the last (`BeingWritten`).

The queue of the abstract module is what the records up to `wpos` give, gathered
from the back (`Left`, a recursive function).  That such a function exists and
gives every start its command followed by what the next start gives is
`GatherExists`, shown by the least number at which it fails, as the library's
induction theorem cannot be instantiated; `GatherLonger` and `GatherShift` then
say what a publication adds at the end and that a consumed record takes only its
own command away.  A step that pads and one that passes a pad are stutters.  The
producer is refused only when there is something left to consume: what does not fit
an empty ring with its padding would be longer than half of it.

`SavestateProofs`, on `StateCache`: any files, contents, slots, times and number of touches.

| theorem | statement |
|---|---|
| `CacheInvariant` | `CacheSpec => []CacheIInv` |
| `CacheTypesOK` | `CacheSpec => []CacheTypeOK` |
| `StatesStayLoadable` | `CacheSpec => []StatesLoadable` |
| `IndexStaysTruthful` | `CacheSpec => []IndexTruthful` |
| `StatesAreSnapshots` | `CacheSpec => KeepsPromise`: every step is a step of `SavedDrives` or a stutter |

That states stay loadable needs what the process is at: what a save has listed is
in the store (`ListStored`), and what the collection has read covers the states it
need not read again (`RefsRead`).  That the index tells the truth needs that
neither index, on disk or in memory, is ahead of a file's change time
(`NotAhead`): else a touch could bring a file to a time an entry already names.
What a walk passed over or could not remove is in `missed` from the start of a save or
a load to its end, which is the exception that `SavedDrives` makes.
For the refinement, `Exact` says how far a save's list agrees with the drive and a
load's drive with its list.

`QueueProofs`, on `Timeline`: any numbers of submissions, landings and threads that publish or
wait.

| theorem | statement |
|---|---|
| `TimelineInvariant` | `TimelineSpec => []TimelineIInv` |
| `TypesHold` | `TimelineSpec => []TimelineTypeOK` |
| `TimelineKept` | `TimelineSpec => TimelineKeepsPromise`: every step is a step of `GpuWork` or a stutter |

What a waiter relies on spans four places: the copy the GPU makes, the counter it
moves, the landings and `completed`, which different threads move.  `TimelineIInv` links
them in that order.  Submissions are queued by rising values (`QueueInOrder`); the
copies of the readbacks published with a value, queued as landings or still owed, are
made or recorded no later than the submission of that value (`CopiesInTime`), and each
is known to its landing if that was asked for before its value was made
(`CopiesKnown`); each thread that publishes has a value the counter has reached and,
by the time it moves `completed`, has landed (`Publishing`).  A lost device moves
everything at once and is the one way a value passes the counter.  That nothing
else can happen to a landing is `Queued`: the queue holds what is asked for and has not
landed, each once; one asked for at a value whose landings are in never enters it.

`RenderThreadProofs`: any values, frames, boundaries merged and room in the ring.

| theorem | statement |
|---|---|
| `Invariant` | `Spec => []IInv` |
| `InUseStaysKept` | `Spec => []InUseKept` |

A destroy waits for a value taken by the decoder, while the submissions that use
the surface are made later by the render thread: one value must be shown to lie
past the others whatever boundaries have been merged meanwhile.  `IInv` puts
all values in one order: what the GPU has, then the boundaries that wait, then
those in the ring with the destroys among them (`QueueInOrder`, `PendInOrder`,
`RingInOrder`).  Then a frame knows the last submission that used its command
buffer (`FramesKnown`), and what an item waits for is past all that use it
(`ItemWaits`).

`DiscReadsProofs`: any slots, requests, KAPCs and events, any depth of nested APCs, any
length of the reader's queue and any number of threads ever created.

| theorem | statement |
|---|---|
| `Invariant` | `Spec => []IInv` |
| `TypeCorrect` | `Spec => []TypeOK`: `busy` counts the jobs, and each pending request has the one job |
| `ContextsAreExact` | `Spec => []ContextsExact` |
| `ApcsAreKept` | `Spec => []ApcsKept` |
| `PromiseKept` | `Spec => KeepsPromise`: every step is a step of `OverlappedReads` or a stutter |

The one assumption that the code has no line for is that a request is not an event
and that neither is one of the marks `"sleep"` and `"nothing"`: they are different
things of the kernel, kept in one field of the model.

A completion goes through four functions (the status and the event, the walk of the
waits, `nc_ke_wake`, `nc_apc_queue`), and each works on the kernel the last one left.
So the invariant is said of any kernel and any reader (`Good(s, rd)`), each function
has a lemma that it keeps it, and an action is their composition; only at the end is
it said of the variables.  `ThreadsInv` is about the threads alone.  The context of a
thread is the live one or the saved one, by the phase and by who runs, and each chain
must nest against that one (`NestsOk`); that nobody waits alertably with an APC that
could run (`NoneMissed`) is kept because an alertable wait begins only with none and
`nc_apc_queue` runs what comes to a thread that waits.  A synchronous read writes
into a saved context: this is sound because reads complete only with the live context
at rest or its thread running (`PollOk`), the very guard of `Poll`, and because a job
names the slot of the thread that asked for as long as that thread has one
(`JobThreads`), which needs that ids are never given twice (`IdsOk`).  A request is
pending just while it has a job (`JobsOk`), and not queued meanwhile
(`PendingUnqueued`), so that its APC, when it comes, is in no queue yet.

For the refinement, who asked is read off the one job of a request, and what a thread
is owed off the queue of the slot with its id.  Each action's lemma says, beside that
it keeps the invariant, what it changes of these (`SameThreads`, `OnlyQueue`, `Given`,
`Started`, `FreedSlot`), and the lemmas `...Maps` take that to a step of
`OverlappedReads`: nothing else of fifteen actions matters to it.

Only model-checked: all liveness (fairness and `ENABLED` are beyond the prover);
and everything in `Targets`.

## 7 What is not modelled, and why

- *Scheduler*: priority changes, suspension, `APC_LEVEL`, the 30 s idle stop; thread
  creation and end are in `DiscReads`.  *Dispatcher*: alertable waits (in
  `DiscReads`), handles, the spin of a zero-timeout poll; abandoned mutants, which
  this kernel does not have.  *Clock*: pauses, the idle scheduler.
- *Apc, DiscReads*: `NtQueueApcThread` by handle (its APC behaves as a read's does),
  `NtUserIoApcDispatcher` (a call out of the kernel), an APC queue that cannot
  grow, writes, directories, the drive's timing.
- *Pause*: masked lines, and what the decoder does until it parks.
- *StateCache*: the file format, folders and their attributes, the raw heads of
  partitions, compression, the death of the machine.
- *Timeline, RenderThread*: a full landing queue (`LAND_MAX`; `coh_land` asks for room
  first), presentation, GPU gaps, the decoder's own waits for
  landings, `coh_wait`.  A visibility report whose device is lost is given when the
  ring dries, as in the code; what it then says is not modelled.
- Integer widths: semaphore counts and times are small naturals, so the overflow
  of `old + count` (`ke.c:746`), which for a count near `INT_MAX` passes the limit
  check, is not met.  The ring's positions do go round.
- The bounds of the timer and DPC tables (`timer.c:299`, `timer.c:104`).
- Kernel calls that fault on a paged-out page and run again
  (`kernel.c:1233`): each call would have to be modelled access by access.
- *Targets*: targets that overlap, or whose first and last pages a neighbour
  shares (hashes in `coh_mem_newer`), twins and views of one memory, copies queued
  into it (`mem_pend`), the frame on screen, no room for a landing, reports; the
  catch-up of a store with draws not yet decoded, of which the model has the
  stores that wait for their draws.  That accesses end is not checked: under
  fairness the three draws that the other properties need are beyond the time of a
  run.  A page's protection and its mark (`wp`) are one step (section 5).
- The push buffer's decoder, drawing, shaders and textures: a sequential
  translation of data, by far the larger part of the source.
- Devices, networking, loaders, the app: register models, host I/O and
  data translation, in which no order between actors carries the result; the
  devices appear as lines that rise at any time and as threads that park.
- FEX, the DSP and voice processor, and other vendored code: outside the
  repository's own logic.
